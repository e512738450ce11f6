------------------------------ MODULE Terminal ------------------------------
(***************************************************************************)
(* The terminal (tty.c): a task prints with terminal_print and is          *)
(* interrupted by timer_callback and keyboard_handler, which print as      *)
(* well.  Row, column and screen are shared and nothing protects them.     *)
(*                                                                         *)
(* Handlers run with interrupts disabled and are one step.  The task's     *)
(* terminal_putchar is one step per access of terminal_row,                *)
(* terminal_column or the screen: the kernel is compiled without           *)
(* optimisation, so ++v == LIMIT loads v, stores v + 1 and loads v again   *)
(* to compare.  pc names the next access.                                  *)
(***************************************************************************)
EXTENDS Integers, Sequences, FiniteSets, SequencesExt

CONSTANTS
    VGA_WIDTH, VGA_HEIGHT,
    Mapped,                    \* cells of the one page init_paging maps at 0xb8000
    TaskTexts, HandlerTexts,   \* what tasks and handlers print
    MaxPrinted, MaxNewlines, MaxInterrupts      \* bounds

NL == "newline"
Blank == " "
Cells == 0 .. Mapped - 1
Texts == TaskTexts \cup HandlerTexts
Chars == (UNION {ToSet(t) : t \in Texts}) \ {NL}

ASSUME SizeAssumption ==
    /\ {VGA_WIDTH, VGA_HEIGHT} \subseteq Nat \ {0}
    /\ Mapped \in Nat /\ Mapped >= VGA_WIDTH * VGA_HEIGHT
\* Blank stands for a cell nothing has been printed to.
ASSUME TextAssumption == Texts \subseteq Seq(Chars \cup {NL}) /\ Blank \notin Chars
ASSUME BoundAssumption == {MaxPrinted, MaxNewlines, MaxInterrupts} \subseteq Nat

VARIABLES
    terminal_row, terminal_column,
    screen,                \* the cells of the mapped page
    pc, text,              \* the task: control point, what it has still to print
    reg,                   \* its arguments x and y of terminal_put_at, and a value v
    printed,               \* history: the characters written, in order
    newlines, interrupts,  \* history: newlines asked for, interrupts taken
    filled,                \* history: a line has been filled to its end
    torn                   \* history: what interrupts within terminal_putchar may cost

cursor == <<terminal_row, terminal_column, filled>>
past   == <<printed, newlines, interrupts, torn>>
vars   == <<cursor, screen, pc, text, reg, past>>

\* init_terminal.
Init ==
    /\ terminal_row = 0 /\ terminal_column = 0
    /\ screen = [i \in Cells |-> Blank]
    /\ pc = "next" /\ text = << >>
    /\ reg = [x |-> 0, y |-> 0, v |-> 0]
    /\ printed = << >> /\ newlines = 0 /\ interrupts = 0 /\ torn = 0
    /\ filled = FALSE

Visible(t)  == Cardinality({i \in 1 .. Len(t) : t[i] # NL})
Newlines(t) == Len(t) - Visible(t)

Fits(t) ==
    /\ Len(printed) + Visible(text) + Visible(t) <= MaxPrinted
    /\ newlines + Newlines(t) <= MaxNewlines

index(col, row) == row * VGA_WIDTH + col

-----------------------------------------------------------------------------
(***************************************************************************)
(* terminal_putchar without an interrupt, on a terminal t.  A write beyond *)
(* the mapped page is a page fault, which hangs the kernel.                *)
(***************************************************************************)
Advance(t) ==
    IF t.column + 1 # VGA_WIDTH
    THEN [t EXCEPT !.column = @ + 1]
    ELSE [t EXCEPT !.column = 0, !.row = IF @ + 1 = VGA_HEIGHT THEN 0 ELSE @ + 1,
                   !.filled = TRUE]

terminal_putchar(t, c) ==
    IF t.fault THEN t
    ELSE IF c = NL THEN [t EXCEPT !.row = @ + 1, !.column = 0]
    ELSE IF index(t.column, t.row) \notin Cells THEN [t EXCEPT !.fault = TRUE]
    ELSE Advance([t EXCEPT !.screen[index(t.column, t.row)] = c, !.printed = Append(@, c)])

terminal_write(t, data) == FoldLeft(terminal_putchar, t, data)

Terminal ==
    [row |-> terminal_row, column |-> terminal_column, screen |-> screen,
     printed |-> printed, fault |-> FALSE, filled |-> filled]

\* A handler prints data; the task resumes where it was.
Interrupt ==
    /\ pc # "fault" /\ interrupts < MaxInterrupts
    /\ \E data \in HandlerTexts :
          /\ Fits(data)
          /\ LET t == terminal_write(Terminal, data) IN
                /\ terminal_row' = t.row /\ terminal_column' = t.column /\ filled' = t.filled
                /\ screen' = t.screen /\ printed' = t.printed
                /\ pc' = IF t.fault THEN "fault" ELSE pc
          /\ newlines' = newlines + Newlines(data)
          /\ torn' = torn + (IF pc = "next" THEN 0 ELSE Len(data))
    /\ interrupts' = interrupts + 1
    /\ UNCHANGED <<text, reg>>

-----------------------------------------------------------------------------
\* The task calls terminal_print.
terminal_print ==
    /\ pc = "next" /\ text = << >>
    /\ text' \in {t \in TaskTexts : Fits(t)}
    /\ newlines' = newlines + Newlines(text')
    /\ UNCHANGED <<cursor, screen, pc, reg, printed, interrupts, torn>>

(***************************************************************************)
(* One access at a time: load a value into a register, store row or        *)
(* column, or compare, where going to "next" is the return of a call of    *)
(* terminal_putchar.                                                       *)
(***************************************************************************)
Goto(from, to) ==
    /\ pc = from /\ pc' = to
    /\ text' = IF to = "next" THEN Tail(text) ELSE text

Load(from, to, r, value) ==
    /\ Goto(from, to)
    /\ reg' = [reg EXCEPT ![r] = value]
    /\ UNCHANGED <<cursor, screen, past>>

Store(from, to, row, column) ==
    /\ Goto(from, to)
    /\ terminal_row' = row /\ terminal_column' = column
    /\ filled' = (filled \/ column = VGA_WIDTH)
    /\ UNCHANGED <<screen, reg, past>>

Compare(from, equal, to) ==
    /\ Goto(from, IF equal THEN to ELSE "next")
    /\ UNCHANGED <<cursor, screen, reg, past>>

Prints(newline) == text # << >> /\ (Head(text) = NL) = newline

\* terminal_row++; terminal_column = 0
LoadRowNewline    == Prints(TRUE) /\ Load("next", "nl_store", "v", terminal_row)
StoreRowNewline_return == Store("nl_store", "nl_column", reg.v, terminal_column)
StoreRowNewline   == Store("nl_store", "nl_column", reg.v + 1, terminal_column)
ZeroColumnNewline == Store("nl_column", "next", terminal_row, 0)

\* terminal_put_at(c, terminal_column, terminal_row): the last argument first.
FetchRow    == Prints(FALSE) /\ Load("next", "fetch_column", "y", terminal_row)
FetchColumn == Load("fetch_column", "put", "x", terminal_column)

PutAt ==
    /\ IF index(reg.x, reg.y) \in Cells
       THEN /\ Goto("put", "load_column")
            /\ screen' = [screen EXCEPT ![index(reg.x, reg.y)] = Head(text)]
            /\ printed' = Append(printed, Head(text))
       ELSE Goto("put", "fault") /\ UNCHANGED <<screen, printed>>
    /\ UNCHANGED <<cursor, reg, newlines, interrupts, torn>>

\* if (++terminal_column == VGA_WIDTH) terminal_column = 0 ...
LoadColumn    == Load("load_column", "store_column", "v", terminal_column)
StoreColumn   == Store("store_column", "compare_column", terminal_row, reg.v + 1)
CompareColumn_late == Compare("compare_column", terminal_column > VGA_WIDTH, "zero_column")
CompareColumn == Compare("compare_column", terminal_column = VGA_WIDTH, "zero_column")
ZeroColumn    == Store("zero_column", "load_row", terminal_row, 0)

\* ... if (++terminal_row == VGA_HEIGHT) terminal_row = 0
LoadRow    == Load("load_row", "store_row", "v", terminal_row)
StoreRow   == Store("store_row", "compare_row", reg.v + 1, terminal_column)
CompareRow == Compare("compare_row", terminal_row = VGA_HEIGHT, "zero_row")
ZeroRow    == Store("zero_row", "next", 0, terminal_column)

\* Tasks that do not print, or the hang of page_fault_handler.
Quiet == (pc = "fault" \/ (pc = "next" /\ text = << >>)) /\ UNCHANGED vars

Newline == LoadRowNewline \/ StoreRowNewline \/ ZeroColumnNewline
Put     == FetchRow \/ FetchColumn \/ PutAt
Step    == LoadColumn \/ StoreColumn \/ CompareColumn \/ ZeroColumn
Wrap    == LoadRow \/ StoreRow \/ CompareRow \/ ZeroRow

Next == terminal_print \/ Newline \/ Put \/ Step \/ Wrap \/ Interrupt \/ Quiet

Spec == Init /\ [][Next]_vars

-----------------------------------------------------------------------------
\* Without newlines, and with interrupts between characters only, the screen is
\* a ring of VGA_WIDTH * VGA_HEIGHT cells that shows the last characters
\* printed by tasks and handlers together, the cursor is behind them, and
\* nothing is written beyond the mapped page.
Size == VGA_WIDTH * VGA_HEIGHT
RingOfLastCharacters ==
    newlines = 0 /\ torn = 0 =>
        /\ pc # "fault"
        /\ \A k \in 1 .. Len(printed) :
              k > Len(printed) - Size => screen[(k - 1) % Size] = printed[k]
        /\ pc = "next" =>
              index(terminal_column, terminal_row) = Len(printed) % Size

\* What an interrupt costs: as long as no line has been filled to its end, over any
\* number of lines, the characters that have been overwritten are at most as many as
\* the interrupts within terminal_putchar printed, although each of them moves the
\* cursor that the task has read or is about to store.
LossBounded ==
    ~filled =>
        Len(printed) <= Cardinality({i \in Cells : screen[i] # Blank}) + torn

\* What the mapping of the VGA buffer is for: writing to the terminal does
\* not fault.
NoPageFault == pc # "fault"
=============================================================================
