--------------------------- MODULE TerminalProofs ---------------------------
(***************************************************************************)
(* Proofs about the terminal, for every size of the screen and whatever    *)
(* tasks and handlers print: what an interrupt within terminal_putchar may *)
(* cost, and what the screen shows when there is none.                     *)
(***************************************************************************)
EXTENDS Terminal, FiniteSetTheorems, WellFoundedInduction, TLAPS

Control == {"next", "nl_store", "nl_column", "fetch_column", "put", "load_column",
            "store_column", "compare_column", "zero_column", "load_row", "store_row",
            "compare_row", "zero_row", "fault"}

Screens == [Cells -> Chars \cup {Blank}]

\* The type of every variable; within a call the task has a character to print.
TypeOK ==
    /\ terminal_row \in Nat /\ terminal_column \in Nat
    /\ screen \in Screens
    /\ pc \in Control
    /\ text \in Seq(Chars \cup {NL})
    /\ reg \in [x : Nat, y : Nat, v : Nat]
    /\ printed \in Seq(Chars)
    /\ newlines \in Nat /\ interrupts \in Nat /\ torn \in Nat
    /\ filled \in BOOLEAN
    /\ pc \notin {"next", "fault"} => text # << >>
    /\ pc \notin {"next", "fault", "nl_store", "nl_column"} => Head(text) # NL

(***************************************************************************)
(* Cells that show a character, and those among them that are at position  *)
(* e or behind, where the next characters will be written over them.       *)
(***************************************************************************)
Shown(s) == {i \in Cells : s[i] # Blank}
Ahead(s, e) == {i \in Shown(s) : e <= i}
HowMany(S) == Cardinality(S)

\* Where the cursor will be when the task has finished its call.
PositionAt(at, row, column, v) ==
    CASE at = "nl_store"     -> (v + 1) * VGA_WIDTH
      [] at = "nl_column"    -> row * VGA_WIDTH
      [] at = "load_column"  -> row * VGA_WIDTH + column + 1
      [] at = "store_column" -> row * VGA_WIDTH + v + 1
      [] at = "fault"        -> Mapped
      [] OTHER               -> row * VGA_WIDTH + column

Position == PositionAt(pc, terminal_row, terminal_column, reg.v)

\* The task is about to write elsewhere than at the cursor.
Astray ==
    \/ pc = "fetch_column" /\ reg.y # terminal_row
    \/ pc = "put" /\ index(reg.x, reg.y) # index(terminal_column, terminal_row)

Stray == IF Astray THEN 1 ELSE 0

\* The cursor is on a line, and will be or will be at its end once a column that has
\* been loaded is stored.
Columns ==
    /\ terminal_column < VGA_WIDTH
    /\ pc = "store_column" => reg.v < VGA_WIDTH

\* Characters printed, and those that will still be written over, are paid for
\* by what is shown and by torn calls.
Paid == Len(printed) + HowMany(Ahead(screen, Position)) + Stray <= HowMany(Shown(screen)) + torn

\* As long as no line has been filled to its end.
CostInv ==
    ~filled =>
        /\ pc \notin {"zero_column", "load_row", "store_row", "compare_row", "zero_row"}
        /\ Columns
        /\ Paid

(***************************************************************************)
(* Without newlines and torn calls: the cursor, at each control point of   *)
(* terminal_putchar, behind the n characters printed so far.               *)
(***************************************************************************)
At(row, column, n) ==
    /\ row < VGA_HEIGHT /\ column < VGA_WIDTH
    /\ index(column, row) = n % Size

ShowsLast(s, p) == \A k \in 1 .. Len(p) : k > Len(p) - Size => s[(k - 1) % Size] = p[k]

InRing ==
    /\ pc \notin {"fault", "nl_store", "nl_column"}
    /\ \A i \in 1 .. Len(text) : text[i] # NL
    /\ ShowsLast(screen, printed)
    /\ pc \in {"next", "fetch_column", "put"} =>
          At(terminal_row, terminal_column, Len(printed))
    /\ pc \in {"fetch_column", "put"} => reg.y = terminal_row
    /\ pc = "put" => reg.x = terminal_column
    /\ pc \notin {"next", "fetch_column", "put"} => Len(printed) > 0
    /\ pc \in {"load_column", "store_column"} =>
          At(terminal_row, terminal_column, Len(printed) - 1)
    /\ pc = "store_column" => reg.v = terminal_column
    /\ pc = "compare_column" =>
          terminal_column > 0 /\ At(terminal_row, terminal_column - 1, Len(printed) - 1)
    /\ pc \in {"zero_column", "load_row", "store_row"} =>
          At(terminal_row, VGA_WIDTH - 1, Len(printed) - 1)
    /\ pc \in {"load_row", "store_row", "compare_row", "zero_row"} => terminal_column = 0
    /\ pc = "store_row" => reg.v = terminal_row
    /\ pc \in {"compare_row", "zero_row"} =>
          terminal_row > 0 /\ At(terminal_row - 1, VGA_WIDTH - 1, Len(printed) - 1)
    /\ pc = "zero_row" => terminal_row = VGA_HEIGHT

RingInv == newlines = 0 /\ torn = 0 => InRing

IInv == TypeOK /\ CostInv /\ RingInv

-----------------------------------------------------------------------------
\* Every nonempty set of natural numbers has a least element.
LEMMA LeastElement ==
  ASSUME NEW T \in SUBSET Nat, T # {}
  PROVE  \E m \in T : \A k \in T : m <= k
<1>. DEFINE R == {ss \in Nat \X Nat : ss[1] < ss[2]}
<1>1. IsWellFoundedOn(R, Nat)
  BY NatLessThanWellFounded DEF OpToRel
<1>2. PICK m \in T : \A k \in T : ~ (<<k, m>> \in R)
  <2>. HIDE DEF R
  <2>1. QED
    BY <1>1, WFMin
<1>3. ASSUME NEW k \in T PROVE m <= k
  <2>1. m \in Nat /\ k \in Nat /\ ~ (<<k, m>> \in R)
    BY <1>2
  <2>2. ~ (k < m)
    BY <2>1
  <2>3. QED
    BY <2>1, <2>2
<1>4. QED
  BY <1>3

-----------------------------------------------------------------------------
(***************************************************************************)
(* terminal_write prints one character after the other.  FoldLeft is a     *)
(* recursive function of sets of indices; that it exists follows from the  *)
(* least length for which it would not.                                    *)
(***************************************************************************)

LEMMA MaxIn ==
  ASSUME NEW n \in Nat, NEW s \in SUBSET (1 .. n), s # {}
  PROVE  Max(s) \in s /\ \A i \in s : i <= Max(s)
<1>. DEFINE T == {k \in Nat : n - k \in s}
<1>1. T # {}
  <2>1. PICK i \in s : TRUE
    OBVIOUS
  <2>2. n - i \in Nat /\ n - (n - i) = i
    OBVIOUS
  <2>3. QED
    BY <2>1, <2>2
<1>2. PICK k \in T : \A j \in T : k <= j
  <2>1. T \in SUBSET Nat
    OBVIOUS
  <2>. HIDE DEF T
  <2>2. QED
    BY <1>1, <2>1, LeastElement
<1>3. \A i \in s : i <= n - k
  <2>1. SUFFICES ASSUME NEW i \in s PROVE i <= n - k
    OBVIOUS
  <2>2. n - i \in Nat /\ n - (n - i) = i
    OBVIOUS
  <2>3. n - i \in T /\ k \in Nat
    BY <2>2
  <2>4. k <= n - i
    BY <1>2, <2>3
  <2>5. QED
    BY <2>2, <2>3, <2>4
<1>4. n - k \in s /\ \A i \in s : n - k >= i
  BY <1>3
<1>5. Max(s) \in s /\ \A i \in s : Max(s) >= i
  BY <1>4 DEF Max
<1>6. QED
  BY <1>5

\* h folds data into t.
IsFold(h, t, data) ==
    h = [s \in SUBSET DOMAIN data |->
            IF s = {} THEN t ELSE terminal_putchar(h[s \ {Max(s)}], data[Max(s)])]

LEMMA WriteIs ==
  ASSUME NEW t, NEW data
  PROVE  terminal_write(t, data) = (CHOOSE h : IsFold(h, t, data))[DOMAIN data]
BY DEF terminal_write, FoldLeft, MapThenFoldSet, IsFold

\* h folds the parts of data that the sets of indices in L say.
Folds(h, t, data, L) ==
    \A s \in L : h[s] = IF s = {} THEN t ELSE terminal_putchar(h[s \ {Max(s)}], data[Max(s)])

LEMMA FoldExists ==
  ASSUME NEW t, NEW data, NEW n \in Nat
  PROVE  \E h : /\ h = [s \in SUBSET (1 .. n) |-> h[s]]
                /\ Folds(h, t, data, SUBSET (1 .. n))
<1>. DEFINE Good(h, m) == /\ h = [s \in SUBSET (1 .. m) |-> h[s]]
                          /\ Folds(h, t, data, SUBSET (1 .. m))
            T == {m \in Nat : ~ \E h : Good(h, m)}
<1>1. T = {}
  <2>. SUFFICES ASSUME T # {} PROVE FALSE
    OBVIOUS
  <2>1. PICK m \in T : \A k \in T : m <= k
    <3>1. T \in SUBSET Nat
      OBVIOUS
    <3>. HIDE DEF T
    <3>2. QED
      BY <3>1, LeastElement
  <2>2. m \in Nat /\ ~ \E h : Good(h, m)
    OBVIOUS
  <2>3. CASE m = 0
    <3>. DEFINE h == [s \in SUBSET (1 .. m) |-> t]
    <3>1. \A s \in SUBSET (1 .. m) : s = {}
      BY <2>3
    <3>2. Folds(h, t, data, SUBSET (1 .. m))
      BY <3>1 DEF Folds
    <3>3. h = [s \in SUBSET (1 .. m) |-> h[s]]
      OBVIOUS
    <3>. HIDE DEF h
    <3>4. QED
      BY <2>2, <3>2, <3>3
  <2>4. CASE m # 0
    <3>1. m - 1 \in Nat /\ ~ (m <= m - 1)
      BY <2>2, <2>4
    <3>2. m - 1 \notin T
      <4>. HIDE DEF T
      <4>1. QED
        BY <2>1, <3>1
    <3>3. PICK h : Folds(h, t, data, SUBSET (1 .. m - 1))
      BY <3>1, <3>2
    <3>. DEFINE val(f, s) == IF s = {} THEN t ELSE terminal_putchar(f[s \ {Max(s)}], data[Max(s)])
                g == [s \in SUBSET (1 .. m) |-> val(h, s)]
    <3>4. ASSUME NEW s \in SUBSET (1 .. m), s # {}
          PROVE  s \ {Max(s)} \in SUBSET (1 .. m - 1)
      <4>1. Max(s) \in s /\ \A i \in s : i <= Max(s)
        BY <2>2, <3>4, MaxIn
      <4>2. \A i \in s \ {Max(s)} : i \in 1 .. m - 1
        BY <2>2, <4>1
      <4>3. QED
        BY <4>2
    <3>5. \A s \in SUBSET (1 .. m - 1) : s \in SUBSET (1 .. m)
      BY <2>2
    <3>6. \A s \in SUBSET (1 .. m - 1) : g[s] = h[s]
      <4>1. \A s \in SUBSET (1 .. m - 1) : h[s] = val(h, s)
        BY <3>3 DEF Folds
      <4>. HIDE DEF val
      <4>2. QED
        BY <3>5, <4>1
    <3>7. ASSUME NEW s \in SUBSET (1 .. m) PROVE g[s] = val(g, s)
      <4>1. g[s] = val(h, s)
        <5>. HIDE DEF val
        <5>1. QED
          OBVIOUS
      <4>2. CASE s = {}
        BY <4>1, <4>2
      <4>3. CASE s # {}
        <5>1. g[s \ {Max(s)}] = h[s \ {Max(s)}]
          <6>. HIDE DEF g
          <6>1. QED
            BY <3>4, <3>6, <4>3
        <5>. HIDE DEF g
        <5>2. QED
          BY <4>1, <4>3, <5>1
      <4>4. QED
        BY <4>2, <4>3
    <3>8. g = [s \in SUBSET (1 .. m) |-> g[s]]
      <4>. HIDE DEF val
      <4>1. QED
        OBVIOUS
    <3>9. Folds(g, t, data, SUBSET (1 .. m))
      <4>. HIDE DEF g
      <4>1. QED
        BY <3>7 DEF Folds
    <3>10. QED
      <4>. HIDE DEF g
      <4>1. QED
        BY <2>2, <3>8, <3>9
  <2>5. QED
    BY <2>3, <2>4
<1>2. QED
  BY <1>1

\* w[i] is the terminal after the first i characters of data.
Written(w, t, data) ==
    /\ w[0] = t
    /\ \A i \in 1 .. Len(data) : w[i] = terminal_putchar(w[i - 1], data[i])
    /\ terminal_write(t, data) = w[Len(data)]

LEMMA WriteSteps ==
  ASSUME NEW t, NEW S, NEW data \in Seq(S)
  PROVE  \E w : Written(w, t, data)
<1>. DEFINE n == Len(data)
            H == CHOOSE h : IsFold(h, t, data)
            w == [i \in 0 .. n |-> H[1 .. i]]
<1>1. n \in Nat /\ DOMAIN data = 1 .. n
  OBVIOUS
<1>. HIDE DEF n
<1>2. PICK h : /\ h = [s \in SUBSET (1 .. n) |-> h[s]]
               /\ Folds(h, t, data, SUBSET (1 .. n))
  BY <1>1, FoldExists
<1>3. IsFold(h, t, data)
  BY <1>1, <1>2 DEF Folds, IsFold
<1>4. IsFold(H, t, data)
  BY <1>3
<1>. HIDE DEF H
<1>5. \A s \in SUBSET (1 .. n) :
        H[s] = IF s = {} THEN t ELSE terminal_putchar(H[s \ {Max(s)}], data[Max(s)])
  BY <1>1, <1>4 DEF IsFold
<1>6. w[0] = t
  <2>1. 1 .. 0 = {} /\ {} \in SUBSET (1 .. n) /\ 0 \in 0 .. n
    BY <1>1
  <2>2. H[{}] = t
    BY <1>5, <2>1
  <2>3. QED
    BY <2>1, <2>2
<1>7. ASSUME NEW i \in 1 .. n PROVE w[i] = terminal_putchar(w[i - 1], data[i])
  <2>1. 1 .. i \in SUBSET (1 .. n) /\ 1 .. i # {} /\ i \in Nat /\ i \in 1 .. i
    BY <1>1
  <2>2. Max(1 .. i) \in 1 .. i /\ \A j \in 1 .. i : j <= Max(1 .. i)
    BY <2>1, MaxIn
  <2>3. Max(1 .. i) = i
    BY <2>1, <2>2
  <2>4. (1 .. i) \ {i} = 1 .. (i - 1)
    BY <2>1
  <2>5. H[1 .. i] = terminal_putchar(H[1 .. (i - 1)], data[i])
    BY <1>5, <2>1, <2>3, <2>4
  <2>6. w[i] = H[1 .. i] /\ w[i - 1] = H[1 .. (i - 1)]
    BY <1>1
  <2>. HIDE DEF w
  <2>7. QED
    BY <2>5, <2>6
<1>8. terminal_write(t, data) = w[n]
  BY <1>1, WriteIs DEF H
<1>. HIDE DEF w
<1>9. QED
  BY <1>6, <1>7, <1>8 DEF Written, n

-----------------------------------------------------------------------------
(***************************************************************************)
(* One character.                                                          *)
(***************************************************************************)
TermType == [row : Nat, column : Nat, screen : Screens, printed : Seq(Chars), fault : BOOLEAN,
             filled : BOOLEAN]

Place(t) == index(t.column, t.row)

\* u is t with a newline, with a page fault, or with c at the cursor.
Newlined(t, u) ==
    /\ u.row = t.row + 1 /\ u.column = 0
    /\ u.screen = t.screen /\ u.printed = t.printed /\ u.fault = t.fault
    /\ u.filled = t.filled

Faulted(t, u) ==
    /\ Place(t) \notin Cells
    /\ u.row = t.row /\ u.column = t.column
    /\ u.screen = t.screen /\ u.printed = t.printed /\ u.fault
    /\ u.filled = t.filled

Printed(t, c, u) ==
    /\ Place(t) \in Cells
    /\ u.screen = [t.screen EXCEPT ![Place(t)] = c]
    /\ u.printed = Append(t.printed, c)
    /\ ~u.fault
    /\ IF t.column + 1 # VGA_WIDTH
       THEN u.row = t.row /\ u.column = t.column + 1 /\ u.filled = t.filled
       ELSE /\ u.row = (IF t.row + 1 = VGA_HEIGHT THEN 0 ELSE t.row + 1)
            /\ u.column = 0 /\ u.filled

LEMMA Sizes ==
  /\ VGA_WIDTH \in Nat \ {0} /\ VGA_HEIGHT \in Nat \ {0} /\ Mapped \in Nat
  /\ Size \in Nat \ {0} /\ Size <= Mapped /\ Size = VGA_HEIGHT * VGA_WIDTH
  /\ Blank \notin Chars /\ NL \notin Chars
<1>1. /\ VGA_WIDTH \in Nat \ {0} /\ VGA_HEIGHT \in Nat \ {0} /\ Mapped \in Nat
      /\ Size <= Mapped
  BY SizeAssumption DEF Size
<1>2. Size \in Nat \ {0} /\ Size = VGA_HEIGHT * VGA_WIDTH
  BY <1>1 DEF Size
<1>3. Blank \notin Chars
  BY TextAssumption
<1>4. NL \notin Chars
  BY DEF Chars
<1>5. QED
  BY <1>1, <1>2, <1>3, <1>4

LEMMA PutcharIs ==
  ASSUME NEW t \in TermType, NEW c \in Chars \cup {NL}
  PROVE  LET u == terminal_putchar(t, c) IN
           /\ u \in TermType
           /\ t.fault => u = t
           /\ ~t.fault =>
                \/ c = NL /\ Newlined(t, u)
                \/ c # NL /\ Faulted(t, u)
                \/ c # NL /\ Printed(t, c, u)
<1>. DEFINE u == terminal_putchar(t, c)
            p == [t EXCEPT !.screen[Place(t)] = c, !.printed = Append(@, c)]
<1>1. /\ t.row \in Nat /\ t.column \in Nat /\ t.screen \in Screens
      /\ t.printed \in Seq(Chars) /\ t.fault \in BOOLEAN /\ t.filled \in BOOLEAN
      /\ t = [row |-> t.row, column |-> t.column, screen |-> t.screen,
              printed |-> t.printed, fault |-> t.fault, filled |-> t.filled]
  BY DEF TermType
<1>2. CASE t.fault
  BY <1>2 DEF terminal_putchar
<1>3. CASE ~t.fault /\ c = NL
  <2>1. u = [t EXCEPT !.row = t.row + 1, !.column = 0]
    BY <1>3 DEF terminal_putchar
  <2>. HIDE DEF u
  <2>2. u = [row |-> t.row + 1, column |-> 0, screen |-> t.screen,
             printed |-> t.printed, fault |-> t.fault, filled |-> t.filled]
    BY <1>1, <2>1
  <2>3. u \in TermType
    BY <1>1, <2>2 DEF TermType
  <2>4. Newlined(t, u)
    BY <2>2 DEF Newlined
  <2>5. QED
    BY <1>3, <2>3, <2>4 DEF u
<1>4. CASE ~t.fault /\ c # NL /\ Place(t) \notin Cells
  <2>1. u = [t EXCEPT !.fault = TRUE]
    BY <1>4 DEF terminal_putchar, Place
  <2>2. u \in TermType /\ Faulted(t, u)
    BY <1>1, <1>4, <2>1 DEF TermType, Faulted
  <2>3. QED
    BY <1>4, <2>2
<1>5. CASE ~t.fault /\ c # NL /\ Place(t) \in Cells
  <2>1. u = Advance(p)
    BY <1>5 DEF terminal_putchar, Place
  <2>2. c \in Chars
    BY <1>5
  <2>3. /\ p \in TermType /\ p.row = t.row /\ p.column = t.column /\ p.fault = t.fault
        /\ p.filled = t.filled
        /\ p.screen = [t.screen EXCEPT ![Place(t)] = c] /\ p.printed = Append(t.printed, c)
    <3>1. [t.screen EXCEPT ![Place(t)] = c] \in Screens
      BY <1>1, <2>2 DEF Screens
    <3>2. Append(t.printed, c) \in Seq(Chars)
      BY <1>1, <2>2
    <3>3. p = [row |-> t.row, column |-> t.column, screen |-> [t.screen EXCEPT ![Place(t)] = c],
               printed |-> Append(t.printed, c), fault |-> t.fault, filled |-> t.filled]
      <4>1. p = [t EXCEPT !.screen = [t.screen EXCEPT ![Place(t)] = c],
                          !.printed = Append(t.printed, c)]
        BY DEF TermType
      <4>. HIDE DEF p
      <4>2. QED
        BY <1>1, <4>1
    <3>. HIDE DEF p
    <3>4. p \in TermType
      BY <1>1, <3>1, <3>2, <3>3 DEF TermType
    <3>5. /\ p.row = t.row /\ p.column = t.column /\ p.fault = t.fault
          /\ p.filled = t.filled
          /\ p.screen = [t.screen EXCEPT ![Place(t)] = c] /\ p.printed = Append(t.printed, c)
      BY <3>3
    <3>6. QED
      BY <3>4, <3>5
  <2>. HIDE DEF p, u
  <2>4. CASE p.column + 1 # VGA_WIDTH
    <3>1. u = [p EXCEPT !.column = p.column + 1]
      BY <2>1, <2>4 DEF Advance
    <3>2. u \in TermType
      BY <2>3, <3>1 DEF TermType
    <3>3. /\ u.row = t.row /\ u.column = t.column + 1 /\ u.fault = t.fault
          /\ u.filled = t.filled
          /\ u.screen = p.screen /\ u.printed = p.printed
      BY <2>3, <3>1 DEF TermType
    <3>4. Printed(t, c, u)
      BY <1>5, <2>3, <2>4, <3>3 DEF Printed
    <3>5. QED
      BY <1>5, <3>2, <3>4 DEF u
  <2>5. CASE ~ (p.column + 1 # VGA_WIDTH)
    <3>1. u = [p EXCEPT !.column = 0, !.row = IF p.row + 1 = VGA_HEIGHT THEN 0 ELSE p.row + 1,
                        !.filled = TRUE]
      BY <2>1, <2>5 DEF Advance
    <3>2. (IF p.row + 1 = VGA_HEIGHT THEN 0 ELSE p.row + 1) \in Nat
      BY <1>1, <2>3
    <3>. DEFINE row == IF p.row + 1 = VGA_HEIGHT THEN 0 ELSE p.row + 1
    <3>3. row \in Nat /\ u = [p EXCEPT !.column = 0, !.row = row, !.filled = TRUE]
      BY <3>1, <3>2
    <3>. HIDE DEF row
    <3>4. u \in TermType
      BY <2>3, <3>3 DEF TermType
    <3>5. /\ u.row = row /\ u.column = 0 /\ u.fault = t.fault /\ u.filled
          /\ u.screen = p.screen /\ u.printed = p.printed
      BY <2>3, <3>3 DEF TermType
    <3>6. Printed(t, c, u)
      BY <1>5, <2>3, <2>5, <3>5 DEF Printed, row
    <3>7. QED
      BY <1>5, <3>4, <3>6 DEF u
  <2>6. QED
    BY <2>4, <2>5
<1>6. QED
  <2>. HIDE DEF u
  <2>1. QED
    BY <1>2, <1>3, <1>4, <1>5 DEF u

\* What a handler prints leaves a terminal.
LEMMA WriteType ==
  ASSUME NEW t \in TermType, NEW data \in Seq(Chars \cup {NL}), NEW w, Written(w, t, data)
  PROVE  \A i \in 0 .. Len(data) : w[i] \in TermType
<1>. DEFINE T == {i \in Nat : i <= Len(data) /\ w[i] \notin TermType}
<1>1. T = {}
  <2>. SUFFICES ASSUME T # {} PROVE FALSE
    OBVIOUS
  <2>1. PICK m \in T : \A k \in T : m <= k
    <3>1. T \in SUBSET Nat
      OBVIOUS
    <3>. HIDE DEF T
    <3>2. QED
      BY <3>1, LeastElement
  <2>2. m # 0 /\ m \in 1 .. Len(data)
    BY DEF Written
  <2>3. m - 1 \in Nat /\ m - 1 \notin T
    <3>1. m - 1 \in Nat /\ ~ (m <= m - 1)
      BY <2>2
    <3>. HIDE DEF T
    <3>2. QED
      BY <2>1, <3>1
  <2>4. w[m - 1] \in TermType /\ data[m] \in Chars \cup {NL}
    BY <2>2, <2>3
  <2>5. w[m] = terminal_putchar(w[m - 1], data[m])
    BY <2>2 DEF Written
  <2>6. QED
    BY <2>4, <2>5, PutcharIs
<1>2. QED
  BY <1>1

-----------------------------------------------------------------------------
(***************************************************************************)
(* What characters cost.                                                   *)
(***************************************************************************)
LEMMA MulMono ==
  ASSUME NEW n \in Nat, NEW a \in Int, NEW b \in Int, a <= b
  PROVE  a * n <= b * n
OBVIOUS

LEMMA MulStep ==
  ASSUME NEW n \in Nat, NEW a \in Nat
  PROVE  (a + 1) * n = a * n + n /\ a * n \in Nat
OBVIOUS

LEMMA IndexIs ==
  ASSUME NEW row \in Nat, NEW column \in Nat
  PROVE  /\ index(column, row) \in Nat /\ row * VGA_WIDTH \in Nat
         /\ index(column, row) = row * VGA_WIDTH + column
         /\ (row + 1) * VGA_WIDTH = row * VGA_WIDTH + VGA_WIDTH
BY Sizes, MulStep DEF index

LEMMA CellsCounted ==
  ASSUME NEW s \in Screens, NEW e \in Nat
  PROVE  /\ IsFiniteSet(Shown(s)) /\ IsFiniteSet(Ahead(s, e))
         /\ HowMany(Shown(s)) \in Nat /\ HowMany(Ahead(s, e)) \in Nat
<1>1. IsFiniteSet(Cells)
  BY FS_Interval, Sizes DEF Cells
<1>2. Shown(s) \in SUBSET Cells /\ Ahead(s, e) \in SUBSET Shown(s)
  BY DEF Shown, Ahead
<1>3. IsFiniteSet(Shown(s))
  BY <1>1, <1>2, FS_Subset
<1>4. IsFiniteSet(Ahead(s, e))
  BY <1>2, <1>3, FS_Subset
<1>5. QED
  BY <1>3, <1>4, FS_CardinalityType DEF HowMany

\* The further the position, the less is ahead of it.
LEMMA AheadLess ==
  ASSUME NEW s \in Screens, NEW e \in Nat, NEW f \in Nat, e <= f
  PROVE  HowMany(Ahead(s, f)) <= HowMany(Ahead(s, e))
<1>1. IsFiniteSet(Ahead(s, e))
  BY CellsCounted
<1>2. Ahead(s, f) \in SUBSET Ahead(s, e)
  BY Sizes DEF Ahead, Shown, Cells
<1>3. QED
  BY <1>1, <1>2, FS_Subset DEF HowMany

\* Nothing is ahead of the end of the page.
LEMMA AheadOfAll ==
  ASSUME NEW s \in Screens
  PROVE  HowMany(Ahead(s, Mapped)) = 0
<1>1. Ahead(s, Mapped) = {}
  BY Sizes DEF Ahead, Shown, Cells
<1>2. QED
  BY <1>1, FS_EmptySet DEF HowMany

\* A character at a shows one cell more or writes over one.
LEMMA PutCost ==
  ASSUME NEW s \in Screens, NEW c \in Chars, NEW a \in Cells, NEW u, u = [s EXCEPT ![a] = c]
  PROVE  /\ u \in Screens
         /\ HowMany(Ahead(u, a + 1)) + HowMany(Shown(s)) + 1
               <= HowMany(Ahead(s, a)) + HowMany(Shown(u))
         /\ \A e \in Nat : HowMany(Ahead(u, e)) + HowMany(Shown(s))
                              <= HowMany(Ahead(s, e)) + HowMany(Shown(u))
<1>1. u \in Screens /\ a \in Nat
  BY DEF Screens, Cells
<1>2. Shown(u) = Shown(s) \cup {a}
  <2>1. c # Blank
    BY Sizes
  <2>2. \A i \in Cells : u[i] = IF i = a THEN c ELSE s[i]
    BY DEF Screens
  <2>3. QED
    BY <2>1, <2>2 DEF Shown
<1>3. IsFiniteSet(Shown(s)) /\ HowMany(Shown(s)) \in Nat /\ HowMany(Shown(u)) \in Nat
  BY <1>1, CellsCounted
<1>4. HowMany(Shown(u)) = IF a \in Shown(s) THEN HowMany(Shown(s)) ELSE HowMany(Shown(s)) + 1
  BY <1>2, <1>3, FS_AddElement DEF HowMany
<1>5. HowMany(Ahead(u, a + 1)) + HowMany(Shown(s)) + 1
        <= HowMany(Ahead(s, a)) + HowMany(Shown(u))
  <2>1. /\ IsFiniteSet(Ahead(s, a)) /\ HowMany(Ahead(s, a)) \in Nat
        /\ HowMany(Ahead(u, a + 1)) \in Nat
    BY <1>1, CellsCounted
  <2>2. Ahead(u, a + 1) = Ahead(s, a) \ {a}
    BY <1>1, <1>2, Sizes DEF Ahead, Shown, Cells
  <2>3. a \in Ahead(s, a) <=> a \in Shown(s)
    BY <1>1 DEF Ahead
  <2>4. HowMany(Ahead(u, a + 1)) =
           IF a \in Shown(s) THEN HowMany(Ahead(s, a)) - 1 ELSE HowMany(Ahead(s, a))
    BY <2>1, <2>2, <2>3, FS_RemoveElement DEF HowMany
  <2>5. QED
    BY <1>3, <1>4, <2>1, <2>4
<1>6. ASSUME NEW e \in Nat
      PROVE  HowMany(Ahead(u, e)) + HowMany(Shown(s)) <= HowMany(Ahead(s, e)) + HowMany(Shown(u))
  <2>1. /\ IsFiniteSet(Ahead(s, e)) /\ HowMany(Ahead(s, e)) \in Nat
        /\ HowMany(Ahead(u, e)) \in Nat
    BY <1>1, CellsCounted
  <2>2. CASE a \in Shown(s)
    <3>1. Ahead(u, e) = Ahead(s, e)
      BY <1>2, <2>2 DEF Ahead
    <3>2. QED
      BY <1>3, <1>4, <2>1, <2>2, <3>1
  <2>3. CASE a \notin Shown(s)
    <3>1. Ahead(u, e) \in SUBSET (Ahead(s, e) \cup {a})
      BY <1>2 DEF Ahead
    <3>2. /\ IsFiniteSet(Ahead(s, e) \cup {a})
          /\ HowMany(Ahead(s, e) \cup {a}) \in Nat
          /\ HowMany(Ahead(s, e) \cup {a}) <= HowMany(Ahead(s, e)) + 1
      <4>1. /\ IsFiniteSet(Ahead(s, e) \cup {a})
            /\ HowMany(Ahead(s, e) \cup {a}) =
                  IF a \in Ahead(s, e) THEN HowMany(Ahead(s, e)) ELSE HowMany(Ahead(s, e)) + 1
        BY <2>1, FS_AddElement DEF HowMany
      <4>2. QED
        BY <2>1, <4>1
    <3>3. HowMany(Ahead(u, e)) <= HowMany(Ahead(s, e) \cup {a})
      BY <3>1, <3>2, FS_Subset DEF HowMany
    <3>4. QED
      BY <1>3, <1>4, <2>1, <2>3, <3>2, <3>3
  <2>4. QED
    BY <2>2, <2>3
<1>7. QED
  BY <1>1, <1>5, <1>6

(***************************************************************************)
(* From t to u with i characters: at the cursor nothing is lost, and from  *)
(* any position no more than the characters printed.                       *)
(***************************************************************************)
Cheap(t, u) ==
    Len(u.printed) + HowMany(Ahead(u.screen, Place(u))) + HowMany(Shown(t.screen))
        <= Len(t.printed) + HowMany(Ahead(t.screen, Place(t))) + HowMany(Shown(u.screen))

Bounded(t, u, i) ==
    \A e \in Nat :
        Len(u.printed) + HowMany(Ahead(u.screen, e)) + HowMany(Shown(t.screen))
            <= Len(t.printed) + HowMany(Ahead(t.screen, e)) + HowMany(Shown(u.screen)) + i

Onward(t, u) ==
    /\ t.row <= u.row /\ Place(t) <= Place(u)
    /\ u.column < VGA_WIDTH

CostUpTo(t, u, i) ==
    /\ t.filled => u.filled
    /\ ~u.filled /\ t.column < VGA_WIDTH =>
          Onward(t, u) /\ Cheap(t, u) /\ Bounded(t, u, i)

LEMMA TermFacts ==
  ASSUME NEW t \in TermType
  PROVE  /\ t.row \in Nat /\ t.column \in Nat /\ t.screen \in Screens
         /\ t.printed \in Seq(Chars) /\ Len(t.printed) \in Nat
         /\ Place(t) \in Nat /\ Place(t) = t.row * VGA_WIDTH + t.column
         /\ HowMany(Shown(t.screen)) \in Nat /\ t.filled \in BOOLEAN
<1>1. /\ t.row \in Nat /\ t.column \in Nat /\ t.screen \in Screens
      /\ t.printed \in Seq(Chars) /\ t.filled \in BOOLEAN
  BY DEF TermType
<1>2. Len(t.printed) \in Nat
  BY <1>1
<1>3. Place(t) \in Nat /\ Place(t) = t.row * VGA_WIDTH + t.column
  BY <1>1, IndexIs DEF Place
<1>4. HowMany(Shown(t.screen)) \in Nat
  BY <1>1, CellsCounted
<1>5. QED
  BY <1>1, <1>2, <1>3, <1>4

LEMMA CostOfNone ==
  ASSUME NEW t \in TermType
  PROVE  CostUpTo(t, t, 0)
<1>1. /\ t.row \in Nat /\ t.column \in Nat /\ Len(t.printed) \in Nat /\ Place(t) \in Nat
      /\ HowMany(Shown(t.screen)) \in Nat /\ t.screen \in Screens
  BY TermFacts
<1>2. ASSUME t.column < VGA_WIDTH PROVE Onward(t, t)
  BY <1>1, <1>2 DEF Onward
<1>3. HowMany(Ahead(t.screen, Place(t))) \in Nat
  BY <1>1, CellsCounted
<1>4. Cheap(t, t)
  BY <1>1, <1>3 DEF Cheap
<1>5. Bounded(t, t, 0)
  <2>1. SUFFICES ASSUME NEW e \in Nat
                 PROVE  Len(t.printed) + HowMany(Ahead(t.screen, e)) + HowMany(Shown(t.screen))
                          <= Len(t.printed) + HowMany(Ahead(t.screen, e)) + HowMany(Shown(t.screen)) + 0
    BY DEF Bounded
  <2>2. HowMany(Ahead(t.screen, e)) \in Nat
    BY <1>1, CellsCounted
  <2>3. QED
    BY <1>1, <2>2
<1>6. QED
  BY <1>1, <1>2, <1>4, <1>5 DEF CostUpTo

\* A character that leaves the terminal as it is costs nothing.
LEMMA CostOfNothing ==
  ASSUME NEW t \in TermType, NEW v \in TermType, NEW u \in TermType, NEW i \in Nat,
         CostUpTo(t, v, i),
         u.row = v.row, u.column = v.column, u.screen = v.screen, u.printed = v.printed,
         u.filled = v.filled
  PROVE  CostUpTo(t, u, i + 1)
<1>1. Place(u) = Place(v)
  BY DEF Place
<1>2. t.filled => u.filled
  BY DEF CostUpTo
<1>3. SUFFICES ASSUME ~u.filled, t.column < VGA_WIDTH
               PROVE  Onward(t, u) /\ Cheap(t, u) /\ Bounded(t, u, i + 1)
  BY <1>2 DEF CostUpTo
<1>4. Onward(t, v) /\ Cheap(t, v) /\ Bounded(t, v, i)
  BY <1>3 DEF CostUpTo
<1>5. Onward(t, u) /\ Cheap(t, u)
  BY <1>1, <1>4 DEF Onward, Cheap
<1>6. ASSUME NEW e \in Nat
      PROVE  Len(u.printed) + HowMany(Ahead(u.screen, e)) + HowMany(Shown(t.screen))
               <= Len(t.printed) + HowMany(Ahead(t.screen, e)) + HowMany(Shown(u.screen)) + (i + 1)
  <2>1. Len(u.printed) + HowMany(Ahead(u.screen, e)) + HowMany(Shown(t.screen))
          <= Len(t.printed) + HowMany(Ahead(t.screen, e)) + HowMany(Shown(u.screen)) + i
    BY <1>4 DEF Bounded
  <2>2. /\ Len(u.printed) \in Nat /\ HowMany(Shown(t.screen)) \in Nat
        /\ Len(t.printed) \in Nat /\ HowMany(Shown(u.screen)) \in Nat
        /\ t.screen \in Screens /\ u.screen \in Screens
    BY TermFacts
  <2>3. HowMany(Ahead(u.screen, e)) \in Nat /\ HowMany(Ahead(t.screen, e)) \in Nat
    BY <2>2, CellsCounted
  <2>4. QED
    BY <2>1, <2>2, <2>3, SMTT(30)
<1>7. QED
  BY <1>5, <1>6 DEF Bounded

LEMMA CostOfNewline ==
  ASSUME NEW t \in TermType, NEW v \in TermType, NEW u \in TermType,
         NEW i \in Nat, CostUpTo(t, v, i), Newlined(v, u)
  PROVE  CostUpTo(t, u, i + 1)
<1>1. /\ u.row = v.row + 1 /\ u.column = 0 /\ u.screen = v.screen /\ u.printed = v.printed
      /\ u.filled = v.filled
  BY DEF Newlined
<1>2. t.filled => u.filled
  BY <1>1 DEF CostUpTo
<1>3. SUFFICES ASSUME ~u.filled, t.column < VGA_WIDTH
               PROVE  Onward(t, u) /\ Cheap(t, u) /\ Bounded(t, u, i + 1)
  BY <1>2 DEF CostUpTo
<1>4. Onward(t, v) /\ Cheap(t, v) /\ Bounded(t, v, i)
  BY <1>1, <1>3 DEF CostUpTo
<1>5. t.row <= v.row /\ Place(t) <= Place(v) /\ v.column < VGA_WIDTH
  BY <1>4 DEF Onward
<1>6. /\ t.row \in Nat /\ t.column \in Nat /\ Len(t.printed) \in Nat /\ Place(t) \in Nat
      /\ HowMany(Shown(t.screen)) \in Nat
      /\ v.row \in Nat /\ v.column \in Nat /\ Len(v.printed) \in Nat /\ Place(v) \in Nat
      /\ HowMany(Shown(v.screen)) \in Nat /\ Place(u) \in Nat
      /\ VGA_WIDTH \in Nat \ {0}
  BY TermFacts, Sizes
<1>13. t.screen \in Screens /\ v.screen \in Screens
  BY TermFacts
<1>14. Len(u.printed) = Len(v.printed) /\ HowMany(Shown(u.screen)) = HowMany(Shown(v.screen))
  BY <1>1
<1>8. Place(v) <= Place(u)
  <2>1. /\ Place(v) = v.row * VGA_WIDTH + v.column
        /\ Place(u) = (v.row + 1) * VGA_WIDTH + 0
    BY <1>1, TermFacts
  <2>. DEFINE p == Place(v)
              q == Place(u)
              x == v.row * VGA_WIDTH
              y == (v.row + 1) * VGA_WIDTH
              c == v.column
  <2>2. /\ y = x + VGA_WIDTH /\ x \in Nat /\ c \in Nat /\ VGA_WIDTH \in Nat /\ c < VGA_WIDTH
        /\ p = x + c /\ q = y + 0
    BY <1>5, <1>6, <2>1, MulStep
  <2>. HIDE DEF p, q, x, y, c
  <2>3. p <= q
    BY <2>2
  <2>4. QED
    BY <2>3 DEF p, q
<1>9. Onward(t, u)
  <2>1. t.row <= u.row /\ Place(t) <= Place(u)
    <3>. DEFINE x == Place(t)
                y == Place(v)
                z == Place(u)
    <3>1. x \in Nat /\ y \in Nat /\ z \in Nat /\ x <= y /\ y <= z
      BY <1>5, <1>6, <1>8
    <3>2. t.row <= v.row + 1
      BY <1>5, <1>6
    <3>. HIDE DEF x, y, z
    <3>3. x <= z
      BY <3>1
    <3>4. QED
      BY <1>1, <3>2, <3>3 DEF x, z
  <2>2. 0 < VGA_WIDTH
    BY <1>6
  <2>3. QED
    BY <1>1, <2>1, <2>2 DEF Onward
<1>10. Cheap(t, u)
  <2>1. HowMany(Ahead(u.screen, Place(u))) <= HowMany(Ahead(v.screen, Place(v)))
    BY <1>1, <1>6, <1>8, <1>13, AheadLess
  <2>2. /\ HowMany(Ahead(u.screen, Place(u))) \in Nat /\ HowMany(Ahead(v.screen, Place(v))) \in Nat
        /\ HowMany(Ahead(t.screen, Place(t))) \in Nat
    BY <1>1, <1>6, <1>13, CellsCounted
  <2>3. Len(v.printed) + HowMany(Ahead(v.screen, Place(v))) + HowMany(Shown(t.screen))
          <= Len(t.printed) + HowMany(Ahead(t.screen, Place(t))) + HowMany(Shown(v.screen))
    BY <1>4 DEF Cheap
  <2>4. Len(u.printed) + HowMany(Ahead(u.screen, Place(u))) + HowMany(Shown(t.screen))
          <= Len(t.printed) + HowMany(Ahead(t.screen, Place(t))) + HowMany(Shown(u.screen))
    <3>. DEFINE au == HowMany(Ahead(u.screen, Place(u)))
                av == HowMany(Ahead(v.screen, Place(v)))
                at == HowMany(Ahead(t.screen, Place(t)))
                nt == Len(t.printed)
                nv == Len(v.printed)
                st == HowMany(Shown(t.screen))
                sv == HowMany(Shown(v.screen))
    <3>1. nt \in Nat /\ nv \in Nat /\ st \in Nat /\ sv \in Nat
      BY <1>6
    <3>2. au <= av /\ au \in Nat /\ av \in Nat /\ at \in Nat /\ nv + av + st <= nt + at + sv
      BY <2>1, <2>2, <2>3
    <3>3. nv + au + st <= nt + at + sv
      <4>. HIDE DEF au, av, at, nt, nv, st, sv
      <4>1. QED
        BY <3>1, <3>2
    <3>4. QED
      BY <1>14, <3>3
  <2>5. QED
    BY <2>4 DEF Cheap
<1>11. ASSUME NEW e \in Nat
       PROVE  Len(u.printed) + HowMany(Ahead(u.screen, e)) + HowMany(Shown(t.screen))
               <= Len(t.printed) + HowMany(Ahead(t.screen, e)) + HowMany(Shown(u.screen)) + (i + 1)
  <2>1. Len(u.printed) + HowMany(Ahead(u.screen, e)) + HowMany(Shown(t.screen))
          <= Len(t.printed) + HowMany(Ahead(t.screen, e)) + HowMany(Shown(u.screen)) + i
    BY <1>1, <1>4 DEF Bounded
  <2>2. HowMany(Ahead(u.screen, e)) \in Nat /\ HowMany(Ahead(t.screen, e)) \in Nat
    BY <1>1, <1>6, <1>13, CellsCounted
  <2>3. QED
    <3>. DEFINE au == HowMany(Ahead(u.screen, e))
                at == HowMany(Ahead(t.screen, e))
                nt == Len(t.printed)
                nu == Len(u.printed)
                st == HowMany(Shown(t.screen))
                su == HowMany(Shown(u.screen))
    <3>1. nt \in Nat /\ nu \in Nat /\ st \in Nat /\ su \in Nat
      BY <1>6, <1>14
    <3>2. au \in Nat /\ at \in Nat /\ nu + au + st <= nt + at + su + i
      BY <2>1, <2>2
    <3>3. nu + au + st <= nt + at + su + (i + 1)
      <4>. HIDE DEF au, at, nt, nu, st, su
      <4>1. QED
        BY <3>1, <3>2
    <3>4. QED
      BY <3>3
<1>12. QED
  BY <1>9, <1>10, <1>11 DEF Bounded

LEMMA CostOfPut ==
  ASSUME NEW t \in TermType, NEW v \in TermType, NEW u \in TermType,
         NEW i \in Nat, CostUpTo(t, v, i), NEW c \in Chars, Printed(v, c, u)
  PROVE  CostUpTo(t, u, i + 1)
<1>1. /\ t.row \in Nat /\ t.column \in Nat /\ Len(t.printed) \in Nat /\ Place(t) \in Nat
      /\ HowMany(Shown(t.screen)) \in Nat
      /\ v.row \in Nat /\ v.column \in Nat /\ Len(v.printed) \in Nat /\ Place(v) \in Nat
      /\ HowMany(Shown(v.screen)) \in Nat
      /\ HowMany(Shown(u.screen)) \in Nat /\ Place(u) \in Nat
      /\ VGA_WIDTH \in Nat
  BY TermFacts, Sizes
<1>14. /\ t.screen \in Screens /\ v.screen \in Screens /\ u.screen \in Screens
       /\ v.printed \in Seq(Chars)
  BY TermFacts
<1>2. /\ Place(v) \in Cells /\ u.screen = [v.screen EXCEPT ![Place(v)] = c]
      /\ v.column + 1 # VGA_WIDTH => u.row = v.row /\ u.column = v.column + 1
      /\ IF v.column + 1 # VGA_WIDTH THEN u.filled = v.filled ELSE u.filled
  BY DEF Printed
<1>3. Len(u.printed) = Len(v.printed) + 1
  BY <1>14 DEF Printed
<1>4. t.filled => u.filled
  BY <1>2 DEF CostUpTo
<1>5. SUFFICES ASSUME ~u.filled, t.column < VGA_WIDTH
               PROVE  Onward(t, u) /\ Cheap(t, u) /\ Bounded(t, u, i + 1)
  BY <1>4 DEF CostUpTo
<1>6. Onward(t, v) /\ Cheap(t, v) /\ Bounded(t, v, i)
  <2>1. ~v.filled
    BY <1>2, <1>5
  <2>2. QED
    BY <1>5, <2>1 DEF CostUpTo
<1>7. t.row <= v.row /\ Place(t) <= Place(v) /\ v.column < VGA_WIDTH
  BY <1>6 DEF Onward
<1>8. u.row = v.row /\ u.column = v.column + 1 /\ v.column + 1 < VGA_WIDTH
  <2>1. v.column + 1 # VGA_WIDTH
    BY <1>2, <1>5
  <2>2. v.column + 1 < VGA_WIDTH
    BY <1>1, <1>7, <2>1
  <2>3. QED
    BY <1>2, <2>1, <2>2
<1>9. Place(u) = Place(v) + 1
  <2>1. /\ Place(v) = v.row * VGA_WIDTH + v.column
        /\ Place(u) = v.row * VGA_WIDTH + (v.column + 1)
    BY <1>8, TermFacts
  <2>2. v.row * VGA_WIDTH \in Nat
    BY <1>1, MulStep
  <2>3. QED
    BY <1>1, <2>1, <2>2, SMTT(30)
<1>10. Onward(t, u)
  <2>1. Place(t) <= Place(v) + 1
    BY <1>1, <1>7
  <2>2. QED
    BY <1>7, <1>8, <1>9, <2>1 DEF Onward
<1>11. Cheap(t, u)
  <2>1. HowMany(Ahead(u.screen, Place(v) + 1)) + HowMany(Shown(v.screen)) + 1
          <= HowMany(Ahead(v.screen, Place(v))) + HowMany(Shown(u.screen))
    BY <1>1, <1>2, <1>14, PutCost
  <2>2. Place(v) + 1 \in Nat
    BY <1>1
  <2>3. /\ HowMany(Ahead(u.screen, Place(v) + 1)) \in Nat
        /\ HowMany(Ahead(v.screen, Place(v))) \in Nat
        /\ HowMany(Ahead(t.screen, Place(t))) \in Nat
    BY <1>1, <1>14, <2>2, CellsCounted
  <2>4. Len(v.printed) + HowMany(Ahead(v.screen, Place(v))) + HowMany(Shown(t.screen))
          <= Len(t.printed) + HowMany(Ahead(t.screen, Place(t))) + HowMany(Shown(v.screen))
    BY <1>6 DEF Cheap
  <2>5. Len(u.printed) + HowMany(Ahead(u.screen, Place(v) + 1)) + HowMany(Shown(t.screen))
          <= Len(t.printed) + HowMany(Ahead(t.screen, Place(t))) + HowMany(Shown(u.screen))
    <3>. DEFINE au == HowMany(Ahead(u.screen, Place(v) + 1))
                av == HowMany(Ahead(v.screen, Place(v)))
                at == HowMany(Ahead(t.screen, Place(t)))
                nt == Len(t.printed)
                nv == Len(v.printed)
                st == HowMany(Shown(t.screen))
                sv == HowMany(Shown(v.screen))
                su == HowMany(Shown(u.screen))
    <3>1. nt \in Nat /\ nv \in Nat /\ st \in Nat /\ sv \in Nat /\ su \in Nat
      BY <1>1
    <3>2. /\ au + sv + 1 <= av + su /\ au \in Nat /\ av \in Nat /\ at \in Nat
          /\ nv + av + st <= nt + at + sv
      BY <2>1, <2>3, <2>4
    <3>3. (nv + 1) + au + st <= nt + at + su
      <4>. HIDE DEF au, av, at, nt, nv, st, sv, su
      <4>1. QED
        BY <3>1, <3>2
    <3>4. QED
      BY <1>3, <3>3
  <2>6. QED
    BY <1>9, <2>5 DEF Cheap
<1>12. ASSUME NEW e \in Nat
       PROVE  Len(u.printed) + HowMany(Ahead(u.screen, e)) + HowMany(Shown(t.screen))
               <= Len(t.printed) + HowMany(Ahead(t.screen, e)) + HowMany(Shown(u.screen)) + (i + 1)
  <2>1. Len(v.printed) + HowMany(Ahead(v.screen, e)) + HowMany(Shown(t.screen))
          <= Len(t.printed) + HowMany(Ahead(t.screen, e)) + HowMany(Shown(v.screen)) + i
    BY <1>6 DEF Bounded
  <2>2. HowMany(Ahead(u.screen, e)) + HowMany(Shown(v.screen))
          <= HowMany(Ahead(v.screen, e)) + HowMany(Shown(u.screen))
    BY <1>1, <1>2, <1>14, PutCost
  <2>3. /\ HowMany(Ahead(u.screen, e)) \in Nat /\ HowMany(Ahead(t.screen, e)) \in Nat
        /\ HowMany(Ahead(v.screen, e)) \in Nat
    BY <1>14, CellsCounted
  <2>4. QED
    <3>. DEFINE au == HowMany(Ahead(u.screen, e))
                av == HowMany(Ahead(v.screen, e))
                at == HowMany(Ahead(t.screen, e))
                nt == Len(t.printed)
                nv == Len(v.printed)
                st == HowMany(Shown(t.screen))
                sv == HowMany(Shown(v.screen))
                su == HowMany(Shown(u.screen))
    <3>1. nt \in Nat /\ nv \in Nat /\ st \in Nat /\ sv \in Nat /\ su \in Nat
      BY <1>1
    <3>2. /\ au + sv <= av + su /\ au \in Nat /\ av \in Nat /\ at \in Nat
          /\ nv + av + st <= nt + at + sv + i
      BY <2>1, <2>2, <2>3
    <3>3. (nv + 1) + au + st <= nt + at + su + (i + 1)
      <4>. HIDE DEF au, av, at, nt, nv, st, sv, su
      <4>1. QED
        BY <3>1, <3>2
    <3>4. QED
      BY <1>3, <3>3
<1>13. QED
  BY <1>10, <1>11, <1>12 DEF Bounded

LEMMA CostOfOne ==
  ASSUME NEW t \in TermType, NEW v \in TermType, NEW i \in Nat,
         CostUpTo(t, v, i), NEW c \in Chars \cup {NL}, NEW u, u = terminal_putchar(v, c)
  PROVE  CostUpTo(t, u, i + 1)
<1>1. /\ u \in TermType
      /\ v.fault => u = v
      /\ ~v.fault => \/ Newlined(v, u) \/ Faulted(v, u)
                     \/ c # NL /\ Printed(v, c, u)
  BY PutcharIs
<1>2. CASE v.fault
  BY <1>1, <1>2, CostOfNothing
<1>3. CASE Newlined(v, u)
  BY <1>1, <1>3, CostOfNewline
<1>4. CASE Faulted(v, u)
  BY <1>1, <1>4, CostOfNothing DEF Faulted
<1>5. CASE c # NL /\ Printed(v, c, u)
  BY <1>1, <1>5, CostOfPut
<1>6. QED
  BY <1>1, <1>2, <1>3, <1>4, <1>5

\* What data costs.
LEMMA WriteCost ==
  ASSUME NEW t \in TermType, NEW data \in Seq(Chars \cup {NL})
  PROVE  /\ terminal_write(t, data) \in TermType
         /\ CostUpTo(t, terminal_write(t, data), Len(data))
<1>1. PICK w : Written(w, t, data)
  BY WriteSteps
<1>2. \A i \in 0 .. Len(data) : w[i] \in TermType
  BY <1>1, WriteType
<1>. DEFINE T == {i \in Nat : i <= Len(data) /\ ~ CostUpTo(t, w[i], i)}
<1>3. T = {}
  <2>. SUFFICES ASSUME T # {} PROVE FALSE
    OBVIOUS
  <2>1. PICK m \in T : \A k \in T : m <= k
    <3>1. T \in SUBSET Nat
      OBVIOUS
    <3>. HIDE DEF T
    <3>2. QED
      BY <3>1, LeastElement
  <2>2. m # 0 /\ m \in 1 .. Len(data)
    BY <1>1, CostOfNone DEF Written
  <2>3. m - 1 \in Nat /\ m - 1 \notin T
    <3>1. m - 1 \in Nat /\ ~ (m <= m - 1)
      BY <2>2
    <3>. HIDE DEF T
    <3>2. QED
      BY <2>1, <3>1
  <2>4. CostUpTo(t, w[m - 1], m - 1) /\ data[m] \in Chars \cup {NL}
        /\ w[m - 1] \in TermType
    BY <1>2, <2>2, <2>3
  <2>5. w[m] = terminal_putchar(w[m - 1], data[m])
    BY <1>1, <2>2 DEF Written
  <2>6. CostUpTo(t, w[m], (m - 1) + 1)
    BY <2>3, <2>4, <2>5, CostOfOne
  <2>7. (m - 1) + 1 = m
    BY <2>2
  <2>8. QED
    BY <2>6, <2>7
<1>4. Len(data) \in 0 .. Len(data) /\ Len(data) \in Nat
  OBVIOUS
<1>5. QED
  BY <1>1, <1>2, <1>3, <1>4 DEF Written

-----------------------------------------------------------------------------
(***************************************************************************)
(* Types.                                                                  *)
(***************************************************************************)
LEMMA NewlinesOf ==
  ASSUME NEW t \in Seq(Chars \cup {NL})
  PROVE  /\ Newlines(t) \in Nat
         /\ Newlines(t) = 0 => \A i \in 1 .. Len(t) : t[i] # NL
<1>. DEFINE V == {i \in 1 .. Len(t) : t[i] # NL}
<1>1. Len(t) \in Nat
  OBVIOUS
<1>2. IsFiniteSet(1 .. Len(t)) /\ Cardinality(1 .. Len(t)) = Len(t)
  BY <1>1, FS_Interval
<1>3. /\ IsFiniteSet(V) /\ Cardinality(V) <= Len(t)
      /\ Len(t) = Cardinality(V) => 1 .. Len(t) = V
  BY <1>2, FS_Subset
<1>4. Cardinality(V) \in Nat
  BY <1>3, FS_CardinalityType
<1>5. Newlines(t) = Len(t) - Cardinality(V)
  BY DEF Newlines, Visible
<1>6. 1 .. Len(t) = V => \A i \in 1 .. Len(t) : t[i] # NL
  OBVIOUS
<1>. HIDE DEF V
<1>7. QED
  BY <1>1, <1>3, <1>4, <1>5, <1>6

LEMMA AllTexts ==
  /\ \A t \in TaskTexts : t \in Seq(Chars \cup {NL})
  /\ \A t \in HandlerTexts : t \in Seq(Chars \cup {NL})
BY TextAssumption DEF Texts

LEMMA TerminalType ==
  ASSUME TypeOK
  PROVE  /\ Terminal \in TermType
         /\ Terminal.row = terminal_row /\ Terminal.column = terminal_column
         /\ Terminal.screen = screen /\ Terminal.printed = printed /\ ~Terminal.fault
         /\ Terminal.filled = filled
         /\ Place(Terminal) = index(terminal_column, terminal_row)
BY DEF TypeOK, Terminal, TermType, Place

\* The interrupts of one handler, and what it prints.
HandlerPrints(data) ==
    LET t == terminal_write(Terminal, data) IN
    /\ data \in HandlerTexts
    /\ pc # "fault"
    /\ terminal_row' = t.row /\ terminal_column' = t.column /\ filled' = t.filled
    /\ screen' = t.screen /\ printed' = t.printed
    /\ pc' = IF t.fault THEN "fault" ELSE pc
    /\ newlines' = newlines + Newlines(data)
    /\ torn' = torn + (IF pc = "next" THEN 0 ELSE Len(data))
    /\ interrupts' = interrupts + 1
    /\ UNCHANGED <<text, reg>>

LEMMA InterruptIs ==
  ASSUME Interrupt
  PROVE  \E data \in HandlerTexts : HandlerPrints(data)
BY DEF Interrupt, HandlerPrints

LEMMA InterruptType ==
  ASSUME TypeOK, CostInv, NEW data, HandlerPrints(data)
  PROVE  TypeOK'
<1>1. data \in Seq(Chars \cup {NL})
  BY AllTexts DEF HandlerPrints
<1>. DEFINE t == terminal_write(Terminal, data)
<1>2. t \in TermType
  <2>1. PICK w : Written(w, Terminal, data)
    BY <1>1, WriteSteps
  <2>2. \A i \in 0 .. Len(data) : w[i] \in TermType
    BY <1>1, <2>1, TerminalType, WriteType
  <2>3. Len(data) \in 0 .. Len(data)
    BY <1>1
  <2>4. QED
    BY <2>1, <2>2, <2>3 DEF Written
<1>3. /\ terminal_row' \in Nat /\ terminal_column' \in Nat /\ screen' \in Screens
      /\ printed' \in Seq(Chars) /\ filled' \in BOOLEAN
  BY <1>2 DEF HandlerPrints, TermType
<1>4. newlines' \in Nat /\ torn' \in Nat /\ interrupts' \in Nat
  <2>1. Newlines(data) \in Nat /\ Len(data) \in Nat
    BY <1>1, NewlinesOf
  <2>2. QED
    BY <2>1 DEF HandlerPrints, TypeOK
<1>5. text' = text /\ reg' = reg /\ pc' \in {pc, "fault"}
  BY DEF HandlerPrints
<1>6. QED
  BY <1>3, <1>4, <1>5 DEF TypeOK, Control

LEMMA PrintType == ASSUME TypeOK, terminal_print PROVE TypeOK'
<1>1. text' \in Seq(Chars \cup {NL})
  BY AllTexts DEF terminal_print
<1>2. newlines' \in Nat
  BY <1>1, NewlinesOf DEF terminal_print, TypeOK
<1>3. QED
  BY <1>1, <1>2 DEF terminal_print, TypeOK, cursor

\* A step of the task within terminal_putchar, or into or out of it.
LEMMA GotoType ==
  ASSUME TypeOK, NEW from, NEW to \in Control, Goto(from, to),
         from = "next" => text # << >> /\ (to \notin {"nl_store", "nl_column"} => Head(text) # NL),
         from \in {"nl_store", "nl_column"} => to \in {"nl_column", "next"}, from # "fault"
  PROVE  /\ text' \in Seq(Chars \cup {NL}) /\ pc' \in Control
         /\ pc' \notin {"next", "fault"} => text' # << >>
         /\ pc' \notin {"next", "fault", "nl_store", "nl_column"} => Head(text') # NL
         /\ text # << >>
<1>1. text \in Seq(Chars \cup {NL}) /\ text # << >> /\ pc = from /\ pc' = to
  BY DEF TypeOK, Goto
<1>2. CASE to = "next"
  <2>1. text' = Tail(text)
    BY <1>2 DEF Goto
  <2>2. Tail(text) \in Seq(Chars \cup {NL})
    BY <1>1
  <2>3. QED
    BY <1>1, <1>2, <2>1, <2>2
<1>3. CASE to # "next"
  <2>1. text' = text
    BY <1>3 DEF Goto
  <2>2. QED
    BY <1>1, <1>3, <2>1 DEF TypeOK
<1>4. QED
  BY <1>2, <1>3

LEMMA LoadType ==
  ASSUME TypeOK, NEW from, NEW to \in Control, NEW r \in {"x", "y", "v"}, NEW value \in Nat,
         Load(from, to, r, value),
         from = "next" => text # << >> /\ (to \notin {"nl_store", "nl_column"} => Head(text) # NL),
         from \in {"nl_store", "nl_column"} => to \in {"nl_column", "next"}, from # "fault"
  PROVE  TypeOK'
<1>1. Goto(from, to)
  BY DEF Load
<1>2. /\ text' \in Seq(Chars \cup {NL}) /\ pc' \in Control
      /\ pc' \notin {"next", "fault"} => text' # << >>
      /\ pc' \notin {"next", "fault", "nl_store", "nl_column"} => Head(text') # NL
  BY <1>1, GotoType
<1>3. reg' \in [x : Nat, y : Nat, v : Nat]
  BY DEF Load, TypeOK
<1>4. UNCHANGED <<terminal_row, terminal_column, filled, screen, printed, newlines, interrupts, torn>>
  BY DEF Load, cursor, past
<1>5. QED
  BY <1>2, <1>3, <1>4 DEF TypeOK

LEMMA StoreType ==
  ASSUME TypeOK, NEW from, NEW to \in Control, NEW row \in Nat, NEW column \in Nat,
         Store(from, to, row, column), from \notin {"next", "fault"},
         from \in {"nl_store", "nl_column"} => to \in {"nl_column", "next"}
  PROVE  TypeOK'
<1>1. Goto(from, to)
  BY DEF Store
<1>2. /\ text' \in Seq(Chars \cup {NL}) /\ pc' \in Control
      /\ pc' \notin {"next", "fault"} => text' # << >>
      /\ pc' \notin {"next", "fault", "nl_store", "nl_column"} => Head(text') # NL
  BY <1>1, GotoType
<1>3. /\ terminal_row' \in Nat /\ terminal_column' \in Nat /\ filled' \in BOOLEAN
      /\ UNCHANGED <<screen, reg, printed, newlines, interrupts, torn>>
  BY DEF Store, past, TypeOK
<1>4. QED
  BY <1>2, <1>3 DEF TypeOK

LEMMA CompareType ==
  ASSUME TypeOK, NEW from, NEW to \in Control, NEW equal \in BOOLEAN, Compare(from, equal, to),
         from \in {"compare_column", "compare_row"}
  PROVE  TypeOK'
<1>. DEFINE dest == IF equal THEN to ELSE "next"
<1>1. Goto(from, dest) /\ dest \in Control
  BY DEF Compare, Control
<1>. HIDE DEF dest
<1>2. /\ text' \in Seq(Chars \cup {NL}) /\ pc' \in Control
      /\ pc' \notin {"next", "fault"} => text' # << >>
      /\ pc' \notin {"next", "fault", "nl_store", "nl_column"} => Head(text') # NL
  BY <1>1, GotoType
<1>3. UNCHANGED <<terminal_row, terminal_column, filled, screen, reg, printed, newlines,
                  interrupts, torn>>
  BY DEF Compare, cursor, past
<1>4. QED
  BY <1>2, <1>3 DEF TypeOK

LEMMA PutAtType == ASSUME TypeOK, PutAt PROVE TypeOK'
<1>1. pc = "put" /\ text # << >> /\ Head(text) # NL /\ text \in Seq(Chars \cup {NL})
  BY DEF PutAt, Goto, TypeOK
<1>2. Head(text) \in Chars
  BY <1>1
<1>3. text' = text /\ pc' \in {"load_column", "fault"}
  BY DEF PutAt, Goto
<1>4. screen' \in Screens /\ printed' \in Seq(Chars)
  <2>1. CASE index(reg.x, reg.y) \in Cells
    <3>1. screen' = [screen EXCEPT ![index(reg.x, reg.y)] = Head(text)]
          /\ printed' = Append(printed, Head(text))
      BY <2>1 DEF PutAt
    <3>2. screen \in Screens /\ printed \in Seq(Chars)
      BY DEF TypeOK
    <3>3. screen' \in Screens
      BY <1>2, <3>1, <3>2 DEF Screens
    <3>4. printed' \in Seq(Chars)
      BY <1>2, <3>1, <3>2
    <3>5. QED
      BY <3>3, <3>4
  <2>2. CASE index(reg.x, reg.y) \notin Cells
    BY <2>2 DEF PutAt, TypeOK
  <2>3. QED
    BY <2>1, <2>2
<1>5. UNCHANGED <<terminal_row, terminal_column, filled, reg, newlines, interrupts, torn>>
  BY DEF PutAt, cursor
<1>6. QED
  BY <1>1, <1>3, <1>4, <1>5 DEF TypeOK, Control

LEMMA TaskType ==
  ASSUME TypeOK, Newline \/ Put \/ Step \/ Wrap
  PROVE  TypeOK'
<1>1. /\ terminal_row \in Nat /\ terminal_column \in Nat /\ reg.v \in Nat /\ reg.v + 1 \in Nat
      /\ 0 \in Nat
  BY DEF TypeOK
<1>2. CASE LoadRowNewline
  <2>1. Load("next", "nl_store", "v", terminal_row) /\ text # << >>
    BY <1>2 DEF LoadRowNewline, Prints
  <2>2. "nl_store" \in Control
    BY DEF Control
  <2>3. QED
    BY <1>1, <2>1, <2>2, LoadType
<1>3. CASE StoreRowNewline
  <2>1. Store("nl_store", "nl_column", reg.v + 1, terminal_column)
    BY <1>3 DEF StoreRowNewline
  <2>2. "nl_column" \in Control
    BY DEF Control
  <2>3. QED
    BY <1>1, <2>1, <2>2, StoreType, Zenon
<1>4. CASE ZeroColumnNewline
  <2>1. Store("nl_column", "next", terminal_row, 0)
    BY <1>4 DEF ZeroColumnNewline
  <2>2. "next" \in Control
    BY DEF Control
  <2>3. QED
    BY <1>1, <2>1, <2>2, StoreType, Zenon
<1>5. CASE FetchRow
  BY <1>1, <1>5, LoadType DEF FetchRow, Prints, Control
<1>6. CASE FetchColumn
  BY <1>1, <1>6, LoadType DEF FetchColumn, Control
<1>7. CASE PutAt
  BY <1>7, PutAtType
<1>8. CASE LoadColumn
  BY <1>1, <1>8, LoadType DEF LoadColumn, Control
<1>9. CASE StoreColumn
  <2>1. Store("store_column", "compare_column", terminal_row, reg.v + 1)
    BY <1>9 DEF StoreColumn
  <2>2. "compare_column" \in Control
    BY DEF Control
  <2>3. QED
    BY <1>1, <2>1, <2>2, StoreType
<1>10. CASE CompareColumn
  BY <1>10, CompareType DEF CompareColumn, Control
<1>11. CASE ZeroColumn
  <2>1. Store("zero_column", "load_row", terminal_row, 0)
    BY <1>11 DEF ZeroColumn
  <2>2. "load_row" \in Control
    BY DEF Control
  <2>3. QED
    BY <1>1, <2>1, <2>2, StoreType, Zenon
<1>12. CASE LoadRow
  BY <1>1, <1>12, LoadType DEF LoadRow, Control
<1>13. CASE StoreRow
  <2>1. Store("store_row", "compare_row", reg.v + 1, terminal_column)
    BY <1>13 DEF StoreRow
  <2>2. "compare_row" \in Control
    BY DEF Control
  <2>3. QED
    BY <1>1, <2>1, <2>2, StoreType, Zenon
<1>14. CASE CompareRow
  BY <1>14, CompareType DEF CompareRow, Control
<1>15. CASE ZeroRow
  <2>1. Store("zero_row", "next", 0, terminal_column)
    BY <1>15 DEF ZeroRow
  <2>2. "next" \in Control
    BY DEF Control
  <2>3. QED
    BY <1>1, <2>1, <2>2, StoreType, Zenon
<1>16. QED
  BY <1>2, <1>3, <1>4, <1>5, <1>6, <1>7, <1>8, <1>9, <1>10, <1>11, <1>12, <1>13, <1>14, <1>15
  DEF Newline, Put, Step, Wrap

-----------------------------------------------------------------------------
(***************************************************************************)
(* What is paid for.                                                       *)
(***************************************************************************)
InCall == {"nl_store", "nl_column", "load_column", "store_column"}
Wrapping == {"zero_column", "load_row", "store_row", "compare_row", "zero_row"}

LEMMA PositionType ==
  ASSUME NEW at, NEW row \in Nat, NEW column \in Nat, NEW v \in Nat
  PROVE  /\ PositionAt(at, row, column, v) \in Nat
         /\ row * VGA_WIDTH \in Nat /\ (v + 1) * VGA_WIDTH \in Nat
         /\ index(column, row) = row * VGA_WIDTH + column
         /\ index(column, row) \in Nat
<1>1. /\ row * VGA_WIDTH \in Nat /\ (v + 1) * VGA_WIDTH \in Nat
      /\ index(column, row) = row * VGA_WIDTH + column
      /\ index(column, row) \in Nat
  <2>1. v + 1 \in Nat
    OBVIOUS
  <2>2. QED
    BY <2>1, IndexIs
<1>. DEFINE a == row * VGA_WIDTH
            b == (v + 1) * VGA_WIDTH
<1>2. /\ a \in Nat /\ b \in Nat /\ a + column \in Nat
      /\ a + column + 1 \in Nat /\ a + v + 1 \in Nat /\ Mapped \in Nat
  BY <1>1, Sizes
<1>. HIDE DEF a, b
<1>3. PositionAt(at, row, column, v) =
         CASE at = "nl_store"     -> b
           [] at = "nl_column"    -> a
           [] at = "load_column"  -> a + column + 1
           [] at = "store_column" -> a + v + 1
           [] at = "fault"        -> Mapped
           [] OTHER               -> a + column
  BY DEF PositionAt, a, b
<1>4. PositionAt(at, row, column, v) \in Nat
  BY <1>2, <1>3
<1>5. QED
  BY <1>1, <1>4

\* The numbers of a state and of the next one.
Numbers ==
    /\ terminal_row \in Nat /\ terminal_column \in Nat /\ reg.v \in Nat
    /\ screen \in Screens
    /\ Len(printed) \in Nat /\ HowMany(Shown(screen)) \in Nat
    /\ Position \in Nat /\ HowMany(Ahead(screen, Position)) \in Nat
    /\ Stray \in {0, 1}
    /\ torn \in Nat

LEMMA NumbersType == ASSUME TypeOK PROVE Numbers
<1>1. terminal_row \in Nat /\ terminal_column \in Nat /\ reg.v \in Nat
      /\ screen \in Screens /\ Len(printed) \in Nat /\ torn \in Nat
  BY DEF TypeOK
<1>2. Position \in Nat
  BY <1>1, PositionType DEF Position
<1>3. HowMany(Shown(screen)) \in Nat /\ HowMany(Ahead(screen, Position)) \in Nat
  BY <1>1, <1>2, CellsCounted
<1>4. Stray \in {0, 1}
  BY DEF Stray
<1>5. QED
  BY <1>1, <1>2, <1>3, <1>4 DEF Numbers

LEMMA NextNumbersType == ASSUME TypeOK' PROVE Numbers'
<1>1. /\ terminal_row' \in Nat /\ terminal_column' \in Nat /\ (reg.v)' \in Nat
      /\ screen' \in Screens /\ Len(printed') \in Nat /\ torn' \in Nat
  BY DEF TypeOK
<1>2. Position' \in Nat
  BY <1>1, PositionType DEF Position
<1>3. HowMany(Shown(screen')) \in Nat /\ HowMany(Ahead(screen', Position')) \in Nat
  BY <1>1, <1>2, CellsCounted
<1>4. Stray' \in {0, 1}
  BY DEF Stray
<1>5. QED
  BY <1>1, <1>2, <1>3, <1>4 DEF Numbers

\* What an interrupt prints is paid for, by its characters if the task is within a call.
LEMMA InterruptCost ==
  ASSUME TypeOK, CostInv, NEW data, HandlerPrints(data)
  PROVE  CostInv'
<1>. DEFINE t == Terminal
            u == terminal_write(t, data)
            n == Len(data)
<1>1. data \in Seq(Chars \cup {NL}) /\ n \in Nat
  BY AllTexts DEF HandlerPrints
<1>2. /\ t \in TermType /\ t.row = terminal_row /\ t.column = terminal_column
      /\ t.screen = screen /\ t.printed = printed /\ t.filled = filled
      /\ Place(t) = index(terminal_column, terminal_row)
  BY TerminalType
<1>3. u \in TermType /\ CostUpTo(t, u, n)
  BY <1>1, <1>2, WriteCost
<1>4. n = 0 => u = t
  <2>1. PICK w : Written(w, t, data)
    BY <1>1, WriteSteps
  <2>2. QED
    BY <2>1 DEF Written
<1>5. /\ terminal_row' = u.row /\ terminal_column' = u.column
      /\ screen' = u.screen /\ printed' = u.printed /\ filled' = u.filled
      /\ pc' \in {pc, "fault"} /\ pc # "fault"
      /\ torn' = torn + (IF pc = "next" THEN 0 ELSE n)
      /\ reg' = reg
  BY DEF HandlerPrints
<1>. HIDE DEF t, u, n
<1>6. TypeOK'
  BY InterruptType
<1>7. SUFFICES ASSUME ~filled'
               PROVE  pc' \notin Wrapping /\ Columns' /\ Paid'
  BY DEF CostInv, Wrapping
<1>8. filled => filled'
  BY <1>2, <1>3, <1>5 DEF CostUpTo
<1>9. /\ Len(printed) \in Nat /\ Len(printed') \in Nat /\ VGA_WIDTH \in Nat
      /\ torn \in Nat /\ torn' \in Nat
      /\ HowMany(Shown(screen)) \in Nat /\ HowMany(Shown(screen')) \in Nat
  BY <1>6, NumbersType, NextNumbersType, Sizes DEF Numbers
<1>10. pc \notin Wrapping /\ Columns /\ Paid
  <2>1. ~filled
    BY <1>7, <1>8
  <2>2. QED
    BY <2>1 DEF CostInv, Wrapping
<1>11. Onward(t, u) /\ Cheap(t, u) /\ Bounded(t, u, n)
  BY <1>2, <1>3, <1>5, <1>7, <1>10 DEF CostUpTo, Columns
<1>12. pc' \notin Wrapping
  BY <1>5, <1>10 DEF Wrapping
<1>13. terminal_row \in Nat /\ terminal_column \in Nat /\ reg.v \in Nat
       /\ terminal_row' \in Nat /\ terminal_column' \in Nat
  BY <1>6 DEF TypeOK
<1>14. /\ terminal_row <= terminal_row'
       /\ index(terminal_column, terminal_row) <= index(terminal_column', terminal_row')
       /\ terminal_column' < VGA_WIDTH
  BY <1>2, <1>5, <1>11 DEF Onward, Place
<1>15. Columns'
  BY <1>5, <1>10, <1>14 DEF Columns
<1>. DEFINE k == Len(printed)
            l == Len(printed')
            s == HowMany(Shown(screen))
            r == HowMany(Shown(screen'))
            a == HowMany(Ahead(screen, Position))
            b == HowMany(Ahead(screen', Position'))
<1>16. /\ k \in Nat /\ l \in Nat /\ s \in Nat /\ r \in Nat /\ a \in Nat /\ b \in Nat
       /\ Stray \in {0, 1} /\ Stray' \in {0, 1} /\ torn \in Nat /\ n \in Nat
       /\ k + a + Stray <= s + torn
  BY <1>1, <1>6, <1>9, <1>10, NumbersType, NextNumbersType DEF Paid, Numbers
<1>17. l + b + Stray' <= r + torn' => Paid'
  BY DEF Paid
<1>18. CASE pc' = "fault" /\ pc = "next"
  <2>1. Position' = Mapped /\ Position = Place(t) /\ Stray' = 0
    BY <1>2, <1>13, <1>18, PositionType DEF Position, PositionAt, Stray, Astray
  <2>2. b = 0
    BY <1>6, <2>1, AheadOfAll DEF TypeOK
  <2>. DEFINE z == HowMany(Ahead(screen', Place(u)))
  <2>3. z \in Nat
    BY <1>3, <1>6, TermFacts, CellsCounted DEF TypeOK
  <2>4. l + z + s <= k + a + r
    BY <1>2, <1>5, <1>11, <2>1 DEF Cheap
  <2>5. torn' = torn
    BY <1>5, <1>16, <1>18
  <2>. HIDE DEF k, l, s, r, a, b, z
  <2>6. l + b + Stray' <= r + torn'
    BY <1>16, <2>1, <2>2, <2>3, <2>4, <2>5
  <2>7. QED
    BY <1>12, <1>15, <1>17, <2>6
<1>19. CASE pc' = "fault" /\ pc # "next"
  <2>1. Position' = Mapped /\ Stray' = 0
    BY <1>19 DEF Position, PositionAt, Stray, Astray
  <2>2. b = 0 /\ HowMany(Ahead(screen, Mapped)) = 0 /\ Mapped \in Nat
    BY <1>6, <2>1, AheadOfAll, Sizes DEF TypeOK
  <2>3. l + 0 + s <= k + 0 + r + n
    <3>1. HowMany(Ahead(screen', Mapped)) = 0
      BY <2>1, <2>2
    <3>2. l + HowMany(Ahead(screen', Mapped)) + s <= k + HowMany(Ahead(screen, Mapped)) + r + n
      BY <1>2, <1>5, <1>11, <2>2 DEF Bounded
    <3>3. QED
      BY <2>2, <3>1, <3>2
  <2>4. torn' = torn + n
    BY <1>5, <1>19
  <2>. HIDE DEF k, l, s, r, a, b
  <2>5. l + b + Stray' <= r + torn'
    BY <1>16, <2>1, <2>2, <2>3, <2>4
  <2>6. QED
    BY <1>12, <1>15, <1>17, <2>5
<1>20. CASE pc' = pc /\ pc \in {"next", "compare_column", "fetch_column", "put"}
  <2>1. Position' = Place(u) /\ Position = Place(t)
    <3>1. Position = index(terminal_column, terminal_row)
      BY <1>13, <1>20, PositionType DEF Position, PositionAt
    <3>2. Position' = index(terminal_column', terminal_row')
      BY <1>13, <1>20, PositionType DEF Position, PositionAt
    <3>3. QED
      BY <1>2, <1>5, <3>1, <3>2 DEF Place
  <2>2. l + b + s <= k + a + r
    BY <1>2, <1>5, <1>11, <2>1 DEF Cheap
  <2>3. CASE pc = "next"
    <3>1. Stray' = 0 /\ torn' = torn
      BY <1>5, <1>16, <1>20, <2>3 DEF Stray, Astray
    <3>. HIDE DEF k, l, s, r, a, b
    <3>2. l + b + Stray' <= r + torn'
      BY <1>16, <2>2, <3>1
    <3>3. QED
      BY <1>12, <1>15, <1>17, <3>2
  <2>4. CASE pc # "next" /\ n = 0
    <3>1. Stray' = Stray
      BY <1>2, <1>4, <1>5, <1>20, <2>4 DEF Stray, Astray
    <3>2. torn' = torn
      BY <1>5, <1>16, <2>4
    <3>. HIDE DEF k, l, s, r, a, b
    <3>3. l + b + Stray' <= r + torn'
      BY <1>16, <2>2, <3>1, <3>2
    <3>4. QED
      BY <1>12, <1>15, <1>17, <3>3
  <2>5. CASE pc # "next" /\ n # 0
    <3>1. torn' = torn + n
      BY <1>5, <2>5
    <3>. DEFINE x == Stray
                y == Stray'
    <3>2. /\ x \in {0, 1} /\ y \in {0, 1} /\ n >= 1 /\ k + a + x <= s + torn
          /\ torn \in Nat /\ n \in Nat
      BY <1>16, <2>5
    <3>4. k \in Nat /\ l \in Nat /\ s \in Nat /\ r \in Nat /\ a \in Nat /\ b \in Nat
      BY <1>16
    <3>. HIDE DEF k, l, s, r, a, b, x, y
    <3>5. l + b + y <= r + (torn + n)
      BY <2>2, <3>2, <3>4
    <3>6. QED
      BY <1>12, <1>15, <1>17, <3>1, <3>5 DEF y
  <2>6. QED
    BY <2>3, <2>4, <2>5
<1>21. CASE pc' = pc /\ pc \in InCall
  <2>1. Position <= Position' /\ Position \in Nat /\ Position' \in Nat
    <3>1. Position \in Nat /\ Position' \in Nat
      BY <1>6, NumbersType, NextNumbersType DEF Numbers
    <3>2. CASE pc = "nl_store"
      BY <1>5, <1>21, <3>1, <3>2 DEF Position, PositionAt
    <3>. DEFINE p == terminal_row * VGA_WIDTH
                q == terminal_row' * VGA_WIDTH
    <3>3. p \in Nat /\ q \in Nat /\ p <= q /\ p + terminal_column <= q + terminal_column'
      <4>1. p <= q
        <5>1. VGA_WIDTH \in Nat /\ terminal_row \in Int /\ terminal_row' \in Int
          BY <1>9, <1>13
        <5>2. QED
          BY <1>14, <5>1, MulMono
      <4>2. p \in Nat /\ q \in Nat
        BY <1>13, PositionType
      <4>3. p + terminal_column <= q + terminal_column'
        BY <1>13, <1>14, PositionType
      <4>4. QED
        BY <4>1, <4>2, <4>3
    <3>4. CASE pc = "nl_column"
      BY <1>21, <3>3, <3>4 DEF Position, PositionAt
    <3>5. CASE pc = "load_column"
      <4>. DEFINE c == terminal_column
                  d == terminal_column'
      <4>1. Position = p + c + 1 /\ Position' = q + d + 1
        BY <1>21, <3>5 DEF Position, PositionAt
      <4>2. p \in Nat /\ q \in Nat /\ c \in Nat /\ d \in Nat /\ p + c <= q + d
        BY <1>13, <3>3
      <4>. HIDE DEF p, q, c, d
      <4>3. p + c + 1 <= q + d + 1
        BY <4>2
      <4>4. QED
        BY <3>1, <4>1, <4>3
    <3>6. CASE pc = "store_column"
      <4>1. Position = p + reg.v + 1 /\ Position' = q + reg.v + 1
        BY <1>5, <1>21, <3>6 DEF Position, PositionAt
      <4>. HIDE DEF p, q
      <4>2. QED
        BY <1>13, <3>1, <3>3, <4>1
    <3>7. QED
      BY <1>21, <3>1, <3>2, <3>4, <3>5, <3>6 DEF InCall
  <2>. DEFINE z == HowMany(Ahead(screen', Position))
  <2>2. b <= z /\ z \in Nat
    BY <1>6, <2>1, AheadLess, CellsCounted DEF TypeOK
  <2>3. l + z + s <= k + a + r + n
    BY <1>2, <1>5, <1>11, <2>1 DEF Bounded
  <2>4. Stray' = 0 /\ torn' = torn + n
    BY <1>5, <1>21 DEF Stray, Astray, InCall
  <2>. HIDE DEF k, l, s, r, a, b, z
  <2>5. l + b + Stray' <= r + torn'
    BY <1>16, <2>2, <2>3, <2>4
  <2>6. QED
    BY <1>12, <1>15, <1>17, <2>5
<1>22. QED
  BY <1>5, <1>10, <1>18, <1>19, <1>20, <1>21 DEF TypeOK, Control, Wrapping, InCall
\* A step that prints nothing and does not go back.
LEMMA NothingPrinted ==
  ASSUME TypeOK, TypeOK', Paid, UNCHANGED <<screen, printed, torn>>,
         Position <= Position', Stray' <= Stray
  PROVE  Paid'
<1>. DEFINE k == Len(printed)
            s == HowMany(Shown(screen))
            a == HowMany(Ahead(screen, Position))
            b == HowMany(Ahead(screen, Position'))
<1>1. /\ k \in Nat /\ s \in Nat /\ a \in Nat /\ torn \in Nat
      /\ Stray \in {0, 1} /\ Stray' \in {0, 1}
      /\ Position \in Nat /\ Position' \in Nat /\ screen \in Screens
  BY NumbersType, NextNumbersType DEF Numbers
<1>2. b <= a /\ b \in Nat
  BY <1>1, AheadLess, CellsCounted
<1>3. k + a + Stray <= s + torn
  BY DEF Paid
<1>. DEFINE x == Stray
            y == Stray'
<1>4. x \in Nat /\ y \in Nat /\ y <= x /\ k + a + x <= s + torn
  BY <1>1, <1>3
<1>5. k + b + y <= s + torn
  <2>. HIDE DEF k, s, a, b, x, y
  <2>1. QED
    BY <1>1, <1>2, <1>4
<1>6. QED
  BY <1>5 DEF Paid

LEMMA PutAtCost ==
  ASSUME TypeOK, CostInv, PutAt, ~filled'
  PROVE  Columns' /\ Paid' /\ pc' \notin Wrapping
<1>1. TypeOK'
  BY PutAtType
<1>2. /\ pc = "put" /\ UNCHANGED <<terminal_row, terminal_column, filled, reg, torn>>
      /\ text \in Seq(Chars \cup {NL}) /\ text # << >> /\ Head(text) # NL
  BY DEF PutAt, Goto, cursor, TypeOK
<1>. DEFINE p == index(reg.x, reg.y)
            e == index(terminal_column, terminal_row)
            k == Len(printed)
            s == HowMany(Shown(screen))
            r == HowMany(Shown(screen'))
            a == HowMany(Ahead(screen, e))
<1>3. /\ Position = e /\ e \in Nat /\ e = terminal_row * VGA_WIDTH + terminal_column
      /\ terminal_row * VGA_WIDTH \in Nat
      /\ screen \in Screens /\ terminal_column \in Nat /\ printed \in Seq(Chars)
      /\ k \in Nat /\ VGA_WIDTH \in Nat
  <2>1. /\ terminal_row \in Nat /\ terminal_column \in Nat /\ reg.v \in Nat
        /\ screen \in Screens /\ printed \in Seq(Chars)
    BY DEF TypeOK
  <2>2. /\ terminal_row * VGA_WIDTH \in Nat /\ e \in Nat
        /\ e = terminal_row * VGA_WIDTH + terminal_column
    BY <2>1, PositionType
  <2>3. Position = terminal_row * VGA_WIDTH + terminal_column
    BY <1>2 DEF Position, PositionAt
  <2>4. k \in Nat /\ VGA_WIDTH \in Nat
    BY <2>1, Sizes
  <2>. HIDE DEF e, k
  <2>5. QED
    BY <2>1, <2>2, <2>3, <2>4
<1>4. CASE p \in Cells
  <2>1. /\ pc' = "load_column" /\ screen' = [screen EXCEPT ![p] = Head(text)]
        /\ printed' = Append(printed, Head(text))
    BY <1>4 DEF PutAt, Goto
  <2>2. Head(text) \in Chars
    BY <1>2
  <2>3. Len(printed') = k + 1
    BY <1>3, <2>1, <2>2
  <2>4. Columns /\ Paid
    BY <1>2 DEF CostInv
  <2>5. Columns'
    BY <1>2, <2>1, <2>4 DEF Columns
  <2>6. Position' = e + 1
    <3>1. Position' = terminal_row * VGA_WIDTH + terminal_column + 1
      BY <1>2, <2>1 DEF Position, PositionAt
    <3>2. QED
      BY <1>3, <3>1
  <2>. DEFINE b == HowMany(Ahead(screen', e + 1))
              c == HowMany(Ahead(screen, e + 1))
  <2>7. /\ s \in Nat /\ r \in Nat /\ a \in Nat /\ b \in Nat /\ c \in Nat /\ torn \in Nat
        /\ c <= a
    <3>1. e + 1 \in Nat /\ e <= e + 1
      BY <1>3
    <3>2. screen' \in Screens /\ torn \in Nat
      BY <1>1 DEF TypeOK
    <3>3. QED
      BY <1>3, <3>1, <3>2, CellsCounted, AheadLess
  <2>8. /\ HowMany(Ahead(screen', p + 1)) + s + 1 <= HowMany(Ahead(screen, p)) + r
        /\ b + s <= c + r
    <3>1. e + 1 \in Nat
      BY <1>3
    <3>2. QED
      BY <1>3, <1>4, <2>1, <2>2, <3>1, PutCost
  <2>9. k + a + Stray <= s + torn
    BY <1>3, <2>4 DEF Paid
  <2>10. (k + 1) + b + 0 <= r + torn
    <3>1. CASE p = e
      <4>1. Stray = 0
        BY <1>2, <3>1 DEF Stray, Astray
      <4>2. b + s + 1 <= a + r
        BY <2>8, <3>1
      <4>. HIDE DEF k, s, r, a, b, c, p, e
      <4>3. QED
        BY <1>3, <2>7, <2>9, <4>1, <4>2
    <3>2. CASE p # e
      <4>1. Stray = 1
        BY <1>2, <3>2 DEF Stray, Astray
      <4>2. b + s <= c + r
        BY <2>8
      <4>. HIDE DEF k, s, r, a, b, c, p, e
      <4>3. QED
        BY <1>3, <2>7, <2>9, <4>1, <4>2
    <3>3. QED
      BY <3>1, <3>2
  <2>11. Stray' = 0
    BY <2>1 DEF Stray, Astray
  <2>12. Paid'
    BY <1>2, <2>3, <2>6, <2>10, <2>11 DEF Paid
  <2>13. QED
    BY <2>1, <2>5, <2>12 DEF Wrapping
<1>5. CASE p \notin Cells
  <2>1. pc' = "fault" /\ UNCHANGED <<screen, printed>>
    BY <1>5 DEF PutAt, Goto
  <2>2. Columns /\ Paid
    BY <1>2 DEF CostInv
  <2>3. Columns'
    BY <1>2, <2>1, <2>2 DEF Columns
  <2>4. Stray' <= Stray
    <3>1. Stray' = 0 /\ Stray \in {0, 1}
      BY <2>1 DEF Stray, Astray
    <3>2. QED
      BY <3>1
  <2>5. Paid'
    <3>1. Position' = Mapped /\ Stray' = 0 /\ Stray \in {0, 1}
      BY <2>1 DEF Position, PositionAt, Stray, Astray
    <3>2. HowMany(Ahead(screen, Mapped)) = 0
      BY <1>3, AheadOfAll
    <3>3. s \in Nat /\ a \in Nat /\ torn \in Nat /\ k + a + Stray <= s + torn
      BY <1>3, <2>2, NumbersType DEF Paid, Numbers
    <3>4. k + 0 + 0 <= s + torn
      <4>. HIDE DEF k, s, a
      <4>1. QED
        BY <1>3, <3>1, <3>3
    <3>5. QED
      BY <1>2, <2>1, <3>1, <3>2, <3>4 DEF Paid
  <2>6. QED
    BY <2>1, <2>3, <2>5 DEF Wrapping
<1>6. QED
  BY <1>4, <1>5

\* A line that has been filled stays so.
LEMMA FilledStays ==
  ASSUME Newline \/ Put \/ Step \/ Wrap
  PROVE  filled => filled'
<1>1. CASE LoadRowNewline \/ FetchRow \/ FetchColumn \/ LoadColumn \/ LoadRow
  BY <1>1 DEF LoadRowNewline, FetchRow, FetchColumn, LoadColumn, LoadRow, Load, cursor
<1>2. CASE StoreRowNewline \/ ZeroColumnNewline \/ StoreColumn \/ ZeroColumn \/ StoreRow \/ ZeroRow
  BY <1>2 DEF StoreRowNewline, ZeroColumnNewline, StoreColumn, ZeroColumn, StoreRow, ZeroRow, Store
<1>3. CASE CompareColumn \/ CompareRow
  BY <1>3 DEF CompareColumn, CompareRow, Compare, cursor
<1>4. CASE PutAt
  BY <1>4 DEF PutAt, cursor
<1>5. QED
  BY <1>1, <1>2, <1>3, <1>4 DEF Newline, Put, Step, Wrap

\* The other steps of the task only read and write the cursor.
LEMMA TaskCost ==
  ASSUME TypeOK, CostInv, Newline \/ Put \/ Step \/ Wrap
  PROVE  CostInv'
<1>1. TypeOK'
  BY TaskType
<1>2. SUFFICES ASSUME ~filled'
               PROVE  Columns' /\ Paid' /\ pc' \notin Wrapping
  BY DEF CostInv, Wrapping
<1>3. CASE PutAt
  BY <1>2, <1>3, PutAtCost
<1>4. pc \notin Wrapping /\ Columns /\ Paid
  BY <1>2, FilledStays DEF CostInv, Wrapping
<1>5. /\ terminal_row \in Nat /\ terminal_column \in Nat /\ reg.v \in Nat
      /\ Position \in Nat /\ Stray \in {0, 1} /\ Position' \in Nat /\ Stray' \in {0, 1}
      /\ reg \in [x : Nat, y : Nat, v : Nat]
      /\ VGA_WIDTH \in Nat \ {0} /\ Len(printed) \in Nat /\ 0 <= Stray
  <2>1. /\ terminal_row \in Nat /\ terminal_column \in Nat
        /\ reg \in [x : Nat, y : Nat, v : Nat]
    BY DEF TypeOK
  <2>2. Position \in Nat /\ Stray \in {0, 1} /\ Len(printed) \in Nat
    BY NumbersType DEF Numbers
  <2>3. Position' \in Nat /\ Stray' \in {0, 1}
    BY <1>1, NextNumbersType DEF Numbers
  <2>4. VGA_WIDTH \in Nat \ {0}
    BY Sizes
  <2>5. 0 <= Stray
    BY <2>2
  <2>6. reg.v \in Nat
    BY <2>1
  <2>7. QED
    BY <2>1, <2>2, <2>3, <2>4, <2>5, <2>6
<1>. DEFINE w == terminal_row * VGA_WIDTH
<1>6. w \in Nat /\ (terminal_row + 1) * VGA_WIDTH = w + VGA_WIDTH
  BY <1>5, MulStep
<1>7. CASE LoadRowNewline
  <2>1. /\ pc = "next" /\ pc' = "nl_store" /\ reg' = [reg EXCEPT !.v = terminal_row]
        /\ UNCHANGED <<screen, printed, torn, terminal_row, terminal_column>>
    BY <1>7 DEF LoadRowNewline, Load, Goto, cursor, past
  <2>2. Columns /\ Paid
    BY <1>4
  <2>3. Position = w + terminal_column /\ Position' = w + VGA_WIDTH
    BY <1>5, <1>6, <2>1 DEF Position, PositionAt
  <2>4. terminal_column < VGA_WIDTH
    BY <2>2 DEF Columns
  <2>5. Position <= Position'
    <3>. HIDE DEF w
    <3>1. QED
      BY <1>5, <1>6, <2>3, <2>4
  <2>6. Stray' <= Stray
    BY <1>5, <2>1 DEF Stray, Astray
  <2>7. Columns'
    BY <2>1, <2>2 DEF Columns
  <2>8. QED
    BY <1>1, <2>1, <2>2, <2>5, <2>6, <2>7, NothingPrinted DEF Wrapping
<1>8. CASE StoreRowNewline
  <2>1. /\ pc = "nl_store" /\ pc' = "nl_column" /\ terminal_row' = reg.v + 1
        /\ UNCHANGED <<screen, printed, torn, reg, terminal_column>>
    BY <1>8 DEF StoreRowNewline, Store, Goto, past
  <2>2. Columns /\ Paid
    BY <1>4
  <2>3. Position <= Position'
    <3>1. Position' = Position
      BY <2>1 DEF Position, PositionAt
    <3>2. QED
      BY <1>5, <3>1
  <2>4. Stray' <= Stray
    BY <1>5, <2>1 DEF Stray, Astray
  <2>5. Columns'
    BY <2>1, <2>2 DEF Columns
  <2>6. QED
    BY <1>1, <2>1, <2>2, <2>3, <2>4, <2>5, NothingPrinted DEF Wrapping
<1>9. CASE ZeroColumnNewline
  <2>1. /\ pc = "nl_column" /\ pc' = "next" /\ terminal_row' = terminal_row
        /\ terminal_column' = 0 /\ UNCHANGED <<screen, printed, torn, reg>>
    BY <1>9 DEF ZeroColumnNewline, Store, Goto, past
  <2>2. Columns /\ Paid
    BY <1>4
  <2>3. Position <= Position'
    <3>1. Position = w /\ Position' = w + 0
      BY <2>1 DEF Position, PositionAt
    <3>2. QED
      BY <1>6, <3>1
  <2>4. Stray' <= Stray
    BY <1>5, <2>1 DEF Stray, Astray
  <2>5. Columns'
    BY <1>5, <2>1, <2>2 DEF Columns
  <2>6. QED
    BY <1>1, <2>1, <2>2, <2>3, <2>4, <2>5, NothingPrinted DEF Wrapping
<1>10. CASE FetchRow
  <2>1. /\ pc = "next" /\ pc' = "fetch_column" /\ reg' = [reg EXCEPT !.y = terminal_row]
        /\ UNCHANGED <<screen, printed, torn, terminal_row, terminal_column>>
    BY <1>10 DEF FetchRow, Load, Goto, cursor, past
  <2>2. Columns /\ Paid
    BY <1>4
  <2>3. Position <= Position'
    <3>1. Position' = Position
      BY <2>1 DEF Position, PositionAt
    <3>2. QED
      BY <1>5, <3>1
  <2>4. Stray' <= Stray
    <3>1. reg'.y = terminal_row
      BY <1>5, <2>1
    <3>2. Stray' = 0
      BY <2>1, <3>1 DEF Stray, Astray
    <3>3. QED
      BY <1>5, <3>2
  <2>5. Columns'
    BY <2>1, <2>2 DEF Columns
  <2>6. QED
    BY <1>1, <2>1, <2>2, <2>3, <2>4, <2>5, NothingPrinted DEF Wrapping
<1>11. CASE FetchColumn
  <2>1. /\ pc = "fetch_column" /\ pc' = "put" /\ reg' = [reg EXCEPT !.x = terminal_column]
        /\ UNCHANGED <<screen, printed, torn, terminal_row, terminal_column>>
    BY <1>11 DEF FetchColumn, Load, Goto, cursor, past
  <2>2. Columns /\ Paid
    BY <1>4
  <2>3. Position <= Position'
    <3>1. Position' = Position
      BY <2>1 DEF Position, PositionAt
    <3>2. QED
      BY <1>5, <3>1
  <2>4. Stray' <= Stray
    <3>1. reg'.x = terminal_column /\ reg'.y = reg.y
      BY <1>5, <2>1
    <3>2. CASE reg.y = terminal_row
      <4>1. Stray' = 0
        BY <2>1, <3>1, <3>2 DEF Stray, Astray
      <4>2. QED
        BY <1>5, <4>1
    <3>3. CASE reg.y # terminal_row
      <4>1. Stray = 1
        BY <2>1, <3>3 DEF Stray, Astray
      <4>2. QED
        BY <1>5, <4>1
    <3>4. QED
      BY <3>2, <3>3
  <2>5. Columns'
    BY <2>1, <2>2 DEF Columns
  <2>6. QED
    BY <1>1, <2>1, <2>2, <2>3, <2>4, <2>5, NothingPrinted DEF Wrapping
<1>12. CASE LoadColumn
  <2>1. /\ pc = "load_column" /\ pc' = "store_column" /\ reg' = [reg EXCEPT !.v = terminal_column]
        /\ UNCHANGED <<screen, printed, torn, terminal_row, terminal_column>>
    BY <1>12 DEF LoadColumn, Load, Goto, cursor, past
  <2>2. Columns /\ Paid /\ reg'.v = terminal_column
    BY <1>4, <1>5, <2>1
  <2>3. Position <= Position'
    <3>1. Position' = Position
      BY <2>1, <2>2 DEF Position, PositionAt
    <3>2. QED
      BY <1>5, <3>1
  <2>4. Stray' <= Stray
    BY <1>5, <2>1 DEF Stray, Astray
  <2>5. Columns'
    BY <2>1, <2>2 DEF Columns
  <2>6. QED
    BY <1>1, <2>1, <2>2, <2>3, <2>4, <2>5, NothingPrinted DEF Wrapping
<1>13. CASE StoreColumn
  <2>1. /\ pc = "store_column" /\ pc' = "compare_column" /\ terminal_column' = reg.v + 1
        /\ UNCHANGED <<screen, printed, torn, reg, terminal_row>>
    BY <1>13 DEF StoreColumn, Store, Goto, past
  <2>2. Columns /\ Paid
    BY <1>4
  <2>3. Position <= Position'
    <3>1. Position = w + reg.v + 1 /\ Position' = w + (reg.v + 1)
      BY <2>1 DEF Position, PositionAt
    <3>. HIDE DEF w
    <3>2. QED
      BY <1>5, <1>6, <3>1
  <2>4. Stray' <= Stray
    BY <1>5, <2>1 DEF Stray, Astray
  <2>5. Columns'
    <3>1. reg.v < VGA_WIDTH
      BY <2>1, <2>2 DEF Columns
    <3>2. reg.v + 1 # VGA_WIDTH
      BY <1>2, <1>13 DEF StoreColumn, Store
    <3>3. reg.v + 1 < VGA_WIDTH
      BY <1>5, <3>1, <3>2
    <3>4. QED
      BY <2>1, <3>3 DEF Columns
  <2>6. QED
    BY <1>1, <2>1, <2>2, <2>3, <2>4, <2>5, NothingPrinted DEF Wrapping
<1>14. CASE CompareColumn
  <2>1. /\ pc = "compare_column" /\ pc' = (IF terminal_column = VGA_WIDTH THEN "zero_column" ELSE "next")
        /\ UNCHANGED <<screen, printed, torn, reg, terminal_row, terminal_column>>
    BY <1>14 DEF CompareColumn, Compare, Goto, cursor, past
  <2>2. Columns /\ Paid
    BY <1>4
  <2>3. pc' = "next"
    <3>1. terminal_column < VGA_WIDTH
      BY <2>2 DEF Columns
    <3>2. terminal_column # VGA_WIDTH
      BY <1>5, <3>1
    <3>3. QED
      BY <2>1, <3>2
  <2>4. Position <= Position'
    <3>1. Position' = Position
      BY <2>1, <2>3 DEF Position, PositionAt
    <3>2. QED
      BY <1>5, <3>1
  <2>5. Stray' <= Stray
    BY <1>5, <2>1, <2>3 DEF Stray, Astray
  <2>6. Columns'
    BY <2>1, <2>2, <2>3 DEF Columns
  <2>7. QED
    BY <1>1, <2>1, <2>2, <2>3, <2>4, <2>5, <2>6, NothingPrinted DEF Wrapping
<1>15. CASE ZeroColumn \/ Wrap
  <2>1. pc \in Wrapping
    BY <1>15 DEF ZeroColumn, Wrap, LoadRow, StoreRow, CompareRow, ZeroRow,
                 Load, Store, Compare, Goto, Wrapping
  <2>2. QED
    BY <1>4, <2>1
<1>16. QED
  BY <1>3, <1>7, <1>8, <1>9, <1>10, <1>11, <1>12, <1>13, <1>14, <1>15 DEF Newline, Put, Step

-----------------------------------------------------------------------------
(***************************************************************************)
(* The ring: positions are counted modulo the size of the screen.          *)
(***************************************************************************)
LEMMA DivMod ==
  ASSUME NEW m \in Nat \ {0}, NEW n \in Nat
  PROVE  /\ n \div m \in Nat /\ n % m \in 0 .. m - 1
         /\ n = (n \div m) * m + (n % m)
OBVIOUS

\* A number is given by its quotient and its remainder.
LEMMA ModUnique ==
  ASSUME NEW m \in Nat \ {0}, NEW n \in Nat, NEW q \in Nat, NEW r \in 0 .. m - 1, n = q * m + r
  PROVE  n % m = r
<1>. DEFINE a == n \div m
            b == n % m
<1>1. a \in Nat /\ b \in 0 .. m - 1 /\ n = a * m + b
  BY DivMod
<1>. HIDE DEF a, b
<1>2. /\ a * m \in Nat /\ q * m \in Nat
      /\ (a + 1) * m = a * m + m /\ (q + 1) * m = q * m + m
  BY <1>1, MulStep
<1>3. CASE a < q
  <2>1. (a + 1) * m <= q * m
    BY <1>1, <1>3, MulMono
  <2>. DEFINE x == a * m
              y == q * m
  <2>2. x \in Nat /\ y \in Nat /\ x + m <= y /\ x + b = y + r
    BY <1>1, <1>2, <2>1
  <2>. HIDE DEF x, y
  <2>3. QED
    BY <1>1, <2>2
<1>4. CASE q < a
  <2>1. (q + 1) * m <= a * m
    BY <1>1, <1>4, MulMono
  <2>. DEFINE x == a * m
              y == q * m
  <2>2. x \in Nat /\ y \in Nat /\ y + m <= x /\ x + b = y + r
    BY <1>1, <1>2, <2>1
  <2>. HIDE DEF x, y
  <2>3. QED
    BY <1>1, <2>2
<1>5. CASE a = q
  BY <1>1, <1>2, <1>5 DEF b
<1>6. QED
  BY <1>1, <1>3, <1>4, <1>5

LEMMA NextMod ==
  ASSUME NEW m \in Nat \ {0}, NEW n \in Nat
  PROVE  (n + 1) % m = IF n % m = m - 1 THEN 0 ELSE (n % m) + 1
<1>. DEFINE a == n \div m
            b == n % m
<1>1. a \in Nat /\ b \in 0 .. m - 1 /\ n = a * m + b
  BY DivMod
<1>. HIDE DEF a, b
<1>2. a * m \in Nat /\ (a + 1) * m = a * m + m
  BY <1>1, MulStep
<1>3. CASE b = m - 1
  <2>1. n + 1 = (a + 1) * m + 0 /\ a + 1 \in Nat /\ 0 \in 0 .. m - 1 /\ n + 1 \in Nat
    BY <1>1, <1>2, <1>3
  <2>2. (n + 1) % m = 0
    BY <2>1, ModUnique
  <2>3. QED
    BY <1>3, <2>2 DEF b
<1>4. CASE b # m - 1
  <2>1. n + 1 = a * m + (b + 1) /\ b + 1 \in 0 .. m - 1 /\ n + 1 \in Nat
    BY <1>1, <1>2, <1>4
  <2>2. (n + 1) % m = b + 1
    BY <1>1, <2>1, ModUnique
  <2>3. QED
    BY <1>4, <2>2 DEF b
<1>5. QED
  BY <1>3, <1>4

LEMMA ModApart ==
  ASSUME NEW m \in Nat \ {0}, NEW n \in Nat, NEW j \in Nat, n < j + m, j < n
  PROVE  j % m # n % m
<1>. DEFINE a == n \div m
            c == j \div m
            b == n % m
            d == j % m
<1>1. /\ a \in Nat /\ b \in Nat /\ n = a * m + b
      /\ c \in Nat /\ d \in Nat /\ j = c * m + d
  BY DivMod
<1>. HIDE DEF a, b, c, d
<1>. SUFFICES ASSUME d = b PROVE FALSE
  BY DEF b, d
<1>2. /\ a * m \in Nat /\ c * m \in Nat
      /\ (a + 1) * m = a * m + m /\ (c + 1) * m = c * m + m
  BY <1>1, MulStep
<1>3. CASE a <= c
  <2>1. a * m <= c * m
    BY <1>1, <1>3, MulMono
  <2>. DEFINE x == a * m
              y == c * m
  <2>2. x \in Nat /\ y \in Nat /\ x <= y /\ n = x + b /\ j = y + d
    BY <1>1, <1>2, <2>1
  <2>. HIDE DEF x, y
  <2>3. QED
    BY <1>1, <2>2
<1>4. CASE c < a
  <2>1. (c + 1) * m <= a * m
    BY <1>1, <1>4, MulMono
  <2>. DEFINE x == a * m
              y == c * m
  <2>2. x \in Nat /\ y \in Nat /\ y + m <= x /\ n = x + b /\ j = y + d
    BY <1>1, <1>2, <2>1
  <2>. HIDE DEF x, y
  <2>3. QED
    BY <1>1, <2>2
<1>5. QED
  BY <1>1, <1>3, <1>4

\* The cursor behind one more character.
LEMMA AtStep ==
  ASSUME NEW row \in Nat, NEW column \in Nat, NEW n \in Nat, At(row, column, n)
  PROVE  /\ index(column, row) \in Cells /\ index(column, row) = n % Size
         /\ column + 1 # VGA_WIDTH => At(row, column + 1, n + 1)
         /\ column + 1 = VGA_WIDTH =>
               IF row + 1 = VGA_HEIGHT THEN At(0, 0, n + 1) ELSE At(row + 1, 0, n + 1)
<1>. DEFINE x == row * VGA_WIDTH
            r == n % Size
<1>1. /\ VGA_WIDTH \in Nat \ {0} /\ VGA_HEIGHT \in Nat \ {0} /\ Mapped \in Nat
      /\ Size \in Nat \ {0} /\ Size <= Mapped /\ Size = VGA_HEIGHT * VGA_WIDTH
  BY Sizes
<1>2. /\ x \in Nat /\ index(column, row) = x + column
      /\ (row + 1) * VGA_WIDTH = x + VGA_WIDTH
      /\ index(column + 1, row) = x + (column + 1)
      /\ index(0, row + 1) = x + VGA_WIDTH
      /\ index(0, 0) = 0
  <2>1. row + 1 \in Nat /\ column + 1 \in Nat /\ 0 \in Nat
    OBVIOUS
  <2>2. x \in Nat /\ (row + 1) * VGA_WIDTH = x + VGA_WIDTH /\ index(column, row) = x + column
    BY IndexIs
  <2>3. index(column + 1, row) = x + (column + 1)
    BY <2>1, IndexIs
  <2>4. index(0, row + 1) = x + VGA_WIDTH
    <3>1. index(0, row + 1) = (row + 1) * VGA_WIDTH + 0
      BY <2>1, IndexIs
    <3>2. QED
      BY <1>1, <2>2, <3>1
  <2>5. index(0, 0) = 0
    BY <1>1 DEF index
  <2>6. QED
    BY <2>2, <2>3, <2>4, <2>5
<1>3. r \in 0 .. Size - 1 /\ (n + 1) % Size = IF r = Size - 1 THEN 0 ELSE r + 1
  BY <1>1, DivMod, NextMod
<1>4. row < VGA_HEIGHT /\ column < VGA_WIDTH /\ x + column = r
  BY <1>2 DEF At
<1>5. row + 1 # VGA_HEIGHT => x + VGA_WIDTH + VGA_WIDTH <= Size
  <2>1. SUFFICES ASSUME row + 1 # VGA_HEIGHT PROVE x + VGA_WIDTH + VGA_WIDTH <= Size
    OBVIOUS
  <2>2. ((row + 1) + 1) * VGA_WIDTH <= VGA_HEIGHT * VGA_WIDTH
    <3>1. (row + 1) + 1 <= VGA_HEIGHT
      BY <1>1, <1>4, <2>1
    <3>2. QED
      BY <1>1, <3>1, MulMono
  <2>3. ((row + 1) + 1) * VGA_WIDTH = (row + 1) * VGA_WIDTH + VGA_WIDTH
    BY <1>1, MulStep
  <2>4. QED
    BY <1>1, <1>2, <2>2, <2>3
<1>6. row + 1 = VGA_HEIGHT => x + VGA_WIDTH = Size
  BY <1>1, <1>2
<1>. HIDE DEF x, r
<1>7. index(column, row) \in Cells
  BY <1>1, <1>2, <1>3, <1>4 DEF Cells
<1>8. index(column, row) = n % Size
  BY <1>2, <1>4 DEF r
<1>9. ASSUME column + 1 # VGA_WIDTH PROVE At(row, column + 1, n + 1)
  <2>1. column + 1 < VGA_WIDTH
    BY <1>1, <1>4, <1>9
  <2>2. r # Size - 1
    BY <1>1, <1>2, <1>3, <1>4, <1>5, <1>6, <2>1
  <2>3. index(column + 1, row) = r + 1
    BY <1>1, <1>2, <1>3, <1>4
  <2>4. QED
    BY <1>3, <1>4, <2>1, <2>2, <2>3 DEF At
<1>10. ASSUME column + 1 = VGA_WIDTH, row + 1 = VGA_HEIGHT PROVE At(0, 0, n + 1)
  <2>1. r = Size - 1
    BY <1>1, <1>2, <1>3, <1>4, <1>6, <1>10
  <2>2. 0 < VGA_WIDTH /\ 0 < VGA_HEIGHT
    BY <1>1
  <2>3. QED
    BY <1>2, <1>3, <2>1, <2>2 DEF At
<1>11. ASSUME column + 1 = VGA_WIDTH, row + 1 # VGA_HEIGHT PROVE At(row + 1, 0, n + 1)
  <2>1. r # Size - 1 /\ x + VGA_WIDTH = r + 1
    BY <1>1, <1>2, <1>3, <1>4, <1>5, <1>11
  <2>2. 0 < VGA_WIDTH /\ row + 1 < VGA_HEIGHT
    BY <1>1, <1>4, <1>11
  <2>3. QED
    BY <1>2, <1>3, <2>1, <2>2 DEF At
<1>12. QED
  BY <1>7, <1>8, <1>9, <1>10, <1>11

\* One more character takes the place of the oldest.
LEMMA ShowsStep ==
  ASSUME NEW s \in Screens, NEW p \in Seq(Chars), NEW c, ShowsLast(s, p)
  PROVE  ShowsLast([s EXCEPT ![Len(p) % Size] = c], Append(p, c))
<1>. DEFINE n == Len(p)
            q == Append(p, c)
            u == [s EXCEPT ![n % Size] = c]
<1>1. n \in Nat /\ Len(q) = n + 1 /\ Size \in Nat \ {0} /\ Size <= Mapped /\ Mapped \in Nat
  BY Sizes
<1>. SUFFICES ASSUME NEW k \in 1 .. Len(q), k > Len(q) - Size
              PROVE  u[(k - 1) % Size] = q[k]
  BY DEF ShowsLast
<1>2. k \in Nat /\ k - 1 \in Nat /\ k <= n + 1
  BY <1>1
<1>3. n % Size \in Cells /\ (k - 1) % Size \in Cells
  <2>1. n % Size \in 0 .. Size - 1 /\ (k - 1) % Size \in 0 .. Size - 1
    BY <1>1, <1>2, DivMod
  <2>2. \A i \in 0 .. Size - 1 : i \in Cells
    BY <1>1 DEF Cells
  <2>. HIDE DEF n
  <2>3. QED
    BY <2>1, <2>2
<1>4. CASE k = n + 1
  <2>1. q[k] = c /\ k - 1 = n
    BY <1>1, <1>4
  <2>2. u[n % Size] = c
    BY <1>3 DEF Screens
  <2>. HIDE DEF q, u, n
  <2>3. QED
    BY <2>1, <2>2
<1>5. CASE k # n + 1
  <2>1. k \in 1 .. n /\ q[k] = p[k] /\ k > n - Size
    BY <1>1, <1>2, <1>5
  <2>2. s[(k - 1) % Size] = p[k]
    BY <2>1 DEF ShowsLast
  <2>3. n < (k - 1) + Size /\ k - 1 < n
    BY <1>1, <1>2, <1>5
  <2>4. (k - 1) % Size # n % Size
    BY <1>1, <1>2, <2>3, ModApart
  <2>5. u[(k - 1) % Size] = s[(k - 1) % Size]
    BY <1>3, <2>4 DEF Screens
  <2>. HIDE DEF q, u, n
  <2>6. QED
    BY <2>1, <2>2, <2>5
<1>6. QED
  BY <1>4, <1>5

\* A terminal that is in order between two characters.
Ring(t) == ~t.fault /\ At(t.row, t.column, Len(t.printed)) /\ ShowsLast(t.screen, t.printed)

LEMMA RingPut ==
  ASSUME NEW t \in TermType, Ring(t), NEW c \in Chars \cup {NL}, c # NL
  PROVE  Ring(terminal_putchar(t, c))
<1>. DEFINE u == terminal_putchar(t, c)
            n == Len(t.printed)
<1>1. /\ t.row \in Nat /\ t.column \in Nat /\ t.screen \in Screens
      /\ t.printed \in Seq(Chars) /\ n \in Nat
      /\ Place(t) = index(t.column, t.row)
  BY TermFacts DEF Place
<1>2. Faulted(t, u) \/ Printed(t, c, u)
  BY PutcharIs DEF Ring
<1>3. At(t.row, t.column, n)
  BY DEF Ring
<1>4. /\ Place(t) \in Cells /\ Place(t) = n % Size
      /\ t.column + 1 # VGA_WIDTH => At(t.row, t.column + 1, n + 1)
      /\ t.column + 1 = VGA_WIDTH =>
            IF t.row + 1 = VGA_HEIGHT THEN At(0, 0, n + 1) ELSE At(t.row + 1, 0, n + 1)
  BY <1>1, <1>3, AtStep
<1>5. Printed(t, c, u)
  BY <1>2, <1>4 DEF Faulted
<1>6. /\ ~u.fault /\ u.printed = Append(t.printed, c)
      /\ u.screen = [t.screen EXCEPT ![n % Size] = c]
  BY <1>4, <1>5 DEF Printed
<1>7. Len(u.printed) = n + 1
  <2>1. c \in Chars
    OBVIOUS
  <2>2. QED
    BY <1>1, <1>6, <2>1
<1>8. ShowsLast(u.screen, u.printed)
  BY <1>1, <1>6, ShowsStep DEF Ring
<1>9. At(u.row, u.column, n + 1)
  BY <1>4, <1>5 DEF Printed
<1>. HIDE DEF u
<1>10. QED
  BY <1>6, <1>7, <1>8, <1>9 DEF Ring, u

LEMMA RingWrite ==
  ASSUME NEW t \in TermType, Ring(t), NEW data \in Seq(Chars \cup {NL}),
         \A i \in 1 .. Len(data) : data[i] # NL
  PROVE  Ring(terminal_write(t, data))
<1>1. PICK w : Written(w, t, data)
  BY WriteSteps
<1>2. \A i \in 0 .. Len(data) : w[i] \in TermType
  BY <1>1, WriteType
<1>. DEFINE T == {i \in Nat : i <= Len(data) /\ ~ Ring(w[i])}
<1>3. T = {}
  <2>. SUFFICES ASSUME T # {} PROVE FALSE
    OBVIOUS
  <2>1. PICK m \in T : \A k \in T : m <= k
    <3>1. T \in SUBSET Nat
      OBVIOUS
    <3>. HIDE DEF T
    <3>2. QED
      BY <3>1, LeastElement
  <2>2. m # 0 /\ m \in 1 .. Len(data)
    BY <1>1 DEF Written
  <2>3. m - 1 \in Nat /\ m - 1 \notin T
    <3>1. m - 1 \in Nat /\ ~ (m <= m - 1)
      BY <2>2
    <3>. HIDE DEF T
    <3>2. QED
      BY <2>1, <3>1
  <2>4. /\ Ring(w[m - 1]) /\ data[m] \in Chars \cup {NL} /\ data[m] # NL
        /\ w[m - 1] \in TermType
    BY <1>2, <2>2, <2>3
  <2>5. w[m] = terminal_putchar(w[m - 1], data[m])
    BY <1>1, <2>2 DEF Written
  <2>6. Ring(w[m])
    BY <2>4, <2>5, RingPut
  <2>7. QED
    BY <2>6
<1>4. Len(data) \in Nat
  OBVIOUS
<1>5. QED
  BY <1>1, <1>3, <1>4 DEF Written

\* A handler between two characters prints along the ring.
LEMMA RingInterrupt ==
  ASSUME TypeOK, RingInv, NEW data, HandlerPrints(data)
  PROVE  RingInv'
<1>. SUFFICES ASSUME newlines' = 0, torn' = 0 PROVE InRing'
  BY DEF RingInv
<1>. DEFINE t == Terminal
            u == terminal_write(t, data)
<1>1. data \in Seq(Chars \cup {NL}) /\ Len(data) \in Nat /\ Newlines(data) \in Nat
  BY AllTexts, NewlinesOf DEF HandlerPrints
<1>2. /\ t \in TermType /\ t.row = terminal_row /\ t.column = terminal_column
      /\ t.screen = screen /\ t.printed = printed /\ ~t.fault
  BY TerminalType
<1>3. /\ terminal_row' = u.row /\ terminal_column' = u.column
      /\ screen' = u.screen /\ printed' = u.printed
      /\ pc' = IF u.fault THEN "fault" ELSE pc
      /\ newlines' = newlines + Newlines(data)
      /\ torn' = torn + (IF pc = "next" THEN 0 ELSE Len(data))
      /\ text' = text /\ reg' = reg
  BY DEF HandlerPrints
<1>4. newlines = 0 /\ Newlines(data) = 0 /\ torn = 0 /\ (pc = "next" \/ Len(data) = 0)
  BY <1>1, <1>3 DEF TypeOK
<1>5. InRing
  BY <1>4 DEF RingInv
<1>. HIDE DEF t, u
<1>6. CASE Len(data) = 0
  <2>1. u = t
    <3>1. PICK w : Written(w, t, data)
      BY <1>1, WriteSteps
    <3>2. QED
      BY <1>6, <3>1 DEF Written, u
  <2>2. UNCHANGED <<terminal_row, terminal_column, screen, printed, pc, text, reg>>
    BY <1>2, <1>3, <2>1
  <2>3. QED
    BY <1>5, <2>2 DEF InRing
<1>7. CASE Len(data) # 0
  <2>1. pc = "next" /\ At(terminal_row, terminal_column, Len(printed)) /\ ShowsLast(screen, printed)
        /\ \A i \in 1 .. Len(text) : text[i] # NL
    BY <1>4, <1>5, <1>7 DEF InRing
  <2>2. Ring(t)
    BY <1>2, <2>1 DEF Ring
  <2>3. \A i \in 1 .. Len(data) : data[i] # NL
    BY <1>1, <1>4, NewlinesOf
  <2>4. Ring(u)
    BY <1>1, <1>2, <2>2, <2>3, RingWrite DEF u
  <2>5. pc' = "next" /\ At(terminal_row', terminal_column', Len(printed')) /\ ShowsLast(screen', printed')
        /\ \A i \in 1 .. Len(text') : text'[i] # NL
    BY <1>3, <2>1, <2>4 DEF Ring
  <2>6. QED
    BY <2>5 DEF InRing
<1>8. QED
  BY <1>6, <1>7

LEMMA RingPrint ==
  ASSUME TypeOK, RingInv, terminal_print
  PROVE  RingInv'
<1>. SUFFICES ASSUME newlines' = 0, torn' = 0 PROVE InRing'
  BY DEF RingInv
<1>1. /\ pc = "next" /\ text' \in TaskTexts /\ newlines' = newlines + Newlines(text')
      /\ UNCHANGED <<terminal_row, terminal_column, screen, pc, reg, printed, torn>>
  BY DEF terminal_print, cursor
<1>2. text' \in Seq(Chars \cup {NL})
  BY <1>1, AllTexts
<1>3. Newlines(text') \in Nat /\ (Newlines(text') = 0 => \A i \in 1 .. Len(text') : text'[i] # NL)
  BY <1>2, NewlinesOf
<1>4. newlines = 0 /\ Newlines(text') = 0 /\ torn = 0
  BY <1>1, <1>3 DEF TypeOK
<1>5. InRing
  BY <1>4 DEF RingInv
<1>6. QED
  BY <1>1, <1>3, <1>4, <1>5 DEF InRing

\* What has still to be printed has no newline, with or without its first character.
LEMMA TextKept ==
  ASSUME TypeOK, InRing, NEW from, NEW to, Goto(from, to), text # << >>
  PROVE  \A i \in 1 .. Len(text') : text'[i] # NL
<1>1. text \in Seq(Chars \cup {NL}) /\ \A i \in 1 .. Len(text) : text[i] # NL
  BY DEF TypeOK, InRing
<1>2. text' = text \/ text' = Tail(text)
  BY DEF Goto
<1>3. CASE text' = Tail(text)
  <2>1. Len(text) \in Nat \ {0} /\ Len(text') = Len(text) - 1
    BY <1>1, <1>3
  <2>2. \A i \in 1 .. Len(text') : text'[i] = text[i + 1] /\ i + 1 \in 1 .. Len(text)
    BY <1>1, <1>3, <2>1
  <2>3. QED
    BY <1>1, <2>2
<1>4. QED
  BY <1>1, <1>2, <1>3

\* The task's steps, when there has been no newline and no torn call.
LEMMA RingFacts ==
  ASSUME TypeOK
  PROVE  /\ terminal_row \in Nat /\ terminal_column \in Nat /\ screen \in Screens
         /\ text \in Seq(Chars \cup {NL}) /\ reg \in [x : Nat, y : Nat, v : Nat]
         /\ printed \in Seq(Chars) /\ Len(printed) \in Nat
         /\ VGA_WIDTH \in Nat \ {0} /\ VGA_HEIGHT \in Nat \ {0}
BY Sizes DEF TypeOK

LEMMA RingTaskPut ==
  ASSUME TypeOK, InRing, Newline \/ Put
  PROVE  InRing'
<1>1. /\ terminal_row \in Nat /\ terminal_column \in Nat /\ screen \in Screens
      /\ text \in Seq(Chars \cup {NL}) /\ reg \in [x : Nat, y : Nat, v : Nat]
      /\ printed \in Seq(Chars) /\ Len(printed) \in Nat
  BY RingFacts
<1>2. CASE Newline
  <2>1. pc \in {"nl_store", "nl_column"} \/ (text # << >> /\ Head(text) = NL)
    BY <1>2 DEF Newline, LoadRowNewline, StoreRowNewline, ZeroColumnNewline, Prints,
                Store, Load, Goto
  <2>2. Head(text) = text[1] /\ (text # << >> => 1 \in 1 .. Len(text))
    BY <1>1
  <2>3. QED
    BY <2>1, <2>2 DEF InRing
<1>3. CASE FetchRow
  <2>1. /\ pc = "next" /\ pc' = "fetch_column" /\ reg' = [reg EXCEPT !.y = terminal_row]
        /\ text # << >> /\ Goto("next", "fetch_column")
        /\ UNCHANGED <<screen, printed, terminal_row, terminal_column>>
    BY <1>3 DEF FetchRow, Prints, Load, Goto, cursor, past
  <2>2. reg'.y = terminal_row
    BY <1>1, <2>1
  <2>3. \A i \in 1 .. Len(text') : text'[i] # NL
    BY <2>1, TextKept
  <2>4. QED
    BY <2>1, <2>2, <2>3 DEF InRing
<1>4. CASE FetchColumn
  <2>1. /\ pc = "fetch_column" /\ pc' = "put" /\ reg' = [reg EXCEPT !.x = terminal_column]
        /\ text' = text
        /\ UNCHANGED <<screen, printed, terminal_row, terminal_column>>
    BY <1>4 DEF FetchColumn, Load, Goto, cursor, past
  <2>2. reg'.x = terminal_column /\ reg'.y = reg.y
    BY <1>1, <2>1
  <2>3. QED
    BY <2>1, <2>2 DEF InRing
<1>5. CASE PutAt
  <2>1. /\ pc = "put" /\ UNCHANGED <<terminal_row, terminal_column, reg>>
        /\ text # << >> /\ Head(text) \in Chars
    BY <1>1, <1>5 DEF PutAt, Goto, cursor, TypeOK
  <2>2. /\ At(terminal_row, terminal_column, Len(printed)) /\ ShowsLast(screen, printed)
        /\ reg.x = terminal_column /\ reg.y = terminal_row
        /\ \A i \in 1 .. Len(text) : text[i] # NL
    BY <2>1 DEF InRing
  <2>3. /\ index(terminal_column, terminal_row) \in Cells
        /\ index(terminal_column, terminal_row) = Len(printed) % Size
    BY <1>1, <2>2, AtStep
  <2>4. /\ pc' = "load_column" /\ text' = text
        /\ screen' = [screen EXCEPT ![Len(printed) % Size] = Head(text)]
        /\ printed' = Append(printed, Head(text))
    BY <1>5, <2>2, <2>3 DEF PutAt, Goto
  <2>5. ShowsLast(screen', printed')
    BY <1>1, <2>2, <2>4, ShowsStep
  <2>6. Len(printed') = Len(printed) + 1 /\ Len(printed') - 1 = Len(printed) /\ Len(printed') > 0
    BY <1>1, <2>1, <2>4
  <2>7. QED
    BY <2>1, <2>2, <2>4, <2>5, <2>6 DEF InRing
<1>6. QED
  BY <1>2, <1>3, <1>4, <1>5 DEF Put

\* The steps of the column and of the row move the cursor behind the character.
LEMMA RingTaskStep ==
  ASSUME TypeOK, InRing, Step \/ Wrap
  PROVE  InRing'
<1>1. /\ terminal_row \in Nat /\ terminal_column \in Nat
      /\ reg \in [x : Nat, y : Nat, v : Nat] /\ Len(printed) \in Nat
      /\ VGA_WIDTH \in Nat \ {0} /\ VGA_HEIGHT \in Nat \ {0}
  BY RingFacts
<1>. DEFINE n == Len(printed) - 1
<1>2. /\ UNCHANGED <<screen, printed>>
      /\ pc \notin {"next", "fetch_column", "put", "fault", "nl_store", "nl_column"}
      /\ text # << >> /\ \A i \in 1 .. Len(text') : text'[i] # NL
  <2>1. UNCHANGED <<screen, printed>> /\ \E to : Goto(pc, to)
    BY DEF Step, Wrap, LoadColumn, StoreColumn, CompareColumn, ZeroColumn, LoadRow, StoreRow,
           CompareRow, ZeroRow, Load, Store, Compare, Goto, past
  <2>2. pc \notin {"next", "fetch_column", "put", "fault", "nl_store", "nl_column"}
    BY DEF Step, Wrap, LoadColumn, StoreColumn, CompareColumn, ZeroColumn, LoadRow, StoreRow,
           CompareRow, ZeroRow, Load, Store, Compare, Goto
  <2>3. text # << >>
    BY <2>2 DEF TypeOK
  <2>4. QED
    BY <2>1, <2>2, <2>3, TextKept
<1>3. n \in Nat /\ n + 1 = Len(printed) /\ Len(printed) > 0 /\ ShowsLast(screen, printed)
  BY <1>1, <1>2 DEF InRing
<1>. HIDE DEF n
<1>4. CASE LoadColumn
  <2>1. /\ pc = "load_column" /\ pc' = "store_column" /\ reg' = [reg EXCEPT !.v = terminal_column]
        /\ UNCHANGED <<terminal_row, terminal_column>>
    BY <1>4 DEF LoadColumn, Load, Goto, cursor
  <2>2. reg'.v = terminal_column
    BY <1>1, <2>1
  <2>3. QED
    BY <1>2, <2>1, <2>2 DEF InRing
<1>5. CASE StoreColumn
  <2>1. /\ pc = "store_column" /\ pc' = "compare_column" /\ terminal_column' = reg.v + 1
        /\ UNCHANGED <<terminal_row>>
    BY <1>5 DEF StoreColumn, Store, Goto
  <2>2. reg.v = terminal_column /\ At(terminal_row, terminal_column, n)
    BY <2>1 DEF InRing, n
  <2>3. terminal_column' > 0 /\ terminal_column' - 1 = terminal_column
    BY <1>1, <2>1, <2>2
  <2>4. QED
    BY <1>2, <1>3, <2>1, <2>2, <2>3 DEF InRing, n
<1>6. CASE CompareColumn
  <2>1. /\ pc = "compare_column"
        /\ pc' = (IF terminal_column = VGA_WIDTH THEN "zero_column" ELSE "next")
        /\ UNCHANGED <<terminal_row, terminal_column, reg>>
    BY <1>6 DEF CompareColumn, Compare, Goto, cursor
  <2>2. terminal_column > 0 /\ At(terminal_row, terminal_column - 1, n)
    BY <2>1 DEF InRing, n
  <2>3. terminal_column - 1 \in Nat /\ (terminal_column - 1) + 1 = terminal_column
    BY <1>1, <2>2
  <2>4. terminal_column # VGA_WIDTH => At(terminal_row, terminal_column, Len(printed))
    BY <1>1, <1>3, <2>2, <2>3, AtStep
  <2>5. CASE terminal_column = VGA_WIDTH
    BY <1>2, <1>3, <2>1, <2>2, <2>5 DEF InRing, n
  <2>6. CASE terminal_column # VGA_WIDTH
    BY <1>2, <1>3, <2>1, <2>4, <2>6 DEF InRing
  <2>7. QED
    BY <2>5, <2>6
<1>7. CASE ZeroColumn
  <2>1. /\ pc = "zero_column" /\ pc' = "load_row" /\ terminal_column' = 0
        /\ UNCHANGED <<terminal_row>>
    BY <1>7 DEF ZeroColumn, Store, Goto
  <2>2. QED
    BY <1>2, <1>3, <2>1 DEF InRing
<1>8. CASE LoadRow
  <2>1. /\ pc = "load_row" /\ pc' = "store_row" /\ reg' = [reg EXCEPT !.v = terminal_row]
        /\ UNCHANGED <<terminal_row, terminal_column>>
    BY <1>8 DEF LoadRow, Load, Goto, cursor
  <2>2. reg'.v = terminal_row
    BY <1>1, <2>1
  <2>3. QED
    BY <1>2, <1>3, <2>1, <2>2 DEF InRing
<1>9. CASE StoreRow
  <2>1. /\ pc = "store_row" /\ pc' = "compare_row" /\ terminal_row' = reg.v + 1
        /\ UNCHANGED <<terminal_column>>
    BY <1>9 DEF StoreRow, Store, Goto
  <2>2. /\ reg.v = terminal_row /\ At(terminal_row, VGA_WIDTH - 1, n) /\ terminal_column = 0
    BY <2>1 DEF InRing, n
  <2>3. terminal_row' > 0 /\ terminal_row' - 1 = terminal_row
    BY <1>1, <2>1, <2>2
  <2>4. QED
    BY <1>2, <1>3, <2>1, <2>2, <2>3 DEF InRing, n
<1>10. CASE CompareRow \/ ZeroRow
  <2>1. pc \in {"compare_row", "zero_row"} /\ terminal_column' = terminal_column
    BY <1>10 DEF CompareRow, ZeroRow, Compare, Store, Goto, cursor
  <2>2. /\ terminal_column = 0 /\ terminal_row > 0 /\ At(terminal_row - 1, VGA_WIDTH - 1, n)
    BY <2>1 DEF InRing, n
  <2>3. /\ terminal_row - 1 \in Nat /\ (terminal_row - 1) + 1 = terminal_row
        /\ VGA_WIDTH - 1 \in Nat /\ (VGA_WIDTH - 1) + 1 = VGA_WIDTH
    BY <1>1, <2>2
  <2>4. IF terminal_row = VGA_HEIGHT THEN At(0, 0, Len(printed)) ELSE At(terminal_row, 0, Len(printed))
    BY <1>1, <1>3, <2>2, <2>3, AtStep
  <2>5. CASE CompareRow
    <3>1. /\ pc = "compare_row" /\ pc' = (IF terminal_row = VGA_HEIGHT THEN "zero_row" ELSE "next")
          /\ UNCHANGED <<terminal_row, terminal_column, reg>>
      BY <2>5 DEF CompareRow, Compare, Goto, cursor
    <3>2. CASE terminal_row = VGA_HEIGHT
      BY <1>2, <1>3, <2>2, <3>1, <3>2 DEF InRing, n
    <3>3. CASE terminal_row # VGA_HEIGHT
      BY <1>2, <1>3, <2>2, <2>4, <3>1, <3>3 DEF InRing
    <3>4. QED
      BY <3>2, <3>3
  <2>6. CASE ZeroRow
    <3>1. /\ pc = "zero_row" /\ pc' = "next" /\ terminal_row' = 0
      BY <2>6 DEF ZeroRow, Store, Goto
    <3>2. terminal_row = VGA_HEIGHT
      BY <3>1 DEF InRing
    <3>3. QED
      BY <1>2, <1>3, <2>1, <2>2, <2>4, <3>1, <3>2 DEF InRing
  <2>7. QED
    BY <1>10, <2>5, <2>6
<1>11. QED
  BY <1>4, <1>5, <1>6, <1>7, <1>8, <1>9, <1>10 DEF Step, Wrap

LEMMA RingTask ==
  ASSUME TypeOK, RingInv, Newline \/ Put \/ Step \/ Wrap
  PROVE  RingInv'
<1>1. UNCHANGED <<newlines, torn>>
  BY DEF Newline, LoadRowNewline, StoreRowNewline, ZeroColumnNewline,
         Put, FetchRow, FetchColumn, PutAt, Step, LoadColumn, StoreColumn, CompareColumn,
         ZeroColumn, Wrap, LoadRow, StoreRow, CompareRow, ZeroRow, Load, Store, Compare, past
<1>2. QED
  BY <1>1, RingTaskPut, RingTaskStep DEF RingInv

-----------------------------------------------------------------------------
(***************************************************************************)
(* The invariants from the start.                                          *)
(***************************************************************************)
LEMMA InitInv == ASSUME Init PROVE IInv
<1>1. TypeOK
  <2>1. filled \in BOOLEAN
    BY Zenon DEF Init
  <2>2. screen \in Screens
    BY DEF Init, Screens
  <2>3. /\ terminal_row \in Nat /\ terminal_column \in Nat
        /\ reg \in [x : Nat, y : Nat, v : Nat]
        /\ newlines \in Nat /\ interrupts \in Nat /\ torn \in Nat
    BY DEF Init
  <2>4. pc = "next" /\ text \in Seq(Chars \cup {NL}) /\ printed \in Seq(Chars)
    BY DEF Init
  <2>5. QED
    BY <2>1, <2>2, <2>3, <2>4 DEF TypeOK, Control
<1>2. /\ pc = "next" /\ text = << >> /\ printed = << >> /\ Len(printed) = 0
      /\ terminal_row = 0 /\ terminal_column = 0 /\ torn = 0
  BY DEF Init
<1>3. CostInv
  <2>1. Shown(screen) = {} /\ Ahead(screen, Position) = {}
    BY DEF Init, Shown, Ahead
  <2>2. HowMany(Shown(screen)) = 0 /\ HowMany(Ahead(screen, Position)) = 0
    BY <2>1, FS_EmptySet DEF HowMany
  <2>3. Stray = 0
    BY <1>2 DEF Stray, Astray
  <2>4. Paid
    BY <1>2, <2>2, <2>3 DEF Paid
  <2>5. Columns
    BY <1>2, Sizes DEF Columns
  <2>6. QED
    BY <1>2, <2>4, <2>5 DEF CostInv
<1>4. RingInv
  <2>1. At(0, 0, 0)
    <3>1. 0 % Size = 0 /\ index(0, 0) = 0
      <4>1. 0 % Size = 0
        <5>1. 0 = 0 * Size + 0 /\ 0 \in 0 .. Size - 1 /\ Size \in Nat \ {0}
          BY Sizes
        <5>2. QED
          BY <5>1, ModUnique
      <4>2. index(0, 0) = 0
        BY Sizes DEF index
      <4>3. QED
        BY <4>1, <4>2
    <3>2. QED
      BY <3>1, Sizes DEF At
  <2>2. ShowsLast(screen, printed)
    BY <1>2 DEF ShowsLast
  <2>3. QED
    BY <1>2, <2>1, <2>2 DEF RingInv, InRing
<1>5. QED
  BY <1>1, <1>3, <1>4 DEF IInv

\* A call of terminal_print changes nothing on the terminal.
LEMMA PrintCost ==
  ASSUME TypeOK, CostInv, terminal_print
  PROVE  CostInv'
<1>1. UNCHANGED <<terminal_row, terminal_column, filled, screen, pc, reg, printed, torn>>
  BY DEF terminal_print, cursor
<1>2. Position' = Position /\ Stray' = Stray /\ Columns' = Columns
  BY <1>1 DEF Position, Stray, Astray, Columns
<1>3. Paid' = Paid
  BY <1>1, <1>2 DEF Paid
<1>4. QED
  BY <1>1, <1>2, <1>3 DEF CostInv

\* Type, cost and ring are preserved by every step.
LEMMA NextInv == ASSUME IInv, [Next]_vars PROVE IInv'
<1>. USE DEF IInv
<1>1. CASE terminal_print
  BY <1>1, PrintType, PrintCost, RingPrint
<1>2. CASE Newline \/ Put \/ Step \/ Wrap
  BY <1>2, TaskType, TaskCost, RingTask
<1>3. CASE Interrupt
  BY <1>3, InterruptIs, InterruptType, InterruptCost, RingInterrupt
<1>4. CASE UNCHANGED vars
  <2>1. UNCHANGED <<terminal_row, terminal_column, filled, screen, pc, text, reg, printed,
                    newlines, interrupts, torn>>
    BY <1>4 DEF vars, cursor, past
  <2>2. TypeOK'
    BY <2>1 DEF TypeOK
  <2>3. Position' = Position /\ Stray' = Stray /\ Columns' = Columns
    BY <2>1 DEF Position, Stray, Astray, Columns
  <2>4. Paid' = Paid
    BY <2>1, <2>3 DEF Paid
  <2>5. CostInv'
    BY <2>1, <2>3, <2>4 DEF CostInv
  <2>6. RingInv'
    BY <2>1 DEF RingInv, InRing
  <2>7. QED
    BY <2>2, <2>5, <2>6
<1>5. QED
  BY <1>1, <1>2, <1>3, <1>4 DEF Next, Quiet

\* The inductive invariant holds in every reachable state.
THEOREM Invariance == Spec => []IInv
<1>1. Init => IInv
  BY InitInv
<1>2. IInv /\ [Next]_vars => IInv'
  BY NextInv
<1>3. QED
  BY <1>1, <1>2, PTL DEF Spec

\* Row, column, screen, control point and history have their types; within
\* terminal_putchar the task has a character to print.
THEOREM TypeCorrect == Spec => []TypeOK
<1>1. IInv => TypeOK
  BY DEF IInv
<1>2. QED
  BY <1>1, Invariance, PTL

\* Interrupts within terminal_putchar cost at most as many characters as they
\* print, whatever they print, on however many lines, and wherever in
\* terminal_putchar they come, until a line has been filled to its end.
THEOREM TornCallsPay == Spec => []LossBounded
<1>1. IInv => LossBounded
  <2>. SUFFICES ASSUME IInv, ~filled
                PROVE  Len(printed) <= HowMany(Shown(screen)) + torn
    BY DEF LossBounded, HowMany, Shown
  <2>. DEFINE k == Len(printed)
              s == HowMany(Shown(screen))
              a == HowMany(Ahead(screen, Position))
              x == Stray
  <2>1. /\ k \in Nat /\ s \in Nat /\ a \in Nat /\ torn \in Nat /\ x \in Nat
    BY NumbersType DEF IInv, Numbers
  <2>2. k + a + x <= s + torn
    BY DEF IInv, CostInv, Paid
  <2>. HIDE DEF k, s, a, x
  <2>3. k <= s + torn
    BY <2>1, <2>2
  <2>4. QED
    BY <2>3 DEF k, s
<1>2. QED
  BY <1>1, Invariance, PTL

\* Without newlines and torn calls, terminal_putchar makes the screen a ring
\* that shows the last characters printed, and never faults.
THEOREM ShowsTheLastCharacters == Spec => []RingOfLastCharacters
<1>1. IInv => RingOfLastCharacters
  BY DEF IInv, RingInv, InRing, RingOfLastCharacters, ShowsLast, At
<1>2. QED
  BY <1>1, Invariance, PTL
=============================================================================
