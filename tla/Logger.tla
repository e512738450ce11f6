------------------------------- MODULE Logger -------------------------------
(***************************************************************************)
(* The logger (logger.c, logger.asm): a task's call of logf, from its      *)
(* format and parameters to the bytes that leave the UART of COM1.         *)
(*                                                                         *)
(* Characters are their ASCII codes.  The task is interrupted by handlers  *)
(* that log as well.  Both write through put_serial, which tests the       *)
(* transmitter and writes when it is empty; the test of the task may be    *)
(* before an interrupt and its write after it.  A byte on the UART is      *)
(* whose it is and its character.                                          *)
(***************************************************************************)
EXTENDS Integers, Sequences, FiniteSets, FiniteSetsExt, SequencesExt

CONSTANTS
    Calls,              \* calls of logf: [format |-> a sequence, parameters |-> a sequence]
    BUFFER,             \* 25: sizeof(s) in print_serial_unsigned_decimal
    FIFO,               \* 16: bytes the transmit FIFO holds once it is enabled
    HandlerMessages,    \* lengths of what a handler logs
    MaxMessages         \* bound: interrupts whose handler logs

ASSUME LoggerAssumption ==
    /\ BUFFER \in Nat /\ BUFFER > 10 /\ FIFO \in Nat \ {0, 1}
    /\ HandlerMessages \subseteq Nat \ {0} /\ MaxMessages \in Nat

PERCENT == 37
S_ == 115
C_ == 99
X_ == 120
U_ == 117
Specifiers == {S_, C_, X_, U_}
Modes == {"task", "handler"}

Directives(f) == {k \in 2 .. Len(f) : f[k - 1] = PERCENT /\ f[k] \in Specifiers}

\* What a directive takes: the characters of a string, a character, 32 bits.
Fits(d, v) ==
    CASE d = S_ -> v \in Seq(1 .. 255)
      [] d = C_ -> v \in 0 .. 255
      [] OTHER  -> v \in Nat /\ v \div 65536 < 65536

\* The parameter of the directive that ends at the k-th character of the format.
Position(f, k) == Cardinality({j \in Directives(f) : j <= k})

\* The kernel calls logf with one parameter for each directive, of its kind.
ASSUME CallsAssumption ==
    \A c \in Calls :
        /\ c.format \in Seq(1 .. 255)
        /\ c.parameters = [k \in 1 .. Cardinality(Directives(c.format)) |-> c.parameters[k]]
        /\ \A k \in Directives(c.format) :
              Fits(c.format[k], c.parameters[Position(c.format, k)])

VARIABLES
    call,                   \* the task's call of logf
    format, parameters,     \* what is left of its arguments
    pc,                     \* "format", "divide", "reverse" or "done"
    n, s, pos, i,           \* print_serial_unsigned_decimal, and strrev's index
    mode,                   \* who executes
    rest,                   \* what each has still to give to put_serial
    ready,                  \* each has seen the transmitter empty and writes next
    fifo, sent,             \* the transmit FIFO, and the bytes that left it
    written,                \* history: every byte written to the UART
    messages                \* history: messages of handlers

args  == <<format, parameters>>
local == <<n, s, pos, i>>
task  == <<call, args, pc, local>>
uart  == <<mode, ready, fifo, sent, written, messages>>
vars  == <<task, rest, uart>>

\* What the stack holds where s is put.
Garbage == [p \in 0 .. BUFFER - 1 |-> IF p = BUFFER - 1 THEN 0 ELSE 49]

Init ==
    /\ call \in Calls
    /\ format = call.format /\ parameters = call.parameters
    /\ pc = "format"
    /\ n = 0 /\ s = Garbage /\ pos = 0 /\ i = 0
    /\ mode = "task"
    /\ rest = [m \in Modes |-> << >>] /\ ready = [m \in Modes |-> FALSE]
    /\ fifo = << >> /\ sent = << >>
    /\ written = << >> /\ messages = 0

Bytes(m, chars) == [k \in DOMAIN chars |-> << m, chars[k] >>]

-----------------------------------------------------------------------------
(***************************************************************************)
(* put_serial and the UART.                                                *)
(***************************************************************************)

\* init_serial_com1 enables the FIFO; a UART without it holds one byte.
Capacity_disabled == 1

Capacity == FIFO

\* With the FIFO the bit 0x20 of the line status says that the FIFO is empty.
is_transmit_empty_inverted == fifo # << >>

is_transmit_empty == fifo = << >>

\* put_serial stalls while the transmitter is filled ...
Test ==
    /\ rest[mode] # << >> /\ ~ready[mode]
    /\ is_transmit_empty
    /\ ready' = [ready EXCEPT ![mode] = TRUE]
    /\ UNCHANGED <<task, mode, rest, fifo, sent, written, messages>>

\* ... then writes.  The UART drops a byte it has no room for.
Write ==
    /\ rest[mode] # << >> /\ ready[mode]
    /\ written' = Append(written, Head(rest[mode]))
    /\ fifo' = IF Len(fifo) < Capacity THEN Append(fifo, Head(rest[mode])) ELSE fifo
    /\ rest' = [rest EXCEPT ![mode] = Tail(@)]
    /\ ready' = [ready EXCEPT ![mode] = FALSE]
    /\ UNCHANGED <<task, mode, sent, messages>>

\* while (is_transmit_empty() == 0);
Stall == rest[mode] # << >> /\ ~ready[mode] /\ ~is_transmit_empty /\ UNCHANGED vars

\* An interrupt whose handler logs; handlers are not interrupted.
Interrupt ==
    /\ mode = "task" /\ messages < MaxMessages
    /\ mode' = "handler"
    /\ \E length \in HandlerMessages :
          rest' = [rest EXCEPT !.handler = Bytes("handler", [k \in 1 .. length |-> k % 256])]
    /\ messages' = messages + 1
    /\ UNCHANGED <<task, ready, fifo, sent, written>>

Iret ==
    /\ mode = "handler" /\ rest.handler = << >>
    /\ mode' = "task"
    /\ UNCHANGED <<task, rest, ready, fifo, sent, written, messages>>

\* The line takes a byte.
Transmit ==
    /\ fifo # << >>
    /\ sent' = Append(sent, Head(fifo)) /\ fifo' = Tail(fifo)
    /\ UNCHANGED <<task, mode, rest, ready, written, messages>>

-----------------------------------------------------------------------------
(***************************************************************************)
(* logf.  The task goes on when put_serial has taken what it was given.    *)
(***************************************************************************)
At(point) == mode = "task" /\ rest.task = << >> /\ pc = point

Emit(chars) == rest' = [rest EXCEPT !.task = Bytes("task", chars)]

\* What strlen and print_serial see of a buffer: the characters before its first zero.
strlen(str) == Min({p \in DOMAIN str : str[p] = 0})
String(str) == [k \in 1 .. strlen(str) |-> str[k - 1]]

\* hexdd, hexdw, hexdb and hexdn: the high half first, then on into the next routine.
hexdn(v) == LET a == (v % 16) + 48 IN << IF a <= 57 THEN a ELSE a + 7 >>
hexdb(v) == hexdn(v \div 16) \o hexdn(v)
hexdw(v) == hexdb(v \div 256) \o hexdb(v)
hexdd(v) == hexdw(v \div 65536) \o hexdw(v)

\* format[0] is printed unless it is '%'.
Literal ==
    /\ At("format") /\ format # << >> /\ Head(format) # PERCENT
    /\ Emit(<< Head(format) >>)
    /\ format' = Tail(format)
    /\ UNCHANGED <<call, parameters, pc, local, uart>>

\* The directive behind '%' takes the next parameter.
Directive(d) ==
    /\ At("format") /\ Len(format) > 1 /\ Head(format) = PERCENT
    /\ format[2] = d
    /\ format' = Tail(Tail(format))
    /\ parameters' = Tail(parameters)

StringDirective ==
    /\ Directive(S_)
    /\ Emit(Head(parameters))
    /\ UNCHANGED <<call, pc, local, uart>>

CharDirective ==
    /\ Directive(C_)
    /\ Emit(<< Head(parameters) % 256 >>)
    /\ UNCHANGED <<call, pc, local, uart>>

HexDirective ==
    /\ Directive(X_)
    /\ Emit(<< 48, 120 >> \o hexdd(Head(parameters)))
    /\ UNCHANGED <<call, pc, local, uart>>

\* Any other character after '%' is printed by the next round, and takes no parameter.
UnknownDirective ==
    /\ At("format") /\ format # << >> /\ Head(format) = PERCENT
    /\ Len(format) > 1 => format[2] \notin Specifiers
    /\ format' = Tail(format)
    /\ UNCHANGED <<call, parameters, pc, local, rest, uart>>

\* print_serial_unsigned_decimal
Decimal ==
    /\ Directive(U_)
    /\ IF Head(parameters) = 0
       THEN Emit(<< 48 >>) /\ UNCHANGED <<pc, n, pos>>
       ELSE pc' = "divide" /\ n' = Head(parameters) /\ pos' = 0 /\ UNCHANGED rest
    /\ UNCHANGED <<call, s, i, uart>>

Divide_undivided ==
    /\ At("divide") /\ n > 0
    /\ s' = [s EXCEPT ![pos] = (n % 10) + 48]
    /\ pos' = pos + 1
    /\ UNCHANGED <<call, args, pc, n, i, rest, uart>>

Divide ==
    /\ At("divide") /\ n > 0
    /\ s' = [s EXCEPT ![pos] = (n % 10) + 48]
    /\ n' = n \div 10 /\ pos' = pos + 1
    /\ UNCHANGED <<call, args, pc, i, rest, uart>>

Terminate_unterminated ==
    /\ At("divide") /\ n = 0
    /\ pc' = "reverse" /\ i' = 0
    /\ UNCHANGED <<call, args, s, n, pos, rest, uart>>

Terminate ==
    /\ At("divide") /\ n = 0
    /\ s' = [s EXCEPT ![pos] = 0]
    /\ pc' = "reverse" /\ i' = 0
    /\ UNCHANGED <<call, args, n, pos, rest, uart>>

\* strrev
last(len) == len - 1 - i

Swap ==
    /\ At("reverse") /\ i < strlen(s) \div 2
    /\ s' = [s EXCEPT ![i] = s[last(strlen(s))], ![last(strlen(s))] = s[i]]
    /\ i' = i + 1
    /\ UNCHANGED <<call, args, pc, n, pos, rest, uart>>

PrintDecimal ==
    /\ At("reverse") /\ i >= strlen(s) \div 2
    /\ Emit(String(s))
    /\ pc' = "format"
    /\ UNCHANGED <<call, args, local, uart>>

Return ==
    /\ At("format") /\ format = << >>
    /\ pc' = "done"
    /\ UNCHANGED <<call, args, local, rest, uart>>

Done == At("done") /\ UNCHANGED vars

logf ==
    \/ Literal \/ StringDirective \/ CharDirective \/ HexDirective \/ UnknownDirective
    \/ Decimal \/ Divide \/ Terminate \/ Swap \/ PrintDecimal \/ Return

Cpu == logf \/ Test \/ Write \/ Iret

Next == Cpu \/ Stall \/ Interrupt \/ Transmit \/ Done

\* The CPU goes on, and the line takes what the UART holds.
Spec == Init /\ [][Next]_vars /\ WF_vars(Cpu) /\ WF_vars(Transmit)

-----------------------------------------------------------------------------
\* The type of every variable; pos in the buffer says that its end is never passed.
TypeOK ==
    /\ call \in Calls
    /\ Len(format) <= Len(call.format) /\ Len(parameters) <= Len(call.parameters)
    /\ pc \in {"format", "divide", "reverse", "done"}
    /\ n \in Nat /\ s \in [0 .. BUFFER - 1 -> 0 .. 255]
    /\ pos \in 0 .. BUFFER - 1 /\ i \in 0 .. BUFFER - 1
    /\ mode \in Modes /\ ready \in [Modes -> BOOLEAN]
    /\ rest \in [Modes -> Seq(Modes \X (0 .. 255))]
    /\ {fifo, sent, written} \subseteq Seq(Modes \X (0 .. 255))
    /\ Len(fifo) <= FIFO
    /\ messages \in 0 .. MaxMessages

\* The reference: an integer of at most most digits in base b, with at least width
\* digits and no other leading zeros.
Digit(d) == IF d < 10 THEN 48 + d ELSE 55 + d

\* b to the power of 0 .. 10; a number of 32 bits has at most ten digits.
Power(b) == LET p[k \in 0 .. 10] == IF k = 0 THEN 1 ELSE b * p[k - 1] IN p

Numeral(v, b, width, most) ==
    LET len == Max({width} \cup {k \in 1 .. most : v \div Power(b)[k - 1] > 0}) IN
    [k \in 1 .. len |-> Digit((v \div Power(b)[len - k]) % b)]

\* What the k-th character of the format of a call stands for.
Expected(c, k) ==
    LET f == c.format
        v == c.parameters[Position(f, k)]
    IN  CASE k \notin Directives(f) /\ f[k] = PERCENT -> << >>
          [] k \notin Directives(f) /\ f[k] # PERCENT -> << f[k] >>
          [] k \in Directives(f) /\ f[k] = S_ -> v
          [] k \in Directives(f) /\ f[k] = C_ -> << v >>
          [] k \in Directives(f) /\ f[k] = X_ -> << 48, 120 >> \o Numeral(v, 16, 8, 8)
          [] k \in Directives(f) /\ f[k] = U_ -> Numeral(v, 10, 1, 10)

\* The bytes of the task among others.
OfTask(bytes) ==
    LET own[k \in 0 .. Len(bytes)] ==
            IF k = 0 THEN << >>
            ELSE IF bytes[k][1] = "task" THEN Append(own[k - 1], bytes[k]) ELSE own[k - 1]
    IN  own[Len(bytes)]

\* logf prints what its format says of its parameters: each directive takes the
\* parameter of its own, and the number read back is the number passed, from
\* zero to the largest one and after numbers with more digits.  The lines of
\* handlers may be between its bytes.
PrintsParameters ==
    pc = "done" =>
        /\ OfTask(written) =
              Bytes("task", FlattenSeq([k \in 1 .. Len(call.format) |-> Expected(call, k)]))
        /\ parameters = << >>

\* No byte is lost although an interrupt handler may fill the transmitter between
\* the test and the write of the task: the FIFO has room for the task's byte
\* (put_serial waits for an empty FIFO, not for room in it).
NothingLost == sent \o fifo = written

\* The loops of logf end, nobody waits for the transmitter for ever, and
\* everything that was logged gets out.
LoggedGetsOut == <>[](pc = "done" /\ mode = "task" /\ sent = written)
=============================================================================
