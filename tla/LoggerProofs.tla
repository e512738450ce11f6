---------------------------- MODULE LoggerProofs ----------------------------
(***************************************************************************)
(* Proofs about the logger, for any calls of logf whose parameters fit     *)
(* their formats, any number of handlers that log messages of any length   *)
(* between any two steps of put_serial, and any transmit FIFO of at least  *)
(* two bytes: the UART loses no byte, and the task's bytes are what its    *)
(* format says of its parameters.                                          *)
(***************************************************************************)
EXTENDS Logger, FiniteSetTheorems, WellFoundedInduction, TLAPS

IsSeq(q) == \E S : q \in Seq(S)

\* Who has seen the transmitter empty: a handler finds it still empty, and a task one
\* byte of a handler at most.
ReadyInv ==
    /\ mode \in Modes /\ DOMAIN rest = Modes /\ ready \in [Modes -> BOOLEAN]
    /\ ready["handler"] => mode = "handler" /\ fifo = << >>
    /\ ready["handler"] => rest["handler"] # << >>
    /\ ready["task"] => Len(fifo) <= 1
    /\ Len(fifo) <= 2

IInv ==
    /\ IsSeq(fifo) /\ IsSeq(sent)
    /\ ReadyInv
    /\ NothingLost

-----------------------------------------------------------------------------
LEMMA CommonSet ==
  ASSUME NEW r, NEW t, IsSeq(r), IsSeq(t), NEW x
  PROVE  \E S : r \in Seq(S) /\ t \in Seq(S) /\ x \in S
<1>1. PICK S : r \in Seq(S)
  BY DEF IsSeq
<1>2. PICK T : t \in Seq(T)
  BY DEF IsSeq
<1>3. r \in Seq(S \cup T \cup {x}) /\ t \in Seq(S \cup T \cup {x})
  BY <1>1, <1>2
<1>4. QED
  BY <1>3

\* A byte that is written is the last one that leaves the FIFO.
LEMMA LastIn ==
  ASSUME NEW r, NEW q, IsSeq(r), IsSeq(q), NEW x
  PROVE  /\ IsSeq(Append(q, x)) /\ Len(Append(q, x)) = Len(q) + 1
         /\ r \o Append(q, x) = Append(r \o q, x)
<1>1. PICK S : r \in Seq(S) /\ q \in Seq(S) /\ x \in S
  BY CommonSet
<1>2. Append(q, x) \in Seq(S)
  BY <1>1
<1>3. QED
  BY <1>1, <1>2 DEF IsSeq

\* The order of the bytes does not change on the way.
LEMMA FirstOut ==
  ASSUME NEW r, NEW q, IsSeq(r), IsSeq(q), q # << >>
  PROVE  /\ IsSeq(Append(r, Head(q))) /\ IsSeq(Tail(q)) /\ Len(Tail(q)) = Len(q) - 1
         /\ Append(r, Head(q)) \o Tail(q) = r \o q
<1>1. PICK S : r \in Seq(S) /\ q \in Seq(S)
  BY CommonSet
<1>2. Head(q) \in S /\ Tail(q) \in Seq(S) /\ Append(r, Head(q)) \in Seq(S)
  BY <1>1
<1>3. QED
  BY <1>1, <1>2 DEF IsSeq

LEMMA LenType == ASSUME NEW q, IsSeq(q) PROVE Len(q) \in Nat /\ (q = << >> <=> Len(q) = 0)
  BY DEF IsSeq

-----------------------------------------------------------------------------
LEMMA InitIInv == Init => IInv
<1>. SUFFICES ASSUME Init PROVE IInv
  OBVIOUS
<1>1. << >> \in Seq({}) /\ Len(<< >>) = 0
  OBVIOUS
<1>2. IsSeq(fifo) /\ IsSeq(sent)
  BY <1>1 DEF Init, IsSeq
<1>3. mode \in Modes /\ DOMAIN rest = Modes
  BY DEF Init, Modes
<1>4. ready \in [Modes -> BOOLEAN] /\ ~ready["handler"] /\ ~ready["task"]
  BY DEF Init, Modes
<1>5. ReadyInv
  BY <1>1, <1>3, <1>4 DEF Init, ReadyInv
<1>6. NothingLost
  BY DEF Init, NothingLost
<1>7. QED
  BY <1>2, <1>5, <1>6 DEF IInv

\* What a step of logf does: it gives the task bytes to write.
LEMMA LogfStep == ASSUME IInv, logf PROVE IInv'
<1>1. UNCHANGED uart /\ mode = "task"
  BY DEF logf, Literal, StringDirective, CharDirective, HexDirective, UnknownDirective, Decimal,
     Directive, Divide, Terminate, Swap, PrintDecimal, Return, At
<1>2. rest' = rest \/ \E bytes : rest' = [rest EXCEPT !["task"] = bytes]
  BY DEF logf, Literal, StringDirective, CharDirective, HexDirective, UnknownDirective, Decimal,
     Directive, Divide, Terminate, Swap, PrintDecimal, Return, Emit
<1>3. UNCHANGED <<mode, ready, fifo, sent, written>>
  BY <1>1 DEF uart
<1>4. DOMAIN rest' = Modes /\ rest'["handler"] = rest["handler"]
  BY <1>2 DEF IInv, ReadyInv, Modes
<1>5. QED
  BY <1>3, <1>4 DEF IInv, ReadyInv, NothingLost

LEMMA TestStep == ASSUME IInv, Test PROVE IInv'
<1>1. /\ mode \in Modes /\ rest[mode] # << >>
      /\ fifo = << >> /\ ready' = [ready EXCEPT ![mode] = TRUE]
      /\ UNCHANGED <<mode, rest, fifo, sent, written>>
  BY DEF Test, is_transmit_empty, IInv, ReadyInv
<1>2. Len(fifo) = 0
  BY <1>1
<1>3. ready' \in [Modes -> BOOLEAN]
  BY <1>1 DEF IInv, ReadyInv
<1>4. ready'["handler"] => mode = "handler"
  BY <1>1 DEF IInv, ReadyInv, Modes
<1>5. ReadyInv'
  BY <1>1, <1>2, <1>3, <1>4 DEF IInv, ReadyInv
<1>6. QED
  BY <1>1, <1>5 DEF IInv, NothingLost

\* The FIFO has room: it is empty for a handler, and for a task it holds one byte at most.
LEMMA WriteStep == ASSUME IInv, Write PROVE IInv'
<1>. DEFINE x == Head(rest[mode])
<1>1. /\ mode \in Modes /\ ready[mode]
      /\ written' = Append(written, x)
      /\ fifo' = IF Len(fifo) < Capacity THEN Append(fifo, x) ELSE fifo
      /\ rest' = [rest EXCEPT ![mode] = Tail(@)]
      /\ ready' = [ready EXCEPT ![mode] = FALSE]
      /\ UNCHANGED <<mode, sent>>
  BY DEF Write, IInv, ReadyInv
<1>2. Len(fifo) \in Nat /\ (fifo = << >> <=> Len(fifo) = 0)
  BY LenType DEF IInv
<1>3. Len(fifo) <= 1 /\ (mode = "handler" => Len(fifo) = 0)
  BY <1>1, <1>2 DEF IInv, ReadyInv, Modes
<1>4. Len(fifo) < Capacity
  BY <1>2, <1>3, LoggerAssumption DEF Capacity
<1>5. fifo' = Append(fifo, x)
  BY <1>1, <1>4
<1>. HIDE DEF x
<1>6. IsSeq(fifo') /\ Len(fifo') = Len(fifo) + 1 /\ sent \o fifo' = Append(sent \o fifo, x)
  BY <1>5, LastIn DEF IInv
<1>7. ~ready'["handler"] /\ (ready'["task"] => mode = "handler")
  BY <1>1 DEF IInv, ReadyInv, Modes
<1>8. DOMAIN rest' = Modes /\ ready' \in [Modes -> BOOLEAN]
  BY <1>1 DEF IInv, ReadyInv
<1>9. ReadyInv'
  BY <1>1, <1>2, <1>3, <1>6, <1>7, <1>8 DEF ReadyInv
<1>10. NothingLost' /\ IsSeq(sent)'
  BY <1>1, <1>6 DEF IInv, NothingLost
<1>11. QED
  BY <1>6, <1>9, <1>10 DEF IInv

LEMMA InterruptStep == ASSUME IInv, Interrupt PROVE IInv'
<1>1. PICK bytes : rest' = [rest EXCEPT !["handler"] = bytes]
  BY DEF Interrupt
<1>2. mode = "task" /\ mode' = "handler" /\ UNCHANGED <<ready, fifo, sent, written>>
  BY DEF Interrupt
<1>3. DOMAIN rest' = Modes /\ mode' \in Modes /\ ~ready["handler"]
  BY <1>1, <1>2 DEF IInv, ReadyInv, Modes
<1>4. QED
  BY <1>2, <1>3 DEF IInv, ReadyInv, NothingLost

LEMMA IretStep == ASSUME IInv, Iret PROVE IInv'
<1>1. /\ rest["handler"] = << >> /\ mode' = "task"
      /\ UNCHANGED <<rest, ready, fifo, sent, written>>
  BY DEF Iret
<1>2. ~ready["handler"] /\ mode' \in Modes
  BY <1>1 DEF IInv, ReadyInv, Modes
<1>3. QED
  BY <1>1, <1>2 DEF IInv, ReadyInv, NothingLost

LEMMA TransmitStep == ASSUME IInv, Transmit PROVE IInv'
<1>1. /\ fifo # << >> /\ sent' = Append(sent, Head(fifo)) /\ fifo' = Tail(fifo)
      /\ UNCHANGED <<mode, rest, ready, written>>
  BY DEF Transmit
<1>2. /\ IsSeq(sent') /\ IsSeq(fifo') /\ Len(fifo') = Len(fifo) - 1
      /\ sent' \o fifo' = sent \o fifo
  BY <1>1, FirstOut DEF IInv
<1>3. Len(fifo) \in Nat /\ ~ready["handler"]
  BY <1>1, LenType DEF IInv, ReadyInv
<1>4. ReadyInv'
  BY <1>1, <1>2, <1>3 DEF IInv, ReadyInv
<1>5. NothingLost'
  BY <1>1, <1>2 DEF IInv, NothingLost
<1>6. QED
  BY <1>2, <1>4, <1>5 DEF IInv

THEOREM InductiveInvariant == Spec => []IInv
<1>1. Init => IInv
  BY InitIInv
<1>2. IInv /\ [Next]_vars => IInv'
  <2>. SUFFICES ASSUME IInv, [Next]_vars PROVE IInv'
    OBVIOUS
  <2>1. CASE UNCHANGED vars
    BY <2>1 DEF vars, uart, IInv, ReadyInv, NothingLost
  <2>2. CASE Stall \/ Done
    BY <2>1, <2>2 DEF Stall, Done
  <2>3. QED
    BY <2>1, <2>2, LogfStep, TestStep, WriteStep, InterruptStep, IretStep, TransmitStep
    DEF Next, Cpu
<1>3. QED
  BY <1>1, <1>2, PTL DEF Spec

\* Every byte that put_serial writes leaves the UART, in order: waiting for an empty
\* FIFO leaves room for the byte of a handler that comes between test and write.
THEOREM NoByteLost == Spec => []NothingLost
<1>1. IInv => NothingLost
  BY DEF IInv
<1>2. QED
  BY <1>1, InductiveInvariant, PTL
-----------------------------------------------------------------------------
(***************************************************************************)
(* What logf prints.  Recursive functions: they exist, and their values    *)
(* follow one from the other.                                              *)
(***************************************************************************)

\* Every nonempty set of natural numbers has a least element.
LEMMA LeastElement ==
  ASSUME NEW T \in SUBSET Nat, T # {}
  PROVE  \E m \in T : \A k \in T : m <= k
<1>. DEFINE R == {ss \in Nat \X Nat : ss[1] < ss[2]}
<1>1. IsWellFoundedOn(R, Nat)
  BY NatLessThanWellFounded DEF OpToRel
<1>2. PICK m \in T : \A k \in T : ~ (<<k, m>> \in R)
  <2>. HIDE DEF R
  <2>1. QED
    BY <1>1, WFMin
<1>3. ASSUME NEW k \in T PROVE m <= k
  <2>1. m \in Nat /\ k \in Nat /\ ~ (<<k, m>> \in R)
    BY <1>2
  <2>2. ~ (k < m)
    BY <2>1
  <2>3. QED
    BY <2>1, <2>2
<1>4. QED
  BY <1>3

\* h starts with base and goes on with step.
Recursion(h, m, base, step) == h[0] = base /\ \A k \in 1 .. m : h[k] = step[<<k, h[k - 1]>>]

LEMMA RecursionExists ==
  ASSUME NEW X, NEW base \in X, NEW m \in Nat, NEW step \in [(1 .. m) \X X -> X]
  PROVE  \E h \in [0 .. m -> X] : Recursion(h, m, base, step)
<1>. DEFINE Good(h, l) == h \in [0 .. l -> X] /\ Recursion(h, l, base, step)
            T == {l \in 0 .. m : ~ \E h : Good(h, l)}
<1>1. T = {}
  <2>. SUFFICES ASSUME T # {} PROVE FALSE
    OBVIOUS
  <2>1. PICK l \in T : \A k \in T : l <= k
    <3>1. T \in SUBSET Nat
      OBVIOUS
    <3>. HIDE DEF T
    <3>2. QED
      BY <3>1, LeastElement
  <2>2. l \in 0 .. m /\ ~ \E h : Good(h, l)
    OBVIOUS
  <2>3. CASE l = 0
    <3>. DEFINE h == [k \in 0 .. l |-> base]
    <3>1. h \in [0 .. l -> X] /\ h[0] = base /\ 1 .. l = {}
      BY <2>3
    <3>. HIDE DEF h
    <3>2. Good(h, l)
      BY <3>1 DEF Recursion
    <3>3. QED
      BY <2>2, <3>2
  <2>4. CASE l # 0
    <3>1. l - 1 \in 0 .. m /\ ~ (l <= l - 1) /\ l \in 1 .. m
      BY <2>2, <2>4
    <3>2. l - 1 \notin T
      <4>. HIDE DEF T
      <4>1. QED
        BY <2>1, <3>1
    <3>3. PICK h : h \in [0 .. l - 1 -> X] /\ Recursion(h, l - 1, base, step)
      BY <3>1, <3>2
    <3>. DEFINE x == step[<<l, h[l - 1]>>]
                g == [k \in 0 .. l |-> IF k = l THEN x ELSE h[k]]
    <3>4. l - 1 \in 0 .. l - 1
      BY <3>1
    <3>5. x \in X
      BY <3>1, <3>3, <3>4
    <3>. HIDE DEF x
    <3>6. /\ \A k \in 0 .. l - 1 : g[k] = h[k] /\ k \in 0 .. l /\ k # l
          /\ g[l] = x
      BY <3>1
    <3>7. g \in [0 .. l -> X]
      BY <3>1, <3>3, <3>5
    <3>. HIDE DEF g
    <3>8. g[0] = base
      <4>1. 0 \in 0 .. l - 1
        BY <3>1
      <4>2. QED
        BY <3>3, <3>6, <4>1 DEF Recursion
    <3>9. ASSUME NEW k \in 1 .. l PROVE g[k] = step[<<k, g[k - 1]>>]
      <4>1. k - 1 \in 0 .. l - 1
        BY <3>1
      <4>2. CASE k = l
        BY <3>6, <4>1, <4>2 DEF x
      <4>3. CASE k # l
        <5>1. k \in 0 .. l - 1 /\ k \in 1 .. l - 1
          BY <3>1, <4>3
        <5>2. QED
          BY <3>3, <3>6, <4>1, <5>1 DEF Recursion
      <4>4. QED
        BY <4>2, <4>3
    <3>10. QED
      BY <2>2, <3>7, <3>8, <3>9 DEF Recursion
  <2>5. QED
    BY <2>3, <2>4
<1>2. m \in 0 .. m
  OBVIOUS
<1>3. QED
  BY <1>1, <1>2

\* Two functions with the same start and the same steps are the same.
SameSteps(g, h, m) ==
    g[0] = h[0] /\ \A k \in 1 .. m : g[k - 1] = h[k - 1] => g[k] = h[k]

LEMMA RecursionUnique ==
  ASSUME NEW m \in Nat, NEW g, NEW h, SameSteps(g, h, m)
  PROVE  \A k \in 0 .. m : g[k] = h[k]
<1>. DEFINE T == {k \in 0 .. m : g[k] # h[k]}
<1>1. T = {}
  <2>. SUFFICES ASSUME T # {} PROVE FALSE
    OBVIOUS
  <2>1. PICK l \in T : \A k \in T : l <= k
    <3>1. T \in SUBSET Nat
      OBVIOUS
    <3>. HIDE DEF T
    <3>2. QED
      BY <3>1, LeastElement
  <2>2. l \in 1 .. m /\ l - 1 \in 0 .. m /\ ~ (l <= l - 1)
    <3>1. l \in 0 .. m /\ l # 0
      BY DEF SameSteps
    <3>2. QED
      BY <3>1
  <2>3. l - 1 \notin T
    <3>. HIDE DEF T
    <3>1. QED
      BY <2>1, <2>2
  <2>4. QED
    BY <2>2, <2>3 DEF SameSteps
<1>2. QED
  BY <1>1

\* The powers.
LEMMA PowerIs ==
  ASSUME NEW b \in Nat
  PROVE  Power(b)[0] = 1 /\ \A k \in 1 .. 10 : Power(b)[k] = b * Power(b)[k - 1]
<1>. DEFINE step == [x \in (1 .. 10) \X Nat |-> b * x[2]]
            IsPower(p) == p = [k \in 0 .. 10 |-> IF k = 0 THEN 1 ELSE b * p[k - 1]]
<1>1. PICK h \in [0 .. 10 -> Nat] : Recursion(h, 10, 1, step)
  <2>1. step \in [(1 .. 10) \X Nat -> Nat] /\ 1 \in Nat /\ 10 \in Nat
    OBVIOUS
  <2>. HIDE DEF step
  <2>2. QED
    BY <2>1, RecursionExists
<1>2. IsPower(h)
  <2>1. h[0] = 1
    BY <1>1 DEF Recursion
  <2>2. ASSUME NEW k \in 1 .. 10 PROVE h[k] = b * h[k - 1]
    <3>1. h[k] = step[<<k, h[k - 1]>>]
      BY <1>1 DEF Recursion
    <3>2. k - 1 \in 0 .. 10
      OBVIOUS
    <3>3. h[k - 1] \in Nat
      BY <1>1, <3>2
    <3>. HIDE <1>1
    <3>4. QED
      BY <3>1, <3>3
  <2>3. h = [k \in 0 .. 10 |-> h[k]]
    BY <1>1
  <2>4. \A k \in 0 .. 10 : h[k] = IF k = 0 THEN 1 ELSE b * h[k - 1]
    BY <2>1, <2>2
  <2>5. QED
    BY <2>3, <2>4
<1>3. Power(b) = CHOOSE p : IsPower(p)
  BY DEF Power
<1>4. IsPower(Power(b))
  <2>. HIDE DEF IsPower
  <2>1. QED
    BY <1>2, <1>3
<1>5. QED
  BY <1>4

-----------------------------------------------------------------------------
(***************************************************************************)
(* Sequences.                                                              *)
(***************************************************************************)

\* h[k] is what the first k sequences of q are one behind the other.
Joined(q, h) == h[0] = << >> /\ \A k \in 1 .. Len(q) : h[k] = h[k - 1] \o q[k]

LEMMA FlattenIs ==
  ASSUME NEW S, NEW q \in Seq(Seq(S))
  PROVE  \E h \in [0 .. Len(q) -> Seq(S)] : Joined(q, h) /\ FlattenSeq(q) = h[Len(q)]
<1>. DEFINE m == Len(q)
            step == [x \in (1 .. m) \X Seq(S) |-> x[2] \o q[x[1]]]
<1>1. m \in Nat /\ \A k \in 1 .. m : q[k] \in Seq(S)
  OBVIOUS
<1>2. PICK h \in [0 .. m -> Seq(S)] : Recursion(h, m, << >>, step)
  <2>1. << >> \in Seq(S)
    OBVIOUS
  <2>2. step \in [(1 .. m) \X Seq(S) -> Seq(S)]
    <3>1. \A x \in (1 .. m) \X Seq(S) : x[2] \o q[x[1]] \in Seq(S)
      BY <1>1
    <3>2. QED
      BY <3>1
  <2>. HIDE DEF step, m
  <2>3. QED
    BY <1>1, <2>1, <2>2, RecursionExists
<1>3. \A k \in 1 .. m : k - 1 \in 0 .. m /\ h[k - 1] \in Seq(S)
  <2>1. \A k \in 1 .. m : k - 1 \in 0 .. m
    BY <1>1
  <2>. HIDE DEF step, m
  <2>2. QED
    BY <1>2, <2>1
<1>4. Joined(q, h)
  <2>1. h[0] = << >>
    BY <1>2 DEF Recursion
  <2>2. ASSUME NEW k \in 1 .. m PROVE h[k] = h[k - 1] \o q[k]
    <3>1. h[k] = step[<<k, h[k - 1]>>]
      BY <1>2 DEF Recursion
    <3>2. <<k, h[k - 1]>> \in (1 .. m) \X Seq(S)
      BY <1>3
    <3>. HIDE DEF m
    <3>3. step[<<k, h[k - 1]>>] = h[k - 1] \o q[k]
      BY <3>2
    <3>. HIDE DEF step
    <3>4. QED
      BY <3>1, <3>3
  <2>. HIDE DEF step
  <2>3. QED
    BY <2>1, <2>2 DEF Joined
<1>5. FlattenSeq(q) = h[m]
  <2>1. CASE m = 0
    <3>1. q = << >> /\ h[0] = << >>
      BY <1>4, <2>1 DEF Joined
    <3>2. FlattenSeq(q) = q
      BY <2>1 DEF FlattenSeq
    <3>. HIDE DEF m
    <3>3. QED
      BY <2>1, <3>1, <3>2
  <2>2. CASE m # 0
    <3>. DEFINE IsFlat(f) == f = [k \in 1 .. m |-> IF k = 1 THEN q[k] ELSE f[k - 1] \o q[k]]
                f == CHOOSE f : IsFlat(f)
                g == [k \in 1 .. m |-> h[k]]
                full == [k \in 0 .. m |-> IF k = 0 THEN << >> ELSE f[k]]
    <3>1. FlattenSeq(q) = f[m]
      BY <2>2 DEF FlattenSeq
    <3>2. IsFlat(g)
      <4>1. ASSUME NEW k \in 1 .. m
            PROVE  g[k] = IF k = 1 THEN q[k] ELSE g[k - 1] \o q[k]
        <5>1. g[k] = h[k - 1] \o q[k]
          BY <1>4 DEF Joined
        <5>2. CASE k = 1
          <6>1. h[k - 1] = << >> /\ q[k] \in Seq(S)
            BY <1>4, <5>2 DEF Joined
          <6>2. QED
            BY <5>1, <5>2, <6>1
        <5>3. CASE k # 1
          <6>1. k - 1 \in 1 .. m
            BY <1>1, <5>3
          <6>2. g[k - 1] = h[k - 1]
            BY <6>1
          <6>. HIDE DEF g
          <6>3. QED
            BY <5>1, <5>3, <6>2
        <5>4. QED
          BY <5>2, <5>3
      <4>2. g = [k \in 1 .. m |-> g[k]]
        OBVIOUS
      <4>. HIDE DEF g
      <4>3. QED
        BY <4>1, <4>2
    <3>3. IsFlat(f)
      <4>. HIDE DEF IsFlat
      <4>1. QED
        BY <3>2
    <3>. HIDE DEF f
    <3>4. full[0] = h[0]
      BY <1>1, <1>4 DEF Joined
    <3>5. ASSUME NEW k \in 1 .. m, full[k - 1] = h[k - 1] PROVE full[k] = h[k]
      <4>1. /\ full[k] = f[k] /\ h[k] = h[k - 1] \o q[k]
            /\ f[k] = IF k = 1 THEN q[k] ELSE f[k - 1] \o q[k]
        <5>1. full[k] = f[k]
          BY <1>1
        <5>2. h[k] = h[k - 1] \o q[k]
          BY <1>4 DEF Joined
        <5>3. f[k] = IF k = 1 THEN q[k] ELSE f[k - 1] \o q[k]
          BY <3>3
        <5>. HIDE DEF full
        <5>4. QED
          BY <5>1, <5>2, <5>3
      <4>2. CASE k = 1
        <5>1. h[k - 1] = << >> /\ q[k] \in Seq(S)
          BY <1>4, <4>2 DEF Joined
        <5>2. QED
          BY <4>1, <4>2, <5>1
      <4>3. CASE k # 1
        <5>1. k - 1 \in 0 .. m /\ k - 1 # 0
          BY <1>1, <4>3
        <5>2. full[k - 1] = f[k - 1]
          BY <5>1
        <5>. HIDE DEF full
        <5>3. QED
          BY <3>5, <4>1, <4>3, <5>2
      <4>4. QED
        BY <4>2, <4>3
    <3>. HIDE DEF full
    <3>6. \A k \in 0 .. m : full[k] = h[k]
      <4>. HIDE DEF m
      <4>1. SameSteps(full, h, m)
        BY <3>4, <3>5 DEF SameSteps
      <4>2. QED
        BY <1>1, <4>1, RecursionUnique
    <3>7. full[m] = f[m] /\ m \in 0 .. m
      BY <1>1, <2>2 DEF full
    <3>8. QED
      BY <3>1, <3>6, <3>7
  <2>3. QED
    BY <2>1, <2>2
<1>6. QED
  BY <1>2, <1>4, <1>5

\* One more sequence is put behind the others.
LEMMA FlattenAppend ==
  ASSUME NEW S, NEW q \in Seq(Seq(S)), NEW x \in Seq(S)
  PROVE  /\ FlattenSeq(q) \in Seq(S)
         /\ FlattenSeq(Append(q, x)) = FlattenSeq(q) \o x
<1>. DEFINE m == Len(q)
            r == Append(q, x)
<1>1. /\ m \in Nat /\ r \in Seq(Seq(S)) /\ Len(r) = m + 1
      /\ \A k \in 1 .. m : r[k] = q[k]
      /\ r[m + 1] = x
  OBVIOUS
<1>2. PICK h : /\ h \in [0 .. m -> Seq(S)] /\ Joined(q, h)
                /\ FlattenSeq(q) = h[m]
  BY FlattenIs
<1>. HIDE DEF r
<1>3. PICK g : /\ g \in [0 .. Len(r) -> Seq(S)] /\ Joined(r, g)
                /\ FlattenSeq(r) = g[Len(r)]
  BY <1>1, FlattenIs
<1>4. g[0] = h[0]
  BY <1>2, <1>3 DEF Joined
<1>5. ASSUME NEW k \in 1 .. m, g[k - 1] = h[k - 1] PROVE g[k] = h[k]
  <2>1. k \in 1 .. Len(r)
    BY <1>1
  <2>2. g[k] = g[k - 1] \o r[k] /\ h[k] = h[k - 1] \o q[k] /\ r[k] = q[k]
    BY <1>1, <1>2, <1>3, <2>1 DEF Joined
  <2>3. QED
    BY <1>5, <2>2
<1>6. \A k \in 0 .. m : g[k] = h[k]
  <2>1. m \in Nat
    BY <1>1
  <2>. HIDE DEF m
  <2>2. SameSteps(g, h, m)
    BY <1>4, <1>5 DEF SameSteps
  <2>3. QED
    BY <2>1, <2>2, RecursionUnique
<1>. HIDE DEF m
<1>7. g[m + 1] = g[m] \o x
  <2>1. m + 1 \in 1 .. Len(r) /\ (m + 1) - 1 = m
    BY <1>1
  <2>2. QED
    BY <1>1, <1>3, <2>1 DEF Joined
<1>8. m \in 0 .. m
  BY <1>1
<1>9. QED
  BY <1>1, <1>2, <1>3, <1>6, <1>7, <1>8 DEF r

\* own[k] is what the task wrote among the first k bytes.
Filters(bytes, own) ==
    /\ own[0] = << >>
    /\ \A k \in 1 .. Len(bytes) :
          own[k] = IF bytes[k][1] = "task" THEN Append(own[k - 1], bytes[k]) ELSE own[k - 1]

LEMMA OfTaskIs ==
  ASSUME NEW S, NEW bytes \in Seq(S)
  PROVE  \E own \in [0 .. Len(bytes) -> Seq(S)] :
            Filters(bytes, own) /\ OfTask(bytes) = own[Len(bytes)]
<1>. DEFINE m == Len(bytes)
            step == [x \in (1 .. m) \X Seq(S) |->
                        IF bytes[x[1]][1] = "task" THEN Append(x[2], bytes[x[1]]) ELSE x[2]]
            Own(f) == f = [k \in 0 .. m |->
                            IF k = 0 THEN << >>
                            ELSE IF bytes[k][1] = "task" THEN Append(f[k - 1], bytes[k])
                                 ELSE f[k - 1]]
            f == CHOOSE f : Own(f)
<1>1. m \in Nat /\ \A k \in 1 .. m : bytes[k] \in S
  OBVIOUS
<1>2. PICK h \in [0 .. m -> Seq(S)] : Recursion(h, m, << >>, step)
  <2>1. << >> \in Seq(S)
    OBVIOUS
  <2>2. step \in [(1 .. m) \X Seq(S) -> Seq(S)]
    <3>1. \A x \in (1 .. m) \X Seq(S) :
             (IF bytes[x[1]][1] = "task" THEN Append(x[2], bytes[x[1]]) ELSE x[2]) \in Seq(S)
      BY <1>1
    <3>2. QED
      BY <3>1
  <2>. HIDE DEF step, m
  <2>3. QED
    BY <1>1, <2>1, <2>2, RecursionExists
<1>3. \A k \in 1 .. m : k - 1 \in 0 .. m /\ h[k - 1] \in Seq(S)
  <2>1. \A k \in 1 .. m : k - 1 \in 0 .. m
    BY <1>1
  <2>. HIDE DEF step, m
  <2>2. QED
    BY <1>2, <2>1
<1>4. Filters(bytes, h)
  <2>1. h[0] = << >>
    BY <1>2 DEF Recursion
  <2>2. ASSUME NEW k \in 1 .. m
        PROVE  h[k] = IF bytes[k][1] = "task" THEN Append(h[k - 1], bytes[k]) ELSE h[k - 1]
    <3>1. h[k] = step[<<k, h[k - 1]>>]
      BY <1>2 DEF Recursion
    <3>2. <<k, h[k - 1]>> \in (1 .. m) \X Seq(S)
      BY <1>3
    <3>. HIDE DEF m
    <3>3. step[<<k, h[k - 1]>>] =
             IF bytes[k][1] = "task" THEN Append(h[k - 1], bytes[k]) ELSE h[k - 1]
      BY <3>2
    <3>. HIDE DEF step
    <3>4. QED
      BY <3>1, <3>3
  <2>. HIDE DEF step
  <2>3. QED
    BY <2>1, <2>2 DEF Filters
<1>5. Own(h)
  <2>1. h = [k \in 0 .. m |-> h[k]]
    BY <1>2
  <2>2. ASSUME NEW k \in 0 .. m
        PROVE  h[k] = IF k = 0 THEN << >>
                      ELSE IF bytes[k][1] = "task" THEN Append(h[k - 1], bytes[k]) ELSE h[k - 1]
    <3>1. CASE k = 0
      BY <1>4, <3>1 DEF Filters
    <3>2. CASE k # 0
      <4>1. k \in 1 .. m
        BY <1>1, <3>2
      <4>2. QED
        BY <1>4, <3>2, <4>1 DEF Filters
    <3>3. QED
      BY <3>1, <3>2
  <2>. HIDE DEF m, step
  <2>3. QED
    BY <2>1, <2>2
<1>6. Own(f)
  <2>. HIDE DEF Own
  <2>1. QED
    BY <1>5
<1>7. OfTask(bytes) = f[m]
  BY DEF OfTask
<1>. HIDE DEF f
<1>8. f[0] = h[0]
  BY <1>1, <1>4, <1>6 DEF Filters
<1>9. ASSUME NEW k \in 1 .. m, f[k - 1] = h[k - 1] PROVE f[k] = h[k]
  <2>1. f[k] = IF bytes[k][1] = "task" THEN Append(f[k - 1], bytes[k]) ELSE f[k - 1]
    <3>1. k \in 0 .. m /\ k # 0
      BY <1>1
    <3>. HIDE DEF m, step
    <3>2. QED
      BY <1>6, <3>1
  <2>2. h[k] = IF bytes[k][1] = "task" THEN Append(h[k - 1], bytes[k]) ELSE h[k - 1]
    BY <1>4 DEF Filters
  <2>. HIDE DEF Own, step
  <2>3. QED
    BY <1>9, <2>1, <2>2
<1>. HIDE DEF Own, step, m
<1>10. \A k \in 0 .. m : f[k] = h[k]
  <2>1. SameSteps(f, h, m)
    BY <1>8, <1>9 DEF SameSteps
  <2>2. QED
    BY <1>1, <2>1, RecursionUnique
<1>11. m \in 0 .. m
  BY <1>1
<1>12. QED
  BY <1>2, <1>4, <1>7, <1>10, <1>11 DEF m

LEMMA OfTaskAppend ==
  ASSUME NEW S, NEW bytes \in Seq(S), NEW x \in S
  PROVE  /\ OfTask(bytes) \in Seq(S)
         /\ OfTask(Append(bytes, x)) =
               IF x[1] = "task" THEN Append(OfTask(bytes), x) ELSE OfTask(bytes)
<1>. DEFINE m == Len(bytes)
            r == Append(bytes, x)
<1>1. /\ m \in Nat /\ r \in Seq(S) /\ Len(r) = m + 1
      /\ \A k \in 1 .. m : r[k] = bytes[k]
      /\ r[m + 1] = x
  OBVIOUS
<1>2. PICK h : /\ h \in [0 .. m -> Seq(S)] /\ Filters(bytes, h)
                /\ OfTask(bytes) = h[m]
  BY OfTaskIs
<1>. HIDE DEF r
<1>3. PICK g : /\ g \in [0 .. Len(r) -> Seq(S)] /\ Filters(r, g)
                /\ OfTask(r) = g[Len(r)]
  BY <1>1, OfTaskIs
<1>4. g[0] = h[0]
  BY <1>2, <1>3 DEF Filters
<1>5. ASSUME NEW k \in 1 .. m, g[k - 1] = h[k - 1] PROVE g[k] = h[k]
  <2>1. k \in 1 .. Len(r)
    BY <1>1
  <2>2. /\ g[k] = IF r[k][1] = "task" THEN Append(g[k - 1], r[k]) ELSE g[k - 1]
        /\ h[k] = IF bytes[k][1] = "task" THEN Append(h[k - 1], bytes[k]) ELSE h[k - 1]
        /\ r[k] = bytes[k]
    BY <1>1, <1>2, <1>3, <2>1 DEF Filters
  <2>3. QED
    BY <1>5, <2>2
<1>6. \A k \in 0 .. m : g[k] = h[k]
  <2>1. m \in Nat
    BY <1>1
  <2>. HIDE DEF m
  <2>2. SameSteps(g, h, m)
    BY <1>4, <1>5 DEF SameSteps
  <2>3. QED
    BY <2>1, <2>2, RecursionUnique
<1>. HIDE DEF m
<1>7. g[m + 1] = IF x[1] = "task" THEN Append(g[m], x) ELSE g[m]
  <2>1. m + 1 \in 1 .. Len(r) /\ (m + 1) - 1 = m
    BY <1>1
  <2>2. QED
    BY <1>1, <1>3, <2>1 DEF Filters
<1>8. m \in 0 .. m
  BY <1>1
<1>9. QED
  BY <1>1, <1>2, <1>3, <1>6, <1>7, <1>8 DEF r

-----------------------------------------------------------------------------
(***************************************************************************)
(* The number a directive prints.  It has 32 bits, at most ten digits.     *)
(***************************************************************************)
IsNumber(v) == v \in Nat /\ v \div 65536 < 65536

\* The p-th digit from the right.
DigitAt(v, p) == Digit((v \div Power(10)[p]) % 10)

LEMMA PowersOfTen ==
  /\ Power(10)[0] = 1 /\ Power(10)[1] = 10 /\ Power(10)[2] = 100 /\ Power(10)[3] = 1000
  /\ Power(10)[4] = 10000 /\ Power(10)[5] = 100000 /\ Power(10)[6] = 1000000
  /\ Power(10)[7] = 10000000 /\ Power(10)[8] = 100000000 /\ Power(10)[9] = 1000000000
  /\ Power(10)[10] = 10000000000
<1>1. Power(10)[0] = 1 /\ \A k \in 1 .. 10 : Power(10)[k] = 10 * Power(10)[k - 1]
  BY PowerIs
<1>2. /\ Power(10)[1] = 10 * Power(10)[0] /\ Power(10)[2] = 10 * Power(10)[1]
      /\ Power(10)[3] = 10 * Power(10)[2] /\ Power(10)[4] = 10 * Power(10)[3]
      /\ Power(10)[5] = 10 * Power(10)[4] /\ Power(10)[6] = 10 * Power(10)[5]
      /\ Power(10)[7] = 10 * Power(10)[6] /\ Power(10)[8] = 10 * Power(10)[7]
      /\ Power(10)[9] = 10 * Power(10)[8] /\ Power(10)[10] = 10 * Power(10)[9]
  BY <1>1
<1>3. QED
  BY <1>1, <1>2

LEMMA Division ==
  ASSUME NEW v, IsNumber(v), NEW p \in 0 .. 9
  PROVE  /\ v \div Power(10)[p] \in Nat
         /\ (v \div Power(10)[p]) \div 10 = v \div Power(10)[p + 1]
         /\ v \div Power(10)[p] = 0 => v \div Power(10)[p + 1] = 0
<1>1. v \in Nat
  BY DEF IsNumber
<1>2. p \in {0, 1, 2, 3, 4, 5, 6, 7, 8, 9}
  OBVIOUS
<1>3. CASE p = 0
  BY <1>1, <1>3, PowersOfTen
<1>4. CASE p = 1
  BY <1>1, <1>4, PowersOfTen
<1>5. CASE p = 2
  BY <1>1, <1>5, PowersOfTen
<1>6. CASE p = 3
  BY <1>1, <1>6, PowersOfTen
<1>7. CASE p = 4
  BY <1>1, <1>7, PowersOfTen
<1>8. CASE p = 5
  BY <1>1, <1>8, PowersOfTen
<1>9. CASE p = 6
  BY <1>1, <1>9, PowersOfTen
<1>10. CASE p = 7
  BY <1>1, <1>10, PowersOfTen
<1>11. CASE p = 8
  BY <1>1, <1>11, PowersOfTen
<1>12. CASE p = 9
  BY <1>1, <1>12, PowersOfTen
<1>13. QED
  BY <1>2, <1>3, <1>4, <1>5, <1>6, <1>7, <1>8, <1>9, <1>10, <1>11, <1>12

LEMMA AtMostTenDigits ==
  ASSUME NEW v, IsNumber(v)
  PROVE  v \div Power(10)[0] = v /\ v \div Power(10)[10] = 0
<1>1. v \in Nat /\ v < 4294967296
  BY DEF IsNumber
<1>2. QED
  BY <1>1, PowersOfTen

LEMMA DigitIs ==
  ASSUME NEW v, IsNumber(v), NEW p \in 0 .. 10
  PROVE  DigitAt(v, p) = ((v \div Power(10)[p]) % 10) + 48 /\ DigitAt(v, p) \in 48 .. 57
<1>. DEFINE x == v \div Power(10)[p]
<1>1. x \in Nat
  <2>1. CASE p = 10
    BY <2>1, AtMostTenDigits
  <2>2. CASE p \in 0 .. 9
    BY <2>2, Division
  <2>3. QED
    BY <2>1, <2>2
<1>2. DigitAt(v, p) = Digit(x % 10)
  BY DEF DigitAt
<1>. HIDE DEF x
<1>3. x % 10 \in 0 .. 9
  BY <1>1
<1>4. Digit(x % 10) = (x % 10) + 48 /\ Digit(x % 10) \in 48 .. 57
  BY <1>3 DEF Digit
<1>5. QED
  BY <1>2, <1>4 DEF x

\* Left of a leading zero there are only zeros.
LEMMA OnlyZeros ==
  ASSUME NEW v, IsNumber(v), NEW l \in 0 .. 10, v \div Power(10)[l] = 0
  PROVE  \A p \in l .. 10 : v \div Power(10)[p] = 0
<1>. DEFINE g == [k \in 0 .. 10 - l |-> v \div Power(10)[l + k]]
            h == [k \in 0 .. 10 - l |-> 0]
<1>1. 10 - l \in Nat
  OBVIOUS
<1>2. g[0] = h[0]
  OBVIOUS
<1>3. ASSUME NEW k \in 1 .. 10 - l, g[k - 1] = h[k - 1] PROVE g[k] = h[k]
  <2>1. /\ k - 1 \in 0 .. 10 - l /\ k \in 0 .. 10 - l
        /\ l + (k - 1) \in 0 .. 9 /\ (l + (k - 1)) + 1 = l + k
    OBVIOUS
  <2>2. g[k] = v \div Power(10)[l + k] /\ g[k - 1] = v \div Power(10)[l + (k - 1)]
    BY <2>1
  <2>3. h[k] = 0 /\ h[k - 1] = 0
    BY <2>1
  <2>. HIDE DEF g, h
  <2>4. QED
    BY <1>3, <2>1, <2>2, <2>3, Division
<1>4. \A k \in 0 .. 10 - l : g[k] = h[k]
  <2>. HIDE DEF g, h
  <2>1. SameSteps(g, h, 10 - l)
    BY <1>2, <1>3 DEF SameSteps
  <2>2. QED
    BY <1>1, <2>1, RecursionUnique
<1>5. ASSUME NEW p \in l .. 10 PROVE v \div Power(10)[p] = 0
  <2>1. p - l \in 0 .. 10 - l /\ l + (p - l) = p
    OBVIOUS
  <2>2. g[p - l] = v \div Power(10)[p] /\ h[p - l] = 0
    BY <2>1
  <2>. HIDE DEF g, h
  <2>3. QED
    BY <1>4, <2>1, <2>2
<1>6. QED
  BY <1>5

LEMMA MaxIs ==
  ASSUME NEW T \in SUBSET Nat, NEW m \in T, \A x \in T : x <= m
  PROVE  Max(T) = m
<1>1. \A x \in T : m >= x
  OBVIOUS
<1>2. Max(T) \in T /\ \A x \in T : Max(T) >= x
  BY <1>1 DEF Max
<1>3. Max(T) >= m /\ m >= Max(T) /\ m \in Nat /\ Max(T) \in Nat
  BY <1>1, <1>2
<1>4. QED
  BY <1>3

\* The digits without leading zeros.
LEMMA DecimalIs ==
  ASSUME NEW v, IsNumber(v), NEW l \in 1 .. 10,
         v \div Power(10)[l] = 0, v \div Power(10)[l - 1] > 0
  PROVE  Numeral(v, 10, 1, 10) = [k \in 1 .. l |-> DigitAt(v, l - k)]
<1>. DEFINE T == {1} \cup {k \in 1 .. 10 : v \div Power(10)[k - 1] > 0}
<1>1. T \in SUBSET Nat /\ l \in T
  OBVIOUS
<1>2. ASSUME NEW x \in T PROVE x <= l
  <2>1. x \in 1 .. 10 /\ (x = 1 \/ v \div Power(10)[x - 1] > 0)
    OBVIOUS
  <2>2. CASE x = 1
    BY <2>2
  <2>3. CASE v \div Power(10)[x - 1] > 0
    <3>1. x - 1 \notin l .. 10
      BY <2>3, OnlyZeros
    <3>2. QED
      BY <2>1, <3>1
  <2>4. QED
    BY <2>1, <2>2, <2>3
<1>3. Max(T) = l
  <2>. HIDE DEF T
  <2>1. QED
    BY <1>1, <1>2, MaxIs
<1>4. Numeral(v, 10, 1, 10) = [k \in 1 .. Max(T) |-> Digit((v \div Power(10)[Max(T) - k]) % 10)]
  BY DEF Numeral
<1>. HIDE DEF T
<1>5. QED
  BY <1>3, <1>4 DEF DigitAt

LEMMA ZeroIs == Numeral(0, 10, 1, 10) = << 48 >>
<1>. DEFINE T == {1} \cup {k \in 1 .. 10 : 0 \div Power(10)[k - 1] > 0}
<1>1. IsNumber(0)
  BY DEF IsNumber
<1>2. ASSUME NEW k \in 1 .. 10 PROVE ~ (0 \div Power(10)[k - 1] > 0)
  <2>1. k - 1 \in 0 .. 10 /\ 0 \in 0 .. 10 /\ 0 \div Power(10)[0] = 0
    BY PowersOfTen
  <2>2. 0 \div Power(10)[k - 1] = 0
    BY <1>1, <2>1, OnlyZeros
  <2>3. QED
    BY <2>2
<1>3. T = {1}
  BY <1>2
<1>4. Max(T) = 1
  BY <1>3, MaxIs
<1>5. Numeral(0, 10, 1, 10) = [k \in 1 .. Max(T) |-> DigitAt(0, Max(T) - k)]
  BY DEF Numeral, DigitAt
<1>6. DigitAt(0, 0) = 48
  <2>1. 0 \div Power(10)[0] = 0
    BY PowersOfTen
  <2>2. QED
    BY <2>1 DEF DigitAt, Digit
<1>. HIDE DEF T
<1>7. QED
  BY <1>4, <1>5, <1>6

\* strlen stops at the first zero.
LEMMA StrlenIs ==
  ASSUME NEW str \in [0 .. BUFFER - 1 -> 0 .. 255], NEW l \in 0 .. BUFFER - 1,
         str[l] = 0, \A p \in 0 .. l - 1 : str[p] # 0
  PROVE  strlen(str) = l
<1>. DEFINE T == {p \in DOMAIN str : str[p] = 0}
<1>1. l \in T
  OBVIOUS
<1>2. ASSUME NEW p \in T PROVE p \in Nat /\ l <= p
  <2>1. p \in 0 .. BUFFER - 1 /\ p \notin 0 .. l - 1
    OBVIOUS
  <2>2. QED
    BY <2>1, LoggerAssumption
<1>3. strlen(str) = Min(T)
  BY DEF strlen
<1>. HIDE DEF T
<1>4. Min(T) \in T /\ \A p \in T : Min(T) <= p
  BY <1>1, <1>2 DEF Min
<1>5. Min(T) \in Nat /\ l <= Min(T) /\ Min(T) <= l /\ l \in Nat
  BY <1>1, <1>2, <1>4
<1>6. QED
  BY <1>3, <1>5

-----------------------------------------------------------------------------
\* z is x and then y.
IsConcat(x, y, z) ==
    /\ Len(z) = Len(x) + Len(y)
    /\ \A k \in 1 .. Len(x) : z[k] = x[k]
    /\ \A k \in 1 .. Len(y) : z[Len(x) + k] = y[k]

LEMMA ConcatIs ==
  ASSUME NEW S, NEW x \in Seq(S), NEW y \in Seq(S), NEW z \in Seq(S), IsConcat(x, y, z)
  PROVE  x \o y = z
<1>1. \A k \in 1 .. Len(z) : z[k] = IF k <= Len(x) THEN x[k] ELSE y[k - Len(x)]
  <2>1. ASSUME NEW k \in 1 .. Len(z), k > Len(x) PROVE z[k] = y[k - Len(x)]
    <3>1. k - Len(x) \in 1 .. Len(y) /\ Len(x) + (k - Len(x)) = k
      BY <2>1 DEF IsConcat
    <3>2. QED
      BY <3>1 DEF IsConcat
  <2>2. QED
    BY <2>1 DEF IsConcat
<1>2. x \o y \in Seq(S) /\ Len(x \o y) = Len(z)
  BY DEF IsConcat
<1>3. \A k \in 1 .. Len(z) : (x \o y)[k] = IF k <= Len(x) THEN x[k] ELSE y[k - Len(x)]
  BY DEF IsConcat
<1>. DEFINE w == x \o y
<1>. HIDE DEF w
<1>4. w \in Seq(S) /\ Len(w) = Len(z) /\ \A k \in 1 .. Len(z) : w[k] = z[k]
  BY <1>1, <1>2, <1>3 DEF w
<1>5. w = z
  BY <1>4
<1>6. QED
  BY <1>5 DEF w

LEMMA PowersOfSixteen ==
  /\ Power(16)[0] = 1 /\ Power(16)[1] = 16 /\ Power(16)[2] = 256 /\ Power(16)[3] = 4096
  /\ Power(16)[4] = 65536 /\ Power(16)[5] = 1048576 /\ Power(16)[6] = 16777216
  /\ Power(16)[7] = 268435456
<1>1. Power(16)[0] = 1 /\ \A k \in 1 .. 10 : Power(16)[k] = 16 * Power(16)[k - 1]
  BY PowerIs
<1>2. /\ Power(16)[1] = 16 * Power(16)[0] /\ Power(16)[2] = 16 * Power(16)[1]
      /\ Power(16)[3] = 16 * Power(16)[2] /\ Power(16)[4] = 16 * Power(16)[3]
      /\ Power(16)[5] = 16 * Power(16)[4] /\ Power(16)[6] = 16 * Power(16)[5]
      /\ Power(16)[7] = 16 * Power(16)[6]
  BY <1>1
<1>3. QED
  BY <1>1, <1>2

\* The digit of v that stands for 16 to the power of p, and the last m digits.
NibbleAt(v, p) == Digit((v \div Power(16)[p]) % 16)
Nibbles(v, m) == [k \in 1 .. m |-> NibbleAt(v, m - k)]

LEMMA Shift ==
  ASSUME NEW v \in Nat, NEW m \in {1, 2, 4}, NEW p \in 0 .. m
  PROVE  /\ v \div Power(16)[m] \in Nat
         /\ (v \div Power(16)[m]) \div Power(16)[p] = v \div Power(16)[m + p] \/ p = 4
<1>1. CASE m = 1
  <2>1. p \in {0, 1}
    BY <1>1
  <2>2. QED
    BY <1>1, <2>1, PowersOfSixteen
<1>2. CASE m = 2
  <2>1. p \in {0, 1, 2}
    BY <1>2
  <2>2. QED
    BY <1>2, <2>1, PowersOfSixteen
<1>3. CASE m = 4
  <2>1. p \in {0, 1, 2, 3, 4}
    BY <1>3
  <2>2. QED
    BY <1>3, <2>1, PowersOfSixteen
<1>4. QED
  BY <1>1, <1>2, <1>3

LEMMA NibbleType ==
  ASSUME NEW v \in Nat, NEW p \in 0 .. 7
  PROVE  NibbleAt(v, p) \in 0 .. 255
<1>. DEFINE x == v \div Power(16)[p]
<1>1. x \in Nat
  <2>1. p \in {0, 1, 2, 3, 4, 5, 6, 7}
    OBVIOUS
  <2>2. QED
    BY <2>1, PowersOfSixteen
<1>2. NibbleAt(v, p) = Digit(x % 16)
  BY DEF NibbleAt
<1>. HIDE DEF x
<1>3. x % 16 \in 0 .. 15
  BY <1>1
<1>4. QED
  BY <1>2, <1>3 DEF Digit

\* The high half and then the low half.
LEMMA Halves ==
  ASSUME NEW v \in Nat, NEW m \in {1, 2, 4}
  PROVE  Nibbles(v \div Power(16)[m], m) \o Nibbles(v, m) = Nibbles(v, 2 * m)
<1>. DEFINE w == v \div Power(16)[m]
            x == Nibbles(w, m)
            y == Nibbles(v, m)
            z == Nibbles(v, 2 * m)
<1>1. w \in Nat
  <2>1. 0 \in 0 .. m
    OBVIOUS
  <2>2. QED
    BY <2>1, Shift
<1>2. ASSUME NEW k \in 1 .. m PROVE NibbleAt(w, m - k) = NibbleAt(v, 2 * m - k)
  <2>1. m - k \in 0 .. m /\ m - k # 4 /\ m + (m - k) = 2 * m - k
    OBVIOUS
  <2>2. w \div Power(16)[m - k] = v \div Power(16)[2 * m - k]
    BY <2>1, Shift
  <2>. HIDE DEF w
  <2>3. QED
    BY <2>2 DEF NibbleAt
<1>. HIDE DEF w
<1>3. x \in Seq(0 .. 255) /\ Len(x) = m
  <2>1. ASSUME NEW k \in 1 .. m PROVE NibbleAt(w, m - k) \in 0 .. 255
    <3>1. m - k \in 0 .. 7
      OBVIOUS
    <3>2. QED
      BY <1>1, <3>1, NibbleType
  <2>2. QED
    BY <2>1 DEF Nibbles
<1>4. y \in Seq(0 .. 255) /\ Len(y) = m
  <2>1. ASSUME NEW k \in 1 .. m PROVE NibbleAt(v, m - k) \in 0 .. 255
    <3>1. m - k \in 0 .. 7
      OBVIOUS
    <3>2. QED
      BY <3>1, NibbleType
  <2>2. QED
    BY <2>1 DEF Nibbles
<1>5. z \in Seq(0 .. 255) /\ Len(z) = m + m
  <2>1. ASSUME NEW k \in 1 .. 2 * m PROVE NibbleAt(v, 2 * m - k) \in 0 .. 255
    <3>1. 2 * m - k \in 0 .. 7
      OBVIOUS
    <3>2. QED
      BY <3>1, NibbleType
  <2>2. 2 * m \in Nat /\ 2 * m = m + m
    OBVIOUS
  <2>3. QED
    BY <2>1, <2>2 DEF Nibbles
<1>6. ASSUME NEW k \in 1 .. Len(x) PROVE z[k] = x[k]
  <2>1. k \in 1 .. m /\ k \in 1 .. 2 * m
    BY <1>3
  <2>2. z[k] = NibbleAt(v, 2 * m - k) /\ x[k] = NibbleAt(w, m - k)
    BY <2>1 DEF Nibbles
  <2>3. QED
    BY <1>2, <2>1, <2>2
<1>7. ASSUME NEW k \in 1 .. Len(y) PROVE z[Len(x) + k] = y[k]
  <2>1. k \in 1 .. m /\ m + k \in 1 .. 2 * m /\ 2 * m - (m + k) = m - k
    BY <1>4
  <2>2. z[m + k] = NibbleAt(v, 2 * m - (m + k)) /\ y[k] = NibbleAt(v, m - k)
    BY <2>1 DEF Nibbles
  <2>3. QED
    BY <1>3, <2>1, <2>2
<1>8. Len(z) = Len(x) + Len(y)
  BY <1>3, <1>4, <1>5
<1>. HIDE DEF x, y, z
<1>9. x \o y = z
  <2>1. x \in Seq(0 .. 255) /\ y \in Seq(0 .. 255) /\ z \in Seq(0 .. 255)
    BY <1>3, <1>4, <1>5
  <2>2. IsConcat(x, y, z)
    BY <1>6, <1>7, <1>8 DEF IsConcat
  <2>3. QED
    BY <2>1, <2>2, ConcatIs
<1>10. QED
  BY <1>9 DEF w, x, y, z

\* The routines print the eight digits from the left to the right.
LEMMA HexIs ==
  ASSUME NEW v, IsNumber(v)
  PROVE  hexdd(v) = Numeral(v, 16, 8, 8) /\ hexdd(v) \in Seq(0 .. 255)
<1>. DEFINE T == {8} \cup {k \in 1 .. 8 : v \div Power(16)[k - 1] > 0}
<1>1. v \in Nat
  BY DEF IsNumber
<1>2. ASSUME NEW x \in Nat PROVE hexdn(x) = Nibbles(x, 1)
  <2>. DEFINE d == x % 16
  <2>1. NibbleAt(x, 0) = Digit(d)
    <3>1. x \div Power(16)[0] = x
      BY PowersOfSixteen
    <3>2. QED
      BY <3>1 DEF NibbleAt
  <2>2. Nibbles(x, 1) = << Digit(d) >>
    BY <2>1 DEF Nibbles
  <2>3. hexdn(x) = << IF d + 48 <= 57 THEN d + 48 ELSE d + 48 + 7 >>
    BY DEF hexdn
  <2>4. d \in 0 .. 15
    OBVIOUS
  <2>. HIDE DEF d
  <2>5. (IF d + 48 <= 57 THEN d + 48 ELSE d + 48 + 7) = Digit(d)
    BY <2>4 DEF Digit
  <2>6. QED
    BY <2>2, <2>3, <2>5
<1>3. ASSUME NEW x \in Nat PROVE hexdb(x) = Nibbles(x, 2)
  <2>1. x \div 16 \in Nat /\ Power(16)[1] = 16 /\ 2 * 1 = 2
    BY PowersOfSixteen
  <2>2. Nibbles(x \div 16, 1) \o Nibbles(x, 1) = Nibbles(x, 2)
    BY <2>1, Halves
  <2>3. hexdn(x \div 16) = Nibbles(x \div 16, 1) /\ hexdn(x) = Nibbles(x, 1)
    BY <1>2, <2>1
  <2>4. QED
    BY <2>2, <2>3 DEF hexdb
<1>4. ASSUME NEW x \in Nat PROVE hexdw(x) = Nibbles(x, 4)
  <2>1. x \div 256 \in Nat /\ Power(16)[2] = 256 /\ 2 * 2 = 4
    BY PowersOfSixteen
  <2>2. Nibbles(x \div 256, 2) \o Nibbles(x, 2) = Nibbles(x, 4)
    BY <2>1, Halves
  <2>3. hexdb(x \div 256) = Nibbles(x \div 256, 2) /\ hexdb(x) = Nibbles(x, 2)
    BY <1>3, <2>1
  <2>4. QED
    BY <2>2, <2>3 DEF hexdw
<1>5. hexdd(v) = Nibbles(v, 8)
  <2>. DEFINE w == v \div 65536
  <2>1. w \in Nat /\ w = v \div Power(16)[4] /\ 4 \in {1, 2, 4}
    BY <1>1, PowersOfSixteen
  <2>2. hexdd(v) = hexdw(w) \o hexdw(v)
    BY DEF hexdd
  <2>. HIDE DEF w
  <2>3. Nibbles(w, 4) \o Nibbles(v, 4) = Nibbles(v, 2 * 4)
    BY <1>1, <2>1, Halves, Zenon
  <2>4. 2 * 4 = 8
    OBVIOUS
  <2>5. hexdw(w) = Nibbles(w, 4) /\ hexdw(v) = Nibbles(v, 4)
    BY <1>1, <1>4, <2>1, Zenon
  <2>6. QED
    BY <2>2, <2>3, <2>4, <2>5
<1>6. Max(T) = 8
  <2>1. T \in SUBSET Nat /\ 8 \in T /\ \A x \in T : x <= 8
    OBVIOUS
  <2>. HIDE DEF T
  <2>2. QED
    BY <2>1, MaxIs
<1>7. Numeral(v, 16, 8, 8) = [k \in 1 .. Max(T) |-> NibbleAt(v, Max(T) - k)]
  BY DEF Numeral, NibbleAt
<1>. HIDE DEF T
<1>8. Numeral(v, 16, 8, 8) = Nibbles(v, 8)
  BY <1>6, <1>7 DEF Nibbles
<1>9. Nibbles(v, 8) \in Seq(0 .. 255)
  <2>1. ASSUME NEW k \in 1 .. 8 PROVE NibbleAt(v, 8 - k) \in 0 .. 255
    BY <1>1, NibbleType
  <2>2. QED
    BY <2>1 DEF Nibbles
<1>10. QED
  BY <1>5, <1>8, <1>9

\* A number has a first digit.
LEMMA FirstDigit ==
  ASSUME NEW v, IsNumber(v), v # 0
  PROVE  \E l \in 1 .. 10 : v \div Power(10)[l] = 0 /\ v \div Power(10)[l - 1] > 0
<1>. DEFINE T == {l \in 0 .. 10 : v \div Power(10)[l] = 0}
<1>1. T \in SUBSET Nat /\ 10 \in T
  BY AtMostTenDigits
<1>2. PICK l \in T : \A k \in T : l <= k
  <2>. HIDE DEF T
  <2>1. QED
    BY <1>1, LeastElement
<1>3. l \in 0 .. 10 /\ v \div Power(10)[l] = 0 /\ l # 0
  BY AtMostTenDigits
<1>4. l - 1 \in 0 .. 9 /\ ~ (l <= l - 1) /\ l \in 1 .. 10
  BY <1>3
<1>5. l - 1 \notin T
  <2>. HIDE DEF T
  <2>1. QED
    BY <1>2, <1>4
<1>6. v \div Power(10)[l - 1] # 0
  BY <1>4, <1>5
<1>7. v \div Power(10)[l - 1] \in Nat
  BY <1>4, Division
<1>8. QED
  BY <1>3, <1>4, <1>6, <1>7

LEMMA DecimalType ==
  ASSUME NEW v, IsNumber(v)
  PROVE  Numeral(v, 10, 1, 10) \in Seq(0 .. 255)
<1>1. CASE v = 0
  <2>1. << 48 >> \in Seq(0 .. 255)
    OBVIOUS
  <2>2. QED
    BY <1>1, <2>1, ZeroIs
<1>2. CASE v # 0
  <2>1. PICK l \in 1 .. 10 : v \div Power(10)[l] = 0 /\ v \div Power(10)[l - 1] > 0
    BY <1>2, FirstDigit
  <2>2. Numeral(v, 10, 1, 10) = [k \in 1 .. l |-> DigitAt(v, l - k)]
    BY <2>1, DecimalIs
  <2>3. ASSUME NEW k \in 1 .. l PROVE DigitAt(v, l - k) \in 0 .. 255
    <3>1. l - k \in 0 .. 10
      OBVIOUS
    <3>2. QED
      BY <3>1, DigitIs
  <2>. DEFINE q == [k \in 1 .. l |-> DigitAt(v, l - k)]
  <2>4. q \in Seq(0 .. 255)
    BY <2>3
  <2>. HIDE DEF q
  <2>5. QED
    BY <2>2, <2>4 DEF q
<1>3. QED
  BY <1>1, <1>2

-----------------------------------------------------------------------------
(***************************************************************************)
(* Formats and their parameters.                                           *)
(***************************************************************************)

\* What is left of the sequence whole after the first k.
Suffix(left, whole, k) ==
    /\ Len(left) = Len(whole) - k
    /\ \A j \in 1 .. Len(left) : left[j] = whole[k + j]

LEMMA SuffixNext ==
  ASSUME NEW S, NEW left \in Seq(S), NEW whole \in Seq(S), NEW k \in Nat,
         Suffix(left, whole, k), left # << >>
  PROVE  /\ k + 1 \in 1 .. Len(whole) /\ Head(left) = whole[k + 1]
         /\ Tail(left) \in Seq(S) /\ Suffix(Tail(left), whole, k + 1)
<1>1. /\ Len(left) \in Nat /\ Len(left) > 0 /\ Len(whole) \in Nat /\ Len(left) = Len(whole) - k
      /\ Tail(left) \in Seq(S) /\ Len(Tail(left)) = Len(left) - 1
      /\ \A j \in 1 .. Len(Tail(left)) : Tail(left)[j] = left[j + 1]
      /\ Head(left) = left[1]
  BY DEF Suffix
<1>2. k + 1 \in 1 .. Len(whole)
  BY <1>1
<1>3. Head(left) = whole[k + 1]
  <2>1. 1 \in 1 .. Len(left)
    BY <1>1
  <2>2. QED
    BY <1>1, <2>1 DEF Suffix
<1>4. ASSUME NEW j \in 1 .. Len(Tail(left)) PROVE Tail(left)[j] = whole[(k + 1) + j]
  <2>1. j + 1 \in 1 .. Len(left) /\ k + (j + 1) = (k + 1) + j
    BY <1>1
  <2>2. QED
    BY <1>1, <2>1 DEF Suffix
<1>5. Len(Tail(left)) = Len(whole) - (k + 1)
  BY <1>1
<1>6. QED
  BY <1>1, <1>2, <1>3, <1>4, <1>5 DEF Suffix

LEMMA PositionNext ==
  ASSUME NEW f, Len(f) \in Nat, NEW k \in Nat
  PROVE  /\ Position(f, k) \in Nat
         /\ Position(f, k + 1) =
               IF k + 1 \in Directives(f) THEN Position(f, k) + 1 ELSE Position(f, k)
<1>. DEFINE Before(l) == {j \in Directives(f) : j <= l}
<1>1. IsFiniteSet(Before(k))
  <2>1. IsFiniteSet(2 .. Len(f))
    BY FS_Interval
  <2>2. Before(k) \in SUBSET (2 .. Len(f))
    BY DEF Directives
  <2>. HIDE DEF Before
  <2>3. QED
    BY <2>1, <2>2, FS_Subset
<1>2. Directives(f) \subseteq Nat
  BY DEF Directives
<1>3. IF k + 1 \in Directives(f)
      THEN Before(k + 1) = Before(k) \cup {k + 1} /\ k + 1 \notin Before(k)
      ELSE Before(k + 1) = Before(k)
  <2>1. ASSUME NEW j \in Nat PROVE j <= k + 1 <=> (j <= k \/ j = k + 1)
    OBVIOUS
  <2>2. ~ (k + 1 <= k)
    OBVIOUS
  <2>3. CASE k + 1 \in Directives(f)
    BY <1>2, <2>1, <2>2, <2>3
  <2>4. CASE k + 1 \notin Directives(f)
    BY <1>2, <2>1, <2>4
  <2>5. QED
    BY <2>3, <2>4
<1>4. Position(f, k) = Cardinality(Before(k)) /\ Position(f, k + 1) = Cardinality(Before(k + 1))
  BY DEF Position
<1>. HIDE DEF Before
<1>5. Cardinality(Before(k)) \in Nat
  BY <1>1, FS_CardinalityType
<1>6. CASE k + 1 \in Directives(f)
  BY <1>1, <1>3, <1>4, <1>5, <1>6, FS_AddElement
<1>7. CASE k + 1 \notin Directives(f)
  BY <1>3, <1>4, <1>5, <1>7
<1>8. QED
  BY <1>6, <1>7

LEMMA PositionEnds ==
  ASSUME NEW f, Len(f) \in Nat
  PROVE  Position(f, 0) = 0 /\ Position(f, Len(f)) = Cardinality(Directives(f))
<1>1. {j \in Directives(f) : j <= 0} = {}
  BY DEF Directives
<1>2. {j \in Directives(f) : j <= Len(f)} = Directives(f)
  BY DEF Directives
<1>3. QED
  BY <1>1, <1>2, FS_EmptySet DEF Position

-----------------------------------------------------------------------------
Values(c) == {c.parameters[k] : k \in 1 .. Cardinality(Directives(c.format))}

LEMMA CallType ==
  ASSUME NEW c \in Calls
  PROVE  /\ c.format \in Seq(1 .. 255) /\ Len(c.format) \in Nat
         /\ c.parameters \in Seq(Values(c))
         /\ Len(c.parameters) = Cardinality(Directives(c.format))
         /\ Len(c.parameters) \in Nat
<1>. DEFINE N == Cardinality(Directives(c.format))
<1>1. c.format \in Seq(1 .. 255) /\ Len(c.format) \in Nat
  <2>1. c.format \in Seq(1 .. 255)
    BY CallsAssumption, Zenon
  <2>2. QED
    BY <2>1
<1>2. N \in Nat
  <2>1. IsFiniteSet(2 .. Len(c.format))
    BY <1>1, FS_Interval
  <2>2. Directives(c.format) \in SUBSET (2 .. Len(c.format))
    BY DEF Directives
  <2>3. QED
    BY <2>1, <2>2, FS_Subset, FS_CardinalityType
<1>3. c.parameters = [k \in 1 .. N |-> c.parameters[k]]
  BY CallsAssumption
<1>4. \A k \in 1 .. N : c.parameters[k] \in Values(c)
  BY DEF Values
<1>. HIDE DEF N
<1>5. c.parameters \in [1 .. N -> Values(c)]
  BY <1>3, <1>4
<1>6. c.parameters \in Seq(Values(c)) /\ Len(c.parameters) = N
  BY <1>2, <1>5
<1>7. QED
  BY <1>1, <1>2, <1>6 DEF N

LEMMA ExpectedType ==
  ASSUME NEW c \in Calls, NEW k \in 1 .. Len(c.format)
  PROVE  Expected(c, k) \in Seq(0 .. 255)
<1>. DEFINE f == c.format
            v == c.parameters[Position(f, k)]
<1>1. f \in Seq(1 .. 255) /\ f[k] \in 1 .. 255 /\ f[k] \in 0 .. 255
  BY CallType
<1>2. k \in Directives(f) => f[k] \in Specifiers /\ Fits(f[k], v)
  BY CallsAssumption DEF Directives
<1>3. CASE k \notin Directives(f)
  <2>1. Expected(c, k) = IF f[k] = PERCENT THEN << >> ELSE << f[k] >>
    BY <1>3 DEF Expected
  <2>2. << >> \in Seq(0 .. 255) /\ << f[k] >> \in Seq(0 .. 255)
    BY <1>1
  <2>. HIDE DEF f, v
  <2>3. QED
    BY <2>1, <2>2
<1>4. CASE k \in Directives(f) /\ f[k] = S_
  <2>1. Expected(c, k) = v
    BY <1>4 DEF Expected, S_, C_, X_, U_
  <2>2. v \in Seq(1 .. 255)
    BY <1>2, <1>4 DEF Fits, S_, C_
  <2>. HIDE DEF f, v
  <2>3. QED
    BY <2>1, <2>2
<1>5. CASE k \in Directives(f) /\ f[k] = C_
  <2>1. Expected(c, k) = << v >>
    BY <1>5 DEF Expected, S_, C_, X_, U_
  <2>2. v \in 0 .. 255
    BY <1>2, <1>5 DEF Fits, S_, C_
  <2>. HIDE DEF f, v
  <2>3. QED
    BY <2>1, <2>2
<1>6. CASE k \in Directives(f) /\ f[k] = X_
  <2>1. Expected(c, k) = << 48, 120 >> \o Numeral(v, 16, 8, 8)
    BY <1>6 DEF Expected, S_, C_, X_, U_
  <2>2. IsNumber(v)
    BY <1>2, <1>6 DEF Fits, S_, C_, X_, IsNumber
  <2>. HIDE DEF f, v
  <2>3. Numeral(v, 16, 8, 8) \in Seq(0 .. 255)
    BY <2>2, HexIs
  <2>4. << 48, 120 >> \in Seq(0 .. 255)
    OBVIOUS
  <2>5. QED
    BY <2>1, <2>3, <2>4
<1>7. CASE k \in Directives(f) /\ f[k] = U_
  <2>1. Expected(c, k) = Numeral(v, 10, 1, 10)
    BY <1>7 DEF Expected, S_, C_, X_, U_
  <2>2. IsNumber(v)
    BY <1>2, <1>7 DEF Fits, S_, C_, U_, IsNumber
  <2>. HIDE DEF f, v
  <2>3. QED
    BY <2>1, <2>2, DecimalType
<1>8. QED
  BY <1>2, <1>3, <1>4, <1>5, <1>6, <1>7 DEF Specifiers

-----------------------------------------------------------------------------
(***************************************************************************)
(* What a call of logf prints.                                             *)
(***************************************************************************)

\* What the first k characters of the format stand for.
Text(c, k) == FlattenSeq([j \in 1 .. k |-> Expected(c, j)])

LEMMA TextStart ==
  ASSUME NEW c
  PROVE  Text(c, 0) = << >>
<1>1. [j \in 1 .. 0 |-> Expected(c, j)] = << >>
  OBVIOUS
<1>2. << >> \in Seq(Seq({})) /\ Len(<< >>) = 0
  OBVIOUS
<1>3. PICK h : Joined(<< >>, h) /\ FlattenSeq(<< >>) = h[Len(<< >>)]
  BY <1>2, FlattenIs
<1>4. QED
  BY <1>1, <1>2, <1>3 DEF Text, Joined

LEMMA TextNext ==
  ASSUME NEW c \in Calls, NEW k \in Nat, k + 1 \in 1 .. Len(c.format)
  PROVE  /\ Text(c, k) \in Seq(0 .. 255)
         /\ Text(c, k + 1) = Text(c, k) \o Expected(c, k + 1)
<1>. DEFINE E(j) == Expected(c, j)
            q == [j \in 1 .. k |-> E(j)]
            r == [j \in 1 .. k + 1 |-> E(j)]
<1>1. Len(c.format) \in Nat
  BY CallType
<1>2. \A j \in 1 .. k + 1 : E(j) \in Seq(0 .. 255)
  <2>1. ASSUME NEW j \in 1 .. k + 1 PROVE j \in 1 .. Len(c.format)
    BY <1>1
  <2>2. QED
    BY <2>1, ExpectedType
<1>. HIDE DEF E
<1>3. q \in Seq(Seq(0 .. 255)) /\ E(k + 1) \in Seq(0 .. 255)
  BY <1>2
<1>4. r = Append(q, E(k + 1))
  <2>1. r \in Seq(Seq(0 .. 255)) /\ Len(r) = k + 1 /\ Len(q) = k
    BY <1>2
  <2>2. \A j \in 1 .. k : r[j] = q[j]
    OBVIOUS
  <2>3. r[k + 1] = E(k + 1)
    OBVIOUS
  <2>. HIDE DEF q, r
  <2>4. QED
    BY <1>3, <2>1, <2>2, <2>3
<1>5. Text(c, k) = FlattenSeq(q) /\ Text(c, k + 1) = FlattenSeq(r)
  BY DEF Text, E
<1>. HIDE DEF q, r
<1>6. /\ FlattenSeq(q) \in Seq(0 .. 255)
      /\ FlattenSeq(Append(q, E(k + 1))) = FlattenSeq(q) \o E(k + 1)
  BY <1>3, FlattenAppend
<1>7. QED
  BY <1>4, <1>5, <1>6 DEF E

LEMMA BytesType ==
  ASSUME NEW m, NEW S, NEW q \in Seq(S)
  PROVE  Bytes(m, q) \in Seq({m} \X S) /\ Len(Bytes(m, q)) = Len(q)
<1>1. DOMAIN q = 1 .. Len(q) /\ Len(q) \in Nat
  OBVIOUS
<1>2. Bytes(m, q) = [k \in 1 .. Len(q) |-> << m, q[k] >>]
  BY <1>1 DEF Bytes
<1>3. ASSUME NEW k \in 1 .. Len(q) PROVE << m, q[k] >> \in {m} \X S
  <2>1. q[k] \in S
    OBVIOUS
  <2>2. m \in {m}
    OBVIOUS
  <2>3. QED
    BY <2>1, <2>2
<1>4. QED
  BY <1>1, <1>2, <1>3

LEMMA BytesConcat ==
  ASSUME NEW m, NEW q \in Seq(0 .. 255), NEW r \in Seq(0 .. 255)
  PROVE  Bytes(m, q \o r) = Bytes(m, q) \o Bytes(m, r)
<1>. DEFINE x == Bytes(m, q)
            y == Bytes(m, r)
            z == Bytes(m, q \o r)
            S == {m} \X (0 .. 255)
<1>1. q \o r \in Seq(0 .. 255) /\ Len(q \o r) = Len(q) + Len(r)
  OBVIOUS
<1>2. x \in Seq(S) /\ y \in Seq(S) /\ z \in Seq(S)
  <2>1. x \in Seq({m} \X (0 .. 255))
    BY BytesType
  <2>2. y \in Seq({m} \X (0 .. 255))
    BY BytesType
  <2>3. z \in Seq({m} \X (0 .. 255))
    BY <1>1, BytesType
  <2>4. QED
    BY <2>1, <2>2, <2>3
<1>3. Len(z) = Len(x) + Len(y) /\ Len(x) = Len(q) /\ Len(y) = Len(r)
  BY <1>1, BytesType
<1>4. ASSUME NEW k \in 1 .. Len(x) PROVE z[k] = x[k]
  <2>1. k \in 1 .. Len(q) /\ k \in 1 .. Len(q \o r) /\ (q \o r)[k] = q[k]
    BY <1>3
  <2>2. QED
    BY <1>1, <2>1 DEF Bytes
<1>5. ASSUME NEW k \in 1 .. Len(y) PROVE z[Len(x) + k] = y[k]
  <2>1. /\ k \in 1 .. Len(r) /\ Len(q) + k \in 1 .. Len(q \o r)
        /\ (q \o r)[Len(q) + k] = r[k]
    BY <1>3
  <2>2. z[Len(q) + k] = << m, r[k] >>
    BY <1>1, <2>1 DEF Bytes
  <2>3. y[k] = << m, r[k] >>
    BY <2>1 DEF Bytes
  <2>. HIDE DEF x, y, z
  <2>4. QED
    BY <1>3, <2>2, <2>3
<1>. HIDE DEF x, y, z, S
<1>6. x \o y = z
  <2>1. IsConcat(x, y, z)
    BY <1>3, <1>4, <1>5 DEF IsConcat
  <2>2. QED
    BY <1>2, <2>1, ConcatIs
<1>7. QED
  BY <1>6 DEF x, y, z

-----------------------------------------------------------------------------
(***************************************************************************)
(* The invariant.  Read characters of the format are behind the task, and  *)
(* they took Taken parameters.                                             *)
(***************************************************************************)
Read == Len(call.format) - Len(format)
Taken == Position(call.format, Read)

\* The format goes on where it was left, never between a '%' and its directive.
ArgsInv ==
    /\ call \in Calls
    /\ format \in Seq(1 .. 255) /\ Read \in Nat
    /\ Suffix(format, call.format, Read)
    /\ Read + 1 \notin Directives(call.format)
    /\ parameters \in Seq(Values(call))
    /\ Suffix(parameters, call.parameters, Taken)

\* While it is divided, n is what is left of the number v and s holds the digits behind
\* it, the last one first.
Dividing(v, left, len, str) ==
    /\ left = v \div Power(10)[len]
    /\ \A p \in 0 .. len - 1 : str[p] = DigitAt(v, p)

\* While it is reversed, the outer digits are where they belong.
Reversing(v, k, len, str) ==
    /\ len > 0 /\ v \div Power(10)[len] = 0
    /\ str[len] = 0 /\ k \in 0 .. len \div 2
    /\ \A p \in 0 .. len - 1 :
          str[p] = DigitAt(v, IF p < k \/ p > len - 1 - k THEN len - 1 - p ELSE p)

NumberInv ==
    /\ pos \in 0 .. 10 /\ i \in 0 .. 10 /\ n \in Nat
    /\ s \in [0 .. BUFFER - 1 -> 0 .. 255]
    /\ pc \in {"divide", "reverse"} =>
          /\ Read \in Directives(call.format) /\ call.format[Read] = U_
          /\ IsNumber(call.parameters[Taken]) /\ call.parameters[Taken] # 0
          /\ pos > 0 => call.parameters[Taken] \div Power(10)[pos - 1] > 0
    /\ pc = "divide" => Dividing(call.parameters[Taken], n, pos, s)
    /\ pc = "reverse" => Reversing(call.parameters[Taken], i, pos, s)

Printed == IF pc \in {"divide", "reverse"} THEN Read - 1 ELSE Read

\* What the task wrote and is about to write is what the format says so far.
PrintInv ==
    OfTask(written) \o rest["task"] = Bytes("task", Text(call, Printed))

UartInv ==
    /\ mode \in Modes /\ ready \in [Modes -> BOOLEAN]
    /\ rest \in [Modes -> Seq(Modes \X (0 .. 255))]
    /\ \A m \in Modes : rest[m] \in Seq({m} \X (0 .. 255))
    /\ fifo \in Seq(Modes \X (0 .. 255)) /\ sent \in Seq(Modes \X (0 .. 255))
    /\ written \in Seq(Modes \X (0 .. 255))
    /\ messages \in 0 .. MaxMessages

LogfInv ==
    /\ pc \in {"format", "divide", "reverse", "done"}
    /\ ArgsInv
    /\ NumberInv
    /\ PrintInv
    /\ pc = "done" => format = << >> /\ rest["task"] = << >>
    /\ UartInv

-----------------------------------------------------------------------------
LEMMA PositionBound ==
  ASSUME NEW f, Len(f) \in Nat, NEW k \in Nat
  PROVE  Position(f, k) <= Cardinality(Directives(f))
<1>1. IsFiniteSet(Directives(f))
  <2>1. IsFiniteSet(2 .. Len(f)) /\ Directives(f) \in SUBSET (2 .. Len(f))
    BY FS_Interval DEF Directives
  <2>2. QED
    BY <2>1, FS_Subset
<1>. DEFINE T == {j \in Directives(f) : j <= k}
<1>2. T \in SUBSET Directives(f)
  OBVIOUS
<1>. HIDE DEF T
<1>3. QED
  BY <1>1, <1>2, FS_Subset DEF Position, T

LEMMA TextType ==
  ASSUME NEW c \in Calls, NEW k \in 0 .. Len(c.format)
  PROVE  Text(c, k) \in Seq(0 .. 255)
<1>1. Len(c.format) \in Nat
  BY CallType
<1>2. CASE k = 0
  <2>1. << >> \in Seq(0 .. 255)
    OBVIOUS
  <2>2. QED
    BY <1>2, <2>1, TextStart
<1>3. CASE k # 0
  <2>1. k - 1 \in Nat /\ (k - 1) + 1 = k /\ k \in 1 .. Len(c.format)
    BY <1>1, <1>3
  <2>2. Text(c, k - 1) \in Seq(0 .. 255) /\ Text(c, k) = Text(c, k - 1) \o Expected(c, k)
    BY <2>1, TextNext
  <2>3. Expected(c, k) \in Seq(0 .. 255)
    BY <2>1, ExpectedType
  <2>4. QED
    BY <2>2, <2>3
<1>4. QED
  BY <1>2, <1>3

\* A character that belongs to no directive prints itself, unless it is a '%'.
LEMMA CharacterPrints ==
  ASSUME NEW c \in Calls, NEW k \in Nat, k + 1 \in 1 .. Len(c.format),
         k + 1 \notin Directives(c.format)
  PROVE  /\ c.format[k + 1] = PERCENT => Text(c, k + 1) = Text(c, k)
         /\ c.format[k + 1] # PERCENT => Text(c, k + 1) = Text(c, k) \o << c.format[k + 1] >>
<1>1. /\ Text(c, k) \in Seq(0 .. 255)
      /\ Text(c, k + 1) = Text(c, k) \o Expected(c, k + 1)
  BY TextNext
<1>2. Expected(c, k + 1) = IF c.format[k + 1] = PERCENT THEN << >> ELSE << c.format[k + 1] >>
  BY DEF Expected
<1>3. Text(c, k) \o << >> = Text(c, k)
  BY <1>1
<1>4. QED
  BY <1>1, <1>2, <1>3

\* The task goes on with the next character of the format.
LEMMA CharacterStep ==
  ASSUME ArgsInv, format # << >>, format' = Tail(format), UNCHANGED <<call, parameters>>,
         Head(format) = PERCENT /\ Len(format) > 1 => format[2] \notin Specifiers
  PROVE  /\ ArgsInv' /\ Read \in Nat /\ Read' = Read + 1
         /\ Read + 1 \in 1 .. Len(call.format) /\ call.format[Read + 1] = Head(format)
         /\ Read + 1 \notin Directives(call.format)
<1>. DEFINE f == call.format
            k == Read
<1>1. /\ call \in Calls /\ f \in Seq(1 .. 255) /\ Len(f) \in Nat /\ k \in Nat
      /\ format \in Seq(1 .. 255) /\ Suffix(format, f, k) /\ k + 1 \notin Directives(f)
  BY CallType DEF ArgsInv
<1>2. /\ k + 1 \in 1 .. Len(f) /\ Head(format) = f[k + 1]
      /\ Tail(format) \in Seq(1 .. 255) /\ Suffix(Tail(format), f, k + 1)
  <2>. HIDE DEF f, k
  <2>1. QED
    BY <1>1, SuffixNext
<1>3. Read' = k + 1
  <2>. DEFINE l == Len(Tail(format))
              m == Len(f)
  <2>1. l = m - (k + 1) /\ l \in Nat /\ m \in Nat /\ k \in Nat
    BY <1>1, <1>2 DEF Suffix
  <2>2. Read' = m - l
    BY DEF Read
  <2>. HIDE DEF f, k, l, m
  <2>3. QED
    BY <2>1, <2>2
<1>4. k + 2 \notin Directives(f)
  <2>1. SUFFICES ASSUME k + 2 \in Directives(f) PROVE FALSE
    OBVIOUS
  <2>2. k + 2 \in 2 .. Len(f) /\ f[(k + 2) - 1] = PERCENT /\ f[k + 2] \in Specifiers
    BY <2>1 DEF Directives
  <2>. HIDE DEF f, k
  <2>3. (k + 2) - 1 = k + 1 /\ Len(format) = Len(f) - k /\ Len(format) \in Nat
    BY <1>1 DEF Suffix
  <2>4. 2 \in 1 .. Len(format) /\ Len(format) > 1
    BY <1>1, <2>2, <2>3
  <2>5. format[2] = f[k + 2]
    BY <1>1, <2>4 DEF Suffix
  <2>6. QED
    BY <1>2, <2>2, <2>3, <2>4, <2>5
<1>5. Taken' = Taken
  <2>1. Position(f, k + 1) = Position(f, k)
    <3>. HIDE DEF f, k
    <3>1. QED
      BY <1>1, PositionNext
  <2>2. Taken' = Position(f, k + 1)
    BY <1>3 DEF Taken
  <2>3. QED
    BY <2>1, <2>2 DEF Taken
<1>6. ArgsInv'
  <2>1. call' = call /\ format' = Tail(format) /\ parameters' = parameters
    OBVIOUS
  <2>2. (k + 1) + 1 = k + 2 /\ k + 1 \in Nat
    BY <1>1
  <2>3. Values(call)' = Values(call)
    BY DEF Values
  <2>. HIDE DEF f, k
  <2>4. /\ call' \in Calls /\ format' \in Seq(1 .. 255) /\ Read' \in Nat
        /\ Suffix(format', f, Read') /\ Read' + 1 \notin Directives(f)
    BY <1>1, <1>2, <1>3, <1>4, <2>1, <2>2
  <2>5. parameters' \in Seq(Values(call)) /\ Suffix(parameters', call.parameters, Taken')
    BY <1>5 DEF ArgsInv
  <2>6. QED
    BY <2>1, <2>3, <2>4, <2>5 DEF ArgsInv, f
<1>7. QED
  BY <1>1, <1>2, <1>3, <1>6

\* The task takes a directive and its parameter.
LEMMA DirectiveStep ==
  ASSUME ArgsInv, NEW d \in Specifiers, Directive(d), call' = call
  PROVE  /\ ArgsInv' /\ Read \in Nat /\ Read' = Read + 2
         /\ Read' \in Directives(call.format) /\ Read' \in 1 .. Len(call.format)
         /\ call.format[Read'] = d
         /\ Head(parameters) = call.parameters[Taken'] /\ Fits(d, Head(parameters))
         /\ Taken' = Position(call.format, Read')
         /\ Text(call, Read) \in Seq(0 .. 255)
         /\ Text(call, Read + 1) = Text(call, Read)
         /\ Text(call, Read') = Text(call, Read) \o Expected(call, Read')
<1>. DEFINE f == call.format
            k == Read
<1>1. /\ call \in Calls /\ f \in Seq(1 .. 255) /\ Len(f) \in Nat /\ k \in Nat
      /\ format \in Seq(1 .. 255) /\ Suffix(format, f, k) /\ k + 1 \notin Directives(f)
  BY CallType DEF ArgsInv
<1>2. /\ Len(format) > 1 /\ Head(format) = PERCENT /\ format[2] = d
      /\ format' = Tail(Tail(format)) /\ parameters' = Tail(parameters)
  BY DEF Directive
<1>3. /\ k + 1 \in 1 .. Len(f) /\ Head(format) = f[k + 1]
      /\ Tail(format) \in Seq(1 .. 255) /\ Suffix(Tail(format), f, k + 1)
  <2>1. format # << >>
    BY <1>1, <1>2
  <2>. HIDE DEF f, k
  <2>2. QED
    BY <1>1, <2>1, SuffixNext
<1>. DEFINE t == Tail(format)
<1>4. t # << >> /\ Head(t) = d
  <2>1. format \in Seq(1 .. 255) /\ Len(format) > 1 /\ Len(format) \in Nat
    BY <1>1, <1>2
  <2>2. t \in Seq(1 .. 255) /\ Len(t) = Len(format) - 1 /\ Len(t) > 0
    BY <2>1
  <2>3. t[1] = format[2]
    BY <2>1
  <2>. HIDE DEF t
  <2>4. t # << >> /\ Head(t) = t[1]
    BY <2>2
  <2>5. QED
    BY <1>2, <2>3, <2>4
<1>5. /\ k + 2 \in 1 .. Len(f) /\ d = f[k + 2]
      /\ Tail(t) \in Seq(1 .. 255) /\ Suffix(Tail(t), f, k + 2)
  <2>1. t \in Seq(1 .. 255) /\ Suffix(t, f, k + 1) /\ k + 1 \in Nat /\ (k + 1) + 1 = k + 2
    BY <1>1, <1>3
  <2>. HIDE DEF f, k, t
  <2>2. QED
    BY <1>1, <1>4, <2>1, SuffixNext
<1>6. Read' = k + 2
  <2>. DEFINE l == Len(Tail(t))
              m == Len(f)
  <2>1. l = m - (k + 2) /\ l \in Nat /\ m \in Nat /\ k \in Nat
    BY <1>1, <1>5 DEF Suffix
  <2>2. Read' = m - l
    BY <1>2 DEF Read
  <2>. HIDE DEF f, k, t, l, m
  <2>3. QED
    BY <2>1, <2>2
<1>7. k + 2 \in Directives(f) /\ (k + 2) + 1 \notin Directives(f)
  <2>1. d # PERCENT
    BY DEF Specifiers, PERCENT, S_, C_, X_, U_
  <2>. HIDE DEF f, k, t
  <2>2. (k + 2) - 1 = k + 1 /\ ((k + 2) + 1) - 1 = k + 2 /\ k + 2 \in 2 .. Len(f)
    BY <1>1, <1>5
  <2>3. QED
    BY <1>2, <1>3, <1>5, <2>1, <2>2 DEF Directives
<1>8. Position(f, k) \in Nat /\ Position(f, k + 2) = Position(f, k) + 1
  <2>. HIDE DEF f, k, t
  <2>1. k + 1 \in Nat /\ (k + 1) + 1 = k + 2
    BY <1>1
  <2>2. QED
    BY <1>1, <1>7, <2>1, PositionNext
<1>9. Taken = Position(f, k) /\ Taken' = Position(f, k + 2)
  BY <1>6 DEF Taken
<1>10. /\ parameters \in Seq(Values(call)) /\ call.parameters \in Seq(Values(call))
       /\ Suffix(parameters, call.parameters, Taken)
       /\ Len(call.parameters) = Cardinality(Directives(f))
  BY <1>1, CallType DEF ArgsInv
<1>11. parameters # << >>
  <2>. DEFINE l == Len(parameters)
              m == Len(call.parameters)
              p == Position(f, k)
  <2>1. l = m - p /\ m \in Nat
    BY <1>9, <1>10 DEF Suffix
  <2>2. p + 1 <= m
    <3>. HIDE DEF f, k, t
    <3>1. k + 2 \in Nat
      BY <1>1
    <3>2. Position(f, k + 2) <= Cardinality(Directives(f))
      BY <1>1, <3>1, PositionBound
    <3>3. QED
      BY <1>8, <1>10, <3>2
  <2>3. p \in Nat
    BY <1>8
  <2>. HIDE DEF f, k, t, m, p
  <2>4. l > 0
    <3>. HIDE DEF l
    <3>1. QED
      BY <2>1, <2>2, <2>3
  <2>5. QED
    BY <2>4
<1>12. /\ Head(parameters) = call.parameters[Taken']
       /\ Tail(parameters) \in Seq(Values(call))
       /\ Suffix(Tail(parameters), call.parameters, Taken')
  <2>1. Taken \in Nat /\ Taken' = Taken + 1
    BY <1>8, <1>9
  <2>2. QED
    BY <1>10, <1>11, <2>1, SuffixNext
<1>13. Fits(d, Head(parameters))
  BY <1>1, <1>5, <1>7, <1>9, <1>12, CallsAssumption
<1>14. Text(call, k + 1) = Text(call, k)
  BY <1>1, <1>2, <1>3, CharacterPrints
<1>15. Text(call, k + 2) = Text(call, k + 1) \o Expected(call, k + 2)
  <2>. HIDE DEF f, k
  <2>1. k + 1 \in Nat /\ (k + 1) + 1 = k + 2 /\ k + 2 \in 1 .. Len(call.format)
    BY <1>1, <1>5 DEF f
  <2>2. QED
    BY <1>1, <2>1, TextNext
<1>16. Text(call, k) \in Seq(0 .. 255)
  <2>1. k \in 0 .. Len(call.format)
    BY <1>1, <1>3
  <2>. HIDE DEF f, k
  <2>2. QED
    BY <1>1, <2>1, TextType
<1>17. ArgsInv'
  <2>1. Values(call)' = Values(call)
    BY DEF Values
  <2>. HIDE DEF f, k, t
  <2>2. /\ call' \in Calls /\ format' \in Seq(1 .. 255) /\ Read' \in Nat
        /\ Suffix(format', f, Read') /\ Read' + 1 \notin Directives(f)
    BY <1>1, <1>2, <1>5, <1>6, <1>7 DEF t
  <2>3. parameters' \in Seq(Values(call)) /\ Suffix(parameters', call.parameters, Taken')
    BY <1>2, <1>12
  <2>4. QED
    BY <2>1, <2>2, <2>3 DEF ArgsInv, f
<1>. HIDE DEF k
<1>18. QED
  BY <1>1, <1>5, <1>6, <1>7, <1>9, <1>12, <1>13, <1>14, <1>15, <1>16, <1>17 DEF k

LEMMA OfTaskType ==
  ASSUME NEW S, NEW bytes \in Seq(S)
  PROVE  OfTask(bytes) \in Seq(S)
<1>1. PICK own \in [0 .. Len(bytes) -> Seq(S)] : OfTask(bytes) = own[Len(bytes)]
  BY OfTaskIs
<1>2. Len(bytes) \in 0 .. Len(bytes)
  OBVIOUS
<1>3. QED
  BY <1>1, <1>2

-----------------------------------------------------------------------------
(***************************************************************************)
(* The steps of logf.                                                      *)
(***************************************************************************)

\* Characters that the format stands for are given to put_serial.
LEMMA Emitted ==
  ASSUME PrintInv, UartInv, rest["task"] = << >>, NEW chars \in Seq(0 .. 255), Emit(chars),
         UNCHANGED <<call, uart>>,
         Text(call, Printed) \in Seq(0 .. 255),
         Text(call, Printed') = Text(call, Printed) \o chars
  PROVE  PrintInv' /\ UartInv'
<1>. DEFINE T == Text(call, Printed)
            b == Bytes("task", chars)
<1>1. UNCHANGED <<mode, ready, fifo, sent, written, messages>>
  BY DEF uart
<1>2. rest' = [rest EXCEPT !["task"] = b] /\ b \in Seq({"task"} \X (0 .. 255))
  BY BytesType DEF Emit
<1>3. b \in Seq(Modes \X (0 .. 255)) /\ "task" \in Modes
  BY <1>2 DEF Modes
<1>. HIDE DEF T, b
<1>4. UartInv'
  BY <1>1, <1>2, <1>3 DEF UartInv
<1>5. OfTask(written) = Bytes("task", T)
  <2>1. OfTask(written) \in Seq(Modes \X (0 .. 255))
    BY OfTaskType DEF UartInv
  <2>2. OfTask(written) \o << >> = OfTask(written)
    BY <2>1
  <2>3. QED
    BY <2>2 DEF PrintInv, T
<1>6. Bytes("task", T \o chars) = Bytes("task", T) \o b
  BY BytesConcat DEF T, b
<1>7. rest'["task"] = b
  BY <1>2, <1>3 DEF UartInv
<1>8. Text(call', Printed') = T \o chars /\ written' = written
  BY <1>1 DEF T
<1>9. PrintInv'
  BY <1>5, <1>6, <1>7, <1>8 DEF PrintInv
<1>10. QED
  BY <1>4, <1>9

LEMMA NotEmitted ==
  ASSUME PrintInv, UartInv, UNCHANGED <<call, rest, uart>>,
         Text(call, Printed') = Text(call, Printed)
  PROVE  PrintInv' /\ UartInv'
<1>1. UNCHANGED <<mode, ready, fifo, sent, written, messages>>
  BY DEF uart
<1>2. QED
  BY <1>1 DEF PrintInv, UartInv

\* No number is printed.
LEMMA NumberKept ==
  ASSUME NumberInv, UNCHANGED <<n, s, pos, i>>, pc' \in {"format", "done"}
  PROVE  NumberInv'
  BY DEF NumberInv

LEMMA HeadType ==
  ASSUME NEW S, NEW q \in Seq(S), q # << >>
  PROVE  Head(q) \in S /\ Tail(q) \in Seq(S)
  OBVIOUS

LEMMA LiteralKeeps == ASSUME LogfInv, Literal PROVE LogfInv'
<1>. DEFINE x == << Head(format) >>
<1>1. /\ rest["task"] = << >> /\ pc = "format" /\ format # << >> /\ Head(format) # PERCENT
      /\ Emit(x) /\ format' = Tail(format)
      /\ UNCHANGED <<call, parameters, pc, n, s, pos, i, uart>>
  BY DEF Literal, At, local
<1>2. /\ ArgsInv' /\ Read \in Nat /\ Read' = Read + 1
      /\ Read + 1 \in 1 .. Len(call.format) /\ call.format[Read + 1] = Head(format)
      /\ Read + 1 \notin Directives(call.format)
  BY <1>1, CharacterStep DEF LogfInv
<1>3. call \in Calls /\ x \in Seq(0 .. 255)
  <2>1. Head(format) \in 1 .. 255
    BY <1>1, HeadType DEF LogfInv, ArgsInv
  <2>2. Head(format) \in 0 .. 255
    BY <2>1
  <2>3. QED
    BY <2>2 DEF LogfInv, ArgsInv
<1>4. Text(call, Read + 1) = Text(call, Read) \o x /\ Text(call, Read) \in Seq(0 .. 255)
  BY <1>1, <1>2, <1>3, CharacterPrints, TextNext
<1>5. Printed = Read /\ Printed' = Read + 1
  BY <1>1, <1>2 DEF Printed
<1>. HIDE DEF x
<1>6. PrintInv' /\ UartInv'
  BY <1>1, <1>3, <1>4, <1>5, Emitted DEF LogfInv
<1>7. NumberInv'
  BY <1>1, NumberKept DEF LogfInv
<1>8. QED
  BY <1>1, <1>2, <1>6, <1>7 DEF LogfInv

LEMMA UnknownDirectiveKeeps == ASSUME LogfInv, UnknownDirective PROVE LogfInv'
<1>1. /\ pc = "format" /\ format # << >> /\ Head(format) = PERCENT
      /\ Len(format) > 1 => format[2] \notin Specifiers
      /\ format' = Tail(format)
      /\ UNCHANGED <<call, parameters, pc, n, s, pos, i, rest, uart>>
  BY DEF UnknownDirective, At, local
<1>2. /\ ArgsInv' /\ Read \in Nat /\ Read' = Read + 1
      /\ Read + 1 \in 1 .. Len(call.format) /\ call.format[Read + 1] = Head(format)
      /\ Read + 1 \notin Directives(call.format)
  BY <1>1, CharacterStep DEF LogfInv
<1>3. Text(call, Read + 1) = Text(call, Read)
  BY <1>1, <1>2, CharacterPrints DEF LogfInv, ArgsInv
<1>4. Printed = Read /\ Printed' = Read + 1
  BY <1>1, <1>2 DEF Printed
<1>5. PrintInv' /\ UartInv'
  BY <1>1, <1>3, <1>4, NotEmitted DEF LogfInv
<1>6. NumberInv'
  BY <1>1, NumberKept DEF LogfInv
<1>7. QED
  BY <1>1, <1>2, <1>5, <1>6 DEF LogfInv

\* A directive that prints at once.
LEMMA DirectivePrints ==
  ASSUME LogfInv, NEW d \in Specifiers, Directive(d), NEW chars \in Seq(0 .. 255),
         Emit(chars), Expected(call, Read') = chars,
         UNCHANGED <<call, pc, n, s, pos, i, uart>>
  PROVE  LogfInv'
<1>1. rest["task"] = << >> /\ pc = "format" /\ pc' = "format"
  BY DEF Directive, At
<1>2. /\ ArgsInv' /\ Text(call, Read) \in Seq(0 .. 255)
      /\ Text(call, Read') = Text(call, Read) \o Expected(call, Read')
  BY DirectiveStep DEF LogfInv
<1>3. Printed = Read /\ Printed' = Read'
  BY <1>1 DEF Printed
<1>4. PrintInv' /\ UartInv'
  BY <1>1, <1>2, <1>3, Emitted DEF LogfInv
<1>5. NumberInv'
  BY <1>1, NumberKept DEF LogfInv
<1>6. QED
  BY <1>1, <1>2, <1>4, <1>5 DEF LogfInv

LEMMA StringDirectiveKeeps == ASSUME LogfInv, StringDirective PROVE LogfInv'
<1>. DEFINE v == Head(parameters)
<1>1. Directive(S_) /\ Emit(v) /\ UNCHANGED <<call, pc, n, s, pos, i, uart>> /\ S_ \in Specifiers
  BY DEF StringDirective, local, Specifiers
<1>2. /\ Read' \in Directives(call.format) /\ call.format[Read'] = S_
      /\ v = call.parameters[Taken'] /\ Fits(S_, v) /\ Taken' = Position(call.format, Read')
  BY <1>1, DirectiveStep DEF LogfInv
<1>. HIDE DEF v
<1>3. Expected(call, Read') = v
  BY <1>2 DEF Expected, S_, C_, X_, U_
<1>4. v \in Seq(0 .. 255)
  <2>1. v \in Seq(1 .. 255)
    BY <1>2 DEF Fits, S_, C_
  <2>2. 1 .. 255 \subseteq 0 .. 255
    OBVIOUS
  <2>3. QED
    BY <2>1, <2>2
<1>5. QED
  BY <1>1, <1>3, <1>4, DirectivePrints DEF v

LEMMA CharDirectiveKeeps == ASSUME LogfInv, CharDirective PROVE LogfInv'
<1>. DEFINE v == Head(parameters)
            x == << v % 256 >>
<1>1. Directive(C_) /\ Emit(x) /\ UNCHANGED <<call, pc, n, s, pos, i, uart>> /\ C_ \in Specifiers
  BY DEF CharDirective, local, Specifiers
<1>2. /\ Read' \in Directives(call.format) /\ call.format[Read'] = C_
      /\ v = call.parameters[Taken'] /\ Fits(C_, v) /\ Taken' = Position(call.format, Read')
  BY <1>1, DirectiveStep DEF LogfInv
<1>. HIDE DEF v
<1>3. v \in 0 .. 255
  BY <1>2 DEF Fits, S_, C_
<1>4. x = << v >> /\ x \in Seq(0 .. 255)
  <2>1. v % 256 = v
    BY <1>3
  <2>2. QED
    BY <1>3, <2>1
<1>5. Expected(call, Read') = << v >>
  BY <1>2 DEF Expected, S_, C_, X_, U_
<1>. HIDE DEF x
<1>6. QED
  BY <1>1, <1>4, <1>5, DirectivePrints

LEMMA HexDirectiveKeeps == ASSUME LogfInv, HexDirective PROVE LogfInv'
<1>. DEFINE v == Head(parameters)
            x == << 48, 120 >> \o hexdd(v)
<1>1. Directive(X_) /\ Emit(x) /\ UNCHANGED <<call, pc, n, s, pos, i, uart>> /\ X_ \in Specifiers
  BY DEF HexDirective, local, Specifiers
<1>2. /\ Read' \in Directives(call.format) /\ call.format[Read'] = X_
      /\ v = call.parameters[Taken'] /\ Fits(X_, v) /\ Taken' = Position(call.format, Read')
  BY <1>1, DirectiveStep DEF LogfInv
<1>. HIDE DEF v
<1>3. IsNumber(v)
  BY <1>2 DEF Fits, S_, C_, X_, IsNumber
<1>4. hexdd(v) = Numeral(v, 16, 8, 8) /\ hexdd(v) \in Seq(0 .. 255)
  BY <1>3, HexIs
<1>5. << 48, 120 >> \in Seq(0 .. 255)
  OBVIOUS
<1>6. x \in Seq(0 .. 255)
  BY <1>4, <1>5
<1>7. Expected(call, Read') = << 48, 120 >> \o Numeral(v, 16, 8, 8)
  BY <1>2 DEF Expected, S_, C_, X_, U_
<1>8. Expected(call, Read') = x
  BY <1>4, <1>7
<1>. HIDE DEF x
<1>9. QED
  BY <1>1, <1>6, <1>8, DirectivePrints

LEMMA DecimalKeeps == ASSUME LogfInv, Decimal PROVE LogfInv'
<1>. DEFINE v == Head(parameters)
<1>1. /\ Directive(U_) /\ UNCHANGED <<call, s, i, uart>> /\ U_ \in Specifiers
      /\ rest["task"] = << >> /\ pc = "format"
  BY DEF Decimal, Directive, At, Specifiers
<1>2. IF v = 0 THEN Emit(<< 48 >>) /\ UNCHANGED <<pc, n, pos>>
      ELSE pc' = "divide" /\ n' = v /\ pos' = 0 /\ UNCHANGED rest
  BY DEF Decimal
<1>3. /\ ArgsInv' /\ Read \in Nat /\ Read' = Read + 2
      /\ Read' \in Directives(call.format) /\ call.format[Read'] = U_
      /\ v = call.parameters[Taken'] /\ Fits(U_, v) /\ Taken' = Position(call.format, Read')
      /\ Text(call, Read + 1) = Text(call, Read)
  BY <1>1, DirectiveStep DEF LogfInv
<1>. HIDE DEF v
<1>4. IsNumber(v)
  BY <1>3 DEF Fits, S_, C_, U_, IsNumber
<1>5. CASE v = 0
  <2>1. Expected(call, Read') = Numeral(v, 10, 1, 10)
    BY <1>3 DEF Expected, S_, C_, X_, U_
  <2>2. Expected(call, Read') = << 48 >>
    BY <1>5, <2>1, ZeroIs
  <2>3. << 48 >> \in Seq(0 .. 255)
    OBVIOUS
  <2>4. Emit(<< 48 >>) /\ UNCHANGED <<call, pc, n, s, pos, i, uart>>
    BY <1>1, <1>2, <1>5
  <2>5. QED
    BY <1>1, <2>2, <2>3, <2>4, DirectivePrints
<1>6. CASE v # 0
  <2>1. pc' = "divide" /\ n' = v /\ pos' = 0 /\ UNCHANGED <<call, s, i, rest, uart>>
    BY <1>1, <1>2, <1>6
  <2>2. v \in Nat /\ v = v \div Power(10)[0]
    BY <1>4, AtMostTenDigits DEF IsNumber
  <2>3. Dividing(v, n', pos', s')
    <3>1. 0 .. 0 - 1 = {}
      OBVIOUS
    <3>2. QED
      BY <2>1, <2>2, <3>1 DEF Dividing
  <2>4. NumberInv'
    <3>1. call.parameters[Taken'] = v /\ call' = call /\ ~ (pos' > 0) /\ 0 \in 0 .. 10
      BY <1>3, <2>1
    <3>2. QED
      BY <1>3, <1>4, <1>6, <2>1, <2>2, <2>3, <3>1 DEF LogfInv, NumberInv
  <2>5. Printed = Read /\ Printed' = Read + 1
    BY <1>1, <1>3, <2>1 DEF Printed
  <2>6. PrintInv' /\ UartInv'
    BY <1>3, <2>1, <2>5, NotEmitted DEF LogfInv
  <2>7. QED
    BY <1>3, <2>1, <2>4, <2>6 DEF LogfInv
<1>7. QED
  BY <1>5, <1>6

LEMMA ArgsKept ==
  ASSUME ArgsInv, UNCHANGED <<call, args>>
  PROVE  ArgsInv' /\ Read' = Read /\ Taken' = Taken
<1>1. Read' = Read
  BY DEF Read, args
<1>2. Taken' = Taken
  BY <1>1 DEF Taken
<1>3. Values(call)' = Values(call)
  BY DEF Values
<1>4. QED
  BY <1>1, <1>2, <1>3 DEF ArgsInv, args

LEMMA DivideKeeps == ASSUME LogfInv, Divide PROVE LogfInv'
<1>. DEFINE v == call.parameters[Taken]
<1>1. /\ pc = "divide" /\ n > 0 /\ s' = [s EXCEPT ![pos] = (n % 10) + 48]
      /\ n' = n \div 10 /\ pos' = pos + 1
      /\ UNCHANGED <<call, args, pc, i, rest, uart>>
  BY DEF Divide, At
<1>2. ArgsInv' /\ Read' = Read /\ Taken' = Taken
  BY <1>1, ArgsKept DEF LogfInv
<1>3. /\ IsNumber(v) /\ v # 0 /\ Read \in Directives(call.format) /\ call.format[Read] = U_
      /\ Dividing(v, n, pos, s) /\ pos \in 0 .. 10 /\ i \in 0 .. 10 /\ n \in Nat
      /\ s \in [0 .. BUFFER - 1 -> 0 .. 255]
  BY <1>1 DEF LogfInv, NumberInv
<1>4. call'.parameters[Taken'] = v
  BY <1>1, <1>2
<1>. HIDE DEF v
<1>5. n = v \div Power(10)[pos]
  BY <1>3 DEF Dividing
<1>6. pos \in 0 .. 9
  <2>1. pos # 10
    BY <1>1, <1>3, <1>5, AtMostTenDigits
  <2>2. QED
    BY <1>3, <2>1
<1>7. n' = v \div Power(10)[pos + 1] /\ n' \in Nat
  <2>1. (v \div Power(10)[pos]) \div 10 = v \div Power(10)[pos + 1]
    BY <1>3, <1>6, Division
  <2>2. n \div 10 \in Nat /\ n' = n \div 10
    BY <1>1, <1>3
  <2>3. QED
    BY <1>5, <2>1, <2>2
<1>8. DigitAt(v, pos) = (n % 10) + 48 /\ DigitAt(v, pos) \in 48 .. 57
  BY <1>3, <1>5, DigitIs
<1>9. pos \in 0 .. BUFFER - 1
  BY <1>6, LoggerAssumption
<1>10. s' = [s EXCEPT ![pos] = DigitAt(v, pos)]
  BY <1>1, <1>8
<1>11. s' \in [0 .. BUFFER - 1 -> 0 .. 255]
  <2>1. DigitAt(v, pos) \in 0 .. 255
    BY <1>8
  <2>2. QED
    BY <1>3, <1>9, <1>10, <2>1
<1>12. ASSUME NEW p \in 0 .. pos' - 1 PROVE s'[p] = DigitAt(v, p)
  <2>1. p \in 0 .. BUFFER - 1 /\ (p = pos \/ p \in 0 .. pos - 1)
    BY <1>1, <1>6, LoggerAssumption
  <2>2. CASE p = pos
    BY <1>3, <1>10, <2>1, <2>2
  <2>3. CASE p \in 0 .. pos - 1
    <3>1. p # pos
      BY <1>6, <2>3
    <3>2. QED
      BY <1>3, <1>10, <2>1, <2>3, <3>1 DEF Dividing
  <2>4. QED
    BY <2>1, <2>2, <2>3
<1>13. Dividing(v, n', pos', s')
  BY <1>1, <1>7, <1>12 DEF Dividing
<1>14. pos' \in 0 .. 10 /\ pos' - 1 = pos
  BY <1>1, <1>6
<1>15. NumberInv'
  <2>1. v \div Power(10)[pos' - 1] > 0
    BY <1>1, <1>5, <1>14
  <2>2. QED
    BY <1>1, <1>2, <1>3, <1>4, <1>7, <1>11, <1>13, <1>14, <2>1 DEF NumberInv
<1>16. PrintInv' /\ UartInv'
  BY <1>1, <1>2, NotEmitted DEF LogfInv, Printed
<1>17. QED
  BY <1>1, <1>2, <1>15, <1>16 DEF LogfInv

LEMMA TerminateKeeps == ASSUME LogfInv, Terminate PROVE LogfInv'
<1>. DEFINE v == call.parameters[Taken]
<1>1. /\ pc = "divide" /\ n = 0 /\ s' = [s EXCEPT ![pos] = 0] /\ pc' = "reverse" /\ i' = 0
      /\ UNCHANGED <<call, args, n, pos, rest, uart>>
  BY DEF Terminate, At
<1>2. ArgsInv' /\ Read' = Read /\ Taken' = Taken
  BY <1>1, ArgsKept DEF LogfInv
<1>3. /\ IsNumber(v) /\ v # 0 /\ Read \in Directives(call.format) /\ call.format[Read] = U_
      /\ Dividing(v, n, pos, s) /\ pos \in 0 .. 10 /\ n \in Nat
      /\ pos > 0 => v \div Power(10)[pos - 1] > 0
      /\ s \in [0 .. BUFFER - 1 -> 0 .. 255]
  BY <1>1 DEF LogfInv, NumberInv
<1>4. call'.parameters[Taken'] = v
  BY <1>1, <1>2
<1>. HIDE DEF v
<1>5. v \div Power(10)[pos] = 0
  BY <1>1, <1>3 DEF Dividing
<1>6. pos > 0
  <2>1. pos # 0
    BY <1>3, <1>5, AtMostTenDigits
  <2>2. QED
    BY <1>3, <2>1
<1>7. pos \in 0 .. BUFFER - 1 /\ 0 \in 0 .. 255
  BY <1>3, LoggerAssumption
<1>8. s' \in [0 .. BUFFER - 1 -> 0 .. 255] /\ s'[pos] = 0
  BY <1>1, <1>3, <1>7
<1>9. ASSUME NEW p \in 0 .. pos - 1
      PROVE  s'[p] = DigitAt(v, p) /\ ~ (p < 0 \/ p > pos - 1 - 0)
  <2>1. p \in 0 .. BUFFER - 1 /\ p # pos /\ ~ (p < 0 \/ p > pos - 1 - 0)
    <3>1. pos \in Nat /\ pos < BUFFER /\ BUFFER \in Nat
      BY <1>3, LoggerAssumption
    <3>2. QED
      BY <3>1
  <2>2. s'[p] = s[p] /\ s[p] = DigitAt(v, p)
    BY <1>1, <1>3, <2>1 DEF Dividing
  <2>3. QED
    BY <2>1, <2>2
<1>10. 0 \in 0 .. pos \div 2
  BY <1>3
<1>11. Reversing(v, i', pos', s')
  BY <1>1, <1>5, <1>6, <1>8, <1>9, <1>10 DEF Reversing
<1>12. NumberInv'
  <2>1. i' \in 0 .. 10
    BY <1>1
  <2>2. QED
    BY <1>1, <1>2, <1>3, <1>4, <1>8, <1>11, <2>1 DEF NumberInv
<1>13. PrintInv' /\ UartInv'
  BY <1>1, <1>2, NotEmitted DEF LogfInv, Printed
<1>14. QED
  BY <1>1, <1>2, <1>12, <1>13 DEF LogfInv

\* While it is reversed, the buffer holds the digits up to its zero.
LEMMA ReversingStrlen ==
  ASSUME NEW v, IsNumber(v), NEW str \in [0 .. BUFFER - 1 -> 0 .. 255], NEW k, NEW l \in 0 .. 10,
         Reversing(v, k, l, str)
  PROVE  strlen(str) = l
<1>1. l \in Nat /\ l < BUFFER /\ BUFFER \in Nat
  BY LoggerAssumption
<1>2. ASSUME NEW p \in 0 .. l - 1 PROVE str[p] # 0
  <2>. DEFINE m == IF p < k \/ p > l - 1 - k THEN l - 1 - p ELSE p
  <2>1. m \in 0 .. 10 /\ str[p] = DigitAt(v, m)
    BY <1>1 DEF Reversing
  <2>. HIDE DEF m
  <2>2. str[p] \in 48 .. 57
    <3>1. DigitAt(v, m) \in 48 .. 57
      BY <2>1, DigitIs
    <3>2. QED
      BY <2>1, <3>1
  <2>3. QED
    BY <2>2
<1>3. str[l] = 0 /\ l \in 0 .. BUFFER - 1
  BY <1>1 DEF Reversing
<1>4. QED
  BY <1>2, <1>3, StrlenIs

LEMMA SwapKeeps == ASSUME LogfInv, Swap PROVE LogfInv'
<1>. DEFINE v == call.parameters[Taken]
            l == pos
            a == i
            b == l - 1 - a
            D(k, p) == DigitAt(v, IF p < k \/ p > l - 1 - k THEN l - 1 - p ELSE p)
<1>1. /\ pc = "reverse" /\ i < strlen(s) \div 2
      /\ s' = [s EXCEPT ![i] = s[last(strlen(s))], ![last(strlen(s))] = s[i]]
      /\ i' = i + 1 /\ UNCHANGED <<call, args, pc, n, pos, rest, uart>>
  BY DEF Swap, At
<1>2. ArgsInv' /\ Read' = Read /\ Taken' = Taken
  BY <1>1, ArgsKept DEF LogfInv
<1>3. /\ IsNumber(v) /\ v # 0 /\ Read \in Directives(call.format) /\ call.format[Read] = U_
      /\ Reversing(v, i, pos, s) /\ pos \in 0 .. 10 /\ n \in Nat
      /\ pos > 0 => v \div Power(10)[pos - 1] > 0
      /\ s \in [0 .. BUFFER - 1 -> 0 .. 255]
  BY <1>1 DEF LogfInv, NumberInv
<1>4. call'.parameters[Taken'] = v
  BY <1>1, <1>2
<1>. HIDE DEF v
<1>5. strlen(s) = l
  BY <1>3, ReversingStrlen
<1>6. /\ l \in Nat /\ l > 0 /\ l < BUFFER /\ l <= 10 /\ BUFFER \in Nat
      /\ a \in Nat /\ a < l \div 2 /\ s[l] = 0
  BY <1>1, <1>3, <1>5, LoggerAssumption DEF Reversing
<1>7. s' = [s EXCEPT ![a] = s[b], ![b] = s[a]]
  BY <1>1, <1>5 DEF last
<1>8. \A p \in 0 .. l - 1 : s[p] = D(a, p)
  BY <1>3 DEF Reversing
<1>9. l' = l /\ i' = a + 1
  BY <1>1
<1>. HIDE DEF l, a
<1>10. /\ a \in 0 .. l - 1 /\ b \in 0 .. l - 1 /\ a < b
       /\ a \in 0 .. BUFFER - 1 /\ b \in 0 .. BUFFER - 1 /\ l - 1 - b = a
       /\ ~ (b < a \/ b > l - 1 - a) /\ ~ (a < a \/ a > l - 1 - a)
       /\ a + 1 \in 0 .. l \div 2 /\ a + 1 \in 0 .. 10 /\ l # a /\ l # b
       /\ l \in 0 .. BUFFER - 1
  BY <1>6
<1>11. s[a] = DigitAt(v, a) /\ s[b] = DigitAt(v, b)
  <2>. HIDE DEF b
  <2>1. s[a] = D(a, a) /\ s[b] = D(a, b)
    BY <1>8, <1>10
  <2>2. D(a, a) = DigitAt(v, a) /\ D(a, b) = DigitAt(v, b)
    BY <1>10
  <2>3. QED
    BY <2>1, <2>2
<1>12. s' \in [0 .. BUFFER - 1 -> 0 .. 255] /\ s'[l] = 0 /\ s'[a] = s[b] /\ s'[b] = s[a]
  <2>. HIDE DEF b
  <2>1. s[a] \in 0 .. 255 /\ s[b] \in 0 .. 255
    BY <1>3, <1>10
  <2>2. a # b /\ l # a /\ l # b /\ s[l] = 0
    BY <1>6, <1>10
  <2>3. a \in 0 .. BUFFER - 1 /\ b \in 0 .. BUFFER - 1 /\ l \in 0 .. BUFFER - 1
    BY <1>10
  <2>4. s' \in [0 .. BUFFER - 1 -> 0 .. 255]
    BY <1>3, <1>7, <2>1
  <2>5. s'[l] = 0
    BY <1>3, <1>7, <2>2, <2>3
  <2>6. s'[a] = s[b] /\ s'[b] = s[a]
    BY <1>3, <1>7, <2>2, <2>3
  <2>7. QED
    BY <2>4, <2>5, <2>6
<1>13. ASSUME NEW p \in 0 .. l - 1 PROVE s'[p] = D(a + 1, p)
  <2>1. CASE p = a
    <3>1. p < a + 1 /\ l - 1 - p = b
      BY <2>1, <1>10
    <3>2. D(a + 1, p) = DigitAt(v, b)
      BY <3>1
    <3>. HIDE DEF b, D
    <3>3. QED
      BY <1>11, <1>12, <2>1, <3>2
  <2>2. CASE p = b
    <3>1. p > l - 1 - (a + 1) /\ l - 1 - p = a
      BY <1>6, <1>10, <2>2
    <3>2. D(a + 1, p) = DigitAt(v, a)
      BY <3>1
    <3>. HIDE DEF b, D
    <3>3. QED
      BY <1>11, <1>12, <2>2, <3>2
  <2>3. CASE p # a /\ p # b
    <3>1. (p < a + 1 <=> p < a) /\ (p > l - 1 - (a + 1) <=> p > l - 1 - a)
      BY <1>6, <2>3
    <3>2. D(a + 1, p) = D(a, p)
      BY <3>1
    <3>3. s'[p] = s[p]
      <4>1. p \in 0 .. BUFFER - 1
        BY <1>6
      <4>. HIDE DEF b
      <4>2. QED
        BY <1>3, <1>7, <2>3, <4>1
    <3>. HIDE DEF b, D
    <3>4. QED
      BY <1>8, <3>2, <3>3
  <2>4. QED
    BY <2>1, <2>2, <2>3
<1>14. Reversing(v, i', pos', s')
  <2>1. v \div Power(10)[l] = 0
    BY <1>3 DEF Reversing, l
  <2>2. Reversing(v, a + 1, l, s')
    BY <1>6, <1>10, <1>12, <1>13, <2>1 DEF Reversing
  <2>3. QED
    BY <1>9, <2>2 DEF l
<1>15. NumberInv'
  <2>1. i' \in 0 .. 10
    BY <1>9, <1>10
  <2>2. QED
    BY <1>1, <1>2, <1>3, <1>4, <1>12, <1>14, <2>1 DEF NumberInv
<1>16. PrintInv' /\ UartInv'
  BY <1>1, <1>2, NotEmitted DEF LogfInv, Printed
<1>17. QED
  BY <1>1, <1>2, <1>15, <1>16 DEF LogfInv

LEMMA PrintDecimalKeeps == ASSUME LogfInv, PrintDecimal PROVE LogfInv'
<1>. DEFINE v == call.parameters[Taken]
            k == Read
            l == pos
            x == String(s)
<1>1. /\ rest["task"] = << >> /\ pc = "reverse" /\ i >= strlen(s) \div 2
      /\ Emit(x) /\ pc' = "format"
      /\ UNCHANGED <<call, args, n, s, pos, i, uart>>
  BY DEF PrintDecimal, At, local
<1>2. ArgsInv' /\ Read' = Read /\ Taken' = Taken
  BY <1>1, ArgsKept DEF LogfInv
<1>3. /\ IsNumber(v) /\ v # 0 /\ Read \in Directives(call.format) /\ call.format[Read] = U_
      /\ Reversing(v, i, pos, s) /\ pos \in 0 .. 10
      /\ pos > 0 => v \div Power(10)[pos - 1] > 0
      /\ s \in [0 .. BUFFER - 1 -> 0 .. 255]
  BY <1>1 DEF LogfInv, NumberInv
<1>4. Expected(call, k) = Numeral(v, 10, 1, 10)
  BY <1>3 DEF Expected, Taken, S_, C_, X_, U_
<1>. HIDE DEF v
<1>5. strlen(s) = l
  BY <1>3, ReversingStrlen
<1>6. l \in 1 .. 10 /\ i \in 0 .. l \div 2 /\ i >= l \div 2
  BY <1>1, <1>3, <1>5 DEF Reversing
<1>7. Numeral(v, 10, 1, 10) = [j \in 1 .. l |-> DigitAt(v, l - j)]
  <2>1. v \div Power(10)[l] = 0 /\ v \div Power(10)[l - 1] > 0
    BY <1>3 DEF Reversing
  <2>. HIDE DEF l
  <2>2. QED
    BY <1>3, <1>6, <2>1, DecimalIs
<1>8. ASSUME NEW j \in 1 .. l PROVE s[j - 1] = DigitAt(v, l - j)
  <2>. DEFINE p == j - 1
              m == IF p < i \/ p > l - 1 - i THEN l - 1 - p ELSE p
  <2>1. p \in 0 .. l - 1
    BY <1>6
  <2>2. s[p] = DigitAt(v, m)
    BY <1>3, <2>1 DEF Reversing
  <2>. HIDE DEF l
  <2>3. m = l - j
    <3>1. i = l \div 2
      BY <1>6
    <3>2. QED
      BY <1>6, <3>1
  <2>. HIDE DEF m
  <2>4. QED
    BY <2>2, <2>3
<1>9. x = [j \in 1 .. l |-> s[j - 1]]
  BY <1>5 DEF String
<1>10. x = Numeral(v, 10, 1, 10)
  <2>. HIDE DEF l, x
  <2>1. QED
    BY <1>7, <1>8, <1>9
<1>11. x \in Seq(0 .. 255)
  BY <1>3, <1>10, DecimalType
<1>12. /\ call \in Calls /\ k - 1 \in Nat /\ (k - 1) + 1 = k
       /\ k \in 1 .. Len(call.format) /\ Len(call.format) \in Nat
  <2>1. call \in Calls /\ Len(call.format) \in Nat
    BY CallType DEF LogfInv, ArgsInv
  <2>2. k \in 2 .. Len(call.format)
    BY <1>3 DEF Directives
  <2>. HIDE DEF k
  <2>3. QED
    BY <2>1, <2>2
<1>. HIDE DEF k, x, l
<1>13. Text(call, k - 1) \in Seq(0 .. 255) /\ Text(call, k) = Text(call, k - 1) \o x
  BY <1>4, <1>10, <1>12, TextNext
<1>14. Printed = k - 1 /\ Printed' = k
  BY <1>1, <1>2 DEF Printed, k
<1>15. PrintInv' /\ UartInv'
  BY <1>1, <1>11, <1>13, <1>14, Emitted DEF LogfInv
<1>16. NumberInv'
  BY <1>1, NumberKept DEF LogfInv
<1>17. QED
  BY <1>1, <1>2, <1>15, <1>16 DEF LogfInv

LEMMA ReturnKeeps == ASSUME LogfInv, Return PROVE LogfInv'
<1>1. /\ pc = "format" /\ format = << >> /\ rest["task"] = << >> /\ pc' = "done"
      /\ UNCHANGED <<call, args, n, s, pos, i, rest, uart>>
  BY DEF Return, At, local
<1>2. ArgsInv' /\ Read' = Read /\ Taken' = Taken
  BY <1>1, ArgsKept DEF LogfInv
<1>3. NumberInv'
  BY <1>1, NumberKept DEF LogfInv
<1>4. PrintInv' /\ UartInv'
  BY <1>1, <1>2, NotEmitted DEF LogfInv, Printed
<1>5. QED
  BY <1>1, <1>2, <1>3, <1>4 DEF LogfInv, args

-----------------------------------------------------------------------------
(***************************************************************************)
(* The steps of the UART and of handlers.                                  *)
(***************************************************************************)
LEMMA TaskKept ==
  ASSUME ArgsInv, NumberInv, UNCHANGED task
  PROVE  ArgsInv' /\ NumberInv' /\ Read' = Read /\ Printed' = Printed
<1>1. UNCHANGED <<call, args, pc, n, s, pos, i>>
  BY DEF task, local
<1>2. ArgsInv' /\ Read' = Read /\ Taken' = Taken
  BY <1>1, ArgsKept
<1>3. QED
  BY <1>1, <1>2 DEF NumberInv, Printed

LEMMA TestKeeps == ASSUME LogfInv, Test PROVE LogfInv'
<1>1. /\ ready' = [ready EXCEPT ![mode] = TRUE]
      /\ UNCHANGED <<task, mode, rest, fifo, sent, written, messages>>
  BY DEF Test
<1>2. ArgsInv' /\ NumberInv' /\ Printed' = Printed /\ UNCHANGED <<call, format, pc>>
  BY <1>1, TaskKept DEF LogfInv, task, args
<1>3. UartInv'
  BY <1>1 DEF LogfInv, UartInv
<1>4. PrintInv'
  BY <1>1, <1>2 DEF LogfInv, PrintInv
<1>5. QED
  BY <1>1, <1>2, <1>3, <1>4 DEF LogfInv

LEMMA WriteKeeps == ASSUME LogfInv, Write PROVE LogfInv'
<1>. DEFINE q == rest[mode]
            x == Head(q)
            B == Modes \X (0 .. 255)
<1>1. /\ q # << >> /\ written' = Append(written, x)
      /\ fifo' = IF Len(fifo) < Capacity THEN Append(fifo, x) ELSE fifo
      /\ rest' = [rest EXCEPT ![mode] = Tail(q)] /\ ready' = [ready EXCEPT ![mode] = FALSE]
      /\ UNCHANGED <<task, mode, sent, messages>>
  BY DEF Write
<1>2. /\ ArgsInv' /\ NumberInv' /\ Printed' = Printed /\ UNCHANGED <<call, format, pc>>
  BY <1>1, TaskKept DEF LogfInv, task, args
<1>3. /\ mode \in Modes /\ q \in Seq(B) /\ q \in Seq({mode} \X (0 .. 255)) /\ written \in Seq(B)
      /\ fifo \in Seq(B) /\ rest \in [Modes -> Seq(B)]
      /\ \A m \in Modes : rest[m] \in Seq({m} \X (0 .. 255))
  BY DEF LogfInv, UartInv
<1>. HIDE DEF q, B
<1>4. x \in B /\ x[1] = mode /\ Tail(q) \in Seq(B) /\ Tail(q) \in Seq({mode} \X (0 .. 255))
  <2>1. x \in {mode} \X (0 .. 255)
    BY <1>1, <1>3, HeadType
  <2>2. x[1] = mode
    BY <2>1
  <2>3. QED
    BY <1>1, <1>3, <2>2, HeadType
<1>5. UartInv'
  <2>1. rest' \in [Modes -> Seq(B)]
    BY <1>1, <1>3, <1>4
  <2>2. ASSUME NEW m \in Modes PROVE rest'[m] \in Seq({m} \X (0 .. 255))
    BY <1>1, <1>3, <1>4
  <2>. HIDE DEF x
  <2>3. fifo' \in Seq(B) /\ written' \in Seq(B)
    BY <1>1, <1>3, <1>4
  <2>4. ready' \in [Modes -> BOOLEAN]
    BY <1>1 DEF LogfInv, UartInv
  <2>5. sent' \in Seq(B) /\ messages' \in 0 .. MaxMessages /\ mode' \in Modes
    BY <1>1 DEF LogfInv, UartInv, B
  <2>6. QED
    BY <2>1, <2>2, <2>3, <2>4, <2>5 DEF UartInv, B
<1>6. OfTask(written) \in Seq(B) /\ rest["task"] \in Seq(B)
  BY <1>3, OfTaskType DEF Modes
<1>7. OfTask(written') = IF mode = "task" THEN Append(OfTask(written), x) ELSE OfTask(written)
  BY <1>1, <1>3, <1>4, OfTaskAppend
<1>8. OfTask(written') \o rest'["task"] = OfTask(written) \o rest["task"]
  <2>1. CASE mode = "task"
    <3>1. /\ q = rest["task"] /\ rest'["task"] = Tail(q)
          /\ OfTask(written') = Append(OfTask(written), x)
      BY <1>1, <1>3, <1>7, <2>1 DEF q
    <3>2. IsSeq(OfTask(written)) /\ IsSeq(q)
      BY <1>3, <1>6 DEF IsSeq
    <3>3. Append(OfTask(written), Head(q)) \o Tail(q) = OfTask(written) \o q
      BY <1>1, <3>2, FirstOut
    <3>4. QED
      BY <3>1, <3>3
  <2>2. CASE mode # "task"
    <3>1. rest'["task"] = rest["task"] /\ OfTask(written') = OfTask(written)
      BY <1>1, <1>3, <1>7, <2>2 DEF Modes
    <3>2. QED
      BY <3>1
  <2>3. QED
    BY <2>1, <2>2
<1>9. PrintInv'
  BY <1>2, <1>8 DEF LogfInv, PrintInv
<1>10. pc' = "done" => format' = << >> /\ rest'["task"] = << >>
  <2>1. SUFFICES ASSUME pc' = "done" PROVE format' = << >> /\ rest'["task"] = << >>
    OBVIOUS
  <2>2. pc = "done" /\ format = << >> /\ rest["task"] = << >>
    BY <1>2, <2>1 DEF LogfInv
  <2>3. mode # "task"
    BY <1>1, <2>2 DEF q
  <2>4. rest'["task"] = rest["task"]
    BY <1>1, <1>3, <2>3 DEF Modes
  <2>5. QED
    BY <1>2, <2>2, <2>4
<1>11. QED
  BY <1>2, <1>5, <1>9, <1>10 DEF LogfInv

LEMMA InterruptKeeps == ASSUME LogfInv, Interrupt PROVE LogfInv'
<1>1. PICK length \in HandlerMessages :
         rest' = [rest EXCEPT !["handler"] = Bytes("handler", [k \in 1 .. length |-> k % 256])]
  BY DEF Interrupt
<1>. DEFINE q == [k \in 1 .. length |-> k % 256]
            b == Bytes("handler", q)
<1>2. /\ mode = "task" /\ messages < MaxMessages /\ mode' = "handler" /\ messages' = messages + 1
      /\ UNCHANGED <<task, ready, fifo, sent, written>>
  BY DEF Interrupt
<1>3. ArgsInv' /\ NumberInv' /\ Printed' = Printed /\ UNCHANGED <<call, format, pc>>
  BY <1>2, TaskKept DEF LogfInv, task, args
<1>4. b \in Seq({"handler"} \X (0 .. 255))
  <2>1. length \in Nat
    BY LoggerAssumption
  <2>2. \A k \in 1 .. length : k % 256 \in 0 .. 255
    BY <2>1
  <2>3. q \in Seq(0 .. 255)
    BY <2>1, <2>2
  <2>. HIDE DEF q
  <2>4. QED
    BY <2>3, BytesType
<1>5. rest' = [rest EXCEPT !["handler"] = b]
  BY <1>1
<1>. HIDE DEF b
<1>6. /\ rest' \in [Modes -> Seq(Modes \X (0 .. 255))]
      /\ \A m \in Modes : rest'[m] \in Seq({m} \X (0 .. 255))
      /\ rest'["task"] = rest["task"]
  <2>1. b \in Seq(Modes \X (0 .. 255))
    BY <1>4 DEF Modes
  <2>2. QED
    BY <1>4, <1>5, <2>1 DEF LogfInv, UartInv, Modes
<1>7. messages' \in 0 .. MaxMessages
  BY <1>2, LoggerAssumption DEF LogfInv, UartInv
<1>8. UartInv'
  BY <1>2, <1>6, <1>7 DEF LogfInv, UartInv, Modes
<1>9. PrintInv'
  BY <1>2, <1>3, <1>6 DEF LogfInv, PrintInv
<1>10. QED
  BY <1>2, <1>3, <1>6, <1>8, <1>9 DEF LogfInv

LEMMA IretKeeps == ASSUME LogfInv, Iret PROVE LogfInv'
<1>1. mode' = "task" /\ UNCHANGED <<task, rest, ready, fifo, sent, written, messages>>
  BY DEF Iret
<1>2. ArgsInv' /\ NumberInv' /\ Printed' = Printed /\ UNCHANGED <<call, format, pc>>
  BY <1>1, TaskKept DEF LogfInv, task, args
<1>3. UartInv'
  BY <1>1 DEF LogfInv, UartInv, Modes
<1>4. PrintInv'
  BY <1>1, <1>2 DEF LogfInv, PrintInv
<1>5. QED
  BY <1>1, <1>2, <1>3, <1>4 DEF LogfInv

LEMMA TransmitKeeps == ASSUME LogfInv, Transmit PROVE LogfInv'
<1>1. /\ fifo # << >> /\ sent' = Append(sent, Head(fifo)) /\ fifo' = Tail(fifo)
      /\ UNCHANGED <<task, mode, rest, ready, written, messages>>
  BY DEF Transmit
<1>2. ArgsInv' /\ NumberInv' /\ Printed' = Printed /\ UNCHANGED <<call, format, pc>>
  BY <1>1, TaskKept DEF LogfInv, task, args
<1>3. sent' \in Seq(Modes \X (0 .. 255)) /\ fifo' \in Seq(Modes \X (0 .. 255))
  BY <1>1, HeadType DEF LogfInv, UartInv
<1>4. UartInv'
  BY <1>1, <1>3 DEF LogfInv, UartInv
<1>5. PrintInv'
  BY <1>1, <1>2 DEF LogfInv, PrintInv
<1>6. QED
  BY <1>1, <1>2, <1>4, <1>5 DEF LogfInv

LEMMA StutterKeeps == ASSUME LogfInv, UNCHANGED vars PROVE LogfInv'
<1>1. UNCHANGED <<task, rest, mode, ready, fifo, sent, written, messages>>
  BY DEF vars, uart
<1>2. ArgsInv' /\ NumberInv' /\ Printed' = Printed /\ UNCHANGED <<call, format, pc>>
  BY <1>1, TaskKept DEF LogfInv, task, args
<1>3. UartInv'
  BY <1>1 DEF LogfInv, UartInv
<1>4. PrintInv'
  BY <1>1, <1>2 DEF LogfInv, PrintInv
<1>5. QED
  BY <1>1, <1>2, <1>3, <1>4 DEF LogfInv

LEMMA InitLogfInv == Init => LogfInv
<1>. SUFFICES ASSUME Init PROVE LogfInv
  OBVIOUS
<1>1. /\ call \in Calls /\ format = call.format /\ parameters = call.parameters
      /\ pc = "format" /\ n = 0 /\ s = Garbage /\ pos = 0 /\ i = 0
  BY DEF Init
<1>2. /\ format \in Seq(1 .. 255) /\ Len(format) \in Nat /\ parameters \in Seq(Values(call))
      /\ Len(parameters) \in Nat
  BY <1>1, CallType
<1>3. Read = 0
  BY <1>1, <1>2 DEF Read
<1>4. Taken = 0
  BY <1>1, <1>2, <1>3, PositionEnds DEF Taken
<1>5. Suffix(format, call.format, 0) /\ Suffix(parameters, call.parameters, 0)
  BY <1>1, <1>2 DEF Suffix
<1>6. Read + 1 \notin Directives(call.format)
  BY <1>3 DEF Directives
<1>7. ArgsInv
  BY <1>1, <1>2, <1>3, <1>4, <1>5, <1>6 DEF ArgsInv
<1>8. NumberInv
  <2>1. Garbage \in [0 .. BUFFER - 1 -> 0 .. 255]
    BY DEF Garbage
  <2>2. QED
    BY <1>1, <2>1 DEF NumberInv
<1>9. UartInv
  <2>1. \A S : << >> \in Seq(S)
    OBVIOUS
  <2>2. mode = "task" /\ rest = [m \in Modes |-> << >>] /\ ready = [m \in Modes |-> FALSE]
    BY DEF Init
  <2>3. fifo = << >> /\ sent = << >> /\ written = << >> /\ messages = 0
    BY DEF Init
  <2>4. mode \in Modes /\ 0 \in 0 .. MaxMessages
    BY <2>2, LoggerAssumption DEF Modes
  <2>5. QED
    BY <2>1, <2>2, <2>3, <2>4 DEF UartInv
<1>10. PrintInv
  <2>1. Printed = 0 /\ written = << >> /\ rest["task"] = << >>
    BY <1>1, <1>3 DEF Printed, Init, Modes
  <2>2. Text(call, 0) = << >>
    BY TextStart
  <2>3. Bytes("task", << >>) = << >>
    BY DEF Bytes
  <2>4. OfTask(<< >>) = << >>
    <3>1. << >> \in Seq({}) /\ Len(<< >>) = 0
      OBVIOUS
    <3>2. PICK own : Filters(<< >>, own) /\ OfTask(<< >>) = own[Len(<< >>)]
      BY <3>1, OfTaskIs
    <3>3. QED
      BY <3>1, <3>2 DEF Filters
  <2>5. << >> \o << >> = << >>
    OBVIOUS
  <2>6. QED
    BY <2>1, <2>2, <2>3, <2>4, <2>5 DEF PrintInv
<1>11. QED
  BY <1>1, <1>7, <1>8, <1>9, <1>10 DEF LogfInv

THEOREM CallInvariance == Spec => []LogfInv
<1>1. Init => LogfInv
  BY InitLogfInv
<1>2. LogfInv /\ [Next]_vars => LogfInv'
  <2>. SUFFICES ASSUME LogfInv, [Next]_vars PROVE LogfInv'
    OBVIOUS
  <2>1. CASE logf
    BY <2>1, LiteralKeeps, StringDirectiveKeeps, CharDirectiveKeeps, HexDirectiveKeeps,
       UnknownDirectiveKeeps, DecimalKeeps, DivideKeeps, TerminateKeeps, SwapKeeps,
       PrintDecimalKeeps, ReturnKeeps DEF logf
  <2>2. CASE UNCHANGED vars \/ Stall \/ Done
    BY <2>2, StutterKeeps DEF Stall, Done
  <2>3. QED
    BY <2>1, <2>2, TestKeeps, WriteKeeps, InterruptKeeps, IretKeeps, TransmitKeeps
    DEF Next, Cpu
<1>3. QED
  BY <1>1, <1>2, PTL DEF Spec

\* The type of every variable: the arguments are used up from the front, and the ten
\* digits of a number with the zero behind them fit in the buffer of
\* print_serial_unsigned_decimal.
THEOREM TypeCorrect == Spec => []TypeOK
<1>1. LogfInv /\ IInv => TypeOK
  <2>. SUFFICES ASSUME LogfInv, IInv PROVE TypeOK
    OBVIOUS
  <2>1. /\ call \in Calls /\ Len(call.format) \in Nat /\ Len(call.parameters) \in Nat
        /\ format \in Seq(1 .. 255) /\ Read \in Nat /\ parameters \in Seq(Values(call))
        /\ Suffix(parameters, call.parameters, Taken)
    BY CallType DEF LogfInv, ArgsInv
  <2>2. Len(format) <= Len(call.format)
    BY <2>1 DEF Read
  <2>3. Len(parameters) <= Len(call.parameters)
    <3>1. Taken \in Nat
      BY <2>1, PositionNext DEF Taken
    <3>2. Len(parameters) = Len(call.parameters) - Taken
      BY <2>1 DEF Suffix
    <3>3. QED
      BY <2>1, <3>1, <3>2
  <2>4. /\ n \in Nat /\ s \in [0 .. BUFFER - 1 -> 0 .. 255]
        /\ pos \in 0 .. BUFFER - 1 /\ i \in 0 .. BUFFER - 1
    BY LoggerAssumption DEF LogfInv, NumberInv
  <2>5. Len(fifo) <= FIFO
    BY LenType, LoggerAssumption DEF IInv, ReadyInv
  <2>6. QED
    BY <2>1, <2>2, <2>3, <2>4, <2>5 DEF LogfInv, UartInv, TypeOK
<1>2. QED
  BY <1>1, CallInvariance, InductiveInvariant, PTL

\* The task's bytes on the line are what its format says of its parameters, every directive
\* with the parameter of its own, whatever handlers log in between.
THEOREM PrintsWhatIsAsked == Spec => []PrintsParameters
<1>1. LogfInv => PrintsParameters
  <2>. SUFFICES ASSUME LogfInv, pc = "done"
                PROVE  /\ OfTask(written) = Bytes("task", Text(call, Len(call.format)))
                       /\ parameters = << >>
    BY DEF PrintsParameters, Text
  <2>1. format = << >> /\ rest["task"] = << >> /\ Len(format) = 0
    BY DEF LogfInv
  <2>2. /\ call \in Calls /\ Len(call.format) \in Nat /\ Len(call.parameters) \in Nat
        /\ Len(call.parameters) = Cardinality(Directives(call.format))
        /\ parameters \in Seq(Values(call)) /\ Suffix(parameters, call.parameters, Taken)
    BY CallType DEF LogfInv, ArgsInv
  <2>3. Read = Len(call.format)
    BY <2>1, <2>2 DEF Read
  <2>4. OfTask(written) \in Seq(Modes \X (0 .. 255))
    BY OfTaskType DEF LogfInv, UartInv
  <2>5. OfTask(written) \o << >> = OfTask(written)
    BY <2>4
  <2>6. OfTask(written) = Bytes("task", Text(call, Len(call.format)))
    BY <2>1, <2>3, <2>5 DEF LogfInv, PrintInv, Printed
  <2>7. Taken = Len(call.parameters)
    BY <2>2, <2>3, PositionEnds DEF Taken
  <2>8. Len(parameters) = 0
    BY <2>2, <2>7 DEF Suffix
  <2>9. QED
    BY <2>2, <2>6, <2>8
<1>2. QED
  BY <1>1, CallInvariance, PTL
=============================================================================
