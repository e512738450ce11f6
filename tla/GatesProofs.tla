----------------------------- MODULE GatesProofs -----------------------------
(***************************************************************************)
(* Proofs about the gates and the stubs, wherever the linker puts the      *)
(* stubs and whatever state of the CPU is interrupted: a handler finds     *)
(* that state in its context_t, runs in ring 0 with interrupts disabled,   *)
(* and the interrupted code does not notice.                               *)
(***************************************************************************)
EXTENDS Gates, SequenceTheorems, TLAPS

-----------------------------------------------------------------------------
(***************************************************************************)
(* Stacks.                                                                 *)
(***************************************************************************)

\* The stack st has n words above the stack s.
Above(st, n, s) ==
    /\ st \in Seq(Nat)
    /\ s \in Seq(Nat)
    /\ Len(st) = n + Len(s)
    /\ \A i \in 1 .. Len(s) : st[n + i] = s[i]

\* new is st with the words of t on top.
Pushed(new, t, st) ==
    /\ new \in Seq(Nat)
    /\ Len(new) = Len(t) + Len(st)
    /\ \A i \in 1 .. Len(t) : new[i] = t[i]
    /\ \A i \in 1 .. Len(st) : new[Len(t) + i] = st[i]

LEMMA Push ==
  ASSUME NEW t \in Seq(Nat), NEW st \in Seq(Nat), NEW new, new = t \o st
  PROVE  Pushed(new, t, st)
<1>1. /\ new \in Seq(Nat) /\ Len(new) = Len(t) + Len(st)
      /\ \A i \in 1 .. Len(t) + Len(st) : new[i] = IF i <= Len(t) THEN t[i] ELSE st[i - Len(t)]
  BY ConcatProperties
<1>2. Len(t) \in Nat /\ Len(st) \in Nat
  BY LenProperties
<1>3. \A i \in 1 .. Len(t) : new[i] = t[i]
  BY <1>1, <1>2
<1>4. ASSUME NEW i \in 1 .. Len(st) PROVE new[Len(t) + i] = st[i]
  <2>1. /\ Len(t) + i \in 1 .. Len(t) + Len(st) /\ ~ (Len(t) + i <= Len(t))
        /\ (Len(t) + i) - Len(t) = i
    BY <1>2
  <2>2. QED
    BY <1>1, <2>1
<1>5. QED
  BY <1>1, <1>3, <1>4 DEF Pushed

\* Words are pushed on what is above s.
LEMMA PushAbove ==
  ASSUME NEW t \in Seq(Nat), NEW st, NEW n \in Nat, NEW s, Above(st, n, s),
         NEW new, Pushed(new, t, st)
  PROVE  Above(new, Len(t) + n, s)
<1>1. /\ st \in Seq(Nat) /\ s \in Seq(Nat) /\ Len(st) = n + Len(s) /\ Len(s) \in Nat
      /\ Len(t) \in Nat
  BY LenProperties DEF Above
<1>2. ASSUME NEW i \in 1 .. Len(s) PROVE new[(Len(t) + n) + i] = s[i]
  <2>1. n + i \in 1 .. Len(st) /\ Len(t) + (n + i) = (Len(t) + n) + i
    BY <1>1
  <2>2. new[Len(t) + (n + i)] = st[n + i]
    BY <2>1 DEF Pushed
  <2>3. st[n + i] = s[i]
    BY DEF Above
  <2>4. QED
    BY <2>1, <2>2, <2>3
<1>3. Len(new) = (Len(t) + n) + Len(s) /\ new \in Seq(Nat)
  BY <1>1 DEF Pushed
<1>4. QED
  BY <1>1, <1>2, <1>3 DEF Above

\* new is what is left of st without its m topmost words, with k words above s.
Dropped(new, st, m, k, s) ==
    /\ Above(new, k, s)
    /\ \A i \in 1 .. k : new[i] = st[m + i]

LEMMA Drop ==
  ASSUME NEW st, NEW m \in Nat, NEW k \in Nat, NEW s, Above(st, m + k, s),
         NEW new, new = SubSeq(st, m + 1, Len(st))
  PROVE  Dropped(new, st, m, k, s)
<1> DEFINE n == m + k
<1>0. n \in Nat /\ n - m = k /\ m <= n
  OBVIOUS
<1>10. Above(st, n, s)
  OBVIOUS
<1> HIDE DEF n
<1>1. /\ st \in Seq(Nat) /\ s \in Seq(Nat) /\ Len(st) = n + Len(s) /\ Len(s) \in Nat
      /\ Len(st) \in Nat
  BY <1>0, <1>10, LenProperties DEF Above
<1>2. \A i \in m + 1 .. Len(st) : st[i] \in Nat
  <2>1. \A i \in m + 1 .. Len(st) : i \in 1 .. Len(st)
    BY <1>0, <1>1
  <2>2. QED
    BY <1>1, <2>1, ElementOfSeq
<1>3. /\ new \in Seq(Nat)
      /\ Len(new) = IF m + 1 <= Len(st) THEN Len(st) - (m + 1) + 1 ELSE 0
      /\ \A i \in 1 .. Len(st) - (m + 1) + 1 : new[i] = st[(m + 1) + i - 1]
  BY <1>0, <1>1, <1>2, SubSeqProperties
<1>4. Len(new) = (n - m) + Len(s)
  BY <1>0, <1>1, <1>3
<1>5. \A i \in 1 .. Len(st) - m : new[i] = st[m + i]
  <2>1. ASSUME NEW i \in 1 .. Len(st) - m PROVE new[i] = st[m + i]
    <3>1. i \in 1 .. Len(st) - (m + 1) + 1 /\ (m + 1) + i - 1 = m + i
      BY <1>0, <1>1
    <3>2. QED
      BY <1>3, <3>1
  <2>2. QED
    BY <2>1
<1>6. ASSUME NEW i \in 1 .. Len(s) PROVE new[(n - m) + i] = s[i]
  <2>1. (n - m) + i \in 1 .. Len(st) - m /\ m + ((n - m) + i) = n + i
    BY <1>0, <1>1
  <2>2. new[(n - m) + i] = st[n + i]
    BY <1>5, <2>1
  <2>3. QED
    BY <1>10, <2>2 DEF Above
<1>7. \A i \in 1 .. n - m : new[i] = st[m + i]
  <2>1. \A i \in 1 .. n - m : i \in 1 .. Len(st) - m
    BY <1>0, <1>1
  <2>2. QED
    BY <1>5, <2>1
<1>8. Above(new, n - m, s)
  BY <1>1, <1>3, <1>4, <1>6, Zenon DEF Above
<1>9. QED
  BY <1>0, <1>7, <1>8 DEF Dropped

\* Nothing is above s on s itself.
LEMMA AboveNothing ==
  ASSUME NEW st, NEW s
  PROVE  Above(st, 0, s) <=> st \in Seq(Nat) /\ st = s
<1>1. ASSUME Above(st, 0, s) PROVE st \in Seq(Nat) /\ st = s
  <2>1. /\ st \in Seq(Nat) /\ s \in Seq(Nat) /\ Len(st) = Len(s) /\ Len(s) \in Nat
    BY <1>1, LenProperties DEF Above
  <2>2. \A i \in 1 .. Len(st) : st[i] = s[i]
    BY <1>1, <2>1 DEF Above
  <2>3. QED
    BY <2>1, <2>2, SeqEqual
<1>2. ASSUME st \in Seq(Nat), st = s PROVE Above(st, 0, s)
  BY <1>2, LenProperties DEF Above
<1>3. QED
  BY <1>1, <1>2

-----------------------------------------------------------------------------
(***************************************************************************)
(* The invariant.                                                          *)
(***************************************************************************)

\* What init_gdt and init_idt leave.
Gdt == << gdt_set_gate(Zero, Zero, 0, 0),
          gdt_set_gate(Zero, AllOnes, 154, 207), gdt_set_gate(Zero, AllOnes, 146, 207),
          gdt_set_gate(Zero, AllOnes, 250, 207), gdt_set_gate(Zero, AllOnes, 242, 207) >>

Idt == [v \in 0 .. 47 |-> idt_set_gate(StubAt[Label(v)])]

TablesInv ==
    /\ pc = "boot" => gdt \in {<< >>, Gdt}
    /\ pc # "boot" => gdt = Gdt /\ idt = Idt

\* The registers are those of the interrupted code, but for what a handler may change.
CpuInv ==
    /\ saved \in Interrupted
    /\ pc # "return" => cpu = saved.cpu
    /\ pc = "return" =>
          /\ cpu \in [Registers -> Nat]
          /\ \A r \in Registers \ {"eax", "ecx", "edx"} : cpu[r] = saved.cpu[r]

\* Behind a gate the vector says whose stub runs, with interrupts disabled.
EntryInv ==
    pc \notin {"boot", "run"} =>
        /\ vector \in 0 .. 47
        /\ target = StubAt[Label(vector)]
        /\ iflag = FALSE

ErrorOf(v) == IF v \in ErrorCodes THEN SomeError ELSE 0

\* What iret takes, below the k topmost words.
Return(st, k) ==
    /\ st[k + 1] = saved.cpu.eip
    /\ st[k + 2] = saved.cpu.cs
    /\ st[k + 3] = saved.cpu.eflags

\* What the common stub has pushed: the data segment, pusha.
General(st) ==
    /\ st[1] % 65536 = saved.cpu.ds
    /\ st[2] = saved.cpu.edi /\ st[3] = saved.cpu.esi /\ st[4] = saved.cpu.ebp
    /\ st[6] = saved.cpu.ebx /\ st[7] = saved.cpu.edx /\ st[8] = saved.cpu.ecx
    /\ st[9] = saved.cpu.eax

\* The stack of the interrupted code lies under what the way to the handler has pushed.
StackInv ==
    /\ pc \in {"boot", "run"} => Above(stack, 0, saved.stack)
    /\ pc = "stub" /\ vector \notin ErrorCodes => Above(stack, 3, saved.stack) /\ Return(stack, 0)
    /\ pc = "stub" /\ vector \in ErrorCodes =>
          Above(stack, 4, saved.stack) /\ stack[1] = SomeError /\ Return(stack, 1)
    /\ pc = "common" => /\ Above(stack, 5, saved.stack)
                        /\ stack[1] = vector /\ stack[2] = ErrorOf(vector) /\ Return(stack, 2)
    /\ pc \in {"handler", "return"} =>
          /\ Above(stack, 14, saved.stack)
          /\ General(stack)
          /\ stack[10] = vector /\ stack[11] = ErrorOf(vector) /\ Return(stack, 11)
    /\ pc = "iret" => Above(stack, 3, saved.stack) /\ Return(stack, 0)

ControlInv == pc \in {"boot", "run", "stub", "common", "handler", "return", "iret"}

IInv == ControlInv /\ TablesInv /\ CpuInv /\ EntryInv /\ StackInv

LEMMA SavedState ==
  ASSUME CpuInv
  PROVE  /\ saved.cpu \in [Registers -> Nat] /\ saved.stack \in Seq(Nat)
         /\ saved.cpu.cs = 8 /\ saved.cpu.ds = 16 /\ saved.cpu.es = 16
         /\ saved.cpu.fs = 16 /\ saved.cpu.gs = 16
         /\ saved.cpu.eip \in Nat /\ saved.cpu.eflags \in Nat
         /\ saved.cpu.eax \in Nat /\ saved.cpu.ebx \in Nat /\ saved.cpu.ecx \in Nat
         /\ saved.cpu.edx \in Nat /\ saved.cpu.esi \in Nat /\ saved.cpu.edi \in Nat
         /\ saved.cpu.ebp \in Nat
<1>1. /\ saved.cpu \in [Registers -> Nat] /\ saved.stack \in Seq(Nat)
      /\ saved.cpu.cs = 8 /\ \A r \in {"ds", "es", "fs", "gs"} : saved.cpu[r] = 16
  BY InterruptedAssumption DEF CpuInv
<1>2. \A r \in Registers : saved.cpu[r] \in Nat
  BY <1>1
<1>3. QED
  BY <1>1, <1>2 DEF Registers

-----------------------------------------------------------------------------
LEMMA InitInvariant == Init => IInv
<1> SUFFICES ASSUME Init PROVE IInv
  OBVIOUS
<1>1. CpuInv
  BY DEF Init, CpuInv
<1>2. Above(stack, 0, saved.stack)
  BY <1>1, SavedState, AboveNothing DEF Init
<1>3. QED
  BY <1>1, <1>2 DEF Init, IInv, ControlInv, TablesInv, EntryInv, StackInv

LEMMA InitGdtInvariant == IInv /\ init_gdt => IInv'
<1> SUFFICES ASSUME IInv, init_gdt PROVE IInv'
  OBVIOUS
<1>1. /\ pc = "boot" /\ gdt' = Gdt /\ UNCHANGED <<idt, pc, vector, target, cpu, stack, iflag, saved>>
  BY DEF init_gdt, Gdt
<1>2. QED
  BY <1>1 DEF IInv, ControlInv, TablesInv, CpuInv, EntryInv, StackInv

LEMMA InitIdtInvariant == IInv /\ init_idt => IInv'
<1> SUFFICES ASSUME IInv, init_idt PROVE IInv'
  OBVIOUS
<1>1. /\ pc = "boot" /\ gdt # << >> /\ idt' = Idt /\ pc' = "run"
      /\ UNCHANGED <<gdt, vector, target, cpu, stack, saved>>
  BY DEF init_idt, Idt
<1>2. gdt' = Gdt
  BY <1>1 DEF IInv, TablesInv
<1>3. QED
  BY <1>1, <1>2 DEF IInv, ControlInv, TablesInv, CpuInv, EntryInv, StackInv

LEMMA PairOf ==
  ASSUME NEW S, NEW L, NEW F \in [L -> S \X S], NEW l \in L
  PROVE  << F[l][1], F[l][2] >> = F[l]
<1>1. F[l] \in S \X S
  OBVIOUS
<1> DEFINE a == F[l]
<1>2. a \in S \X S
  BY <1>1
<1> HIDE DEF a
<1>3. << a[1], a[2] >> = a
  BY <1>2
<1>4. QED
  BY <1>3 DEF a

LEMMA GateFields ==
  ASSUME NEW x
  PROVE  /\ idt_set_gate(x).base_hi = x[1] /\ idt_set_gate(x).base_lo = x[2]
         /\ idt_set_gate(x).sel = 8 /\ idt_set_gate(x).flags = 142
BY DEF idt_set_gate

\* The gate of a vector leads to its stub, with interrupts disabled.
LEMMA GateOf ==
  ASSUME NEW v \in 0 .. 47
  PROVE  /\ Label(v) \in Labels
         /\ << Idt[v].base_hi, Idt[v].base_lo >> = StubAt[Label(v)]
         /\ Idt[v].sel = 8 /\ Idt[v].flags = 142
<1>1. Label(v) \in Labels
  BY DEF Label, Labels
<1>2. << StubAt[Label(v)][1], StubAt[Label(v)][2] >> = StubAt[Label(v)]
  BY <1>1, LinkerAssumption, PairOf
<1>3. Idt[v] = idt_set_gate(StubAt[Label(v)])
  BY DEF Idt
<1>4. /\ Idt[v].base_hi = StubAt[Label(v)][1] /\ Idt[v].base_lo = StubAt[Label(v)][2]
      /\ Idt[v].sel = 8 /\ Idt[v].flags = 142
  <2> DEFINE g == idt_set_gate(StubAt[Label(v)])
  <2>1. /\ g.base_hi = StubAt[Label(v)][1] /\ g.base_lo = StubAt[Label(v)][2]
        /\ g.sel = 8 /\ g.flags = 142
    BY GateFields
  <2>2. Idt[v] = g
    BY <1>3
  <2> HIDE DEF g
  <2>3. QED
    BY <2>1, <2>2
<1>5. << Idt[v].base_hi, Idt[v].base_lo >> = << StubAt[Label(v)][1], StubAt[Label(v)][2] >>
  BY <1>4
<1>6. QED
  BY <1>1, <1>2, <1>4, <1>5

LEMMA InterruptInvariant ==
  ASSUME IInv, NEW v \in 0 .. 47, Interrupt(v)
  PROVE  IInv'
<1>1. ControlInv /\ TablesInv /\ CpuInv /\ EntryInv /\ StackInv
  BY DEF IInv
<1>2. /\ pc = "run" /\ pc' = "stub" /\ vector' = v /\ v \notin {17, 21}
      /\ target' = << idt[v].base_hi, idt[v].base_lo >>
      /\ cpu' = [cpu EXCEPT !.cs = idt[v].sel]
      /\ iflag' = (idt[v].flags % 16 = 15)
      /\ UNCHANGED <<gdt, idt, saved>>
  BY DEF Interrupt, tables
<1>3. gdt = Gdt /\ idt = Idt /\ cpu = saved.cpu /\ stack = saved.stack /\ stack \in Seq(Nat)
  BY <1>1, <1>2, AboveNothing DEF TablesInv, CpuInv, StackInv
<1>4. TablesInv' /\ ControlInv'
  BY <1>2, <1>3 DEF TablesInv, ControlInv
<1>5. CpuInv'
  <2>1. cpu' = cpu
    BY <1>1, <1>2, <1>3, GateOf, SavedState
  <2>2. QED
    BY <1>1, <1>2, <1>3, <2>1 DEF CpuInv
<1>6. EntryInv'
  <2>1. target' = StubAt[Label(v)] /\ iflag' = FALSE
    <3>1. /\ << Idt[v].base_hi, Idt[v].base_lo >> = StubAt[Label(v)]
          /\ Idt[v].flags = 142
      BY GateOf
    <3>2. target' = StubAt[Label(v)]
      BY <1>2, <1>3, <3>1, Zenon
    <3>3. 142 % 16 # 15
      OBVIOUS
    <3>4. iflag' = FALSE
      BY <1>2, <1>3, <3>1, <3>3, Zenon
    <3>5. QED
      BY <3>2, <3>4
  <2>2. QED
    BY <1>2, <2>1 DEF EntryInv
<1>7. StackInv'
  <2> DEFINE three == << cpu.eip, cpu.cs, cpu.eflags >>
             e == IF v \in ErrorCodes THEN << SomeError >> ELSE << >>
  <2>1. /\ three \in Seq(Nat) /\ Len(three) = 3
        /\ three[1] = saved.cpu.eip /\ three[2] = saved.cpu.cs /\ three[3] = saved.cpu.eflags
    <3>1. cpu.eip \in Nat /\ cpu.cs \in Nat /\ cpu.eflags \in Nat
      <4>1. saved.cpu.eip \in Nat /\ saved.cpu.cs = 8 /\ saved.cpu.eflags \in Nat
        BY <1>1, SavedState, Zenon
      <4>2. cpu = saved.cpu
        BY <1>3
      <4>3. QED
        BY <4>1, <4>2
    <3>2. three \in Seq(Nat)
      BY <3>1
    <3>3. QED
      BY <1>3, <3>2
  <2>2. /\ e \in Seq(Nat) /\ Len(e) = IF v \in ErrorCodes THEN 1 ELSE 0
        /\ v \in ErrorCodes => e[1] = SomeError
    BY DEF SomeError
  <2>3. stack' = e \o three \o stack
    BY DEF Interrupt
  <2> HIDE DEF three, e
  <2> DEFINE t == e \o three
  <2>4. /\ t \in Seq(Nat) /\ Len(t) = Len(e) + 3
        /\ \A i \in 1 .. Len(e) : t[i] = e[i]
        /\ \A i \in 1 .. 3 : t[Len(e) + i] = three[i]
    <3>1. Pushed(t, e, three)
      BY <2>1, <2>2, Push
    <3>2. QED
      BY <2>1, <3>1 DEF Pushed
  <2> HIDE DEF t
  <2>5. stack' = t \o stack
    BY <2>3 DEF t
  <2>6. Pushed(stack', t, stack)
    BY <1>3, <2>4, <2>5, Push
  <2>7. Above(stack', Len(t), saved.stack)
    <3>1. Above(stack, 0, saved.stack)
      BY <1>1, <1>2 DEF StackInv
    <3>2. Above(stack', Len(t) + 0, saved.stack)
      BY <2>4, <2>6, <3>1, PushAbove
    <3>3. Len(t) + 0 = Len(t)
      BY <2>1, <2>2, <2>4
    <3>4. QED
      BY <3>2, <3>3
  <2>8. \A i \in 1 .. Len(t) : stack'[i] = t[i]
    BY <2>6 DEF Pushed
  <2>9. CASE v \notin ErrorCodes
    <3>1. Len(e) = 0 /\ Len(t) = 3
      BY <2>2, <2>4, <2>9
    <3>2. stack'[1] = three[1] /\ stack'[2] = three[2] /\ stack'[3] = three[3]
      BY <2>4, <2>8, <3>1
    <3>3. Return(stack, 0)'
      BY <1>2, <2>1, <3>2 DEF Return
    <3>4. QED
      BY <1>2, <2>7, <2>9, <3>1, <3>3 DEF StackInv
  <2>10. CASE v \in ErrorCodes
    <3>1. Len(e) = 1 /\ Len(t) = 4 /\ e[1] = SomeError
      BY <2>2, <2>4, <2>10
    <3>2. stack'[1] = e[1] /\ stack'[2] = three[1] /\ stack'[3] = three[2] /\ stack'[4] = three[3]
      BY <2>4, <2>8, <3>1
    <3>3. Return(stack, 1)'
      BY <1>2, <2>1, <3>2 DEF Return
    <3>4. QED
      BY <1>2, <2>7, <2>10, <3>1, <3>2, <3>3 DEF StackInv
  <2>11. QED
    BY <2>9, <2>10
<1>8. QED
  BY <1>4, <1>5, <1>6, <1>7 DEF IInv

\* A stub pushes the number of the vector whose gate leads to it.
LEMMA StubInvariant == IInv /\ Stub => IInv'
<1> SUFFICES ASSUME IInv, Stub PROVE IInv'
  OBVIOUS
<1>1. ControlInv /\ TablesInv /\ CpuInv /\ EntryInv /\ StackInv
  BY DEF IInv
<1>2. /\ pc = "stub" /\ pc' = "common" /\ iflag' = FALSE
      /\ UNCHANGED <<gdt, idt, vector, target, cpu, saved>>
  BY DEF Stub, tables
<1>3. /\ vector \in 0 .. 47 /\ target = StubAt[Label(vector)]
      /\ cpu = saved.cpu
  BY <1>1, <1>2 DEF EntryInv, CpuInv
<1> DEFINE e == IF vector \in ErrorCodes THEN << >> ELSE << 0 >>
           one == << vector >>
           t == one \o e
<1>4. stack' = t \o stack
  <2>1. PICK l \in Labels :
          /\ StubAt[l] = target
          /\ stack' = << IF l[1] = "isr" THEN l[2] ELSE 32 + l[2] >>
                      \o (IF l[1] = "isr" /\ l[2] \in ErrorCodes THEN << >> ELSE << 0 >>)
                      \o stack
    BY DEF Stub
  <2>2. Label(vector) \in Labels
    BY <1>3, GateOf
  <2>3. l = Label(vector)
    BY <1>3, <2>1, <2>2, LinkerAssumption, Zenon
  <2>4. /\ (IF l[1] = "isr" THEN l[2] ELSE 32 + l[2]) = vector
        /\ (l[1] = "isr" /\ l[2] \in ErrorCodes) <=> vector \in ErrorCodes
    <3>1. CASE vector < 32
      <4>1. l[1] = "isr" /\ l[2] = vector
        BY <2>3, <3>1 DEF Label
      <4>2. QED
        BY <4>1
    <3>2. CASE ~ (vector < 32)
      <4>1. l[1] = "irq" /\ l[2] = vector - 32
        BY <2>3, <3>2 DEF Label
      <4>2. vector \notin ErrorCodes /\ 32 + (vector - 32) = vector
        BY <1>3, <3>2 DEF ErrorCodes
      <4>3. QED
        BY <4>1, <4>2
    <3>3. QED
      BY <3>1, <3>2
  <2>5. QED
    BY <2>1, <2>4, Zenon
<1>5. /\ e \in Seq(Nat) /\ Len(e) = IF vector \in ErrorCodes THEN 0 ELSE 1
      /\ vector \notin ErrorCodes => e[1] = 0
  OBVIOUS
<1>6. one \in Seq(Nat) /\ Len(one) = 1 /\ one[1] = vector
  BY <1>3
<1>7. stack \in Seq(Nat)
  BY <1>1, <1>2 DEF StackInv, Above
<1> HIDE DEF e, one
<1>8. Pushed(t, one, e)
  BY <1>5, <1>6, Push
<1>9. t \in Seq(Nat) /\ Len(t) = 1 + Len(e) /\ t[1] = vector
  BY <1>6, <1>8 DEF Pushed
<1>10. vector \notin ErrorCodes => t[2] = 0
  <2>1. ASSUME vector \notin ErrorCodes PROVE t[2] = 0
    <3>1. t[1 + 1] = e[1]
      BY <1>5, <1>6, <1>8, <2>1 DEF Pushed
    <3>2. e[1] = 0
      BY <1>5, <2>1, Zenon
    <3>3. 1 + 1 = 2
      OBVIOUS
    <3>4. QED
      BY <3>1, <3>2, <3>3, Zenon
  <2>2. QED
    BY <2>1, Zenon
<1> HIDE DEF t
<1>11. Pushed(stack', t, stack)
  BY <1>4, <1>7, <1>9, Push
<1>12. StackInv'
  <2>1. CASE vector \notin ErrorCodes
    <3>1. Above(stack, 3, saved.stack) /\ Return(stack, 0)
      BY <1>1, <1>2, <2>1 DEF StackInv
    <3>2. Len(t) = 2
      BY <1>5, <1>9, <2>1
    <3>3. Above(stack', 5, saved.stack)
      <4>1. Above(stack', Len(t) + 3, saved.stack)
        BY <1>9, <1>11, <3>1, PushAbove
      <4>2. QED
        BY <3>2, <4>1
    <3>4. Len(stack) >= 3 /\ Len(stack) \in Nat
      BY <3>1, LenProperties DEF Above
    <3>5. /\ stack'[1] = vector /\ stack'[2] = 0
          /\ stack'[3] = stack[1] /\ stack'[4] = stack[2] /\ stack'[5] = stack[3]
      <4>1. stack'[1] = vector /\ stack'[2] = 0
        <5>1. stack'[1] = t[1] /\ stack'[2] = t[2]
          BY <1>11, <3>2 DEF Pushed
        <5>2. QED
          BY <1>9, <1>10, <2>1, <5>1, Zenon
      <4>2. stack'[2 + 1] = stack[1] /\ stack'[2 + 2] = stack[2] /\ stack'[2 + 3] = stack[3]
        BY <1>11, <3>2, <3>4 DEF Pushed
      <4>3. QED
        BY <4>1, <4>2
    <3>6. Return(stack, 2)' /\ ErrorOf(vector) = 0
      BY <1>2, <2>1, <3>1, <3>5 DEF Return, ErrorOf
    <3>7. QED
      BY <1>2, <3>3, <3>5, <3>6 DEF StackInv, ErrorOf
  <2>2. CASE vector \in ErrorCodes
    <3>1. Above(stack, 4, saved.stack) /\ stack[1] = SomeError /\ Return(stack, 1)
      BY <1>1, <1>2, <2>2 DEF StackInv
    <3>2. Len(t) = 1
      BY <1>5, <1>9, <2>2
    <3>3. Above(stack', 5, saved.stack)
      <4>1. Above(stack', Len(t) + 4, saved.stack)
        BY <1>9, <1>11, <3>1, PushAbove
      <4>2. QED
        BY <3>2, <4>1
    <3>4. Len(stack) >= 4 /\ Len(stack) \in Nat
      BY <3>1, LenProperties DEF Above
    <3>5. /\ stack'[1] = vector /\ stack'[2] = SomeError
          /\ stack'[3] = stack[2] /\ stack'[4] = stack[3] /\ stack'[5] = stack[4]
      <4>1. stack'[1] = vector
        BY <1>9, <1>11, <3>2 DEF Pushed
      <4>2. /\ stack'[1 + 1] = stack[1] /\ stack'[1 + 2] = stack[2] /\ stack'[1 + 3] = stack[3]
            /\ stack'[1 + 4] = stack[4]
        BY <1>11, <3>2, <3>4 DEF Pushed
      <4>3. QED
        BY <3>1, <4>1, <4>2
    <3>6. Return(stack, 2)' /\ ErrorOf(vector) = SomeError
      BY <1>2, <2>2, <3>1, <3>5 DEF Return, ErrorOf
    <3>7. QED
      BY <1>2, <3>3, <3>5, <3>6 DEF StackInv, ErrorOf
  <2>3. QED
    BY <2>1, <2>2
<1>13. TablesInv' /\ CpuInv' /\ ControlInv'
  BY <1>1, <1>2 DEF TablesInv, CpuInv, ControlInv
<1>14. EntryInv'
  BY <1>2, <1>3 DEF EntryInv
<1>15. QED
  BY <1>12, <1>13, <1>14 DEF IInv

\* The common stub saves the registers and the data segment.
LEMMA CommonStubInvariant == IInv /\ CommonStub => IInv'
<1> SUFFICES ASSUME IInv, CommonStub PROVE IInv'
  OBVIOUS
<1>1. ControlInv /\ TablesInv /\ CpuInv /\ EntryInv /\ StackInv
  BY DEF IInv
<1>2. /\ pc = "common" /\ pc' = "handler"
      /\ cpu' = [cpu EXCEPT !.ds = 16, !.es = 16, !.fs = 16, !.gs = 16]
      /\ UNCHANGED <<gdt, idt, vector, target, iflag, saved>>
  BY DEF CommonStub, tables
<1>3. cpu = saved.cpu
  BY <1>1, <1>2 DEF CpuInv
<1>4. /\ Above(stack, 5, saved.stack) /\ stack[1] = vector /\ stack[2] = ErrorOf(vector)
      /\ Return(stack, 2) /\ stack \in Seq(Nat) /\ Len(stack) \in Nat /\ Len(stack) >= 5
  <2>1. /\ Above(stack, 5, saved.stack) /\ stack[1] = vector /\ stack[2] = ErrorOf(vector)
        /\ Return(stack, 2)
    BY <1>1, <1>2 DEF StackInv
  <2>2. QED
    BY <2>1, LenProperties DEF Above
<1> DEFINE word == (cpu.eax \div 65536) * 65536 + cpu.ds
           t == << word, cpu.edi, cpu.esi, cpu.ebp, Len(stack), cpu.ebx, cpu.edx, cpu.ecx, cpu.eax >>
<1>5. word \in Nat /\ word % 65536 = saved.cpu.ds
  <2>1. cpu.eax \in Nat /\ cpu.ds = 16 /\ saved.cpu.ds = 16
    BY <1>1, <1>3, SavedState
  <2>2. cpu.eax \div 65536 \in Nat
    BY <2>1
  <2>3. QED
    BY <2>1, <2>2
<1> HIDE DEF word
<1>6. /\ t \in Seq(Nat) /\ Len(t) = 9
      /\ t[1] = word /\ t[2] = cpu.edi /\ t[3] = cpu.esi /\ t[4] = cpu.ebp /\ t[6] = cpu.ebx
      /\ t[7] = cpu.edx /\ t[8] = cpu.ecx /\ t[9] = cpu.eax
  <2>1. /\ cpu.edi \in Nat /\ cpu.esi \in Nat /\ cpu.ebp \in Nat /\ cpu.ebx \in Nat
        /\ cpu.edx \in Nat /\ cpu.ecx \in Nat /\ cpu.eax \in Nat
    BY <1>1, <1>3, SavedState
  <2>2. t \in Seq(Nat)
    BY <1>4, <1>5, <2>1
  <2>3. QED
    BY <2>2
<1>7. stack' = t \o stack
  BY DEF CommonStub, word
<1> HIDE DEF t
<1>8. Pushed(stack', t, stack)
  BY <1>4, <1>6, <1>7, Push
<1>9. Above(stack', 14, saved.stack)
  <2>1. Above(stack', Len(t) + 5, saved.stack)
    BY <1>4, <1>6, <1>8, PushAbove
  <2>2. QED
    BY <1>6, <2>1
<1>10. General(stack)'
  <2>1. \A i \in 1 .. 9 : stack'[i] = t[i]
    BY <1>6, <1>8 DEF Pushed
  <2>2. /\ stack'[1] = t[1] /\ stack'[2] = t[2] /\ stack'[3] = t[3] /\ stack'[4] = t[4]
        /\ stack'[6] = t[6] /\ stack'[7] = t[7] /\ stack'[8] = t[8] /\ stack'[9] = t[9]
    BY <2>1
  <2>3. QED
    BY <1>2, <1>3, <1>5, <1>6, <2>2 DEF General
<1>11. /\ stack'[10] = vector' /\ stack'[11] = ErrorOf(vector)' /\ Return(stack, 11)'
  <2>1. ASSUME NEW i \in 1 .. 5 PROVE stack'[9 + i] = stack[i]
    <3>1. i \in 1 .. Len(stack)
      BY <1>4
    <3>2. stack'[Len(t) + i] = stack[i]
      BY <1>8, <3>1 DEF Pushed
    <3>3. QED
      BY <1>6, <3>2
  <2>2. /\ stack'[9 + 1] = stack[1] /\ stack'[9 + 2] = stack[2] /\ stack'[9 + 3] = stack[3]
        /\ stack'[9 + 4] = stack[4] /\ stack'[9 + 5] = stack[5]
    BY <2>1
  <2>3. ErrorOf(vector)' = ErrorOf(vector)
    BY <1>2 DEF ErrorOf
  <2>4. QED
    BY <1>2, <1>4, <2>2, <2>3 DEF Return
<1>12. StackInv'
  BY <1>2, <1>9, <1>10, <1>11 DEF StackInv
<1>13. CpuInv'
  <2>1. saved.cpu \in [Registers -> Nat] /\ cpu.ds = 16 /\ cpu.es = 16 /\ cpu.fs = 16 /\ cpu.gs = 16
    BY <1>1, <1>3, SavedState
  <2>2. cpu' = cpu
    BY <1>2, <1>3, <2>1
  <2>3. QED
    BY <1>1, <1>2, <1>3, <2>2 DEF CpuInv
<1>14. TablesInv' /\ ControlInv' /\ EntryInv'
  BY <1>1, <1>2 DEF TablesInv, ControlInv, EntryInv
<1>15. QED
  BY <1>12, <1>13, <1>14 DEF IInv

LEMMA HandlerInvariant == IInv /\ Handler => IInv'
<1> SUFFICES ASSUME IInv, Handler PROVE IInv'
  OBVIOUS
<1>1. ControlInv /\ TablesInv /\ CpuInv /\ EntryInv /\ StackInv
  BY DEF IInv
<1>2. /\ pc = "handler" /\ pc' = "return"
      /\ cpu' = [cpu EXCEPT !.eax = 1, !.ecx = 2, !.edx = 3]
      /\ UNCHANGED <<gdt, idt, vector, target, stack, iflag, saved>>
  BY DEF Handler, tables
<1>3. CpuInv'
  <2>1. cpu = saved.cpu /\ cpu \in [Registers -> Nat]
    BY <1>1, <1>2, SavedState DEF CpuInv
  <2>2. /\ cpu' \in [Registers -> Nat]
        /\ \A r \in Registers \ {"eax", "ecx", "edx"} : cpu'[r] = saved.cpu[r]
    BY <1>2, <2>1
  <2>3. QED
    BY <1>1, <1>2, <2>2 DEF CpuInv
<1>4. StackInv'
  BY <1>1, <1>2 DEF StackInv, Above, General, Return, ErrorOf
<1>5. TablesInv' /\ ControlInv' /\ EntryInv'
  BY <1>1, <1>2 DEF TablesInv, ControlInv, EntryInv
<1>6. QED
  BY <1>3, <1>4, <1>5 DEF IInv

\* The stub takes down what it has pushed and gets the registers back.
LEMMA RestoreInvariant == IInv /\ Restore => IInv'
<1> SUFFICES ASSUME IInv, Restore PROVE IInv'
  OBVIOUS
<1>1. ControlInv /\ TablesInv /\ CpuInv /\ EntryInv /\ StackInv
  BY DEF IInv
<1>2. /\ pc = "return" /\ pc' = "iret"
      /\ stack' = SubSeq(stack, 12, Len(stack))
      /\ UNCHANGED <<gdt, idt, vector, target, iflag, saved>>
  BY DEF Restore, Unwind, tables
<1>3. /\ Above(stack, 14, saved.stack) /\ General(stack) /\ Return(stack, 11)
  BY <1>1, <1>2 DEF StackInv
<1>4. CpuInv'
  <2> DEFINE ds == stack[1] % 65536
  <2>1. /\ saved.cpu \in [Registers -> Nat] /\ cpu \in [Registers -> Nat]
        /\ \A r \in Registers \ {"eax", "ecx", "edx"} : cpu[r] = saved.cpu[r]
    BY <1>1, <1>2, SavedState DEF CpuInv
  <2>2. /\ ds = saved.cpu.ds /\ ds = saved.cpu.es /\ ds = saved.cpu.fs /\ ds = saved.cpu.gs
    <3>1. /\ saved.cpu.ds = 16 /\ saved.cpu.es = 16 /\ saved.cpu.fs = 16
          /\ saved.cpu.gs = 16
      BY <1>1, SavedState, Zenon
    <3>2. ds = saved.cpu.ds
      BY <1>3 DEF General
    <3> HIDE DEF ds
    <3>3. QED
      BY <3>1, <3>2, Zenon
  <2> HIDE DEF ds
  <2>3. cpu' = [cpu EXCEPT !.ds = ds, !.es = ds, !.fs = ds, !.gs = ds,
                          !.edi = stack[2], !.esi = stack[3], !.ebp = stack[4], !.ebx = stack[6],
                          !.edx = stack[7], !.ecx = stack[8], !.eax = stack[9]]
    BY DEF Restore, Unwind, ds
  <2>4. cpu' \in [Registers -> {stack[2], stack[3], stack[4], stack[6], stack[7], stack[8],
                               stack[9], ds} \cup Nat]
    BY <2>1, <2>3
  <2>5. DOMAIN cpu' = Registers
    BY <2>4
  <2>6. \A r \in Registers : cpu'[r] = saved.cpu[r]
    <3>1. /\ cpu'["ds"] = ds /\ cpu'["es"] = ds /\ cpu'["fs"] = ds /\ cpu'["gs"] = ds
          /\ cpu'["edi"] = stack[2] /\ cpu'["esi"] = stack[3] /\ cpu'["ebp"] = stack[4]
          /\ cpu'["ebx"] = stack[6] /\ cpu'["edx"] = stack[7] /\ cpu'["ecx"] = stack[8]
          /\ cpu'["eax"] = stack[9] /\ cpu'["eip"] = cpu["eip"] /\ cpu'["cs"] = cpu["cs"]
          /\ cpu'["eflags"] = cpu["eflags"]
      BY <2>1, <2>3 DEF Registers
    <3>2. /\ cpu["eip"] = saved.cpu["eip"] /\ cpu["cs"] = saved.cpu["cs"]
          /\ cpu["eflags"] = saved.cpu["eflags"]
      BY <2>1 DEF Registers
    <3>3. /\ stack[2] = saved.cpu["edi"] /\ stack[3] = saved.cpu["esi"]
          /\ stack[4] = saved.cpu["ebp"] /\ stack[6] = saved.cpu["ebx"]
          /\ stack[7] = saved.cpu["edx"] /\ stack[8] = saved.cpu["ecx"]
          /\ stack[9] = saved.cpu["eax"]
      BY <1>3 DEF General
    <3>4. /\ ds = saved.cpu["ds"] /\ ds = saved.cpu["es"] /\ ds = saved.cpu["fs"]
          /\ ds = saved.cpu["gs"]
      BY <2>2
    <3>5. /\ cpu'["ds"] = saved.cpu["ds"] /\ cpu'["es"] = saved.cpu["es"]
          /\ cpu'["fs"] = saved.cpu["fs"] /\ cpu'["gs"] = saved.cpu["gs"]
          /\ cpu'["edi"] = saved.cpu["edi"] /\ cpu'["esi"] = saved.cpu["esi"]
          /\ cpu'["ebp"] = saved.cpu["ebp"] /\ cpu'["ebx"] = saved.cpu["ebx"]
          /\ cpu'["edx"] = saved.cpu["edx"] /\ cpu'["ecx"] = saved.cpu["ecx"]
          /\ cpu'["eax"] = saved.cpu["eax"] /\ cpu'["eip"] = saved.cpu["eip"]
          /\ cpu'["cs"] = saved.cpu["cs"] /\ cpu'["eflags"] = saved.cpu["eflags"]
      BY <3>1, <3>2, <3>3, <3>4, Zenon
    <3>6. QED
      BY <3>5, Zenon DEF Registers
  <2>7. cpu' = saved.cpu
    BY <2>1, <2>4, <2>6
  <2>8. QED
    BY <1>1, <1>2, <2>7 DEF CpuInv
<1>5. StackInv'
  <2>1. Dropped(stack', stack, 11, 3, saved.stack)
    <3>1. stack' = SubSeq(stack, 11 + 1, Len(stack)) /\ Above(stack, 11 + 3, saved.stack)
      BY <1>2, <1>3
    <3>2. QED
      BY <3>1, Drop
  <2>2. Above(stack', 3, saved.stack) /\ \A i \in 1 .. 3 : stack'[i] = stack[11 + i]
    BY <2>1 DEF Dropped
  <2>3. stack'[1] = stack[11 + 1] /\ stack'[2] = stack[11 + 2] /\ stack'[3] = stack[11 + 3]
    BY <2>2
  <2>4. Return(stack, 0)'
    <3>1. stack'[1] = saved.cpu.eip /\ stack'[2] = saved.cpu.cs /\ stack'[3] = saved.cpu.eflags
      BY <1>3, <2>3 DEF Return
    <3>2. saved' = saved
      BY <1>2, Zenon
    <3>3. QED
      BY <3>1, <3>2 DEF Return
  <2>5. QED
    BY <1>2, <2>2, <2>4 DEF StackInv
<1>6. TablesInv' /\ ControlInv' /\ EntryInv'
  BY <1>1, <1>2 DEF TablesInv, ControlInv, EntryInv
<1>7. QED
  BY <1>4, <1>5, <1>6 DEF IInv

LEMMA IretInvariant == IInv /\ Iret => IInv'
<1> SUFFICES ASSUME IInv, Iret PROVE IInv'
  OBVIOUS
<1>1. ControlInv /\ TablesInv /\ CpuInv /\ EntryInv /\ StackInv
  BY DEF IInv
<1>2. /\ pc = "iret" /\ pc' = "run"
      /\ cpu' = [cpu EXCEPT !.eip = stack[1], !.cs = stack[2], !.eflags = stack[3]]
      /\ stack' = SubSeq(stack, 4, Len(stack))
      /\ UNCHANGED <<gdt, idt, vector, target, saved>>
  BY DEF Iret, tables
<1>3. Above(stack, 3, saved.stack) /\ Return(stack, 0)
  BY <1>1, <1>2 DEF StackInv
<1>4. CpuInv'
  <2>1. cpu = saved.cpu /\ cpu \in [Registers -> Nat]
    BY <1>1, <1>2, SavedState DEF CpuInv
  <2>2. stack[1] = cpu.eip /\ stack[2] = cpu.cs /\ stack[3] = cpu.eflags
    BY <1>3, <2>1 DEF Return
  <2>3. cpu' = cpu
    BY <1>2, <2>1, <2>2
  <2>4. QED
    BY <1>1, <1>2, <2>1, <2>3 DEF CpuInv
<1>5. StackInv'
  <2>1. Dropped(stack', stack, 3, 0, saved.stack)
    <3>1. stack' = SubSeq(stack, 3 + 1, Len(stack)) /\ Above(stack, 3 + 0, saved.stack)
      BY <1>2, <1>3
    <3>2. QED
      BY <3>1, Drop
  <2>2. Above(stack', 0, saved.stack)
    BY <2>1 DEF Dropped
  <2>3. QED
    BY <1>2, <2>2 DEF StackInv
<1>6. TablesInv' /\ ControlInv' /\ EntryInv'
  BY <1>1, <1>2 DEF TablesInv, ControlInv, EntryInv
<1>7. QED
  BY <1>4, <1>5, <1>6 DEF IInv

LEMMA NextInvariant == IInv /\ [Next]_vars => IInv'
<1> SUFFICES ASSUME IInv, [Next]_vars PROVE IInv'
  OBVIOUS
<1>1. CASE UNCHANGED vars
  BY <1>1 DEF vars, tables, IInv, ControlInv, TablesInv, CpuInv, EntryInv, StackInv, Above,
              General, Return, ErrorOf
<1>2. ASSUME NEW v \in 0 .. 47, Interrupt(v) PROVE IInv'
  BY <1>2, InterruptInvariant
<1>3. QED
  BY <1>1, <1>2, InitGdtInvariant, InitIdtInvariant, StubInvariant, CommonStubInvariant,
     HandlerInvariant, RestoreInvariant, IretInvariant DEF Next

\* The invariant holds in every run, wherever the stubs are and whatever is interrupted.
THEOREM Invariance == Spec => []IInv
<1>1. QED
  BY InitInvariant, NextInvariant, PTL DEF Spec

-----------------------------------------------------------------------------
\* The code that was interrupted goes on with its registers and its stack.
THEOREM Resumed == Spec => []InterruptedResumes
<1>1. IInv => InterruptedResumes
  <2> SUFFICES ASSUME IInv, pc = "run" PROVE cpu = saved.cpu /\ stack = saved.stack
    BY DEF InterruptedResumes
  <2>1. cpu = saved.cpu
    BY DEF IInv, CpuInv
  <2>2. Above(stack, 0, saved.stack)
    BY DEF IInv, StackInv
  <2>3. QED
    BY <2>1, <2>2, AboveNothing
<1>2. QED
  BY <1>1, Invariance, PTL

\* What context_t calls a word is the k-th word of the stack.
LEMMA Fields ==
  ASSUME NEW k \in 1 .. 14, NEW f, context_t[k] = f
  PROVE  Field(f) = stack[k]
<1>1. \A i, j \in 1 .. 14 : context_t[i] = context_t[j] => i = j
  BY DEF context_t
<1>2. (CHOOSE i \in 1 .. 14 : context_t[i] = f) = k
  BY <1>1
<1>3. QED
  BY <1>2 DEF Field

\* A handler finds in its context_t the registers, its number and the error code.
THEOREM ContextFound == Spec => []ContextMatches
<1>1. IInv => ContextMatches
  <2> SUFFICES ASSUME IInv, pc = "handler"
               PROVE  /\ \A r \in {"edi", "esi", "ebp", "ebx", "edx", "ecx", "eax", "eip", "cs",
                                  "eflags"} : Field(r) = saved.cpu[r]
                      /\ Field("ds") % 65536 = saved.cpu.ds
                      /\ Field("int_no") = vector
                      /\ Field("err_code") = ErrorOf(vector)
    BY DEF ContextMatches, ErrorOf
  <2>1. /\ General(stack) /\ stack[10] = vector /\ stack[11] = ErrorOf(vector)
        /\ Return(stack, 11)
    BY DEF IInv, StackInv
  <2>2. /\ Field("ds") = stack[1] /\ Field("edi") = stack[2] /\ Field("esi") = stack[3]
        /\ Field("ebp") = stack[4]
    BY Fields DEF context_t
  <2>3. /\ Field("ebx") = stack[6] /\ Field("edx") = stack[7] /\ Field("ecx") = stack[8]
        /\ Field("eax") = stack[9]
    BY Fields DEF context_t
  <2>4. Field("int_no") = stack[10] /\ Field("err_code") = stack[11]
    BY Fields DEF context_t
  <2>5. /\ Field("eip") = stack[11 + 1] /\ Field("cs") = stack[11 + 2]
        /\ Field("eflags") = stack[11 + 3]
    BY Fields DEF context_t
  <2>6. QED
    BY <2>1, <2>2, <2>3, <2>4, <2>5 DEF General, Return
<1>2. QED
  BY <1>1, Invariance, PTL

\* The second descriptor is a flat code segment of ring 0, the third a flat data segment.
FlatWords(d) ==
    /\ d.base_high * 256 + d.base_middle = 0 /\ d.base_low = 0
    /\ d.limit_low = 65535 /\ d.granularity % 16 = 15 /\ d.granularity >= 128
    /\ d.access >= 128 /\ (d.access \div 32) % 4 = 0 /\ (d.access \div 2) % 2 = 1

CodeBit(d) == (d.access \div 8) % 2 = 1

LEMMA FlatSegment ==
  ASSUME NEW selector, NEW d, gdt[(selector \div 8) + 1] = d, FlatWords(d)
  PROVE  Flat(selector, CodeBit(d))
<1> DEFINE base    == << d.base_high * 256 + d.base_middle, d.base_low >>
           whole   == d.limit_low = 65535 /\ d.granularity % 16 = 15 /\ d.granularity >= 128
           present == d.access >= 128
           ring    == (d.access \div 32) % 4
           rw      == (d.access \div 2) % 2 = 1
<1>1. Segment(selector) = [base |-> base, whole |-> whole, present |-> present, ring |-> ring,
                           code |-> CodeBit(d), rw |-> rw]
  BY DEF Segment, CodeBit
<1>2. base = Zero /\ ring = 0
  BY DEF Zero, FlatWords
<1>3. (whole \in BOOLEAN /\ whole) /\ (present \in BOOLEAN /\ present) /\ (rw \in BOOLEAN /\ rw)
  BY DEF FlatWords
<1> HIDE DEF base, whole, present, ring, rw
<1>4. whole = TRUE /\ present = TRUE /\ rw = TRUE
  BY <1>3
<1>5. QED
  BY <1>1, <1>2, <1>4, Zenon DEF Flat

LEMMA FlatSegments == ASSUME gdt = Gdt PROVE Flat(8, TRUE) /\ Flat(16, FALSE)
<1>1. gdt[2] = gdt_set_gate(Zero, AllOnes, 154, 207) /\ gdt[3] = gdt_set_gate(Zero, AllOnes, 146, 207)
  BY DEF Gdt
<1>2. \A a : LET d == gdt_set_gate(Zero, AllOnes, a, 207) IN
         /\ d.base_high = 0 /\ d.base_middle = 0 /\ d.base_low = 0
         /\ d.limit_low = 65535 /\ d.granularity = 207 /\ d.access = a
  BY DEF gdt_set_gate, Zero, AllOnes
<1>3. (8 \div 8) + 1 = 2 /\ (16 \div 8) + 1 = 3
  OBVIOUS
<1>4. Flat(8, TRUE)
  <2> DEFINE d == gdt_set_gate(Zero, AllOnes, 154, 207)
  <2>1. gdt[(8 \div 8) + 1] = d
    BY <1>1, <1>3, Zenon
  <2>2. /\ d.base_high = 0 /\ d.base_middle = 0 /\ d.base_low = 0
        /\ d.limit_low = 65535 /\ d.granularity = 207 /\ d.access = 154
    BY <1>2
  <2> HIDE DEF d
  <2>3. FlatWords(d) /\ CodeBit(d)
    BY <2>2 DEF FlatWords, CodeBit
  <2>4. CodeBit(d) \in BOOLEAN
    BY DEF CodeBit
  <2>5. CodeBit(d) = TRUE
    BY <2>3, <2>4, Zenon
  <2>6. Flat(8, CodeBit(d))
    BY <2>1, <2>3, FlatSegment
  <2>7. QED
    BY <2>5, <2>6, Zenon
<1>5. Flat(16, FALSE)
  <2> DEFINE d == gdt_set_gate(Zero, AllOnes, 146, 207)
  <2>1. gdt[(16 \div 8) + 1] = d
    BY <1>1, <1>3, Zenon
  <2>2. /\ d.base_high = 0 /\ d.base_middle = 0 /\ d.base_low = 0
        /\ d.limit_low = 65535 /\ d.granularity = 207 /\ d.access = 146
    BY <1>2
  <2> HIDE DEF d
  <2>3. FlatWords(d) /\ ~ CodeBit(d)
    BY <2>2 DEF FlatWords, CodeBit
  <2>4. CodeBit(d) \in BOOLEAN
    BY DEF CodeBit
  <2>5. CodeBit(d) = FALSE
    BY <2>3, <2>4, Zenon
  <2>6. Flat(16, CodeBit(d))
    BY <2>1, <2>3, FlatSegment
  <2>7. QED
    BY <2>5, <2>6, Zenon
<1>6. QED
  BY <1>4, <1>5

\* A handler runs in ring 0, on flat segments, with interrupts disabled.
THEOREM KernelEntered == Spec => []EntersKernel
<1>1. IInv => EntersKernel
  <2> SUFFICES ASSUME IInv PROVE EntersKernel
    OBVIOUS
  <2>1. TablesInv /\ CpuInv /\ EntryInv
    BY DEF IInv
  <2>2. pc # "boot" => Flat(8, TRUE) /\ Flat(16, FALSE)
    BY <2>1, FlatSegments DEF TablesInv
  <2>3. cpu.cs = 8
    BY <2>1, SavedState DEF CpuInv, Registers
  <2>4. pc = "handler" => \A r \in {"ds", "es", "fs", "gs"} : cpu[r] = 16
    BY <2>1, SavedState DEF CpuInv
  <2>5. pc \notin {"boot", "run"} => iflag = FALSE
    BY <2>1 DEF EntryInv
  <2>6. QED
    BY <2>2, <2>3, <2>4, <2>5, Zenon DEF EntersKernel
<1>2. QED
  BY <1>1, Invariance, PTL
=============================================================================
