-------------------------------- MODULE Gates --------------------------------
(***************************************************************************)
(* The way into a handler and back: the descriptors that init_gdt and      *)
(* init_idt pack (gdt.c, idt.c), how the CPU decodes them, and the stubs   *)
(* of interrupts.asm that build the context_t of a handler on the stack of *)
(* the interrupted code and take it down again.                            *)
(*                                                                         *)
(* The stack is a sequence with the top first, a register an integer.      *)
(* 32-bit words of descriptors are << high half, low half >>.              *)
(***************************************************************************)
EXTENDS Integers, Sequences, FiniteSets

CONSTANTS
    StubAt,         \* where the linker puts the stubs: << "isr", n >>, << "irq", n >>
    Interrupted     \* states of the CPU and the stack that are interrupted

Labels == ({"isr"} \X (0 .. 31)) \cup ({"irq"} \X (0 .. 15))

\* An address, a uint32_t, by halves.
Half == 0 .. 65535

ASSUME LinkerAssumption ==
    /\ StubAt \in [Labels -> Half \X Half]
    /\ \A a, b \in Labels : StubAt[a] = StubAt[b] => a = b

Registers ==
    {"eax", "ebx", "ecx", "edx", "esi", "edi", "ebp", "eip", "eflags", "cs", "ds", "es", "fs", "gs"}

\* What is interrupted runs in ring 0, with the segments the flush behind init_gdt loads.
ASSUME InterruptedAssumption ==
    \A s \in Interrupted :
        /\ s.cpu \in [Registers -> Nat]
        /\ s.cpu.cs = 8
        /\ \A r \in {"ds", "es", "fs", "gs"} : s.cpu[r] = 16
        /\ s.stack \in Seq(Nat)

VARIABLES gdt, idt, pc, vector, target, cpu, stack, iflag, saved

tables == <<gdt, idt>>
vars   == <<tables, pc, vector, target, cpu, stack, iflag, saved>>

Init ==
    /\ gdt = << >> /\ idt = << >>
    /\ pc = "boot" /\ vector = 0 /\ target = << >>
    /\ saved \in Interrupted
    /\ cpu = saved.cpu /\ stack = saved.stack
    /\ iflag = FALSE

-----------------------------------------------------------------------------
\* uint32_t values by halves.
Zero    == << 0, 0 >>
AllOnes == << 65535, 65535 >>

gdt_set_gate(base, limit, access, granularity) ==
    [base_low |-> base[2], base_middle |-> base[1] % 256, base_high |-> base[1] \div 256,
     limit_low |-> limit[2], access |-> access,
     granularity |-> ((granularity \div 16) * 16) + (limit[1] % 16)]

\* 0x9A, 0x92, 0xFA and 0xF2: code and data for rings 0 and 3; 0xCF: 4 KB units, 32 bits.
init_gdt ==
    /\ pc = "boot" /\ gdt = << >>
    /\ gdt' = << gdt_set_gate(Zero, Zero, 0, 0),
                 gdt_set_gate(Zero, AllOnes, 154, 207), gdt_set_gate(Zero, AllOnes, 146, 207),
                 gdt_set_gate(Zero, AllOnes, 250, 207), gdt_set_gate(Zero, AllOnes, 242, 207) >>
    /\ UNCHANGED <<idt, pc, vector, target, cpu, stack, iflag, saved>>

idt_set_gate_trap(base) ==
    [base_lo |-> base[2], base_hi |-> base[1], sel |-> 8, res |-> 0, flags |-> 143]

\* Every gate has the selector 0x08 and the flags 0x8E.
idt_set_gate(base) ==
    [base_lo |-> base[2], base_hi |-> base[1], sel |-> 8, res |-> 0, flags |-> 142]

Label(v) == IF v < 32 THEN << "isr", v >> ELSE << "irq", v - 32 >>

init_idt ==
    /\ pc = "boot" /\ gdt # << >>
    /\ idt' = [v \in 0 .. 47 |-> idt_set_gate(StubAt[Label(v)])]
    /\ pc' = "run" /\ iflag' = TRUE
    /\ UNCHANGED <<gdt, vector, target, cpu, stack, saved>>

-----------------------------------------------------------------------------
(***************************************************************************)
(* The CPU.  The vectors 17 and 21 cannot be raised in ring 0.             *)
(***************************************************************************)
Segment(selector) ==
    LET d == gdt[(selector \div 8) + 1] IN
    [base    |-> << d.base_high * 256 + d.base_middle, d.base_low >>,
     whole   |-> d.limit_low = 65535 /\ d.granularity % 16 = 15 /\ d.granularity >= 128,
     present |-> d.access >= 128,
     ring    |-> (d.access \div 32) % 4,
     code    |-> (d.access \div 8) % 2 = 1,
     rw      |-> (d.access \div 2) % 2 = 1]

Flat(selector, isCode) ==
    Segment(selector) =
        [base |-> Zero, whole |-> TRUE, present |-> TRUE, ring |-> 0, code |-> isCode, rw |-> TRUE]

ErrorCodes == {8} \cup 10 .. 14
SomeError  == 7

Interrupt(v) ==
    /\ pc = "run" /\ v \notin {17, 21}
    /\ vector' = v
    /\ target' = << idt[v].base_hi, idt[v].base_lo >>
    /\ stack' = (IF v \in ErrorCodes THEN << SomeError >> ELSE << >>)
                \o << cpu.eip, cpu.cs, cpu.eflags >> \o stack
    /\ cpu' = [cpu EXCEPT !.cs = idt[v].sel]
    /\ iflag' = (idt[v].flags % 16 = 15)             \* a trap gate leaves it set
    /\ pc' = "stub"
    /\ UNCHANGED <<tables, saved>>

\* ISR_NOERRCODE, ISR_ERRCODE and IRQ: cli, a dummy error code, the number.
Stub_always_dummy ==
    /\ pc = "stub"
    /\ \E l \in Labels :
          /\ StubAt[l] = target
          /\ stack' = << IF l[1] = "isr" THEN l[2] ELSE 32 + l[2], 0 >> \o stack
    /\ iflag' = FALSE
    /\ pc' = "common"
    /\ UNCHANGED <<tables, vector, target, cpu, saved>>

Stub ==
    /\ pc = "stub"
    /\ \E l \in Labels :
          /\ StubAt[l] = target
          /\ stack' = << IF l[1] = "isr" THEN l[2] ELSE 32 + l[2] >>
                      \o (IF l[1] = "isr" /\ l[2] \in ErrorCodes THEN << >> ELSE << 0 >>)
                      \o stack
    /\ iflag' = FALSE
    /\ pc' = "common"
    /\ UNCHANGED <<tables, vector, target, cpu, saved>>

\* isr_common_stub and irq_common_stub: pusha, the data segment in the lower half of
\* eax, the pointer to it all.
CommonStub ==
    /\ pc = "common"
    /\ stack' = << (cpu.eax \div 65536) * 65536 + cpu.ds,
                   cpu.edi, cpu.esi, cpu.ebp, Len(stack), cpu.ebx, cpu.edx, cpu.ecx, cpu.eax >>
                \o stack
    /\ cpu' = [cpu EXCEPT !.ds = 16, !.es = 16, !.fs = 16, !.gs = 16]
    /\ pc' = "handler"
    /\ UNCHANGED <<tables, vector, target, iflag, saved>>

\* The handler returns; by the calling convention eax, ecx and edx are its own to change.
Handler ==
    /\ pc = "handler"
    /\ cpu' = [cpu EXCEPT !.eax = 1, !.ecx = 2, !.edx = 3]
    /\ pc' = "return"
    /\ UNCHANGED <<tables, vector, target, stack, iflag, saved>>

Unwind(dropped) ==
    LET ds == stack[1] % 65536 IN
    /\ cpu' = [cpu EXCEPT !.ds = ds, !.es = ds, !.fs = ds, !.gs = ds,
                          !.edi = stack[2], !.esi = stack[3], !.ebp = stack[4], !.ebx = stack[6],
                          !.edx = stack[7], !.ecx = stack[8], !.eax = stack[9]]
    /\ stack' = SubSeq(stack, 10 + dropped, Len(stack))
    /\ pc' = "iret"
    /\ UNCHANGED <<tables, vector, target, iflag, saved>>

Restore_keeps_error == pc = "return" /\ Unwind(1)

\* pop the segment, popa, add esp, 8.
Restore == pc = "return" /\ Unwind(2)

\* sti; iret in ring 0 takes three words.
Iret ==
    /\ pc = "iret"
    /\ cpu' = [cpu EXCEPT !.eip = stack[1], !.cs = stack[2], !.eflags = stack[3]]
    /\ stack' = SubSeq(stack, 4, Len(stack))
    /\ iflag' = TRUE
    /\ pc' = "run"
    /\ UNCHANGED <<tables, vector, target, saved>>

Next ==
    \/ init_gdt \/ init_idt \/ Stub \/ CommonStub \/ Handler \/ Restore \/ Iret
    \/ \E v \in 0 .. 47 : Interrupt(v)

Spec == Init /\ [][Next]_vars

-----------------------------------------------------------------------------
\* The fields of context_t, from its address on; in ring 0 the CPU pushes no esp and ss.
context_t == << "ds", "edi", "esi", "ebp", "useless_esp", "ebx", "edx", "ecx", "eax",
                "int_no", "err_code", "eip", "cs", "eflags" >>
Field(f) == stack[CHOOSE k \in 1 .. 14 : context_t[k] = f]

\* For each vector, with and without an error code of the CPU, a handler finds the
\* interrupted registers in the fields of context_t that bear their names,
\* its own number, and the error code.
ContextMatches ==
    pc = "handler" =>
        /\ \A r \in {"edi", "esi", "ebp", "ebx", "edx", "ecx", "eax", "eip", "cs", "eflags"} :
              Field(r) = saved.cpu[r]
        /\ Field("ds") % 65536 = saved.cpu.ds
        /\ Field("int_no") = vector
        /\ Field("err_code") = IF vector \in ErrorCodes THEN SomeError ELSE 0

\* The interrupted code goes on with the registers and the stack it had.
InterruptedResumes == pc = "run" => cpu = saved.cpu /\ stack = saved.stack

\* From the gate on, a handler runs with interrupts disabled, in a flat code segment
\* of ring 0 and, once it is called, on flat data segments: the packed descriptors
\* mean to the CPU what init_gdt and init_idt want them to.
EntersKernel ==
    /\ pc \notin {"boot", "run"} => ~iflag /\ Flat(cpu.cs, TRUE)
    /\ pc = "handler" => \A r \in {"ds", "es", "fs", "gs"} : Flat(cpu[r], FALSE)
==============================================================================
