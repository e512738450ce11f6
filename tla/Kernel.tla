------------------------------- MODULE Kernel -------------------------------
(***************************************************************************)
(* kmain (kernel.c) and interrupts (isr.c, pic.c, idt.c, interrupts.asm):  *)
(* the functions kmain calls in their order, the two interrupt             *)
(* controllers, and the dispatch of an interrupt to its handler.           *)
(*                                                                         *)
(*   "main"      kmain or a task executes                                  *)
(*   "irq"       irq_handler before pic_send_eoi, interrupts disabled      *)
(*   "dispatch"  irq_handler after it                                      *)
(*   "isr"       isr_handler                                               *)
(*   "hang"      in a while (1) with interrupts disabled; see hang         *)
(***************************************************************************)
EXTENDS Integers, Sequences, FiniteSets

CONSTANTS
    Devices,        \* IRQ lines other than 0 (timer) and 1 (keyboard) in use by devices
    BootInfos,      \* what the boot loader may hand over
    KERNEL_END,
    Faults,         \* the exceptions the running code may raise under paging
    Burst           \* bound: PIT periods and keyboard bytes before the interrupted code goes on

Lines   == 0 .. 15
Vectors == 0 .. 47

ASSUME DevicesAssumption == Devices \subseteq 3 .. 15 /\ Burst \in Nat \ {0}
ASSUME BootAssumption ==
    /\ KERNEL_END \in Nat
    /\ BootInfos \subseteq [magic : BOOLEAN, mods_count : Nat, initrd_end : Nat, stop : BOOLEAN]
ASSUME FaultsAssumption == Faults \subseteq 0 .. 31

VARIABLES
    boot,                  \* the multiboot information, and whether kmain has its stop
    step,                  \* the next call of kmain
    pc, int_no,            \* control point, vector of the interrupt being handled
    iflag,                 \* the interrupt flag of the CPU
    idt,                   \* the vectors whose gate is set in the loaded IDT
    interrupt_handlers,
    remapped,              \* the controllers deliver vectors from 32 on
    irr, isr1, isr2,       \* lines requested; in service at master and slave
    obf,                   \* a byte waits in the keyboard controller's output buffer
    owed,                  \* history: requests of the PIT not counted in ticks yet
    burst,                 \* periods and bytes since the interrupted code last executed
    hang                   \* why the kernel hung

pic    == <<remapped, irr, isr1, isr2>>
tables == <<idt, interrupt_handlers>>
clock  == <<owed, burst>>
vars   == <<boot, step, pc, int_no, iflag, tables, pic, obf, clock, hang>>

\* The calls of kmain, in order.
kmain_sti_early ==
    << "logger", "multiboot", "ramdisk", "filesystem", "stop", "gdt", "pic", "idt",
       "terminal", "keyboard", "paging", "sti", "timer", "tasking" >>

kmain ==
    << "logger", "multiboot", "ramdisk", "filesystem", "stop", "gdt", "pic", "idt",
       "terminal", "keyboard", "paging", "timer", "sti", "tasking" >>

Called(f) == \E i \in 1 .. step - 1 : kmain[i] = f

Init ==
    /\ boot \in BootInfos
    /\ step = 1
    /\ pc = "main" /\ int_no = 0 /\ hang = "none"
    /\ iflag = FALSE                               \* the boot loader disables interrupts
    /\ idt = {}
    /\ interrupt_handlers = [v \in Vectors |-> "none"]
    /\ remapped = FALSE /\ irr = {} /\ isr1 = {} /\ isr2 = {}
    /\ obf = FALSE
    /\ owed = 0 /\ burst = 0

-----------------------------------------------------------------------------
(***************************************************************************)
(* The controllers.  Line 0 has the highest priority; the slave's lines    *)
(* reach the master on line 2.  A line is delivered unless one of at least *)
(* its priority is in service.  init_pic masks nothing.                    *)
(***************************************************************************)
Level(i) == IF i >= 8 THEN 2 ELSE i

Deliverable ==
    {i \in irr : /\ \A j \in isr1 : Level(i) < j
                 /\ i >= 8 => \A j \in isr2 : i < j}

Highest(i) ==
    /\ i \in Deliverable
    /\ \A j \in Deliverable : Level(i) < Level(j) \/ (Level(i) = Level(j) /\ i <= j)

\* PIC1_OFFSET and PIC2_OFFSET are adjacent; before init_pic line 0 is vector 8.
Vector(i) == IF remapped THEN 32 + i ELSE 8 + i

\* A nonspecific end of interrupt ends the service of the highest line in service.
Eoi(service) == {i \in service : \E j \in service : j < i}

Request(i) == irr' = irr \cup {i}

\* The CPU finishes an instruction of the code it runs: no interrupt is waiting.
Executes == pc = "main" /\ ~(iflag /\ Deliverable # {})

Hang(why) == pc' = "hang" /\ hang' = why /\ iflag' = FALSE

-----------------------------------------------------------------------------
\* kmain makes its next call, f.
Calls(f) ==
    /\ Executes
    /\ step <= Len(kmain) /\ kmain[step] = f
    /\ step' = step + 1
    /\ burst' = 0
    /\ UNCHANGED <<boot, int_no, obf, owed>>

\* Calls that leave interrupts alone: init_logger, init_filesystem, init_gdt,
\* init_terminal, init_tasking.
InitOther ==
    /\ \E f \in {"logger", "filesystem", "gdt", "terminal", "tasking"} : Calls(f)
    /\ UNCHANGED <<pc, iflag, tables, pic, hang>>

\* A condition kmain panics on: check_multiboot_info, the end of the ramdisk, the stop.
Rejects_at_end(f) ==
    \/ f = "multiboot" /\ (~boot.magic \/ boot.mods_count = 0)
    \/ f = "ramdisk" /\ boot.initrd_end >= KERNEL_END
    \/ f = "stop" /\ boot.stop

Rejects(f) ==
    \/ f = "multiboot" /\ (~boot.magic \/ boot.mods_count = 0)
    \/ f = "ramdisk" /\ boot.initrd_end > KERNEL_END
    \/ f = "stop" /\ boot.stop

Check ==
    /\ \E f \in {"multiboot", "ramdisk", "stop"} :
          /\ Calls(f)
          /\ IF Rejects(f) THEN Hang("panic") ELSE UNCHANGED <<pc, hang, iflag>>
    /\ UNCHANGED <<tables, pic>>

\* The initialisation words also reset the controllers: a line that is high
\* already makes no request before it has been low again.
init_pic ==
    /\ Calls("pic")
    /\ remapped' = TRUE /\ irr' = {} /\ isr1' = {} /\ isr2' = {}
    /\ UNCHANGED <<pc, iflag, tables, hang>>

init_idt ==
    /\ Calls("idt")
    /\ idt' = Vectors
    /\ UNCHANGED <<pc, iflag, interrupt_handlers, pic, hang>>

register_interrupt_handler(n, handler) ==
    interrupt_handlers' = [interrupt_handlers EXCEPT ![n] = handler]

InitDevice ==
    /\ \/ Calls("keyboard") /\ register_interrupt_handler(33, "keyboard_handler")
       \/ Calls("paging")   /\ register_interrupt_handler(14, "page_fault_handler")
       \/ Calls("timer")    /\ register_interrupt_handler(32, "timer_callback")
    /\ UNCHANGED <<pc, iflag, idt, pic, hang>>

Sti ==
    /\ Calls("sti")
    /\ iflag' = TRUE
    /\ UNCHANGED <<pc, tables, pic, hang>>

\* The loops of init_tasking and of the tasks.
Run ==
    /\ Executes
    /\ step > Len(kmain)
    /\ burst' = 0
    /\ UNCHANGED <<boot, step, pc, int_no, iflag, tables, pic, obf, owed, hang>>

-----------------------------------------------------------------------------
\* The PIT's output rises.  A request that is still pending absorbs the new one.
PitPeriod ==
    /\ burst < Burst
    /\ burst' = burst + 1
    /\ Request(0)
    /\ owed' = IF remapped /\ 0 \notin irr THEN owed + 1 ELSE owed
    /\ UNCHANGED <<boot, step, pc, int_no, iflag, tables, remapped, isr1, isr2, obf, hang>>

\* The keyboard controller signals a byte, and no other before port 0x60 is read.
\* Keys are hit after init_pic: the controllers forget an earlier request.
KeyByte ==
    /\ remapped /\ ~obf /\ burst < Burst
    /\ obf' = TRUE
    /\ Request(1)
    /\ burst' = burst + 1
    /\ UNCHANGED <<boot, step, pc, int_no, iflag, tables, remapped, isr1, isr2, owed, hang>>

DeviceRequest ==
    /\ \E i \in Devices : i \notin irr /\ Request(i)
    /\ UNCHANGED <<boot, step, pc, int_no, iflag, tables, remapped, isr1, isr2, obf, clock, hang>>

\* The CPU takes the highest request through its gate and the stub of
\* interrupts.asm.  Interrupt gates clear the flag.
Acknowledge ==
    /\ pc = "main" /\ iflag
    /\ \E i \in Lines :
          /\ Highest(i)
          /\ irr' = irr \ {i}
          /\ isr1' = isr1 \cup {Level(i)}
          /\ isr2' = IF i >= 8 THEN isr2 \cup {i} ELSE isr2
          /\ int_no' = Vector(i)
          /\ IF Vector(i) \notin idt
             THEN Hang("no gate")
             ELSE /\ pc' = IF Vector(i) >= 32 THEN "irq" ELSE "isr"
                  /\ iflag' = FALSE
                  /\ UNCHANGED hang
    /\ UNCHANGED <<boot, step, tables, remapped, obf, clock>>

(***************************************************************************)
(* irq_handler: the end of interrupt first, then the handler.              *)
(***************************************************************************)
pic_send_eoi_one(irq) ==
    IF irq >= 8 THEN isr2' = Eoi(isr2) /\ UNCHANGED isr1 ELSE isr1' = Eoi(isr1) /\ UNCHANGED isr2

pic_send_eoi_spared(irq) ==
    /\ isr1' = IF irq = 0 THEN Eoi(isr1) ELSE isr1
    /\ UNCHANGED isr2

pic_send_eoi(irq) ==
    /\ isr2' = IF irq >= 8 THEN Eoi(isr2) ELSE isr2
    /\ isr1' = Eoi(isr1)

SendEoi ==
    /\ pc = "irq"
    /\ pic_send_eoi(int_no - 32)
    /\ pc' = "dispatch"
    /\ UNCHANGED <<boot, step, int_no, iflag, tables, remapped, irr, obf, clock, hang>>

\* sti; iret: interrupts are on again once the interrupted code has been resumed.
Iret == pc' = "main" /\ iflag' = TRUE /\ UNCHANGED hang

timer_callback_twice ==
    /\ interrupt_handlers[int_no] = "timer_callback"
    /\ owed' = owed - 2
    /\ Iret
    /\ UNCHANGED obf

timer_callback_forgets ==
    /\ interrupt_handlers[int_no] = "timer_callback"
    /\ Iret
    /\ UNCHANGED <<obf, owed>>

timer_callback ==
    /\ interrupt_handlers[int_no] = "timer_callback"
    /\ owed' = owed - 1
    /\ Iret
    /\ UNCHANGED obf

keyboard_handler_unread ==
    /\ interrupt_handlers[int_no] = "keyboard_handler"
    /\ Iret
    /\ UNCHANGED <<obf, owed>>

\* keyboard_handler reads port 0x60, whatever the byte, and hangs on some; see Keyboard.
keyboard_handler ==
    /\ interrupt_handlers[int_no] = "keyboard_handler"
    /\ obf' = FALSE
    /\ Iret \/ Hang("key")
    /\ UNCHANGED owed

\* A line without a handler: "[PANIC] Unhandled IRQ".
Unhandled ==
    /\ interrupt_handlers[int_no] = "none"
    /\ Hang("unhandled")
    /\ UNCHANGED <<obf, owed>>

Dispatch ==
    /\ pc = "dispatch"
    /\ timer_callback \/ keyboard_handler \/ Unhandled
    /\ UNCHANGED <<boot, step, int_no, tables, pic, burst>>

-----------------------------------------------------------------------------
\* An exception of the code that runs; paging makes page faults possible.
Fault ==
    /\ Executes /\ Called("paging")
    /\ \E v \in Faults : int_no' = v
    /\ pc' = "isr"
    /\ UNCHANGED <<boot, step, iflag, tables, pic, obf, clock, hang>>

\* isr_handler returns to the faulting instruction unless there is a handler;
\* page_fault_handler never returns.
isr_handler ==
    /\ pc = "isr"
    /\ IF interrupt_handlers[int_no] = "page_fault_handler"
       THEN Hang("page fault")
       ELSE pc' = "main" /\ UNCHANGED <<hang, iflag>>
    /\ UNCHANGED <<boot, step, int_no, tables, pic, obf, clock>>

\* The hung kernel spins; devices no longer matter.
Spin == pc = "hang" /\ UNCHANGED vars

Kmain  == InitOther \/ Check \/ init_pic \/ init_idt \/ InitDevice \/ Sti \/ Run
Cpu    == Kmain \/ Acknowledge \/ SendEoi \/ Dispatch \/ isr_handler \/ Spin
Device == pc # "hang" /\ (PitPeriod \/ KeyByte \/ DeviceRequest)

Next == Cpu \/ Device \/ Fault

\* The CPU goes on executing; devices owe nothing.
Spec == Init /\ [][Next]_vars /\ WF_vars(Cpu)

-----------------------------------------------------------------------------
\* The type of every variable.
TypeOK ==
    /\ boot \in BootInfos
    /\ step \in 1 .. Len(kmain) + 1
    /\ pc \in {"main", "irq", "dispatch", "isr", "hang"}
    /\ int_no \in Vectors
    /\ iflag \in BOOLEAN /\ remapped \in BOOLEAN /\ obf \in BOOLEAN
    /\ idt \in {{}, Vectors}
    /\ interrupt_handlers \in
          [Vectors -> {"none", "keyboard_handler", "page_fault_handler", "timer_callback"}]
    /\ irr \subseteq Lines /\ isr1 \subseteq 0 .. 7 /\ isr2 \subseteq 8 .. 15
    /\ owed \in 0 .. 2 /\ burst \in 0 .. Burst
    /\ hang \in {"none", "panic", "no gate", "unhandled", "page fault", "key"}

\* Every interrupt taken is ended at both controllers before its handler runs,
\* also one that hangs: no line stays in service and blocks the lines below it
\* (pic_send_eoi for the slave's lines, and the order in irq_handler).
ServiceEnds == pc # "irq" => isr1 = {} /\ isr2 = {}

\* kmain enables interrupts only once the controllers, the gates and the two
\* handlers are set up, although the timer and the keyboard request interrupts
\* from the start: only a line of another device finds no handler, and none no gate.
OnlyForeignLinesHang ==
    /\ hang # "no gate"
    /\ hang = "unhandled" => int_no - 32 \in Devices

\* Every request of the PIT since init_pic becomes exactly one tick: what is not
\* counted yet is pending at the controller or is being handled, also when the
\* next request arrives during the handler, whose end of interrupt is sent early.
InService(irq) == pc \in {"irq", "dispatch"} /\ int_no = 32 + irq
RequestsCountedOnce ==
    hang = "none" /\ remapped =>
        owed = Cardinality(irr \cap {0}) + (IF InService(0) THEN 1 ELSE 0)

\* kmain comes to the end of its calls if the boot information is good.
BootCompletes ==
    boot.magic /\ boot.mods_count > 0 /\ boot.initrd_end <= KERNEL_END /\ ~boot.stop
        => <>(step > Len(kmain) \/ hang \in {"unhandled", "page fault", "key"})
=============================================================================
