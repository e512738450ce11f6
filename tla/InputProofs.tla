---------------------------- MODULE InputProofs ----------------------------
(***************************************************************************)
(* Proofs about boot and interrupts with the keyboard in front of them,    *)
(* for every set of devices, keys and exceptions, every boot information   *)
(* and every bound.  IInv is shown inductive action by action; the driver  *)
(* is the one of KeyboardProofs.                                           *)
(***************************************************************************)
EXTENDS Input, KeyboardProofs, FiniteSetTheorems

InUse == {0, 1} \cup Devices

\* kmain's order: nothing is interrupted before it is prepared.
Prepared ==
    /\ remapped <=> step > 7
    /\ step > 8 => idt = Vectors
    /\ step > 10 => interrupt_handlers[33] = "keyboard_handler"
    /\ step > 12 => interrupt_handlers[32] = "timer_callback"
    /\ iflag \/ pc \in {"irq", "dispatch"} => step > 13
    /\ \A v \in Vectors :
          /\ interrupt_handlers[v] = "timer_callback" => v = 32
          /\ interrupt_handlers[v] = "keyboard_handler" => v = 33
    /\ hang # "no gate"
    /\ hang = "unhandled" => int_no - 32 \in Devices
    /\ pc = "hang" <=> hang # "none"

\* Only the line of the interrupt that is being taken is in service.
Serviced ==
    /\ irr \subseteq InUse
    /\ pc \in {"irq", "dispatch"} => int_no - 32 \in InUse
    /\ pc = "irq" =>
          /\ isr1 = {Level(int_no - 32)}
          /\ isr2 = IF int_no - 32 >= 8 THEN {int_no - 32} ELSE {}
    /\ pc # "irq" => isr1 = {} /\ isr2 = {}

Counted ==
    /\ ~remapped => owed = 0
    /\ RequestsCountedOnce

\* The keyboard's request means that a byte waits, and this byte is a scan code.
Waiting ==
    /\ codes \in Seq(Int)
    /\ obf => codes # << >>
    /\ 1 \in irr => obf
    /\ InService(1) => obf /\ 1 \notin irr

KernelInv == TypeOK /\ Prepared /\ Serviced /\ Counted

IInv == KernelInv /\ Waiting

-----------------------------------------------------------------------------
\* The places of the calls of kmain.
LEMMA CallOrder ==
  /\ Len(kmain) = 14
  /\ \A n \in 1 .. 14 :
        /\ kmain[n] \in {"logger", "filesystem", "gdt", "terminal", "tasking",
                         "multiboot", "ramdisk", "stop"}
              => n \notin {7, 8, 10, 12, 13}
        /\ kmain[n] = "pic" => n = 7
        /\ kmain[n] = "idt" => n = 8
        /\ kmain[n] = "keyboard" => n = 10
        /\ kmain[n] = "paging" => n = 11
        /\ kmain[n] = "timer" => n = 12
        /\ kmain[n] = "sti" => n = 13
  BY DEF kmain

\* A request of the timer is one element.
LEMMA OneRequest ==
  ASSUME NEW R
  PROVE  /\ 0 \in R => Cardinality(R \cap {0}) = 1
         /\ 0 \notin R => Cardinality(R \cap {0}) = 0
<1>1. 0 \in R => R \cap {0} = {0}
  OBVIOUS
<1>2. 0 \notin R => R \cap {0} = {}
  OBVIOUS
<1>3. Cardinality({0}) = 1 /\ Cardinality({}) = 0
  BY FS_Singleton, FS_EmptySet
<1>4. QED
  BY <1>1, <1>2, <1>3

\* The types of the numbers.
LEMMA Numbers ==
  ASSUME KernelInv
  PROVE  /\ step \in Int /\ int_no \in Int /\ int_no \in 0 .. 47
         /\ owed \in 0 .. 2 /\ owed \in Int
         /\ burst \in 0 .. Burst /\ burst \in Int /\ Burst \in Nat \ {0}
<1>1. TypeOK
  BY DEF KernelInv
<1>2. /\ step \in 1 .. Len(kmain) + 1
      /\ int_no \in 0 .. 47 /\ owed \in 0 .. 2 /\ burst \in 0 .. Burst
  BY <1>1, Zenon DEF TypeOK, Vectors
<1>3. QED
  BY <1>2, CallOrder, DevicesAssumption

LEMMA InitKernel == Init => KernelInv
<1>. SUFFICES ASSUME Init PROVE KernelInv
  OBVIOUS
<1>1. TypeOK
  <2>1. step \in 1 .. Len(kmain) + 1
    BY CallOrder DEF Init
  <2>2. interrupt_handlers \in
          [Vectors -> {"none", "keyboard_handler", "page_fault_handler", "timer_callback"}]
    BY DEF Init
  <2>3. int_no \in Vectors
    BY DEF Init, Vectors
  <2>4. owed \in 0 .. 2 /\ burst \in 0 .. Burst
    BY DevicesAssumption DEF Init
  <2>5. QED
    BY <2>1, <2>2, <2>3, <2>4 DEF Init, TypeOK
<1>2. Prepared
  BY DEF Init, Prepared, Vectors
<1>3. Serviced
  BY DEF Init, Serviced
<1>4. Counted
  BY DEF Init, Counted, RequestsCountedOnce
<1>5. QED
  BY <1>1, <1>2, <1>3, <1>4 DEF KernelInv

-----------------------------------------------------------------------------
(***************************************************************************)
(* The calls of kmain.                                                     *)
(***************************************************************************)

LEMMA CallsStep ==
  ASSUME KernelInv, NEW f, Calls(f)
  PROVE  /\ pc = "main" /\ hang = "none"
         /\ step \in 1 .. 14 /\ kmain[step] = f
         /\ step' = step + 1 /\ step' \in 1 .. Len(kmain) + 1
         /\ burst' \in 0 .. Burst
         /\ isr1 = {} /\ isr2 = {}
         /\ UNCHANGED <<boot, int_no, obf, owed>>
  BY CallOrder, DevicesAssumption
  DEF KernelInv, TypeOK, Prepared, Serviced, Calls, Executes

LEMMA InitOtherStep == ASSUME KernelInv, InitOther PROVE KernelInv'
<1>1. PICK f \in {"logger", "filesystem", "gdt", "terminal", "tasking"} : Calls(f)
  BY DEF InitOther
<1>2. /\ pc = "main" /\ step' = step + 1 /\ step' \in 1 .. Len(kmain) + 1
      /\ step \in 1 .. 14 /\ kmain[step] = f
      /\ burst' \in 0 .. Burst /\ UNCHANGED <<boot, int_no, obf, owed>>
      /\ UNCHANGED <<pc, iflag, idt, interrupt_handlers, remapped, irr, isr1, isr2, hang>>
  BY <1>1, CallsStep DEF InitOther, tables, pic
<1>3. step \in 1 .. 14 \ {7, 8, 10, 12, 13}
  BY <1>1, <1>2, CallOrder
<1>4. TypeOK'
  BY <1>2 DEF KernelInv, TypeOK
<1>5. Prepared'
  BY <1>2, <1>3 DEF KernelInv, Prepared
<1>6. Serviced' /\ Counted'
  BY <1>2 DEF KernelInv, Serviced, Counted, RequestsCountedOnce, InService
<1>7. QED
  BY <1>4, <1>5, <1>6 DEF KernelInv

LEMMA CheckStep == ASSUME KernelInv, Check PROVE KernelInv'
<1>1. PICK f \in {"multiboot", "ramdisk", "stop"} :
        /\ Calls(f)
        /\ IF Rejects(f) THEN Hang("panic") ELSE UNCHANGED <<pc, hang, iflag>>
  BY DEF Check
<1>2. /\ pc = "main" /\ hang = "none"
      /\ step' = step + 1 /\ step' \in 1 .. Len(kmain) + 1
      /\ step \in 1 .. 14 /\ kmain[step] = f
      /\ burst' \in 0 .. Burst /\ UNCHANGED <<boot, int_no, obf, owed>>
      /\ isr1 = {} /\ isr2 = {}
      /\ UNCHANGED <<idt, interrupt_handlers, remapped, irr, isr1, isr2>>
  BY <1>1, CallsStep DEF Check, tables, pic
<1>3. step \in 1 .. 14 \ {7, 8, 10, 12, 13}
  BY <1>1, <1>2, CallOrder
<1>4. \/ pc' = "hang" /\ hang' = "panic" /\ iflag' = FALSE
      \/ UNCHANGED <<pc, hang, iflag>>
  BY <1>1 DEF Hang
<1>5. TypeOK'
  BY <1>2, <1>4 DEF KernelInv, TypeOK
<1>6. Prepared'
  <2>1. CASE pc' = "hang" /\ hang' = "panic" /\ iflag' = FALSE
    BY <1>2, <1>3, <2>1 DEF KernelInv, Prepared
  <2>2. CASE UNCHANGED <<pc, hang, iflag>>
    BY <1>2, <1>3, <2>2 DEF KernelInv, Prepared
  <2>3. QED
    BY <1>4, <2>1, <2>2
<1>7. Serviced'
  BY <1>2, <1>4 DEF KernelInv, Serviced
<1>8. Counted'
  BY <1>2, <1>4 DEF KernelInv, Counted, RequestsCountedOnce, InService
<1>9. QED
  BY <1>5, <1>6, <1>7, <1>8 DEF KernelInv

\* Before init_pic nothing is owed, and after it nothing is requested.
LEMMA InitPicStep == ASSUME KernelInv, init_pic PROVE KernelInv'
<1>1. /\ pc = "main" /\ step' = step + 1 /\ step' \in 1 .. Len(kmain) + 1
      /\ step = 7
      /\ burst' \in 0 .. Burst /\ UNCHANGED <<boot, int_no, obf, owed>>
      /\ remapped' = TRUE /\ irr' = {} /\ isr1' = {} /\ isr2' = {}
      /\ UNCHANGED <<pc, iflag, idt, interrupt_handlers, hang>>
  BY CallsStep, CallOrder DEF init_pic, tables
<1>2. TypeOK'
  BY <1>1 DEF KernelInv, TypeOK
<1>3. Prepared'
  BY <1>1 DEF KernelInv, Prepared
<1>4. Serviced'
  BY <1>1 DEF KernelInv, Serviced
<1>5. owed = 0
  BY <1>1 DEF KernelInv, Prepared, Counted
<1>6. Counted'
  <2>1. Cardinality(irr' \cap {0}) = 0
    BY <1>1, OneRequest
  <2>2. QED
    BY <1>1, <1>5, <2>1 DEF Counted, RequestsCountedOnce, InService
<1>7. QED
  BY <1>2, <1>3, <1>4, <1>6 DEF KernelInv

LEMMA InitIdtStep == ASSUME KernelInv, init_idt PROVE KernelInv'
<1>1. /\ pc = "main" /\ step' = step + 1 /\ step' \in 1 .. Len(kmain) + 1
      /\ step = 8
      /\ burst' \in 0 .. Burst /\ UNCHANGED <<boot, int_no, obf, owed>>
      /\ idt' = Vectors
      /\ UNCHANGED <<pc, iflag, interrupt_handlers, remapped, irr, isr1, isr2, hang>>
  BY CallsStep, CallOrder DEF init_idt, pic
<1>2. TypeOK'
  BY <1>1 DEF KernelInv, TypeOK
<1>3. Prepared'
  BY <1>1 DEF KernelInv, Prepared
<1>4. Serviced' /\ Counted'
  BY <1>1 DEF KernelInv, Serviced, Counted, RequestsCountedOnce, InService
<1>5. QED
  BY <1>2, <1>3, <1>4 DEF KernelInv

LEMMA InitDeviceStep == ASSUME KernelInv, InitDevice PROVE KernelInv'
<1>. DEFINE Registers(n, v, handler) ==
        /\ pc = "main" /\ step = n
        /\ interrupt_handlers' = [interrupt_handlers EXCEPT ![v] = handler]
<1>1. /\ step' = step + 1 /\ step' \in 1 .. Len(kmain) + 1
      /\ burst' \in 0 .. Burst /\ UNCHANGED <<boot, int_no, obf, owed>>
      /\ UNCHANGED <<pc, iflag, idt, remapped, irr, isr1, isr2, hang>>
  BY CallsStep DEF InitDevice, pic
<1>2. \/ Registers(10, 33, "keyboard_handler")
      \/ Registers(11, 14, "page_fault_handler")
      \/ Registers(12, 32, "timer_callback")
  BY CallsStep, CallOrder DEF InitDevice, register_interrupt_handler
<1>3. interrupt_handlers \in
         [Vectors -> {"none", "keyboard_handler", "page_fault_handler", "timer_callback"}]
  BY DEF KernelInv, TypeOK
<1>4. TypeOK'
  <2>1. interrupt_handlers' \in
           [Vectors -> {"none", "keyboard_handler", "page_fault_handler", "timer_callback"}]
    BY <1>2, <1>3
  <2>2. QED
    BY <1>1, <2>1 DEF KernelInv, TypeOK
<1>5. Prepared'
  <2>1. CASE Registers(10, 33, "keyboard_handler")
    BY <1>1, <1>3, <2>1 DEF KernelInv, Prepared, Vectors
  <2>2. CASE Registers(11, 14, "page_fault_handler")
    BY <1>1, <1>3, <2>2 DEF KernelInv, Prepared, Vectors
  <2>3. CASE Registers(12, 32, "timer_callback")
    BY <1>1, <1>3, <2>3 DEF KernelInv, Prepared, Vectors
  <2>4. QED
    BY <1>2, <2>1, <2>2, <2>3
<1>6. Serviced' /\ Counted'
  BY <1>1, <1>2 DEF KernelInv, Serviced, Counted, RequestsCountedOnce, InService
<1>7. QED
  BY <1>4, <1>5, <1>6 DEF KernelInv

LEMMA StiStep == ASSUME KernelInv, Sti PROVE KernelInv'
<1>1. /\ pc = "main" /\ step' = step + 1 /\ step' \in 1 .. Len(kmain) + 1
      /\ step = 13
      /\ burst' \in 0 .. Burst /\ UNCHANGED <<boot, int_no, obf, owed>>
      /\ iflag' = TRUE
      /\ UNCHANGED <<pc, idt, interrupt_handlers, remapped, irr, isr1, isr2, hang>>
  BY CallsStep, CallOrder DEF Sti, tables, pic
<1>2. TypeOK'
  BY <1>1 DEF KernelInv, TypeOK
<1>3. Prepared'
  BY <1>1 DEF KernelInv, Prepared
<1>4. Serviced' /\ Counted'
  BY <1>1 DEF KernelInv, Serviced, Counted, RequestsCountedOnce, InService
<1>5. QED
  BY <1>2, <1>3, <1>4 DEF KernelInv

\* The loop, and what leaves the kernel where it is.
LEMMA StutterStep == ASSUME KernelInv, Run \/ UNCHANGED vars PROVE KernelInv'
<1>1. /\ UNCHANGED <<boot, step, pc, int_no, iflag, idt, interrupt_handlers, remapped,
                     irr, isr1, isr2, obf, owed, hang>>
      /\ burst' \in 0 .. Burst
  <2>1. CASE Run
    BY <2>1, DevicesAssumption DEF Run, tables, pic
  <2>2. CASE UNCHANGED vars
    BY <2>2 DEF vars, tables, pic, clock, KernelInv, TypeOK
  <2>3. QED
    BY <2>1, <2>2
<1>2. TypeOK'
  BY <1>1 DEF KernelInv, TypeOK
<1>3. Prepared' /\ Serviced' /\ Counted'
  BY <1>1 DEF KernelInv, Prepared, Serviced, Counted, RequestsCountedOnce, InService
<1>4. QED
  BY <1>2, <1>3 DEF KernelInv

-----------------------------------------------------------------------------
(***************************************************************************)
(* Devices and interrupts.                                                 *)
(***************************************************************************)

\* A request that finds one pending is absorbed and owes nothing more.
LEMMA PitPeriodStep == ASSUME KernelInv, pc # "hang", PitPeriod PROVE KernelInv'
<1>1. /\ UNCHANGED <<boot, step, pc, int_no, iflag, idt, interrupt_handlers, remapped,
                     isr1, isr2, obf, hang>>
      /\ irr' = irr \cup {0}
      /\ owed' = IF remapped /\ 0 \notin irr THEN owed + 1 ELSE owed
      /\ burst' \in 0 .. Burst
  BY Numbers DEF PitPeriod, Request, tables
<1>2. hang = "none" /\ owed \in Int
  BY Numbers DEF KernelInv, Prepared
<1>3. Counted'
  <2>1. /\ Cardinality(irr' \cap {0}) = 1
        /\ 0 \notin irr => Cardinality(irr \cap {0}) = 0
        /\ 0 \in irr => Cardinality(irr \cap {0}) = 1
    BY <1>1, OneRequest
  <2>2. QED
    BY <1>1, <1>2, <2>1 DEF KernelInv, Counted, RequestsCountedOnce, InService
<1>4. TypeOK'
  <2>1. owed' \in 0 .. 2
    <3>1. CASE remapped /\ 0 \notin irr
      <4>1. owed = IF InService(0) THEN 1 ELSE 0
        BY <1>2, <3>1, OneRequest DEF KernelInv, Counted, RequestsCountedOnce
      <4>2. QED
        BY <1>1, <3>1, <4>1
    <3>2. CASE ~(remapped /\ 0 \notin irr)
      BY <1>1, <3>2 DEF KernelInv, TypeOK
    <3>3. QED
      BY <3>1, <3>2
  <2>2. irr' \subseteq Lines
    <3>1. irr \subseteq Lines
      BY DEF KernelInv, TypeOK
    <3>2. QED
      BY <1>1, <3>1 DEF Lines
  <2>3. QED
    BY <1>1, <2>1, <2>2 DEF KernelInv, TypeOK
<1>5. Prepared'
  BY <1>1 DEF KernelInv, Prepared
<1>6. Serviced'
  BY <1>1 DEF KernelInv, Serviced, InUse
<1>7. QED
  BY <1>3, <1>4, <1>5, <1>6 DEF KernelInv

\* The keyboard and the devices leave the line of the timer alone.
LEMMA OtherRequestStep ==
  ASSUME KernelInv, KeyByte \/ DeviceRequest
  PROVE  KernelInv'
<1>1. PICK i \in {1} \cup Devices : irr' = irr \cup {i}
  BY DEF KeyByte, DeviceRequest, Request
<1>2. UNCHANGED <<boot, step, pc, int_no, iflag, idt, interrupt_handlers, remapped,
                  isr1, isr2, owed, hang>>
  BY DEF KeyByte, DeviceRequest, tables, clock
<1>3. obf' \in BOOLEAN /\ burst' \in 0 .. Burst
  <2>1. CASE KeyByte
    BY <2>1, Numbers DEF KeyByte
  <2>2. CASE DeviceRequest
    BY <2>2 DEF DeviceRequest, clock, KernelInv, TypeOK
  <2>3. QED
    BY <2>1, <2>2
<1>4. i \in Lines /\ i # 0 /\ i \in InUse
  BY DevicesAssumption DEF Lines, InUse
<1>5. TypeOK'
  BY <1>1, <1>2, <1>3, <1>4 DEF KernelInv, TypeOK
<1>6. Prepared'
  BY <1>2 DEF KernelInv, Prepared
<1>7. Serviced'
  BY <1>1, <1>2, <1>4 DEF KernelInv, Serviced
<1>8. Counted'
  <2>1. irr' \cap {0} = irr \cap {0}
    BY <1>1, <1>4
  <2>2. QED
    BY <1>2, <2>1 DEF KernelInv, Counted, RequestsCountedOnce, InService
<1>9. QED
  BY <1>5, <1>6, <1>7, <1>8 DEF KernelInv

\* An interrupt finds everything prepared, and a pending request of the timer
\* becomes the one that is being handled.
LEMMA AcknowledgeStep == ASSUME KernelInv, Acknowledge PROVE KernelInv'
<1>1. PICK i \in Lines :
        /\ Highest(i)
        /\ irr' = irr \ {i}
        /\ isr1' = isr1 \cup {Level(i)}
        /\ isr2' = IF i >= 8 THEN isr2 \cup {i} ELSE isr2
        /\ int_no' = Vector(i)
        /\ IF Vector(i) \notin idt
           THEN Hang("no gate")
           ELSE /\ pc' = IF Vector(i) >= 32 THEN "irq" ELSE "isr"
                /\ iflag' = FALSE
                /\ UNCHANGED hang
  BY DEF Acknowledge
<1>2. /\ pc = "main" /\ iflag
      /\ UNCHANGED <<boot, step, idt, interrupt_handlers, remapped, obf, owed, burst>>
  BY DEF Acknowledge, tables, clock
<1>3. step > 13 /\ remapped /\ idt = Vectors /\ hang = "none"
  BY <1>2 DEF KernelInv, TypeOK, Prepared
<1>4. i \in irr /\ i \in InUse /\ i \in 0 .. 15
  BY <1>1 DEF Highest, Deliverable, KernelInv, Serviced, Lines
<1>5. int_no' = 32 + i /\ int_no' \in Vectors
  <2>1. Vector(i) = 32 + i
    BY <1>3 DEF Vector
  <2>2. int_no' = 32 + i
    BY <1>1, <2>1, Zenon
  <2>3. QED
    BY <1>4, <2>2 DEF Vectors
<1>6. pc' = "irq" /\ iflag' = FALSE /\ hang' = hang
  BY <1>1, <1>3, <1>4, <1>5
<1>7. isr1' = {Level(i)} /\ isr2' = IF i >= 8 THEN {i} ELSE {}
  BY <1>1, <1>2 DEF KernelInv, Serviced
<1>8. TypeOK'
  <2>1. isr1' \subseteq 0 .. 7 /\ isr2' \subseteq 8 .. 15
    BY <1>4, <1>7 DEF Level
  <2>2. irr' \subseteq Lines
    BY <1>1 DEF KernelInv, TypeOK
  <2>3. QED
    BY <1>2, <1>5, <1>6, <2>1, <2>2 DEF KernelInv, TypeOK
<1>9. Prepared'
  BY <1>2, <1>3, <1>6 DEF KernelInv, Prepared
<1>10. int_no' - 32 = i
  BY <1>4, <1>5
<1>11. Serviced'
  BY <1>1, <1>4, <1>6, <1>7, <1>10 DEF KernelInv, Serviced
<1>12. Counted'
  <2>1. owed = Cardinality(irr \cap {0})
    <3>1. ~InService(0)
      BY <1>2 DEF InService
    <3>2. Cardinality(irr \cap {0}) \in {0, 1}
      BY OneRequest
    <3>3. QED
      BY <1>3, <3>1, <3>2 DEF KernelInv, Counted, RequestsCountedOnce
  <2>2. CASE i = 0
    <3>1. Cardinality(irr \cap {0}) = 1 /\ Cardinality(irr' \cap {0}) = 0
      BY <1>1, <1>4, <2>2, OneRequest
    <3>2. QED
      BY <1>2, <1>3, <1>5, <1>6, <2>1, <2>2, <3>1
      DEF Counted, RequestsCountedOnce, InService
  <2>3. CASE i # 0
    <3>1. irr' \cap {0} = irr \cap {0}
      BY <1>1, <2>3
    <3>2. int_no' # 32 + 0
      BY <1>4, <1>5, <2>3
    <3>3. QED
      BY <1>2, <1>3, <2>1, <3>1, <3>2 DEF KernelInv, TypeOK, Counted, RequestsCountedOnce, InService
  <2>4. QED
    BY <2>2, <2>3
<1>13. QED
  BY <1>8, <1>9, <1>11, <1>12 DEF KernelInv

\* Nothing stays in service: the only line in service is the highest one.
LEMMA SendEoiStep == ASSUME KernelInv, SendEoi PROVE KernelInv'
<1>1. /\ pc = "irq" /\ pc' = "dispatch"
      /\ isr2' = IF int_no - 32 >= 8 THEN Eoi(isr2) ELSE isr2
      /\ isr1' = Eoi(isr1)
      /\ UNCHANGED <<boot, step, int_no, iflag, idt, interrupt_handlers, remapped, irr,
                     obf, owed, burst, hang>>
  BY DEF SendEoi, pic_send_eoi, tables, clock
<1>2. /\ int_no \in Int
      /\ isr1 = {Level(int_no - 32)}
      /\ isr2 = IF int_no - 32 >= 8 THEN {int_no - 32} ELSE {}
  BY <1>1, Numbers DEF KernelInv, Serviced
<1>3. \A x \in Int : Eoi({x}) = {}
  BY DEF Eoi
<1>4. isr1' = {} /\ isr2' = {}
  BY <1>1, <1>2, <1>3 DEF Level
<1>5. TypeOK'
  BY <1>1, <1>4 DEF KernelInv, TypeOK
<1>6. Prepared'
  BY <1>1 DEF KernelInv, Prepared
<1>7. Serviced'
  BY <1>1, <1>4 DEF KernelInv, Serviced
<1>8. Counted'
  BY <1>1 DEF KernelInv, Counted, RequestsCountedOnce, InService
<1>9. QED
  BY <1>5, <1>6, <1>7, <1>8 DEF KernelInv

\* The handler of the timer counts what it was called for; a line that hangs has
\* no handler and is not the one of the timer or of the keyboard.
LEMMA DispatchStep == ASSUME KernelInv, Dispatch PROVE KernelInv'
<1>1. /\ pc = "dispatch"
      /\ timer_callback \/ keyboard_handler \/ Unhandled
      /\ UNCHANGED <<boot, step, int_no, idt, interrupt_handlers, remapped, irr, isr1, isr2,
                     burst>>
  BY DEF Dispatch, tables, pic
<1>2. /\ step > 13 /\ hang = "none" /\ isr1 = {} /\ isr2 = {}
      /\ int_no \in Vectors /\ int_no \in Int /\ int_no - 32 \in InUse /\ owed \in 0 .. 2
      /\ interrupt_handlers[33] = "keyboard_handler"
      /\ interrupt_handlers[32] = "timer_callback"
      /\ step \in Int /\ remapped
  <2>1. step > 13 /\ hang = "none"
    BY <1>1 DEF KernelInv, Prepared
  <2>2. isr1 = {} /\ isr2 = {} /\ int_no - 32 \in InUse
    BY <1>1 DEF KernelInv, Serviced
  <2>3. QED
    BY <2>1, <2>2, Numbers DEF KernelInv, Prepared, Vectors
<1>3. owed = Cardinality(irr \cap {0}) + (IF int_no = 32 THEN 1 ELSE 0)
  BY <1>1, <1>2 DEF KernelInv, Counted, RequestsCountedOnce, InService
<1>4. Cardinality(irr \cap {0}) \in {0, 1}
  BY OneRequest
<1>5. CASE timer_callback
  <2>1. /\ int_no = 32 /\ owed' = owed - 1 /\ pc' = "main" /\ iflag' = TRUE
        /\ UNCHANGED <<obf, hang>>
    BY <1>2, <1>5 DEF timer_callback, Iret, KernelInv, Prepared
  <2>2. TypeOK'
    <3>1. owed' \in 0 .. 2
      BY <1>3, <1>4, <2>1
    <3>2. QED
      BY <1>1, <2>1, <3>1 DEF KernelInv, TypeOK
  <2>3. Prepared'
    BY <1>1, <1>2, <2>1 DEF KernelInv, Prepared
  <2>4. Serviced'
    BY <1>1, <1>2, <2>1 DEF KernelInv, Serviced
  <2>5. Counted'
    BY <1>1, <1>2, <1>3, <1>4, <2>1 DEF Counted, RequestsCountedOnce, InService
  <2>6. QED
    BY <2>2, <2>3, <2>4, <2>5 DEF KernelInv
<1>6. CASE keyboard_handler
  <2>1. /\ int_no = 33 /\ obf' = FALSE /\ owed' = owed
    BY <1>2, <1>6 DEF keyboard_handler, KernelInv, Prepared
  <2>2. \/ pc' = "main" /\ iflag' = TRUE /\ hang' = "none"
        \/ pc' = "hang" /\ iflag' = FALSE /\ hang' = "key"
    BY <1>2, <1>6 DEF keyboard_handler, Iret, Hang
  <2>3. TypeOK'
    BY <1>1, <2>1, <2>2 DEF KernelInv, TypeOK
  <2>4. Prepared'
    <3>1. CASE pc' = "main" /\ iflag' = TRUE /\ hang' = "none"
      BY <1>1, <1>2, <3>1 DEF KernelInv, Prepared
    <3>2. CASE pc' = "hang" /\ iflag' = FALSE /\ hang' = "key"
      BY <1>1, <1>2, <3>2 DEF KernelInv, Prepared
    <3>3. QED
      BY <2>2, <3>1, <3>2
  <2>5. Serviced'
    BY <1>1, <1>2, <2>2 DEF KernelInv, Serviced
  <2>6. Counted'
    BY <1>1, <1>2, <1>3, <1>4, <2>1, <2>2 DEF Counted, RequestsCountedOnce, InService
  <2>7. QED
    BY <2>3, <2>4, <2>5, <2>6 DEF KernelInv
<1>7. CASE Unhandled
  <2>1. /\ interrupt_handlers[int_no] = "none"
        /\ pc' = "hang" /\ hang' = "unhandled" /\ iflag' = FALSE
        /\ UNCHANGED <<obf, owed>>
    BY <1>7 DEF Unhandled, Hang
  <2>2. int_no - 32 \in Devices
    BY <1>2, <2>1 DEF InUse
  <2>3. TypeOK'
    BY <1>1, <2>1 DEF KernelInv, TypeOK
  <2>4. Prepared'
    BY <1>1, <1>2, <2>1, <2>2 DEF KernelInv, Prepared
  <2>5. Serviced'
    BY <1>1, <1>2, <2>1 DEF KernelInv, Serviced
  <2>6. Counted'
    BY <1>1, <1>2, <2>1 DEF Counted, RequestsCountedOnce
  <2>7. QED
    BY <2>3, <2>4, <2>5, <2>6 DEF KernelInv
<1>8. QED
  BY <1>1, <1>5, <1>6, <1>7

LEMMA FaultStep == ASSUME KernelInv, Fault PROVE KernelInv'
<1>1. /\ pc = "main" /\ pc' = "isr" /\ int_no' \in Faults
      /\ UNCHANGED <<boot, step, iflag, idt, interrupt_handlers, remapped, irr, isr1, isr2,
                     obf, owed, burst, hang>>
  BY DEF Fault, Executes, tables, pic, clock
<1>2. int_no' \in Vectors
  BY <1>1, FaultsAssumption DEF Vectors
<1>3. hang = "none" /\ isr1 = {} /\ isr2 = {}
  BY <1>1 DEF KernelInv, Prepared, Serviced
<1>4. TypeOK'
  BY <1>1, <1>2 DEF KernelInv, TypeOK
<1>5. Prepared'
  BY <1>1, <1>3 DEF KernelInv, Prepared
<1>6. Serviced' /\ Counted'
  BY <1>1, <1>3 DEF KernelInv, Serviced, Counted, RequestsCountedOnce, InService
<1>7. QED
  BY <1>4, <1>5, <1>6 DEF KernelInv

LEMMA IsrHandlerStep == ASSUME KernelInv, isr_handler PROVE KernelInv'
<1>1. /\ pc = "isr"
      /\ UNCHANGED <<boot, step, int_no, idt, interrupt_handlers, remapped, irr, isr1, isr2,
                     obf, owed, burst>>
  BY DEF isr_handler, tables, pic, clock
<1>2. hang = "none" /\ isr1 = {} /\ isr2 = {}
  BY <1>1 DEF KernelInv, Prepared, Serviced
<1>3. \/ pc' = "hang" /\ hang' = "page fault" /\ iflag' = FALSE
      \/ pc' = "main" /\ UNCHANGED <<hang, iflag>>
  BY DEF isr_handler, Hang
<1>4. TypeOK'
  BY <1>1, <1>3 DEF KernelInv, TypeOK
<1>5. Prepared'
  <2>1. CASE pc' = "hang" /\ hang' = "page fault" /\ iflag' = FALSE
    BY <1>1, <1>2, <2>1 DEF KernelInv, Prepared
  <2>2. CASE pc' = "main" /\ UNCHANGED <<hang, iflag>>
    BY <1>1, <1>2, <2>2 DEF KernelInv, Prepared
  <2>3. QED
    BY <1>3, <2>1, <2>2
<1>6. Serviced'
  BY <1>1, <1>2, <1>3 DEF KernelInv, Serviced
<1>7. Counted'
  BY <1>1, <1>2, <1>3 DEF KernelInv, Counted, RequestsCountedOnce, InService
<1>8. QED
  BY <1>4, <1>5, <1>6, <1>7 DEF KernelInv

LEMMA KernelStep == ASSUME KernelInv, [Next]_vars PROVE KernelInv'
<1>1. CASE Kmain
  BY <1>1, InitOtherStep, CheckStep, InitPicStep, InitIdtStep, InitDeviceStep, StiStep,
     StutterStep DEF Kmain
<1>2. CASE Acknowledge \/ SendEoi \/ Dispatch \/ isr_handler
  BY <1>2, AcknowledgeStep, SendEoiStep, DispatchStep, IsrHandlerStep
<1>3. CASE Spin \/ UNCHANGED vars
  BY <1>3, StutterStep DEF Spin
<1>4. CASE Device
  BY <1>4, PitPeriodStep, OtherRequestStep DEF Device
<1>5. CASE Fault
  BY <1>5, FaultStep
<1>6. QED
  BY <1>1, <1>2, <1>3, <1>4, <1>5 DEF Next, Cpu

-----------------------------------------------------------------------------
(***************************************************************************)
(* The kernel with its keyboard.                                           *)
(***************************************************************************)

\* With the keyboard in front of it the kernel does what it does with any device.
LEMMA ToKernel == [InputNext]_ivars => [Next]_vars
<1>1. ASSUME Types PROVE UNCHANGED vars
  BY <1>1 DEF Types
<1>2. ASSUME Signals PROVE Next
  BY <1>2 DEF Signals, Next, Device
<1>3. ASSUME Handles PROVE Next
  BY <1>3 DEF Handles, Next, Cpu
<1>4. ASSUME Elsewhere PROVE Next
  BY <1>4 DEF Elsewhere
<1>5. ASSUME UNCHANGED ivars PROVE UNCHANGED vars
  BY <1>5 DEF ivars
<1>6. QED
  BY <1>1, <1>2, <1>3, <1>4, <1>5 DEF InputNext

\* Scan codes that wait go on waiting when another one is sent.
LEMMA SendsStep ==
  ASSUME codes \in Seq(Int), NEW k \in Keys, Sends(Make(k)) \/ Sends(Break(k))
  PROVE  codes' \in Seq(Int) /\ (codes # << >> => codes' # << >>)
<1>1. k \in Nat
  BY KeysAssumption
<1>2. Code(k) \in Int /\ Code(k) + 128 \in Int
  BY <1>1 DEF Code
<1>3. Prefix(k) \in Seq(Int)
  BY DEF Prefix
<1>4. Make(k) \in Seq(Int) /\ Break(k) \in Seq(Int)
  BY <1>2, <1>3 DEF Make, Break
<1>5. PICK s \in Seq(Int) : codes' = codes \o s
  BY <1>4 DEF Sends
<1>6. QED
  BY <1>5

LEMMA TypesStep == ASSUME KernelInv, Waiting, Types PROVE Waiting'
<1>1. PICK k \in Keys : Press(k) \/ Repeat(k) \/ Release(k)
  BY DEF Types, Typist
<1>2. Sends(Make(k)) \/ Sends(Break(k))
  BY <1>1 DEF Press, Repeat, Release, Hit
<1>3. codes' \in Seq(Int) /\ (codes # << >> => codes' # << >>)
  BY <1>2, SendsStep DEF Waiting
<1>4. UNCHANGED <<obf, irr, pc, int_no>>
  BY DEF Types, vars, pic
<1>5. QED
  BY <1>3, <1>4 DEF Waiting, InService

LEMMA SignalsStep == ASSUME KernelInv, Waiting, Signals PROVE Waiting'
<1>1. /\ codes # << >> /\ codes' = codes /\ ~obf /\ obf'
      /\ UNCHANGED <<pc, int_no>>
  BY DEF Signals, KeyByte, kvars
<1>2. QED
  BY <1>1 DEF Waiting, InService

\* The byte that is read is the one that was signalled; no request is left over.
LEMMA HandlesStep == ASSUME KernelInv, Waiting, Handles PROVE Waiting'
<1>1. /\ pc = "dispatch" /\ pc' # "dispatch" /\ pc' # "irq" /\ ~obf'
      /\ int_no \in Vectors /\ interrupt_handlers[int_no] = "keyboard_handler"
      /\ irr' = irr
  BY Numbers DEF Handles, Dispatch, pic, timer_callback, keyboard_handler, Unhandled, Iret, Hang,
     Vectors
<1>2. InService(1)
  BY <1>1 DEF KernelInv, Prepared, InService
<1>3. codes # << >> /\ codes' = Tail(codes)
  BY DEF Handles, ReadCode
<1>4. codes' \in Seq(Int)
  BY <1>3 DEF Waiting
<1>5. QED
  BY <1>1, <1>2, <1>4 DEF Waiting, InService

LEMMA ElsewhereStep == ASSUME KernelInv, Waiting, Elsewhere PROVE Waiting'
<1>1. Next /\ obf' = obf /\ codes' = codes
  BY DEF Elsewhere, kvars
<1>2. CASE KeyByte
  BY <1>1, <1>2 DEF KeyByte
<1>3. CASE Acknowledge
  <2>1. PICK i \in Lines : Highest(i) /\ irr' = irr \ {i} /\ int_no' = Vector(i)
    BY <1>3 DEF Acknowledge
  <2>2. i \in irr /\ i \in 0 .. 15
    BY <2>1 DEF Highest, Deliverable, Lines
  <2>3. remapped
    <3>1. step > 13
      BY <1>3 DEF Acknowledge, KernelInv, Prepared
    <3>2. step > 7
      BY <3>1, Numbers
    <3>3. QED
      BY <3>2, Zenon DEF KernelInv, Prepared
  <2>4. int_no' = 32 + i
    BY <2>1, <2>3 DEF Vector
  <2>5. InService(1)' => i = 1
    BY <2>2, <2>4 DEF InService
  <2>6. QED
    BY <1>1, <2>1, <2>2, <2>5 DEF Waiting
<1>4. CASE ~KeyByte /\ ~Acknowledge
  <2>1. 1 \in irr' => 1 \in irr
    <3>1. CASE Kmain
      BY <3>1 DEF Kmain, InitOther, Check, init_pic, init_idt, InitDevice, Sti, Run, pic
    <3>2. CASE SendEoi \/ Dispatch \/ isr_handler \/ Spin \/ Fault
      BY <3>2 DEF SendEoi, Dispatch, isr_handler, Spin, Fault, vars, pic
    <3>3. CASE PitPeriod
      BY <3>3 DEF PitPeriod, Request
    <3>4. CASE DeviceRequest
      BY <3>4, DevicesAssumption DEF DeviceRequest, Request
    <3>5. QED
      BY <1>1, <1>4, <3>1, <3>2, <3>3, <3>4 DEF Next, Cpu, Device
  <2>2. InService(1)' => InService(1)
    BY <1>1, <1>4
    DEF Next, Cpu, Kmain, InitOther, Check, init_pic, init_idt, InitDevice, Sti, Run, SendEoi,
        Dispatch, isr_handler, Spin, Device, PitPeriod, DeviceRequest, Fault, vars,
        InService, Calls, Executes, Hang, Iret, timer_callback, keyboard_handler, Unhandled
  <2>3. QED
    BY <1>1, <2>1, <2>2 DEF Waiting
<1>5. QED
  BY <1>2, <1>3, <1>4

\* The invariant of the kernel and its keyboard.
THEOREM InductiveInvariant == InputSpec => []IInv
<1>1. InputInit => IInv
  <2>1. InputInit => KernelInv
    BY InitKernel DEF InputInit
  <2>2. InputInit => Waiting
    BY DEF InputInit, Init, KInit, Waiting, InService
  <2>3. QED
    BY <2>1, <2>2 DEF IInv
<1>2. IInv /\ [InputNext]_ivars => IInv'
  <2>. SUFFICES ASSUME IInv, [InputNext]_ivars PROVE IInv'
    OBVIOUS
  <2>1. KernelInv /\ Waiting
    BY DEF IInv
  <2>2. KernelInv'
    BY <2>1, ToKernel, KernelStep
  <2>3. Waiting'
    <3>1. CASE UNCHANGED ivars
      BY <2>1, <3>1 DEF ivars, vars, kvars, pic, Waiting, InService
    <3>2. QED
      BY <2>1, <3>1, TypesStep, SignalsStep, HandlesStep, ElsewhereStep DEF InputNext
  <2>4. QED
    BY <2>2, <2>3 DEF IInv
<1>3. QED
  BY <1>1, <1>2, PTL DEF InputSpec

\* The kernel with its keyboard implements the kernel with any devices: what holds of
\* every behaviour of Kernel holds of the composition (liveness aside).
THEOREM ImplementsKernel == InputSpec => Init /\ [][Next]_vars
<1>1. InputInit => Init
  BY DEF InputInit
<1>2. QED
  BY <1>1, ToKernel, PTL DEF InputSpec

\* The variables of the kernel have their types.
THEOREM KernelTypeCorrect == InputSpec => []TypeOK
<1>1. IInv => TypeOK
  BY DEF IInv, KernelInv
<1>2. QED
  BY <1>1, InductiveInvariant, PTL

\* Every interrupt taken is ended at both controllers before its handler runs.
THEOREM EveryServiceEnds == InputSpec => []ServiceEnds
<1>1. IInv => ServiceEnds
  BY DEF IInv, KernelInv, Serviced, ServiceEnds
<1>2. QED
  BY <1>1, InductiveInvariant, PTL

\* Interrupts find their gates, and the timer and the keyboard their handlers.
THEOREM BootOrderCorrect == InputSpec => []OnlyForeignLinesHang
<1>1. IInv => OnlyForeignLinesHang
  BY DEF IInv, KernelInv, Prepared, OnlyForeignLinesHang
<1>2. QED
  BY <1>1, InductiveInvariant, PTL

\* Every request of the timer becomes one tick.
THEOREM TicksCorrect == InputSpec => []RequestsCountedOnce
<1>1. IInv => RequestsCountedOnce
  BY DEF IInv, KernelInv, Counted
<1>2. QED
  BY <1>1, InductiveInvariant, PTL

\* keyboard_handler never reads port 0x60 for a code that is not there.
THEOREM ReadsAreFresh == InputSpec => []InterruptHasCode
<1>1. IInv => InterruptHasCode
  BY DEF IInv, Waiting, InterruptHasCode
<1>2. QED
  BY <1>1, InductiveInvariant, PTL

-----------------------------------------------------------------------------
(***************************************************************************)
(* The driver in the kernel.                                               *)
(***************************************************************************)

\* Interrupts are the only way the driver's steps differ from those of Keyboard alone.
LEMMA ToKeyboard == [InputNext]_ivars => [KNext]_kvars
<1>1. ASSUME Types PROVE KNext
  BY <1>1 DEF Types, KNext
<1>2. ASSUME Signals \/ Elsewhere PROVE UNCHANGED kvars
  BY <1>2 DEF Signals, Elsewhere
<1>3. ASSUME Handles PROVE KNext
  BY <1>3 DEF Handles, KNext
<1>4. ASSUME UNCHANGED ivars PROVE UNCHANGED kvars
  BY <1>4 DEF ivars
<1>5. QED
  BY <1>1, <1>2, <1>3, <1>4 DEF InputNext

THEOREM ImplementsKeyboard == InputSpec => KInit /\ [][KNext]_kvars
<1>1. InputInit => KInit
  BY DEF InputInit
<1>2. QED
  BY <1>1, ToKeyboard, PTL DEF InputSpec

LEMMA DriverInvariant == ASSUME PlainShifts PROVE InputSpec => []KInv
<1>1. InputInit => KInv
  BY InitKInv DEF InputInit
<1>2. KInv /\ [InputNext]_ivars => KInv'
  BY ToKeyboard, KStep
<1>3. QED
  BY <1>1, <1>2, PTL DEF InputSpec

\* Every variable of boot, interrupts, keys and driver keeps its type: the counter of
\* SHIFT keys is at least -1, and only characters of keymap are printed.
THEOREM TypesCorrect == InputSpec => []InputTypeOK
<1>1. InputInit => KTypeOK
  BY KTypesInit DEF InputInit
<1>2. KTypeOK /\ [InputNext]_ivars => KTypeOK'
  BY ToKeyboard, KTypesStep
<1>3. InputSpec => []KTypeOK
  BY <1>1, <1>2, PTL DEF InputSpec
<1>4. TypeOK /\ KTypeOK => InputTypeOK
  BY DEF InputTypeOK
<1>5. QED
  BY <1>3, <1>4, KernelTypeCorrect, PTL

\* The screen gets what was typed, through every interleaving of keys, interrupts
\* of the keyboard and other interrupts.
THEOREM TypingCorrect == ASSUME PlainShifts PROVE InputSpec => []TypedAsHeld
  BY DriverInvariant, KInvTyped, PTL

\* The driver knows whether a SHIFT key is held.
THEOREM ShiftCorrect == ASSUME PlainShifts PROVE InputSpec => []ShiftFollowsKeys
  BY DriverInvariant, KInvShift, PTL
=============================================================================
