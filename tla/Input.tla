------------------------------- MODULE Input -------------------------------
(***************************************************************************)
(* Kernel and Keyboard together: a scan code travels from a key over the   *)
(* keyboard controller, the interrupt controller and irq_handler to        *)
(* keyboard_handler, among the interrupts of the timer and of other        *)
(* devices and from the time the kernel starts.                            *)
(***************************************************************************)
EXTENDS Kernel, Keyboard

ivars == <<vars, kvars>>

InputInit == Init /\ KInit

\* Somebody types.
Types ==
    /\ remapped /\ pc # "hang" /\ Typist
    /\ UNCHANGED vars

\* The controller signals the first scan code that waits.
Signals == pc # "hang" /\ codes # << >> /\ KeyByte /\ UNCHANGED kvars

\* keyboard_handler reads it, and hangs the kernel if it cannot handle the key.
Handles ==
    /\ interrupt_handlers[int_no] = "keyboard_handler"
    /\ Dispatch
    /\ ReadCode
    /\ pc' = "hang" <=> bad' # "none"

\* Everything else in the kernel leaves the keyboard controller alone.
Elsewhere == Next /\ obf' = obf /\ UNCHANGED kvars

InputNext == Types \/ Signals \/ Handles \/ Elsewhere

\* The CPU goes on executing, and the controller signals a code that waits.
InputSpec ==
    /\ InputInit /\ [][InputNext]_ivars
    /\ WF_ivars(Handles \/ (Cpu /\ Elsewhere))
    /\ SF_ivars(Signals)

-----------------------------------------------------------------------------
\* The type of every variable of the kernel and of the keyboard.
InputTypeOK == TypeOK /\ KTypeOK

\* Every character typed after init_pic is printed in the end, whatever the timer
\* and the other devices do, unless the kernel hangs first.
EveryKeyPrinted ==
    \A n \in 1 .. MaxTyped : Len(intended) >= n ~> Len(typed) >= n \/ pc = "hang"

\* Each interrupt of the keyboard finds a scan code of its own at port 0x60: no
\* read returns a stale or an absent code.
InterruptHasCode == obf \/ 1 \in irr \/ InService(1) => codes # << >>
=============================================================================
