----------------------------- MODULE RoundRobin -----------------------------
(***************************************************************************)
(* What the scheduler of kernel/tasking.c promises, without its pointers:  *)
(* a queue of live tasks whose head runs.  Tasks are created in pid order; *)
(* yielding moves the head to the back; exiting removes it; the kernel     *)
(* task 0 never exits.                                                     *)
(***************************************************************************)
EXTENDS Integers, Sequences

CONSTANT NTasks

VARIABLES queue, created

Init == queue = <<>> /\ created = 0

Create ==
    /\ created < NTasks
    /\ queue' = Append(queue, created)
    /\ created' = created + 1

Yield ==
    /\ Len(queue) > 1
    /\ queue' = Append(Tail(queue), Head(queue))
    /\ UNCHANGED created

Exit ==
    /\ Len(queue) > 1
    /\ Head(queue) # 0
    /\ queue' = Tail(queue)
    /\ UNCHANGED created

Next == Create \/ Yield \/ Exit

Spec == Init /\ [][Next]_<<queue, created>>
=============================================================================
