----------------------------- MODULE MCTasking ------------------------------
(***************************************************************************)
(* Instances of Tasking for TLC.                                           *)
(***************************************************************************)
EXTENDS Tasking

\* The tasks of init_tasking: task1 yields ten times, the others for ever.
CodeRounds == [p \in 0 .. 2 |-> IF p = 1 THEN {10} ELSE {0}]

\* Any bodies: every finite task terminates after at most two rounds.
AnyRounds == [p \in 0 .. 4 |-> IF p \in Loops THEN {0} ELSE 0 .. 2]
=============================================================================
