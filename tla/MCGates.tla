------------------------------ MODULE MCGates ------------------------------
(***************************************************************************)
(* An instance of Gates for TLC.                                           *)
(***************************************************************************)
EXTENDS Gates

\* Stubs on both sides of a 64 KB boundary.
Linked ==
    [l \in Labels |-> IF l[1] = "isr" THEN << 16, 65000 + 16 * l[2] >> ELSE << 17, 16 * l[2] >>]

\* The kernel's code with the segments of init_gdt, and the values of its registers.
Running ==
    [eax |-> 11 * 65536 + 12, ebx |-> 21, ecx |-> 22, edx |-> 23, esi |-> 24, edi |-> 25,
     ebp |-> 26, eip |-> 27, cs |-> 8, eflags |-> 512, ds |-> 16, es |-> 16, fs |-> 16, gs |-> 16]

States ==
    { [cpu |-> Running, stack |-> << 31, 32, 33 >>],
      [cpu |-> [Running EXCEPT !.eax = 5, !.edx = 0], stack |-> << 34, 35 >>] }
=============================================================================
