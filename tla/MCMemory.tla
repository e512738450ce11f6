------------------------------ MODULE MCMemory ------------------------------
(***************************************************************************)
(* Memory at the scale of 4 pages to a table.  As in memory.h the kernel   *)
(* is in the first directory slot, the page table area begins in the       *)
(* second and ends in the third, the frame area follows it, and the heap   *)
(* starts at a slot of its own and spans several.                          *)
(***************************************************************************)
EXTENDS Memory
=============================================================================
