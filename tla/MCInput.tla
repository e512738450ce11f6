------------------------------ MODULE MCInput ------------------------------
(***************************************************************************)
(* An instance of Input for TLC.                                           *)
(***************************************************************************)
EXTENDS Input

\* Every combination of what kmain checks, the ramdisk ending below, at and
\* beyond KERNEL_END, with and without panic("stop").
AnyBootInfo == [magic : BOOLEAN, mods_count : {0, 1}, initrd_end : 2 .. 3, stop : BOOLEAN]
=============================================================================
