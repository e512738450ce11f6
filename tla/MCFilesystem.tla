---------------------------- MODULE MCFilesystem ----------------------------
(***************************************************************************)
(* Instances of Filesystem for TLC.                                        *)
(***************************************************************************)
EXTENDS Filesystem

CONSTANTS LongestFile, MostFiles

\* Every ramdisk of at most MostFiles files of at most LongestFile bytes; the
\* bytes of a file are not below its name, so that the second one has few.
Blocks(name) ==
    {[name |-> name, data |-> d] :
        d \in UNION {[1 .. n -> {b \in Byte : b >= name}] : n \in 0 .. LongestFile}}
AllRamdisks ==
    UNION {[1 .. k -> UNION {Blocks(i) : i \in 1 .. k}] : k \in 0 .. MostFiles}

Hello == <<2, 1>>
=============================================================================
