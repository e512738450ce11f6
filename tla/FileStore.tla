----------------------------- MODULE FileStore ------------------------------
(***************************************************************************)
(* What the filesystem of kernel/filesystem.c promises of its files,       *)
(* without buffers and sizes: a file is a sequence of bytes with a cursor. *)
(* Reading and writing move the cursor past the bytes they touch, writing  *)
(* overwrites and extends, and nothing is ever read that was not written.  *)
(* A call that cannot be served stops the kernel, so it has no step here.  *)
(***************************************************************************)
EXTENDS Integers, Sequences

CONSTANTS Byte, Capacity

VARIABLES
    files,    \* the files created so far
    last      \* what the last read returned

Init == files = <<>> /\ last = <<>>

Create ==
    /\ files' = Append(files, [content |-> <<>>, cursor |-> 0])
    /\ UNCHANGED last

Read(f, n) ==
    LET file == files[f]
    IN  /\ file.cursor + n <= Len(file.content)
        /\ last' = SubSeq(file.content, file.cursor + 1, file.cursor + n)
        /\ files' = [files EXCEPT ![f].cursor = @ + n]

Write(f, data) ==
    LET file == files[f]
        end == file.cursor + Len(data)
    IN  /\ file.cursor <= Len(file.content)
        /\ end <= Capacity
        /\ files' = [files EXCEPT ![f] =
                       [content |-> SubSeq(file.content, 1, file.cursor) \o data
                                       \o SubSeq(file.content, end + 1, Len(file.content)),
                        cursor  |-> end]]
        /\ UNCHANGED last

Seek(f, p) ==
    /\ files' = [files EXCEPT ![f].cursor = p]
    /\ UNCHANGED last

\* Data of at most Capacity bytes.
Data == UNION {[1 .. n -> Byte] : n \in 0 .. Capacity}

Next ==
    \/ Create
    \/ \E f \in 1 .. Len(files) :
          \/ \E n \in 0 .. Capacity : Read(f, n)
          \/ \E data \in Data : Write(f, data)
          \/ \E p \in 0 .. Capacity : Seek(f, p)

Spec == Init /\ [][Next]_<<files, last>>
=============================================================================
