----------------------------- MODULE Filesystem -----------------------------
(***************************************************************************)
(* The in-memory filesystem of kernel/filesystem.c: the general functions  *)
(* fs_..., the ramdisk functions behind them, read_ramdisk, and the boot   *)
(* flow of init_filesystem.                                                *)
(*                                                                         *)
(* A node (fs_node_t) is named by the order of its construction; node 1 is *)
(* the root directory.  The list of directory entries is the sequence of   *)
(* the nodes they point to.  The control point pc is                       *)
(*                                                                         *)
(*   "start"                        init_filesystem, before the root       *)
(*   "block", "contents", "dirent"  the loop of read_ramdisk               *)
(*   "rewind", "show"               the loop that reads every file back    *)
(*   "test1" ... "test4"            the calls of the write and read test   *)
(*   "compare"                      the test's two checks                  *)
(*   "ready"                        init_filesystem has returned           *)
(*   "halt"                         hung in panic(), or the stack overrun  *)
(*                                                                         *)
(* Sizes and offsets stay far below 2^32, so that offset + size does not   *)
(* wrap around.                                                            *)
(***************************************************************************)
EXTENDS Integers, Sequences, FiniteSetsExt

CONSTANTS
    Byte,                 \* values a file may contain; 0 is what kalloc clears to
    DEFAULT_FILE_SIZE,    \* 256: the buffer every file gets
    TestRoom,             \* 100: the size of the local buffer "test"
    TestData,             \* the bytes of "Hello"
    Ramdisks,             \* the contents the boot loader may provide
    ClientNodes,          \* the nodes that are used after init_filesystem
    MaxSize               \* bound: the largest size or position a client passes

ASSUME FileAssumption ==
    /\ 0 \notin Byte
    /\ {DEFAULT_FILE_SIZE, TestRoom, MaxSize} \subseteq Nat
    /\ TestData \in Seq(Byte) /\ Len(TestData) <= DEFAULT_FILE_SIZE
    /\ \A disk \in Ramdisks :
          Len(disk) \in Nat /\ \A i \in 1 .. Len(disk) : disk[i].data \in Seq(Byte)
    /\ ClientNodes \subseteq Nat \ {0}

VARIABLES
    nodes,       \* the nodes constructed so far
    entries,     \* root->directory: the nodes its entries point to
    dir_size,    \* root->directory.size
    initrd,      \* the blocks of the ramdisk
    current,     \* blocks consumed by read_ramdisk; then entries listed
    buffer,      \* what the last read delivered
    pc,
    hang         \* why the kernel hung

vars == <<nodes, entries, dir_size, initrd, current, buffer, pc, hang>>

Init ==
    /\ nodes = <<>>
    /\ entries = <<>>
    /\ dir_size = 0
    /\ initrd \in Ramdisks
    /\ current = 0
    /\ buffer = <<>>
    /\ pc = "start"
    /\ hang = "none"

-----------------------------------------------------------------------------

panic(why) == pc' = "halt" /\ hang' = why

\* fs_construct_node.  The functions a node points to are always ramdisk_*; the
\* root, a directory, keeps its file fields but nothing uses them.
fs_construct_node(node_name, node_type) ==
    nodes' = Append(nodes,
        [name   |-> node_name,
         type   |-> node_type,
         offset |-> 0,
         buffer |-> [i \in 1 .. DEFAULT_FILE_SIZE |-> 0],
         canonical_size |-> 0,
         allocated_size |-> DEFAULT_FILE_SIZE])

(***************************************************************************)
(* fs_read, fs_write and fs_seek of node f, and the ramdisk_* behind them: *)
(* the call returns and control goes on at point next, or it panics.       *)
(* fs_read copies into a buffer of room bytes without checking it.         *)
(***************************************************************************)
memcpy(source, from, num) == SubSeq(source, from + 1, from + num)

\* The offset a read of n bytes leaves behind.
ReadEnd_start(node, n) == node.offset

ReadEnd(node, n) == node.offset + n

fs_read(f, n, room, next) ==
    LET node == nodes[f]
        end == ReadEnd(node, n)
    IN  IF node.type # "FS_FILE" THEN panic("type") /\ UNCHANGED <<nodes, buffer>>
        ELSE IF end > node.canonical_size THEN panic("read past end") /\ UNCHANGED <<nodes, buffer>>
        ELSE IF n > room THEN panic("overrun") /\ UNCHANGED <<nodes, buffer>>
        ELSE /\ buffer' = memcpy(node.buffer, node.offset, n)
             /\ nodes' = [nodes EXCEPT ![f].offset = end]
             /\ pc' = next
             /\ UNCHANGED hang

\* ramdisk_write refuses an offset behind the end of the file.
BeyondEnd_never(node) == FALSE

BeyondEnd(node) == node.offset > node.canonical_size

\* The size of the file after a write that ends at end.
SizeAfter(node, end) == Max({node.canonical_size, end})

fs_write(f, data, next) ==
    LET node == nodes[f]
        end == node.offset + Len(data)
    IN  IF node.type # "FS_FILE" THEN panic("type") /\ UNCHANGED nodes
        ELSE IF BeyondEnd(node) THEN panic("offset") /\ UNCHANGED nodes
        ELSE IF end > node.allocated_size THEN panic("Uh-oh") /\ UNCHANGED nodes
        ELSE /\ nodes' = [nodes EXCEPT ![f] =
                   [node EXCEPT
                      !.buffer = [i \in DOMAIN @ |-> IF i \in node.offset + 1 .. end
                                                     THEN data[i - node.offset] ELSE @[i]],
                      !.canonical_size = SizeAfter(node, end),
                      !.offset = end]]
             /\ pc' = next
             /\ UNCHANGED hang

\* ramdisk_seek allows every position of the buffer.
BadPosition_past_end(node, position) == position > node.allocated_size + 1

BadPosition(node, position) == position > node.allocated_size

fs_seek(f, position, next) ==
    LET node == nodes[f]
    IN  IF node.type # "FS_FILE" THEN panic("type") /\ UNCHANGED nodes
        ELSE IF BadPosition(node, position) THEN panic("position") /\ UNCHANGED nodes
        ELSE /\ nodes' = [nodes EXCEPT ![f].offset = position]
             /\ pc' = next
             /\ UNCHANGED hang

-----------------------------------------------------------------------------

MakeRoot ==
    /\ pc = "start"
    /\ fs_construct_node("root", "FS_DIRECTORY")
    /\ pc' = "block"
    /\ UNCHANGED <<entries, dir_size, initrd, current, buffer, hang>>

\* read_ramdisk: while (current < initrd_end), a node for the next block.
ReadBlock ==
    /\ pc = "block"
    /\ current < Len(initrd)
    /\ fs_construct_node(initrd[current + 1].name, "FS_FILE")
    /\ pc' = "contents"
    /\ UNCHANGED <<entries, dir_size, initrd, current, buffer, hang>>

WriteContents ==
    /\ pc = "contents"
    /\ fs_write(Len(nodes), initrd[current + 1].data, "dirent")
    /\ UNCHANGED <<entries, dir_size, initrd, current, buffer>>

\* fs_add_dirent(root, temp), whose type checks hold here, appends to the list;
\* then the next block.
AddDirent_in_front ==
    /\ pc = "dirent"
    /\ entries' = <<Len(nodes)>> \o entries
    /\ dir_size' = dir_size + 1
    /\ current' = current + 1
    /\ pc' = "block"
    /\ UNCHANGED <<nodes, initrd, buffer, hang>>

AddDirent ==
    /\ pc = "dirent"
    /\ entries' = Append(entries, Len(nodes))
    /\ dir_size' = dir_size + 1
    /\ current' = current + 1
    /\ pc' = "block"
    /\ UNCHANGED <<nodes, initrd, buffer, hang>>

\* read_ramdisk returns, and init_filesystem walks the root directory.
ReadRamdiskReturns ==
    /\ pc = "block"
    /\ current >= Len(initrd)
    /\ current' = 0
    /\ pc' = "rewind"
    /\ UNCHANGED <<nodes, entries, dir_size, initrd, buffer, hang>>

\* fs_seek(current->node, 0)
Rewind_skipped ==
    /\ pc = "rewind"
    /\ current < Len(entries)
    /\ pc' = "show"
    /\ UNCHANGED <<nodes, hang, entries, dir_size, initrd, current, buffer>>

Rewind ==
    /\ pc = "rewind"
    /\ current < Len(entries)
    /\ fs_seek(entries[current + 1], 0, "show")
    /\ UNCHANGED <<entries, dir_size, initrd, current, buffer>>

\* fs_read(current->node, canonical_size, test); then the next entry.
current_node_head == entries[1]

current_node == entries[current + 1]

ShowFile ==
    LET f == current_node
    IN  /\ pc = "show"
        /\ fs_read(f, nodes[f].canonical_size, TestRoom, "rewind")
        /\ current' = IF pc' = "halt" THEN current ELSE current + 1
        /\ UNCHANGED <<entries, dir_size, initrd>>

MakeTestFile ==
    /\ pc = "rewind"
    /\ current >= Len(entries)
    /\ fs_construct_node("Test File", "FS_FILE")
    /\ pc' = "test1"
    /\ UNCHANGED <<entries, dir_size, initrd, current, buffer, hang>>

\* The calls of the write and read back test on the node just constructed.
TestFile ==
    LET f == Len(nodes)
    IN  /\ \/ pc = "test1" /\ fs_seek(f, 0, "test2") /\ UNCHANGED buffer
           \/ pc = "test2" /\ fs_write(f, TestData, "test3") /\ UNCHANGED buffer
           \/ pc = "test3" /\ fs_seek(f, 0, "test4") /\ UNCHANGED buffer
           \/ pc = "test4" /\ fs_read(f, Len(TestData), Len(TestData), "compare")
        /\ UNCHANGED <<entries, dir_size, initrd, current>>

\* The checks of the test; the second one wants the offset behind the data.
Compare ==
    /\ pc = "compare"
    /\ IF buffer = TestData /\ nodes[Len(nodes)].offset = Len(TestData)
       THEN pc' = "ready" /\ UNCHANGED hang
       ELSE panic("test failed")
    /\ UNCHANGED <<nodes, entries, dir_size, initrd, current, buffer>>

\* A caller of the general functions passes any size or position, with buffers
\* as large as the comments of ramdisk_read and ramdisk_write ask for.
Client ==
    /\ pc = "ready"
    /\ \E f \in ClientNodes \cap 1 .. Len(nodes) :
          \/ \E n \in 0 .. MaxSize : fs_read(f, n, n, "ready")
          \/ \E n \in 0 .. MaxSize : \E data \in [1 .. n -> Byte] :
                fs_write(f, data, "ready") /\ UNCHANGED buffer
          \/ \E p \in 0 .. MaxSize : fs_seek(f, p, "ready") /\ UNCHANGED buffer
    /\ UNCHANGED <<entries, dir_size, initrd, current>>

\* kmain goes on without the filesystem, or the kernel hangs.
Idle == (pc = "halt" \/ pc = "ready") /\ UNCHANGED vars

Boot ==
    \/ MakeRoot \/ ReadBlock \/ WriteContents \/ AddDirent \/ ReadRamdiskReturns
    \/ Rewind \/ ShowFile \/ MakeTestFile \/ TestFile \/ Compare

Next == Boot \/ Client \/ Idle

\* init_filesystem runs alone, with interrupts still disabled.
Spec == Init /\ [][Next]_vars /\ WF_vars(Boot)

-----------------------------------------------------------------------------

\* The type of every variable, and that no size exceeds the 256 bytes allocated.
TypeOK ==
    /\ \A i \in 1 .. Len(nodes) :
          /\ nodes[i].type = IF i = 1 THEN "FS_DIRECTORY" ELSE "FS_FILE"
          /\ nodes[i].buffer \in [1 .. DEFAULT_FILE_SIZE -> Byte \cup {0}]
          /\ nodes[i].allocated_size = DEFAULT_FILE_SIZE
          /\ nodes[i].canonical_size \in 0 .. DEFAULT_FILE_SIZE
          /\ nodes[i].offset \in 0 .. DEFAULT_FILE_SIZE
    /\ \A i \in 1 .. Len(entries) : entries[i] \in 2 .. Len(nodes)
    /\ dir_size \in Nat
    /\ initrd \in Ramdisks
    /\ current \in 0 .. Len(initrd)
    /\ buffer \in Seq(Byte)
    /\ pc \in {"start", "block", "contents", "dirent", "rewind", "show", "test1", "test2",
               "test3", "test4", "compare", "ready", "halt"}
    /\ hang \in {"none", "type", "read past end", "overrun", "offset", "Uh-oh", "position",
                 "test failed"}

content(node) == SubSeq(node.buffer, 1, node.canonical_size)

\* A file has no holes and no tail: exactly the bytes below canonical_size have
\* been written, although a seek may go beyond it.
NoHoles ==
    \A i \in 1 .. Len(nodes) : \A b \in 1 .. DEFAULT_FILE_SIZE :
        b <= nodes[i].canonical_size <=> nodes[i].buffer[b] # 0

\* Until someone writes to the files, the root directory lists the blocks of the
\* ramdisk in their order, each once, with its name and its contents, and its
\* size counts them.
RootMatchesRamdisk ==
    pc \in {"rewind", "show", "test1", "test2", "test3", "test4", "compare"} =>
        /\ Len(entries) = Len(initrd)
        /\ dir_size = Len(initrd)
        /\ \A i \in 1 .. Len(initrd) :
              /\ nodes[entries[i]].name = initrd[i].name
              /\ content(nodes[entries[i]]) = initrd[i].data

\* The read back of a file delivers the whole block it was loaded from, although
\* loading left its offset at the end.
ReadBackWhole ==
    pc = "rewind" /\ current > 0 => buffer = initrd[current].data

\* If every block fits into a file and into the local buffer of init_filesystem,
\* the filesystem comes up: no panic of filesystem.c is reached, and no loop of
\* init_filesystem runs for ever.
BootCompletes ==
    (\A i \in 1 .. Len(initrd) : Len(initrd[i].data) <= Min({DEFAULT_FILE_SIZE, TestRoom}))
        => <>(pc = "ready")

Store == INSTANCE FileStore WITH
    Capacity <- DEFAULT_FILE_SIZE,
    files <- [i \in 1 .. Len(nodes) - 1 |->
                 [content |-> content(nodes[i + 1]), cursor |-> nodes[i + 1].offset]],
    last <- buffer

\* Buffers, sizes and offsets implement files with a cursor: see FileStore.
ImplementsFileStore == Store!Spec

\* What ramdisk_read asks of its callers: the buffer is large enough.
ReadFitsBuffer == hang # "overrun"
=============================================================================
