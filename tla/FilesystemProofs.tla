-------------------------- MODULE FilesystemProofs --------------------------
(***************************************************************************)
(* Proofs about the filesystem: its types, the contents of its files, what *)
(* init_filesystem leaves in the root directory, and that buffers, sizes   *)
(* and offsets implement the files of FileStore.  They hold for every      *)
(* ramdisk, every size of a file and every client.                         *)
(***************************************************************************)
EXTENDS Filesystem, SequenceTheorems, TLAPS

\* What a node can be.
Names == {"root", "Test File"} \cup UNION {{disk[i].name : i \in Nat} : disk \in Ramdisks}

Node ==
    [name : Names, type : {"FS_DIRECTORY", "FS_FILE"},
     offset : 0 .. DEFAULT_FILE_SIZE,
     buffer : [1 .. DEFAULT_FILE_SIZE -> Byte \cup {0}],
     canonical_size : 0 .. DEFAULT_FILE_SIZE,
     allocated_size : {DEFAULT_FILE_SIZE}]

Solid(node) ==
    \A b \in 1 .. DEFAULT_FILE_SIZE : b <= node.canonical_size <=> node.buffer[b] # 0

TypeOfNode(i) == IF i = 1 THEN "FS_DIRECTORY" ELSE "FS_FILE"

NodesOK(ns) ==
    /\ ns \in Seq(Node)
    /\ \A i \in 1 .. Len(ns) : ns[i].type = TypeOfNode(i) /\ Solid(ns[i])

\* Two nodes with the same name and the same contents.
SameFile(m, n) == m.name = n.name /\ content(m) = content(n)

\* Node i + 1 is the file of block i.
IsBlock(node, block) == node.name = block.name /\ content(node) = block.data

Points == {"start", "block", "contents", "dirent", "rewind", "show", "test1", "test2",
           "test3", "test4", "compare", "ready", "halt"}

Reasons == {"none", "type", "read past end", "overrun", "offset", "Uh-oh", "position",
            "test failed"}

Tests == {"test1", "test2", "test3", "test4", "compare", "ready"}

\* How many nodes and entries there are at point p, with current at c and b blocks.
Counts(p, n, e, c, b) ==
    /\ n \in Nat /\ e \in Nat /\ b \in Nat /\ c \in 0 .. b
    /\ e < n \/ e = 0
    /\ p = "start" => n = 0 /\ e = 0 /\ c = 0
    /\ p = "block" => n = c + 1 /\ e = c
    /\ p \in {"contents", "dirent"} => n = c + 2 /\ e = c /\ c < b
    /\ p \in {"rewind", "show"} => n = b + 1 /\ e = b
    /\ p = "show" => c < b
    /\ p \in Tests => n = b + 2 /\ e = b

\* The part of the state the points of control tell more about.
Entries(es, size) ==
    es \in Seq(Nat) /\ size = Len(es) /\ \A i \in 1 .. Len(es) : es[i] = i + 1

Loaded(p, ns, e, disk) ==
    p \notin {"start", "ready", "halt"} => \A i \in 1 .. e : IsBlock(ns[i + 1], disk[i])

\* The block that is being read: its node is empty, then holds its data.
Loading(p, ns, c, disk) ==
    /\ p = "contents" => /\ ns[c + 2].name = disk[c + 1].name
                         /\ ns[c + 2].offset = 0 /\ ns[c + 2].canonical_size = 0
    /\ p = "dirent" => IsBlock(ns[c + 2], disk[c + 1])

Showing(p, ns, c, disk, b) ==
    /\ p = "show" => ns[c + 2].offset = 0
    /\ p = "rewind" /\ c > 0 => b = disk[c].data

IInv ==
    /\ NodesOK(nodes)
    /\ Entries(entries, dir_size)
    /\ initrd \in Ramdisks
    /\ buffer \in Seq(Byte)
    /\ pc \in Points
    /\ hang \in Reasons
    /\ Counts(pc, Len(nodes), Len(entries), current, Len(initrd))
    /\ Loaded(pc, nodes, Len(entries), initrd)
    /\ Loading(pc, nodes, current, initrd)
    /\ Showing(pc, nodes, current, initrd, buffer)

-----------------------------------------------------------------------------
\* The larger of two sizes.
LEMMA LargerSize ==
  ASSUME NEW a \in Int, NEW b \in Int
  PROVE  Max({a, b}) = IF a >= b THEN a ELSE b
<1>1. CASE a >= b
  <2>1. a \in {a, b} /\ \A y \in {a, b} : a >= y
    BY <1>1
  <2>2. \A x \in {a, b} : (\A y \in {a, b} : x >= y) => x = a
    BY <1>1
  <2>3. QED
    BY <1>1, <2>1, <2>2 DEF Max
<1>2. CASE ~ (a >= b)
  <2>1. b \in {a, b} /\ \A y \in {a, b} : b >= y
    BY <1>2
  <2>2. \A x \in {a, b} : (\A y \in {a, b} : x >= y) => x = b
    BY <1>2
  <2>3. QED
    BY <1>2, <2>1, <2>2 DEF Max
<1>3. QED
  BY <1>1, <1>2

\* The fields of a node.
LEMMA NodeFields ==
  ASSUME NEW node \in Node
  PROVE  /\ node.name \in Names
         /\ node.type \in {"FS_DIRECTORY", "FS_FILE"}
         /\ DEFAULT_FILE_SIZE \in Nat
         /\ node.offset \in Nat /\ node.offset <= DEFAULT_FILE_SIZE
         /\ node.canonical_size \in Nat /\ node.canonical_size <= DEFAULT_FILE_SIZE
         /\ node.allocated_size = DEFAULT_FILE_SIZE
         /\ node.buffer \in [1 .. DEFAULT_FILE_SIZE -> Byte \cup {0}]
BY FileAssumption DEF Node

\* The contents of a file are bytes, canonical_size of them.
LEMMA Contents ==
  ASSUME NEW node \in Node, Solid(node)
  PROVE  /\ content(node) \in Seq(Byte)
         /\ Len(content(node)) = node.canonical_size
         /\ \A i \in 1 .. node.canonical_size : content(node)[i] = node.buffer[i]
<1>1. \A i \in 1 .. node.canonical_size : node.buffer[i] \in Byte
  BY NodeFields DEF Solid
<1>2. QED
  BY <1>1, NodeFields, SubSeqProperties DEF content

\* What memcpy delivers out of a file.
LEMMA Copied ==
  ASSUME NEW node \in Node, Solid(node), NEW n \in Nat,
         node.offset + n <= node.canonical_size
  PROVE  /\ memcpy(node.buffer, node.offset, n) \in Seq(Byte)
         /\ memcpy(node.buffer, node.offset, n)
              = SubSeq(content(node), node.offset + 1, node.offset + n)
<1> DEFINE o == node.offset
           m == memcpy(node.buffer, o, n)
           s == SubSeq(content(node), o + 1, o + n)
<1>1. o \in Nat /\ node.canonical_size \in Nat /\ node.canonical_size <= DEFAULT_FILE_SIZE
      /\ DEFAULT_FILE_SIZE \in Nat
  BY NodeFields
<1>2. \A i \in o + 1 .. o + n : node.buffer[i] \in Byte /\ content(node)[i] = node.buffer[i]
  BY <1>1, NodeFields, Contents DEF Solid
<1>3. m \in Seq(Byte) /\ Len(m) = n /\ \A i \in 1 .. n : m[i] = node.buffer[o + i]
  BY <1>1, <1>2, SubSeqProperties DEF memcpy
<1>4. s \in Seq(Byte) /\ Len(s) = n /\ \A i \in 1 .. n : s[i] = content(node)[o + i]
  BY <1>1, <1>2, SubSeqProperties
<1>5. \A i \in 1 .. n : o + i \in o + 1 .. o + n
  BY <1>1
<1>6. \A i \in 1 .. Len(m) : m[i] = s[i]
  BY <1>2, <1>3, <1>4, <1>5
<1>7. m = s
  BY <1>3, <1>4, <1>6, SeqEqual
<1>8. QED
  BY <1>3, <1>7

\* Moving the offset changes nothing else.
LEMMA Moved ==
  ASSUME NEW node \in Node, Solid(node), NEW p \in 0 .. DEFAULT_FILE_SIZE
  PROVE  LET m == [node EXCEPT !.offset = p]
         IN  m \in Node /\ Solid(m) /\ m.type = node.type /\ SameFile(m, node)
             /\ m.offset = p /\ m.canonical_size = node.canonical_size
             /\ m.buffer = node.buffer
BY DEF Node, Solid, SameFile, content

\* A write overwrites the data behind the offset and extends the file.
Written(node, data) ==
    LET end == node.offset + Len(data)
    IN  [node EXCEPT
           !.buffer = [i \in DOMAIN @ |-> IF i \in node.offset + 1 .. end
                                           THEN data[i - node.offset] ELSE @[i]],
           !.canonical_size = SizeAfter(node, end),
           !.offset = end]

Overwritten(old, offset, data) ==
    SubSeq(old, 1, offset) \o data \o SubSeq(old, offset + Len(data) + 1, Len(old))

\* What is behind position e of a sequence.
LEMMA Rest ==
  ASSUME NEW q, NEW e \in Nat, NEW c \in Nat, \A i \in 1 .. c : q[i] \in Byte
  PROVE  /\ SubSeq(q, e + 1, c) \in Seq(Byte)
         /\ Len(SubSeq(q, e + 1, c)) = IF e <= c THEN c - e ELSE 0
         /\ \A i \in 1 .. c - e : SubSeq(q, e + 1, c)[i] = q[e + i]
<1>1. \A i \in e + 1 .. c : q[i] \in Byte
  OBVIOUS
<1>2. /\ SubSeq(q, e + 1, c) \in Seq(Byte)
      /\ Len(SubSeq(q, e + 1, c)) = IF e + 1 <= c THEN c - (e + 1) + 1 ELSE 0
      /\ \A i \in 1 .. c - (e + 1) + 1 : SubSeq(q, e + 1, c)[i] = q[e + 1 + i - 1]
  BY <1>1, SubSeqProperties
<1>3. QED
  BY <1>2

\* The bytes of an overwritten sequence.
LEMMA Splice ==
  ASSUME NEW old \in Seq(Byte), NEW o \in 0 .. Len(old), NEW data \in Seq(Byte)
  PROVE  LET new == Overwritten(old, o, data)
             l == Len(data)
             size == IF Len(old) >= o + l THEN Len(old) ELSE o + l
         IN  /\ new \in Seq(Byte) /\ Len(new) = size
             /\ \A i \in 1 .. size :
                    new[i] = IF i \in o + 1 .. o + l THEN data[i - o] ELSE old[i]
<1> DEFINE l == Len(data)
           c == Len(old)
           head == SubSeq(old, 1, o)
           tail == SubSeq(old, o + l + 1, c)
           both == head \o data
           new == both \o tail
<1>1. /\ o \in Nat /\ c \in Nat /\ l \in Nat /\ o <= c
      /\ \A i \in 1 .. c : old[i] \in Byte
  BY LenProperties, ElementOfSeq
<1>2. head \in Seq(Byte) /\ Len(head) = o /\ \A i \in 1 .. o : head[i] = old[i]
  BY <1>1, SubSeqProperties
<1>3. /\ tail \in Seq(Byte)
      /\ Len(tail) = (IF o + l <= c THEN c - (o + l) ELSE 0)
      /\ \A i \in 1 .. c - (o + l) : tail[i] = old[o + l + i]
  BY <1>1, Rest
<1> HIDE DEF head, tail
<1>4. /\ both \in Seq(Byte) /\ Len(both) = o + l
      /\ \A i \in 1 .. o + l : both[i] = IF i <= o THEN head[i] ELSE data[i - o]
  BY <1>1, <1>2, ConcatProperties
<1> HIDE DEF both
<1>5. /\ new \in Seq(Byte) /\ Len(new) = Len(both) + Len(tail)
      /\ \A i \in 1 .. Len(both) + Len(tail) :
             new[i] = IF i <= Len(both) THEN both[i] ELSE tail[i - Len(both)]
  BY <1>3, <1>4, ConcatProperties
<1>6. Overwritten(old, o, data) = new
  BY DEF Overwritten, new, both, head, tail
<1> HIDE DEF new, c, l
<1>7. Len(new) = IF c >= o + l THEN c ELSE o + l
  BY <1>1, <1>3, <1>4, <1>5
<1>8. ASSUME NEW i \in 1 .. IF c >= o + l THEN c ELSE o + l
      PROVE  new[i] = IF i \in o + 1 .. o + l THEN data[i - o] ELSE old[i]
  <2>1. CASE i <= o
    BY <1>1, <1>2, <1>4, <1>5, <1>7, <2>1
  <2>2. CASE o < i /\ i <= o + l
    BY <1>1, <1>4, <1>5, <1>7, <2>2
  <2>3. CASE o + l < i
    <3>1. i - (o + l) \in 1 .. c - (o + l)
      BY <1>1, <2>3
    <3>2. new[i] = tail[i - (o + l)]
      BY <1>1, <1>4, <1>5, <1>7, <2>3
    <3>3. tail[i - (o + l)] = old[o + l + (i - (o + l))]
      BY <1>3, <3>1
    <3>4. o + l + (i - (o + l)) = i
      BY <1>1
    <3>5. QED
      BY <1>1, <2>3, <3>2, <3>3, <3>4
  <2>4. QED
    BY <1>1, <2>1, <2>2, <2>3
<1>9. QED
  BY <1>5, <1>6, <1>7, <1>8 DEF c, l

\* A node with other contents is a node.
LEMMA Updated ==
  ASSUME NEW node \in Node, NEW b \in [1 .. DEFAULT_FILE_SIZE -> Byte \cup {0}],
         NEW size \in 0 .. DEFAULT_FILE_SIZE, NEW offset \in 0 .. DEFAULT_FILE_SIZE
  PROVE  [node EXCEPT !.buffer = b, !.canonical_size = size, !.offset = offset] \in Node
BY DEF Node

\* What ramdisk_write makes of a node.
LEMMA WrittenNode ==
  ASSUME NEW node \in Node, Solid(node), NEW data \in Seq(Byte),
         node.offset <= node.canonical_size,
         node.offset + Len(data) <= DEFAULT_FILE_SIZE
  PROVE  LET m == Written(node, data)
         IN  /\ m \in Node /\ Solid(m) /\ m.type = node.type /\ m.name = node.name
             /\ m.offset = node.offset + Len(data)
             /\ content(m) = Overwritten(content(node), node.offset, data)
<1> DEFINE m == Written(node, data)
           D == DEFAULT_FILE_SIZE
           o == node.offset
           c == node.canonical_size
           l == Len(data)
           size == IF c >= o + l THEN c ELSE o + l
<1>1. /\ D \in Nat /\ o \in Nat /\ c \in Nat /\ l \in Nat
      /\ o <= c /\ c <= D /\ o + l <= D
      /\ node.buffer \in [1 .. D -> Byte \cup {0}]
      /\ DOMAIN node.buffer = 1 .. D
      /\ l = Len(data) /\ size = (IF c >= o + l THEN c ELSE o + l)
      /\ \A i \in 1 .. l : data[i] \in Byte
  BY NodeFields, LenProperties, ElementOfSeq
<1>2. SizeAfter(node, o + l) = size
  BY <1>1, LargerSize DEF SizeAfter
<1>3. /\ m.buffer = [i \in 1 .. D |-> IF i \in o + 1 .. o + l
                                      THEN data[i - o] ELSE node.buffer[i]]
      /\ m.canonical_size = size /\ m.offset = o + l
      /\ m.type = node.type /\ m.name = node.name /\ m.allocated_size = D
  BY <1>1, <1>2 DEF Written, Node
<1>4. \A i \in 1 .. D : m.buffer[i] = IF i \in o + 1 .. o + l
                                      THEN data[i - o] ELSE node.buffer[i]
  BY <1>3
<1>5. \A i \in o + 1 .. o + l : i - o \in 1 .. l
  BY <1>1
<1>6. m.buffer \in [1 .. D -> Byte \cup {0}]
  BY <1>1, <1>3, <1>5
<1>7. m \in Node
  <2> DEFINE new == [i \in 1 .. D |-> IF i \in o + 1 .. o + l
                                      THEN data[i - o] ELSE node.buffer[i]]
  <2>1. m = [node EXCEPT !.buffer = new, !.canonical_size = size, !.offset = o + l]
    BY <1>1, <1>2, Zenon DEF Written
  <2>2. new \in [1 .. D -> Byte \cup {0}] /\ size \in 0 .. D /\ o + l \in 0 .. D
    BY <1>1, <1>5
  <2> HIDE DEF new, size, m
  <2>3. [node EXCEPT !.buffer = new, !.canonical_size = size, !.offset = o + l] \in Node
    BY <2>2, Updated
  <2>4. QED
    BY <2>1, <2>3
<1>8. Solid(m)
  <2> SUFFICES ASSUME NEW b \in 1 .. D
               PROVE  b <= size <=> m.buffer[b] # 0
    BY <1>3 DEF Solid
  <2>1. CASE b \in o + 1 .. o + l
    <3>1. data[b - o] \in Byte /\ m.buffer[b] = data[b - o]
      BY <1>1, <1>4, <1>5, <2>1
    <3>2. b <= size
      BY <1>1, <2>1
    <3>3. QED
      BY <3>1, <3>2, FileAssumption
  <2>2. CASE b \notin o + 1 .. o + l
    <3>1. m.buffer[b] = node.buffer[b]
      BY <1>4, <2>2
    <3>2. b <= size <=> b <= c
      BY <1>1, <2>2
    <3>3. QED
      BY <3>1, <3>2 DEF Solid
  <2>3. QED
    BY <2>1, <2>2
<1>9. content(m) = Overwritten(content(node), o, data)
  <2> DEFINE old == content(node)
             new == Overwritten(old, o, data)
  <2>1. /\ old \in Seq(Byte) /\ Len(old) = c
        /\ \A i \in 1 .. c : old[i] = node.buffer[i]
    BY Contents
  <2>2. /\ content(m) \in Seq(Byte) /\ Len(content(m)) = size
        /\ \A i \in 1 .. size : content(m)[i] = m.buffer[i]
    BY <1>3, <1>7, <1>8, Contents
  <2> HIDE DEF old, D, o, c, l, size, m
  <2>3. /\ new \in Seq(Byte) /\ Len(new) = size
        /\ \A i \in 1 .. size :
               new[i] = IF i \in o + 1 .. o + l THEN data[i - o] ELSE old[i]
    BY <1>1, <2>1, Splice
  <2> HIDE DEF new
  <2>4. ASSUME NEW i \in 1 .. size
        PROVE  content(m)[i] = new[i]
    <3>1. i \in 1 .. D /\ (i \notin o + 1 .. o + l => i \in 1 .. c)
      BY <1>1
    <3>2. QED
      BY <1>4, <2>1, <2>2, <2>3, <3>1
  <2>5. content(m) = new
    BY <2>2, <2>3, <2>4, SeqEqual
  <2>6. QED
    BY <2>5 DEF new, old, o
<1>10. QED
  BY <1>3, <1>7, <1>8, <1>9

\* The first write of an empty file stores the data and nothing else.
LEMMA FirstWrite ==
  ASSUME NEW node \in Node, Solid(node), NEW data \in Seq(Byte),
         node.offset = 0, node.canonical_size = 0
  PROVE  Overwritten(content(node), 0, data) = data
<1>1. content(node) = << >> /\ Len(content(node)) = 0
  BY Contents, NodeFields, EmptySeq
<1>2. /\ Len(data) \in Nat
      /\ SubSeq(content(node), 1, 0) = << >>
      /\ SubSeq(content(node), 0 + Len(data) + 1, Len(content(node))) = << >>
  BY <1>1, LenProperties, SubSeqEmpty
<1>3. QED
  BY <1>2, ConcatEmptySeq DEF Overwritten

-----------------------------------------------------------------------------
\* One node of the sequence is replaced.
OnlyNode(f, ns, ms, m) ==
    /\ NodesOK(ms) /\ Len(ms) = Len(ns) /\ ms[f] = m
    /\ \A i \in 1 .. Len(ns) : i # f => ms[i] = ns[i]

LEMMA Replaced ==
  ASSUME NEW ns, NodesOK(ns), NEW f \in 1 .. Len(ns),
         NEW m \in Node, Solid(m), m.type = ns[f].type, NEW ms, ms = [ns EXCEPT ![f] = m]
  PROVE  OnlyNode(f, ns, ms, m)
<1>1. /\ ms \in Seq(Node) /\ Len(ms) = Len(ns)
      /\ \A j \in 1 .. Len(ns) : ms[j] = IF j = f THEN m ELSE ns[j]
  BY ExceptSeq DEF NodesOK
<1>2. \A i \in 1 .. Len(ms) : ms[i].type = TypeOfNode(i) /\ Solid(ms[i])
  BY <1>1, Zenon DEF NodesOK
<1>3. NodesOK(ms)
  BY <1>1, <1>2 DEF NodesOK
<1>4. QED
  BY <1>1, <1>3 DEF OnlyNode

\* fs_construct_node appends an empty file.
LEMMA Constructed ==
  ASSUME NodesOK(nodes), NEW n \in Names, NEW t, t = TypeOfNode(Len(nodes) + 1),
         fs_construct_node(n, t)
  PROVE  /\ NodesOK(nodes') /\ Len(nodes') = Len(nodes) + 1
         /\ \A i \in 1 .. Len(nodes) : nodes'[i] = nodes[i]
         /\ nodes'[Len(nodes) + 1].name = n
         /\ nodes'[Len(nodes) + 1].offset = 0
         /\ nodes'[Len(nodes) + 1].canonical_size = 0
<1> DEFINE m == [name |-> n, type |-> t, offset |-> 0,
                 buffer |-> [i \in 1 .. DEFAULT_FILE_SIZE |-> 0],
                 canonical_size |-> 0, allocated_size |-> DEFAULT_FILE_SIZE]
           ns == Append(nodes, m)
<1>1. m \in Node /\ Solid(m) /\ m.type = t
  BY FileAssumption DEF Node, Solid, TypeOfNode
<1>2. m.name = n /\ m.offset = 0 /\ m.canonical_size = 0
  OBVIOUS
<1> HIDE DEF m
<1>3. nodes \in Seq(Node) /\ Len(nodes) \in Nat
  BY LenProperties DEF NodesOK
<1>4. /\ ns \in Seq(Node) /\ Len(ns) = Len(nodes) + 1
      /\ \A i \in 1 .. Len(nodes) : ns[i] = nodes[i]
      /\ ns[Len(nodes) + 1] = m
  BY <1>1, <1>3, AppendProperties
<1>5. nodes' = ns
  BY DEF fs_construct_node, m
<1> HIDE DEF ns
<1>6. \A i \in 1 .. Len(ns) : ns[i].type = TypeOfNode(i) /\ Solid(ns[i])
  <2> SUFFICES ASSUME NEW i \in 1 .. Len(ns)
               PROVE  ns[i].type = TypeOfNode(i) /\ Solid(ns[i])
    OBVIOUS
  <2>1. CASE i = Len(nodes) + 1
    BY <1>1, <1>4, <2>1
  <2>2. CASE i # Len(nodes) + 1
    <3>1. i \in 1 .. Len(nodes)
      BY <1>3, <1>4, <2>2
    <3>2. QED
      BY <1>4, <3>1 DEF NodesOK
  <2>3. QED
    BY <2>1, <2>2
<1>7. NodesOK(ns)
  BY <1>4, <1>6 DEF NodesOK
<1>8. QED
  BY <1>2, <1>4, <1>5, <1>7

\* What every call of the general functions leaves as it was.
Kept(next) ==
    /\ NodesOK(nodes') /\ Len(nodes') = Len(nodes)
    /\ pc' \in {next, "halt"} /\ hang' \in Reasons

\* What the three calls do.
LEMMA SeekCall ==
  ASSUME NodesOK(nodes), hang \in Reasons, NEW f \in 1 .. Len(nodes), NEW p \in Nat,
         NEW next, next # "halt", fs_seek(f, p, next)
  PROVE  /\ Kept(next)
         /\ \A i \in 1 .. Len(nodes) : SameFile(nodes'[i], nodes[i])
         /\ \A i \in 1 .. Len(nodes) : i # f => nodes'[i] = nodes[i]
         /\ pc' = "halt" => UNCHANGED nodes
         /\ pc' = next => f # 1 /\ p <= DEFAULT_FILE_SIZE /\ nodes'[f].offset = p
<1> DEFINE node == nodes[f]
<1>1. node \in Node /\ Solid(node)
  BY ElementOfSeq DEF NodesOK
<1>2. CASE pc' = "halt" /\ hang' \in {"type", "position"} /\ UNCHANGED nodes
  BY <1>2 DEF Kept, Reasons, SameFile
<1>3. CASE /\ node.type = "FS_FILE" /\ p <= node.allocated_size
           /\ nodes' = [nodes EXCEPT ![f].offset = p]
           /\ pc' = next /\ UNCHANGED hang
  <2> DEFINE m == [node EXCEPT !.offset = p]
  <2>1. p \in 0 .. DEFAULT_FILE_SIZE
    BY <1>1, <1>3, NodeFields
  <2>2. m \in Node /\ Solid(m) /\ m.type = node.type /\ SameFile(m, node) /\ m.offset = p
    BY <1>1, <2>1, Moved
  <2>3. nodes' = [nodes EXCEPT ![f] = m]
    BY <1>3
  <2> HIDE DEF m
  <2>4. OnlyNode(f, nodes, nodes', m)
    BY <2>2, <2>3, Replaced
  <2>5. \A i \in 1 .. Len(nodes) : SameFile(nodes'[i], nodes[i])
    BY <2>2, <2>4, Zenon DEF SameFile, OnlyNode
  <2>6. f # 1 /\ p <= DEFAULT_FILE_SIZE
    BY <1>3, <2>1 DEF NodesOK, TypeOfNode
  <2>7. QED
    BY <1>3, <2>2, <2>4, <2>5, <2>6, Zenon DEF Kept, OnlyNode
<1>4. QED
  BY <1>1, <1>2, <1>3, NodeFields DEF fs_seek, panic, BadPosition

LEMMA ReadCall ==
  ASSUME NodesOK(nodes), hang \in Reasons, buffer \in Seq(Byte),
         NEW f \in 1 .. Len(nodes), NEW n \in Nat, NEW room,
         NEW next, next # "halt", fs_read(f, n, room, next)
  PROVE  /\ Kept(next) /\ buffer' \in Seq(Byte)
         /\ \A i \in 1 .. Len(nodes) : SameFile(nodes'[i], nodes[i])
         /\ \A i \in 1 .. Len(nodes) : i # f => nodes'[i] = nodes[i]
         /\ pc' = "halt" => UNCHANGED <<nodes, buffer>>
         /\ pc' = next => /\ f # 1
                          /\ nodes'[f].offset = nodes[f].offset + n
                          /\ nodes[f].offset + n <= nodes[f].canonical_size
                          /\ buffer' = SubSeq(content(nodes[f]), nodes[f].offset + 1,
                                              nodes[f].offset + n)
<1> DEFINE node == nodes[f]
           end == node.offset + n
<1>1. node \in Node /\ Solid(node)
  BY ElementOfSeq DEF NodesOK
<1>2. CASE /\ pc' = "halt" /\ hang' \in {"type", "read past end", "overrun"}
           /\ UNCHANGED <<nodes, buffer>>
  BY <1>2 DEF Kept, Reasons, SameFile
<1>3. CASE /\ node.type = "FS_FILE" /\ end <= node.canonical_size
           /\ buffer' = memcpy(node.buffer, node.offset, n)
           /\ nodes' = [nodes EXCEPT ![f].offset = end]
           /\ pc' = next /\ UNCHANGED hang
  <2> DEFINE m == [node EXCEPT !.offset = end]
  <2>1. end \in 0 .. DEFAULT_FILE_SIZE
    BY <1>1, <1>3, NodeFields
  <2>2. m \in Node /\ Solid(m) /\ m.type = node.type /\ SameFile(m, node) /\ m.offset = end
    BY <1>1, <2>1, Moved
  <2>3. nodes' = [nodes EXCEPT ![f] = m]
    BY <1>3
  <2>4. /\ buffer' \in Seq(Byte)
        /\ buffer' = SubSeq(content(node), node.offset + 1, node.offset + n)
    BY <1>1, <1>3, Copied
  <2> HIDE DEF m
  <2>5. OnlyNode(f, nodes, nodes', m)
    BY <2>2, <2>3, Replaced
  <2>6. \A i \in 1 .. Len(nodes) : SameFile(nodes'[i], nodes[i])
    BY <2>2, <2>5, Zenon DEF SameFile, OnlyNode
  <2>7. f # 1
    BY <1>3 DEF NodesOK, TypeOfNode
  <2>8. QED
    BY <1>3, <2>2, <2>4, <2>5, <2>6, <2>7, Zenon DEF Kept, OnlyNode
<1>4. node.offset \in Nat /\ node.canonical_size \in Nat
  BY <1>1, NodeFields
<1>5. \/ /\ pc' = "halt" /\ hang' \in {"type", "read past end", "overrun"}
         /\ UNCHANGED <<nodes, buffer>>
      \/ /\ node.type = "FS_FILE" /\ ~ (end > node.canonical_size)
         /\ buffer' = memcpy(node.buffer, node.offset, n)
         /\ nodes' = [nodes EXCEPT ![f].offset = end]
         /\ pc' = next /\ UNCHANGED hang
  BY Zenon DEF fs_read, panic, ReadEnd
<1>6. ~ (end > node.canonical_size) => end <= node.canonical_size
  BY <1>4
<1> HIDE DEF end
<1>7. QED
  BY <1>2, <1>3, <1>5, <1>6, Zenon

LEMMA WriteCall ==
  ASSUME NodesOK(nodes), hang \in Reasons, NEW f \in 1 .. Len(nodes),
         NEW data \in Seq(Byte), NEW next, next # "halt", fs_write(f, data, next)
  PROVE  /\ Kept(next)
         /\ \A i \in 1 .. Len(nodes) : i # f => nodes'[i] = nodes[i]
         /\ pc' = "halt" => UNCHANGED nodes
         /\ pc' = next =>
               LET o == nodes[f].offset
               IN  /\ f # 1
                   /\ o <= nodes[f].canonical_size
                   /\ o + Len(data) <= DEFAULT_FILE_SIZE
                   /\ nodes'[f].name = nodes[f].name
                   /\ nodes'[f].offset = o + Len(data)
                   /\ content(nodes'[f]) = Overwritten(content(nodes[f]), o, data)
<1> DEFINE node == nodes[f]
           m == Written(node, data)
<1>1. node \in Node /\ Solid(node)
  BY ElementOfSeq DEF NodesOK
<1>2. CASE pc' = "halt" /\ hang' \in {"type", "offset", "Uh-oh"} /\ UNCHANGED nodes
  BY <1>2 DEF Kept, Reasons
<1>3. CASE /\ node.type = "FS_FILE" /\ node.offset <= node.canonical_size
           /\ node.offset + Len(data) <= node.allocated_size
           /\ nodes' = [nodes EXCEPT ![f] = m]
           /\ pc' = next /\ UNCHANGED hang
  <2>1. node.offset + Len(data) <= DEFAULT_FILE_SIZE
    BY <1>1, <1>3, NodeFields
  <2>2. /\ m \in Node /\ Solid(m) /\ m.type = node.type /\ m.name = node.name
        /\ m.offset = node.offset + Len(data)
        /\ content(m) = Overwritten(content(node), node.offset, data)
    BY <1>1, <1>3, <2>1, WrittenNode
  <2> HIDE DEF m
  <2>3. OnlyNode(f, nodes, nodes', m)
    BY <1>3, <2>2, Replaced
  <2>4. f # 1
    BY <1>3 DEF NodesOK, TypeOfNode
  <2>5. QED
    BY <1>3, <2>1, <2>2, <2>3, <2>4, Zenon DEF Kept, OnlyNode
<1>4. /\ node.offset \in Nat /\ node.canonical_size \in Nat /\ Len(data) \in Nat
      /\ node.allocated_size \in Nat
  BY <1>1, NodeFields, LenProperties
<1>5. \/ pc' = "halt" /\ hang' \in {"type", "offset", "Uh-oh"} /\ UNCHANGED nodes
      \/ /\ node.type = "FS_FILE" /\ ~ (node.offset > node.canonical_size)
         /\ ~ (node.offset + Len(data) > node.allocated_size)
         /\ nodes' = [nodes EXCEPT ![f] = m]
         /\ pc' = next /\ UNCHANGED hang
  BY Zenon DEF fs_write, panic, BeyondEnd, Written
<1>6. QED
  BY <1>2, <1>3, <1>4, <1>5

-----------------------------------------------------------------------------
\* The files of the directory stay what they were loaded from.
LEMMA StillLoaded ==
  ASSUME NEW ns, NEW ms, NEW e \in Nat, NEW disk, NEW p, NEW q, Loaded(p, ns, e, disk),
         p \notin {"start", "ready", "halt"},
         \A i \in 2 .. e + 1 : SameFile(ms[i], ns[i])
  PROVE  Loaded(q, ms, e, disk)
<1> SUFFICES ASSUME NEW i \in 1 .. e
             PROVE  IsBlock(ms[i + 1], disk[i])
  BY DEF Loaded
<1>1. i + 1 \in 2 .. e + 1
  OBVIOUS
<1>2. IsBlock(ns[i + 1], disk[i])
  BY DEF Loaded
<1>3. QED
  BY <1>1, <1>2 DEF IsBlock, SameFile

\* The numbers and the blocks of a reachable state.
LEMMA Numbers ==
  ASSUME IInv
  PROVE  /\ Len(nodes) \in Nat /\ Len(entries) \in Nat /\ Len(initrd) \in Nat
         /\ current \in Nat /\ current <= Len(initrd)
         /\ Len(entries) < Len(nodes) \/ Len(entries) = 0
         /\ \A i \in 1 .. Len(initrd) : initrd[i].data \in Seq(Byte) /\ initrd[i].name \in Names
<1>1. /\ Len(nodes) \in Nat /\ Len(entries) \in Nat /\ Len(initrd) \in Nat
      /\ current \in Nat /\ current <= Len(initrd)
      /\ Len(entries) < Len(nodes) \/ Len(entries) = 0
  BY DEF IInv, Counts
<1>2. initrd \in Ramdisks
  BY DEF IInv
<1>3. \A i \in 1 .. Len(initrd) : initrd[i].data \in Seq(Byte)
  BY <1>2, FileAssumption
<1>4. \A i \in 1 .. Len(initrd) : initrd[i].name \in Names
  <2> SUFFICES ASSUME NEW i \in 1 .. Len(initrd) PROVE initrd[i].name \in Names
    OBVIOUS
  <2>1. i \in Nat
    BY <1>1
  <2>2. initrd[i].name \in {initrd[j].name : j \in Nat}
    BY <2>1
  <2>3. QED
    BY <1>2, <2>2 DEF Names
<1>5. QED
  BY <1>1, <1>3, <1>4

LEMMA InitialState == Init => IInv
<1> SUFFICES ASSUME Init PROVE IInv
  OBVIOUS
<1>1. Len(nodes) = 0 /\ Len(entries) = 0 /\ Len(initrd) \in Nat
  BY FileAssumption DEF Init
<1>2. NodesOK(nodes)
  BY <1>1 DEF Init, NodesOK
<1>3. Entries(entries, dir_size)
  BY <1>1 DEF Init, Entries
<1>4. Counts(pc, Len(nodes), Len(entries), current, Len(initrd))
  BY <1>1 DEF Init, Counts, Tests
<1>5. QED
  BY <1>2, <1>3, <1>4 DEF Init, IInv, Loaded, Loading, Showing, Points, Reasons

\* Every action preserves the invariant: one lemma for each.
LEMMA MakeRootStep == ASSUME IInv, MakeRoot PROVE IInv'
<1>1. /\ pc = "start" /\ pc' = "block" /\ fs_construct_node("root", "FS_DIRECTORY")
      /\ UNCHANGED <<entries, dir_size, initrd, current, buffer, hang>>
  BY DEF MakeRoot
<1>2. Len(nodes) = 0 /\ Len(entries) = 0 /\ current = 0 /\ Len(initrd) \in Nat
  BY <1>1 DEF IInv, Counts
<1>3. "root" \in Names /\ "FS_DIRECTORY" = TypeOfNode(Len(nodes) + 1)
  BY <1>2 DEF Names, TypeOfNode
<1>4. NodesOK(nodes') /\ Len(nodes') = 1
  BY <1>1, <1>2, <1>3, Constructed DEF IInv
<1>5. Counts(pc', Len(nodes'), Len(entries'), current', Len(initrd'))
  BY <1>1, <1>2, <1>4 DEF Counts, Tests
<1>6. /\ Loaded(pc', nodes', Len(entries'), initrd') /\ Loading(pc', nodes', current', initrd')
      /\ Showing(pc', nodes', current', initrd', buffer')
  BY <1>1, <1>2 DEF Loaded, Loading, Showing
<1>7. QED
  BY <1>1, <1>4, <1>5, <1>6 DEF IInv, Points

LEMMA ReadBlockStep == ASSUME IInv, ReadBlock PROVE IInv'
<1>1. /\ pc = "block" /\ pc' = "contents" /\ current < Len(initrd)
      /\ fs_construct_node(initrd[current + 1].name, "FS_FILE")
      /\ UNCHANGED <<entries, dir_size, initrd, current, buffer, hang>>
  BY DEF ReadBlock
<1>2. /\ Len(nodes) = current + 1 /\ Len(entries) = current
      /\ current \in Nat /\ Len(initrd) \in Nat
  BY <1>1 DEF IInv, Counts
<1>3. initrd[current + 1].name \in Names /\ "FS_FILE" = TypeOfNode(Len(nodes) + 1)
  BY <1>1, <1>2, Numbers DEF TypeOfNode
<1>4. /\ NodesOK(nodes') /\ Len(nodes') = current + 2
      /\ \A i \in 1 .. Len(nodes) : nodes'[i] = nodes[i]
      /\ nodes'[current + 2].name = initrd[current + 1].name
      /\ nodes'[current + 2].offset = 0 /\ nodes'[current + 2].canonical_size = 0
  <2>1. Len(nodes) + 1 = current + 2 /\ NodesOK(nodes)
    BY <1>2 DEF IInv
  <2>2. QED
    BY <1>1, <1>3, <2>1, Constructed
<1>5. Counts(pc', Len(nodes'), Len(entries'), current', Len(initrd'))
  BY <1>1, <1>2, <1>4 DEF Counts, Tests
<1>6. Loaded(pc', nodes', Len(entries'), initrd')
  <2>1. \A i \in 2 .. Len(entries) + 1 : SameFile(nodes'[i], nodes[i])
    BY <1>2, <1>4 DEF SameFile
  <2>2. QED
    BY <1>1, <1>2, <2>1, StillLoaded DEF IInv
<1>7. /\ Loading(pc', nodes', current', initrd')
      /\ Showing(pc', nodes', current', initrd', buffer')
  BY <1>1, <1>4 DEF Loading, Showing
<1>8. QED
  BY <1>1, <1>4, <1>5, <1>6, <1>7 DEF IInv, Points

LEMMA WriteContentsStep == ASSUME IInv, WriteContents PROVE IInv'
<1>1. /\ pc = "contents" /\ fs_write(Len(nodes), initrd[current + 1].data, "dirent")
      /\ UNCHANGED <<entries, dir_size, initrd, current, buffer>>
  BY DEF WriteContents
<1>2. /\ Len(nodes) = current + 2 /\ Len(entries) = current /\ current < Len(initrd)
      /\ current \in Nat /\ Len(initrd) \in Nat
  BY <1>1 DEF IInv, Counts
<1> DEFINE f == current + 2
           data == initrd[current + 1].data
<1>3. f \in 1 .. Len(nodes) /\ data \in Seq(Byte)
  BY <1>2, Numbers
<1>4. /\ nodes[f].offset = 0 /\ nodes[f].canonical_size = 0
      /\ nodes[f].name = initrd[current + 1].name
      /\ nodes[f] \in Node /\ Solid(nodes[f])
  BY <1>1, <1>3, ElementOfSeq DEF IInv, Loading, NodesOK
<1>5. NodesOK(nodes) /\ hang \in Reasons
  BY DEF IInv
<1>6. /\ Kept("dirent")
      /\ \A i \in 1 .. Len(nodes) : i # f => nodes'[i] = nodes[i]
      /\ pc' = "dirent" =>
            /\ nodes'[f].name = nodes[f].name
            /\ content(nodes'[f]) = Overwritten(content(nodes[f]), nodes[f].offset, data)
  <2> HIDE DEF f, data
  <2>1. fs_write(f, data, "dirent")
    BY <1>1, <1>2 DEF f, data
  <2>2. QED
    BY <1>3, <1>5, <2>1, WriteCall
<1>7. NodesOK(nodes') /\ Len(nodes') = Len(nodes) /\ pc' \in {"dirent", "halt"} /\ hang' \in Reasons
  BY <1>6 DEF Kept
<1>8. Counts(pc', Len(nodes'), Len(entries'), current', Len(initrd'))
  BY <1>1, <1>2, <1>7 DEF Counts, Tests
<1>9. Loaded(pc', nodes', Len(entries'), initrd')
  <2>1. \A i \in 2 .. Len(entries) + 1 : SameFile(nodes'[i], nodes[i])
    BY <1>2, <1>6 DEF SameFile
  <2>2. QED
    BY <1>1, <1>2, <2>1, StillLoaded DEF IInv
<1>10. Loading(pc', nodes', current', initrd')
  <2>1. pc' = "dirent" => IsBlock(nodes'[f], initrd[current + 1])
    BY <1>3, <1>4, <1>6, FirstWrite DEF IsBlock
  <2>2. QED
    BY <1>1, <1>7, <2>1 DEF Loading
<1>11. Showing(pc', nodes', current', initrd', buffer')
  BY <1>7 DEF Showing
<1>12. QED
  BY <1>1, <1>7, <1>8, <1>9, <1>10, <1>11 DEF IInv, Points

LEMMA AddDirentStep == ASSUME IInv, AddDirent PROVE IInv'
<1>1. /\ pc = "dirent" /\ pc' = "block" /\ entries' = Append(entries, Len(nodes))
      /\ dir_size' = dir_size + 1 /\ current' = current + 1
      /\ UNCHANGED <<nodes, initrd, buffer, hang>>
  BY DEF AddDirent
<1>2. /\ Len(nodes) = current + 2 /\ Len(entries) = current /\ current < Len(initrd)
      /\ current \in Nat /\ Len(initrd) \in Nat
  BY <1>1 DEF IInv, Counts
<1>3. /\ entries \in Seq(Nat) /\ dir_size = Len(entries)
      /\ \A i \in 1 .. Len(entries) : entries[i] = i + 1
  BY DEF IInv, Entries
<1>4. /\ entries' \in Seq(Nat) /\ Len(entries') = current + 1
      /\ \A i \in 1 .. current : entries'[i] = entries[i]
      /\ entries'[current + 1] = current + 2
  BY <1>1, <1>2, <1>3, AppendProperties
<1>5. Entries(entries', dir_size')
  <2>1. \A i \in 1 .. Len(entries') : entries'[i] = i + 1
    BY <1>2, <1>3, <1>4
  <2>2. QED
    BY <1>1, <1>2, <1>3, <1>4, <2>1 DEF Entries
<1>6. Counts(pc', Len(nodes'), Len(entries'), current', Len(initrd'))
  BY <1>1, <1>2, <1>4 DEF Counts, Tests
<1>7. Loaded(pc', nodes', Len(entries'), initrd')
  <2>1. \A i \in 1 .. current : IsBlock(nodes[i + 1], initrd[i])
    BY <1>1, <1>2 DEF IInv, Loaded
  <2>2. IsBlock(nodes[current + 2], initrd[current + 1])
    BY <1>1 DEF IInv, Loading
  <2>3. \A i \in 1 .. current + 1 : IsBlock(nodes[i + 1], initrd[i])
    <3> SUFFICES ASSUME NEW i \in 1 .. current + 1
                 PROVE  IsBlock(nodes[i + 1], initrd[i])
      OBVIOUS
    <3>1. CASE i = current + 1
      <4>1. i + 1 = current + 2
        BY <1>2, <3>1
      <4>2. QED
        BY <2>2, <3>1, <4>1
    <3>2. CASE i # current + 1
      BY <1>2, <2>1, <3>2
    <3>3. QED
      BY <3>1, <3>2
  <2>4. QED
    BY <1>1, <1>4, <2>3 DEF Loaded
<1>8. Loading(pc', nodes', current', initrd') /\ Showing(pc', nodes', current', initrd', buffer')
  BY <1>1 DEF Loading, Showing
<1>9. QED
  BY <1>1, <1>5, <1>6, <1>7, <1>8 DEF IInv, Points

LEMMA ReadRamdiskReturnsStep == ASSUME IInv, ReadRamdiskReturns PROVE IInv'
<1>1. /\ pc = "block" /\ pc' = "rewind" /\ current >= Len(initrd) /\ current' = 0
      /\ UNCHANGED <<nodes, entries, dir_size, initrd, buffer, hang>>
  BY DEF ReadRamdiskReturns
<1>2. Counts(pc', Len(nodes'), Len(entries'), current', Len(initrd'))
  BY <1>1 DEF IInv, Counts, Tests
<1>3. Loaded(pc', nodes', Len(entries'), initrd')
  BY <1>1 DEF IInv, Loaded
<1>4. Loading(pc', nodes', current', initrd') /\ Showing(pc', nodes', current', initrd', buffer')
  BY <1>1 DEF Loading, Showing
<1>5. QED
  BY <1>1, <1>2, <1>3, <1>4 DEF IInv, Points

LEMMA RewindStep == ASSUME IInv, Rewind PROVE IInv'
<1>1. /\ pc = "rewind" /\ current < Len(entries) /\ fs_seek(entries[current + 1], 0, "show")
      /\ UNCHANGED <<entries, dir_size, initrd, current, buffer>>
  BY DEF Rewind
<1>2. /\ Len(nodes) = Len(initrd) + 1 /\ Len(entries) = Len(initrd)
      /\ current \in Nat /\ Len(initrd) \in Nat
  BY <1>1 DEF IInv, Counts
<1> DEFINE f == current + 2
<1>3. f \in 1 .. Len(nodes) /\ entries[current + 1] = f
  BY <1>1, <1>2 DEF IInv, Entries
<1> HIDE DEF f
<1>4. NodesOK(nodes) /\ hang \in Reasons
  BY DEF IInv
<1>5. /\ Kept("show") /\ \A i \in 1 .. Len(nodes) : SameFile(nodes'[i], nodes[i])
      /\ pc' = "show" => nodes'[f].offset = 0
  BY <1>1, <1>3, <1>4, SeekCall
<1>6. NodesOK(nodes') /\ Len(nodes') = Len(nodes) /\ pc' \in {"show", "halt"} /\ hang' \in Reasons
  BY <1>5 DEF Kept
<1>7. Counts(pc', Len(nodes'), Len(entries'), current', Len(initrd'))
  BY <1>1, <1>2, <1>6 DEF Counts, Tests
<1>8. Loaded(pc', nodes', Len(entries'), initrd')
  <2>1. \A i \in 2 .. Len(entries) + 1 : SameFile(nodes'[i], nodes[i])
    BY <1>2, <1>5
  <2>2. QED
    BY <1>1, <1>2, <2>1, StillLoaded DEF IInv
<1>9. Loading(pc', nodes', current', initrd') /\ Showing(pc', nodes', current', initrd', buffer')
  BY <1>1, <1>5, <1>6 DEF Loading, Showing, f
<1>10. QED
  BY <1>1, <1>6, <1>7, <1>8, <1>9 DEF IInv, Points

LEMMA ShowFileStep == ASSUME IInv, ShowFile PROVE IInv'
<1> DEFINE f == current + 2
           size == nodes[f].canonical_size
<1>1. pc = "show" /\ UNCHANGED <<entries, dir_size, initrd>>
  BY DEF ShowFile
<1>2. /\ Len(nodes) = Len(initrd) + 1 /\ Len(entries) = Len(initrd)
      /\ current \in Nat /\ Len(initrd) \in Nat /\ current < Len(initrd)
  BY <1>1 DEF IInv, Counts
<1>3. f \in 1 .. Len(nodes) /\ entries[current + 1] = f
  BY <1>2 DEF IInv, Entries
<1>4. /\ fs_read(f, size, TestRoom, "rewind")
      /\ current' = IF pc' = "halt" THEN current ELSE current + 1
  BY <1>3 DEF ShowFile, current_node
<1>5. nodes[f] \in Node /\ Solid(nodes[f]) /\ nodes[f].offset = 0
  BY <1>1, <1>3, ElementOfSeq DEF IInv, NodesOK, Showing
<1>6. size \in Nat
  BY <1>5, NodeFields
<1>7. NodesOK(nodes) /\ hang \in Reasons /\ buffer \in Seq(Byte)
  BY DEF IInv
<1> HIDE DEF f, size
<1>8. /\ Kept("rewind") /\ buffer' \in Seq(Byte)
      /\ \A i \in 1 .. Len(nodes) : SameFile(nodes'[i], nodes[i])
      /\ pc' = "rewind" => buffer' = SubSeq(content(nodes[f]), nodes[f].offset + 1,
                                          nodes[f].offset + size)
  BY <1>3, <1>4, <1>6, <1>7, ReadCall
<1>9. NodesOK(nodes') /\ Len(nodes') = Len(nodes) /\ pc' \in {"rewind", "halt"} /\ hang' \in Reasons
  BY <1>8 DEF Kept
<1>10. Counts(pc', Len(nodes'), Len(entries'), current', Len(initrd'))
  BY <1>1, <1>2, <1>4, <1>9 DEF Counts, Tests
<1>11. Loaded(pc', nodes', Len(entries'), initrd')
  <2>1. \A i \in 2 .. Len(entries) + 1 : SameFile(nodes'[i], nodes[i])
    BY <1>2, <1>8
  <2>2. QED
    BY <1>1, <1>2, <2>1, StillLoaded DEF IInv
<1>12. Loading(pc', nodes', current', initrd')
  BY <1>9 DEF Loading
<1>13. pc' = "rewind" => buffer' = initrd[current + 1].data
  <2> SUFFICES ASSUME pc' = "rewind" PROVE buffer' = initrd[current + 1].data
    OBVIOUS
  <2>1. buffer' = SubSeq(content(nodes[f]), 1, size)
    BY <1>5, <1>6, <1>8
  <2>2. content(nodes[f]) \in Seq(Byte) /\ Len(content(nodes[f])) = size
    BY <1>5, Contents DEF size
  <2>3. buffer' = content(nodes[f])
    BY <2>1, <2>2, SubSeqFull
  <2>4. current + 1 \in 1 .. Len(entries) /\ (current + 1) + 1 = f
    BY <1>2 DEF f
  <2>5. IsBlock(nodes[f], initrd[current + 1])
    BY <1>1, <2>4 DEF IInv, Loaded
  <2>6. QED
    BY <2>3, <2>5 DEF IsBlock
<1>14. Showing(pc', nodes', current', initrd', buffer')
  BY <1>1, <1>4, <1>9, <1>13 DEF Showing
<1>15. QED
  BY <1>1, <1>7, <1>8, <1>9, <1>10, <1>11, <1>12, <1>14 DEF IInv, Points

LEMMA MakeTestFileStep == ASSUME IInv, MakeTestFile PROVE IInv'
<1>1. /\ pc = "rewind" /\ pc' = "test1" /\ current >= Len(entries)
      /\ fs_construct_node("Test File", "FS_FILE")
      /\ UNCHANGED <<entries, dir_size, initrd, current, buffer, hang>>
  BY DEF MakeTestFile
<1>2. /\ Len(nodes) = Len(initrd) + 1 /\ Len(entries) = Len(initrd)
      /\ current \in 0 .. Len(initrd) /\ Len(initrd) \in Nat
  BY <1>1 DEF IInv, Counts
<1>3. "Test File" \in Names /\ "FS_FILE" = TypeOfNode(Len(nodes) + 1) /\ NodesOK(nodes)
  BY <1>2 DEF Names, TypeOfNode, IInv
<1>4. /\ NodesOK(nodes') /\ Len(nodes') = Len(nodes) + 1
      /\ \A i \in 1 .. Len(nodes) : nodes'[i] = nodes[i]
  BY <1>1, <1>3, Constructed
<1>5. Counts(pc', Len(nodes'), Len(entries'), current', Len(initrd'))
  <2>1. /\ initrd' = initrd /\ entries' = entries /\ current' = current /\ pc' = "test1"
    BY <1>1
  <2>2. Len(nodes') = Len(initrd) + 2
    BY <1>2, <1>4
  <2>3. QED
    BY <1>2, <2>1, <2>2 DEF Counts, Tests
<1>6. Loaded(pc', nodes', Len(entries'), initrd')
  <2>1. \A i \in 2 .. Len(entries) + 1 : SameFile(nodes'[i], nodes[i])
    BY <1>2, <1>4 DEF SameFile
  <2>2. QED
    BY <1>1, <1>2, <2>1, StillLoaded DEF IInv
<1>7. Loading(pc', nodes', current', initrd') /\ Showing(pc', nodes', current', initrd', buffer')
  BY <1>1 DEF Loading, Showing
<1>8. QED
  BY <1>1, <1>4, <1>5, <1>6, <1>7 DEF IInv, Points

LEMMA TestFileStep == ASSUME IInv, TestFile PROVE IInv'
<1> DEFINE f == Len(nodes)
<1>1. /\ pc \in {"test1", "test2", "test3", "test4"}
      /\ UNCHANGED <<entries, dir_size, initrd, current>>
  BY DEF TestFile
<1>2. /\ f = Len(initrd) + 2 /\ Len(entries) = Len(initrd)
      /\ current \in 0 .. Len(initrd) /\ Len(initrd) \in Nat /\ f \in 1 .. Len(nodes)
  BY <1>1 DEF IInv, Counts, Tests
<1>3. NodesOK(nodes) /\ hang \in Reasons /\ buffer \in Seq(Byte)
  BY DEF IInv
<1>4. TestData \in Seq(Byte) /\ Len(TestData) \in Nat
  BY FileAssumption, LenProperties
<1>5. /\ \E next \in Tests : Kept(next)
      /\ buffer' \in Seq(Byte)
      /\ \A i \in 1 .. Len(nodes) : i # f => SameFile(nodes'[i], nodes[i])
  <2> HIDE DEF f
  <2>1. CASE pc = "test1" /\ fs_seek(f, 0, "test2") /\ UNCHANGED buffer
    <3>1. Kept("test2") /\ \A i \in 1 .. Len(nodes) : SameFile(nodes'[i], nodes[i])
      BY <1>2, <1>3, <2>1, SeekCall
    <3>2. QED
      BY <1>3, <2>1, <3>1 DEF Tests
  <2>2. CASE pc = "test2" /\ fs_write(f, TestData, "test3") /\ UNCHANGED buffer
    <3>1. Kept("test3") /\ \A i \in 1 .. Len(nodes) : i # f => nodes'[i] = nodes[i]
      BY <1>2, <1>3, <1>4, <2>2, WriteCall
    <3>2. QED
      BY <1>3, <2>2, <3>1 DEF Tests, SameFile
  <2>3. CASE pc = "test3" /\ fs_seek(f, 0, "test4") /\ UNCHANGED buffer
    <3>1. Kept("test4") /\ \A i \in 1 .. Len(nodes) : SameFile(nodes'[i], nodes[i])
      BY <1>2, <1>3, <2>3, SeekCall
    <3>2. QED
      BY <1>3, <2>3, <3>1 DEF Tests
  <2>4. CASE pc = "test4" /\ fs_read(f, Len(TestData), Len(TestData), "compare")
    <3>1. /\ Kept("compare") /\ buffer' \in Seq(Byte)
          /\ \A i \in 1 .. Len(nodes) : SameFile(nodes'[i], nodes[i])
      BY <1>2, <1>3, <1>4, <2>4, ReadCall
    <3>2. QED
      BY <3>1 DEF Tests
  <2>5. QED
    BY <2>1, <2>2, <2>3, <2>4, Zenon DEF TestFile, f
<1>6. /\ NodesOK(nodes') /\ Len(nodes') = Len(nodes) /\ hang' \in Reasons
      /\ pc' \in Tests \cup {"halt"}
  BY <1>5 DEF Kept
<1>7. Counts(pc', Len(nodes'), Len(entries'), current', Len(initrd'))
  <2>1. /\ Len(nodes') = Len(initrd') + 2 /\ Len(entries') = Len(initrd')
        /\ current' \in 0 .. Len(initrd') /\ Len(initrd') \in Nat
    BY <1>1, <1>2, <1>6
  <2>2. pc' \notin {"start", "block", "contents", "dirent", "rewind", "show"}
    BY <1>6 DEF Tests
  <2>3. QED
    BY <2>1, <2>2 DEF Counts
<1>8. Loaded(pc', nodes', Len(entries'), initrd')
  <2>1. \A i \in 2 .. Len(entries) + 1 : SameFile(nodes'[i], nodes[i])
    BY <1>2, <1>5
  <2>2. QED
    BY <1>1, <1>2, <2>1, StillLoaded DEF IInv
<1>9. Loading(pc', nodes', current', initrd') /\ Showing(pc', nodes', current', initrd', buffer')
  BY <1>6 DEF Loading, Showing, Tests
<1>10. QED
  BY <1>1, <1>5, <1>6, <1>7, <1>8, <1>9 DEF IInv, Points, Tests

LEMMA CompareStep == ASSUME IInv, Compare PROVE IInv'
<1>1. /\ pc = "compare" /\ pc' \in {"ready", "halt"} /\ hang' \in {hang, "test failed"}
      /\ UNCHANGED <<nodes, entries, dir_size, initrd, current, buffer>>
  BY DEF Compare, panic
<1>2. Counts(pc', Len(nodes'), Len(entries'), current', Len(initrd'))
  BY <1>1 DEF IInv, Counts, Tests
<1>3. /\ Loaded(pc', nodes', Len(entries'), initrd') /\ Loading(pc', nodes', current', initrd')
      /\ Showing(pc', nodes', current', initrd', buffer')
  BY <1>1 DEF Loaded, Loading, Showing
<1>4. QED
  BY <1>1, <1>2, <1>3 DEF IInv, Points, Reasons

LEMMA ClientStep == ASSUME IInv, Client PROVE IInv'
<1>1. pc = "ready" /\ UNCHANGED <<entries, dir_size, initrd, current>>
  BY DEF Client
<1>2. NodesOK(nodes) /\ hang \in Reasons /\ buffer \in Seq(Byte)
  BY DEF IInv
<1>3. PICK f \in 1 .. Len(nodes) :
        \/ \E n \in 0 .. MaxSize : fs_read(f, n, n, "ready")
        \/ \E n \in 0 .. MaxSize : \E data \in [1 .. n -> Byte] :
              fs_write(f, data, "ready") /\ UNCHANGED buffer
        \/ \E p \in 0 .. MaxSize : fs_seek(f, p, "ready") /\ UNCHANGED buffer
  BY Zenon DEF Client
<1>4. Kept("ready") /\ buffer' \in Seq(Byte)
  <2>1. ASSUME NEW n \in 0 .. MaxSize, fs_read(f, n, n, "ready")
        PROVE  Kept("ready") /\ buffer' \in Seq(Byte)
    <3>1. n \in Nat
      OBVIOUS
    <3>2. QED
      BY <1>2, <2>1, <3>1, ReadCall
  <2>2. ASSUME NEW n \in 0 .. MaxSize, NEW data \in [1 .. n -> Byte],
               fs_write(f, data, "ready"), UNCHANGED buffer
        PROVE  Kept("ready") /\ buffer' \in Seq(Byte)
    <3>1. data \in Seq(Byte)
      OBVIOUS
    <3>2. QED
      BY <1>2, <2>2, <3>1, WriteCall
  <2>3. ASSUME NEW p \in 0 .. MaxSize, fs_seek(f, p, "ready"), UNCHANGED buffer
        PROVE  Kept("ready") /\ buffer' \in Seq(Byte)
    <3>1. p \in Nat
      OBVIOUS
    <3>2. Kept("ready")
      BY <1>2, <2>3, <3>1, SeekCall
    <3>3. QED
      BY <1>2, <2>3, <3>2
  <2>4. QED
    BY <1>3, <2>1, <2>2, <2>3, Zenon
<1>5. /\ NodesOK(nodes') /\ Len(nodes') = Len(nodes) /\ pc' \in {"ready", "halt"}
      /\ hang' \in Reasons
  BY <1>4 DEF Kept
<1>6. Counts(pc', Len(nodes'), Len(entries'), current', Len(initrd'))
  BY <1>1, <1>5 DEF IInv, Counts, Tests
<1>7. /\ Loaded(pc', nodes', Len(entries'), initrd') /\ Loading(pc', nodes', current', initrd')
      /\ Showing(pc', nodes', current', initrd', buffer')
  BY <1>5 DEF Loaded, Loading, Showing
<1>8. QED
  BY <1>1, <1>4, <1>5, <1>6, <1>7 DEF IInv, Points

LEMMA StutteringStep == ASSUME IInv, UNCHANGED vars PROVE IInv'
BY DEF IInv, vars

\* The invariant holds of every reachable state.
THEOREM Invariance == Spec => []IInv
<1>1. Init => IInv
  BY InitialState
<1>2. IInv /\ [Next]_vars => IInv'
  <2> SUFFICES ASSUME IInv, [Next]_vars PROVE IInv'
    OBVIOUS
  <2>1. CASE Boot
    BY <2>1, MakeRootStep, ReadBlockStep, WriteContentsStep, AddDirentStep,
       ReadRamdiskReturnsStep, RewindStep, ShowFileStep, MakeTestFileStep, TestFileStep,
       CompareStep, Zenon DEF Boot
  <2>2. CASE Client
    BY <2>2, ClientStep
  <2>3. CASE Idle \/ UNCHANGED vars
    BY <2>3, StutteringStep DEF Idle
  <2>4. QED
    BY <2>1, <2>2, <2>3 DEF Next
<1>3. QED
  BY <1>1, <1>2, PTL DEF Spec

\* Type correctness: sizes and offsets never leave the buffer of their file, and a
\* read delivers bytes.
THEOREM TypeCorrect == Spec => []TypeOK
<1>1. IInv => TypeOK
  <2> SUFFICES ASSUME IInv PROVE TypeOK
    OBVIOUS
  <2>1. nodes \in Seq(Node) /\ \A i \in 1 .. Len(nodes) : nodes[i].type = TypeOfNode(i)
    BY DEF IInv, NodesOK
  <2>2. \A i \in 1 .. Len(nodes) :
           /\ nodes[i].type = IF i = 1 THEN "FS_DIRECTORY" ELSE "FS_FILE"
           /\ nodes[i].buffer \in [1 .. DEFAULT_FILE_SIZE -> Byte \cup {0}]
           /\ nodes[i].allocated_size = DEFAULT_FILE_SIZE
           /\ nodes[i].canonical_size \in 0 .. DEFAULT_FILE_SIZE
           /\ nodes[i].offset \in 0 .. DEFAULT_FILE_SIZE
    <3> SUFFICES ASSUME NEW i \in 1 .. Len(nodes)
                 PROVE  /\ nodes[i].type = TypeOfNode(i)
                        /\ nodes[i].buffer \in [1 .. DEFAULT_FILE_SIZE -> Byte \cup {0}]
                        /\ nodes[i].allocated_size = DEFAULT_FILE_SIZE
                        /\ nodes[i].canonical_size \in 0 .. DEFAULT_FILE_SIZE
                        /\ nodes[i].offset \in 0 .. DEFAULT_FILE_SIZE
      BY DEF TypeOfNode
    <3>1. nodes[i] \in Node
      BY <2>1, ElementOfSeq
    <3>2. QED
      BY <2>1, <3>1, NodeFields
  <2>3. \A i \in 1 .. Len(entries) : entries[i] \in 2 .. Len(nodes)
    BY Numbers DEF IInv, Entries
  <2>4. dir_size \in Nat /\ current \in 0 .. Len(initrd)
    BY Numbers DEF IInv, Entries
  <2>5. QED
    BY <2>2, <2>3, <2>4 DEF IInv, TypeOK, Points, Reasons
<1>2. QED
  BY <1>1, Invariance, PTL

\* ramdisk_write, ramdisk_seek: no file ever has a hole or a tail.
THEOREM FilesHaveNoHoles == Spec => []NoHoles
<1>1. IInv => NoHoles
  BY DEF IInv, NodesOK, Solid, NoHoles
<1>2. QED
  BY <1>1, Invariance, PTL

\* read_ramdisk: the directory lists every block once, in order, with its contents.
THEOREM DirectoryIsRamdisk == Spec => []RootMatchesRamdisk
<1>1. IInv => RootMatchesRamdisk
  <2> SUFFICES ASSUME IInv,
                      pc \in {"rewind", "show", "test1", "test2", "test3", "test4", "compare"}
               PROVE  /\ Len(entries) = Len(initrd) /\ dir_size = Len(initrd)
                      /\ \A i \in 1 .. Len(initrd) :
                            /\ nodes[entries[i]].name = initrd[i].name
                            /\ content(nodes[entries[i]]) = initrd[i].data
    BY DEF RootMatchesRamdisk
  <2>1. Len(entries) = Len(initrd)
    BY DEF IInv, Counts, Tests
  <2>2. dir_size = Len(entries) /\ \A i \in 1 .. Len(entries) : entries[i] = i + 1
    BY DEF IInv, Entries
  <2>3. \A i \in 1 .. Len(entries) : IsBlock(nodes[i + 1], initrd[i])
    BY DEF IInv, Loaded
  <2>4. QED
    BY <2>1, <2>2, <2>3 DEF IsBlock
<1>2. QED
  BY <1>1, Invariance, PTL

\* The loop of init_filesystem that reads every file back.
THEOREM FilesReadBack == Spec => []ReadBackWhole
<1>1. IInv => ReadBackWhole
  BY DEF IInv, Showing, ReadBackWhole
<1>2. QED
  BY <1>1, Invariance, PTL

-----------------------------------------------------------------------------
(***************************************************************************)
(* The filesystem implements FileStore.  Node i + 1 is file i of the store *)
(* and the steps of the calls are the steps of the store; whatever panics, *)
(* and the walk over the ramdisk and the directory, is a stuttering step.  *)
(***************************************************************************)
FileOf(node) == [content |-> content(node), cursor |-> node.offset]

Files(ns) == [i \in 1 .. Len(ns) - 1 |-> FileOf(ns[i + 1])]

\* A step of the store, or a stuttering step.
StoreStep == [Store!Next]_<<Files(nodes), buffer>>

\* The files of a sequence of nodes are a sequence.
LEMMA FilesAreSequence ==
  ASSUME NEW ns, NEW k \in Nat, Len(ns) = k + 1
  PROVE  /\ Files(ns) \in Seq({FileOf(ns[i + 1]) : i \in 1 .. k})
         /\ Len(Files(ns)) = k /\ DOMAIN Files(ns) = 1 .. k
         /\ \A i \in 1 .. k : Files(ns)[i] = FileOf(ns[i + 1])
<1> DEFINE S == {FileOf(ns[i + 1]) : i \in 1 .. k}
<1>1. Len(ns) - 1 = k
  OBVIOUS
<1>2. Files(ns) = [i \in 1 .. k |-> FileOf(ns[i + 1])]
  BY <1>1 DEF Files
<1>3. Files(ns) \in [1 .. k -> S]
  BY <1>2
<1> HIDE DEF S
<1>4. Files(ns) \in Seq(S)
  BY <1>3
<1>5. QED
  BY <1>2, <1>3, <1>4, LenProperties DEF S

\* An empty node is a new file at the end.
LEMMA FileCreated ==
  ASSUME NEW ns, NEW ms, NEW k \in Nat, Len(ns) = k + 1, Len(ms) = k + 2,
         \A i \in 1 .. k + 1 : ms[i] = ns[i]
  PROVE  Files(ms) = Append(Files(ns), FileOf(ms[k + 2]))
<1> DEFINE S == {FileOf(ns[i + 1]) : i \in 1 .. k} \cup {FileOf(ms[k + 2])}
           new == Append(Files(ns), FileOf(ms[k + 2]))
<1>1. /\ Files(ns) \in Seq(S) /\ Len(Files(ns)) = k
      /\ \A i \in 1 .. k : Files(ns)[i] = FileOf(ns[i + 1])
  <2> DEFINE R == {FileOf(ns[i + 1]) : i \in 1 .. k}
  <2>1. R \subseteq S
    OBVIOUS
  <2>2. /\ Files(ns) \in Seq(R) /\ Len(Files(ns)) = k
        /\ \A i \in 1 .. k : Files(ns)[i] = FileOf(ns[i + 1])
    BY FilesAreSequence
  <2> HIDE DEF R, S
  <2>3. QED
    BY <2>1, <2>2, SeqMonotonic
<1>2. /\ Files(ms) \in Seq({FileOf(ms[i + 1]) : i \in 1 .. k + 1})
      /\ Len(Files(ms)) = k + 1
      /\ \A i \in 1 .. k + 1 : Files(ms)[i] = FileOf(ms[i + 1])
  <2>1. k + 1 \in Nat /\ Len(ms) = (k + 1) + 1
    OBVIOUS
  <2>2. QED
    BY <2>1, FilesAreSequence
<1>3. FileOf(ms[k + 2]) \in S
  OBVIOUS
<1>4. /\ new \in Seq(S) /\ Len(new) = k + 1
      /\ \A i \in 1 .. k : new[i] = Files(ns)[i]
      /\ new[k + 1] = FileOf(ms[k + 2])
  <2> HIDE DEF S
  <2>1. QED
    BY <1>1, <1>3, AppendProperties
<1> HIDE DEF new
<1>5. ASSUME NEW i \in 1 .. k + 1
      PROVE  Files(ms)[i] = new[i]
  <2>1. CASE i = k + 1
    <3>1. i + 1 = k + 2
      BY <2>1
    <3>2. QED
      BY <1>2, <1>4, <2>1, <3>1
  <2>2. CASE i # k + 1
    <3>1. i \in 1 .. k /\ i + 1 \in 1 .. k + 1
      BY <2>2
    <3>2. ms[i + 1] = ns[i + 1]
      BY <3>1
    <3>3. QED
      BY <1>1, <1>2, <1>4, <3>1, <3>2
  <2>3. QED
    BY <2>1, <2>2
<1>6. Files(ms) = new
  <2> DEFINE T == S \cup {FileOf(ms[i + 1]) : i \in 1 .. k + 1}
  <2>1. Files(ms) \in Seq(T) /\ new \in Seq(T)
    BY <1>2, <1>4, SeqMonotonic
  <2> HIDE DEF T
  <2>2. QED
    BY <1>2, <1>4, <1>5, <2>1, SeqEqual
<1>7. QED
  BY <1>6 DEF new

\* Only file f - 1 changes when only node f does.
LEMMA FileChanged ==
  ASSUME NEW ns, NEW ms, Len(ns) \in Nat, Len(ms) = Len(ns), NEW f \in 2 .. Len(ns),
         \A i \in 1 .. Len(ns) : i # f => ms[i] = ns[i]
  PROVE  Files(ms) = [Files(ns) EXCEPT ![f - 1] = FileOf(ms[f])]
<1> DEFINE k == Len(ns) - 1
<1>1. k \in Nat /\ Len(ns) = k + 1 /\ Len(ms) - 1 = k
  OBVIOUS
<1>2. /\ Files(ns) = [i \in 1 .. k |-> FileOf(ns[i + 1])]
      /\ Files(ms) = [i \in 1 .. k |-> FileOf(ms[i + 1])]
  BY <1>1 DEF Files
<1> HIDE DEF k
<1>3. \A i \in 1 .. k : FileOf(ms[i + 1]) = IF i = f - 1 THEN FileOf(ms[f]) ELSE FileOf(ns[i + 1])
  <2> SUFFICES ASSUME NEW i \in 1 .. k
               PROVE  FileOf(ms[i + 1]) = IF i = f - 1 THEN FileOf(ms[f]) ELSE FileOf(ns[i + 1])
    OBVIOUS
  <2>1. CASE i = f - 1
    <3>1. i + 1 = f
      BY <1>1, <2>1
    <3>2. QED
      BY <2>1, <3>1
  <2>2. CASE i # f - 1
    <3>1. i + 1 \in 1 .. Len(ns) /\ i + 1 # f
      BY <1>1, <2>2
    <3>2. QED
      BY <2>2, <3>1
  <2>3. QED
    BY <2>1, <2>2
<1>4. QED
  BY <1>2, <1>3

\* A node is constructed: the store creates a file, unless it is the root.
LEMMA ConstructMaps ==
  ASSUME NodesOK(nodes), Len(nodes) # 0, NEW n \in Names,
         fs_construct_node(n, "FS_FILE"), UNCHANGED buffer
  PROVE  StoreStep
<1> DEFINE k == Len(nodes) - 1
<1>1. k \in Nat /\ Len(nodes) = k + 1
  BY LenProperties DEF NodesOK
<1>2. "FS_FILE" = TypeOfNode(Len(nodes) + 1)
  BY <1>1 DEF TypeOfNode
<1>3. /\ NodesOK(nodes') /\ Len(nodes') = Len(nodes) + 1
      /\ \A i \in 1 .. Len(nodes) : nodes'[i] = nodes[i]
      /\ nodes'[Len(nodes) + 1].offset = 0
      /\ nodes'[Len(nodes) + 1].canonical_size = 0
  BY <1>2, Constructed
<1> HIDE DEF k
<1>4. /\ Len(nodes') = k + 2 /\ \A i \in 1 .. k + 1 : nodes'[i] = nodes[i]
      /\ nodes'[k + 2].offset = 0 /\ nodes'[k + 2].canonical_size = 0
      /\ k + 2 \in 1 .. Len(nodes')
  BY <1>1, <1>3
<1>5. nodes'[k + 2] \in Node /\ Solid(nodes'[k + 2])
  BY <1>3, <1>4, ElementOfSeq DEF NodesOK
<1>6. content(nodes'[k + 2]) = << >>
  BY <1>4, <1>5, Contents, EmptySeq
<1>7. Files(nodes') = Append(Files(nodes), FileOf(nodes'[k + 2]))
  BY <1>1, <1>4, FileCreated
<1>8. FileOf(nodes'[k + 2]) = [content |-> << >>, cursor |-> 0]
  BY <1>4, <1>6 DEF FileOf
<1>9. Store!Create
  BY <1>7, <1>8 DEF Store!Create, Files, FileOf
<1>10. QED
  BY <1>9 DEF StoreStep, Store!Next

\* What the store sees of node f.
LEMMA FileOfNode ==
  ASSUME NodesOK(nodes), NEW f \in 1 .. Len(nodes), f # 1
  PROVE  /\ f - 1 \in 1 .. Len(Files(nodes)) /\ f \in 2 .. Len(nodes)
         /\ Len(nodes) - 1 \in Nat /\ Len(nodes) = (Len(nodes) - 1) + 1
         /\ Files(nodes)[f - 1] = FileOf(nodes[f])
         /\ Len(content(nodes[f])) = nodes[f].canonical_size
         /\ nodes[f].offset \in Nat /\ nodes[f].canonical_size \in Nat
         /\ nodes[f].canonical_size <= DEFAULT_FILE_SIZE
<1>1. nodes[f] \in Node /\ Solid(nodes[f]) /\ Len(nodes) \in Nat
  BY ElementOfSeq, LenProperties DEF NodesOK
<1>2. /\ f \in 2 .. Len(nodes) /\ Len(nodes) - 1 \in Nat
      /\ Len(nodes) = (Len(nodes) - 1) + 1
      /\ f - 1 \in 1 .. Len(nodes) - 1 /\ (f - 1) + 1 = f
  BY <1>1
<1>3. /\ Len(Files(nodes)) = Len(nodes) - 1
      /\ Files(nodes)[f - 1] = FileOf(nodes[(f - 1) + 1])
  BY <1>2, FilesAreSequence
<1>4. QED
  BY <1>1, <1>2, <1>3, Contents, NodeFields

\* fs_seek, fs_read and fs_write are the calls of the store, or panic.
LEMMA SeekMaps ==
  ASSUME NodesOK(nodes), hang \in Reasons, NEW f \in 1 .. Len(nodes), NEW p \in Nat,
         NEW next, next # "halt", fs_seek(f, p, next), UNCHANGED buffer
  PROVE  StoreStep
<1>1. /\ Kept(next)
      /\ \A i \in 1 .. Len(nodes) : SameFile(nodes'[i], nodes[i])
      /\ \A i \in 1 .. Len(nodes) : i # f => nodes'[i] = nodes[i]
      /\ pc' = "halt" => UNCHANGED nodes
      /\ pc' = next => f # 1 /\ p <= DEFAULT_FILE_SIZE /\ nodes'[f].offset = p
  BY SeekCall
<1>2. CASE pc' = "halt"
  BY <1>1, <1>2 DEF StoreStep, Files
<1>3. CASE pc' = next
  <2>1. f # 1 /\ p \in 0 .. DEFAULT_FILE_SIZE
    BY <1>1, <1>3, FileAssumption
  <2>2. /\ f - 1 \in 1 .. Len(Files(nodes)) /\ f \in 2 .. Len(nodes)
        /\ Len(nodes) - 1 \in Nat /\ Len(nodes) = (Len(nodes) - 1) + 1
        /\ Files(nodes)[f - 1] = FileOf(nodes[f])
    BY <2>1, FileOfNode
  <2>3. Files(nodes') = [Files(nodes) EXCEPT ![f - 1] = FileOf(nodes'[f])]
    <3>1. Len(nodes') = Len(nodes) /\ Len(nodes) \in Nat
      BY <1>1, <2>2 DEF Kept
    <3>2. f \in 2 .. Len(nodes) /\ \A i \in 1 .. Len(nodes) : i # f => nodes'[i] = nodes[i]
      BY <1>1, <2>2
    <3>3. QED
      BY <3>1, <3>2, FileChanged
  <2>4. FileOf(nodes'[f]) = [FileOf(nodes[f]) EXCEPT !.cursor = p]
    BY <1>1, <1>3 DEF FileOf, SameFile
  <2>5. Files(nodes') = [Files(nodes) EXCEPT ![f - 1].cursor = p]
    BY <2>2, <2>3, <2>4
  <2>6. Store!Seek(f - 1, p)
    BY <2>5 DEF Store!Seek, Files, FileOf
  <2>7. QED
    BY <2>1, <2>2, <2>6 DEF StoreStep, Store!Next, Files, FileOf
<1>4. QED
  BY <1>1, <1>2, <1>3 DEF Kept

LEMMA ReadMaps ==
  ASSUME NodesOK(nodes), hang \in Reasons, buffer \in Seq(Byte),
         NEW f \in 1 .. Len(nodes), NEW n \in Nat, NEW room,
         NEW next, next # "halt", fs_read(f, n, room, next)
  PROVE  StoreStep
<1>1. /\ Kept(next)
      /\ \A i \in 1 .. Len(nodes) : SameFile(nodes'[i], nodes[i])
      /\ \A i \in 1 .. Len(nodes) : i # f => nodes'[i] = nodes[i]
      /\ pc' = "halt" => UNCHANGED <<nodes, buffer>>
      /\ pc' = next => /\ f # 1
                       /\ nodes'[f].offset = nodes[f].offset + n
                       /\ nodes[f].offset + n <= nodes[f].canonical_size
                       /\ buffer' = SubSeq(content(nodes[f]), nodes[f].offset + 1,
                                           nodes[f].offset + n)
  BY ReadCall
<1>2. CASE pc' = "halt"
  BY <1>1, <1>2 DEF StoreStep, Files
<1>3. CASE pc' = next
  <2>1. f # 1
    BY <1>1, <1>3
  <2>2. /\ f - 1 \in 1 .. Len(Files(nodes)) /\ f \in 2 .. Len(nodes)
        /\ Len(nodes) - 1 \in Nat /\ Len(nodes) = (Len(nodes) - 1) + 1
        /\ Files(nodes)[f - 1] = FileOf(nodes[f])
        /\ Len(content(nodes[f])) = nodes[f].canonical_size
        /\ nodes[f].offset \in Nat /\ nodes[f].canonical_size \in Nat
        /\ nodes[f].canonical_size <= DEFAULT_FILE_SIZE
    BY <2>1, FileOfNode
  <2>3. Files(nodes') = [Files(nodes) EXCEPT ![f - 1] = FileOf(nodes'[f])]
    <3>1. Len(nodes') = Len(nodes) /\ Len(nodes) \in Nat
      BY <1>1, <2>2 DEF Kept
    <3>2. f \in 2 .. Len(nodes) /\ \A i \in 1 .. Len(nodes) : i # f => nodes'[i] = nodes[i]
      BY <1>1, <2>2
    <3>3. QED
      BY <3>1, <3>2, FileChanged
  <2>4. FileOf(nodes'[f]) = [FileOf(nodes[f]) EXCEPT !.cursor = @ + n]
    BY <1>1, <1>3 DEF FileOf, SameFile
  <2>5. Files(nodes') = [Files(nodes) EXCEPT ![f - 1].cursor = @ + n]
    BY <2>2, <2>3, <2>4
  <2>6. /\ Files(nodes)[f - 1].cursor + n <= Len(Files(nodes)[f - 1].content)
        /\ buffer' = SubSeq(Files(nodes)[f - 1].content, Files(nodes)[f - 1].cursor + 1,
                            Files(nodes)[f - 1].cursor + n)
    BY <1>1, <1>3, <2>2 DEF FileOf
  <2>7. Store!Read(f - 1, n)
    BY <2>5, <2>6 DEF Store!Read, Files, FileOf
  <2>8. n \in 0 .. DEFAULT_FILE_SIZE
    BY <1>1, <1>3, <2>2, FileAssumption
  <2>9. QED
    BY <2>2, <2>7, <2>8 DEF StoreStep, Store!Next, Files, FileOf
<1>4. QED
  BY <1>1, <1>2, <1>3 DEF Kept

LEMMA WriteMaps ==
  ASSUME NodesOK(nodes), hang \in Reasons, NEW f \in 1 .. Len(nodes),
         NEW data \in Seq(Byte), NEW next, next # "halt", fs_write(f, data, next),
         UNCHANGED buffer
  PROVE  StoreStep
<1>1. /\ Kept(next)
      /\ \A i \in 1 .. Len(nodes) : i # f => nodes'[i] = nodes[i]
      /\ pc' = "halt" => UNCHANGED nodes
      /\ pc' = next =>
            LET o == nodes[f].offset
            IN  /\ f # 1
                /\ o <= nodes[f].canonical_size
                /\ o + Len(data) <= DEFAULT_FILE_SIZE
                /\ nodes'[f].name = nodes[f].name
                /\ nodes'[f].offset = o + Len(data)
                /\ content(nodes'[f]) = Overwritten(content(nodes[f]), o, data)
  BY WriteCall
<1>2. CASE pc' = "halt"
  BY <1>1, <1>2 DEF StoreStep, Files
<1>3. CASE pc' = next
  <2>1. f # 1
    BY <1>1, <1>3
  <2>2. /\ f - 1 \in 1 .. Len(Files(nodes)) /\ f \in 2 .. Len(nodes)
        /\ Len(nodes) - 1 \in Nat /\ Len(nodes) = (Len(nodes) - 1) + 1
        /\ Files(nodes)[f - 1] = FileOf(nodes[f])
        /\ Len(content(nodes[f])) = nodes[f].canonical_size
        /\ nodes[f].offset \in Nat /\ Len(data) \in Nat
    BY <2>1, FileOfNode, LenProperties
  <2>3. Files(nodes') = [Files(nodes) EXCEPT ![f - 1] = FileOf(nodes'[f])]
    <3>1. Len(nodes') = Len(nodes) /\ Len(nodes) \in Nat
      BY <1>1, <2>2 DEF Kept
    <3>2. f \in 2 .. Len(nodes) /\ \A i \in 1 .. Len(nodes) : i # f => nodes'[i] = nodes[i]
      BY <1>1, <2>2
    <3>3. QED
      BY <3>1, <3>2, FileChanged
  <2> DEFINE file == Files(nodes)[f - 1]
             end == file.cursor + Len(data)
  <2>4. /\ file.cursor = nodes[f].offset /\ file.content = content(nodes[f])
    BY <2>2 DEF FileOf
  <2>5. /\ file.cursor <= Len(file.content) /\ end <= DEFAULT_FILE_SIZE
    BY <1>1, <1>3, <2>2, <2>4
  <2>6. FileOf(nodes'[f]) =
          [content |-> SubSeq(file.content, 1, file.cursor) \o data
                          \o SubSeq(file.content, end + 1, Len(file.content)),
           cursor |-> end]
    BY <1>1, <1>3, <2>4 DEF FileOf, Overwritten
  <2>7. Store!Write(f - 1, data)
    BY <2>3, <2>5, <2>6 DEF Store!Write, Files, FileOf
  <2>8. Len(data) \in 0 .. DEFAULT_FILE_SIZE /\ data \in [1 .. Len(data) -> Byte]
    BY <1>1, <1>3, <2>2, FileAssumption, LenProperties
  <2>9. data \in Store!Data
    BY <2>8 DEF Store!Data
  <2>10. QED
    BY <2>2, <2>7, <2>9 DEF StoreStep, Store!Next, Files, FileOf
<1>4. QED
  BY <1>1, <1>2, <1>3 DEF Kept

\* A step that changes neither the nodes nor what was read is no step of the store.
LEMMA QuietStep == ASSUME UNCHANGED <<nodes, buffer>> PROVE StoreStep
BY DEF StoreStep, Files

\* Every step of the filesystem is a step of the store or a stuttering step.
LEMMA StepMaps == ASSUME IInv, [Next]_vars PROVE StoreStep
<1>1. /\ NodesOK(nodes) /\ hang \in Reasons /\ buffer \in Seq(Byte)
      /\ Len(nodes) \in Nat /\ Len(initrd) \in Nat /\ current \in Nat
  BY Numbers DEF IInv
<1>2. CASE MakeRoot
  <2>1. Len(nodes) = 0 /\ UNCHANGED buffer
    BY <1>2 DEF IInv, Counts, MakeRoot
  <2>2. "root" \in Names /\ "FS_DIRECTORY" = TypeOfNode(Len(nodes) + 1)
    BY <2>1 DEF Names, TypeOfNode
  <2>3. Len(nodes') = 1
    BY <1>1, <1>2, <2>1, <2>2, Constructed DEF MakeRoot
  <2>4. Files(nodes) = << >> /\ Files(nodes') = << >>
    BY <2>1, <2>3 DEF Files
  <2>5. QED
    BY <2>1, <2>4 DEF StoreStep, Files, FileOf
<1>3. CASE ReadBlock
  <2>1. initrd[current + 1].name \in Names /\ Len(nodes) # 0
    BY <1>3, Numbers DEF ReadBlock, IInv, Counts
  <2>2. QED
    BY <1>1, <1>3, <2>1, ConstructMaps DEF ReadBlock
<1>4. CASE WriteContents
  <2>1. Len(nodes) \in 1 .. Len(nodes) /\ initrd[current + 1].data \in Seq(Byte)
    BY <1>4, Numbers DEF WriteContents, IInv, Counts
  <2>2. QED
    BY <1>1, <1>4, <2>1, WriteMaps DEF WriteContents
<1>5. CASE Rewind
  <2>1. entries[current + 1] \in 1 .. Len(nodes)
    BY <1>5, Numbers DEF Rewind, IInv, Counts, Entries
  <2>2. QED
    BY <1>1, <1>5, <2>1, SeekMaps DEF Rewind
<1>6. CASE ShowFile
  <2>1. current_node \in 1 .. Len(nodes)
    BY <1>6, Numbers DEF ShowFile, IInv, Counts, Entries, current_node
  <2>2. nodes[current_node].canonical_size \in Nat
    BY <1>1, <2>1, ElementOfSeq, NodeFields DEF NodesOK
  <2>3. fs_read(current_node, nodes[current_node].canonical_size, TestRoom, "rewind")
    BY <1>6 DEF ShowFile
  <2>4. QED
    BY <1>1, <2>1, <2>2, <2>3, ReadMaps
<1>7. CASE MakeTestFile
  <2>1. "Test File" \in Names /\ Len(nodes) # 0
    <3>1. pc = "rewind"
      BY <1>7 DEF MakeTestFile
    <3>2. Len(nodes) = Len(initrd) + 1
      BY <3>1 DEF IInv, Counts
    <3>3. QED
      BY <1>1, <3>2 DEF Names
  <2>2. QED
    BY <1>1, <1>7, <2>1, ConstructMaps DEF MakeTestFile
<1>8. CASE TestFile
  <2>1. Len(nodes) \in 1 .. Len(nodes)
    BY <1>8, Numbers DEF TestFile, IInv, Counts, Tests
  <2>2. TestData \in Seq(Byte) /\ Len(TestData) \in Nat
    BY FileAssumption, LenProperties
  <2>3. CASE fs_seek(Len(nodes), 0, "test2") /\ UNCHANGED buffer
    BY <1>1, <2>1, <2>3, SeekMaps
  <2>4. CASE fs_write(Len(nodes), TestData, "test3") /\ UNCHANGED buffer
    BY <1>1, <2>1, <2>2, <2>4, WriteMaps
  <2>5. CASE fs_seek(Len(nodes), 0, "test4") /\ UNCHANGED buffer
    BY <1>1, <2>1, <2>5, SeekMaps
  <2>6. CASE fs_read(Len(nodes), Len(TestData), Len(TestData), "compare")
    BY <1>1, <2>1, <2>2, <2>6, ReadMaps
  <2>7. QED
    BY <1>8, <2>3, <2>4, <2>5, <2>6, Zenon DEF TestFile
<1>9. CASE Client
  <2>1. PICK f \in 1 .. Len(nodes) :
          \/ \E n \in 0 .. MaxSize : fs_read(f, n, n, "ready")
          \/ \E n \in 0 .. MaxSize : \E data \in [1 .. n -> Byte] :
                fs_write(f, data, "ready") /\ UNCHANGED buffer
          \/ \E p \in 0 .. MaxSize : fs_seek(f, p, "ready") /\ UNCHANGED buffer
    BY <1>9, Zenon DEF Client
  <2>2. ASSUME NEW n \in 0 .. MaxSize, fs_read(f, n, n, "ready")
        PROVE  StoreStep
    <3>1. n \in Nat
      OBVIOUS
    <3>2. QED
      BY <1>1, <2>2, <3>1, ReadMaps
  <2>3. ASSUME NEW n \in 0 .. MaxSize, NEW data \in [1 .. n -> Byte],
               fs_write(f, data, "ready"), UNCHANGED buffer
        PROVE  StoreStep
    <3>1. data \in Seq(Byte)
      OBVIOUS
    <3>2. QED
      BY <1>1, <2>3, <3>1, WriteMaps
  <2>4. ASSUME NEW p \in 0 .. MaxSize, fs_seek(f, p, "ready"), UNCHANGED buffer
        PROVE  StoreStep
    <3>1. p \in Nat
      OBVIOUS
    <3>2. QED
      BY <1>1, <2>4, <3>1, SeekMaps
  <2>5. QED
    BY <2>1, <2>2, <2>3, <2>4, Zenon
<1>10. CASE AddDirent \/ ReadRamdiskReturns \/ Compare \/ Idle \/ UNCHANGED vars
  <2>1. UNCHANGED <<nodes, buffer>>
    BY <1>10 DEF AddDirent, ReadRamdiskReturns, Compare, Idle, vars
  <2>2. QED
    BY <2>1, QuietStep
<1>11. QED
  BY <1>2, <1>3, <1>4, <1>5, <1>6, <1>7, <1>8, <1>9, <1>10, Zenon DEF Next, Boot

\* The calls of filesystem.c are the calls of an abstract store of files: buffers, sizes
\* and offsets implement sequences of bytes with a cursor.
THEOREM FilesystemImplementsFileStore == Spec => ImplementsFileStore
<1>1. Init => Store!Init
  <2> SUFFICES ASSUME Init PROVE Store!Init
    OBVIOUS
  <2>1. Len(nodes) - 1 = -1 /\ buffer = << >>
    BY DEF Init
  <2>2. Files(nodes) = << >>
    BY <2>1 DEF Files
  <2>3. QED
    BY <2>1, <2>2 DEF Store!Init, Files, FileOf
<1>2. IInv /\ [Next]_vars => [Store!Next]_<<Files(nodes), buffer>>
  BY StepMaps DEF StoreStep
<1>3. QED
  BY <1>1, <1>2, Invariance, PTL DEF Spec, ImplementsFileStore, Store!Spec, Files, FileOf
=============================================================================
