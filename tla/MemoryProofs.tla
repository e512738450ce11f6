---------------------------- MODULE MemoryProofs ----------------------------
(***************************************************************************)
(* Proofs about paging and the heap, for every layout of memory that the   *)
(* assumptions allow and for any sizes of blocks: blocks never overlap and *)
(* are backed to their last byte, no two heap pages share a frame, the     *)
(* tables that are in use stay identity mapped, and nothing but the end of *)
(* the heap stops the kernel.                                              *)
(***************************************************************************)
EXTENDS Memory, TLAPS

\* The pages of the page table area that the static tables map.
LowTables == {v \in TableArea : v < 2 * TableSize}

Static(v) == IF v < TableSize THEN first_page_table ELSE second_page_table

Slot(v) == v \div TableSize

FirstSlot == Slot(HEAP_AREA_START)

\* heap_mapped as a page.
TopPage == heap_mapped \div PAGE_SIZE

\* The directory slots of the heap pages below page p.
HeapSlots(p) == IF p = HEAP_AREA_START THEN 0 ELSE Slot(p - 1) - FirstSlot + 1

\* The pages of S are identity mapped by the static tables.
Identity(tables, S) == \A v \in S : tables[Static(v)][v % TableSize] = v

\* The static tables are in their slots.
StaticSlots(dir) == dir[0] = first_page_table /\ dir[1] = second_page_table

\* The other slots hold tables that the static ones map.
LowSlots(dir) == \A s \in 2 .. DirSize - 1 : dir[s] \in LowTables \cup {NONE}

\* Before init_paging: the pages below p are allocated.
BootPages(dir, frames, tabs, p) ==
    /\ p \in 0 .. VGA
    /\ frames = 0 .. p - 1
    /\ tabs \in {{}, {0}}
    /\ dir[0] \in {NONE, PAGE_TABLE_AREA_START} /\ (dir[0] = NONE => tabs = {})

\* While the page table area is mapped up to page a: every slot it reaches has a table,
\* at most one was taken before.
AreaPages(dir, tabs, a) ==
    /\ \A s \in 2 .. DirSize - 1 : dir[s] = NONE <=> s > Slot(a - 1)
    /\ \E c \in 0 .. PAGE_TABLE_AREA_END : tabs = 0 .. c - 1 /\ (c <= 1 \/ c <= Slot(a - 1))

\* Under paging, with the heap mapped up to page p: its pages have the frames, and its
\* slots the tables, in the order of their addresses.
HeapMap(dir, tables, frames, tabs, p) ==
    /\ p \in HEAP_AREA_START .. HEAP_AREA_END
    /\ frames = 0 .. p - HEAP_AREA_START - 1
    /\ tabs = 0 .. HeapSlots(p) - 1
    /\ \A s \in FirstSlot .. DirSize - 1 :
          dir[s] = IF s < FirstSlot + HeapSlots(p)
                   THEN PAGE_TABLE_AREA_START + (s - FirstSlot) ELSE NONE
    /\ \A v \in HEAP_AREA_START .. p - 1 :
          tables[PAGE_TABLE_AREA_START + (Slot(v) - FirstSlot)][v % TableSize]
              = PAGE_FRAME_AREA_START + (v - HEAP_AREA_START)

\* The parts of the invariant at the control points.
AtBoot ==
    /\ BootPages(page_directory, page_frame_bitmap, page_table_bitmap, TopPage)
    /\ \A s \in 1 .. DirSize - 1 : page_directory[s] = NONE

MappingKernel ==
    /\ addr \in KERNEL_START .. KERNEL_END
    /\ page_table_bitmap \in {{}, {0}}
    /\ StaticSlots(page_directory)
    /\ \A s \in 2 .. DirSize - 1 : page_directory[s] = NONE
    /\ Identity(page_table, {v \in Kernel : v < addr})

MappingTables ==
    /\ addr \in PAGE_TABLE_AREA_START .. PAGE_TABLE_AREA_END
    /\ page_frame_bitmap = {}
    /\ StaticSlots(page_directory)
    /\ LowSlots(page_directory)
    /\ AreaPages(page_directory, page_table_bitmap, addr)
    /\ Identity(page_table, Kernel \cup {v \in LowTables : v < addr})

\* Everything is mapped but the pages of S.
Complete(S) ==
    /\ StaticSlots(page_directory)
    /\ LowSlots(page_directory)
    /\ Identity(page_table, (Kernel \cup LowTables \cup {VGA}) \ S)
    /\ HeapMap(page_directory, page_table, page_frame_bitmap, page_table_bitmap, TopPage)

PagingInv ==
    /\ pc = "boot" \/ (pc = "grow" /\ ~paging) => AtBoot
    /\ pc = "map_kernel" => MappingKernel
    /\ pc = "map_tables" => MappingTables
    /\ pc = "map_vga" => Complete({VGA}) /\ heap_mapped = HeapStart
    /\ paging => Complete({})

\* The heap has its place in memory.
Moved == pc = "map_vga" \/ paging

\* Blocks from before init_heap_allocator lie below the limit, the others in the heap.
BlocksInv ==
    /\ ~Moved => /\ heap_current <= EarlyMax
                 /\ \A b \in blocks : b.early /\ b.base + b.size <= heap_current
    /\ Moved => /\ HeapStart <= heap_current
                /\ \A b \in blocks :
                      IF b.early THEN b.base + b.size <= HeapStart
                      ELSE paging /\ HeapStart <= b.base /\ b.base + b.size <= heap_current
    /\ BlocksDisjoint

ControlInv ==
    /\ hang \in {"none", "heap"}
    /\ heap_mapped = TopPage * PAGE_SIZE
    /\ heap_current <= heap_mapped
    /\ pc \in {"halt", "run"} => paging
    /\ pc \in {"boot", "map_kernel", "map_tables", "map_vga"} => ~paging
    /\ pc = "grow" => /\ size \in Sizes
                      /\ heap_current + size <= IF paging THEN HeapEnd ELSE EarlyMax

IInv == TypeOK /\ ControlInv /\ PagingInv /\ BlocksInv

-----------------------------------------------------------------------------
(***************************************************************************)
(* Arithmetic of pages and slots.                                          *)
(***************************************************************************)
LEMMA DivMod ==
  ASSUME NEW n \in Nat \ {0}, NEW v \in Nat
  PROVE  /\ v \div n \in Nat /\ v % n \in 0 .. n - 1
         /\ v = (v \div n) * n + (v % n)
OBVIOUS

LEMMA MulMono ==
  ASSUME NEW n \in Nat, NEW a \in Int, NEW b \in Int, a <= b
  PROVE  a * n <= b * n
OBVIOUS

LEMMA MulStep ==
  ASSUME NEW n \in Nat, NEW a \in Int
  PROVE  (a + 1) * n = a * n + n /\ a * n \in Int
OBVIOUS

\* The quotient is the number of whole blocks below.
LEMMA DivUnique ==
  ASSUME NEW n \in Nat \ {0}, NEW v \in Nat, NEW q \in Int, q * n <= v, v < q * n + n
  PROVE  v \div n = q
<1>1. /\ v \div n \in Int /\ (v \div n) * n <= v /\ v < (v \div n) * n + n
  BY DivMod
<1>2. CASE v \div n < q
  <2>1. (v \div n + 1) * n <= q * n
    BY <1>1, <1>2, MulMono
  <2>2. QED
    BY <1>1, <2>1, MulStep
<1>3. CASE v \div n > q
  <2>1. (q + 1) * n <= (v \div n) * n
    BY <1>1, <1>3, MulMono
  <2>2. QED
    BY <1>1, <2>1, MulStep
<1>4. QED
  BY <1>1, <1>2, <1>3

LEMMA DivMono ==
  ASSUME NEW n \in Nat \ {0}, NEW v \in Nat, NEW w \in Nat, v <= w
  PROVE  v \div n <= w \div n
<1>1. v \div n \in Int /\ (v \div n) * n <= v
  BY DivMod
<1>2. w \div n \in Int /\ w < (w \div n) * n + n
  BY DivMod
<1>3. SUFFICES ASSUME w \div n < v \div n PROVE FALSE
  BY <1>1, <1>2
<1>4. (w \div n + 1) * n <= (v \div n) * n
  BY <1>1, <1>2, <1>3, MulMono
<1>5. QED
  BY <1>1, <1>2, <1>4, MulStep

\* A product is less than another only if its factor is.
LEMMA MulLess ==
  ASSUME NEW n \in Nat, NEW a \in Int, NEW b \in Int, a * n < b * n
  PROVE  a < b
<1>1. SUFFICES ASSUME b <= a PROVE FALSE
  OBVIOUS
<1>2. b * n <= a * n
  BY <1>1, MulMono
<1>3. QED
  BY <1>2, MulStep

\* The quotient of a multiple.
LEMMA DivMultiple ==
  ASSUME NEW n \in Nat \ {0}, NEW q \in Nat
  PROVE  (q * n) \div n = q
<1>1. q * n \in Nat /\ q * n <= q * n /\ q * n < q * n + n
  OBVIOUS
<1>2. QED
  BY <1>1, DivUnique

\* The next page is in the same slot or in the next.
LEMMA NextSlot ==
  ASSUME NEW n \in Nat \ {0}, NEW v \in Nat
  PROVE  (v + 1) \div n \in {v \div n, v \div n + 1}
<1>1. /\ v \div n \in Nat /\ v % n \in 0 .. n - 1 /\ v = (v \div n) * n + (v % n)
  BY DivMod
<1> DEFINE q == v \div n
<1> HIDE DEF q
<1>2. /\ q \in Nat /\ q * n \in Int /\ q * n <= v /\ v < q * n + n
  BY <1>1, MulStep DEF q
<1>3. CASE v + 1 < q * n + n
  BY <1>2, <1>3, DivUnique DEF q
<1>4. CASE v + 1 = q * n + n
  <2>1. (q + 1) * n = v + 1
    BY <1>2, <1>4, MulStep
  <2>2. QED
    BY <1>2, <2>1, DivMultiple DEF q
<1>5. QED
  BY <1>2, <1>3, <1>4

\* A page is known by its slot and its index.
LEMMA SamePage ==
  ASSUME NEW n \in Nat \ {0}, NEW v \in Nat, NEW w \in Nat,
         v \div n = w \div n, v % n = w % n
  PROVE  v = w
BY DivMod

\* The facts of the layout.
LEMMA Layout ==
  /\ PAGE_SIZE \in Nat /\ PAGE_SIZE > 0 /\ TableSize \in Nat /\ TableSize > 0
  /\ DirSize \in Nat /\ DirSize > 0
  /\ VGA \in Nat /\ KERNEL_START \in Nat /\ KERNEL_END \in Nat
  /\ PAGE_TABLE_AREA_START \in Nat /\ PAGE_TABLE_AREA_END \in Nat
  /\ PAGE_FRAME_AREA_START \in Nat /\ PAGE_FRAME_AREA_END \in Nat
  /\ HEAP_AREA_START \in Nat /\ HEAP_AREA_END \in Nat
  /\ VGA < KERNEL_START /\ KERNEL_START < KERNEL_END /\ KERNEL_END <= TableSize
  /\ KERNEL_END <= PAGE_TABLE_AREA_START /\ PAGE_TABLE_AREA_START < PAGE_TABLE_AREA_END
  /\ PAGE_TABLE_AREA_END <= PAGE_FRAME_AREA_START
  /\ PAGE_FRAME_AREA_START < PAGE_FRAME_AREA_END
  /\ PAGE_FRAME_AREA_END <= HEAP_AREA_START /\ HEAP_AREA_START < HEAP_AREA_END
  /\ DirSize * TableSize \in Nat /\ HEAP_AREA_END <= DirSize * TableSize
  /\ first_page_table \in Nat /\ KERNEL_START <= first_page_table
  /\ first_page_table < KERNEL_END
  /\ second_page_table \in Nat /\ KERNEL_START <= second_page_table
  /\ second_page_table < KERNEL_END
  /\ first_page_table # second_page_table
  /\ HEAP_AREA_END - HEAP_AREA_START <= PAGE_FRAME_AREA_END - PAGE_FRAME_AREA_START
  /\ VGA <= PAGE_FRAME_AREA_END - PAGE_FRAME_AREA_START
BY LayoutAssumption, PlacementAssumption DEF Kernel

\* The tables of the heap's slots.
LEMMA HeapTable ==
  ASSUME NEW v \in HEAP_AREA_START .. HEAP_AREA_END - 1
  PROVE  /\ FirstSlot \in Nat /\ 2 <= FirstSlot
         /\ Slot(v) \in FirstSlot .. DirSize - 1
         /\ v % TableSize \in 0 .. TableSize - 1
         /\ Slot(v) - FirstSlot \in TableIds
         /\ PAGE_TABLE_AREA_START + (Slot(v) - FirstSlot) \in LowTables
<1>1. v \in Nat /\ HEAP_AREA_END - 1 \in Nat /\ v <= HEAP_AREA_END - 1 /\ HEAP_AREA_START <= v
  BY Layout
<1>2. /\ Slot(v) \in Nat /\ v % TableSize \in 0 .. TableSize - 1
      /\ FirstSlot \in Nat /\ Slot(HEAP_AREA_END - 1) \in Nat
      /\ Slot(v) * TableSize <= v
  BY <1>1, Layout, DivMod DEF Slot, FirstSlot
<1>3. FirstSlot <= Slot(v) /\ Slot(v) <= Slot(HEAP_AREA_END - 1)
  BY <1>1, Layout, DivMono DEF Slot, FirstSlot
<1>4. /\ 2 <= FirstSlot
      /\ PAGE_TABLE_AREA_START + (Slot(HEAP_AREA_END - 1) - FirstSlot + 1) <= PAGE_TABLE_AREA_END
      /\ PAGE_TABLE_AREA_START + (Slot(HEAP_AREA_END - 1) - FirstSlot + 1) <= 2 * TableSize
  BY PlacementAssumption DEF Slot, FirstSlot
<1>5. Slot(v) < DirSize
  <2>1. Slot(v) * TableSize < DirSize * TableSize
    BY <1>1, <1>2, Layout, MulStep
  <2>2. QED
    BY <1>2, <2>1, Layout, MulLess
<1>6. QED
  BY <1>1, <1>2, <1>3, <1>4, <1>5, Layout DEF LowTables, TableArea, TableIds

\* The tables of the slots of the page table area.
LEMMA AreaTable ==
  ASSUME NEW v \in PAGE_TABLE_AREA_START .. PAGE_TABLE_AREA_END - 1
  PROVE  /\ Slot(v) \in 0 .. FirstSlot - 1 /\ Slot(v) < DirSize
         /\ v % TableSize \in 0 .. TableSize - 1
         /\ \A i \in 0 .. Slot(v) - 1 : i \in TableIds /\ PAGE_TABLE_AREA_START + i \in LowTables
<1>1. /\ v \in Nat /\ PAGE_TABLE_AREA_END - 1 \in Nat /\ v <= PAGE_TABLE_AREA_END - 1
  BY Layout
<1>2. /\ Slot(v) \in Nat /\ v % TableSize \in 0 .. TableSize - 1
      /\ Slot(PAGE_TABLE_AREA_END - 1) \in Nat
  BY <1>1, Layout, DivMod DEF Slot
<1>3. Slot(v) <= Slot(PAGE_TABLE_AREA_END - 1)
  BY <1>1, Layout, DivMono DEF Slot
<1>4. /\ Slot(PAGE_TABLE_AREA_END - 1) < FirstSlot
      /\ PAGE_TABLE_AREA_START + Slot(PAGE_TABLE_AREA_END - 1) <= PAGE_TABLE_AREA_END
      /\ PAGE_TABLE_AREA_START + Slot(PAGE_TABLE_AREA_END - 1) <= 2 * TableSize
  BY PlacementAssumption DEF Slot, FirstSlot
<1>5. FirstSlot \in Nat /\ FirstSlot < DirSize
  <2>1. HEAP_AREA_START \in HEAP_AREA_START .. HEAP_AREA_END - 1
    BY Layout
  <2>2. FirstSlot \in Nat /\ Slot(HEAP_AREA_START) \in FirstSlot .. DirSize - 1
    BY <2>1, HeapTable
  <2>3. QED
    BY <2>2, Layout DEF FirstSlot
<1>6. QED
  BY <1>1, <1>2, <1>3, <1>4, <1>5, Layout DEF LowTables, TableArea, TableIds

\* The next heap page is in the last slot that has a table or in the next one.
LEMMA SlotsGrow ==
  ASSUME NEW p \in HEAP_AREA_START .. HEAP_AREA_END - 1
  PROVE  /\ HeapSlots(p) \in Nat
         /\ HeapSlots(p + 1) = Slot(p) - FirstSlot + 1
         /\ Slot(p) - FirstSlot = HeapSlots(p) \/ Slot(p) - FirstSlot = HeapSlots(p) - 1
<1>1. /\ p \in Nat /\ HEAP_AREA_START \in Nat /\ Slot(p) \in Nat
      /\ FirstSlot \in Nat /\ FirstSlot <= Slot(p)
  BY HeapTable, Layout
<1>2. CASE p = HEAP_AREA_START
  BY <1>1, <1>2 DEF HeapSlots, FirstSlot
<1>3. CASE p # HEAP_AREA_START
  <2>1. p - 1 \in HEAP_AREA_START .. HEAP_AREA_END - 1 /\ p - 1 \in Nat /\ p = (p - 1) + 1
    BY <1>1, <1>3, Layout
  <2>2. Slot(p - 1) \in Nat /\ FirstSlot <= Slot(p - 1)
    BY <1>1, <2>1, HeapTable
  <2>3. Slot(p) = Slot(p - 1) \/ Slot(p) = Slot(p - 1) + 1
    BY <2>1, Layout, NextSlot DEF Slot
  <2>4. p + 1 # HEAP_AREA_START /\ (p + 1) - 1 = p
    BY <1>1, <2>1
  <2>5. HeapSlots(p) = Slot(p - 1) - FirstSlot + 1 /\ HeapSlots(p + 1) = Slot(p) - FirstSlot + 1
    BY <1>3, <2>4 DEF HeapSlots
  <2>6. QED
    BY <1>1, <2>2, <2>3, <2>5
<1>4. QED
  BY <1>2, <1>3

\* The tables are pages that are no heap pages, no frames and not NONE.
LEMMA TableFacts ==
  /\ \A t \in Tables : t \in Nat /\ t \in Page /\ t # NONE /\ t < PAGE_FRAME_AREA_START
                      /\ VGA < t
  /\ LowTables \subseteq Tables
  /\ first_page_table \in Tables /\ second_page_table \in Tables
  /\ \A t \in LowTables : t # first_page_table /\ t # second_page_table
                        /\ t \in Nat /\ t < 2 * TableSize
<1>1. \A t \in Tables : t \in Nat /\ t < PAGE_FRAME_AREA_START /\ VGA < t
  BY Layout DEF Tables, TableArea
<1>2. \A t \in Tables : t \in Page
  BY <1>1, Layout DEF Page
<1>3. \A t \in Tables : t # NONE
  BY <1>2, LayoutAssumption
<1>4. /\ LowTables \subseteq Tables
      /\ first_page_table \in Tables /\ second_page_table \in Tables
  BY DEF LowTables, Tables
<1>5. \A t \in LowTables : t # first_page_table /\ t # second_page_table
                        /\ t \in Nat /\ t < 2 * TableSize
  BY Layout DEF LowTables, TableArea
<1>6. QED
  BY <1>1, <1>2, <1>3, <1>4, <1>5

\* The slot of a page of the first two.
LEMMA StaticSlot ==
  ASSUME NEW v \in Nat, v < 2 * TableSize
  PROVE  /\ Slot(v) = IF v < TableSize THEN 0 ELSE 1
         /\ Static(v) \in {first_page_table, second_page_table}
<1>1. CASE v < TableSize
  <2>1. 0 * TableSize <= v /\ v < 0 * TableSize + TableSize
    BY <1>1, Layout
  <2>2. QED
    BY <1>1, <2>1, Layout, DivUnique DEF Slot, Static
<1>2. CASE ~ (v < TableSize)
  <2>1. 1 * TableSize <= v /\ v < 1 * TableSize + TableSize
    BY <1>2, Layout
  <2>2. QED
    BY <1>2, <2>1, Layout, DivUnique DEF Slot, Static
<1>3. QED
  BY <1>1, <1>2

\* Below the second slot's end the static tables translate.
LEMMA LowTranslate ==
  ASSUME NEW dir, NEW tables, StaticSlots(dir), NEW v \in Nat, v < 2 * TableSize
  PROVE  Translate(dir, tables, v) = tables[Static(v)][v % TableSize]
<1>1. dir[Slot(v)] = Static(v)
  BY StaticSlot DEF StaticSlots, Static
<1>2. Static(v) # NONE
  BY StaticSlot, TableFacts
<1>3. QED
  BY <1>1, <1>2 DEF Translate, Slot

\* First fit in a bitmap that is filled from the bottom.
LEMMA FirstFit ==
  ASSUME NEW n \in Nat, NEW c \in 0 .. n - 1
  PROVE  /\ LowestFree(0 .. c - 1, 0 .. n - 1) = c
         /\ ~ (0 .. n - 1 \subseteq 0 .. c - 1)
         /\ (0 .. c - 1) \cup {c} = 0 .. (c + 1) - 1
<1>1. c \in (0 .. n - 1) \ (0 .. c - 1)
  OBVIOUS
<1>2. \A j \in (0 .. n - 1) \ (0 .. c - 1) : c <= j
  OBVIOUS
<1>3. \A i \in (0 .. n - 1) \ (0 .. c - 1) :
         (\A j \in (0 .. n - 1) \ (0 .. c - 1) : i <= j) => i = c
  BY <1>1, <1>2
<1>4. LowestFree(0 .. c - 1, 0 .. n - 1) = c
  BY <1>1, <1>2, <1>3 DEF LowestFree
<1>5. QED
  BY <1>1, <1>4

\* Page v lies in a slot whose table is t, or will be when table c is allocated, and
\* the pointer to t reaches t.
Mappable(v, t, c) ==
    /\ page_directory[Slot(v)] \in {NONE, t}
    /\ page_directory[Slot(v)] = NONE =>
          /\ t = PAGE_TABLE_AREA_START + c
          /\ ~ (TableIds \subseteq page_table_bitmap)
          /\ LowestFree(page_table_bitmap, TableIds) = c
    /\ Physical([page_directory EXCEPT ![Slot(v)] = t], page_table, t) = t

\* map_page then makes the slot point to t, and the entry of v in t is p.
MappedTo(v, p, t, c) ==
    [fails  |-> "none",
     dir    |-> [page_directory EXCEPT ![Slot(v)] = t],
     tables |-> [page_table EXCEPT ![t][v % TableSize] = p],
     bitmap |-> IF page_directory[Slot(v)] = NONE
                THEN page_table_bitmap \cup {c} ELSE page_table_bitmap]

LEMMA MapPage ==
  ASSUME NEW v \in Nat, NEW p, NEW t \in Tables, NEW c, Mappable(v, t, c)
  PROVE  map_page(v, p) = MappedTo(v, p, t, c)
<1>1. t # NONE
  BY TableFacts
<1>2. /\ page_directory[Slot(v)] \in {NONE, t}
      /\ Physical([page_directory EXCEPT ![Slot(v)] = t], page_table, t) = t
  BY Zenon DEF Mappable
<1>3. CASE page_directory[Slot(v)] = NONE
  <2>1. /\ PAGE_TABLE_AREA_START + LowestFree(page_table_bitmap, TableIds) = t
        /\ ~ (TableIds \subseteq page_table_bitmap)
        /\ LowestFree(page_table_bitmap, TableIds) = c
    BY <1>3 DEF Mappable
  <2>2. QED
    BY <1>1, <1>2, <1>3, <2>1, Zenon DEF map_page, Slot, MappedTo
<1>4. CASE page_directory[Slot(v)] = t
  BY <1>1, <1>2, <1>4, Zenon DEF map_page, Slot, MappedTo
<1>5. QED
  BY <1>2, <1>3, <1>4

\* One round of a mapping loop that goes on at next.
MappedStep(v, p, t, c, next) ==
    /\ page_directory' = [page_directory EXCEPT ![Slot(v)] = t]
    /\ page_table' = [page_table EXCEPT ![t][v % TableSize] = p]
    /\ page_table_bitmap' = IF page_directory[Slot(v)] = NONE
                            THEN page_table_bitmap \cup {c} ELSE page_table_bitmap
    /\ pc' = next /\ UNCHANGED hang

LEMMA MapThenStep ==
  ASSUME NEW v \in Nat, NEW p, NEW t \in Tables, NEW c, NEW next,
         Mappable(v, t, c), MapThen(v, p, next)
  PROVE  MappedStep(v, p, t, c, next)
<1> DEFINE m == map_page(v, p)
<1>1. m = MappedTo(v, p, t, c)
  BY MapPage
<1>2. \/ m.fails # "none"
      \/ /\ page_directory' = m.dir /\ page_table' = m.tables /\ page_table_bitmap' = m.bitmap
         /\ pc' = next /\ UNCHANGED hang
  BY Zenon DEF MapThen
<1> HIDE DEF m
<1>3. /\ m.fails = "none"
      /\ m.dir = [page_directory EXCEPT ![Slot(v)] = t]
      /\ m.tables = [page_table EXCEPT ![t][v % TableSize] = p]
      /\ m.bitmap = IF page_directory[Slot(v)] = NONE
                    THEN page_table_bitmap \cup {c} ELSE page_table_bitmap
  BY <1>1 DEF MappedTo
<1>4. QED
  BY <1>2, <1>3, Zenon DEF MappedStep

-----------------------------------------------------------------------------
(***************************************************************************)
(* Directories and tables.                                                 *)
(***************************************************************************)
DirType == [0 .. DirSize - 1 -> Tables \cup {NONE}]

TablesType == [Tables -> [0 .. TableSize - 1 -> Page \cup {NONE}]]

\* Only entry i of table t differs, and is p.
OnlyEntry(tables, new, t, i, p) ==
    /\ new \in TablesType
    /\ new[t][i] = p
    /\ \A u \in Tables : \A j \in 0 .. TableSize - 1 :
          u # t \/ j # i => new[u][j] = tables[u][j]

LEMMA EntryWritten ==
  ASSUME NEW tables \in TablesType, NEW t \in Tables, NEW i \in 0 .. TableSize - 1,
         NEW p \in Page, NEW new, new = [tables EXCEPT ![t][i] = p]
  PROVE  OnlyEntry(tables, new, t, i, p)
<1>1. tables[t] \in [0 .. TableSize - 1 -> Page \cup {NONE}]
  BY DEF TablesType
<1> DEFINE e == [tables[t] EXCEPT ![i] = p]
<1>2. /\ e \in [0 .. TableSize - 1 -> Page \cup {NONE}] /\ e[i] = p
      /\ \A j \in 0 .. TableSize - 1 : j # i => e[j] = tables[t][j]
  BY <1>1
<1>3. new = [tables EXCEPT ![t] = e]
  OBVIOUS
<1> HIDE DEF e
<1>4. new \in TablesType /\ new[t] = e /\ \A u \in Tables : u # t => new[u] = tables[u]
  BY <1>2, <1>3 DEF TablesType
<1>5. \A u \in Tables : \A j \in 0 .. TableSize - 1 : u # t \/ j # i => new[u][j] = tables[u][j]
  BY <1>2, <1>4
<1>6. QED
  BY <1>2, <1>4, <1>5, Zenon DEF OnlyEntry

\* Writing its own number into the entry of a page of the first two slots.
LEMMA IdentityGrows ==
  ASSUME NEW tables \in TablesType, NEW S, S \subseteq {u \in Nat : u < 2 * TableSize},
         Identity(tables, S), NEW v \in Nat, v < 2 * TableSize, v \in Page,
         NEW new, new = [tables EXCEPT ![Static(v)][v % TableSize] = v]
  PROVE  Identity(new, S \cup {v})
<1> SUFFICES ASSUME NEW u \in S \cup {v} PROVE new[Static(u)][u % TableSize] = u
  BY DEF Identity
<1>1. /\ u \in Nat /\ u < 2 * TableSize
      /\ Static(u) \in Tables /\ Static(v) \in Tables
      /\ u % TableSize \in 0 .. TableSize - 1 /\ v % TableSize \in 0 .. TableSize - 1
  BY StaticSlot, TableFacts, Layout, DivMod
<1>2. /\ new[Static(v)][v % TableSize] = v
      /\ Static(u) # Static(v) \/ u % TableSize # v % TableSize =>
            new[Static(u)][u % TableSize] = tables[Static(u)][u % TableSize]
  <2>1. OnlyEntry(tables, new, Static(v), v % TableSize, v)
    BY <1>1, EntryWritten
  <2>2. QED
    BY <1>1, <2>1, Zenon DEF OnlyEntry
<1>3. CASE u = v
  BY <1>2, <1>3
<1>4. CASE u # v
  <2>1. Static(u) # Static(v) \/ u % TableSize # v % TableSize
    <3>1. SUFFICES ASSUME Static(u) = Static(v), u % TableSize = v % TableSize PROVE FALSE
      OBVIOUS
    <3>2. Slot(u) = Slot(v)
      BY <1>1, <3>1, StaticSlot, Layout DEF Static
    <3>3. QED
      BY <1>1, <1>4, <3>1, <3>2, Layout, SamePage DEF Slot
  <2>2. tables[Static(u)][u % TableSize] = u
    BY <1>4 DEF Identity
  <2>3. QED
    BY <1>2, <2>1, <2>2
<1>5. QED
  BY <1>3, <1>4

\* Writing a table that was allocated leaves the static ones alone.
LEMMA IdentityKept ==
  ASSUME NEW tables \in TablesType, NEW S, S \subseteq {u \in Nat : u < 2 * TableSize},
         Identity(tables, S), NEW t \in LowTables, NEW i \in 0 .. TableSize - 1, NEW p \in Page,
         NEW new, new = [tables EXCEPT ![t][i] = p]
  PROVE  Identity(new, S)
<1> SUFFICES ASSUME NEW u \in S PROVE new[Static(u)][u % TableSize] = u
  BY DEF Identity
<1>1. /\ u \in Nat /\ u < 2 * TableSize /\ t \in Tables
      /\ Static(u) \in Tables /\ Static(u) # t
      /\ u % TableSize \in 0 .. TableSize - 1
  BY StaticSlot, TableFacts, Layout, DivMod
<1>2. new[Static(u)][u % TableSize] = tables[Static(u)][u % TableSize]
  <2>1. OnlyEntry(tables, new, t, i, p)
    BY <1>1, EntryWritten
  <2>2. QED
    BY <1>1, <2>1, Zenon DEF OnlyEntry
<1>3. QED
  BY <1>2 DEF Identity

\* The frame of a heap page is a page and no table.
LEMMA FramePage ==
  ASSUME NEW v \in HEAP_AREA_START .. HEAP_AREA_END - 1,
         NEW f, f = PAGE_FRAME_AREA_START + (v - HEAP_AREA_START)
  PROVE  f \in Page /\ f \notin Tables \cup {NONE} /\ v - HEAP_AREA_START \in Frames
<1>1. /\ f \in Nat /\ PAGE_FRAME_AREA_START <= f /\ f < PAGE_FRAME_AREA_END
      /\ v - HEAP_AREA_START \in Frames
  BY Layout DEF Frames
<1>2. f \in Page
  BY <1>1, Layout DEF Page
<1>3. f \notin Tables
  BY <1>1, Layout, TableFacts
<1>4. f # NONE
  BY <1>2, LayoutAssumption
<1>5. QED
  BY <1>1, <1>2, <1>3, <1>4

\* What the heap maps is mapped to its frame.
LEMMA HeapTranslate ==
  ASSUME NEW dir, NEW tables, NEW frames, NEW tabs, NEW p,
         HeapMap(dir, tables, frames, tabs, p), NEW v \in HEAP_AREA_START .. p - 1
  PROVE  /\ Translate(dir, tables, v) = PAGE_FRAME_AREA_START + (v - HEAP_AREA_START)
         /\ v - HEAP_AREA_START \in frames
         /\ PAGE_FRAME_AREA_START + (v - HEAP_AREA_START) \in Page
         /\ PAGE_FRAME_AREA_START + (v - HEAP_AREA_START) \notin Tables \cup {NONE}
<1>1. /\ p \in Nat /\ p <= HEAP_AREA_END /\ v \in Nat /\ HEAP_AREA_START <= v /\ v < p
      /\ v \in HEAP_AREA_START .. HEAP_AREA_END - 1
  BY Layout DEF HeapMap
<1> DEFINE f == PAGE_FRAME_AREA_START + (v - HEAP_AREA_START)
<1>2. f \in Page /\ f \notin Tables \cup {NONE}
  BY <1>1, FramePage
<1>3. v - HEAP_AREA_START \in frames
  BY <1>1, Layout DEF HeapMap
<1> DEFINE t == PAGE_TABLE_AREA_START + (Slot(v) - FirstSlot)
<1>4. Slot(v) \in FirstSlot .. DirSize - 1 /\ t \in LowTables /\ t # NONE /\ FirstSlot \in Nat
  BY <1>1, HeapTable, TableFacts
<1>5. Slot(v) < FirstSlot + HeapSlots(p)
  <2>1. p - 1 \in Nat /\ v <= p - 1 /\ p # HEAP_AREA_START
    BY <1>1, Layout
  <2>2. Slot(v) <= Slot(p - 1)
    BY <1>1, <2>1, Layout, DivMono DEF Slot
  <2>3. HeapSlots(p) = Slot(p - 1) - FirstSlot + 1
    BY <2>1 DEF HeapSlots
  <2>4. Slot(p - 1) \in Nat
    <3>1. TableSize \in Nat \ {0}
      BY Layout
    <3>2. QED
      BY <2>1, <3>1, DivMod DEF Slot
  <2>5. QED
    BY <1>4, <2>2, <2>3, <2>4
<1>6. dir[Slot(v)] = t
  BY <1>4, <1>5 DEF HeapMap
<1>7. tables[t][v % TableSize] = f
  BY DEF HeapMap
<1>8. Translate(dir, tables, v) = f
  BY <1>4, <1>6, <1>7, Zenon DEF Translate, Slot
<1>9. QED
  BY <1>2, <1>3, <1>8

\* Mapping the next heap page.
LEMMA HeapMapGrows ==
  ASSUME NEW dir \in DirType, NEW tables \in TablesType, NEW frames, NEW tabs, NEW p,
         HeapMap(dir, tables, frames, tabs, p), p < HEAP_AREA_END,
         NEW t, t = PAGE_TABLE_AREA_START + (Slot(p) - FirstSlot),
         NEW f, f = PAGE_FRAME_AREA_START + (p - HEAP_AREA_START),
         NEW dirn, dirn = [dir EXCEPT ![Slot(p)] = t],
         NEW tablesn, tablesn = [tables EXCEPT ![t][p % TableSize] = f],
         NEW tabsn, tabsn = IF dir[Slot(p)] = NONE THEN tabs \cup {Slot(p) - FirstSlot} ELSE tabs
  PROVE  HeapMap(dirn, tablesn, frames \cup {p - HEAP_AREA_START}, tabsn, p + 1)
<1>1. /\ p \in HEAP_AREA_START .. HEAP_AREA_END - 1 /\ p \in Nat
      /\ frames = 0 .. p - HEAP_AREA_START - 1 /\ tabs = 0 .. HeapSlots(p) - 1
      /\ HEAP_AREA_START \in Nat /\ HEAP_AREA_END \in Nat
  <2>1. /\ p \in HEAP_AREA_START .. HEAP_AREA_END
        /\ frames = 0 .. p - HEAP_AREA_START - 1 /\ tabs = 0 .. HeapSlots(p) - 1
    BY Zenon DEF HeapMap
  <2>2. HEAP_AREA_START \in Nat /\ HEAP_AREA_END \in Nat
    BY Layout
  <2>3. p \in HEAP_AREA_START .. HEAP_AREA_END - 1 /\ p \in Nat
    BY <2>1, <2>2
  <2>4. QED
    BY <2>1, <2>2, <2>3
<1>2. /\ FirstSlot \in Nat /\ Slot(p) \in FirstSlot .. DirSize - 1
      /\ p % TableSize \in 0 .. TableSize - 1 /\ t \in LowTables /\ t \in Tables /\ t # NONE
      /\ t \in Nat
  BY <1>1, HeapTable, TableFacts
<1> DEFINE h == HeapSlots(p)
           k == HeapSlots(p + 1)
<1>3. /\ h \in Nat /\ k = Slot(p) - FirstSlot + 1
      /\ Slot(p) - FirstSlot = h \/ Slot(p) - FirstSlot = h - 1
  BY <1>1, SlotsGrow
<1>4. \A s \in FirstSlot .. DirSize - 1 :
         dir[s] = IF s < FirstSlot + h THEN PAGE_TABLE_AREA_START + (s - FirstSlot) ELSE NONE
  BY DEF HeapMap
<1> HIDE DEF h, k
<1>5. dir[Slot(p)] = IF Slot(p) - FirstSlot = h THEN NONE ELSE t
  BY <1>2, <1>3, <1>4
<1>6. p + 1 \in HEAP_AREA_START .. HEAP_AREA_END
  BY <1>1
<1>7. frames \cup {p - HEAP_AREA_START} = 0 .. (p + 1) - HEAP_AREA_START - 1
  BY <1>1
<1>8. tabsn = 0 .. k - 1
  <2>1. tabs = 0 .. h - 1
    BY <1>1 DEF h
  <2>2. CASE Slot(p) - FirstSlot = h
    BY <1>2, <1>3, <1>5, <2>1, <2>2
  <2>3. CASE Slot(p) - FirstSlot = h - 1
    BY <1>2, <1>3, <1>5, <2>1, <2>3
  <2>4. QED
    BY <1>3, <2>2, <2>3
<1>9. ASSUME NEW s \in FirstSlot .. DirSize - 1
      PROVE  dirn[s] = IF s < FirstSlot + k THEN PAGE_TABLE_AREA_START + (s - FirstSlot) ELSE NONE
  <2>1. s \in DOMAIN dir /\ s \in Nat
    BY <1>2 DEF DirType
  <2>2. CASE s = Slot(p)
    <3>1. dirn[s] = t
      BY <2>1, <2>2
    <3>2. s < FirstSlot + k
      BY <1>2, <1>3, <2>2
    <3>3. QED
      BY <2>2, <3>1, <3>2
  <2>3. CASE s # Slot(p)
    <3>1. dirn[s] = dir[s]
      BY <2>1, <2>3
    <3>2. s < FirstSlot + k <=> s < FirstSlot + h
      BY <1>2, <1>3, <2>1, <2>3
    <3>3. QED
      BY <1>4, <3>1, <3>2
  <2>4. QED
    BY <2>2, <2>3
<1>10. ASSUME NEW v \in HEAP_AREA_START .. (p + 1) - 1
       PROVE  tablesn[PAGE_TABLE_AREA_START + (Slot(v) - FirstSlot)][v % TableSize]
                 = PAGE_FRAME_AREA_START + (v - HEAP_AREA_START)
  <2>1. v \in HEAP_AREA_START .. HEAP_AREA_END - 1 /\ v \in Nat /\ (v # p => v \in HEAP_AREA_START .. p - 1)
    BY <1>1
  <2> DEFINE u == PAGE_TABLE_AREA_START + (Slot(v) - FirstSlot)
  <2>2. /\ u \in LowTables /\ v % TableSize \in 0 .. TableSize - 1
        /\ Slot(v) \in FirstSlot .. DirSize - 1
    BY <2>1, HeapTable
  <2> HIDE DEF u
  <2>9. u \in Tables /\ Slot(v) \in Int /\ Slot(p) \in Int
    BY <1>2, <2>2, TableFacts
  <2>3. f \in Page
    BY <1>1, FramePage
  <2>4. /\ tablesn[t][p % TableSize] = f
        /\ u # t \/ v % TableSize # p % TableSize =>
              tablesn[u][v % TableSize] = tables[u][v % TableSize]
    <3>1. OnlyEntry(tables, tablesn, t, p % TableSize, f)
      BY <1>2, <2>3, EntryWritten
    <3>2. QED
      BY <1>2, <2>2, <2>9, <3>1, Zenon DEF OnlyEntry
  <2>5. CASE v = p
    BY <2>4, <2>5 DEF u
  <2>6. CASE v # p
    <3>1. u # t \/ v % TableSize # p % TableSize
      <4>1. SUFFICES ASSUME u = t, v % TableSize = p % TableSize PROVE FALSE
        OBVIOUS
      <4>2. Slot(v) = Slot(p)
        <5>1. PAGE_TABLE_AREA_START + (Slot(v) - FirstSlot) = PAGE_TABLE_AREA_START + (Slot(p) - FirstSlot)
          BY <4>1 DEF u
        <5>2. PAGE_TABLE_AREA_START \in Int
          BY Layout
        <5>3. QED
          BY <1>2, <2>9, <5>1, <5>2
      <4>3. TableSize \in Nat \ {0} /\ v \div TableSize = p \div TableSize
        BY <4>2, Layout DEF Slot
      <4>4. QED
        BY <1>1, <2>1, <2>6, <4>1, <4>3, SamePage
    <3>2. tables[u][v % TableSize] = PAGE_FRAME_AREA_START + (v - HEAP_AREA_START)
      BY <2>1, <2>6 DEF HeapMap, u
    <3>3. QED
      BY <2>4, <3>1, <3>2 DEF u
  <2>7. QED
    BY <2>5, <2>6
<1>11. QED
  BY <1>6, <1>7, <1>8, <1>9, <1>10 DEF HeapMap, k

-----------------------------------------------------------------------------
(***************************************************************************)
(* The initial state, and init_paging.                                     *)
(***************************************************************************)

\* The pages that are to be identity mapped lie in the first two slots.
LEMMA LowPages ==
  \A v \in Kernel \cup LowTables \cup {VGA} : v \in Nat /\ v < 2 * TableSize /\ v \in Page
<1>1. \A v \in Kernel \cup {VGA} : v \in Nat /\ v < TableSize /\ v < HEAP_AREA_END
  BY Layout DEF Kernel
<1>2. \A v \in LowTables : v \in Nat /\ v < 2 * TableSize /\ v < HEAP_AREA_END
  BY Layout DEF LowTables, TableArea
<1>3. \A v \in Nat : v < HEAP_AREA_END => v \in Page
  BY Layout DEF Page
<1>4. \A v \in Nat : v < TableSize => v < 2 * TableSize
  BY Layout
<1>5. QED
  BY <1>1, <1>2, <1>3, <1>4

\* Multiples of the page size.
LEMMA PageBytes ==
  /\ HeapStart \in Nat /\ HeapEnd \in Nat /\ HeapStart <= HeapEnd
  /\ PAGE_SIZE * VGA = VGA * PAGE_SIZE /\ EarlyMax \in Nat /\ EarlyMax <= VGA * PAGE_SIZE
  /\ VGA * PAGE_SIZE \in Nat /\ EarlyMax <= HeapStart /\ EarlyMax <= HeapEnd
<1>1. /\ HEAP_AREA_START * PAGE_SIZE <= HEAP_AREA_END * PAGE_SIZE
      /\ VGA * PAGE_SIZE <= HEAP_AREA_START * PAGE_SIZE
  BY Layout, MulMono
<1>2. /\ HEAP_AREA_START * PAGE_SIZE \in Nat /\ HEAP_AREA_END * PAGE_SIZE \in Nat
      /\ VGA * PAGE_SIZE \in Nat /\ PAGE_SIZE * VGA = VGA * PAGE_SIZE
  BY Layout
<1>3. EarlyMax \in 0 .. PAGE_SIZE * VGA
  BY LayoutAssumption
<1>4. QED
  BY <1>1, <1>2, <1>3 DEF HeapStart, HeapEnd

\* A block is a piece of memory.
LEMMA BlockTypes ==
  ASSUME TypeOK
  PROVE  /\ \A b \in blocks : b.base \in Nat /\ b.size \in Nat /\ b.size > 0
         /\ heap_current \in Nat /\ heap_mapped \in Nat
<1>1. HeapEnd \in Nat /\ \A s \in Sizes : s \in Nat /\ s > 0
  BY PageBytes, LayoutAssumption
<1>2. \A b \in blocks : b.base \in 0 .. HeapEnd /\ b.size \in Sizes
  BY DEF TypeOK
<1>3. heap_current \in 0 .. HeapEnd /\ heap_mapped \in 0 .. HeapEnd
  BY DEF TypeOK
<1>4. QED
  BY <1>1, <1>2, <1>3

\* The directory has the slots of the static tables and of the heap.
LEMMA Directory ==
  /\ FirstSlot \in 2 .. DirSize - 1
  /\ 0 \in 0 .. DirSize - 1 /\ 1 \in 0 .. DirSize - 1
  /\ \A s \in 2 .. DirSize - 1 : s \in 0 .. DirSize - 1 /\ s # 0 /\ s # 1
<1>1. HEAP_AREA_START \in HEAP_AREA_START .. HEAP_AREA_END - 1
  BY Layout
<1>2. FirstSlot \in Nat /\ 2 <= FirstSlot /\ FirstSlot \in FirstSlot .. DirSize - 1
  BY <1>1, HeapTable DEF FirstSlot
<1>3. DirSize \in Nat
  BY Layout
<1>4. QED
  BY <1>2, <1>3

LEMMA InitInvariant == Init => IInv
<1> SUFFICES ASSUME Init PROVE IInv
  OBVIOUS
<1>1. TypeOK
  <2>1. EmptyTable \in [0 .. TableSize - 1 -> Page \cup {NONE}]
    BY DEF EmptyTable
  <2>2. page_directory \in [0 .. DirSize - 1 -> Tables \cup {NONE}]
    BY DEF Init
  <2>3. page_table \in [Tables -> [0 .. TableSize - 1 -> Page \cup {NONE}]]
    BY <2>1 DEF Init
  <2>4. 0 \in 0 .. HeapEnd /\ 0 \in 0 .. PAGE_TABLE_AREA_END
    BY PageBytes, Layout
  <2>5. QED
    BY <2>2, <2>3, <2>4 DEF Init, TypeOK
<1>2. TopPage = 0
  <2>1. (0 * PAGE_SIZE) \div PAGE_SIZE = 0
    BY Layout, DivMultiple
  <2>2. QED
    BY <2>1, Layout DEF Init, TopPage
<1>3. ControlInv
  <2>1. 0 = 0 * PAGE_SIZE
    BY Layout
  <2>2. QED
    BY <1>2, <2>1 DEF Init, ControlInv
<1>4. PagingInv
  <2>1. BootPages(page_directory, page_frame_bitmap, page_table_bitmap, TopPage)
    <3>1. page_directory[0] = NONE
      BY Directory DEF Init
    <3>2. 0 \in 0 .. VGA /\ {} = 0 .. 0 - 1
      BY Layout
    <3>3. QED
      BY <1>2, <3>1, <3>2 DEF Init, BootPages
  <2>2. \A s \in 1 .. DirSize - 1 : page_directory[s] = NONE
    BY Layout DEF Init
  <2>3. QED
    BY <2>1, <2>2, Zenon DEF Init, PagingInv, AtBoot
<1>5. BlocksInv
  BY PageBytes DEF Init, BlocksInv, BlocksDisjoint, Moved
<1>6. QED
  BY <1>1, <1>3, <1>4, <1>5 DEF IInv

\* A step that leaves the heap alone and stays on its side of the move.
LEMMA BlocksKept ==
  ASSUME BlocksInv, UNCHANGED <<heap_current, blocks>>, Moved' = Moved, paging => paging'
  PROVE  BlocksInv'
<1>1. BlocksDisjoint'
  BY DEF BlocksInv, BlocksDisjoint
<1>2. CASE ~Moved
  BY <1>1, <1>2 DEF BlocksInv
<1>3. CASE Moved
  BY <1>1, <1>3 DEF BlocksInv
<1>4. QED
  BY <1>2, <1>3

LEMMA InitPagingInvariant == IInv /\ InitPaging => IInv'
<1> SUFFICES ASSUME IInv, InitPaging PROVE IInv'
  OBVIOUS
<1>1. TypeOK /\ ControlInv /\ PagingInv /\ BlocksInv
  BY DEF IInv
<1>2. /\ pc = "boot" /\ pc' = "map_kernel" /\ addr' = KERNEL_START /\ ~paging /\ paging' = paging
      /\ UNCHANGED <<page_table, page_table_bitmap, page_frame_bitmap>>
      /\ UNCHANGED <<heap_current, heap_mapped, size, blocks, hang>>
  BY <1>1 DEF InitPaging, ControlInv, heap
<1>3. page_directory' = [i \in 0 .. DirSize - 1 |-> CASE i = 0 -> first_page_table
                                                       [] i = 1 -> second_page_table
                                                       [] OTHER -> NONE]
  BY DEF InitPaging
<1>4. /\ page_directory'[0] = first_page_table /\ page_directory'[1] = second_page_table
      /\ \A s \in 2 .. DirSize - 1 : page_directory'[s] = NONE
  BY <1>3, Directory
<1>5. TypeOK'
  <2>1. page_directory' \in [0 .. DirSize - 1 -> Tables \cup {NONE}]
    BY <1>3, TableFacts
  <2>2. KERNEL_START \in 0 .. PAGE_TABLE_AREA_END
    BY Layout
  <2>3. QED
    BY <1>1, <1>2, <2>1, <2>2 DEF TypeOK
<1>6. TopPage' = TopPage
  BY <1>2 DEF TopPage
<1>7. ControlInv'
  BY <1>1, <1>2, <1>6 DEF ControlInv
<1>8. PagingInv'
  <2>1. page_table_bitmap \in {{}, {0}}
    BY <1>1, <1>2 DEF PagingInv, AtBoot, BootPages
  <2>2. Identity(page_table', {v \in Kernel : v < addr'})
    BY <1>2, Layout DEF Kernel, Identity
  <2>3. KERNEL_START \in KERNEL_START .. KERNEL_END
    BY Layout
  <2>4. MappingKernel'
    BY <1>2, <1>4, <2>1, <2>2, <2>3 DEF MappingKernel, StaticSlots
  <2>5. QED
    BY <1>2, <2>4 DEF PagingInv
<1>9. BlocksInv'
  BY <1>1, <1>2, BlocksKept DEF Moved
<1>10. QED
  BY <1>5, <1>7, <1>8, <1>9 DEF IInv

\* A mapping keeps the types, and changes one slot and one entry.
LEMMA MappedTyped ==
  ASSUME TypeOK, NEW v \in Nat, NEW p \in Page, NEW t \in Tables, NEW c, NEW next,
         Slot(v) \in 0 .. DirSize - 1, page_directory[Slot(v)] = NONE => c \in TableIds,
         MappedStep(v, p, t, c, next)
  PROVE  /\ page_directory' \in DirType
         /\ page_table' \in TablesType
         /\ page_table_bitmap' \subseteq TableIds
         /\ page_directory'[Slot(v)] = t
         /\ \A s \in 0 .. DirSize - 1 : s # Slot(v) => page_directory'[s] = page_directory[s]
<1>1. /\ page_directory \in DirType /\ page_table \in TablesType
      /\ page_table_bitmap \subseteq TableIds
  BY DEF TypeOK, DirType, TablesType
<1>2. /\ page_directory' = [page_directory EXCEPT ![Slot(v)] = t]
      /\ page_table' = [page_table EXCEPT ![t][v % TableSize] = p]
      /\ page_table_bitmap' = IF page_directory[Slot(v)] = NONE
                              THEN page_table_bitmap \cup {c} ELSE page_table_bitmap
  BY Zenon DEF MappedStep
<1>3. v % TableSize \in 0 .. TableSize - 1
  BY Layout, DivMod
<1>4. page_table' \in TablesType
  <2>1. OnlyEntry(page_table, page_table', t, v % TableSize, p)
    BY <1>1, <1>2, <1>3, EntryWritten
  <2>2. QED
    BY <2>1 DEF OnlyEntry
<1>5. /\ page_directory' \in DirType /\ page_directory'[Slot(v)] = t
      /\ \A s \in 0 .. DirSize - 1 : s # Slot(v) => page_directory'[s] = page_directory[s]
  BY <1>1, <1>2 DEF DirType
<1>6. page_table_bitmap' \subseteq TableIds
  BY <1>1, <1>2
<1>7. QED
  BY <1>4, <1>5, <1>6

\* Identity mapping a page of the first two slots, paging off: one entry of a static
\* table.
StaticStep(v, next) ==
    /\ UNCHANGED <<page_directory, page_table_bitmap, hang>>
    /\ pc' = next
    /\ page_table' \in TablesType
    /\ page_table' = [page_table EXCEPT ![Static(v)][v % TableSize] = v]

LEMMA StaticMap ==
  ASSUME TypeOK, ~paging, StaticSlots(page_directory), NEW v \in Nat, v < 2 * TableSize,
         v \in Page, NEW next, MapThen(v, v, next)
  PROVE  StaticStep(v, next)
<1>1. /\ Slot(v) = IF v < TableSize THEN 0 ELSE 1
      /\ Static(v) \in Tables /\ Static(v) # NONE
  BY StaticSlot, TableFacts
<1>2. /\ page_directory[Slot(v)] = Static(v) /\ Slot(v) \in 0 .. DirSize - 1
  BY <1>1, Directory DEF StaticSlots, Static
<1>3. Mappable(v, Static(v), 0)
  <2>1. Physical([page_directory EXCEPT ![Slot(v)] = Static(v)], page_table, Static(v)) = Static(v)
    BY DEF Physical
  <2>2. QED
    BY <1>1, <1>2, <2>1, Zenon DEF Mappable
<1>4. MappedStep(v, v, Static(v), 0, next)
  BY <1>1, <1>3, MapThenStep
<1>5. page_table' \in TablesType
  <2>1. page_directory[Slot(v)] = NONE => 0 \in TableIds
    BY <1>1, <1>2
  <2>2. QED
    BY <1>1, <1>2, <1>4, <2>1, MappedTyped
<1>6. page_directory' = page_directory
  <2>1. page_directory' = [page_directory EXCEPT ![Slot(v)] = Static(v)]
    BY <1>4, Zenon DEF MappedStep
  <2>2. page_directory \in [0 .. DirSize - 1 -> Tables \cup {NONE}]
    BY DEF TypeOK
  <2>3. QED
    BY <1>2, <2>1, <2>2
<1>7. /\ page_table_bitmap' = page_table_bitmap /\ pc' = next /\ hang' = hang
      /\ page_table' = [page_table EXCEPT ![Static(v)][v % TableSize] = v]
  BY <1>1, <1>2, <1>4, Zenon DEF MappedStep
<1>8. QED
  BY <1>5, <1>6, <1>7, Zenon DEF StaticStep

\* The identity mapping after it.
LEMMA StaticIdentity ==
  ASSUME TypeOK, NEW v \in Kernel \cup LowTables \cup {VGA}, NEW next, StaticStep(v, next),
         NEW S \in SUBSET (Kernel \cup LowTables \cup {VGA}), Identity(page_table, S)
  PROVE  Identity(page_table', S \cup {v})
<1>1. v \in Nat /\ v < 2 * TableSize /\ v \in Page /\ S \subseteq {u \in Nat : u < 2 * TableSize}
  BY LowPages
<1>2. page_table \in TablesType
  BY DEF TypeOK, TablesType
<1>3. page_table' = [page_table EXCEPT ![Static(v)][v % TableSize] = v]
  BY DEF StaticStep
<1>4. QED
  BY <1>1, <1>2, <1>3, IdentityGrows

LEMMA MapKernelInvariant == IInv /\ MapKernel => IInv'
<1> SUFFICES ASSUME IInv, MapKernel PROVE IInv'
  OBVIOUS
<1>1. TypeOK /\ ControlInv /\ PagingInv /\ BlocksInv
  BY DEF IInv
<1>2. /\ pc = "map_kernel" /\ addr < KERNEL_END /\ MapThen(addr, addr, "map_kernel")
      /\ addr' = addr + 1 /\ ~paging /\ UNCHANGED <<page_frame_bitmap, paging>>
      /\ UNCHANGED <<heap_current, heap_mapped, size, blocks>>
  BY <1>1 DEF MapKernel, ControlInv, heap
<1>3. MappingKernel
  BY <1>1, <1>2 DEF PagingInv
<1>4. addr \in Kernel /\ addr \in Nat /\ addr + 1 \in KERNEL_START .. KERNEL_END
  BY <1>2, <1>3, Layout DEF MappingKernel, Kernel
<1>5. StaticStep(addr, "map_kernel")
  <2>1. addr < 2 * TableSize /\ addr \in Page /\ StaticSlots(page_directory)
    BY <1>3, <1>4, LowPages DEF MappingKernel
  <2>2. QED
    BY <1>1, <1>2, <1>4, <2>1, StaticMap
<1>6. /\ page_directory' = page_directory /\ page_table_bitmap' = page_table_bitmap
      /\ hang' = hang /\ pc' = "map_kernel" /\ page_table' \in TablesType
  BY <1>5 DEF StaticStep
<1>7. TypeOK'
  <2>1. addr' \in 0 .. PAGE_TABLE_AREA_END
    BY <1>2, <1>4, Layout
  <2>2. QED
    BY <1>1, <1>2, <1>6, <2>1 DEF TypeOK, TablesType
<1>8. TopPage' = TopPage
  BY <1>2 DEF TopPage
<1>9. ControlInv'
  BY <1>1, <1>2, <1>6, <1>8 DEF ControlInv
<1>10. PagingInv'
  <2>1. Identity(page_table', {v \in Kernel : v < addr} \cup {addr})
    <3>1. Identity(page_table, {v \in Kernel : v < addr})
      BY <1>3 DEF MappingKernel
    <3>2. {v \in Kernel : v < addr} \in SUBSET (Kernel \cup LowTables \cup {VGA})
      OBVIOUS
    <3>3. QED
      BY <1>1, <1>4, <1>5, <3>1, <3>2, StaticIdentity
  <2>2. {v \in Kernel : v < addr} \cup {addr} = {v \in Kernel : v < addr + 1}
    BY <1>4, Layout DEF Kernel
  <2>3. MappingKernel'
    <3>1. Identity(page_table', {v \in Kernel : v < addr'})
      BY <1>2, <2>1, <2>2
    <3>2. /\ addr' \in KERNEL_START .. KERNEL_END /\ page_table_bitmap' \in {{}, {0}}
          /\ StaticSlots(page_directory')
          /\ \A s \in 2 .. DirSize - 1 : page_directory'[s] = NONE
      BY <1>2, <1>3, <1>4, <1>6 DEF MappingKernel
    <3>3. QED
      BY <3>1, <3>2 DEF MappingKernel
  <2>4. QED
    BY <1>2, <1>6, <2>3 DEF PagingInv
<1>11. BlocksInv'
  BY <1>1, <1>2, <1>6, BlocksKept DEF Moved
<1>12. QED
  BY <1>7, <1>9, <1>10, <1>11 DEF IInv

LEMMA InitPageFramesInvariant == IInv /\ InitPageFrames => IInv'
<1> SUFFICES ASSUME IInv, InitPageFrames PROVE IInv'
  OBVIOUS
<1>1. TypeOK /\ ControlInv /\ PagingInv /\ BlocksInv
  BY DEF IInv
<1>2. /\ pc = "map_kernel" /\ addr >= KERNEL_END /\ ~paging /\ pc' = "map_tables"
      /\ page_frame_bitmap' = {} /\ addr' = PAGE_TABLE_AREA_START
      /\ UNCHANGED <<page_directory, page_table, page_table_bitmap, paging, hang>>
      /\ UNCHANGED <<heap_current, heap_mapped, size, blocks>>
  BY <1>1 DEF InitPageFrames, ControlInv, heap, maps
<1>3. MappingKernel
  BY <1>1, <1>2 DEF PagingInv
<1>4. TypeOK'
  <2>1. PAGE_TABLE_AREA_START \in 0 .. PAGE_TABLE_AREA_END
    BY Layout
  <2>2. QED
    BY <1>1, <1>2, <2>1 DEF TypeOK
<1>5. ControlInv'
  <2>1. TopPage' = TopPage
    BY <1>2 DEF TopPage
  <2>2. QED
    BY <1>1, <1>2, <2>1 DEF ControlInv
<1>6. PagingInv'
  <2>1. AreaPages(page_directory', page_table_bitmap', addr')
    <3>1. Slot(PAGE_TABLE_AREA_START - 1) \in Nat /\ Slot(PAGE_TABLE_AREA_START - 1) <= 1
      <4>1. PAGE_TABLE_AREA_START - 1 \in Nat /\ PAGE_TABLE_AREA_START - 1 < 2 * TableSize
        <5>1. PAGE_TABLE_AREA_START + Slot(PAGE_TABLE_AREA_END - 1) <= 2 * TableSize
          BY PlacementAssumption DEF Slot
        <5>2. Slot(PAGE_TABLE_AREA_END - 1) \in Nat
          <6>1. PAGE_TABLE_AREA_END - 1 \in PAGE_TABLE_AREA_START .. PAGE_TABLE_AREA_END - 1
            BY Layout
          <6>2. QED
            BY <6>1, AreaTable
        <5>3. QED
          BY <5>1, <5>2, Layout
      <4>2. QED
        BY <4>1, StaticSlot
    <3>2. \A s \in 2 .. DirSize - 1 : page_directory[s] = NONE /\ s > Slot(PAGE_TABLE_AREA_START - 1)
      BY <1>3, <3>1 DEF MappingKernel
    <3>3. \E c \in 0 .. PAGE_TABLE_AREA_END : page_table_bitmap = 0 .. c - 1 /\ c <= 1
      <4>1. CASE page_table_bitmap = {}
        <5>1. 0 \in 0 .. PAGE_TABLE_AREA_END /\ {} = 0 .. 0 - 1
          BY Layout
        <5>2. QED
          BY <4>1, <5>1
      <4>2. CASE page_table_bitmap = {0}
        <5>1. 1 \in 0 .. PAGE_TABLE_AREA_END /\ {0} = 0 .. 1 - 1
          BY Layout
        <5>2. QED
          BY <4>2, <5>1
      <4>3. QED
        BY <1>3, <4>1, <4>2 DEF MappingKernel
    <3>4. QED
      BY <1>2, <3>2, <3>3 DEF AreaPages
  <2>2. Identity(page_table', Kernel \cup {v \in LowTables : v < addr'})
    <3>1. Identity(page_table, {v \in Kernel : v < addr})
      BY <1>3 DEF MappingKernel
    <3>2. \A v \in Kernel : v < addr
      BY <1>2, <1>3, Layout DEF MappingKernel, Kernel
    <3>3. \A v \in LowTables : ~ (v < PAGE_TABLE_AREA_START)
      BY Layout DEF LowTables, TableArea
    <3>4. QED
      BY <1>2, <3>1, <3>2, <3>3 DEF Identity
  <2>3. MappingTables'
    <3>1. addr' \in PAGE_TABLE_AREA_START .. PAGE_TABLE_AREA_END
      BY <1>2, Layout
    <3>2. StaticSlots(page_directory') /\ LowSlots(page_directory')
      BY <1>2, <1>3 DEF MappingKernel, LowSlots
    <3>3. QED
      BY <1>2, <2>1, <2>2, <3>1, <3>2 DEF MappingTables
  <2>4. QED
    BY <1>2, <2>3 DEF PagingInv
<1>7. BlocksInv'
  BY <1>1, <1>2, BlocksKept DEF Moved
<1>8. QED
  BY <1>4, <1>5, <1>6, <1>7 DEF IInv

\* What a round of the mapping loop of the page table area changes.
LEMMA TableRound ==
  ASSUME IInv, MapTables
  PROVE  /\ TypeOK /\ ControlInv /\ PagingInv /\ BlocksInv /\ MappingTables
         /\ pc = "map_tables" /\ MapThen(addr, addr, "map_tables")
         /\ addr' = addr + 1 /\ ~paging /\ UNCHANGED <<page_frame_bitmap, paging>>
         /\ UNCHANGED <<heap_current, heap_mapped, size, blocks>>
         /\ addr \in PAGE_TABLE_AREA_START .. PAGE_TABLE_AREA_END - 1
         /\ addr \in Nat /\ addr - 1 \in Nat /\ addr + 1 \in PAGE_TABLE_AREA_START .. PAGE_TABLE_AREA_END
         /\ addr \in Page
<1>1. TypeOK /\ ControlInv /\ PagingInv /\ BlocksInv
  BY DEF IInv
<1>2. /\ pc = "map_tables" /\ addr < PAGE_TABLE_AREA_END /\ MapThen(addr, addr, "map_tables")
      /\ addr' = addr + 1 /\ ~paging /\ UNCHANGED <<page_frame_bitmap, paging>>
      /\ UNCHANGED <<heap_current, heap_mapped, size, blocks>>
  BY <1>1 DEF MapTables, ControlInv, heap
<1>3. MappingTables
  BY <1>1, <1>2 DEF PagingInv
<1>4. /\ addr \in PAGE_TABLE_AREA_START .. PAGE_TABLE_AREA_END - 1
      /\ addr \in Nat /\ addr - 1 \in Nat /\ addr + 1 \in PAGE_TABLE_AREA_START .. PAGE_TABLE_AREA_END
  BY <1>2, <1>3, Layout DEF MappingTables
<1>5. addr \in Page
  BY <1>4, Layout DEF Page
<1>6. QED
  BY <1>1, <1>2, <1>3, <1>4, <1>5

\* It keeps the invariant if it takes the structures of the area one page further.
LEMMA TableRoundInvariant ==
  ASSUME IInv, MapTables,
         page_directory' \in DirType, page_table' \in TablesType,
         page_table_bitmap' \subseteq TableIds, pc' = "map_tables", hang' = hang,
         StaticSlots(page_directory'), LowSlots(page_directory'),
         AreaPages(page_directory', page_table_bitmap', addr + 1),
         Identity(page_table', Kernel \cup {v \in LowTables : v < addr + 1})
  PROVE  IInv'
<1>1. /\ TypeOK /\ ControlInv /\ PagingInv /\ BlocksInv /\ MappingTables
      /\ pc = "map_tables" /\ addr' = addr + 1 /\ ~paging
      /\ UNCHANGED <<page_frame_bitmap, paging>>
      /\ UNCHANGED <<heap_current, heap_mapped, size, blocks>>
      /\ addr + 1 \in PAGE_TABLE_AREA_START .. PAGE_TABLE_AREA_END
  BY TableRound
<1>2. TypeOK'
  <2>1. addr' \in 0 .. PAGE_TABLE_AREA_END
    BY <1>1, Layout
  <2>2. QED
    BY <1>1, <2>1 DEF TypeOK, DirType, TablesType
<1>3. ControlInv'
  <2>1. TopPage' = TopPage
    BY <1>1 DEF TopPage
  <2>2. QED
    BY <1>1, <2>1 DEF ControlInv
<1>4. MappingTables'
  BY <1>1 DEF MappingTables
<1>5. PagingInv'
  BY <1>1, <1>4 DEF PagingInv
<1>6. BlocksInv'
  BY <1>1, BlocksKept DEF Moved
<1>7. QED
  BY <1>2, <1>3, <1>5, <1>6 DEF IInv

\* A page of the first two slots.
LEMMA MapTablesLow ==
  ASSUME IInv, MapTables, addr < 2 * TableSize
  PROVE  IInv'
<1>1. /\ TypeOK /\ ~paging /\ MappingTables /\ MapThen(addr, addr, "map_tables")
      /\ addr \in PAGE_TABLE_AREA_START .. PAGE_TABLE_AREA_END - 1
      /\ addr \in Nat /\ addr - 1 \in Nat /\ addr \in Page
  BY TableRound
<1>2. StaticStep(addr, "map_tables")
  <2>1. StaticSlots(page_directory)
    BY <1>1 DEF MappingTables
  <2>2. QED
    BY <1>1, <2>1, StaticMap
<1>3. /\ page_directory' = page_directory /\ page_table_bitmap' = page_table_bitmap
      /\ hang' = hang /\ pc' = "map_tables" /\ page_table' \in TablesType
  BY <1>2 DEF StaticStep
<1>4. addr \in LowTables
  BY <1>1 DEF LowTables, TableArea
<1>5. Identity(page_table', Kernel \cup {v \in LowTables : v < addr + 1})
  <2> DEFINE S == Kernel \cup {v \in LowTables : v < addr}
  <2>1. Identity(page_table, S)
    BY <1>1 DEF MappingTables
  <2>2. S \in SUBSET (Kernel \cup LowTables \cup {VGA})
    OBVIOUS
  <2>3. {v \in LowTables : v < addr + 1} = {v \in LowTables : v < addr} \cup {addr}
    <3>1. \A v \in LowTables : v < addr + 1 <=> (v < addr \/ v = addr)
      <4>1. \A v \in LowTables : v \in Nat
        BY TableFacts
      <4>2. \A v \in Nat : v < addr + 1 <=> (v < addr \/ v = addr)
        BY <1>1
      <4>3. QED
        BY <4>1, <4>2
    <3>2. QED
      BY <1>4, <3>1
  <2>4. Kernel \cup {v \in LowTables : v < addr + 1} = S \cup {addr}
    BY <2>3
  <2> HIDE DEF S
  <2>5. Identity(page_table', S \cup {addr})
    BY <1>1, <1>2, <1>4, <2>1, <2>2, StaticIdentity
  <2>6. QED
    BY <2>4, <2>5
<1>6. AreaPages(page_directory', page_table_bitmap', addr + 1)
  <2>1. Slot(addr) \in Nat /\ Slot(addr) <= 1
    BY <1>1, StaticSlot
  <2>2. Slot(addr - 1) \in Nat /\ Slot(addr - 1) <= Slot(addr)
    <3>1. addr - 1 <= addr /\ TableSize \in Nat \ {0}
      BY <1>1, Layout
    <3>2. addr \div TableSize \in Nat /\ (addr - 1) \div TableSize \in Nat
      BY <1>1, <3>1, DivMod
    <3>3. QED
      BY <1>1, <3>1, <3>2, DivMono DEF Slot
  <2>3. (addr + 1) - 1 = addr
    BY <1>1
  <2>4. AreaPages(page_directory, page_table_bitmap, addr)
    BY <1>1 DEF MappingTables
  <2>5. ASSUME NEW s \in 2 .. DirSize - 1
        PROVE  page_directory[s] = NONE <=> s > Slot(addr)
    <3>1. s > Slot(addr) /\ s > Slot(addr - 1)
      BY <2>1, <2>2
    <3>2. QED
      BY <2>4, <3>1 DEF AreaPages
  <2>6. \E c \in 0 .. PAGE_TABLE_AREA_END : page_table_bitmap = 0 .. c - 1 /\ (c <= 1 \/ c <= Slot(addr))
    <3>1. PICK c \in 0 .. PAGE_TABLE_AREA_END :
             page_table_bitmap = 0 .. c - 1 /\ (c <= 1 \/ c <= Slot(addr - 1))
      BY <2>4 DEF AreaPages
    <3>2. c <= 1 \/ c <= Slot(addr)
      BY <2>1, <2>2, <3>1, Layout
    <3>3. QED
      BY <3>1, <3>2
  <2>7. QED
    BY <1>3, <2>3, <2>5, <2>6 DEF AreaPages
<1>7. /\ StaticSlots(page_directory') /\ LowSlots(page_directory')
      /\ page_directory' \in DirType /\ page_table_bitmap' \subseteq TableIds
  BY <1>1, <1>3 DEF MappingTables, TypeOK, DirType
<1>8. QED
  BY <1>3, <1>5, <1>6, <1>7, TableRoundInvariant

\* A page of a later slot: table t is the slot's, or becomes it, as number c.
LEMMA MapTablesHigh ==
  ASSUME IInv, MapTables, ~ (addr < 2 * TableSize)
  PROVE  IInv'
<1>1. /\ TypeOK /\ ~paging /\ MappingTables /\ MapThen(addr, addr, "map_tables")
      /\ addr \in PAGE_TABLE_AREA_START .. PAGE_TABLE_AREA_END - 1
      /\ addr \in Nat /\ addr - 1 \in Nat /\ addr \in Page
  BY TableRound
<1>2. /\ StaticSlots(page_directory) /\ LowSlots(page_directory)
      /\ AreaPages(page_directory, page_table_bitmap, addr)
      /\ Identity(page_table, Kernel \cup {v \in LowTables : v < addr})
  BY <1>1 DEF MappingTables
<1>3. /\ Slot(addr) \in 2 .. DirSize - 1 /\ Slot(addr) \in 0 .. DirSize - 1
      /\ addr % TableSize \in 0 .. TableSize - 1
      /\ Slot(addr - 1) \in Nat /\ Slot(addr) \in {Slot(addr - 1), Slot(addr - 1) + 1}
  <2>1. /\ Slot(addr) \in Nat /\ Slot(addr) < DirSize /\ addr % TableSize \in 0 .. TableSize - 1
    <3>1. Slot(addr) \in 0 .. FirstSlot - 1 /\ Slot(addr) < DirSize
          /\ addr % TableSize \in 0 .. TableSize - 1
      BY <1>1, AreaTable
    <3>2. QED
      BY <3>1, Directory
  <2>2. Slot(addr) >= 2
    <3>1. TableSize \in Nat \ {0} /\ 2 * TableSize \in Nat /\ 2 * TableSize <= addr
      BY <1>1, Layout
    <3>2. (2 * TableSize) \div TableSize = 2
      BY <3>1, DivMultiple
    <3>3. (2 * TableSize) \div TableSize <= addr \div TableSize
      BY <1>1, <3>1, DivMono
    <3>4. QED
      BY <2>1, <3>2, <3>3 DEF Slot
  <2>3. Slot(addr - 1) \in Nat /\ Slot(addr) \in {Slot(addr - 1), Slot(addr - 1) + 1}
    <3>1. TableSize \in Nat \ {0} /\ (addr - 1) + 1 = addr
      BY <1>1, Layout
    <3>2. ((addr - 1) + 1) \div TableSize \in {(addr - 1) \div TableSize, (addr - 1) \div TableSize + 1}
      BY <1>1, <3>1, NextSlot
    <3>3. (addr - 1) \div TableSize \in Nat
      BY <1>1, <3>1, DivMod
    <3>4. QED
      BY <3>1, <3>2, <3>3 DEF Slot
  <2>4. QED
    BY <2>1, <2>2, <2>3, Layout
<1>4. PICK c \in 0 .. PAGE_TABLE_AREA_END :
         page_table_bitmap = 0 .. c - 1 /\ (c <= 1 \/ c <= Slot(addr - 1))
  BY <1>2 DEF AreaPages
<1> DEFINE absent == page_directory[Slot(addr)] = NONE
           t == IF absent THEN PAGE_TABLE_AREA_START + c ELSE page_directory[Slot(addr)]
<1>5. absent <=> Slot(addr) > Slot(addr - 1)
  BY <1>2, <1>3 DEF AreaPages
<1>6. absent => /\ c \in 0 .. Slot(addr) - 1 /\ c \in TableIds
                /\ PAGE_TABLE_AREA_START + c \in LowTables
  <2>1. SUFFICES ASSUME absent
                 PROVE  /\ c \in 0 .. Slot(addr) - 1 /\ c \in TableIds
                        /\ PAGE_TABLE_AREA_START + c \in LowTables
    OBVIOUS
  <2>2. c \in 0 .. Slot(addr) - 1
    BY <1>3, <1>4, <1>5, <2>1, Layout
  <2>3. \A i \in 0 .. Slot(addr) - 1 : i \in TableIds /\ PAGE_TABLE_AREA_START + i \in LowTables
    BY <1>1, AreaTable
  <2>4. QED
    BY <2>2, <2>3
<1>7. t \in LowTables /\ t \in Tables /\ t # NONE
  <2>1. t \in LowTables
    BY <1>2, <1>3, <1>6 DEF LowSlots
  <2>2. QED
    BY <2>1, TableFacts
<1>8. Mappable(addr, t, c)
  <2>1. absent => /\ ~ (TableIds \subseteq page_table_bitmap)
                  /\ LowestFree(page_table_bitmap, TableIds) = c
    <3>1. SUFFICES ASSUME absent PROVE /\ ~ (TableIds \subseteq page_table_bitmap)
                                       /\ LowestFree(page_table_bitmap, TableIds) = c
      OBVIOUS
    <3> DEFINE n == PAGE_TABLE_AREA_END - PAGE_TABLE_AREA_START
    <3>2. n \in Nat /\ TableIds = 0 .. n - 1
      BY Layout DEF TableIds
    <3>3. c \in 0 .. n - 1
      BY <1>6, <3>1, <3>2
    <3> HIDE DEF n
    <3>4. LowestFree(0 .. c - 1, 0 .. n - 1) = c /\ ~ (0 .. n - 1 \subseteq 0 .. c - 1)
      BY <3>2, <3>3, FirstFit
    <3>5. QED
      BY <1>4, <3>2, <3>4
  <2>2. Physical([page_directory EXCEPT ![Slot(addr)] = t], page_table, t) = t
    BY <1>1 DEF Physical
  <2>3. page_directory[Slot(addr)] \in {NONE, t}
    OBVIOUS
  <2>4. absent => t = PAGE_TABLE_AREA_START + c
    OBVIOUS
  <2> HIDE DEF t
  <2>5. QED
    BY <2>1, <2>2, <2>3, <2>4, Zenon DEF Mappable
<1>9. absent => Slot(addr) = Slot(addr - 1) + 1
  BY <1>3, <1>5
<1>10. ~absent => Slot(addr) = Slot(addr - 1)
  BY <1>3, <1>5
<1>11. t = page_directory[Slot(addr)] \/ absent
  OBVIOUS
<1> HIDE DEF t
<1>12. MappedStep(addr, addr, t, c, "map_tables")
  BY <1>1, <1>7, <1>8, MapThenStep
<1>13. /\ page_directory' \in DirType
       /\ page_table' \in TablesType
       /\ page_table_bitmap' \subseteq TableIds
       /\ page_directory'[Slot(addr)] = t
       /\ \A s \in 0 .. DirSize - 1 : s # Slot(addr) => page_directory'[s] = page_directory[s]
  BY <1>1, <1>3, <1>6, <1>7, <1>12, MappedTyped
<1>14. /\ page_table' = [page_table EXCEPT ![t][addr % TableSize] = addr]
       /\ page_table_bitmap' = IF absent THEN page_table_bitmap \cup {c} ELSE page_table_bitmap
       /\ pc' = "map_tables" /\ hang' = hang
  BY <1>12, Zenon DEF MappedStep
<1>15. StaticSlots(page_directory')
  BY <1>2, <1>3, <1>13, Directory DEF StaticSlots
<1>16. LowSlots(page_directory')
  BY <1>2, <1>7, <1>13, Directory DEF LowSlots
<1>17. Identity(page_table', Kernel \cup {v \in LowTables : v < addr + 1})
  <2> DEFINE S == Kernel \cup {v \in LowTables : v < addr}
  <2>1. \A v \in LowTables : v < addr
    BY <1>1, Layout, TableFacts
  <2>2. Kernel \cup {v \in LowTables : v < addr + 1} = S
    BY <1>1, <2>1, TableFacts
  <2>3. S \subseteq {u \in Nat : u < 2 * TableSize}
    BY LowPages
  <2>4. Identity(page_table, S)
    BY <1>2
  <2> HIDE DEF S
  <2>5. page_table \in TablesType
    BY <1>1 DEF TypeOK, TablesType
  <2>6. Identity(page_table', S)
    BY <1>1, <1>3, <1>7, <1>14, <2>3, <2>4, <2>5, IdentityKept
  <2>7. QED
    BY <2>2, <2>6
<1>18. AreaPages(page_directory', page_table_bitmap', addr + 1)
  <2>1. (addr + 1) - 1 = addr
    BY <1>1
  <2>2. ASSUME NEW s \in 2 .. DirSize - 1
        PROVE  page_directory'[s] = NONE <=> s > Slot(addr)
    <3>1. s \in 0 .. DirSize - 1 /\ s \in Int /\ Slot(addr) \in Int
      BY <1>3, Directory
    <3>2. CASE s = Slot(addr)
      BY <1>7, <1>13, <3>1, <3>2
    <3>3. CASE s # Slot(addr)
      <4>1. page_directory'[s] = page_directory[s]
        BY <1>13, <3>1, <3>3
      <4>2. page_directory[s] = NONE <=> s > Slot(addr - 1)
        BY <1>2 DEF AreaPages
      <4>3. s > Slot(addr - 1) <=> s > Slot(addr)
        BY <1>3, <3>1, <3>3
      <4>4. QED
        BY <4>1, <4>2, <4>3
    <3>4. QED
      BY <3>2, <3>3
  <2>3. \E d \in 0 .. PAGE_TABLE_AREA_END :
           page_table_bitmap' = 0 .. d - 1 /\ (d <= 1 \/ d <= Slot(addr))
    <3>1. CASE absent
      <4>1. c + 1 \in 0 .. PAGE_TABLE_AREA_END /\ c + 1 <= Slot(addr)
        BY <1>3, <1>6, <3>1, Layout DEF TableIds
      <4>2. page_table_bitmap' = 0 .. (c + 1) - 1
        BY <1>4, <1>14, <3>1
      <4>3. QED
        BY <4>1, <4>2
    <3>2. CASE ~absent
      BY <1>4, <1>10, <1>14, <3>2
    <3>3. QED
      BY <3>1, <3>2
  <2>4. QED
    BY <2>1, <2>2, <2>3 DEF AreaPages
<1>19. QED
  BY <1>13, <1>14, <1>15, <1>16, <1>17, <1>18, TableRoundInvariant

LEMMA MapTablesInvariant == IInv /\ MapTables => IInv'
BY MapTablesLow, MapTablesHigh

LEMMA InitAllocatorsInvariant == IInv /\ InitAllocators => IInv'
<1> SUFFICES ASSUME IInv, InitAllocators PROVE IInv'
  OBVIOUS
<1>1. TypeOK /\ ControlInv /\ PagingInv /\ BlocksInv
  BY DEF IInv
<1>2. /\ pc = "map_tables" /\ addr >= PAGE_TABLE_AREA_END /\ ~paging /\ pc' = "map_vga"
      /\ page_table_bitmap' = {} /\ heap_current' = HeapStart /\ heap_mapped' = HeapStart
      /\ UNCHANGED <<page_directory, page_table, page_frame_bitmap, paging, addr>>
      /\ UNCHANGED <<size, blocks, hang>>
  BY <1>1 DEF InitAllocators, ControlInv, ClearTableBitmap, init_heap_allocator
<1>3. MappingTables
  BY <1>1, <1>2 DEF PagingInv
<1>4. TypeOK'
  <2>1. HeapStart \in 0 .. HeapEnd
    BY PageBytes
  <2>2. QED
    BY <1>1, <1>2, <2>1 DEF TypeOK
<1>5. TopPage' = HEAP_AREA_START
  BY <1>2, Layout, DivMultiple DEF TopPage, HeapStart
<1>6. ControlInv'
  <2>1. heap_mapped' = TopPage' * PAGE_SIZE
    BY <1>2, <1>5 DEF HeapStart
  <2>2. heap_current' <= heap_mapped'
    BY <1>2, PageBytes
  <2>3. QED
    BY <1>1, <1>2, <2>1, <2>2 DEF ControlInv
<1>7. PagingInv'
  <2>1. HeapMap(page_directory', page_table', page_frame_bitmap', page_table_bitmap', TopPage')
    <3>1. \A s \in FirstSlot .. DirSize - 1 : page_directory[s] = NONE
      <4>1. addr = PAGE_TABLE_AREA_END
        BY <1>2, <1>3, Layout DEF MappingTables
      <4>2. PAGE_TABLE_AREA_END - 1 \in PAGE_TABLE_AREA_START .. PAGE_TABLE_AREA_END - 1
        BY Layout
      <4>3. Slot(PAGE_TABLE_AREA_END - 1) \in 0 .. FirstSlot - 1
        BY <4>2, AreaTable
      <4>4. \A s \in 2 .. DirSize - 1 : page_directory[s] = NONE <=> s > Slot(PAGE_TABLE_AREA_END - 1)
        BY <1>3, <4>1 DEF MappingTables, AreaPages
      <4>5. \A s \in FirstSlot .. DirSize - 1 : s \in 2 .. DirSize - 1 /\ s > Slot(PAGE_TABLE_AREA_END - 1)
        BY <4>3, Directory
      <4>6. QED
        BY <4>4, <4>5
    <3>2. HeapSlots(HEAP_AREA_START) = 0
      BY DEF HeapSlots
    <3>3. /\ HEAP_AREA_START \in HEAP_AREA_START .. HEAP_AREA_END
          /\ {} = 0 .. HEAP_AREA_START - HEAP_AREA_START - 1 /\ {} = 0 .. 0 - 1
          /\ HEAP_AREA_START .. HEAP_AREA_START - 1 = {}
      BY Layout
    <3>4. \A s \in FirstSlot .. DirSize - 1 : ~ (s < FirstSlot + 0)
      BY Directory
    <3>5. page_frame_bitmap' = {}
      BY <1>2, <1>3 DEF MappingTables
    <3>6. HeapMap(page_directory, page_table, {}, {}, HEAP_AREA_START)
      BY <3>1, <3>2, <3>3, <3>4 DEF HeapMap
    <3>7. QED
      BY <1>2, <1>5, <3>5, <3>6
  <2>2. Identity(page_table', (Kernel \cup LowTables \cup {VGA}) \ {VGA})
    <3>1. \A v \in LowTables : v < addr
      BY <1>2, <1>3, Layout DEF MappingTables, LowTables, TableArea
    <3>2. QED
      BY <1>2, <1>3, <3>1 DEF MappingTables, Identity
  <2>3. StaticSlots(page_directory') /\ LowSlots(page_directory')
    BY <1>2, <1>3 DEF MappingTables
  <2>4. Complete({VGA})'
    BY <2>1, <2>2, <2>3 DEF Complete
  <2>5. QED
    BY <1>2, <2>4 DEF PagingInv
<1>8. BlocksInv'
  <2>1. /\ Moved' /\ heap_current <= EarlyMax /\ heap_current \in Int
        /\ \A b \in blocks : b.early /\ b.base + b.size <= heap_current
        /\ BlocksDisjoint
    BY <1>1, <1>2 DEF BlocksInv, Moved, TypeOK
  <2>2. \A b \in blocks : b.base \in Int /\ b.size \in Int
    BY <1>1, BlockTypes
  <2>3. \A b \in blocks : b.base + b.size <= HeapStart
    <3>1. heap_current <= HeapStart /\ HeapStart \in Int
      BY <1>1, <2>1, PageBytes
    <3>2. QED
      BY <2>1, <2>2, <3>1
  <2>4. BlocksDisjoint'
    BY <1>2, <2>1 DEF BlocksDisjoint
  <2>5. QED
    BY <1>2, <2>1, <2>3, <2>4, PageBytes DEF BlocksInv
<1>9. QED
  BY <1>4, <1>6, <1>7, <1>8 DEF IInv

LEMMA EnablePagingInvariant == IInv /\ EnablePaging => IInv'
<1> SUFFICES ASSUME IInv, EnablePaging PROVE IInv'
  OBVIOUS
<1>1. TypeOK /\ ControlInv /\ PagingInv /\ BlocksInv
  BY DEF IInv
<1>2. /\ pc = "map_vga" /\ MapThen(VGA, VGA, "run") /\ ~paging /\ paging' = TRUE
      /\ UNCHANGED <<page_frame_bitmap, addr>>
      /\ UNCHANGED <<heap_current, heap_mapped, size, blocks>>
  BY <1>1 DEF EnablePaging, ControlInv, heap
<1>3. /\ StaticSlots(page_directory) /\ LowSlots(page_directory) /\ heap_mapped = HeapStart
      /\ Identity(page_table, (Kernel \cup LowTables \cup {VGA}) \ {VGA})
      /\ HeapMap(page_directory, page_table, page_frame_bitmap, page_table_bitmap, TopPage)
  BY <1>1, <1>2 DEF PagingInv, Complete
<1>4. StaticStep(VGA, "run")
  <2>1. VGA \in Nat /\ VGA < 2 * TableSize /\ VGA \in Page
    BY LowPages
  <2>2. QED
    BY <1>1, <1>2, <1>3, <2>1, StaticMap
<1>5. /\ page_directory' = page_directory /\ page_table_bitmap' = page_table_bitmap
      /\ hang' = hang /\ pc' = "run" /\ page_table' \in TablesType
  BY <1>4 DEF StaticStep
<1>6. TypeOK'
  BY <1>1, <1>2, <1>5 DEF TypeOK, TablesType
<1>7. TopPage' = TopPage /\ TopPage = HEAP_AREA_START
  BY <1>2, <1>3, Layout, DivMultiple DEF TopPage, HeapStart
<1>8. ControlInv'
  BY <1>1, <1>2, <1>5, <1>7 DEF ControlInv
<1>9. PagingInv'
  <2>1. Identity(page_table', (Kernel \cup LowTables \cup {VGA}) \ {})
    <3> DEFINE S == (Kernel \cup LowTables \cup {VGA}) \ {VGA}
    <3>1. S \in SUBSET (Kernel \cup LowTables \cup {VGA}) /\ VGA \in Kernel \cup LowTables \cup {VGA}
      OBVIOUS
    <3>2. Identity(page_table, S)
      BY <1>3
    <3>3. S \cup {VGA} = (Kernel \cup LowTables \cup {VGA}) \ {}
      OBVIOUS
    <3> HIDE DEF S
    <3>4. Identity(page_table', S \cup {VGA})
      BY <1>1, <1>4, <3>1, <3>2, StaticIdentity
    <3>5. QED
      BY <3>3, <3>4
  <2>2. HeapMap(page_directory', page_table', page_frame_bitmap', page_table_bitmap', TopPage')
    <3>1. HEAP_AREA_START .. HEAP_AREA_START - 1 = {}
      BY Layout
    <3>2. HeapMap(page_directory, page_table, page_frame_bitmap, page_table_bitmap, HEAP_AREA_START)
      BY <1>3, <1>7
    <3>3. HeapMap(page_directory, page_table', page_frame_bitmap, page_table_bitmap, HEAP_AREA_START)
      BY <3>1, <3>2 DEF HeapMap
    <3>4. QED
      BY <1>2, <1>5, <1>7, <3>3
  <2>3. StaticSlots(page_directory') /\ LowSlots(page_directory')
    BY <1>3, <1>5
  <2>4. Complete({})'
    BY <2>1, <2>2, <2>3 DEF Complete
  <2>5. QED
    BY <1>2, <1>5, <2>4 DEF PagingInv
<1>10. BlocksInv'
  <2>1. Moved /\ Moved'
    BY <1>2 DEF Moved
  <2>2. QED
    BY <1>1, <1>2, <2>1, BlocksKept
<1>11. QED
  BY <1>6, <1>8, <1>9, <1>10 DEF IInv

-----------------------------------------------------------------------------
(***************************************************************************)
(* heap_allocate.                                                          *)
(***************************************************************************)

LEMMA HeapAllocateInvariant ==
  ASSUME IInv, NEW s \in Sizes, HeapAllocate(s)
  PROVE  IInv'
<1>1. TypeOK /\ ControlInv /\ PagingInv /\ BlocksInv
  BY DEF IInv
<1>2. /\ pc \in {"boot", "run"}
      /\ pc = "boot" => heap_current + s <= EarlyMax
      /\ pc \in {"boot", "run"} => (paging <=> pc = "run")
      /\ UNCHANGED <<page_directory, page_table, page_table_bitmap, page_frame_bitmap>>
      /\ UNCHANGED <<heap_current, heap_mapped, blocks, paging, addr>>
  BY <1>1 DEF HeapAllocate, ControlInv, maps
<1>3. heap_current \in Nat /\ s \in Nat
  BY <1>1, PageBytes, LayoutAssumption DEF TypeOK
<1>4. CASE heap_current + s > HeapEnd
  <2>1. pc = "run" /\ paging
    <3>1. EarlyMax <= HeapEnd /\ EarlyMax \in Nat /\ HeapEnd \in Nat
      BY PageBytes
    <3>2. QED
      BY <1>2, <1>3, <1>4, <3>1
  <2>2. pc' = "halt" /\ hang' = "heap" /\ size' = size
    BY <1>4 DEF HeapAllocate, Halt
  <2>3. TypeOK'
    BY <1>1, <1>2, <2>2 DEF TypeOK
  <2>4. TopPage' = TopPage
    BY <1>2 DEF TopPage
  <2>5. ControlInv'
    BY <1>1, <1>2, <2>1, <2>2, <2>4 DEF ControlInv
  <2>6. PagingInv'
    <3>1. Complete({})
      BY <1>1, <2>1 DEF PagingInv
    <3>2. Complete({})'
      BY <1>2, <2>4, <3>1 DEF Complete
    <3>3. QED
      BY <1>2, <2>1, <2>2, <3>2 DEF PagingInv
  <2>7. BlocksInv'
    BY <1>1, <1>2, <2>1, BlocksKept DEF Moved
  <2>8. QED
    BY <2>3, <2>5, <2>6, <2>7 DEF IInv
<1>5. CASE ~ (heap_current + s > HeapEnd)
  <2>1. pc' = "grow" /\ size' = s /\ hang' = hang
    BY <1>5 DEF HeapAllocate
  <2>2. TypeOK'
    BY <1>1, <1>2, <2>1 DEF TypeOK
  <2>3. TopPage' = TopPage
    BY <1>2 DEF TopPage
  <2>4. ControlInv'
    <3>1. heap_current + s <= IF paging THEN HeapEnd ELSE EarlyMax
      BY <1>2, <1>3, <1>5, PageBytes
    <3>2. QED
      BY <1>1, <1>2, <2>1, <2>3, <3>1 DEF ControlInv
  <2>5. PagingInv'
    <3>1. CASE paging
      <4>1. Complete({})
        BY <1>1, <3>1 DEF PagingInv
      <4>2. Complete({})'
        BY <1>2, <2>3, <4>1 DEF Complete
      <4>3. QED
        BY <1>2, <2>1, <3>1, <4>2 DEF PagingInv
    <3>2. CASE ~paging
      <4>1. AtBoot
        BY <1>1, <1>2, <3>2 DEF PagingInv
      <4>2. AtBoot'
        BY <1>2, <2>3, <4>1 DEF AtBoot
      <4>3. QED
        BY <1>2, <2>1, <3>2, <4>2 DEF PagingInv
    <3>3. QED
      BY <3>1, <3>2
  <2>6. BlocksInv'
    <3>1. Moved' = Moved
      BY <1>2, <2>1 DEF Moved
    <3>2. QED
      BY <1>1, <1>2, <3>1, BlocksKept
  <2>7. QED
    BY <2>2, <2>4, <2>5, <2>6 DEF IInv
<1>6. QED
  BY <1>4, <1>5

\* A round of the loop that maps page v to frame i through table t.
GrownStep(v, i, t, c) ==
    /\ MappedStep(v, PAGE_FRAME_AREA_START + i, t, c, pc)
    /\ page_frame_bitmap' = page_frame_bitmap \cup {i}
    /\ heap_mapped' = heap_mapped + PAGE_SIZE
    /\ UNCHANGED <<heap_current, size, blocks, paging, addr>>

LEMMA GrowStep ==
  ASSUME Grow, TopPage \in Nat, NEW i,
         ~ (Frames \subseteq page_frame_bitmap), LowestFree(page_frame_bitmap, Frames) = i,
         NEW t \in Tables, NEW c, Mappable(TopPage, t, c),
         NEW w, w \notin Tables \cup {NONE},
         w = Physical([page_directory EXCEPT ![Slot(TopPage)] = t],
                      [page_table EXCEPT ![t][TopPage % TableSize] = PAGE_FRAME_AREA_START + i],
                      TopPage)
  PROVE  GrownStep(TopPage, i, t, c)
<1> DEFINE m == map_page(TopPage, PAGE_FRAME_AREA_START + i)
<1>1. m = MappedTo(TopPage, PAGE_FRAME_AREA_START + i, t, c)
  BY MapPage
<1>2. \/ m.fails # "none"
      \/ Physical(m.dir, m.tables, TopPage) = NONE
      \/ /\ page_directory' = m.dir
         /\ page_table' = ZeroPage(m.tables, Physical(m.dir, m.tables, TopPage))
         /\ page_table_bitmap' = m.bitmap
         /\ page_frame_bitmap' = MarkFrame(i)
         /\ heap_mapped' = heap_mapped + PAGE_SIZE
         /\ UNCHANGED <<pc, hang>>
         /\ UNCHANGED <<heap_current, size, blocks, paging, addr>>
  BY Zenon DEF Grow, TopPage
<1> HIDE DEF m
<1> DEFINE dir == [page_directory EXCEPT ![Slot(TopPage)] = t]
           tables == [page_table EXCEPT ![t][TopPage % TableSize] = PAGE_FRAME_AREA_START + i]
<1>3. /\ m.fails = "none"
      /\ m.dir = dir
      /\ m.tables = tables
      /\ m.bitmap = IF page_directory[Slot(TopPage)] = NONE
                    THEN page_table_bitmap \cup {c} ELSE page_table_bitmap
  BY <1>1 DEF MappedTo
<1>4. Physical(m.dir, m.tables, TopPage) = w
  BY <1>3
<1> HIDE DEF dir, tables
<1>5. w # NONE /\ w \notin Tables
  OBVIOUS
<1>6. /\ page_directory' = m.dir
      /\ page_table' = m.tables
      /\ page_table_bitmap' = m.bitmap
      /\ page_frame_bitmap' = page_frame_bitmap \cup {i}
      /\ heap_mapped' = heap_mapped + PAGE_SIZE
      /\ UNCHANGED <<pc, hang>>
      /\ UNCHANGED <<heap_current, size, blocks, paging, addr>>
  BY <1>2, <1>3, <1>4, <1>5, Zenon DEF ZeroPage, MarkFrame
<1>7. MappedStep(TopPage, PAGE_FRAME_AREA_START + i, t, c, pc)
  BY <1>3, <1>6, Zenon DEF MappedStep, dir, tables
<1>8. QED
  BY <1>6, <1>7, Zenon DEF GrownStep

\* The next page.
LEMMA NextTop ==
  ASSUME ControlInv, TopPage \in Nat, heap_mapped' = heap_mapped + PAGE_SIZE
  PROVE  TopPage' = TopPage + 1 /\ heap_mapped' = TopPage' * PAGE_SIZE
<1>1. heap_mapped = TopPage * PAGE_SIZE
  BY DEF ControlInv
<1> DEFINE p == TopPage
<1>2. heap_mapped' = (p + 1) * PAGE_SIZE /\ p + 1 \in Nat
  <2>1. (p + 1) * PAGE_SIZE = p * PAGE_SIZE + PAGE_SIZE
    BY Layout, MulStep
  <2>2. QED
    BY <1>1, <2>1
<1>3. TopPage' = p + 1
  <2>1. ((p + 1) * PAGE_SIZE) \div PAGE_SIZE = p + 1
    BY <1>2, Layout, DivMultiple
  <2>2. TopPage' = heap_mapped' \div PAGE_SIZE
    BY DEF TopPage
  <2> HIDE DEF p
  <2>3. QED
    BY <1>2, <2>1, <2>2
<1>4. QED
  BY <1>2, <1>3

\* A page is only mapped below the limit of the block.
LEMMA GrowContext ==
  ASSUME IInv, Grow
  PROVE  /\ TypeOK /\ ControlInv /\ PagingInv /\ BlocksInv
         /\ pc = "grow" /\ TopPage \in Nat
         /\ ~paging => TopPage < VGA
         /\ paging => TopPage < HEAP_AREA_END
<1>1. TypeOK /\ ControlInv /\ PagingInv /\ BlocksInv
  BY DEF IInv
<1>2. pc = "grow" /\ heap_current + size > heap_mapped
  BY DEF Grow, NeedsPage
<1>3. /\ heap_mapped = TopPage * PAGE_SIZE /\ size \in Sizes
      /\ heap_current + size <= IF paging THEN HeapEnd ELSE EarlyMax
  BY <1>1, <1>2 DEF ControlInv
<1>4. heap_current \in Nat /\ size \in Nat /\ heap_mapped \in Nat
  BY <1>1, <1>3, BlockTypes, LayoutAssumption
<1>5. TopPage \in Nat
  <2>1. PAGE_SIZE \in Nat \ {0}
    BY Layout
  <2>2. QED
    BY <1>4, <2>1, DivMod DEF TopPage
<1>6. ASSUME ~paging PROVE TopPage < VGA
  <2>1. TopPage * PAGE_SIZE < VGA * PAGE_SIZE
    <3>1. heap_mapped < VGA * PAGE_SIZE
      BY <1>2, <1>3, <1>4, <1>6, PageBytes
    <3>2. QED
      BY <1>3, <3>1
  <2>2. QED
    BY <1>5, <2>1, Layout, MulLess
<1>7. ASSUME paging PROVE TopPage < HEAP_AREA_END
  <2>1. TopPage * PAGE_SIZE < HEAP_AREA_END * PAGE_SIZE
    <3>1. heap_mapped < HeapEnd
      BY <1>2, <1>3, <1>4, <1>7, PageBytes
    <3>2. QED
      BY <1>3, <3>1 DEF HeapEnd
  <2>2. QED
    BY <1>5, <2>1, Layout, MulLess
<1>8. QED
  BY <1>1, <1>2, <1>5, <1>6, <1>7

\* A round of the loop keeps the types and the blocks.
LEMMA GrownKept ==
  ASSUME IInv, Grow, NEW i \in Frames, NEW t \in Tables, NEW c,
         page_directory[Slot(TopPage)] = NONE => c \in TableIds,
         Slot(TopPage) \in 0 .. DirSize - 1,
         TopPage + 1 <= HEAP_AREA_END, PAGE_FRAME_AREA_START + i \in Page,
         GrownStep(TopPage, i, t, c)
  PROVE  /\ TypeOK' /\ ControlInv' /\ BlocksInv' /\ pc' = "grow"
         /\ TopPage' = TopPage + 1
         /\ page_directory'[Slot(TopPage)] = t
         /\ \A s \in 0 .. DirSize - 1 : s # Slot(TopPage) => page_directory'[s] = page_directory[s]
<1>1. /\ TypeOK /\ ControlInv /\ PagingInv /\ BlocksInv
      /\ pc = "grow" /\ TopPage \in Nat
  BY GrowContext
<1>2. /\ MappedStep(TopPage, PAGE_FRAME_AREA_START + i, t, c, pc)
      /\ page_frame_bitmap' = page_frame_bitmap \cup {i}
      /\ heap_mapped' = heap_mapped + PAGE_SIZE
      /\ UNCHANGED <<heap_current, size, blocks, paging, addr>>
  BY DEF GrownStep
<1>3. pc' = pc /\ hang' = hang
  BY <1>2 DEF MappedStep
<1>4. /\ page_directory' \in DirType
      /\ page_table' \in TablesType
      /\ page_table_bitmap' \subseteq TableIds
      /\ page_directory'[Slot(TopPage)] = t
      /\ \A s \in 0 .. DirSize - 1 : s # Slot(TopPage) => page_directory'[s] = page_directory[s]
  BY <1>1, <1>2, MappedTyped
<1>5. TopPage' = TopPage + 1 /\ heap_mapped' = TopPage' * PAGE_SIZE
  BY <1>1, <1>2, NextTop
<1>6. heap_mapped' \in 0 .. HeapEnd
  <2>1. (TopPage + 1) * PAGE_SIZE <= HEAP_AREA_END * PAGE_SIZE
    BY <1>1, Layout, MulMono
  <2>2. heap_mapped' <= HeapEnd
    BY <1>5, <2>1 DEF HeapEnd
  <2>3. heap_mapped' \in Nat
    BY <1>1, <1>2, BlockTypes, Layout
  <2>4. QED
    BY <2>2, <2>3, PageBytes
<1>7. TypeOK'
  BY <1>1, <1>2, <1>3, <1>4, <1>6 DEF TypeOK, DirType, TablesType
<1>8. ControlInv'
  <2>1. heap_current' <= heap_mapped'
    <3>1. heap_current <= heap_mapped
      BY <1>1 DEF ControlInv
    <3>2. QED
      BY <1>1, <1>2, <3>1, BlockTypes, Layout
  <2>2. heap_mapped' = TopPage' * PAGE_SIZE
    BY <1>5
  <2>3. QED
    BY <1>1, <1>2, <1>3, <2>1, <2>2 DEF ControlInv
<1>9. BlocksInv'
  <2>1. Moved' = Moved
    BY <1>2, <1>3 DEF Moved
  <2>2. QED
    BY <1>1, <1>2, <2>1, BlocksKept
<1>10. QED
  BY <1>1, <1>3, <1>4, <1>5, <1>7, <1>8, <1>9

\* Before init_paging: the frame is the page's number, the table the first of the area.
LEMMA GrowEarly ==
  ASSUME IInv, Grow, ~paging
  PROVE  IInv'
<1>1. /\ TypeOK /\ ControlInv /\ PagingInv /\ BlocksInv
      /\ pc = "grow" /\ TopPage \in Nat /\ TopPage < VGA
  BY GrowContext
<1>2. /\ BootPages(page_directory, page_frame_bitmap, page_table_bitmap, TopPage)
      /\ \A s \in 1 .. DirSize - 1 : page_directory[s] = NONE
  BY <1>1 DEF PagingInv, AtBoot
<1> DEFINE p == TopPage
           t == PAGE_TABLE_AREA_START
           dir == [page_directory EXCEPT ![Slot(p)] = t]
           tables == [page_table EXCEPT ![t][p % TableSize] = PAGE_FRAME_AREA_START + p]
<1>3. Slot(p) = 0 /\ p \in Page /\ p \notin Tables /\ p # NONE
  <2>1. p < TableSize /\ p < 2 * TableSize /\ p < HEAP_AREA_END
    BY <1>1, Layout
  <2>2. Slot(p) = 0
    BY <1>1, <2>1, StaticSlot
  <2>3. p \in Page
    BY <1>1, <2>1, Layout DEF Page
  <2>4. p \notin Tables
    BY <1>1, Layout, TableFacts
  <2>5. p # NONE
    BY <2>3, LayoutAssumption
  <2>6. QED
    BY <2>2, <2>3, <2>4, <2>5
<1>4. t \in Tables /\ 0 \in TableIds
  BY Layout DEF Tables, TableArea, TableIds
<1>5. /\ ~ (Frames \subseteq page_frame_bitmap) /\ LowestFree(page_frame_bitmap, Frames) = p
      /\ page_frame_bitmap \cup {p} = 0 .. (p + 1) - 1 /\ p \in Frames
  <2> DEFINE n == PAGE_FRAME_AREA_END - PAGE_FRAME_AREA_START
  <2>1. n \in Nat /\ Frames = 0 .. n - 1
    BY Layout DEF Frames
  <2>2. p \in 0 .. n - 1
    BY <1>1, Layout
  <2>3. page_frame_bitmap = 0 .. p - 1
    BY <1>2 DEF BootPages
  <2> HIDE DEF n, p
  <2>4. /\ LowestFree(0 .. p - 1, 0 .. n - 1) = p /\ ~ (0 .. n - 1 \subseteq 0 .. p - 1)
        /\ (0 .. p - 1) \cup {p} = 0 .. (p + 1) - 1
    BY <2>1, <2>2, FirstFit
  <2>5. QED
    BY <2>1, <2>2, <2>3, <2>4
<1>6. Mappable(p, t, 0)
  <2>1. page_directory[Slot(p)] \in {NONE, t}
    BY <1>2, <1>3 DEF BootPages
  <2>2. ASSUME page_directory[Slot(p)] = NONE
        PROVE  /\ t = PAGE_TABLE_AREA_START + 0
               /\ ~ (TableIds \subseteq page_table_bitmap)
               /\ LowestFree(page_table_bitmap, TableIds) = 0
    <3> DEFINE n == PAGE_TABLE_AREA_END - PAGE_TABLE_AREA_START
    <3>1. n \in Nat /\ TableIds = 0 .. n - 1 /\ 0 \in 0 .. n - 1
      BY Layout DEF TableIds
    <3>2. page_table_bitmap = 0 .. 0 - 1
      BY <1>2, <1>3, <2>2 DEF BootPages
    <3> HIDE DEF n
    <3>3. LowestFree(0 .. 0 - 1, 0 .. n - 1) = 0 /\ ~ (0 .. n - 1 \subseteq 0 .. 0 - 1)
      BY <3>1, FirstFit
    <3>4. t = PAGE_TABLE_AREA_START + 0
      BY Layout
    <3>5. QED
      BY <3>1, <3>2, <3>3, <3>4
  <2>3. Physical([page_directory EXCEPT ![Slot(p)] = t], page_table, t) = t
    BY DEF Physical
  <2> HIDE DEF p, t
  <2>4. QED
    BY <2>1, <2>2, <2>3, Zenon DEF Mappable
<1>7. p = Physical(dir, tables, p)
  BY DEF Physical
<1>8. GrownStep(p, p, t, 0)
  BY <1>1, <1>3, <1>4, <1>5, <1>6, <1>7, GrowStep
<1>9. /\ TypeOK' /\ ControlInv' /\ BlocksInv' /\ pc' = "grow"
      /\ TopPage' = p + 1
      /\ page_directory'[Slot(p)] = t
      /\ \A s \in 0 .. DirSize - 1 : s # Slot(p) => page_directory'[s] = page_directory[s]
  <2>1. p + 1 <= HEAP_AREA_END /\ PAGE_FRAME_AREA_START + p \in Page
    BY <1>1, Layout DEF Page
  <2>2. Slot(p) \in 0 .. DirSize - 1
    BY <1>3, Directory
  <2>3. QED
    BY <1>4, <1>5, <1>8, <2>1, <2>2, GrownKept
<1>10. /\ MappedStep(p, PAGE_FRAME_AREA_START + p, t, 0, pc)
       /\ page_frame_bitmap' = page_frame_bitmap \cup {p} /\ paging' = paging
  BY <1>8 DEF GrownStep
<1>11. PagingInv'
  <2>1. page_table_bitmap' \in {{}, {0}}
    <3>1. page_table_bitmap' = IF page_directory[Slot(p)] = NONE
                               THEN page_table_bitmap \cup {0} ELSE page_table_bitmap
      BY <1>10, Zenon DEF MappedStep
    <3>2. page_table_bitmap \in {{}, {0}}
      BY <1>2 DEF BootPages
    <3>3. QED
      BY <3>1, <3>2
  <2>2. page_directory'[0] = t /\ t # NONE
    BY <1>3, <1>4, <1>9, TableFacts
  <2>3. TopPage' \in 0 .. VGA /\ page_frame_bitmap' = 0 .. TopPage' - 1
    BY <1>1, <1>5, <1>9, <1>10, Layout
  <2>4. BootPages(page_directory', page_frame_bitmap', page_table_bitmap', TopPage')
    BY <2>1, <2>2, <2>3 DEF BootPages
  <2>5. \A s \in 1 .. DirSize - 1 : page_directory'[s] = NONE
    <3>1. \A s \in 1 .. DirSize - 1 : s \in 0 .. DirSize - 1 /\ s # 0
      BY Layout
    <3>2. QED
      BY <1>2, <1>3, <1>9, <3>1
  <2>6. AtBoot'
    BY <2>4, <2>5 DEF AtBoot
  <2>7. QED
    BY <1>9, <1>10, <2>6 DEF PagingInv
<1>12. QED
  BY <1>9, <1>11 DEF IInv

\* Under paging: the next frame, through the table of the page's slot.
LEMMA GrowLate ==
  ASSUME IInv, Grow, paging
  PROVE  IInv'
<1>1. /\ TypeOK /\ ControlInv /\ PagingInv /\ BlocksInv
      /\ pc = "grow" /\ TopPage \in Nat /\ TopPage < HEAP_AREA_END
  BY GrowContext
<1>2. /\ StaticSlots(page_directory) /\ LowSlots(page_directory)
      /\ Identity(page_table, (Kernel \cup LowTables \cup {VGA}) \ {})
      /\ HeapMap(page_directory, page_table, page_frame_bitmap, page_table_bitmap, TopPage)
  BY <1>1 DEF PagingInv, Complete
<1> DEFINE p == TopPage
           c == Slot(p) - FirstSlot
           t == PAGE_TABLE_AREA_START + c
           i == p - HEAP_AREA_START
           f == PAGE_FRAME_AREA_START + i
           dir == [page_directory EXCEPT ![Slot(p)] = t]
           tables == [page_table EXCEPT ![t][p % TableSize] = f]
           tabs == IF page_directory[Slot(p)] = NONE
                   THEN page_table_bitmap \cup {c} ELSE page_table_bitmap
           S == (Kernel \cup LowTables \cup {VGA}) \ {}
<1>3. /\ p \in HEAP_AREA_START .. HEAP_AREA_END - 1
      /\ page_frame_bitmap = 0 .. i - 1
      /\ page_table_bitmap = 0 .. HeapSlots(p) - 1
  <2>1. p \in HEAP_AREA_START .. HEAP_AREA_END
    BY <1>2 DEF HeapMap
  <2>2. p \in HEAP_AREA_START .. HEAP_AREA_END - 1
    BY <1>1, <2>1, Layout
  <2>3. QED
    BY <1>2, <2>2 DEF HeapMap
<1>4. /\ FirstSlot \in Nat /\ 2 <= FirstSlot /\ Slot(p) \in FirstSlot .. DirSize - 1
      /\ p % TableSize \in 0 .. TableSize - 1 /\ c \in TableIds /\ t \in LowTables
  BY <1>3, HeapTable
<1>5. t \in Tables /\ t # NONE /\ t \in Nat /\ t < 2 * TableSize
  BY <1>4, TableFacts
<1>6. Slot(p) \in 0 .. DirSize - 1 /\ Slot(p) \in 2 .. DirSize - 1
  BY <1>4
<1>7. f \in Page /\ f \notin Tables \cup {NONE} /\ i \in Frames
  BY <1>3, FramePage
<1>8. /\ ~ (Frames \subseteq page_frame_bitmap) /\ LowestFree(page_frame_bitmap, Frames) = i
  <2> DEFINE n == PAGE_FRAME_AREA_END - PAGE_FRAME_AREA_START
  <2>1. n \in Nat /\ Frames = 0 .. n - 1
    BY Layout DEF Frames
  <2>2. i \in 0 .. n - 1
    BY <1>7, <2>1
  <2> HIDE DEF n, i
  <2>3. LowestFree(0 .. i - 1, 0 .. n - 1) = i /\ ~ (0 .. n - 1 \subseteq 0 .. i - 1)
    BY <2>1, <2>2, FirstFit
  <2>4. QED
    BY <1>3, <2>1, <2>3
<1>9. /\ HeapSlots(p) \in Nat /\ (c = HeapSlots(p) \/ c = HeapSlots(p) - 1)
  BY <1>3, SlotsGrow
<1>10. page_directory[Slot(p)] = IF c = HeapSlots(p) THEN NONE ELSE t
  <2>1. page_directory[Slot(p)] = IF Slot(p) < FirstSlot + HeapSlots(p) THEN t ELSE NONE
    BY <1>2, <1>4 DEF HeapMap
  <2>2. Slot(p) < FirstSlot + HeapSlots(p) <=> ~ (c = HeapSlots(p))
    BY <1>4, <1>9
  <2> HIDE DEF c, t
  <2>3. QED
    BY <2>1, <2>2
<1> HIDE DEF t
<1>11. Mappable(p, t, c)
  <2>1. page_directory[Slot(p)] \in {NONE, t}
    BY <1>10
  <2>2. ASSUME page_directory[Slot(p)] = NONE
        PROVE  /\ t = PAGE_TABLE_AREA_START + c
               /\ ~ (TableIds \subseteq page_table_bitmap)
               /\ LowestFree(page_table_bitmap, TableIds) = c
    <3> DEFINE n == PAGE_TABLE_AREA_END - PAGE_TABLE_AREA_START
    <3>1. n \in Nat /\ TableIds = 0 .. n - 1
      BY Layout DEF TableIds
    <3>2. c \in 0 .. n - 1 /\ page_table_bitmap = 0 .. c - 1
      BY <1>3, <1>4, <1>5, <1>10, <2>2, <3>1
    <3> HIDE DEF n, c
    <3>3. LowestFree(0 .. c - 1, 0 .. n - 1) = c /\ ~ (0 .. n - 1 \subseteq 0 .. c - 1)
      BY <3>1, <3>2, FirstFit
    <3>4. QED
      BY <3>1, <3>2, <3>3 DEF t
  <2>3. Physical([page_directory EXCEPT ![Slot(p)] = t], page_table, t) = t
    <3>1. StaticSlots(dir)
      <4>1. page_directory \in [0 .. DirSize - 1 -> Tables \cup {NONE}]
        BY <1>1 DEF TypeOK
      <4>2. Slot(p) # 0 /\ Slot(p) # 1 /\ 0 \in 0 .. DirSize - 1 /\ 1 \in 0 .. DirSize - 1
        BY <1>6, Directory
      <4> HIDE DEF p
      <4>3. QED
        BY <1>2, <4>1, <4>2 DEF StaticSlots
    <3> HIDE DEF dir
    <3>2. Translate(dir, page_table, t) = page_table[Static(t)][t % TableSize]
      BY <1>5, <3>1, LowTranslate
    <3>3. page_table[Static(t)][t % TableSize] = t
      BY <1>2, <1>4 DEF Identity
    <3>4. QED
      BY <3>2, <3>3 DEF Physical, dir
  <2> HIDE DEF p, c
  <2>4. QED
    BY <2>1, <2>2, <2>3, Zenon DEF Mappable
<1>12. HeapMap(dir, tables, page_frame_bitmap \cup {i}, tabs, p + 1)
  <2>1. page_directory \in DirType /\ page_table \in TablesType
    BY <1>1 DEF TypeOK, DirType, TablesType
  <2>2. t = PAGE_TABLE_AREA_START + (Slot(p) - FirstSlot)
    BY DEF t
  <2> HIDE DEF p
  <2>3. QED
    BY <1>1, <1>2, <2>1, <2>2, HeapMapGrows DEF p
<1>13. f = Physical(dir, tables, p)
  <2>1. p \in HEAP_AREA_START .. (p + 1) - 1
    BY <1>3, Layout
  <2> HIDE DEF dir, tables, tabs
  <2>2. Translate(dir, tables, p) = f
    BY <1>12, <2>1, HeapTranslate
  <2>3. QED
    BY <2>2 DEF Physical
<1>14. GrownStep(p, i, t, c)
  <2> HIDE DEF c, i
  <2>1. QED
    BY <1>1, <1>5, <1>7, <1>8, <1>11, <1>13, GrowStep
<1>15. /\ TypeOK' /\ ControlInv' /\ BlocksInv' /\ pc' = "grow"
       /\ TopPage' = p + 1
       /\ page_directory'[Slot(p)] = t
       /\ \A s \in 0 .. DirSize - 1 : s # Slot(p) => page_directory'[s] = page_directory[s]
  <2>1. p + 1 <= HEAP_AREA_END
    BY <1>1, Layout
  <2> HIDE DEF c, i
  <2>2. QED
    BY <1>4, <1>5, <1>6, <1>7, <1>14, <2>1, GrownKept
<1>16. /\ MappedStep(p, f, t, c, pc)
       /\ page_frame_bitmap' = page_frame_bitmap \cup {i} /\ paging' = paging
  BY <1>14 DEF GrownStep
<1>17. /\ page_directory' = dir /\ page_table' = tables /\ page_table_bitmap' = tabs
  BY <1>16, Zenon DEF MappedStep
<1>18. PagingInv'
  <2>1. HeapMap(page_directory', page_table', page_frame_bitmap', page_table_bitmap', TopPage')
    BY <1>12, <1>15, <1>16, <1>17
  <2>2. Identity(page_table', S)
    <3>1. S \subseteq {u \in Nat : u < 2 * TableSize} /\ page_table \in TablesType
      BY <1>1, LowPages DEF TypeOK, TablesType
    <3>2. Identity(page_table, S)
      BY <1>2
    <3>3. page_table' = [page_table EXCEPT ![t][p % TableSize] = f]
      BY <1>17
    <3> HIDE DEF S, p, f
    <3>4. QED
      BY <1>4, <1>7, <3>1, <3>2, <3>3, IdentityKept
  <2>3. StaticSlots(page_directory')
    BY <1>2, <1>6, <1>15, Directory DEF StaticSlots
  <2>4. LowSlots(page_directory')
    BY <1>2, <1>4, <1>15, Directory DEF LowSlots
  <2>5. Complete({})'
    BY <2>1, <2>2, <2>3, <2>4 DEF Complete
  <2>6. QED
    BY <1>15, <1>16, <2>5 DEF PagingInv
<1>19. QED
  BY <1>15, <1>18 DEF IInv

LEMMA GrowInvariant == IInv /\ Grow => IInv'
BY GrowEarly, GrowLate

\* The pages of a block that ends in the pages below p lie between its first page and p.
LEMMA BlockPages ==
  ASSUME NEW base \in Nat, NEW n \in Nat, n > 0, NEW p \in Nat, base + n <= p * PAGE_SIZE,
         NEW v \in PagesOf(base, n)
  PROVE  v \in Nat /\ v < p /\ base \div PAGE_SIZE <= v
<1>1. PAGE_SIZE \in Nat \ {0}
  BY Layout
<1>2. base + n - 1 \in Nat
  OBVIOUS
<1>3. /\ base \div PAGE_SIZE \in Nat /\ (base + n - 1) \div PAGE_SIZE \in Nat
      /\ ((base + n - 1) \div PAGE_SIZE) * PAGE_SIZE <= base + n - 1
  <2>1. base \div PAGE_SIZE \in Nat
    BY <1>1, DivMod
  <2>2. /\ (base + n - 1) \div PAGE_SIZE \in Nat
        /\ (base + n - 1) % PAGE_SIZE \in 0 .. PAGE_SIZE - 1
        /\ base + n - 1 = ((base + n - 1) \div PAGE_SIZE) * PAGE_SIZE + ((base + n - 1) % PAGE_SIZE)
    BY <1>1, <1>2, DivMod
  <2> DEFINE q == (base + n - 1) \div PAGE_SIZE
             r == (base + n - 1) % PAGE_SIZE
  <2>3. q * PAGE_SIZE \in Int /\ r \in Nat
    BY <1>1, <2>2
  <2> HIDE DEF q, r
  <2>4. q * PAGE_SIZE <= base + n - 1
    BY <1>1, <2>2, <2>3 DEF q, r
  <2>5. QED
    BY <2>1, <2>2, <2>4 DEF q
<1> DEFINE q == (base + n - 1) \div PAGE_SIZE
<1>4. v \in base \div PAGE_SIZE .. q
  BY DEF PagesOf
<1> HIDE DEF q
<1>5. q < p
  <2>1. q * PAGE_SIZE < p * PAGE_SIZE
    <3>1. q * PAGE_SIZE \in Int /\ p * PAGE_SIZE \in Int
      BY <1>1, <1>3 DEF q
    <3>2. q * PAGE_SIZE <= base + n - 1
      BY <1>3 DEF q
    <3>3. QED
      BY <1>2, <3>1, <3>2
  <2>2. q \in Nat
    BY <1>3 DEF q
  <2>3. QED
    BY <1>1, <2>1, <2>2, MulLess
<1>6. QED
  BY <1>3, <1>4, <1>5 DEF q

\* A block of the heap begins in the heap.
LEMMA HeapBase ==
  ASSUME NEW base \in Nat, HeapStart <= base
  PROVE  HEAP_AREA_START <= base \div PAGE_SIZE
<1>1. PAGE_SIZE \in Nat \ {0} /\ HEAP_AREA_START \in Nat
  BY Layout
<1>2. (HEAP_AREA_START * PAGE_SIZE) \div PAGE_SIZE = HEAP_AREA_START
  BY <1>1, DivMultiple
<1>3. HeapStart \div PAGE_SIZE <= base \div PAGE_SIZE
  BY <1>1, PageBytes, DivMono
<1>4. QED
  BY <1>2, <1>3 DEF HeapStart

\* Clearing the block does not fault: its pages are mapped.
LEMMA BlockMapped ==
  ASSUME IInv, pc = "grow", ~NeedsPage
  PROVE  \A v \in PagesOf(heap_current, size) : Physical(page_directory, page_table, v) # NONE
<1>1. TypeOK /\ ControlInv /\ PagingInv /\ BlocksInv
  BY DEF IInv
<1>2. /\ heap_mapped = TopPage * PAGE_SIZE /\ heap_current \in Nat /\ heap_mapped \in Nat
      /\ size \in Nat /\ size > 0
  <2>1. size \in Sizes /\ heap_mapped = TopPage * PAGE_SIZE
    BY <1>1 DEF ControlInv
  <2>2. QED
    BY <1>1, <2>1, BlockTypes, LayoutAssumption
<1>3. heap_current + size <= TopPage * PAGE_SIZE /\ TopPage \in Nat
  <2>1. heap_current + size <= heap_mapped
    BY <1>2 DEF NeedsPage
  <2>2. PAGE_SIZE \in Nat \ {0}
    BY Layout
  <2>3. TopPage \in Nat
    BY <1>2, <2>2, DivMod DEF TopPage
  <2>4. QED
    BY <1>2, <2>1, <2>3
<1> SUFFICES ASSUME NEW v \in PagesOf(heap_current, size)
             PROVE  Physical(page_directory, page_table, v) # NONE
  OBVIOUS
<1>4. v \in Nat /\ v < TopPage /\ heap_current \div PAGE_SIZE <= v
  BY <1>2, <1>3, BlockPages
<1>5. CASE ~paging
  <2>1. TopPage \in 0 .. VGA
    BY <1>1, <1>5 DEF PagingInv, AtBoot, BootPages
  <2>2. v \in Page
    BY <1>4, <2>1, Layout DEF Page
  <2>3. v # NONE
    BY <2>2, LayoutAssumption
  <2>4. QED
    BY <1>5, <2>3 DEF Physical
<1>6. CASE paging
  <2>1. HeapMap(page_directory, page_table, page_frame_bitmap, page_table_bitmap, TopPage)
    BY <1>1, <1>6 DEF PagingInv, Complete
  <2>2. HEAP_AREA_START <= heap_current \div PAGE_SIZE
    <3>1. HeapStart <= heap_current
      BY <1>1, <1>6 DEF BlocksInv, Moved
    <3>2. QED
      BY <1>2, <3>1, HeapBase
  <2>3. v \in HEAP_AREA_START .. TopPage - 1
    <3>1. heap_current \div PAGE_SIZE \in Nat
      <4>1. PAGE_SIZE \in Nat \ {0}
        BY Layout
      <4>2. QED
        BY <1>2, <4>1, DivMod
    <3>2. QED
      BY <1>3, <1>4, <2>2, <3>1, Layout
  <2>4. Translate(page_directory, page_table, v) = PAGE_FRAME_AREA_START + (v - HEAP_AREA_START)
        /\ PAGE_FRAME_AREA_START + (v - HEAP_AREA_START) \notin Tables \cup {NONE}
    BY <2>1, <2>3, HeapTranslate
  <2>5. QED
    BY <1>6, <2>4 DEF Physical
<1>7. QED
  BY <1>5, <1>6

LEMMA HeapReturnInvariant == IInv /\ HeapReturn => IInv'
<1> SUFFICES ASSUME IInv, HeapReturn PROVE IInv'
  OBVIOUS
<1>1. TypeOK /\ ControlInv /\ PagingInv /\ BlocksInv
  BY DEF IInv
<1> DEFINE b0 == [base |-> heap_current, size |-> size, early |-> ~paging]
<1>2. /\ pc = "grow" /\ ~NeedsPage
      /\ blocks' = blocks \cup {b0}
      /\ heap_current' = heap_current + size /\ size' = 0
      /\ pc' = IF paging THEN "run" ELSE "boot"
      /\ UNCHANGED <<heap_mapped, hang>>
      /\ UNCHANGED <<page_directory, page_table, page_table_bitmap>>
      /\ UNCHANGED <<page_frame_bitmap, paging, addr>>
  <2>1. pc = "grow" /\ ~NeedsPage
    BY DEF HeapReturn
  <2>2. ~ (\E v \in PagesOf(heap_current, size) : Physical(page_directory, page_table, v) = NONE)
    BY <2>1, BlockMapped
  <2>3. QED
    BY <2>1, <2>2, Zenon DEF HeapReturn, Bump, maps
<1>3. /\ heap_mapped = TopPage * PAGE_SIZE /\ heap_current \in Nat /\ heap_mapped \in Nat
      /\ size \in Sizes /\ size \in Nat /\ size > 0
      /\ heap_current + size <= IF paging THEN HeapEnd ELSE EarlyMax
  <2>1. /\ size \in Sizes /\ heap_mapped = TopPage * PAGE_SIZE
        /\ heap_current + size <= IF paging THEN HeapEnd ELSE EarlyMax
    BY <1>1, <1>2 DEF ControlInv
  <2>2. QED
    BY <1>1, <2>1, BlockTypes, LayoutAssumption
<1>4. heap_current + size <= heap_mapped
  BY <1>2, <1>3 DEF NeedsPage
<1>5. paging \in BOOLEAN /\ heap_mapped \in 0 .. HeapEnd
  BY <1>1 DEF TypeOK
<1>6. TypeOK'
  <2>1. heap_current \in 0 .. HeapEnd /\ heap_current + size \in 0 .. HeapEnd
    BY <1>3, <1>4, <1>5, PageBytes
  <2>2. b0 \in [base : 0 .. HeapEnd, size : Sizes, early : BOOLEAN]
    BY <1>3, <2>1
  <2> HIDE DEF b0
  <2>3. QED
    BY <1>1, <1>2, <2>1, <2>2 DEF TypeOK
<1>7. TopPage' = TopPage
  BY <1>2 DEF TopPage
<1>8. ControlInv'
  <2>1. pc' \in {"run", "boot"} /\ (pc' = "run" <=> paging)
    BY <1>2
  <2>2. QED
    BY <1>1, <1>2, <1>3, <1>4, <1>7, <2>1 DEF ControlInv
<1>9. PagingInv'
  <2>1. CASE paging
    <3>1. Complete({})
      BY <1>1, <2>1 DEF PagingInv
    <3>2. Complete({})'
      BY <1>2, <1>7, <3>1 DEF Complete
    <3>3. QED
      BY <1>2, <2>1, <3>2 DEF PagingInv
  <2>2. CASE ~paging
    <3>1. AtBoot
      BY <1>1, <1>2, <2>2 DEF PagingInv
    <3>2. AtBoot'
      BY <1>2, <1>7, <3>1 DEF AtBoot
    <3>3. QED
      BY <1>2, <2>2, <3>2 DEF PagingInv
  <2>3. QED
    BY <2>1, <2>2
<1>10. BlocksInv'
  <2>1. Moved' = Moved /\ (Moved <=> paging)
    BY <1>2 DEF Moved
  <2>2. b0.base = heap_current /\ b0.size = size /\ b0.early = ~paging
    OBVIOUS
  <2> HIDE DEF b0
  <2>3. \A b \in blocks : b.base \in Nat /\ b.size \in Nat
    BY <1>1, BlockTypes
  <2>4. \A b \in blocks : b.base + b.size <= heap_current
    <3>1. CASE ~paging
      BY <1>1, <2>1, <3>1 DEF BlocksInv
    <3>2. CASE paging
      <4>1. HeapStart <= heap_current /\ HeapStart \in Nat
        BY <1>1, <2>1, <3>2, PageBytes DEF BlocksInv
      <4>2. \A b \in blocks : b.base + b.size <= HeapStart \/ b.base + b.size <= heap_current
        BY <1>1, <2>1, <3>2 DEF BlocksInv
      <4>3. QED
        BY <1>3, <2>3, <4>1, <4>2
    <3>3. QED
      BY <3>1, <3>2
  <2>5. BlocksDisjoint'
    <3> SUFFICES ASSUME NEW a \in blocks \cup {b0}, NEW b \in blocks \cup {b0}, a # b
                 PROVE  a.base + a.size <= b.base \/ b.base + b.size <= a.base
      BY <1>2 DEF BlocksDisjoint
    <3>1. CASE a \in blocks /\ b \in blocks
      BY <1>1, <3>1 DEF BlocksInv, BlocksDisjoint
    <3>2. CASE a = b0 /\ b \in blocks
      BY <2>2, <2>4, <3>2
    <3>3. CASE b = b0 /\ a \in blocks
      BY <2>2, <2>4, <3>3
    <3>4. QED
      BY <3>1, <3>2, <3>3
  <2>6. \A b \in blocks \cup {b0} : b.base + b.size <= heap_current + size
    <3>1. \A b \in blocks : b.base + b.size <= heap_current + size
      BY <1>3, <2>3, <2>4
    <3>2. b0.base + b0.size <= heap_current + size
      BY <1>3, <2>2
    <3>3. QED
      BY <3>1, <3>2
  <2>7. CASE ~paging
    <3>1. heap_current + size <= EarlyMax
      BY <1>3, <2>7
    <3>2. \A b \in blocks : b.early
      BY <1>1, <2>1, <2>7 DEF BlocksInv
    <3>3. \A b \in blocks \cup {b0} : b.early /\ b.base + b.size <= heap_current + size
      BY <2>2, <2>6, <2>7, <3>2, Zenon
    <3>4. QED
      BY <1>2, <2>1, <2>5, <2>7, <3>1, <3>3 DEF BlocksInv
  <2>8. CASE paging
    <3>1. HeapStart <= heap_current /\ HeapStart \in Nat
      BY <1>1, <2>1, <2>8, PageBytes DEF BlocksInv
    <3>2. HeapStart <= heap_current + size
      BY <1>3, <3>1
    <3>3. \A b \in blocks : IF b.early THEN b.base + b.size <= HeapStart
                            ELSE HeapStart <= b.base
      BY <1>1, <2>1, <2>8 DEF BlocksInv
    <3>4. \A b \in blocks \cup {b0} :
             IF b.early THEN b.base + b.size <= HeapStart
             ELSE paging /\ HeapStart <= b.base /\ b.base + b.size <= heap_current + size
      BY <2>2, <2>6, <2>8, <3>1, <3>3, Zenon
    <3>5. QED
      BY <1>2, <2>1, <2>5, <2>8, <3>2, <3>4 DEF BlocksInv
  <2>9. QED
    BY <2>7, <2>8
<1>11. QED
  BY <1>6, <1>8, <1>9, <1>10 DEF IInv

LEMMA StutterInvariant == IInv /\ UNCHANGED vars => IInv'
<1> SUFFICES ASSUME IInv, UNCHANGED vars PROVE IInv'
  OBVIOUS
<1>1. UNCHANGED <<page_directory, page_table, page_table_bitmap, page_frame_bitmap, heap_current,
                  heap_mapped, size, blocks, paging, pc, addr, hang>>
  BY DEF vars, maps, heap
<1>2. TypeOK' /\ ControlInv' /\ BlocksInv'
  BY <1>1 DEF IInv, TypeOK, ControlInv, BlocksInv, BlocksDisjoint, Moved, TopPage
<1>3. PagingInv'
  BY <1>1 DEF IInv, PagingInv, AtBoot, MappingKernel, MappingTables, Complete, TopPage
<1>4. QED
  BY <1>2, <1>3 DEF IInv

-----------------------------------------------------------------------------
(***************************************************************************)
(* The theorems.                                                           *)
(***************************************************************************)

\* The inductive invariant: paging and heap as the invariant describes them at every
\* point of init_paging and of heap_allocate.
THEOREM Invariance == Spec => []IInv
<1>1. IInv /\ [Next]_vars => IInv'
  <2> SUFFICES ASSUME IInv, [Next]_vars PROVE IInv'
    OBVIOUS
  <2>1. CASE InitPaging
    BY <2>1, InitPagingInvariant
  <2>2. CASE MapKernel
    BY <2>2, MapKernelInvariant
  <2>3. CASE InitPageFrames
    BY <2>3, InitPageFramesInvariant
  <2>4. CASE MapTables
    BY <2>4, MapTablesInvariant
  <2>5. CASE InitAllocators
    BY <2>5, InitAllocatorsInvariant
  <2>6. CASE EnablePaging
    BY <2>6, EnablePagingInvariant
  <2>7. CASE \E s \in Sizes : HeapAllocate(s)
    BY <2>7, HeapAllocateInvariant
  <2>8. CASE Grow
    BY <2>8, GrowInvariant
  <2>9. CASE HeapReturn
    BY <2>9, HeapReturnInvariant
  <2>10. CASE Spin
    BY <2>10, StutterInvariant DEF Spin
  <2>11. CASE UNCHANGED vars
    BY <2>11, StutterInvariant
  <2>12. QED
    BY <2>1, <2>2, <2>3, <2>4, <2>5, <2>6, <2>7, <2>8, <2>9, <2>10, <2>11 DEF Next
<1>2. QED
  BY InitInvariant, <1>1, PTL DEF Spec

\* The page structures, the bitmaps and the heap pointers have their types.
THEOREM TypeCorrect == Spec => []TypeOK
<1>1. IInv => TypeOK
  BY DEF IInv
<1>2. QED
  BY Invariance, <1>1, PTL

\* heap_allocate never hands out a byte twice, across the move of the heap by
\* init_heap_allocator too.
THEOREM DisjointBlocks == Spec => []BlocksDisjoint
<1>1. IInv => BlocksDisjoint
  BY DEF IInv, BlocksInv
<1>2. QED
  BY Invariance, <1>1, PTL

\* The pages below heap_mapped, under paging.
LEMMA HeapPagesAre ==
  ASSUME IInv, paging
  PROVE  /\ HeapMap(page_directory, page_table, page_frame_bitmap, page_table_bitmap, TopPage)
         /\ TopPage \in Nat /\ HeapPages = HEAP_AREA_START .. TopPage - 1
<1>1. /\ HeapMap(page_directory, page_table, page_frame_bitmap, page_table_bitmap, TopPage)
      /\ heap_mapped = TopPage * PAGE_SIZE
  BY DEF IInv, PagingInv, Complete, ControlInv
<1>2. TopPage \in HEAP_AREA_START .. HEAP_AREA_END
  BY <1>1 DEF HeapMap
<1>3. TopPage \in Nat /\ HEAP_AREA_START <= TopPage /\ TopPage <= HEAP_AREA_END
  BY <1>2, Layout
<1> DEFINE p == TopPage
<1> HIDE DEF p
<1>4. ASSUME NEW v \in Nat PROVE v * PAGE_SIZE < p * PAGE_SIZE <=> v < p
  <2>1. p \in Nat /\ PAGE_SIZE \in Nat /\ PAGE_SIZE > 0
    BY <1>3, Layout DEF p
  <2>2. CASE v < p
    <3>1. (v + 1) * PAGE_SIZE <= p * PAGE_SIZE
      BY <2>1, <2>2, MulMono
    <3>2. (v + 1) * PAGE_SIZE = v * PAGE_SIZE + PAGE_SIZE /\ v * PAGE_SIZE \in Int
      BY <2>1, MulStep
    <3>3. p * PAGE_SIZE \in Int
      BY <2>1, MulStep
    <3>4. QED
      BY <2>1, <2>2, <3>1, <3>2, <3>3
  <2>3. CASE ~ (v < p)
    <3>1. p * PAGE_SIZE <= v * PAGE_SIZE
      BY <2>1, <2>3, MulMono
    <3>2. v * PAGE_SIZE \in Int /\ p * PAGE_SIZE \in Int
      BY <2>1, MulStep
    <3>3. QED
      BY <2>3, <3>1, <3>2
  <2>4. QED
    BY <2>2, <2>3
<1>5. \A v \in HeapArea : v \in Nat /\ HEAP_AREA_START <= v /\ v <= HEAP_AREA_END - 1
  BY Layout DEF HeapArea
<1>6. HeapPages = {v \in HeapArea : v * PAGE_SIZE < p * PAGE_SIZE}
  BY <1>1 DEF HeapPages, p
<1>7. HeapPages = {v \in HeapArea : v < p}
  BY <1>4, <1>5, <1>6
<1>8. {v \in HeapArea : v < p} = HEAP_AREA_START .. p - 1
  BY <1>3, Layout DEF HeapArea, p
<1>9. QED
  BY <1>1, <1>3, <1>7, <1>8 DEF p

\* Under paging every heap page below heap_mapped has a frame of its own that the bitmap
\* marks used.
THEOREM BackedHeap == Spec => []HeapBacked
<1>1. IInv => HeapBacked
  <2> SUFFICES ASSUME IInv, paging
               PROVE  /\ \A v \in HeapPages :
                            Mapped(v) \in {PAGE_FRAME_AREA_START + i : i \in page_frame_bitmap}
                      /\ \A v, w \in HeapPages : Mapped(v) = Mapped(w) => v = w
    BY DEF HeapBacked
  <2>1. /\ HeapMap(page_directory, page_table, page_frame_bitmap, page_table_bitmap, TopPage)
        /\ HeapPages = HEAP_AREA_START .. TopPage - 1 /\ TopPage \in Nat
    BY HeapPagesAre
  <2>2. ASSUME NEW v \in HeapPages
        PROVE  /\ Mapped(v) = PAGE_FRAME_AREA_START + (v - HEAP_AREA_START)
               /\ v - HEAP_AREA_START \in page_frame_bitmap /\ v \in Int
    <3>1. v \in HEAP_AREA_START .. TopPage - 1
      BY <2>1
    <3>2. /\ Translate(page_directory, page_table, v) = PAGE_FRAME_AREA_START + (v - HEAP_AREA_START)
          /\ v - HEAP_AREA_START \in page_frame_bitmap
      BY <2>1, <3>1, HeapTranslate
    <3>3. v \in Int
      BY <2>1, <3>1, Layout
    <3>4. QED
      BY <3>2, <3>3 DEF Mapped
  <2>3. \A v, w \in HeapPages : Mapped(v) = Mapped(w) => v = w
    <3> SUFFICES ASSUME NEW v \in HeapPages, NEW w \in HeapPages, Mapped(v) = Mapped(w)
                 PROVE  v = w
      OBVIOUS
    <3>1. PAGE_FRAME_AREA_START + (v - HEAP_AREA_START) = PAGE_FRAME_AREA_START + (w - HEAP_AREA_START)
      BY <2>2
    <3>2. v \in Int /\ w \in Int /\ PAGE_FRAME_AREA_START \in Int /\ HEAP_AREA_START \in Int
      BY <2>2, Layout
    <3>3. QED
      BY <3>1, <3>2
  <2>4. QED
    BY <2>2, <2>3
<1>2. QED
  BY Invariance, <1>1, PTL

\* A block handed out under paging is mapped to its last byte.
THEOREM UsableBlocks == Spec => []BlocksUsable
<1>1. IInv => BlocksUsable
  <2> SUFFICES ASSUME IInv, paging, NEW b \in blocks, ~b.early, NEW v \in PagesOf(b.base, b.size)
               PROVE  v \in HeapPages
    BY DEF BlocksUsable
  <2>1. TypeOK /\ ControlInv /\ BlocksInv
    BY DEF IInv
  <2>2. HeapPages = HEAP_AREA_START .. TopPage - 1 /\ TopPage \in Nat
    BY HeapPagesAre
  <2>3. /\ b.base \in Nat /\ b.size \in Nat /\ b.size > 0
        /\ heap_current \in Nat /\ heap_mapped \in Nat
    BY <2>1, BlockTypes
  <2>4. HeapStart <= b.base /\ b.base + b.size <= heap_current
    BY <2>1 DEF BlocksInv, Moved
  <2>5. b.base + b.size <= TopPage * PAGE_SIZE
    <3>1. heap_current <= heap_mapped /\ heap_mapped = TopPage * PAGE_SIZE
      BY <2>1 DEF ControlInv
    <3>2. b.base + b.size <= heap_mapped
      BY <2>3, <2>4, <3>1
    <3>3. QED
      BY <3>1, <3>2
  <2>6. v \in Nat /\ v < TopPage /\ b.base \div PAGE_SIZE <= v
    BY <2>2, <2>3, <2>5, BlockPages
  <2>7. HEAP_AREA_START <= b.base \div PAGE_SIZE
    BY <2>3, <2>4, HeapBase
  <2>8. b.base \div PAGE_SIZE \in Nat
    <3>1. PAGE_SIZE \in Nat \ {0}
      BY Layout
    <3>2. QED
      BY <2>3, <3>1, DivMod
  <2>9. v \in HEAP_AREA_START .. TopPage - 1
    BY <2>2, <2>6, <2>7, <2>8, Layout
  <2>10. QED
    BY <2>2, <2>9
<1>2. QED
  BY Invariance, <1>1, PTL

\* While paging is on, the kernel, the VGA buffer and the tables in use are identity
\* mapped.
THEOREM IdentityMapped == Spec => []UsedTablesIdentityMapped
<1>1. IInv => UsedTablesIdentityMapped
  <2> SUFFICES ASSUME IInv, paging,
                      NEW v \in Kernel \cup {VGA} \cup
                                ({page_directory[i] : i \in DOMAIN page_directory} \ {NONE})
               PROVE  Mapped(v) = v
    BY DEF UsedTablesIdentityMapped
  <2>1. /\ StaticSlots(page_directory) /\ LowSlots(page_directory)
        /\ Identity(page_table, (Kernel \cup LowTables \cup {VGA}) \ {})
        /\ page_directory \in [0 .. DirSize - 1 -> Tables \cup {NONE}]
    BY DEF IInv, PagingInv, Complete, TypeOK
  <2>2. v \in Kernel \cup LowTables \cup {VGA}
    <3>1. CASE v \in Kernel \cup {VGA}
      BY <3>1
    <3>2. CASE v \in {page_directory[i] : i \in DOMAIN page_directory} \ {NONE}
      <4>1. PICK i \in 0 .. DirSize - 1 : v = page_directory[i] /\ v # NONE
        BY <2>1, <3>2
      <4>2. i = 0 \/ i = 1 \/ i \in 2 .. DirSize - 1
        BY <4>1, Layout
      <4>3. first_page_table \in Kernel /\ second_page_table \in Kernel
        BY LayoutAssumption
      <4>4. QED
        BY <2>1, <4>1, <4>2, <4>3 DEF StaticSlots, LowSlots
    <3>3. QED
      BY <3>1, <3>2
  <2>3. v \in Nat /\ v < 2 * TableSize
    BY <2>2, LowPages
  <2>4. Translate(page_directory, page_table, v) = page_table[Static(v)][v % TableSize]
    BY <2>1, <2>3, LowTranslate
  <2>5. page_table[Static(v)][v % TableSize] = v
    BY <2>1, <2>2 DEF Identity
  <2>6. QED
    BY <2>4, <2>5 DEF Mapped
<1>2. QED
  BY Invariance, <1>1, PTL

\* Neither allocator runs out before the heap limit does, and nothing faults.
THEOREM HeapLimitOnly == Spec => []OnlyHeapOverflows
<1>1. IInv => OnlyHeapOverflows
  BY DEF IInv, ControlInv, OnlyHeapOverflows
<1>2. QED
  BY Invariance, <1>1, PTL
=============================================================================
