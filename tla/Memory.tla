------------------------------- MODULE Memory -------------------------------
(***************************************************************************)
(* Paging and the heap of kernel/memory.c.                                 *)
(*                                                                         *)
(* Memory is a set of pages, named by number; a page table is named by the *)
(* physical page it occupies, and its entries are the physical pages that  *)
(* are present, or NONE.  The heap pointers are byte addresses.            *)
(* They are unbounded: the wrap-around of heap_current + size, a uint32_t, *)
(* is left out, as no caller passes a size near 2^32.                      *)
(*                                                                         *)
(* kmain calls init_filesystem, which allocates from the heap, before      *)
(* init_paging; both pointers are then still 0.  The control point pc is   *)
(*                                                                         *)
(*   "boot"        before init_paging, paging off                          *)
(*   "map_kernel"  init_paging, in the loop that maps the kernel           *)
(*   "map_tables"  init_page_table_allocator, in its identity_map_range    *)
(*   "map_vga"     init_paging, after the three allocators                 *)
(*   "run"         after init_paging, paging on                            *)
(*   "grow"        in the while loop of heap_allocate                      *)
(*   "halt"        hung in panic() or in page_fault_handler; see hang      *)
(***************************************************************************)
EXTENDS Integers, FiniteSets

CONSTANTS
    PAGE_SIZE,                       \* bytes in a page (4096)
    TableSize, DirSize,              \* entries of a page table and of the directory (1024)
    KERNEL_START, KERNEL_END,        \* page numbers; an END page is excluded
    PAGE_TABLE_AREA_START, PAGE_TABLE_AREA_END,
    PAGE_FRAME_AREA_START, PAGE_FRAME_AREA_END,
    HEAP_AREA_START, HEAP_AREA_END,
    VGA,                             \* the page of the VGA buffer
    first_page_table, second_page_table,   \* the kernel pages of the static tables
    Sizes,                           \* the sizes heap_allocate is called with
    EarlyMax,                        \* bound: heap bytes allocated before init_paging
    NONE

TableArea == PAGE_TABLE_AREA_START .. PAGE_TABLE_AREA_END - 1
FrameArea == PAGE_FRAME_AREA_START .. PAGE_FRAME_AREA_END - 1
HeapArea  == HEAP_AREA_START .. HEAP_AREA_END - 1
Kernel    == KERNEL_START .. KERNEL_END - 1
Tables    == TableArea \cup {first_page_table, second_page_table}
HeapStart == HEAP_AREA_START * PAGE_SIZE
HeapEnd   == HEAP_AREA_END * PAGE_SIZE
Page      == 0 .. DirSize * TableSize - 1
Frames    == 0 .. PAGE_FRAME_AREA_END - PAGE_FRAME_AREA_START - 1
TableIds  == 0 .. PAGE_TABLE_AREA_END - PAGE_TABLE_AREA_START - 1

\* The regions of memory.h lie in this order, the kernel in the first directory
\* slot; the heap is not larger than the frame area; what is allocated before
\* init_paging stays below the VGA buffer.
ASSUME LayoutAssumption ==
    /\ {PAGE_SIZE, TableSize, DirSize} \subseteq Nat \ {0}
    /\ {VGA, KERNEL_START, KERNEL_END, PAGE_TABLE_AREA_START, PAGE_TABLE_AREA_END,
        PAGE_FRAME_AREA_START, PAGE_FRAME_AREA_END, HEAP_AREA_START, HEAP_AREA_END} \subseteq Nat
    /\ VGA < KERNEL_START
    /\ KERNEL_START < KERNEL_END /\ KERNEL_END <= PAGE_TABLE_AREA_START
    /\ PAGE_TABLE_AREA_START < PAGE_TABLE_AREA_END
    /\ PAGE_TABLE_AREA_END <= PAGE_FRAME_AREA_START
    /\ PAGE_FRAME_AREA_START < PAGE_FRAME_AREA_END
    /\ PAGE_FRAME_AREA_END <= HEAP_AREA_START
    /\ HEAP_AREA_START < HEAP_AREA_END /\ HEAP_AREA_END <= DirSize * TableSize
    /\ KERNEL_END <= TableSize
    /\ {first_page_table, second_page_table} \subseteq Kernel
    /\ first_page_table # second_page_table
    /\ HEAP_AREA_END - HEAP_AREA_START <= PAGE_FRAME_AREA_END - PAGE_FRAME_AREA_START
    /\ Sizes \subseteq Nat \ {0}
    /\ EarlyMax \in 0 .. PAGE_SIZE * VGA
    /\ NONE \notin Page

\* What memory.h chooses besides: the heap starts in a directory slot behind those of
\* the page table area, and the tables of the heap's slots, as those of the area's
\* own, are pages of the first two slots, whose tables are never allocated.  The
\* frames suffice for what is allocated before init_paging.
ASSUME PlacementAssumption ==
    LET Slot(v) == v \div TableSize
        AreaSlots == Slot(PAGE_TABLE_AREA_END - 1)
        HeapSlots == Slot(HEAP_AREA_END - 1) - Slot(HEAP_AREA_START) + 1
    IN  /\ 2 <= Slot(HEAP_AREA_START) /\ AreaSlots < Slot(HEAP_AREA_START)
        /\ \A n \in {AreaSlots, HeapSlots} :
              /\ PAGE_TABLE_AREA_START + n <= PAGE_TABLE_AREA_END
              /\ PAGE_TABLE_AREA_START + n <= 2 * TableSize
        /\ VGA <= PAGE_FRAME_AREA_END - PAGE_FRAME_AREA_START

VARIABLES
    page_directory,      \* the table of each directory slot, NONE if not present
    page_table,          \* the entries of each table
    page_frame_bitmap,   \* the indices of the frames in use
    page_table_bitmap,   \* the indices of the tables in use
    heap_current,        \* the top of the heap
    heap_mapped,         \* where the next heap page will be mapped
    paging,              \* enable_paging() has run
    pc,
    addr,                \* the loop variable of identity_map_range
    size,                \* the argument of the heap_allocate under way
    blocks,              \* history: what heap_allocate has returned
    hang                 \* why the kernel hung

maps   == <<page_directory, page_table, page_table_bitmap>>
heap   == <<heap_current, heap_mapped, size, blocks>>
vars   == <<maps, heap, page_frame_bitmap, paging, pc, addr, hang>>

EmptyTable == [i \in 0 .. TableSize - 1 |-> NONE]

Init ==
    /\ page_directory = [i \in 0 .. DirSize - 1 |-> NONE]
    /\ page_table = [t \in Tables |-> EmptyTable]    \* fresh RAM reads as zero
    /\ page_frame_bitmap = {}
    /\ page_table_bitmap = {}
    /\ heap_current = 0
    /\ heap_mapped = 0
    /\ paging = FALSE
    /\ pc = "boot"
    /\ addr = 0
    /\ size = 0
    /\ blocks = {}
    /\ hang = "none"

-----------------------------------------------------------------------------
(***************************************************************************)
(* Address translation: what the hardware does with a directory and tables.*)
(***************************************************************************)
Translate(dir, tables, v) ==
    LET t == dir[v \div TableSize] IN IF t = NONE THEN NONE ELSE tables[t][v % TableSize]

\* The physical page a pointer into page v reaches, paging on or off.
Physical(dir, tables, v) == IF paging THEN Translate(dir, tables, v) ELSE v

\* Both bitmaps are scanned word by word from the bottom: first fit.
LowestFree(bitmap, indices) ==
    CHOOSE i \in indices \ bitmap : \A j \in indices \ bitmap : i <= j

(***************************************************************************)
(* map_page(page_directory, v, p), with page_table_allocate: the directory,*)
(* the tables and the table bitmap after it, or why it does not return.    *)
(* A new table is not cleared.  A table is written through its physical    *)
(* address used as a pointer, "since page tables are identity mapped".     *)
(***************************************************************************)
map_page(v, p) ==
    LET slot == v \div TableSize
        absent == page_directory[slot] = NONE
        index == LowestFree(page_table_bitmap, TableIds)
        t == IF absent THEN PAGE_TABLE_AREA_START + index ELSE page_directory[slot]
        dir == [page_directory EXCEPT ![slot] = t]
        w == Physical(dir, page_table, t)
    IN  IF absent /\ TableIds \subseteq page_table_bitmap
        THEN [fails |-> "tables"]
        ELSE IF w = NONE
        THEN [fails |-> "fault"]
        ELSE [fails  |-> "none",
              dir    |-> dir,
              tables |-> IF w \in Tables
                         THEN [page_table EXCEPT ![w][v % TableSize] = p]
                         ELSE page_table,
              bitmap |-> IF absent THEN page_table_bitmap \cup {index} ELSE page_table_bitmap]

\* Zeroing the physical page w.  Only the contents of page tables are modelled;
\* HeapBacked shows that no heap page is one.
ZeroPage(tables, w) == IF w \in Tables THEN [tables EXCEPT ![w] = EmptyTable] ELSE tables

\* panic() and page_fault_handler never return.
Halt(why) == pc' = "halt" /\ hang' = why

\* One map_page of a loop or a function that then goes on at point next.
MapThen(v, p, next) ==
    LET m == map_page(v, p)
    IN  IF m.fails # "none"
        THEN Halt(m.fails) /\ UNCHANGED maps
        ELSE /\ page_directory' = m.dir
             /\ page_table' = m.tables
             /\ page_table_bitmap' = m.bitmap
             /\ pc' = next
             /\ UNCHANGED hang

-----------------------------------------------------------------------------
(***************************************************************************)
(* init_paging, up to the loop that identity maps the kernel.              *)
(***************************************************************************)
InitPaging_without_second ==
    /\ pc = "boot"
    /\ page_directory' = [i \in 0 .. DirSize - 1 |-> IF i = 0 THEN first_page_table ELSE NONE]
    /\ addr' = KERNEL_START
    /\ pc' = "map_kernel"
    /\ UNCHANGED <<page_table, page_table_bitmap, page_frame_bitmap, heap, paging, hang>>

InitPaging ==
    /\ pc = "boot"
    /\ page_directory' = [i \in 0 .. DirSize - 1 |->
                            CASE i = 0 -> first_page_table
                              [] i = 1 -> second_page_table
                              [] OTHER -> NONE]
    /\ addr' = KERNEL_START
    /\ pc' = "map_kernel"
    /\ UNCHANGED <<page_table, page_table_bitmap, page_frame_bitmap, heap, paging, hang>>

\* One round of identity_map_range(KERNEL_START, KERNEL_END).
MapKernel ==
    /\ pc = "map_kernel"
    /\ addr < KERNEL_END
    /\ MapThen(addr, addr, "map_kernel")
    /\ addr' = addr + 1
    /\ UNCHANGED <<page_frame_bitmap, heap, paging>>

\* init_page_frame_allocator; the page table allocator starts its mapping loop.
InitPageFrames ==
    /\ pc = "map_kernel"
    /\ addr >= KERNEL_END
    /\ page_frame_bitmap' = {}
    /\ addr' = PAGE_TABLE_AREA_START
    /\ pc' = "map_tables"
    /\ UNCHANGED <<maps, heap, paging, hang>>

\* One round of identity_map_range(PAGE_TABLE_AREA_START, PAGE_TABLE_AREA_END).
MapTables_same_address ==
    /\ pc = "map_tables"
    /\ addr < PAGE_TABLE_AREA_END
    /\ MapThen(addr, addr, "map_tables")
    /\ UNCHANGED <<addr, page_frame_bitmap, heap, paging>>

MapTables ==
    /\ pc = "map_tables"
    /\ addr < PAGE_TABLE_AREA_END
    /\ MapThen(addr, addr, "map_tables")
    /\ addr' = addr + 1
    /\ UNCHANGED <<page_frame_bitmap, heap, paging>>

(***************************************************************************)
(* The rest of init_page_table_allocator, which clears the bitmap although *)
(* the loop before it may have allocated a table, and init_heap_allocator. *)
(***************************************************************************)
ClearTableBitmap == page_table_bitmap' = {}

init_heap_allocator == heap_current' = HeapStart /\ heap_mapped' = HeapStart

InitAllocators ==
    /\ pc = "map_tables"
    /\ addr >= PAGE_TABLE_AREA_END
    /\ ClearTableBitmap
    /\ init_heap_allocator
    /\ pc' = "map_vga"
    /\ UNCHANGED <<page_directory, page_table, page_frame_bitmap, paging, addr, size, blocks, hang>>

\* The end of init_paging: the VGA buffer is mapped and paging enabled.
EnablePaging ==
    /\ pc = "map_vga"
    /\ MapThen(VGA, VGA, "run")
    /\ paging' = TRUE
    /\ UNCHANGED <<page_frame_bitmap, heap, addr>>

(***************************************************************************)
(* heap_allocate(s): the overflow check, the loop that maps pages on       *)
(* demand (page_frame_allocate), and the clearing and return of the block. *)
(***************************************************************************)
HeapAllocate_unchecked(s) ==
    /\ pc \in {"boot", "run"}
    /\ pc = "boot" => heap_current + s <= EarlyMax
    /\ pc' = "grow" /\ size' = s
    /\ UNCHANGED <<maps, page_frame_bitmap, heap_current, heap_mapped, blocks, paging, addr, hang>>

HeapAllocate(s) ==
    /\ pc \in {"boot", "run"}
    /\ pc = "boot" => heap_current + s <= EarlyMax
    /\ IF heap_current + s > HeapEnd
       THEN Halt("heap") /\ UNCHANGED size
       ELSE pc' = "grow" /\ size' = s /\ UNCHANGED hang
    /\ UNCHANGED <<maps, page_frame_bitmap, heap_current, heap_mapped, blocks, paging, addr>>

\* The condition of the while loop.
NeedsPage_one_late == heap_current + size > heap_mapped + 1

NeedsPage == heap_current + size > heap_mapped

\* The index page_frame_allocate takes is marked in the bitmap.
MarkFrame_forgotten(index) == page_frame_bitmap

MarkFrame(index) == page_frame_bitmap \cup {index}

Grow ==
    LET v == heap_mapped \div PAGE_SIZE
        index == LowestFree(page_frame_bitmap, Frames)
        m == map_page(v, PAGE_FRAME_AREA_START + index)
        w == Physical(m.dir, m.tables, v)
    IN  /\ pc = "grow"
        /\ NeedsPage
        /\ IF Frames \subseteq page_frame_bitmap
           THEN Halt("frames") /\ UNCHANGED <<maps, page_frame_bitmap, heap_mapped>>
           ELSE /\ page_frame_bitmap' = MarkFrame(index)
                /\ IF m.fails # "none"
                   THEN Halt(m.fails) /\ UNCHANGED <<maps, heap_mapped>>
                   ELSE /\ page_directory' = m.dir
                        /\ page_table_bitmap' = m.bitmap
                        /\ IF w = NONE
                           THEN /\ Halt("fault")
                                /\ page_table' = m.tables
                                /\ UNCHANGED heap_mapped
                           ELSE /\ page_table' = ZeroPage(m.tables, w)
                                /\ heap_mapped' = heap_mapped + PAGE_SIZE
                                /\ UNCHANGED <<pc, hang>>
        /\ UNCHANGED <<heap_current, size, blocks, paging, addr>>

\* The pages of the block [base, base + n).
PagesOf(base, n) == base \div PAGE_SIZE .. (base + n - 1) \div PAGE_SIZE

\* The top of the heap after the block is returned.
Bump_forgotten == heap_current

Bump == heap_current + size

HeapReturn ==
    /\ pc = "grow"
    /\ ~NeedsPage
    /\ IF \E v \in PagesOf(heap_current, size) : Physical(page_directory, page_table, v) = NONE
       THEN Halt("fault") /\ UNCHANGED heap
       ELSE /\ blocks' = blocks \cup {[base |-> heap_current, size |-> size, early |-> ~paging]}
            /\ heap_current' = Bump
            /\ size' = 0
            /\ pc' = IF paging THEN "run" ELSE "boot"
            /\ UNCHANGED <<heap_mapped, hang>>
    /\ UNCHANGED <<maps, page_frame_bitmap, paging, addr>>

\* The hung kernel spins.
Spin == pc = "halt" /\ UNCHANGED vars

Next ==
    \/ InitPaging \/ MapKernel \/ InitPageFrames \/ MapTables \/ InitAllocators \/ EnablePaging
    \/ \E s \in Sizes : HeapAllocate(s)
    \/ Grow \/ HeapReturn \/ Spin

\* The kernel's only thread executes these functions and goes on.
Spec == Init /\ [][Next]_vars /\ WF_vars(Next)

-----------------------------------------------------------------------------

\* The types of the page structures, the bitmaps and the heap pointers.
TypeOK ==
    /\ page_directory \in [0 .. DirSize - 1 -> Tables \cup {NONE}]
    /\ page_table \in [Tables -> [0 .. TableSize - 1 -> Page \cup {NONE}]]
    /\ page_frame_bitmap \subseteq Frames
    /\ page_table_bitmap \subseteq TableIds
    /\ heap_current \in 0 .. HeapEnd
    /\ heap_mapped \in 0 .. HeapEnd
    /\ paging \in BOOLEAN
    /\ pc \in {"boot", "map_kernel", "map_tables", "map_vga", "run", "grow", "halt"}
    /\ addr \in 0 .. PAGE_TABLE_AREA_END
    /\ size \in Sizes \cup {0}
    /\ blocks \subseteq [base : 0 .. HeapEnd, size : Sizes, early : BOOLEAN]
    /\ hang \in {"none", "heap", "frames", "tables", "fault"}

Mapped(v) == Translate(page_directory, page_table, v)

\* Mapped heap pages: [HEAP_AREA_START, heap_mapped).
HeapPages == {v \in HeapArea : v * PAGE_SIZE < heap_mapped}

\* No byte is handed out twice: the blocks of heap_allocate are disjoint, those
\* of the filesystem from before init_heap_allocator moved the heap included.
BlocksDisjoint ==
    \A a, b \in blocks : a # b => a.base + a.size <= b.base \/ b.base + b.size <= a.base

\* Once paging is on, every heap page up to heap_mapped is backed by a frame of
\* the frame area that no other heap page has and that the bitmap marks used,
\* although page tables are reused without being cleared.
HeapBacked ==
    paging =>
        /\ \A v \in HeapPages :
              Mapped(v) \in {PAGE_FRAME_AREA_START + i : i \in page_frame_bitmap}
        /\ \A v, w \in HeapPages : Mapped(v) = Mapped(w) => v = w

\* A block handed out under paging can be used to its last byte without a fault.
BlocksUsable ==
    paging => \A b \in blocks : ~b.early => PagesOf(b.base, b.size) \subseteq HeapPages

\* While paging is on, the kernel, the VGA buffer and every page table the
\* directory points to are identity mapped, so that map_page writes the table it
\* means to write: mapping heap pages never destroys the mapping that is used to
\* map them.
UsedTablesIdentityMapped ==
    paging => \A v \in Kernel \cup {VGA} \cup ({page_directory[i] : i \in DOMAIN page_directory} \ {NONE}) :
                 Mapped(v) = v

\* The heap limit is the only thing that stops the kernel: the allocators behind
\* heap_allocate never run out first, and no access faults.
OnlyHeapOverflows == hang \in {"none", "heap"}

\* Every call of heap_allocate returns or panics, and init_paging completes: the
\* loops of both end, with the page tables they build while they run.
CallsReturn == (pc \notin {"boot", "run", "halt"}) ~> (pc \in {"boot", "run", "halt"})

\* What memory.c says of the page table area: page tables are identity mapped.
TableAreaIdentityMapped == paging => \A v \in TableArea : Mapped(v) = v
=============================================================================
