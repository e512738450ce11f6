\* Blocks smaller and larger than a page until the heap overflows.
SPECIFICATION Spec
CONSTANTS
    PAGE_SIZE = 3
    TableSize = 4
    DirSize = 8
    KERNEL_START = 2
    KERNEL_END = 4
    PAGE_TABLE_AREA_START = 5
    PAGE_TABLE_AREA_END = 10
    PAGE_FRAME_AREA_START = 10
    PAGE_FRAME_AREA_END = 20
    HEAP_AREA_START = 20
    HEAP_AREA_END = 28
    VGA = 1
    first_page_table = 2
    second_page_table = 3
    Sizes = {2, 4, 7}
    EarlyMax = 3
    NONE = NONE
INVARIANTS TypeOK BlocksDisjoint HeapBacked BlocksUsable UsedTablesIdentityMapped OnlyHeapOverflows
PROPERTIES CallsReturn
