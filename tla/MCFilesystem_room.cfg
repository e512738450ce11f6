\* The local buffer is smaller than a file may be (100 and 256 bytes).
SPECIFICATION Spec
CONSTANTS
    Byte = {1, 2}
    DEFAULT_FILE_SIZE = 3
    TestRoom = 2
    TestData <- Hello
    Ramdisks <- AllRamdisks
    ClientNodes = {}
    MaxSize = 4
    LongestFile = 4
    MostFiles = 2
INVARIANTS ReadFitsBuffer
