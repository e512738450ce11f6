\* Every small ramdisk, files larger than a buffer or than a file included; then
\* any calls on the root directory and on the first file.
SPECIFICATION Spec
CONSTANTS
    Byte = {1, 2}
    DEFAULT_FILE_SIZE = 3
    TestRoom = 2
    TestData <- Hello
    Ramdisks <- AllRamdisks
    ClientNodes = {1, 2}
    MaxSize = 4
    LongestFile = 4
    MostFiles = 2
INVARIANTS TypeOK RootMatchesRamdisk ReadBackWhole NoHoles
PROPERTIES BootCompletes ImplementsFileStore
