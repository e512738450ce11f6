\* From every boot information: both SHIFT keys, a letter, the Enter of the keypad and Escape,
\* with the timer, another device and page faults.
SPECIFICATION InputSpec
CONSTANTS
    Devices = {12}
    BootInfos <- AnyBootInfo
    KERNEL_END = 2
    Faults = {14}
    Burst = 2
    Keys = {42, 54, 30, 284, 1}
    Repeating = {30}
    MaxCodes = 2
    MaxTyped = 2
INVARIANTS
    InputTypeOK ServiceEnds OnlyForeignLinesHang RequestsCountedOnce
    TypedAsHeld ShiftFollowsKeys InterruptHasCode
PROPERTIES BootCompletes EveryKeyPrinted
