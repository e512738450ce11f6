\* Only timer_callback prints, a line each second.
SPECIFICATION Spec
CONSTANTS
    VGA_WIDTH = 4
    VGA_HEIGHT = 2
    Mapped = 10
    TaskTexts = {}
    HandlerTexts <- Seconds
    MaxPrinted = 4
    MaxNewlines = 4
    MaxInterrupts = 4
INVARIANTS NoPageFault
