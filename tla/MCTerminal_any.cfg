\* Tasks and handlers that print everything, over several lines; long enough for the
\* screen to wrap around.
SPECIFICATION Spec
CONSTANTS
    VGA_WIDTH = 4
    VGA_HEIGHT = 2
    Mapped = 10
    TaskTexts <- Lines
    HandlerTexts <- AnyHandler
    MaxPrinted = 9
    MaxNewlines = 3
    MaxInterrupts = 2
INVARIANTS LossBounded RingOfLastCharacters
