\* Calls of two pieces, with a handler that logs at every point of the call.
SPECIFICATION Spec
CONSTANTS
    Calls <- AnyCall
    BUFFER = 25
    FIFO = 2
    HandlerMessages = {1, 2}
    MaxMessages = 2
INVARIANTS TypeOK PrintsParameters NothingLost
PROPERTIES LoggedGetsOut
