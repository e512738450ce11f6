\* A SHIFT key that repeats.
SPECIFICATION KSpec
CONSTANTS
    Keys = {42, 30}
    Repeating = {42}
    MaxCodes = 3
    MaxTyped = 2
INVARIANTS ShiftFollowsKeys
