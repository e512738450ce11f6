\* The same accounting when the counter wraps around.
SPECIFICATION Spec
CONSTANTS
    NTasks = 3
    Loops = {0, 2}
    Rounds <- CodeRounds
    WordMod = 6
    MaxTicks = 6
    NULL = NULL
INVARIANTS TimeConserved
