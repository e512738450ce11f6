\* Five tasks, four of which terminate after 0 to 2 rounds in every combination;
\* ticks at every point of a switch, up to the largest value of the counter.
SPECIFICATION Spec
CONSTANTS
    NTasks = 5
    Loops = {0}
    Rounds <- AnyRounds
    WordMod = 4
    MaxTicks = 3
    NULL = NULL
INVARIANTS TypeOK ReadyListExact NoPanic StacksMatchTasks TimeConserved
PROPERTIES TerminatedForever ImplementsRoundRobin StarvationFree FiniteTasksTerminate
