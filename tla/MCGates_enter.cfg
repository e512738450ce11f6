\* Every vector, from two states of the CPU.
SPECIFICATION Spec
CONSTANTS
    StubAt <- Linked
    Interrupted <- States
INVARIANTS ContextMatches InterruptedResumes EntersKernel
