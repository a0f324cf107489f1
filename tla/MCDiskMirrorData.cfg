\* I/O errors on either disk and in the copy worker, a backend that cannot be created, while a mirror is started, completed, cancelled, reset and dropped.
CONSTANTS
    NQueues = 2
    NBlocks = 2
    NReqs = 2
    MaxMirrors = 1
    MaxCalls = 1
    MaxFaults = 1
    Faults = {"source", "destination", "copy", "backend"}
SPECIFICATION Spec
INVARIANTS
    ReadyInSync
    NoWriteLost
    NoInvalidTransition
