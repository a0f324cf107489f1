\* Two attempts with every mode.
CONSTANTS
    Pages = {p1}
    Disks = {d1}
    Modes = {"Precopy", "Postcopy", "MemFDs"}
    MayPreserve = TRUE
    MaxAttempts = 2
    MaxIterations = 2
SPECIFICATION FairSpec
\* Both VMMs may have exited.
CHECK_DEADLOCK FALSE
INVARIANTS
    AtMostOneRunning
    NotLost
    MemoryIsComplete
    RunsWithItsLocks
PROPERTIES
    MigrationEnds
    EventIsHandled
