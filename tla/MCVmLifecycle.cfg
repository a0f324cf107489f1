\* Two disks and two free slots; a guest that powers off leaves the VMM running.
SPECIFICATION FairSpec
CONSTANTS
    NDisks = 2
    NSlots = 2
    NoShutdown = TRUE
\* The VMM may exit.
CHECK_DEADLOCK FALSE
INVARIANTS
    ConfigIsCurrent
    EjectsWhatWasRemoved
PROPERTY
    EventIsHandled
