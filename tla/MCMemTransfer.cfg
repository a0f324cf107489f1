\* Two pages over two additional connections, one fault anywhere.
SPECIFICATION FairSpec
CONSTANTS
    NPages = 2
    Connections = 2
    Slots = 1
    MaxRounds = 2
    MaxWrites = 1
    MaxFaults = 1
\* The migration ends.
CHECK_DEADLOCK FALSE
INVARIANTS
    IterationIsComplete
    DestinationIsEqual
PROPERTY
    TransferEnds
