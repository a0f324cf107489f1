\* Command timeouts, a failed installation or thread creation, a second mirror; progress.
CONSTANTS
    NQueues = 2
    NBlocks = 1
    NReqs = 1
    MaxMirrors = 2
    MaxCalls = 2
    MaxFaults = 2
    Faults = {"timeout", "install", "spawn"}
SPECIFICATION FairSpec
INVARIANTS
    NoWriteLost
    OneServingDisk
    CancelReleasesDestination
PROPERTIES
    PostedIsSubmitted
    CallsReturn
