\* Two vCPUs, the second of which can be unplugged; vCPU 0 ejects.
CONSTANTS
    MaxVcpus = 2
    BootVcpus = 2
    Ejectors = {0}
    MaxThrottle = 1
    MaxRare = 2
SPECIFICATION FairSpec
\* A jam of an eject with a pause, and a panic of the owner, stop everything.
CHECK_DEADLOCK FALSE
INVARIANTS PausedMeansParked NotLeftPaused
PROPERTIES OwnerReturns
