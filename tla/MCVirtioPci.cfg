\* Three vCPUs, the queues set up three times.
SPECIFICATION FairSpec
CONSTANTS
    NVcpus = 3
    MaxInits = 3
\* An activator that is alone at the barrier stops the control loop.
CHECK_DEADLOCK FALSE
INVARIANTS
    ServesTheDriver
    PausedIsActivated
PROPERTY
    DriverIsServed
