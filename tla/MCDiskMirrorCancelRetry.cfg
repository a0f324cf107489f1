\* A revert that times out, a retry of the cancellation whose drain fails, then an error of the destination.
CONSTANTS
    NQueues = 1
    NBlocks = 1
    NReqs = 1
    MaxMirrors = 1
    MaxCalls = 2
    MaxFaults = 2
    Faults = {"timeout", "destination"}
SPECIFICATION Spec
INVARIANTS
    NoInvalidTransition
