\* Two devices with one vector each, two messages; any vector may find its GSI taken.
SPECIFICATION Spec
CONSTANTS
    NDevices = 2
    NVectors = 1
    NGsis = 2
    Msgs = {a1, a2}
    NoMsg = none
INVARIANTS
    DeliversWhereProgrammed
    RegisteredIsRouted
    NoInterruptIsLost
