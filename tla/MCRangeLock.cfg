\* Three threads, addresses 0 .. 5 as the u64 range.
CONSTANTS
    Parties = {copy, q1, q2}
    MaxU64 = 5
SPECIFICATION LockSpec
INVARIANTS
    Exclusion
    NoLostWakeup
PROPERTIES
    ImplementsExclusion
