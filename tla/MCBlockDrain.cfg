\* A queue of two descriptors with a rate limiter and one of one; a disk mirror
\* sends commands to both.
CONSTANTS
    q1 = q1
    q2 = q2
    Queues = {q1, q2}
    QueueSize <- MCQueueSize
    Limited = {q1}
    Mirrored = {q1, q2}
    Faults = {"pause", "request", "worker"}
SPECIFICATION Spec
\* A pause waits for ever for a worker that ended.
CHECK_DEADLOCK FALSE
INVARIANTS CountIsExact PausedIsDrained PausedImageIsSynced 
