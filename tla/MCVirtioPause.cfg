\* Three workers, one of which may end with an error; pause at any time.
CONSTANTS
    Workers = {w1, w2, w3}
    Api = api
    MayFail = {w1}
SPECIFICATION FairPauseSpec
\* pause waits forever for a worker that parked early or has exited.
CHECK_DEADLOCK FALSE
INVARIANTS PausedIsQuiet
PROPERTIES SettledPauseReturns ResetReturns ResumedQueuesRun
