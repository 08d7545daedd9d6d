\* The shutdown passes a task that is about to start the server.
CONSTANTS
    MaxRuns = 2
    MaxBins = 1
    OtherErrors = FALSE
SPECIFICATION Spec
INVARIANT NoServerAfterReturn
CHECK_DEADLOCK FALSE
