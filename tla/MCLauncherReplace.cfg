\* Three requests, two of them with a binary.  The first task starts the first
\* server; the other two overlap in every way while they replace it.
\* An error of another source may refuse the second.
CONSTANTS
    MaxRuns = 3
    MaxBins = 2
    OtherErrors = TRUE
SPECIFICATION Spec
CONSTRAINTS
    FirstAlone
    ErrorsRepaired
INVARIANTS
    SingleServerUnlessOvertaken
    RemovedAfterStopUnlessOvertaken
    NewestServerKeptUnlessOvertaken
    SettledServerIsLatestUnlessOvertaken
    NoPanicUnlessOvertaken
\* The environment's bounds are used up, or the program panicked.
CHECK_DEADLOCK FALSE
