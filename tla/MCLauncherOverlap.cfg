\* Two tasks that overlap in every way, each with a binary of its own or without,
\* and the shutdown at any moment.
CONSTANTS
    MaxRuns = 2
    MaxBins = 2
    OtherErrors = FALSE
SPECIFICATION Spec
INVARIANTS
    LatestBinaryExists
    FlagIsLowered
    NoServerAfterReturnUnlessOvertaken
PROPERTY ImplementsRunner
\* The launcher returned, or it panicked.
CHECK_DEADLOCK FALSE
