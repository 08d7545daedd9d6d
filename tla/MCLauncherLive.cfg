\* Two requests that overlap in every way, so that a task finds a server it has
\* to stop, and the shutdown at any moment.
CONSTANTS
    MaxRuns = 2
    MaxBins = 1
    OtherErrors = FALSE
SPECIFICATION FairSpec
PROPERTIES
    TasksEndUnlessOvertaken
    LauncherReturnsUnlessOvertaken
\* The launcher returned and the environment's bounds are used up.
CHECK_DEADLOCK FALSE
CONSTRAINT NotFulfilled
