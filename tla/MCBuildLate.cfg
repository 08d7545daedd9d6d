\* Two edits, all schedules of the builds without errors from elsewhere.
CONSTANTS
    MaxVersions = 3
    MaxBuilds = 2
    Hazards = {}
SPECIFICATION FairSpec
INVARIANTS
    LastEditCompiled
PROPERTIES
    ImplementsRunner
    EditSettles
\* The bounds are used up.
CHECK_DEADLOCK FALSE
