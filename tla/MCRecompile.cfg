\* Five triggers: before the tick, after it, between the tick and the lock, while
\* the function runs and after the context is done.  Each may start a build; the
\* shortest history in which a stale clean-up can hide a running build from the
\* next call needs three.
CONSTANTS
    MaxTriggers = 5
    MaxRuns = 5
SPECIFICATION RecompileSpec
INVARIANTS
    AtMostOneLive
    LastTriggerBuilds
PROPERTIES
    RunsInOrder
    LastTriggerRuns
    SupersededLeaves
\* No trigger is left: the bounded instance stops.
CHECK_DEADLOCK FALSE
