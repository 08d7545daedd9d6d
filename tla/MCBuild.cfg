\* Two edits while errors of templ, of a watcher and of the app come and go; all
\* schedules up to the cancellation of the context.
CONSTANTS
    MaxVersions = 3
    MaxBuilds = 2
    Hazards = {"other"}
SPECIFICATION Spec
CONSTRAINT NotCancelled
INVARIANTS
    ServedIsCurrentUnlessOutrun
    
\* The bounds are used up.
CHECK_DEADLOCK FALSE
