\* Two watchers that require different actions and may be triggered together; two
\* events, so that the second meets what the first left behind; an error of templ
\* that is cleared, or signals of templ that meet a full channel.
CONSTANTS
    restarter = restarter
    rebuilder = rebuilder
    Watchers = {restarter, rebuilder}
    Requires <- MCRequires
    FailOnErr = {restarter}
    ChangeCap = 1
    MaxEvents = 2
    MaxTemplLines = 2
SPECIFICATION FairSpec
INVARIANTS
    StrongestActionChosen
    NoLeftoverCommand
PROPERTIES
    EventsHandled
    RequiredActionTaken
\* A cancelled handler may wait forever: see MCFindHandler.cfg.
CHECK_DEADLOCK FALSE
