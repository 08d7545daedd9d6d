\* A shutdown while a watcher's function is pending: the handler waits for ever.
CONSTANTS
    restarter = restarter
    rebuilder = rebuilder
    Watchers = {restarter, rebuilder}
    Requires <- MCRequires
    FailOnErr = {restarter}
    ChangeCap = 1
    MaxEvents = 1
    MaxTemplLines = 0
SPECIFICATION FairSpec
PROPERTY HandlerReturns
CHECK_DEADLOCK FALSE
