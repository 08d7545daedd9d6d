\* One tab and one connection: handlers share nothing but the sets of listeners.
\* Two changes of the app's or the compiler's error, two starts of the app and a
\* restart of Templier.  Two attempts stand for the twenty of the code.
CONSTANTS
    Clients = {t1}
    NumWatchers = 1
    Messages = {1}
    MaxRetries = 2
    Shapes <- MCShapes
    SpareCapacity = FALSE
    Conns = {c1}
    NoConn = NoConn
    Changing = {2, 3}
    MaxChanges = 2
    MaxVersions = 2
    MaxStops = 1
SPECIFICATION FairSpec
INVARIANTS
    ErrorPageTruthful
    
    ConnectedTabCurrent
PROPERTIES
    LoadsEnd
    LostTabReloads
    ListenersLeave
