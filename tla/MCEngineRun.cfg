SPECIFICATION FairSpec
CONSTANT
    Graceful = {TRUE, FALSE}
CHECK_DEADLOCK FALSE
INVARIANT
    FatalErrorReturned
    
    ProductionOutput
PROPERTY
    EngineReturns
