SPECIFICATION FairSpec
CONSTANTS
    Dirs <- MCDirs
    Files <- MCFiles
    Contents = {1, 2}
    Patterns <- MCPatterns
    AddDirs <- MCAddDirs
    NamePrefixes <- NoPrefixes
    MaxOps = 3
    MaxCalls = 2
CHECK_DEADLOCK FALSE
INVARIANT
    NoticedDirsWatched
    WatchesAgree
    ChangesReported
PROPERTY
    NoRepeat
    RunReturns
