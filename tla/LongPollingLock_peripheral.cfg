SPECIFICATION FairSpec
CONSTANTS
    Handlers <- TwoHandlers
    NoHandler = "none"
    MaxCalls = 4
    MaxTokens = 6
    MaxRestarts = 2
    MaxFailures = 1
INVARIANT TypeOK
INVARIANT OneReader
INVARIANT ReaderAlive
PROPERTY StackOfHandlers
PROPERTY RegainsLock
CHECK_DEADLOCK FALSE
