SPECIFICATION FairSpec
CONSTANTS
    Slots <- TwoSlots
    Sessions <- OneSession
    Txns <- OneTransaction
    MaxTroubles = 1
INVARIANT TypeOK
INVARIANT OneChain
INVARIANT SyncingShown
INVARIANT NeverLost
INVARIANT SentOnce
PROPERTY Synchronised
