SPECIFICATION FairSpec
CONSTANTS
    Slots <- TwoSlots
    Sessions = {}
    Txns = {}
    MaxTroubles = 1
PROPERTY SyncResumes
