SPECIFICATION FairSpec
CONSTANTS
    LostResponses = TRUE
    MaxCarts = 2
    MaxShifts = 2
    InitialState = "OnlineOnly"
    Callers <- OneCaller
    KindsOf <- AllKinds
INVARIANT TypeOK
INVARIANT ShiftKnown
PROPERTY ForcedStaysOffline
PROPERTY OnlineWithoutCart
PROPERTY ReturnsOnline
