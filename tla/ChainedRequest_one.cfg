SPECIFICATION Spec
CONSTANTS
    OfflineModeDisabled = FALSE
    Faults = TRUE
    MaxLines = 1
    MaxCarts = 2
    MaxShifts = 2
    Callers <- OneCaller
    KindsOf <- AllUIKinds
INVARIANT TypeOK
INVARIANT ConnectedStoreHoldsSession
INVARIANT SoldOnce
INVARIANT ShiftKnown
PROPERTY CartNeverRollsBack
