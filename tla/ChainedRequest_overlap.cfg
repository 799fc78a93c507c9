SPECIFICATION FairSpec
CONSTANTS
    OfflineModeDisabled = FALSE
    Faults = TRUE
    MaxLines = 0
    MaxCarts = 1
    MaxShifts = 2
    Callers <- TwoCallers
    KindsOf <- ShiftAndSync
PROPERTY ShiftLostOnlyByStaleDelete
PROPERTY BackOnline
