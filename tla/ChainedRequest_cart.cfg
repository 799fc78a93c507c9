SPECIFICATION Spec
CONSTANTS
    OfflineModeDisabled = FALSE
    Faults = FALSE
    MaxLines = 2
    MaxCarts = 1
    MaxShifts = 1
    Callers <- TwoCallers
    KindsOf <- SaleAndSync
PROPERTY NoOnlineSwitchWithCart
