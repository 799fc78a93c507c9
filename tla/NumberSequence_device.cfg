SPECIFICATION Spec
CONSTANTS
    MaxRows = 4
    MaxNumber = 5
    MaxReceipts = 3
CHECK_DEADLOCK FALSE
INVARIANT TypeOK
INVARIANT NumbersUnique
INVARIANT ReceiptsUnique
