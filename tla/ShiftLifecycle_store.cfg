SPECIFICATION Spec
CONSTANTS
    Terminals <- TwoTerminals
    NoTerminal = "no terminal"
    Staff <- TwoStaff
    NoStaff = "no staff"
    Permissions <- StorePermissions
    Drawers <- TwoDrawers
    Ids = {1, 2}
    MaxCalls = 4
    MaxFaults <- SerialRetry
INVARIANT TypeOK
INVARIANT UsersWhileOpen
INVARIANT DrawerExclusive
INVARIANT ClosedForGood
PROPERTY StatusMoves
CHECK_DEADLOCK FALSE
