SPECIFICATION Spec
CONSTANTS
    Terminals <- TwoTerminals
    NoTerminal = "no terminal"
    Staff <- TwoStaff
    NoStaff = "no staff"
    Permissions <- StorePermissions
    Drawers <- TwoDrawers
    Ids = {1}
    MaxCalls = 4
    MaxFaults <- SerialRetry
INVARIANT OneTerminalAlways
CHECK_DEADLOCK FALSE
