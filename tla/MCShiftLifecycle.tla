---------------------------- MODULE MCShiftLifecycle ----------------------------
EXTENDS ShiftLifecycle

TwoTerminals == {"t1", "t2"}
TwoStaff     == {"manager", "cashier"}
TwoDrawers   == {"", "drawer"}   \* a terminal without and one with a cash drawer

\* A manager, and a cashier who may use a colleague's shift but not sign on twice.
StorePermissions ==
    [u \in TwoStaff |-> IF u = "manager" THEN {"manager"}
                        ELSE {"manageSharedShift", "multipleShiftLogOn"}]

\* A procedure is retried where requests do not overlap.
SerialRetry == [overlap \in BOOLEAN |-> IF overlap THEN 0 ELSE 1]
=============================================================================
