SPECIFICATION Spec
CONSTANTS
    Requests <- TwoRequests
    request1 = request1
    request2 = request2
    card1 = card1
    card2 = card2
    cash = cash
    Payments <- ThreePayments
    Cards <- TwoCards
    Terminals <- TwoTerminals
    terminal1 = terminal1
    terminal2 = terminal2
    NoTerminal = NoTerminal
    NoPayment = NoPayment
    MaxLines = 2
    MaxVersions = 7
    MaxFaults = 1
SYMMETRY Alike
CONSTRAINT FewOverlapped
INVARIANT TypeOK
INVARIANT CapturedOnce
INVARIANT PaymentsShown
INVARIANT OrderPaid
PROPERTY SavesKeepLines
CHECK_DEADLOCK FALSE
