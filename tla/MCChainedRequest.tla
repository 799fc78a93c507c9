--------------------------- MODULE MCChainedRequest ---------------------------
(* Instances of ChainedRequest for TLC: the POS user interface issues one       *)
(* request at a time; the offline sync timers are a second, independent source. *)
EXTENDS ChainedRequest

UI   == "ui"
Sync == "sync"

\* Only the user interface.
OneCaller == {UI}
AllUIKinds == [c \in OneCaller |-> Kind \ {"upload", "download"}]

\* The user interface and the sync timers.
TwoCallers == {UI, Sync}
SaleAndSync == [c \in TwoCallers |->
    IF c = UI THEN CartKind \cup {"openShift", "Token", "toggle"} ELSE {"upload", "download"}]
ShiftAndSync == [c \in TwoCallers |->
    IF c = UI THEN {"openShift", "closeShift", "StartSession", "toggle"} ELSE {"upload", "download"}]
=============================================================================
