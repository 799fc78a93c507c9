-------------------------- MODULE MCOperationsManager --------------------------
(* OperationsManager for TLC: closing a shift runs two more operations; of two       *)
(* employees one may do everything and one nothing; two operations may overlap.      *)
EXTENDS OperationsManager, TLC

FewKinds   == {"CloseShift", "PrintZ", "LogOff", "ChangePassword"}
FewNests   == [k \in FewKinds |-> IF k = "CloseShift" THEN {"PrintZ", "LogOff"} ELSE {}]
Exempt     == {"CloseShift", "PrintZ"}
Own        == {"ChangePassword"}
Free       == {"LogOff"}
TwoStaff   == {"anna", "mia"}
FewGrants  == [e \in TwoStaff |-> IF e = "mia" THEN FewKinds ELSE {}]
CONSTANTS lane1, lane2
TwoLanes   == {lane1, lane2}
Alike      == Permutations(TwoLanes)
=============================================================================
