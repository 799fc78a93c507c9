---------------------------- MODULE MCOfflineSync ----------------------------
(* OfflineSync for TLC: two runs of a loop may overlap, one session and one     *)
(* transaction go through them.                                                 *)
EXTENDS OfflineSync

TwoSlots       == {1, 2}
OneSession     == {"session"}
OneTransaction == {"transaction"}
=============================================================================
