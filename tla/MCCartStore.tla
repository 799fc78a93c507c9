----------------------------- MODULE MCCartStore -----------------------------
(* CartStore for TLC: two requests, two cards and cash, two terminals. *)
EXTENDS CartStore, TLC

CONSTANTS card1, card2, cash, request1, request2, terminal1, terminal2

TwoRequests   == {request1, request2}
TwoTerminals  == {terminal1, terminal2}
ThreePayments == {card1, card2, cash}
TwoCards      == {card1, card2}

Alike == Permutations(TwoCards) \cup Permutations(TwoRequests) \cup Permutations(TwoTerminals)

\* Once requests have overlapped, four row versions do; requests one after the other go on.
FewOverlapped == overlapped => versions <= 4
=============================================================================
