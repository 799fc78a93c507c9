------------------------------ MODULE HandlerStack ------------------------------
(***************************************************************************)
(* What a long-polling peripheral promises the views of the point of sale:  *)
(* enabling and disabling calls take effect one at a time, in the order they *)
(* were made, on a stack of data handlers.  Only the call that finds the     *)
(* stack empty needs the hardware station and may fail.                      *)
(***************************************************************************)
EXTENDS Naturals, Sequences

CONSTANTS Handlers, NoHandler

VARIABLES
    calls,  \* made and not yet settled
    stack   \* the top handler receives the data

PeripheralCall == [kind : {"lock"}, handler : Handlers]
                      \cup [kind : {"unlock"}, handler : {NoHandler}]

Init == calls = <<>> /\ stack = <<>>

Ask(c) == calls' = Append(calls, c) /\ UNCHANGED stack

Settle ==
    /\ calls # <<>>
    /\ calls' = Tail(calls)
    /\ LET c == Head(calls) IN
        \/ /\ c.kind = "lock"
           /\ stack' = Append(stack, c.handler)
        \/ /\ c.kind = "unlock" /\ stack # <<>>
           /\ stack' = SubSeq(stack, 1, Len(stack) - 1)
        \/ stack = <<>> /\ UNCHANGED stack

Next == (\E c \in PeripheralCall : Ask(c)) \/ Settle

Spec == Init /\ [][Next]_<<calls, stack>>
=============================================================================
