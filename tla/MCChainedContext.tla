---------------------------- MODULE MCChainedContext ----------------------------
EXTENDS ChainedContext

OneCaller == {"app"}

AllKinds == [c \in OneCaller |-> Kind]
=============================================================================
