---------------------------- MODULE MCLongPollingLock ----------------------------
EXTENDS LongPollingLock

\* A view and the dialog above it.
TwoHandlers == {"view", "dialog"}
=============================================================================
