------------------------------ MODULE MCSyncLink ------------------------------
EXTENDS SyncLink, TLC

\* Every clock is right.
MCNoSkew == [d \in Devices |-> 0]
==============================================================================
