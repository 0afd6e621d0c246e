------------------------------ MODULE MCSyncLog ------------------------------
EXTENDS SyncLog, TLC

CONSTANTS phone, laptop, desk

\* Two machines of one person and one of another.
MCUserOf == (phone :> "ann") @@ (laptop :> "ann") @@ (desk :> "bob")
==============================================================================
