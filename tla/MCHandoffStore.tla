---------------------------- MODULE MCHandoffStore ----------------------------
EXTENDS HandoffStore, TLC

CONSTANTS phone, laptop, desk

\* Two machines of one person and one of another.
MCUserOf == (phone :> "ann") @@ (laptop :> "ann") @@ (desk :> "bob")
==============================================================================
