--------------------------- MODULE HandoffOwnership ---------------------------
(***************************************************************************)
(* What the server promises about a handed-off conversation: it has one    *)
(* owner.  The sender owns it until a machine that reserved it says it has *)
(* it; then that machine owns it and the sender never does again.  A       *)
(* handoff that ends without that gives the conversation back for good.    *)
(***************************************************************************)
CONSTANTS
    Ids,        \* the handoffs
    Devices,    \* the machines
    Nobody      \* not a machine

VARIABLE custody    \* [Ids -> [owner, reserved, over]], owner Nobody while it is the sender's

Fresh == [owner |-> Nobody, reserved |-> Nobody, over |-> FALSE]

Init == custody = [id \in Ids |-> Fresh]

\* One machine gets the right to take it over.
Reserve(k, l) ==
    /\ ~ k.over /\ k.reserved = Nobody
    /\ \E d \in Devices : l = [owner |-> Nobody, reserved |-> d, over |-> FALSE]

\* The machine with that right, and no other, becomes the owner.
HandOver(k, l) ==
    /\ ~ k.over /\ k.reserved # Nobody
    /\ l = [owner |-> k.reserved, reserved |-> k.reserved, over |-> TRUE]

\* It stays the sender's, for good.
GiveBack(k, l) == ~ k.over /\ l = [owner |-> Nobody, reserved |-> k.reserved, over |-> TRUE]

\* The server forgets a handoff that is over, and its id may be used again.
Forget(k, l) == k.over /\ l = Fresh

\* A sweep, a revoked machine or the switch may settle several at once.
Next ==
    /\ custody' \in [Ids -> [owner : Devices \cup {Nobody}, reserved : Devices \cup {Nobody}, over : BOOLEAN]]
    /\ \A id \in Ids :
           LET k == custody[id]
               l == custody'[id]
           IN  l = k \/ Reserve(k, l) \/ HandOver(k, l) \/ GiveBack(k, l) \/ Forget(k, l)

Spec == Init /\ [][Next]_custody
==============================================================================
