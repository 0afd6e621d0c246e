----------------------------- MODULE HandoffStore -----------------------------
(***************************************************************************)
(* The handoff half of episko-server's store: the rows, the parts they     *)
(* hold, the machines paired, and the messages that move a row.            *)
(*                                                                         *)
(* Every operation is one SQLite transaction under the store's mutex, so   *)
(* each is one action.  What is not atomic is a message: the thread asks   *)
(* whether its device still has a token (shut_out) and only then runs the  *)
(* operation, while `revoke` runs in another process.  `admitted` holds    *)
(* the devices between the two.                                            *)
(*                                                                         *)
(* There is one workspace.  A part's bytes are "right" or "wrong": whether *)
(* they are those the offered sha256 was taken of.  Sizes count parts.     *)
(***************************************************************************)
EXTENDS Naturals, FiniteSets, FiniteSetsExt

CONSTANTS
    Ids,            \* the ids offers name
    Devices,        \* the machines that may ever be paired
    UserOf,         \* [Devices -> user]
    Nobody,         \* no taker yet
    AnyDevice,      \* an offer to whichever machine of the user takes it
    MaxParts,       \* cfg.max_bytes, in parts
    Ttl,            \* cfg.ttl_ms
    ClaimHold,      \* CLAIM_HOLD_MS
    Keep,           \* HANDOFF_KEEP_MS
    Stall,          \* UPLOAD_STALL_MS
    MaxOpenSent,    \* MAX_OPEN_SENT
    MaxPending,     \* MAX_PENDING_BYTES, or cfg.max_bytes if that is more; in parts
    MaxNow,         \* bound: the last instant
    MaySetBack      \* whether the server's clock may be set back

ASSUME HandoffStoreAssumption ==
    /\ Nobody \notin Devices /\ AnyDevice \notin Devices
    /\ MaxParts \in Nat \ {0}
    /\ {Ttl, ClaimHold, Keep, Stall, MaxNow} \subseteq Nat
    /\ {MaxOpenSent, MaxPending} \subseteq Nat
    /\ MaySetBack \in BOOLEAN

Users == {UserOf[d] : d \in Devices}
Parts == 1..MaxParts
Open == {"uploading", "offered", "claimed"}
Closed == {"done", "declined", "recalled", "expired"}

VARIABLES
    row,        \* the handoffs table: [Ids -> a row or NoRow]
    blob,       \* the handoff_parts table: [Ids -> [Parts -> content or "none"]]
    member,     \* the tokens table: each device is "new", "paired" or "revoked"
    admitted,   \* devices whose message passed shut_out and is about to run
    on,         \* cfg.handoff is Some
    now,        \* the server's clock
    late        \* history: ids offered or claimed for a device already revoked

vars == <<row, blob, member, admitted, on, now, late>>

NoRow == [state |-> "absent"]
Empty == [p \in Parts |-> "none"]

Is(id, states) == row[id].state \in states
Paired(d) == member[d] = "paired"
Held(id) == {p \in Parts : blob[id][p] # "none"}
Recipient(r, d) == r.toUser = UserOf[d] /\ r.from # d /\ r.toDevice \in {AnyDevice, d}

-----------------------------------------------------------------------------
Init ==
    /\ row = [id \in Ids |-> NoRow]
    /\ blob = [id \in Ids |-> Empty]
    /\ member = [d \in Devices |-> "new"]
    /\ admitted = {}
    /\ on \in BOOLEAN
    /\ now = 0
    /\ late = {}

\* The rows in S move to a terminal state and lose their parts, in one transaction.  The variant
\* leaves the parts to the sweep.
CloseKeepingParts(S, final) ==
    /\ row' = [id \in Ids |-> IF id \in S
                              THEN [row[id] EXCEPT !.state = final[id], !.updated = now] ELSE row[id]]
    /\ blob' = blob
Close(S, final) ==
    /\ row' = [id \in Ids |-> IF id \in S
                              THEN [row[id] EXCEPT !.state = final[id], !.updated = now] ELSE row[id]]
    /\ blob' = [id \in Ids |-> IF id \in S THEN Empty ELSE blob[id]]

-----------------------------------------------------------------------------
(* A message of a device's socket.                                          *)

\* `shut_out` finds the device's token: the message goes on to its handler.
Admit(d) ==
    /\ on /\ Paired(d) /\ d \notin admitted
    /\ admitted' = admitted \cup {d}
    /\ UNCHANGED <<row, blob, member, on, now, late>>

\* The handler ends with a refusal, or answers a repeat with what is already so.
Answer(d) ==
    /\ d \in admitted
    /\ admitted' = admitted \ {d}
    /\ UNCHANGED <<row, blob, member, on, now, late>>

Handling(d) ==
    /\ on /\ d \in admitted
    /\ admitted' = admitted \ {d}
    /\ UNCHANGED <<member, on, now>>

MarkLate(d, id) == late' = IF Paired(d) THEN late \ {id} ELSE late \cup {id}

OpenSent(u) == Cardinality({id \in Ids : Is(id, Open) /\ UserOf[row[id].from] = u})

\* What a waiting handoff counts against its recipient: a stalled upload, what it holds.
Reserves(id) ==
    IF Is(id, {"uploading"}) /\ row[id].updated + Stall <= now
    THEN Cardinality(Held(id)) ELSE row[id].parts
Pending(u) == MapThenSumSet(Reserves, {id \in Ids : Is(id, Open) /\ row[id].toUser = u})

HandoffOffer(d, id, u, t, n) ==
    /\ Handling(d)
    /\ Is(id, {"absent"})
    /\ \E x \in Devices : Paired(x) /\ UserOf[x] = u
    /\ t # AnyDevice => Paired(t) /\ UserOf[t] = u /\ t # d
    /\ OpenSent(UserOf[d]) < MaxOpenSent
    /\ Pending(u) + n <= MaxPending
    /\ now + Ttl <= MaxNow
    /\ row' = [row EXCEPT ![id] =
                  [state |-> "uploading", from |-> d, toUser |-> u, toDevice |-> t, parts |-> n,
                   taker |-> Nobody, expires |-> now + Ttl, updated |-> now]]
    /\ blob' = blob
    /\ MarkLate(d, id)

\* Still the sender's to fill.  The variant forgets that a sealed blob takes no more parts.
TakesPartsOnceSealed(d, id) == Is(id, Open) /\ row[id].from = d /\ row[id].expires > now
TakesParts(d, id) == Is(id, {"uploading"}) /\ row[id].from = d /\ row[id].expires > now

\* The last part in seals the blob, or empties it if it does not hash to what was offered.
HandoffPut(d, id, p, bytes) ==
    LET parts == [blob[id] EXCEPT ![p] = bytes]
        full == \A i \in 1..row[id].parts : parts[i] # "none"
        right == \A i \in 1..row[id].parts : parts[i] = "right"
    IN  /\ Handling(d)
        /\ TakesParts(d, id)
        /\ p <= row[id].parts
        /\ blob' = [blob EXCEPT ![id] = IF full /\ ~ right THEN Empty ELSE parts]
        /\ row' = [row EXCEPT ![id].updated = now,
                              ![id].state = IF full /\ right THEN "offered" ELSE @]
        /\ late' = late

\* The compare-and-set of a claim.  The variant only asks that the handoff is still open.
ClaimableWhileOpen(id) == Is(id, {"offered", "claimed"}) /\ row[id].expires > now
Claimable(id) == Is(id, {"offered"}) /\ row[id].expires > now

\* The row once claimed: held for at least ClaimHold.  The variant forgets who took it.
TakenBySomebody(id, d) == [row[id] EXCEPT !.state = "claimed", !.updated = now]
Taken(id, d) ==
    [row[id] EXCEPT !.state = "claimed", !.taker = d, !.updated = now,
                    !.expires = IF @ >= now + ClaimHold THEN @ ELSE now + ClaimHold]

HandoffClaim(d, id) ==
    /\ Handling(d)
    /\ Claimable(id)
    /\ Recipient(row[id], d)
    /\ now + ClaimHold <= MaxNow
    /\ row' = [row EXCEPT ![id] = Taken(id, d)]
    /\ blob' = blob
    /\ MarkLate(d, id)

\* The taker has every part, and says so while its claim lasts.
HandoffComplete(d, id) ==
    /\ Handling(d)
    /\ Is(id, {"claimed"}) /\ row[id].taker = d /\ row[id].expires > now
    /\ Close({id}, [i \in {id} |-> "done"])
    /\ late' = late

HandoffRecall(d, id) ==
    /\ Handling(d)
    /\ Is(id, {"uploading", "offered"}) /\ row[id].from = d
    /\ Close({id}, [i \in {id} |-> "recalled"])
    /\ late' = late

\* A recipient says no, or the taker gives it back.
HandoffDecline(d, id) ==
    /\ Handling(d)
    /\ \/ Is(id, {"offered"}) /\ Recipient(row[id], d)
       \/ Is(id, {"claimed"}) /\ row[id].taker = d
    /\ Close({id}, [i \in {id} |-> "declined"])
    /\ late' = late

-----------------------------------------------------------------------------
(* The server's own steps, and the admin's.                                 *)

\* What the sweep expires.  The variant forgets the claimed ones.
DueUnclaimed == {id \in Ids : Is(id, {"uploading", "offered"}) /\ row[id].expires <= now}
Due == {id \in Ids : Is(id, Open) /\ row[id].expires <= now}

\* Rows closed for longer than Keep: `closed` is the row's last update.
Stale == {id \in Ids : Is(id, Closed) /\ row[id].updated + Keep < now}

HandoffSweep ==
    /\ Due \cup Stale # {}
    /\ row' = [id \in Ids |-> CASE id \in Due   -> [row[id] EXCEPT !.state = "expired", !.updated = now]
                                [] id \in Stale -> NoRow
                                [] OTHER        -> row[id]]
    /\ blob' = [id \in Ids |-> IF id \in Due \/ row'[id] = NoRow THEN Empty ELSE blob[id]]
    /\ UNCHANGED <<member, admitted, on, now, late>>

\* What a server started with handoff off expires.  The variant leaves the claimed ones be.
OpenUnclaimed == {id \in Ids : Is(id, {"uploading", "offered"})}
OpenIds == {id \in Ids : Is(id, Open)}

\* The server starts again, with the switch on or off.
Restart ==
    /\ on' \in BOOLEAN
    /\ admitted' = {}
    /\ IF on' THEN UNCHANGED <<row, blob>> ELSE Close(OpenIds, [id \in OpenIds |-> "expired"])
    /\ UNCHANGED <<member, now, late>>

\* `mint` makes a new device id, never an old one.
Pair(d) ==
    /\ member[d] = "new"
    /\ member' = [member EXCEPT ![d] = "paired"]
    /\ UNCHANGED <<row, blob, admitted, on, now, late>>

\* What ends with a device.  The variant forgets the claims it holds.
SentOrNamed(d) == {id \in Ids : Is(id, {"uploading", "offered"}) /\ d \in {row[id].from, row[id].toDevice}}
NoneHeldBy(d) == {}
HeldBy(d) == {id \in Ids : Is(id, {"claimed"}) /\ row[id].taker = d}

\* Offers that wait for a user whose last machine this is.
Orphaned(d) ==
    IF \E x \in Devices \ {d} : Paired(x) /\ UserOf[x] = UserOf[d] THEN {}
    ELSE {id \in Ids : Is(id, {"uploading", "offered"}) /\ row[id].toUser = UserOf[d]}

\* `revoke`: the device's open handoffs end with its token, one transaction.
Revoke(d) ==
    LET ends == SentOrNamed(d) \cup HeldBy(d) \cup Orphaned(d)
    IN  /\ Paired(d)
        /\ member' = [member EXCEPT ![d] = "revoked"]
        /\ Close(ends, [id \in ends |-> IF id \in SentOrNamed(d) THEN "recalled" ELSE "expired"])
        /\ UNCHANGED <<admitted, on, now, late>>

\* The wall clock moves; it may be set back.
Tick ==
    /\ now' \in (IF MaySetBack THEN 0 ELSE now + 1)..MaxNow
    /\ now' # now
    /\ UNCHANGED <<row, blob, member, admitted, on, late>>

-----------------------------------------------------------------------------
Message(d) ==
    \/ \E id \in Ids, u \in Users, t \in Devices \cup {AnyDevice}, n \in Parts : HandoffOffer(d, id, u, t, n)
    \/ \E id \in Ids, p \in Parts, bytes \in {"right", "wrong"} : HandoffPut(d, id, p, bytes)
    \/ \E id \in Ids : HandoffClaim(d, id)
    \/ \E id \in Ids : HandoffComplete(d, id)
    \/ \E id \in Ids : HandoffRecall(d, id)
    \/ \E id \in Ids : HandoffDecline(d, id)

Next ==
    \/ \E d \in Devices : Admit(d) \/ Answer(d) \/ Message(d) \/ Pair(d) \/ Revoke(d)
    \/ HandoffSweep
    \/ Restart
    \/ Tick

Spec == Init /\ [][Next]_vars

\* The sweep's thread runs for as long as the server does; the clock goes on, set back finitely often.
FairSpec == Spec /\ WF_vars(HandoffSweep) /\ WF_vars(Tick /\ now' > now) /\ <>[][now' >= now]_vars

-----------------------------------------------------------------------------
Rows ==
    [state : Open \cup Closed, from : Devices, toUser : Users, toDevice : Devices \cup {AnyDevice},
     parts : Parts, taker : Devices \cup {Nobody}, expires : Nat, updated : Nat]

\* Every variable has its type, and a row names a taker from its claim on and never before.
TypeOK ==
    /\ row \in [Ids -> Rows \cup {NoRow}]
    /\ \A id \in Ids : /\ Is(id, {"uploading", "offered"}) => row[id].taker = Nobody
                       /\ Is(id, {"claimed", "done"}) => row[id].taker \in Devices
    /\ blob \in [Ids -> [Parts -> {"none", "right", "wrong"}]]
    /\ member \in [Devices -> {"new", "paired", "revoked"}]
    /\ admitted \subseteq Devices
    /\ on \in BOOLEAN
    /\ now \in Nat
    /\ late \subseteq Ids

\* Offered or claimed, the whole blob is held and is what was offered: a download that a live
\* claim starts never finds a part missing or changed, whatever the sender uploads or re-sends.
SealedStaysIntact ==
    \A id \in Ids : Is(id, {"offered", "claimed"}) =>
        \A p \in Parts : blob[id][p] = IF p <= row[id].parts THEN "right" ELSE "none"

\* "On entering a terminal state the server deletes the parts" (docs/handoff.md): whichever of the
\* eight ways a handoff ends, nothing of it is held afterwards, nor once its row is gone and its id
\* is offered again.
NothingOutlivesItsHandoff == \A id \in Ids : Held(id) # {} => Is(id, Open)

\* "nothing left open is claimed once the switch is on again" (docs/handoff.md): while it is off
\* there is nothing open, however the restarts and messages fell.
OffLeavesNothingOpen == ~ on => \A id \in Ids : ~ Is(id, Open)

\* Its machines have tokens: the sender of what waits, the one it is meant for, the taker of what is claimed.
HasItsMachines(id) ==
    /\ Is(id, {"uploading", "offered"}) => Paired(row[id].from)
    /\ Is(id, {"uploading", "offered"}) /\ row[id].toDevice # AnyDevice => Paired(row[id].toDevice)
    /\ Is(id, {"claimed"}) => Paired(row[id].taker)

\* Shutting a device out, "its open handoffs end with it" (store.rs:177).  So it is, but for
\* those a message admitted before the revoke began or took over after it.
EndsWithItsMachine == \A id \in Ids : HasItsMachines(id) \/ id \in late

\* The same without the exception, which is what store.rs says.
RevokedHoldsNothing == \A id \in Ids : HasItsMachines(id)

\* "256 MiB waiting per recipient" (store.rs:1040): what is held for one person stays within the
\* quota its offers were let in under.
HeldWithinQuota ==
    \A u \in Users :
        MapThenSumSet(LAMBDA id : Cardinality(Held(id)), {id \in Ids : Is(id, Open) /\ row[id].toUser = u})
            <= MaxPending

\* A handoff has one owner (HandoffOwnership): "the server decides ownership with a
\* compare-and-set" and once a machine is told it is done no other ever is, nor does the sender
\* get it back.
Own == INSTANCE HandoffOwnership WITH custody <-
    [id \in Ids |->
        [owner |-> IF Is(id, {"done"}) THEN row[id].taker ELSE Nobody,
         reserved |-> IF Is(id, Open \cup Closed) THEN row[id].taker ELSE Nobody,
         over |-> Is(id, Closed)]]
OneOwner == Own!Spec

\* Nothing waits for ever: what neither side settles, the sweep does, so a sender always learns
\* its outcome, claims extending the wait included.
EveryHandoffEnds == \A id \in Ids : Is(id, Open) ~> ~ Is(id, Open)
==============================================================================
