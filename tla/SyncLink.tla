------------------------------- MODULE SyncLink -------------------------------
(***************************************************************************)
(* The preferences of one person's machines: what each machine owes the    *)
(* server (the outbox of synclink.ts), how the log merges back into each   *)
(* (last writer wins), and what the server's compaction leaves of the log. *)
(*                                                                         *)
(* How an event reaches a machine is SyncLog's; here a machine is given    *)
(* the log from its cursor on, in order.  A pushed event is its key, its   *)
(* value, the time the machine stamped it with and the machine.  What is   *)
(* in a preference is a model value; `Unset` is the key removed.           *)
(***************************************************************************)
EXTENDS Naturals, Sequences, FiniteSets

CONSTANTS
    Devices,        \* the machines, as numbers: a tie goes to the larger id
    Keys,           \* the preferences
    Values,         \* what a preference may be set to
    Unset,          \* the key is not in localStorage
    Nothing,        \* no value waits for review
    Chunk,          \* the events one push takes
    ClocksAgree,    \* whether a machine's clock is past every stamp it holds when a setting is edited
    SkewOf,         \* [Devices -> Nat]: how far ahead each clock is
    MaxNow,         \* bound: the time
    MaxLog,         \* bound: events ever appended
    MaxPushes,      \* bound: pushes of one machine awaiting an answer
    MaxActs,        \* bound: what the person does at any of the machines
    MaxFaults       \* bound: connections lost and pushes refused

ASSUME SyncLinkAssumption ==
    /\ Devices # {} /\ Devices \subseteq Nat \ {0}
    /\ {Unset, Nothing} \cap Values = {} /\ Unset # Nothing
    /\ Chunk \in Nat \ {0}
    /\ ClocksAgree \in BOOLEAN
    /\ SkewOf \in [Devices -> Nat]
    /\ {MaxNow, MaxLog, MaxPushes, MaxActs, MaxFaults} \subseteq Nat

VARIABLES
    \* the server
    log,        \* the events, in seq order
    dropped,    \* the seqs compaction deleted
    strays,     \* pushes of dead connections the server may still read
    \* each machine: what localStorage and the sync config keep
    value,      \* the setting in force
    stamp,      \* cc-sync-stamps: the last write agreed to, whoever made it
    dirty,      \* cc-sync-dirty: what is owed
    waiting,    \* cc-sync-pending: another machine's value, held for a yes
    kept,       \* cc-sync-exclude: settings kept to this machine
    seed,       \* cc-sync-seed: what a new machine offers if the server has nothing
    cursor,     \* the last seq acked
    \* each machine: its connection
    link,       \* "unpaired", "down" or "up"
    head,       \* the server's last seq when the connection was made, where there is a seed to offer
    inflight,   \* pushes without an answer, oldest first
    now,        \* the time, which only an edit reads
    \* history: the settings a machine's user chose to have differ, those an offer stamped anew
    \* over an edit, and the bounds' counters
    own,
    undercut,
    acts,
    faults

server == <<log, dropped, strays>>
book == <<value, stamp, dirty, waiting, kept, seed>>
vars == <<server, book, cursor, link, head, inflight, now, own, undercut, acts, faults>>

bounds == <<acts, faults>>

NoStamp == [at |-> 0, device |-> 0]
Seqs == 1..Len(log)
Present == Seqs \ dropped

\* The time starts at 2, past the oldest stamp there is.
Oldest == 1

\* Newer wins, and a tie goes to the larger device.  The variant leaves a tie to whoever comes last.
WinsOnTie(e, held) == e.at >= held.at
Wins(e, held) == e.at > held.at \/ (e.at = held.at /\ e.device > held.device)

-----------------------------------------------------------------------------
Init ==
    /\ log = << >> /\ dropped = {} /\ strays = {}
    /\ value \in [Devices -> [Keys -> Values \cup {Unset}]]
    /\ stamp = [d \in Devices |-> [k \in Keys |-> NoStamp]]
    /\ dirty = [d \in Devices |-> {}]
    /\ waiting = [d \in Devices |-> [k \in Keys |-> Nothing]]
    /\ kept = [d \in Devices |-> {}]
    /\ seed = [d \in Devices |-> {}]
    /\ cursor = [d \in Devices |-> 0]
    /\ link = [d \in Devices |-> "unpaired"]
    /\ head = [d \in Devices |-> 0]
    /\ inflight = [d \in Devices |-> << >>]
    /\ now = 2
    /\ own = [d \in Devices |-> {}] /\ undercut = {}
    /\ acts = 0 /\ faults = 0

-----------------------------------------------------------------------------
(* The outbox.                                                              *)

\* The ways a set of owed keys is cut into pushes.
Cuts(S) ==
    LET n == (Cardinality(S) + Chunk - 1) \div Chunk
    IN  {q \in [1..n -> SUBSET S] :
            /\ UNION {q[i] : i \in 1..n} = S
            /\ \A i \in 1..n : Cardinality(q[i]) = IF i < n THEN Chunk ELSE Cardinality(S) - (n - 1) * Chunk}

\* What the answer to push i of a flush settles: all of the flush, credited to its first push.
Credit(i, S, st) == IF i = 1 THEN {[key |-> k, at |-> st[k].at] : k \in S} ELSE {}

\* The pushes of one flush: events by key, and what an answer settles.
PushesOf(cut, S, val, st) ==
    [i \in DOMAIN cut |->
        [events |-> [k \in cut[i] |-> [value |-> val[k], at |-> st[k].at]],
         owed   |-> Credit(i, S, st),
         state  |-> "sent"]]

\* `flush` of what is owed, behind the pushes already awaiting an answer.
Flushes(before, S, val, st) ==
    {before \o PushesOf(cut, S, val, st) :
        cut \in {q \in Cuts(S) : Len(before) + Len(q) <= MaxPushes}}

\* The two-second timer of a write, or the tick that sends what is still owed.
Flush(d) ==
    /\ link[d] = "up"
    /\ dirty[d] # {}
    /\ \E pushes \in Flushes(inflight[d], dirty[d], value[d], stamp[d]) :
           inflight' = [inflight EXCEPT ![d] = pushes]
    /\ UNCHANGED <<server, book, cursor, link, head, now, own, undercut, bounds>>

\* An answered push clears what it settled, unless its stamp has moved on.
\* The variant clears a key edited again in the meantime.
SettledWhatever(d, push) == {o.key : o \in push.owed}
Settled(d, push) == {o.key : o \in {x \in push.owed : stamp[d][x.key].at = x.at}}

\* `pushed` and `pushFailed`: answers come in the order of the pushes.
Answered(d) ==
    LET push == Head(inflight[d])
    IN  /\ link[d] = "up"
        /\ inflight[d] # << >>
        /\ push.state # "sent"
        /\ inflight' = [inflight EXCEPT ![d] = Tail(@)]
        /\ dirty' = [dirty EXCEPT ![d] = IF push.state = "taken" THEN @ \ Settled(d, push) ELSE @]
        /\ UNCHANGED <<server, value, stamp, waiting, kept, seed, cursor, link, head, now, own, undercut, bounds>>

-----------------------------------------------------------------------------
(* The server.                                                              *)

\* One push is one transaction, its events in the order the machine listed them.
Appended(d, events) ==
    LET ks == DOMAIN events
    IN  \E order \in [1..Cardinality(ks) -> ks] :
            /\ {order[i] : i \in DOMAIN order} = ks
            /\ Len(log) + Len(order) <= MaxLog
            /\ log' = log \o [i \in DOMAIN order |->
                    [key |-> order[i], value |-> events[order[i]].value,
                     at |-> events[order[i]].at, device |-> d]]

\* The oldest push the thread has not read yet.
NextSent(d) == {i \in DOMAIN inflight[d] : inflight[d][i].state = "sent"
                    /\ \A j \in 1..(i - 1) : inflight[d][j].state # "sent"}

AppendPush(d) ==
    \E i \in NextSent(d) :
        /\ Appended(d, inflight[d][i].events)
        /\ inflight' = [inflight EXCEPT ![d][i].state = "taken"]
        /\ UNCHANGED <<dropped, strays, book, cursor, link, head, now, own, undercut, bounds>>

Fault == faults < MaxFaults /\ faults' = faults + 1 /\ acts' = acts

\* A push is refused whole, and the machine is told.
Refuse(d) ==
    \E i \in NextSent(d) :
        /\ inflight' = [inflight EXCEPT ![d][i].state = "refused"]
        /\ Fault
        /\ UNCHANGED <<server, book, cursor, link, head, now, own, undercut>>

\* What a dead connection left in a buffer is read after all; its answer reaches nobody.
AppendStray(s) ==
    /\ Appended(s.device, s.events)
    /\ strays' = strays \ {s}
    /\ UNCHANGED <<dropped, book, cursor, link, head, inflight, now, own, undercut, bounds>>

\* The last event of a key: what compaction keeps.
LastOfKey(k) == CHOOSE s \in Present : log[s].key = k /\ \A t \in Present : log[t].key = k => t <= s

\* `compact`: what is older than the retention and not the last of its key goes.  The retention is
\* days, so a machine that is connected has long been given what goes.
Compact ==
    \E old \in Seqs :
        LET gone == {s \in Present : s <= old /\ s # LastOfKey(log[s].key)}
        IN  /\ gone # {}
            /\ \A d \in Devices : link[d] = "up" => \A s \in gone : s <= cursor[d]
            /\ dropped' = dropped \cup gone
            /\ UNCHANGED <<log, strays, book, cursor, link, head, inflight, now, own, undercut, bounds>>

-----------------------------------------------------------------------------
(* The connection.                                                          *)

\* `pairSync`: every preference there is becomes something to offer.
Pair(d) ==
    /\ link[d] = "unpaired"
    /\ link' = [link EXCEPT ![d] = "down"]
    /\ dirty' = [dirty EXCEPT ![d] = {}]
    /\ seed' = [seed EXCEPT ![d] = {k \in Keys \ kept[d] : value[d][k] # Unset}]
    /\ cursor' = [cursor EXCEPT ![d] = 0]
    /\ UNCHANGED <<server, value, stamp, waiting, kept, head, inflight, now, own, undercut, bounds>>

\* `welcome`: what was in flight is forgotten, and what is owed is pushed again.
Welcome(d) ==
    /\ link[d] = "down"
    /\ link' = [link EXCEPT ![d] = "up"]
    /\ head' = [head EXCEPT ![d] = IF seed[d] = {} THEN 0 ELSE Len(log)]
    /\ \E pushes \in Flushes(<< >>, dirty[d], value[d], stamp[d]) :
           inflight' = [inflight EXCEPT ![d] = pushes]
    /\ UNCHANGED <<server, book, cursor, now, own, undercut, bounds>>

\* The connection is lost: what the server has not read of these pushes, it may still read.
Lost(d, pushes) ==
    /\ link' = [link EXCEPT ![d] = "down"]
    /\ strays' = strays \cup {[device |-> d, events |-> pushes[i].events] :
                                 i \in {j \in DOMAIN pushes : pushes[j].state = "sent"}}
    /\ inflight' = [inflight EXCEPT ![d] = << >>]

Disconnect(d) ==
    /\ link[d] = "up"
    /\ Lost(d, inflight[d])
    /\ Fault
    /\ UNCHANGED <<log, dropped, book, cursor, head, now, own, undercut>>

-----------------------------------------------------------------------------
(* What arrives.                                                            *)

\* `acceptPref`: another machine's newer write of a setting not kept to this one.
\* The variant forgets which are kept.
AcceptsKept(d, e) == e.device # d /\ Wins(e, stamp[d][e.key])
Accepts(d, e) ==
    /\ e.device # d
    /\ e.key \notin kept[d]
    /\ Wins(e, stamp[d][e.key])

\* The writes of a key a machine was given, its own included, in the log or on their way to it.
OwnPushes(d) == {inflight[d][i].events : i \in DOMAIN inflight[d]} \cup {x.events : x \in {y \in strays : y.device = d}}
Met(d, k) ==
    {[at |-> log[s].at, device |-> log[s].device] :
        s \in {x \in Seqs : log[x].key = k /\ (x <= cursor[d] \/ log[x].device = d)}}
    \cup {[at |-> p[k].at, device |-> d] : p \in {x \in OwnPushes(d) : k \in DOMAIN x}}

\* An event ends a choice to differ when it is newer than all there was to differ from.
StillOwn(d, e) == IF \A w \in Met(d, e.key) : Wins(e, w) THEN own[d] \ {e.key} ELSE own[d]

\* What a machine holds that an event may change.
Held(d) == [stamp |-> stamp[d], waiting |-> waiting[d], dirty |-> dirty[d], seed |-> seed[d], own |-> own[d]]

\* `apply`: the stamp is taken on arrival; the value waits for review unless it is the one in force.
Merged(d, e) ==
    IF ~ Accepts(d, e) THEN Held(d)
    ELSE [stamp   |-> [stamp[d] EXCEPT ![e.key] = [at |-> e.at, device |-> e.device]],
          waiting |-> [waiting[d] EXCEPT ![e.key] = IF e.value = value[d][e.key] THEN Nothing ELSE e.value],
          dirty   |-> dirty[d] \ {e.key},
          seed    |-> seed[d] \ {e.key},
          own     |-> StillOwn(d, e)]

\* The catch-up's end: what the server never had is offered at the oldest stamp there is.
Offered(d, m) ==
    LET S == m.seed \ kept[d]
    IN  [m EXCEPT !.seed = {},
                  !.dirty = @ \cup S,
                  !.stamp = [k \in Keys |-> IF k \in S THEN [at |-> Oldest, device |-> d] ELSE @[k]]]

\* `applyAll`: what was merged, and at the catch-up's end the offer and its flush.
PageApplied(d, m, more) ==
    LET b == IF more THEN m ELSE Offered(d, m)
    IN  /\ stamp' = [stamp EXCEPT ![d] = b.stamp]
        /\ waiting' = [waiting EXCEPT ![d] = b.waiting]
        /\ dirty' = [dirty EXCEPT ![d] = b.dirty]
        /\ seed' = [seed EXCEPT ![d] = b.seed]
        /\ own' = [own EXCEPT ![d] = b.own]
        /\ undercut' = IF more THEN undercut ELSE undercut \cup {k \in m.seed \ kept[d] : m.stamp[k] # NoStamp}
        /\ UNCHANGED <<log, dropped, value, kept, head, now>>

PagePushes(d, m, more) ==
    IF more \/ m.seed = {} THEN {inflight[d]}
    ELSE Flushes(inflight[d], Offered(d, m).dirty, value[d], Offered(d, m).stamp)

\* The next event a machine has not acked.
NextFor(d) == {s \in Present : s > cursor[d] /\ \A t \in Present : t > cursor[d] => s <= t}

\* Whether a message that brings a machine to s says more is to come: not once the log is
\* exhausted, and always while there is some of what the server had when it said hello.
MoreAfter(d, s) ==
    {more \in BOOLEAN : IF more THEN \E t \in Present : t > s
                                ELSE \A t \in Present : t <= head[d] => t <= s}

Receive(d) ==
    \E s \in NextFor(d) : \E more \in MoreAfter(d, s) :
        LET m == Merged(d, log[s])
        IN  /\ link[d] = "up"
            /\ PageApplied(d, m, more)
            /\ \E pushes \in PagePushes(d, m, more) : inflight' = [inflight EXCEPT ![d] = pushes]
            /\ cursor' = [cursor EXCEPT ![d] = s]
            /\ UNCHANGED <<strays, link, bounds>>

\* The app stops between the merge and the ack: the event will come again.
ReceiveUnacked(d) ==
    \E s \in NextFor(d) : \E more \in MoreAfter(d, s) :
        LET m == Merged(d, log[s])
        IN  /\ link[d] = "up"
            /\ PageApplied(d, m, more)
            /\ \E pushes \in PagePushes(d, m, more) : Lost(d, pushes)
            /\ Fault
            /\ UNCHANGED cursor

\* A catch-up with nothing in it ends too.
CaughtUp(d) ==
    /\ link[d] = "up"
    /\ seed[d] # {}
    /\ \A s \in Present : s <= head[d] => s <= cursor[d]
    /\ PageApplied(d, Held(d), FALSE)
    /\ \E pushes \in PagePushes(d, Held(d), FALSE) : inflight' = [inflight EXCEPT ![d] = pushes]
    /\ UNCHANGED <<strays, cursor, link, bounds>>

-----------------------------------------------------------------------------
(* The person at the machine.                                               *)

Act == acts < MaxActs /\ acts' = acts + 1 /\ faults' = faults

\* `owe`: the key is dirty, and its stamp is this machine's.
Owe(d, k, at) ==
    /\ dirty' = [dirty EXCEPT ![d] = @ \cup {k}]
    /\ stamp' = [stamp EXCEPT ![d][k] = [at |-> at, device |-> d]]

\* A clock that agrees is past whatever its machine holds, was given or has written of the key.
PastItsStamps(d, k, at) == stamp[d][k].at < at /\ \A w \in Met(d, k) : w.at < at

\* `onLocalWrite`: a setting changed here is owed, and whatever waited to replace it is dropped.
Edit(d, k, v) ==
    /\ Act
    /\ value' = [value EXCEPT ![d][k] = v]
    /\ IF link[d] = "unpaired" \/ k \in kept[d]
       THEN UNCHANGED <<stamp, dirty, waiting, now, own>>
       ELSE \E at \in (now + SkewOf[d])..(MaxNow + SkewOf[d]) :
               /\ ClocksAgree => PastItsStamps(d, k, at)
               /\ now' = at - SkewOf[d]
               /\ Owe(d, k, at)
               /\ waiting' = [waiting EXCEPT ![d][k] = Nothing]
               /\ own' = [own EXCEPT ![d] = @ \ {k}]
    /\ UNCHANGED <<server, kept, seed, cursor, link, head, inflight, undercut>>

\* `resolvePending`: yes writes the value without owing it; no leaves this machine's in force.
Accept(d, k) ==
    /\ Act
    /\ waiting[d][k] # Nothing
    /\ value' = [value EXCEPT ![d][k] = waiting[d][k]]
    /\ waiting' = [waiting EXCEPT ![d][k] = Nothing]
    /\ UNCHANGED <<server, stamp, dirty, kept, seed, cursor, link, head, inflight, now, own, undercut>>

Decline(d, k) ==
    /\ Act
    /\ waiting[d][k] # Nothing
    /\ waiting' = [waiting EXCEPT ![d][k] = Nothing]
    /\ own' = [own EXCEPT ![d] = @ \cup {k}]
    /\ UNCHANGED <<server, value, stamp, dirty, kept, seed, cursor, link, head, inflight, now, undercut>>

\* `setExcluded`: kept to this machine, and what waited for it dropped.
Keep(d, k) ==
    /\ Act
    /\ k \notin kept[d]
    /\ kept' = [kept EXCEPT ![d] = @ \cup {k}]
    /\ waiting' = [waiting EXCEPT ![d][k] = Nothing]
    /\ own' = [own EXCEPT ![d] = @ \cup {k}]
    /\ UNCHANGED <<server, value, stamp, dirty, seed, cursor, link, head, inflight, now, undercut>>

\* Synced again: offered at the oldest stamp, under whatever the server holds.
Unkeep(d, k) ==
    /\ Act
    /\ k \in kept[d]
    /\ kept' = [kept EXCEPT ![d] = @ \ {k}]
    /\ IF link[d] # "unpaired" /\ value[d][k] # Unset THEN Owe(d, k, Oldest) ELSE UNCHANGED <<dirty, stamp>>
    /\ UNCHANGED <<server, value, waiting, seed, cursor, link, head, inflight, now, own, undercut>>

-----------------------------------------------------------------------------
Next ==
    \/ \E d \in Devices :
          \/ Pair(d) \/ Welcome(d) \/ Disconnect(d)
          \/ Flush(d) \/ AppendPush(d) \/ Refuse(d) \/ Answered(d)
          \/ Receive(d) \/ ReceiveUnacked(d) \/ CaughtUp(d)
    \/ \E d \in Devices, k \in Keys :
          \/ \E v \in Values \cup {Unset} : Edit(d, k, v)
          \/ Accept(d, k) \/ Decline(d, k) \/ Keep(d, k) \/ Unkeep(d, k)
    \/ \E s \in strays : AppendStray(s)
    \/ Compact

Spec == Init /\ [][Next]_vars

-----------------------------------------------------------------------------
\* "Only then is a key cleared ... A key edited again mid-flight stays owed" (docs/sync.md): a
\* setting whose last write is this machine's is still owed, or the server was given that write
\* with the value in force, through refusals, lost connections, and edits in flight; but for a key
\* that an offer stamped anew over an edit (see OffersYield).
OnServer(d, k) ==
    \E s \in Seqs : /\ log[s].key = k /\ log[s].device = d
                    /\ log[s].at = stamp[d][k].at /\ log[s].value = value[d][k]

OwedUntilTaken ==
    \A d \in Devices, k \in Keys \ undercut :
        stamp[d][k].device = d => k \in dirty[d] \cup own[d] \/ OnServer(d, k)

\* Everyone is connected, nothing is owed and everything there is has been received.
AtRest ==
    \A d \in Devices :
        /\ link[d] = "up" /\ inflight[d] = << >> /\ dirty[d] = {} /\ seed[d] = {}
        /\ NextFor(d) = {}

\* What a machine has in force, or is asking its user about.
Chosen(d, k) == IF waiting[d][k] = Nothing THEN value[d][k] ELSE waiting[d][k]

Agreed(K) == AtRest => \A k \in K : \A d, e \in {x \in Devices : k \notin own[x]} : Chosen(d, k) = Chosen(e, k)

\* Compaction left an older write of the key in place of a newer one.
Shadowed(k) ==
    \E s \in dropped : /\ log[s].key = k
                       /\ \A t \in Present : log[t].key = k => ~ Wins(log[t], log[s])

\* "Newer `at` wins, and a tie goes to the larger device id so every machine agrees" (docs/sync.md):
\* once everything has been exchanged, they do, but for a key whose newest write compaction
\* deleted, and one whose edit was stamped anew by the offer of a machine just paired. And a value
\* waits for review only of a setting that is neither kept to the machine nor owed by it.
EveryMachineAgrees ==
    /\ Agreed({k \in Keys \ undercut : ~ Shadowed(k)})
    /\ \A d \in Devices, k \in Keys : waiting[d][k] # Nothing => k \notin kept[d] \cup dirty[d]

\* "so a device that was away for months still converges" (docs/sync.md), whatever was compacted.
AwayStillConverges == Agreed(Keys \ undercut)

\* "It then offers only the keys the server had nothing for, at the oldest possible stamp"
\* (docs/sync.md): no offer costs an edit its place.
OffersYield == Agreed({k \in Keys : ~ Shadowed(k)})
==============================================================================
