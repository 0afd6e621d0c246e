------------------------------- MODULE SyncLog -------------------------------
(***************************************************************************)
(* The event log of episko-server, the threads that deliver it (one per    *)
(* WebSocket), and the cursor each paired machine keeps.                   *)
(*                                                                         *)
(* An event's sequence number is its position in the log.  A batch of      *)
(* events is the set of its numbers, because the server always sends a     *)
(* batch in ascending order.  Payloads are left out: an event is who       *)
(* appended it and what kind of stream it went to.  Handoff records,       *)
(* presence and pushes that are refused leave the log and the cursors      *)
(* alone and are not here.                                                 *)
(***************************************************************************)
EXTENDS Naturals, Sequences, FiniteSets

CONSTANTS
    Devices,        \* the paired machines
    UserOf,         \* [Devices -> user]: whose machine each one is
    MemoryDevices,  \* the machines whose hello said "memory", on a server with it on
    Kinds,          \* the kinds of stream pushed: a subset of AllKinds
    Page,           \* PAGE, the events one catch-up message carries
    Writers,        \* bound: the machines that push
    MaxPush,        \* bound: events in one push
    MaxLog,         \* bound: events ever appended
    MaxConns        \* bound: connections ever opened

AllKinds == {"shared", "personal", "memory"}

ASSUME SyncLogAssumption ==
    /\ Devices # {}
    /\ MemoryDevices \subseteq Devices
    /\ Kinds \subseteq AllKinds
    /\ Page \in Nat \ {0}
    /\ MaxPush \in Nat
    /\ MaxLog \in Nat
    /\ MaxConns \in Nat

Conns == 1..MaxConns
NoConn == 0

VARIABLES
    \* the server
    log,            \* the events table, in seq order
    phase,          \* how far each connection's thread is
    owner,          \* whose connection it is: the device its token names
    sent,           \* `sent` of `session`: nothing at or below it is forwarded again
    rx,             \* the hub's channel into the thread: batches in publishing order
    unpublished,    \* appended by this thread, not yet handed to the hub
    \* the machines
    dialled,        \* connections opened so far
    link,           \* the connection the machine is on, or NoConn
    wire,           \* batches on their way to the frontend's merge rules
    cursor,         \* the last seq acked, persisted in the sync config
    applied,        \* the events the merge rules have been given
    \* history: what the properties speak of
    overtaken       \* events a higher seq was published ahead of

serverVars == <<log, phase, owner, sent, rx, unpublished>>
clientVars == <<dialled, link, wire, cursor, applied>>
vars == <<serverVars, clientVars, overtaken>>

Seqs == 1..Len(log)
Batches == (SUBSET Seqs) \ {{}}
Top(S) == CHOOSE s \in S : \A t \in S : t <= s

\* The hub publishes to these connections: joined, and not left.
Subscribed(c) == phase[c] \in {"catchup", "live"}

-----------------------------------------------------------------------------
(* Who may hear an event: the two filters, one in SQL and one in the hub.   *)

Mine(d, s) ==
    \/ log[s].kind = "shared"
    \/ UserOf[log[s].device] = UserOf[d]

Takes(d, s) == log[s].kind = "memory" => d \in MemoryDevices

\* `Store::since`: what the catch-up still owes this connection.
Backlog(c) == {s \in Seqs : s > sent[c] /\ Mine(owner[c], s) /\ Takes(owner[c], s)}

\* `more`: the query found a row beyond the page.  The variant never says so.
NeverMore(c, page) == FALSE
More(c, page) == page # Backlog(c)

\* A page is the oldest of what is owed.  The variant takes the newest.
LastPage(S) == {s \in S : Cardinality({t \in S : t >= s}) <= Page}
FirstPage(S) == {s \in S : Cardinality({t \in S : t <= s}) <= Page}

\* A variant: the hub forgets whose personal stream it is.
UnfilteredShare(d, batch) == {s \in batch : Takes(d, s)}

\* The part of a pushed batch `Hub::publish` hands to one subscriber.
Share(d, batch) == {s \in batch : Mine(d, s) /\ Takes(d, s)}

\* Sending on a socket nobody reads any more reaches nobody.
Send(c, batch) ==
    wire' = IF batch # {} /\ link[owner[c]] = c
            THEN [wire EXCEPT ![owner[c]] = Append(@, batch)]
            ELSE wire

\* `sent` after a batch; the variant goes one past it.
SentPastBatch(c, batch) == IF batch = {} THEN sent[c] ELSE Top(batch) + 1
SentAfter(c, batch) == IF batch = {} THEN sent[c] ELSE Top(batch)

-----------------------------------------------------------------------------
Init ==
    /\ log = << >>
    /\ phase = [c \in Conns |-> "none"]
    /\ owner = [c \in Conns |-> CHOOSE d \in Devices : TRUE]
    /\ sent = [c \in Conns |-> 0]
    /\ rx = [c \in Conns |-> << >>]
    /\ unpublished = [c \in Conns |-> {}]
    /\ dialled = 0
    /\ link = [d \in Devices |-> NoConn]
    /\ wire = [d \in Devices |-> << >>]
    /\ cursor = [d \in Devices |-> 0]
    /\ applied = [d \in Devices |-> {}]
    /\ overtaken = {}

-----------------------------------------------------------------------------
(* The connection's thread on the server.                                   *)

\* Hello accepted: the thread joins the hub before it replays anything.
Join(c) ==
    /\ phase[c] = "hello"
    /\ phase' = [phase EXCEPT ![c] = "catchup"]
    /\ UNCHANGED <<log, owner, sent, rx, unpublished, clientVars, overtaken>>

\* One page of the replay; the last one ends it.
CatchUp(c) ==
    LET page == FirstPage(Backlog(c))
    IN  /\ phase[c] = "catchup"
        /\ sent' = [sent EXCEPT ![c] = SentAfter(c, page)]
        /\ Send(c, page)
        /\ phase' = [phase EXCEPT ![c] = IF More(c, page) THEN "catchup" ELSE "live"]
        /\ UNCHANGED <<log, owner, rx, unpublished, dialled, link, cursor, applied, overtaken>>

\* A push read from the socket becomes one transaction; the thread holds its numbers.
AppendPush(c, kinds) ==
    /\ owner[c] \in Writers
    /\ phase[c] = "live"
    /\ unpublished[c] = {}
    /\ Len(log) + Len(kinds) <= MaxLog
    /\ log' = log \o [i \in 1..Len(kinds) |-> [device |-> owner[c], kind |-> kinds[i]]]
    /\ unpublished' = [unpublished EXCEPT ![c] = (Len(log) + 1)..(Len(log) + Len(kinds))]
    /\ UNCHANGED <<phase, owner, sent, rx, clientVars, overtaken>>

\* The same thread hands the batch to every other connection in the hub.
Publish(c) ==
    LET batch == unpublished[c]
        Waiting == UNION {unpublished[x] : x \in Conns \ {c}}
    IN  /\ batch # {}
        /\ rx' = [x \in Conns |->
                    IF x # c /\ Subscribed(x) /\ Share(owner[x], batch) # {}
                    THEN Append(rx[x], Share(owner[x], batch))
                    ELSE rx[x]]
        /\ unpublished' = [unpublished EXCEPT ![c] = {}]
        /\ overtaken' = overtaken \cup {s \in Waiting : s < Top(batch)}
        /\ UNCHANGED <<log, phase, owner, sent, clientVars>>

\* Between reads the thread forwards what the hub queued, dropping what it already sent.
Forward(c) ==
    LET fresh == {s \in Head(rx[c]) : s > sent[c]}
    IN  /\ phase[c] = "live"
        /\ unpublished[c] = {}
        /\ rx[c] # << >>
        /\ rx' = [rx EXCEPT ![c] = Tail(@)]
        /\ sent' = [sent EXCEPT ![c] = SentAfter(c, fresh)]
        /\ Send(c, fresh)
        /\ UNCHANGED <<log, phase, owner, unpublished, dialled, link, cursor, applied, overtaken>>

\* The thread finds its peer gone and leaves the hub; its locals and its channel end with it.
Leave(c) ==
    /\ phase[c] \in {"hello", "catchup", "live"}
    /\ unpublished[c] = {}
    /\ link[owner[c]] # c
    /\ phase' = [phase EXCEPT ![c] = "gone"]
    /\ rx' = [rx EXCEPT ![c] = << >>]
    /\ sent' = [sent EXCEPT ![c] = 0]
    /\ UNCHANGED <<log, owner, unpublished, clientVars, overtaken>>

-----------------------------------------------------------------------------
(* The machine: `supervise` and `session` in sync.rs, `applyAll` in the     *)
(* frontend.                                                                *)

\* A session starts from the cursor held when it dials.
Dial(d) ==
    LET c == dialled + 1
    IN  /\ link[d] = NoConn
        /\ dialled < MaxConns
        /\ dialled' = c
        /\ link' = [link EXCEPT ![d] = c]
        /\ owner' = [owner EXCEPT ![c] = d]
        /\ phase' = [phase EXCEPT ![c] = "hello"]
        /\ sent' = [sent EXCEPT ![c] = cursor[d]]
        /\ UNCHANGED <<log, rx, unpublished, wire, cursor, applied, overtaken>>

\* The socket fails: what it had not delivered is lost, what it had stays queued.
Drop(d) ==
    /\ link[d] # NoConn
    /\ link' = [link EXCEPT ![d] = NoConn]
    /\ \E kept \in 0..Len(wire[d]) : wire' = [wire EXCEPT ![d] = SubSeq(@, 1, kept)]
    /\ UNCHANGED <<serverVars, dialled, cursor, applied, overtaken>>

\* A connection whose thread has ended is found closed by the next read.
FindClosed(d) == link[d] # NoConn /\ phase[link[d]] = "gone" /\ Drop(d)

\* `sync_ack`: the cursor moves only forward.  The variant takes whatever is acked.
AckRewinding(d, top) == top
Ack(d, top) == IF top <= cursor[d] THEN cursor[d] ELSE top

\* One batch through the merge rules, then its highest number is acked.
Apply(d) ==
    /\ wire[d] # << >>
    /\ applied' = [applied EXCEPT ![d] = @ \cup Head(wire[d])]
    /\ cursor' = [cursor EXCEPT ![d] = Ack(d, Top(Head(wire[d])))]
    /\ wire' = [wire EXCEPT ![d] = Tail(@)]
    /\ UNCHANGED <<serverVars, dialled, link, overtaken>>

\* The app stops: the queue is gone.  It may stop after a batch was applied and before its ack.
Quit(d) ==
    /\ link[d] # NoConn
    /\ link' = [link EXCEPT ![d] = NoConn]
    /\ wire' = [wire EXCEPT ![d] = << >>]
    /\ \/ applied' = applied
       \/ /\ wire[d] # << >>
          /\ applied' = [applied EXCEPT ![d] = @ \cup Head(wire[d])]
    /\ UNCHANGED <<serverVars, dialled, cursor, overtaken>>

\* The server stops: every thread ends where it stood; the table survives.
ServerCrash ==
    /\ \E c \in Conns : Subscribed(c)
    /\ phase' = [c \in Conns |-> IF phase[c] = "none" THEN "none" ELSE "gone"]
    /\ rx' = [c \in Conns |-> << >>]
    /\ sent' = [c \in Conns |-> 0]
    /\ unpublished' = [c \in Conns |-> {}]
    /\ UNCHANGED <<log, owner, clientVars, overtaken>>

-----------------------------------------------------------------------------
Pushes == UNION {[1..n -> Kinds] : n \in 1..MaxPush}

Next ==
    \/ \E c \in Conns : Join(c) \/ CatchUp(c) \/ Publish(c) \/ Forward(c) \/ Leave(c)
    \/ \E c \in Conns, kinds \in Pushes : AppendPush(c, kinds)
    \/ \E d \in Devices : Dial(d) \/ Drop(d) \/ Apply(d) \/ Quit(d)
    \/ ServerCrash

Spec == Init /\ [][Next]_vars

\* Every thread keeps running, and `supervise` always redials.  Nobody is bound to push or to fail.
Fairness ==
    /\ \A c \in Conns : WF_vars(Join(c) \/ CatchUp(c) \/ Publish(c) \/ Forward(c))
    /\ \A d \in Devices : WF_vars(Dial(d) \/ FindClosed(d)) /\ WF_vars(Apply(d))

FairSpec == Spec /\ Fairness

-----------------------------------------------------------------------------
Phases == {"none", "hello", "catchup", "live", "gone"}

\* Every variable has its type: no number kept anywhere runs ahead of the log, and no batch that
\* travels is empty (an empty catch-up message carries nothing and is not on the wire here).
TypeOK ==
    /\ log \in Seq([device : Devices, kind : AllKinds])
    /\ phase \in [Conns -> Phases]
    /\ owner \in [Conns -> Devices]
    /\ sent \in [Conns -> 0..Len(log)]
    /\ rx \in [Conns -> Seq(Batches)]
    /\ unpublished \in [Conns -> SUBSET Seqs]
    /\ dialled \in 0..MaxConns
    /\ link \in [Devices -> {NoConn} \cup Conns]
    /\ wire \in [Devices -> Seq(Batches)]
    /\ cursor \in [Devices -> 0..Len(log)]
    /\ applied \in [Devices -> SUBSET Seqs]
    /\ overtaken \subseteq Seqs

\* The events a machine is there to hear: another machine's, on a stream it may and does take.
Meant(d, s) == log[s].device # d /\ Mine(d, s) /\ Takes(d, s)

\* At or below the cursor a machine has had every event meant for it ("is replayed everything after
\* its cursor, and then hears every other device's pushes", serve.rs:2), through reconnects, crashes
\* and pages, unless another thread published a higher number ahead of it.
NothingSkipped ==
    \A d \in Devices : \A s \in 1..cursor[d] :
        Meant(d, s) => s \in applied[d] \cup overtaken

\* The same without the exception: what serve.rs's header says of every push.
EveryPushHeard ==
    \A d \in Devices : \A s \in 1..cursor[d] : Meant(d, s) => s \in applied[d]

\* A personal stream reaches its own user's machines and no other, whichever of the two ways
\* (the replay's SQL or the hub's filter) the event takes.
PersonalStaysPersonal ==
    \A d \in Devices :
        \A s \in applied[d] \cup UNION {wire[d][i] : i \in DOMAIN wire[d]} : Mine(d, s) /\ Takes(d, s)

\* "Cursors never rewind" (docs/sync.md): not even when batches of an earlier connection are
\* still queued as a later one replays.
CursorsNeverRewind == [][\A d \in Devices : cursor'[d] >= cursor[d]]_cursor

\* The bound on connections is spent and the machine has none: it would redial.
CutOff(d) == dialled = MaxConns /\ (link[d] = NoConn \/ phase[link[d]] = "gone")

\* Every event meant for a machine is applied there in the end, however often its connections,
\* its app or the server fail on the way, unless it was overtaken: nothing stays missing anywhere.
EveryEventArrives ==
    []<>(\A d \in Devices : \A s \in 1..Len(log) :
            Meant(d, s) => s \in applied[d] \cup overtaken \/ CutOff(d))
==============================================================================
