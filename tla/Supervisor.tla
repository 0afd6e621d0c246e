----------------------------- MODULE Supervisor -----------------------------
(* The connection threads of the app (sync.rs): each start, pairing, forgetting or change of the headers
   begins a new one, and the older ones retire when they next look. All of them write one status and feed
   one window, whose acknowledgements move one cursor in a file. *)
EXTENDS Naturals, Sequences

CONSTANTS
    Servers,    \* the pairings this machine may have, 1 to begin with; a token is good on its own server
    Most,       \* how many events each server holds for this machine
    Gens,       \* how many threads a behaviour may begin
    Queue,      \* how many events may wait for the window
    Acts,       \* how often the user and the network act
    Calm        \* whether the orders the README lists under Calm are left out

VARIABLES
    disk,       \* sync.json: the server and the cursor, None when absent
    token,      \* the server the sealed token is of, 0 when absent
    gen,        \* SyncCtl.generation
    ready,      \* whether a window has asked to start
    status,     \* SyncCtl.status
    thread,     \* thread[n]: the thread of generation n
    events,     \* what has been emitted and the window has not handled
    window,     \* "loading", "listens", or "started" once sync_start has answered it
    showsUp,    \* the window's status.connected
    merged,     \* merged[s]: what of server s this machine has applied
    acks,       \* the acknowledgements that wait for the main thread
    acking,     \* the acknowledgement under way, and the config it has read
    pairing,    \* sync_pair under way: its step, the server, and whether its window is still there
    supActs

spvars == <<disk, token, gen, ready, status, thread, events, window, showsUp, merged, acks, acking, pairing, supActs>>

None == [srv |-> 0, cursor |-> 0]
Off == [srv |-> 0, cursor |-> 0, up |-> FALSE, halted |-> FALSE]
Idle == [step |-> "", seq |-> 0, cfg |-> None]
NoPairing == [step |-> "", srv |-> 0, heard |-> TRUE]
NoThread == [st |-> "none", srv |-> 0, tok |-> 0, sent |-> 0, lost |-> FALSE]
Act == supActs < Acts /\ supActs' = supActs + 1

\* The threads that have been replaced and may still write the status.
Retiring == {n \in 1 .. gen - 1 : thread[n].st \notin {"none", "gone", "wait", "start"}}

Init ==
    /\ disk = [srv |-> 1, cursor |-> 0] /\ token = 1
    /\ gen = 0 /\ ready = FALSE /\ status = Off /\ thread = [n \in 1 .. Gens |-> NoThread]
    /\ events = <<>> /\ window = "loading" /\ showsUp = FALSE
    /\ merged = [s \in Servers |-> {}] /\ acks = <<>> /\ acking = Idle /\ pairing = NoPairing /\ supActs = 0

\* An event nobody listens to is gone.
Emit(ev) == events' = IF window = "loading" THEN events ELSE Append(events, ev)

\* set_status: announced if it changed what the window shows.
SetStatus(s) ==
    /\ status' = s
    /\ IF <<s.up, s.halted, s.srv = 0>> = <<status.up, status.halted, status.srv = 0>> THEN UNCHANGED events
       ELSE Emit([kind |-> "status", up |-> s.up])

\* restart: a thread of a new generation, if there is something to connect with; `connected` stays as it was.
Restart(d, t) ==
    /\ gen < Gens /\ gen' = gen + 1
    /\ Calm => \A n \in 1 .. gen : thread[n].st # "say"
    /\ SetStatus(IF d = None THEN Off ELSE [status EXCEPT !.srv = d.srv, !.cursor = d.cursor, !.halted = FALSE])
    /\ thread' = IF d # None /\ t # 0 /\ ready'
                 THEN [thread EXCEPT ![gen + 1] = [NoThread EXCEPT !.st = "start", !.srv = d.srv, !.tok = t]]
                 ELSE thread

\* ---- a connection thread

\* supervise, the top of its loop: where to replay from is read before it dials; a retired one ends.
Dial(n) ==
    /\ thread[n].st = "start"
    /\ thread' = [thread EXCEPT ![n].st = IF gen = n THEN "dial" ELSE "gone", ![n].sent = status.cursor, ![n].lost = FALSE]
    /\ UNCHANGED <<disk, token, gen, ready, status, events, window, showsUp, merged, acks, acking, pairing, supActs>>

Opens(n) ==
    /\ thread[n].st = "dial" /\ thread' = [thread EXCEPT ![n].st = "opened"]
    /\ UNCHANGED <<disk, token, gen, ready, status, events, window, showsUp, merged, acks, acking, pairing, supActs>>

\* session, the top of its loop: what it hears next it passes on, whoever has replaced it by then.
Looks(n) ==
    /\ thread[n].st \in {"opened", "top"}
    /\ IF gen = n
       THEN /\ thread' = [thread EXCEPT ![n].st = IF @ = "top" THEN "hear" ELSE "greet"]
            /\ UNCHANGED <<status, events>>
       ELSE /\ thread' = [thread EXCEPT ![n].st = "gone"]
            /\ SetStatus([status EXCEPT !.up = FALSE])
    /\ UNCHANGED <<disk, token, gen, ready, window, showsUp, merged, acks, acking, pairing, supActs>>

\* A welcome sets the status before it is passed on.
Welcomed(n) ==
    /\ thread[n].st = "greet" /\ thread[n].srv = thread[n].tok /\ Len(events) < Queue
    /\ Calm => Retiring = {} /\ gen = n
    /\ thread' = [thread EXCEPT ![n].st = "say"] /\ SetStatus([status EXCEPT !.up = TRUE])
    /\ UNCHANGED <<disk, token, gen, ready, window, showsUp, merged, acks, acking, pairing, supActs>>

Says(n) ==
    /\ thread[n].st = "say" /\ thread' = [thread EXCEPT ![n].st = "top"] /\ Emit([kind |-> "welcome"])
    /\ UNCHANGED <<disk, token, gen, ready, status, window, showsUp, merged, acks, acking, pairing, supActs>>

\* The token is refused: retrying cannot help.
Halts(n) ==
    /\ thread[n].st = "greet" /\ thread[n].srv # thread[n].tok
    /\ Calm => gen = n
    /\ thread' = [thread EXCEPT ![n].st = "gone"] /\ SetStatus([status EXCEPT !.up = FALSE, !.halted = TRUE])
    /\ UNCHANGED <<disk, token, gen, ready, window, showsUp, merged, acks, acking, pairing, supActs>>

\* The next event of the server's log, or a read that times out.
Hears(n) ==
    /\ thread[n].st = "hear"
    /\ \/ /\ thread[n].sent < Most /\ Len(events) < Queue
          /\ Calm => ~(window # "loading" /\ thread[n].lost)
          /\ thread' = [thread EXCEPT ![n].st = "top", ![n].sent = @ + 1, ![n].lost = @ \/ window = "loading"]
          /\ Emit([kind |-> "batch", from |-> n, seq |-> thread[n].sent + 1])
       \/ gen # n /\ thread' = [thread EXCEPT ![n].st = "top"] /\ UNCHANGED events
    /\ UNCHANGED <<disk, token, gen, ready, status, window, showsUp, merged, acks, acking, pairing, supActs>>

\* The dial or the connection fails, or a reconnect was asked for; the back-off ends by its time or one is.
Fails(n) ==
    /\ thread[n].st \in {"dial", "greet", "hear"} /\ Act
    /\ thread' = [thread EXCEPT ![n].st = "wait"] /\ SetStatus([status EXCEPT !.up = FALSE])
    /\ UNCHANGED <<disk, token, gen, ready, window, showsUp, merged, acks, acking, pairing>>

Waits(n) ==
    /\ thread[n].st = "wait" /\ thread' = [thread EXCEPT ![n].st = "start"]
    /\ UNCHANGED <<disk, token, gen, ready, status, events, window, showsUp, merged, acks, acking, pairing, supActs>>

\* ---- the window

Listens ==
    /\ window = "loading" /\ window' = "listens"
    /\ UNCHANGED <<disk, token, gen, ready, status, thread, events, showsUp, merged, acks, acking, pairing, supActs>>

\* What the window asks runs on the main thread, after the acknowledgements it sent before.
MainIsFree == acks = <<>> /\ acking = Idle

Starts ==
    /\ window = "listens" /\ window' = "started" /\ MainIsFree
    /\ ready' = TRUE /\ Restart(disk, token) /\ showsUp' = status'.up
    /\ UNCHANGED <<disk, token, merged, acks, acking, pairing, supActs>>

\* onSyncEvent: the window does not ask which connection an event came over.
Takes ==
    /\ window # "loading" /\ events # <<>> /\ events' = Tail(events)
    /\ LET ev == Head(events) IN
       IF ev.kind = "batch"
       THEN /\ merged' = [merged EXCEPT ![thread[ev.from].srv] = @ \cup {ev.seq}]
            /\ acks' = Append(acks, ev.seq) /\ UNCHANGED showsUp
       ELSE showsUp' = (ev.kind = "welcome" \/ ev.up) /\ UNCHANGED <<merged, acks>>
    /\ UNCHANGED <<disk, token, gen, ready, status, thread, window, acking, pairing, supActs>>

\* The threads outlive the window; what it had not handled is gone.
Reloads ==
    /\ window = "started" /\ Act /\ window' = "loading" /\ showsUp' = FALSE /\ events' = <<>>
    /\ thread' = [n \in DOMAIN thread |->
                     [thread[n] EXCEPT !.lost = @ \/ \E i \in DOMAIN events : events[i].kind = "batch" /\ events[i].from = n]]
    /\ pairing' = IF pairing.step = "written" THEN NoPairing ELSE [pairing EXCEPT !.heard = pairing.step = ""]
    /\ UNCHANGED <<disk, token, gen, ready, status, merged, acks, acking>>

Quits ==
    /\ Act /\ window' = "loading" /\ showsUp' = FALSE /\ events' = <<>> /\ ready' = FALSE /\ status' = Off
    /\ thread' = [n \in DOMAIN thread |-> IF thread[n] = NoThread THEN NoThread ELSE [NoThread EXCEPT !.st = "gone"]]
    /\ acks' = <<>> /\ acking' = Idle /\ pairing' = NoPairing
    /\ UNCHANGED <<disk, token, gen, merged>>

\* ---- sync_ack, on the main thread: the status, then the file, read and written

AckMoves ==
    /\ acking = Idle /\ acks # <<>> /\ acks' = Tail(acks)
    /\ LET seq == Head(acks) IN
       IF seq <= status.cursor THEN UNCHANGED <<status, acking>>
       ELSE status' = [status EXCEPT !.cursor = seq] /\ acking' = [Idle EXCEPT !.step = "read", !.seq = seq]
    /\ UNCHANGED <<disk, token, gen, ready, thread, events, window, showsUp, merged, pairing, supActs>>

AckReads ==
    /\ acking.step = "read"
    /\ acking' = IF disk = None THEN Idle ELSE [acking EXCEPT !.step = "write", !.cfg = disk]
    /\ UNCHANGED <<disk, token, gen, ready, status, thread, events, window, showsUp, merged, acks, pairing, supActs>>

AckWrites ==
    /\ acking.step = "write" /\ disk' = [acking.cfg EXCEPT !.cursor = acking.seq] /\ acking' = Idle
    /\ UNCHANGED <<token, gen, ready, status, thread, events, window, showsUp, merged, acks, pairing, supActs>>

\* ---- pairing, on a thread of its own: the token is saved before the config that goes with it

PairSaves(s) ==
    /\ pairing = NoPairing /\ window = "started" /\ Act
    /\ token' = s /\ pairing' = [step |-> "saved", srv |-> s, heard |-> TRUE]
    /\ UNCHANGED <<disk, gen, ready, status, thread, events, window, showsUp, merged, acks, acking>>

\* The cursor of a new pairing: what it has not replayed it does not have.
KeptCursor(d) == d.cursor
NewCursor(d) == 0

PairWrites ==
    /\ pairing.step = "saved" /\ disk' = [srv |-> pairing.srv, cursor |-> NewCursor(disk)]
    /\ Calm => /\ MainIsFree /\ \A i \in DOMAIN events : events[i].kind # "batch"
               /\ \A n \in 1 .. gen : thread[n].st # "hear"
    /\ ready' = ready /\ Restart(disk', token)
    /\ pairing' = IF pairing.heard THEN [pairing EXCEPT !.step = "written"] ELSE NoPairing
    /\ UNCHANGED <<token, window, showsUp, merged, acks, acking, supActs>>

PairFails ==
    /\ pairing.step = "saved" /\ pairing' = NoPairing
    /\ UNCHANGED <<disk, token, gen, ready, status, thread, events, window, showsUp, merged, acks, acking, supActs>>

PairAnswers ==
    /\ pairing.step = "written" /\ pairing' = NoPairing /\ showsUp' = status.up
    /\ UNCHANGED <<disk, token, gen, ready, status, thread, events, window, merged, acks, acking, supActs>>

Forgets ==
    /\ window = "started" /\ MainIsFree /\ disk # None /\ Act
    /\ disk' = None /\ token' = 0 /\ ready' = ready /\ Restart(None, 0) /\ showsUp' = FALSE
    /\ UNCHANGED <<window, merged, acks, acking, pairing>>

SetsHeaders ==
    /\ window = "started" /\ MainIsFree /\ disk # None /\ Act
    /\ ready' = ready /\ Restart(disk, token) /\ showsUp' = status'.up
    /\ UNCHANGED <<disk, token, window, merged, acks, acking, pairing>>

Next ==
    \/ \E n \in 1 .. Gens : Dial(n) \/ Opens(n) \/ Looks(n) \/ Welcomed(n) \/ Says(n) \/ Halts(n) \/ Hears(n) \/ Fails(n) \/ Waits(n)
    \/ Listens \/ Starts \/ Takes \/ Reloads \/ Quits \/ AckMoves \/ AckReads \/ AckWrites
    \/ \E s \in Servers : PairSaves(s)
    \/ PairWrites \/ PairFails \/ PairAnswers \/ Forgets \/ SetsHeaders

Spec == Init /\ [][Next]_spvars

\* Nothing the cursor stands for is missing here: what a reconnect or the next run of the app will not ask for
\* again has been applied (sync_ack, sync_pair, supervise).
CursorIsEarned ==
    /\ disk # None => 1 .. disk.cursor \subseteq merged[disk.srv]
    /\ status.srv # 0 => 1 .. status.cursor \subseteq merged[status.srv]

\* Once the older threads have retired, the status is of the connection that is left, and the window that has
\* handled every event shows it.
StatusIsTrue ==
    Retiring = {} =>
       /\ gen > 0 => (status.up <=> thread[gen].st \in {"say", "top", "hear"})
       /\ status.halted => thread[gen].st = "gone" /\ thread[gen].srv # thread[gen].tok
       /\ events = <<>> /\ window = "started" => showsUp = status.up

SyncStaysTrue == CursorIsEarned /\ StatusIsTrue
=============================================================================
