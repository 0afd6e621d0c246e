-------------------------------- MODULE Memory --------------------------------
(***************************************************************************)
(* Claude's memory files between one person's machines: synclink.ts and    *)
(* memsync.ts over the memory stream, and memory_write on the disk.        *)
(*                                                                         *)
(* The log is the memory stream of one user and reaches each machine in    *)
(* order (SyncLog); one project, one checkout at most on each machine.     *)
(* Every await of a command is a step of its own.                          *)
(***************************************************************************)
EXTENDS Integers, Sequences, FiniteSets, SequencesExt

CONSTANTS
    Machines,   \* ordered by their device ids, which are naturals
    Files,      \* names people's agents write
    Budgets     \* what a behaviour may spend, and who has the project cloned

Keys == Files \X (Machines \cup {0})       \* <<f, d>>: conflictName(f, d); <<f, 0>>: f itself

None == 0                                  \* no file, a tombstone; texts are 1, 2, ...

VARIABLES
    left,               \* what is left to spend
    text, now,          \* the last text written; the clock, which the machines share
    mlog,               \* events: key, text, stamp
    file,               \* what is on each disk
    book,               \* MemBook, memParked and the stream's stamps
    conn,               \* the connection: see Offline
    frame,              \* what memBusy guards: see Free
    pushes, acks,       \* pushes on their way; where the log stood for each answer on its way
    owed                \* memInflight, in order: for each key what the push owes

mvars == <<left, text, now, mlog, file, book, conn, frame, pushes, acks, owed>>

NoStamp == [at |-> 0, dev |-> 0]
NotHeld == [text |-> None, at |-> 0, dev |-> 0]
NotOwed == -1
Reveal == 1

\* serverMemory, the place in the log, memReplaying and its place, memLetGo
Offline(pos, letGo) ==
    [up |-> FALSE, memory |-> FALSE, pos |-> pos, logCaught |-> FALSE, caughtUp |-> FALSE, replay |-> 0, letGo |-> letGo]

\* The command awaited: "write" or "side" for the first of todo, "scan"; and whether it has run.
Free == [stage |-> "no", todo |-> <<>>, agreed |-> None, done |-> FALSE, ok |-> "", found |-> <<>>, sync |-> FALSE]

Spend(what) == left[what] > 0 /\ left' = [left EXCEPT ![what] = @ - 1]

-----------------------------------------------------------------------------
(* What arrives. *)

Newer(e, s) == IF e.at # s.at THEN e.at > s.at ELSE e.dev > s.dev

\* holdMem: past the cap the oldest arrivals of projects not cloned here make room, one text for one.
Full(b, k) == Cardinality({x \in Keys \ {k} : b.held[x].text # None}) >= left.cap

Evicted(m, b, e) ==
    LET carries == IF m \in left.cloned THEN {} ELSE {x \in Keys \ {e.key} : b.held[x].text # None} IN
    IF e.text = None \/ ~Full(b, e.key) THEN {}
    ELSE {x \in carries : \A y \in carries : b.held[x].at <= b.held[y].at}

\* What is let go loses its stamp, or the replay would be refused as old.
StampsLeft(b, gone) == [x \in Keys |-> IF x \in gone THEN NoStamp ELSE b.stamp[x]]

\* acceptMem, holdMem and applyMem: the book, and whether anything was let go.
ApplyMem(m, e) ==
    LET b == book[m]
        gone == Evicted(m, b, e)
        fits == e.text = None \/ ~Full(b, e.key) \/ gone # {}
        lessHeld == [b EXCEPT !.caught = @ /\ gone = {} /\ fits, !.stamp = StampsLeft(b, gone),
                           !.held = [x \in Keys |-> IF x \in gone THEN NotHeld ELSE @[x]]]
    IN  IF e.dev = m \/ ~Newer(e, b.stamp[e.key]) THEN [book |-> b, letGo |-> FALSE]
        ELSE IF ~fits THEN [book |-> lessHeld, letGo |-> TRUE]
        ELSE [book |-> [lessHeld EXCEPT !.held[e.key] = [text |-> e.text, at |-> e.at, dev |-> e.dev],
                                     !.stamp[e.key] = [at |-> e.at, dev |-> e.dev]],
              letGo |-> gone # {}]

-----------------------------------------------------------------------------
(* Writing what arrived, and sending what changed here. *)

\* A first discovery has no claim on a file already here.
Agreed(b, k, h) == IF h.at = Reveal THEN None ELSE b.seen[k]

\* drainMem and syncMemory from one await to the next.
Loop(m, b, todo, sync) ==
    IF todo # <<>>
    THEN [Free EXCEPT !.stage = "write", !.todo = todo, !.sync = sync, !.agreed = Agreed(b, Head(todo).key, Head(todo).h)]
    ELSE IF sync /\ m \in left.cloned THEN [Free EXCEPT !.stage = "scan"] ELSE Free

Drain(m, b, sync) ==
    LET apply == IF m \in left.cloned THEN {k \in Keys : b.held[k] # NotHeld /\ (k \notin b.parked \/ sync)} ELSE {}
        todo == SetToSeq({[key |-> k, h |-> b.held[k]] : k \in apply})
    IN  IF frame[m].stage = "no" THEN Loop(m, b, todo, sync) ELSE frame[m]

MaySync(c) == c.up /\ c.memory /\ c.caughtUp

\* A push in flight no longer speaks for the key.
Unowed(m, k) == [i \in DOMAIN owed[m] |-> [owed[m][i] EXCEPT ![k] = NotOwed]]

\* memory_write: only what nobody changed is replaced or removed.  The variant does not look.
FitsUnseen(m, k, t, ifSha) == TRUE
Fits(m, k, t, ifSha) == file[m][k] \in {None, t, ifSha}

Write(m) ==
    LET f == frame[m]
        k == Head(f.todo).key
        t == Head(f.todo).h.text IN
    /\ f.stage = "write" /\ ~f.done
    /\ \/ /\ frame' = [frame EXCEPT ![m].done = TRUE, ![m].ok = IF Fits(m, k, t, f.agreed) THEN "yes" ELSE "kept"]
          /\ file' = [file EXCEPT ![m][k] = IF Fits(m, k, t, f.agreed) THEN t ELSE @]
          /\ UNCHANGED left
       \/ Spend("fails") /\ frame' = [frame EXCEPT ![m].done = TRUE, ![m].ok = "error"] /\ UNCHANGED file
    /\ UNCHANGED <<text, now, mlog, book, conn, pushes, acks, owed>>

Written(m) ==
    LET f == frame[m]
        k == Head(f.todo).key
        h == Head(f.todo).h
        b == book[m]
        done == [b EXCEPT !.held[k] = NotHeld, !.parked = @ \ {k}]
        Goes(b2) == book' = [book EXCEPT ![m] = b2] /\ frame' = [frame EXCEPT ![m] = Loop(m, b2, Tail(f.todo), f.sync)]
    IN
    /\ f.stage = "write" /\ f.done
    /\ IF b.held[k] # h THEN Goes(b) /\ UNCHANGED owed
       ELSE IF f.ok = "error" THEN Goes([b EXCEPT !.parked = @ \cup {k}]) /\ UNCHANGED owed
       ELSE IF f.ok = "yes" THEN Goes([done EXCEPT !.seen[k] = h.text]) /\ UNCHANGED owed
       ELSE IF f.agreed = None /\ h.text # None
       THEN /\ book' = [book EXCEPT ![m] = done]
            /\ frame' = [frame EXCEPT ![m].stage = "side", ![m].done = FALSE]
            /\ UNCHANGED owed
       ELSE Goes(done) /\ owed' = [owed EXCEPT ![m] = Unowed(m, k)]
    /\ UNCHANGED <<left, text, now, mlog, file, conn, pushes, acks>>

\* keepBoth: the arrival lands beside, if there is room for it, and ours goes out anew.
WriteSide(m) ==
    LET f == frame[m]
        side == <<Head(f.todo).key[1], Head(f.todo).h.dev>> IN
    /\ f.stage = "side" /\ ~f.done
    /\ file' = [file EXCEPT ![m][side] = IF @ = None THEN Head(f.todo).h.text ELSE @]
    /\ frame' = [frame EXCEPT ![m].done = TRUE]
    /\ UNCHANGED <<left, text, now, mlog, book, conn, pushes, acks, owed>>

KeptBoth(m) ==
    LET f == frame[m]
        k == Head(f.todo).key
        b == [book[m] EXCEPT !.seen[k] = None] IN
    /\ f.stage = "side" /\ f.done
    /\ book' = [book EXCEPT ![m] = b]
    /\ owed' = [owed EXCEPT ![m] = Unowed(m, k)]
    /\ frame' = [frame EXCEPT ![m] = Loop(m, b, Tail(f.todo), f.sync)]
    /\ UNCHANGED <<left, text, now, mlog, file, conn, pushes, acks>>

\* diffLocal: files changed, and files seen here and gone; a key still held waits.
DiffLocal(b, found) == {k \in Keys : b.held[k] = NotHeld /\ found[k] # b.seen[k]}

Scan(m) ==
    /\ frame[m].stage = "scan" /\ ~frame[m].done
    /\ frame' = [frame EXCEPT ![m].done = TRUE, ![m].found = file[m]]
    /\ UNCHANGED <<left, text, now, mlog, file, book, conn, pushes, acks, owed>>

Scanned(m) ==
    LET b == book[m]
        found == frame[m].found
        out == DiffLocal(b, found)
        at == [k \in out |-> IF found[k] # None /\ b.seen[k] = None /\ b.stamp[k] = NoStamp THEN Reveal ELSE now]
        events == {[key |-> k, text |-> found[k], at |-> at[k], dev |-> m] : k \in out}
    IN
    /\ frame[m].stage = "scan" /\ frame[m].done
    /\ now' = IF out # {} THEN now + 1 ELSE now
    /\ book' = [book EXCEPT ![m].stamp = [k \in Keys |-> IF k \in out THEN [at |-> at[k], dev |-> m] ELSE @[k]]]
    /\ frame' = [frame EXCEPT ![m] = Free]
    /\ IF out # {} /\ conn[m].up
       THEN /\ pushes' = [pushes EXCEPT ![m] = Append(@, SetToSeq(events))]
            /\ owed' = [owed EXCEPT ![m] = Append(@, [k \in Keys |-> IF k \in out THEN found[k] ELSE NotOwed])]
       ELSE UNCHANGED <<pushes, owed>>
    /\ UNCHANGED <<left, text, mlog, file, conn, acks>>

\* Focus, a session's exit, the ten-minute tick.
SyncMemory(m) ==
    /\ Spend("syncs") /\ MaySync(conn[m]) /\ (DiffLocal(book[m], file[m]) # {} \/ book[m].parked # {}) /\ frame[m].stage = "no"
    /\ frame' = [frame EXCEPT ![m] = Drain(m, book[m], TRUE)]
    /\ UNCHANGED <<text, now, mlog, file, book, conn, pushes, acks, owed>>

\* The server takes a push, and answers.
Take(m) ==
    /\ conn[m].up /\ pushes[m] # <<>>
    /\ mlog' = mlog \o Head(pushes[m])
    /\ pushes' = [pushes EXCEPT ![m] = Tail(@)]
    /\ acks' = [acks EXCEPT ![m] = Append(@, Len(mlog))]
    /\ UNCHANGED <<left, text, now, file, book, conn, frame, owed>>

\* memPushed
MemPushed(m) ==
    /\ conn[m].up /\ acks[m] # <<>> /\ owed[m] # <<>>
    /\ acks' = [acks EXCEPT ![m] = Tail(@)]
    /\ owed' = [owed EXCEPT ![m] = Tail(@)]
    /\ book' = [book EXCEPT ![m].seen = [k \in Keys |-> IF Head(owed[m])[k] = NotOwed THEN @[k] ELSE Head(owed[m])[k]]]
    /\ UNCHANGED <<left, text, now, mlog, file, conn, frame, pushes>>

-----------------------------------------------------------------------------
(* The connection. *)

\* The connection's thread answers a push before it forwards anything later.
Forwarded(m, i) == acks[m] # <<>> => i <= Head(acks[m])

\* onSyncEvent(welcome), askMemReplay: a server without memory makes the next one with it replay all.
Welcome(m, memory) ==
    /\ ~conn[m].up
    /\ memory \/ left.gates > 0
    /\ left' = [left EXCEPT !.gates = IF memory THEN @ ELSE @ - 1]
    /\ conn' = [conn EXCEPT ![m] = [Offline(@.pos, @.letGo) EXCEPT !.up = TRUE, !.memory = memory,
                                       !.replay = IF memory /\ ~book[m].caught THEN 1 ELSE 0]]
    /\ book' = [book EXCEPT ![m].caught = @ /\ memory]
    /\ owed' = [owed EXCEPT ![m] = <<>>]
    /\ UNCHANGED <<text, now, mlog, file, frame, pushes, acks>>

Lost(m) ==
    /\ Spend("drops") /\ conn[m].up
    /\ conn' = [conn EXCEPT ![m] = Offline(@.pos, @.letGo)]
    /\ pushes' = [pushes EXCEPT ![m] = <<>>] /\ acks' = [acks EXCEPT ![m] = <<>>]
    /\ UNCHANGED <<text, now, mlog, file, book, frame, owed>>

\* What follows a page: the first moment caught up is a sync, any other page a drain.
AfterPage(m, b, c, ends) ==
    LET synced == ends /\ c.logCaught /\ ~c.caughtUp /\ c.replay = 0
        c2 == [c EXCEPT !.caughtUp = @ \/ synced]
    IN  /\ conn' = [conn EXCEPT ![m] = c2]
        /\ book' = [book EXCEPT ![m] = b]
        /\ frame' = [frame EXCEPT ![m] = Drain(m, b, synced /\ MaySync(c2))]
        /\ UNCHANGED <<left, text, now, mlog, file, pushes, acks, owed>>

\* applyAll: the catch-up and what follows; a replay's pages come between the two.
ApplyAll(m) ==
    LET c == conn[m]
        r == ApplyMem(m, mlog[c.pos + 1])
        last == c.pos + 1 = Len(mlog)
        c2 == [c EXCEPT !.pos = @ + 1, !.logCaught = @ \/ last]
    IN  /\ c.up /\ c.pos < Len(mlog) /\ Forwarded(m, c.pos + 1) /\ (c.logCaught => c.replay = 0)
        /\ IF c.memory THEN AfterPage(m, r.book, [c2 EXCEPT !.letGo = @ \/ r.letGo], last)
                       ELSE AfterPage(m, book[m], c2, last)

ApplyNone(m) ==
    /\ conn[m].up /\ ~conn[m].logCaught /\ conn[m].pos = Len(mlog)
    /\ AfterPage(m, book[m], [conn[m] EXCEPT !.logCaught = TRUE], TRUE)

\* applyReplay.  The variant takes any replay that ended for complete.
Complete(m, letGo) == TRUE
IsComplete(m, letGo) == ~letGo

ApplyReplay(m) ==
    LET c == conn[m]
        r == IF mlog = <<>> THEN [book |-> book[m], letGo |-> FALSE] ELSE ApplyMem(m, mlog[c.replay])
        letGo == c.letGo \/ r.letGo
        last == c.replay >= Len(mlog)
    IN  /\ c.up /\ c.replay > 0 /\ c.logCaught /\ Forwarded(m, c.replay)
        /\ IF last THEN AfterPage(m, [r.book EXCEPT !.caught = @ \/ IsComplete(m, letGo)], [c EXCEPT !.replay = 0, !.letGo = FALSE], TRUE)
           ELSE /\ conn' = [conn EXCEPT ![m].replay = @ + 1, ![m].letGo = letGo]
                /\ book' = [book EXCEPT ![m] = r.book]
                /\ UNCHANGED <<left, text, now, mlog, file, frame, pushes, acks, owed>>

\* A session writes a memory, or removes one that was agreed (of any other nobody hears); a checkout
\* appears (resolveIds).
Edit(m, f) ==
    /\ Spend("edits") /\ m \in left.cloned
    /\ text' = text + 1 /\ file' = [file EXCEPT ![m][<<f, 0>>] = text']
    /\ UNCHANGED <<now, mlog, book, conn, frame, pushes, acks, owed>>

Unlink(m, f) ==
    /\ Spend("removes") /\ file[m][<<f, 0>>] # None /\ book[m].seen[<<f, 0>>] # None
    /\ file' = [file EXCEPT ![m][<<f, 0>>] = None]
    /\ UNCHANGED <<text, now, mlog, book, conn, frame, pushes, acks, owed>>

Clone(m) ==
    /\ m \notin left.cloned /\ left' = [left EXCEPT !.cloned = @ \cup {m}]
    /\ UNCHANGED <<text, now, mlog, file, book, conn, frame, pushes, acks, owed>>

Init ==
    /\ left \in Budgets
    /\ text = 0 /\ now = 2 /\ mlog = <<>>
    /\ file = [m \in Machines |-> [k \in Keys |-> None]]
    /\ book = [m \in Machines |-> [seen |-> [k \in Keys |-> None], held |-> [k \in Keys |-> NotHeld],
                 stamp |-> [k \in Keys |-> NoStamp], parked |-> {}, caught |-> FALSE]]
    /\ conn = [m \in Machines |-> Offline(0, FALSE)]
    /\ frame = [m \in Machines |-> Free]
    /\ pushes = [m \in Machines |-> <<>>] /\ acks = [m \in Machines |-> <<>>]
    /\ owed = [m \in Machines |-> <<>>]

Next == \E m \in Machines :
    \/ Write(m) \/ Written(m) \/ WriteSide(m) \/ KeptBoth(m) \/ Scan(m) \/ Scanned(m)
    \/ SyncMemory(m) \/ Take(m) \/ MemPushed(m)
    \/ Welcome(m, TRUE) \/ Welcome(m, FALSE) \/ Lost(m) \/ ApplyAll(m) \/ ApplyNone(m) \/ ApplyReplay(m)
    \/ Clone(m) \/ \E f \in Files : Edit(m, f) \/ Unlink(m, f)

Spec == Init /\ [][Next]_mvars

-----------------------------------------------------------------------------
(* Properties. *)

Logged(m, k) == {None} \cup {mlog[i].text : i \in {j \in DOMAIN mlog : mlog[j].key = k}}

\* An arrival never takes the place of a memory written here that the server has not had
\* (memory_write's ifSha, seen, the pushes in flight).
UnsentSurvives == [][\A m \in Machines, k \in Keys :
    Write(m) /\ file'[m][k] # file[m][k] => file[m][k] \in Logged(m, k)]_mvars

\* A machine that counts as caught up with the stream has had, and still has or has written, everything
\* it has passed: whatever a cap, a gate or a lost connection let go is asked for again.
CaughtMeansHad == \A m \in Machines : book[m].caught =>
    \A i \in 1..conn[m].pos : mlog[i].dev # m => ~Newer(mlog[i], book[m].stamp[mlog[i].key])

Quiet == \A m \in Machines :
    /\ m \in left.cloned /\ book[m].caught /\ MaySync(conn[m]) /\ conn[m].pos = Len(mlog) /\ conn[m].replay = 0
    /\ frame[m].stage = "no" /\ pushes[m] = <<>> /\ acks[m] = <<>>
    /\ \A k \in Keys : book[m].held[k] = NotHeld
    /\ DiffLocal(book[m], file[m]) = {}

\* When nothing is left to send, to write or to answer, the machines hold the same memories.
MemoriesAgree == Quiet => \A m, n \in Machines : file[m] = file[n]

\* "the arrival lands beside, ours goes out anew": what met a file nobody agreed on is on the disk.
BothKept == [][\A m \in Machines : KeptBoth(m) =>
    \E k \in Keys : file[m][k] = Head(frame[m].todo).h.text]_mvars
=============================================================================
