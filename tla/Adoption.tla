------------------------------ MODULE Adoption ------------------------------
(***************************************************************************)
(* One pane a webview reload orphaned: panes.ts adoptSession, main.ts's    *)
(* pty-output and pty-exit, and pty.rs's reader, reaper and scrollback.    *)
(* The reader and the reaper are threads of their own, so the last output  *)
(* may follow the exit.  Output is numbered in chunks; none is evicted.    *)
(***************************************************************************)
EXTENDS Naturals, Sequences

CONSTANTS Chunks,   \* bound: what the process ever writes
          Loads,    \* bound: how often the window reloads
          Overtaken \* whether the answer may reach the window before a chunk it holds

VARIABLES
    out,        \* ScrollBuf.seq: chunks written
    running,    \* the process, which is also whether the backend holds the session
    events,     \* emitted and not heard: a chunk's number, or 0 for the exit
    step,       \* "away", "listed", "asked", "read" (answered, not heard), "no session", "broken", "adopted"
    snap,       \* the snapshot on its way
    pending,    \* s.adopt.pending
    term,       \* what the terminal shows, in order
    isEnded,    \* the pane's phase is "ended"
    loads
avars == <<out, running, events, step, snap, pending, term, isEnded, loads>>

Paned == step \in {"asked", "read", "no session", "broken", "adopted"}
Emit(e) == events' = IF step = "away" THEN events ELSE Append(events, e)

Init ==
    /\ out = 0 /\ running = TRUE /\ events = <<>> /\ step = "adopted" /\ snap = 0
    /\ pending = <<>> /\ term = <<>> /\ isEnded = FALSE /\ loads = 0

\* `stream_pty_session`: the reader, and the reaper, which forgets the session before it says so.
Output ==
    /\ out < Chunks /\ out' = out + 1 /\ Emit(out + 1)
    /\ UNCHANGED <<running, step, snap, pending, term, isEnded, loads>>
Reap ==
    /\ running /\ running' = FALSE /\ Emit(0)
    /\ UNCHANGED <<out, step, snap, pending, term, isEnded, loads>>

Reload ==
    /\ loads < Loads /\ loads' = loads + 1
    /\ step' = "away" /\ events' = <<>> /\ pending' = <<>> /\ term' = <<>> /\ isEnded' = FALSE
    /\ UNCHANGED <<out, running, snap>>
\* `live_sessions`, then the panes before this one.
List ==
    /\ step = "away" /\ running /\ step' = "listed"
    /\ UNCHANGED <<out, running, events, snap, pending, term, isEnded, loads>>
\* The pane is in the map before the scrollback is asked for.
Ask ==
    /\ step = "listed" /\ step' = "asked"
    /\ UNCHANGED <<out, running, events, snap, pending, term, isEnded, loads>>
\* `read_scrollback`, under the reader's lock.
ReadScrollback ==
    /\ step = "asked" /\ snap' = out
    /\ step' \in IF running THEN {"read", "broken"} ELSE {"no session"}
    /\ UNCHANGED <<out, running, events, pending, term, isEnded, loads>>
\* The answer.  What waited and is in the snapshot already is dropped, chunk by chunk; the variant keeps it.
AfterAll(n) == pending
AfterSnap(n) ==
    LET written[i \in 0..Len(pending)] ==
          IF i = 0 THEN <<>> ELSE IF pending[i] > n THEN Append(written[i - 1], pending[i]) ELSE written[i - 1]
    IN written[Len(pending)]
Adopt ==
    /\ step \in {"read", "no session", "broken"} /\ step' = "adopted" /\ pending' = <<>>
    /\ Overtaken \/ \A i \in DOMAIN events : events[i] > snap \/ events[i] = 0
    /\ term' = CASE step = "read" -> [i \in 1 .. snap |-> i] \o AfterSnap(snap)
                 [] step = "broken" -> pending
                 [] OTHER -> <<>>
    /\ isEnded' = (isEnded \/ step = "no session")
    /\ UNCHANGED <<out, running, events, snap, loads>>

\* The window's listeners.  The variant has the exit wait for the adoption, and forgets it.
EndsOnceAdopted == step = "adopted"
Ends == Paned
Hear ==
    /\ events # <<>> /\ events' = Tail(events)
    /\ LET e == Head(events) IN
        /\ pending' = IF e # 0 /\ Paned /\ step # "adopted" THEN Append(pending, e) ELSE pending
        /\ term' = IF e # 0 /\ step = "adopted" THEN Append(term, e) ELSE term
        /\ isEnded' = (isEnded \/ (e = 0 /\ Ends))
    /\ UNCHANGED <<out, running, step, snap, loads>>

Next == Output \/ Reap \/ Reload \/ List \/ Ask \/ ReadScrollback \/ Adopt \/ Hear
Spec == Init /\ [][Next]_avars

-----------------------------------------------------------------------------
\* However the snapshot, the chunks and a reload fall, the terminal shows every chunk it has once
\* and in order, and from the first one unless there was nothing to replay it from.
ShownOnce == \A i \in 2 .. Len(term) : term[i] = term[i - 1] + 1

\* A pane whose process is gone says so, though its exit came before the pane.
EndIsKnown ==
    step = "adopted" /\ ~ running /\ (\A i \in DOMAIN events : events[i] # 0) => isEnded
=============================================================================
