-------------------------------- MODULE Notices ------------------------------
(***************************************************************************)
(* How one machine hears of a handoff: an operation reads the clock, then  *)
(* commits, then announces, each on a thread of its own; a connection      *)
(* subscribes, sends a list, and forwards what is not older than what it   *)
(* sent; the window applies it (serve.rs, store.rs, handoff.ts).           *)
(***************************************************************************)
EXTENDS Naturals, Sequences

CONSTANTS
    Life, Hold, Last,   \* an offer's time to live, a claim's, and the end of time
    StepsBack,          \* whether the server's clock may step back
    Plans               \* who listens, and the bounds: parts put, connections lost, lookups that fail

VARIABLES
    role,               \* who listens: the "sender", the "taker" or another "machine" of the taker's
    now, row, offered,  \* the clock; the server's record; whether it was offered once
    work,               \* each thread: what it does, its stamp, and whether that is committed
    conn, queue, last,  \* the listener's connection, its channel from the hub, the newest it was sent
    rec,                \* the window's record
    missed, closed,     \* history: a notice not told since the last list; the window heard of an end
    todo                \* what the behaviour may still spend
ntvars == <<role, now, row, offered, work, conn, queue, last, rec, missed, closed, todo>>

Threads == {"sender", "taker", "sweeper"}
Open == {"uploading", "offered", "claimed"}
GivenUp == {"recalled", "declined", "expired"}
NoRow == [state |-> "absent", upd |-> 0, exp |-> 0]
NoRec == [state |-> "none", upd |-> 0]
Idle == [op |-> "none", at |-> 0, info |-> NoRow]
Out == role = "sender"

\* `state_rank`
Rank(s) == CASE s = "uploading" -> 0 [] s = "offered" -> 1 [] s = "claimed" -> 2 [] OTHER -> 3
Older(i, j) == Rank(i.state) < Rank(j.state) \/ (Rank(i.state) = Rank(j.state) /\ i.upd < j.upd)

\* The variant forwards whatever comes.
AnyNews(l, i) == TRUE
\* `fresh`
Fresh(l, i) == l = NoRow \/ ~ Older(i, l)
\* The variant starts a connection's memory empty.
Unseeded(l, r) == l
\* The list is the first thing a connection remembers to have sent.
Seeded(l, r) == IF r = NoRow THEN l ELSE r

\* `applyInfo`: older words are dropped, a verdict made here stands, only an open record is rebuilt, and a
\* recipient's row goes once it is given up or another machine's.
ApplyInfo(r, i) ==
    LET mine == role # "machine" IN
    IF r.state # "none" /\ r.upd > i.upd THEN r ELSE
    CASE r.state = "returned" /\ i.state \in Open -> r
      [] r.state = "none" -> IF i.state = "offered" \/ (Out /\ i.state \in Open) THEN [state |-> i.state, upd |-> i.upd] ELSE r
      [] r.state # "none" /\ ~ Out /\ (i.state \in GivenUp \/ (i.state = "done" /\ ~ mine)) -> NoRec
      [] OTHER -> [state |-> i.state, upd |-> i.upd]
\* `reduce` on a list: a send the server no longer holds is back; a row not received is gone.
ApplyList(r, i) ==
    IF i # NoRow THEN ApplyInfo(r, i)
    ELSE IF Out THEN (IF r.state \in Open THEN [r EXCEPT !.state = "returned"] ELSE r)
    ELSE IF r.state = "done" THEN r ELSE NoRec

Spend(what) == todo[what] > 0 /\ todo' = [todo EXCEPT ![what] = @ - 1]

Init ==
    /\ todo \in Plans /\ role = todo.role
    /\ now = 0 /\ row = [state |-> "uploading", upd |-> 0, exp |-> Life] /\ offered = FALSE
    /\ work = [t \in Threads |-> Idle]
    /\ conn = "off" /\ queue = <<>> /\ last = NoRow
    /\ rec = IF role = "sender" THEN [state |-> "uploading", upd |-> 0] ELSE NoRec
    /\ missed = FALSE /\ closed = FALSE

\* What a thread may do to the record, with the clock it read (handoff_put .. handoff_sweep).
Allowed(op, at) ==
    CASE op \in {"put", "seal"} -> row.state = "uploading" /\ row.exp > at
      [] op = "recalled" -> row.state \in {"uploading", "offered"}
      [] op = "claimed" -> row.state = "offered" /\ row.exp > at
      [] op = "done" -> row.state = "claimed" /\ row.exp > at
      [] op = "declined" -> row.state \in {"offered", "claimed"}
      [] op = "expired" -> row.state \in Open /\ row.exp <= at
Ops(t) ==
    CASE t = "sender" -> {"put", "seal", "recalled"}
      [] t = "taker" -> {"claimed", "done", "declined"}
      [] t = "sweeper" -> {"expired"}
Becomes(op) == CASE op = "put" -> "uploading" [] op = "seal" -> "offered" [] OTHER -> op

\* `handoff` reads the clock before it waits for the store.  Only what the record allows is asked: what it does
\* not allow yet is refused, and an offer's time only grows.
Takes(t, op) ==
    /\ op \in Ops(t) /\ work[t] = Idle /\ Allowed(op, now)
    /\ t = role => conn = "live"
    /\ IF op = "put" THEN Spend("puts") ELSE UNCHANGED todo
    /\ work' = [work EXCEPT ![t] = [Idle EXCEPT !.op = op, !.at = now]]
    /\ UNCHANGED <<role, now, row, offered, conn, queue, last, rec, missed, closed>>
\* The guarded update, or a refusal; a claim holds the offer open.
Commits(t) ==
    LET op == work[t].op  at == work[t].at
        r == [state |-> Becomes(op), upd |-> at, exp |-> IF op = "claimed" /\ row.exp < at + Hold THEN at + Hold ELSE row.exp] IN
    /\ op # "none" /\ work[t].info = NoRow
    /\ IF Allowed(op, at)
       THEN /\ row' = r /\ offered' = (offered \/ op = "seal")
            /\ work' = [work EXCEPT ![t].info = r]
       ELSE work' = [work EXCEPT ![t] = Idle] /\ UNCHANGED <<row, offered>>
    /\ UNCHANGED <<role, now, conn, queue, last, rec, missed, closed, todo>>
\* `handoff_reached_recipient`: the recipient hears of what was offered once.
Reached(i) == i.state # "uploading" /\ (i.state \in GivenUp \ {"declined"} => offered)
Announces(t) ==
    LET i == work[t].info IN
    /\ i # NoRow
    /\ \E told \in BOOLEAN :
        /\ Out => told
        /\ IF told THEN UNCHANGED todo ELSE Reached(i) /\ Spend("misses")
        /\ missed' = (missed \/ ~ told)
        /\ queue' = IF conn # "off" /\ told /\ (Out \/ Reached(i)) THEN Append(queue, i) ELSE queue
    /\ work' = [work EXCEPT ![t] = Idle]
    /\ UNCHANGED <<role, now, row, offered, conn, last, rec, closed>>

\* The listener's connection: `join`, then the list, then the hub's words one by one.  What it sends the window
\* hears (`reduce`), or it is lost with the socket as if it were not sent.
Hears(r, i) == rec' = r /\ closed' = (closed \/ i.state \in GivenUp \cup {"done"})
Join ==
    /\ conn = "off" /\ conn' = "joined"
    /\ UNCHANGED <<role, now, row, offered, work, queue, last, rec, missed, closed, todo>>
Lists ==
    LET r == IF Out \/ offered THEN row ELSE NoRow IN
    /\ conn = "joined" /\ conn' = "live"
    /\ last' = Seeded(last, r) /\ Hears(ApplyList(rec, r), r) /\ missed' = FALSE
    /\ UNCHANGED <<role, now, row, offered, work, queue, todo>>
Forwards ==
    LET i == Head(queue) IN
    /\ conn = "live" /\ queue # <<>> /\ queue' = Tail(queue)
    /\ role \in Threads => work[role] = Idle
    /\ IF Fresh(last, i) THEN last' = i /\ Hears(ApplyInfo(rec, i), i) ELSE UNCHANGED <<last, rec, closed>>
    /\ UNCHANGED <<role, now, row, offered, work, conn, missed, todo>>
Lost ==
    /\ conn # "off" /\ Spend("drops")
    /\ conn' = "off" /\ queue' = <<>> /\ last' = NoRow
    /\ UNCHANGED <<role, now, row, offered, work, rec, missed, closed>>

Tick ==
    /\ IF StepsBack THEN now' \in (0..Last) \ {now} ELSE now < Last /\ now' = now + 1
    /\ UNCHANGED <<role, row, offered, work, conn, queue, last, rec, missed, closed, todo>>
\* A week after it closed the row goes; by then every thread is done and what was said is heard.
Purge ==
    /\ row.state \in GivenUp \cup {"done"} /\ work = [t \in Threads |-> Idle] /\ queue = <<>>
    /\ row' = NoRow
    /\ UNCHANGED <<role, now, offered, work, conn, queue, last, rec, missed, closed, todo>>

Next ==
    \/ \E t \in Threads : (\E op \in Ops(t) : Takes(t, op)) \/ Commits(t) \/ Announces(t)
    \/ Join \/ Lists \/ Forwards \/ Lost \/ Tick \/ Purge

Spec == Init /\ [][Next]_ntvars

\* What the window should show of a record.
Shows(r) ==
    IF Out THEN rec.state = r.state \/ (r = NoRow /\ rec.state \notin Open)
    ELSE CASE r.state = "offered" -> rec.state = "offered"
           [] r.state = "claimed" -> rec.state \in {"claimed", "none"}
           [] r.state \in {"done", "absent"} -> rec.state \in (IF role = "taker" THEN {"done", "none"} ELSE {"none"})
           [] OTHER -> rec.state = "none"
Said == conn = "live" /\ queue = <<>> /\ ~ missed /\ \A t \in Threads : work[t].info = NoRow

(* However threads overtake each other and connections come and go: once all that was committed is said and
   heard, the window shows the record as it is, and a handoff it heard the end of never comes up again. *)
NoticesAreTrue == (Said => Shows(row)) /\ (closed => rec.state \notin Open)
=============================================================================
