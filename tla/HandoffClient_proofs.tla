------------------------ MODULE HandoffClient_proofs ------------------------
(***************************************************************************)
(* Proofs about HandoffClient: one conversation is not carried on at both  *)
(* ends, and what the sender archived the taker has, whatever is lost,     *)
(* refused, restarted, switched off or forgotten in between.  Then, taken  *)
(* in with INSTANCE, six parts that share nothing with it: WtDialog,       *)
(* Review, Servers, DiffView, Dashboard, Notices.                          *)
(***************************************************************************)
EXTENDS HandoffClient, FiniteSetTheorems, SequenceTheorems, TLAPS

Alive == Open \cup {"done"}
Told == Alive \cup GivenUp
Reasons == {"off", "bad_target", "quota", "gone"}
Msgs ==
    [k : {"info"}, state : Told, upd : Nat] \cup [k : {"list"}, state : Told \cup {"absent"}, upd : Nat]
      \cup [k : {"welcome"}, on : BOOLEAN] \cup [k : {"refused"}, reason : Reasons]
Recs ==
    [state : Told \cup {"none", "packing", "returned", "refused"}, sent : BOOLEAN, settled : BOOLEAN,
     unknown : BOOLEAN, upd : Nat]
Kinds == {"lost", "drops", "restarts", "fails", "purges", "switches", "silences"}
Purse ==
    [badTarget : BOOLEAN, lost : Nat, drops : Nat, restarts : Nat, fails : Nat, purges : Nat, switches : Nat,
     silences : Nat]

\* What a budget is: nothing else is asked of the constant.
BudgetsTyped == Budgets \subseteq Purse

TypeInv ==
    /\ srv \in [state : Told \cup {"absent"}, upd : Nat]
    /\ caps \in BOOLEAN
    /\ conn \in [Machines -> BOOLEAN]
    /\ net \in [Machines -> Seq(Msgs)]
    /\ rec \in Recs
    /\ outbox \in {"none", "packed", "named", "acked", "refused"}
    /\ shelf \in {"live", "row", "gone"}
    /\ win \in [sheet : {"none", "review", "sending", "sent", "kept"}, offered : BOOLEAN, recalling : BOOLEAN,
                settling : {"no", "done", "back"}, heard : {"none", "on", "off"}]
    /\ inrec \in [state : Told \cup {"none"}, chosen : BOOLEAN, settled : BOOLEAN, upd : Nat]
    /\ inbox \in {"none", "fetching", "fetched", "done"}
    /\ copy \in {"no", "installing", "failed", "live"}
    /\ refusing \in BOOLEAN
    /\ hist \in [handed : BOOLEAN, warned : BOOLEAN, silent : BOOLEAN, forgot : BOOLEAN]
    /\ budget \in Purse

-----------------------------------------------------------------------------
(* What waits to be heard.                                                  *)

Tells(x, S) == x.k \in {"info", "list"} /\ x.state \in S
Has(q, S) == \E i \in 1 .. Len(q) : Tells(q[i], S)
Bad(x) == x.k = "refused" /\ x.reason = "bad_target"
HasBad(q) == \E i \in 1 .. Len(q) : Bad(q[i])

\* Nothing is said of a handoff that goes on after it was said to be given up.
Ordered(q) == \A i, j \in 1 .. Len(q) : Tells(q[i], GivenUp) /\ Tells(q[j], Alive) => j < i

\* What is on its way to a machine is no newer than the row.
Behind(q, s, handed) ==
    /\ Ordered(q)
    /\ Has(q, GivenUp) => s.state \in GivenUp
    /\ Has(q, {"done"}) => handed
    /\ s.upd = 0 => ~ Has(q, Told)
Queues == \A m \in Machines : Behind(net[m], srv, hist.handed)

\* A conversation is handed over once, by a row that ends there.
Server ==
    /\ srv.upd = 0 => srv.state = "absent" /\ ~ hist.handed
    /\ hist.handed => srv.state \in {"done", "absent"}
    /\ srv.state = "done" => hist.handed

\* An offer to nobody is refused, and no other is.
Targets ==
    IF budget.badTarget THEN srv.upd = 0
    ELSE rec.state # "refused" /\ ~ HasBad(net["sender"])

-----------------------------------------------------------------------------
(* The sender.                                                              *)

\* The staging goes with its record: none without one, packed and named while it packs, acknowledged
\* once the record has heard of the row.
Staging ==
    /\ rec.state = "none" => outbox = "none"
    /\ outbox \in {"packed", "named"} => rec.state = "packing"
    /\ outbox = "acked" => rec.state \notin {"none", "packing"}
    /\ outbox = "packed" => srv.upd = 0
    /\ win.sheet = "review" => outbox = "none" /\ srv.upd = 0 /\ rec.state \in {"none", "packing"}
    /\ rec.state = "packing" => shelf = "row" /\ rec.upd = 0 /\ ~ hist.warned

\* What is taken for done is done, and its row goes with it.
Outcome ==
    /\ rec.state = "done" \/ win.settling = "done" \/ shelf = "gone" => hist.handed
    /\ rec.settled => hist.handed /\ outbox = "none" /\ rec.state \notin {"none", "packing"} /\ (shelf = "gone" \/ hist.warned)

\* What is taken for given up will not be handed over.
Ended ==
    rec.state \in GivenUp \/ win.settling = "back" =>
        /\ rec.state \in GivenUp
        /\ srv.state \in GivenUp \cup {"absent"}
        /\ ~ hist.handed
        /\ outbox \in {"none", "acked"}
        /\ ~ Has(net["sender"], Alive)

\* What may be taken is staged here, until it is archived or the person was warned.
Kept ==
    srv.state \in {"offered", "claimed"} \/ hist.handed =>
        outbox = "acked" \/ (outbox = "none" /\ (hist.warned \/ shelf = "gone"))

\* ... and its row is not to be resumed.
Locked == outbox # "none" /\ rec.state \notin GivenUp => shelf \in {"row", "gone"} \/ hist.warned

Sends == ~ budget.badTarget => Staging /\ Ended /\ Kept /\ Locked

-----------------------------------------------------------------------------
(* The taker.                                                               *)

\* What was handed over is known here and whole, or open.
Holds ==
    hist.handed /\ ~ hist.forgot =>
        inrec.state # "none" /\ (copy = "live" \/ inbox \in {"fetched", "done"})

IInv == TypeInv /\ Server /\ Queues /\ Targets /\ Sends /\ Outcome /\ Holds

-----------------------------------------------------------------------------
(* Queues.                                                                  *)

\* What a queue says with one message more.
LEMMA Appends ==
    ASSUME NEW q \in Seq(Msgs), NEW x \in Msgs
    PROVE  /\ Append(q, x) \in Seq(Msgs)
           /\ \A S : Has(Append(q, x), S) => Has(q, S) \/ Tells(x, S)
           /\ HasBad(Append(q, x)) => HasBad(q) \/ Bad(x)
           /\ Ordered(q) /\ ~ (Has(q, GivenUp) /\ Tells(x, Alive)) => Ordered(Append(q, x))
  <1> DEFINE r == Append(q, x)
  <1>1. /\ r \in Seq(Msgs) /\ Len(r) = Len(q) + 1 /\ r[Len(q) + 1] = x
        /\ \A i \in 1 .. Len(q) : r[i] = q[i]
    BY AppendProperties
  <1>2. Len(q) \in Nat
    BY LenProperties
  <1> HIDE DEF r
  <1>3. \A i \in 1 .. Len(r) : (i \in 1 .. Len(q) /\ r[i] = q[i]) \/ (i = Len(q) + 1 /\ r[i] = x)
    BY <1>1, <1>2
  <1>4. ASSUME NEW S, Has(r, S) PROVE Has(q, S) \/ Tells(x, S)
    BY <1>3, <1>4 DEF Has
  <1>5. HasBad(r) => HasBad(q) \/ Bad(x)
    BY <1>3 DEF HasBad
  <1>6. ASSUME Ordered(q), ~ (Has(q, GivenUp) /\ Tells(x, Alive)), NEW i \in 1 .. Len(r), NEW j \in 1 .. Len(r),
               Tells(r[i], GivenUp), Tells(r[j], Alive)
        PROVE  j < i
    <2>1. CASE j = Len(q) + 1 /\ r[j] = x
      <3>1. ~ Has(q, GivenUp) /\ ~ Tells(x, GivenUp)
        BY <1>6, <2>1 DEF Tells, Alive, Open, GivenUp
      <3> QED
        BY <3>1, <1>3, <1>6 DEF Has
    <2>2. CASE j \in 1 .. Len(q) /\ r[j] = q[j] /\ i \in 1 .. Len(q) /\ r[i] = q[i]
      BY <2>2, <1>6 DEF Ordered
    <2>3. CASE j \in 1 .. Len(q) /\ i = Len(q) + 1
      BY <2>3, <1>2
    <2> QED
      BY <1>3, <2>1, <2>2, <2>3
  <1>7. Ordered(q) /\ ~ (Has(q, GivenUp) /\ Tells(x, Alive)) => Ordered(r)
    BY <1>6 DEF Ordered
  <1> QED
    BY <1>1, <1>4, <1>5, <1>7 DEF r

\* What a queue says once its head is heard.
LEMMA Tails ==
    ASSUME NEW q \in Seq(Msgs), q # <<>>
    PROVE  /\ Head(q) \in Msgs /\ Tail(q) \in Seq(Msgs)
           /\ \A S : (Has(Tail(q), S) => Has(q, S)) /\ (Tells(Head(q), S) => Has(q, S))
           /\ (HasBad(Tail(q)) => HasBad(q)) /\ (Bad(Head(q)) => HasBad(q))
           /\ Ordered(q) => Ordered(Tail(q))
           /\ Ordered(q) /\ Tells(Head(q), GivenUp) => ~ Has(Tail(q), Alive)
  <1> DEFINE r == Tail(q)
  <1> DEFINE h == Head(q)
  <1>1. /\ h \in Msgs /\ r \in Seq(Msgs) /\ Len(r) = Len(q) - 1 /\ h = q[1]
        /\ \A i \in 1 .. Len(r) : r[i] = q[i + 1]
    BY HeadTailProperties
  <1>2. Len(q) \in Nat /\ Len(q) # 0
    BY LenProperties, EmptySeq
  <1> HIDE DEF r, h
  <1>3. 1 \in 1 .. Len(q) /\ \A i \in 1 .. Len(r) : i + 1 \in 1 .. Len(q) /\ r[i] = q[i + 1] /\ i \in Nat /\ i # 0
    BY <1>1, <1>2
  <1>4. ASSUME NEW S PROVE (Has(r, S) => Has(q, S)) /\ (Tells(h, S) => Has(q, S))
    BY <1>1, <1>3 DEF Has
  <1>5. (HasBad(r) => HasBad(q)) /\ (Bad(h) => HasBad(q))
    BY <1>1, <1>3 DEF HasBad
  <1>6. ASSUME Ordered(q), NEW i \in 1 .. Len(r), NEW j \in 1 .. Len(r), Tells(r[i], GivenUp), Tells(r[j], Alive)
        PROVE  j < i
    <2>1. j + 1 < i + 1
      BY <1>3, <1>6 DEF Ordered
    <2> QED
      BY <2>1, <1>3
  <1>7. ASSUME Ordered(q), Tells(h, GivenUp), NEW j \in 1 .. Len(r), Tells(r[j], Alive)
        PROVE  FALSE
    <2>1. j + 1 < 1
      BY <1>1, <1>3, <1>7 DEF Ordered
    <2> QED
      BY <2>1, <1>3
  <1> QED
    BY <1>1, <1>4, <1>5, <1>6, <1>7 DEF Ordered, Has, r, h

\* An empty queue says nothing; that of a new connection says how the row stands.
LEMMA Fresh ==
    ASSUME NEW s \in [state : Told \cup {"absent"}, upd : Nat], NEW h \in BOOLEAN, NEW on \in BOOLEAN,
           s.upd = 0 => s.state = "absent", s.state = "done" => h
    PROVE  LET q == <<[k |-> "welcome", on |-> on], [k |-> "list", state |-> s.state, upd |-> s.upd]>>
           IN  /\ <<>> \in Seq(Msgs) /\ Behind(<<>>, s, h) /\ ~ HasBad(<<>>) /\ ~ Has(<<>>, Alive)
               /\ q \in Seq(Msgs) /\ Behind(q, s, h) /\ ~ HasBad(q)
               /\ \A S : Has(q, S) => s.state \in S
  <1> DEFINE w == [k |-> "welcome", on |-> on]
  <1> DEFINE l == [k |-> "list", state |-> s.state, upd |-> s.upd]
  <1>1. w \in Msgs /\ l \in Msgs
    BY DEF Msgs
  <1>2. /\ \A S : ~ Tells(w, S) /\ (Tells(l, S) => s.state \in S)
        /\ ~ Bad(w) /\ ~ Bad(l)
    BY DEF Tells, Bad
  <1> HIDE DEF w, l
  <1>3. /\ <<>> \in Seq(Msgs) /\ Len(<<>>) = 0 /\ <<w, l>> \in Seq(Msgs) /\ Len(<<w, l>>) = 2
        /\ <<w, l>>[1] = w /\ <<w, l>>[2] = l
    BY <1>1
  <1>4. Behind(<<>>, s, h) /\ ~ HasBad(<<>>) /\ ~ Has(<<>>, Alive)
    BY <1>3 DEF Behind, Ordered, Has, HasBad
  <1>5. ~ HasBad(<<w, l>>) /\ \A S : Has(<<w, l>>, S) => s.state \in S
    BY <1>2, <1>3 DEF Has, HasBad
  <1>6. Ordered(<<w, l>>)
    <2>1. ASSUME NEW i \in 1 .. 2, NEW j \in 1 .. 2, Tells(<<w, l>>[i], GivenUp), Tells(<<w, l>>[j], Alive) PROVE FALSE
      <3>1. i = 2 /\ j = 2
        BY <2>1, <1>2, <1>3
      <3>2. s.state \in GivenUp /\ s.state \in Alive
        BY <2>1, <3>1, <1>2, <1>3
      <3> QED
        BY <3>2 DEF Alive, Open, GivenUp
    <2> QED
      BY <2>1, <1>3 DEF Ordered
  <1>7. Behind(<<w, l>>, s, h)
    <2>1. "absent" \notin Told
      BY DEF Told, Alive, Open, GivenUp
    <2> QED
      BY <1>5, <1>6, <2>1 DEF Behind
  <1> QED
    BY <1>3, <1>4, <1>5, <1>7 DEF w, l

\* The row moves, told or not.
LEMMA BehindMoves ==
    ASSUME NEW q \in Seq(Msgs), NEW s \in [state : Told \cup {"absent"}, upd : Nat], NEW h \in BOOLEAN,
           NEW t \in Told, t \in Alive => s.state \notin GivenUp, Behind(q, s, h)
    PROVE  LET u == [state |-> t, upd |-> s.upd + 1]
               x == [k |-> "info", state |-> t, upd |-> s.upd + 1]
           IN  /\ x \in Msgs
               /\ Behind(q, u, h \/ t = "done")
               /\ Behind(Append(q, x), u, h \/ t = "done")
  <1> DEFINE u == [state |-> t, upd |-> s.upd + 1]
  <1> DEFINE x == [k |-> "info", state |-> t, upd |-> s.upd + 1]
  <1>1. x \in Msgs
    BY DEF Msgs
  <1>2. \A S : Tells(x, S) => t \in S
    BY DEF Tells
  <1>3. u.upd # 0 /\ u.state = t
    OBVIOUS
  <1>4. t \in Alive \/ t \in GivenUp
    BY DEF Told
  <1> HIDE DEF u, x
  <1>5. Behind(q, u, h \/ t = "done")
    BY <1>3, <1>4 DEF Behind
  <1>6. ~ (Has(q, GivenUp) /\ Tells(x, Alive))
    BY <1>2 DEF Behind
  <1>7. Ordered(Append(q, x)) /\ \A S : Has(Append(q, x), S) => Has(q, S) \/ Tells(x, S)
    BY <1>1, <1>6, Appends DEF Behind
  <1>8. Behind(Append(q, x), u, h \/ t = "done")
    BY <1>2, <1>3, <1>5, <1>7 DEF Behind
  <1> QED
    BY <1>1, <1>5, <1>8 DEF u, x

-----------------------------------------------------------------------------
(* The server.                                                              *)

\* What a command does: nothing, a refusal to the one that asked, or a move of the row from one of
\* some states to another; the machines are told behind what q holds.
Asked(q, m, from, to) ==
    \/ srv' = srv /\ hist' = hist /\ net' = q
    \/ \E r \in Reasons : (r = "bad_target" => budget.badTarget) /\ Refuse(q, m, r)
    \/ srv.state \in from /\ (srv.state = "absent" => ~ budget.badTarget) /\ Move(q, to)

\* The row has moved, or not.
Moved(from, to) ==
    \/ srv' = srv /\ hist' = hist
    \/ /\ srv.state \in from /\ (srv.state = "absent" => ~ budget.badTarget)
       /\ srv' = [state |-> to, upd |-> srv.upd + 1]
       /\ hist' = [hist EXCEPT !.handed = @ \/ to = "done"]

LEMMA AskedKeeps ==
    ASSUME TypeInv, Server, NEW q \in [Machines -> Seq(Msgs)], \A m \in Machines : Behind(q[m], srv, hist.handed),
           NEW asker \in Machines, NEW from, NEW to \in Told, Asked(q, asker, from, to),
           srv.state \in from => ~ hist.handed /\ (to \in Alive => srv.state \notin GivenUp)
    PROVE  /\ net' \in [Machines -> Seq(Msgs)]
           /\ srv' \in [state : Told \cup {"absent"}, upd : Nat]
           /\ hist' \in [handed : BOOLEAN, warned : BOOLEAN, silent : BOOLEAN, forgot : BOOLEAN]
           /\ Server' /\ Queues' /\ Moved(from, to)
           /\ HasBad(net'["sender"]) => HasBad(q["sender"]) \/ budget.badTarget
           /\ \A S : Has(net'["sender"], S) => Has(q["sender"], S) \/ (to \in S /\ srv.state \in from)
  <1> USE DEF Machines
  <1>1. CASE srv' = srv /\ hist' = hist /\ net' = q
    BY <1>1 DEF Moved, TypeInv, Server, Queues
  <1>2. CASE \E r \in Reasons : (r = "bad_target" => budget.badTarget) /\ Refuse(q, asker, r)
    <2>1. PICK r \in Reasons : (r = "bad_target" => budget.badTarget) /\ Refuse(q, asker, r)
      BY <1>2
    <2> DEFINE x == [k |-> "refused", reason |-> r]
    <2>2. x \in Msgs /\ (Bad(x) => r = "bad_target") /\ \A S : ~ Tells(x, S)
      BY DEF Msgs, Bad, Tells
    <2>3. srv' = srv /\ hist' = hist /\ net' = Say(q, asker, x)
      BY <2>1 DEF Refuse
    <2> HIDE DEF x
    <2>4. \A m \in Machines : net'[m] = q[m] \/ net'[m] = Append(q[m], x)
      BY <2>3 DEF Say
    <2>5. net' \in [Machines -> Seq(Msgs)]
      <3>1. Append(q[asker], x) \in Seq(Msgs)
        BY <2>2, Appends
      <3> QED
        BY <2>3, <3>1 DEF Say
    <2>8. ASSUME NEW m \in Machines
          PROVE  /\ \A S : Has(Append(q[m], x), S) => Has(q[m], S)
                 /\ HasBad(Append(q[m], x)) => HasBad(q[m]) \/ Bad(x)
                 /\ Ordered(q[m]) => Ordered(Append(q[m], x))
      <3>1. q[m] \in Seq(Msgs)
        OBVIOUS
      <3>2. ~ Tells(x, Alive)
        BY <2>2
      <3>3. \A S : ~ Tells(x, S)
        BY <2>2
      <3> QED
        BY <3>1, <3>2, <3>3, <2>2, Appends
    <2>6. \A m \in Machines : Behind(net'[m], srv, hist.handed)
      BY <2>4, <2>8 DEF Behind
    <2>7. /\ HasBad(net'["sender"]) => HasBad(q["sender"]) \/ budget.badTarget
          /\ \A S : Has(net'["sender"], S) => Has(q["sender"], S)
      BY <2>1, <2>2, <2>4, <2>8
    <2> QED
      BY <2>3, <2>5, <2>6, <2>7 DEF Moved, TypeInv, Server, Queues
  <1>3. CASE srv.state \in from /\ (srv.state = "absent" => ~ budget.badTarget) /\ Move(q, to)
    <2> DEFINE x == [k |-> "info", state |-> to, upd |-> srv.upd + 1]
    <2> DEFINE u == [state |-> to, upd |-> srv.upd + 1]
    <2>1. /\ srv' = u /\ Info = x /\ hist' = [hist EXCEPT !.handed = @ \/ to = "done"]
          /\ net' = Say(Say(q, "sender", Info), "taker", Info)
      BY <1>3 DEF Move, Info
    <2>2. srv \in [state : Told \cup {"absent"}, upd : Nat] /\ hist.handed \in BOOLEAN /\ ~ hist.handed
      BY <1>3 DEF TypeInv
    <2>3. to \in Alive => srv.state \notin GivenUp
      BY <1>3
    <2>4. /\ x \in Msgs
          /\ \A m \in Machines : Behind(q[m], u, hist.handed \/ to = "done")
                                 /\ Behind(Append(q[m], x), u, hist.handed \/ to = "done")
      BY <2>2, <2>3, BehindMoves
    <2>5. ~ Bad(x) /\ (\A S : Tells(x, S) => to \in S) /\ u.state = to
      BY DEF Bad, Tells
    <2>6. u \in [state : Told \cup {"absent"}, upd : Nat] /\ u.upd # 0
      BY <2>2
    <2>7. hist'.handed = (hist.handed \/ to = "done")
          /\ hist' \in [handed : BOOLEAN, warned : BOOLEAN, silent : BOOLEAN, forgot : BOOLEAN]
      BY <2>1 DEF TypeInv
    <2>8. Moved(from, to)
      BY <1>3, <2>1 DEF Moved
    <2> HIDE DEF x, u
    <2>9. \A m \in Machines : Append(q[m], x) \in Seq(Msgs)
      BY <2>4, Appends
    <2>10. \A m \in Machines : net'[m] = q[m] \/ net'[m] = Append(q[m], x)
      BY <2>1 DEF Say
    <2>11. net' \in [Machines -> Seq(Msgs)]
      BY <2>1, <2>9 DEF Say
    <2>12. \A m \in Machines : Behind(net'[m], u, hist.handed \/ to = "done")
      BY <2>4, <2>10
    <2>13. /\ HasBad(net'["sender"]) => HasBad(q["sender"])
           /\ \A S : Has(net'["sender"], S) => Has(q["sender"], S) \/ to \in S
      <3>1. q["sender"] \in Seq(Msgs)
        OBVIOUS
      <3>2. /\ HasBad(Append(q["sender"], x)) => HasBad(q["sender"]) \/ Bad(x)
            /\ \A S : Has(Append(q["sender"], x), S) => Has(q["sender"], S) \/ Tells(x, S)
        BY <3>1, <2>4, Appends
      <3> QED
        BY <3>2, <2>5, <2>10
    <2>14. Server'
      BY <2>1, <2>2, <2>5, <2>6, <2>7 DEF Server, Told, Alive, Open, GivenUp
    <2> QED
      BY <1>3, <2>1, <2>5, <2>6, <2>7, <2>8, <2>11, <2>12, <2>13, <2>14 DEF Queues
  <1> QED
    BY <1>1, <1>2, <1>3 DEF Asked

\* What a budget is spent on changes nothing else of it.
LEMMA Spending ==
    ASSUME budget \in Purse, NEW kind \in Kinds, Spend(kind)
    PROVE  budget' \in Purse /\ budget'.badTarget = budget.badTarget
  <1> USE DEF Purse, Spend
  <1>1. CASE kind = "lost"
    BY <1>1
  <1>2. CASE kind = "drops"
    BY <1>2
  <1>3. CASE kind = "restarts"
    BY <1>3
  <1>4. CASE kind = "fails"
    BY <1>4
  <1>5. CASE kind = "purges"
    BY <1>5
  <1>6. CASE kind = "switches"
    BY <1>6
  <1>7. CASE kind = "silences"
    BY <1>7
  <1> QED
    BY <1>1, <1>2, <1>3, <1>4, <1>5, <1>6, <1>7 DEF Kinds

\* Each command, as what it asks of the row.
LEMMA Commands ==
    ASSUME TypeInv, NEW m \in Machines,
           NEW c \in {"offer", "recall", "claim", "decline", "complete"}, Command(m, c), c = "offer" => m = "sender"
    PROVE  /\ budget' \in Purse /\ budget'.badTarget = budget.badTarget
           /\ c = "offer" => Asked(net, m, {"absent"}, "uploading")
           /\ c = "recall" => Asked(net, m, {"uploading", "offered"}, "recalled")
           /\ c = "claim" => Asked(net, m, {"offered"}, "claimed")
           /\ c = "decline" => Asked(net, m, {"offered", "claimed"}, "declined")
           /\ c = "complete" => Asked(net, m, {"claimed"}, "done")
  <1>1. CASE Unheard /\ Spend("lost")
    BY <1>1, Spending DEF Unheard, Asked, Kinds, TypeInv
  <1>2. CASE Answer(m, c) /\ UNCHANGED budget
    <2>1. budget' \in Purse /\ budget'.badTarget = budget.badTarget
      BY <1>2 DEF TypeInv
    <2>2. CASE c = "offer"
      BY <1>2, <2>1, <2>2 DEF Answer, Offered, Asked, Refuse, Reasons
    <2>3. CASE c = "recall"
      BY <1>2, <2>1, <2>3 DEF Answer, Asked, Refuse, Reasons
    <2>4. CASE c = "claim"
      BY <1>2, <2>1, <2>4 DEF Answer, Asked, Refuse, Reasons
    <2>5. CASE c = "decline"
      BY <1>2, <2>1, <2>5 DEF Answer, Asked, Refuse, Reasons
    <2>6. CASE c = "complete"
      BY <1>2, <2>1, <2>6 DEF Answer, Asked, Refuse, Reasons
    <2> QED
      BY <2>2, <2>3, <2>4, <2>5, <2>6
  <1> QED
    BY <1>1, <1>2 DEF Command

-----------------------------------------------------------------------------
(* Steps that leave the sender's record and staging as they are.            *)

\* A record that keeps its state, or that is handed back.
Softly(r, q) ==
    /\ q \in Recs /\ q.settled = r.settled /\ q.upd = r.upd
    /\ q.state = r.state \/ (r.state \in Open /\ q.state = "returned")

\* Where the row may go while it does not start anew.
RowGoes ==
    \/ srv' = srv /\ hist'.handed = hist.handed
    \/ /\ srv.state \in Open /\ srv'.state \in Told /\ srv'.upd # 0
       /\ hist'.handed = (srv'.state = "done")
       /\ srv'.state = "offered" => outbox = "acked"
       /\ srv'.state \in {"claimed", "done"} => srv.state \in {"offered", "claimed"}
    \/ /\ srv.state \in GivenUp \cup {"done"} /\ srv'.state = "absent" /\ srv'.upd = srv.upd
       /\ hist'.handed = hist.handed

\* The sender's queue says nothing new of a handoff that is over, and no bad target.
NewsFits ==
    /\ Has(net["sender"], Alive)' => Has(net["sender"], Alive) \/ srv.state \in Open
    /\ HasBad(net["sender"])' => HasBad(net["sender"]) \/ budget.badTarget

LEMMA SenderStands ==
    ASSUME IInv, Softly(rec, rec'), RowGoes, NewsFits, outbox' = outbox,
           shelf' = shelf \/ (shelf = "live" /\ shelf' = "row") \/ (rec.state = "done" /\ shelf' = "gone"),
           win'.sheet = "review" => win.sheet = "review",
           \/ win'.settling \in {win.settling, "no"}
           \/ win'.settling = "done" /\ rec.state = "done"
           \/ win'.settling = "back" /\ rec.state \in GivenUp,
           budget'.badTarget = budget.badTarget, hist'.warned = hist.warned
    PROVE  Targets' /\ Sends' /\ Outcome'
  <1> USE DEF IInv
  <1>1. /\ Open \cap (GivenUp \cup {"done", "absent", "none", "packing", "returned", "refused"}) = {}
        /\ GivenUp \cap {"done", "absent", "none", "packing", "returned", "refused"} = {}
        /\ Told = Open \cup GivenUp \cup {"done"}
        /\ {"offered", "claimed"} \subseteq Open
    BY DEF Open, GivenUp, Told, Alive
  <1>2. /\ srv.upd = 0 => srv'.upd = 0
        /\ srv'.upd = 0 => srv.upd = 0
        /\ hist.handed => hist'.handed
    BY <1>1 DEF RowGoes, Server, Told
  <1>3. /\ rec'.state \in GivenUp <=> rec.state \in GivenUp
        /\ rec'.state = "done" <=> rec.state = "done"
        /\ rec'.state = "none" <=> rec.state = "none"
        /\ rec'.state = "packing" <=> rec.state = "packing"
        /\ rec'.state = "refused" <=> rec.state = "refused"
        /\ rec'.settled = rec.settled /\ rec'.upd = rec.upd
    BY <1>1 DEF Softly
  <1>4. Targets'
    BY <1>2, <1>3 DEF Targets, NewsFits
  <1>5. Outcome'
    BY <1>2, <1>3 DEF Outcome
  <1>6. ASSUME ~ budget.badTarget PROVE Staging' /\ Ended' /\ Kept' /\ Locked'
    <2>1. Staging /\ Ended /\ Kept /\ Locked
      BY <1>6 DEF Sends
    <2>2. Staging'
      BY <2>1, <1>2, <1>3 DEF Staging
    <2>3. Ended'
      <3>1. SUFFICES ASSUME rec'.state \in GivenUp \/ win'.settling = "back"
                     PROVE  /\ rec'.state \in GivenUp
                            /\ srv'.state \in GivenUp \cup {"absent"}
                            /\ ~ hist'.handed
                            /\ outbox' \in {"none", "acked"}
                            /\ ~ Has(net["sender"], Alive)'
        BY DEF Ended
      <3>2. rec.state \in GivenUp \/ win.settling = "back"
        BY <3>1, <1>3
      <3>3. /\ rec.state \in GivenUp /\ srv.state \in GivenUp \cup {"absent"} /\ ~ hist.handed
            /\ outbox \in {"none", "acked"} /\ ~ Has(net["sender"], Alive)
        BY <2>1, <3>2 DEF Ended
      <3>4. srv.state \notin Open
        BY <3>3, <1>1
      <3>5. srv'.state \in GivenUp \cup {"absent"} /\ ~ hist'.handed
        BY <3>3, <3>4 DEF RowGoes
      <3>6. ~ Has(net["sender"], Alive)'
        BY <3>3, <3>4 DEF NewsFits
      <3> QED
        BY <3>3, <3>5, <3>6, <1>3
    <2>4. Kept'
      <3>1. SUFFICES ASSUME srv'.state \in {"offered", "claimed"} \/ hist'.handed
                     PROVE  outbox = "acked" \/ (outbox = "none" /\ (hist.warned \/ shelf = "gone"))
        BY <1>5, <1>2 DEF Kept, Outcome
      <3>2. outbox = "acked" \/ srv.state \in {"offered", "claimed"} \/ hist.handed
        BY <3>1, <1>1 DEF RowGoes
      <3> QED
        BY <3>2, <2>1 DEF Kept
    <2>5. Locked'
      BY <2>1, <1>3 DEF Locked
    <2> QED
      BY <2>2, <2>3, <2>4, <2>5
  <1> QED
    BY <1>4, <1>5, <1>6 DEF Sends

\* What a handed-back or locked record becomes.
LEMMA CapsSoftly ==
    ASSUME NEW r \in Recs, NEW heard, NEW over
    PROVE  Softly(r, OnCaps(r, heard, over))
  <1> DEFINE off == heard = "off" \/ (heard = "none" /\ over /\ r.unknown)
  <1>1. \/ OnCaps(r, heard, over) = r
        \/ r.state \in Open /\ OnCaps(r, heard, over) = [r EXCEPT !.state = "returned"]
        \/ OnCaps(r, heard, over) = [r EXCEPT !.unknown = FALSE]
        \/ OnCaps(r, heard, over) = [r EXCEPT !.unknown = TRUE]
    <2>1. CASE r.state \notin Open
      BY <2>1 DEF OnCaps
    <2>2. CASE r.state \in Open /\ off
      BY <2>2 DEF OnCaps
    <2>3. CASE r.state \in Open /\ ~ off
      BY <2>3 DEF OnCaps
    <2> QED
      BY <2>1, <2>2, <2>3
  <1> QED
    BY <1>1 DEF Softly, Recs

\* A step of an offered row, as the sender's end takes it.
LEMMA RowMoves ==
    ASSUME IInv, NEW asker \in Machines, NEW from \in SUBSET Open, NEW to \in Told, Asked(net, asker, from, to),
           to = "offered" => outbox = "acked", to \in {"claimed", "done"} => from \subseteq {"offered", "claimed"}
    PROVE  /\ net' \in [Machines -> Seq(Msgs)]
           /\ srv' \in [state : Told \cup {"absent"}, upd : Nat]
           /\ hist' \in [handed : BOOLEAN, warned : BOOLEAN, silent : BOOLEAN, forgot : BOOLEAN]
           /\ Server' /\ Queues' /\ RowGoes /\ NewsFits
           /\ hist'.warned = hist.warned /\ hist'.forgot = hist.forgot
           /\ hist'.handed => hist.handed \/ (to = "done" /\ srv.state \in from)
  <1>1. TypeInv /\ Server /\ \A m \in Machines : Behind(net[m], srv, hist.handed)
    BY DEF IInv, Queues
  <1>2. net \in [Machines -> Seq(Msgs)] /\ srv.upd \in Nat
    BY <1>1 DEF TypeInv
  <1>3. Open \cap (GivenUp \cup {"done", "absent"}) = {}
    BY DEF Open, GivenUp
  <1>4. srv.state \in from => srv.state \in Open /\ ~ hist.handed /\ (to \in Alive => srv.state \notin GivenUp)
    BY <1>1, <1>3 DEF Server
  <1>5. /\ net' \in [Machines -> Seq(Msgs)]
        /\ srv' \in [state : Told \cup {"absent"}, upd : Nat]
        /\ hist' \in [handed : BOOLEAN, warned : BOOLEAN, silent : BOOLEAN, forgot : BOOLEAN]
        /\ Server' /\ Queues' /\ Moved(from, to)
        /\ HasBad(net'["sender"]) => HasBad(net["sender"]) \/ budget.badTarget
        /\ \A S : Has(net'["sender"], S) => Has(net["sender"], S) \/ (to \in S /\ srv.state \in from)
    BY <1>1, <1>2, <1>4, AskedKeeps
  <1>6. NewsFits
    BY <1>4, <1>5 DEF NewsFits
  <1>7. /\ hist'.warned = hist.warned /\ hist'.forgot = hist.forgot
        /\ hist'.handed => hist.handed \/ (to = "done" /\ srv.state \in from)
    BY <1>1, <1>5 DEF Moved, TypeInv
  <1>8. RowGoes
    <2>1. CASE srv' = srv /\ hist' = hist
      BY <2>1 DEF RowGoes
    <2>2. CASE srv.state \in from /\ srv' = [state |-> to, upd |-> srv.upd + 1]
               /\ hist' = [hist EXCEPT !.handed = @ \/ to = "done"]
      <3>1. srv'.state = to /\ srv'.upd # 0
        BY <2>2, <1>2
      <3>2. hist'.handed = (to = "done")
        BY <2>2, <1>1, <1>4 DEF TypeInv
      <3> QED
        BY <2>2, <3>1, <3>2, <1>4 DEF RowGoes
    <2> QED
      BY <1>5, <2>1, <2>2 DEF Moved
  <1> QED
    BY <1>5, <1>6, <1>7, <1>8

-----------------------------------------------------------------------------
(* The server's own steps, and the connection's.                            *)

LEMMA StepExpire ==
    ASSUME IInv, Expire PROVE IInv'
  <1> USE DEF IInv, Expire, sender, taker
  <1>1. Asked(net, "sender", Open, "expired") /\ "expired" \in Told /\ "sender" \in Machines
    BY DEF Asked, Open, GivenUp, Told, Machines
  <1>2. /\ net' \in [Machines -> Seq(Msgs)]
        /\ srv' \in [state : Told \cup {"absent"}, upd : Nat]
        /\ hist' \in [handed : BOOLEAN, warned : BOOLEAN, silent : BOOLEAN, forgot : BOOLEAN]
        /\ Server' /\ Queues' /\ RowGoes /\ NewsFits
        /\ hist'.warned = hist.warned /\ hist'.forgot = hist.forgot
        /\ hist'.handed => hist.handed
    BY <1>1, RowMoves
  <1>3. TypeInv'
    BY <1>2 DEF TypeInv
  <1>4. Softly(rec, rec')
    BY DEF TypeInv, Softly
  <1>5. Targets' /\ Sends' /\ Outcome'
    BY <1>2, <1>4, SenderStands
  <1>6. Holds'
    BY <1>2 DEF Holds
  <1> QED
    BY <1>2, <1>3, <1>5, <1>6

LEMMA StepPurge ==
    ASSUME IInv, Purge PROVE IInv'
  <1> USE DEF IInv, Purge, sender, taker
  <1>1. budget' \in Purse /\ budget'.badTarget = budget.badTarget
    BY Spending DEF Kinds, TypeInv
  <1>2. /\ srv' \in [state : Told \cup {"absent"}, upd : Nat] /\ srv'.state = "absent" /\ srv'.upd = srv.upd
        /\ hist' = hist /\ net' = net
    BY DEF TypeInv
  <1>3. TypeInv'
    BY <1>1, <1>2 DEF TypeInv
  <1>4. Server'
    BY <1>2 DEF Server
  <1>5. Queues'
    <2>1. srv'.upd = 0 => srv'.state = "absent"
      BY <1>2
    <2>2. Behind(<<>>, srv', hist.handed)
      BY <1>2, <2>1, Fresh DEF TypeInv
    <2> QED
      BY <1>2, <2>2 DEF Quiet, Queues
  <1>6. Softly(rec, rec') /\ RowGoes /\ NewsFits
    BY <1>2 DEF TypeInv, Softly, RowGoes, NewsFits
  <1>7. Targets' /\ Sends' /\ Outcome'
    BY <1>1, <1>2, <1>6, SenderStands
  <1>8. Holds'
    BY <1>2 DEF Holds
  <1> QED
    BY <1>3, <1>4, <1>5, <1>7, <1>8

LEMMA StepRestarted ==
    ASSUME IInv, Restarted PROVE IInv'
  <1> USE DEF IInv, Restarted, taker
  <1>1. budget' \in Purse /\ budget'.badTarget = budget.badTarget
    BY Spending DEF Kinds, TypeInv
  <1>2. /\ srv' \in [state : Told \cup {"absent"}, upd : Nat]
        /\ srv' = srv \/ (srv.state \in Open /\ srv'.state = "expired" /\ srv'.upd # 0)
    BY DEF TypeInv, Told, GivenUp
  <1>3. Softly(rec, rec')
    BY CapsSoftly DEF TypeInv
  <1>4. TypeInv'
    <2>1. net' \in [Machines -> Seq(Msgs)] /\ conn' \in [Machines -> BOOLEAN]
      OBVIOUS
    <2>2. win' \in [sheet : {"none", "review", "sending", "sent", "kept"}, offered : BOOLEAN, recalling : BOOLEAN,
                    settling : {"no", "done", "back"}, heard : {"none", "on", "off"}]
      BY DEF TypeInv
    <2>3. caps' \in BOOLEAN
      BY Zenon
    <2>4. outbox' = outbox /\ shelf' = shelf /\ inrec' = inrec /\ inbox' = inbox /\ copy' = copy
          /\ refusing' = refusing /\ hist' = hist /\ rec' \in Recs
      BY <1>3 DEF Softly
    <2> HIDE DEF Restarted
    <2> QED
      BY <1>1, <1>2, <2>1, <2>2, <2>3, <2>4 DEF TypeInv
  <1>5. "expired" \notin {"done", "absent"} /\ Open \cap {"done", "absent"} = {} /\ "expired" \in Told
    BY DEF Open, Told, GivenUp
  <1>6. Server'
    BY <1>2, <1>5 DEF Server
  <1>7. Queues' /\ ~ Has(net'["sender"], Alive) /\ ~ HasBad(net'["sender"])
    <2>1. srv'.upd = 0 => srv'.state = "absent"
      BY <1>6 DEF Server
    <2>2. srv'.state = "done" => hist.handed
      BY <1>6 DEF Server
    <2>3. srv' \in [state : Told \cup {"absent"}, upd : Nat] /\ hist.handed \in BOOLEAN /\ TRUE \in BOOLEAN
      BY <1>2 DEF TypeInv
    <2>4. Behind(<<>>, srv', hist.handed) /\ ~ HasBad(<<>>) /\ ~ Has(<<>>, Alive)
      <3> HIDE DEF IInv, Restarted
      <3> QED
        BY <2>1, <2>2, <2>3, Fresh
    <2> QED
      BY <2>4 DEF Queues, Machines
  <1>8. RowGoes /\ NewsFits
    <2>1. srv' = srv \/ (srv.state \in Open /\ srv'.state = "expired" /\ srv'.upd # 0 /\ ~ hist.handed)
      BY <1>2, <1>5 DEF Server
    <2>2. RowGoes
      BY <2>1, <1>5 DEF RowGoes, TypeInv
    <2> QED
      BY <2>2, <1>7 DEF NewsFits
  <1>9. win'.sheet = win.sheet /\ win'.settling = win.settling
    BY DEF TypeInv
  <1>10. Targets' /\ Sends' /\ Outcome'
    BY <1>1, <1>3, <1>8, <1>9, SenderStands
  <1>11. Holds'
    BY DEF Holds
  <1> QED
    BY <1>4, <1>6, <1>7, <1>10, <1>11

LEMMA StepSilence ==
    ASSUME IInv, Silence PROVE IInv'
  <1> USE DEF IInv, Silence, taker
  <1>1. budget' \in Purse /\ budget'.badTarget = budget.badTarget
    BY Spending DEF Kinds, TypeInv
  <1>2. Softly(rec, rec')
    BY CapsSoftly DEF TypeInv
  <1>3. /\ hist' \in [handed : BOOLEAN, warned : BOOLEAN, silent : BOOLEAN, forgot : BOOLEAN]
        /\ hist'.handed = hist.handed /\ hist'.warned = hist.warned /\ hist'.forgot = hist.forgot
    BY DEF TypeInv
  <1>4. TypeInv'
    <2>1. rec' \in Recs
      BY <1>2 DEF Softly
    <2>2. outbox' = outbox /\ shelf' = shelf /\ inrec' = inrec /\ inbox' = inbox /\ copy' = copy /\ win' = win
          /\ refusing' = refusing /\ srv' = srv /\ caps' = caps /\ net' = net /\ conn' = conn
      OBVIOUS
    <2> HIDE DEF Silence
    <2> QED
      BY <1>1, <1>3, <2>1, <2>2 DEF TypeInv
  <1>5. Server' /\ Queues'
    BY <1>3 DEF Server, Queues
  <1>6. RowGoes /\ NewsFits
    BY <1>3 DEF RowGoes, NewsFits
  <1>7. Targets' /\ Sends' /\ Outcome'
    BY <1>1, <1>2, <1>3, <1>6, SenderStands
  <1>8. Holds'
    BY <1>3 DEF Holds
  <1> QED
    BY <1>4, <1>5, <1>7, <1>8

LEMMA StepConnect ==
    ASSUME IInv, NEW m \in Machines, Connect(m) PROVE IInv'
  <1> USE DEF IInv, Connect, sender, taker
  <1> DEFINE q == <<[k |-> "welcome", on |-> caps], [k |-> "list", state |-> srv.state, upd |-> srv.upd]>>
  <1>1. /\ srv \in [state : Told \cup {"absent"}, upd : Nat] /\ hist.handed \in BOOLEAN /\ caps \in BOOLEAN
        /\ (srv.upd = 0 => srv.state = "absent") /\ (srv.state = "done" => hist.handed)
    BY DEF TypeInv, Server
  <1>2. /\ q \in Seq(Msgs) /\ Behind(q, srv, hist.handed) /\ ~ HasBad(q)
        /\ \A S : Has(q, S) => srv.state \in S
    BY <1>1, Fresh
  <1>3. net' = [net EXCEPT ![m] = q]
    OBVIOUS
  <1> HIDE DEF q
  <1>4. TypeInv'
    <2>1. net' \in [Machines -> Seq(Msgs)]
      BY <1>2, <1>3 DEF TypeInv
    <2>2. conn' \in [Machines -> BOOLEAN]
      BY DEF TypeInv
    <2> QED
      BY <2>1, <2>2 DEF TypeInv
  <1>5. \A n \in Machines : net'[n] = net[n] \/ net'[n] = q
    BY <1>3 DEF TypeInv
  <1>6. Server' /\ Queues'
    BY <1>2, <1>5 DEF Server, Queues
  <1>7. Softly(rec, rec') /\ RowGoes
    BY DEF Softly, TypeInv, RowGoes
  <1>8. NewsFits \/ srv.state = "done"
    <2>1. Alive = Open \cup {"done"} /\ "sender" \in Machines
      BY DEF Alive, Machines
    <2> QED
      BY <1>2, <1>5, <2>1 DEF NewsFits
  <1>9. CASE NewsFits
    <2>1. Targets' /\ Sends' /\ Outcome'
      BY <1>7, <1>9, SenderStands
    <2> QED
      BY <2>1, <1>4, <1>6 DEF Holds
  <1>10. CASE srv.state = "done"
    <2>1. hist.handed
      BY <1>10 DEF Server
    <2>2. Targets'
      BY <1>2, <1>5 DEF Targets, Machines
    <2>3. ~ budget.badTarget => ~ (rec.state \in GivenUp \/ win.settling = "back")
      BY <2>1 DEF Sends, Ended
    <2>4. Sends'
      BY <2>3 DEF Sends, Staging, Ended, Kept, Locked
    <2> QED
      BY <2>2, <2>4, <1>4, <1>6 DEF Outcome, Holds
  <1> QED
    BY <1>8, <1>9, <1>10

LEMMA StepDrop ==
    ASSUME IInv, NEW m \in Machines, Drop(m) PROVE IInv'
  <1> USE DEF IInv, Drop, taker
  <1>1. budget' \in Purse /\ budget'.badTarget = budget.badTarget
    BY Spending DEF Kinds, TypeInv
  <1>2. Softly(rec, rec')
    <2>1. CASE m = "sender"
      <3>1. rec \in Recs
        BY DEF TypeInv
      <3>2. rec' = OnCaps(rec, "none", FALSE)
        BY <2>1
      <3> QED
        BY <3>1, <3>2, CapsSoftly
    <2>2. CASE m # "sender"
      BY <2>2 DEF TypeInv, Softly
    <2> QED
      BY <2>1, <2>2
  <1>3. /\ <<>> \in Seq(Msgs) /\ Behind(<<>>, srv, hist.handed) /\ ~ HasBad(<<>>) /\ ~ Has(<<>>, Alive)
    BY Fresh DEF TypeInv, Server
  <1>4. /\ win' \in [sheet : {"none", "review", "sending", "sent", "kept"}, offered : BOOLEAN, recalling : BOOLEAN,
                     settling : {"no", "done", "back"}, heard : {"none", "on", "off"}]
        /\ win'.sheet = win.sheet /\ win'.settling = win.settling
    <2>1. win \in [sheet : {"none", "review", "sending", "sent", "kept"}, offered : BOOLEAN, recalling : BOOLEAN,
                   settling : {"no", "done", "back"}, heard : {"none", "on", "off"}]
      BY DEF TypeInv
    <2> HIDE DEF IInv
    <2> QED
      BY <2>1
  <1>5. TypeInv'
    <2>1. rec' \in Recs
      BY <1>2 DEF Softly
    <2>2. net' \in [Machines -> Seq(Msgs)] /\ conn' \in [Machines -> BOOLEAN]
      BY <1>3 DEF TypeInv
    <2>3. outbox' = outbox /\ shelf' = shelf /\ inrec' = inrec /\ inbox' = inbox /\ copy' = copy
          /\ refusing' = refusing /\ hist' = hist /\ srv' = srv /\ caps' = caps
      OBVIOUS
    <2> HIDE DEF Drop
    <2> QED
      BY <1>1, <1>4, <2>1, <2>2, <2>3 DEF TypeInv
  <1>6. \A n \in Machines : net'[n] = net[n] \/ net'[n] = <<>>
    BY DEF TypeInv
  <1>7. Server' /\ Queues'
    BY <1>3, <1>6 DEF Server, Queues
  <1>8. RowGoes /\ NewsFits
    BY <1>3, <1>6 DEF RowGoes, NewsFits, Machines
  <1>9. Targets' /\ Sends' /\ Outcome'
    BY <1>1, <1>2, <1>4, <1>8, SenderStands
  <1> QED
    BY <1>5, <1>7, <1>9 DEF Holds

-----------------------------------------------------------------------------
(* The sender's steps that leave its staging.                               *)

LEMMA StepTakeBack ==
    ASSUME IInv, TakeBack PROVE IInv'
  <1> USE DEF IInv, TakeBack, sender, taker
  <1>1. /\ budget' \in Purse /\ budget'.badTarget = budget.badTarget
        /\ Asked(net, "sender", {"uploading", "offered"}, "recalled")
    BY Commands DEF Machines
  <1>2. /\ net' \in [Machines -> Seq(Msgs)]
        /\ srv' \in [state : Told \cup {"absent"}, upd : Nat]
        /\ hist' \in [handed : BOOLEAN, warned : BOOLEAN, silent : BOOLEAN, forgot : BOOLEAN]
        /\ Server' /\ Queues' /\ RowGoes /\ NewsFits
        /\ hist'.warned = hist.warned /\ hist'.forgot = hist.forgot
        /\ hist'.handed => hist.handed
    <2>1. {"uploading", "offered"} \in SUBSET Open /\ "recalled" \in Told /\ "sender" \in Machines
      BY DEF Open, GivenUp, Told, Machines
    <2> QED
      BY <1>1, <2>1, RowMoves
  <1>3. TypeInv'
    BY <1>1, <1>2 DEF TypeInv
  <1>4. Softly(rec, rec')
    BY DEF TypeInv, Softly
  <1>5. Targets' /\ Sends' /\ Outcome'
    BY <1>1, <1>2, <1>4, SenderStands
  <1> QED
    BY <1>2, <1>3, <1>5 DEF Holds

LEMMA StepUpload ==
    ASSUME IInv, Upload PROVE IInv'
  <1> USE DEF IInv, Upload, sender, taker
  <1>1. Asked(net, "sender", {"uploading"}, "offered")
    BY DEF Asked
  <1>2. /\ net' \in [Machines -> Seq(Msgs)]
        /\ srv' \in [state : Told \cup {"absent"}, upd : Nat]
        /\ hist' \in [handed : BOOLEAN, warned : BOOLEAN, silent : BOOLEAN, forgot : BOOLEAN]
        /\ Server' /\ Queues' /\ RowGoes /\ NewsFits
        /\ hist'.warned = hist.warned /\ hist'.forgot = hist.forgot
        /\ hist'.handed => hist.handed
    <2>1. {"uploading"} \in SUBSET Open /\ "offered" \in Told /\ "sender" \in Machines
      BY DEF Open, Told, Alive, Machines
    <2> QED
      BY <1>1, <2>1, RowMoves
  <1>3. TypeInv'
    BY <1>2 DEF TypeInv
  <1>4. Softly(rec, rec')
    BY DEF TypeInv, Softly
  <1>5. Targets' /\ Sends' /\ Outcome'
    BY <1>2, <1>4, SenderStands
  <1> QED
    BY <1>2, <1>3, <1>5 DEF Holds

LEMMA StepHandoffSent ==
    ASSUME IInv, HandoffSent PROVE IInv'
  <1> USE DEF IInv, HandoffSent, taker
  <1>1. Softly(rec, rec')
    BY DEF TypeInv, Softly, Recs
  <1>2. /\ win' \in [sheet : {"none", "review", "sending", "sent", "kept"}, offered : BOOLEAN, recalling : BOOLEAN,
                     settling : {"no", "done", "back"}, heard : {"none", "on", "off"}]
        /\ win'.sheet = "none" /\ win'.settling = win.settling
    <2>1. (win.offered /\ win.sheet = "sent") \in BOOLEAN
      OBVIOUS
    <2> QED
      BY <2>1 DEF TypeInv
  <1>3. TypeInv'
    <2>1. rec' \in Recs
      BY <1>1 DEF Softly
    <2> QED
      BY <1>2, <2>1 DEF TypeInv
  <1>4. Server' /\ Queues' /\ RowGoes /\ NewsFits
    BY DEF Server, Queues, RowGoes, NewsFits
  <1>5. Targets' /\ Sends' /\ Outcome'
    BY <1>1, <1>2, <1>4, SenderStands
  <1> QED
    BY <1>3, <1>4, <1>5 DEF Holds

LEMMA StepRestartSender ==
    ASSUME IInv, RestartSender PROVE IInv'
  <1> USE DEF IInv, RestartSender, taker
  <1>1. budget' \in Purse /\ budget'.badTarget = budget.badTarget
    BY Spending DEF Kinds, TypeInv
  <1>2. Softly(rec, rec')
    BY CapsSoftly DEF TypeInv
  <1>3. /\ <<>> \in Seq(Msgs) /\ Behind(<<>>, srv, hist.handed) /\ ~ HasBad(<<>>) /\ ~ Has(<<>>, Alive)
    BY Fresh DEF TypeInv, Server
  <1>4. /\ win' \in [sheet : {"none", "review", "sending", "sent", "kept"}, offered : BOOLEAN, recalling : BOOLEAN,
                     settling : {"no", "done", "back"}, heard : {"none", "on", "off"}]
        /\ win'.sheet = "none"
        /\ \/ win'.settling = "no"
           \/ win'.settling = "done" /\ rec.state = "done"
           \/ win'.settling = "back" /\ rec.state \in GivenUp \cup {"refused"}
    <2>1. /\ Due(rec, "no") \in {"no", "done", "back"}
          /\ Due(rec, "no") = "done" => rec.state = "done"
          /\ Due(rec, "no") = "back" => rec.state \in GivenUp \cup {"refused"}
      BY DEF Due
    <2>2. win' = [sheet |-> "none", offered |-> FALSE, recalling |-> FALSE, settling |-> Due(rec, "no"), heard |-> "none"]
      BY DEF NewWindow
    <2>3. win'.sheet = "none" /\ win'.settling = Due(rec, "no")
      BY <2>2
    <2>4. win' \in [sheet : {"none", "review", "sending", "sent", "kept"}, offered : BOOLEAN, recalling : BOOLEAN,
                    settling : {"no", "done", "back"}, heard : {"none", "on", "off"}]
      <3> HIDE DEF IInv, RestartSender
      <3>1. \A d \in {"no", "done", "back"} :
              [sheet |-> "none", offered |-> FALSE, recalling |-> FALSE, settling |-> d, heard |-> "none"]
                \in [sheet : {"none", "review", "sending", "sent", "kept"}, offered : BOOLEAN, recalling : BOOLEAN,
                     settling : {"no", "done", "back"}, heard : {"none", "on", "off"}]
        OBVIOUS
      <3> QED
        BY <3>1, <2>1, <2>2
    <2> QED
      BY <2>1, <2>3, <2>4
  <1>5. /\ shelf' \in {"live", "row", "gone"}
        /\ shelf' = shelf \/ (shelf = "live" /\ shelf' = "row") \/ (rec.state = "done" /\ shelf' = "gone")
    BY DEF Dropped, TypeInv
  <1>6. TypeInv'
    <2>1. rec' \in Recs
      BY <1>2 DEF Softly
    <2>2. net' \in [Machines -> Seq(Msgs)] /\ conn' \in [Machines -> BOOLEAN]
      BY <1>3 DEF TypeInv
    <2>3. outbox' = outbox /\ inrec' = inrec /\ inbox' = inbox /\ copy' = copy
          /\ refusing' = refusing /\ hist' = hist /\ srv' = srv /\ caps' = caps
      OBVIOUS
    <2> HIDE DEF RestartSender
    <2> QED
      BY <1>1, <1>4, <1>5, <2>1, <2>2, <2>3 DEF TypeInv
  <1>7. \A n \in Machines : net'[n] = net[n] \/ net'[n] = <<>>
    BY DEF TypeInv
  <1>8. Server' /\ Queues'
    BY <1>3, <1>7 DEF Server, Queues
  <1>9. RowGoes /\ NewsFits
    BY <1>3, <1>7 DEF RowGoes, NewsFits, Machines
  <1>10. CASE rec.state # "refused"
    <2>1. \/ win'.settling \in {win.settling, "no"}
          \/ win'.settling = "done" /\ rec.state = "done"
          \/ win'.settling = "back" /\ rec.state \in GivenUp
      BY <1>4, <1>10
    <2>2. Targets' /\ Sends' /\ Outcome'
      BY <1>1, <1>2, <1>4, <1>5, <1>9, <2>1, SenderStands
    <2> QED
      BY <1>6, <1>8, <2>2 DEF Holds
  <1>11. CASE rec.state = "refused"
    <2>1. budget.badTarget /\ srv.upd = 0
      BY <1>11 DEF Targets
    <2>2. Targets' /\ Sends'
      BY <1>1, <2>1 DEF Targets, Sends
    <2>3. rec'.state # "done" /\ win'.settling # "done" /\ rec'.settled = rec.settled /\ rec'.state = rec.state
      BY <1>2, <1>4, <1>11 DEF Softly, Open, GivenUp
    <2>4. Outcome'
      BY <1>5, <1>11, <2>3 DEF Outcome
    <2> QED
      BY <1>6, <1>8, <2>2, <2>4 DEF Holds
  <1> QED
    BY <1>10, <1>11

-----------------------------------------------------------------------------
(* The taker's steps.                                                       *)

\* What a message carries.
LEMMA Fields ==
    ASSUME NEW x \in Msgs
    PROVE  /\ x.k \in {"info", "list", "welcome", "refused"}
           /\ x.k = "info" => x.state \in Told /\ x.upd \in Nat
           /\ x.k = "list" => x.state \in Told \cup {"absent"} /\ x.upd \in Nat
           /\ x.k = "refused" => x.reason \in Reasons
  BY DEF Msgs

\* A queue one message shorter is no newer.
LEMMA BehindTails ==
    ASSUME NEW q \in Seq(Msgs), q # <<>>, NEW s, NEW h, Behind(q, s, h)
    PROVE  Behind(Tail(q), s, h)
  BY Tails DEF Behind

LEMMA StepClaimIn ==
    ASSUME IInv, ClaimIn PROVE IInv'
  <1> USE DEF IInv, ClaimIn, sender
  <1>1. /\ budget' \in Purse /\ budget'.badTarget = budget.badTarget
        /\ Asked(net, "taker", {"offered"}, "claimed")
    BY Commands DEF Machines
  <1>2. /\ net' \in [Machines -> Seq(Msgs)]
        /\ srv' \in [state : Told \cup {"absent"}, upd : Nat]
        /\ hist' \in [handed : BOOLEAN, warned : BOOLEAN, silent : BOOLEAN, forgot : BOOLEAN]
        /\ Server' /\ Queues' /\ RowGoes /\ NewsFits
        /\ hist'.warned = hist.warned /\ hist'.forgot = hist.forgot
        /\ hist'.handed => hist.handed
    <2>1. {"offered"} \in SUBSET Open /\ "claimed" \in Told /\ "taker" \in Machines
      BY DEF Open, Told, Alive, Machines
    <2> QED
      BY <1>1, <2>1, RowMoves
  <1>3. inrec' \in [state : Told \cup {"none"}, chosen : BOOLEAN, settled : BOOLEAN, upd : Nat]
        /\ inrec'.state = inrec.state
    BY DEF TypeInv
  <1>4. TypeInv'
    BY <1>1, <1>2, <1>3 DEF TypeInv
  <1>5. Softly(rec, rec')
    BY DEF TypeInv, Softly
  <1>6. Targets' /\ Sends' /\ Outcome'
    BY <1>1, <1>2, <1>5, SenderStands
  <1> QED
    BY <1>2, <1>3, <1>4, <1>6 DEF Holds

LEMMA StepDeclineIn ==
    ASSUME IInv, DeclineIn PROVE IInv'
  <1> USE DEF IInv, DeclineIn, sender
  <1>1. /\ budget' \in Purse /\ budget'.badTarget = budget.badTarget
        /\ Asked(net, "taker", {"offered", "claimed"}, "declined")
    BY Commands DEF Machines
  <1>2. /\ net' \in [Machines -> Seq(Msgs)]
        /\ srv' \in [state : Told \cup {"absent"}, upd : Nat]
        /\ hist' \in [handed : BOOLEAN, warned : BOOLEAN, silent : BOOLEAN, forgot : BOOLEAN]
        /\ Server' /\ Queues' /\ RowGoes /\ NewsFits
        /\ hist'.warned = hist.warned /\ hist'.forgot = hist.forgot
        /\ hist'.handed => hist.handed
    <2>1. {"offered", "claimed"} \in SUBSET Open /\ "declined" \in Told /\ "taker" \in Machines
      BY DEF Open, GivenUp, Told, Machines
    <2> QED
      BY <1>1, <2>1, RowMoves
  <1>3. TypeInv'
    BY <1>1, <1>2 DEF TypeInv
  <1>4. Softly(rec, rec')
    BY DEF TypeInv, Softly
  <1>5. Targets' /\ Sends' /\ Outcome'
    BY <1>1, <1>2, <1>4, SenderStands
  <1> QED
    BY <1>2, <1>3, <1>5 DEF Holds

LEMMA StepFetch ==
    ASSUME IInv, Fetch PROVE IInv'
  <1> USE DEF IInv, Fetch, sender
  <1>1. /\ budget' \in Purse /\ budget'.badTarget = budget.badTarget
        /\ Asked(net, "taker", {"claimed"}, "done")
    BY Commands DEF Machines
  <1>2. /\ net' \in [Machines -> Seq(Msgs)]
        /\ srv' \in [state : Told \cup {"absent"}, upd : Nat]
        /\ hist' \in [handed : BOOLEAN, warned : BOOLEAN, silent : BOOLEAN, forgot : BOOLEAN]
        /\ Server' /\ Queues' /\ RowGoes /\ NewsFits
        /\ hist'.warned = hist.warned
    <2>1. {"claimed"} \in SUBSET Open /\ "done" \in Told /\ "taker" \in Machines
      BY DEF Open, Told, Alive, Machines
    <2> QED
      BY <1>1, <2>1, RowMoves
  <1>3. TypeInv'
    BY <1>1, <1>2 DEF TypeInv
  <1>4. Softly(rec, rec')
    BY DEF TypeInv, Softly
  <1>5. Targets' /\ Sends' /\ Outcome'
    BY <1>1, <1>2, <1>4, SenderStands
  <1>6. Holds'
    BY DEF Holds
  <1> QED
    BY <1>2, <1>3, <1>5, <1>6

LEMMA StepInstall ==
    ASSUME IInv, Install PROVE IInv'
  <1> USE DEF IInv, Install, sender
  <1>1. budget' \in Purse /\ budget'.badTarget = budget.badTarget
    BY Spending DEF Kinds, TypeInv
  <1>2. /\ inrec' \in [state : Told \cup {"none"}, chosen : BOOLEAN, settled : BOOLEAN, upd : Nat]
        /\ inrec'.state = inrec.state
        /\ inbox' \in {"none", "fetching", "fetched", "done"}
        /\ copy' = "live" \/ (copy # "live" /\ copy' = "failed" /\ inbox' = inbox)
    BY DEF TypeInv
  <1>3. TypeInv'
    BY <1>1, <1>2 DEF TypeInv
  <1>4. Server' /\ Queues' /\ RowGoes /\ NewsFits /\ Softly(rec, rec')
    BY DEF Server, Queues, RowGoes, NewsFits, Softly, TypeInv
  <1>5. Targets' /\ Sends' /\ Outcome'
    BY <1>1, <1>4, SenderStands
  <1>6. Holds'
    BY <1>2 DEF Holds
  <1> QED
    BY <1>3, <1>4, <1>5, <1>6

LEMMA StepRetry ==
    ASSUME IInv, Retry PROVE IInv'
  <1> USE DEF IInv, Retry, sender
  <1>1. TypeInv' /\ Server' /\ Queues' /\ RowGoes /\ NewsFits /\ Softly(rec, rec')
    BY DEF Server, Queues, RowGoes, NewsFits, Softly, TypeInv
  <1>2. Targets' /\ Sends' /\ Outcome'
    BY <1>1, SenderStands
  <1>3. Holds'
    BY DEF Holds, Ready
  <1> QED
    BY <1>1, <1>2, <1>3

LEMMA StepRestartTaker ==
    ASSUME IInv, RestartTaker PROVE IInv'
  <1> USE DEF IInv, RestartTaker, sender
  <1>1. budget' \in Purse /\ budget'.badTarget = budget.badTarget
    BY Spending DEF Kinds, TypeInv
  <1>2. /\ <<>> \in Seq(Msgs) /\ Behind(<<>>, srv, hist.handed) /\ ~ HasBad(<<>>) /\ ~ Has(<<>>, Alive)
    BY Fresh DEF TypeInv, Server
  <1>3. TypeInv'
    <2>1. net' \in [Machines -> Seq(Msgs)] /\ conn' \in [Machines -> BOOLEAN]
      BY <1>2 DEF TypeInv
    <2>2. copy' \in {"no", "installing", "failed", "live"} /\ inbox' \in {"none", "fetching", "fetched", "done"}
      BY DEF TypeInv
    <2>3. outbox' = outbox /\ shelf' = shelf /\ rec' = rec /\ win' = win /\ inrec' = inrec
          /\ refusing' \in BOOLEAN /\ hist' = hist /\ srv' = srv /\ caps' = caps
      OBVIOUS
    <2> HIDE DEF RestartTaker
    <2> QED
      BY <1>1, <2>1, <2>2, <2>3 DEF TypeInv
  <1>4. \A n \in Machines : net'[n] = net[n] \/ net'[n] = <<>>
    BY DEF TypeInv
  <1>5. Server' /\ Queues'
    BY <1>2, <1>4 DEF Server, Queues
  <1>6. RowGoes /\ NewsFits /\ Softly(rec, rec')
    BY <1>2, <1>4 DEF RowGoes, NewsFits, Machines, Softly, TypeInv
  <1>7. Targets' /\ Sends' /\ Outcome'
    BY <1>1, <1>6, SenderStands
  <1>8. Holds'
    BY DEF Holds
  <1> QED
    BY <1>3, <1>5, <1>7, <1>8

LEMMA StepTakerHears ==
    ASSUME IInv, TakerHears PROVE IInv'
  <1> USE DEF IInv, sender
  <1> DEFINE q == net["taker"]
  <1> DEFINE msg == Head(q)
  <1>1. q \in Seq(Msgs) /\ q # <<>> /\ Behind(q, srv, hist.handed) /\ net \in [Machines -> Seq(Msgs)]
    BY DEF TakerHears, TypeInv, Queues, Machines
  <1>2. /\ msg \in Msgs /\ Tail(q) \in Seq(Msgs)
        /\ Tells(msg, GivenUp) => Has(q, GivenUp)
    BY <1>1, Tails
  <1>3. /\ srv' = srv /\ caps' = caps /\ conn' = conn /\ refusing' = refusing /\ budget' = budget
        /\ rec' = rec /\ outbox' = outbox /\ shelf' = shelf /\ win' = win
        /\ net' = [net EXCEPT !["taker"] = Tail(q)]
        /\ hist' = [hist EXCEPT !.forgot = @ \/ (hist.handed /\ Unlisted(msg) /\ inrec.state # "done")]
    BY DEF TakerHears
  <1>4. /\ inrec' = CASE msg.k = "info" -> ApplyIn(inrec, msg) [] msg.k = "list" -> ApplyInList(inrec, msg) [] OTHER -> inrec
        /\ inbox' = IF msg.k \in {"info", "list"} THEN Staged(msg) ELSE inbox
        /\ copy' = IF msg.k \in {"info", "list"} THEN Placed(inrec') ELSE copy
    BY DEF TakerHears
  <1> HIDE DEF msg, q
  <1>5. /\ net' \in [Machines -> Seq(Msgs)]
        /\ Behind(Tail(q), srv, hist.handed)
        /\ \A m \in Machines : net'[m] = net[m] \/ net'[m] = Tail(q)
        /\ net'["sender"] = net["sender"]
    BY <1>1, <1>2, <1>3, BehindTails DEF Machines
  <1>6. /\ hist' \in [handed : BOOLEAN, warned : BOOLEAN, silent : BOOLEAN, forgot : BOOLEAN]
        /\ hist'.handed = hist.handed /\ hist'.warned = hist.warned
        /\ ~ hist'.forgot => ~ hist.forgot /\ ~ (hist.handed /\ Unlisted(msg) /\ inrec.state # "done")
    <2>1. (hist.forgot \/ (hist.handed /\ Unlisted(msg) /\ inrec.state # "done")) \in BOOLEAN
      OBVIOUS
    <2> QED
      BY <2>1, <1>3 DEF TypeInv
  <1>7. inrec \in [state : Told \cup {"none"}, chosen : BOOLEAN, settled : BOOLEAN, upd : Nat]
    BY DEF TypeInv
  <1>8. /\ msg.k \in {"info", "list", "welcome", "refused"}
        /\ msg.k = "info" => msg.state \in Told /\ msg.upd \in Nat
        /\ msg.k = "list" => msg.state \in Told \cup {"absent"} /\ msg.upd \in Nat
    BY <1>2, Fields
  <1>9. "none" \notin Told /\ "absent" \notin Told /\ {"claimed", "done"} \cap GivenUp = {} /\ "offered" \in Told
    BY DEF Told, Alive, Open, GivenUp
  <1>10. ASSUME msg.state \in Told, msg.upd \in Nat
         PROVE  /\ ApplyIn(inrec, msg) \in [state : Told \cup {"none"}, chosen : BOOLEAN, settled : BOOLEAN, upd : Nat]
                /\ inrec.state # "none" /\ msg.state \notin GivenUp => ApplyIn(inrec, msg).state # "none"
    BY <1>7, <1>9, <1>10 DEF ApplyIn, NoInRec
  <1>11. /\ inrec' \in [state : Told \cup {"none"}, chosen : BOOLEAN, settled : BOOLEAN, upd : Nat]
         /\ inrec.state # "none" /\ ~ Tells(msg, GivenUp) /\ (Unlisted(msg) => inrec.state = "done") => inrec'.state # "none"
    <2>1. CASE msg.k = "info"
      BY <2>1, <1>4, <1>8, <1>10 DEF Tells
    <2>2. CASE msg.k = "list" /\ msg.state # "absent"
      BY <2>2, <1>4, <1>8, <1>10 DEF Tells, ApplyInList
    <2>3. CASE msg.k = "list" /\ msg.state = "absent"
      BY <2>3, <1>4, <1>7 DEF Unlisted, ApplyInList, NoInRec
    <2>4. CASE msg.k \notin {"info", "list"}
      BY <2>4, <1>4, <1>7
    <2> QED
      BY <2>1, <2>2, <2>3, <2>4
  <1>12. /\ inbox' \in {"none", "fetching", "fetched", "done"}
         /\ inbox \in {"fetched", "done"} /\ ~ Tells(msg, GivenUp) => inbox' \in {"fetched", "done"}
    BY <1>4, <1>9 DEF TypeInv, Staged, Tells
  <1>13. copy' \in {"no", "installing", "failed", "live"} /\ (copy = "live" => copy' = "live")
    BY <1>4 DEF TypeInv, Placed
  <1>14. TypeInv'
    BY <1>3, <1>5, <1>6, <1>11, <1>12, <1>13 DEF TypeInv
  <1>15. Server' /\ Queues'
    BY <1>3, <1>5, <1>6 DEF Server, Queues
  <1>16. RowGoes /\ NewsFits /\ Softly(rec, rec')
    BY <1>3, <1>5, <1>6 DEF RowGoes, NewsFits, Softly, TypeInv
  <1>17. Targets' /\ Sends' /\ Outcome'
    BY <1>3, <1>6, <1>16, SenderStands
  <1>18. Holds'
    <2>1. SUFFICES ASSUME hist'.handed, ~ hist'.forgot
                   PROVE  inrec'.state # "none" /\ (copy' = "live" \/ inbox' \in {"fetched", "done"})
      BY DEF Holds
    <2>2. /\ hist.handed /\ inrec.state # "none" /\ (copy = "live" \/ inbox \in {"fetched", "done"})
          /\ Unlisted(msg) => inrec.state = "done"
      BY <2>1, <1>6 DEF Holds
    <2>3. srv.state \notin GivenUp
      BY <2>2 DEF Server, GivenUp
    <2>4. ~ Tells(msg, GivenUp)
      BY <2>3, <1>1, <1>2 DEF Behind
    <2> QED
      BY <2>2, <2>4, <1>11, <1>12, <1>13
  <1> QED
    BY <1>14, <1>15, <1>17, <1>18

-----------------------------------------------------------------------------
(* The sender's steps that make, send and drop its record.                  *)

\* What a window's state is.
Wins ==
    [sheet : {"none", "review", "sending", "sent", "kept"}, offered : BOOLEAN, recalling : BOOLEAN,
     settling : {"no", "done", "back"}, heard : {"none", "on", "off"}]

\* The states a record can have are told apart.
LEMMA States ==
    /\ Open = {"uploading", "offered", "claimed"} /\ GivenUp = {"declined", "recalled", "expired"}
    /\ Alive = Open \cup {"done"} /\ Told = Alive \cup GivenUp
    /\ NoRec \in Recs /\ NoRec.state = "none" /\ NoRec.settled = FALSE
  BY DEF Open, GivenUp, Alive, Told, NoRec, Recs

\* A row that was offered to nobody never was.
LEMMA NotHere ==
    ASSUME IInv, budget.badTarget
    PROVE  /\ srv.upd = 0 /\ ~ hist.handed /\ ~ rec.settled /\ rec.state # "done" /\ win.settling # "done"
           /\ shelf # "gone"
  BY DEF IInv, Targets, Server, Outcome

LEMMA StepProceed ==
    ASSUME IInv, Proceed PROVE IInv'
  <1> USE DEF IInv, Proceed, taker
  <1>1. rec' \in Recs /\ rec'.state = "packing" /\ ~ rec'.settled /\ rec'.upd = 0
    BY DEF NoRec, Recs
  <1>2. win' \in Wins /\ win'.sheet = "review" /\ win'.settling = win.settling
    BY DEF TypeInv, Wins
  <1>3. TypeInv'
    BY <1>1, <1>2 DEF TypeInv, Wins
  <1>4. Server' /\ Queues'
    BY DEF Server, Queues
  <1>5. srv.state = "absent" /\ ~ hist.handed /\ rec.state = "none"
    BY DEF Server, NoRec
  <1>6. Targets'
    BY <1>1 DEF Targets
  <1>7. Outcome'
    BY <1>1, <1>2, <1>5 DEF Outcome
  <1>8. Sends'
    <2>1. SUFFICES ASSUME ~ budget.badTarget PROVE Staging' /\ Ended' /\ Kept' /\ Locked'
      BY DEF Sends
    <2>2. Staging /\ Ended /\ Kept /\ Locked
      BY <2>1 DEF Sends
    <2>3. Staging' /\ Kept' /\ Locked'
      BY <2>2, <1>1, <1>2, <1>5 DEF Staging, Kept, Locked
    <2>4. win.settling # "back"
      BY <2>2, <1>5, States DEF Ended
    <2>5. Ended'
      BY <2>4, <1>1, <1>2, States DEF Ended
    <2> QED
      BY <2>3, <2>5
  <1> QED
    BY <1>3, <1>4, <1>6, <1>7, <1>8 DEF Holds

LEMMA StepPack ==
    ASSUME IInv, Pack PROVE IInv'
  <1> USE DEF IInv, Pack, taker
  <1>1. win' \in Wins /\ win'.sheet \in {"none", "sending"} /\ win'.settling = win.settling
    <2>1. (rec.state # "none") \in BOOLEAN /\ (IF rec.state = "none" THEN "none" ELSE "sending") \in {"none", "sending"}
      OBVIOUS
    <2> QED
      BY <2>1 DEF TypeInv, Wins
  <1>2. outbox' = IF rec.state = "none" THEN "none" ELSE "packed"
    OBVIOUS
  <1>3. TypeInv'
    <2>1. outbox' \in {"none", "packed", "named", "acked", "refused"}
      BY <1>2
    <2>2. srv' = srv /\ caps' = caps /\ conn' = conn /\ net' = net /\ rec' = rec /\ shelf' = shelf /\ inrec' = inrec
          /\ inbox' = inbox /\ copy' = copy /\ refusing' = refusing /\ hist' = hist /\ budget' = budget
      OBVIOUS
    <2> HIDE DEF Pack
    <2> QED
      BY <1>1, <2>1, <2>2 DEF TypeInv, Wins
  <1>4. Server' /\ Queues' /\ Targets'
    BY DEF Server, Queues, Targets
  <1>5. ASSUME ~ budget.badTarget
        PROVE  srv.upd = 0 /\ rec.state \in {"none", "packing"} /\ srv.state = "absent" /\ ~ hist.handed
               /\ Staging /\ Ended /\ Kept /\ Locked
    BY <1>5 DEF Sends, Staging, Server
  <1>6. ~ rec.settled
    BY <1>5, NotHere DEF Outcome
  <1>7. Outcome'
    BY <1>1, <1>6 DEF Outcome
  <1>8. Sends'
    <2>1. SUFFICES ASSUME ~ budget.badTarget PROVE Staging' /\ Ended' /\ Kept' /\ Locked'
      BY DEF Sends
    <2>2. Staging'
      BY <2>1, <1>1, <1>2, <1>5 DEF Staging
    <2>3. Ended'
      BY <2>1, <1>1, <1>5, States DEF Ended
    <2>4. Kept' /\ Locked'
      BY <2>1, <1>2, <1>5 DEF Kept, Locked, Staging
    <2> QED
      BY <2>2, <2>3, <2>4
  <1> QED
    BY <1>3, <1>4, <1>7, <1>8 DEF Holds

\* The record goes and its staging with it, while it packs or once it is known to have ended.
LEMMA SettledHere ==
    ASSUME IInv, SettleHere, rec.state \in GivenUp \cup {"packing", "done", "returned", "refused"},
           rec.state = "done" => rec.settled, rec.state = "returned" => hist'.warned,
           srv' = srv, hist'.handed = hist.handed, hist.warned => hist'.warned,
           budget'.badTarget = budget.badTarget, HasBad(net["sender"])' => HasBad(net["sender"]),
           shelf' = shelf \/ hist'.warned, shelf' = "gone" => shelf = "gone", shelf = "gone" => shelf' = "gone",
           win'.sheet = "review" => win.sheet = "review",
           win'.settling \in {win.settling, "no"}, rec.state \in GivenUp => win'.settling # "back"
    PROVE  Targets' /\ Sends' /\ Outcome'
  <1> USE DEF IInv, SettleHere
  <1>1. rec'.state = "none" /\ ~ rec'.settled /\ outbox' = "none"
    BY States
  <1>2. Targets'
    BY <1>1 DEF Targets
  <1>3. Outcome'
    BY <1>1 DEF Outcome
  <1>4. ASSUME ~ budget.badTarget PROVE Staging' /\ Ended' /\ Kept' /\ Locked'
    <2>1. Staging /\ Ended /\ Kept /\ Locked /\ rec.state # "refused"
      BY <1>4 DEF Sends, Targets
    <2>2. Staging' /\ Locked'
      BY <2>1, <1>1 DEF Staging, Locked
    <2>3. Ended'
      <3>1. win'.settling # "back"
        BY <2>1 DEF Ended
      <3> QED
        BY <3>1, <1>1, States DEF Ended
    <2>4. Kept'
      <3>1. SUFFICES ASSUME srv.state \in {"offered", "claimed"} \/ hist.handed PROVE hist'.warned \/ shelf' = "gone"
        BY <1>1 DEF Kept
      <3>2. rec.state \notin GivenUp
        BY <3>1, <2>1, States DEF Ended
      <3>3. CASE rec.state = "packing"
        BY <3>1, <3>3, <2>1 DEF Kept, Staging
      <3>4. CASE rec.state = "done"
        BY <3>4 DEF Outcome
      <3> QED
        BY <3>2, <3>3, <3>4, <2>1
    <2> QED
      BY <2>2, <2>3, <2>4
  <1> QED
    BY <1>2, <1>3, <1>4 DEF Sends

LEMMA StepHandoffSend ==
    ASSUME IInv, HandoffSend PROVE IInv'
  <1> USE DEF IInv, HandoffSend, taker
  <1>1. /\ ~ hist.handed /\ rec.state # "done" /\ ~ rec.settled /\ win.settling # "done" /\ shelf # "gone"
        /\ ~ budget.badTarget => srv.upd = 0
    BY NotHere DEF Sends, Staging, Server, Outcome
  <1>2. /\ budget' \in Purse /\ budget'.badTarget = budget.badTarget
        /\ Asked(net, "sender", {"absent"}, "uploading")
    <2>1. CASE Command("sender", "offer")
      BY <2>1, Commands DEF Machines
    <2>2. CASE Unheard /\ UNCHANGED budget
      BY <2>2 DEF Unheard, Asked, TypeInv
    <2> QED
      BY <2>1, <2>2
  <1>3. /\ net' \in [Machines -> Seq(Msgs)]
        /\ srv' \in [state : Told \cup {"absent"}, upd : Nat]
        /\ hist' \in [handed : BOOLEAN, warned : BOOLEAN, silent : BOOLEAN, forgot : BOOLEAN]
        /\ Server' /\ Queues' /\ Moved({"absent"}, "uploading")
        /\ HasBad(net'["sender"]) => HasBad(net["sender"]) \/ budget.badTarget
    <2>1. "uploading" \in Told /\ "sender" \in Machines /\ "absent" \notin GivenUp
      BY DEF Told, Alive, Open, GivenUp, Machines
    <2>2. net \in [Machines -> Seq(Msgs)] /\ \A m \in Machines : Behind(net[m], srv, hist.handed)
      BY DEF TypeInv, Queues
    <2>3. srv.state \in {"absent"} => ~ hist.handed /\ ("uploading" \in Alive => srv.state \notin GivenUp)
      BY <1>1, <2>1
    <2> QED
      BY <1>2, <2>1, <2>2, <2>3, AskedKeeps
  <1>4. win' \in Wins /\ win'.sheet \in {"sent", "kept"} /\ win'.settling = win.settling
    <2>1. (IF conn["sender"] THEN "sent" ELSE "kept") \in {"sent", "kept"}
      OBVIOUS
    <2> QED
      BY <2>1 DEF TypeInv, Wins
  <1>5. TypeInv'
    <2>1. caps' = caps /\ conn' = conn /\ rec' = rec /\ shelf' = shelf /\ inrec' = inrec /\ outbox' = "named"
          /\ inbox' = inbox /\ copy' = copy /\ refusing' = refusing
      OBVIOUS
    <2> HIDE DEF HandoffSend
    <2> QED
      BY <1>2, <1>3, <1>4, <2>1 DEF TypeInv, Wins
  <1>6. /\ hist'.handed = hist.handed /\ hist'.warned = hist.warned /\ hist'.forgot = hist.forgot
        /\ srv' = srv \/ (~ budget.badTarget /\ srv'.state = "uploading")
    BY <1>3 DEF Moved, TypeInv
  <1>7. Targets'
    BY <1>2, <1>3, <1>6 DEF Targets
  <1>8. Outcome'
    BY <1>1, <1>4 DEF Outcome
  <1>9. Sends'
    <2>1. SUFFICES ASSUME ~ budget.badTarget PROVE Staging' /\ Ended' /\ Kept' /\ Locked'
      BY <1>2 DEF Sends
    <2>2. Staging /\ Ended /\ Kept /\ Locked /\ rec.state = "packing" /\ shelf = "row" /\ srv.state = "absent"
      BY <2>1, <1>1 DEF Sends, Staging, Server
    <2>3. Staging' /\ Locked'
      BY <2>2, <1>4, <1>6 DEF Staging, Locked
    <2>4. Ended'
      BY <2>2, <1>4, States DEF Ended
    <2>5. Kept'
      BY <2>2, <1>1, <1>6 DEF Kept
    <2> QED
      BY <2>3, <2>4, <2>5
  <1> QED
    BY <1>3, <1>5, <1>6, <1>7, <1>8, <1>9 DEF Holds

LEMMA StepCancel ==
    ASSUME IInv, Cancel PROVE IInv'
  <1> USE DEF IInv, taker
  <1>1. rec.state = "packing" /\ caps' = caps /\ conn' = conn /\ shelf' = shelf /\ inrec' = inrec
        /\ inbox' = inbox /\ copy' = copy /\ refusing' = refusing
    BY DEF Cancel
  <1>2. CASE Command("sender", "recall") /\ win' = [win EXCEPT !.recalling = TRUE] /\ UNCHANGED <<rec, outbox>>
    <2>1. /\ budget' \in Purse /\ budget'.badTarget = budget.badTarget
          /\ Asked(net, "sender", {"uploading", "offered"}, "recalled")
      BY <1>2, Commands DEF Machines
    <2>2. /\ net' \in [Machines -> Seq(Msgs)]
          /\ srv' \in [state : Told \cup {"absent"}, upd : Nat]
          /\ hist' \in [handed : BOOLEAN, warned : BOOLEAN, silent : BOOLEAN, forgot : BOOLEAN]
          /\ Server' /\ Queues' /\ RowGoes /\ NewsFits
          /\ hist'.warned = hist.warned /\ hist'.forgot = hist.forgot
          /\ hist'.handed => hist.handed
      <3>1. {"uploading", "offered"} \in SUBSET Open /\ "recalled" \in Told /\ "sender" \in Machines
        BY DEF Open, GivenUp, Told, Machines
      <3> QED
        BY <2>1, <3>1, RowMoves
    <2>3. win' \in Wins /\ win'.sheet = win.sheet /\ win'.settling = win.settling
      BY <1>2 DEF TypeInv, Wins
    <2>4. TypeInv'
      BY <1>1, <1>2, <2>1, <2>2, <2>3 DEF TypeInv, Wins
    <2>5. Softly(rec, rec')
      BY <1>2 DEF TypeInv, Softly
    <2>6. Targets' /\ Sends' /\ Outcome'
      BY <1>1, <1>2, <2>1, <2>2, <2>3, <2>5, SenderStands
    <2> QED
      BY <1>1, <2>2, <2>4, <2>6 DEF Holds
  <1>3. CASE SettleHere /\ Unheard /\ UNCHANGED budget
             /\ (win' = [win EXCEPT !.offered = FALSE] \/ win' = [win EXCEPT !.sheet = "none"])
    <2>1. srv' = srv /\ net' = net /\ hist' = hist /\ budget' = budget
      BY <1>3 DEF Unheard
    <2>2. win' \in Wins /\ (win'.sheet = "review" => win.sheet = "review") /\ win'.settling = win.settling
      BY <1>3 DEF TypeInv, Wins
    <2>3. TypeInv'
      BY <1>1, <1>3, <2>1, <2>2, States DEF TypeInv, Wins, SettleHere
    <2>4. "packing" \notin GivenUp
      BY States
    <2>5. Targets' /\ Sends' /\ Outcome'
      BY <1>1, <1>3, <2>1, <2>2, <2>4, SettledHere
    <2> QED
      BY <1>1, <2>1, <2>3, <2>5 DEF Holds, Server, Queues
  <1> QED
    BY <1>2, <1>3 DEF Cancel

LEMMA StepResume ==
    ASSUME IInv, Resume PROVE IInv'
  <1> USE DEF IInv, taker
  <1>1. /\ shelf = "row" /\ shelf' = "live" /\ ~ Busy(rec) /\ srv' = srv /\ caps' = caps /\ conn' = conn
        /\ net' = net /\ win' = win /\ budget' = budget
        /\ inrec' = inrec /\ inbox' = inbox /\ copy' = copy /\ refusing' = refusing
    BY DEF Resume
  <1>2. CASE rec.state = "returned" /\ SettleHere /\ hist' = [hist EXCEPT !.warned = TRUE]
    <2>1. /\ hist' \in [handed : BOOLEAN, warned : BOOLEAN, silent : BOOLEAN, forgot : BOOLEAN]
          /\ hist'.handed = hist.handed /\ hist'.warned /\ hist'.forgot = hist.forgot
      BY <1>2 DEF TypeInv
    <2>2. TypeInv'
      BY <1>1, <1>2, <2>1, States DEF TypeInv, SettleHere
    <2>3. "returned" \notin GivenUp
      BY States
    <2>4. Targets' /\ Sends' /\ Outcome'
      BY <1>1, <1>2, <2>1, <2>3, SettledHere
    <2>5. Server' /\ Queues' /\ Holds'
      BY <1>1, <2>1 DEF Server, Queues, Holds
    <2> QED
      BY <2>2, <2>4, <2>5
  <1>3. CASE rec.state # "returned" /\ UNCHANGED <<rec, outbox, hist>>
    <2>1. TypeInv' /\ Server' /\ Queues' /\ Targets' /\ Holds'
      BY <1>1, <1>3 DEF TypeInv, Server, Queues, Targets, Holds
    <2>2. Outcome'
      BY <1>1, <1>3 DEF Outcome
    <2>3. Sends'
      <3>1. SUFFICES ASSUME ~ budget.badTarget PROVE Staging' /\ Ended' /\ Kept' /\ Locked'
        BY <1>1 DEF Sends
      <3>2. Staging /\ Ended /\ Kept /\ Locked /\ rec.state # "refused"
        BY <3>1 DEF Sends, Targets
      <3>3. rec.state \notin Open /\ rec.state # "packing" /\ (rec.state = "done" => rec.settled)
        BY <1>1 DEF Busy
      <3>4. Staging' /\ Ended'
        BY <3>2, <3>3, <1>1, <1>3 DEF Staging, Ended
      <3>5. Kept'
        BY <3>2, <1>1, <1>3 DEF Kept
      <3>6. Locked'
        <4>1. outbox = "none" \/ rec.state \in GivenUp
          BY <3>2, <3>3, <1>3, States DEF TypeInv, Recs, Staging, Outcome
        <4> QED
          BY <4>1, <1>3 DEF Locked
      <3> QED
        BY <3>4, <3>5, <3>6
    <2> QED
      BY <2>1, <2>2, <2>3
  <1> QED
    BY <1>2, <1>3 DEF Resume

LEMMA StepSettleDone ==
    ASSUME IInv, SettleDone PROVE IInv'
  <1> USE DEF IInv, taker
  <1>1. /\ win.settling = "done" /\ win' = [win EXCEPT !.settling = "no"] /\ srv' = srv /\ caps' = caps
        /\ conn' = conn /\ net' = net /\ hist' = hist
        /\ inrec' = inrec /\ inbox' = inbox /\ copy' = copy /\ refusing' = refusing
    BY DEF SettleDone
  <1>2. win' \in Wins /\ win'.sheet = win.sheet /\ win'.settling = "no"
    BY <1>1 DEF TypeInv, Wins
  <1>3. Server' /\ Queues' /\ Holds' /\ RowGoes /\ NewsFits
    BY <1>1 DEF Server, Queues, Holds, RowGoes, NewsFits
  <1>4. hist.handed /\ srv.upd # 0 /\ ~ budget.badTarget
    BY <1>1, NotHere DEF Outcome, Server
  <1>5. CASE Spend("fails") /\ UNCHANGED <<rec, outbox, shelf>>
    <2>1. budget' \in Purse /\ budget'.badTarget = budget.badTarget
      BY <1>5, Spending DEF Kinds, TypeInv
    <2>2. TypeInv' /\ Softly(rec, rec')
      BY <1>1, <1>2, <1>5, <2>1 DEF TypeInv, Wins, Softly
    <2>3. Targets' /\ Sends' /\ Outcome'
      BY <1>1, <1>2, <1>3, <1>5, <2>1, <2>2, SenderStands
    <2> QED
      BY <1>3, <2>2, <2>3
  <1>6. CASE /\ rec' = (IF rec.state = "done" THEN [rec EXCEPT !.settled = TRUE] ELSE rec)
             /\ outbox' = "none" /\ shelf' = (IF shelf = "row" THEN "gone" ELSE shelf) /\ UNCHANGED budget
    <2>1. rec' \in Recs /\ rec'.state = rec.state /\ rec'.upd = rec.upd /\ (rec'.settled => rec.settled \/ rec.state = "done")
      BY <1>6 DEF TypeInv, Recs
    <2>2. TypeInv'
      BY <1>1, <1>2, <1>6, <2>1 DEF TypeInv, Wins
    <2>3. Staging /\ Ended /\ Kept /\ Locked
      BY <1>4 DEF Sends
    <2>4. rec.state \notin GivenUp /\ rec.state # "packing" /\ win.sheet # "review"
      BY <2>3, <1>4 DEF Ended, Staging, Kept
    <2>5. shelf' = "gone" \/ hist.warned
      BY <2>3, <2>4, <1>4, <1>6 DEF Kept, Locked, TypeInv
    <2>6. Targets'
      BY <1>1, <1>4, <1>6, <2>1 DEF Targets
    <2>7. Staging' /\ Ended' /\ Kept' /\ Locked'
      BY <2>1, <2>3, <2>4, <2>5, <1>1, <1>2, <1>6 DEF Staging, Ended, Kept, Locked
    <2>8. Outcome'
      BY <2>1, <2>5, <1>1, <1>2, <1>4, <1>6 DEF Outcome
    <2> QED
      BY <1>3, <2>2, <2>6, <2>7, <2>8 DEF Sends
  <1> QED
    BY <1>5, <1>6 DEF SettleDone

LEMMA StepSettleBack ==
    ASSUME IInv, SettleBack PROVE IInv'
  <1> USE DEF IInv, SettleBack, taker
  <1>1. win' \in Wins /\ win'.sheet = win.sheet /\ win'.settling = "no"
    BY DEF TypeInv, Wins
  <1>2. TypeInv'
    BY <1>1, States DEF TypeInv, Wins, SettleHere
  <1>3. Server' /\ Queues' /\ Holds'
    BY DEF Server, Queues, Holds
  <1>4. CASE ~ budget.badTarget
    <2>1. rec.state \in GivenUp
      BY <1>4 DEF Sends, Ended
    <2>2. "done" \notin GivenUp /\ "returned" \notin GivenUp
      BY States
    <2>3. Targets' /\ Sends' /\ Outcome'
      BY <1>1, <2>1, <2>2, SettledHere
    <2> QED
      BY <1>2, <1>3, <2>3
  <1>5. CASE budget.badTarget
    <2>1. Targets' /\ Sends' /\ Outcome'
      BY <1>1, <1>5, NotHere, States DEF Targets, Sends, Outcome, SettleHere
    <2> QED
      BY <1>2, <1>3, <2>1
  <1> QED
    BY <1>4, <1>5

LEMMA StepDismissHanded ==
    ASSUME IInv, DismissHanded PROVE IInv'
  <1> USE DEF IInv, DismissHanded, taker
  <1>1. SettleHere
    BY DEF SettleHere, Outcome
  <1>2. TypeInv' /\ Server' /\ Queues' /\ Holds'
    BY States DEF TypeInv, Server, Queues, Holds
  <1>3. "done" \notin GivenUp
    BY States
  <1>4. Targets' /\ Sends' /\ Outcome'
    BY <1>1, <1>3, SettledHere
  <1> QED
    BY <1>2, <1>4

-----------------------------------------------------------------------------
(* What the sender hears.                                                   *)

\* What a word of the row makes of a record: it stays, goes back, or becomes what was said.
Becomes(r, i, q) ==
    /\ q \in Recs /\ (q.settled => r.settled)
    /\ \/ q.state = r.state /\ q.upd = r.upd /\ ~ (r.state = "packing" /\ r.upd = 0 /\ i.state # "absent")
       \/ r.state \in Open /\ q.state = "returned"
       \/ /\ i.state # "absent"
          /\ q.state = i.state \/ (i.state \in Open /\ q.state = "returned")

LEMMA WordBecomes ==
    ASSUME NEW r \in Recs, NEW i, i.state \in Told \cup {"absent"}, i.upd \in Nat
    PROVE  /\ i.state # "absent" => Becomes(r, i, ApplyInfo(r, i)) /\ Becomes(r, i, Under(ApplyInfo(r, i)))
           /\ Becomes(r, i, Under(ApplyList(r, i)))
           /\ Softly(r, ApplyList(r, i)) \/ i.state # "absent"
  <1> DEFINE new == [NoRec EXCEPT !.state = i.state, !.upd = i.upd]
  <1> DEFINE said == [r EXCEPT !.state = i.state, !.upd = i.upd, !.unknown = FALSE]
  <1>1. ASSUME i.state # "absent"
        PROVE  /\ ApplyInfo(r, i) \in {r, new, said}
               /\ ApplyInfo(r, i) = r => ~ (r.state = "packing" /\ r.upd = 0) \/ said = r
    BY DEF ApplyInfo
  <1>2. ASSUME i.state # "absent"
        PROVE  /\ new \in Recs /\ new.state = i.state /\ ~ new.settled
               /\ said \in Recs /\ said.state = i.state /\ said.settled = r.settled
    BY <1>2 DEF NoRec, Recs
  <1>3. "packing" \notin Told
    BY States
  <1>4. ASSUME i.state # "absent" PROVE Becomes(r, i, ApplyInfo(r, i))
    BY <1>1, <1>2, <1>3, <1>4 DEF Becomes
  <1>5. i.state = "absent" => Softly(r, ApplyList(r, i))
    BY DEF ApplyList, Softly, Recs
  <1>6. Becomes(r, i, ApplyList(r, i))
    BY <1>4, <1>5 DEF ApplyList, Becomes, Softly
  <1>7. ASSUME NEW q, Becomes(r, i, q) PROVE Becomes(r, i, Under(q))
    <2>1. Under(q) = q \/ Softly(q, Under(q))
      BY <1>7, CapsSoftly DEF Under, Becomes
    <2> QED
      BY <1>7, <2>1 DEF Becomes, Softly
  <1> QED
    BY <1>4, <1>5, <1>6, <1>7

\* What the window sets about, and what becomes of the row.
LEMMA Follows ==
    ASSUME TypeInv, NEW r \in Recs, rec' = r, shelf' = Dropped(r), win' = [win EXCEPT !.settling = Due(r, @)]
    PROVE  /\ win' \in Wins /\ win'.sheet = win.sheet /\ shelf' \in {"live", "row", "gone"}
           /\ win'.settling = "done" => win.settling = "done" \/ r.state = "done"
           /\ win'.settling = "back" => win.settling = "back" \/ r.state \in GivenUp \cup {"refused"}
           /\ shelf' = shelf \/ (shelf = "row" /\ shelf' = "gone" /\ r.state = "done")
  <1>1. /\ Due(r, win.settling) \in {"no", "done", "back"}
        /\ Due(r, win.settling) = "done" => win.settling = "done" \/ r.state = "done"
        /\ Due(r, win.settling) = "back" => win.settling = "back" \/ r.state \in GivenUp \cup {"refused"}
    BY DEF Due, TypeInv
  <1>2. win' \in Wins /\ win'.sheet = win.sheet /\ win'.settling = Due(r, win.settling)
    <2>1. win \in Wins
      BY DEF TypeInv, Wins
    <2> QED
      BY <2>1, <1>1 DEF Wins
  <1>3. /\ shelf' \in {"live", "row", "gone"}
        /\ shelf' = shelf \/ (shelf = "row" /\ shelf' = "gone" /\ r.state = "done")
    BY DEF Dropped, TypeInv
  <1> QED
    BY <1>1, <1>2, <1>3

\* A word of the row, heard from the head of the queue.
LEMMA HearsWord ==
    ASSUME IInv, NEW i, NEW q, q = net["sender"], q # <<>>, i = Head(q), i.k \in {"info", "list"},
           Becomes(rec, i, rec'), outbox' = Acked(i), shelf' = Dropped(rec'),
           win' = [win EXCEPT !.settling = Due(rec', @)], srv' = srv, hist' = hist, budget' = budget,
           net'["sender"] = Tail(q)
    PROVE  /\ rec' \in Recs /\ outbox' \in {"none", "packed", "named", "acked", "refused"}
           /\ shelf' \in {"live", "row", "gone"} /\ win' \in Wins
           /\ Targets' /\ Sends' /\ Outcome'
  <1> USE DEF IInv
  <1>1. /\ q \in Seq(Msgs) /\ Behind(q, srv, hist.handed)
    BY DEF TypeInv, Queues, Machines
  <1>2. /\ i \in Msgs /\ Tail(q) \in Seq(Msgs)
        /\ \A S : (Has(Tail(q), S) => Has(q, S)) /\ (i.state \in S => Has(q, S))
        /\ HasBad(Tail(q)) => HasBad(q)
        /\ i.state \in GivenUp => ~ Has(Tail(q), Alive)
    BY <1>1, Tails DEF Tells, Behind
  <1>3. i.state \in Told \cup {"absent"} /\ "absent" \notin Told
    BY <1>2, Fields, States
  <1>4. /\ i.state \in GivenUp => srv.state \in GivenUp /\ ~ hist.handed
        /\ i.state = "done" => hist.handed
        /\ srv.upd = 0 => i.state = "absent"
    <2>1. i.state \in GivenUp => srv.state \in GivenUp
      BY <1>1, <1>2 DEF Behind
    <2> QED
      BY <2>1, <1>1, <1>2, <1>3, States DEF Behind, Server
  <1>5. rec' \in Recs /\ (rec'.settled => rec.settled)
    BY DEF Becomes
  <1>6. /\ win' \in Wins /\ win'.sheet = win.sheet /\ shelf' \in {"live", "row", "gone"}
        /\ win'.settling = "done" => win.settling = "done" \/ rec'.state = "done"
        /\ win'.settling = "back" => win.settling = "back" \/ rec'.state \in GivenUp \cup {"refused"}
        /\ shelf' = shelf \/ (shelf = "row" /\ shelf' = "gone" /\ rec'.state = "done")
    BY <1>5, Follows
  <1>7. /\ rec'.state = "done" => rec.state = "done" \/ i.state = "done"
        /\ rec'.state = "none" => rec.state = "none"
        /\ rec'.state = "packing" => rec.state = "packing" /\ rec'.upd = rec.upd /\ (rec.upd = 0 => i.state = "absent")
        /\ rec'.state = "refused" => rec.state = "refused"
        /\ rec'.state \in GivenUp => (rec.state \in GivenUp \/ i.state \in GivenUp)
        /\ rec.state \in GivenUp => rec'.state \in GivenUp \/ i.state \in Alive
        /\ i.state = "absent" => rec'.state = rec.state \/ rec.state \in Open
    BY <1>3, States DEF Becomes
  <1>8. outbox' \in {"none", "packed", "named", "acked", "refused"}
        /\ outbox' = (IF outbox \in {"named", "acked", "refused"} /\ i.state # "absent" THEN "acked" ELSE outbox)
    BY DEF TypeInv, Acked
  <1>9. Targets'
    BY <1>2, <1>7 DEF Targets
  <1>10. Outcome'
    BY <1>4, <1>5, <1>6, <1>7, <1>8 DEF Outcome
  <1>11. Sends'
    <2>1. SUFFICES ASSUME ~ budget.badTarget PROVE Staging' /\ Ended' /\ Kept' /\ Locked'
      BY DEF Sends
    <2>2. Staging /\ Ended /\ Kept /\ Locked /\ rec.state # "refused"
      BY <2>1 DEF Sends, Targets
    <2>3. Staging'
      <3>1. rec'.state = "none" => outbox' = "none"
        BY <2>2, <1>7, <1>8 DEF Staging
      <3>2. outbox' \in {"packed", "named"} => rec'.state = "packing"
        <4>1. SUFFICES ASSUME outbox' \in {"packed", "named"} PROVE rec'.state = "packing"
          OBVIOUS
        <4>2. rec.state = "packing" /\ i.state = "absent"
          BY <4>1, <2>2, <1>4, <1>8 DEF Staging
        <4> QED
          BY <4>2, <1>7, States
      <3>3. outbox' = "acked" => rec'.state \notin {"none", "packing"}
        BY <2>2, <1>7, <1>8 DEF Staging
      <3>4. win'.sheet = "review" => outbox' = "none" /\ srv'.upd = 0 /\ rec'.state \in {"none", "packing"}
        BY <2>2, <1>4, <1>6, <1>7, <1>8, States DEF Staging
      <3>5. rec'.state = "packing" => shelf' = "row" /\ rec'.upd = 0 /\ ~ hist'.warned
        BY <2>2, <1>6, <1>7 DEF Staging
      <3> QED
        BY <3>1, <3>2, <3>3, <3>4, <3>5, <2>2, <1>8 DEF Staging
    <2>4. Ended'
      <3>1. SUFFICES ASSUME rec'.state \in GivenUp \/ win'.settling = "back"
                     PROVE  /\ rec'.state \in GivenUp /\ srv.state \in GivenUp \cup {"absent"} /\ ~ hist.handed
                            /\ outbox' \in {"none", "acked"} /\ ~ Has(Tail(q), Alive)
        BY DEF Ended
      <3>2. rec.state \in GivenUp \/ (rec'.state \in GivenUp /\ i.state \in GivenUp)
        BY <3>1, <2>2, <1>6, <1>7 DEF Ended
      <3>3. CASE rec.state \in GivenUp
        <4>1. /\ srv.state \in GivenUp \cup {"absent"} /\ ~ hist.handed /\ outbox \in {"none", "acked"}
              /\ ~ Has(q, Alive)
          BY <3>3, <2>2 DEF Ended
        <4>2. i.state \notin Alive /\ ~ Has(Tail(q), Alive)
          BY <4>1, <1>2
        <4> QED
          BY <3>3, <4>1, <4>2, <1>7, <1>8
      <3>4. CASE rec'.state \in GivenUp /\ i.state \in GivenUp
        <4>1. srv.state \in GivenUp /\ ~ hist.handed /\ srv.upd # 0 /\ i.state # "absent"
          BY <3>4, <1>3, <1>4, States
        <4>2. outbox' \in {"none", "acked"}
          BY <4>1, <2>2, <1>8 DEF Staging
        <4> QED
          BY <3>4, <4>1, <4>2, <1>2
      <3> QED
        BY <3>2, <3>3, <3>4
    <2>5. Kept'
      BY <2>2, <1>6, <1>8 DEF Kept
    <2>6. Locked'
      <3>1. rec.state \in GivenUp => rec'.state \in GivenUp
        BY <2>2, <1>2, <1>7 DEF Ended
      <3> QED
        BY <3>1, <2>2, <1>6, <1>8 DEF Locked
    <2> QED
      BY <2>3, <2>4, <2>5, <2>6
  <1> QED
    BY <1>5, <1>6, <1>8, <1>9, <1>10, <1>11

\* A row no longer listed while its offer waits unacknowledged: the offer goes out again.
LEMMA HearsReoffer ==
    ASSUME IInv, NEW i, net["sender"] # <<>>, i = Head(net["sender"]), i.k = "list", i.state = "absent", outbox = "named",
           rec' = ApplyList(rec, i), outbox' = outbox, shelf' = Dropped(rec'),
           win' = [win EXCEPT !.settling = Due(rec', @)], Offered(Rest), budget' = budget, UNCHANGED <<caps, conn, taker>>
    PROVE  IInv'
  <1> USE DEF IInv, taker
  <1> DEFINE q == Tail(net["sender"])
  <1>1. /\ net["sender"] \in Seq(Msgs) /\ net \in [Machines -> Seq(Msgs)]
        /\ Behind(net["sender"], srv, hist.handed)
    BY DEF TypeInv, Queues, Machines
  <1>2. i \in Msgs /\ q \in Seq(Msgs) /\ (HasBad(q) => HasBad(net["sender"])) /\ Behind(q, srv, hist.handed)
    BY <1>1, Tails, BehindTails
  <1> HIDE DEF q
  <1>3. /\ Rest \in [Machines -> Seq(Msgs)] /\ Rest["sender"] = q
        /\ \A m \in Machines : Behind(Rest[m], srv, hist.handed)
    BY <1>1, <1>2 DEF Rest, q, Queues, Machines
  <1>4. Softly(rec, rec')
    BY <1>2, Fields, WordBecomes DEF TypeInv
  <1>5. /\ rec' \in Recs /\ rec'.settled = rec.settled
        /\ rec'.state = rec.state \/ (rec.state \in Open /\ rec'.state = "returned")
    BY <1>4 DEF Softly
  <1>6. /\ win' \in Wins /\ win'.sheet = win.sheet /\ shelf' \in {"live", "row", "gone"}
        /\ win'.settling = "done" => win.settling = "done" \/ rec'.state = "done"
        /\ win'.settling = "back" => win.settling = "back" \/ rec'.state \in GivenUp \cup {"refused"}
        /\ shelf' = shelf \/ (shelf = "row" /\ shelf' = "gone" /\ rec'.state = "done")
    BY <1>5, Follows
  <1>7. ~ hist.handed /\ rec.state # "done" /\ ~ rec.settled /\ win.settling # "done" /\ shelf # "gone"
    <2>1. ~ hist.handed
      BY NotHere DEF Sends, Kept
    <2> QED
      BY <2>1 DEF Outcome
  <1>8. Asked(Rest, "sender", {"absent"}, "uploading")
    BY DEF Offered, Asked, Refuse, Reasons
  <1>9. /\ net' \in [Machines -> Seq(Msgs)]
        /\ srv' \in [state : Told \cup {"absent"}, upd : Nat]
        /\ hist' \in [handed : BOOLEAN, warned : BOOLEAN, silent : BOOLEAN, forgot : BOOLEAN]
        /\ Server' /\ Queues' /\ Moved({"absent"}, "uploading")
        /\ HasBad(net'["sender"]) => HasBad(q) \/ budget.badTarget
    <2>1. "uploading" \in Told /\ "sender" \in Machines /\ "absent" \notin GivenUp
      BY States DEF Machines
    <2>2. srv.state \in {"absent"} => ~ hist.handed /\ ("uploading" \in Alive => srv.state \notin GivenUp)
      BY <1>7, <2>1
    <2> QED
      BY <1>3, <1>8, <2>1, <2>2, AskedKeeps
  <1>10. /\ hist'.handed = hist.handed /\ hist'.warned = hist.warned /\ hist'.forgot = hist.forgot
         /\ srv' = srv \/ (~ budget.badTarget /\ srv'.state = "uploading")
    BY <1>9 DEF Moved, TypeInv
  <1>11. TypeInv'
    BY <1>5, <1>6, <1>9 DEF TypeInv, Wins
  <1>12. Targets'
    BY <1>2, <1>5, <1>9, <1>10, States DEF Targets
  <1>13. Outcome'
    BY <1>5, <1>6, <1>7, States DEF Outcome
  <1>14. Sends'
    <2>1. SUFFICES ASSUME ~ budget.badTarget PROVE Staging' /\ Ended' /\ Kept' /\ Locked'
      BY DEF Sends
    <2>2. Staging /\ Ended /\ Kept /\ Locked /\ rec.state = "packing" /\ shelf = "row"
      BY <2>1 DEF Sends, Staging
    <2>3. rec' = rec /\ shelf' = shelf
      BY <2>2, <1>5, <1>6, States DEF ApplyList
    <2>4. Staging' /\ Locked'
      BY <2>2, <2>3, <1>6, <1>10 DEF Staging, Locked
    <2>5. Ended'
      BY <2>2, <2>3, <1>6, States DEF Ended
    <2>6. Kept'
      BY <2>2, <1>7, <1>10 DEF Kept
    <2> QED
      BY <2>4, <2>5, <2>6
  <1>15. Holds'
    BY <1>10 DEF Holds
  <1> QED
    BY <1>9, <1>11, <1>12, <1>13, <1>14, <1>15

\* A refusal that settles nothing.
LEMMA HearsRefusal ==
    ASSUME IInv, NEW i, net["sender"] # <<>>, i = Head(net["sender"]), i.k = "refused",
           rec' = ApplyRefused(rec, i.reason), shelf' = Dropped(rec'), win' = [win EXCEPT !.settling = Due(rec', @)],
           outbox' = IF outbox = "named" /\ i.reason \in {"bad_target", "off"} THEN "refused" ELSE outbox,
           srv' = srv, hist' = hist, budget' = budget, net'["sender"] = Tail(net["sender"])
    PROVE  /\ rec' \in Recs /\ outbox' \in {"none", "packed", "named", "acked", "refused"}
           /\ shelf' \in {"live", "row", "gone"} /\ win' \in Wins
           /\ Targets' /\ Sends' /\ Outcome'
  <1> USE DEF IInv
  <1>1. net["sender"] \in Seq(Msgs)
    BY DEF TypeInv, Machines
  <1>2. /\ HasBad(Tail(net["sender"])) => HasBad(net["sender"])
        /\ Bad(i) => HasBad(net["sender"])
        /\ \A S : Has(Tail(net["sender"]), S) => Has(net["sender"], S)
    BY <1>1, Tails
  <1>3. /\ rec' \in Recs /\ rec'.settled = rec.settled /\ rec'.upd = rec.upd
        /\ rec' = rec \/ (budget.badTarget /\ rec'.state = "refused")
    <2>1. rec' = rec \/ (i.reason = "bad_target" /\ rec' = [rec EXCEPT !.state = "refused"])
      BY DEF ApplyRefused
    <2>2. i.reason = "bad_target" => budget.badTarget
      BY <1>2 DEF Bad, Targets
    <2> QED
      BY <2>1, <2>2 DEF TypeInv, Recs
  <1>4. /\ win' \in Wins /\ win'.sheet = win.sheet /\ shelf' \in {"live", "row", "gone"}
        /\ win'.settling = "done" => win.settling = "done" \/ rec'.state = "done"
        /\ win'.settling = "back" => win.settling = "back" \/ rec'.state \in GivenUp \cup {"refused"}
        /\ shelf' = shelf \/ (shelf = "row" /\ shelf' = "gone" /\ rec'.state = "done")
    BY <1>3, Follows
  <1>5. outbox' \in {"none", "packed", "named", "acked", "refused"}
    BY DEF TypeInv
  <1>6. Targets'
    BY <1>2, <1>3 DEF Targets
  <1>7. Outcome'
    BY <1>3, <1>4, NotHere DEF Outcome
  <1>8. Sends'
    <2>1. SUFFICES ASSUME ~ budget.badTarget PROVE Staging' /\ Ended' /\ Kept' /\ Locked'
      BY DEF Sends
    <2>2. Staging /\ Ended /\ Kept /\ Locked /\ rec.state # "refused" /\ rec' = rec
      BY <2>1, <1>3 DEF Sends, Targets
    <2>3. Staging'
      BY <2>2, <1>4 DEF Staging
    <2>4. Ended'
      BY <2>2, <1>2, <1>4 DEF Ended
    <2>5. Kept' /\ Locked'
      BY <2>2, <1>4 DEF Kept, Locked
    <2> QED
      BY <2>3, <2>4, <2>5
  <1> QED
    BY <1>3, <1>4, <1>5, <1>6, <1>7, <1>8

LEMMA StepSenderHears ==
    ASSUME IInv, SenderHears PROVE IInv'
  <1> USE DEF IInv, taker
  <1> DEFINE q == net["sender"]
  <1> DEFINE i == Head(q)
  <1>1. q \in Seq(Msgs) /\ q # <<>> /\ Behind(q, srv, hist.handed) /\ net \in [Machines -> Seq(Msgs)]
    BY DEF SenderHears, TypeInv, Queues, Machines
  <1>2. /\ i \in Msgs /\ Tail(q) \in Seq(Msgs) /\ Behind(Tail(q), srv, hist.handed)
        /\ HasBad(Tail(q)) => HasBad(q)
        /\ \A S : Has(Tail(q), S) => Has(q, S)
    BY <1>1, Tails, BehindTails
  <1>3. /\ caps' = caps /\ conn' = conn /\ inrec' = inrec /\ inbox' = inbox /\ copy' = copy /\ refusing' = refusing
        /\ budget' = budget
    BY DEF SenderHears
  <1>4. i.k \in {"info", "list", "welcome", "refused"}
    BY <1>2, Fields
  <1>5. ASSUME net' = Rest
        PROVE  /\ net' \in [Machines -> Seq(Msgs)] /\ net'["sender"] = Tail(q)
               /\ \A m \in Machines : Behind(net'[m], srv, hist.handed)
    <2>1. net' = [net EXCEPT !["sender"] = Tail(q)]
      BY <1>5 DEF Rest
    <2> HIDE DEF q, i
    <2>2. \A m \in Machines : net'[m] = net[m] \/ net'[m] = Tail(q)
      BY <2>1, <1>1
    <2>3. net' \in [Machines -> Seq(Msgs)] /\ net'["sender"] = Tail(q)
      BY <2>1, <1>1, <1>2 DEF Machines
    <2> QED
      BY <2>2, <2>3, <1>2 DEF Queues
  <1>6. CASE i.k = "welcome"
    <2>1. /\ rec' = OnCaps(rec, IF i.on THEN "on" ELSE "off", FALSE)
          /\ win' = [win EXCEPT !.heard = IF i.on THEN "on" ELSE "off"]
          /\ hist' = [hist EXCEPT !.silent = FALSE]
          /\ net' = Rest /\ outbox' = outbox /\ shelf' = shelf /\ srv' = srv
      BY <1>6 DEF SenderHears
    <2>2. Softly(rec, rec')
      BY <2>1, CapsSoftly DEF TypeInv
    <2>3. win' \in Wins /\ win'.sheet = win.sheet /\ win'.settling = win.settling
      <3>1. (IF i.on THEN "on" ELSE "off") \in {"none", "on", "off"}
        OBVIOUS
      <3> QED
        BY <3>1, <2>1 DEF TypeInv, Wins
    <2>4. /\ hist' \in [handed : BOOLEAN, warned : BOOLEAN, silent : BOOLEAN, forgot : BOOLEAN]
          /\ hist'.handed = hist.handed /\ hist'.warned = hist.warned /\ hist'.forgot = hist.forgot
      BY <2>1 DEF TypeInv
    <2> HIDE DEF q, i
    <2>5. TypeInv'
      <3>1. net' \in [Machines -> Seq(Msgs)] /\ rec' \in Recs /\ srv' = srv /\ outbox' = outbox /\ shelf' = shelf
        BY <2>1, <2>2, <1>5 DEF Softly
      <3> QED
        BY <3>1, <2>3, <2>4, <1>3 DEF TypeInv, Wins
    <2>6. Server' /\ Queues' /\ Holds' /\ RowGoes
      BY <2>1, <2>4, <1>3, <1>5 DEF Server, Queues, Holds, RowGoes
    <2>7. NewsFits
      BY <2>1, <1>2, <1>5 DEF NewsFits, q
    <2>8. Targets' /\ Sends' /\ Outcome'
      BY <2>1, <2>2, <2>3, <2>4, <2>6, <2>7, <1>3, SenderStands
    <2> QED
      BY <2>5, <2>6, <2>8
  <1>7. CASE i.k = "list" /\ i.state = "absent" /\ outbox = "named" /\ win.heard = "on"
    <2>1. /\ rec' = ApplyList(rec, i) /\ outbox' = outbox /\ shelf' = Dropped(rec')
          /\ win' = [win EXCEPT !.settling = Due(rec', @)] /\ Offered(Rest)
      BY <1>7 DEF SenderHears, Heard
    <2>2. UNCHANGED <<caps, conn, taker>>
      BY DEF SenderHears
    <2> QED
      BY <2>1, <2>2, <1>1, <1>3, <1>7, HearsReoffer
  <1>8. CASE \/ i.k = "info"
             \/ i.k = "list" /\ ~ (i.state = "absent" /\ outbox = "named" /\ win.heard = "on")
    <2>1. /\ outbox' = Acked(i) /\ shelf' = Dropped(rec') /\ win' = [win EXCEPT !.settling = Due(rec', @)]
          /\ i.k = "info" => rec' = Under(ApplyInfo(rec, i))
          /\ i.k = "list" => rec' = Under(ApplyList(rec, i))
          /\ net' = Rest /\ srv' = srv /\ hist' = hist
      BY <1>8 DEF SenderHears, Heard
    <2>2. Becomes(rec, i, rec')
      <3>1. /\ rec \in Recs /\ i.state \in Told \cup {"absent"} /\ i.upd \in Nat /\ (i.k = "info" => i.state # "absent")
        BY <1>2, <1>8, Fields, States DEF TypeInv
      <3> QED
        BY <3>1, <2>1, <1>8, WordBecomes
    <2>3. net'["sender"] = Tail(q)
      BY <2>1, <1>5
    <2>4. i.k \in {"info", "list"}
      BY <1>8
    <2>5. /\ rec' \in Recs /\ outbox' \in {"none", "packed", "named", "acked", "refused"}
          /\ shelf' \in {"live", "row", "gone"} /\ win' \in Wins
          /\ Targets' /\ Sends' /\ Outcome'
      BY <2>1, <2>2, <2>3, <2>4, <1>1, <1>3, HearsWord
    <2> HIDE DEF q, i
    <2>6. TypeInv'
      BY <2>1, <2>5, <1>3, <1>5 DEF TypeInv, Wins
    <2> QED
      BY <2>1, <2>5, <2>6, <1>3, <1>5 DEF Server, Queues, Holds
  <1>9. CASE i.k = "refused" /\ i.reason = "gone" /\ win.recalling /\ rec.state = "packing"
    <2>1. /\ SettleHere /\ win' = [win EXCEPT !.recalling = FALSE, !.offered = FALSE]
          /\ net' = Rest /\ shelf' = shelf /\ srv' = srv /\ hist' = hist
      BY <1>9 DEF SenderHears
    <2>2. win' \in Wins /\ win'.sheet = win.sheet /\ win'.settling = win.settling
      BY <2>1 DEF TypeInv, Wins
    <2>3. HasBad(net["sender"])' => HasBad(net["sender"])
      BY <2>1, <1>2, <1>5
    <2>4. "packing" \notin GivenUp
      BY States
    <2> HIDE DEF q, i
    <2>5. Targets' /\ Sends' /\ Outcome'
      BY <2>1, <2>2, <2>3, <2>4, <1>3, <1>9, SettledHere
    <2>6. TypeInv'
      BY <2>1, <2>2, <1>3, <1>5, States DEF TypeInv, Wins, SettleHere
    <2> QED
      BY <2>1, <2>5, <2>6, <1>3, <1>5 DEF Server, Queues, Holds
  <1>10. CASE i.k = "refused" /\ ~ (i.reason = "gone" /\ win.recalling /\ rec.state = "packing")
    <2>1. /\ rec' = ApplyRefused(rec, i.reason) /\ shelf' = Dropped(rec') /\ win' = [win EXCEPT !.settling = Due(rec', @)]
          /\ outbox' = IF outbox = "named" /\ i.reason \in {"bad_target", "off"} THEN "refused" ELSE outbox
          /\ net' = Rest /\ srv' = srv /\ hist' = hist
      BY <1>10 DEF SenderHears, Heard
    <2>2. net'["sender"] = Tail(q)
      BY <2>1, <1>5
    <2>3. /\ rec' \in Recs /\ outbox' \in {"none", "packed", "named", "acked", "refused"}
          /\ shelf' \in {"live", "row", "gone"} /\ win' \in Wins
          /\ Targets' /\ Sends' /\ Outcome'
      BY <2>1, <2>2, <1>1, <1>3, <1>10, HearsRefusal
    <2> HIDE DEF q, i
    <2>4. TypeInv'
      BY <2>1, <2>3, <1>3, <1>5 DEF TypeInv, Wins
    <2> QED
      BY <2>1, <2>3, <2>4, <1>3, <1>5 DEF Server, Queues, Holds
  <1> QED
    BY <1>4, <1>6, <1>7, <1>8, <1>9, <1>10

-----------------------------------------------------------------------------
(* The theorems.                                                            *)

LEMMA Starts ==
    ASSUME BudgetsTyped, Init PROVE IInv
  <1> USE DEF Init
  <1>1. /\ <<>> \in Seq(Msgs) /\ Behind(<<>>, srv, FALSE) /\ ~ HasBad(<<>>)
    <2>1. srv \in [state : Told \cup {"absent"}, upd : Nat]
      OBVIOUS
    <2> QED
      BY <2>1, Fresh
  <1>2. rec \in Recs /\ rec.state = "none" /\ ~ rec.settled
    BY States
  <1>3. /\ win \in Wins /\ win.sheet = "none" /\ win.settling = "no"
        /\ inrec \in [state : Told \cup {"none"}, chosen : BOOLEAN, settled : BOOLEAN, upd : Nat]
    BY DEF Wins, NewWindow, NoInRec
  <1>4. budget \in Purse
    BY DEF BudgetsTyped
  <1>5. hist \in [handed : BOOLEAN, warned : BOOLEAN, silent : BOOLEAN, forgot : BOOLEAN] /\ ~ hist.handed
    OBVIOUS
  <1>6. TypeInv
    BY <1>1, <1>2, <1>3, <1>4, <1>5 DEF TypeInv, Wins
  <1>7. Server /\ Queues /\ Targets
    BY <1>1, <1>2, <1>5 DEF Server, Queues, Targets, Machines
  <1>8. Sends /\ Outcome /\ Holds
    BY <1>2, <1>3, <1>5, States DEF Sends, Staging, Ended, Kept, Locked, Outcome, Holds
  <1> QED
    BY <1>6, <1>7, <1>8 DEF IInv

LEMMA Steps ==
    ASSUME IInv, [Next]_hvars PROVE IInv'
  <1>1. CASE UNCHANGED hvars
    BY <1>1 DEF hvars, IInv, TypeInv, Server, Queues, Targets, Sends, Staging, Ended, Kept, Locked, Outcome, Holds
  <1>2. ASSUME Next PROVE IInv'
    BY <1>2, StepExpire, StepPurge, StepRestarted, StepSilence, StepConnect, StepDrop, StepProceed, StepPack,
       StepHandoffSend, StepHandoffSent, StepCancel, StepTakeBack, StepResume, StepSenderHears, StepUpload,
       StepSettleDone, StepSettleBack, StepDismissHanded, StepRestartSender, StepClaimIn, StepDeclineIn,
       StepTakerHears, StepFetch, StepInstall, StepRetry, StepRestartTaker DEF Next
  <1> QED
    BY <1>1, <1>2

LEMMA Invariant ==
    ASSUME BudgetsTyped PROVE Spec => []IInv
  <1>1. Init => IInv
    BY Starts
  <1>2. IInv /\ [Next]_hvars => IInv'
    BY Steps
  <1> QED
    BY <1>1, <1>2, PTL DEF Spec

\* Once the server hands the conversation over, the sender's row is locked, on its way out or asks
\* first (`handoffBusy`, `resumeDormant`): in every order of loss, refusal, restart, switch, expiry
\* and purge, and for every budget of them.
THEOREM CarriedOnOnce ==
    ASSUME BudgetsTyped PROVE Spec => []OneHolder
  <1>1. IInv => OneHolder
    <2>1. SUFFICES ASSUME IInv, hist.handed, ~ hist.warned
                   PROVE  ~ (shelf = "live" \/ (shelf = "row" /\ ~ Busy(rec) /\ rec.state # "returned"))
      BY DEF OneHolder
    <2>2. Staging /\ Ended /\ Kept /\ Locked /\ rec.state # "refused"
      BY <2>1, NotHere DEF IInv, Sends, Targets
    <2>3. rec.state \notin GivenUp
      BY <2>1, <2>2 DEF Ended
    <2>4. shelf = "gone" \/ outbox = "acked"
      BY <2>1, <2>2 DEF Kept
    <2>5. outbox = "acked" => shelf \in {"row", "gone"} /\ rec.state \notin {"none", "packing"} /\ ~ rec.settled
      BY <2>1, <2>2, <2>3 DEF IInv, Locked, Staging, Outcome
    <2> QED
      BY <2>1, <2>2, <2>3, <2>4, <2>5, States DEF IInv, TypeInv, Recs, Busy
  <1> QED
    BY <1>1, Invariant, PTL

\* What the sender's window archived the taker has, whole in its staging or open (`handoff_prune`,
\* `handoff_install`): unless the server forgot the row before the taker heard it was done.
THEOREM ArchivedIsHad ==
    ASSUME BudgetsTyped PROVE Spec => []SomebodyHolds
  <1>1. IInv => SomebodyHolds
    BY DEF IInv, SomebodyHolds, Outcome, Holds
  <1> QED
    BY <1>1, Invariant, PTL

-----------------------------------------------------------------------------
(* The worktree dialog (WtDialog).                                          *)

CONSTANTS Repos, Nowhere, Hurried, DialogActs
VARIABLES ver, head, ctx, gen, rows, repoBranch, wtLast, reads, fetching, fetched, fetches, busy, op, wtActs
Dlg == INSTANCE WtDialog WITH acts <- wtActs, last <- wtLast, Acts <- DialogActs

Somewhere == Repos \cup {Nowhere}
RowsT == [repo : Somewhere, ver : Nat]
BranchT == Somewhere \X Nat
ReadT == [gen : Nat, repo : Repos, load : BOOLEAN, answered : BOOLEAN, ver : Nat, head : Nat]
DialogVerbs == {"create", "switch", "remove"}

DialogTypes ==
    /\ ver \in [Repos -> Nat] /\ head \in [Repos -> Nat]
    /\ ctx \in Somewhere /\ gen \in Nat
    /\ rows \in RowsT /\ repoBranch \in BranchT
    /\ wtLast \in [Repos -> [rows : RowsT, head : BranchT]]
    /\ reads \subseteq ReadT
    /\ op \in {Dlg!NoOp} \cup [verb : DialogVerbs, repo : Repos]

\* What is shown is the repository's own, and so is the verb that works.
OwnShown == ctx # Nowhere => rows.repo \in {Nowhere, ctx} /\ repoBranch[1] \in {Nowhere, ctx}
OpHere == op # Dlg!NoOp => op.repo = ctx
\* What is kept for a repository is its own, and no newer than git.
OwnKept == \A r \in Repos :
    /\ wtLast[r].rows.repo \in {Nowhere, r} /\ wtLast[r].head[1] \in {Nowhere, r}
    /\ wtLast[r].rows.ver <= ver[r]
\* While the dialog is open it shows what it would come back to.
ShownKept == ctx # Nowhere => rows = wtLast[ctx].rows
\* One read holds the newest ticket, and its answer is no older than the rows.
Tickets ==
    /\ \A q \in reads : q.gen <= gen
    /\ \A p, q \in reads : p.gen = q.gen => p = q
NotAhead == \A q \in reads : q.answered => q.ver <= ver[q.repo]
FreshReads == \A q \in reads : q.answered /\ q.gen = gen /\ q.repo = ctx => rows.ver <= q.ver

DialogInv == DialogTypes /\ OwnShown /\ OpHere /\ OwnKept /\ ShownKept /\ Tickets /\ NotAhead /\ FreshReads

LEMMA DialogBegins == ASSUME Nowhere \notin Repos, Dlg!Init PROVE DialogInv
BY SMT DEF Dlg!Init, DialogInv, DialogTypes, Somewhere, RowsT, BranchT, Dlg!NoRows, Dlg!NoOp, OwnShown, OpHere, OwnKept, ShownKept,
    Tickets, NotAhead, FreshReads

\* A new ticket leaves every other read older, whatever the dialog shows.
LEMMA NewTicket ==
    ASSUME DialogInv, NEW load \in BOOLEAN, ctx' \in Repos, Dlg!Read(load), ver' \in [Repos -> Nat],
           \A r \in Repos : ver[r] <= ver'[r]
    PROVE  /\ gen' \in Nat /\ reads' \subseteq ReadT
           /\ Tickets' /\ NotAhead' /\ FreshReads'
<1> DEFINE new == [gen |-> gen + 1, repo |-> ctx', load |-> load, answered |-> FALSE, ver |-> 0, head |-> 0]
<1>1. gen' = gen + 1 /\ reads' = reads \cup {new} /\ gen \in Nat /\ reads \subseteq ReadT
  BY DEF Dlg!Read, DialogInv, DialogTypes
<1>2. new \in ReadT /\ new.gen = gen + 1 /\ ~ new.answered
  BY <1>1, SMT DEF ReadT
<1>3. \A q \in reads : q.gen \in Nat /\ q.gen <= gen /\ q.repo \in Repos /\ q.ver \in Nat
  BY <1>1, SMT DEF DialogInv, Tickets, ReadT
<1> HIDE DEF new
<1>4. gen' \in Nat /\ reads' \subseteq ReadT
  BY <1>1, <1>2, SMT
<1>5. Tickets'
  BY <1>1, <1>2, <1>3, SMT DEF DialogInv, Tickets
<1>6. NotAhead'
  <2> SUFFICES ASSUME NEW q \in reads', q.answered PROVE q.ver <= ver'[q.repo]
    BY DEF NotAhead
  <2>1. q \in reads
    BY <1>1, <1>2
  <2>2. q.ver <= ver[q.repo] /\ ver[q.repo] <= ver'[q.repo] /\ ver[q.repo] \in Nat /\ ver'[q.repo] \in Nat
    BY <2>1, <1>3, SMT DEF DialogInv, DialogTypes, NotAhead
  <2> QED
    BY <2>1, <2>2, <1>3, SMT
<1>7. FreshReads'
  BY <1>1, <1>2, <1>3, SMT DEF FreshReads
<1> QED
  BY <1>4, <1>5, <1>6, <1>7

\* What a step must keep besides the invariant.
DialogStep == ctx' # Nowhere /\ ctx' = ctx /\ rows.repo = ctx => rows'.repo = ctx /\ rows'.ver >= rows.ver

LEMMA OpenWtStep ==
    ASSUME Nowhere \notin Repos, Hurried = FALSE, DialogInv, NEW r \in Repos, NEW known \in BOOLEAN, Dlg!OpenWt(r, known)
    PROVE  DialogInv' /\ DialogStep
<1>1. /\ ctx' = r /\ ctx' \in Repos /\ Dlg!Read(TRUE) /\ op = Dlg!NoOp /\ UNCHANGED <<ver, head, wtLast, op>>
      /\ rows' = wtLast[r].rows /\ repoBranch' = IF known THEN <<r, head[r]>> ELSE wtLast[r].head
  BY DEF Dlg!OpenWt, Dlg!Still, Dlg!git
<1>2. ver' \in [Repos -> Nat] /\ \A s \in Repos : ver[s] <= ver'[s]
  BY <1>1, SMT DEF DialogInv, DialogTypes
<1>3. gen' \in Nat /\ reads' \subseteq ReadT /\ Tickets' /\ NotAhead' /\ FreshReads'
  BY <1>1, <1>2, NewTicket
<1>4. DialogTypes'
  BY <1>1, <1>3, SMT DEF DialogInv, DialogTypes, Somewhere, BranchT
<1>5. OwnShown' /\ OpHere' /\ OwnKept' /\ ShownKept'
  BY <1>1, SMT DEF DialogInv, DialogTypes, OwnShown, OpHere, OwnKept, ShownKept
<1>6. DialogStep
  BY <1>1, SMT DEF DialogInv, DialogTypes, RowsT, DialogStep, ShownKept
<1> QED
  BY <1>3, <1>4, <1>5, <1>6 DEF DialogInv

LEMMA ShutStep ==
    ASSUME Nowhere \notin Repos, DialogInv, Dlg!Shut, op' = Dlg!NoOp, UNCHANGED <<head, wtLast>>,
           ver' \in [Repos -> Nat], \A r \in Repos : ver[r] <= ver'[r]
    PROVE  DialogInv' /\ DialogStep
<1>1. ctx' = Nowhere /\ gen' = gen + 1 /\ UNCHANGED <<rows, repoBranch, reads>>
  BY DEF Dlg!Shut
<1>2. DialogTypes'
  BY <1>1, SMT DEF DialogInv, DialogTypes, Somewhere
<1>3. OwnShown' /\ OpHere' /\ ShownKept' /\ DialogStep
  BY <1>1 DEF OwnShown, OpHere, ShownKept, DialogStep
<1>4. OwnKept'
  BY <1>1, SMT DEF DialogInv, DialogTypes, OwnKept, RowsT
<1>5. Tickets' /\ NotAhead'
  BY <1>1, SMT DEF DialogInv, DialogTypes, Tickets, NotAhead, ReadT
<1>6. FreshReads'
  BY <1>1, SMT DEF DialogInv, DialogTypes, FreshReads, ReadT
<1> QED
  BY <1>2, <1>3, <1>4, <1>5, <1>6 DEF DialogInv

\* Rows and dialog stay as they are while git may move on and nothing is asked.
LEMMA QuietStep ==
    ASSUME DialogInv, UNCHANGED <<ctx, gen, rows, repoBranch, wtLast, reads>>, OpHere',
           ver' \in [Repos -> Nat], head' \in [Repos -> Nat], \A r \in Repos : ver[r] <= ver'[r],
           op' \in {Dlg!NoOp} \cup [verb : DialogVerbs, repo : Repos]
    PROVE  DialogInv' /\ DialogStep
<1>1. DialogTypes'
  BY SMT DEF DialogInv, DialogTypes
<1>2. OwnShown' /\ ShownKept' /\ Tickets' /\ FreshReads'
  BY SMT DEF DialogInv, OwnShown, ShownKept, Tickets, FreshReads
<1>3. OwnKept'
  BY SMT DEF DialogInv, DialogTypes, OwnKept, RowsT
<1>4. NotAhead'
  BY SMT DEF DialogInv, DialogTypes, NotAhead, ReadT
<1>5. DialogStep
  BY SMT DEF DialogInv, DialogTypes, DialogStep, RowsT
<1> QED
  BY <1>1, <1>2, <1>3, <1>4, <1>5 DEF DialogInv

\* The dialog stays where it is and asks again.
LEMMA AskStep ==
    ASSUME DialogInv, NEW load \in BOOLEAN, ctx' = ctx, ctx' \in Repos, Dlg!Read(load), UNCHANGED <<rows, wtLast>>,
           repoBranch' \in BranchT, repoBranch'[1] \in {Nowhere, ctx}, OpHere',
           ver' \in [Repos -> Nat], head' \in [Repos -> Nat], \A r \in Repos : ver[r] <= ver'[r],
           op' \in {Dlg!NoOp} \cup [verb : DialogVerbs, repo : Repos]
    PROVE  DialogInv' /\ DialogStep
<1>1. gen' \in Nat /\ reads' \subseteq ReadT /\ Tickets' /\ NotAhead' /\ FreshReads'
  BY NewTicket
<1>2. DialogTypes'
  BY <1>1, SMT DEF DialogInv, DialogTypes
<1>3. OwnShown' /\ ShownKept'
  BY SMT DEF DialogInv, OwnShown, ShownKept
<1>4. OwnKept'
  BY SMT DEF DialogInv, DialogTypes, OwnKept, RowsT
<1>5. DialogStep
  BY SMT DEF DialogInv, DialogTypes, DialogStep, RowsT
<1> QED
  BY <1>1, <1>2, <1>3, <1>4, <1>5 DEF DialogInv

LEMMA DialogAnswered ==
    ASSUME Nowhere \notin Repos, DialogInv, NEW q \in reads, Dlg!Answered(q)
    PROVE  DialogInv' /\ DialogStep
<1> DEFINE a == Dlg!Answer(q)
<1>1. reads' = (reads \ {q}) \cup {a} /\ UNCHANGED <<ver, head, ctx, gen, rows, repoBranch, wtLast, op>>
  BY DEF Dlg!Answered, Dlg!git
<1>2. q \in ReadT /\ q.repo \in Repos /\ ver[q.repo] \in Nat /\ head[q.repo] \in Nat
  BY SMT DEF DialogInv, DialogTypes, ReadT
<1>3. a \in ReadT /\ a.gen = q.gen /\ a.repo = q.repo /\ a.ver = ver[q.repo]
  BY <1>2, SMT DEF ReadT, Dlg!Answer
<1> HIDE DEF a
<1>4. DialogTypes'
  BY <1>1, <1>3, SMT DEF DialogInv, DialogTypes
<1>5. OwnShown' /\ OpHere' /\ OwnKept' /\ ShownKept' /\ DialogStep
  BY <1>1, SMT DEF DialogInv, DialogTypes, OwnShown, OpHere, OwnKept, ShownKept, DialogStep, RowsT
<1>6. Tickets'
  BY <1>1, <1>3, SMT DEF DialogInv, Tickets
<1>7. NotAhead'
  BY <1>1, <1>2, <1>3, SMT DEF DialogInv, NotAhead
<1>8. q.repo = ctx => rows.ver <= ver[q.repo]
  <2> SUFFICES ASSUME q.repo = ctx PROVE rows.ver <= ver[ctx]
    OBVIOUS
  <2>1. ctx \in Repos
    BY <1>2
  <2>2. wtLast[ctx].rows.ver <= ver[ctx]
    BY <2>1 DEF DialogInv, OwnKept
  <2>3. rows = wtLast[ctx].rows
    BY <2>1 DEF DialogInv, ShownKept
  <2> QED
    BY <2>2, <2>3
<1>9. FreshReads'
  BY <1>1, <1>3, <1>8, SMT DEF DialogInv, FreshReads
<1> QED
  BY <1>4, <1>5, <1>6, <1>7, <1>9 DEF DialogInv

LEMMA LandStep ==
    ASSUME Nowhere \notin Repos, DialogInv, NEW q \in reads, Dlg!Land(q)
    PROVE  DialogInv' /\ DialogStep
<1>1. /\ reads' = reads \ {q} /\ q.answered /\ UNCHANGED <<ver, head, ctx, gen, op>>
      /\ IF ~ Dlg!Lands(q) THEN UNCHANGED <<rows, repoBranch, wtLast>>
         ELSE /\ rows' = [repo |-> q.repo, ver |-> q.ver] /\ repoBranch' = <<q.repo, q.head>>
              /\ wtLast' = [wtLast EXCEPT ![q.repo] = [rows |-> rows', head |-> repoBranch']]
  BY DEF Dlg!Land, Dlg!git
<1>2. q \in ReadT /\ q.repo \in Repos /\ q.ver \in Nat /\ q.head \in Nat /\ q.ver <= ver[q.repo]
  BY <1>1, SMT DEF DialogInv, DialogTypes, ReadT, NotAhead
<1>3. Tickets' /\ NotAhead' /\ OpHere'
  BY <1>1, SMT DEF DialogInv, Tickets, NotAhead, OpHere
<1>4. CASE ~ Dlg!Lands(q)
  <2>1. DialogTypes'
    BY <1>1, <1>4, SMT DEF DialogInv, DialogTypes
  <2>2. OwnShown' /\ OwnKept' /\ ShownKept' /\ FreshReads' /\ DialogStep
    BY <1>1, <1>4, SMT DEF DialogInv, DialogTypes, OwnShown, OwnKept, ShownKept, FreshReads, DialogStep, RowsT
  <2> QED
    BY <1>3, <2>1, <2>2 DEF DialogInv
<1>5. CASE Dlg!Lands(q)
  <2>1. ctx = q.repo /\ q.gen = gen /\ rows' = [repo |-> q.repo, ver |-> q.ver]
        /\ repoBranch' = <<q.repo, q.head>> /\ wtLast' = [wtLast EXCEPT ![q.repo] = [rows |-> rows', head |-> repoBranch']]
    BY <1>1, <1>5 DEF Dlg!Lands
  <2>2. rows' \in RowsT /\ repoBranch' \in BranchT
    BY <1>2, <2>1, SMT DEF RowsT, BranchT, Somewhere
  <2>3. /\ wtLast' \in [Repos -> [rows : RowsT, head : BranchT]]
        /\ wtLast'[q.repo] = [rows |-> rows', head |-> repoBranch']
        /\ \A r \in Repos \ {q.repo} : wtLast'[r] = wtLast[r]
    BY <1>2, <2>1, <2>2, SMT DEF DialogInv, DialogTypes
  <2>4. DialogTypes'
    BY <1>1, <2>2, <2>3, SMT DEF DialogInv, DialogTypes
  <2>5. OwnShown' /\ ShownKept'
    BY <1>1, <2>1, <2>3, SMT DEF OwnShown, ShownKept
  <2>6. OwnKept'
    BY <1>1, <1>2, <2>1, <2>3, SMT DEF DialogInv, OwnKept
  <2>7. FreshReads'
    BY <1>1, <2>1, SMT DEF DialogInv, Tickets, FreshReads
  <2>8. DialogStep
    BY <1>1, <1>2, <2>1, SMT DEF DialogInv, DialogTypes, FreshReads, DialogStep, RowsT
  <2> QED
    BY <1>3, <2>4, <2>5, <2>6, <2>7, <2>8 DEF DialogInv
<1> QED
  BY <1>4, <1>5

\* What a commit, a fetch or a verb does to a repository.
LEMMA Bump ==
    ASSUME NEW f \in [Repos -> Nat], NEW r \in Repos
    PROVE  /\ [f EXCEPT ![r] = @ + 1] \in [Repos -> Nat]
           /\ \A s \in Repos : f[s] <= [f EXCEPT ![r] = @ + 1][s]
           /\ [f EXCEPT ![r] = @ + 1][r] \in Nat
BY SMT

LEMMA FetchedStep ==
    ASSUME Nowhere \notin Repos, DialogInv, NEW r \in Repos, NEW ok \in BOOLEAN, Dlg!Fetched(r, ok)
    PROVE  DialogInv' /\ DialogStep
<1>1. ver' \in [Repos -> Nat] /\ \A s \in Repos : ver[s] <= ver'[s]
  BY Bump, SMT DEF Dlg!Fetched, DialogInv, DialogTypes
<1>2. head' \in [Repos -> Nat] /\ ctx' = ctx /\ UNCHANGED <<head, rows, repoBranch, wtLast, op>> /\ OpHere'
  BY DEF Dlg!Fetched, DialogInv, DialogTypes, OpHere
<1>3. op' \in {Dlg!NoOp} \cup [verb : DialogVerbs, repo : Repos]
  BY <1>2 DEF DialogInv, DialogTypes, Dlg!NoOp
<1>4. CASE ctx = r
  <2>1. Dlg!Read(FALSE) /\ ctx' \in Repos
    BY <1>4 DEF Dlg!Fetched
  <2>2. repoBranch' \in BranchT /\ repoBranch'[1] \in {Nowhere, ctx}
    BY <1>2, <1>4 DEF DialogInv, DialogTypes, OwnShown
  <2> QED
    BY <1>1, <1>2, <1>3, <2>1, <2>2, AskStep
<1>5. CASE ctx # r
  <2>1. UNCHANGED <<gen, reads>>
    BY <1>5 DEF Dlg!Fetched
  <2> QED
    BY <1>1, <1>2, <1>3, <2>1, QuietStep
<1> QED
  BY <1>4, <1>5

LEMMA ChangesStep ==
    ASSUME DialogInv, NEW r \in Repos, NEW moves \in BOOLEAN, Dlg!Changes(r, moves)
    PROVE  DialogInv' /\ DialogStep
<1>1. ver' \in [Repos -> Nat] /\ \A s \in Repos : ver[s] <= ver'[s]
  BY Bump DEF Dlg!Changes, DialogInv, DialogTypes
<1>2. head' \in [Repos -> Nat]
  BY Bump DEF Dlg!Changes, DialogInv, DialogTypes
<1>3. UNCHANGED <<ctx, gen, rows, repoBranch, wtLast, reads, op>> /\ OpHere'
  BY DEF Dlg!Changes, DialogInv, OpHere
<1>4. op' \in {Dlg!NoOp} \cup [verb : DialogVerbs, repo : Repos]
  BY <1>3 DEF DialogInv, DialogTypes, Dlg!NoOp
<1> QED
  BY <1>1, <1>2, <1>3, <1>4, QuietStep

LEMMA DialogStarts ==
    ASSUME DialogInv, NEW verb \in DialogVerbs, Dlg!Start(verb)
    PROVE  DialogInv' /\ DialogStep
<1>1. op' = [verb |-> verb, repo |-> ctx] /\ ctx # Nowhere
      /\ UNCHANGED <<ver, head, ctx, gen, rows, repoBranch, wtLast, reads>>
  BY DEF Dlg!Start, Dlg!git
<1>2. ctx \in Repos /\ ver' \in [Repos -> Nat] /\ head' \in [Repos -> Nat]
  BY <1>1 DEF DialogInv, DialogTypes, Somewhere
<1>3. \A s \in Repos : ver[s] <= ver'[s]
  BY <1>1, SMT DEF DialogInv, DialogTypes
<1>4. OpHere'
  BY <1>1 DEF OpHere
<1>5. op' \in [verb : DialogVerbs, repo : Repos]
  BY <1>1, <1>2
<1> QED
  BY <1>1, <1>2, <1>3, <1>4, <1>5, QuietStep

LEMMA DidStep ==
    ASSUME Nowhere \notin Repos, DialogInv, Dlg!Did
    PROVE  DialogInv' /\ DialogStep
<1>1. op # Dlg!NoOp /\ op.repo \in Repos /\ ctx = op.repo
  BY DEF Dlg!Did, DialogInv, DialogTypes, OpHere
<1>2. /\ ver' = [ver EXCEPT ![ctx] = @ + 1] /\ op' = Dlg!NoOp /\ UNCHANGED wtLast
      /\ head' = IF op.verb = "switch" THEN [head EXCEPT ![ctx] = @ + 1] ELSE head
  BY <1>1 DEF Dlg!Did
<1>3. ver' \in [Repos -> Nat] /\ head' \in [Repos -> Nat] /\ \A s \in Repos : ver[s] <= ver'[s]
  BY <1>1, <1>2, Bump DEF DialogInv, DialogTypes
<1>4. OpHere' /\ op' \in {Dlg!NoOp} \cup [verb : DialogVerbs, repo : Repos]
  BY <1>2 DEF OpHere
<1>5. CASE op.verb = "create"
  <2>1. Dlg!Shut /\ UNCHANGED head
    BY <1>2, <1>5 DEF Dlg!Did
  <2> QED
    BY <1>2, <1>3, <2>1, ShutStep
<1>6. CASE op.verb # "create"
  <2>1. /\ ctx' = ctx /\ rows' = rows /\ Dlg!Read(TRUE)
        /\ repoBranch' = IF op.verb = "switch" THEN <<ctx, head'[ctx]>> ELSE repoBranch
    BY <1>1, <1>6 DEF Dlg!Did
  <2>2. repoBranch' \in BranchT /\ repoBranch'[1] \in {Nowhere, ctx}
    BY <1>1, <1>3, <2>1, SMT DEF DialogInv, DialogTypes, OwnShown, BranchT, Somewhere
  <2> QED
    BY <1>1, <1>2, <1>3, <1>4, <2>1, <2>2, AskStep
<1> QED
  BY <1>5, <1>6

LEMMA RefusedStep ==
    ASSUME Nowhere \notin Repos, DialogInv, Dlg!Refused
    PROVE  DialogInv' /\ DialogStep
<1>1. op' = Dlg!NoOp /\ UNCHANGED <<ver, head, wtLast>>
  BY DEF Dlg!Refused, Dlg!git
<1>2. ver' \in [Repos -> Nat] /\ head' \in [Repos -> Nat] /\ \A s \in Repos : ver[s] <= ver'[s]
  BY <1>1, SMT DEF DialogInv, DialogTypes
<1>3. CASE op.verb = "create"
  <2>1. UNCHANGED <<ctx, gen, rows, repoBranch, reads>> /\ OpHere'
    BY <1>1, <1>3 DEF Dlg!Refused, OpHere
  <2> QED
    BY <1>1, <1>2, <2>1, QuietStep
<1>4. CASE op.verb # "create"
  <2>1. Dlg!Shut
    BY <1>4 DEF Dlg!Refused
  <2> QED
    BY <1>1, <1>2, <2>1, ShutStep
<1> QED
  BY <1>3, <1>4

LEMMA CloseWtStep ==
    ASSUME Nowhere \notin Repos, Hurried = FALSE, DialogInv, Dlg!CloseWt
    PROVE  DialogInv' /\ DialogStep
<1>1. Dlg!Shut /\ op' = Dlg!NoOp /\ UNCHANGED <<ver, head, wtLast>>
  BY DEF Dlg!CloseWt, Dlg!Still, Dlg!git
<1>2. ver' \in [Repos -> Nat] /\ \A s \in Repos : ver[s] <= ver'[s]
  BY <1>1, SMT DEF DialogInv, DialogTypes
<1> QED
  BY <1>1, <1>2, ShutStep

LEMMA DialogRefreshes ==
    ASSUME Nowhere \notin Repos, DialogInv, NEW load \in BOOLEAN, Dlg!RefreshWtDialog(load)
    PROVE  DialogInv' /\ DialogStep
<1>1. ctx' = ctx /\ ctx # Nowhere /\ Dlg!Read(load) /\ UNCHANGED <<ver, head, rows, repoBranch, wtLast, op>>
  BY DEF Dlg!RefreshWtDialog, Dlg!git
<1>2. ctx' \in Repos /\ repoBranch' \in BranchT /\ repoBranch'[1] \in {Nowhere, ctx}
  BY <1>1 DEF DialogInv, DialogTypes, Somewhere, OwnShown
<1>3. ver' \in [Repos -> Nat] /\ head' \in [Repos -> Nat] /\ \A s \in Repos : ver[s] <= ver'[s]
  BY <1>1, SMT DEF DialogInv, DialogTypes
<1>4. OpHere' /\ op' \in {Dlg!NoOp} \cup [verb : DialogVerbs, repo : Repos]
  BY <1>1 DEF DialogInv, DialogTypes, OpHere, Dlg!NoOp
<1> QED
  BY <1>1, <1>2, <1>3, <1>4, AskStep

LEMMA DialogNext ==
    ASSUME Nowhere \notin Repos, Hurried = FALSE, DialogInv, [Dlg!Next]_(Dlg!wtvars)
    PROVE  DialogInv' /\ (DialogStep \/ UNCHANGED Dlg!wtvars)
<1>1. CASE Dlg!CloseWt BY <1>1, CloseWtStep
<1>2. CASE Dlg!Did BY <1>2, DidStep
<1>3. CASE Dlg!Refused BY <1>3, RefusedStep
<1>4. ASSUME NEW b \in BOOLEAN, Dlg!RefreshWtDialog(b) PROVE DialogInv' /\ DialogStep
  BY <1>4, DialogRefreshes
<1>5. ASSUME NEW r \in Repos, NEW b \in BOOLEAN, Dlg!OpenWt(r, b) PROVE DialogInv' /\ DialogStep
  BY <1>5, OpenWtStep
<1>6. ASSUME NEW r \in Repos, NEW b \in BOOLEAN, Dlg!Changes(r, b) PROVE DialogInv' /\ DialogStep
  BY <1>6, ChangesStep
<1>7. ASSUME NEW r \in Repos, NEW b \in BOOLEAN, Dlg!Fetched(r, b) PROVE DialogInv' /\ DialogStep
  BY <1>7, FetchedStep
<1>8. ASSUME NEW q \in reads, Dlg!Answered(q) PROVE DialogInv' /\ DialogStep
  BY <1>8, DialogAnswered
<1>9. ASSUME NEW q \in reads, Dlg!Land(q) PROVE DialogInv' /\ DialogStep
  BY <1>9, LandStep
<1>10. ASSUME NEW verb \in DialogVerbs, Dlg!Start(verb) PROVE DialogInv' /\ DialogStep
  BY <1>10, DialogStarts
<1>11. CASE UNCHANGED Dlg!wtvars
  BY <1>11 DEF Dlg!wtvars, DialogInv, DialogTypes, OwnShown, OpHere, OwnKept, ShownKept, Tickets, NotAhead, FreshReads
<1> QED
  BY <1>1, <1>2, <1>3, <1>4, <1>5, <1>6, <1>7, <1>8, <1>9, <1>10, <1>11 DEF Dlg!Next, DialogVerbs

\* The dialog's rows and its HEAD are its own repository's, whatever was asked before and answers when, and
\* while it stays open on a repository they only get newer (wtReadLocal, wtLast).  The dialog is not closed
\* or moved while git works for it.
THEOREM RowsStayTrueHolds ==
    ASSUME Nowhere \notin Repos, Hurried = FALSE
    PROVE  Dlg!Spec => Dlg!RowsStayTrue
<1>1. DialogInv /\ DialogInv' /\ (DialogStep \/ UNCHANGED Dlg!wtvars) =>
        [ctx' # Nowhere =>
            /\ rows'.repo \in {Nowhere, ctx'} /\ repoBranch'[1] \in {Nowhere, ctx'}
            /\ (ctx' = ctx /\ rows.repo = ctx => rows'.repo = ctx /\ rows'.ver >= rows.ver)]_(Dlg!wtvars)
  BY DEF DialogInv, OwnShown, DialogStep
<1>2. Dlg!Init => DialogInv
  BY DialogBegins
<1>3. DialogInv /\ [Dlg!Next]_(Dlg!wtvars) => DialogInv' /\ (DialogStep \/ UNCHANGED Dlg!wtvars)
  BY DialogNext
<1> QED
  BY <1>1, <1>2, <1>3, PTL DEF Dlg!Spec, Dlg!RowsStayTrue

-----------------------------------------------------------------------------
(* The review of a pull request (Review).                                   *)

CONSTANTS Pulls, Steady, Remarks, ReviewActs
VARIABLES heads, stage, pr, full, range, shown, reading, failed, readsBegun, asks, sending, drafts, sent, written, rvActs
Rev == INSTANCE Review WITH Acts <- ReviewActs, head <- heads, gen <- readsBegun, reads <- asks

PageT == {Rev!Nothing} \cup [of : Pulls, head : Nat \ {0}]
AskT == [kind : {"review", "full", "range"}, gen : Nat, of : Pulls, head : Nat, range : {"all", "since"}]
PageTypes ==
    /\ heads \in [Pulls -> Nat \ {0}] /\ stage \in Pulls \cup {Nowhere} /\ full \in Nat /\ range \in {"all", "since"}
    /\ pr \in PageT /\ reading \in BOOLEAN /\ readsBegun \in Nat /\ asks \subseteq AskT
DraftTypes ==
    /\ drafts \in [Pulls -> SUBSET Remarks] /\ sent \in [Pulls -> SUBSET Remarks] /\ written \subseteq Remarks \X Pulls
ReviewTypes == PageTypes /\ DraftTypes

\* One read at a time still matters, and none once the page says that nothing is being read.
Matters(r) == r.gen = readsBegun
OneRead ==
    /\ \A r \in asks : r.gen <= readsBegun
    /\ \A r, s \in asks : Matters(r) /\ Matters(s) => r = s
    /\ ~ reading => \A r \in asks : ~ Matters(r)
OnStage == stage # Nowhere /\ pr # Rev!Nothing
\* It is of what is on the stage.
ReadsAreOwn ==
    /\ OnStage => pr.of = stage
    /\ \A r \in asks : Matters(r) /\ r.kind = "review" => (stage # Nowhere => r.of = stage) /\ r.head = pr.head
    /\ \A r \in asks : Matters(r) /\ r.kind # "review" =>
          pr = [of |-> r.of, head |-> r.head] /\ r.range = range /\ (r.kind = "full" <=> full = 0)
\* What was read is drawn, unless a read of it is under way or failed.
Drawing == \E r \in asks : Matters(r) /\ r.kind # "review"
ShownIsChosen ==
    /\ OnStage /\ full # 0 /\ ~ Drawing => shown = [of |-> pr.of, head |-> pr.head, range |-> range]
    /\ OnStage /\ full = 0 => reading \/ failed
\* While a review is sent the page stands still.
SendsDraft ==
    sending # Rev!Unsent => ~ reading /\ OnStage /\ sending.of = pr.of /\ sending.remarks = drafts[pr.of]
RemarksOf(p) == {w[1] : w \in {x \in written : x[2] = p}}
EachOnce == \A p \in Pulls : RemarksOf(p) = drafts[p] \cup sent[p] /\ drafts[p] \cap sent[p] = {}

ReviewInv == ReviewTypes /\ OneRead /\ ReadsAreOwn /\ ShownIsChosen /\ SendsDraft /\ EachOnce

LEMMA ReviewBegins ==
    ASSUME Rev!Init
    PROVE  ReviewInv
<1>1. ReviewTypes
  <2>1. heads \in [Pulls -> Nat \ {0}] /\ pr \in PageT /\ asks \subseteq AskT
    BY DEF Rev!Init, PageT
  <2>2. reading \in BOOLEAN
    BY Zenon DEF Rev!Init
  <2>3. PageTypes
    BY <2>1, <2>2 DEF Rev!Init, PageTypes
  <2>4. DraftTypes
    BY DEF Rev!Init, DraftTypes
  <2> QED
    BY <2>3, <2>4 DEF ReviewTypes
<1>2. OneRead /\ ReadsAreOwn /\ ShownIsChosen /\ SendsDraft
  BY DEF Rev!Init, OneRead, ReadsAreOwn, ShownIsChosen, SendsDraft, OnStage
<1>3. EachOnce
  BY DEF Rev!Init, EachOnce, RemarksOf
<1> QED
  BY <1>1, <1>2, <1>3 DEF ReviewInv

\* A read of the page begins, when no diff is being read that matters: every other is out of date.
LEMMA LoadStep ==
    ASSUME Steady, ReviewInv, NEW p \in Pulls, NEW was \in Nat, Rev!Load(p, was), ~ Drawing, sending' = Rev!Unsent,
           stage' = p, was = pr'.head, heads' \in [Pulls -> Nat \ {0}],
           \/ UNCHANGED <<pr, full, range, shown, failed>> /\ stage = p
           \/ pr' = Rev!Nothing /\ full' = 0 /\ range' = "all" /\ failed' = FALSE,
           drafts' \in [Pulls -> SUBSET Remarks], sent' \in [Pulls -> SUBSET Remarks], UNCHANGED written, EachOnce'
    PROVE  ReviewInv'
<1> DEFINE r == Rev!Review(readsBegun + 1, p, was)
<1>1. /\ r = [kind |-> "review", gen |-> readsBegun + 1, of |-> p, head |-> was, range |-> "all"] /\ r \in AskT
      /\ readsBegun' = readsBegun + 1 /\ asks' = asks \cup {r} /\ reading' = TRUE /\ readsBegun \in Nat
  BY DEF Rev!Load, Rev!Review, AskT, ReviewInv, ReviewTypes, PageTypes, DraftTypes
<1> HIDE DEF r
<1>2. ReviewTypes'
  <2>1. pr' \in PageT /\ full' \in Nat /\ range' \in {"all", "since"}
    BY DEF ReviewInv, ReviewTypes, PageTypes, PageT
  <2>2. stage' \in Pulls \cup {Nowhere} /\ readsBegun' \in Nat /\ asks' \subseteq AskT
    BY <1>1 DEF ReviewInv, ReviewTypes, PageTypes
  <2>3. PageTypes'
    BY <1>1, <2>1, <2>2 DEF PageTypes
  <2>4. DraftTypes'
    BY DEF ReviewInv, ReviewTypes, DraftTypes
  <2> QED
    BY <2>3, <2>4 DEF ReviewTypes
<1>3. \A s \in asks' : (s = r /\ s.gen = readsBegun') \/ (s \in asks /\ s.gen < readsBegun' /\ s.gen # readsBegun')
  <2>1. \A s \in asks : s.gen \in Nat /\ s.gen <= readsBegun
    BY DEF ReviewInv, OneRead, ReviewTypes, PageTypes, AskT
  <2> QED
    BY <1>1, <2>1
<1>4. OneRead'
  <2>1. \A s \in asks' : s.gen <= readsBegun'
    <3>1. \A s \in asks' : s.gen \in Nat
      BY <1>2 DEF ReviewTypes, PageTypes, AskT
    <3> QED
      BY <1>1, <1>3, <3>1
  <2> QED
    BY <1>1, <1>3, <2>1 DEF OneRead, Matters
<1>5. ReadsAreOwn'
  BY <1>1, <1>3 DEF ReadsAreOwn, ReviewInv, Matters, OnStage
<1>6. ShownIsChosen'
  BY <1>1 DEF ShownIsChosen, ReviewInv, OnStage
<1>7. SendsDraft'
  BY DEF SendsDraft
<1> QED
  BY <1>2, <1>4, <1>5, <1>6, <1>7 DEF ReviewInv

LEMMA StillOnce ==
    ASSUME EachOnce, UNCHANGED <<drafts, sent, written>>
    PROVE  EachOnce'
BY DEF EachOnce, RemarksOf

LEMMA OpenStep ==
    ASSUME Steady, ReviewInv, NEW p \in Pulls, Rev!Open(p)
    PROVE  ReviewInv'
<1>1. /\ stage' = p /\ sending = Rev!Unsent /\ ~ Drawing
      /\ UNCHANGED <<heads, sending, drafts, sent, written>> /\ rvActs' = rvActs + 1
  BY DEF Rev!Open, Rev!Calm, Rev!Act, Drawing, Matters
<1>2. Rev!Nothing.head = 0 /\ pr.head \in Nat
  BY DEF ReviewInv, ReviewTypes, PageTypes, PageT, Rev!Nothing
<1>3. EachOnce' /\ ReviewTypes
  BY <1>1, StillOnce DEF ReviewInv
<1>4. CASE p = stage
  BY <1>1, <1>2, <1>3, <1>4, LoadStep DEF Rev!Open, ReviewTypes, PageTypes, DraftTypes
<1>5. CASE p # stage
  <2>1. pr' = Rev!Nothing /\ full' = 0 /\ range' = "all" /\ failed' = FALSE /\ Rev!Load(p, 0)
    BY <1>5 DEF Rev!Open
  <2>2. /\ 0 = pr'.head /\ sending' = Rev!Unsent /\ heads' \in [Pulls -> Nat \ {0}] /\ 0 \in Nat /\ UNCHANGED written
        /\ drafts' \in [Pulls -> SUBSET Remarks] /\ sent' \in [Pulls -> SUBSET Remarks]
    BY <1>1, <1>2, <1>3, <2>1 DEF ReviewTypes, PageTypes, DraftTypes
  <2> QED
    BY <1>1, <1>3, <2>1, <2>2, LoadStep
<1> QED
  BY <1>4, <1>5

LEMMA RefreshStep ==
    ASSUME Steady, ReviewInv, Rev!Refresh
    PROVE  ReviewInv'
<1>0. pr.head \in Nat
  BY DEF ReviewInv, ReviewTypes, PageTypes, PageT, Rev!Nothing
<1>1. /\ stage' = stage /\ stage \in Pulls /\ sending = Rev!Unsent /\ ~ Drawing
      /\ UNCHANGED <<heads, sending, drafts, sent, written>> /\ rvActs' = rvActs + 1
  BY DEF Rev!Refresh, Rev!Calm, Rev!Act, Drawing, Matters, ReviewInv, ReviewTypes, PageTypes
<1>2. EachOnce' /\ ReviewTypes
  BY <1>1, StillOnce DEF ReviewInv
<1> QED
  BY <1>0, <1>1, <1>2, LoadStep DEF Rev!Refresh, ReviewTypes, PageTypes, DraftTypes

LEMMA CloseStep ==
    ASSUME Steady, ReviewInv, Rev!Close
    PROVE  ReviewInv'
<1>1. /\ stage' = Nowhere /\ sending = Rev!Unsent /\ rvActs' = rvActs + 1
      /\ UNCHANGED <<heads, pr, full, range, shown, reading, failed, readsBegun, asks, sending, drafts, sent, written>>
  BY DEF Rev!Close, Rev!Calm, Rev!Act
<1>2. EachOnce'
  BY <1>1, StillOnce DEF ReviewInv
<1>3. ReviewTypes'
  BY <1>1 DEF ReviewInv, ReviewTypes, PageTypes, DraftTypes
<1>4. OneRead' /\ ReadsAreOwn' /\ ShownIsChosen' /\ SendsDraft'
  BY <1>1 DEF ReviewInv, OneRead, ReadsAreOwn, ShownIsChosen, SendsDraft, OnStage, Matters, Drawing
<1> QED
  BY <1>2, <1>3, <1>4 DEF ReviewInv

LEMMA PushedStep ==
    ASSUME ReviewInv, NEW p \in Pulls, Rev!Pushed(p)
    PROVE  ReviewInv'
<1>1. /\ heads' = [heads EXCEPT ![p] = @ + 1] /\ rvActs' = rvActs + 1
      /\ UNCHANGED <<stage, pr, full, range, shown, reading, failed, readsBegun, asks, sending, drafts, sent, written>>
  BY DEF Rev!Pushed, Rev!Act
<1>2. EachOnce'
  BY <1>1, StillOnce DEF ReviewInv
<1>3. ReviewTypes'
  BY <1>1 DEF ReviewInv, ReviewTypes, PageTypes, DraftTypes
<1>4. OneRead' /\ ReadsAreOwn' /\ ShownIsChosen' /\ SendsDraft'
  BY <1>1 DEF ReviewInv, OneRead, ReadsAreOwn, ShownIsChosen, SendsDraft, OnStage, Matters, Drawing
<1> QED
  BY <1>2, <1>3, <1>4 DEF ReviewInv

\* An answer nobody waits for, or a read of the past that fails.
LEMMA StaleStep ==
    ASSUME ReviewInv, NEW r \in asks, asks' = asks \ {r}, failed => failed',
           ~ Matters(r) \/ (r.kind = "review" /\ stage = Nowhere),
           UNCHANGED <<heads, stage, pr, full, range, shown, reading, readsBegun, sending, drafts, sent, written>>
    PROVE  ReviewInv'
<1>1. ReviewTypes' /\ EachOnce'
  BY StillOnce DEF ReviewInv, ReviewTypes, PageTypes, DraftTypes
<1>2. \A s \in asks' : s \in asks /\ (Matters(s)' <=> Matters(s))
  BY DEF Matters
<1>3. OneRead' /\ ReadsAreOwn' /\ SendsDraft'
  BY <1>2 DEF ReviewInv, OneRead, ReadsAreOwn, SendsDraft, OnStage
<1>4. OnStage' => (Drawing => Drawing')
  BY <1>2 DEF Drawing, Matters, OnStage
<1>5. ShownIsChosen'
  BY <1>4 DEF ReviewInv, ShownIsChosen, OnStage
<1> QED
  BY <1>1, <1>3, <1>5 DEF ReviewInv

LEMMA DroppedStep ==
    ASSUME ReviewInv, Rev!Dropped
    PROVE  ReviewInv'
<1>1. PICK r \in asks : /\ asks' = asks \ {r} /\ (~ Rev!Current(r) \/ (r.kind = "review" /\ stage = Nowhere))
                        /\ UNCHANGED <<heads, stage, pr, full, range, shown, reading, failed, readsBegun,
                                       sending, drafts, sent, written, rvActs>>
  BY DEF Rev!Dropped
<1> QED
  BY <1>1, StaleStep DEF Rev!Current, Matters, ReviewInv, ReviewTypes, PageTypes, DraftTypes

LEMMA AnsweredStep ==
    ASSUME ReviewInv, Rev!Answered
    PROVE  ReviewInv'
<1>1. PICK r \in asks :
         LET now == [of |-> r.of, head |-> heads[r.of]]
             moved == r.head # now.head
             has == IF moved THEN 0 ELSE full
             wants == IF moved THEN "all" ELSE range IN
         /\ r.kind = "review" /\ Rev!Current(r) /\ stage # Nowhere
         /\ pr' = now /\ failed' = FALSE /\ full' = has /\ range' = wants /\ reading' = (has = 0)
         /\ asks' = (asks \ {r}) \cup (IF has = 0 THEN {Rev!Diff(r.gen, now, wants, 0)} ELSE {})
         /\ UNCHANGED <<heads, stage, shown, readsBegun, sending, drafts, sent, written, rvActs>>
  BY DEF Rev!Answered
<1> DEFINE now == [of |-> r.of, head |-> heads[r.of]]
           moved == r.head # now.head
           has == IF moved THEN 0 ELSE full
           wants == IF moved THEN "all" ELSE range
           next == Rev!Diff(r.gen, now, wants, 0)
<1>2. /\ r \in AskT /\ r.of = stage /\ r.head = pr.head /\ now \in PageT /\ now # Rev!Nothing
      /\ Matters(r) /\ \A s \in asks : Matters(s) => s = r
  BY <1>1 DEF ReviewInv, ReviewTypes, PageTypes, PageT, AskT, OneRead, ReadsAreOwn, Rev!Current, Matters, Rev!Nothing
<1>3. next \in AskT /\ next = [kind |-> "full", gen |-> readsBegun, of |-> r.of, head |-> now.head, range |-> wants]
  BY <1>1, <1>2 DEF Rev!Diff, Rev!Current, AskT, PageT, ReviewInv, ReviewTypes, PageTypes, Rev!Nothing
<1>4. ReviewTypes'
  <2>1. PageTypes'
    <3>1. pr' \in PageT /\ full' \in Nat /\ range' \in {"all", "since"}
      BY <1>1, <1>2 DEF ReviewInv, ReviewTypes, PageTypes
    <3>2. reading' \in BOOLEAN
      BY <1>1, Zenon
    <3>3. asks' \subseteq AskT
      BY <1>1, <1>3 DEF ReviewInv, ReviewTypes, PageTypes
    <3> QED
      BY <1>1, <3>1, <3>2, <3>3 DEF ReviewInv, ReviewTypes, PageTypes
  <2> QED
    BY <1>1, <2>1 DEF ReviewInv, ReviewTypes, DraftTypes
<1>13. /\ readsBegun' = readsBegun /\ reading' = (has = 0)
       /\ \A s \in asks' : (s \in asks /\ s # r) \/ (s = next /\ has = 0)
  BY <1>1
<1> HIDE DEF next, now, has
<1>5. \A s \in asks' : Matters(s)' => s = next /\ has = 0
  BY <1>2, <1>13 DEF Matters
<1>6. OneRead'
  <2>1. \A s \in asks' : s.gen <= readsBegun'
    <3>1. next.gen = readsBegun /\ readsBegun <= readsBegun /\ \A s \in asks : s.gen <= readsBegun
      BY <1>3 DEF ReviewInv, OneRead, ReviewTypes, PageTypes
    <3> QED
      BY <1>13, <3>1
  <2> QED
    BY <1>5, <1>13, <2>1 DEF OneRead
<1>7. ReadsAreOwn'
  <2>1. OnStage' => pr'.of = stage'
    BY <1>1, <1>2 DEF now
  <2>2. \A s \in asks' : Matters(s)' /\ s.kind # "review" =>
           pr' = [of |-> s.of, head |-> s.head] /\ s.range = range' /\ (s.kind = "full" <=> full' = 0)
    BY <1>1, <1>3, <1>5 DEF now, has
  <2> QED
    BY <1>3, <1>5, <2>1, <2>2 DEF ReadsAreOwn
<1>8. ShownIsChosen'
  <2>1. full' # 0 => ~ moved /\ full # 0 /\ pr' = pr /\ range' = range /\ OnStage
    BY <1>1, <1>2 DEF ReviewInv, ReviewTypes, PageTypes, PageT, Rev!Nothing, OnStage, ReadsAreOwn, now
  <2>2. ~ Drawing
    BY <1>1, <1>2 DEF Drawing
  <2> QED
    BY <1>1, <2>1, <2>2 DEF ReviewInv, ShownIsChosen
<1>9. SendsDraft'
  BY <1>1, <1>2 DEF ReviewInv, SendsDraft, OneRead
<1>10. EachOnce'
  BY <1>1, StillOnce DEF ReviewInv
<1> QED
  BY <1>4, <1>6, <1>7, <1>8, <1>9, <1>10 DEF ReviewInv

LEMMA DrawnStep ==
    ASSUME ReviewInv, Rev!Drawn
    PROVE  ReviewInv'
<1>1. PICK r \in asks :
         /\ r.kind # "review" /\ Rev!Current(r)
         /\ full' = IF r.kind = "full" THEN r.head ELSE full
         /\ IF r.kind = "full" /\ ~ Rev!DrawsFull(range)
            THEN /\ asks' = (asks \ {r}) \cup {Rev!Diff(readsBegun, pr, range, r.head)}
                 /\ UNCHANGED <<shown, reading, failed>>
            ELSE /\ shown' = [of |-> r.of, head |-> r.head, range |-> r.range] /\ reading' = FALSE /\ failed' = FALSE
                 /\ asks' = asks \ {r}
         /\ UNCHANGED <<heads, stage, pr, range, readsBegun, sending, drafts, sent, written, rvActs>>
  BY DEF Rev!Drawn
<1> DEFINE next == Rev!Diff(readsBegun, pr, range, r.head)
           more == r.kind = "full" /\ ~ Rev!DrawsFull(range)
<1>2. /\ r \in AskT /\ pr = [of |-> r.of, head |-> r.head] /\ pr \in PageT /\ r.range = range
      /\ Matters(r) /\ (\A s \in asks : Matters(s) => s = r) /\ (r.kind = "full" <=> full = 0)
  BY <1>1 DEF ReviewInv, ReviewTypes, PageTypes, OneRead, ReadsAreOwn, Rev!Current, Matters
<1>3. r.head \in Nat /\ (pr # Rev!Nothing => r.head # 0 /\ full' # 0)
  BY <1>1, <1>2 DEF PageT, AskT
<1>4. r.of \in Pulls /\ pr.of = r.of /\ pr.head = r.head
  BY <1>2 DEF AskT
<1>5. more => next \in AskT /\ next.gen = readsBegun /\ next.of = pr.of /\ next.head = pr.head /\ next.range = range
              /\ next.kind # "review" /\ (next.kind = "full" <=> r.head = 0)
  BY <1>2, <1>3, <1>4 DEF Rev!Diff, AskT, ReviewInv, ReviewTypes, PageTypes
<1>6. ReviewTypes'
  <2>1. full' \in Nat /\ asks' \subseteq AskT
    BY <1>1, <1>3, <1>5 DEF ReviewInv, ReviewTypes, PageTypes
  <2>2. reading' \in BOOLEAN
    BY <1>1, Zenon DEF ReviewInv, ReviewTypes, PageTypes
  <2>3. PageTypes'
    BY <1>1, <2>1, <2>2 DEF ReviewInv, ReviewTypes, PageTypes
  <2> QED
    BY <1>1, <2>3 DEF ReviewInv, ReviewTypes, DraftTypes
<1>13. /\ readsBegun' = readsBegun /\ \A s \in asks' : (s \in asks /\ s # r) \/ (s = next /\ more)
       /\ more => next \in asks'
  BY <1>1
<1> HIDE DEF next, more
<1>7. \A s \in asks' : Matters(s)' => s = next /\ more
  BY <1>2, <1>13 DEF Matters
<1>8. OneRead'
  <2>1. \A s \in asks' : s.gen <= readsBegun'
    <3>1. readsBegun <= readsBegun /\ \A s \in asks : s.gen <= readsBegun
      BY DEF ReviewInv, OneRead, ReviewTypes, PageTypes
    <3> QED
      BY <1>5, <1>13, <3>1
  <2>2. ~ reading' => ~ more
    BY <1>1, <1>2 DEF ReviewInv, OneRead, more
  <2> QED
    BY <1>7, <2>1, <2>2 DEF OneRead
<1>9. ReadsAreOwn'
  <2>1. OnStage' => pr'.of = stage'
    BY <1>1 DEF ReviewInv, ReadsAreOwn, OnStage
  <2>2. more => full' = r.head
    BY <1>1 DEF more
  <2>3. \A s \in asks' : Matters(s)' => s.kind # "review" /\ pr' = [of |-> s.of, head |-> s.head] /\ s.range = range'
                                        /\ (s.kind = "full" <=> full' = 0)
    BY <1>1, <1>2, <1>4, <1>5, <1>7, <2>2
  <2> QED
    BY <2>1, <2>3 DEF ReadsAreOwn
<1>10. ShownIsChosen'
  <2>1. CASE more
    <3>1. \E s \in asks' : s.gen = readsBegun' /\ s.kind # "review"
      BY <1>5, <1>13, <2>1
    <3>2. Drawing'
      BY <3>1 DEF Drawing, Matters
    <3>3. OnStage' => full' # 0
      BY <1>1, <1>3 DEF OnStage
    <3> QED
      BY <3>2, <3>3 DEF ShownIsChosen
  <2>2. CASE ~ more
    BY <1>1, <1>2, <1>3, <1>4, <2>2 DEF more, ShownIsChosen, OnStage
  <2> QED
    BY <2>1, <2>2
<1>11. SendsDraft'
  BY <1>1, <1>2 DEF ReviewInv, SendsDraft, OneRead
<1>12. EachOnce'
  BY <1>1, StillOnce DEF ReviewInv
<1> QED
  BY <1>6, <1>8, <1>9, <1>10, <1>11, <1>12 DEF ReviewInv

LEMMA FailedStep ==
    ASSUME Steady, ReviewInv, Rev!Failed
    PROVE  ReviewInv'
<1>1. PICK r \in asks :
         /\ asks' = asks \ {r} /\ failed' = TRUE /\ (Rev!Current(r) \/ r.kind = "review") /\ r.kind # "range"
         /\ IF Rev!Current(r) /\ stage # Nowhere
            THEN reading' = FALSE /\ pr' = IF r.kind = "review" THEN Rev!Nothing ELSE pr
            ELSE UNCHANGED <<reading, pr>>
         /\ UNCHANGED <<heads, stage, full, range, shown, readsBegun, sending, drafts, sent, written>>
  BY DEF Rev!Failed
<1>2. CASE ~ Matters(r) \/ (r.kind = "review" /\ stage = Nowhere)
  BY <1>1, <1>2, StaleStep DEF Rev!Current, Matters
<1>3. CASE Matters(r) /\ (r.kind # "review" \/ stage # Nowhere)
  <2>1. /\ r \in AskT /\ \A s \in asks' : s \in asks /\ ~ Matters(s) /\ ~ Matters(s)'
        /\ sending' = Rev!Unsent
    BY <1>1, <1>3 DEF ReviewInv, ReviewTypes, PageTypes, OneRead, Matters, SendsDraft
  <2>2. ReviewTypes'
    <3>1. pr' \in PageT /\ asks' \subseteq AskT
      BY <1>1 DEF ReviewInv, ReviewTypes, PageTypes, PageT
    <3>2. reading' \in BOOLEAN
      BY <1>1, Zenon DEF ReviewInv, ReviewTypes, PageTypes
    <3> QED
      BY <1>1, <3>1, <3>2 DEF ReviewInv, ReviewTypes, PageTypes, DraftTypes
  <2>3. OneRead' /\ SendsDraft'
    BY <1>1, <2>1 DEF ReviewInv, OneRead, SendsDraft
  <2>4. ReadsAreOwn'
    BY <1>1, <2>1 DEF ReviewInv, ReadsAreOwn, OnStage
  <2>5. ShownIsChosen'
    <3>1. OnStage' => r.kind = "full" /\ full = 0
      BY <1>1, <1>3, <2>1 DEF ReviewInv, ReadsAreOwn, OnStage, AskT, Rev!Current, Matters
    <3> QED
      BY <1>1, <3>1 DEF ShownIsChosen
  <2>6. EachOnce'
    BY <1>1, StillOnce DEF ReviewInv
  <2> QED
    BY <2>2, <2>3, <2>4, <2>5, <2>6 DEF ReviewInv
<1> QED
  BY <1>2, <1>3

LEMMA ChooseStep ==
    ASSUME Steady, ReviewInv, NEW x \in {"all", "since"}, Rev!Choose(x)
    PROVE  ReviewInv'
<1> DEFINE next == Rev!Diff(readsBegun + 1, pr, x, full)
           atHand == full # 0 /\ Rev!DrawsFull(x)
<1>1. /\ OnStage /\ sending = Rev!Unsent /\ range' = x /\ readsBegun' = readsBegun + 1 /\ readsBegun \in Nat
      /\ atHand => /\ shown' = [of |-> pr.of, head |-> pr.head, range |-> x] /\ reading' = FALSE /\ failed' = FALSE
                   /\ UNCHANGED asks
      /\ ~ atHand => asks' = asks \cup {next} /\ reading' = TRUE /\ UNCHANGED <<shown, failed>>
      /\ UNCHANGED <<heads, stage, pr, full, sending, drafts, sent, written>>
  BY DEF Rev!Choose, OnStage, ReviewInv, ReviewTypes, PageTypes
<1>2. pr \in [of : Pulls, head : Nat \ {0}] /\ full \in Nat
  BY <1>1 DEF ReviewInv, ReviewTypes, PageTypes, PageT, OnStage
<1>3. /\ next = [kind |-> IF full = 0 THEN "full" ELSE "range", gen |-> readsBegun + 1, of |-> pr.of, head |-> pr.head,
                  range |-> x]
      /\ next \in AskT
  BY <1>1, <1>2 DEF Rev!Diff, AskT
<1>11. ~ atHand => next \in asks'
  BY <1>1
<1> HIDE DEF next
<1>4. \A s \in asks : s.gen \in Nat /\ s.gen <= readsBegun /\ s.gen <= readsBegun' /\ s.gen # readsBegun'
  BY <1>1 DEF ReviewInv, ReviewTypes, PageTypes, AskT, OneRead
<1>5. \A s \in asks' : (s = next /\ ~ atHand /\ Matters(s)') \/ (s \in asks /\ ~ Matters(s)')
  BY <1>1, <1>3, <1>4 DEF Matters
<1>6. ReviewTypes'
  <2>1. asks' \subseteq AskT /\ range' \in {"all", "since"}
    BY <1>1, <1>3 DEF ReviewInv, ReviewTypes, PageTypes
  <2>2. reading' \in BOOLEAN
    BY <1>1, Zenon
  <2> QED
    BY <1>1, <2>1, <2>2 DEF ReviewInv, ReviewTypes, PageTypes, DraftTypes
<1>7. OneRead'
  <2>1. \A s \in asks' : s.gen <= readsBegun'
    BY <1>1, <1>3, <1>4, <1>5
  <2> QED
    BY <1>1, <1>5, <2>1 DEF OneRead
<1>8. ReadsAreOwn'
  <2>1. OnStage' => pr'.of = stage'
    BY <1>1 DEF ReviewInv, ReadsAreOwn, OnStage
  <2>2. pr = [of |-> pr.of, head |-> pr.head]
    BY <1>2
  <2>3. next.kind # "review" /\ pr' = [of |-> next.of, head |-> next.head] /\ next.range = range' /\ (next.kind = "full" <=> full' = 0)
    BY <1>1, <1>3, <2>2
  <2> QED
    BY <1>5, <2>1, <2>3 DEF ReadsAreOwn
<1>9. ShownIsChosen'
  <2>1. CASE atHand
    BY <1>1, <2>1 DEF ShownIsChosen, OnStage
  <2>2. CASE ~ atHand
    <3>1. \E s \in asks' : s.gen = readsBegun' /\ s.kind # "review"
      BY <1>1, <1>3, <1>11, <2>2
    <3>2. Drawing'
      BY <3>1 DEF Drawing, Matters
    <3> QED
      BY <1>1, <2>2, <3>2 DEF ShownIsChosen
  <2> QED
    BY <2>1, <2>2
<1>10. SendsDraft' /\ EachOnce'
  BY <1>1, StillOnce DEF ReviewInv, SendsDraft
<1> QED
  BY <1>6, <1>7, <1>8, <1>9, <1>10 DEF ReviewInv

LEMMA RemarkStep ==
    ASSUME Steady, ReviewInv, NEW c \in Remarks, Rev!Remark(c)
    PROVE  ReviewInv'
<1>1. /\ OnStage /\ (\A w \in written : w[1] # c) /\ sending = Rev!Unsent
      /\ drafts' = [drafts EXCEPT ![pr.of] = @ \cup {c}] /\ written' = written \cup {<<c, pr.of>>}
      /\ UNCHANGED <<heads, stage, pr, full, range, shown, reading, failed, readsBegun, asks, sending, sent, rvActs>>
  BY DEF Rev!Remark, OnStage
<1>2. pr.of \in Pulls /\ drafts \in [Pulls -> SUBSET Remarks]
  BY <1>1 DEF ReviewInv, ReviewTypes, PageTypes, DraftTypes, PageT, OnStage
<1>3. ReviewTypes'
  <2>1. PageTypes'
    BY <1>1 DEF ReviewInv, ReviewTypes, PageTypes
  <2> QED
    BY <1>1, <1>2, <2>1 DEF ReviewInv, ReviewTypes, DraftTypes
<1>4. OneRead' /\ ReadsAreOwn' /\ ShownIsChosen' /\ SendsDraft'
  BY <1>1 DEF ReviewInv, OneRead, ReadsAreOwn, ShownIsChosen, SendsDraft, OnStage, Matters, Drawing
<1>5. EachOnce'
  <2> SUFFICES ASSUME NEW p \in Pulls
               PROVE  RemarksOf(p)' = drafts'[p] \cup sent'[p] /\ drafts'[p] \cap sent'[p] = {}
    BY DEF EachOnce
  <2>1. RemarksOf(p) = drafts[p] \cup sent[p] /\ drafts[p] \cap sent[p] = {} /\ c \notin RemarksOf(p)
    BY <1>1 DEF ReviewInv, EachOnce, RemarksOf
  <2>2. RemarksOf(p)' = RemarksOf(p) \cup (IF p = pr.of THEN {c} ELSE {})
    <3>1. \A x : x \in RemarksOf(p)' <=> \E w \in written' : w[2] = p /\ x = w[1]
      BY DEF RemarksOf
    <3>2. \A x : x \in RemarksOf(p) <=> \E w \in written : w[2] = p /\ x = w[1]
      BY DEF RemarksOf
    <3>5. <<c, pr.of>> \in written' /\ <<c, pr.of>>[1] = c /\ <<c, pr.of>>[2] = pr.of
      BY <1>1
    <3>3. /\ \A w \in written' : w \in written \/ (w[1] = c /\ w[2] = pr.of)
          /\ \A w \in written : w \in written'
          /\ \E w \in written' : w[1] = c /\ w[2] = pr.of
      BY <1>1, <3>5
    <3>4. \A x : x \in RemarksOf(p)' <=> x \in RemarksOf(p) \/ (p = pr.of /\ x = c)
      BY <3>1, <3>2, <3>3
    <3> QED
      BY <3>4
  <2>3. drafts'[p] = drafts[p] \cup (IF p = pr.of THEN {c} ELSE {}) /\ sent'[p] = sent[p]
    BY <1>1, <1>2
  <2> QED
    BY <2>1, <2>2, <2>3
<1> QED
  BY <1>3, <1>4, <1>5 DEF ReviewInv

LEMMA SubmitStep ==
    ASSUME Steady, ReviewInv, Rev!Submit
    PROVE  ReviewInv'
<1>1. /\ OnStage /\ ~ reading /\ sending' = [of |-> pr.of, remarks |-> drafts[pr.of]]
      /\ UNCHANGED <<heads, stage, pr, full, range, shown, reading, failed, readsBegun, asks, drafts, sent, written, rvActs>>
  BY DEF Rev!Submit, OnStage
<1>2. OneRead' /\ ReadsAreOwn' /\ ShownIsChosen' /\ SendsDraft'
  BY <1>1 DEF ReviewInv, OneRead, ReadsAreOwn, ShownIsChosen, SendsDraft, OnStage, Matters, Drawing
<1>3. ReviewTypes' /\ EachOnce'
  BY <1>1, StillOnce DEF ReviewInv, ReviewTypes, PageTypes, DraftTypes
<1> QED
  BY <1>2, <1>3 DEF ReviewInv

LEMMA SentStep ==
    ASSUME Steady, ReviewInv, NEW ok \in BOOLEAN, Rev!Sent(ok)
    PROVE  ReviewInv'
<1>1. /\ sending' = Rev!Unsent /\ sending # Rev!Unsent
      /\ ok => /\ sent' = [sent EXCEPT ![sending.of] = @ \cup sending.remarks] /\ drafts' = Rev!AfterSending
      /\ ~ ok => UNCHANGED <<sent, drafts>>
      /\ stage # Nowhere => Rev!Load(stage, pr.head)
      /\ UNCHANGED <<heads, stage, pr, full, range, shown, failed, written>>
  BY DEF Rev!Sent
<1>2. ~ reading /\ OnStage /\ sending.of = pr.of /\ sending.remarks = drafts[pr.of] /\ ~ Drawing
  BY <1>1 DEF ReviewInv, SendsDraft, OneRead, Drawing
<1>3. stage \in Pulls /\ pr.of \in Pulls /\ pr.head \in Nat
  BY <1>2 DEF ReviewInv, ReviewTypes, PageTypes, PageT, OnStage
<1>4. drafts \in [Pulls -> SUBSET Remarks] /\ sent \in [Pulls -> SUBSET Remarks]
  BY DEF ReviewInv, ReviewTypes, DraftTypes
<1>5. ok => drafts' = [drafts EXCEPT ![pr.of] = {}] /\ sent' = [sent EXCEPT ![pr.of] = @ \cup drafts[pr.of]]
  BY <1>1, <1>2 DEF Rev!AfterSending, OnStage
<1>6. drafts' \in [Pulls -> SUBSET Remarks] /\ sent' \in [Pulls -> SUBSET Remarks]
  BY <1>1, <1>3, <1>4, <1>5
<1>7. EachOnce'
  <2>1. CASE ok
    <3> SUFFICES ASSUME NEW p \in Pulls
                 PROVE  RemarksOf(p)' = drafts'[p] \cup sent'[p] /\ drafts'[p] \cap sent'[p] = {}
      BY DEF EachOnce
    <3>1. RemarksOf(p) = drafts[p] \cup sent[p] /\ drafts[p] \cap sent[p] = {} /\ RemarksOf(p)' = RemarksOf(p)
      BY <1>1 DEF ReviewInv, EachOnce, RemarksOf
    <3>2. /\ drafts'[p] = IF p = pr.of THEN {} ELSE drafts[p]
          /\ sent'[p] = IF p = pr.of THEN sent[p] \cup drafts[p] ELSE sent[p]
      BY <1>4, <1>5, <2>1
    <3> QED
      BY <3>1, <3>2
  <2>2. CASE ~ ok
    BY <1>1, <2>2, StillOnce DEF ReviewInv
  <2> QED
    BY <2>1, <2>2
<1>8. Rev!Load(stage, pr.head) /\ stage' = stage /\ pr.head = pr'.head /\ heads' \in [Pulls -> Nat \ {0}]
  BY <1>1, <1>2 DEF OnStage, ReviewInv, ReviewTypes, PageTypes
<1> QED
  BY <1>1, <1>2, <1>3, <1>6, <1>7, <1>8, LoadStep

LEMMA ReviewNext ==
    ASSUME Steady, ReviewInv, [Rev!Next]_(Rev!rvvars)
    PROVE  ReviewInv'
<1>1. CASE UNCHANGED Rev!rvvars
  <2>1. ReviewTypes' /\ EachOnce'
    BY <1>1, StillOnce DEF Rev!rvvars, ReviewInv, ReviewTypes, PageTypes, DraftTypes
  <2>2. OneRead' /\ ReadsAreOwn' /\ ShownIsChosen' /\ SendsDraft'
    BY <1>1 DEF Rev!rvvars, ReviewInv, OneRead, ReadsAreOwn, ShownIsChosen, SendsDraft, OnStage, Matters, Drawing
  <2> QED
    BY <2>1, <2>2 DEF ReviewInv
<1>2. CASE Rev!Next
  BY <1>2, OpenStep, PushedStep, CloseStep, RefreshStep, DroppedStep, AnsweredStep, DrawnStep, FailedStep, SubmitStep,
     ChooseStep, RemarkStep, SentStep DEF Rev!Next
<1> QED
  BY <1>1, <1>2

\* A review is of what is drawn, and no remark is lost or sent twice, in whatever order GitHub and git answer, for any pull requests,
\* remarks and acts, but for the orders Steady leaves out (load, loadDiffs, setRange, submit, saveDrafts).
THEOREM ReviewsAreOwn == Steady => (Rev!Spec => []Rev!ReviewIsItsOwn)
<1> SUFFICES ASSUME Steady
             PROVE  Rev!Spec => []Rev!ReviewIsItsOwn
  OBVIOUS
<1>1. ReviewInv => Rev!ReviewIsItsOwn
  <2> SUFFICES ASSUME ReviewInv
               PROVE  Rev!ReviewIsItsOwn
    OBVIOUS
  <2>1. ASSUME OnStage, ~ reading, ~ failed
        PROVE  pr.of = stage /\ shown = [of |-> pr.of, head |-> pr.head, range |-> range]
    BY <2>1 DEF ReviewInv, ReadsAreOwn, ShownIsChosen, OneRead, Drawing
  <2> QED
    BY <2>1 DEF Rev!ReviewIsItsOwn, ReviewInv, EachOnce, RemarksOf, OnStage
<1>2. Rev!Init => ReviewInv
  BY ReviewBegins
<1>3. ReviewInv /\ [Rev!Next]_(Rev!rvvars) => ReviewInv'
  BY ReviewNext
<1> QED
  BY <1>1, <1>2, <1>3, PTL DEF Rev!Spec

-----------------------------------------------------------------------------
(* Background shells (Servers).                                             *)

CONSTANTS Shells, Natures, Hasty, ShellActs
VARIABLES nature, shell, log, hooks, isOver, shellRec, asksPorts, logReads, asked, killing, unnamed, serverActs
Bg == INSTANCE Servers WITH rec <- shellRec, Acts <- ShellActs

\* What the theorem assumes: shells are named by their ports, and a kill is done before a log is read.
Shelled == Shells \subseteq Nat \ {0} /\ ~ Hasty

HookT == ({"start", "stop"} \X Shells) \cup {<<"exit", 0>>}
TextT == [there : BOOLEAN, url : BOOLEAN, last : {"", "failed", "finished", "stopped", "killed", "unknown"}]
RecT == [url : Shells \cup {0}, why : {"none", "", "asked", "session", "sentinel", "unknown", "stale"},
         red : BOOLEAN, missed : BOOLEAN]
ShellTypes ==
    /\ shell \in [Shells -> {"", "up", "failed", "finished", "stopped", "killed"}] /\ log \in [Shells -> TextT]
    /\ hooks \in Seq(HookT) /\ shellRec \in [Shells -> RecT] /\ asksPorts \subseteq Shells \cup {0}
    /\ logReads \subseteq Shells \X TextT /\ asked \in Shells \cup {0} /\ killing \in Shells \cup {0}

\* The agent reports a start once, and nothing after its exit.
Reported(h) == \E i \in DOMAIN hooks : hooks[i] = h
HooksInOrder ==
    /\ \A n \in Shells : Reported(<<"start", n>>) => shellRec[n] = Bg!None /\ shell[n] # ""
    /\ \A i, j \in DOMAIN hooks : \A n \in Shells : hooks[i] = <<"start", n>> /\ hooks[j] = <<"start", n>> => i = j
    /\ \A n \in Shells : Reported(<<"stop", n>>) => shell[n] = "stopped"
    /\ \A i \in DOMAIN hooks : hooks[i] = <<"exit", 0>> => i = Len(hooks)
    /\ isOver => hooks = <<>>
\* A last line is what became of the shell, and a log that was read says no more than there is now.
Says(text, n) ==
    /\ text.last # "" => shell[n] \notin {"", "up"}
    /\ text.last = "failed" => shell[n] = "failed"
    /\ text.last = "killed" => shell[n] = "killed"
LinesTell ==
    /\ \A n \in Shells : Says(log[n], n) /\ (shell[n] = "" => shellRec[n] = Bg!None)
    /\ \A got \in logReads : Says(got[2], got[1]) /\ ~ Reported(<<"start", got[1]>>) /\ shell[got[1]] # ""
\* A record ended as asked, or by its log, is of a shell that is gone, while its log may still be applied.
EndedAs(r) == r.why \in {"asked", "sentinel", "unknown"}
ReadsOfEnded == \A got \in logReads : EndedAs(shellRec[got[1]]) => shell[got[1]] # "up"
\* A kill of a port that its record had named ends that record first.
KillsEnd ==
    /\ killing # 0 => shell[killing] = "killed" /\ logReads = {} /\ asked = 0
    /\ \A n \in Shells : shell[n] = "killed" /\ n \notin unnamed =>
          ~ Reported(<<"start", n>>) /\ (shellRec[n].why # "" \/ (killing = n /\ shellRec[n].url = n))

EarnedBy(n) ==
    /\ shellRec[n].red => shell[n] = "failed" \/ n \in unnamed
    /\ EndedAs(shellRec[n]) => shell[n] # "up" \/ shellRec[n].url \notin {0, n}
    /\ isOver => shellRec[n].why # ""
EndsEarned == \A n \in Shells : EarnedBy(n)

ShellInv == ShellTypes /\ HooksInOrder /\ LinesTell /\ ReadsOfEnded /\ KillsEnd /\ EndsEarned

LEMMA BlankRecords ==
    ASSUME Shelled
    PROVE  /\ Bg!None \in RecT /\ Bg!None.why = "none" /\ ~ Bg!None.red /\ Bg!None.url = 0
           /\ Bg!Blank \in RecT /\ Bg!Blank.why = "" /\ ~ Bg!Blank.red /\ Bg!Blank.url = 0
<1>1. Bg!None = [url |-> 0, why |-> "none", red |-> FALSE, missed |-> FALSE]
  BY DEF Bg!None
<1>2. Bg!None \in RecT /\ Bg!None.why = "none" /\ Bg!None.red = FALSE /\ Bg!None.url = 0
  BY <1>1 DEF RecT
<1>3. \A x \in RecT : LET y == [x EXCEPT !.why = ""] IN y \in RecT /\ y.why = "" /\ y.red = x.red /\ y.url = x.url
  BY DEF RecT
<1>4. Bg!Blank = [Bg!None EXCEPT !.why = ""]
  BY DEF Bg!Blank
<1> QED
  BY <1>2, <1>3, <1>4

LEMMA ShellsBegin ==
    ASSUME Shelled, Bg!Init
    PROVE  ShellInv
<1>1. /\ shell = [n \in Shells |-> ""] /\ log = [n \in Shells |-> [there |-> FALSE, url |-> FALSE, last |-> ""]]
      /\ hooks = <<>> /\ isOver = FALSE /\ shellRec = [n \in Shells |-> Bg!None]
      /\ asksPorts = {0} /\ logReads = {} /\ asked = 0 /\ killing = 0 /\ unnamed = {}
  BY DEF Bg!Init, Bg!NoPoll
<1>2. DOMAIN hooks = {} /\ hooks \in Seq(HookT)
  <2>1. <<>> \in Seq(HookT) /\ Len(<<>>) = 0
    BY EmptySeq
  <2>2. DOMAIN hooks = 1..Len(hooks) /\ hooks \in Seq(HookT)
    BY <1>1, <2>1, LenProperties
  <2>3. hooks = <<>>
    BY <1>1
  <2>4. Len(hooks) = 0
    BY <2>1, <2>3
  <2>5. 1..0 = {}
    OBVIOUS
  <2> QED
    BY <2>2, <2>4, <2>5
<1>3. ShellTypes
  BY <1>1, <1>2, BlankRecords DEF ShellTypes, TextT
<1>4. HooksInOrder
  BY <1>1, <1>2 DEF HooksInOrder, Reported
<1>5. LinesTell /\ ReadsOfEnded /\ KillsEnd
  BY <1>1 DEF LinesTell, Says, ReadsOfEnded, KillsEnd
<1>6. EndsEarned
  BY <1>1, BlankRecords DEF EndsEarned, EarnedBy, EndedAs
<1> QED
  BY <1>3, <1>4, <1>5, <1>6 DEF ShellInv

LEMMA HooksDiffer ==
    ASSUME Shelled
    PROVE  /\ \A m, n : <<"start", m>> = <<"start", n>> => m = n
           /\ \A m, n : <<"start", m>> # <<"stop", n>> /\ <<"start", m>> # <<"exit", n>> /\ <<"stop", m>> # <<"exit", n>>
           /\ \A m, n : <<"stop", m>> = <<"stop", n>> => m = n
           /\ \A n \in Shells : <<"start", n>> \in HookT /\ <<"stop", n>> \in HookT
           /\ <<"exit", 0>> \in HookT
BY DEF HookT

LEMMA HookPosted ==
    ASSUME hooks \in Seq(HookT), NEW h \in HookT, hooks' = Append(hooks, h)
    PROVE  /\ hooks' \in Seq(HookT) /\ hooks' # <<>> /\ Len(hooks') = Len(hooks) + 1 /\ Len(hooks) \in Nat
           /\ DOMAIN hooks' = 1..Len(hooks') /\ DOMAIN hooks = 1..Len(hooks) /\ hooks'[Len(hooks) + 1] = h
           /\ \A i \in DOMAIN hooks' : (i \in DOMAIN hooks /\ hooks'[i] = hooks[i]) \/ (i = Len(hooks) + 1 /\ hooks'[i] = h)
           /\ \A x : Reported(x)' <=> Reported(x) \/ x = h
<1>1. /\ hooks' \in Seq(HookT) /\ Len(hooks') = Len(hooks) + 1 /\ hooks'[Len(hooks) + 1] = h
      /\ \A i \in 1..Len(hooks) : hooks'[i] = hooks[i]
  BY AppendProperties
<1>2. DOMAIN hooks' = 1..Len(hooks') /\ DOMAIN hooks = 1..Len(hooks) /\ Len(hooks) \in Nat
  BY <1>1, LenProperties
<1>3. hooks' # <<>>
  BY <1>1, <1>2, EmptySeq
<1>4. \A i \in DOMAIN hooks' : i \in DOMAIN hooks \/ i = Len(hooks) + 1
  BY <1>1, <1>2
<1>5. \A i \in DOMAIN hooks : i \in DOMAIN hooks' /\ hooks'[i] = hooks[i]
  BY <1>1, <1>2
<1>6. Len(hooks) + 1 \in DOMAIN hooks'
  BY <1>1, <1>2
<1>7. \A x : Reported(x)' <=> Reported(x) \/ x = h
  BY <1>1, <1>4, <1>5, <1>6 DEF Reported
<1> QED
  BY <1>1, <1>2, <1>3, <1>4, <1>5, <1>7

LEMMA HookTaken ==
    ASSUME hooks \in Seq(HookT), hooks # <<>>, hooks' = Tail(hooks)
    PROVE  /\ hooks' \in Seq(HookT) /\ Head(hooks) = hooks[1] /\ 1 \in DOMAIN hooks /\ Head(hooks) \in HookT
           /\ Len(hooks) \in Nat /\ Len(hooks') = Len(hooks) - 1 /\ (Len(hooks) = 1 => hooks' = <<>>)
           /\ \A i \in DOMAIN hooks' : i \in Nat /\ i >= 1 /\ i + 1 \in DOMAIN hooks /\ hooks'[i] = hooks[i + 1]
           /\ \A x : Reported(x)' => Reported(x)
<1>1. /\ Head(hooks) = hooks[1] /\ Head(hooks) \in HookT /\ hooks' \in Seq(HookT)
      /\ Len(hooks) \in Nat /\ Len(hooks) > 0 /\ Len(hooks') = Len(hooks) - 1
      /\ \A i \in 1..Len(hooks') : hooks'[i] = hooks[i + 1]
  BY HeadTailProperties, EmptySeq, LenProperties
<1>2. DOMAIN hooks' = 1..Len(hooks') /\ DOMAIN hooks = 1..Len(hooks)
  BY <1>1, LenProperties
<1>3. Len(hooks) = 1 => hooks' = <<>>
  BY <1>1, EmptySeq
<1>4. \A i \in DOMAIN hooks' : i \in Nat /\ i >= 1 /\ i + 1 \in DOMAIN hooks /\ hooks'[i] = hooks[i + 1]
  BY <1>1, <1>2
<1>5. \A x : Reported(x)' => Reported(x)
  BY <1>4 DEF Reported
<1>6. 1 \in DOMAIN hooks
  BY <1>1, <1>2
<1> QED
  BY <1>1, <1>3, <1>4, <1>5, <1>6

\* A record that has ended keeps its end.
LEMMA RecordsEnd ==
    ASSUME NEW r \in RecT, NEW why \in {"asked", "session", "sentinel", "unknown", "stale"}, NEW red \in BOOLEAN
    PROVE  /\ Bg!EndBg(r, why, red) \in RecT /\ Bg!EndBg(r, why, red).url = r.url
           /\ r.why = "" => Bg!EndBg(r, why, red).why = why /\ Bg!EndBg(r, why, red).red = red
           /\ r.why # "" => Bg!EndBg(r, why, red) = r
BY DEF Bg!EndBg, RecT

\* What a step keeps that posts or reads no hook.
LEMMA HooksKept ==
    ASSUME ShellInv, hooks' = hooks, isOver' = isOver,
           \A n \in Shells : shellRec[n] = Bg!None /\ Reported(<<"start", n>>) => shellRec'[n] = Bg!None,
           \A n \in Shells : shell[n] # "" => shell'[n] # "",
           \A n \in Shells : shell[n] = "stopped" => shell'[n] = "stopped"
    PROVE  HooksInOrder' /\ \A h : Reported(h)' <=> Reported(h)
<1>1. \A h : Reported(h)' <=> Reported(h)
  BY DEF Reported
<1>2. /\ \A n \in Shells : Reported(<<"start", n>>) => shellRec[n] = Bg!None /\ shell[n] # ""
      /\ \A n \in Shells : Reported(<<"stop", n>>) => shell[n] = "stopped"
  BY DEF ShellInv, HooksInOrder
<1>3. \A n \in Shells : Reported(<<"start", n>>)' => shellRec'[n] = Bg!None'
  BY <1>1, <1>2 DEF Bg!None
<1>4. \A n \in Shells : Reported(<<"start", n>>)' => shell'[n] # ""
  BY <1>1, <1>2
<1>5. \A n \in Shells : Reported(<<"stop", n>>)' => shell'[n] = "stopped"
  BY <1>1, <1>2
<1>6. /\ \A i, j \in DOMAIN hooks : \A n \in Shells : hooks[i] = <<"start", n>> /\ hooks[j] = <<"start", n>> => i = j
      /\ \A i \in DOMAIN hooks : hooks[i] = <<"exit", 0>> => i = Len(hooks)
  BY DEF ShellInv, HooksInOrder
<1>7. isOver' => hooks' = <<>>
  BY DEF ShellInv, HooksInOrder
<1>8. \A n \in Shells : Reported(<<"start", n>>)' => shellRec'[n] = Bg!None /\ shell'[n] # ""
  BY <1>3, <1>4 DEF Bg!None
<1>a. \A i, j \in DOMAIN hooks' : \A n \in Shells : hooks'[i] = <<"start", n>> /\ hooks'[j] = <<"start", n>> => i = j
  <2> SUFFICES ASSUME NEW i \in DOMAIN hooks', NEW j \in DOMAIN hooks', NEW n \in Shells,
                      hooks'[i] = <<"start", n>>, hooks'[j] = <<"start", n>>
               PROVE  i = j
    OBVIOUS
  <2>1. i \in DOMAIN hooks /\ j \in DOMAIN hooks /\ hooks[i] = <<"start", n>> /\ hooks[j] = <<"start", n>>
    OBVIOUS
  <2> QED
    BY <2>1, <1>6
<1>b. \A i \in DOMAIN hooks' : hooks'[i] = <<"exit", 0>> => i = Len(hooks')
  BY <1>6
<1>9. HooksInOrder'
  BY <1>5, <1>7, <1>8, <1>a, <1>b DEF HooksInOrder
<1> QED
  BY <1>1, <1>9

\* A step whose shells only end keeps what their lines said.
LEMMA LinesKept ==
    ASSUME ShellInv, \A n \in Shells : shell'[n] = shell[n] \/ (shell[n] = "up" /\ shell'[n] \notin {"", "up"})
    PROVE  \A n \in Shells : \A t \in TextT : Says(t, n) => Says(t, n)'
BY DEF Says, TextT

LEMMA StartStep ==
    ASSUME Shelled, ShellInv, NEW n \in Shells, Bg!Start(n)
    PROVE  ShellInv'
<1>1. /\ shell[n] = "" /\ shell' = [shell EXCEPT ![n] = "up"] /\ hooks' = Append(hooks, <<"start", n>>)
      /\ ~ isOver /\ \A i \in DOMAIN hooks : hooks[i] # <<"exit", 0>>
      /\ UNCHANGED <<log, isOver, shellRec, asksPorts, logReads, asked, killing, unnamed>>
  BY DEF Bg!Start, Bg!AgentRuns
<1>2. <<"start", n>> \in HookT /\ hooks \in Seq(HookT)
  BY HooksDiffer DEF ShellInv, ShellTypes
<1>p. /\ hooks' \in Seq(HookT)
      /\ \A i \in DOMAIN hooks' : (i \in DOMAIN hooks /\ hooks'[i] = hooks[i]) \/ (i = Len(hooks) + 1 /\ hooks'[i] = <<"start", n>>)
      /\ \A x : Reported(x)' <=> Reported(x) \/ x = <<"start", n>>
  BY <1>1, <1>2, HookPosted
<1>3. ShellTypes'
  BY <1>1, <1>p DEF ShellInv, ShellTypes
<1>4. \A m \in Shells : shell'[m] = IF m = n THEN "up" ELSE shell[m]
  BY <1>1 DEF ShellInv, ShellTypes
<1>5. shellRec[n] = Bg!None /\ ~ Reported(<<"start", n>>) /\ ~ Reported(<<"stop", n>>)
  BY <1>1 DEF ShellInv, LinesTell, HooksInOrder
<1>s. \A m \in Shells : Reported(<<"start", m>>)' <=> Reported(<<"start", m>>) \/ m = n
  BY <1>p, HooksDiffer
<1>t. \A m \in Shells : Reported(<<"stop", m>>)' <=> Reported(<<"stop", m>>)
  BY <1>p, HooksDiffer
<1>6. HooksInOrder'
  <2>1. \A m \in Shells : Reported(<<"start", m>>)' => shellRec'[m] = Bg!None /\ shell'[m] # ""
    <3>1. \A m \in Shells : Reported(<<"start", m>>) => shellRec[m] = Bg!None /\ shell[m] # ""
      BY DEF ShellInv, HooksInOrder
    <3>2. \A m \in Shells : Reported(<<"start", m>>)' => shellRec[m] = Bg!None
      BY <3>1, <1>s, <1>5
    <3>3. \A m \in Shells : Reported(<<"start", m>>)' => shell'[m] # ""
      BY <3>1, <1>s, <1>4
    <3> QED
      BY <3>2, <3>3, <1>1
  <2>2. ASSUME NEW i \in DOMAIN hooks', NEW j \in DOMAIN hooks', NEW m \in Shells,
               hooks'[i] = <<"start", m>>, hooks'[j] = <<"start", m>>
        PROVE  i = j
    <3>1. CASE m = n
      <4>1. \A k \in DOMAIN hooks : hooks[k] # <<"start", n>>
        BY <1>5 DEF Reported
      <4> QED
        BY <2>2, <3>1, <4>1, <1>p
    <3>2. CASE m # n
      <4>1. <<"start", m>> # <<"start", n>>
        BY <3>2, HooksDiffer
      <4>2. i \in DOMAIN hooks /\ hooks[i] = <<"start", m>> /\ j \in DOMAIN hooks /\ hooks[j] = <<"start", m>>
        BY <2>2, <4>1, <1>p
      <4> QED
        BY <4>2 DEF ShellInv, HooksInOrder
    <3> QED
      BY <3>1, <3>2
  <2>3. \A m \in Shells : Reported(<<"stop", m>>)' => shell'[m] = "stopped"
    BY <1>t, <1>4, <1>5 DEF ShellInv, HooksInOrder
  <2>4. \A i \in DOMAIN hooks' : hooks'[i] # <<"exit", 0>>
    BY <1>1, <1>p, HooksDiffer
  <2>o. ~ isOver'
    BY <1>1
  <2>q. \A i, j \in DOMAIN hooks' : \A m \in Shells : hooks'[i] = <<"start", m>> /\ hooks'[j] = <<"start", m>> => i = j
    BY <2>2
  <2> QED
    BY <2>1, <2>3, <2>4, <2>o, <2>q DEF HooksInOrder
<1>7. LinesTell'
  <2>1. \A m \in Shells : \A t \in TextT : Says(t, m) => Says(t, m)'
    BY <1>1, <1>4 DEF Says, TextT
  <2>2. \A got \in logReads : got[1] \in Shells /\ got[2] \in TextT /\ got[1] # n
    BY <1>1 DEF ShellInv, ShellTypes, LinesTell
  <2>3. \A m \in Shells : log[m] \in TextT
    BY DEF ShellInv, ShellTypes
  <2>4. \A m \in Shells : Says(log[m], m)' /\ (shell'[m] = "" => shellRec'[m] = Bg!None)
    BY <1>1, <1>4, <2>1, <2>3 DEF ShellInv, LinesTell, Says
  <2>5. \A got \in logReads : Says(got[2], got[1])' /\ ~ Reported(<<"start", got[1]>>)' /\ shell'[got[1]] # ""
    BY <1>s, <1>4, <2>1, <2>2 DEF ShellInv, LinesTell
  <2> QED
    BY <1>1, <2>4, <2>5 DEF LinesTell, Says
<1>8. ReadsOfEnded'
  BY <1>1, <1>4 DEF ShellInv, ShellTypes, LinesTell, ReadsOfEnded, EndedAs
<1>9. KillsEnd'
  BY <1>1, <1>s, <1>4 DEF ShellInv, ShellTypes, KillsEnd
<1>10. EndsEarned'
  BY <1>1, <1>4, <1>5, BlankRecords DEF ShellInv, EndsEarned, EarnedBy, EndedAs
<1> QED
  BY <1>3, <1>6, <1>7, <1>8, <1>9, <1>10 DEF ShellInv

LEMMA WritesStep ==
    ASSUME Shelled, ShellInv, NEW n \in Shells, Bg!Writes(n)
    PROVE  ShellInv'
<1>1. /\ \/ log' = [log EXCEPT ![n].there = TRUE]
         \/ log' = [log EXCEPT ![n].url = TRUE]
      /\ UNCHANGED <<shell, hooks, isOver, shellRec, asksPorts, logReads, asked, killing, unnamed>>
  BY DEF Bg!Writes
<1>l. log \in [Shells -> TextT] /\ \A m \in Shells : log[m] \in TextT
  BY DEF ShellInv, ShellTypes
<1>a. [log[n] EXCEPT !.there = TRUE] \in TextT /\ [log[n] EXCEPT !.there = TRUE].last = log[n].last
  BY <1>l DEF TextT
<1>b. [log[n] EXCEPT !.url = TRUE] \in TextT /\ [log[n] EXCEPT !.url = TRUE].last = log[n].last
  BY <1>l DEF TextT
<1>2. log' \in [Shells -> TextT] /\ \A m \in Shells : log'[m].last = log[m].last
  <2>1. PICK t \in {[log[n] EXCEPT !.there = TRUE], [log[n] EXCEPT !.url = TRUE]} : log' = [log EXCEPT ![n] = t]
    BY <1>1
  <2> QED
    BY <1>l, <1>a, <1>b, <2>1
<1>3. ShellTypes'
  BY <1>1, <1>2 DEF ShellInv, ShellTypes
<1>4. HooksInOrder' /\ \A h : Reported(h)' <=> Reported(h)
  BY <1>1, HooksKept
<1>6. ReadsOfEnded' /\ EndsEarned'
  BY <1>1 DEF ShellInv, ReadsOfEnded, EndedAs, EndsEarned, EarnedBy
<1>7. KillsEnd'
  BY <1>1, <1>4 DEF ShellInv, KillsEnd
<1>5. LinesTell'
  BY <1>1, <1>2, <1>4 DEF ShellInv, LinesTell, Says
<1> QED
  BY <1>3, <1>4, <1>5, <1>6, <1>7 DEF ShellInv

Lasts == {"", "failed", "finished", "stopped", "killed", "unknown"}
\* A shell that has run ends, and its last line, if any, tells how.
LEMMA ShellEnds ==
    ASSUME ShellInv, NEW n \in Shells, shell[n] = "up", NEW how \in {"failed", "finished", "stopped", "killed"},
           shell' = [shell EXCEPT ![n] = how], NEW last \in Lasts, NEW there \in BOOLEAN,
           log' = [log EXCEPT ![n] = [log[n] EXCEPT !.last = last, !.there = there]],
           last \in {"failed", "killed"} => last = how,
           shellRec' = shellRec, logReads' = logReads, isOver' = isOver, unnamed \subseteq unnamed',
           \A m \in Shells : Reported(<<"start", m>>)' <=> Reported(<<"start", m>>)
    PROVE  /\ shell' \in [Shells -> {"", "up", "failed", "finished", "stopped", "killed"}] /\ log' \in [Shells -> TextT]
           /\ \A m \in Shells : shell'[m] = IF m = n THEN how ELSE shell[m]
           /\ LinesTell' /\ ReadsOfEnded' /\ EndsEarned'
<1>l. log \in [Shells -> TextT] /\ \A m \in Shells : log[m] \in TextT
  BY DEF ShellInv, ShellTypes
<1>1. [log[n] EXCEPT !.last = last, !.there = there] \in TextT /\ [log[n] EXCEPT !.last = last, !.there = there].last = last
  BY <1>l DEF TextT, Lasts
<1>2. log' \in [Shells -> TextT] /\ \A m \in Shells : log'[m].last = IF m = n THEN last ELSE log[m].last
  BY <1>l, <1>1
<1>3. shell' \in [Shells -> {"", "up", "failed", "finished", "stopped", "killed"}]
  BY DEF ShellInv, ShellTypes
<1>4. \A m \in Shells : shell'[m] = IF m = n THEN how ELSE shell[m]
  BY DEF ShellInv, ShellTypes
<1>5. \A m \in Shells : \A t \in TextT : Says(t, m) => Says(t, m)'
  <2>1. \A m \in Shells : shell'[m] = shell[m] \/ (shell[m] = "up" /\ shell'[m] \notin {"", "up"})
    <3>1. how \notin {"", "up"}
      OBVIOUS
    <3> QED
      BY <1>4, <3>1
  <2> QED
    BY <2>1, LinesKept
<1>6. \A got \in logReads : got[1] \in Shells /\ got[2] \in TextT
  BY DEF ShellInv, ShellTypes
<1>7. \A m \in Shells : Says(log[m], m) /\ (shell[m] = "" => shellRec[m] = Bg!None)
  BY DEF ShellInv, LinesTell
<1>8. \A got \in logReads : Says(got[2], got[1]) /\ ~ Reported(<<"start", got[1]>>) /\ shell[got[1]] # ""
  BY DEF ShellInv, LinesTell
<1>9. \A m \in Shells : m # n => Says(log[m], m)'
  BY <1>2, <1>4, <1>7 DEF Says
<1>10. Says(log[n], n)'
  BY <1>2, <1>4 DEF Says, Lasts
<1>11. \A m \in Shells : shell'[m] = "" => shellRec'[m] = Bg!None
  BY <1>4, <1>7
<1>12. \A got \in logReads : Says(got[2], got[1])' /\ ~ Reported(<<"start", got[1]>>)' /\ shell'[got[1]] # ""
  BY <1>4, <1>5, <1>6, <1>8
<1>13. LinesTell'
  BY <1>9, <1>10, <1>11, <1>12 DEF LinesTell
<1>14. ReadsOfEnded'
  BY <1>4, <1>6 DEF ShellInv, ReadsOfEnded, EndedAs
<1>15. EndsEarned'
  <2> SUFFICES ASSUME NEW m \in Shells
               PROVE  EarnedBy(m)'
    BY DEF EndsEarned
  <2>1. EarnedBy(m)
    BY DEF ShellInv, EndsEarned
  <2> QED
    BY <2>1, <1>4 DEF EarnedBy, EndedAs
<1> QED
  BY <1>2, <1>3, <1>4, <1>13, <1>14, <1>15

LEMMA ExitsStep ==
    ASSUME Shelled, ShellInv, NEW n \in Shells, NEW how \in {"failed", "finished"}, Bg!Exits(n, how)
    PROVE  ShellInv'
<1>1. /\ shell[n] = "up" /\ shell' = [shell EXCEPT ![n] = how]
      /\ \E last \in {how, "unknown", ""} :
            log' = [log EXCEPT ![n] = [log[n] EXCEPT !.last = last, !.there = log[n].there \/ last # ""]]
      /\ UNCHANGED <<hooks, isOver, shellRec, asksPorts, logReads, asked, killing, unnamed>>
  BY DEF Bg!Exits
<1>2. PICK last \in {how, "unknown", ""} :
         log' = [log EXCEPT ![n] = [log[n] EXCEPT !.last = last, !.there = log[n].there \/ last # ""]]
  BY <1>1
<1>3. HooksInOrder' /\ \A h : Reported(h)' <=> Reported(h)
  BY <1>1, HooksKept DEF ShellInv, ShellTypes
<1>4. last \in Lasts /\ (log[n].there \/ last # "") \in BOOLEAN /\ (last \in {"failed", "killed"} => last = how)
  BY DEF Lasts
<1>u. /\ shellRec' = shellRec /\ logReads' = logReads /\ isOver' = isOver /\ unnamed \subseteq unnamed'
      /\ \A m \in Shells : Reported(<<"start", m>>)' <=> Reported(<<"start", m>>)
  BY <1>1, <1>3
<1>5. /\ shell' \in [Shells -> {"", "up", "failed", "finished", "stopped", "killed"}] /\ log' \in [Shells -> TextT]
      /\ \A m \in Shells : shell'[m] = IF m = n THEN how ELSE shell[m]
      /\ LinesTell' /\ ReadsOfEnded' /\ EndsEarned'
  BY <1>1, <1>2, <1>4, <1>u, ShellEnds
<1>6. ShellTypes'
  BY <1>1, <1>5 DEF ShellInv, ShellTypes
<1>7. KillsEnd'
  BY <1>1, <1>3, <1>5 DEF ShellInv, ShellTypes, KillsEnd
<1> QED
  BY <1>3, <1>5, <1>6, <1>7 DEF ShellInv

LEMMA StopsStep ==
    ASSUME Shelled, ShellInv, NEW n \in Shells, Bg!Stops(n)
    PROVE  ShellInv'
<1>1. /\ shell[n] = "up" /\ shell' = [shell EXCEPT ![n] = "stopped"]
      /\ log' = [log EXCEPT ![n] = [log[n] EXCEPT !.last = "stopped", !.there = TRUE]]
      /\ hooks' = Append(hooks, <<"stop", n>>)
      /\ ~ isOver /\ \A i \in DOMAIN hooks : hooks[i] # <<"exit", 0>>
      /\ UNCHANGED <<isOver, shellRec, asksPorts, logReads, asked, killing, unnamed>>
  BY DEF Bg!Stops, Bg!AgentRuns
<1>2. <<"stop", n>> \in HookT /\ hooks \in Seq(HookT)
  BY HooksDiffer DEF ShellInv, ShellTypes
<1>p. /\ hooks' \in Seq(HookT)
      /\ \A i \in DOMAIN hooks' : (i \in DOMAIN hooks /\ hooks'[i] = hooks[i]) \/ (i = Len(hooks) + 1 /\ hooks'[i] = <<"stop", n>>)
      /\ \A x : Reported(x)' <=> Reported(x) \/ x = <<"stop", n>>
  BY <1>1, <1>2, HookPosted
<1>s. \A m \in Shells : Reported(<<"start", m>>)' <=> Reported(<<"start", m>>)
  BY <1>p, HooksDiffer
<1>t. \A m \in Shells : Reported(<<"stop", m>>)' <=> Reported(<<"stop", m>>) \/ m = n
  BY <1>p, HooksDiffer
<1>4. "stopped" \in Lasts
  BY DEF Lasts
<1>5. /\ shell' \in [Shells -> {"", "up", "failed", "finished", "stopped", "killed"}] /\ log' \in [Shells -> TextT]
      /\ \A m \in Shells : shell'[m] = IF m = n THEN "stopped" ELSE shell[m]
      /\ LinesTell' /\ ReadsOfEnded' /\ EndsEarned'
  BY <1>1, <1>s, <1>4, ShellEnds
<1>6. ShellTypes'
  BY <1>1, <1>5, <1>p DEF ShellInv, ShellTypes
<1>7. KillsEnd'
  BY <1>1, <1>s, <1>5 DEF ShellInv, ShellTypes, KillsEnd
<1>8. HooksInOrder'
  <2>h. /\ \A m \in Shells : Reported(<<"start", m>>) => shellRec[m] = Bg!None /\ shell[m] # ""
        /\ \A m \in Shells : Reported(<<"stop", m>>) => shell[m] = "stopped"
    BY DEF ShellInv, HooksInOrder
  <2>1. \A m \in Shells : Reported(<<"start", m>>)' => shellRec'[m] = Bg!None /\ shell'[m] # ""
    BY <2>h, <1>1, <1>s, <1>5
  <2>2. ASSUME NEW i \in DOMAIN hooks', NEW j \in DOMAIN hooks', NEW m \in Shells,
               hooks'[i] = <<"start", m>>, hooks'[j] = <<"start", m>>
        PROVE  i = j
    <3>1. <<"start", m>> # <<"stop", n>>
      BY HooksDiffer
    <3>2. i \in DOMAIN hooks /\ hooks[i] = <<"start", m>> /\ j \in DOMAIN hooks /\ hooks[j] = <<"start", m>>
      BY <2>2, <3>1, <1>p
    <3> QED
      BY <3>2 DEF ShellInv, HooksInOrder
  <2>3. \A m \in Shells : Reported(<<"stop", m>>)' => shell'[m] = "stopped"
    BY <2>h, <1>t, <1>5
  <2>4. \A i \in DOMAIN hooks' : hooks'[i] # <<"exit", 0>>
    BY <1>1, <1>p, HooksDiffer
  <2>o. ~ isOver'
    BY <1>1
  <2>q. \A i, j \in DOMAIN hooks' : \A m \in Shells : hooks'[i] = <<"start", m>> /\ hooks'[j] = <<"start", m>> => i = j
    BY <2>2
  <2> QED
    BY <2>1, <2>3, <2>4, <2>o, <2>q DEF HooksInOrder
<1> QED
  BY <1>5, <1>6, <1>7, <1>8 DEF ShellInv

LEMMA AgentExitsStep ==
    ASSUME Shelled, ShellInv, Bg!AgentExits
    PROVE  ShellInv'
<1>1. /\ hooks' = Append(hooks, <<"exit", 0>>)
      /\ ~ isOver /\ \A i \in DOMAIN hooks : hooks[i] # <<"exit", 0>>
      /\ UNCHANGED <<shell, log, isOver, shellRec, asksPorts, logReads, asked, killing, unnamed>>
  BY DEF Bg!AgentExits, Bg!AgentRuns
<1>2. <<"exit", 0>> \in HookT /\ hooks \in Seq(HookT)
  BY HooksDiffer DEF ShellInv, ShellTypes
<1>p. /\ hooks' \in Seq(HookT) /\ Len(hooks') = Len(hooks) + 1
      /\ \A i \in DOMAIN hooks' : (i \in DOMAIN hooks /\ hooks'[i] = hooks[i]) \/ (i = Len(hooks) + 1 /\ hooks'[i] = <<"exit", 0>>)
      /\ \A x : Reported(x)' <=> Reported(x) \/ x = <<"exit", 0>>
  BY <1>1, <1>2, HookPosted
<1>s. \A m \in Shells : /\ Reported(<<"start", m>>)' <=> Reported(<<"start", m>>)
                        /\ Reported(<<"stop", m>>)' <=> Reported(<<"stop", m>>)
  BY <1>p, HooksDiffer
<1>6. ShellTypes'
  BY <1>1, <1>p DEF ShellInv, ShellTypes
<1>7. KillsEnd'
  BY <1>1, <1>s DEF ShellInv, KillsEnd
<1>8. HooksInOrder'
  <2>h. /\ \A m \in Shells : Reported(<<"start", m>>) => shellRec[m] = Bg!None /\ shell[m] # ""
        /\ \A m \in Shells : Reported(<<"stop", m>>) => shell[m] = "stopped"
    BY DEF ShellInv, HooksInOrder
  <2>1. /\ \A m \in Shells : Reported(<<"start", m>>)' => shellRec'[m] = Bg!None /\ shell'[m] # ""
        /\ \A m \in Shells : Reported(<<"stop", m>>)' => shell'[m] = "stopped"
    BY <2>h, <1>1, <1>s
  <2>2. ASSUME NEW i \in DOMAIN hooks', NEW j \in DOMAIN hooks', NEW m \in Shells,
               hooks'[i] = <<"start", m>>, hooks'[j] = <<"start", m>>
        PROVE  i = j
    <3>1. <<"start", m>> # <<"exit", 0>>
      BY HooksDiffer
    <3>2. i \in DOMAIN hooks /\ hooks[i] = <<"start", m>> /\ j \in DOMAIN hooks /\ hooks[j] = <<"start", m>>
      BY <2>2, <3>1, <1>p
    <3> QED
      BY <3>2 DEF ShellInv, HooksInOrder
  <2>4. \A i \in DOMAIN hooks' : hooks'[i] = <<"exit", 0>> => i = Len(hooks')
    BY <1>1, <1>p
  <2>o. ~ isOver'
    BY <1>1
  <2>q. \A i, j \in DOMAIN hooks' : \A m \in Shells : hooks'[i] = <<"start", m>> /\ hooks'[j] = <<"start", m>> => i = j
    BY <2>2
  <2> QED
    BY <2>1, <2>4, <2>o, <2>q DEF HooksInOrder
<1>9. LinesTell'
  <2>1. \A m \in Shells : Says(log[m], m)' /\ (shell'[m] = "" => shellRec'[m] = Bg!None)
    BY <1>1 DEF ShellInv, LinesTell, Says
  <2>2. \A got \in logReads : Says(got[2], got[1])' /\ ~ Reported(<<"start", got[1]>>)' /\ shell'[got[1]] # ""
    BY <1>1, <1>s DEF ShellInv, ShellTypes, LinesTell, Says
  <2> QED
    BY <1>1, <2>1, <2>2 DEF LinesTell
<1>10. ReadsOfEnded' /\ EndsEarned'
  BY <1>1 DEF ShellInv, ReadsOfEnded, EndedAs, EndsEarned, EarnedBy
<1> QED
  BY <1>6, <1>7, <1>8, <1>9, <1>10 DEF ShellInv

\* A step that touches no shell, log or hook keeps these as long as the records it changes keep their start.
LEMMA RecordsMove ==
    ASSUME ShellInv, shell' = shell, log' = log, hooks' = hooks, isOver' = isOver, logReads' = logReads,
           \A n \in Shells : shellRec[n] = Bg!None => shellRec'[n] = Bg!None \/ (shell[n] # "" /\ ~ Reported(<<"start", n>>))
    PROVE  HooksInOrder' /\ LinesTell' /\ \A h : Reported(h)' <=> Reported(h)
<1>1. \A h : Reported(h)' <=> Reported(h)
  BY DEF Reported
<1>2. HooksInOrder'
  <2>1. \A n \in Shells : shellRec[n] = Bg!None /\ Reported(<<"start", n>>) => shellRec'[n] = Bg!None
    OBVIOUS
  <2> QED
    BY <2>1, HooksKept
<1>3. \A n \in Shells : Says(log[n], n)' /\ (shell'[n] = "" => shellRec'[n] = Bg!None)
  BY DEF ShellInv, LinesTell, Says
<1>4. \A got \in logReads : Says(got[2], got[1])' /\ ~ Reported(<<"start", got[1]>>)' /\ shell'[got[1]] # ""
  BY <1>1 DEF ShellInv, LinesTell, Says
<1> QED
  BY <1>1, <1>2, <1>3, <1>4 DEF LinesTell

LEMMA PollPortsStep ==
    ASSUME Shelled, ShellInv, Bg!PollPorts
    PROVE  ShellInv'
<1>1. /\ asksPorts' \subseteq Shells
      /\ UNCHANGED <<shell, log, hooks, isOver, shellRec, logReads, asked, killing, unnamed>>
  BY DEF Bg!PollPorts, Bg!Listening
<1>2. HooksInOrder' /\ LinesTell' /\ \A h : Reported(h)' <=> Reported(h)
  BY <1>1, RecordsMove
<1>3. ShellTypes'
  BY <1>1 DEF ShellInv, ShellTypes
<1>4. ReadsOfEnded' /\ EndsEarned' /\ KillsEnd'
  BY <1>1, <1>2 DEF ShellInv, ReadsOfEnded, EndedAs, EndsEarned, EarnedBy, KillsEnd
<1> QED
  BY <1>2, <1>3, <1>4 DEF ShellInv

LEMMA AskKillStep ==
    ASSUME Shelled, ShellInv, NEW p \in Shells, Bg!AskKill(p)
    PROVE  ShellInv'
<1>1. /\ asked' = p /\ killing = 0
      /\ UNCHANGED <<shell, log, hooks, isOver, shellRec, asksPorts, logReads, killing, unnamed>>
  BY DEF Bg!AskKill
<1>2. HooksInOrder' /\ LinesTell' /\ \A h : Reported(h)' <=> Reported(h)
  BY <1>1, RecordsMove
<1>3. ShellTypes'
  BY <1>1 DEF ShellInv, ShellTypes
<1>4. ReadsOfEnded' /\ EndsEarned' /\ KillsEnd'
  BY <1>1, <1>2 DEF ShellInv, ReadsOfEnded, EndedAs, EndsEarned, EarnedBy, KillsEnd
<1> QED
  BY <1>2, <1>3, <1>4 DEF ShellInv

LEMMA ForgetStep ==
    ASSUME Shelled, ShellInv, NEW n \in Shells, Bg!Forget(n)
    PROVE  ShellInv'
<1>1. /\ shellRec' = [shellRec EXCEPT ![n] = Bg!None]
      /\ UNCHANGED <<shell, log, hooks, isOver, asksPorts, logReads, asked, killing, unnamed>>
  BY DEF Bg!Forget
<1>2. \A m \in Shells : shellRec'[m] = IF m = n THEN Bg!None ELSE shellRec[m]
  BY <1>1 DEF ShellInv, ShellTypes
<1>3. HooksInOrder' /\ LinesTell' /\ \A h : Reported(h)' <=> Reported(h)
  BY <1>1, <1>2, RecordsMove
<1>4. ShellTypes'
  BY <1>1, BlankRecords DEF ShellInv, ShellTypes
<1>5. ReadsOfEnded'
  BY <1>1, <1>2, BlankRecords DEF ShellInv, ShellTypes, ReadsOfEnded, EndedAs
<1>6. EndsEarned'
  <2> SUFFICES ASSUME NEW m \in Shells
               PROVE  EarnedBy(m)'
    BY DEF EndsEarned
  <2>1. EarnedBy(m)
    BY DEF ShellInv, EndsEarned
  <2>2. Bg!None.why = "none" /\ ~ Bg!None.red
    BY BlankRecords
  <2> QED
    BY <1>1, <1>2, <2>1, <2>2 DEF EarnedBy, EndedAs
<1>7. KillsEnd'
  BY <1>1, <1>2, <1>3, BlankRecords DEF ShellInv, KillsEnd
<1> QED
  BY <1>3, <1>4, <1>5, <1>6, <1>7 DEF ShellInv

\* One silent record adopts a port: a live record gets an address, and no record ends.
LEMMA PortsAnsweredStep ==
    ASSUME Shelled, ShellInv, Bg!PortsAnswered
    PROVE  ShellInv'
<1>1. /\ asksPorts' = {0}
      /\ UNCHANGED <<shell, log, hooks, isOver, logReads, asked, killing, unnamed>>
  BY DEF Bg!PortsAnswered, Bg!NoPoll
<1> DEFINE loose == asksPorts \ {shellRec[n].url : n \in Bg!Live(shellRec)}
           silent == {n \in Bg!Live(shellRec) : shellRec[n].url = 0 /\ nature[n] # "late"}
<1>2. \/ shellRec' = shellRec
      \/ loose # {} /\ shellRec' = [n \in Shells |-> IF n \in silent THEN [shellRec[n] EXCEPT !.url = CHOOSE p \in loose : TRUE] ELSE shellRec[n]]
  <2>1. Bg!Single(loose) => loose # {}
    BY DEF Bg!Single
  <2>2. shellRec' = IF Bg!Single(loose) /\ Bg!Single(silent)
               THEN [n \in Shells |-> IF n \in silent THEN [shellRec[n] EXCEPT !.url = CHOOSE p \in loose : TRUE] ELSE shellRec[n]]
               ELSE shellRec
    BY Zenon DEF Bg!PortsAnswered
  <2> HIDE DEF loose, silent
  <2> QED
    BY <2>1, <2>2
<1>r. \A m \in Shells : shellRec[m] \in RecT
  BY DEF ShellInv, ShellTypes
<1>3. \A m \in Shells : shellRec'[m] = shellRec[m] \/
         (shellRec[m].why = "" /\ shellRec[m].url = 0 /\ shellRec'[m] \in RecT /\ shellRec'[m].why = "" /\ shellRec'[m].red = shellRec[m].red)
  <2> SUFFICES ASSUME NEW m \in Shells, loose # {}, m \in silent,
                      shellRec'[m] = [shellRec[m] EXCEPT !.url = CHOOSE p \in loose : TRUE]
               PROVE  shellRec[m].why = "" /\ shellRec[m].url = 0 /\ shellRec'[m] \in RecT /\ shellRec'[m].why = "" /\ shellRec'[m].red = shellRec[m].red
    BY <1>2
  <2>1. PICK p \in Shells \cup {0} : shellRec'[m] = [shellRec[m] EXCEPT !.url = p]
    BY DEF ShellInv, ShellTypes
  <2> QED
    BY <1>r, <2>1 DEF RecT, Bg!Live
<1>4. shellRec' \in [Shells -> RecT]
  <2>1. shellRec' = [m \in Shells |-> shellRec'[m]]
    BY <1>2 DEF ShellInv, ShellTypes
  <2> QED
    BY <1>r, <1>3, <2>1
<1> HIDE DEF loose, silent
<1>5. HooksInOrder' /\ LinesTell' /\ \A h : Reported(h)' <=> Reported(h)
  <2>1. \A m \in Shells : shellRec[m] = Bg!None => shellRec'[m] = Bg!None
    BY <1>3, BlankRecords
  <2> QED
    BY <1>1, <2>1, RecordsMove
<1>6. ShellTypes'
  BY <1>1, <1>4 DEF ShellInv, ShellTypes
<1>7. ReadsOfEnded'
  BY <1>1, <1>3 DEF ShellInv, ShellTypes, ReadsOfEnded, EndedAs
<1>8. EndsEarned'
  <2> SUFFICES ASSUME NEW m \in Shells
               PROVE  EarnedBy(m)'
    BY DEF EndsEarned
  <2>1. EarnedBy(m)
    BY DEF ShellInv, EndsEarned
  <2> QED
    BY <1>1, <1>3, <2>1 DEF EarnedBy, EndedAs
<1>9. KillsEnd'
  <2>1. \A m \in Shells : shellRec[m].why # "" \/ (killing = m /\ shellRec[m].url = m) => shellRec'[m] = shellRec[m]
    BY <1>3 DEF Shelled
  <2> QED
    BY <1>1, <1>5, <2>1 DEF ShellInv, KillsEnd
<1> QED
  BY <1>5, <1>6, <1>7, <1>8, <1>9 DEF ShellInv

LEMMA ReadLogStep ==
    ASSUME Shelled, ShellInv, NEW n \in Shells, Bg!ReadLog(n)
    PROVE  ShellInv'
<1>1. /\ shellRec[n].why = "" /\ logReads' = {<<n, log[n]>>} /\ killing = 0
      /\ UNCHANGED <<shell, log, hooks, isOver, shellRec, asksPorts, asked, killing, unnamed>>
  BY DEF Bg!ReadLog, Shelled
<1>2. \A h : Reported(h)' <=> Reported(h)
  BY <1>1 DEF Reported
<1>3. shellRec[n] # Bg!None
  BY <1>1, BlankRecords
<1>4. ~ Reported(<<"start", n>>) /\ shell[n] # "" /\ Says(log[n], n)
  BY <1>3 DEF ShellInv, HooksInOrder, LinesTell
<1>5. \A got \in logReads' : got[1] = n /\ got[2] = log[n]
  <2>1. \A got \in logReads' : got = <<n, log[n]>>
    BY <1>1
  <2>2. \A t : <<n, t>>[1] = n /\ <<n, t>>[2] = t
    OBVIOUS
  <2> QED
    BY <2>1, <2>2, Zenon
<1>6. ShellTypes'
  <2>1. <<n, log[n]>> \in Shells \X TextT
    BY DEF ShellInv, ShellTypes
  <2>2. logReads' \subseteq Shells \X TextT
    BY <1>1, <2>1
  <2> QED
    BY <1>1, <2>2 DEF ShellInv, ShellTypes
<1>7. HooksInOrder'
  BY <1>1, HooksKept
<1>8. LinesTell'
  <2>1. \A m \in Shells : Says(log[m], m)' /\ (shell'[m] = "" => shellRec'[m] = Bg!None)
    BY <1>1 DEF ShellInv, LinesTell, Says
  <2>2. \A got \in logReads' : Says(got[2], got[1])' /\ ~ Reported(<<"start", got[1]>>)' /\ shell'[got[1]] # ""
    BY <1>1, <1>2, <1>4, <1>5 DEF Says
  <2> QED
    BY <2>1, <2>2 DEF LinesTell
<1>9. ReadsOfEnded'
  BY <1>1, <1>5 DEF ReadsOfEnded, EndedAs
<1>10. EndsEarned' /\ KillsEnd'
  BY <1>1, <1>2 DEF ShellInv, EndsEarned, EarnedBy, EndedAs, KillsEnd
<1> QED
  BY <1>6, <1>7, <1>8, <1>9, <1>10 DEF ShellInv

\* What a read makes of a record: it may give the address and an end that the text announces.
Applied(r, n, t, long) == IF t.there THEN Bg!Found(r, n, t) ELSE Bg!Missing(r, long)
EndAnnounced(r, t, x) ==
    /\ x \in RecT
    /\ r.why # "" => x.why = r.why /\ x.red = r.red
    /\ r.why = "" /\ x.why # "" =>
          \/ x.why = "stale" /\ x.red = FALSE
          \/ /\ x.why \in {"sentinel", "unknown"} /\ t.last # ""
             /\ x.red = FALSE \/ t.last \in {"failed", "killed"}
    /\ r.why = "" /\ x.why = "" => x.red = r.red
LEMMA TextApplied ==
    ASSUME NEW r \in RecT, NEW n \in Shells, NEW t \in TextT, NEW long \in BOOLEAN
    PROVE  EndAnnounced(r, t, Applied(r, n, t, long))
<1> DEFINE seen == [r EXCEPT !.missed = FALSE, !.url = IF t.url THEN n ELSE @]
           why == IF t.last = "unknown" THEN "unknown" ELSE "sentinel"
           x == Applied(r, n, t, long)
<1>1. seen \in RecT /\ seen.why = r.why /\ seen.red = r.red
  BY DEF RecT, TextT
<1>2. [r EXCEPT !.missed = TRUE] \in RecT /\ [r EXCEPT !.missed = TRUE].why = r.why /\ [r EXCEPT !.missed = TRUE].red = r.red
  BY DEF RecT
<1>3. CASE t.there /\ t.last = ""
  <2>1. x = seen
    BY <1>3, Zenon DEF Bg!Found, Applied
  <2> QED
    BY <1>1, <2>1 DEF EndAnnounced
<1>4. CASE t.there /\ t.last # ""
  <2>1. x = Bg!EndBg(seen, why, t.last \in {"failed", "killed"})
    BY <1>4, Zenon DEF Bg!Found, Applied
  <2>2. why \in {"asked", "session", "sentinel", "unknown", "stale"} /\ why \in {"sentinel", "unknown"}
    BY DEF TextT
  <2>3. CASE t.last \in {"failed", "killed"}
    <3>1. (t.last \in {"failed", "killed"}) = TRUE
      BY <2>3
    <3>2. x = Bg!EndBg(seen, why, TRUE)
      BY <2>1, <3>1
    <3> HIDE DEF seen, why, x
    <3>3. /\ x \in RecT
          /\ seen.why = "" => x.why = why /\ x.red = TRUE
          /\ seen.why # "" => x = seen
      BY <1>1, <2>2, <3>2 DEF Bg!EndBg, RecT
    <3> QED
      BY <1>1, <1>4, <2>2, <2>3, <3>3 DEF EndAnnounced, x
  <2>4. CASE t.last \notin {"failed", "killed"}
    <3>1. (t.last \in {"failed", "killed"}) = FALSE
      BY <2>4
    <3>2. x = Bg!EndBg(seen, why, FALSE)
      BY <2>1, <3>1
    <3> HIDE DEF seen, why, x
    <3>3. /\ x \in RecT
          /\ seen.why = "" => x.why = why /\ x.red = FALSE
          /\ seen.why # "" => x = seen
      BY <1>1, <2>2, <3>2 DEF Bg!EndBg, RecT
    <3> QED
      BY <1>1, <1>4, <2>2, <3>3 DEF EndAnnounced, x
  <2> QED
    BY <2>3, <2>4
<1>5. CASE ~ t.there
  <2>1. \/ x = Bg!EndBg(r, "stale", FALSE)
        \/ x = [r EXCEPT !.missed = TRUE]
    BY <1>5 DEF Bg!Missing, Applied
  <2>2. /\ Bg!EndBg(r, "stale", FALSE) \in RecT
        /\ r.why = "" => Bg!EndBg(r, "stale", FALSE).why = "stale" /\ Bg!EndBg(r, "stale", FALSE).red = FALSE
        /\ r.why # "" => Bg!EndBg(r, "stale", FALSE) = r
    BY RecordsEnd
  <2> HIDE DEF x
  <2> QED
    BY <1>2, <2>1, <2>2 DEF EndAnnounced, x
<1> QED
  BY <1>3, <1>4, <1>5 DEF TextT

LEMMA LogAnsweredStep ==
    ASSUME Shelled, ShellInv, Bg!LogAnswered
    PROVE  ShellInv'
<1>1. PICK got \in logReads, long \in BOOLEAN :
         /\ logReads' = logReads \ {got}
         /\ shellRec' = [shellRec EXCEPT ![got[1]] = IF got[2].there THEN Bg!Found(shellRec[got[1]], got[1], got[2])
                                                           ELSE Bg!Missing(shellRec[got[1]], long)]
         /\ killing = 0
         /\ UNCHANGED <<shell, log, hooks, isOver, asksPorts, asked, killing, unnamed>>
  BY DEF Bg!LogAnswered, Shelled
<1> DEFINE n == got[1]
           x == Applied(shellRec[n], n, got[2], long)
<1>2. n \in Shells /\ got[2] \in TextT /\ shellRec[n] \in RecT
  BY DEF ShellInv, ShellTypes
<1>3. Says(got[2], n) /\ ~ Reported(<<"start", n>>) /\ shell[n] # "" /\ (EndedAs(shellRec[n]) => shell[n] # "up")
  BY DEF ShellInv, LinesTell, ReadsOfEnded
<1>4. EndAnnounced(shellRec[n], got[2], x)
  <2> HIDE DEF n
  <2> QED
    BY <1>2, TextApplied
<1>5. shellRec' = [shellRec EXCEPT ![n] = x]
  BY <1>1 DEF Applied
<1> HIDE DEF x, n
<1>6. shellRec' \in [Shells -> RecT] /\ \A m \in Shells : shellRec'[m] = IF m = n THEN x ELSE shellRec[m]
  BY <1>2, <1>4, <1>5 DEF ShellInv, ShellTypes, EndAnnounced
<1>7. \A h : Reported(h)' <=> Reported(h)
  BY <1>1 DEF Reported
<1>8. ShellTypes'
  BY <1>1, <1>6 DEF ShellInv, ShellTypes
<1>9. HooksInOrder'
  <2>1. \A m \in Shells : shellRec[m] = Bg!None /\ Reported(<<"start", m>>) => shellRec'[m] = Bg!None
    BY <1>3, <1>6
  <2> QED
    BY <1>1, <2>1, HooksKept
<1>10. LinesTell'
  <2>1. \A m \in Shells : Says(log[m], m)' /\ (shell'[m] = "" => shellRec'[m] = Bg!None)
    BY <1>1, <1>3, <1>6 DEF ShellInv, LinesTell, Says
  <2>2. \A g \in logReads' : Says(g[2], g[1])' /\ ~ Reported(<<"start", g[1]>>)' /\ shell'[g[1]] # ""
    BY <1>1, <1>7 DEF ShellInv, LinesTell, Says
  <2> QED
    BY <2>1, <2>2 DEF LinesTell
<1>e. EndedAs(x) => shell[n] # "up"
  BY <1>3, <1>4 DEF EndedAs, Says, EndAnnounced
<1>11. ReadsOfEnded'
  <2> SUFFICES ASSUME NEW g \in logReads, EndedAs(shellRec'[g[1]])
               PROVE  shell[g[1]] # "up"
    BY <1>1 DEF ReadsOfEnded, EndedAs
  <2>1. g[1] \in Shells /\ (EndedAs(shellRec[g[1]]) => shell[g[1]] # "up")
    BY DEF ShellInv, ShellTypes, ReadsOfEnded
  <2> QED
    BY <1>6, <1>e, <2>1 DEF EndedAs
<1>k. shell[n] = "killed" => n \in unnamed \/ shellRec[n].why # ""
  BY <1>1, <1>2 DEF ShellInv, KillsEnd, Shelled
<1>12. EndsEarned'
  <2> SUFFICES ASSUME NEW m \in Shells
               PROVE  EarnedBy(m)'
    BY DEF EndsEarned
  <2>1. EarnedBy(m)
    BY DEF ShellInv, EndsEarned
  <2>2. x.red => shell[n] = "failed" \/ n \in unnamed
    BY <1>2, <1>3, <1>4, <1>k DEF ShellInv, EndsEarned, EarnedBy, Says, EndAnnounced
  <2>3. isOver => x.why # ""
    BY <1>2, <1>4 DEF ShellInv, EndsEarned, EarnedBy, EndAnnounced
  <2> QED
    BY <1>1, <1>6, <1>e, <2>1, <2>2, <2>3 DEF EarnedBy, EndedAs
<1>13. KillsEnd'
  <2>1. \A m \in Shells : shellRec[m].why # "" => shellRec'[m].why # ""
    BY <1>4, <1>6 DEF EndAnnounced
  <2>2. killing = 0 => \A m \in Shells : killing # m
    BY DEF Shelled
  <2> QED
    BY <1>1, <1>7, <2>1, <2>2 DEF ShellInv, KillsEnd
<1> QED
  BY <1>8, <1>9, <1>10, <1>11, <1>12, <1>13 DEF ShellInv

LEMMA KillPortStep ==
    ASSUME Shelled, ShellInv, Bg!KillPort
    PROVE  ShellInv'
<1>1. /\ asked # 0 /\ asked' = 0 /\ logReads = {} /\ killing = 0
      /\ UNCHANGED <<hooks, isOver, shellRec, asksPorts, logReads>>
  BY DEF Bg!KillPort, Shelled, ShellInv, KillsEnd
<1>2. CASE asked \in Bg!Listening
  <2>1. /\ asked \in Shells /\ shell[asked] = "up" /\ killing' = asked /\ shell' = [shell EXCEPT ![asked] = "killed"]
        /\ log' = [log EXCEPT ![asked] = [log[asked] EXCEPT !.last = "killed", !.there = TRUE]]
        /\ unnamed' = IF shellRec[asked].url = asked THEN unnamed ELSE unnamed \cup {asked}
    BY <1>2 DEF Bg!KillPort, Bg!Listening
  <2>2. \A h : Reported(h)' <=> Reported(h)
    BY <1>1 DEF Reported
  <2>3. "killed" \in Lasts /\ unnamed \subseteq unnamed'
    BY <2>1 DEF Lasts
  <2>4. /\ shell' \in [Shells -> {"", "up", "failed", "finished", "stopped", "killed"}] /\ log' \in [Shells -> TextT]
        /\ \A m \in Shells : shell'[m] = IF m = asked THEN "killed" ELSE shell[m]
        /\ LinesTell' /\ ReadsOfEnded' /\ EndsEarned'
    BY <1>1, <2>1, <2>2, <2>3, ShellEnds
  <2>5. ShellTypes'
    BY <1>1, <2>1, <2>4 DEF ShellInv, ShellTypes
  <2>6. HooksInOrder'
    BY <1>1, <2>1, <2>4, HooksKept
  <2>7. shellRec[asked].url = asked => ~ Reported(<<"start", asked>>)
    BY <2>1, BlankRecords DEF ShellInv, HooksInOrder, Shelled
  <2>8. \A m \in Shells : killing # m
    BY <1>1 DEF Shelled
  <2>9. KillsEnd'
    BY <1>1, <2>1, <2>2, <2>4, <2>7, <2>8 DEF ShellInv, KillsEnd
  <2> QED
    BY <2>4, <2>5, <2>6, <2>9 DEF ShellInv
<1>3. CASE asked \notin Bg!Listening
  <2>1. UNCHANGED <<shell, log, killing, unnamed>>
    BY <1>3 DEF Bg!KillPort
  <2>2. HooksInOrder' /\ LinesTell' /\ \A h : Reported(h)' <=> Reported(h)
    BY <1>1, <2>1, RecordsMove
  <2>3. ShellTypes'
    BY <1>1, <2>1 DEF ShellInv, ShellTypes
  <2>4. ReadsOfEnded' /\ EndsEarned' /\ KillsEnd'
    BY <1>1, <2>1, <2>2 DEF ShellInv, ReadsOfEnded, EndedAs, EndsEarned, EarnedBy, KillsEnd
  <2> QED
    BY <2>2, <2>3, <2>4 DEF ShellInv
<1> QED
  BY <1>2, <1>3

LEMMA KillAnsweredStep ==
    ASSUME Shelled, ShellInv, Bg!KillAnswered
    PROVE  ShellInv'
<1>1. /\ killing # 0 /\ killing' = 0
      /\ shellRec' = [m \in Shells |-> IF m \in Bg!Marked(killing) THEN Bg!EndBg(shellRec[m], "asked", FALSE) ELSE shellRec[m]]
      /\ UNCHANGED <<shell, log, hooks, isOver, asksPorts, logReads, asked, unnamed>>
  BY DEF Bg!KillAnswered
<1>2. shell[killing] = "killed" /\ logReads = {} /\ asked = 0 /\ killing \in Shells
  BY <1>1 DEF ShellInv, ShellTypes, KillsEnd
<1>3. \A m \in Shells : /\ shellRec[m] \in RecT /\ shellRec'[m] \in RecT /\ shellRec'[m].url = shellRec[m].url
                        /\ shellRec[m].why # "" \/ shellRec[m].url # killing => shellRec'[m] = shellRec[m]
                        /\ shellRec[m].why = "" /\ shellRec[m].url = killing => shellRec'[m].why = "asked" /\ ~ shellRec'[m].red
  <2> SUFFICES ASSUME NEW m \in Shells
               PROVE  /\ shellRec[m] \in RecT /\ shellRec'[m] \in RecT /\ shellRec'[m].url = shellRec[m].url
                      /\ shellRec[m].why # "" \/ shellRec[m].url # killing => shellRec'[m] = shellRec[m]
                      /\ shellRec[m].why = "" /\ shellRec[m].url = killing => shellRec'[m].why = "asked" /\ ~ shellRec'[m].red
    OBVIOUS
  <2>1. shellRec[m] \in RecT
    BY DEF ShellInv, ShellTypes
  <2>2. m \in Bg!Marked(killing) <=> shellRec[m].why = "" /\ shellRec[m].url = killing
    BY DEF Bg!Marked, Bg!Live
  <2>3. /\ Bg!EndBg(shellRec[m], "asked", FALSE) \in RecT /\ Bg!EndBg(shellRec[m], "asked", FALSE).url = shellRec[m].url
    BY <2>1 DEF Bg!EndBg, RecT
  <2>4. shellRec[m].why = "" => Bg!EndBg(shellRec[m], "asked", FALSE).why = "asked" /\ Bg!EndBg(shellRec[m], "asked", FALSE).red = FALSE
    BY <2>1 DEF Bg!EndBg, RecT
  <2>5. shellRec'[m] = IF m \in Bg!Marked(killing) THEN Bg!EndBg(shellRec[m], "asked", FALSE) ELSE shellRec[m]
    BY <1>1
  <2> QED
    BY <2>1, <2>2, <2>3, <2>4, <2>5
<1>4. HooksInOrder' /\ LinesTell' /\ \A h : Reported(h)' <=> Reported(h)
  <2>1. \A m \in Shells : shellRec[m] = Bg!None => shellRec'[m] = Bg!None
    BY <1>3, BlankRecords
  <2> QED
    BY <1>1, <2>1, RecordsMove
<1>5. ShellTypes'
  <2>1. shellRec' \in [Shells -> RecT]
    BY <1>1, <1>3
  <2> QED
    BY <1>1, <2>1 DEF ShellInv, ShellTypes
<1>6. ReadsOfEnded'
  BY <1>1, <1>2 DEF ReadsOfEnded
<1>7. EndsEarned'
  <2> SUFFICES ASSUME NEW m \in Shells
               PROVE  EarnedBy(m)'
    BY DEF EndsEarned
  <2>1. EarnedBy(m)
    BY DEF ShellInv, EndsEarned
  <2>2. CASE shellRec[m].why # "" \/ shellRec[m].url # killing
    BY <1>1, <1>3, <2>1, <2>2 DEF EarnedBy, EndedAs
  <2>3. CASE shellRec[m].why = "" /\ shellRec[m].url = killing
    <3>1. shellRec'[m].why = "asked" /\ ~ shellRec'[m].red /\ shellRec'[m].url = killing
      BY <1>3, <2>3
    <3>2. shell'[m] # "up" \/ shellRec'[m].url \notin {0, m}
      BY <1>1, <1>2, <3>1
    <3> QED
      BY <3>1, <3>2 DEF EarnedBy, EndedAs
  <2> QED
    BY <2>2, <2>3
<1>8. KillsEnd'
  <2>1. \A m \in Shells : shellRec[m].why # "" \/ (killing = m /\ shellRec[m].url = m) => shellRec'[m].why # ""
    BY <1>3
  <2> QED
    BY <1>1, <1>4, <2>1 DEF ShellInv, KillsEnd
<1> QED
  BY <1>4, <1>5, <1>6, <1>7, <1>8 DEF ShellInv

\* The window takes one report: a record begins, or ends as asked, or every one ends with the pane.
LEMMA HookStep ==
    ASSUME Shelled, ShellInv, Bg!Hook
    PROVE  ShellInv'
<1>1. /\ hooks # <<>> /\ hooks' = Tail(hooks)
      /\ UNCHANGED <<shell, log, asksPorts, logReads, asked, killing, unnamed>>
  BY DEF Bg!Hook
<1>2. hooks \in Seq(HookT) /\ ~ isOver
  BY <1>1 DEF ShellInv, ShellTypes, HooksInOrder
<1>p. /\ hooks' \in Seq(HookT) /\ Head(hooks) = hooks[1] /\ 1 \in DOMAIN hooks /\ Head(hooks) \in HookT
      /\ Len(hooks) \in Nat /\ Len(hooks') = Len(hooks) - 1 /\ (Len(hooks) = 1 => hooks' = <<>>)
      /\ \A i \in DOMAIN hooks' : i \in Nat /\ i >= 1 /\ i + 1 \in DOMAIN hooks /\ hooks'[i] = hooks[i + 1]
      /\ \A x : Reported(x)' => Reported(x)
  BY <1>1, <1>2, HookTaken
<1>h. /\ \A m \in Shells : Reported(<<"start", m>>) => shellRec[m] = Bg!None /\ shell[m] # ""
      /\ \A m \in Shells : Reported(<<"stop", m>>) => shell[m] = "stopped"
      /\ \A i, j \in DOMAIN hooks : \A m \in Shells : hooks[i] = <<"start", m>> /\ hooks[j] = <<"start", m>> => i = j
      /\ \A i \in DOMAIN hooks : hooks[i] = <<"exit", 0>> => i = Len(hooks)
  BY DEF ShellInv, HooksInOrder
<1>q. /\ \A i, j \in DOMAIN hooks' : \A m \in Shells : hooks'[i] = <<"start", m>> /\ hooks'[j] = <<"start", m>> => i = j
      /\ \A i \in DOMAIN hooks' : hooks'[i] = <<"exit", 0>> => i = Len(hooks')
  <2>1. ASSUME NEW i \in DOMAIN hooks', NEW j \in DOMAIN hooks', NEW m \in Shells,
               hooks'[i] = <<"start", m>>, hooks'[j] = <<"start", m>>
        PROVE  i = j
    <3>1. i + 1 \in DOMAIN hooks /\ j + 1 \in DOMAIN hooks /\ hooks[i + 1] = <<"start", m>> /\ hooks[j + 1] = <<"start", m>>
      BY <2>1, <1>p
    <3>2. i + 1 = j + 1
      BY <3>1, <1>h
    <3> QED
      BY <3>2, <1>p
  <2>2. ASSUME NEW i \in DOMAIN hooks', hooks'[i] = <<"exit", 0>>
        PROVE  i = Len(hooks')
    <3>1. i + 1 \in DOMAIN hooks /\ hooks[i + 1] = <<"exit", 0>>
      BY <2>2, <1>p
    <3>2. i + 1 = Len(hooks)
      BY <3>1, <1>h
    <3> QED
      BY <3>2, <1>p
  <2> QED
    BY <2>1, <2>2
<1>r. \A m \in Shells : shellRec[m] \in RecT /\ EarnedBy(m)
  BY DEF ShellInv, ShellTypes, EndsEarned
<1>k. Reported(Head(hooks))
  BY <1>p DEF Reported
<1>b. \* What any change of the records needs to keep: a record that begins is of a shell whose start was this report.
      ASSUME shellRec' \in [Shells -> RecT],
             \A m \in Shells : \/ shellRec'[m] = shellRec[m]
                               \/ Head(hooks) = <<"start", m>> /\ shellRec'[m] = Bg!Blank
                               \/ /\ shellRec[m].why = "" /\ shellRec'[m].url = shellRec[m].url /\ shellRec'[m].red = FALSE
                                  /\ shellRec'[m].why = "session" \/ (shellRec'[m].why = "asked" /\ shell[m] = "stopped"),
             isOver' => hooks' = <<>> /\ \A m \in Shells : shellRec'[m].why # ""
      PROVE  ShellInv'
  <2>1. ShellTypes'
    BY <1>1, <1>b, <1>p DEF ShellInv, ShellTypes
  <2>2. \A m \in Shells : Head(hooks) = <<"start", m>> => ~ Reported(<<"start", m>>)'
    <3> SUFFICES ASSUME NEW m \in Shells, Head(hooks) = <<"start", m>>, NEW i \in DOMAIN hooks', hooks'[i] = <<"start", m>>
                 PROVE  FALSE
      BY DEF Reported
    <3>1. i + 1 \in DOMAIN hooks /\ hooks[i + 1] = <<"start", m>> /\ hooks[1] = <<"start", m>> /\ 1 \in DOMAIN hooks
      BY <1>p
    <3>2. i + 1 = 1
      BY <3>1, <1>h
    <3> QED
      BY <3>2, <1>p
  <2>n. \A m \in Shells : shellRec[m] = Bg!None => shellRec'[m] = Bg!None \/ Head(hooks) = <<"start", m>>
    BY <1>b, BlankRecords
  <2>s. \A m \in Shells : Head(hooks) = <<"start", m>> => Reported(<<"start", m>>) /\ shellRec[m] = Bg!None /\ shell[m] # ""
    BY <1>h, <1>k
  <2>3. HooksInOrder'
    <3>1. \A m \in Shells : Reported(<<"start", m>>)' => shellRec'[m] = Bg!None /\ shell'[m] # ""
      <4> SUFFICES ASSUME NEW m \in Shells, Reported(<<"start", m>>)'
                   PROVE  shellRec'[m] = Bg!None /\ shell'[m] # ""
        OBVIOUS
      <4>1. shellRec[m] = Bg!None /\ shell[m] # "" /\ Head(hooks) # <<"start", m>>
        BY <1>p, <1>h, <2>2
      <4> QED
        BY <4>1, <2>n, <1>1
    <3>2. \A m \in Shells : Reported(<<"stop", m>>)' => shell'[m] = "stopped"
      BY <1>1, <1>p, <1>h
    <3> QED
      BY <1>b, <1>q, <3>1, <3>2 DEF HooksInOrder
  <2>4. LinesTell'
    <3>1. \A m \in Shells : Says(log[m], m)' /\ (shell'[m] = "" => shellRec'[m] = Bg!None)
      BY <1>1, <2>n, <2>s DEF ShellInv, LinesTell, Says
    <3>2. \A g \in logReads : Says(g[2], g[1])' /\ ~ Reported(<<"start", g[1]>>)' /\ shell'[g[1]] # ""
      BY <1>1, <1>p DEF ShellInv, LinesTell, Says
    <3> QED
      BY <1>1, <3>1, <3>2 DEF LinesTell
  <2>5. ReadsOfEnded'
    <3> SUFFICES ASSUME NEW g \in logReads, EndedAs(shellRec'[g[1]])
                 PROVE  shell[g[1]] # "up"
      BY <1>1 DEF ReadsOfEnded, EndedAs
    <3>1. g[1] \in Shells /\ (EndedAs(shellRec[g[1]]) => shell[g[1]] # "up")
      BY DEF ShellInv, ShellTypes, ReadsOfEnded
    <3> QED
      BY <1>b, <3>1, BlankRecords DEF EndedAs
  <2>6. EndsEarned'
    <3> SUFFICES ASSUME NEW m \in Shells
                 PROVE  EarnedBy(m)'
      BY DEF EndsEarned
    <3>1. shellRec'[m].red => shell[m] = "failed" \/ m \in unnamed
      BY <1>b, <1>r, BlankRecords DEF EarnedBy
    <3>2. EndedAs(shellRec'[m]) => shell[m] # "up" \/ shellRec'[m].url \notin {0, m}
      BY <1>b, <1>r, BlankRecords DEF EarnedBy, EndedAs
    <3>3. isOver' => shellRec'[m].why # ""
      BY <1>b
    <3> QED
      BY <1>1, <3>1, <3>2, <3>3 DEF EarnedBy, EndedAs
  <2>7. KillsEnd'
    <3>1. \A m \in Shells : shell[m] = "killed" /\ m \notin unnamed =>
             ~ Reported(<<"start", m>>) /\ (shellRec[m].why # "" \/ (killing = m /\ shellRec[m].url = m))
      BY DEF ShellInv, KillsEnd
    <3>2. \A m \in Shells : shell[m] = "killed" /\ m \notin unnamed =>
             shellRec'[m].why # "" \/ (killing = m /\ shellRec'[m].url = m)
      <4> SUFFICES ASSUME NEW m \in Shells, shell[m] = "killed", m \notin unnamed
                   PROVE  shellRec'[m].why # "" \/ (killing = m /\ shellRec'[m].url = m)
        OBVIOUS
      <4>1. Head(hooks) # <<"start", m>> /\ (shellRec[m].why # "" \/ (killing = m /\ shellRec[m].url = m))
        BY <2>s, <3>1
      <4>2. \/ shellRec'[m] = shellRec[m]
            \/ shellRec'[m].why \in {"session", "asked"}
        BY <1>b, <4>1
      <4> QED
        BY <4>1, <4>2
    <3>3. \A m \in Shells : shell[m] = "killed" /\ m \notin unnamed => ~ Reported(<<"start", m>>)'
      BY <1>p, <3>1
    <3> QED
      BY <1>1, <3>2, <3>3 DEF ShellInv, KillsEnd
  <2> QED
    BY <2>1, <2>3, <2>4, <2>5, <2>6, <2>7 DEF ShellInv
<1>3. CASE \E n \in Shells : Head(hooks) = <<"start", n>>
  <2>1. PICK n \in Shells : Head(hooks) = <<"start", n>>
    BY <1>3
  <2>2. Head(hooks)[1] = "start" /\ Head(hooks)[2] = n
    BY <2>1
  <2>3. shellRec' = [shellRec EXCEPT ![n] = Bg!Blank] /\ ~ isOver'
    BY <2>2, <1>2 DEF Bg!Hook
  <2>4. shellRec' \in [Shells -> RecT] /\ \A m \in Shells : shellRec'[m] = IF m = n THEN Bg!Blank ELSE shellRec[m]
    BY <2>3, BlankRecords DEF ShellInv, ShellTypes
  <2> QED
    BY <2>1, <2>3, <2>4, <1>b
<1>4. CASE \E n \in Shells : Head(hooks) = <<"stop", n>>
  <2>1. PICK n \in Shells : Head(hooks) = <<"stop", n>>
    BY <1>4
  <2>2. Head(hooks)[1] = "stop" /\ Head(hooks)[2] = n
    BY <2>1
  <2>3. shellRec' = [shellRec EXCEPT ![n] = Bg!EndBg(shellRec[n], "asked", FALSE)] /\ ~ isOver'
    BY <2>2, <1>2 DEF Bg!Hook
  <2>4. shell[n] = "stopped"
    BY <2>1, <1>k, <1>h
  <2>5. /\ Bg!EndBg(shellRec[n], "asked", FALSE) \in RecT /\ Bg!EndBg(shellRec[n], "asked", FALSE).url = shellRec[n].url
        /\ shellRec[n].why = "" => Bg!EndBg(shellRec[n], "asked", FALSE).why = "asked" /\ Bg!EndBg(shellRec[n], "asked", FALSE).red = FALSE
        /\ shellRec[n].why # "" => Bg!EndBg(shellRec[n], "asked", FALSE) = shellRec[n]
    BY <1>r, RecordsEnd
  <2>6. shellRec' \in [Shells -> RecT] /\ \A m \in Shells : shellRec'[m] = IF m = n THEN Bg!EndBg(shellRec[n], "asked", FALSE) ELSE shellRec[m]
    BY <2>3, <2>5 DEF ShellInv, ShellTypes
  <2> QED
    BY <2>3, <2>4, <2>5, <2>6, <1>b
<1>5. CASE Head(hooks) = <<"exit", 0>>
  <2>2. Head(hooks)[1] = "exit" /\ Head(hooks)[2] = 0
    BY <1>5
  <2>3. shellRec' = [m \in Shells |-> Bg!EndBg(shellRec[m], "session", FALSE)] /\ isOver'
    BY <2>2 DEF Bg!Hook
  <2>4. hooks' = <<>>
    BY <1>5, <1>p, <1>h
  <2>5. \A m \in Shells :
           /\ shellRec'[m] \in RecT /\ shellRec'[m].url = shellRec[m].url /\ shellRec'[m].why # ""
           /\ shellRec[m].why = "" => shellRec'[m].why = "session" /\ shellRec'[m].red = FALSE
           /\ shellRec[m].why # "" => shellRec'[m] = shellRec[m]
    <3> SUFFICES ASSUME NEW m \in Shells
                 PROVE  /\ shellRec'[m] \in RecT /\ shellRec'[m].url = shellRec[m].url /\ shellRec'[m].why # ""
                        /\ shellRec[m].why = "" => shellRec'[m].why = "session" /\ shellRec'[m].red = FALSE
                        /\ shellRec[m].why # "" => shellRec'[m] = shellRec[m]
      OBVIOUS
    <3>1. shellRec'[m] = Bg!EndBg(shellRec[m], "session", FALSE)
      BY <2>3
    <3>2. /\ Bg!EndBg(shellRec[m], "session", FALSE) \in RecT /\ Bg!EndBg(shellRec[m], "session", FALSE).url = shellRec[m].url
          /\ shellRec[m].why = "" => Bg!EndBg(shellRec[m], "session", FALSE).why = "session" /\ Bg!EndBg(shellRec[m], "session", FALSE).red = FALSE
          /\ shellRec[m].why # "" => Bg!EndBg(shellRec[m], "session", FALSE) = shellRec[m]
      BY <1>r, RecordsEnd
    <3> QED
      BY <3>1, <3>2
  <2>6. shellRec' \in [Shells -> RecT]
    BY <2>3, <2>5
  <2> QED
    BY <2>4, <2>5, <2>6, <1>b
<1> QED
  BY <1>p, <1>3, <1>4, <1>5 DEF HookT

\* Steps of the background shells keep all of it.
LEMMA ShellSteps ==
    ASSUME Shelled, ShellInv, [Bg!Next]_(Bg!svvars)
    PROVE  ShellInv'
<1>1. ASSUME NEW n \in Shells, Bg!Start(n) \/ Bg!Writes(n) \/ Bg!Stops(n) \/ Bg!ReadLog(n) \/ Bg!AskKill(n) \/ Bg!Forget(n)
      PROVE  ShellInv'
  BY <1>1, StartStep, WritesStep, StopsStep, ReadLogStep, AskKillStep, ForgetStep
<1>2. ASSUME NEW n \in Shells, NEW how \in {"failed", "finished"}, Bg!Exits(n, how)
      PROVE  ShellInv'
  BY <1>2, ExitsStep
<1>3. CASE Bg!AgentExits \/ Bg!Hook \/ Bg!PollPorts \/ Bg!PortsAnswered \/ Bg!LogAnswered \/ Bg!KillPort \/ Bg!KillAnswered
  BY <1>3, AgentExitsStep, HookStep, PollPortsStep, PortsAnsweredStep, LogAnsweredStep, KillPortStep, KillAnsweredStep
<1>4. CASE UNCHANGED Bg!svvars
  <2>1. UNCHANGED <<shell, log, hooks, isOver, shellRec, asksPorts, logReads, asked, killing, unnamed>>
    BY <1>4 DEF Bg!svvars
  <2>2. HooksInOrder' /\ LinesTell' /\ \A h : Reported(h)' <=> Reported(h)
    BY <2>1, RecordsMove
  <2>3. ShellTypes'
    BY <2>1 DEF ShellInv, ShellTypes
  <2>4. ReadsOfEnded' /\ EndsEarned' /\ KillsEnd'
    BY <2>1, <2>2 DEF ShellInv, ReadsOfEnded, EndedAs, EndsEarned, EarnedBy, KillsEnd
  <2> QED
    BY <2>2, <2>3, <2>4 DEF ShellInv
<1> QED
  BY <1>1, <1>2, <1>3, <1>4 DEF Bg!Next

LEMMA EarnedEnds == ShellInv => Bg!EndsAreEarned
BY DEF ShellInv, EndsEarned, EarnedBy, EndedAs, Bg!EndsAreEarned

\* When no poll is answered while a kill is under way, a record's end is what became of its shell: red only for one
\* that failed by itself or that was killed by a port its record had not named, "stopped" or "done" never for one that
\* runs on, unless its row had adopted another's port; and once the pane's exit is handled none is left that looks
\* alive (bgHook, applyBgLog, applyBgMiss, markKilled, reconcilePorts, endBg).
THEOREM EndsEarnedAlways == Shelled => (Bg!Spec => []Bg!EndsAreEarned)
<1> SUFFICES ASSUME Shelled
             PROVE  Bg!Spec => []Bg!EndsAreEarned
  OBVIOUS
<1>1. Bg!Init => ShellInv
  BY ShellsBegin
<1>2. ShellInv /\ [Bg!Next]_(Bg!svvars) => ShellInv'
  BY ShellSteps
<1>3. ShellInv => Bg!EndsAreEarned
  BY EarnedEnds
<1> QED
  BY <1>1, <1>2, <1>3, PTL DEF Bg!Spec

-----------------------------------------------------------------------------
(* The review of uncommitted work (DiffView).                               *)

CONSTANTS Folders, DiffFiles, Calm, DiffActs
VARIABLES
    diffDisk, diffMade, stack, diffEdits, kept, given, diffOpen, dir, diffGen, diffView, drawn,
    diffShown, stashes, picked, workRead, box, diffDrafts, unsaid, diffReads, diffAsked, diffJob, dvActs
Df == INSTANCE DiffView WITH Files <- DiffFiles, Acts <- DiffActs, disk <- diffDisk, made <- diffMade, edits <- diffEdits, open <- diffOpen, gen <- diffGen, view <- diffView, shown <- diffShown, drafts <- diffDrafts, reads <- diffReads, asked <- diffAsked, job <- diffJob

Calmly == Calm = TRUE /\ IsFiniteSet(Folders)

Edits == [DiffFiles -> Nat]
MadeIds == 1 .. Len(diffMade)
Screens == [kind : {"none", "work", "stash", "list"}, of : Folders \cup {Nowhere}, files : Edits, ids : SUBSET MadeIds, controls : BOOLEAN]
Readings == [kind : {"work", "stash", "list", "count"}, dir : Folders, gen : 0 .. diffGen, id : 0 .. Len(diffMade),
             answered : BOOLEAN, value : Screens]
Verbs == {"commit", "push", "discard", "hunk", "apply", "pop", "drop"}
Jobs == [verb : Verbs, dir : Folders, files : SUBSET DiffFiles, id : Nat, text : Nat, at : Nat,
         stage : {"called", "found", "done", "refused"}, sure : SUBSET ((Folders \cup {Nowhere}) \X DiffFiles)]

GitTypes ==
    /\ diffDisk \in [Folders -> Edits] /\ diffMade \in Seq(Edits) /\ stack \in Seq(MadeIds) /\ diffEdits \in Nat
BoxTypes == box \in Nat /\ diffDrafts \in [Folders -> Nat] /\ unsaid \in [Folders -> Nat] /\ dvActs \in Nat
JobTypes == diffAsked \in Jobs \cup {Df!NoJob} /\ diffJob \in Jobs \cup {Df!NoJob}

\* What may be written on is the folder's own reading, and what the newest question will bring is too.
DrawnHere ==
    /\ drawn.kind = "work" => drawn.of = dir
    /\ drawn.controls => drawn.kind = "work"
ReadsHere == \A r \in diffReads :
    /\ r.gen = diffGen /\ r.kind # "count" => r.dir = dir
    /\ r.answered /\ r.kind = "work" => r.value.kind = "work" /\ r.value.of = r.dir
    /\ r.answered /\ r.kind # "work" => r.value.kind \in {"stash", "list"} /\ ~ r.value.controls
    /\ r.kind = "stash" => r.id \in MadeIds
\* What a discard takes the person was shown.
Sure(j) ==
    /\ j.verb = "discard" => {j.dir} \X j.files \subseteq j.sure
    /\ j.verb = "hunk" => j.sure # {}
AskedFits == diffAsked # Df!NoJob => diffAsked.dir = dir /\ diffAsked.verb \in {"discard", "hunk", "drop"} /\ diffAsked.stage = "called" /\ Sure(diffAsked)
JobFits == diffJob # Df!NoJob =>
    /\ Sure(diffJob)
    /\ diffJob.stage = "found" => diffJob.at \in DOMAIN stack /\ stack[diffJob.at] = diffJob.id
    /\ diffJob.verb = "commit" => diffJob.dir = dir /\ unsaid[dir] = diffJob.text

\* Where an edit is.
Safe(i) ==
    \/ i \in kept \/ i \in given
    \/ \E e \in Folders, y \in DiffFiles : diffDisk[e][y] = i
    \/ \E k \in DOMAIN stack, y \in DiffFiles : diffMade[stack[k]][y] = i
AllSafe == \A i \in 1 .. diffEdits : Safe(i)

GitFits == GitTypes /\ AllSafe
ScreenFits ==
    /\ diffGen \in Nat /\ drawn \in Screens /\ diffShown \in Nat /\ diffReads \subseteq Readings
    /\ DrawnHere /\ ReadsHere
PickFits == diffOpen \in BOOLEAN /\ dir \in Folders /\ stashes \subseteq MadeIds /\ picked \subseteq DiffFiles
BoxFits == BoxTypes /\ Df!DraftsStay
JobsFit == JobTypes /\ AskedFits /\ JobFits
DiffInv == GitFits /\ ScreenFits /\ PickFits /\ BoxFits /\ JobsFit

LEMMA NumbersAll ==
    ASSUME Calmly
    PROVE  /\ Df!Cardinality(Folders) \in Nat
           /\ Df!Numbers \in [Folders -> 1 .. Df!Cardinality(Folders)]
           /\ \A i \in 1 .. Df!Cardinality(Folders) : \E e \in Folders : Df!Numbers[e] = i
<1> DEFINE n == Cardinality(Folders)
<1>1. n \in Nat /\ ExistsBijection(1 .. n, Folders)
  BY FS_CardinalityType DEF Calmly
<1>2. PICK f \in Bijection(1 .. n, Folders) : TRUE
  BY <1>1 DEF ExistsBijection
<1>3. f \in [1 .. n -> Folders] /\ (\A a, b \in 1 .. n : f[a] = f[b] => a = b) /\ \A e \in Folders : \E a \in 1 .. n : f[a] = e
  BY <1>2 DEF Bijection, Injection, Surjection, IsInjective
<1>4. Df!Cardinality(Folders) = n
  BY DEF Df!Cardinality, Cardinality, Df!IsFiniteSet, IsFiniteSet
<1> HIDE DEF n
<1> DEFINE g == [e \in Folders |-> CHOOSE a \in 1 .. n : f[a] = e]
<1>5. g \in [Folders -> 1 .. n] /\ \A a \in 1 .. n : g[f[a]] = a
  BY <1>3
<1>6. g \in [Folders -> 1 .. n] /\ \A a \in 1 .. n : \E e \in Folders : g[e] = a
  BY <1>3, <1>5
<1> QED
  BY <1>1, <1>4, <1>6 DEF Df!Numbers

LEMMA SafeIsKept ==
    ASSUME diffEdits \in Nat, AllSafe
    PROVE  Df!NothingElseIsLost
<1> DEFINE OnDisk == UNION {Df!On(d, DiffFiles) : d \in Folders}
           Stashed == UNION {Df!Held(id) : id \in Df!Ids}
<1> SUFFICES ASSUME NEW i \in 1 .. diffEdits
             PROVE  i \in kept \/ i \in given \/ i \in OnDisk \/ i \in Stashed
  BY DEF Df!NothingElseIsLost
<1>1. Safe(i) /\ i # 0
  BY DEF AllSafe
<1>2. ASSUME NEW e \in Folders, NEW y \in DiffFiles, diffDisk[e][y] = i
      PROVE  i \in OnDisk
  BY <1>1, <1>2 DEF Df!On
<1>3. ASSUME NEW k \in DOMAIN stack, NEW y \in DiffFiles, diffMade[stack[k]][y] = i
      PROVE  i \in Stashed
  BY <1>1, <1>3 DEF Df!Held, Df!Ids
<1> HIDE DEF OnDisk, Stashed
<1> QED
  BY <1>1, <1>2, <1>3 DEF Safe

LEMMA DiffBegins ==
    ASSUME Calmly, Df!Init
    PROVE  DiffInv
<1>1. PICK d \in Folders, x \in DiffFiles :
        /\ diffDisk = [e \in Folders |-> [Df!Clean EXCEPT ![x] = Df!Numbers[e]]]
        /\ diffEdits = Df!Cardinality(Folders) + 1
        /\ diffMade = <<[y \in DiffFiles |-> IF y = x /\ DiffFiles # {x} THEN 0 ELSE diffEdits]>> /\ stack = <<1>>
        /\ kept = {} /\ given = {} /\ diffOpen = TRUE /\ dir = d /\ diffGen = 1 /\ diffView = "work"
        /\ drawn = Df!Work(d) /\ diffShown = 0 /\ stashes = Df!Ids /\ picked = {x} /\ workRead = TRUE
        /\ box = 0 /\ diffDrafts = [e \in Folders |-> 0] /\ unsaid = diffDrafts
        /\ diffReads = {} /\ diffAsked = Df!NoJob /\ diffJob = Df!NoJob /\ dvActs = 0
  BY DEF Df!Init
<1>2. /\ Df!Cardinality(Folders) \in Nat
      /\ Df!Numbers \in [Folders -> 1 .. Df!Cardinality(Folders)]
      /\ \A i \in 1 .. Df!Cardinality(Folders) : \E e \in Folders : Df!Numbers[e] = i
  BY NumbersAll DEF Calmly
<1>3. Df!Ids = {1} /\ Len(diffMade) = 1 /\ MadeIds = {1}
  BY <1>1 DEF Df!Ids, MadeIds
<1>4. GitTypes
  BY <1>1, <1>2, <1>3 DEF GitTypes, Edits, Df!Clean
<1>5. drawn \in Screens
  BY <1>1, <1>4 DEF Screens, Df!Work, GitTypes
<1>8. PickFits /\ BoxTypes /\ JobTypes /\ diffGen \in Nat /\ diffShown \in Nat /\ diffReads \subseteq Readings
  BY <1>1, <1>3 DEF PickFits, BoxTypes, JobTypes
<1>6. DrawnHere /\ ReadsHere /\ AskedFits /\ JobFits /\ Df!DraftsStay
  BY <1>1 DEF DrawnHere, ReadsHere, AskedFits, JobFits, Df!DraftsStay, Df!Work
<1>7. AllSafe
  <2> SUFFICES ASSUME NEW i \in 1 .. diffEdits
               PROVE  Safe(i)
    BY DEF AllSafe
  <2>1. CASE i = diffEdits
    <3>1. PICK y \in DiffFiles : y = x => DiffFiles = {x}
      OBVIOUS
    <3>2. diffMade[1][y] = i /\ stack[1] = 1 /\ 1 \in DOMAIN stack
      BY <1>1, <3>1, <2>1
    <3> QED
      BY <3>2 DEF Safe
  <2>2. CASE i # diffEdits
    <3>1. i \in 1 .. Df!Cardinality(Folders)
      <4>1. diffEdits = Df!Cardinality(Folders) + 1
        BY <1>1
      <4> QED
        BY <4>1, <2>2, <1>2
    <3>2. PICK e \in Folders : Df!Numbers[e] = i
      BY <1>2, <3>1
    <3>3. diffDisk[e][x] = i
      BY <1>1, <3>2 DEF Df!Clean
    <3> QED
      BY <3>3 DEF Safe
  <2> QED
    BY <2>1, <2>2
<1> QED
  BY <1>4, <1>5, <1>6, <1>7, <1>8 DEF DiffInv, GitFits, ScreenFits, BoxFits, JobsFit

-----------------------------------------------------------------------------
LEMMA GitStands ==
    ASSUME GitFits, UNCHANGED Df!git
    PROVE  GitFits' /\ Len(diffMade') = Len(diffMade) /\ DOMAIN stack' = DOMAIN stack
BY DEF GitFits, Df!git, GitTypes, AllSafe, Safe, MadeIds, Edits

\* While the drawing, the readings and the folder stand, they fit.
LEMMA ScreenStands ==
    ASSUME ScreenFits, UNCHANGED <<diffMade, dir, diffGen, drawn, diffShown, diffReads>>
    PROVE  ScreenFits'
BY DEF ScreenFits, Screens, Readings, MadeIds, Edits, DrawnHere, ReadsHere

LEMMA BlankFits == Df!Blank \in Screens
BY DEF Df!Blank, Screens, Edits, Df!Clean

LEMMA ReadFits ==
    ASSUME NEW kind \in {"work", "stash", "list", "count"}, NEW d \in Folders, NEW g \in 0 .. diffGen, NEW id \in 0 .. Len(diffMade)
    PROVE  /\ Df!Read(kind, d, g, id) \in Readings /\ ~ Df!Read(kind, d, g, id).answered
           /\ Df!Read(kind, d, g, id).kind = kind /\ Df!Read(kind, d, g, id).dir = d
           /\ Df!Read(kind, d, g, id).gen = g /\ Df!Read(kind, d, g, id).id = id
BY BlankFits DEF Df!Read, Readings

\* A new question is the only one with its number.
LEMMA NewRead ==
    ASSUME ScreenFits, UNCHANGED diffMade, Len(diffMade) \in Nat, diffGen' = diffGen + 1, dir' \in Folders,
           NEW kind \in {"work", "stash", "list"}, NEW id \in 0 .. Len(diffMade), kind = "stash" => id \in MadeIds,
           NEW more, \A r \in more : r \in Readings /\ r.kind = "count" /\ ~ r.answered,
           diffReads' = diffReads \cup {Df!Read(kind, dir', diffGen + 1, id)} \cup more
    PROVE  diffReads' \subseteq Readings' /\ ReadsHere'
<1> DEFINE new == Df!Read(kind, dir', diffGen + 1, id)
<1>1. new \in Readings' /\ ~ new.answered /\ new.kind = kind /\ new.dir = dir' /\ new.gen = diffGen + 1 /\ new.id = id
  BY DEF ScreenFits, Df!Read, Readings, Screens, Df!Blank, Edits, Df!Clean, MadeIds
<1>2. \A r \in Readings : r \in Readings' /\ r.gen # diffGen'
  BY DEF ScreenFits, Readings, Screens, MadeIds
<1>3. diffReads' \subseteq Readings'
  BY <1>1, <1>2 DEF ScreenFits
<1>4. ASSUME NEW r \in diffReads'
      PROVE  /\ r.gen = diffGen' /\ r.kind # "count" => r.dir = dir'
             /\ r.answered /\ r.kind = "work" => r.value.kind = "work" /\ r.value.of = r.dir
             /\ r.answered /\ r.kind # "work" => r.value.kind \in {"stash", "list"} /\ ~ r.value.controls
             /\ r.kind = "stash" => r.id \in MadeIds'
  <2>0. r \in diffReads \/ r = new \/ r \in more
    BY <1>4
  <2>1. CASE r = new
    BY <2>1, <1>1 DEF MadeIds
  <2>2. CASE r \in diffReads
    BY <2>2, <1>2 DEF ScreenFits, ReadsHere, MadeIds
  <2>3. CASE r \in more
    BY <2>3
  <2> QED
    BY <2>0, <2>1, <2>2, <2>3
<1> QED
  BY <1>3, <1>4 DEF ReadsHere

LEMMA LoadWorkFits ==
    ASSUME ScreenFits, UNCHANGED diffMade, Len(diffMade) \in Nat, dir' \in Folders,
           NEW again, again => dir' = dir,
           NEW more, \A r \in more : r \in Readings /\ r.kind = "count" /\ ~ r.answered,
           Df!LoadWork(dir', again, more)
    PROVE  ScreenFits'
<1>1. diffReads' \subseteq Readings' /\ ReadsHere'
  <2>1. diffReads' = diffReads \cup {Df!Read("work", dir', diffGen + 1, 0)} \cup more /\ diffGen' = diffGen + 1 /\ 0 \in 0 .. Len(diffMade)
    BY DEF Df!LoadWork
  <2> QED
    BY <2>1, NewRead
<1>2. drawn' \in Screens' /\ DrawnHere'
  BY BlankFits DEF Df!LoadWork, Df!Stays, ScreenFits, Screens, MadeIds, DrawnHere, Df!Blank
<1> QED
  BY <1>1, <1>2 DEF ScreenFits, Df!LoadWork

LEMMA ShowStashesFits ==
    ASSUME ScreenFits, UNCHANGED diffMade, Len(diffMade) \in Nat, dir' \in Folders, Df!ShowStashes(dir')
    PROVE  ScreenFits'
<1>1. diffReads' \subseteq Readings' /\ ReadsHere'
  <2> DEFINE more == {}
  <2>1. /\ diffReads' = diffReads \cup {Df!Read("list", dir', diffGen + 1, 0)} \cup more /\ diffGen' = diffGen + 1 /\ 0 \in 0 .. Len(diffMade)
        /\ \A r \in more : r \in Readings /\ r.kind = "count" /\ ~ r.answered
    BY DEF Df!ShowStashes
  <2> HIDE DEF more
  <2> QED
    BY <2>1, NewRead
<1>2. drawn' \in Screens' /\ DrawnHere'
  BY BlankFits DEF Df!ShowStashes, ScreenFits, Screens, MadeIds, DrawnHere, Df!Blank
<1> QED
  BY <1>1, <1>2 DEF ScreenFits, Df!ShowStashes

LEMMA ShowStashFits ==
    ASSUME ScreenFits, UNCHANGED <<diffMade, dir>>, Len(diffMade) \in Nat, dir \in Folders, stashes \subseteq MadeIds,
           NEW id, Df!ShowStash(id)
    PROVE  ScreenFits'
<1>1. CASE id \in stashes
  <2>0. id \in MadeIds /\ id \in 0 .. Len(diffMade) /\ id \in Nat
    BY <1>1 DEF MadeIds
  <2>1. diffReads' \subseteq Readings' /\ ReadsHere'
    <3> DEFINE more == {}
    <3>1. /\ diffReads' = diffReads \cup {Df!Read("stash", dir', diffGen + 1, id)} \cup more /\ diffGen' = diffGen + 1
          /\ \A r \in more : r \in Readings /\ r.kind = "count" /\ ~ r.answered
      BY <1>1 DEF Df!ShowStash
    <3> HIDE DEF more
    <3> QED
      BY <3>1, <2>0, NewRead
  <2>2. drawn' \in Screens' /\ DrawnHere'
    BY <1>1, BlankFits DEF Df!ShowStash, ScreenFits, Screens, MadeIds, DrawnHere, Df!Blank
  <2> QED
    BY <1>1, <2>0, <2>1, <2>2 DEF ScreenFits, Df!ShowStash
<1>2. CASE id \notin stashes
  BY <1>2, ScreenStands DEF Df!ShowStash
<1> QED
  BY <1>1, <1>2

LEMMA PicksStand ==
    ASSUME PickFits, UNCHANGED <<diffMade, diffOpen, dir, stashes, picked>>
    PROVE  PickFits'
BY DEF PickFits, MadeIds
LEMMA BoxStands ==
    ASSUME BoxFits, UNCHANGED <<box, diffDrafts, unsaid, diffOpen, dir>>, dvActs' \in Nat
    PROVE  BoxFits'
BY DEF BoxFits, BoxTypes, Df!DraftsStay
LEMMA JobsStand ==
    ASSUME JobsFit, UNCHANGED <<diffAsked, diffJob, dir, stack, unsaid>>
    PROVE  JobsFit'
BY DEF JobsFit, JobTypes, AskedFits, JobFits, Sure, Jobs
LEMMA Counts == ASSUME BoxFits, Df!Act PROVE dvActs' \in Nat
BY DEF BoxFits, BoxTypes, Df!Act
LEMMA Lengths == ASSUME GitFits PROVE Len(diffMade) \in Nat
BY DEF GitFits, GitTypes

LEMMA DiffOpens ==
    ASSUME Calmly, DiffInv, NEW d \in Folders, NEW tab \in {"work", "stashes"}, Df!OpenDiff(d, tab)
    PROVE  DiffInv'
<1> USE DEF DiffInv
<1>1. GitFits' /\ UNCHANGED diffMade
  BY GitStands DEF Df!OpenDiff, Df!git
<1>2. ScreenFits'
  <2>1. CASE tab = "stashes"
    BY <1>1, <2>1, ShowStashesFits, Lengths DEF Df!OpenDiff
  <2>2. CASE tab # "stashes"
    <3>1. Df!LoadWork(dir', FALSE, {Df!Read("count", d, diffGen, 0)}) /\ dir' \in Folders
      BY <2>2 DEF Df!OpenDiff
    <3>2. diffGen \in 0 .. diffGen /\ 0 \in 0 .. Len(diffMade)
      BY Lengths DEF ScreenFits
    <3>3. \A r \in {Df!Read("count", d, diffGen, 0)} : r \in Readings /\ r.kind = "count" /\ ~ r.answered
      BY <3>2, ReadFits
    <3> QED
      BY <1>1, <3>1, <3>3, LoadWorkFits, Lengths
  <2> QED
    BY <2>1, <2>2
<1>3. PickFits'
  BY DEF Df!OpenDiff, PickFits, MadeIds
<1>4. BoxFits'
  BY Counts DEF Df!OpenDiff, BoxFits, BoxTypes, Df!DraftsStay, Df!Person
<1>5. JobsFit'
  <2>1. diffAsked = Df!NoJob /\ diffAsked' = Df!NoJob /\ diffJob' = diffJob /\ stack' = stack /\ unsaid' = unsaid /\ (dir' # dir => diffJob = Df!NoJob)
    BY DEF Df!OpenDiff, Df!Person, Calmly, Df!Settled, Df!git
  <2> QED
    BY <2>1 DEF JobsFit, JobTypes, AskedFits, JobFits, Sure
<1> QED
  BY <1>1, <1>2, <1>3, <1>4, <1>5

LEMMA DiffCloses ==
    ASSUME DiffInv, Df!CloseDiff
    PROVE  DiffInv'
<1> USE DEF DiffInv
<1>1. GitFits' /\ JobsFit'
  BY GitStands, JobsStand DEF Df!CloseDiff, Df!git, Df!message
<1>2. ScreenFits'
  BY ScreenStands DEF Df!CloseDiff, Df!git
<1>3. PickFits' /\ BoxFits'
  BY Counts DEF Df!CloseDiff, PickFits, MadeIds, Df!git, Df!message, BoxFits, BoxTypes, Df!DraftsStay, Df!Person
<1> QED
  BY <1>1, <1>2, <1>3

LEMMA ToTabStep ==
    ASSUME DiffInv, NEW tab, Df!ToTab(tab)
    PROVE  DiffInv'
<1> USE DEF DiffInv
<1>1. GitFits' /\ JobsFit' /\ UNCHANGED diffMade
  BY GitStands, JobsStand DEF Df!ToTab, Df!git, Df!message
<1>2. ScreenFits'
  <2>1. CASE Df!LoadWork(dir, workRead, {})
    BY <1>1, <2>1, LoadWorkFits, Lengths DEF Df!ToTab, PickFits
  <2>2. CASE Df!ShowStashes(dir)
    BY <1>1, <2>2, ShowStashesFits, Lengths DEF Df!ToTab, PickFits
  <2> QED
    BY <2>1, <2>2 DEF Df!ToTab
<1>3. PickFits' /\ BoxFits'
  BY Counts, BoxStands, PicksStand, <1>1 DEF Df!ToTab, Df!message, Df!Person
<1> QED
  BY <1>1, <1>2, <1>3

LEMMA OpensStashStep ==
    ASSUME DiffInv, NEW id, Df!OpensStash(id)
    PROVE  DiffInv'
<1> USE DEF DiffInv
<1>1. GitFits' /\ JobsFit' /\ UNCHANGED diffMade
  BY GitStands, JobsStand DEF Df!OpensStash, Df!git, Df!message
<1>2. ScreenFits'
  BY <1>1, ShowStashFits, Lengths DEF Df!OpensStash, PickFits
<1>3. PickFits' /\ BoxFits'
  BY Counts, BoxStands, PicksStand, <1>1 DEF Df!OpensStash, Df!message, Df!Person
<1> QED
  BY <1>1, <1>2, <1>3

LEMMA RepaintStep ==
    ASSUME Calmly, DiffInv, Df!Repaint
    PROVE  DiffInv'
<1> USE DEF DiffInv
<1>1. GitFits' /\ JobsFit' /\ UNCHANGED diffMade
  BY GitStands, JobsStand DEF Df!Repaint, Df!git, Df!message
<1>2. ScreenFits'
  BY <1>1 DEF Df!Repaint, Calmly, ScreenFits, Screens, Readings, MadeIds, Edits, DrawnHere, ReadsHere
<1>3. PickFits' /\ BoxFits'
  BY Counts, BoxStands, PicksStand, <1>1 DEF Df!Repaint, Df!message, Df!Person
<1> QED
  BY <1>1, <1>2, <1>3

-----------------------------------------------------------------------------
(* What reading brings. *)

LEMMA ReadsStep ==
    ASSUME DiffInv, NEW r \in diffReads, Df!GitReads(r)
    PROVE  DiffInv'
<1> USE DEF DiffInv
<1>1. /\ GitFits' /\ JobsFit' /\ PickFits' /\ UNCHANGED <<diffMade, dir, diffGen, drawn, diffShown>>
  BY GitStands, JobsStand, PicksStand DEF Df!GitReads, Df!git, Df!message
<1>2. BoxFits'
  BY BoxStands DEF Df!GitReads, Df!message, BoxFits, BoxTypes
<1> DEFINE value == CASE r.kind = "work" -> Df!Work(r.dir)
                      [] r.kind = "stash" -> [Df!Blank EXCEPT !.kind = "stash", !.files = diffMade[r.id]]
                      [] OTHER -> [Df!Blank EXCEPT !.kind = "list", !.ids = Df!Ids]
           answer == [r EXCEPT !.answered = TRUE, !.value = value]
<1>3. diffReads' = (diffReads \ {r}) \cup {answer} /\ r \in Readings
  BY DEF Df!GitReads, ScreenFits
<1>4. value \in Screens /\ (r.kind = "work" => value.kind = "work" /\ value.of = r.dir)
      /\ (r.kind # "work" => value.kind \in {"stash", "list"} /\ ~ value.controls)
  <2>1. CASE r.kind = "work"
    BY <1>3, <2>1 DEF Df!Work, Screens, GitFits, GitTypes, Readings
  <2>2. CASE r.kind = "stash"
    <3>1. r.id \in MadeIds
      BY <2>2 DEF ScreenFits, ReadsHere
    <3>2. diffMade[r.id] \in Edits
      BY <3>1 DEF GitFits, GitTypes, MadeIds
    <3> QED
      BY <2>2, <3>2, BlankFits DEF Screens, Df!Blank
  <2>3. CASE r.kind \notin {"work", "stash"}
    <3>1. Df!Ids \subseteq MadeIds
      BY DEF Df!Ids, GitFits, GitTypes
    <3> QED
      BY <2>3, <3>1, BlankFits DEF Screens, Df!Blank
  <2> QED
    BY <2>1, <2>2, <2>3
<1> HIDE DEF value
<1>5. answer \in Readings /\ answer.kind = r.kind /\ answer.dir = r.dir /\ answer.gen = r.gen /\ answer.id = r.id
      /\ answer.answered /\ answer.value = value
  BY <1>3, <1>4 DEF Readings
<1> HIDE DEF answer
<1>6. Readings' = Readings /\ Screens' = Screens /\ MadeIds' = MadeIds
  BY <1>1 DEF Readings, Screens, MadeIds, Edits
<1>7. diffReads' \subseteq Readings'
  BY <1>3, <1>5, <1>6 DEF ScreenFits
<1>8. ReadsHere'
  BY <1>1, <1>3, <1>4, <1>5, <1>6 DEF ScreenFits, ReadsHere
<1>9. ScreenFits'
  BY <1>1, <1>6, <1>7, <1>8 DEF ScreenFits, DrawnHere
<1> QED
  BY <1>1, <1>2, <1>9

LEMMA LandsStep ==
    ASSUME DiffInv, NEW r \in diffReads, Df!Lands(r)
    PROVE  DiffInv'
<1> USE DEF DiffInv
<1>1. GitFits' /\ JobsFit' /\ UNCHANGED <<diffMade, dir, diffGen, diffShown, diffOpen>>
  BY GitStands, JobsStand DEF Df!Lands, Df!git, Df!message
<1>2. BoxFits'
  BY BoxStands DEF Df!Lands, Df!message, BoxFits, BoxTypes
<1>3. r \in Readings /\ r.value \in Screens /\ r.answered /\ diffReads' = diffReads \ {r}
  BY DEF Df!Lands, ScreenFits, Readings
<1>4. Readings' = Readings /\ Screens' = Screens /\ MadeIds' = MadeIds
  BY <1>1 DEF Readings, Screens, MadeIds, Edits
<1>5. PickFits'
  <2>1. r.value.ids \subseteq MadeIds /\ Df!Listed(r.value) \subseteq DiffFiles
    BY <1>3 DEF Screens, Df!Listed
  <2>2. stashes' \subseteq MadeIds
    BY <2>1 DEF PickFits, Df!Lands
  <2>3. picked' \subseteq DiffFiles
    BY <2>1 DEF PickFits, Df!Lands
  <2> QED
    BY <2>2, <2>3, <1>1, <1>4 DEF PickFits
<1>6. drawn' \in Screens /\ DrawnHere'
  <2>1. CASE r.kind # "count" /\ Df!Current(r)
    <3>1. drawn' = r.value /\ r.gen = diffGen
      BY <2>1 DEF Df!Lands, Df!Current
    <3>2. /\ r.dir = dir
          /\ r.kind = "work" => r.value.kind = "work" /\ r.value.of = r.dir
          /\ r.kind # "work" => r.value.kind \in {"stash", "list"} /\ ~ r.value.controls
      BY <1>3, <3>1, <2>1 DEF ScreenFits, ReadsHere
    <3> QED
      BY <3>1, <3>2, <1>1, <1>3 DEF DrawnHere
  <2>2. CASE ~ (r.kind # "count" /\ Df!Current(r))
    BY <2>2, <1>1 DEF Df!Lands, ScreenFits, DrawnHere
  <2> QED
    BY <2>1, <2>2
<1>7. ReadsHere'
  BY <1>1, <1>3, <1>4 DEF ScreenFits, ReadsHere
<1>8. ScreenFits'
  BY <1>1, <1>3, <1>4, <1>6, <1>7 DEF ScreenFits
<1> QED
  BY <1>1, <1>2, <1>5, <1>8

LEMMA FailsStep ==
    ASSUME DiffInv, NEW r \in diffReads, Df!ReadFails(r)
    PROVE  DiffInv'
<1> USE DEF DiffInv
<1>1. GitFits' /\ JobsFit' /\ PickFits' /\ UNCHANGED <<diffMade, dir, diffGen, diffShown>>
  BY GitStands, JobsStand, PicksStand DEF Df!ReadFails, Df!git, Df!message
<1>2. BoxFits'
  BY BoxStands DEF Df!ReadFails, Df!message, BoxFits, BoxTypes
<1>3. Readings' = Readings /\ Screens' = Screens /\ MadeIds' = MadeIds /\ diffReads' \subseteq diffReads
  BY <1>1 DEF Readings, Screens, MadeIds, Edits, Df!ReadFails
<1>4. drawn' \in Screens /\ DrawnHere'
  BY <1>1, BlankFits DEF Df!ReadFails, ScreenFits, DrawnHere, Df!Blank
<1>5. ScreenFits'
  BY <1>1, <1>3, <1>4 DEF ScreenFits, ReadsHere
<1> QED
  BY <1>1, <1>2, <1>5

-----------------------------------------------------------------------------
(* What the person asks for. *)

LEMMA PicksStep ==
    ASSUME DiffInv, (\E x \in DiffFiles : Df!Tick(x)) \/ Df!PickAll
    PROVE  DiffInv'
<1> USE DEF DiffInv
<1>1. UNCHANGED <<Df!git, diffOpen, dir, diffGen, diffView, drawn, diffShown, stashes, workRead, Df!message, diffReads, diffAsked, diffJob>> /\ Df!Act
  BY DEF Df!Tick, Df!PickAll, Df!Person
<1>2. GitFits' /\ JobsFit' /\ ScreenFits' /\ BoxFits'
  BY <1>1, GitStands, JobsStand, ScreenStands, BoxStands, Counts DEF Df!git, Df!message
<1>3. picked' \subseteq DiffFiles
  BY DEF Df!Tick, Df!PickAll, PickFits, Df!Listed
<1> QED
  BY <1>1, <1>2, <1>3 DEF PickFits, MadeIds, Df!git

LEMMA TypeStep ==
    ASSUME Calmly, DiffInv, Df!Type
    PROVE  DiffInv'
<1> USE DEF DiffInv
<1>1. UNCHANGED <<Df!git, diffOpen, dir, diffGen, diffView, drawn, diffShown, stashes, picked, workRead, diffReads, diffAsked, diffJob>>
      /\ Df!Act /\ diffJob = Df!NoJob /\ diffAsked = Df!NoJob
  BY DEF Df!Type, Df!Person, Df!Settled, Calmly
<1>2. GitFits' /\ ScreenFits' /\ PickFits'
  BY <1>1, GitStands, ScreenStands, PicksStand DEF Df!git
<1>3. JobsFit'
  BY <1>1 DEF JobsFit, JobTypes, AskedFits, JobFits
<1>4. BoxFits'
  BY <1>1, Counts DEF Df!Type, BoxFits, BoxTypes, Df!DraftsStay, PickFits, Df!Act
<1> QED
  BY <1>2, <1>3, <1>4

LEMMA JobMade ==
    ASSUME DiffInv, NEW verb \in Verbs, NEW sel \in SUBSET DiffFiles, NEW id \in Nat
    PROVE  /\ Df!Job(verb, sel, id) \in Jobs /\ Df!Job(verb, sel, id) # Df!NoJob
           /\ Df!Job(verb, sel, id).verb = verb /\ Df!Job(verb, sel, id).dir = dir /\ Df!Job(verb, sel, id).stage = "called"
           /\ Df!Job(verb, sel, id).text = box /\ Df!Job(verb, sel, id).files = sel
<1>1. box \in Nat /\ dir \in Folders /\ drawn \in Screens /\ DrawnHere
  BY DEF DiffInv, BoxFits, BoxTypes, PickFits, ScreenFits
<1>2. (IF drawn.kind = "work" THEN {drawn.of} \X sel ELSE {}) \in SUBSET ((Folders \cup {Nowhere}) \X DiffFiles)
  BY <1>1 DEF Screens
<1>3. Df!Job(verb, sel, id) \in Jobs
  BY <1>1, <1>2 DEF Df!Job, Jobs
<1> QED
  BY <1>1, <1>3 DEF Df!Job, Df!NoJob

\* Asked where writing is offered, the person was shown what is chosen.
LEMMA JobSeen ==
    ASSUME DrawnHere, drawn.controls, NEW verb, NEW sel, NEW id
    PROVE  Df!Job(verb, sel, id).sure = {dir} \X sel
BY DEF Df!Job, DrawnHere

LEMMA CommitsStep ==
    ASSUME DiffInv, Df!CommitPicked \/ Df!StashPicked
    PROVE  DiffInv'
<1> USE DEF DiffInv
<1>1. /\ UNCHANGED <<Df!git, diffOpen, dir, diffGen, diffView, drawn, diffShown, stashes, picked, workRead, Df!message, diffReads, diffAsked>>
      /\ Df!Act /\ diffAsked = Df!NoJob /\ diffOpen /\ drawn.controls
  BY DEF Df!CommitPicked, Df!StashPicked, Df!Ready, Df!Person
<1>2. GitFits' /\ ScreenFits' /\ PickFits' /\ BoxFits'
  BY <1>1, GitStands, ScreenStands, PicksStand, BoxStands, Counts DEF Df!git, Df!message
<1>3. Df!Selected \in SUBSET DiffFiles /\ 0 \in Nat /\ "commit" \in Verbs /\ "push" \in Verbs
  BY DEF PickFits, Df!Selected, Verbs
<1>4. PICK verb \in {"commit", "push"} : diffJob' = Df!Job(verb, Df!Selected, 0)
  BY DEF Df!CommitPicked, Df!StashPicked
<1>5. diffJob' \in Jobs /\ diffJob'.verb = verb /\ diffJob'.dir = dir /\ diffJob'.stage = "called" /\ diffJob'.text = box
  BY <1>3, <1>4, JobMade
<1>6. unsaid'[dir'] = box
  BY <1>1 DEF BoxFits, Df!DraftsStay, Df!message
<1>7. JobFits'
  BY <1>1, <1>5, <1>6 DEF JobFits, Sure
<1> QED
  BY <1>1, <1>2, <1>5, <1>7 DEF JobsFit, JobTypes, AskedFits

LEMMA DiscardsStep ==
    ASSUME DiffInv, NEW sel \in SUBSET DiffFiles, NEW x \in DiffFiles, Df!DiscardFiles(sel) \/ Df!DiscardHunk(x)
    PROVE  DiffInv'
<1> USE DEF DiffInv
<1>1. /\ UNCHANGED <<Df!git, diffOpen, dir, diffGen, diffView, drawn, diffShown, stashes, picked, workRead, Df!message, diffReads, diffJob>>
      /\ Df!Act /\ diffAsked = Df!NoJob /\ diffOpen /\ drawn.controls /\ diffJob = Df!NoJob
  BY DEF Df!DiscardFiles, Df!DiscardHunk, Df!Ready, Df!Person
<1>2. GitFits' /\ ScreenFits' /\ PickFits' /\ BoxFits'
  BY <1>1, GitStands, ScreenStands, PicksStand, BoxStands, Counts DEF Df!git, Df!message
<1>3. drawn.files[x] \in Nat /\ 0 \in Nat /\ {x} \in SUBSET DiffFiles
  BY DEF ScreenFits, Screens, Edits
<1>4. /\ diffAsked' \in Jobs /\ diffAsked'.dir = dir /\ diffAsked'.verb \in {"discard", "hunk"} /\ diffAsked'.stage = "called"
      /\ diffAsked'.sure = {dir} \X diffAsked'.files /\ (diffAsked'.verb = "hunk" => diffAsked'.files # {})
  <2>1. CASE Df!DiscardFiles(sel)
    <3>1. diffAsked' = Df!Job("discard", sel, 0) /\ "discard" \in Verbs
      BY <2>1 DEF Df!DiscardFiles, Verbs
    <3> DEFINE j == Df!Job("discard", sel, 0)
    <3>2. /\ j \in Jobs /\ j.verb = "discard" /\ j.dir = dir /\ j.stage = "called" /\ j.files = sel
      BY <3>1, <1>3, JobMade
    <3>4. j.sure = {dir} \X sel
      BY <1>1, JobSeen DEF ScreenFits
    <3> HIDE DEF j
    <3>3. diffAsked' = j
      BY <3>1 DEF j
    <3> QED
      BY <3>2, <3>3, <3>4
  <2>2. CASE Df!DiscardHunk(x)
    <3>1. diffAsked' = Df!Job("hunk", {x}, drawn.files[x]) /\ "hunk" \in Verbs
      BY <2>2 DEF Df!DiscardHunk, Verbs
    <3> DEFINE j == Df!Job("hunk", {x}, drawn.files[x])
    <3>2. /\ j \in Jobs /\ j.verb = "hunk" /\ j.dir = dir /\ j.stage = "called" /\ j.files = {x}
      BY <3>1, <1>3, JobMade
    <3>4. j.sure = {dir} \X {x}
      BY <1>1, JobSeen DEF ScreenFits
    <3> HIDE DEF j
    <3>3. diffAsked' = j
      BY <3>1 DEF j
    <3> QED
      BY <3>2, <3>3, <3>4
  <2> QED
    BY <2>1, <2>2
<1>5. Sure(diffAsked)'
  <2>1. diffAsked'.verb = "hunk" => \E y \in diffAsked'.files : <<dir, y>> \in diffAsked'.sure
    BY <1>4
  <2> QED
    BY <2>1, <1>4 DEF Sure
<1> QED
  BY <1>1, <1>2, <1>4, <1>5 DEF JobsFit, JobTypes, AskedFits, JobFits

LEMMA StashOpStep ==
    ASSUME DiffInv, NEW verb \in {"apply", "pop", "drop"}, NEW id, Df!StashOp(verb, id)
    PROVE  DiffInv'
<1> USE DEF DiffInv
<1>1. /\ UNCHANGED <<Df!git, diffOpen, dir, diffGen, diffView, drawn, diffShown, stashes, picked, workRead, Df!message, diffReads>>
      /\ Df!Act /\ diffAsked = Df!NoJob /\ diffOpen /\ diffJob = Df!NoJob
  BY DEF Df!StashOp, Df!Ready, Df!Person
<1>2. GitFits' /\ ScreenFits' /\ PickFits' /\ BoxFits'
  BY <1>1, GitStands, ScreenStands, PicksStand, BoxStands, Counts DEF Df!git, Df!message
<1>3. id \in Nat /\ {} \in SUBSET DiffFiles /\ verb \in Verbs
  BY DEF Df!StashOp, ScreenFits, Screens, MadeIds, Verbs
<1>4. /\ Df!Job(verb, {}, id) \in Jobs /\ Df!Job(verb, {}, id).verb = verb /\ Df!Job(verb, {}, id).dir = dir
      /\ Df!Job(verb, {}, id).stage = "called"
  BY <1>3, JobMade
<1>5. IF verb = "drop" THEN diffAsked' = Df!Job(verb, {}, id) /\ diffJob' = diffJob ELSE diffJob' = Df!Job(verb, {}, id) /\ diffAsked' = diffAsked
  BY DEF Df!StashOp
<1>6. JobTypes'
  BY <1>4, <1>5, <1>1 DEF JobTypes
<1>7. AskedFits'
  BY <1>4, <1>5, <1>1 DEF AskedFits, Sure
<1>8. JobFits'
  BY <1>4, <1>5, <1>1 DEF JobFits, Sure
<1> QED
  BY <1>2, <1>6, <1>7, <1>8 DEF JobsFit

LEMMA AnswersStep ==
    ASSUME DiffInv, NEW yes \in BOOLEAN, Df!Answers(yes)
    PROVE  DiffInv'
<1> USE DEF DiffInv
<1>1. /\ UNCHANGED <<Df!git, diffOpen, dir, diffGen, diffView, drawn, diffShown, stashes, picked, workRead, Df!message, diffReads, dvActs>>
      /\ diffAsked # Df!NoJob /\ diffAsked' = Df!NoJob /\ diffJob' = IF yes THEN [diffAsked EXCEPT !.dir = dir] ELSE diffJob
  BY DEF Df!Answers
<1>2. GitFits' /\ ScreenFits' /\ PickFits' /\ BoxFits'
  BY <1>1, GitStands, ScreenStands, PicksStand, BoxStands DEF Df!git, Df!message, BoxFits, BoxTypes
<1>3. diffAsked \in Jobs /\ diffAsked.dir = dir /\ diffAsked.verb \in {"discard", "hunk", "drop"} /\ diffAsked.stage = "called" /\ Sure(diffAsked)
  BY <1>1 DEF JobsFit, JobTypes, AskedFits
<1>4. [diffAsked EXCEPT !.dir = dir] = diffAsked
  BY <1>3 DEF Jobs
<1>5. CASE yes
  <2>1. diffJob' = diffAsked
    BY <1>1, <1>4, <1>5
  <2>2. JobFits'
    BY <2>1, <1>3 DEF JobFits, Sure
  <2> QED
    BY <2>1, <2>2, <1>1, <1>2, <1>3 DEF JobsFit, JobTypes, AskedFits
<1>6. CASE ~ yes
  <2>1. diffJob' = diffJob
    BY <1>1, <1>6
  <2>2. JobFits'
    BY <2>1, <1>1 DEF JobsFit, JobFits, Sure, Df!git, Df!message
  <2> QED
    BY <2>1, <2>2, <1>1, <1>2 DEF JobsFit, JobTypes, AskedFits
<1> QED
  BY <1>5, <1>6

-----------------------------------------------------------------------------
(* What git does. *)

LEMMA ScreenGrows ==
    ASSUME ScreenFits, Len(diffMade) \in Nat, Len(diffMade') \in Nat, Len(diffMade) <= Len(diffMade'), UNCHANGED <<dir, diffGen, drawn, diffShown, diffReads>>
    PROVE  ScreenFits'
<1>1. MadeIds \subseteq MadeIds' /\ 0 .. Len(diffMade) \subseteq 0 .. Len(diffMade')
  BY DEF MadeIds
<1>2. Screens \subseteq Screens'
  BY <1>1 DEF Screens, Edits
<1>3. Readings \subseteq Readings'
  BY <1>1, <1>2 DEF Readings
<1> QED
  BY <1>1, <1>2, <1>3 DEF ScreenFits, DrawnHere, ReadsHere
LEMMA PicksGrow ==
    ASSUME PickFits, Len(diffMade) \in Nat, Len(diffMade') \in Nat, Len(diffMade) <= Len(diffMade'), UNCHANGED <<diffOpen, dir, stashes, picked>>
    PROVE  PickFits'
BY DEF PickFits, MadeIds

LEMMA CleanFits == Df!Clean \in Edits /\ \A y \in DiffFiles : Df!Clean[y] = 0
BY DEF Df!Clean, Edits

LEMMA WithoutKeeps ==
    ASSUME NEW S, stack \in Seq(S), NEW i \in DOMAIN stack
    PROVE  /\ Df!Without(i) \in Seq(S)
           /\ \A k \in DOMAIN stack \ {i} : \E m \in DOMAIN Df!Without(i) : Df!Without(i)[m] = stack[k]
<1> DEFINE before == SubSeq(stack, 1, i - 1)
           behind == SubSeq(stack, i + 1, Len(stack))
<1>1. Len(stack) \in Nat /\ i \in 1 .. Len(stack) /\ \A k \in 1 .. Len(stack) : stack[k] \in S
  OBVIOUS
<1>2. before \in Seq(S) /\ Len(before) = i - 1 /\ \A k \in 1 .. i - 1 : before[k] = stack[k]
  BY <1>1, SubSeqProperties
<1>3. behind \in Seq(S) /\ Len(behind) = Len(stack) - i /\ \A k \in 1 .. Len(stack) - i : behind[k] = stack[i + k]
  <2>1. CASE i < Len(stack)
    BY <1>1, <2>1, SubSeqProperties
  <2>2. CASE i = Len(stack)
    BY <1>1, <2>2, SubSeqProperties
  <2> QED
    BY <1>1, <2>1, <2>2
<1> HIDE DEF before, behind
<1>4. Df!Without(i) = before \o behind
  BY DEF Df!Without, before, behind
<1>5. before \o behind \in Seq(S) /\ Len(before \o behind) = Len(stack) - 1
  BY <1>1, <1>2, <1>3
<1>6. ASSUME NEW k \in DOMAIN stack \ {i}
      PROVE  \E m \in DOMAIN (before \o behind) : (before \o behind)[m] = stack[k]
  <2>1. CASE k < i
    <3>1. k \in 1 .. i - 1 /\ k \in DOMAIN (before \o behind) /\ (before \o behind)[k] = before[k]
      BY <1>1, <1>2, <1>3, <1>5, <2>1
    <3> QED
      BY <3>1, <1>2
  <2>2. CASE k > i
    <3>1. k - i \in 1 .. Len(stack) - i /\ k - 1 \in DOMAIN (before \o behind) /\ (before \o behind)[k - 1] = behind[k - i]
      BY <1>1, <1>2, <1>3, <1>5, <2>2
    <3>2. behind[k - i] = stack[i + (k - i)] /\ i + (k - i) = k
      BY <3>1, <1>1, <1>3
    <3> QED
      BY <3>1, <3>2
  <2> QED
    BY <1>1, <1>6, <2>1, <2>2
<1> QED
  BY <1>4, <1>5, <1>6

\* A stash made of what leaves the disk loses nothing.
LEMMA StashKeeps ==
    ASSUME GitFits, NEW work \in Edits, NEW after \in [Folders -> Edits], Df!Stash(work, after), UNCHANGED <<diffEdits, kept, given>>,
           \A e \in Folders, y \in DiffFiles : after[e][y] = diffDisk[e][y] \/ diffDisk[e][y] = 0 \/ work[y] = diffDisk[e][y]
    PROVE  GitFits' /\ Len(diffMade') = Len(diffMade) + 1
<1>1. diffMade \in Seq(Edits) /\ Len(diffMade) \in Nat /\ diffMade' = Append(diffMade, work) /\ diffDisk' = after /\ stack \in Seq(MadeIds)
      /\ stack' = <<Len(diffMade) + 1>> \o stack /\ diffEdits \in Nat
  BY DEF GitFits, GitTypes, Df!Stash
<1>2. diffMade' \in Seq(Edits) /\ Len(diffMade') = Len(diffMade) + 1 /\ diffMade'[Len(diffMade) + 1] = work /\ \A k \in 1 .. Len(diffMade) : diffMade'[k] = diffMade[k]
  BY <1>1
<1>3. stack \in Seq(MadeIds') /\ <<Len(diffMade) + 1>> \in Seq(MadeIds')
  <2>1. \A k \in 1 .. Len(stack) : stack[k] \in MadeIds'
    BY <1>1, <1>2 DEF MadeIds
  <2> QED
    BY <2>1, <1>1, <1>2 DEF MadeIds
<1>4. stack' \in Seq(MadeIds') /\ Len(stack') = Len(stack) + 1 /\ stack'[1] = Len(diffMade) + 1
      /\ \A k \in 1 .. Len(stack) : stack'[k + 1] = stack[k]
  BY <1>1, <1>3
<1>5. GitTypes'
  BY <1>1, <1>2, <1>4 DEF GitTypes, Edits
<1>6. ASSUME NEW i \in 1 .. diffEdits PROVE Safe(i)'
  <2>0. Safe(i) /\ i # 0
    BY DEF GitFits, AllSafe
  <2>1. CASE i \in kept \/ i \in given
    BY <2>1 DEF Safe
  <2>2. ASSUME NEW e \in Folders, NEW y \in DiffFiles, diffDisk[e][y] = i
        PROVE  Safe(i)'
    <3>1. CASE after[e][y] = i
      BY <3>1, <1>1 DEF Safe
    <3>2. CASE work[y] = i
      <4>1. 1 \in DOMAIN stack' /\ diffMade'[stack'[1]][y] = i
        BY <1>2, <1>4, <3>2, <1>1
      <4> QED
        BY <4>1 DEF Safe
    <3> QED
      BY <2>0, <2>2, <3>1, <3>2
  <2>3. ASSUME NEW k \in DOMAIN stack, NEW y \in DiffFiles, diffMade[stack[k]][y] = i
        PROVE  Safe(i)'
    <3>1. k \in 1 .. Len(stack) /\ stack[k] \in 1 .. Len(diffMade)
      BY <1>1 DEF MadeIds
    <3>2. k + 1 \in DOMAIN stack' /\ diffMade'[stack'[k + 1]][y] = i
      BY <3>1, <2>3, <1>1, <1>2, <1>4
    <3> QED
      BY <3>2 DEF Safe
  <2> QED
    BY <2>0, <2>1, <2>2, <2>3 DEF Safe
<1> QED
  BY <1>2, <1>5, <1>6 DEF GitFits, AllSafe

\* What leaves the disk and the stack is committed, given up or put back.
LEMMA NothingMade ==
    ASSUME GitFits, UNCHANGED <<diffMade, diffEdits>>, diffDisk' \in [Folders -> Edits], stack' \in Seq(MadeIds), kept \subseteq kept', given \subseteq given',
           \A e \in Folders, y \in DiffFiles : diffDisk[e][y] # 0 => diffDisk'[e][y] = diffDisk[e][y] \/ diffDisk[e][y] \in kept' \/ diffDisk[e][y] \in given',
           \A k \in DOMAIN stack, y \in DiffFiles : diffMade[stack[k]][y] # 0 =>
               \/ \E m \in DOMAIN stack' : stack'[m] = stack[k]
               \/ diffMade[stack[k]][y] \in given' \/ \E e \in Folders : diffDisk'[e][y] = diffMade[stack[k]][y]
    PROVE  GitFits'
<1>1. GitTypes'
  BY DEF GitFits, GitTypes, MadeIds, Edits
<1>2. ASSUME NEW i \in 1 .. diffEdits PROVE Safe(i)'
  <2>0. Safe(i) /\ i # 0
    BY DEF GitFits, AllSafe
  <2>1. CASE i \in kept \/ i \in given
    BY <2>1 DEF Safe
  <2>2. ASSUME NEW e \in Folders, NEW y \in DiffFiles, diffDisk[e][y] = i
        PROVE  Safe(i)'
    BY <2>0, <2>2 DEF Safe
  <2>3. ASSUME NEW k \in DOMAIN stack, NEW y \in DiffFiles, diffMade[stack[k]][y] = i
        PROVE  Safe(i)'
    BY <2>0, <2>3 DEF Safe
  <2> QED
    BY <2>0, <2>1, <2>2, <2>3 DEF Safe
<1> QED
  BY <1>1, <1>2 DEF GitFits, AllSafe

FoundAt(i) == [diffJob EXCEPT !.at = i, !.stage = "found"]

LEMMA DoneFits ==
    ASSUME JobsFit, diffJob # Df!NoJob, NEW ok \in BOOLEAN, Df!Done(ok), UNCHANGED <<diffAsked, dir, unsaid>>
    PROVE  JobsFit'
<1>1. diffJob' = [diffJob EXCEPT !.stage = IF ok THEN "done" ELSE "refused"] /\ diffJob \in Jobs
  BY DEF Df!Done, JobsFit, JobTypes
<1>2. diffJob' \in Jobs /\ diffJob'.verb = diffJob.verb /\ diffJob'.dir = diffJob.dir /\ diffJob'.files = diffJob.files /\ diffJob'.sure = diffJob.sure
      /\ diffJob'.text = diffJob.text /\ diffJob'.stage # "found"
  BY <1>1 DEF Jobs
<1>3. JobFits'
  BY <1>2 DEF JobsFit, JobFits, Sure
<1> QED
  BY <1>2, <1>3 DEF JobsFit, JobTypes, AskedFits, Sure

LEMMA GitRunsStep ==
    ASSUME DiffInv, Df!GitRuns
    PROVE  DiffInv'
<1> USE DEF DiffInv
<1>1. /\ UNCHANGED <<diffOpen, dir, diffGen, diffView, drawn, diffShown, stashes, picked, workRead, Df!message, diffReads, diffAsked, dvActs>>
      /\ diffJob \in Jobs /\ diffJob # Df!NoJob /\ Len(diffMade) \in Nat
  BY Lengths DEF Df!GitRuns, JobsFit, JobTypes
<1>2. /\ diffJob.dir \in Folders /\ diffJob.files \in SUBSET DiffFiles /\ diffDisk \in [Folders -> Edits] /\ diffMade \in Seq(Edits)
      /\ stack \in Seq(MadeIds) /\ JobFits /\ \A k \in DOMAIN stack : diffMade[stack[k]] \in Edits
  BY <1>1 DEF Jobs, GitFits, GitTypes, JobsFit, MadeIds
<1>3. BoxFits'
  BY <1>1, BoxStands DEF Df!message, BoxFits, BoxTypes
<1> DEFINE cleaned == Df!Put(diffJob.dir, diffJob.files, Df!Clean)
<1>4. cleaned \in [Folders -> Edits]
      /\ \A f \in Folders, y \in DiffFiles : cleaned[f][y] = IF f = diffJob.dir /\ y \in diffJob.files THEN 0 ELSE diffDisk[f][y]
  <2>1. /\ cleaned \in [Folders -> Edits]
        /\ \A f \in Folders, y \in DiffFiles : cleaned[f][y] = IF f = diffJob.dir /\ y \in diffJob.files THEN Df!Clean[y] ELSE diffDisk[f][y]
    <3>1. Df!Clean \in Edits
      BY CleanFits
    <3> QED
      BY <3>1, <1>2 DEF Df!Put, Edits
  <2> HIDE DEF cleaned
  <2> QED
    BY <2>1, CleanFits
<1> HIDE DEF cleaned
<1>5. Df!Done(TRUE) \/ Df!Done(FALSE) => JobsFit'
  BY <1>1, DoneFits DEF Df!message
<1>6. GitFits' /\ JobsFit' /\ Len(diffMade') \in Nat /\ Len(diffMade) <= Len(diffMade')
  <2>1. CASE Df!GitCommit
    <3>1. /\ Df!Done(TRUE) /\ diffDisk' = cleaned /\ UNCHANGED <<diffMade, stack, diffEdits, given>>
          /\ kept' = kept \cup Df!On(diffJob.dir, diffJob.files)
      BY <2>1 DEF Df!GitCommit, cleaned
    <3>2. \A y \in diffJob.files : diffDisk[diffJob.dir][y] # 0 => diffDisk[diffJob.dir][y] \in kept'
      BY <3>1 DEF Df!On
    <3>3. GitFits'
      BY <3>1, <3>2, <1>2, <1>4, NothingMade
    <3> QED
      BY <3>1, <3>3, <1>1, <1>5
  <2>2. CASE Df!GitStashPush
    <3>1. Df!Done(TRUE) /\ UNCHANGED <<diffEdits, kept, given>>
      BY <2>2 DEF Df!GitStashPush
    <3>2. CASE Df!On(diffJob.dir, diffJob.files) = {}
      BY <3>1, <3>2, <2>2, <1>1, <1>5, GitStands DEF Df!GitStashPush, Df!git
    <3>3. CASE Df!On(diffJob.dir, diffJob.files) # {}
      <4> DEFINE work == [y \in DiffFiles |-> IF y \in diffJob.files THEN diffDisk[diffJob.dir][y] ELSE 0]
      <4>1. Df!Stash(work, cleaned)
        BY <2>2, <3>3 DEF Df!GitStashPush, cleaned
      <4>2. work \in Edits /\ \A y \in diffJob.files : work[y] = diffDisk[diffJob.dir][y]
        BY <1>2 DEF Edits
      <4> HIDE DEF work
      <4>3. \A e \in Folders, y \in DiffFiles : cleaned[e][y] = diffDisk[e][y] \/ diffDisk[e][y] = 0 \/ work[y] = diffDisk[e][y]
        BY <1>4, <4>2
      <4>4. GitFits' /\ Len(diffMade') = Len(diffMade) + 1
        BY <4>1, <4>2, <4>3, <3>1, <1>4, StashKeeps
      <4> QED
        BY <4>4, <3>1, <1>1, <1>5
    <3> QED
      BY <3>2, <3>3
  <2>3. CASE Df!GitDiscard
    <3>1. /\ Df!Done(TRUE) /\ diffDisk' = cleaned /\ UNCHANGED <<diffMade, stack, diffEdits, kept>> /\ diffJob.verb = "discard"
          /\ given' = given \cup {diffDisk[diffJob.dir][y] : y \in {z \in diffJob.files : <<diffJob.dir, z>> \in diffJob.sure}}
      BY <2>3 DEF Df!GitDiscard, cleaned
    <3>2. \A y \in diffJob.files : diffDisk[diffJob.dir][y] \in given'
      <4>1. {diffJob.dir} \X diffJob.files \subseteq diffJob.sure
        BY <3>1, <1>1, <1>2 DEF JobFits, Sure
      <4> QED
        BY <3>1, <4>1
    <3>3. GitFits'
      BY <3>1, <3>2, <1>2, <1>4, NothingMade
    <3> QED
      BY <3>1, <3>3, <1>1, <1>5
  <2>4. CASE Df!GitDiscardHunk
    <3>1. /\ Df!Done(TRUE) /\ diffDisk' = cleaned /\ UNCHANGED <<diffMade, stack, diffEdits, kept>> /\ diffJob.verb = "hunk"
          /\ given' = given \cup (IF diffJob.sure = {} THEN {} ELSE {diffJob.id})
          /\ \A y \in diffJob.files : diffDisk[diffJob.dir][y] = diffJob.id
      BY <2>4 DEF Df!GitDiscardHunk, cleaned, Df!AsShown
    <3>2. \A y \in diffJob.files : diffDisk[diffJob.dir][y] \in given'
      BY <3>1, <1>1, <1>2 DEF JobFits, Sure
    <3>3. GitFits'
      BY <3>1, <3>2, <1>2, <1>4, NothingMade
    <3> QED
      BY <3>1, <3>3, <1>1, <1>5
  <2>5. CASE Df!StashRef
    <3>1. /\ UNCHANGED Df!git /\ diffJob.verb \in {"apply", "pop", "drop"}
          /\ \E i \in DOMAIN stack : stack[i] = diffJob.id /\ diffJob' = FoundAt(i)
      BY <2>5, Zenon DEF Df!StashRef, FoundAt
    <3>2. PICK i \in DOMAIN stack : stack[i] = diffJob.id /\ diffJob' = FoundAt(i)
      BY <3>1
    <3>3. i \in Nat
      BY <1>2
    <3>4. diffJob' \in Jobs /\ diffJob'.verb = diffJob.verb /\ diffJob'.id = diffJob.id /\ diffJob'.at = i /\ diffJob'.sure = diffJob.sure
          /\ diffJob'.dir = diffJob.dir /\ diffJob'.files = diffJob.files
      BY <3>2, <3>3, <1>1 DEF Jobs, FoundAt
    <3>5. JobFits'
      BY <3>1, <3>2, <3>4 DEF JobFits, Sure, Df!git
    <3>6. JobsFit'
      BY <3>4, <3>5, <1>1 DEF JobsFit, JobTypes, AskedFits, Sure
    <3> QED
      BY <3>1, <3>6, <1>1, GitStands
  <2>6. CASE Df!GitStashDrop
    <3>1. /\ Df!Done(TRUE) /\ diffJob.at \in DOMAIN stack /\ stack[diffJob.at] = diffJob.id /\ UNCHANGED <<diffDisk, diffMade, diffEdits, kept>>
          /\ stack' = Df!Without(diffJob.at) /\ given' = given \cup Df!Held(diffJob.id)
      BY <2>6, <1>1, <1>2 DEF Df!GitStashDrop, JobFits
    <3>2. /\ stack' \in Seq(MadeIds)
          /\ \A k \in DOMAIN stack \ {diffJob.at} : \E m \in DOMAIN stack' : stack'[m] = stack[k]
      BY <3>1, <1>2, WithoutKeeps
    <3>3. \A y \in DiffFiles : diffMade[stack[diffJob.at]][y] # 0 => diffMade[stack[diffJob.at]][y] \in given'
      BY <3>1 DEF Df!Held
    <3>4. GitFits'
      BY <3>1, <3>2, <3>3, <1>2, NothingMade
    <3> QED
      BY <3>1, <3>4, <1>1, <1>5
  <2>7. CASE Df!GitStashApply
    <3> DEFINE w == diffMade[stack[diffJob.at]]
               took == {y \in DiffFiles : w[y] # 0}
    <3>1. /\ Df!Done(TRUE) /\ diffJob.at \in DOMAIN stack /\ UNCHANGED <<diffMade, diffEdits, kept, given>>
          /\ Df!On(diffJob.dir, took) = {} /\ diffDisk' = Df!Put(diffJob.dir, took, w)
          /\ stack' = IF diffJob.verb = "pop" THEN Df!Without(diffJob.at) ELSE stack
      BY <2>7 DEF Df!GitStashApply
    <3>2. w \in Edits /\ took \in SUBSET DiffFiles
      BY <3>1, <1>2
    <3>3. \A y \in DiffFiles : y \in took <=> diffMade[stack[diffJob.at]][y] # 0
      OBVIOUS
    <3>4. \A y \in took : diffDisk[diffJob.dir][y] = 0
      BY <3>1 DEF Df!On
    <3>5. diffDisk' \in [Folders -> Edits]
          /\ \A f \in Folders, y \in DiffFiles : diffDisk'[f][y] = IF f = diffJob.dir /\ y \in took THEN diffMade[stack[diffJob.at]][y] ELSE diffDisk[f][y]
      BY <3>1, <3>2, <1>2 DEF Df!Put, Edits
    <3> HIDE DEF w, took
    <3>6. /\ stack' \in Seq(MadeIds)
          /\ \A k \in DOMAIN stack \ {diffJob.at} : \E m \in DOMAIN stack' : stack'[m] = stack[k]
      BY <3>1, <1>2, WithoutKeeps
    <3>7. \A y \in DiffFiles : diffMade[stack[diffJob.at]][y] # 0 => diffDisk'[diffJob.dir][y] = diffMade[stack[diffJob.at]][y]
      BY <3>3, <3>5, <1>2
    <3>8. \A e \in Folders, y \in DiffFiles : diffDisk[e][y] # 0 => diffDisk'[e][y] = diffDisk[e][y]
      BY <3>4, <3>5
    <3>9. GitFits'
      BY <3>1, <3>5, <3>6, <3>7, <3>8, <1>2, NothingMade
    <3> QED
      BY <3>1, <3>9, <1>1, <1>5
  <2>8. CASE Df!GitRefuses
    <3>1. Df!Done(FALSE) /\ UNCHANGED Df!git
      BY <2>8 DEF Df!GitRefuses
    <3> QED
      BY <3>1, <1>1, <1>5, GitStands
  <2> QED
    BY <2>1, <2>2, <2>3, <2>4, <2>5, <2>6, <2>7, <2>8 DEF Df!GitRuns
<1>7. ScreenFits' /\ PickFits'
  BY <1>1, <1>6, ScreenGrows, PicksGrow
<1> QED
  BY <1>3, <1>6, <1>7

LEMMA EndsStep ==
    ASSUME DiffInv, Df!WriteEnds
    PROVE  DiffInv'
<1> USE DEF DiffInv
<1>1. /\ UNCHANGED <<Df!git, diffOpen, dir, stashes, picked, workRead, diffAsked, dvActs>> /\ diffJob # Df!NoJob /\ diffJob' = Df!NoJob
      /\ Df!Uses(diffJob.stage = "done") /\ Df!GoesOn(diffJob.stage = "done") /\ Len(diffMade) \in Nat /\ dir \in Folders /\ diffGen \in Nat
  BY Lengths DEF Df!WriteEnds, PickFits, ScreenFits
<1>2. GitFits' /\ UNCHANGED diffMade /\ PickFits'
  BY <1>1, GitStands, PicksStand DEF Df!git
<1>3. JobsFit'
  BY <1>1 DEF JobsFit, JobTypes, AskedFits, JobFits, Sure
<1>4. BoxFits'
  BY <1>1 DEF Df!Uses, BoxFits, BoxTypes, Df!DraftsStay, JobsFit, JobFits, Df!message
<1>5. ScreenFits'
  <2> DEFINE ok == diffJob.stage = "done"
             more == IF diffJob.verb = "push" /\ ok THEN {Df!Read("count", dir, diffGen, 0)} ELSE {}
             ofWork == diffJob.verb \in {"commit", "push", "discard", "hunk"}
  <2>1. \A r \in more : r \in Readings /\ r.kind = "count" /\ ~ r.answered
    <3>1. diffGen \in 0 .. diffGen /\ 0 \in 0 .. Len(diffMade)
      BY <1>1
    <3> QED
      BY <3>1, <1>1, ReadFits
  <2>2. /\ ~ diffOpen => diffReads' = diffReads \cup more /\ UNCHANGED <<diffGen, diffView, drawn, diffShown>>
        /\ diffOpen => Df!LoadWork(dir, workRead, more) \/ Df!ShowStash(diffJob.id) \/ Df!ShowStashes(dir)
    BY <1>1 DEF Df!GoesOn
  <2> HIDE DEF more
  <2>3. CASE ~ diffOpen
    <3>1. Readings' = Readings /\ Screens' = Screens /\ MadeIds' = MadeIds /\ UNCHANGED <<diffGen, drawn, diffShown, dir>>
          /\ diffReads' = diffReads \cup more
      BY <1>1, <1>2, <2>2, <2>3 DEF Readings, Screens, MadeIds, Edits
    <3>2. diffReads' \subseteq Readings' /\ DrawnHere'
      BY <3>1, <2>1 DEF ScreenFits, DrawnHere
    <3>3. ASSUME NEW r \in diffReads'
          PROVE  /\ r.gen = diffGen' /\ r.kind # "count" => r.dir = dir'
                 /\ r.answered /\ r.kind = "work" => r.value.kind = "work" /\ r.value.of = r.dir
                 /\ r.answered /\ r.kind # "work" => r.value.kind \in {"stash", "list"} /\ ~ r.value.controls
                 /\ r.kind = "stash" => r.id \in MadeIds'
      <4>1. CASE r \in diffReads
        BY <4>1, <3>1 DEF ScreenFits, ReadsHere
      <4>2. CASE r \in more
        BY <4>2, <2>1
      <4> QED
        BY <3>1, <4>1, <4>2
    <3> QED
      BY <3>1, <3>2, <3>3 DEF ScreenFits, ReadsHere
  <2>4. CASE Df!LoadWork(dir, workRead, more)
    BY <2>1, <2>4, <1>1, <1>2, LoadWorkFits
  <2>5. CASE Df!ShowStash(diffJob.id)
    BY <2>5, <1>1, <1>2, ShowStashFits DEF PickFits
  <2>6. CASE Df!ShowStashes(dir)
    BY <2>6, <1>1, <1>2, ShowStashesFits
  <2> QED
    BY <2>2, <2>3, <2>4, <2>5, <2>6
<1> QED
  BY <1>2, <1>3, <1>4, <1>5

LEMMA EditedStep ==
    ASSUME DiffInv, NEW d \in Folders, NEW x \in DiffFiles, Df!Edited(d, x)
    PROVE  DiffInv'
<1> USE DEF DiffInv
<1>1. /\ Df!Act /\ diffEdits' = diffEdits + 1 /\ diffDisk' = [diffDisk EXCEPT ![d][x] = diffEdits + 1] /\ given' = given \cup {diffDisk[d][x]}
      /\ UNCHANGED <<diffMade, stack, kept, diffOpen, dir, diffGen, diffView, drawn, diffShown, stashes, picked, workRead, Df!message, diffReads, diffAsked, diffJob>>
  BY DEF Df!Edited
<1>2. ScreenFits' /\ PickFits' /\ BoxFits' /\ JobsFit'
  BY <1>1, ScreenStands, PicksStand, BoxStands, JobsStand, Counts DEF Df!message
<1>3. diffDisk' \in [Folders -> Edits] /\ diffDisk'[d][x] = diffEdits + 1
      /\ \A e \in Folders, y \in DiffFiles : diffDisk'[e][y] = diffDisk[e][y] \/ diffDisk[e][y] \in given'
  BY <1>1 DEF GitFits, GitTypes, Edits
<1>4. ASSUME NEW i \in 1 .. diffEdits'
      PROVE  Safe(i)'
  <2>1. CASE i = diffEdits + 1
    BY <2>1, <1>3 DEF Safe
  <2>2. CASE i # diffEdits + 1
    <3>1. Safe(i)
      BY <1>1, <2>2 DEF GitFits, GitTypes, AllSafe
    <3> QED
      BY <3>1, <1>1, <1>3 DEF Safe
  <2> QED
    BY <2>1, <2>2
<1>5. GitFits'
  BY <1>1, <1>3, <1>4 DEF GitFits, GitTypes, AllSafe, MadeIds, Edits
<1> QED
  BY <1>2, <1>5

LEMMA ElsewhereStep ==
    ASSUME Calmly, DiffInv, NEW d \in Folders, Df!StashedElsewhere(d)
    PROVE  DiffInv'
<1> USE DEF DiffInv
<1>1. /\ Df!Act /\ (diffJob = Df!NoJob \/ diffJob.stage # "found") /\ Df!Stash(diffDisk[d], [diffDisk EXCEPT ![d] = Df!Clean])
      /\ UNCHANGED <<diffEdits, kept, given, diffOpen, dir, diffGen, diffView, drawn, diffShown, stashes, picked, workRead, Df!message, diffReads, diffAsked, diffJob>>
      /\ Len(diffMade) \in Nat
  BY Lengths DEF Df!StashedElsewhere, Calmly
<1>2. /\ diffDisk[d] \in Edits /\ [diffDisk EXCEPT ![d] = Df!Clean] \in [Folders -> Edits]
      /\ \A e \in Folders, y \in DiffFiles :
           [diffDisk EXCEPT ![d] = Df!Clean][e][y] = diffDisk[e][y] \/ diffDisk[e][y] = 0 \/ diffDisk[d][y] = diffDisk[e][y]
  BY CleanFits DEF GitFits, GitTypes
<1>3. GitFits' /\ Len(diffMade') = Len(diffMade) + 1
  BY <1>1, <1>2, StashKeeps
<1>4. ScreenFits' /\ PickFits' /\ BoxFits'
  BY <1>1, <1>3, ScreenGrows, PicksGrow, BoxStands, Counts DEF Df!message
<1>5. JobsFit'
  BY <1>1 DEF JobsFit, JobTypes, AskedFits, JobFits, Sure, Df!message
<1> QED
  BY <1>3, <1>4, <1>5

LEMMA DiffStutters ==
    ASSUME DiffInv, UNCHANGED Df!dvvars
    PROVE  DiffInv'
<1>1. UNCHANGED <<Df!git, diffOpen, dir, diffGen, drawn, diffShown, stashes, picked, box, diffDrafts, unsaid, diffReads, diffAsked, diffJob, dvActs>>
  BY DEF Df!dvvars, Df!git
<1>2. dvActs' \in Nat
  BY <1>1 DEF DiffInv, BoxFits, BoxTypes
<1> QED
  BY <1>1, <1>2, GitStands, ScreenStands, PicksStand, BoxStands, JobsStand DEF DiffInv, Df!git

LEMMA DiffNext ==
    ASSUME Calmly, DiffInv, [Df!Next]_(Df!dvvars)
    PROVE  DiffInv'
<1> USE DEF DiffInv
<1>1. CASE Df!Next
  <2>1. ASSUME NEW d \in Folders, NEW tab \in {"work", "stashes"}, Df!OpenDiff(d, tab) PROVE DiffInv'
    BY <2>1, DiffOpens
  <2>2. ASSUME NEW d \in Folders, Df!StashedElsewhere(d) PROVE DiffInv'
    BY <2>2, ElsewhereStep
  <2>3. ASSUME NEW d \in Folders, NEW x \in DiffFiles, Df!Edited(d, x) PROVE DiffInv'
    BY <2>3, EditedStep
  <2>4. CASE Df!CloseDiff \/ Df!Repaint \/ Df!PickAll \/ Df!Type
    BY <2>4, DiffCloses, RepaintStep, PicksStep, TypeStep
  <2>5. CASE Df!CommitPicked \/ Df!StashPicked \/ Df!GitRuns \/ Df!WriteEnds
    BY <2>5, CommitsStep, GitRunsStep, EndsStep
  <2>6. ASSUME NEW tab \in {"work", "stashes"}, Df!ToTab(tab) PROVE DiffInv'
    BY <2>6, ToTabStep
  <2>7. ASSUME NEW r \in diffReads, Df!GitReads(r) \/ Df!Lands(r) \/ Df!ReadFails(r) PROVE DiffInv'
    BY <2>7, ReadsStep, LandsStep, FailsStep
  <2>8. ASSUME NEW x \in DiffFiles, Df!Tick(x) \/ Df!DiscardHunk(x) PROVE DiffInv'
    <3>1. {} \in SUBSET DiffFiles
      OBVIOUS
    <3> QED
      BY <2>8, <3>1, PicksStep, DiscardsStep
  <2>9. ASSUME NEW sel \in SUBSET DiffFiles, Df!DiscardFiles(sel) PROVE DiffInv'
    <3>1. PICK x \in DiffFiles : TRUE
      BY <2>9 DEF Df!DiscardFiles
    <3> QED
      BY <2>9, DiscardsStep
  <2>10. ASSUME NEW id \in drawn.ids \cup {diffShown}, Df!OpensStash(id) PROVE DiffInv'
    BY <2>10, OpensStashStep
  <2>11. ASSUME NEW id \in drawn.ids \cup {diffShown}, NEW verb \in {"apply", "pop", "drop"}, Df!StashOp(verb, id) PROVE DiffInv'
    BY <2>11, StashOpStep
  <2>12. ASSUME NEW yes \in BOOLEAN, Df!Answers(yes) PROVE DiffInv'
    BY <2>12, AnswersStep
  <2> HIDE DEF DiffInv
  <2> QED
    BY <1>1, <2>1, <2>2, <2>3, <2>4, <2>5, <2>6, <2>7, <2>8, <2>9, <2>10, <2>11, <2>12 DEF Df!Next
<1>2. CASE UNCHANGED Df!dvvars
  BY <1>2, DiffStutters
<1> QED
  BY <1>1, <1>2

\* Whatever agents and other terminals do to the same files and the stash meanwhile, every edit made is on disk,
\* in a stash, committed, or given up by somebody who was shown it, and no message typed is lost (discardFiles,
\* discardHunk, stashOp, commitPicked, drafts; git_discard, git_discard_hunk, git_stash), but for the orders of Calm.
THEOREM DiffKeepsWork ==
    ASSUME Calmly
    PROVE  Df!Spec => [](Df!NothingElseIsLost /\ Df!DraftsStay)
<1>1. Df!Init => DiffInv
  BY DiffBegins
<1>2. DiffInv /\ [Df!Next]_(Df!dvvars) => DiffInv'
  BY DiffNext
<1>3. DiffInv => Df!NothingElseIsLost /\ Df!DraftsStay
  BY SafeIsKept DEF DiffInv, GitFits, GitTypes, BoxFits
<1> QED
  BY <1>1, <1>2, <1>3, PTL DEF Df!Spec

-----------------------------------------------------------------------------
(* The project dashboard (Dashboard).                                       *)

CONSTANTS Days, Closed, Team, Rushed, DashActs
VARIABLES
    dashWatched, dashTierOf, dashMode, dashRoot, dashKnown, dashTier, dashShown, dashWait, dashCalls, dashThread, dashSyncing,
    dashWrite, dashLines, dashFrom, dashRedone, dashFile, dashServer, dashQueue, dashTried, dashActs
Db == INSTANCE Dashboard WITH
    Projects <- Repos, Acts <- DashActs, watched <- dashWatched, tierOf <- dashTierOf, mode <- dashMode, root <- dashRoot, known <- dashKnown,
    tier <- dashTier, shown <- dashShown, wait <- dashWait, calls <- dashCalls, thread <- dashThread,
    syncing <- dashSyncing, write <- dashWrite, lines <- dashLines, from <- dashFrom, redone <- dashRedone,
    file <- dashFile, server <- dashServer, queue <- dashQueue, tried <- dashTried, acts <- dashActs

\* What the theorem assumes: the stage stays while something is written for its project.
WritesWait == Rushed = FALSE /\ Nowhere \notin Repos /\ 0 \notin Days

DashCounts == [Db!Kinds -> [Repos -> Nat]]
Passes == [on : {TRUE}, again : BOOLEAN, root : Repos, scope : {"me", "team"}, todo : SUBSET Days, day : Days \cup {0}]
StageTypes ==
    /\ dashRoot \in Repos \cup {Nowhere} /\ dashCalls \in DashCounts /\ dashShown \in [Db!Answers -> Repos \cup {Nowhere}]
    /\ dashSyncing \in [root : Repos \cup {Nowhere}, op : {"pull", "push"}, at : {"fetch", "read", "op"}] /\ dashQueue \in Passes \cup {Db!Idle}
    /\ dashWrite = [root |-> dashWrite.root, slot |-> dashWrite.slot]
\* The stage stands while something is written for its project.
WritesHere == dashWrite.root # Nowhere => dashWrite.root = dashRoot
BodyOfThread == dashRoot # Nowhere /\ "body" \in dashWait => dashThread.at \in Db!Threads
\* A line is in hand, was asked for, or is of nobody else.
HasLine(scope, d) == <<scope, d, dashRoot>> \in dashLines \cup dashTried \/ (scope = "team" /\ d \notin Team)
\* The pass has been asked to go round again, or is about this project and has what it left behind.
Progress ==
    /\ dashQueue.root = dashRoot
    /\ dashQueue.scope = "me" => \A d \in Days : d \in dashQueue.todo \/ d = dashQueue.day \/ HasLine("me", d)
    /\ dashQueue.scope = "team" => \A d \in Days : HasLine("me", d) /\ (d \in dashQueue.todo \/ d = dashQueue.day \/ HasLine("team", d))
LoadOver == "lines" \in dashWatched /\ dashRoot # Nowhere /\ dashShown["days"] = dashRoot /\ "days" \notin dashWait
Bought ==
    IF dashQueue.on THEN dashQueue.again \/ Progress ELSE \A d \in Days : HasLine("me", d) /\ HasLine("team", d)
QueueServes == LoadOver => Bought
DashInv == StageTypes /\ WritesHere /\ BodyOfThread /\ Db!StageIsItsOwn /\ QueueServes

LEMMA DashBegins ==
    ASSUME WritesWait, Db!Init
    PROVE  DashInv
<1>1. StageTypes
  BY DEF Db!Init, StageTypes, DashCounts, Db!NoOp
<1> QED
  BY <1>1 DEF Db!Init, DashInv, WritesHere, BodyOfThread, Db!StageIsItsOwn, QueueServes, LoadOver

\* Asking adds to what is on its way, and what is followed is on its way.
LEMMA AskFits ==
    ASSUME NEW c \in DashCounts, NEW K, NEW x \in Repos
    PROVE  /\ Db!Ask(c, K, x) \in DashCounts
           /\ \A k \in Db!Kinds, y \in Repos : Db!Ask(c, K, x)[k][y] >= c[k][y]
           /\ \A k \in Db!Kinds : k \in K /\ (k \in dashWatched \/ k \notin Db!Parallel) => Db!Ask(c, K, x)[k][x] > 0
BY DEF Db!Ask, Db!Followed, DashCounts

LEMMA HeardFits ==
    ASSUME dashCalls \in DashCounts, NEW k \in Db!Kinds, NEW x \in Repos, dashCalls[k][x] > 0
    PROVE  /\ Db!Heard(k, x) \in DashCounts
           /\ \A j \in Db!Kinds, y \in Repos : j # k \/ y # x => Db!Heard(k, x)[j][y] = dashCalls[j][y]
BY DEF Db!Heard, DashCounts

LEMMA KindsAre ==
    /\ Db!Parallel \subseteq Db!Kinds /\ Db!Threads \subseteq Db!Kinds /\ {"facts", "reads", "bare", "digest"} \subseteq Db!Kinds
    /\ {"facts", "reads", "bare", "digest"} \cap Db!Parallel = {} /\ Db!Threads \cap Db!Parallel = {}
    /\ Db!Parallel \subseteq Db!Answers /\ {"gh", "kept", "dep", "work", "landed", "days", "body", "shared", "protect"} \subseteq Db!Answers
    /\ "days" \notin Db!Parallel /\ "body" \notin Db!Parallel
BY DEF Db!Kinds, Db!Parallel, Db!Threads, Db!Answers, Db!Written

LEMMA BeginFits ==
    ASSUME WritesWait, DashInv, dashRoot' \in Repos, NEW w, Db!Begin(dashCalls, w),
           dashRoot' = dashRoot => w = dashWait /\ UNCHANGED <<dashShown, dashThread>>,
           dashRoot' # dashRoot => w = {} /\ dashShown' = [a \in Db!Answers |-> Nowhere] /\ dashThread' = Db!NoThread
    PROVE  /\ dashCalls' \in DashCounts /\ dashShown' \in [Db!Answers -> Repos \cup {Nowhere}]
           /\ BodyOfThread' /\ Db!StageIsItsOwn' /\ QueueServes'
<1>1. /\ dashCalls' \in DashCounts /\ (\A k \in Db!Kinds, y \in Repos : dashCalls'[k][y] >= dashCalls[k][y]) /\ dashCalls'["facts"][dashRoot'] > 0
      /\ dashWait' = (w \ {"gh"}) \cup {"days"}
  BY AskFits, KindsAre DEF Db!Begin, DashInv, StageTypes
<1>2. ASSUME dashRoot' = dashRoot
      PROVE  Db!StageIsItsOwn' /\ BodyOfThread' /\ dashShown' \in [Db!Answers -> Repos \cup {Nowhere}]
  <2>1. dashWait' \subseteq dashWait \cup {"days"}
    BY <1>1, <1>2
  <2>4. dashRoot # Nowhere /\ \A k \in Db!Kinds : dashCalls[k][dashRoot] > 0 => dashCalls'[k][dashRoot] > 0
    BY <1>1, <1>2 DEF DashInv, StageTypes, DashCounts, WritesWait
  <2>2. \A k \in dashWait' \cap Db!Parallel : dashCalls'[k][dashRoot'] > 0
    BY <1>2, <2>1, <2>4, KindsAre DEF DashInv, Db!StageIsItsOwn
  <2>3. "body" \in dashWait' => dashThread'.at \in Db!Threads /\ dashCalls'[dashThread'.at][dashRoot'] > 0
    BY <1>2, <2>1, <2>4, KindsAre DEF DashInv, Db!StageIsItsOwn, BodyOfThread
  <2> QED
    BY <1>1, <1>2, <2>2, <2>3 DEF DashInv, Db!StageIsItsOwn, BodyOfThread, StageTypes
<1>3. ASSUME dashRoot' # dashRoot
      PROVE  Db!StageIsItsOwn' /\ BodyOfThread' /\ dashShown' \in [Db!Answers -> Repos \cup {Nowhere}]
  BY <1>1, <1>3, KindsAre DEF Db!StageIsItsOwn, BodyOfThread, Db!NoThread
<1>4. QueueServes'
  BY <1>1 DEF QueueServes, LoadOver
<1> QED
  BY <1>1, <1>2, <1>3, <1>4

\* What is bought stays while the stage and the queue stand.
LEMMA BoughtStands ==
    ASSUME Bought, dashRoot' = dashRoot, dashQueue' = dashQueue, dashLines \subseteq dashLines', dashTried \subseteq dashTried'
    PROVE  Bought'
BY DEF Bought, Progress, HasLine

\* The stage: it and its skeletons stand, calls only grow.
LEMMA StageStands ==
    ASSUME DashInv, UNCHANGED <<dashRoot, dashShown, dashWait, dashThread>>, dashCalls' \in DashCounts,
           \A k \in Db!Kinds, y \in Repos : dashCalls'[k][y] >= dashCalls[k][y]
    PROVE  Db!StageIsItsOwn' /\ BodyOfThread'
<1>1. dashRoot # Nowhere => \A k \in Db!Kinds : dashCalls[k][dashRoot] > 0 => dashCalls'[k][dashRoot] > 0
  BY DEF DashInv, StageTypes, DashCounts
<1> QED
  BY <1>1, KindsAre DEF DashInv, Db!StageIsItsOwn, BodyOfThread

LEMMA OpenDash ==
    ASSUME WritesWait, DashInv, NEW x \in Repos, Db!OpenDashboard(x)
    PROVE  DashInv'
<1>1. /\ dashRoot' = x /\ dashWrite.root = Nowhere /\ UNCHANGED <<Db!chosen, dashSyncing, dashWrite, Db!disk, dashQueue>>
  BY DEF Db!OpenDashboard, Db!Moves, WritesWait
<1>2. /\ dashCalls' \in DashCounts /\ dashShown' \in [Db!Answers -> Repos \cup {Nowhere}]
      /\ BodyOfThread' /\ Db!StageIsItsOwn' /\ QueueServes'
  BY BeginFits DEF Db!OpenDashboard, Db!Cleared
<1> QED
  BY <1>1, <1>2 DEF DashInv, StageTypes, WritesHere

LEMMA CloseDash ==
    ASSUME WritesWait, DashInv, Db!CloseDashboard
    PROVE  DashInv'
BY DEF Db!CloseDashboard, Db!Moves, WritesWait, DashInv, StageTypes, WritesHere, BodyOfThread, Db!StageIsItsOwn, QueueServes, LoadOver, Db!loads

LEMMA ReloadDash ==
    ASSUME WritesWait, DashInv, Db!Reload
    PROVE  DashInv'
<1>1. dashRoot' = dashRoot /\ dashRoot \in Repos /\ Db!Begin(dashCalls, dashWait) /\ UNCHANGED <<Db!chosen, dashShown, dashThread, dashSyncing, dashWrite, dashQueue>>
  BY DEF Db!Reload, DashInv, StageTypes
<1>2. /\ dashCalls' \in DashCounts /\ dashShown' \in [Db!Answers -> Repos \cup {Nowhere}]
      /\ BodyOfThread' /\ Db!StageIsItsOwn' /\ QueueServes'
  BY <1>1, BeginFits
<1> QED
  BY <1>1, <1>2 DEF DashInv, StageTypes, WritesHere

LEMMA FactsStep ==
    ASSUME WritesWait, DashInv, NEW x \in Repos, NEW t, Db!Facts(x, t)
    PROVE  DashInv'
<1>1. /\ UNCHANGED <<Db!chosen, dashRoot, dashThread, dashSyncing, dashWrite, dashLines, dashFrom, dashRedone, Db!disk, dashQueue, dashTried, dashActs>>
      /\ dashCalls["facts"][x] > 0 /\ dashCalls \in DashCounts
  BY DEF Db!Facts, DashInv, StageTypes
<1>2. /\ Db!Heard("facts", x) \in DashCounts
      /\ \A j \in Db!Kinds, y \in Repos : j # "facts" \/ y # x => Db!Heard("facts", x)[j][y] = dashCalls[j][y]
  BY <1>1, HeardFits, KindsAre
<1>3. CASE x # dashRoot
  <2>1. dashCalls' = Db!Heard("facts", x) /\ UNCHANGED <<dashShown, dashWait>>
    BY <1>3 DEF Db!Facts
  <2>2. dashRoot # Nowhere => \A k \in Db!Kinds : dashCalls'[k][dashRoot] = dashCalls[k][dashRoot]
    BY <1>2, <1>3, <2>1 DEF DashInv, StageTypes
  <2>3. Db!StageIsItsOwn' /\ BodyOfThread'
    BY <1>1, <2>1, <2>2, KindsAre DEF DashInv, Db!StageIsItsOwn, BodyOfThread
  <2>4. QueueServes'
    BY <1>1, <2>1, BoughtStands DEF DashInv, QueueServes, LoadOver, Db!chosen
  <2> QED
    BY <1>1, <1>2, <2>1, <2>3, <2>4 DEF DashInv, StageTypes, WritesHere
<1>4. CASE x = dashRoot
  <2> dashRoot # Nowhere
    BY <1>4 DEF WritesWait
  <2> DEFINE K == {"manifests", IF t = "none" THEN "bare" ELSE "reads"} \cup (IF t = "github" THEN {"gh", "dep"} ELSE {})
  <2>1. /\ dashCalls' = Db!Ask(Db!Heard("facts", x), K, x)
        /\ dashWait' = dashWait \cup (IF t = "github" THEN {"gh", "dep"} \cap dashWatched ELSE {})
        /\ dashShown' = IF t = "github" THEN dashShown ELSE [dashShown EXCEPT !["gh"] = Nowhere, !["kept"] = Nowhere, !["dep"] = Nowhere]
    BY <1>4 DEF Db!Facts
  <2>2. \E k \in {"bare", "reads"} : k \in K
    OBVIOUS
  <2>3. t = "github" => "gh" \in K /\ "dep" \in K
    OBVIOUS
  <2> HIDE DEF K
  <2>4. /\ dashCalls' \in DashCounts
        /\ \A k \in Db!Kinds, y \in Repos : dashCalls'[k][y] >= Db!Heard("facts", x)[k][y]
        /\ \A k \in Db!Kinds : k \in K /\ (k \in dashWatched \/ k \notin Db!Parallel) => dashCalls'[k][x] > 0
    BY <2>1, <1>2, AskFits
  <2>5. \A k \in Db!Kinds \ {"facts"} : dashCalls[k][x] > 0 => dashCalls'[k][x] > 0
    BY <1>1, <1>2, <2>4 DEF DashCounts
  <2>6. \E k \in {"facts", "reads", "bare", "digest"} : dashCalls'[k][dashRoot] > 0
    BY <1>4, <2>2, <2>4, KindsAre
  <2>7. \A k \in dashWait' \cap Db!Parallel : dashCalls'[k][dashRoot] > 0
    <3>1. "gh" \in Db!Parallel /\ "dep" \in Db!Parallel
      BY DEF Db!Parallel
    <3> QED
      BY <3>1, <1>4, <2>1, <2>3, <2>4, <2>5, KindsAre DEF DashInv, Db!StageIsItsOwn
  <2>8. "body" \in dashWait' => dashThread.at \in Db!Threads /\ dashCalls'[dashThread.at][dashRoot] > 0
    <3>1. "body" \in dashWait' => "body" \in dashWait
      BY <2>1
    <3> QED
      BY <3>1, <1>4, <2>5, KindsAre DEF DashInv, Db!StageIsItsOwn, BodyOfThread, Db!Threads
  <2>9. dashShown' \in [Db!Answers -> Repos \cup {Nowhere}] /\ \A a \in Db!Answers : dashShown'[a] \in {Nowhere, dashShown[a]}
    BY <2>1 DEF DashInv, StageTypes
  <2>10. dashShown'["days"] = dashShown["days"] /\ ("days" \in dashWait' <=> "days" \in dashWait)
    BY <2>1, KindsAre DEF DashInv, StageTypes
  <2>11. Db!StageIsItsOwn' /\ BodyOfThread'
    BY <1>1, <2>6, <2>7, <2>8, <2>9 DEF DashInv, Db!StageIsItsOwn, BodyOfThread
  <2>12. QueueServes'
    BY <1>1, <2>10, BoughtStands DEF DashInv, QueueServes, LoadOver, Db!chosen
  <2> QED
    BY <1>1, <2>4, <2>9, <2>11, <2>12 DEF DashInv, StageTypes, WritesHere
<1> QED
  BY <1>3, <1>4

\* Where the list of days has come, the queue serves it.
LEMMA LoadedServes ==
    ASSUME StageTypes, dashRoot \in Repos, dashRoot' = dashRoot, dashWatched' = dashWatched, dashQueue' = Db!Requested
    PROVE  QueueServes' /\ dashQueue' \in Passes \cup {Db!Idle}
<1>1. CASE "lines" \notin dashWatched
  BY <1>1 DEF Db!Requested, QueueServes, LoadOver, StageTypes
<1>2. CASE "lines" \in dashWatched /\ dashQueue.on
  <2>1. dashQueue \in Passes /\ dashQueue' = [dashQueue EXCEPT !.again = TRUE]
    BY <1>2 DEF Db!Requested, StageTypes, Db!Idle
  <2>2. dashQueue' \in Passes /\ dashQueue'.on /\ dashQueue'.again
    BY <2>1 DEF Passes
  <2> QED
    BY <2>2 DEF QueueServes, Bought
<1>3. CASE "lines" \in dashWatched /\ ~ dashQueue.on
  <2>1. dashQueue' = Db!Pass(dashRoot, FALSE)
    BY <1>3 DEF Db!Requested
  <2>2. /\ dashQueue' \in Passes
        /\ dashQueue'.on /\ dashQueue'.root = dashRoot /\ dashQueue'.scope = "me" /\ dashQueue'.todo = Days
    BY <2>1 DEF Db!Pass, Passes
  <2> QED
    BY <2>2 DEF QueueServes, Bought, Progress
<1> QED
  BY <1>1, <1>2, <1>3

\* The queue, where the load is under way or the stage and what it has stand.
LEMMA ServesOn ==
    ASSUME QueueServes, dashRoot' = dashRoot, dashWatched' = dashWatched, dashQueue' = dashQueue, dashLines \subseteq dashLines', dashTried \subseteq dashTried',
           "days" \in dashWait => "days" \in dashWait', dashShown'["days"] = dashRoot => dashShown["days"] = dashRoot \/ "days" \in dashWait'
    PROVE  QueueServes'
BY BoughtStands DEF QueueServes, LoadOver

\* An answer about another project changes nothing here.
LEMMA HeardElsewhere ==
    ASSUME WritesWait, DashInv, NEW k \in Db!Kinds, NEW x \in Repos, dashCalls[k][x] > 0, x # dashRoot,
           dashCalls' = Db!Heard(k, x), UNCHANGED <<dashRoot, dashShown, dashWait, dashThread>>
    PROVE  dashCalls' \in DashCounts /\ Db!StageIsItsOwn' /\ BodyOfThread'
<1>1. /\ dashCalls' \in DashCounts
      /\ \A j \in Db!Kinds, y \in Repos : j # k \/ y # x => dashCalls'[j][y] = dashCalls[j][y]
  BY HeardFits DEF DashInv, StageTypes
<1>2. dashRoot # Nowhere => \A j \in Db!Kinds : dashCalls'[j][dashRoot] = dashCalls[j][dashRoot]
  BY <1>1 DEF DashInv, StageTypes
<1> QED
  BY <1>1, <1>2, KindsAre DEF DashInv, Db!StageIsItsOwn, BodyOfThread

\* A step of a load: one of its questions is answered, others are asked, and skeletons go up only over what was asked.
LEMMA LoadGoesOn ==
    ASSUME DashInv, dashRoot \in Repos, UNCHANGED <<dashRoot, dashThread>>,
           \A a \in Db!Answers : dashShown'[a] \in {Nowhere, dashRoot},
           NEW j \in {"facts", "reads", "bare", "digest"}, \A k \in Db!Kinds \ {j} : dashCalls[k][dashRoot] > 0 => dashCalls'[k][dashRoot] > 0,
           NEW L, L \subseteq Db!Parallel, dashWait' \subseteq dashWait \cup L, \A k \in L : dashCalls'[k][dashRoot] > 0,
           "days" \in dashWait' => \E k \in {"facts", "reads", "bare", "digest"} : dashCalls'[k][dashRoot] > 0
    PROVE  Db!StageIsItsOwn' /\ BodyOfThread'
<1>1. CASE dashRoot = Nowhere
  BY <1>1 DEF Db!StageIsItsOwn, BodyOfThread
<1>2. CASE dashRoot # Nowhere
  <2>1. \A k \in dashWait' \cap Db!Parallel : dashCalls'[k][dashRoot] > 0
    BY <1>2, KindsAre DEF DashInv, Db!StageIsItsOwn
  <2>2. j \notin Db!Threads
    BY DEF Db!Threads
  <2>3. "body" \in dashWait' => dashThread.at \in Db!Threads /\ dashCalls'[dashThread.at][dashRoot] > 0
    BY <1>2, <2>2, KindsAre DEF DashInv, Db!StageIsItsOwn, BodyOfThread
  <2> QED
    BY <1>2, <2>1, <2>3 DEF DashInv, Db!StageIsItsOwn, BodyOfThread
<1> QED
  BY <1>1, <1>2

LEMMA DashReadsStep ==
    ASSUME WritesWait, DashInv, NEW x \in Repos, Db!Reads(x)
    PROVE  DashInv'
<1>1. /\ UNCHANGED <<Db!chosen, dashRoot, dashKnown, dashTier, dashThread, dashSyncing, dashWrite, dashFrom, dashRedone, Db!disk, dashTried, dashActs>>
      /\ dashCalls["reads"][x] > 0 /\ dashCalls \in DashCounts /\ dashWatched' = dashWatched
  BY DEF Db!Reads, DashInv, StageTypes, Db!chosen
<1>2. /\ Db!Heard("reads", x) \in DashCounts
      /\ \A j \in Db!Kinds, y \in Repos : j # "reads" \/ y # x => Db!Heard("reads", x)[j][y] = dashCalls[j][y]
  BY <1>1, HeardFits, KindsAre
<1>3. CASE x # dashRoot
  <2>1. dashCalls' = Db!Heard("reads", x) /\ UNCHANGED <<dashShown, dashWait, dashLines, dashQueue>>
    BY <1>3 DEF Db!Reads
  <2>2. dashCalls' \in DashCounts /\ Db!StageIsItsOwn' /\ BodyOfThread'
    BY <1>1, <1>3, <2>1, HeardElsewhere, KindsAre
  <2>3. QueueServes'
    BY <1>1, <2>1, ServesOn DEF DashInv
  <2> QED
    BY <1>1, <2>1, <2>2, <2>3 DEF DashInv, StageTypes, WritesHere
<1>4. CASE x = dashRoot
  <2> DEFINE more == IF dashFile[x] = {} THEN {"digest"} ELSE {}
             K == {"work", "landed"} \cup more
  <2>1. /\ dashCalls' = Db!Ask(Db!Heard("reads", x), K, x) /\ dashLines \subseteq dashLines'
        /\ dashShown' = [dashShown EXCEPT !["shared"] = x, !["days"] = IF more = {} THEN x ELSE @]
        /\ IF more = {} THEN Db!Loaded ELSE dashWait' = dashWait \cup ({"landed"} \cap dashWatched) /\ UNCHANGED dashQueue
    BY <1>4 DEF Db!Reads
  <2>2. "landed" \in K /\ (more # {} => "digest" \in K)
    OBVIOUS
  <2> HIDE DEF K, more
  <2>3. /\ dashCalls' \in DashCounts
        /\ \A k \in Db!Kinds, y \in Repos : dashCalls'[k][y] >= Db!Heard("reads", x)[k][y]
        /\ \A k \in Db!Kinds : k \in K /\ (k \in dashWatched \/ k \notin Db!Parallel) => dashCalls'[k][x] > 0
    BY <2>1, <1>2, AskFits
  <2>4. \A k \in Db!Kinds \ {"reads"} : dashCalls[k][dashRoot] > 0 => dashCalls'[k][dashRoot] > 0
    BY <1>1, <1>2, <1>4, <2>3 DEF DashCounts
  <2>5. \A k \in {"landed"} \cap dashWatched : k \in Db!Parallel /\ dashCalls'[k][dashRoot] > 0
    BY <1>4, <2>2, <2>3, KindsAre DEF Db!Parallel
  <2>6. /\ dashShown' \in [Db!Answers -> Repos \cup {Nowhere}] /\ \A a \in Db!Answers : dashShown'[a] \in {Nowhere, dashRoot}
        /\ more # {} => dashShown'["days"] = dashShown["days"]
    <3>1. dashShown \in [Db!Answers -> Repos \cup {Nowhere}] /\ (\A a \in Db!Answers : dashShown[a] \in {Nowhere, dashRoot}) /\ "days" \in Db!Answers
      BY <1>4, KindsAre DEF WritesWait, DashInv, StageTypes, Db!StageIsItsOwn
    <3> QED
      BY <3>1, <2>1, <1>4
  <2>7. CASE more = {}
    <3>1. dashWait' \subseteq dashWait \cup ({"landed"} \cap dashWatched) /\ "days" \notin dashWait' /\ dashQueue' = Db!Requested
      BY <2>1, <2>7, KindsAre DEF Db!Loaded, Db!Followed, Db!Parallel
    <3>2. Db!StageIsItsOwn' /\ BodyOfThread'
      BY <1>1, <1>4, <2>4, <2>5, <2>6, <3>1, LoadGoesOn
    <3>3. QueueServes' /\ dashQueue' \in Passes \cup {Db!Idle}
      BY <1>1, <1>4, <3>1, LoadedServes DEF DashInv
    <3> QED
      BY <1>1, <2>3, <2>6, <3>2, <3>3 DEF DashInv, StageTypes, WritesHere
  <2>8. CASE more # {}
    <3>1. dashWait' = dashWait \cup ({"landed"} \cap dashWatched) /\ dashQueue' = dashQueue /\ dashCalls'["digest"][dashRoot] > 0
      BY <1>4, <2>1, <2>2, <2>3, <2>8, KindsAre
    <3>2. Db!StageIsItsOwn' /\ BodyOfThread'
      BY <1>1, <1>4, <2>4, <2>5, <2>6, <3>1, LoadGoesOn
    <3>3. QueueServes'
      BY <1>1, <2>1, <2>6, <2>8, <3>1, ServesOn DEF DashInv
    <3> QED
      BY <1>1, <2>3, <2>6, <3>1, <3>2, <3>3 DEF DashInv, StageTypes, WritesHere
  <2> QED
    BY <2>7, <2>8
<1> QED
  BY <1>3, <1>4

LEMMA RestStep ==
    ASSUME WritesWait, DashInv, NEW k \in Db!Kinds, NEW x \in Repos, Db!Rest(k, x)
    PROVE  DashInv'
<1>1. /\ UNCHANGED <<Db!chosen, dashRoot, dashKnown, dashTier, dashThread, dashSyncing, dashWrite, dashLines, dashFrom, dashRedone, Db!disk, dashTried, dashActs>>
      /\ dashCalls[k][x] > 0 /\ dashCalls \in DashCounts /\ dashWatched' = dashWatched /\ dashCalls' = Db!Heard(k, x) /\ k \in {"bare", "digest"}
  BY DEF Db!Rest, DashInv, StageTypes, Db!chosen
<1>2. /\ Db!Heard(k, x) \in DashCounts
      /\ \A j \in Db!Kinds, y \in Repos : j # k \/ y # x => Db!Heard(k, x)[j][y] = dashCalls[j][y]
  BY <1>1, HeardFits
<1>3. CASE x # dashRoot
  <2>1. UNCHANGED <<dashShown, dashWait, dashQueue>>
    BY <1>3 DEF Db!Rest
  <2>2. dashCalls' \in DashCounts /\ Db!StageIsItsOwn' /\ BodyOfThread'
    BY <1>1, <1>3, <2>1, HeardElsewhere
  <2>3. QueueServes'
    BY <1>1, <2>1, ServesOn DEF DashInv
  <2> QED
    BY <1>1, <2>1, <2>2, <2>3 DEF DashInv, StageTypes, WritesHere
<1>4. CASE x = dashRoot
  <2>1. /\ Db!Loaded
        /\ dashShown' = IF k = "digest" THEN [dashShown EXCEPT !["days"] = x]
                    ELSE [dashShown EXCEPT !["days"] = x, !["shared"] = x, !["work"] = Nowhere, !["landed"] = Nowhere]
    BY <1>4 DEF Db!Rest
  <2>2. dashCalls'["landed"] = dashCalls["landed"]
    BY <1>1 DEF Db!Heard, DashCounts
  <2>3. dashWait' = dashWait \ {"days"} /\ dashQueue' = Db!Requested
    BY <2>1, <2>2 DEF Db!Loaded
  <2>4. \A j \in Db!Kinds \ {k} : dashCalls[j][dashRoot] > 0 => dashCalls'[j][dashRoot] > 0
    BY <1>1, <1>2, <1>4
  <2>5. dashShown' \in [Db!Answers -> Repos \cup {Nowhere}] /\ \A a \in Db!Answers : dashShown'[a] \in {Nowhere, dashRoot}
    <3>1. dashShown \in [Db!Answers -> Repos \cup {Nowhere}] /\ (\A a \in Db!Answers : dashShown[a] \in {Nowhere, dashRoot})
      BY <1>4 DEF WritesWait, DashInv, StageTypes, Db!StageIsItsOwn
    <3> QED
      BY <3>1, <2>1, <1>4
  <2>6. Db!StageIsItsOwn' /\ BodyOfThread'
    <3>1. \A j \in dashWait' \cap Db!Parallel : dashCalls'[j][dashRoot] > 0
      BY <1>1, <1>4, <2>3, <2>4, KindsAre DEF WritesWait, DashInv, Db!StageIsItsOwn
    <3>2. "days" \notin dashWait'
      BY <2>3
    <3>3. "body" \in dashWait' => dashThread.at \in Db!Threads /\ dashCalls'[dashThread.at][dashRoot] > 0
      BY <1>1, <1>4, <2>3, <2>4, KindsAre DEF WritesWait, DashInv, Db!StageIsItsOwn, BodyOfThread, Db!Threads
    <3>4. dashThread.body \in {Nowhere, dashThread.at}
      BY <1>4 DEF WritesWait, DashInv, Db!StageIsItsOwn
    <3> QED
      BY <1>1, <2>5, <3>1, <3>2, <3>3, <3>4 DEF Db!StageIsItsOwn, BodyOfThread
  <2>7. QueueServes' /\ dashQueue' \in Passes \cup {Db!Idle}
    BY <1>1, <1>4, <2>3, LoadedServes DEF DashInv
  <2> QED
    BY <1>1, <1>2, <2>5, <2>6, <2>7 DEF DashInv, StageTypes, WritesHere
<1> QED
  BY <1>3, <1>4

LEMMA AnswerStep ==
    ASSUME WritesWait, DashInv, NEW k \in Db!Kinds, NEW x \in Repos, Db!Answer(k, x)
    PROVE  DashInv'
<1>1. /\ UNCHANGED <<Db!chosen, dashRoot, dashThread, dashSyncing, dashWrite, dashLines, dashFrom, dashRedone, Db!disk, dashQueue, dashTried, dashActs>>
      /\ dashCalls[k][x] > 0 /\ dashCalls \in DashCounts /\ dashWatched' = dashWatched /\ dashCalls' = Db!Heard(k, x) /\ k \in Db!Parallel
  BY DEF Db!Answer, DashInv, StageTypes, Db!chosen, Db!stage
<1>2. /\ Db!Heard(k, x) \in DashCounts
      /\ \A j \in Db!Kinds, y \in Repos : j # k \/ y # x => Db!Heard(k, x)[j][y] = dashCalls[j][y]
  BY <1>1, HeardFits
<1>3. CASE x # dashRoot
  <2>1. UNCHANGED <<dashShown, dashWait>>
    BY <1>3 DEF Db!Answer, Db!Lands
  <2>2. dashCalls' \in DashCounts /\ Db!StageIsItsOwn' /\ BodyOfThread'
    BY <1>1, <1>3, <2>1, HeardElsewhere
  <2>3. QueueServes'
    BY <1>1, <2>1, ServesOn DEF DashInv
  <2> QED
    BY <1>1, <2>1, <2>2, <2>3 DEF DashInv, StageTypes, WritesHere
<1>4. CASE x = dashRoot
  <2>1. dashWait' = dashWait \ {k} /\ dashShown' = [dashShown EXCEPT ![k] = x, !["kept"] = IF k = "gh" THEN x ELSE @]
    BY <1>4 DEF Db!Answer, Db!Lands
  <2>2. \A j \in Db!Kinds \ {k} : dashCalls[j][dashRoot] > 0 => dashCalls'[j][dashRoot] > 0
    BY <1>1, <1>2, <1>4
  <2>3. /\ dashShown' \in [Db!Answers -> Repos \cup {Nowhere}] /\ \A a \in Db!Answers : dashShown'[a] \in {Nowhere, dashRoot}
        /\ dashShown'["days"] = dashShown["days"]
    <3>1. dashShown \in [Db!Answers -> Repos \cup {Nowhere}] /\ (\A a \in Db!Answers : dashShown[a] \in {Nowhere, dashRoot}) /\ "days" \in Db!Answers /\ k # "days"
      BY <1>1, <1>4, KindsAre DEF WritesWait, DashInv, StageTypes, Db!StageIsItsOwn
    <3> QED
      BY <3>1, <2>1, <1>4
  <2>4. Db!StageIsItsOwn' /\ BodyOfThread'
    <3>1. \A j \in dashWait' \cap Db!Parallel : dashCalls'[j][dashRoot] > 0
      BY <1>4, <2>1, <2>2, KindsAre DEF WritesWait, DashInv, Db!StageIsItsOwn
    <3>2. "days" \in dashWait' => \E j \in {"facts", "reads", "bare", "digest"} : dashCalls'[j][dashRoot] > 0
      BY <1>1, <1>4, <2>1, <2>2, KindsAre DEF WritesWait, DashInv, Db!StageIsItsOwn
    <3>3. "body" \in dashWait' => dashThread.at \in Db!Threads /\ dashCalls'[dashThread.at][dashRoot] > 0
      BY <1>1, <1>4, <2>1, <2>2, KindsAre DEF WritesWait, DashInv, Db!StageIsItsOwn, BodyOfThread
    <3>4. dashThread.body \in {Nowhere, dashThread.at}
      BY <1>4 DEF WritesWait, DashInv, Db!StageIsItsOwn
    <3> QED
      BY <1>1, <2>3, <3>1, <3>2, <3>3, <3>4 DEF Db!StageIsItsOwn, BodyOfThread
  <2>5. QueueServes'
    <3>1. "days" \in dashWait => "days" \in dashWait'
      BY <1>1, <2>1, KindsAre
    <3> QED
      BY <1>1, <2>3, <3>1, ServesOn DEF DashInv
  <2> QED
    BY <1>1, <1>2, <2>3, <2>4, <2>5 DEF DashInv, StageTypes, WritesHere
<1> QED
  BY <1>3, <1>4

\* Questions are asked, skeletons go up only over what was asked, and the stage stands.
LEMMA AsksMore ==
    ASSUME DashInv, dashRoot # Nowhere => dashRoot \in Repos, UNCHANGED <<dashRoot, dashShown, dashThread>>, dashCalls' \in DashCounts,
           \A k \in Db!Kinds, y \in Repos : dashCalls'[k][y] >= dashCalls[k][y],
           NEW L, L \subseteq Db!Parallel, dashWait' \subseteq dashWait \cup L, dashRoot # Nowhere => \A k \in L : dashCalls'[k][dashRoot] > 0
    PROVE  Db!StageIsItsOwn' /\ BodyOfThread'
<1>1. dashRoot # Nowhere => \A k \in Db!Kinds : dashCalls[k][dashRoot] > 0 => dashCalls'[k][dashRoot] > 0
  BY DEF DashInv, StageTypes, DashCounts
<1> QED
  BY <1>1, KindsAre DEF DashInv, Db!StageIsItsOwn, BodyOfThread

LEMMA MoreGh ==
    ASSUME WritesWait, DashInv, Db!ReloadDashGh
    PROVE  DashInv'
<1>1. /\ dashRoot \in Repos /\ dashCalls' = Db!Ask(dashCalls, {"gh", "dep"}, dashRoot) /\ dashWait' = dashWait \cup ({"gh", "dep"} \cap dashWatched)
      /\ UNCHANGED <<Db!chosen, Db!stage, dashShown, dashThread, dashSyncing, dashWrite, dashLines, dashFrom, dashRedone, Db!disk, dashQueue, dashTried>> /\ dashWatched' = dashWatched
      /\ dashRoot' = dashRoot
  BY DEF Db!ReloadDashGh, DashInv, StageTypes, Db!stage, Db!chosen
<1>2. /\ dashCalls' \in DashCounts /\ \A k \in Db!Kinds, y \in Repos : dashCalls'[k][y] >= dashCalls[k][y]
      /\ \A k \in {"gh", "dep"} \cap dashWatched : k \in Db!Parallel /\ dashCalls'[k][dashRoot] > 0
  BY <1>1, AskFits, KindsAre DEF DashInv, StageTypes, Db!Parallel
<1>3. Db!StageIsItsOwn' /\ BodyOfThread'
  BY <1>1, <1>2, AsksMore
<1>4. QueueServes'
  BY <1>1, ServesOn DEF DashInv
<1> QED
  BY <1>1, <1>2, <1>3, <1>4 DEF DashInv, StageTypes, WritesHere

LEMMA MoreWork ==
    ASSUME WritesWait, DashInv, Db!Refresh
    PROVE  DashInv'
<1>1. /\ dashRoot \in Repos /\ dashCalls' = Db!Ask(dashCalls, {"work"}, dashRoot) /\ dashRoot' = dashRoot
      /\ UNCHANGED <<Db!chosen, Db!stage, dashShown, dashWait, dashThread, dashSyncing, dashWrite, dashLines, dashFrom, dashRedone, Db!disk, dashQueue, dashTried>> /\ dashWatched' = dashWatched
  BY DEF Db!Refresh, DashInv, StageTypes, Db!stage, Db!chosen
<1>2. /\ dashCalls' \in DashCounts /\ \A k \in Db!Kinds, y \in Repos : dashCalls'[k][y] >= dashCalls[k][y]
  BY <1>1, AskFits DEF DashInv, StageTypes
<1>3. Db!StageIsItsOwn' /\ BodyOfThread'
  BY <1>1, <1>2, StageStands
<1>4. QueueServes'
  BY <1>1, ServesOn DEF DashInv
<1> QED
  BY <1>1, <1>2, <1>3, <1>4 DEF DashInv, StageTypes, WritesHere

LEMMA ThreadOpens ==
    ASSUME WritesWait, DashInv, NEW n \in Db!Threads, Db!OpenThread(n)
    PROVE  DashInv'
<1>1. /\ dashRoot \in Repos /\ dashCalls' = Db!Ask(dashCalls, {n}, dashRoot) /\ dashRoot' = dashRoot
      /\ dashThread' = [at |-> n, body |-> Nowhere] /\ dashWait' = dashWait \cup {"body"}
      /\ UNCHANGED <<Db!chosen, Db!stage, dashShown, dashSyncing, dashWrite, dashLines, dashFrom, dashRedone, Db!disk, dashQueue, dashTried>> /\ dashWatched' = dashWatched
  BY DEF Db!OpenThread, DashInv, StageTypes, Db!stage, Db!chosen
<1>2. /\ dashCalls' \in DashCounts /\ \A k \in Db!Kinds, y \in Repos : dashCalls'[k][y] >= dashCalls[k][y]
      /\ dashCalls'[n][dashRoot] > 0
  BY <1>1, AskFits, KindsAre DEF DashInv, StageTypes
<1>3. \A k \in Db!Kinds : dashCalls[k][dashRoot] > 0 => dashCalls'[k][dashRoot] > 0
  <2>1. dashRoot \in Repos /\ dashCalls \in DashCounts
    BY <1>1 DEF DashInv, StageTypes
  <2> QED
    BY <2>1, <1>2 DEF DashCounts
<1>4. Db!StageIsItsOwn' /\ BodyOfThread'
  BY <1>1, <1>2, <1>3, KindsAre DEF WritesWait, DashInv, Db!StageIsItsOwn, BodyOfThread
<1>5. QueueServes'
  BY <1>1, ServesOn DEF DashInv
<1> QED
  BY <1>1, <1>2, <1>4, <1>5 DEF DashInv, StageTypes, WritesHere

LEMMA ThreadReadStep ==
    ASSUME WritesWait, DashInv, NEW n \in Db!Kinds, NEW x \in Repos, Db!ThreadRead(n, x)
    PROVE  DashInv'
<1>1. /\ UNCHANGED <<Db!chosen, dashRoot, dashSyncing, dashWrite, dashLines, dashFrom, dashRedone, Db!disk, dashQueue, dashTried, dashActs>>
      /\ dashCalls[n][x] > 0 /\ dashCalls \in DashCounts /\ dashWatched' = dashWatched /\ dashCalls' = Db!Heard(n, x) /\ n \in Db!Threads
  BY DEF Db!ThreadRead, DashInv, StageTypes, Db!chosen, Db!stage
<1>2. /\ Db!Heard(n, x) \in DashCounts
      /\ \A j \in Db!Kinds, y \in Repos : j # n \/ y # x => Db!Heard(n, x)[j][y] = dashCalls[j][y]
  BY <1>1, HeardFits
<1>3. CASE x # dashRoot
  <2>1. UNCHANGED <<dashShown, dashWait, dashThread>>
    BY <1>3 DEF Db!ThreadRead, Db!Lands
  <2>2. dashCalls' \in DashCounts /\ Db!StageIsItsOwn' /\ BodyOfThread'
    BY <1>1, <1>3, <2>1, HeardElsewhere
  <2>3. QueueServes'
    BY <1>1, <2>1, ServesOn DEF DashInv
  <2> QED
    BY <1>1, <2>1, <2>2, <2>3 DEF DashInv, StageTypes, WritesHere
<1>4. CASE x = dashRoot
  <2> dashRoot # Nowhere
    BY <1>4 DEF WritesWait
  <2>1. \A j \in Db!Kinds \ {n} : dashCalls[j][dashRoot] > 0 => dashCalls'[j][dashRoot] > 0
    BY <1>1, <1>2, <1>4
  <2>2. n \notin Db!Parallel /\ n \notin {"facts", "reads", "bare", "digest"} /\ "days" \in Db!Answers /\ "body" \in Db!Answers /\ "body" \notin Db!Parallel
    BY <1>1, KindsAre DEF Db!Threads, Db!Answers, Db!Parallel
  <2>3. \A a \in Db!Answers : dashShown[a] \in {Nowhere, dashRoot}
    BY DEF DashInv, Db!StageIsItsOwn
  <2>4. CASE dashThread.at = n
    <3>1. /\ dashWait' = dashWait \ {"body"} /\ dashThread' = [dashThread EXCEPT !.body = n] /\ dashShown' = [dashShown EXCEPT !["body"] = x]
      BY <1>4, <2>4 DEF Db!ThreadRead, Db!Lands
    <3>2. /\ dashShown' \in [Db!Answers -> Repos \cup {Nowhere}] /\ \A a \in Db!Answers : dashShown'[a] \in {Nowhere, dashRoot}
          /\ dashShown'["days"] = dashShown["days"]
      BY <1>4, <2>2, <2>3, <3>1 DEF DashInv, StageTypes
    <3>3. dashThread'.body \in {Nowhere, dashThread'.at}
      BY <2>4, <3>1 DEF DashInv, StageTypes
    <3>4. Db!StageIsItsOwn' /\ BodyOfThread'
      BY <1>1, <2>1, <2>2, <3>1, <3>2, <3>3, KindsAre DEF DashInv, Db!StageIsItsOwn, BodyOfThread
    <3>5. QueueServes'
      BY <1>1, <3>1, <3>2, ServesOn DEF DashInv
    <3> QED
      BY <1>1, <1>2, <3>1, <3>2, <3>4, <3>5 DEF DashInv, StageTypes, WritesHere
  <2>5. CASE dashThread.at # n
    <3>1. UNCHANGED <<dashShown, dashWait, dashThread>>
      BY <2>5 DEF Db!ThreadRead
    <3>2. Db!StageIsItsOwn' /\ BodyOfThread'
      BY <1>1, <2>1, <2>2, <2>5, <3>1, KindsAre DEF DashInv, Db!StageIsItsOwn, BodyOfThread
    <3>3. QueueServes'
      BY <1>1, <3>1, ServesOn DEF DashInv
    <3> QED
      BY <1>1, <1>2, <3>1, <3>2, <3>3 DEF DashInv, StageTypes, WritesHere
  <2> QED
    BY <2>4, <2>5
<1> QED
  BY <1>3, <1>4

\* The remote op, and the write: what they leave alone.
LEMMA StandsStill ==
    ASSUME DashInv, UNCHANGED <<Db!chosen, dashRoot, dashShown, dashWait, dashCalls, dashThread, dashQueue>>, dashLines \subseteq dashLines', dashTried \subseteq dashTried'
    PROVE  dashCalls' \in DashCounts /\ Db!StageIsItsOwn' /\ BodyOfThread' /\ QueueServes'
<1>1. Db!StageIsItsOwn' /\ BodyOfThread' /\ dashCalls' \in DashCounts
  BY DEF DashInv, Db!StageIsItsOwn, BodyOfThread, StageTypes
<1>2. QueueServes'
  BY ServesOn DEF DashInv, Db!chosen
<1> QED
  BY <1>1, <1>2

LEMMA SyncStarts ==
    ASSUME WritesWait, DashInv, NEW way \in {"pull", "push"}, Db!SyncMain(way) \/ Db!Fetched
    PROVE  DashInv'
<1>1. /\ UNCHANGED <<Db!chosen, Db!stage, Db!loads, dashWrite, dashLines, dashFrom, dashRedone, Db!disk, dashQueue, dashTried>>
      /\ dashSyncing' \in [root : Repos \cup {Nowhere}, op : {"pull", "push"}, at : {"fetch", "read", "op"}]
  BY DEF Db!SyncMain, Db!Fetched, DashInv, StageTypes
<1>2. dashCalls' \in DashCounts /\ Db!StageIsItsOwn' /\ BodyOfThread' /\ QueueServes'
  BY <1>1, StandsStill DEF Db!stage, Db!loads
<1> QED
  BY <1>1, <1>2 DEF DashInv, StageTypes, WritesHere, Db!stage, Db!loads

LEMMA ReadBackStep ==
    ASSUME WritesWait, DashInv, NEW settled, Db!ReadBack(settled)
    PROVE  DashInv'
<1>1. /\ UNCHANGED <<Db!chosen, Db!stage, dashWait, dashCalls, dashThread, dashWrite, dashLines, dashFrom, dashRedone, Db!disk, dashQueue, dashTried, dashActs>>
      /\ dashShown' = (IF dashRoot = dashSyncing.root THEN [dashShown EXCEPT !["work"] = dashRoot] ELSE dashShown)
      /\ dashSyncing' \in [root : Repos \cup {Nowhere}, op : {"pull", "push"}, at : {"fetch", "read", "op"}] /\ dashRoot' = dashRoot /\ dashWatched' = dashWatched
  BY DEF Db!ReadBack, DashInv, StageTypes, Db!NoOp, Db!stage, Db!chosen
<1>2. /\ dashShown' \in [Db!Answers -> Repos \cup {Nowhere}] /\ dashShown'["days"] = dashShown["days"]
      /\ dashRoot # Nowhere => \A a \in Db!Answers : dashShown'[a] \in {Nowhere, dashRoot}
  BY <1>1, KindsAre DEF DashInv, StageTypes, Db!StageIsItsOwn
<1>3. Db!StageIsItsOwn' /\ BodyOfThread'
  BY <1>1, <1>2 DEF DashInv, Db!StageIsItsOwn, BodyOfThread
<1>4. QueueServes'
  BY <1>1, <1>2, ServesOn DEF DashInv
<1> QED
  BY <1>1, <1>2, <1>3, <1>4 DEF DashInv, StageTypes, WritesHere

LEMMA SyncEndsStep ==
    ASSUME WritesWait, DashInv, NEW ok \in BOOLEAN, Db!SyncEnds(ok)
    PROVE  DashInv'
<1> DEFINE here == dashRoot # Nowhere /\ dashRoot = dashSyncing.root
           K == {"work"} \cup (IF ok THEN {"landed"} ELSE {})
<1>1. /\ dashSyncing' = Db!NoOp /\ dashRoot' = dashRoot /\ dashWatched' = dashWatched /\ Db!NoOp \in [root : Repos \cup {Nowhere}, op : {"pull", "push"}, at : {"fetch", "read", "op"}]
      /\ UNCHANGED <<Db!chosen, dashKnown, dashTier, dashShown, dashThread, dashWrite, Db!disk, dashQueue, dashActs>>
  BY DEF Db!SyncEnds, Db!chosen, Db!NoOp
<1>2. CASE here /\ ok /\ dashSyncing.op = "pull"
  <2>1. dashRoot \in Repos /\ Db!Begin(dashCalls, dashWait)
    BY <1>2 DEF Db!SyncEnds, DashInv, StageTypes
  <2>2. /\ dashCalls' \in DashCounts /\ dashShown' \in [Db!Answers -> Repos \cup {Nowhere}]
        /\ BodyOfThread' /\ Db!StageIsItsOwn' /\ QueueServes'
    BY <1>1, <2>1, BeginFits
  <2> QED
    BY <1>1, <2>2 DEF DashInv, StageTypes, WritesHere
<1>3. CASE ~ (here /\ ok /\ dashSyncing.op = "pull")
  <2>1. /\ dashCalls' = IF here THEN Db!Ask(dashCalls, K, dashRoot) ELSE dashCalls
        /\ dashWait' = IF here /\ ok THEN dashWait \cup ({"landed"} \cap dashWatched) ELSE dashWait
        /\ UNCHANGED <<dashLines, dashFrom, dashRedone, dashTried>>
    BY <1>3 DEF Db!SyncEnds
  <2>2. CASE here
    <3>1. dashRoot \in Repos /\ dashCalls' = Db!Ask(dashCalls, K, dashRoot) /\ dashWait' = IF ok THEN dashWait \cup ({"landed"} \cap dashWatched) ELSE dashWait
      BY <2>1, <2>2 DEF DashInv, StageTypes
    <3>2. ok => "landed" \in K
      OBVIOUS
    <3> HIDE DEF K
    <3>3. /\ dashCalls' \in DashCounts /\ \A k \in Db!Kinds, y \in Repos : dashCalls'[k][y] >= dashCalls[k][y]
          /\ ok => \A k \in {"landed"} \cap dashWatched : k \in Db!Parallel /\ dashCalls'[k][dashRoot] > 0
      BY <3>1, <3>2, AskFits, KindsAre DEF DashInv, StageTypes, Db!Parallel
    <3>4. CASE ok
      <4>1. Db!StageIsItsOwn' /\ BodyOfThread'
        BY <1>1, <3>1, <3>3, <3>4, AsksMore
      <4>2. QueueServes'
        BY <1>1, <2>1, <3>1, <3>4, ServesOn DEF DashInv
      <4> QED
        BY <1>1, <3>3, <4>1, <4>2 DEF DashInv, StageTypes, WritesHere
    <3>5. CASE ~ ok
      <4>1. Db!StageIsItsOwn' /\ BodyOfThread'
        BY <1>1, <3>1, <3>3, <3>5, StageStands
      <4>2. QueueServes'
        BY <1>1, <2>1, <3>1, <3>5, ServesOn DEF DashInv
      <4> QED
        BY <1>1, <3>3, <4>1, <4>2 DEF DashInv, StageTypes, WritesHere
    <3> QED
      BY <3>4, <3>5
  <2>3. CASE ~ here
    <3>1. dashCalls' = dashCalls /\ dashWait' = dashWait
      BY <2>1, <2>3
    <3>2. dashCalls' \in DashCounts /\ Db!StageIsItsOwn' /\ BodyOfThread' /\ QueueServes'
      BY <1>1, <2>1, <3>1, StandsStill
    <3> QED
      BY <1>1, <3>1, <3>2 DEF DashInv, StageTypes, WritesHere
  <2> QED
    BY <2>2, <2>3
<1> QED
  BY <1>2, <1>3

LEMMA WriteStarts ==
    ASSUME WritesWait, DashInv, NEW slot, Db!StartWrite(slot)
    PROVE  DashInv'
<1>1. /\ UNCHANGED <<Db!chosen, Db!stage, Db!loads, dashSyncing, dashLines, dashFrom, dashRedone, Db!disk, dashQueue, dashTried>>
      /\ dashWrite' = [root |-> dashRoot, slot |-> slot]
  BY DEF Db!StartWrite
<1>2. dashCalls' \in DashCounts /\ Db!StageIsItsOwn' /\ BodyOfThread' /\ QueueServes'
  BY <1>1, StandsStill DEF Db!stage, Db!loads
<1> QED
  BY <1>1, <1>2 DEF DashInv, StageTypes, WritesHere, Db!stage, Db!loads

\* What was written is read back into the stage that asked for it: it has not moved (Waited).
LEMMA WriteEnds ==
    ASSUME WritesWait, DashInv, NEW wrote \in BOOLEAN, Db!EndWrite(wrote)
    PROVE  DashInv'
<1>1. /\ UNCHANGED <<Db!chosen, Db!stage, dashWait, dashThread, dashSyncing, dashLines, dashFrom, dashRedone, Db!disk, dashQueue, dashTried, dashActs>>
      /\ dashRoot' = dashRoot /\ dashWatched' = dashWatched /\ dashWrite.root = dashRoot /\ dashRoot \in Repos
      /\ dashWrite' = [dashWrite EXCEPT !.root = Nowhere]
      /\ dashShown' = (IF wrote /\ dashWrite.slot \in Db!Written THEN [dashShown EXCEPT ![dashWrite.slot] = dashRoot] ELSE dashShown)
      /\ dashCalls' = (IF wrote /\ dashWrite.slot = "gh" THEN Db!Ask(dashCalls, {"gh"}, dashRoot) ELSE dashCalls)
  BY DEF Db!EndWrite, DashInv, StageTypes, WritesHere, Db!stage, Db!chosen
<1>2. /\ dashCalls' \in DashCounts /\ \A k \in Db!Kinds, y \in Repos : dashCalls'[k][y] >= dashCalls[k][y]
  <2>1. CASE wrote /\ dashWrite.slot = "gh"
    BY <1>1, <2>1, AskFits DEF DashInv, StageTypes
  <2>2. CASE ~ (wrote /\ dashWrite.slot = "gh")
    BY <1>1, <2>2 DEF DashInv, StageTypes, DashCounts
  <2> QED
    BY <2>1, <2>2
<1>3. /\ dashShown' \in [Db!Answers -> Repos \cup {Nowhere}] /\ \A a \in Db!Answers : dashShown'[a] \in {Nowhere, dashRoot}
      /\ dashShown'["days"] = dashShown["days"]
  <2>1. "days" \notin Db!Written /\ Db!Written \subseteq Db!Answers /\ "days" \in Db!Answers
    BY DEF Db!Written, Db!Answers
  <2> QED
    BY <1>1, <2>1 DEF WritesWait, DashInv, StageTypes, Db!StageIsItsOwn
<1>4. Db!StageIsItsOwn' /\ BodyOfThread'
  <2>1. \A k \in Db!Kinds : dashCalls[k][dashRoot] > 0 => dashCalls'[k][dashRoot] > 0
    BY <1>1, <1>2 DEF DashInv, StageTypes, DashCounts
  <2> QED
    BY <1>1, <1>3, <2>1, KindsAre DEF WritesWait, DashInv, Db!StageIsItsOwn, BodyOfThread
<1>5. QueueServes'
  BY <1>1, <1>3, ServesOn DEF DashInv
<1> QED
  BY <1>1, <1>2, <1>3, <1>4, <1>5 DEF DashInv, StageTypes, WritesHere

-----------------------------------------------------------------------------
(* The queue. *)

\* A pass that ends has been everywhere, or is begun again.
LEMMA PassEndsStep ==
    ASSUME WritesWait, DashInv, Db!PassEnds
    PROVE  DashInv'
<1>1. /\ UNCHANGED <<Db!chosen, Db!stage, Db!loads, dashSyncing, dashWrite, dashLines, dashFrom, dashRedone, Db!disk, dashTried, dashActs>>
      /\ dashQueue.on /\ dashQueue.day = 0 /\ (Db!Leaves \/ (dashQueue.todo = {} /\ dashQueue.scope = "team"))
      /\ dashQueue' = (IF dashQueue.again /\ dashRoot # Nowhere THEN Db!Pass(dashRoot, FALSE) ELSE Db!Idle)
      /\ dashRoot' = dashRoot /\ dashWatched' = dashWatched /\ UNCHANGED <<dashCalls, dashShown, dashWait, dashThread>>
  BY DEF Db!PassEnds, Db!Ready, Db!stage, Db!chosen, Db!loads
<1>2. Db!StageIsItsOwn' /\ BodyOfThread' /\ dashCalls' \in DashCounts
  BY <1>1 DEF DashInv, Db!StageIsItsOwn, BodyOfThread, StageTypes
<1>3. CASE dashQueue.again /\ dashRoot # Nowhere
  <2>1. dashQueue' = Db!Pass(dashRoot, FALSE) /\ dashRoot \in Repos
    BY <1>1, <1>3 DEF DashInv, StageTypes
  <2>2. dashQueue' \in Passes /\ dashQueue'.on /\ dashQueue'.root = dashRoot /\ dashQueue'.scope = "me" /\ dashQueue'.todo = Days
    BY <2>1 DEF Db!Pass, Passes
  <2>3. QueueServes'
    BY <1>1, <2>2 DEF QueueServes, Bought, Progress
  <2> QED
    BY <1>1, <1>2, <2>2, <2>3 DEF DashInv, StageTypes, WritesHere
<1>4. CASE ~ (dashQueue.again /\ dashRoot # Nowhere)
  <2>1. dashQueue' = Db!Idle /\ ~ dashQueue'.on
    BY <1>1, <1>4 DEF Db!Idle
  <2>2. QueueServes'
    <3> SUFFICES ASSUME LoadOver
                 PROVE  \A d \in Days : HasLine("me", d) /\ HasLine("team", d)
      BY <1>1, <2>1 DEF QueueServes, LoadOver, Bought, HasLine
    <3>1. Progress /\ ~ dashQueue.again
      BY <1>1, <1>4 DEF DashInv, QueueServes, Bought, LoadOver
    <3>2. dashQueue.todo = {} /\ dashQueue.scope = "team"
      BY <1>1, <3>1 DEF Db!Leaves, Progress, LoadOver
    <3> QED
      BY <1>1, <3>1, <3>2 DEF Progress, WritesWait
  <2> QED
    BY <1>1, <1>2, <2>1, <2>2 DEF DashInv, StageTypes, WritesHere
<1> QED
  BY <1>3, <1>4

LEMMA TeamStep ==
    ASSUME WritesWait, DashInv, Db!Stage2
    PROVE  DashInv'
<1>1. /\ UNCHANGED <<Db!chosen, Db!stage, Db!loads, dashSyncing, dashWrite, dashLines, dashFrom, dashRedone, Db!disk, dashTried, dashActs>>
      /\ dashQueue.on /\ dashQueue.day = 0 /\ dashQueue.todo = {} /\ dashQueue.scope = "me"
      /\ dashQueue' = [dashQueue EXCEPT !.scope = "team", !.todo = Days]
      /\ dashRoot' = dashRoot /\ dashWatched' = dashWatched /\ UNCHANGED <<dashCalls, dashShown, dashWait, dashThread>>
  BY DEF Db!Stage2, Db!Ready, Db!stage, Db!chosen, Db!loads
<1>2. Db!StageIsItsOwn' /\ BodyOfThread' /\ dashCalls' \in DashCounts
  BY <1>1 DEF DashInv, Db!StageIsItsOwn, BodyOfThread, StageTypes
<1>3. dashQueue \in Passes
  BY <1>1 DEF DashInv, StageTypes, Db!Idle
<1>4. /\ dashQueue' \in Passes /\ dashQueue'.on /\ dashQueue'.again = dashQueue.again /\ dashQueue'.root = dashQueue.root
      /\ dashQueue'.scope = "team" /\ dashQueue'.todo = Days /\ dashQueue'.day = 0
  BY <1>1, <1>3 DEF Passes
<1>5. QueueServes'
  <2> SUFFICES ASSUME LoadOver, ~ dashQueue.again
               PROVE  Progress'
    BY <1>1, <1>4 DEF QueueServes, LoadOver, Bought
  <2>1. Progress
    BY <1>1 DEF DashInv, QueueServes, Bought
  <2> QED
    BY <1>1, <1>4, <2>1 DEF Progress, HasLine, WritesWait
<1> QED
  BY <1>1, <1>2, <1>4, <1>5 DEF DashInv, StageTypes, WritesHere

\* A day it does not buy is one it has, or nobody's.
LEMMA DayStep ==
    ASSUME WritesWait, DashInv, NEW d \in Days, Db!SummariseDay(d)
    PROVE  DashInv'
<1>1. /\ UNCHANGED <<Db!chosen, Db!stage, Db!loads, dashSyncing, dashWrite, dashLines, dashFrom, Db!disk, dashTried, dashActs>>
      /\ dashQueue.on /\ dashQueue.day = 0 /\ ~ Db!Leaves /\ d \in dashQueue.todo
      /\ dashQueue' = [dashQueue EXCEPT !.todo = @ \ {d}, !.day = IF Db!Buys(dashQueue.scope, d) THEN d ELSE 0]
      /\ dashRoot' = dashRoot /\ dashWatched' = dashWatched /\ UNCHANGED <<dashCalls, dashShown, dashWait, dashThread>>
  BY DEF Db!SummariseDay, Db!Ready, Db!stage, Db!chosen, Db!loads
<1>2. Db!StageIsItsOwn' /\ BodyOfThread' /\ dashCalls' \in DashCounts
  BY <1>1 DEF DashInv, Db!StageIsItsOwn, BodyOfThread, StageTypes
<1>3. dashQueue \in Passes
  BY <1>1 DEF DashInv, StageTypes, Db!Idle
<1>4. /\ dashQueue' \in Passes /\ dashQueue'.on /\ dashQueue'.again = dashQueue.again /\ dashQueue'.root = dashQueue.root
      /\ dashQueue'.scope = dashQueue.scope /\ dashQueue'.todo = dashQueue.todo \ {d}
      /\ dashQueue'.day = IF Db!Buys(dashQueue.scope, d) THEN d ELSE 0
  BY <1>1, <1>3 DEF Passes
<1>5. ~ Db!Buys(dashQueue.scope, d) => HasLine(dashQueue.scope, d)
  BY DEF Db!Buys, HasLine
<1>6. QueueServes'
  <2> SUFFICES ASSUME LoadOver, ~ dashQueue.again
               PROVE  Progress'
    BY <1>1, <1>4 DEF QueueServes, LoadOver, Bought
  <2>1. Progress
    BY <1>1 DEF DashInv, QueueServes, Bought
  <2>2. \A s \in {"me", "team"}, e \in Days : HasLine(s, e)' <=> HasLine(s, e)
    BY <1>1 DEF HasLine
  <2>3. \A e \in Days : e # dashQueue.day
    BY <1>1 DEF WritesWait
  <2>4. \A e \in Days : e \in dashQueue'.todo \/ e = dashQueue'.day \/ (e \in dashQueue.todo => HasLine(dashQueue.scope, e))
    BY <1>4, <1>5
  <2> QED
    BY <1>1, <1>4, <2>1, <2>2, <2>3, <2>4 DEF Progress
<1> QED
  BY <1>1, <1>2, <1>4, <1>6 DEF DashInv, StageTypes, WritesHere

\* The answer to a day: the project still on the stage has its line or has asked.
LEMMA LineStep ==
    ASSUME WritesWait, DashInv, NEW line \in BOOLEAN, Db!Summarised(line)
    PROVE  DashInv'
<1>1. /\ UNCHANGED <<Db!chosen, Db!stage, Db!loads, dashSyncing, dashWrite, dashRedone, dashActs>>
      /\ dashQueue.on /\ dashQueue.day # 0 /\ dashQueue' = [dashQueue EXCEPT !.day = 0]
      /\ dashLines' = (IF line /\ dashRoot = dashQueue.root THEN dashLines \cup {<<dashQueue.scope, dashQueue.day, dashRoot>>} ELSE dashLines)
      /\ dashTried' = (IF line THEN dashTried ELSE dashTried \cup {<<dashQueue.scope, dashQueue.day, dashQueue.root>>})
      /\ dashRoot' = dashRoot /\ dashWatched' = dashWatched /\ UNCHANGED <<dashCalls, dashShown, dashWait, dashThread>>
  BY DEF Db!Summarised, Db!stage, Db!chosen, Db!loads
<1>2. Db!StageIsItsOwn' /\ BodyOfThread' /\ dashCalls' \in DashCounts
  BY <1>1 DEF DashInv, Db!StageIsItsOwn, BodyOfThread, StageTypes
<1>3. dashQueue \in Passes
  BY <1>1 DEF DashInv, StageTypes, Db!Idle
<1>4. /\ dashQueue' \in Passes /\ dashQueue'.on /\ dashQueue'.again = dashQueue.again /\ dashQueue'.root = dashQueue.root
      /\ dashQueue'.scope = dashQueue.scope /\ dashQueue'.todo = dashQueue.todo
  BY <1>1, <1>3 DEF Passes
<1>5. QueueServes'
  <2> SUFFICES ASSUME LoadOver, ~ dashQueue.again
               PROVE  Progress'
    BY <1>1, <1>4 DEF QueueServes, LoadOver, Bought
  <2>1. Progress
    BY <1>1 DEF DashInv, QueueServes, Bought
  <2>2. \A s \in {"me", "team"}, e \in Days : HasLine(s, e) => HasLine(s, e)'
    BY <1>1 DEF HasLine
  <2>4. \A s \in {"me", "team"}, e \in Days : s = dashQueue.scope /\ e = dashQueue.day => HasLine(s, e)'
    <3>1. dashQueue.root = dashRoot /\ dashRoot' = dashRoot
      BY <1>1, <2>1 DEF Progress
    <3>2. CASE line
      BY <1>1, <3>1, <3>2 DEF HasLine
    <3>3. CASE ~ line
      BY <1>1, <3>1, <3>3 DEF HasLine
    <3> QED
      BY <3>2, <3>3
  <2>5. \A e \in Days : dashQueue.scope = "me" => e \in dashQueue.todo \/ HasLine("me", e)'
    BY <2>1, <2>2, <2>4 DEF Progress
  <2>6. \A e \in Days : dashQueue.scope = "team" => HasLine("me", e)' /\ (e \in dashQueue.todo \/ HasLine("team", e)')
    BY <2>1, <2>2, <2>4 DEF Progress
  <2>7. dashQueue'.root = dashRoot'
    BY <1>1, <1>4, <2>1 DEF Progress
  <2> QED
    BY <1>4, <2>5, <2>6, <2>7 DEF Progress
<1> QED
  BY <1>1, <1>2, <1>4, <1>5 DEF DashInv, StageTypes, WritesHere

LEMMA ArrivesStep ==
    ASSUME WritesWait, DashInv, NEW x \in Repos, NEW d \in Days, NEW how, Db!Arrives(x, d, how)
    PROVE  DashInv'
<1>1. /\ UNCHANGED <<Db!chosen, Db!stage, Db!loads, dashSyncing, dashWrite, dashRedone, dashFile, dashQueue, dashTried>> /\ dashLines \subseteq dashLines'
  BY DEF Db!Arrives
<1>2. dashCalls' \in DashCounts /\ Db!StageIsItsOwn' /\ BodyOfThread' /\ QueueServes'
  BY <1>1, StandsStill DEF Db!stage, Db!loads
<1> QED
  BY <1>1, <1>2 DEF DashInv, StageTypes, WritesHere, Db!stage, Db!loads

LEMMA DashStutters ==
    ASSUME DashInv, UNCHANGED Db!dvars
    PROVE  DashInv'
<1>1. dashCalls' \in DashCounts /\ Db!StageIsItsOwn' /\ BodyOfThread' /\ QueueServes'
  BY StandsStill DEF Db!dvars, Db!chosen, Db!stage, Db!loads
<1> QED
  BY <1>1 DEF Db!dvars, DashInv, StageTypes, WritesHere, Db!stage, Db!loads

LEMMA DashSteps ==
    ASSUME WritesWait, DashInv, [Db!Next]_(Db!dvars)
    PROVE  DashInv'
<1>1. ASSUME Db!Next
      PROVE  DashInv'
  BY <1>1, OpenDash, CloseDash, ReloadDash, FactsStep, DashReadsStep, RestStep, AnswerStep, MoreGh, MoreWork, ThreadOpens,
     ThreadReadStep, SyncStarts, ReadBackStep, SyncEndsStep, WriteStarts, WriteEnds, PassEndsStep, TeamStep, DayStep,
     LineStep, ArrivesStep DEF Db!Next
<1> QED
  BY <1>1, DashStutters

LEMMA DashSays == DashInv => Db!StageIsItsOwn /\ Db!SummariesDone
BY DEF DashInv, QueueServes, LoadOver, Bought, HasLine, Db!SummariesDone

\* The stage shows answers about its own project and skeletons that some call can take down, and the
\* queue leaves no line unasked for (openDashboard, loadDash, runSummaryQueue).
THEOREM DashboardIsItsOwn ==
    ASSUME WritesWait
    PROVE  Db!Spec => [](Db!StageIsItsOwn /\ Db!SummariesDone)
<1>1. Db!Init => DashInv
  BY DashBegins
<1>2. DashInv /\ [Db!Next]_(Db!dvars) => DashInv'
  BY DashSteps
<1> QED
  BY <1>1, <1>2, DashSays, PTL DEF Db!Spec

-----------------------------------------------------------------------------
(* The notices of a handoff (Notices).                                      *)

CONSTANTS Life, Hold, TimeEnds, StepsBack, NoticePlans
VARIABLES noticeRole, noticeNow, noticeRow, noticeOffered, noticeWork, noticeConn, noticeQueue, noticeLast, noticeRec, noticeMissed, noticeClosed, noticeTodo
Nt == INSTANCE Notices WITH
    Last <- TimeEnds, Plans <- NoticePlans, role <- noticeRole, now <- noticeNow, row <- noticeRow, offered <- noticeOffered, work <- noticeWork,
    conn <- noticeConn, queue <- noticeQueue, last <- noticeLast, rec <- noticeRec, missed <- noticeMissed,
    closed <- noticeClosed, todo <- noticeTodo

\* What the theorem assumes: the server's clock does not step back; who listens is one of the three.
Forward == StepsBack = FALSE /\ Life \in Nat /\ Hold \in Nat /\ \A p \in NoticePlans : p.role \in {"sender", "taker", "machine"}

Ends == Nt!GivenUp \cup {"done"}
NoticeVerbs == {"put", "seal", "recalled", "claimed", "done", "declined", "expired"}
Records == [state : Nt!Open \cup Ends, upd : Nat, exp : Nat]
NoticeTypes ==
    /\ noticeRole \in {"sender", "taker", "machine"} /\ noticeNow \in Nat /\ noticeRow \in Records \cup {Nt!NoRow}
    /\ noticeWork \in [Nt!Threads -> [op : {"none"} \cup NoticeVerbs, at : Nat, info : Records \cup {Nt!NoRow}]]
    /\ noticeConn \in {"off", "joined", "live"} /\ noticeQueue \in Seq(Records) /\ noticeLast \in Records \cup {Nt!NoRow}
    /\ noticeRec \in [state : {"none", "returned"} \cup Nt!Open \cup Ends, upd : Nat]

\* The record was changed by now, and before its time was up.
RowDated == noticeRow.upd <= noticeNow /\ (noticeRow.state \in Nt!Open => noticeRow.upd <= noticeRow.exp)
\* What is committed next is committed with a later clock.
Pending(t) == noticeWork[t].op # "none" /\ noticeWork[t].info = Nt!NoRow
InTurn ==
    \A t \in Nt!Threads : Pending(t) =>
        /\ noticeWork[t].op \in Nt!Ops(t) /\ noticeWork[t].at <= noticeNow /\ (Nt!Allowed(noticeWork[t].op, noticeWork[t].at) => noticeRow.upd <= noticeWork[t].at)
        /\ t = "taker" => noticeRow.state # "uploading"
\* Word of the record: not said yet, on its way, or sent last.
Word == {noticeWork[t].info : t \in Nt!Threads} \cup {noticeQueue[k] : k \in 1 .. Len(noticeQueue)} \cup {noticeLast}
\* Each word is the record, or of a time before; an end is the last word, and word of an offer comes of one.
WordFits(i) ==
    /\ noticeRow # Nt!NoRow => (i = noticeRow \/ Nt!Older(i, noticeRow)) /\ i.upd <= noticeRow.upd
    /\ noticeRow # Nt!NoRow /\ i.state \in Ends => i = noticeRow
    /\ i.state \in {"offered", "claimed", "done", "declined"} => noticeOffered
WordsFit ==
    /\ \A i \in Word \ {Nt!NoRow} : WordFits(i)
    /\ \A i, j \in Word \ {Nt!NoRow} : Nt!Rank(i.state) < Nt!Rank(j.state) => i.upd <= j.upd
OfferedOnce ==
    /\ noticeRow.state \in {"offered", "claimed", "done", "declined"} => noticeOffered
    /\ noticeOffered => noticeRow.state # "uploading"
\* Who is told at all is told the newest word, or has been.
NoticeTells ==
    noticeConn = "live" /\ ~ noticeMissed /\ noticeRow # Nt!NoRow /\ (Nt!Out \/ Nt!Reached(noticeRow)) => noticeRow \in Word
Wires ==
    /\ noticeConn # "live" => noticeLast = Nt!NoRow
    /\ noticeConn = "off" => noticeQueue = <<>>
    /\ ~ Nt!Out => \A k \in 1 .. Len(noticeQueue) : Nt!Reached(noticeQueue[k])
    /\ ~ Nt!Out /\ ~ noticeOffered => noticeRec = Nt!NoRec /\ noticeLast = Nt!NoRow
\* What the window has is no newer than the record; and while it is connected, is what was sent last.
WindowFits ==
    /\ Nt!Out => noticeRec.state # "none"
    /\ ~ Nt!Out => noticeRec.state \in {"none", "offered", "claimed", "done"}
    /\ noticeRole = "machine" => noticeRec.state # "done"
    /\ noticeRow # Nt!NoRow => noticeRec.upd <= noticeRow.upd /\ noticeRec.state # "returned"
    /\ noticeConn = "live" /\ noticeRow # Nt!NoRow =>
        IF noticeLast = Nt!NoRow THEN ~ Nt!Out /\ noticeRec = Nt!NoRec ELSE Nt!Shows(noticeLast) /\ noticeRec.upd <= noticeLast.upd
\* A record that is gone is spoken of no more.
GoneIsQuiet ==
    noticeRow = Nt!NoRow => /\ noticeQueue = <<>> /\ noticeWork = [t \in Nt!Threads |-> Nt!Idle]
                            /\ noticeConn = "live" /\ ~ noticeMissed => Nt!Shows(noticeRow)
EndIsHeard ==
    noticeClosed => /\ noticeRec.state \notin Nt!Open /\ (noticeRow = Nt!NoRow \/ noticeRow.state \in Ends) /\ (Nt!Out \/ noticeOffered)
                    /\ noticeConn = "live" /\ noticeRow # Nt!NoRow => noticeLast = noticeRow
NoticeInv ==
    /\ NoticeTypes /\ RowDated /\ InTurn /\ WordsFit /\ OfferedOnce /\ NoticeTells /\ Wires /\ WindowFits /\ GoneIsQuiet /\ EndIsHeard

LEMMA RankIs ==
    /\ Nt!Rank("uploading") = 0 /\ Nt!Rank("offered") = 1 /\ Nt!Rank("claimed") = 2 /\ \A e \in Ends : Nt!Rank(e) = 3
    /\ \A e \in Nt!Open \cup Ends : Nt!Rank(e) \in 0 .. 3
    /\ "absent" \notin Nt!Open \cup Ends /\ Nt!Open \cap Ends = {}
BY DEF Nt!Rank, Ends, Nt!GivenUp, Nt!Open

LEMMA NoticesBegin ==
    ASSUME Forward, Nt!Init
    PROVE  NoticeInv
<1>1. NoticeTypes
  <2>1. noticeRow \in Records /\ noticeRow = [state |-> "uploading", upd |-> 0, exp |-> Life]
    BY DEF Nt!Init, Forward, Records, Nt!Open
  <2>2. noticeRec \in [state : {"none", "returned"} \cup Nt!Open \cup Ends, upd : Nat]
    BY DEF Nt!Init, Nt!NoRec, Nt!Open
  <2>3. noticeWork \in [Nt!Threads -> [op : {"none"} \cup NoticeVerbs, at : Nat, info : Records \cup {Nt!NoRow}]]
    BY DEF Nt!Init, Nt!Idle
  <2>4. noticeRole \in {"sender", "taker", "machine"} /\ noticeQueue \in Seq(Records)
    BY DEF Nt!Init, Forward
  <2>5. noticeNow = 0 /\ noticeConn = "off" /\ noticeLast = Nt!NoRow
    BY DEF Nt!Init
  <2> QED
    BY <2>1, <2>2, <2>3, <2>4, <2>5 DEF NoticeTypes
<1>2. Word = {Nt!NoRow}
  BY DEF Nt!Init, Word, Nt!Idle, Nt!Threads
<1>3. RowDated /\ InTurn /\ WordsFit /\ OfferedOnce /\ NoticeTells
  BY <1>2 DEF Nt!Init, Forward, RowDated, InTurn, Pending, Nt!Idle, Nt!NoRow, WordsFit, OfferedOnce, NoticeTells
<1>4. Wires /\ WindowFits /\ GoneIsQuiet /\ EndIsHeard
  BY DEF Nt!Init, Forward, Wires, WindowFits, GoneIsQuiet, EndIsHeard, Nt!NoRow, Nt!NoRec, Nt!Out
<1> QED
  BY <1>1, <1>3, <1>4 DEF NoticeInv

LEMMA WordTypes ==
    ASSUME NoticeTypes
    PROVE  Word \subseteq Records \cup {Nt!NoRow} /\ Nt!NoRow \notin Records
<1>1. Nt!NoRow \notin Records
  BY RankIs DEF Nt!NoRow, Records
<1>2. \A k \in 1 .. Len(noticeQueue) : noticeQueue[k] \in Records
  BY DEF NoticeTypes
<1>3. \A t \in Nt!Threads : noticeWork[t].info \in Records \cup {Nt!NoRow}
  BY DEF NoticeTypes
<1> QED
  BY <1>1, <1>2, <1>3 DEF Word, NoticeTypes

\* No new word but of the record as it stands.
LEMMA SameWords ==
    ASSUME NoticeTypes, WordsFit, OfferedOnce, UNCHANGED <<noticeRow, noticeOffered>>, Word' \ {Nt!NoRow} \subseteq Word \cup {noticeRow}
    PROVE  WordsFit' /\ OfferedOnce'
<1>1. OfferedOnce'
  BY DEF OfferedOnce
<1>2. noticeRow # Nt!NoRow => WordFits(noticeRow) /\ noticeRow \in Records
  BY DEF WordFits, OfferedOnce, NoticeTypes, Records
<1>3. \A i \in Word' \ {Nt!NoRow} : WordFits(i) /\ i \in Records
  BY <1>2, WordTypes DEF WordsFit
<1>4. \A i \in Word' \ {Nt!NoRow} : WordFits(i)'
  BY <1>3 DEF WordFits
<1>5. ASSUME NEW i \in Word' \ {Nt!NoRow}, NEW j \in Word' \ {Nt!NoRow}, Nt!Rank(i.state) < Nt!Rank(j.state)
      PROVE  i.upd <= j.upd
  <2>1. CASE i \in Word /\ j \in Word
    BY <1>5, <2>1 DEF WordsFit
  <2>2. CASE j = noticeRow
    BY <1>3, <1>5, <2>2 DEF WordFits
  <2>3. CASE i = noticeRow
    <3>1. (j = noticeRow \/ Nt!Rank(j.state) < Nt!Rank(noticeRow.state) \/ Nt!Rank(j.state) = Nt!Rank(noticeRow.state)) /\ Nt!Rank(noticeRow.state) < Nt!Rank(j.state)
      BY <1>3, <1>5, <2>3 DEF WordFits, Nt!Older
    <3>2. noticeRow.state \in Nt!Open \cup Ends /\ j.state \in Nt!Open \cup Ends
      BY <1>3, <1>5, <2>3 DEF Records
    <3>3. Nt!Rank(noticeRow.state) \in 0 .. 3 /\ Nt!Rank(j.state) \in 0 .. 3
      BY <3>2, RankIs
    <3> QED
      BY <3>1, <3>3
  <2> QED
    BY <2>1, <2>2, <2>3
<1> QED
  BY <1>1, <1>4, <1>5 DEF WordsFit

LEMMA TakesStep ==
    ASSUME Forward, NoticeInv, NEW t \in Nt!Threads, NEW verb \in Nt!Ops(t), Nt!Takes(t, verb)
    PROVE  NoticeInv'
<1>1. /\ UNCHANGED <<noticeRole, noticeNow, noticeRow, noticeOffered, noticeConn, noticeQueue, noticeLast, noticeRec, noticeMissed, noticeClosed>>
      /\ noticeWork[t] = Nt!Idle /\ Nt!Allowed(verb, noticeNow) /\ noticeWork' = [noticeWork EXCEPT ![t] = [Nt!Idle EXCEPT !.op = verb, !.at = noticeNow]]
  BY DEF Nt!Takes
<1>0. verb \in NoticeVerbs /\ verb # "none" /\ (t = "taker" => verb \in {"claimed", "done", "declined"})
  BY DEF Nt!Ops, NoticeVerbs, Nt!Threads
<1>2. /\ noticeWork' \in [Nt!Threads -> [op : {"none"} \cup NoticeVerbs, at : Nat, info : Records \cup {Nt!NoRow}]]
      /\ \A s \in Nt!Threads : noticeWork'[s].info = noticeWork[s].info
      /\ \A s \in Nt!Threads \ {t} : noticeWork'[s] = noticeWork[s]
      /\ noticeWork'[t].op = verb /\ noticeWork'[t].at = noticeNow
  BY <1>0, <1>1 DEF NoticeInv, NoticeTypes, Nt!Idle
<1>3. NoticeTypes'
  BY <1>1, <1>2 DEF NoticeInv, NoticeTypes
<1>4. Word' = Word
  BY <1>1, <1>2 DEF Word
<1>5. noticeRow # Nt!NoRow
  <2>1. noticeRow.state \in Nt!Open
    BY <1>0, <1>1 DEF Nt!Allowed, Nt!Open, NoticeVerbs
  <2> QED
    BY <2>1, RankIs DEF Nt!NoRow
<1>6. InTurn'
  <2>1. noticeRow.upd <= noticeNow /\ noticeNow \in Nat
    BY DEF NoticeInv, NoticeTypes, RowDated
  <2>2. t = "taker" => noticeRow.state # "uploading"
    BY <1>0, <1>1 DEF Nt!Allowed
  <2>3. ASSUME NEW s \in Nt!Threads, Pending(s)'
        PROVE  /\ noticeWork'[s].op \in Nt!Ops(s) /\ noticeWork'[s].at <= noticeNow /\ (Nt!Allowed(noticeWork'[s].op, noticeWork'[s].at) => noticeRow.upd <= noticeWork'[s].at)
               /\ s = "taker" => noticeRow.state # "uploading"
    <3>1. CASE s = t
      BY <1>2, <2>1, <2>2, <3>1
    <3>2. CASE s # t
      BY <1>2, <2>3, <3>2 DEF NoticeInv, InTurn, Pending
    <3> QED
      BY <3>1, <3>2
  <2>4. \A s \in Nt!Threads : Nt!Allowed(noticeWork'[s].op, noticeWork'[s].at) <=> Nt!Allowed(noticeWork[s].op, noticeWork[s].at)'
    BY <1>1 DEF Nt!Allowed
  <2> QED
    BY <1>1, <2>3, <2>4 DEF InTurn, Nt!Ops
<1>7. WordsFit' /\ OfferedOnce'
  BY <1>1, <1>4, SameWords DEF NoticeInv
<1> QED
  BY <1>1, <1>3, <1>4, <1>5, <1>6, <1>7
  DEF NoticeInv, RowDated, NoticeTells, Nt!Out, Nt!Reached, Wires, WindowFits, Nt!Shows, GoneIsQuiet, EndIsHeard

\* What the guarded update makes of the record: newer, and no longer what it was but for another part put.
LEMMA Committed ==
    ASSUME Forward, NoticeInv, NEW t \in Nt!Threads, Nt!Commits(t), Nt!Allowed(noticeWork[t].op, noticeWork[t].at)
    PROVE  /\ noticeRow \in Records /\ noticeRow.state \in Nt!Open /\ noticeRow' \in Records /\ noticeRow # Nt!NoRow /\ noticeRow' # Nt!NoRow
           /\ noticeWork[t].op \in NoticeVerbs \cap Nt!Ops(t) /\ Pending(t) /\ noticeRow'.state = Nt!Becomes(noticeWork[t].op) /\ noticeRow'.upd = noticeWork[t].at
           /\ noticeRow'.upd <= noticeNow /\ noticeRow.upd <= noticeRow'.upd /\ noticeRow.exp <= noticeRow'.exp
           /\ (noticeRow' = noticeRow \/ Nt!Older(noticeRow, noticeRow')) /\ (noticeRow'.state \in Nt!Open => noticeRow'.upd <= noticeRow'.exp)
           /\ noticeWork[t].op \in {"put", "seal", "claimed"} => noticeWork[t].at < noticeRow.exp
           /\ noticeRow.state \in (CASE noticeWork[t].op \in {"put", "seal"} -> {"uploading"} [] noticeWork[t].op = "recalled" -> {"uploading", "offered"}
                               [] noticeWork[t].op = "claimed" -> {"offered"} [] noticeWork[t].op = "done" -> {"claimed"}
                               [] noticeWork[t].op = "declined" -> {"offered", "claimed"} [] OTHER -> Nt!Open)
<1> DEFINE verb == noticeWork[t].op
           at == noticeWork[t].at
           r == [state |-> Nt!Becomes(verb), upd |-> at, exp |-> IF verb = "claimed" /\ noticeRow.exp < at + Hold THEN at + Hold ELSE noticeRow.exp]
<1>1. Pending(t) /\ noticeRow' = r /\ verb \in Nt!Ops(t) /\ verb # "none" /\ at <= noticeNow /\ noticeRow.upd <= at /\ at \in Nat /\ noticeNow \in Nat
  BY DEF Nt!Commits, Pending, NoticeInv, InTurn, NoticeTypes
<1>2. verb \in NoticeVerbs
  BY <1>1 DEF Nt!Ops, NoticeVerbs, Nt!Threads
<1>3. noticeRow.state \in Nt!Open
  BY <1>2 DEF Nt!Allowed, NoticeVerbs, Nt!Open
<1>4. noticeRow \in Records /\ noticeRow # Nt!NoRow
  BY <1>3, RankIs DEF NoticeInv, NoticeTypes, Nt!NoRow
<1>5. r \in Records /\ noticeRow.exp <= r.exp /\ Nt!Becomes(verb) \in Nt!Open \cup Ends
  <2>1. Nt!Becomes(verb) \in Nt!Open \cup Ends
    BY <1>2 DEF Nt!Becomes, NoticeVerbs, Nt!Open, Ends, Nt!GivenUp
  <2>2. noticeRow.exp \in Nat /\ Hold \in Nat
    BY <1>4 DEF Records, Forward
  <2> QED
    BY <1>1, <2>1, <2>2 DEF Records
<1>6. /\ verb \in {"put", "seal", "claimed"} => at < noticeRow.exp
      /\ noticeRow.state \in (CASE verb \in {"put", "seal"} -> {"uploading"} [] verb = "recalled" -> {"uploading", "offered"}
                          [] verb = "claimed" -> {"offered"} [] verb = "done" -> {"claimed"}
                          [] verb = "declined" -> {"offered", "claimed"} [] OTHER -> Nt!Open)
  <2>1. noticeRow.exp \in Nat
    BY <1>4 DEF Records
  <2> QED
    BY <1>1, <1>2, <1>3, <2>1 DEF Nt!Allowed, NoticeVerbs
<1>7. r.state \in Nt!Open => verb \in {"put", "seal", "claimed"}
  BY <1>2 DEF Nt!Becomes, NoticeVerbs, Nt!Open
<1>8. r = noticeRow \/ Nt!Older(noticeRow, r)
  <2>1. CASE verb = "put"
    <3>1. r.state = noticeRow.state /\ r.exp = noticeRow.exp
      BY <1>6, <2>1 DEF Nt!Becomes
    <3>2. CASE at = noticeRow.upd
      BY <1>4, <3>1, <3>2 DEF Records
    <3>3. CASE at # noticeRow.upd
      <4>1. noticeRow.upd < r.upd
        BY <1>1, <1>4, <3>3 DEF Records
      <4> QED
        BY <3>1, <4>1 DEF Nt!Older
    <3> QED
      BY <3>2, <3>3
  <2>2. CASE verb # "put"
    <3>1. Nt!Rank(noticeRow.state) < Nt!Rank(r.state)
      <4>1. CASE verb = "seal"
        BY <1>6, <4>1, RankIs DEF Nt!Becomes
      <4>2. CASE verb = "claimed"
        BY <1>6, <4>2, RankIs DEF Nt!Becomes
      <4>3. CASE verb \notin {"put", "seal", "claimed"}
        <5>1. Nt!Becomes(verb) \in Ends
          BY <1>2, <4>3 DEF Nt!Becomes, NoticeVerbs, Ends, Nt!GivenUp
        <5>2. noticeRow.state \in {"uploading", "offered", "claimed"}
          BY <1>3 DEF Nt!Open
        <5> QED
          BY <5>1, <5>2, RankIs
      <4> QED
        BY <2>2, <4>1, <4>2, <4>3
    <3> QED
      BY <3>1 DEF Nt!Older
  <2> QED
    BY <2>1, <2>2
<1>9. r # Nt!NoRow
  BY <1>5, RankIs DEF Nt!NoRow
<1>10. r.state \in Nt!Open => at <= r.exp
  <2>1. noticeRow.exp \in Nat /\ r.exp \in Nat
    BY <1>4, <1>5 DEF Records
  <2> QED
    BY <1>1, <1>5, <1>6, <1>7, <2>1
<1> QED
  BY <1>1, <1>2, <1>3, <1>4, <1>5, <1>6, <1>8, <1>9, <1>10

LEMMA NoticeCommitsStep ==
    ASSUME Forward, NoticeInv, NEW t \in Nt!Threads, Nt!Commits(t)
    PROVE  NoticeInv'
<1>1. /\ UNCHANGED <<noticeRole, noticeNow, noticeConn, noticeQueue, noticeLast, noticeRec, noticeMissed, noticeClosed>> /\ Pending(t)
      /\ noticeWork[t].info = Nt!NoRow
  BY DEF Nt!Commits, Pending
<1>2. noticeRow # Nt!NoRow
  BY <1>1 DEF NoticeInv, GoneIsQuiet, Pending, Nt!Idle
<1>3. CASE ~ Nt!Allowed(noticeWork[t].op, noticeWork[t].at)
  <2>1. noticeWork' = [noticeWork EXCEPT ![t] = Nt!Idle] /\ UNCHANGED <<noticeRow, noticeOffered>>
    BY <1>3 DEF Nt!Commits
  <2>2. /\ noticeWork' \in [Nt!Threads -> [op : {"none"} \cup NoticeVerbs, at : Nat, info : Records \cup {Nt!NoRow}]]
        /\ \A s \in Nt!Threads : noticeWork'[s].info = noticeWork[s].info
        /\ \A s \in Nt!Threads \ {t} : noticeWork'[s] = noticeWork[s]
        /\ noticeWork'[t].op = "none"
    BY <1>1, <2>1 DEF NoticeInv, NoticeTypes, Nt!Idle
  <2>3. NoticeTypes'
    BY <1>1, <2>1, <2>2 DEF NoticeInv, NoticeTypes
  <2>4. Word' = Word
    BY <1>1, <2>2 DEF Word
  <2>5. InTurn'
    <3>1. ASSUME NEW s \in Nt!Threads, Pending(s)'
          PROVE  s # t /\ Pending(s) /\ noticeWork'[s] = noticeWork[s]
      BY <2>2, <3>1 DEF Pending
    <3> QED
      BY <1>1, <2>1, <3>1 DEF NoticeInv, InTurn, Nt!Allowed, Nt!Ops
  <2>6. WordsFit' /\ OfferedOnce'
    BY <2>1, <2>4, SameWords DEF NoticeInv
  <2> QED
    BY <1>1, <1>2, <2>1, <2>3, <2>4, <2>5, <2>6
    DEF NoticeInv, RowDated, NoticeTells, Nt!Out, Nt!Reached, Wires, WindowFits, Nt!Shows, GoneIsQuiet, EndIsHeard
<1>4. CASE Nt!Allowed(noticeWork[t].op, noticeWork[t].at)
  <2> DEFINE verb == noticeWork[t].op
  <2>1. /\ noticeOffered' = (noticeOffered \/ verb = "seal") /\ noticeWork' = [noticeWork EXCEPT ![t].info = noticeRow']
    BY <1>4 DEF Nt!Commits
  <2>2. /\ noticeRow \in Records /\ noticeRow.state \in Nt!Open /\ noticeRow' \in Records /\ noticeRow # Nt!NoRow /\ noticeRow' # Nt!NoRow
        /\ verb \in NoticeVerbs \cap Nt!Ops(t) /\ noticeRow'.state = Nt!Becomes(verb) /\ noticeRow'.upd = noticeWork[t].at
        /\ noticeRow'.upd <= noticeNow /\ noticeRow.upd <= noticeRow'.upd /\ noticeRow.exp <= noticeRow'.exp
        /\ (noticeRow' = noticeRow \/ Nt!Older(noticeRow, noticeRow')) /\ (noticeRow'.state \in Nt!Open => noticeRow'.upd <= noticeRow'.exp)
        /\ verb \in {"put", "seal", "claimed"} => noticeWork[t].at < noticeRow.exp
        /\ noticeRow.state \in (CASE verb \in {"put", "seal"} -> {"uploading"} [] verb = "recalled" -> {"uploading", "offered"}
                            [] verb = "claimed" -> {"offered"} [] verb = "done" -> {"claimed"}
                            [] verb = "declined" -> {"offered", "claimed"} [] OTHER -> Nt!Open)
    BY <1>4, Committed
  <2>3. /\ noticeWork' \in [Nt!Threads -> [op : {"none"} \cup NoticeVerbs, at : Nat, info : Records \cup {Nt!NoRow}]]
        /\ \A s \in Nt!Threads \ {t} : noticeWork'[s] = noticeWork[s]
        /\ noticeWork'[t].info = noticeRow'
    BY <2>1, <2>2 DEF NoticeInv, NoticeTypes
  <2>4. NoticeTypes'
    BY <1>1, <2>2, <2>3 DEF NoticeInv, NoticeTypes
  <2>5. Word' \subseteq Word \cup {noticeRow'} /\ noticeRow' \in Word'
    <3>1. \A s \in Nt!Threads : noticeWork'[s].info \in {noticeWork[s].info, noticeRow'}
      BY <2>3
    <3> QED
      BY <1>1, <2>3, <3>1 DEF Word
  <2>6. OfferedOnce'
    <3>1. noticeRow'.state \in {"offered", "claimed", "done", "declined"} => noticeOffered'
      BY <2>1, <2>2 DEF NoticeInv, OfferedOnce, Nt!Becomes, NoticeVerbs, Nt!Open
    <3>2. noticeRow'.state = "uploading" => ~ noticeOffered'
      BY <2>1, <2>2 DEF NoticeInv, OfferedOnce, Nt!Becomes, NoticeVerbs
    <3> QED
      BY <3>1, <3>2 DEF OfferedOnce
  <2>7. WordsFit'
    <3>1. ASSUME NEW i \in Word \ {Nt!NoRow}
          PROVE  /\ (i = noticeRow' \/ Nt!Older(i, noticeRow')) /\ i.upd <= noticeRow'.upd /\ i.state \notin Ends /\ i \in Records
                 /\ i.state \in {"offered", "claimed", "done", "declined"} => noticeOffered'
      <4>1. i \in Records /\ WordFits(i)
        BY <3>1, WordTypes DEF NoticeInv, WordsFit
      <4>2. (i = noticeRow \/ Nt!Older(i, noticeRow)) /\ i.upd <= noticeRow.upd /\ i.state \notin Ends
        BY <2>2, <4>1, RankIs DEF WordFits
      <4>3. Nt!Rank(i.state) \in 0 .. 3 /\ Nt!Rank(noticeRow.state) \in 0 .. 3 /\ Nt!Rank(noticeRow'.state) \in 0 .. 3 /\ i.upd \in Nat /\ noticeRow.upd \in Nat /\ noticeRow'.upd \in Nat
        BY <2>2, <4>1, RankIs DEF Records
      <4>4. i = noticeRow' \/ Nt!Older(i, noticeRow')
        BY <2>2, <4>2, <4>3 DEF Nt!Older
      <4>5. i.state \in {"offered", "claimed", "done", "declined"} => noticeOffered'
        BY <2>1, <4>1 DEF WordFits
      <4>6. i.upd <= noticeRow'.upd
        BY <2>2, <4>2, <4>3
      <4> QED
        BY <4>1, <4>2, <4>4, <4>5, <4>6
    <3>2. \A i \in Word' \ {Nt!NoRow} : i = noticeRow' \/ i \in Word \ {Nt!NoRow}
      BY <2>5
    <3>3. \A i \in Word' \ {Nt!NoRow} : WordFits(i)'
      <4>1. noticeRow'.upd \in Nat
        BY <2>2 DEF Records
      <4> QED
        BY <2>6, <3>1, <3>2, <4>1 DEF WordFits, OfferedOnce
    <3>4. ASSUME NEW i \in Word' \ {Nt!NoRow}, NEW j \in Word' \ {Nt!NoRow}, Nt!Rank(i.state) < Nt!Rank(j.state)
          PROVE  i.upd <= j.upd
      <4>1. CASE j = noticeRow'
        <5>1. noticeRow'.upd \in Nat
          BY <2>2 DEF Records
        <5> QED
          BY <3>1, <3>2, <4>1, <5>1
      <4>2. CASE j # noticeRow'
        <5>1. j \in Word \ {Nt!NoRow}
          BY <3>2, <4>2
        <5>2. j.state \in Nt!Open \cup Ends /\ noticeRow'.state \in Nt!Open \cup Ends
          BY <2>2, <3>1, <5>1 DEF Records
        <5>3. Nt!Rank(j.state) \in 0 .. 3 /\ Nt!Rank(noticeRow'.state) \in 0 .. 3
          BY <5>2, RankIs
        <5>4. i # noticeRow'
          BY <3>1, <3>4, <5>1, <5>3, <4>2 DEF Nt!Older
        <5> QED
          BY <3>2, <3>4, <5>1, <5>4 DEF NoticeInv, WordsFit
      <4> QED
        BY <4>1, <4>2
    <3> QED
      BY <3>3, <3>4 DEF WordsFit
  <2>8. InTurn'
    <3> SUFFICES ASSUME NEW s \in Nt!Threads, Pending(s)'
                 PROVE  (/\ noticeWork[s].op \in Nt!Ops(s) /\ noticeWork[s].at <= noticeNow /\ (Nt!Allowed(noticeWork[s].op, noticeWork[s].at) => noticeRow.upd <= noticeWork[s].at)
                         /\ s = "taker" => noticeRow.state # "uploading")'
      BY DEF InTurn
    <3>1. s # t /\ noticeWork'[s] = noticeWork[s] /\ Pending(s)
      BY <2>2, <2>3 DEF Pending
    <3>2. noticeWork[s].op \in Nt!Ops(s) /\ noticeWork[s].at <= noticeNow /\ (s = "taker" => noticeRow.state # "uploading") /\ noticeWork[s].at \in Nat
      BY <3>1 DEF NoticeInv, InTurn, NoticeTypes
    <3>3. s = "taker" => noticeRow'.state # "uploading"
      BY <2>2, <3>2 DEF Nt!Becomes, NoticeVerbs
    <3>4. ASSUME Nt!Allowed(noticeWork[s].op, noticeWork[s].at)'
          PROVE  noticeRow'.upd <= noticeWork[s].at
      <4>1. noticeRow'.exp \in Nat /\ noticeRow.exp \in Nat /\ noticeRow'.upd \in Nat
        BY <2>2 DEF Records
      <4>2. CASE s = "sender"
        <5>1. verb \notin {"put", "seal"}
          BY <2>2, <3>1, <4>2 DEF Nt!Ops, Nt!Threads
        <5>3. noticeWork[s].op \in {"put", "seal", "recalled"}
          BY <3>2, <4>2 DEF Nt!Ops
        <5>2. noticeRow'.state \in {"uploading", "offered"}
          BY <3>1, <3>4, <5>3 DEF Nt!Allowed
        <5> QED
          BY <2>2, <5>1, <5>2 DEF Nt!Becomes, NoticeVerbs
      <4>3. CASE s = "taker"
        <5>1. verb \notin {"claimed", "done", "declined"}
          BY <2>2, <3>1, <4>3 DEF Nt!Ops, Nt!Threads
        <5>3. noticeWork[s].op \in {"claimed", "done", "declined"}
          BY <3>2, <4>3 DEF Nt!Ops
        <5>2. noticeRow'.state \in {"offered", "claimed"}
          BY <3>1, <3>4, <5>3 DEF Nt!Allowed
        <5> QED
          BY <2>2, <3>2, <4>3, <5>1, <5>2 DEF Nt!Becomes, NoticeVerbs
      <4>4. CASE s = "sweeper"
        <5>1. noticeRow'.state \in Nt!Open /\ noticeRow'.exp <= noticeWork[s].at
          BY <3>1, <3>2, <3>4, <4>4 DEF Nt!Ops, Nt!Allowed
        <5> QED
          BY <2>2, <3>2, <4>1, <5>1
      <4> QED
        BY <4>2, <4>3, <4>4 DEF Nt!Threads
    <3> QED
      BY <1>1, <3>1, <3>2, <3>3, <3>4 DEF Nt!Ops
  <2>9. RowDated'
    BY <1>1, <2>2 DEF RowDated
  <2>10. Wires'
    BY <1>1, <2>1 DEF NoticeInv, Wires, Nt!Out, Nt!Reached
  <2>11. WindowFits'
    <3>1. noticeRow.upd \in Nat /\ noticeRow'.upd \in Nat /\ noticeRec.upd \in Nat
      BY <2>2 DEF Records, NoticeInv, NoticeTypes
    <3> QED
      BY <1>1, <2>2, <3>1 DEF NoticeInv, WindowFits, Nt!Out, Nt!Shows
  <2>12. EndIsHeard'
    BY <1>1, <2>1, <2>2, RankIs DEF NoticeInv, EndIsHeard
  <2> QED
    BY <1>1, <2>2, <2>4, <2>5, <2>6, <2>7, <2>8, <2>9, <2>10, <2>11, <2>12 DEF NoticeInv, NoticeTells, GoneIsQuiet
<1> QED
  BY <1>3, <1>4

LEMMA AnnouncesStep ==
    ASSUME Forward, NoticeInv, NEW t \in Nt!Threads, Nt!Announces(t)
    PROVE  NoticeInv'
<1> DEFINE i == noticeWork[t].info
<1>1. PICK told \in BOOLEAN :
        /\ Nt!Out => told
        /\ ~ told => Nt!Reached(i)
        /\ noticeMissed' = (noticeMissed \/ ~ told)
        /\ noticeQueue' = IF noticeConn # "off" /\ told /\ (Nt!Out \/ Nt!Reached(i)) THEN Append(noticeQueue, i) ELSE noticeQueue
  BY DEF Nt!Announces
<1>2. /\ i # Nt!NoRow /\ noticeWork' = [noticeWork EXCEPT ![t] = Nt!Idle]
      /\ UNCHANGED <<noticeRole, noticeNow, noticeRow, noticeOffered, noticeConn, noticeLast, noticeRec, noticeClosed>>
  BY DEF Nt!Announces
<1>3. /\ noticeWork' \in [Nt!Threads -> [op : {"none"} \cup NoticeVerbs, at : Nat, info : Records \cup {Nt!NoRow}]]
      /\ \A s \in Nt!Threads \ {t} : noticeWork'[s] = noticeWork[s]
      /\ noticeWork'[t] = Nt!Idle /\ i \in Records
  BY <1>2 DEF NoticeInv, NoticeTypes, Nt!Idle
<1>4. noticeRow # Nt!NoRow
  BY <1>2 DEF NoticeInv, GoneIsQuiet, Nt!Idle
<1>5. /\ noticeQueue' \in Seq(Records)
      /\ noticeQueue' # noticeQueue => /\ noticeConn # "off" /\ told /\ (Nt!Out \/ Nt!Reached(i)) /\ Len(noticeQueue') = Len(noticeQueue) + 1 /\ noticeQueue'[Len(noticeQueue) + 1] = i
                                       /\ \A k \in 1 .. Len(noticeQueue) : noticeQueue'[k] = noticeQueue[k]
  BY <1>1, <1>3 DEF NoticeInv, NoticeTypes
<1>6. NoticeTypes'
  BY <1>2, <1>3, <1>5 DEF NoticeInv, NoticeTypes
<1>7. /\ \A k \in 1 .. Len(noticeQueue') : noticeQueue'[k] = i \/ (k \in 1 .. Len(noticeQueue) /\ noticeQueue'[k] = noticeQueue[k])
      /\ \A k \in 1 .. Len(noticeQueue) : k \in 1 .. Len(noticeQueue') /\ noticeQueue'[k] = noticeQueue[k]
      /\ Len(noticeQueue) \in Nat
  BY <1>5 DEF NoticeInv, NoticeTypes
<1>8. Word' \subseteq Word \cup {Nt!NoRow}
  <2>1. \A k \in 1 .. Len(noticeQueue') : noticeQueue'[k] \in Word
    BY <1>7 DEF Word
  <2>2. \A s \in Nt!Threads : noticeWork'[s].info \in Word \cup {Nt!NoRow}
    BY <1>3 DEF Word, Nt!Idle
  <2> QED
    BY <1>2, <2>1, <2>2 DEF Word
<1>9. WordsFit' /\ OfferedOnce'
  BY <1>2, <1>8, SameWords DEF NoticeInv
<1>10. InTurn'
  <2>1. ASSUME NEW s \in Nt!Threads, Pending(s)'
        PROVE  s # t /\ Pending(s) /\ noticeWork'[s] = noticeWork[s]
    BY <1>3, <2>1 DEF Pending, Nt!Idle
  <2> QED
    BY <1>2, <2>1 DEF NoticeInv, InTurn, Nt!Allowed, Nt!Ops
<1>11. NoticeTells'
  <2> SUFFICES ASSUME noticeConn = "live", ~ noticeMissed', Nt!Out \/ Nt!Reached(noticeRow)
               PROVE  noticeRow \in Word'
    BY <1>2 DEF NoticeTells, Nt!Out, Nt!Reached
  <2>1. noticeRow \in Word /\ told
    BY <1>1, <1>4 DEF NoticeInv, NoticeTells
  <2>2. CASE noticeRow = i
    <3>1. noticeQueue' = Append(noticeQueue, i)
      BY <1>1, <2>1, <2>2
    <3>2. Len(noticeQueue) + 1 \in 1 .. Len(noticeQueue') /\ noticeQueue'[Len(noticeQueue) + 1] = i
      BY <1>7, <1>3, <3>1 DEF NoticeInv, NoticeTypes
    <3> QED
      BY <2>2, <3>2 DEF Word
  <2>3. CASE noticeRow # i
    <3>1. CASE \E s \in Nt!Threads : noticeRow = noticeWork[s].info
      BY <1>3, <2>3, <3>1 DEF Word
    <3>2. CASE \E k \in 1 .. Len(noticeQueue) : noticeRow = noticeQueue[k]
      <4>1. PICK k \in 1 .. Len(noticeQueue) : noticeRow = noticeQueue[k]
        BY <3>2
      <4> QED
        BY <1>7, <4>1 DEF Word
    <3>3. CASE noticeRow = noticeLast
      BY <1>2, <3>3 DEF Word
    <3> QED
      BY <2>1, <3>1, <3>2, <3>3 DEF Word
  <2> QED
    BY <2>2, <2>3
<1>12. Wires'
  <2>1. noticeConn = "off" => noticeQueue' = noticeQueue
    BY <1>5
  <2>2. ~ Nt!Out => \A k \in 1 .. Len(noticeQueue') : Nt!Reached(noticeQueue'[k])
    <3> SUFFICES ASSUME ~ Nt!Out, NEW k \in 1 .. Len(noticeQueue')
                 PROVE  Nt!Reached(noticeQueue'[k])
      OBVIOUS
    <3>1. CASE noticeQueue' = noticeQueue
      BY <3>1 DEF NoticeInv, Wires
    <3>2. CASE noticeQueue' # noticeQueue
      BY <1>5, <1>7, <3>2 DEF NoticeInv, Wires
    <3> QED
      BY <3>1, <3>2
  <2>4. ~ Nt!Out => \A k \in 1 .. Len(noticeQueue') : Nt!Reached(noticeQueue[k])'
    BY <1>2, <2>2 DEF Nt!Reached
  <2> QED
    BY <1>2, <2>1, <2>4 DEF NoticeInv, Wires, Nt!Out
<1> QED
  BY <1>2, <1>4, <1>6, <1>9, <1>10, <1>11, <1>12
  DEF NoticeInv, RowDated, Nt!Out, WindowFits, Nt!Shows, GoneIsQuiet, EndIsHeard

LEMMA JoinStep ==
    ASSUME Forward, NoticeInv, Nt!Join
    PROVE  NoticeInv'
<1>1. /\ noticeConn = "off" /\ noticeConn' = "joined"
      /\ UNCHANGED <<noticeRole, noticeNow, noticeRow, noticeOffered, noticeWork, noticeQueue, noticeLast, noticeRec, noticeMissed, noticeClosed>>
  BY DEF Nt!Join
<1>2. Word' = Word
  BY <1>1 DEF Word
<1>3. WordsFit' /\ OfferedOnce'
  BY <1>1, <1>2, SameWords DEF NoticeInv
<1>4. InTurn' /\ NoticeTypes'
  BY <1>1 DEF NoticeInv, NoticeTypes, InTurn, Pending, Nt!Allowed, Nt!Ops
<1> QED
  BY <1>1, <1>3, <1>4 DEF NoticeInv, RowDated, NoticeTells, Nt!Out, Nt!Reached, Wires, WindowFits, Nt!Shows, GoneIsQuiet, EndIsHeard

LEMMA LostStep ==
    ASSUME Forward, NoticeInv, Nt!Lost
    PROVE  NoticeInv'
<1>1. /\ noticeConn' = "off" /\ noticeQueue' = <<>> /\ noticeLast' = Nt!NoRow
      /\ UNCHANGED <<noticeRole, noticeNow, noticeRow, noticeOffered, noticeWork, noticeRec, noticeMissed, noticeClosed>>
  BY DEF Nt!Lost
<1>2. Word' \subseteq Word \cup {Nt!NoRow}
  BY <1>1 DEF Word
<1>3. WordsFit' /\ OfferedOnce'
  BY <1>1, <1>2, SameWords DEF NoticeInv
<1>4. InTurn'
  BY <1>1 DEF NoticeInv, InTurn, Pending, Nt!Allowed, Nt!Ops
<1>5. NoticeTypes'
  <2>1. noticeQueue' \in Seq(Records)
    BY <1>1
  <2> QED
    BY <1>1, <2>1 DEF NoticeInv, NoticeTypes
<1> QED
  BY <1>1, <1>3, <1>4, <1>5 DEF NoticeInv, RowDated, NoticeTells, Nt!Out, Nt!Reached, Wires, WindowFits, Nt!Shows, GoneIsQuiet, EndIsHeard

LEMMA TickStep ==
    ASSUME Forward, NoticeInv, Nt!Tick
    PROVE  NoticeInv'
<1>1. /\ noticeNow' = noticeNow + 1 /\ UNCHANGED <<noticeRole, noticeRow, noticeOffered, noticeWork, noticeConn, noticeQueue, noticeLast, noticeRec, noticeMissed, noticeClosed>>
  BY DEF Nt!Tick, Forward
<1>2. Word' = Word
  BY <1>1 DEF Word
<1>3. WordsFit' /\ OfferedOnce'
  BY <1>1, <1>2, SameWords DEF NoticeInv
<1>4. noticeNow \in Nat /\ noticeRow.upd \in Nat /\ \A t \in Nt!Threads : noticeWork[t].at \in Nat
  BY DEF NoticeInv, NoticeTypes, Records, Nt!NoRow
<1>5. NoticeTypes' /\ RowDated'
  BY <1>1, <1>4 DEF NoticeInv, NoticeTypes, RowDated
<1>6. InTurn'
  <2>1. \A t \in Nt!Threads : Pending(t)' <=> Pending(t)
    BY <1>1 DEF Pending
  <2>2. \A t \in Nt!Threads : Nt!Allowed(noticeWork[t].op, noticeWork[t].at)' <=> Nt!Allowed(noticeWork[t].op, noticeWork[t].at)
    BY <1>1 DEF Nt!Allowed
  <2>3. \A t \in Nt!Threads : noticeWork[t].at <= noticeNow => noticeWork[t].at <= noticeNow + 1
    BY <1>4
  <2> QED
    BY <1>1, <2>1, <2>2, <2>3 DEF NoticeInv, InTurn, Nt!Ops
<1> QED
  BY <1>1, <1>3, <1>5, <1>6 DEF NoticeInv, NoticeTells, Word, Nt!Out, Nt!Reached, Wires, WindowFits, Nt!Shows, GoneIsQuiet, EndIsHeard

LEMMA PurgeStep ==
    ASSUME Forward, NoticeInv, Nt!Purge
    PROVE  NoticeInv'
<1>1. /\ noticeRow.state \in Ends /\ noticeWork = [t \in Nt!Threads |-> Nt!Idle] /\ noticeQueue = <<>> /\ noticeRow' = Nt!NoRow
      /\ UNCHANGED <<noticeRole, noticeNow, noticeOffered, noticeWork, noticeConn, noticeQueue, noticeLast, noticeRec, noticeMissed, noticeClosed>>
  BY DEF Nt!Purge, Ends
<1>2. noticeRow # Nt!NoRow /\ noticeRow \in Records /\ noticeNow \in Nat
  BY <1>1, RankIs DEF Nt!NoRow, NoticeInv, NoticeTypes
<1>3. Word' = Word /\ Word \subseteq {noticeLast, Nt!NoRow}
  BY <1>1 DEF Word, Nt!Idle
<1>4. NoticeTypes' /\ InTurn' /\ OfferedOnce'
  BY <1>1 DEF NoticeInv, NoticeTypes, InTurn, Pending, Nt!Idle, OfferedOnce, Nt!NoRow
<1>5. RowDated'
  BY <1>1, <1>2, RankIs DEF RowDated, Nt!NoRow
<1>6. WordsFit'
  <2>1. \A i \in Word \ {Nt!NoRow} : WordFits(i)'
    BY <1>1 DEF NoticeInv, WordsFit, WordFits
  <2> QED
    BY <1>3, <2>1 DEF NoticeInv, WordsFit
<1>7. noticeConn = "live" /\ ~ noticeMissed => Nt!Shows(Nt!NoRow)
  <2> SUFFICES ASSUME noticeConn = "live", ~ noticeMissed
               PROVE  Nt!Shows(Nt!NoRow)
    OBVIOUS
  <2>1. CASE Nt!Out \/ Nt!Reached(noticeRow)
    <3>1. noticeLast = noticeRow /\ Nt!Shows(noticeRow)
      BY <1>2, <1>3, <2>1 DEF NoticeInv, NoticeTells, WindowFits
    <3> QED
      BY <1>1, <1>2, <3>1 DEF Nt!Shows, Nt!NoRow, Ends, Nt!GivenUp, Nt!Open
  <2>2. CASE ~ Nt!Out /\ ~ Nt!Reached(noticeRow)
    <3>1. ~ noticeOffered
      BY <1>1, <2>2 DEF Nt!Reached, Ends, Nt!GivenUp, NoticeInv, OfferedOnce
    <3>2. noticeRec = Nt!NoRec
      BY <2>2, <3>1 DEF NoticeInv, Wires
    <3> QED
      BY <2>2, <3>2 DEF Nt!Shows, Nt!NoRow, Nt!NoRec
  <2> QED
    BY <2>1, <2>2
<1>8. GoneIsQuiet'
  BY <1>1, <1>7 DEF GoneIsQuiet, Nt!Shows, Nt!Out
<1> QED
  BY <1>1, <1>4, <1>5, <1>6, <1>8 DEF NoticeInv, NoticeTells, Nt!Out, Nt!Reached, Wires, WindowFits, EndIsHeard

\* What a window shows of a record, for its row x.
ShowsIn(x, r) ==
    IF Nt!Out THEN x.state = r.state
    ELSE CASE r.state = "offered" -> x.state = "offered"
           [] r.state = "claimed" -> x.state \in {"claimed", "none"}
           [] r.state = "done" -> x.state \in (IF noticeRole = "taker" THEN {"done", "none"} ELSE {"none"})
           [] OTHER -> x.state = "none"
RowT == [state : {"none", "returned"} \cup Nt!Open \cup Ends, upd : Nat]
RowFits(x) ==
    /\ Nt!Out => x.state # "none"
    /\ ~ Nt!Out => x.state \in {"none", "offered", "claimed", "done"}
    /\ noticeRole = "machine" => x.state # "done"

LEMMA ShowsSame ==
    ASSUME NEW i \in Records
    PROVE  Nt!Shows(i) <=> ShowsIn(noticeRec, i)
<1>1. i # Nt!NoRow /\ i.state # "absent"
  BY RankIs DEF Records, Nt!NoRow
<1> QED
  BY <1>1 DEF Nt!Shows, ShowsIn

\* Word that is not older is what the window shows then.
LEMMA HearsFits ==
    ASSUME noticeRole \in {"sender", "taker", "machine"}, NEW x \in RowT, NEW i \in Records, RowFits(x), x.state # "returned", x.upd <= i.upd,
           Nt!Out \/ i.state # "uploading"
    PROVE  /\ Nt!ApplyInfo(x, i) \in RowT /\ RowFits(Nt!ApplyInfo(x, i)) /\ Nt!ApplyInfo(x, i).upd <= i.upd
           /\ Nt!ApplyInfo(x, i).state # "returned" /\ ShowsIn(Nt!ApplyInfo(x, i), i)
           /\ i.state \in Ends => Nt!ApplyInfo(x, i).state \notin Nt!Open
<1>1. x.upd \in Nat /\ i.upd \in Nat /\ i.state \in Nt!Open \cup Ends /\ ~ (x.upd > i.upd)
  BY DEF RowT, Records
<1>2. CASE Nt!Out
  <2>1. Nt!ApplyInfo(x, i) = [state |-> i.state, upd |-> i.upd]
    BY <1>1, <1>2 DEF Nt!ApplyInfo, RowFits
  <2> QED
    BY <1>1, <1>2, <2>1, RankIs DEF RowT, RowFits, ShowsIn, Nt!Out, Nt!Open, Ends, Nt!GivenUp
<1>3. CASE ~ Nt!Out /\ x.state = "none"
  <2>1. i.state = "offered" => Nt!ApplyInfo(x, i) = [state |-> i.state, upd |-> i.upd]
    BY <1>3 DEF Nt!ApplyInfo
  <2>4. i.state # "offered" => Nt!ApplyInfo(x, i) = x
    BY <1>3 DEF Nt!ApplyInfo
  <2>2. CASE i.state = "offered"
    BY <1>1, <1>3, <2>1, <2>2, RankIs DEF RowT, RowFits, ShowsIn, Nt!Out, Nt!Open, Ends, Nt!GivenUp
  <2>3. CASE i.state # "offered"
    BY <1>1, <1>3, <2>4, <2>3, RankIs DEF RowFits, ShowsIn, Nt!Out, Nt!Open, Ends, Nt!GivenUp
  <2> QED
    BY <2>2, <2>3
<1>4. CASE ~ Nt!Out /\ x.state # "none" /\ (i.state \in Nt!GivenUp \/ (i.state = "done" /\ noticeRole = "machine"))
  <2>1. Nt!ApplyInfo(x, i) = Nt!NoRec
    BY <1>1, <1>4 DEF Nt!ApplyInfo
  <2> QED
    BY <1>1, <1>4, <2>1 DEF RowT, RowFits, ShowsIn, Nt!Out, Nt!NoRec, Nt!GivenUp, Nt!Open
<1>5. CASE ~ Nt!Out /\ x.state # "none" /\ ~ (i.state \in Nt!GivenUp \/ (i.state = "done" /\ noticeRole = "machine"))
  <2>1. Nt!ApplyInfo(x, i) = [state |-> i.state, upd |-> i.upd]
    BY <1>1, <1>5 DEF Nt!ApplyInfo
  <2>2. i.state \in {"offered", "claimed", "done"} /\ (i.state = "done" => noticeRole = "taker")
    BY <1>1, <1>5 DEF Nt!Open, Ends, Nt!Out
  <2> QED
    BY <1>1, <1>5, <2>1, <2>2 DEF RowT, RowFits, ShowsIn, Nt!Out, Nt!Open, Ends
<1> QED
  BY <1>2, <1>3, <1>4, <1>5

LEMMA NoticesSay ==
    ASSUME Forward, NoticeInv
    PROVE  Nt!NoticesAreTrue
<1>1. noticeClosed => noticeRec.state \notin Nt!Open
  BY DEF NoticeInv, EndIsHeard
<1>2. ASSUME Nt!Said
      PROVE  Nt!Shows(noticeRow)
  <2>1. noticeConn = "live" /\ ~ noticeMissed /\ Word \subseteq {noticeLast, Nt!NoRow}
    BY <1>2 DEF Nt!Said, Word
  <2>2. CASE noticeRow = Nt!NoRow
    BY <2>1, <2>2 DEF NoticeInv, GoneIsQuiet
  <2>3. CASE noticeRow # Nt!NoRow /\ (Nt!Out \/ Nt!Reached(noticeRow))
    BY <2>1, <2>3 DEF NoticeInv, NoticeTells, WindowFits
  <2>4. CASE noticeRow # Nt!NoRow /\ ~ Nt!Out /\ ~ Nt!Reached(noticeRow)
    <3>1. noticeRow.state \in Nt!Open \cup Ends
      BY <2>4 DEF NoticeInv, NoticeTypes, Records
    <3>2. ~ noticeOffered /\ noticeRow.state \in {"uploading", "recalled", "expired"}
      BY <2>4, <3>1 DEF Nt!Reached, Nt!Open, Ends, Nt!GivenUp, NoticeInv, OfferedOnce
    <3>3. noticeRec = Nt!NoRec
      BY <2>4, <3>2 DEF NoticeInv, Wires
    <3> QED
      BY <2>4, <3>2, <3>3 DEF Nt!Shows, Nt!NoRec
  <2> QED
    BY <2>2, <2>3, <2>4
<1> QED
  BY <1>1, <1>2 DEF Nt!NoticesAreTrue

LEMMA ListsStep ==
    ASSUME Forward, NoticeInv, Nt!Lists
    PROVE  NoticeInv'
<1> DEFINE r == IF Nt!Out \/ noticeOffered THEN noticeRow ELSE Nt!NoRow
<1>1. /\ noticeConn = "joined" /\ noticeConn' = "live" /\ noticeMissed' = FALSE /\ UNCHANGED <<noticeRole, noticeNow, noticeRow, noticeOffered, noticeWork, noticeQueue>>
      /\ noticeLast' = (IF r = Nt!NoRow THEN noticeLast ELSE r)
      /\ noticeRec' = Nt!ApplyList(noticeRec, r) /\ noticeClosed' = (noticeClosed \/ r.state \in Ends)
  BY DEF Nt!Lists, Nt!Seeded, Nt!Hears, Ends
<1>2. /\ noticeLast = Nt!NoRow /\ noticeRow \in Records \cup {Nt!NoRow} /\ noticeRole \in {"sender", "taker", "machine"} /\ noticeRec \in RowT /\ RowFits(noticeRec)
  BY <1>1 DEF NoticeInv, NoticeTypes, Wires, WindowFits, RowFits, RowT
<1>3. noticeLast' = r /\ r \in Records \cup {Nt!NoRow}
  BY <1>1, <1>2
<1>4. Word' \ {Nt!NoRow} \subseteq Word \cup {noticeRow}
  BY <1>1, <1>3 DEF Word
<1>5. WordsFit' /\ OfferedOnce'
  BY <1>1, <1>4, SameWords DEF NoticeInv
<1>6. InTurn'
  BY <1>1 DEF NoticeInv, InTurn, Pending, Nt!Allowed, Nt!Ops
<1>7. RowDated' /\ (Nt!Out' <=> Nt!Out) /\ \A i : Nt!Reached(i)' <=> Nt!Reached(i)
  BY <1>1 DEF NoticeInv, RowDated, Nt!Out, Nt!Reached
<1>8. ASSUME noticeRec' \in RowT
      PROVE  NoticeTypes'
  BY <1>1, <1>3, <1>8 DEF NoticeInv, NoticeTypes, RowT
<1>9. CASE noticeRow # Nt!NoRow /\ (Nt!Out \/ noticeOffered)
  <2>1. r = noticeRow /\ noticeRow \in Records /\ noticeRec' = Nt!ApplyInfo(noticeRec, noticeRow) /\ noticeLast' = noticeRow
    BY <1>1, <1>2, <1>3, <1>9 DEF Nt!ApplyList
  <2>2. noticeRec.state # "returned" /\ noticeRec.upd <= noticeRow.upd /\ (Nt!Out \/ noticeRow.state # "uploading")
    BY <1>9 DEF NoticeInv, WindowFits, OfferedOnce
  <2>3. /\ noticeRec' \in RowT /\ RowFits(noticeRec') /\ noticeRec'.upd <= noticeRow.upd
        /\ noticeRec'.state # "returned" /\ ShowsIn(noticeRec', noticeRow)
        /\ noticeRow.state \in Ends => noticeRec'.state \notin Nt!Open
    BY <1>2, <2>1, <2>2, HearsFits
  <2>4. Nt!Shows(noticeLast)'
    <3>1. ShowsIn(noticeRec, noticeRow)'
      BY <1>1, <2>3 DEF ShowsIn, Nt!Out
    <3>2. noticeRow' \in Records
      BY <1>1, <2>1
    <3> QED
      BY <1>1, <2>1, <3>1, <3>2, RankIs DEF Nt!Shows, ShowsIn, Nt!Out, Records, Nt!NoRow
  <2>5. WindowFits'
    BY <1>1, <1>7, <1>9, <2>1, <2>3, <2>4 DEF WindowFits, RowFits
  <2>6. NoticeTells' /\ Wires'
    <3>1. noticeRow' \in Word'
      BY <1>1, <2>1 DEF Word
    <3>2. ~ Nt!Out => \A k \in 1 .. Len(noticeQueue) : Nt!Reached(noticeQueue[k])
      BY DEF NoticeInv, Wires
    <3>3. (~ Nt!Out => \A k \in 1 .. Len(noticeQueue) : Nt!Reached(noticeQueue[k]))'
      BY <1>1, <1>7, <3>2
    <3> QED
      BY <1>1, <1>7, <1>9, <3>1, <3>3 DEF NoticeTells, Wires
  <2>7. EndIsHeard'
    BY <1>1, <1>7, <1>9, <2>1, <2>3 DEF NoticeInv, EndIsHeard
  <2>8. GoneIsQuiet' /\ NoticeTypes'
    BY <1>1, <1>8, <1>9, <2>3 DEF GoneIsQuiet
  <2> QED
    BY <1>5, <1>6, <1>7, <2>5, <2>6, <2>7, <2>8 DEF NoticeInv
<1>10. CASE ~ (noticeRow # Nt!NoRow /\ (Nt!Out \/ noticeOffered))
  <2>1. r = Nt!NoRow /\ noticeLast' = Nt!NoRow /\ noticeRec' = Nt!ApplyList(noticeRec, Nt!NoRow) /\ (noticeClosed' => noticeClosed)
    <3>1. r = Nt!NoRow /\ noticeLast' = Nt!NoRow /\ noticeRec' = Nt!ApplyList(noticeRec, Nt!NoRow)
      BY <1>1, <1>2, <1>3, <1>10
    <3>2. Nt!NoRow.state \notin Ends
      BY DEF Nt!NoRow, Ends, Nt!GivenUp
    <3>3. r.state \notin Ends
      BY <3>1, <3>2
    <3> QED
      BY <1>1, <3>1, <3>3
  <2>2. /\ noticeRec' = IF Nt!Out THEN (IF noticeRec.state \in Nt!Open THEN [noticeRec EXCEPT !.state = "returned"] ELSE noticeRec)
                  ELSE IF noticeRec.state = "done" THEN noticeRec ELSE Nt!NoRec
    BY <2>1 DEF Nt!ApplyList
  <2>3. /\ noticeRec' \in RowT /\ RowFits(noticeRec') /\ noticeRec'.state \notin Nt!Open
        /\ ~ Nt!Out => noticeRec'.state \in (IF noticeRole = "taker" THEN {"done", "none"} ELSE {"none"})
    <3>1. CASE Nt!Out /\ noticeRec.state \in Nt!Open
      <4>1. noticeRec'.state = "returned" /\ noticeRec'.upd = noticeRec.upd /\ noticeRec' \in RowT
        BY <1>2, <2>2, <3>1 DEF RowT
      <4> QED
        BY <3>1, <4>1 DEF RowFits, Nt!Open, Nt!Out
    <3>2. CASE Nt!Out /\ noticeRec.state \notin Nt!Open
      BY <1>2, <2>2, <3>2
    <3>3. CASE ~ Nt!Out /\ noticeRec.state = "done"
      BY <1>2, <2>2, <3>3 DEF RowFits, Nt!Open, Nt!Out
    <3>4. CASE ~ Nt!Out /\ noticeRec.state # "done"
      BY <1>2, <2>2, <3>4 DEF RowFits, RowT, Nt!Open, Nt!NoRec
    <3> QED
      BY <3>1, <3>2, <3>3, <3>4
  <2>4. Word' = Word
    BY <1>1, <1>2, <2>1 DEF Word
  <2>5. Nt!Shows(Nt!NoRow)'
    <3>1. Nt!NoRow.state = "absent"
      BY DEF Nt!NoRow
    <3> QED
      BY <1>1, <1>7, <2>3, <3>1 DEF Nt!Shows, Nt!Open
  <2>6. noticeRow # Nt!NoRow => ~ Nt!Out /\ ~ noticeOffered /\ noticeRec = Nt!NoRec /\ noticeRec' = Nt!NoRec /\ ~ Nt!Reached(noticeRow)
    <3> SUFFICES ASSUME noticeRow # Nt!NoRow
                 PROVE  ~ Nt!Out /\ ~ noticeOffered /\ noticeRec = Nt!NoRec /\ noticeRec' = Nt!NoRec /\ ~ Nt!Reached(noticeRow)
      OBVIOUS
    <3>1. ~ Nt!Out /\ ~ noticeOffered /\ noticeRec = Nt!NoRec
      BY <1>10 DEF NoticeInv, Wires
    <3>2. noticeRec' = Nt!NoRec
      BY <2>2, <3>1
    <3>3. noticeRow.state \in Nt!Open \cup Ends
      BY <1>2 DEF Records
    <3>4. ~ Nt!Reached(noticeRow)
      BY <3>1, <3>3 DEF Nt!Reached, Nt!Open, Ends, Nt!GivenUp, NoticeInv, OfferedOnce
    <3> QED
      BY <3>1, <3>2, <3>4
  <2>7. WindowFits'
    <3>1. (noticeRow # Nt!NoRow)' => noticeRec'.upd <= noticeRow'.upd /\ noticeRec'.state # "returned"
      BY <1>1, <2>6 DEF NoticeInv, WindowFits
    <3>2. (noticeRow # Nt!NoRow)' => (~ Nt!Out)' /\ noticeRec' = Nt!NoRec
      BY <1>1, <1>7, <2>6
    <3> QED
      BY <1>1, <1>7, <2>1, <2>3, <3>1, <3>2 DEF WindowFits, RowFits
  <2>8. NoticeTells'
    BY <1>1, <1>7, <2>6 DEF NoticeTells
  <2>9. Wires'
    <3>2. ~ Nt!Out => \A k \in 1 .. Len(noticeQueue) : Nt!Reached(noticeQueue[k])
      BY DEF NoticeInv, Wires
    <3>3. (~ Nt!Out => \A k \in 1 .. Len(noticeQueue) : Nt!Reached(noticeQueue[k]))'
      BY <1>1, <1>7, <3>2
    <3>4. ~ Nt!Out /\ ~ noticeOffered => noticeRec' = Nt!NoRec
      <4>1. ~ Nt!Out /\ ~ noticeOffered => noticeRec = Nt!NoRec
        BY DEF NoticeInv, Wires
      <4> QED
        BY <2>2, <4>1 DEF Nt!NoRec
    <3> QED
      BY <1>1, <1>7, <2>1, <3>3, <3>4 DEF Wires
  <2>10. GoneIsQuiet'
    BY <1>1, <2>5 DEF NoticeInv, GoneIsQuiet, Nt!Shows, Nt!Out
  <2>11. EndIsHeard'
    BY <1>1, <1>7, <2>1, <2>3, <2>6 DEF NoticeInv, EndIsHeard
  <2> QED
    BY <1>5, <1>6, <1>7, <1>8, <2>3, <2>7, <2>8, <2>9, <2>10, <2>11 DEF NoticeInv
<1> QED
  BY <1>9, <1>10

LEMMA ForwardsStep ==
    ASSUME Forward, NoticeInv, Nt!Forwards
    PROVE  NoticeInv'
<1> DEFINE i == Head(noticeQueue)
<1>1. /\ noticeConn = "live" /\ noticeQueue # <<>> /\ noticeQueue' = Tail(noticeQueue) /\ UNCHANGED <<noticeRole, noticeNow, noticeRow, noticeOffered, noticeWork, noticeConn, noticeMissed>>
      /\ Nt!Fresh(noticeLast, i) => noticeLast' = i /\ noticeRec' = Nt!ApplyInfo(noticeRec, i) /\ noticeClosed' = (noticeClosed \/ i.state \in Ends)
      /\ ~ Nt!Fresh(noticeLast, i) => UNCHANGED <<noticeLast, noticeRec, noticeClosed>>
  BY DEF Nt!Forwards, Nt!Hears, Ends
<1>2. noticeQueue \in Seq(Records) /\ noticeRole \in {"sender", "taker", "machine"} /\ noticeRec \in RowT /\ noticeLast \in Records \cup {Nt!NoRow} /\ RowFits(noticeRec)
  BY DEF NoticeInv, NoticeTypes, WindowFits, RowFits, RowT
<1>3. /\ i = noticeQueue[1] /\ i \in Records /\ noticeQueue' \in Seq(Records) /\ 1 \in 1 .. Len(noticeQueue)
      /\ \A k \in 1 .. Len(noticeQueue') : k + 1 \in 1 .. Len(noticeQueue) /\ noticeQueue'[k] = noticeQueue[k + 1]
      /\ \A k \in 1 .. Len(noticeQueue) : k = 1 \/ (k - 1 \in 1 .. Len(noticeQueue') /\ noticeQueue'[k - 1] = noticeQueue[k])
  BY <1>1, <1>2
<1>4. noticeRow # Nt!NoRow /\ noticeRow \in Records
  BY <1>1 DEF NoticeInv, NoticeTypes, GoneIsQuiet
<1>5. i \in Word \ {Nt!NoRow}
  BY <1>3, WordTypes DEF Word, NoticeInv
<1>6. WordFits(i) /\ (i = noticeRow \/ Nt!Older(i, noticeRow)) /\ (i.state \in Ends => i = noticeRow)
  <2>1. WordFits(i)
    BY <1>5 DEF NoticeInv, WordsFit
  <2> QED
    BY <1>4, <2>1 DEF WordFits
<1>7. ~ Nt!Out => Nt!Reached(i) /\ noticeOffered /\ i.state # "uploading"
  <2> SUFFICES ASSUME ~ Nt!Out
               PROVE  Nt!Reached(i) /\ noticeOffered /\ i.state # "uploading"
    OBVIOUS
  <2>1. Nt!Reached(i)
    BY <1>3 DEF NoticeInv, Wires
  <2>2. i.state \in Nt!Open \cup Ends /\ i.state # "uploading"
    BY <1>3, <2>1 DEF Records, Nt!Reached
  <2>3. i.state \in {"offered", "claimed", "done", "declined"} => noticeOffered
    BY <1>6 DEF WordFits
  <2> QED
    BY <2>1, <2>2, <2>3 DEF Nt!Reached, Nt!Open, Ends, Nt!GivenUp
<1>8. RowDated' /\ InTurn' /\ (Nt!Out' <=> Nt!Out) /\ \A j : Nt!Reached(j)' <=> Nt!Reached(j)
  BY <1>1 DEF NoticeInv, RowDated, InTurn, Pending, Nt!Allowed, Nt!Ops, Nt!Out, Nt!Reached
<1>9. Word' \subseteq Word /\ Word \subseteq Word' \cup {i, noticeLast}
  <2>1. \A k \in 1 .. Len(noticeQueue') : noticeQueue'[k] \in Word
    BY <1>3 DEF Word
  <2>2. \A k \in 1 .. Len(noticeQueue) : noticeQueue[k] \in Word' \cup {i}
    BY <1>3 DEF Word
  <2>3. noticeLast' \in Word
    BY <1>1, <1>5 DEF Word
  <2>4. Word' \subseteq Word
    BY <1>1, <2>1, <2>3 DEF Word
  <2> QED
    BY <1>1, <2>2, <2>4 DEF Word
<1>10. WordsFit' /\ OfferedOnce'
  BY <1>1, <1>9, SameWords DEF NoticeInv
<1>11. GoneIsQuiet'
  BY <1>1, <1>4 DEF GoneIsQuiet
<1>12. /\ ~ Nt!Out => \A k \in 1 .. Len(noticeQueue') : Nt!Reached(noticeQueue'[k])
  BY <1>3 DEF NoticeInv, Wires
<1>13. (~ Nt!Out => \A k \in 1 .. Len(noticeQueue) : Nt!Reached(noticeQueue[k]))'
  BY <1>8, <1>12
<1>14. Wires'
  BY <1>1, <1>7, <1>8, <1>13 DEF Wires
<1>15. noticeLast' \in Word' /\ i.upd \in Nat /\ noticeRow.upd \in Nat /\ Nt!Rank(i.state) \in 0 .. 3 /\ Nt!Rank(noticeRow.state) \in 0 .. 3
       /\ (noticeLast # Nt!NoRow => Nt!Rank(noticeLast.state) \in 0 .. 3 /\ noticeLast.upd \in Nat)
  BY <1>2, <1>3, <1>4, RankIs DEF Records, Word
<1>16. noticeLast # Nt!NoRow => noticeLast = noticeRow \/ Nt!Older(noticeLast, noticeRow)
  <2>1. noticeLast \in Word
    BY DEF Word
  <2> QED
    BY <1>4, <2>1 DEF NoticeInv, WordsFit, WordFits
<1>17. /\ noticeLast = noticeRow /\ Nt!Fresh(noticeLast, i) => i = noticeRow
       /\ ~ Nt!Fresh(noticeLast, i) => noticeLast # Nt!NoRow /\ Nt!Older(i, noticeLast) /\ i # noticeRow
  BY <1>4, <1>6, <1>15, <1>16 DEF Nt!Fresh, Nt!Older
<1>18. NoticeTells'
  <2> SUFFICES ASSUME ~ noticeMissed, Nt!Out \/ Nt!Reached(noticeRow)
               PROVE  noticeRow \in Word'
    BY <1>1, <1>8 DEF NoticeTells
  <2>1. noticeRow \in Word
    BY <1>1, <1>4 DEF NoticeInv, NoticeTells
  <2> QED
    BY <1>1, <1>9, <1>15, <1>17, <2>1
<1>19. CASE Nt!Fresh(noticeLast, i)
  <2>1. noticeRec.upd <= i.upd /\ noticeRec.state # "returned"
    <3>1. noticeRec.state # "returned" /\ noticeRec.upd \in Nat
      BY <1>2, <1>4 DEF NoticeInv, WindowFits, RowT
    <3>2. CASE noticeLast = Nt!NoRow
      <4>1. noticeRec.upd = 0
        BY <1>1, <1>4, <3>2 DEF NoticeInv, WindowFits, Nt!NoRec
      <4> QED
        BY <1>15, <3>1, <4>1
    <3>3. CASE noticeLast # Nt!NoRow
      <4>1. noticeRec.upd <= noticeLast.upd
        BY <1>1, <1>4, <3>3 DEF NoticeInv, WindowFits
      <4>2. noticeLast \in Word \ {Nt!NoRow}
        BY <3>3 DEF Word
      <4>3. Nt!Rank(noticeLast.state) < Nt!Rank(i.state) => noticeLast.upd <= i.upd
        BY <1>5, <4>2 DEF NoticeInv, WordsFit
      <4>4. noticeLast.upd <= i.upd
        BY <1>15, <1>19, <3>3, <4>3 DEF Nt!Fresh, Nt!Older
      <4> QED
        BY <1>15, <3>1, <3>3, <4>1, <4>4
    <3> QED
      BY <3>2, <3>3
  <2>2. /\ noticeRec' \in RowT /\ RowFits(noticeRec') /\ noticeRec'.upd <= i.upd
        /\ noticeRec'.state # "returned" /\ ShowsIn(noticeRec', i)
        /\ i.state \in Ends => noticeRec'.state \notin Nt!Open
    BY <1>1, <1>2, <1>3, <1>7, <1>19, <2>1, HearsFits
  <2>3. noticeLast' = i
    BY <1>1, <1>19
  <2>4. NoticeTypes'
    BY <1>1, <1>3, <2>2, <2>3 DEF NoticeInv, NoticeTypes, RowT
  <2>5. Nt!Shows(noticeLast)'
    <3>1. i # Nt!NoRow /\ i.state # "absent"
      BY <1>3, RankIs DEF Records, Nt!NoRow
    <3>2. ShowsIn(noticeRec', i) <=> ShowsIn(noticeRec', noticeLast')
      BY <2>3
    <3> QED
      BY <1>1, <2>2, <2>3, <3>1 DEF Nt!Shows, ShowsIn, Nt!Out
  <2>6. WindowFits'
    <3>1. noticeRec'.upd <= noticeRow'.upd
      <4>1. i.upd <= noticeRow.upd
        BY <1>4, <1>6 DEF WordFits
      <4>2. noticeRec'.upd \in Nat
        BY <2>2 DEF RowT
      <4> QED
        BY <1>1, <1>15, <2>2, <4>1, <4>2
    <3>2. noticeLast' # Nt!NoRow
      BY <1>5, <2>3
    <3> QED
      BY <1>1, <1>8, <2>2, <2>3, <2>5, <3>1, <3>2 DEF WindowFits, RowFits
  <2>7. EndIsHeard'
    <3> SUFFICES ASSUME noticeClosed'
                 PROVE  noticeRec'.state \notin Nt!Open /\ noticeRow.state \in Ends /\ (Nt!Out \/ noticeOffered) /\ i = noticeRow
      BY <1>1, <1>8, <2>3 DEF EndIsHeard
    <3>1. i = noticeRow /\ noticeRow.state \in Ends
      <4>1. CASE i.state \in Ends
        BY <1>6, <4>1
      <4>2. CASE noticeClosed
        <5>1. noticeRow.state \in Ends /\ noticeLast = noticeRow
          BY <1>1, <1>4, <4>2 DEF NoticeInv, EndIsHeard
        <5> QED
          BY <1>17, <1>19, <5>1
      <4> QED
        BY <1>1, <1>19, <4>1, <4>2
    <3> QED
      BY <1>7, <2>2, <3>1
  <2> QED
    BY <1>8, <1>10, <1>11, <1>14, <1>18, <2>4, <2>6, <2>7 DEF NoticeInv
<1>20. CASE ~ Nt!Fresh(noticeLast, i)
  <2>1. UNCHANGED <<noticeLast, noticeRec, noticeClosed>>
    BY <1>1, <1>20
  <2>2. NoticeTypes'
    BY <1>1, <1>3, <2>1 DEF NoticeInv, NoticeTypes
  <2>3. WindowFits' /\ EndIsHeard'
    BY <1>1, <2>1 DEF NoticeInv, WindowFits, EndIsHeard, Nt!Shows, Nt!Out
  <2> QED
    BY <1>8, <1>10, <1>11, <1>14, <1>18, <2>2, <2>3 DEF NoticeInv
<1> QED
  BY <1>19, <1>20

LEMMA NoticeSteps ==
    ASSUME Forward, NoticeInv, [Nt!Next]_(Nt!ntvars)
    PROVE  NoticeInv'
<1>1. CASE UNCHANGED Nt!ntvars
  <2>1. UNCHANGED <<noticeRole, noticeNow, noticeRow, noticeOffered, noticeWork, noticeConn, noticeQueue, noticeLast, noticeRec, noticeMissed, noticeClosed>>
    BY <1>1 DEF Nt!ntvars
  <2>2. Word' = Word
    BY <2>1 DEF Word
  <2>3. WordsFit' /\ OfferedOnce'
    BY <2>1, <2>2, SameWords DEF NoticeInv
  <2>4. InTurn' /\ NoticeTypes'
    BY <2>1 DEF NoticeInv, NoticeTypes, InTurn, Pending, Nt!Allowed, Nt!Ops
  <2> QED
    BY <2>1, <2>2, <2>3, <2>4 DEF NoticeInv, RowDated, NoticeTells, Nt!Out, Nt!Reached, Wires, WindowFits, Nt!Shows, GoneIsQuiet, EndIsHeard
<1>2. CASE Nt!Next
  BY <1>2, TakesStep, NoticeCommitsStep, AnnouncesStep, JoinStep, ListsStep, ForwardsStep, LostStep, TickStep, PurgeStep DEF Nt!Next
<1> QED
  BY <1>1, <1>2

\* However threads overtake each other and connections come and go: once all is said and heard the window shows the
\* record as it is, and what it heard the end of never comes up again, for every clock that does not step back.
THEOREM NoticesAreTrueHolds == ASSUME Forward PROVE Nt!Spec => []Nt!NoticesAreTrue
<1>1. Nt!Init => NoticeInv
  BY NoticesBegin
<1>2. NoticeInv /\ [Nt!Next]_(Nt!ntvars) => NoticeInv'
  BY NoticeSteps
<1>3. NoticeInv => Nt!NoticesAreTrue
  BY NoticesSay
<1> QED
  BY <1>1, <1>2, <1>3, PTL DEF Nt!Spec

=============================================================================
