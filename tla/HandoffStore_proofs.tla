------------------------- MODULE HandoffStore_proofs -------------------------
(***************************************************************************)
(* HandoffStore's safety invariants and that it implements                 *)
(* HandoffOwnership, for any machines, users, ids, sizes and durations.    *)
(*                                                                         *)
(* Each handoff is a row and its parts, and but for the revoke and the     *)
(* switch no handoff's step depends on another's.  So the invariant is one *)
(* about a row and its parts (Sound), of every handoff, with what ties     *)
(* them to the switch and to the machines that are paired.                 *)
(***************************************************************************)
EXTENDS HandoffStore, TLAPS

Contents == {"none", "right", "wrong"}

\* A row names its taker from its claim on.
RowSound(r) ==
    /\ r \in Rows \cup {NoRow}
    /\ r.state \in {"uploading", "offered"} => r.taker = Nobody
    /\ r.state \in {"claimed", "done"} => r.taker \in Devices

\* Parts are held while it is open only, never past the count offered, and once sealed are all right.
Sound(r, b) ==
    /\ RowSound(r)
    /\ b \in [Parts -> Contents]
    /\ \A p \in Parts : b[p] # "none" => r.state \in Open /\ p <= r.parts
    /\ r.state \in {"offered", "claimed"} => \A p \in Parts : p <= r.parts => b[p] = "right"

Tables ==
    /\ row \in [Ids -> Rows \cup {NoRow}]
    /\ blob \in [Ids -> [Parts -> Contents]]
    /\ \A id \in Ids : Sound(row[id], blob[id])

Rest ==
    /\ member \in [Devices -> {"new", "paired", "revoked"}]
    /\ admitted \subseteq Devices
    /\ on \in BOOLEAN
    /\ now \in Nat
    /\ late \subseteq Ids

\* A row moved to a terminal state.
Ended(r, f, n) == [r EXCEPT !.state = f, !.updated = n]

IInv == Tables /\ Rest /\ OffLeavesNothingOpen /\ EndsWithItsMachine

-----------------------------------------------------------------------------
(* One handoff's row and parts.                                             *)

\* An id without a row is in no state at all; every other one has a whole row.
LEMMA StateOfRow ==
  ASSUME NEW r \in Rows \cup {NoRow}
  PROVE  /\ r.state \in Open \cup Closed <=> r \in Rows
         /\ r.state = "absent" <=> r = NoRow
BY DEF Rows, NoRow, Open, Closed

\* No state is both open and closed.
LEMMA OpenIsNotClosed == Open \cap Closed = {} /\ "absent" \notin Open \cup Closed
BY DEF Open, Closed

\* Nothing held is sound with a row of any closed state, and with no row.
LEMMA ClosedIsSound ==
  ASSUME NEW r, NEW b, Sound(r, b), r.state \in Open,
         NEW f \in Closed, f = "done" => r.state = "claimed", NEW n \in Nat
  PROVE  Sound(Ended(r, f, n), Empty) /\ Ended(r, f, n).state = f
<1> DEFINE s == Ended(r, f, n)
<1>1. r \in Rows
  BY StateOfRow DEF Sound, RowSound
<1>2. s \in Rows /\ s.state = f /\ s.taker = r.taker
  BY <1>1 DEF Rows, Closed, Ended
<1> HIDE DEF s
<1>3. RowSound(s)
  BY <1>2 DEF RowSound, Closed, Sound
<1>4. Empty \in [Parts -> Contents] /\ \A p \in Parts : Empty[p] = "none"
  BY DEF Empty, Contents
<1>5. s.state \notin {"offered", "claimed"}
  BY <1>2 DEF Closed
<1>6. QED
  BY <1>2, <1>3, <1>4, <1>5 DEF Sound, s

LEMMA NoRowIsSound == Sound(NoRow, Empty)
BY DEF Sound, RowSound, NoRow, Empty, Contents

\* Closing any open handoffs keeps every handoff sound.
LEMMA CloseKeepsTables ==
  ASSUME Tables, now \in Nat, NEW S \in SUBSET OpenIds, NEW final,
         \A id \in S : final[id] \in Closed /\ (final[id] = "done" => Is(id, {"claimed"})),
         Close(S, final)
  PROVE  /\ Tables'
         /\ \A id \in Ids \ S : row'[id] = row[id]
         /\ \A id \in S : row'[id].state = final[id]
<1>1. \A id \in S : id \in Ids /\ row[id].state \in Open
  BY DEF OpenIds, Is
<1>2. ASSUME NEW id \in S
      PROVE  /\ row'[id] = Ended(row[id], final[id], now)
             /\ blob'[id] = Empty
  BY <1>1, <1>2 DEF Close, Ended
<1>3. ASSUME NEW id \in Ids \ S PROVE row'[id] = row[id] /\ blob'[id] = blob[id]
  BY <1>3 DEF Close
<1>4. ASSUME NEW id \in S PROVE Sound(row'[id], blob'[id]) /\ row'[id].state = final[id]
  <2>1. Sound(row[id], blob[id]) /\ row[id].state \in Open
    BY <1>1 DEF Tables
  <2>2. final[id] = "done" => row[id].state = "claimed"
    BY DEF Is
  <2>3. QED
    BY <1>2, <2>1, <2>2, ClosedIsSound
<1>5. \A id \in Ids : Sound(row'[id], blob'[id])
  BY <1>3, <1>4 DEF Tables
<1>6. DOMAIN row' = Ids /\ DOMAIN blob' = Ids /\ row' = [id \in Ids |-> row'[id]] /\ blob' = [id \in Ids |-> blob'[id]]
  BY DEF Close
<1>7. row' \in [Ids -> Rows \cup {NoRow}] /\ blob' \in [Ids -> [Parts -> Contents]]
  BY <1>5, <1>6 DEF Sound, RowSound
<1>8. QED
  BY <1>3, <1>4, <1>5, <1>7 DEF Tables

-----------------------------------------------------------------------------
(* The tables, action by action.                                            *)

\* A new row holds nothing yet.
LEMMA OfferKeepsTables ==
  ASSUME IInv, NEW d \in Devices, NEW id \in Ids, NEW u \in Users,
         NEW t \in Devices \cup {AnyDevice}, NEW n \in Parts, HandoffOffer(d, id, u, t, n)
  PROVE  Tables'
<1> DEFINE r == [state |-> "uploading", from |-> d, toUser |-> u, toDevice |-> t, parts |-> n,
                 taker |-> Nobody, expires |-> now + Ttl, updated |-> now]
<1>1. Tables /\ now \in Nat /\ Ttl \in Nat
  BY HandoffStoreAssumption DEF IInv, Rest
<1>2. r \in Rows
  BY <1>1 DEF Rows, Open
<1>3. row' = [row EXCEPT ![id] = r] /\ blob' = blob /\ row[id].state = "absent"
  BY DEF HandoffOffer, Is
<1>4. \A p \in Parts : blob[id][p] = "none"
  BY <1>1, <1>3, OpenIsNotClosed DEF Tables, Sound
<1>5. RowSound(r) /\ r.state = "uploading"
  BY <1>2 DEF RowSound
<1> HIDE DEF r
<1>6. Sound(r, blob[id])
  BY <1>1, <1>4, <1>5 DEF Sound, Tables
<1>7. QED
  BY <1>1, <1>2, <1>3, <1>6 DEF Tables

\* A part goes into a row that is still uploading; only a whole, right blob seals it.
LEMMA PutKeepsTables ==
  ASSUME IInv, NEW d \in Devices, NEW id \in Ids, NEW p \in Parts,
         NEW bytes \in {"right", "wrong"}, HandoffPut(d, id, p, bytes)
  PROVE  /\ Tables'
         /\ row'[id].state \in Open /\ row'[id].from = row[id].from
         /\ row'[id].toDevice = row[id].toDevice /\ row'[id].taker = row[id].taker
         /\ \A x \in Ids \ {id} : row'[x] = row[x]
<1> DEFINE r == row[id]
           parts == [blob[id] EXCEPT ![p] = bytes]
           full == \A i \in 1..r.parts : parts[i] # "none"
           right == \A i \in 1..r.parts : parts[i] = "right"
           s == [r EXCEPT !.updated = now, !.state = IF full /\ right THEN "offered" ELSE @]
           b == IF full /\ ~ right THEN Empty ELSE parts
<1>1. Tables /\ now \in Nat
  BY DEF IInv, Rest
<1>2. r.state = "uploading" /\ p <= r.parts
  BY DEF HandoffPut, TakesParts, Is
<1>3. r \in Rows /\ Sound(r, blob[id])
  BY <1>1, <1>2, StateOfRow DEF Tables, Open
<1>4. blob' = [blob EXCEPT ![id] = b]
  BY DEF HandoffPut
<1>5. row' = [row EXCEPT ![id] = s]
  BY <1>1 DEF HandoffPut, Tables
<1>6. /\ s \in Rows /\ s.state \in {"uploading", "offered"} /\ s.parts = r.parts
      /\ s.taker = r.taker /\ s.from = r.from /\ s.toDevice = r.toDevice
      /\ s.state = "offered" => full /\ right
  BY <1>1, <1>2, <1>3 DEF Rows, Open
<1>7. r.taker = Nobody
  BY <1>2, <1>3 DEF Sound, RowSound
<1>8. RowSound(s)
  BY <1>6, <1>7 DEF RowSound
<1>9. parts \in [Parts -> Contents] /\ \A i \in Parts : parts[i] # "none" => i <= r.parts
  BY <1>2, <1>3 DEF Sound, Contents
<1>10. Empty \in [Parts -> Contents] /\ \A i \in Parts : Empty[i] = "none"
  BY DEF Empty, Contents
<1>11. b \in [Parts -> Contents] /\ \A i \in Parts : b[i] # "none" => i <= r.parts
  BY <1>9, <1>10
<1>12. right => b = parts
  OBVIOUS
<1>13. ASSUME s.state = "offered", NEW i \in Parts, i <= r.parts PROVE b[i] = "right"
  <2>1. i \in 1..r.parts
    BY <1>3, <1>13 DEF Rows, Parts
  <2>2. QED
    BY <2>1, <1>6, <1>12, <1>13
<1> HIDE DEF s, b, r
<1>14. Sound(s, b)
  BY <1>6, <1>8, <1>11, <1>13 DEF Sound, Open
<1>15. Tables'
  BY <1>1, <1>4, <1>5, <1>6, <1>11, <1>14 DEF Tables
<1>16. row'[id] = s /\ \A x \in Ids \ {id} : row'[x] = row[x]
  BY <1>1, <1>5 DEF Tables
<1>17. s.state \in Open
  BY <1>6 DEF Open
<1>18. QED
  BY <1>6, <1>15, <1>16, <1>17 DEF r

\* A claim names a taker and leaves the sealed parts alone.
LEMMA ClaimKeepsTables ==
  ASSUME IInv, NEW d \in Devices, NEW id \in Ids, HandoffClaim(d, id)
  PROVE  /\ Tables'
         /\ row[id].state = "offered"
         /\ row'[id].state = "claimed" /\ row'[id].taker = d
         /\ \A x \in Ids \ {id} : row'[x] = row[x]
<1> DEFINE r == row[id]
           s == Taken(id, d)
<1>1. Tables /\ now \in Nat /\ ClaimHold \in Nat
  BY HandoffStoreAssumption DEF IInv, Rest
<1>2. r.state = "offered" /\ row' = [row EXCEPT ![id] = s] /\ blob' = blob
  BY DEF HandoffClaim, Claimable, Is
<1>3. r \in Rows /\ Sound(r, blob[id])
  BY <1>1, <1>2, StateOfRow DEF Tables, Open
<1>4. s \in Rows /\ s.state = "claimed" /\ s.taker = d /\ s.parts = r.parts
  <2> DEFINE e == IF r.expires >= now + ClaimHold THEN r.expires ELSE now + ClaimHold
  <2>1. r.expires \in Nat /\ e \in Nat
    BY <1>1, <1>3 DEF Rows
  <2> HIDE DEF e
  <2>2. "claimed" \in Open \cup Closed
    BY DEF Open
  <2>3. s = [r EXCEPT !.state = "claimed", !.taker = d, !.updated = now, !.expires = e]
    BY DEF Taken, e
  <2> HIDE DEF s, r
  <2>4. QED
    BY <1>1, <1>3, <2>1, <2>2, <2>3 DEF Rows
<1>5. RowSound(s)
  BY <1>4 DEF RowSound
<1> HIDE DEF s
<1>6. Sound(s, blob[id])
  BY <1>2, <1>3, <1>4, <1>5 DEF Sound, Open
<1>7. QED
  BY <1>1, <1>2, <1>4, <1>6 DEF Tables

\* The sweep expires what is due and forgets what is stale.
LEMMA SweepKeepsTables ==
  ASSUME IInv, HandoffSweep
  PROVE  /\ Tables'
         /\ \A id \in Ids : \/ row'[id] = row[id]
                            \/ id \in Due /\ row'[id].state = "expired" /\ row'[id] = Ended(row[id], "expired", now)
                            \/ id \in Stale /\ row'[id] = NoRow
<1>1. Tables /\ now \in Nat
  BY DEF IInv, Rest
<1> DEFINE Swept(id) == CASE id \in Due   -> Ended(row[id], "expired", now)
                          [] id \in Stale -> NoRow
                          [] OTHER        -> row[id]
           Left(id) == IF id \in Due \/ row'[id] = NoRow THEN Empty ELSE blob[id]
<1>2. row' = [id \in Ids |-> Swept(id)] /\ blob' = [id \in Ids |-> Left(id)]
  BY DEF HandoffSweep, Ended
<1>3. \A id \in Ids : row'[id] = Swept(id) /\ blob'[id] = Left(id)
  BY <1>2
<1>4. ASSUME NEW id \in Ids
      PROVE  /\ Sound(row'[id], blob'[id])
             /\ \/ row'[id] = row[id]
                \/ id \in Due /\ row'[id].state = "expired" /\ row'[id] = Ended(row[id], "expired", now)
                \/ id \in Stale /\ row'[id] = NoRow
  <2>1. CASE id \in Due
    <3>0. id \notin Stale
      BY <2>1, OpenIsNotClosed DEF Due, Stale, Is
    <3>1. row'[id] = Ended(row[id], "expired", now) /\ blob'[id] = Empty
      BY <1>3, <2>1, <3>0
    <3>2. Sound(row[id], blob[id]) /\ row[id].state \in Open
      BY <1>1, <2>1 DEF Tables, Due, Is
    <3>3. "expired" \in Closed
      BY DEF Closed
    <3>4. QED
      BY <1>1, <2>1, <3>1, <3>2, <3>3, ClosedIsSound
  <2>2. CASE id \in Stale /\ id \notin Due
    <3>1. row'[id] = NoRow /\ blob'[id] = Empty
      BY <1>3, <2>2
    <3>2. QED
      BY <2>2, <3>1, NoRowIsSound
  <2>3. CASE id \notin Stale /\ id \notin Due
    <3>1. row'[id] = row[id] /\ Sound(row[id], blob[id])
      BY <1>1, <1>3, <2>3 DEF Tables
    <3>2. CASE row[id] = NoRow
      <4>1. blob'[id] = Empty
        BY <1>3, <2>3, <3>1, <3>2
      <4>2. QED
        BY <3>1, <3>2, <4>1, NoRowIsSound
    <3>3. CASE row[id] # NoRow
      <4>1. blob'[id] = blob[id]
        BY <1>3, <2>3, <3>1, <3>3
      <4>2. QED
        BY <3>1, <4>1
    <3>4. QED
      BY <3>2, <3>3
  <2>4. QED
    BY <2>1, <2>2, <2>3
<1>5. row' = [id \in Ids |-> row'[id]] /\ blob' = [id \in Ids |-> blob'[id]]
  BY <1>2
<1>6. row' \in [Ids -> Rows \cup {NoRow}] /\ blob' \in [Ids -> [Parts -> Contents]]
  BY <1>4, <1>5 DEF Sound, RowSound
<1>7. QED
  BY <1>4, <1>6 DEF Tables

-----------------------------------------------------------------------------
(* The invariant.                                                           *)

LEMMA InitIInv == Init => IInv
<1> SUFFICES ASSUME Init PROVE IInv
  OBVIOUS
<1>1. NoRow.state = "absent"
  BY DEF NoRow
<1>2. Tables
  BY NoRowIsSound DEF Init, Tables, Contents, Empty
<1>3. Rest
  BY DEF Init, Rest
<1>4. \A id \in Ids : row[id].state = "absent"
  BY <1>1 DEF Init
<1>5. OffLeavesNothingOpen
  BY <1>4 DEF OffLeavesNothingOpen, Is, Open
<1>6. EndsWithItsMachine
  BY <1>4 DEF EndsWithItsMachine, HasItsMachines, Is
<1>7. QED
  BY <1>2, <1>3, <1>5, <1>6 DEF IInv

\* A handoff that is over needs no machine.
LEMMA OverNeedsNoMachine ==
  ASSUME NEW id \in Ids, ~ Is(id, Open)
  PROVE  HasItsMachines(id)
BY DEF HasItsMachines, Is, Open

\* Closing some handoffs opens none, and leaves the rest with the machines they had.
LEMMA CloseKeepsRest ==
  ASSUME IInv, NEW S \in SUBSET OpenIds, NEW final,
         \A id \in S : final[id] \in Closed /\ (final[id] = "done" => Is(id, {"claimed"})),
         Close(S, final), member' = member, late' = late
  PROVE  /\ Tables'
         /\ \A id \in Ids : Is(id, Open)' => Is(id, Open)
         /\ EndsWithItsMachine'
<1>1. /\ Tables'
      /\ \A id \in Ids \ S : row'[id] = row[id]
      /\ \A id \in S : row'[id].state = final[id]
  BY CloseKeepsTables DEF IInv, Rest
<1>2. \A id \in S : row'[id].state \notin Open
  BY <1>1, OpenIsNotClosed
<1>3. \A id \in Ids : Is(id, Open)' => Is(id, Open)
  BY <1>1, <1>2 DEF Is
<1>4. ASSUME NEW id \in Ids PROVE HasItsMachines(id)' \/ id \in late'
  <2>1. CASE id \in S
    BY <1>2, <2>1 DEF HasItsMachines, Is, Open
  <2>2. CASE id \notin S
    <3>1. row'[id] = row[id]
      BY <1>1, <2>2
    <3>2. HasItsMachines(id) \/ id \in late
      BY DEF IInv, EndsWithItsMachine
    <3>3. QED
      BY <3>1, <3>2 DEF HasItsMachines, Is, Paired
  <2>3. QED
    BY <2>1, <2>2
<1>5. QED
  BY <1>1, <1>3, <1>4 DEF EndsWithItsMachine

\* A message runs only while the switch is on, so what it opens breaks nothing of the switch's.
LEMMA MessageKeepsIInv ==
  ASSUME IInv, NEW d \in Devices, Message(d)
  PROVE  IInv'
<1>1. Tables /\ Rest /\ OffLeavesNothingOpen /\ EndsWithItsMachine
  BY DEF IInv
<1>2. Handling(d)
  BY DEF Message, HandoffOffer, HandoffPut, HandoffClaim, HandoffComplete, HandoffRecall, HandoffDecline
<1>3. on' /\ member' = member /\ now' = now /\ admitted' = admitted \ {d}
  BY <1>2, Zenon DEF Handling
<1>4. OffLeavesNothingOpen'
  BY <1>3, Zenon DEF OffLeavesNothingOpen
<1>5. late' \subseteq Ids => Rest'
  <2>1. on' = on
    BY <1>2, Zenon DEF Handling
  <2>2. QED
    BY <1>1, <1>3, <2>1 DEF Rest
<1>6. ASSUME NEW id \in Ids, NEW u \in Users, NEW t \in Devices \cup {AnyDevice}, NEW n \in Parts,
             HandoffOffer(d, id, u, t, n)
      PROVE  Tables' /\ late' \subseteq Ids /\ EndsWithItsMachine'
  <2>1. Tables'
    BY <1>6, OfferKeepsTables
  <2>2. late' = IF Paired(d) THEN late \ {id} ELSE late \cup {id}
    BY <1>6 DEF HandoffOffer, MarkLate
  <2>3. late' \subseteq Ids
    BY <1>1, <2>2 DEF Rest
  <2>4. /\ row'[id].state = "uploading" /\ row'[id].from = d /\ row'[id].toDevice = t
        /\ \A x \in Ids \ {id} : row'[x] = row[x]
    BY <1>1, <1>6 DEF HandoffOffer, Tables
  <2>5. t # AnyDevice => Paired(t)
    BY <1>6 DEF HandoffOffer
  <2>6. ASSUME NEW x \in Ids PROVE HasItsMachines(x)' \/ x \in late'
    <3>1. CASE x # id
      <4>1. row'[x] = row[x]
        BY <2>4, <3>1
      <4>2. HasItsMachines(x) \/ x \in late
        BY <1>1 DEF EndsWithItsMachine
      <4>3. QED
        BY <1>3, <2>2, <3>1, <4>1, <4>2 DEF HasItsMachines, Is, Paired
    <3>2. CASE x = id /\ Paired(d)
      BY <1>3, <2>4, <2>5, <3>2 DEF HasItsMachines, Is, Paired
    <3>3. CASE x = id /\ ~ Paired(d)
      BY <2>2, <3>3
    <3>4. QED
      BY <3>1, <3>2, <3>3
  <2>7. QED
    BY <2>1, <2>3, <2>6 DEF EndsWithItsMachine
<1>7. ASSUME NEW id \in Ids, NEW p \in Parts, NEW bytes \in {"right", "wrong"}, HandoffPut(d, id, p, bytes)
      PROVE  Tables' /\ late' \subseteq Ids /\ EndsWithItsMachine'
  <2>1. /\ Tables'
        /\ row'[id].state \in Open /\ row'[id].from = row[id].from
        /\ row'[id].toDevice = row[id].toDevice /\ row'[id].taker = row[id].taker
        /\ \A x \in Ids \ {id} : row'[x] = row[x]
    BY <1>7, PutKeepsTables
  <2>2. late' = late /\ row[id].state = "uploading"
    BY <1>7 DEF HandoffPut, TakesParts, Is
  <2>3. row'[id].state # "claimed"
    <3>1. row' = [row EXCEPT ![id].updated = now,
                             ![id].state = IF /\ \A i \in 1..row[id].parts : [blob[id] EXCEPT ![p] = bytes][i] # "none"
                                              /\ \A i \in 1..row[id].parts : [blob[id] EXCEPT ![p] = bytes][i] = "right"
                                           THEN "offered" ELSE @]
      BY <1>7 DEF HandoffPut
    <3>2. QED
      BY <1>1, <2>2, <3>1, StateOfRow DEF Tables, Rows, Open
  <2>4. ASSUME NEW x \in Ids PROVE HasItsMachines(x)' \/ x \in late'
    <3>1. HasItsMachines(x) \/ x \in late
      BY <1>1 DEF EndsWithItsMachine
    <3>2. CASE x # id
      BY <1>3, <2>1, <2>2, <3>1, <3>2 DEF HasItsMachines, Is, Paired
    <3>3. CASE x = id
      BY <1>3, <2>1, <2>2, <2>3, <3>1, <3>3 DEF HasItsMachines, Is, Paired
    <3>4. QED
      BY <3>2, <3>3
  <2>5. QED
    BY <1>1, <2>1, <2>2, <2>4 DEF EndsWithItsMachine, Rest
<1>8. ASSUME NEW id \in Ids, HandoffClaim(d, id)
      PROVE  Tables' /\ late' \subseteq Ids /\ EndsWithItsMachine'
  <2>1. /\ Tables'
        /\ row'[id].state = "claimed" /\ row'[id].taker = d
        /\ \A x \in Ids \ {id} : row'[x] = row[x]
    BY <1>8, ClaimKeepsTables
  <2>2. late' = IF Paired(d) THEN late \ {id} ELSE late \cup {id}
    BY <1>8 DEF HandoffClaim, MarkLate
  <2>3. ASSUME NEW x \in Ids PROVE HasItsMachines(x)' \/ x \in late'
    <3>1. HasItsMachines(x) \/ x \in late
      BY <1>1 DEF EndsWithItsMachine
    <3>2. CASE x # id
      BY <1>3, <2>1, <2>2, <3>1, <3>2 DEF HasItsMachines, Is, Paired
    <3>3. CASE x = id
      BY <1>3, <2>1, <2>2, <3>3 DEF HasItsMachines, Is, Paired
    <3>4. QED
      BY <3>2, <3>3
  <2>4. QED
    BY <1>1, <2>1, <2>2, <2>3 DEF EndsWithItsMachine, Rest
<1>9. ASSUME NEW id \in Ids, HandoffComplete(d, id) \/ HandoffRecall(d, id) \/ HandoffDecline(d, id)
      PROVE  Tables' /\ late' \subseteq Ids /\ EndsWithItsMachine'
  <2>1. late' = late
    BY <1>9 DEF HandoffComplete, HandoffRecall, HandoffDecline
  <2>2. PICK f \in Closed : /\ Close({id}, [i \in {id} |-> f])
                            /\ f = "done" => Is(id, {"claimed"})
    BY <1>9 DEF HandoffComplete, HandoffRecall, HandoffDecline, Closed
  <2>3. {id} \in SUBSET OpenIds
    BY <1>9 DEF HandoffComplete, HandoffRecall, HandoffDecline, OpenIds, Is, Open
  <2>4. Tables' /\ EndsWithItsMachine'
    <3> DEFINE final == [i \in {id} |-> f]
    <3>1. \A i \in {id} : final[i] \in Closed /\ (final[i] = "done" => Is(i, {"claimed"}))
      BY <2>2
    <3>2. Close({id}, final)
      BY <2>2
    <3> HIDE DEF final
    <3>3. QED
      BY <1>3, <2>1, <2>3, <3>1, <3>2, CloseKeepsRest
  <2>5. QED
    BY <1>1, <2>1, <2>4 DEF Rest
<1>10. Tables' /\ late' \subseteq Ids /\ EndsWithItsMachine'
  BY <1>6, <1>7, <1>8, <1>9 DEF Message
<1>11. QED
  BY <1>4, <1>5, <1>10 DEF IInv

\* A restart opens nothing, and closes everything if the switch is off.
LEMMA RestartKeepsIInv ==
  ASSUME IInv, Restart
  PROVE  IInv'
<1>1. Tables /\ Rest /\ OffLeavesNothingOpen /\ EndsWithItsMachine
  BY DEF IInv
<1>2. on' \in BOOLEAN /\ admitted' = {} /\ member' = member /\ now' = now /\ late' = late
  BY DEF Restart
<1>3. Rest'
  BY <1>1, <1>2 DEF Rest
<1>4. CASE on'
  <2>1. row' = row /\ blob' = blob
    BY <1>4 DEF Restart
  <2>2. Tables'
    BY <1>1, <2>1 DEF Tables
  <2>3. OffLeavesNothingOpen'
    BY <1>4, Zenon DEF OffLeavesNothingOpen
  <2>4. EndsWithItsMachine'
    BY <1>1, <1>2, <2>1 DEF EndsWithItsMachine, HasItsMachines, Is, Paired
  <2>5. QED
    BY <1>3, <2>2, <2>3, <2>4 DEF IInv
<1>5. CASE ~ on'
  <2> DEFINE final == [id \in OpenIds |-> "expired"]
  <2>1. Close(OpenIds, final)
    BY <1>5, Zenon DEF Restart
  <2>2. \A id \in OpenIds : final[id] \in Closed /\ (final[id] = "done" => Is(id, {"claimed"}))
    BY DEF Closed
  <2>3. /\ Tables'
        /\ \A id \in Ids \ OpenIds : row'[id] = row[id]
        /\ \A id \in OpenIds : row'[id].state = "expired"
    <3>1. now \in Nat
      BY <1>1 DEF Rest
    <3>2. \A id \in OpenIds : final[id] = "expired"
      OBVIOUS
    <3> HIDE DEF final
    <3>3. QED
      BY <1>1, <2>1, <2>2, <3>1, <3>2, CloseKeepsTables
  <2>4. EndsWithItsMachine'
    <3> HIDE DEF final
    <3>1. QED
      BY <1>2, <2>1, <2>2, CloseKeepsRest
  <2>5. ASSUME NEW id \in Ids PROVE ~ Is(id, Open)'
    BY <2>3, OpenIsNotClosed DEF OpenIds, Is, Open
  <2>6. OffLeavesNothingOpen'
    BY <2>5, Zenon DEF OffLeavesNothingOpen
  <2>7. QED
    BY <1>3, <2>3, <2>4, <2>6 DEF IInv
<1>6. QED
  BY <1>4, <1>5

\* The machines an open row names are machines.
LEMMA NamesMachines ==
  ASSUME Tables, NEW id \in Ids
  PROVE  /\ Is(id, {"uploading", "offered"}) =>
                row[id].from \in Devices /\ row[id].toDevice \in Devices \cup {AnyDevice}
         /\ Is(id, {"claimed"}) => row[id].taker \in Devices
<1>1. Sound(row[id], blob[id])
  BY DEF Tables
<1>2. Is(id, {"uploading", "offered"}) => row[id] \in Rows
  BY <1>1, StateOfRow DEF Sound, RowSound, Is, Open
<1>3. QED
  BY <1>1, <1>2 DEF Sound, RowSound, Is, Rows

\* What ends with a device is open, and is all that needs it.
LEMMA RevokeKeepsIInv ==
  ASSUME IInv, NEW d \in Devices, Revoke(d)
  PROVE  IInv'
<1> DEFINE ends == SentOrNamed(d) \cup HeldBy(d) \cup Orphaned(d)
           final == [id \in ends |-> IF id \in SentOrNamed(d) THEN "recalled" ELSE "expired"]
<1>1. Tables /\ Rest /\ OffLeavesNothingOpen /\ EndsWithItsMachine
  BY DEF IInv
<1>2. /\ Close(ends, final)
      /\ member' = [member EXCEPT ![d] = "revoked"]
      /\ admitted' = admitted /\ on' = on /\ now' = now /\ late' = late
  BY DEF Revoke
<1>3. ends \in SUBSET OpenIds
  BY DEF SentOrNamed, HeldBy, Orphaned, OpenIds, Is, Open
<1>4. \A id \in ends : final[id] \in {"recalled", "expired"}
  OBVIOUS
<1>5. \A id \in ends : final[id] \in Closed /\ (final[id] = "done" => Is(id, {"claimed"}))
  BY <1>4 DEF Closed
<1>6. SentOrNamed(d) \subseteq ends /\ HeldBy(d) \subseteq ends
  OBVIOUS
<1> HIDE DEF ends, final
<1>7. /\ Tables'
      /\ \A id \in Ids \ ends : row'[id] = row[id]
      /\ \A id \in ends : row'[id].state = final[id]
  BY <1>1, <1>2, <1>3, <1>5, CloseKeepsTables DEF Rest
<1>8. \A id \in ends : row'[id].state \notin Open
  BY <1>4, <1>7 DEF Open
<1>9. Rest'
  BY <1>1, <1>2 DEF Rest
<1>10. OffLeavesNothingOpen'
  <2>1. \A id \in Ids : Is(id, Open)' => Is(id, Open)
    BY <1>7, <1>8 DEF Is
  <2>2. on' = on
    BY <1>2
  <2>3. QED
    BY <1>1, <2>1, <2>2 DEF OffLeavesNothingOpen, Rest
<1>11. ASSUME NEW id \in Ids PROVE HasItsMachines(id)' \/ id \in late'
  <2>1. CASE id \in ends
    BY <1>8, <2>1 DEF HasItsMachines, Is, Open
  <2>2. CASE id \notin ends
    <3>1. row'[id] = row[id]
      BY <1>7, <2>2
    <3>2. HasItsMachines(id) \/ id \in late
      BY <1>1 DEF EndsWithItsMachine
    <3>3. /\ Is(id, {"uploading", "offered"}) => row[id].from # d /\ row[id].toDevice # d
          /\ Is(id, {"claimed"}) => row[id].taker # d
      BY <1>6, <2>2 DEF SentOrNamed, HeldBy
    <3>4. \A x \in Devices : x # d /\ member[x] = "paired" => member'[x] = "paired"
      BY <1>1, <1>2 DEF Rest
    <3>5. CASE id \in late
      BY <1>2, <3>5
    <3>6. CASE HasItsMachines(id)
      BY <1>1, <3>1, <3>3, <3>4, <3>6, NamesMachines DEF HasItsMachines, Is, Paired
    <3>7. QED
      BY <3>2, <3>5, <3>6
  <2>3. QED
    BY <2>1, <2>2
<1>12. QED
  BY <1>7, <1>9, <1>10, <1>11 DEF IInv, EndsWithItsMachine

LEMMA SweepKeepsIInv ==
  ASSUME IInv, HandoffSweep
  PROVE  IInv'
<1>1. Tables /\ Rest /\ OffLeavesNothingOpen /\ EndsWithItsMachine
  BY DEF IInv
<1>2. member' = member /\ admitted' = admitted /\ on' = on /\ now' = now /\ late' = late
  BY DEF HandoffSweep
<1>3. /\ Tables'
      /\ \A id \in Ids : row'[id] = row[id] \/ row'[id].state \in {"expired", "absent"}
  BY SweepKeepsTables DEF NoRow
<1>4. Rest'
  BY <1>1, <1>2 DEF Rest
<1>5. \A id \in Ids : Is(id, Open)' => Is(id, Open)
  BY <1>3 DEF Is, Open
<1>6. OffLeavesNothingOpen'
  BY <1>1, <1>2, <1>5 DEF OffLeavesNothingOpen, Rest
<1>7. ASSUME NEW id \in Ids PROVE HasItsMachines(id)' \/ id \in late'
  <2>1. HasItsMachines(id) \/ id \in late
    BY <1>1 DEF EndsWithItsMachine
  <2>2. CASE row'[id] = row[id]
    BY <1>2, <2>1, <2>2 DEF HasItsMachines, Is, Paired
  <2>3. CASE row'[id].state \in {"expired", "absent"}
    BY <2>3 DEF HasItsMachines, Is
  <2>4. QED
    BY <1>3, <2>2, <2>3
<1>8. QED
  BY <1>3, <1>4, <1>6, <1>7 DEF IInv, EndsWithItsMachine

\* What leaves the tables alone and takes no machine's token leaves the invariant alone.
LEMMA OthersKeepIInv ==
  ASSUME IInv,
         \/ \E d \in Devices : Admit(d) \/ Answer(d) \/ Pair(d)
         \/ Tick
         \/ UNCHANGED vars
  PROVE  IInv'
<1>1. Tables /\ Rest /\ OffLeavesNothingOpen /\ EndsWithItsMachine
  BY DEF IInv
<1>2. row' = row /\ blob' = blob /\ late' = late /\ on' = on
  BY DEF Admit, Answer, Pair, Tick, vars
<1>3. now' \in Nat
  BY <1>1, HandoffStoreAssumption DEF Admit, Answer, Pair, Tick, vars, Rest
<1>4. /\ member' \in [Devices -> {"new", "paired", "revoked"}]
      /\ \A x \in Devices : member[x] = "paired" => member'[x] = "paired"
  BY <1>1 DEF Admit, Answer, Pair, Tick, vars, Rest
<1>5. admitted' \subseteq Devices
  BY <1>1 DEF Admit, Answer, Pair, Tick, vars, Rest
<1>6. Tables' /\ Rest'
  BY <1>1, <1>2, <1>3, <1>4, <1>5 DEF Tables, Rest
<1>7. OffLeavesNothingOpen'
  BY <1>1, <1>2 DEF OffLeavesNothingOpen, Is
<1>8. ASSUME NEW id \in Ids PROVE HasItsMachines(id)' \/ id \in late'
  <2>1. HasItsMachines(id) \/ id \in late
    BY <1>1 DEF EndsWithItsMachine
  <2>2. QED
    BY <1>1, <1>2, <1>4, <2>1, NamesMachines DEF HasItsMachines, Is, Paired
<1>9. QED
  BY <1>6, <1>7, <1>8 DEF IInv, EndsWithItsMachine

LEMMA NextKeepsIInv == IInv /\ [Next]_vars => IInv'
<1> SUFFICES ASSUME IInv, [Next]_vars PROVE IInv'
  OBVIOUS
<1>1. CASE \E d \in Devices : Message(d)
  BY <1>1, MessageKeepsIInv
<1>2. CASE \E d \in Devices : Revoke(d)
  BY <1>2, RevokeKeepsIInv
<1>3. CASE HandoffSweep
  BY <1>3, SweepKeepsIInv
<1>4. CASE Restart
  BY <1>4, RestartKeepsIInv
<1>5. CASE \/ \E d \in Devices : Admit(d) \/ Answer(d) \/ Pair(d)
           \/ Tick
           \/ UNCHANGED vars
  BY <1>5, OthersKeepIInv
<1>6. QED
  BY <1>1, <1>2, <1>3, <1>4, <1>5, Zenon DEF Next

\* Each of the properties is part of what Sound says of every handoff.
LEMMA IInvImplies ==
  IInv => /\ TypeOK /\ SealedStaysIntact /\ NothingOutlivesItsHandoff
          /\ OffLeavesNothingOpen /\ EndsWithItsMachine
<1> SUFFICES ASSUME IInv
             PROVE  /\ TypeOK /\ SealedStaysIntact /\ NothingOutlivesItsHandoff
                    /\ OffLeavesNothingOpen /\ EndsWithItsMachine
  OBVIOUS
<1>1. Tables /\ Rest /\ OffLeavesNothingOpen /\ EndsWithItsMachine
  BY DEF IInv
<1>2. \A id \in Ids : Sound(row[id], blob[id])
  BY <1>1 DEF Tables
<1>3. TypeOK
  BY <1>1, <1>2 DEF TypeOK, Tables, Rest, Sound, RowSound, Contents, Is
<1>4. SealedStaysIntact
  BY <1>2 DEF SealedStaysIntact, Sound, Is
<1>5. NothingOutlivesItsHandoff
  BY <1>2 DEF NothingOutlivesItsHandoff, Held, Sound, Is
<1>6. QED
  BY <1>1, <1>3, <1>4, <1>5

LEMMA Invariance == Spec => []IInv
BY InitIInv, NextKeepsIInv, PTL DEF Spec

\* Every row, part and token has its type, and a row has its taker from its claim on (TypeOK),
\* whatever messages, revokes, restarts, sweeps and clock changes come, in any order.
THEOREM TypeCorrect == Spec => []TypeOK
BY Invariance, IInvImplies, PTL

\* What may be claimed or is being downloaded is whole and is what was offered (handoff_put's hash
\* check and its "uploading" guard): a late or repeated part can never reach a sealed blob.
THEOREM SealedBlobsAreIntact == Spec => []SealedStaysIntact
BY Invariance, IInvImplies, PTL

\* All the ways out of the open states, `close` and its callers, the sweep and the revoke, delete the parts.
THEOREM NothingIsLeftBehind == Spec => []NothingOutlivesItsHandoff
BY Invariance, IInvImplies, PTL

\* While the switch is off nothing is open: handoff_close_all at the start, and no handler runs after.
THEOREM OffIsAuthoritative == Spec => []OffLeavesNothingOpen
BY Invariance, IInvImplies, PTL

\* A revoked machine's handoffs ended with its token, but for those whose message shut_out had let pass.
THEOREM OnlyAdmittedOutlivesRevoke == Spec => []EndsWithItsMachine
BY Invariance, IInvImplies, PTL

-----------------------------------------------------------------------------
(* One owner: a row's custody, and the abstract step each of its moves is.  *)

Custody(r) ==
    [owner |-> IF r.state \in {"done"} THEN r.taker ELSE Nobody,
     reserved |-> IF r.state \in Open \cup Closed THEN r.taker ELSE Nobody,
     over |-> r.state \in Closed]

\* The abstract module's next step, for one handoff.
Moves(k, l) == l = k \/ Own!Reserve(k, l) \/ Own!HandOver(k, l) \/ Own!GiveBack(k, l) \/ Own!Forget(k, l)

AbstractCustody ==
    [id \in Ids |->
        [owner |-> IF Is(id, {"done"}) THEN row[id].taker ELSE Nobody,
         reserved |-> IF Is(id, Open \cup Closed) THEN row[id].taker ELSE Nobody,
         over |-> Is(id, Closed)]]

LEMMA CustodyOfRow == \A id \in Ids : AbstractCustody[id] = Custody(row[id])
BY DEF AbstractCustody, Custody, Is

LEMMA CustodyType ==
  ASSUME NEW r, RowSound(r)
  PROVE  Custody(r) \in [owner : Devices \cup {Nobody}, reserved : Devices \cup {Nobody}, over : BOOLEAN]
<1>1. r.state \in Open \cup Closed => r.taker \in Devices \cup {Nobody}
  BY StateOfRow DEF RowSound, Rows
<1>2. "done" \in Closed
  BY DEF Closed
<1>3. QED
  BY <1>1, <1>2 DEF Custody

\* Closed as "done" it goes to the machine that claimed it; closed any other way it stays the sender's.
LEMMA EndingSettles ==
  ASSUME NEW r, RowSound(r), r.state \in Open, NEW f \in Closed, f = "done" => r.state = "claimed", NEW n
  PROVE  Moves(Custody(r), Custody(Ended(r, f, n)))
<1> DEFINE s == Ended(r, f, n)
           k == Custody(r)
           l == Custody(s)
<1>1. r \in Rows
  BY StateOfRow DEF RowSound
<1>2. s.state = f /\ s.taker = r.taker
  BY <1>1 DEF Ended, Rows
<1>3. /\ (r.state \in Closed) = FALSE /\ (r.state \in {"done"}) = FALSE
      /\ (r.state \in Open \cup Closed) = TRUE
  BY OpenIsNotClosed DEF Closed
<1> HIDE DEF s
<1>4. k = [owner |-> Nobody, reserved |-> r.taker, over |-> FALSE]
  BY <1>3, Zenon DEF Custody
<1>5. l = [owner |-> IF f = "done" THEN r.taker ELSE Nobody, reserved |-> r.taker, over |-> TRUE]
  BY <1>2 DEF Custody
<1> HIDE DEF k, l
<1>6. CASE f = "done"
  <2>1. r.taker \in Devices /\ r.taker # Nobody
    BY <1>6, HandoffStoreAssumption DEF RowSound
  <2>2. Own!HandOver(k, l)
    BY <1>4, <1>5, <1>6, <2>1 DEF Own!HandOver
  <2>3. QED
    BY <2>2 DEF Moves, k, l, s
<1>7. CASE f # "done"
  <2>1. Own!GiveBack(k, l)
    BY <1>4, <1>5, <1>7 DEF Own!GiveBack
  <2>2. QED
    BY <2>1 DEF Moves, k, l, s
<1>8. QED
  BY <1>6, <1>7

\* A row swept away once it is over is a fresh start.
LEMMA ForgettingIsFresh ==
  ASSUME NEW r, r.state \in Closed
  PROVE  Moves(Custody(r), Custody(NoRow))
<1>1. /\ (NoRow.state \in Closed) = FALSE /\ (NoRow.state \in {"done"}) = FALSE
      /\ (NoRow.state \in Open \cup Closed) = FALSE
  BY OpenIsNotClosed DEF NoRow, Closed
<1>2. Custody(NoRow) = Own!Fresh
  BY <1>1, Zenon DEF Custody, Own!Fresh
<1>3. Custody(r).over
  BY DEF Custody
<1>4. QED
  BY <1>2, <1>3 DEF Moves, Own!Forget

\* Closing moves each of the handoffs closed, and no other.
LEMMA CloseMoves ==
  ASSUME Tables, NEW S \in SUBSET OpenIds, NEW final,
         \A id \in S : final[id] \in Closed /\ (final[id] = "done" => Is(id, {"claimed"})),
         Close(S, final)
  PROVE  \A id \in Ids : Moves(Custody(row[id]), Custody(row'[id]))
<1> SUFFICES ASSUME NEW id \in Ids PROVE Moves(Custody(row[id]), Custody(row'[id]))
  OBVIOUS
<1>1. row'[id] = IF id \in S THEN Ended(row[id], final[id], now) ELSE row[id]
  BY DEF Close, Ended
<1>2. CASE id \in S
  <2>1. RowSound(row[id]) /\ row[id].state \in Open
    BY <1>2 DEF Tables, Sound, OpenIds, Is
  <2>2. final[id] = "done" => row[id].state = "claimed"
    BY <1>2 DEF Is
  <2>3. QED
    BY <1>1, <1>2, <2>1, <2>2, EndingSettles
<1>3. CASE id \notin S
  BY <1>1, <1>3 DEF Moves
<1>4. QED
  BY <1>2, <1>3

\* Only a claim reserves, only from "offered", where nobody has.
LEMMA MessageMoves ==
  ASSUME IInv, NEW d \in Devices, Message(d)
  PROVE  \A id \in Ids : Moves(Custody(row[id]), Custody(row'[id]))
<1>1. Tables /\ now \in Nat
  BY DEF IInv, Rest
<1>2. \A id \in Ids : RowSound(row[id])
  BY <1>1 DEF Tables, Sound
<1>3. ASSUME NEW id \in Ids, NEW u \in Users, NEW t \in Devices \cup {AnyDevice}, NEW n \in Parts,
             HandoffOffer(d, id, u, t, n)
      PROVE  \A x \in Ids : Moves(Custody(row[x]), Custody(row'[x]))
  <2>1. /\ row[id].state = "absent" /\ row'[id].state = "uploading" /\ row'[id].taker = Nobody
        /\ \A x \in Ids \ {id} : row'[x] = row[x]
    BY <1>1, <1>3 DEF HandoffOffer, Tables, Is
  <2>2. Custody(row'[id]) = Custody(row[id])
    BY <2>1 DEF Custody, Open, Closed
  <2>3. QED
    BY <2>1, <2>2 DEF Moves
<1>4. ASSUME NEW id \in Ids, NEW p \in Parts, NEW bytes \in {"right", "wrong"}, HandoffPut(d, id, p, bytes)
      PROVE  \A x \in Ids : Moves(Custody(row[x]), Custody(row'[x]))
  <2>1. /\ row'[id].state \in Open /\ row'[id].taker = row[id].taker
        /\ \A x \in Ids \ {id} : row'[x] = row[x]
    BY <1>4, PutKeepsTables
  <2>2. row[id].state \in Open
    BY <1>4 DEF HandoffPut, TakesParts, Is, Open
  <2>3. Custody(row'[id]) = Custody(row[id])
    BY <2>1, <2>2 DEF Custody, Open, Closed
  <2>4. QED
    BY <2>1, <2>3 DEF Moves
<1>5. ASSUME NEW id \in Ids, HandoffClaim(d, id)
      PROVE  \A x \in Ids : Moves(Custody(row[x]), Custody(row'[x]))
  <2>1. /\ row[id].state = "offered"
        /\ row'[id].state = "claimed" /\ row'[id].taker = d
        /\ \A x \in Ids \ {id} : row'[x] = row[x]
    BY <1>5, ClaimKeepsTables
  <2>2. row[id].taker = Nobody
    BY <1>2, <2>1 DEF RowSound
  <2>3. /\ ("offered" \in Closed) = FALSE /\ ("offered" \in {"done"}) = FALSE
        /\ ("claimed" \in Closed) = FALSE /\ ("claimed" \in {"done"}) = FALSE
        /\ ("claimed" \in Open \cup Closed) = TRUE /\ ("offered" \in Open \cup Closed) = TRUE
    BY DEF Open, Closed
  <2>4. Custody(row[id]) = [owner |-> Nobody, reserved |-> Nobody, over |-> FALSE]
    BY <2>1, <2>2, <2>3, Zenon DEF Custody
  <2>5. Custody(row'[id]) = [owner |-> Nobody, reserved |-> d, over |-> FALSE]
    BY <2>1, <2>3, Zenon DEF Custody
  <2>6. Own!Reserve(Custody(row[id]), Custody(row'[id]))
    <3>1. ~ Custody(row[id]).over /\ Custody(row[id]).reserved = Nobody
      BY <2>4
    <3>2. QED
      BY <2>5, <3>1, Zenon DEF Own!Reserve
  <2>7. QED
    BY <2>1, <2>6 DEF Moves
<1>6. ASSUME NEW id \in Ids, HandoffComplete(d, id) \/ HandoffRecall(d, id) \/ HandoffDecline(d, id)
      PROVE  \A x \in Ids : Moves(Custody(row[x]), Custody(row'[x]))
  <2>1. PICK f \in Closed : /\ Close({id}, [i \in {id} |-> f])
                            /\ f = "done" => Is(id, {"claimed"})
    BY <1>6 DEF HandoffComplete, HandoffRecall, HandoffDecline, Closed
  <2>2. {id} \in SUBSET OpenIds
    BY <1>6 DEF HandoffComplete, HandoffRecall, HandoffDecline, OpenIds, Is, Open
  <2> DEFINE final == [i \in {id} |-> f]
  <2>3. \A i \in {id} : final[i] \in Closed /\ (final[i] = "done" => Is(i, {"claimed"}))
    BY <2>1
  <2>4. Close({id}, final)
    BY <2>1
  <2> HIDE DEF final
  <2>5. QED
    BY <1>1, <2>2, <2>3, <2>4, CloseMoves
<1>7. QED
  BY <1>3, <1>4, <1>5, <1>6 DEF Message

\* Every step of the server's is, for each handoff, a step of the abstract one or none.
LEMMA StepMoves ==
  ASSUME IInv, [Next]_vars
  PROVE  \A id \in Ids : Moves(Custody(row[id]), Custody(row'[id]))
<1>1. Tables /\ now \in Nat
  BY DEF IInv, Rest
<1>2. CASE \E d \in Devices : Message(d)
  BY <1>2, MessageMoves
<1>3. CASE \E d \in Devices : Revoke(d)
  <2>1. PICK d \in Devices : Revoke(d)
    BY <1>3
  <2> DEFINE ends == SentOrNamed(d) \cup HeldBy(d) \cup Orphaned(d)
             final == [id \in ends |-> IF id \in SentOrNamed(d) THEN "recalled" ELSE "expired"]
  <2>2. Close(ends, final)
    BY <2>1 DEF Revoke
  <2>3. ends \in SUBSET OpenIds
    BY DEF SentOrNamed, HeldBy, Orphaned, OpenIds, Is, Open
  <2>4. \A id \in ends : final[id] \in Closed /\ (final[id] = "done" => Is(id, {"claimed"}))
    BY DEF Closed
  <2> HIDE DEF ends, final
  <2>5. QED
    BY <1>1, <2>2, <2>3, <2>4, CloseMoves
<1>4. CASE HandoffSweep
  <2>1. ASSUME NEW id \in Ids PROVE Moves(Custody(row[id]), Custody(row'[id]))
    <3>1. \/ row'[id] = row[id]
          \/ id \in Due /\ row'[id] = Ended(row[id], "expired", now)
          \/ id \in Stale /\ row'[id] = NoRow
      BY <1>4, SweepKeepsTables
    <3>2. CASE row'[id] = row[id]
      BY <3>2 DEF Moves
    <3>3. CASE id \in Due /\ row'[id] = Ended(row[id], "expired", now)
      <4>1. RowSound(row[id]) /\ row[id].state \in Open
        BY <1>1, <3>3 DEF Tables, Sound, Due, Is
      <4>2. "expired" \in Closed /\ "expired" # "done"
        BY DEF Closed
      <4>3. QED
        BY <3>3, <4>1, <4>2, EndingSettles
    <3>4. CASE id \in Stale /\ row'[id] = NoRow
      <4>1. row[id].state \in Closed
        BY <3>4 DEF Stale, Is
      <4>2. QED
        BY <3>4, <4>1, ForgettingIsFresh
    <3>5. QED
      BY <3>1, <3>2, <3>3, <3>4
  <2>2. QED
    BY <2>1
<1>5. CASE Restart
  <2>1. CASE row' = row
    BY <2>1 DEF Moves
  <2>2. CASE row' # row
    <3> DEFINE final == [id \in OpenIds |-> "expired"]
    <3>1. Close(OpenIds, final)
      BY <1>5, <2>2, Zenon DEF Restart
    <3>2. \A id \in OpenIds : final[id] \in Closed /\ (final[id] = "done" => Is(id, {"claimed"}))
      BY DEF Closed
    <3> HIDE DEF final
    <3>3. QED
      BY <1>1, <3>1, <3>2, CloseMoves
  <2>3. QED
    BY <2>1, <2>2
<1>6. CASE \/ \E d \in Devices : Admit(d) \/ Answer(d) \/ Pair(d)
           \/ Tick
           \/ UNCHANGED vars
  <2>1. row' = row
    BY <1>6 DEF Admit, Answer, Pair, Tick, vars
  <2>2. QED
    BY <2>1 DEF Moves
<1>7. QED
  BY <1>2, <1>3, <1>4, <1>5, <1>6, Zenon DEF Next

LEMMA InitCustody == Init => Own!Init
<1> SUFFICES ASSUME Init PROVE Own!Init
  OBVIOUS
<1>1. \A id \in Ids : row[id] = NoRow
  BY DEF Init
<1>2. /\ (NoRow.state \in Closed) = FALSE /\ (NoRow.state \in {"done"}) = FALSE
      /\ (NoRow.state \in Open \cup Closed) = FALSE
  BY OpenIsNotClosed DEF NoRow, Closed
<1>3. Custody(NoRow) = Own!Fresh
  BY <1>2, Zenon DEF Custody, Own!Fresh
<1>4. \A id \in Ids : AbstractCustody[id] = Own!Fresh
  BY <1>1, <1>3, CustodyOfRow
<1>5. AbstractCustody = [id \in Ids |-> Own!Fresh]
  BY <1>4 DEF AbstractCustody
<1>6. QED
  BY <1>5 DEF Own!Init, AbstractCustody

LEMMA StepCustody ==
  ASSUME IInv, IInv', [Next]_vars
  PROVE  [Own!Next]_AbstractCustody
<1>1. \A id \in Ids : AbstractCustody[id] = Custody(row[id]) /\ AbstractCustody'[id] = Custody(row'[id])
  BY CustodyOfRow DEF AbstractCustody, Custody, Is
<1>2. \A id \in Ids : Moves(AbstractCustody[id], AbstractCustody'[id])
  BY <1>1, StepMoves
<1>3. \A id \in Ids : RowSound(row'[id])
  BY DEF IInv, Tables, Sound
<1>4. AbstractCustody' \in
        [Ids -> [owner : Devices \cup {Nobody}, reserved : Devices \cup {Nobody}, over : BOOLEAN]]
  <2>1. \A id \in Ids : AbstractCustody'[id] \in
           [owner : Devices \cup {Nobody}, reserved : Devices \cup {Nobody}, over : BOOLEAN]
    BY <1>1, <1>3, CustodyType
  <2>2. AbstractCustody' = [id \in Ids |-> AbstractCustody'[id]]
    BY DEF AbstractCustody
  <2>3. QED
    BY <2>1, <2>2
<1>5. QED
  BY <1>2, <1>4 DEF Own!Next, AbstractCustody, Moves

\* A handed-off conversation has one owner: the server's messages, sweeps, revokes and restarts are steps
\* of HandoffOwnership, so who was once told "done" stays the only one, and a claim is never taken over.
THEOREM OneOwnerHolds == Spec => OneOwner
<1>1. Init => Own!Init
  BY InitCustody
<1>2. IInv /\ IInv' /\ [Next]_vars => [Own!Next]_AbstractCustody
  BY StepCustody
<1>3. QED
  BY <1>1, <1>2, Invariance, PTL DEF Spec, OneOwner, Own!Spec, AbstractCustody
==============================================================================
