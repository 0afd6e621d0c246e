---------------------------- MODULE SyncLog_proofs ----------------------------
(***************************************************************************)
(* SyncLog's type invariant, NothingSkipped, PersonalStaysPersonal and     *)
(* CursorsNeverRewind, for any machines, users, page size and bounds.      *)
(*                                                                         *)
(* NothingSkipped speaks of the cursor alone and is not inductive: what    *)
(* justifies the next ack is spread over the batches on the wire, the      *)
(* thread's `sent`, the hub's channel and the batches other threads have   *)
(* appended and not yet published.  IInv follows an event through them.    *)
(***************************************************************************)
EXTENDS SyncLog, FiniteSetTheorems, SequenceTheorems, WellFoundedInduction, TLAPS

\* The event has come to the machine's frontend, at most n batches down its queue.
Reached(d, n, s) ==
    \/ s \in applied[d] \cup overtaken
    \/ \E j \in 1..n : s \in wire[d][j]

\* A batch on the wire brings, or has ahead of it, everything below its highest number.
WireInv ==
    \A d \in Devices : \A i \in 1..Len(wire[d]) :
        \A t \in wire[d][i], s \in Seqs : s <= t /\ Meant(d, s) => Reached(d, i, s)

\* What a machine's own thread calls sent has been put on the wire, or was applied before it dialled.
SentInv ==
    \A d \in Devices : link[d] # NoConn =>
        \A s \in 1..sent[link[d]] : Meant(d, s) => Reached(d, Len(wire[d]), s)

\* A live thread still owes an event only if it is queued for it or about to be published.
OwedInv ==
    \A c \in Conns : phase[c] = "live" =>
        \A s \in Seqs : s > sent[c] /\ Meant(owner[c], s) =>
            \/ \E x \in Conns : s \in unpublished[x]
            \/ \E i \in 1..Len(rx[c]) : s \in rx[c][i]

\* An event queued behind a higher one, or not even published yet, was overtaken.
OrderInv ==
    \A c \in Conns : \A i \in 1..Len(rx[c]) : \A t \in rx[c][i] :
        /\ \A j \in 1..Len(rx[c]) : \A s \in rx[c][j] : i < j /\ s < t => s \in overtaken
        /\ \A x \in Conns : \A s \in unpublished[x] : s < t => s \in overtaken

\* A batch is held only by the live thread that appended it.
HeldInv ==
    \A x \in Conns : \A s \in unpublished[x] :
        phase[x] = "live" /\ log[s].device = owner[x]

\* A connection belongs to the machine that dialled it; what was never dialled, or has ended, is blank.
ConnInv ==
    /\ \A d \in Devices : link[d] # NoConn => owner[link[d]] = d /\ link[d] <= dialled
    /\ \A c \in Conns : c > dialled => phase[c] = "none"
    /\ \A c \in Conns : phase[c] \in {"none", "gone"} => sent[c] = 0 /\ rx[c] = << >>

IInv ==
    /\ TypeOK
    /\ NothingSkipped
    /\ WireInv
    /\ SentInv
    /\ OwedInv
    /\ OrderInv
    /\ HeldInv
    /\ ConnInv

-----------------------------------------------------------------------------
(* Sets of sequence numbers and sequences of them.                          *)

Less == {p \in Nat \X Nat : p[1] < p[2]}

\* The numbers below one another are well founded: the library's fact, on the relation as a set.
LEMMA LessWellFounded == IsWellFoundedOn(Less, Nat)
<1>1. OpToRel(<, Nat) = Less
  BY DEF OpToRel, Less
<1>2. QED
  BY <1>1, NatLessThanWellFounded

\* A non-empty set of numbers of the log has a highest one, and Top is it.
LEMMA TopIsHighest ==
  ASSUME NEW n \in Nat, NEW S \in SUBSET (1..n), S # {}
  PROVE  Top(S) \in S /\ \A t \in S : t <= Top(S)
<1> DEFINE Gaps == {n - s : s \in S}
<1>1. \A s \in S : s \in Nat /\ s <= n /\ n - s \in Nat
  OBVIOUS
<1>2. Gaps \subseteq Nat /\ Gaps # {}
  BY <1>1
<1>3. PICK x \in Gaps : \A y \in Gaps : ~ (<<y, x>> \in Less)
  BY <1>2, LessWellFounded, WFMin, Zenon
<1>4. PICK s \in S : x = n - s
  OBVIOUS
<1>5. ASSUME NEW t \in S PROVE t <= s
  <2>1. n - t \in Gaps /\ n - t \in Nat /\ x \in Nat /\ t \in Nat /\ s \in Nat
    BY <1>1, <1>2
  <2>2. ~ (n - t < x)
    BY <2>1, <1>3 DEF Less
  <2>3. QED
    BY <2>1, <2>2, <1>4, SMT
<1>6. QED
  BY <1>5 DEF Top

\* So has every batch that travels.
LEMMA TopOfBatch ==
  ASSUME TypeOK, NEW batch \in Batches
  PROVE  /\ Top(batch) \in batch /\ Top(batch) \in Seqs
         /\ \A t \in batch : t <= Top(batch)
<1>1. Len(log) \in Nat
  BY LenProperties DEF TypeOK
<1>2. batch \in SUBSET (1..Len(log)) /\ batch # {}
  BY DEF Batches, Seqs
<1>3. Top(batch) \in batch /\ \A t \in batch : t <= Top(batch)
  BY <1>1, <1>2, TopIsHighest
<1>4. QED
  BY <1>2, <1>3 DEF Seqs

\* What a push adds to the log, and that it leaves every earlier entry where it was.
LEMMA PushGrowsLog ==
  ASSUME TypeOK, NEW c \in Conns, NEW kinds \in Pushes, AppendPush(c, kinds)
  PROVE  /\ log' \in Seq([device : Devices, kind : AllKinds])
         /\ Len(kinds) \in Nat
         /\ Len(log') = Len(log) + Len(kinds)
         /\ \A s \in Seqs : log'[s] = log[s]
         /\ \A s \in (Len(log) + 1)..(Len(log) + Len(kinds)) : log'[s].device = owner[c]
<1> DEFINE new == [i \in 1..Len(kinds) |-> [device |-> owner[c], kind |-> kinds[i]]]
<1>1. kinds \in Seq(Kinds) /\ Len(kinds) \in Nat
  BY DEF Pushes
<1>2. owner[c] \in Devices /\ Kinds \subseteq AllKinds
  BY SyncLogAssumption DEF TypeOK
<1>3. new \in Seq([device : Devices, kind : AllKinds]) /\ Len(new) = Len(kinds)
  BY <1>1, <1>2
<1>4. log \in Seq([device : Devices, kind : AllKinds]) /\ log' = log \o new
  BY DEF TypeOK, AppendPush
<1>5. \A i \in 1..Len(kinds) : new[i].device = owner[c]
  OBVIOUS
<1> HIDE DEF new
<1>6. /\ log' \in Seq([device : Devices, kind : AllKinds])
      /\ Len(log') = Len(log) + Len(kinds)
      /\ \A s \in 1..Len(log) : log'[s] = log[s]
      /\ \A s \in (Len(log) + 1)..(Len(log) + Len(kinds)) : log'[s] = new[s - Len(log)]
  <2> DEFINE Rec == [device : Devices, kind : AllKinds]
  <2>1. log \in Seq(Rec) /\ new \in Seq(Rec) /\ log' = log \o new
    BY <1>3, <1>4
  <2> HIDE DEF Rec
  <2>2. Len(log) \in Nat
    BY <2>1, LenProperties
  <2>3. /\ log' \in Seq(Rec)
        /\ Len(log') = Len(log) + Len(new)
        /\ \A i \in 1..Len(log) + Len(new) :
               log'[i] = IF i <= Len(log) THEN log[i] ELSE new[i - Len(log)]
    BY <2>1, ConcatProperties
  <2>4. /\ \A s \in 1..Len(log) : log'[s] = log[s]
        /\ \A s \in (Len(log) + 1)..(Len(log) + Len(kinds)) : log'[s] = new[s - Len(log)]
    BY <1>1, <1>3, <2>2, <2>3
  <2>5. QED
    BY <1>3, <2>3, <2>4 DEF Rec
<1>7. \A s \in (Len(log) + 1)..(Len(log) + Len(kinds)) :
         s - Len(log) \in 1..Len(kinds)
  BY <1>1, <1>4
<1>8. QED
  BY <1>1, <1>5, <1>6, <1>7 DEF Seqs

-----------------------------------------------------------------------------
(* Type correctness.                                                        *)

LEMMA TypeInit == Init => TypeOK
<1> SUFFICES ASSUME Init PROVE TypeOK
  OBVIOUS
<1>1. Len(log) = 0 /\ Seqs = {}
  BY DEF Init, Seqs
<1>2. (CHOOSE d \in Devices : TRUE) \in Devices
  BY SyncLogAssumption
<1>3. QED
  BY <1>1, <1>2, SyncLogAssumption DEF Init, TypeOK, Phases

\* A queue nothing is in is a queue of batches.
LEMMA EmptyBatches == << >> \in Seq(Batches)
  BY EmptySeq

\* The number a thread notes down after a batch is one of the log's.
LEMMA SentAfterType ==
  ASSUME TypeOK, NEW c \in Conns, NEW batch \in SUBSET Seqs
  PROVE  SentAfter(c, batch) \in 0..Len(log)
<1>1. Len(log) \in Nat
  BY LenProperties DEF TypeOK
<1>2. CASE batch = {}
  BY <1>2 DEF SentAfter, TypeOK
<1>3. CASE batch # {}
  <2>1. batch \in Batches
    BY <1>3 DEF Batches
  <2>2. Top(batch) \in 1..Len(log)
    BY <2>1, TopOfBatch DEF Seqs
  <2>3. QED
    BY <1>1, <1>3, <2>2 DEF SentAfter
<1>4. QED
  BY <1>2, <1>3

\* Sending keeps the wire's type: at most one batch of the log is added, to one machine's.
LEMMA SendType ==
  ASSUME TypeOK, NEW c \in Conns, NEW batch \in SUBSET Seqs, Send(c, batch)
  PROVE  wire' \in [Devices -> Seq(Batches)]
<1>1. owner[c] \in Devices /\ wire[owner[c]] \in Seq(Batches)
  BY DEF TypeOK
<1>2. batch # {} => Append(wire[owner[c]], batch) \in Seq(Batches)
  BY <1>1, AppendProperties DEF Batches
<1>3. QED
  BY <1>1, <1>2 DEF Send, TypeOK

\* Steps that leave the log alone change a number, a phase or a queue within its type.
LEMMA TypeStep == TypeOK /\ [Next]_vars => TypeOK'
<1> SUFFICES ASSUME TypeOK, [Next]_vars PROVE TypeOK'
  OBVIOUS
<1>0. Len(log) \in Nat
  BY LenProperties DEF TypeOK
<1>1. ASSUME NEW c \in Conns, Join(c) PROVE TypeOK'
  BY <1>1 DEF Join, TypeOK, clientVars, Seqs, Batches, Phases
<1>2. ASSUME NEW c \in Conns, CatchUp(c) PROVE TypeOK'
  <2> DEFINE page == FirstPage(Backlog(c))
  <2>1. page \in SUBSET Seqs
    BY DEF FirstPage, Backlog
  <2>2. SentAfter(c, page) \in 0..Len(log) /\ wire' \in [Devices -> Seq(Batches)]
    BY <1>2, <2>1, SentAfterType, SendType DEF CatchUp
  <2>3. phase' \in [Conns -> Phases]
    BY <1>2 DEF CatchUp, TypeOK, Phases
  <2>4. sent' \in [Conns -> 0..Len(log)]
    BY <1>2, <2>2 DEF CatchUp, TypeOK
  <2>5. QED
    BY <1>2, <2>2, <2>3, <2>4 DEF CatchUp, TypeOK, Seqs, Batches
<1>3. ASSUME NEW c \in Conns, Publish(c) PROVE TypeOK'
  <2>1. ASSUME NEW x \in Conns
        PROVE  /\ rx[x] \in Seq(Batches)
               /\ Share(owner[x], unpublished[c]) # {} => Share(owner[x], unpublished[c]) \in Batches
    BY DEF TypeOK, Share, Batches
  <2>2. rx' \in [Conns -> Seq(Batches)]
    BY <1>3, <2>1, AppendProperties DEF Publish
  <2>3. unpublished' \in [Conns -> SUBSET Seqs] /\ overtaken' \subseteq Seqs
    BY <1>3 DEF Publish, TypeOK
  <2>4. QED
    BY <1>3, <2>2, <2>3 DEF Publish, TypeOK, clientVars, Seqs, Batches
<1>4. ASSUME NEW c \in Conns, Forward(c) PROVE TypeOK'
  <2> DEFINE fresh == {s \in Head(rx[c]) : s > sent[c]}
  <2>1. Head(rx[c]) \in Batches /\ Tail(rx[c]) \in Seq(Batches)
    BY <1>4, HeadTailProperties DEF Forward, TypeOK
  <2>2. fresh \in SUBSET Seqs
    BY <2>1 DEF Batches
  <2>3. SentAfter(c, fresh) \in 0..Len(log) /\ wire' \in [Devices -> Seq(Batches)]
    BY <1>4, <2>2, SentAfterType, SendType DEF Forward
  <2>4. sent' \in [Conns -> 0..Len(log)] /\ rx' \in [Conns -> Seq(Batches)]
    BY <1>4, <2>1, <2>3 DEF Forward, TypeOK
  <2>5. QED
    BY <1>4, <2>3, <2>4 DEF Forward, TypeOK, Seqs, Batches
<1>5. ASSUME NEW c \in Conns, Leave(c) PROVE TypeOK'
  <2>1. rx' \in [Conns -> Seq(Batches)] /\ sent' \in [Conns -> 0..Len(log)]
    BY <1>0, <1>5, EmptyBatches DEF Leave, TypeOK
  <2>2. QED
    BY <1>5, <2>1 DEF Leave, TypeOK, clientVars, Seqs, Batches, Phases
<1>6. ASSUME NEW c \in Conns, NEW kinds \in Pushes, AppendPush(c, kinds) PROVE TypeOK'
  <2>1. /\ log' \in Seq([device : Devices, kind : AllKinds])
        /\ Len(kinds) \in Nat /\ Len(log') = Len(log) + Len(kinds)
    BY <1>6, PushGrowsLog
  <2>2. Seqs \subseteq Seqs' /\ 0..Len(log) \subseteq 0..Len(log') /\ Batches \subseteq Batches'
    BY <1>0, <2>1 DEF Seqs, Batches
  <2>3. Seq(Batches) \subseteq Seq(Batches')
    BY <2>2, SeqMonotonic
  <2>4. (Len(log) + 1)..(Len(log) + Len(kinds)) \subseteq Seqs'
    BY <1>0, <2>1 DEF Seqs
  <2>5. unpublished' \in [Conns -> SUBSET (Seqs')]
    BY <1>6, <2>2, <2>4 DEF AppendPush, TypeOK
  <2>6. rx' \in [Conns -> Seq(Batches')] /\ wire' \in [Devices -> Seq(Batches')]
    BY <1>6, <2>3 DEF AppendPush, TypeOK, clientVars
  <2>7. /\ sent' \in [Conns -> 0..Len(log')] /\ cursor' \in [Devices -> 0..Len(log')]
        /\ applied' \in [Devices -> SUBSET (Seqs')] /\ overtaken' \subseteq Seqs'
    BY <1>6, <2>2 DEF AppendPush, TypeOK, clientVars
  <2>8. QED
    BY <1>6, <2>1, <2>5, <2>6, <2>7 DEF AppendPush, TypeOK, clientVars
<1>7. ASSUME NEW d \in Devices, Dial(d) PROVE TypeOK'
  <2>1. dialled + 1 \in Conns /\ dialled' \in 0..MaxConns
    BY <1>7, SyncLogAssumption DEF Dial, TypeOK, Conns
  <2>2. QED
    BY <1>7, <2>1 DEF Dial, TypeOK, Seqs, Batches, Phases
<1>8. ASSUME NEW d \in Devices, Drop(d) PROVE TypeOK'
  <2>1. PICK kept \in 0..Len(wire[d]) : wire' = [wire EXCEPT ![d] = SubSeq(@, 1, kept)]
    BY <1>8 DEF Drop
  <2>2. wire[d] \in Seq(Batches) /\ Len(wire[d]) \in Nat
    BY LenProperties DEF TypeOK
  <2>3. \A i \in 1..kept : wire[d][i] \in Batches
    BY <2>2, ElementOfSeq
  <2>4. SubSeq(wire[d], 1, kept) \in Seq(Batches)
    BY <2>2, <2>3, SubSeqProperties
  <2>5. wire' \in [Devices -> Seq(Batches)]
    BY <2>1, <2>4 DEF TypeOK
  <2>6. QED
    BY <1>8, <2>5 DEF Drop, TypeOK, serverVars, Seqs, Batches
<1>9. ASSUME NEW d \in Devices, Apply(d) PROVE TypeOK'
  <2>1. Head(wire[d]) \in Batches /\ Tail(wire[d]) \in Seq(Batches)
    BY <1>9, HeadTailProperties DEF Apply, TypeOK
  <2>2. Ack(d, Top(Head(wire[d]))) \in 0..Len(log)
    BY <1>0, <2>1, TopOfBatch DEF Ack, TypeOK, Seqs
  <2>3. QED
    BY <1>9, <2>1, <2>2 DEF Apply, TypeOK, serverVars, Seqs, Batches
<1>10. ASSUME NEW d \in Devices, Quit(d) PROVE TypeOK'
  <2>1. wire' \in [Devices -> Seq(Batches)] /\ link' \in [Devices -> {NoConn} \cup Conns]
    BY <1>10, EmptyBatches DEF Quit, TypeOK
  <2>2. applied' \in [Devices -> SUBSET Seqs]
    <3>1. wire[d] # << >> => Head(wire[d]) \in SUBSET Seqs
      BY HeadTailProperties DEF TypeOK, Batches
    <3>2. QED
      BY <1>10, <3>1 DEF Quit, TypeOK
  <2>3. QED
    BY <1>10, <2>1, <2>2 DEF Quit, TypeOK, serverVars, Seqs, Batches
<1>11. ASSUME ServerCrash PROVE TypeOK'
  <2>1. /\ phase' \in [Conns -> Phases] /\ sent' \in [Conns -> 0..Len(log)]
        /\ rx' \in [Conns -> Seq(Batches)] /\ unpublished' \in [Conns -> SUBSET Seqs]
    BY <1>0, <1>11, EmptyBatches DEF ServerCrash, TypeOK, Phases
  <2>2. QED
    BY <1>11, <2>1 DEF ServerCrash, TypeOK, clientVars, Seqs, Batches
<1>12. ASSUME UNCHANGED vars PROVE TypeOK'
  BY <1>12 DEF TypeOK, vars, serverVars, clientVars, Seqs, Batches
<1>13. QED
  BY <1>1, <1>2, <1>3, <1>4, <1>5, <1>6, <1>7, <1>8, <1>9, <1>10, <1>11, <1>12 DEF Next

\* The server's and the machines' state always has its type.
THEOREM TypeCorrect == Spec => []TypeOK
<1>1. QED
  BY TypeInit, TypeStep, PTL DEF Spec

-----------------------------------------------------------------------------
(* NothingSkipped: how IInv starts, and how each step keeps it.             *)

LEMMA IInvInit == Init => IInv
<1> SUFFICES ASSUME Init PROVE IInv
  OBVIOUS
<1>1. TypeOK
  BY TypeInit
<1>2. \A d \in Devices : Len(wire[d]) = 0 /\ cursor[d] = 0 /\ link[d] = NoConn
  BY DEF Init
<1>3. \A c \in Conns : Len(rx[c]) = 0 /\ unpublished[c] = {} /\ phase[c] = "none" /\ sent[c] = 0 /\ rx[c] = << >>
  BY DEF Init
<1>4. NothingSkipped /\ WireInv /\ SentInv
  BY <1>2 DEF NothingSkipped, WireInv, SentInv
<1>5. OwedInv /\ OrderInv /\ HeldInv /\ ConnInv
  BY <1>2, <1>3 DEF OwedInv, OrderInv, HeldInv, ConnInv
<1>6. QED
  BY <1>1, <1>4, <1>5 DEF IInv

\* Who an event is meant for is settled by the log's entry for it.
LEMMA MeantKept ==
  ASSUME NEW s, log'[s] = log[s], NEW d
  PROVE  Meant(d, s)' <=> Meant(d, s)
BY DEF Meant, Mine, Takes

\* What has reached a frontend stays reached while its queue keeps its front and history only grows.
LEMMA ReachedKept ==
  ASSUME NEW d \in Devices, NEW n \in Nat, NEW m \in Nat, n <= m, NEW s,
         applied[d] \subseteq applied'[d], overtaken \subseteq overtaken',
         \A j \in 1..n : wire'[d][j] = wire[d][j],
         Reached(d, n, s)
  PROVE  Reached(d, m, s)'
BY DEF Reached

\* A step the machines take no part in leaves what they have been brought as it was.
LEMMA QuietKeeps ==
  ASSUME IInv, UNCHANGED <<log, wire, cursor, applied>>, overtaken \subseteq overtaken'
  PROVE  /\ NothingSkipped' /\ WireInv'
         /\ \A d \in Devices : \A n, s : Reached(d, n, s) => Reached(d, n, s)'
<1>1. \A d \in Devices : \A s : Meant(d, s)' <=> Meant(d, s)
  BY MeantKept
<1>2. \A d \in Devices : \A n, s : Reached(d, n, s) => Reached(d, n, s)'
  BY DEF Reached
<1>3. NothingSkipped'
  BY <1>1 DEF IInv, NothingSkipped
<1>4. WireInv'
  BY <1>1, <1>2 DEF IInv, WireInv, Seqs
<1>5. QED
  BY <1>2, <1>3, <1>4

\* If besides no live connection's `sent` moves, the threads' bookkeeping stays true.
LEMMA QuietSentKeeps ==
  ASSUME IInv, UNCHANGED <<log, wire, cursor, applied>>, overtaken \subseteq overtaken',
         \A d \in Devices : link'[d] # NoConn => link'[d] = link[d] /\ sent'[link[d]] = sent[link[d]]
  PROVE  SentInv'
<1>1. \A d \in Devices : \A n, s : Reached(d, n, s) => Reached(d, n, s)'
  BY QuietKeeps
<1>2. \A d \in Devices : \A s : Meant(d, s)' <=> Meant(d, s)
  BY MeantKept
<1>3. QED
  BY <1>1, <1>2 DEF IInv, SentInv

\* Joining the hub is a change of phase.
LEMMA JoinKeeps ==
  ASSUME IInv, TypeOK', NEW c \in Conns, Join(c)
  PROVE  IInv'
<1>1. TypeOK /\ UNCHANGED <<log, wire, cursor, applied, overtaken, link, sent>>
  BY DEF IInv, Join, clientVars
<1>2. NothingSkipped' /\ WireInv' /\ SentInv'
  <2>1. overtaken \subseteq overtaken' /\ UNCHANGED <<log, wire, cursor, applied>>
    BY <1>1
  <2>2. \A d \in Devices : link'[d] # NoConn => link'[d] = link[d] /\ sent'[link[d]] = sent[link[d]]
    BY <1>1
  <2>3. NothingSkipped' /\ WireInv'
    BY <2>1, QuietKeeps
  <2>4. SentInv'
    BY <2>1, <2>2, QuietSentKeeps
  <2>5. QED
    BY <2>3, <2>4
<1>3. OwedInv' /\ OrderInv'
  <2>1. \A d, s : Meant(d, s)' <=> Meant(d, s)
    BY <1>1, MeantKept
  <2>2. \A x \in Conns : phase'[x] = "live" => phase[x] = "live"
    BY <1>1 DEF Join, TypeOK
  <2>3. OwedInv'
    BY <1>1, <2>1, <2>2 DEF IInv, Join, OwedInv, Seqs
  <2>4. OrderInv'
    BY <1>1 DEF IInv, Join, OrderInv
  <2>5. QED
    BY <2>3, <2>4
<1>4. HeldInv' /\ ConnInv'
  BY <1>1 DEF IInv, TypeOK, Join, clientVars, HeldInv, ConnInv
<1>5. QED
  BY <1>2, <1>3, <1>4 DEF IInv

\* Sending a batch keeps track of every event, when the batch brings whatever is meant for the
\* machine between the thread's `sent` and the batch's highest number, and has not been overtaken.
LEMMA SendKeepsTrack ==
  ASSUME IInv, NEW c \in Conns, NEW batch \in SUBSET Seqs,
         phase[c] \in {"catchup", "live"}, Send(c, batch),
         sent' = [sent EXCEPT ![c] = SentAfter(c, batch)],
         UNCHANGED <<log, owner, link, applied, overtaken>>,
         \A t \in batch, s \in Seqs :
             s <= t /\ s > sent[c] /\ Meant(owner[c], s) => s \in batch \cup overtaken
  PROVE  WireInv' /\ SentInv'
<1>0. PICK d \in Devices, n \in Nat : d = owner[c] /\ n = Len(wire[d])
  BY LenProperties DEF IInv, TypeOK
<1>1. TypeOK /\ wire[d] \in Seq(Batches) /\ Len(log) \in Nat
  BY LenProperties DEF IInv, TypeOK
<1>2. \A e \in Devices : \A s : Meant(e, s)' <=> Meant(e, s)
  BY MeantKept
<1>3. Seqs' = Seqs
  BY DEF Seqs
<1>4. ASSUME NEW e \in Devices, wire'[e] = wire[e]
      PROVE  \A k, s : Reached(e, k, s) => Reached(e, k, s)'
  BY <1>4 DEF Reached
<1>5. CASE batch # {} /\ link[d] = c
  <2>1. wire' = [wire EXCEPT ![d] = Append(@, batch)] /\ batch \in Batches
    BY <1>0, <1>5 DEF Send, Batches
  <2>2. /\ Len(wire'[d]) = n + 1
        /\ \A i \in 1..n : wire'[d][i] = wire[d][i]
        /\ wire'[d][n + 1] = batch
    BY <1>0, <1>1, <2>1, AppendProperties DEF TypeOK
  <2>3. \A e \in Devices \ {d} : wire'[e] = wire[e] /\ \A k, s : Reached(e, k, s) => Reached(e, k, s)'
    BY <1>4, <2>1
  <2>4. ASSUME NEW t \in batch, NEW s \in Seqs, s <= t, Meant(d, s)
        PROVE  Reached(d, n + 1, s)'
    <3>1. CASE s <= sent[c]
      <4>1. s \in 1..sent[link[d]]
        BY <1>1, <1>5, <3>1 DEF Seqs, TypeOK
      <4>2. Reached(d, n, s)
        BY <1>0, <1>5, <2>4, <4>1 DEF IInv, SentInv, NoConn, Conns
      <4>3. QED
        BY <2>2, <4>2, ReachedKept
    <3>2. CASE s > sent[c]
      <4>1. s \in batch \cup overtaken
        BY <1>0, <2>4, <3>2
      <4>2. QED
        BY <2>2, <4>1 DEF Reached
    <3>3. QED
      BY <1>1, <3>1, <3>2 DEF Seqs, TypeOK
  <2>5. WireInv'
    <3> SUFFICES ASSUME NEW e \in Devices, NEW i \in 1..Len(wire'[e]), NEW t \in wire'[e][i],
                        NEW s \in Seqs, s <= t, Meant(e, s)
                 PROVE  Reached(e, i, s)'
      BY <1>2, <1>3 DEF WireInv
    <3>1. CASE e # d
      <4>1. i \in 1..Len(wire[e]) /\ t \in wire[e][i]
        BY <2>3, <3>1
      <4>2. Reached(e, i, s)
        BY <4>1 DEF IInv, WireInv
      <4>3. QED
        BY <2>3, <3>1, <4>2
    <3>2. CASE e = d /\ i = n + 1
      BY <2>2, <2>4, <3>2
    <3>3. CASE e = d /\ i # n + 1
      <4>1. i \in 1..n /\ wire'[d][i] = wire[d][i]
        BY <2>2, <3>3
      <4>2. Reached(d, i, s)
        BY <1>0, <3>3, <4>1 DEF IInv, WireInv
      <4>3. QED
        BY <2>2, <3>3, <4>1, <4>2, ReachedKept
    <3>4. QED
      BY <3>1, <3>2, <3>3
  <2>6. SentInv'
    <3> SUFFICES ASSUME NEW e \in Devices, link[e] # NoConn, NEW s \in 1..sent'[link[e]], Meant(e, s)
                 PROVE  Reached(e, Len(wire[e]), s)'
      BY <1>2 DEF SentInv
    <3>1. CASE e # d
      <4>1. link[e] # c
        BY <1>0, <3>1 DEF IInv, ConnInv
      <4>2. sent'[link[e]] = sent[link[e]]
        BY <4>1 DEF IInv, TypeOK
      <4>3. QED
        BY <2>3, <3>1, <4>2 DEF IInv, SentInv
    <3>2. CASE e = d
      <4>1. sent'[link[e]] = Top(batch)
        BY <1>5, <3>2 DEF IInv, TypeOK, SentAfter
      <4>2. Top(batch) \in batch /\ Top(batch) \in Seqs
        BY <1>1, <2>1, TopOfBatch
      <4>3. s \in Seqs /\ s <= Top(batch)
        BY <1>1, <4>1, <4>2 DEF Seqs
      <4>4. QED
        BY <2>2, <2>4, <3>2, <4>2, <4>3
    <3>3. QED
      BY <3>1, <3>2
  <2>7. QED
    BY <2>5, <2>6
<1>6. CASE ~ (batch # {} /\ link[d] = c)
  <2>1. wire' = wire
    BY <1>0, <1>6 DEF Send
  <2>2. WireInv'
    BY <1>2, <1>3, <1>4, <2>1 DEF IInv, WireInv
  <2>3. \A e \in Devices : link[e] # NoConn => sent'[link[e]] = sent[link[e]]
    BY <1>0, <1>6 DEF IInv, ConnInv, TypeOK, SentAfter
  <2>4. SentInv'
    BY <1>2, <1>4, <2>1, <2>3 DEF IInv, SentInv
  <2>5. QED
    BY <2>2, <2>4
<1>7. QED
  BY <1>5, <1>6

\* A page has no gap: whatever is owed below an event of the page is in the page.
LEMMA PageHasNoGap ==
  ASSUME NEW n \in Nat, NEW S \in SUBSET (1..n), NEW t \in FirstPage(S), NEW s \in S, s <= t
  PROVE  s \in FirstPage(S)
<1> DEFINE UpTo(u) == {v \in S : v <= u}
<1>1. IsFiniteSet(UpTo(t))
  <2>1. IsFiniteSet(1..n)
    BY FS_Interval
  <2>2. UpTo(t) \in SUBSET (1..n)
    OBVIOUS
  <2>3. QED
    BY <2>1, <2>2, FS_Subset
<1>2. UpTo(s) \in SUBSET UpTo(t) /\ t \in S /\ Cardinality(UpTo(t)) <= Page
  <2>1. t \in S /\ Cardinality(UpTo(t)) <= Page
    BY DEF FirstPage
  <2>2. \A v \in S : v \in Nat
    OBVIOUS
  <2>3. ASSUME NEW v \in S, v <= s PROVE v <= t
    BY <2>1, <2>2, <2>3
  <2>4. QED
    BY <2>1, <2>3
<1>3. Cardinality(UpTo(s)) <= Cardinality(UpTo(t))
  BY <1>1, <1>2, FS_Subset
<1>4. Cardinality(UpTo(s)) \in Nat /\ Cardinality(UpTo(t)) \in Nat
  BY <1>1, <1>2, FS_Subset, FS_CardinalityType
<1>5. Cardinality(UpTo(s)) <= Page
  BY <1>2, <1>3, <1>4, SyncLogAssumption
<1>6. QED
  BY <1>5 DEF FirstPage

\* The last page leaves nothing owed, so the thread goes live owing nothing.
LEMMA CatchUpKeeps ==
  ASSUME IInv, TypeOK', NEW c \in Conns, CatchUp(c)
  PROVE  IInv'
<1> DEFINE page == FirstPage(Backlog(c))
<1>1. /\ TypeOK /\ Len(log) \in Nat /\ page \in SUBSET Seqs /\ Backlog(c) \in SUBSET (1..Len(log))
      /\ phase[c] = "catchup"
  BY LenProperties DEF IInv, TypeOK, FirstPage, Backlog, Seqs, CatchUp
<1>2. UNCHANGED <<log, owner, rx, unpublished, dialled, link, cursor, applied, overtaken>>
  BY DEF CatchUp
<1>3. \A s \in Seqs : s > sent[c] /\ Meant(owner[c], s) => s \in Backlog(c)
  BY DEF Backlog, Meant
<1>4. sent' = [sent EXCEPT ![c] = SentAfter(c, page)] /\ Send(c, page)
  BY DEF CatchUp
<1>5. \A t \in page, s \in Seqs :
         s <= t /\ s > sent[c] /\ Meant(owner[c], s) => s \in page \cup overtaken
  BY <1>1, <1>3, PageHasNoGap
<1> HIDE DEF page
<1>6. WireInv' /\ SentInv'
  BY <1>1, <1>2, <1>4, <1>5, SendKeepsTrack
<1>7. NothingSkipped'
  BY <1>2 DEF IInv, NothingSkipped, Meant, Mine, Takes
<1>8. OwedInv'
  <2> SUFFICES ASSUME NEW x \in Conns, phase'[x] = "live", NEW s \in Seqs, s > sent'[x], Meant(owner[x], s)
               PROVE  \/ \E y \in Conns : s \in unpublished[y]
                      \/ \E i \in 1..Len(rx[x]) : s \in rx[x][i]
    BY <1>2 DEF OwedInv, Meant, Mine, Takes, Seqs
  <2>1. CASE x # c
    BY <2>1, <1>1 DEF IInv, OwedInv, TypeOK, CatchUp
  <2>2. CASE x = c
    <3>1. page = Backlog(c)
      BY <1>1, <2>2 DEF CatchUp, TypeOK, More, page
    <3>2. page = {} => sent'[c] = sent[c]
      BY <1>1, <1>4 DEF SentAfter, TypeOK
    <3>3. page # {} => /\ sent'[c] = Top(page) /\ Top(page) \in page
                       /\ \A t \in page : t <= Top(page)
      BY <1>1, <1>4, TopIsHighest DEF SentAfter, TypeOK, Seqs
    <3>4. page # {} => sent'[c] > sent[c]
      BY <3>1, <3>3 DEF Backlog
    <3>5. s > sent[c]
      <4>1. s \in Nat /\ sent[c] \in Nat /\ sent'[c] \in Nat
        BY <1>1 DEF TypeOK, Seqs
      <4>2. QED
        BY <2>2, <3>2, <3>4, <4>1
    <3>6. s \in page
      BY <1>3, <2>2, <3>1, <3>5
    <3>7. s <= sent'[c]
      BY <3>3, <3>6
    <3>8. QED
      BY <1>1, <2>2, <3>7 DEF TypeOK, Seqs
  <2>3. QED
    BY <2>1, <2>2
<1>9. OrderInv'
  BY <1>2 DEF IInv, OrderInv
<1>10. HeldInv' /\ ConnInv'
  BY <1>1, <1>2 DEF IInv, TypeOK, CatchUp, HeldInv, ConnInv
<1>11. QED
  BY <1>6, <1>7, <1>8, <1>9, <1>10 DEF IInv

\* Publishing queues the batch for every live thread, and counts as overtaken whatever is still held below it.
LEMMA PublishKeeps ==
  ASSUME IInv, TypeOK', NEW c \in Conns, Publish(c)
  PROVE  IInv'
<1> DEFINE batch == unpublished[c]
<1>1. /\ TypeOK /\ Len(log) \in Nat /\ batch \in Batches
      /\ UNCHANGED <<log, phase, owner, sent, dialled, link, wire, cursor, applied>>
      /\ overtaken \subseteq overtaken'
  BY LenProperties DEF IInv, TypeOK, Publish, Batches, clientVars
<1>2. \A d, s : Meant(d, s)' <=> Meant(d, s)
  BY <1>1, MeantKept
<1>3. Top(batch) \in Seqs /\ \A t \in batch : t <= Top(batch)
  BY <1>1, TopOfBatch
<1>4. NothingSkipped' /\ WireInv'
  BY <1>1, QuietKeeps
<1>5. SentInv'
  <2>1. \A d \in Devices : link'[d] # NoConn => link'[d] = link[d] /\ sent'[link[d]] = sent[link[d]]
    BY <1>1
  <2>2. QED
    BY <1>1, <2>1, QuietSentKeeps
<1>6. \A x \in Conns : unpublished'[x] = IF x = c THEN {} ELSE unpublished[x]
  BY <1>1 DEF Publish, TypeOK
<1>7. ASSUME NEW x \in Conns
      PROVE  /\ Len(rx[x]) \in Nat
             /\ \A i \in 1..Len(rx[x]) : rx'[x][i] = rx[x][i] /\ rx[x][i] \in Batches
             /\ \/ rx'[x] = rx[x]
                \/ Len(rx'[x]) = Len(rx[x]) + 1 /\ rx'[x][Len(rx[x]) + 1] = Share(owner[x], batch)
             /\ x # c /\ Subscribed(x) /\ Share(owner[x], batch) # {} => rx'[x] # rx[x]
  <2>1. rx[x] \in Seq(Batches) /\ Len(rx[x]) \in Nat
    BY <1>1, LenProperties DEF TypeOK
  <2>2. Share(owner[x], batch) # {} => Share(owner[x], batch) \in Batches
    BY <1>1 DEF Share, Batches
  <2>3. rx'[x] = IF x # c /\ Subscribed(x) /\ Share(owner[x], batch) # {}
                 THEN Append(rx[x], Share(owner[x], batch)) ELSE rx[x]
    BY DEF Publish
  <2>4. CASE x # c /\ Subscribed(x) /\ Share(owner[x], batch) # {}
    <3>1. /\ Len(Append(rx[x], Share(owner[x], batch))) = Len(rx[x]) + 1
          /\ \A i \in 1..Len(rx[x]) : Append(rx[x], Share(owner[x], batch))[i] = rx[x][i]
          /\ Append(rx[x], Share(owner[x], batch))[Len(rx[x]) + 1] = Share(owner[x], batch)
      BY <2>1, <2>2, <2>4, AppendProperties
    <3>2. rx'[x] # rx[x]
      BY <2>1, <2>3, <2>4, <3>1
    <3>3. \A i \in 1..Len(rx[x]) : rx[x][i] \in Batches
      BY <2>1, ElementOfSeq
    <3>4. QED
      BY <2>1, <2>3, <2>4, <3>1, <3>2, <3>3
  <2>5. CASE ~ (x # c /\ Subscribed(x) /\ Share(owner[x], batch) # {})
    BY <2>1, <2>3, <2>5, ElementOfSeq
  <2>6. QED
    BY <2>4, <2>5
<1>8. OwedInv'
  <2> SUFFICES ASSUME NEW x \in Conns, phase[x] = "live", NEW s \in Seqs, s > sent[x], Meant(owner[x], s)
               PROVE  \/ \E y \in Conns : s \in unpublished'[y]
                      \/ \E i \in 1..Len(rx'[x]) : s \in rx'[x][i]
    BY <1>1, <1>2 DEF OwedInv, Seqs
  <2>1. \/ \E y \in Conns : s \in unpublished[y]
        \/ \E i \in 1..Len(rx[x]) : s \in rx[x][i]
    BY DEF IInv, OwedInv
  <2>2. CASE \E i \in 1..Len(rx[x]) : s \in rx[x][i]
    BY <1>7, <2>2
  <2>3. CASE \E y \in Conns \ {c} : s \in unpublished[y]
    BY <1>6, <2>3
  <2>4. CASE s \in batch
    <3>1. log[s].device = owner[c]
      BY <2>4 DEF IInv, HeldInv
    <3>2. x # c /\ s \in Share(owner[x], batch) /\ Subscribed(x)
      BY <2>4, <3>1 DEF Meant, Share, Subscribed
    <3>3. Len(rx'[x]) = Len(rx[x]) + 1 /\ s \in rx'[x][Len(rx[x]) + 1] /\ Len(rx[x]) \in Nat
      BY <1>7, <3>2
    <3>4. QED
      BY <3>3
  <2>5. QED
    BY <2>1, <2>2, <2>3, <2>4
<1>9. OrderInv'
  <2> SUFFICES ASSUME NEW x \in Conns, NEW i \in 1..Len(rx'[x]), NEW t \in rx'[x][i]
               PROVE  /\ \A j \in 1..Len(rx'[x]) : \A s \in rx'[x][j] : i < j /\ s < t => s \in overtaken'
                      /\ \A y \in Conns : \A s \in unpublished'[y] : s < t => s \in overtaken'
    BY DEF OrderInv
  <2>1. CASE i \in 1..Len(rx[x])
    <3>1. t \in rx[x][i]
      BY <1>7, <2>1
    <3>2. ASSUME NEW j \in 1..Len(rx'[x]), NEW s \in rx'[x][j], i < j, s < t
          PROVE  s \in overtaken'
      <4>1. CASE j \in 1..Len(rx[x])
        BY <1>1, <1>7, <2>1, <3>1, <3>2, <4>1 DEF IInv, OrderInv
      <4>2. CASE j \notin 1..Len(rx[x])
        <5>1. s \in batch
          BY <1>7, <3>2, <4>2 DEF Share
        <5>2. QED
          BY <1>1, <2>1, <3>1, <3>2, <5>1 DEF IInv, OrderInv
      <4>3. QED
        BY <4>1, <4>2
    <3>3. ASSUME NEW y \in Conns, NEW s \in unpublished'[y], s < t
          PROVE  s \in overtaken'
      BY <1>1, <1>6, <2>1, <3>1, <3>3 DEF IInv, OrderInv
    <3>4. QED
      BY <3>2, <3>3
  <2>2. CASE i \notin 1..Len(rx[x])
    <3>1. i = Len(rx[x]) + 1 /\ Len(rx'[x]) = Len(rx[x]) + 1 /\ t \in batch
      BY <1>7, <2>2 DEF Share
    <3>2. ASSUME NEW y \in Conns, NEW s \in unpublished'[y], s < t
          PROVE  s \in overtaken'
      <4>1. y # c /\ s \in unpublished[y] /\ s \in Seqs /\ t \in Seqs
        BY <1>1, <1>6, <3>1, <3>2 DEF TypeOK, Batches
      <4>2. s < Top(batch)
        BY <1>1, <1>3, <3>1, <3>2, <4>1 DEF Seqs
      <4>3. QED
        BY <4>1, <4>2 DEF Publish
    <3>3. QED
      BY <1>7, <3>1, <3>2
  <2>3. QED
    BY <2>1, <2>2
<1>10. HeldInv'
  BY <1>1, <1>6 DEF IInv, HeldInv
<1>11. ConnInv'
  <2>1. \A x \in Conns : phase[x] \in {"none", "gone"} => rx'[x] = rx[x]
    BY DEF Publish, Subscribed
  <2>2. QED
    BY <1>1, <2>1 DEF IInv, ConnInv
<1>12. QED
  BY <1>4, <1>5, <1>8, <1>9, <1>10, <1>11 DEF IInv

\* Forwarding brings what was owed up to the batch's top, or it had been overtaken.
LEMMA ForwardKeeps ==
  ASSUME IInv, TypeOK', NEW c \in Conns, Forward(c)
  PROVE  IInv'
<1> DEFINE first == Head(rx[c])
           fresh == {s \in first : s > sent[c]}
<1>1. /\ TypeOK /\ Len(log) \in Nat /\ rx[c] \in Seq(Batches) /\ Len(rx[c]) \in Nat /\ rx[c] # << >>
      /\ phase[c] = "live"
      /\ UNCHANGED <<log, phase, owner, unpublished, dialled, link, cursor, applied, overtaken>>
      /\ sent' = [sent EXCEPT ![c] = SentAfter(c, fresh)] /\ Send(c, fresh)
      /\ rx' = [rx EXCEPT ![c] = Tail(@)]
  BY LenProperties DEF IInv, TypeOK, Forward
<1>2. /\ first = rx[c][1] /\ first \in Batches /\ 1 \in 1..Len(rx[c])
      /\ Len(Tail(rx[c])) = Len(rx[c]) - 1
      /\ \A i \in 1..Len(Tail(rx[c])) : Tail(rx[c])[i] = rx[c][i + 1]
  BY <1>1, HeadTailProperties
<1>3. fresh \in SUBSET Seqs
  BY <1>2 DEF Batches
<1>4. \A t \in fresh, s \in Seqs :
         s <= t /\ s > sent[c] /\ Meant(owner[c], s) => s \in fresh \cup overtaken
  <2> SUFFICES ASSUME NEW t \in fresh, NEW s \in Seqs, s <= t, s > sent[c], Meant(owner[c], s), s # t
               PROVE  s \in fresh \cup overtaken
    OBVIOUS
  <2>1. s < t
    BY <1>3 DEF Seqs
  <2>2. \/ \E x \in Conns : s \in unpublished[x]
        \/ \E i \in 1..Len(rx[c]) : s \in rx[c][i]
    BY <1>1 DEF IInv, OwedInv
  <2>3. CASE \E x \in Conns : s \in unpublished[x]
    BY <1>2, <2>1, <2>3 DEF IInv, OrderInv
  <2>4. CASE s \in first
    BY <2>4
  <2>5. CASE \E i \in 2..Len(rx[c]) : s \in rx[c][i]
    BY <1>1, <1>2, <2>1, <2>5 DEF IInv, OrderInv
  <2>6. QED
    BY <1>1, <1>2, <2>2, <2>3, <2>4, <2>5
<1>5. /\ fresh = {} => sent'[c] = sent[c]
      /\ fresh # {} => /\ sent'[c] = Top(fresh) /\ Top(fresh) \in fresh
                       /\ \A t \in fresh : t <= Top(fresh)
  <2>1. fresh \in SUBSET (1..Len(log))
    BY <1>3 DEF Seqs
  <2>2. fresh # {} => Top(fresh) \in fresh /\ \A t \in fresh : t <= Top(fresh)
    BY <1>1, <2>1, TopIsHighest
  <2>3. sent'[c] = SentAfter(c, fresh)
    BY <1>1 DEF TypeOK
  <2>4. QED
    BY <2>2, <2>3 DEF SentAfter
<1>6. \A s \in fresh : s > sent[c]
  OBVIOUS
<1>7. \A s \in first : s > sent[c] => s \in fresh
  OBVIOUS
<1> HIDE DEF first, fresh
<1>8. WireInv' /\ SentInv'
  BY <1>1, <1>3, <1>4, SendKeepsTrack
<1>9. NothingSkipped'
  BY <1>1 DEF IInv, NothingSkipped, Meant, Mine, Takes
<1>10. OwedInv'
  <2> SUFFICES ASSUME NEW x \in Conns, phase[x] = "live", NEW s \in Seqs, s > sent'[x], Meant(owner[x], s)
               PROVE  \/ \E y \in Conns : s \in unpublished[y]
                      \/ \E i \in 1..Len(rx'[x]) : s \in rx'[x][i]
    BY <1>1 DEF OwedInv, Meant, Mine, Takes, Seqs
  <2>1. CASE x # c
    BY <1>1, <2>1 DEF IInv, OwedInv, TypeOK
  <2>2. CASE x = c
    <3>1. s \in Nat /\ sent[c] \in Nat /\ sent'[c] \in Nat
      BY <1>1 DEF TypeOK, Seqs
    <3>2. s > sent[c] /\ s \notin first
      BY <1>5, <1>6, <1>7, <2>2, <3>1
    <3>3. rx'[c] = Tail(rx[c])
      BY <1>1 DEF TypeOK
    <3>4. CASE \E i \in 1..Len(rx[c]) : s \in rx[c][i]
      <4>1. PICK i \in 1..Len(rx[c]) : s \in rx[c][i]
        BY <3>4
      <4>2. i # 1
        BY <1>2, <3>2, <4>1
      <4>3. i - 1 \in 1..Len(Tail(rx[c])) /\ (i - 1) + 1 = i
        BY <1>1, <1>2, <4>2
      <4>4. Tail(rx[c])[i - 1] = rx[c][i]
        BY <1>2, <4>3
      <4>5. QED
        BY <2>2, <3>3, <4>1, <4>3, <4>4
    <3>5. QED
      BY <2>2, <3>2, <3>4 DEF IInv, OwedInv
  <2>3. QED
    BY <2>1, <2>2
<1>11. OrderInv'
  <2> SUFFICES ASSUME NEW x \in Conns, NEW i \in 1..Len(rx'[x]), NEW t \in rx'[x][i]
               PROVE  /\ \A j \in 1..Len(rx'[x]) : \A s \in rx'[x][j] : i < j /\ s < t => s \in overtaken'
                      /\ \A y \in Conns : \A s \in unpublished'[y] : s < t => s \in overtaken'
    BY DEF OrderInv
  <2>1. CASE x # c
    BY <1>1, <2>1 DEF IInv, OrderInv, TypeOK
  <2>2. CASE x = c
    <3>1. /\ Len(rx'[c]) = Len(rx[c]) - 1
          /\ \A k \in 1..Len(rx'[c]) : rx'[c][k] = rx[c][k + 1] /\ k + 1 \in 1..Len(rx[c])
      <4>1. rx'[c] = Tail(rx[c])
        BY <1>1 DEF TypeOK
      <4>2. \A k \in 1..(Len(rx[c]) - 1) : k + 1 \in 1..Len(rx[c])
        BY <1>1
      <4>3. QED
        BY <1>2, <4>1, <4>2
    <3>2. t \in rx[c][i + 1] /\ i + 1 \in 1..Len(rx[c])
      BY <2>2, <3>1
    <3>3. ASSUME NEW j \in 1..Len(rx'[c]), NEW s \in rx'[c][j], i < j, s < t
          PROVE  s \in overtaken
      <4>1. s \in rx[c][j + 1] /\ j + 1 \in 1..Len(rx[c]) /\ i + 1 < j + 1
        BY <2>2, <3>1, <3>3
      <4>2. QED
        BY <3>2, <3>3, <4>1 DEF IInv, OrderInv
    <3>4. QED
      BY <1>1, <2>2, <3>2, <3>3 DEF IInv, OrderInv
  <2>3. QED
    BY <2>1, <2>2
<1>12. HeldInv' /\ ConnInv'
  BY <1>1 DEF IInv, HeldInv, ConnInv, TypeOK
<1>13. QED
  BY <1>8, <1>9, <1>10, <1>11, <1>12 DEF IInv

\* A thread that leaves is nobody's link any more and holds nothing.
LEMMA LeaveKeeps ==
  ASSUME IInv, TypeOK', NEW c \in Conns, Leave(c)
  PROVE  IInv'
<1>1. /\ TypeOK /\ unpublished[c] = {} /\ link[owner[c]] # c /\ phase[c] # "none"
      /\ UNCHANGED <<log, owner, unpublished, dialled, link, wire, cursor, applied, overtaken>>
      /\ phase' = [phase EXCEPT ![c] = "gone"]
      /\ rx' = [rx EXCEPT ![c] = << >>] /\ sent' = [sent EXCEPT ![c] = 0]
  BY DEF IInv, Leave, clientVars
<1>2. NothingSkipped' /\ WireInv'
  BY <1>1, QuietKeeps
<1>3. SentInv'
  <2>1. \A d \in Devices : link'[d] # NoConn => link'[d] = link[d] /\ sent'[link[d]] = sent[link[d]]
    BY <1>1 DEF IInv, ConnInv, TypeOK
  <2>2. QED
    BY <1>1, <2>1, QuietSentKeeps
<1>4. OwedInv'
  <2>1. \A d, s : Meant(d, s)' <=> Meant(d, s)
    BY <1>1, MeantKept
  <2>2. \A x \in Conns : phase'[x] = "live" => phase[x] = "live" /\ rx'[x] = rx[x] /\ sent'[x] = sent[x]
    BY <1>1 DEF TypeOK
  <2>3. QED
    BY <1>1, <2>1, <2>2 DEF IInv, OwedInv, Seqs
<1>5. OrderInv'
  <2>1. \A x \in Conns : x # c => rx'[x] = rx[x]
    BY <1>1 DEF TypeOK
  <2>2. Len(rx'[c]) = 0
    BY <1>1 DEF TypeOK
  <2>3. QED
    BY <1>1, <2>1, <2>2 DEF IInv, OrderInv
<1>6. HeldInv'
  <2>1. \A x \in Conns : x # c => phase'[x] = phase[x]
    BY <1>1 DEF TypeOK
  <2>2. QED
    BY <1>1, <2>1 DEF IInv, HeldInv
<1>7. ConnInv'
  <2>1. \A x \in Conns : x # c => phase'[x] = phase[x] /\ sent'[x] = sent[x] /\ rx'[x] = rx[x]
    BY <1>1 DEF TypeOK
  <2>2. phase'[c] = "gone" /\ sent'[c] = 0 /\ rx'[c] = << >>
    BY <1>1 DEF TypeOK
  <2>3. ~ (c > dialled)
    BY <1>1 DEF IInv, ConnInv
  <2>4. QED
    BY <1>1, <2>1, <2>2, <2>3 DEF IInv, ConnInv
<1>8. QED
  BY <1>2, <1>3, <1>4, <1>5, <1>6, <1>7 DEF IInv

\* A push adds numbers above every other, all of them held by the thread that appended them.
LEMMA AppendPushKeeps ==
  ASSUME IInv, TypeOK', NEW c \in Conns, NEW kinds \in Pushes, AppendPush(c, kinds)
  PROVE  IInv'
<1> DEFINE new == (Len(log) + 1)..(Len(log) + Len(kinds))
<1>1. /\ TypeOK /\ phase[c] = "live" /\ unpublished[c] = {} /\ Len(log) \in Nat
      /\ unpublished' = [unpublished EXCEPT ![c] = new]
      /\ UNCHANGED <<phase, owner, sent, rx, dialled, link, wire, cursor, applied, overtaken>>
  BY LenProperties DEF IInv, TypeOK, AppendPush, clientVars
<1>2. /\ Len(kinds) \in Nat /\ Len(log') = Len(log) + Len(kinds)
      /\ \A s \in Seqs : log'[s] = log[s]
      /\ \A s \in new : log'[s].device = owner[c]
  BY <1>1, PushGrowsLog
<1>3. \A s \in Seqs : \A d : Meant(d, s)' <=> Meant(d, s)
  BY <1>2, MeantKept
<1>4. \A s \in Seqs' : s \in Seqs \/ s \in new
  BY <1>1, <1>2 DEF Seqs
<1>5. \A s \in Seqs, t \in new : s < t
  BY <1>1, <1>2 DEF Seqs
<1>6. \A x \in Conns : unpublished'[x] = IF x = c THEN new ELSE unpublished[x]
  BY <1>1 DEF TypeOK
<1> HIDE DEF new
<1>7. \A d, n, s : Reached(d, n, s) => Reached(d, n, s)'
  BY <1>1 DEF Reached
<1>8. NothingSkipped'
  <2>1. \A d \in Devices : \A s \in 1..cursor[d] : s \in Seqs
    BY <1>1 DEF TypeOK, Seqs
  <2>2. QED
    BY <1>1, <1>3, <2>1 DEF IInv, NothingSkipped
<1>9. WireInv'
  <2> SUFFICES ASSUME NEW d \in Devices, NEW i \in 1..Len(wire[d]), NEW t \in wire[d][i],
                      NEW s \in Seqs', s <= t, Meant(d, s)'
               PROVE  Reached(d, i, s)'
    BY <1>1 DEF WireInv
  <2>1. t \in Seqs
    BY <1>1, ElementOfSeq DEF TypeOK, Batches
  <2>2. s \in Seqs
    BY <1>1, <1>2, <2>1 DEF Seqs
  <2>3. QED
    BY <1>3, <1>7, <2>2 DEF IInv, WireInv
<1>10. SentInv'
  <2>1. \A d \in Devices : link[d] # NoConn => \A s \in 1..sent[link[d]] : s \in Seqs
    BY <1>1 DEF TypeOK, Seqs
  <2>2. QED
    BY <1>1, <1>3, <1>7, <2>1 DEF IInv, SentInv
<1>11. OwedInv'
  <2> SUFFICES ASSUME NEW x \in Conns, phase[x] = "live", NEW s \in Seqs', s > sent[x], Meant(owner[x], s)'
               PROVE  \/ \E y \in Conns : s \in unpublished'[y]
                      \/ \E i \in 1..Len(rx[x]) : s \in rx[x][i]
    BY <1>1 DEF OwedInv
  <2>1. CASE s \in new
    BY <1>6, <2>1
  <2>2. CASE s \in Seqs
    <3>1. Meant(owner[x], s)
      BY <1>1, <1>3, <2>2
    <3>2. \/ \E y \in Conns : s \in unpublished[y]
          \/ \E i \in 1..Len(rx[x]) : s \in rx[x][i]
      BY <2>2, <3>1 DEF IInv, OwedInv
    <3>3. QED
      BY <1>1, <1>6, <3>2
  <2>3. QED
    BY <1>4, <2>1, <2>2
<1>12. OrderInv'
  <2> SUFFICES ASSUME NEW x \in Conns, NEW i \in 1..Len(rx[x]), NEW t \in rx[x][i],
                      NEW y \in Conns, NEW s \in unpublished'[y], s < t
               PROVE  s \in overtaken
    BY <1>1 DEF IInv, OrderInv
  <2>1. t \in Seqs
    BY <1>1, ElementOfSeq DEF TypeOK, Batches
  <2>2. s \notin new
    BY <1>5, <2>1 DEF new, Seqs
  <2>3. QED
    BY <1>6, <2>2 DEF IInv, OrderInv
<1>13. HeldInv'
  <2> SUFFICES ASSUME NEW x \in Conns, NEW s \in unpublished'[x]
               PROVE  phase[x] = "live" /\ log'[s].device = owner[x]
    BY <1>1 DEF HeldInv
  <2>1. CASE x = c
    BY <1>1, <1>2, <1>6, <2>1
  <2>2. CASE x # c
    <3>1. s \in unpublished[x] /\ s \in Seqs
      BY <1>1, <1>6, <2>2 DEF TypeOK
    <3>2. QED
      BY <1>2, <3>1 DEF IInv, HeldInv
  <2>3. QED
    BY <2>1, <2>2
<1>14. ConnInv'
  BY <1>1 DEF IInv, ConnInv
<1>15. QED
  BY <1>8, <1>9, <1>10, <1>11, <1>12, <1>13, <1>14 DEF IInv

\* A new session starts from the cursor, and below the cursor nothing was skipped.
LEMMA DialKeeps ==
  ASSUME IInv, TypeOK', NEW d \in Devices, Dial(d)
  PROVE  IInv'
<1>1. PICK c \in Conns : c = dialled + 1
  BY SyncLogAssumption DEF IInv, TypeOK, Dial, Conns
<1>2. /\ TypeOK /\ dialled \in Nat
      /\ dialled' = c /\ link' = [link EXCEPT ![d] = c] /\ owner' = [owner EXCEPT ![c] = d]
      /\ phase' = [phase EXCEPT ![c] = "hello"] /\ sent' = [sent EXCEPT ![c] = cursor[d]]
      /\ UNCHANGED <<log, rx, unpublished, wire, cursor, applied, overtaken>>
  <2>1. TypeOK
    BY DEF IInv
  <2>2. dialled \in Nat
    BY <2>1, SyncLogAssumption DEF TypeOK
  <2>3. QED
    BY <1>1, <2>1, <2>2 DEF Dial
<1>3. phase[c] = "none" /\ unpublished[c] = {}
  BY <1>1, <1>2 DEF IInv, ConnInv, HeldInv
<1>4. \A x \in Conns : x # c => phase'[x] = phase[x] /\ sent'[x] = sent[x] /\ owner'[x] = owner[x]
  BY <1>2 DEF TypeOK
<1>5. phase'[c] = "hello" /\ sent'[c] = cursor[d] /\ owner'[c] = d /\ link'[d] = c
  BY <1>2 DEF TypeOK
<1>6. NothingSkipped' /\ WireInv'
  BY <1>2, QuietKeeps
<1>7. SentInv'
  <2> SUFFICES ASSUME NEW e \in Devices, link'[e] # NoConn, NEW s \in 1..sent'[link'[e]], Meant(e, s)
               PROVE  Reached(e, Len(wire[e]), s)'
    BY <1>2 DEF SentInv, Meant, Mine, Takes
  <2>1. CASE e = d
    BY <1>2, <1>5, <2>1 DEF IInv, NothingSkipped, Reached
  <2>2. CASE e # d
    <3>1. link'[e] = link[e] /\ link[e] # c /\ link[e] \in Conns
      BY <1>1, <1>2, <2>2 DEF IInv, ConnInv, TypeOK
    <3>2. Reached(e, Len(wire[e]), s)
      BY <1>4, <3>1 DEF IInv, SentInv
    <3>3. QED
      BY <1>2, <3>2 DEF Reached
  <2>3. QED
    BY <2>1, <2>2
<1>8. OwedInv'
  <2>1. \A e, s : Meant(e, s)' <=> Meant(e, s)
    BY <1>2, MeantKept
  <2>2. QED
    BY <1>2, <1>4, <1>5, <2>1 DEF IInv, OwedInv, Seqs
<1>9. OrderInv'
  BY <1>2 DEF IInv, OrderInv
<1>10. HeldInv'
  BY <1>2, <1>3, <1>4 DEF IInv, HeldInv
<1>11. ConnInv'
  <2>1. \A e \in Devices : link'[e] # NoConn => owner'[link'[e]] = e /\ link'[e] <= dialled'
    <3> SUFFICES ASSUME NEW e \in Devices, link'[e] # NoConn
                 PROVE  owner'[link'[e]] = e /\ link'[e] <= dialled'
      OBVIOUS
    <3>1. CASE e = d
      BY <1>1, <1>2, <1>5, <3>1
    <3>2. CASE e # d
      <4>1. link'[e] = link[e] /\ link[e] \in Conns /\ link[e] <= dialled /\ owner[link[e]] = e
        BY <1>2, <3>2 DEF IInv, ConnInv, TypeOK
      <4>2. QED
        BY <1>1, <1>2, <1>4, <4>1 DEF Conns
    <3>3. QED
      BY <3>1, <3>2
  <2>2. \A x \in Conns : x > dialled' => phase'[x] = "none"
    BY <1>1, <1>2, <1>4 DEF IInv, ConnInv, Conns
  <2>3. \A x \in Conns : phase'[x] \in {"none", "gone"} => sent'[x] = 0 /\ rx'[x] = << >>
    BY <1>2, <1>4, <1>5 DEF IInv, ConnInv
  <2>4. QED
    BY <2>1, <2>2, <2>3 DEF ConnInv
<1>12. QED
  BY <1>6, <1>7, <1>8, <1>9, <1>10, <1>11 DEF IInv

\* What only the server's variables say is kept by a machine's own steps.
LEMMA ServerSideKept ==
  ASSUME IInv, UNCHANGED <<serverVars, overtaken>>
  PROVE  OwedInv' /\ OrderInv' /\ HeldInv'
<1>1. \A e, s : Meant(e, s)' <=> Meant(e, s)
  BY MeantKept DEF serverVars
<1>2. OwedInv'
  BY <1>1 DEF IInv, OwedInv, serverVars, Seqs
<1>3. OrderInv' /\ HeldInv'
  BY DEF IInv, OrderInv, HeldInv, serverVars
<1>4. QED
  BY <1>2, <1>3

\* A lost connection leaves the front of the queue, which is complete as far as it goes.
LEMMA DropKeeps ==
  ASSUME IInv, TypeOK', NEW d \in Devices, Drop(d)
  PROVE  IInv'
<1>1. PICK kept \in 0..Len(wire[d]) : wire' = [wire EXCEPT ![d] = SubSeq(@, 1, kept)]
  BY DEF Drop
<1>2. /\ TypeOK /\ link' = [link EXCEPT ![d] = NoConn]
      /\ UNCHANGED <<log, phase, owner, sent, rx, unpublished, dialled, cursor, applied, overtaken>>
  BY DEF IInv, Drop, serverVars
<1>3. /\ Len(wire'[d]) = kept /\ kept \in Nat /\ kept <= Len(wire[d]) /\ Len(wire[d]) \in Nat
      /\ \A i \in 1..kept : wire'[d][i] = wire[d][i]
  <2>1. wire[d] \in Seq(Batches) /\ Len(wire[d]) \in Nat /\ kept \in Int
    BY <1>2, LenProperties DEF TypeOK
  <2>2. \A i \in 1..kept : wire[d][i] \in Batches
    BY <2>1, ElementOfSeq
  <2>3. /\ Len(SubSeq(wire[d], 1, kept)) = IF 1 <= kept THEN kept - 1 + 1 ELSE 0
        /\ \A i \in 1..(kept - 1 + 1) : SubSeq(wire[d], 1, kept)[i] = wire[d][1 + i - 1]
    BY <2>1, <2>2, SubSeqProperties
  <2>4. wire'[d] = SubSeq(wire[d], 1, kept)
    BY <1>1, <1>2 DEF TypeOK
  <2>5. QED
    BY <2>1, <2>3, <2>4
<1>4. \A e \in Devices \ {d} : wire'[e] = wire[e]
  BY <1>1
<1>5. \A e, s : Meant(e, s)' <=> Meant(e, s)
  BY <1>2, MeantKept
<1>6. NothingSkipped'
  BY <1>2, <1>5 DEF IInv, NothingSkipped
<1>7. WireInv'
  <2> SUFFICES ASSUME NEW e \in Devices, NEW i \in 1..Len(wire'[e]), NEW t \in wire'[e][i],
                      NEW s \in Seqs, s <= t, Meant(e, s)
               PROVE  Reached(e, i, s)'
    BY <1>2, <1>5 DEF WireInv, Seqs
  <2>1. /\ i \in 1..Len(wire[e]) /\ i \in Nat /\ t \in wire[e][i]
        /\ \A j \in 1..i : wire'[e][j] = wire[e][j]
    <3>1. CASE e = d
      BY <1>3, <3>1
    <3>2. CASE e # d
      <4>1. Len(wire[e]) \in Nat
        BY <1>2, LenProperties DEF TypeOK
      <4>2. QED
        BY <1>4, <3>2, <4>1
    <3>3. QED
      BY <3>1, <3>2
  <2>2. Reached(e, i, s)
    BY <2>1 DEF IInv, WireInv
  <2>3. QED
    BY <1>2, <2>1, <2>2, ReachedKept
<1>8. SentInv'
  <2> SUFFICES ASSUME NEW e \in Devices, link'[e] # NoConn, NEW s \in 1..sent[link'[e]], Meant(e, s)
               PROVE  Reached(e, Len(wire[e]), s)'
    BY <1>2, <1>5 DEF SentInv
  <2>1. e # d /\ link'[e] = link[e]
    BY <1>2 DEF TypeOK
  <2>2. Reached(e, Len(wire[e]), s)
    BY <2>1 DEF IInv, SentInv
  <2>3. QED
    BY <1>2, <1>4, <2>1, <2>2 DEF Reached
<1>9. OwedInv' /\ OrderInv' /\ HeldInv'
  BY <1>2, ServerSideKept DEF serverVars
<1>10. ConnInv'
  BY <1>2 DEF IInv, ConnInv, TypeOK
<1>11. QED
  BY <1>6, <1>7, <1>8, <1>9, <1>10 DEF IInv

\* Applying the first batch moves what it brought from the queue to the merge rules.
LEMMA ApplyKeeps ==
  ASSUME IInv, TypeOK', NEW d \in Devices, Apply(d)
  PROVE  IInv'
<1> DEFINE first == Head(wire[d])
<1>1. /\ TypeOK /\ wire[d] \in Seq(Batches) /\ wire[d] # << >> /\ Len(wire[d]) \in Nat
      /\ wire' = [wire EXCEPT ![d] = Tail(@)]
      /\ applied' = [applied EXCEPT ![d] = @ \cup first]
      /\ cursor' = [cursor EXCEPT ![d] = Ack(d, Top(first))]
      /\ UNCHANGED <<log, phase, owner, sent, rx, unpublished, dialled, link, overtaken>>
  BY LenProperties DEF IInv, TypeOK, Apply, serverVars
<1>2. /\ first = wire[d][1] /\ first \in Batches /\ 1 \in 1..Len(wire[d])
      /\ Len(Tail(wire[d])) = Len(wire[d]) - 1
      /\ \A i \in 1..Len(Tail(wire[d])) : Tail(wire[d])[i] = wire[d][i + 1]
  BY <1>1, HeadTailProperties
<1> HIDE DEF first
<1>3. Top(first) \in first /\ Top(first) \in Seqs
  BY <1>1, <1>2, TopOfBatch
<1>4. /\ wire'[d] = Tail(wire[d]) /\ applied'[d] = applied[d] \cup first
      /\ cursor'[d] = Ack(d, Top(first))
      /\ \A e \in Devices : e # d => wire'[e] = wire[e] /\ applied'[e] = applied[e] /\ cursor'[e] = cursor[e]
  BY <1>1 DEF TypeOK
<1>5. \A e, s : Meant(e, s)' <=> Meant(e, s)
  BY <1>1, MeantKept
<1>6. /\ Len(wire'[d]) \in Nat /\ Len(wire[d]) = Len(wire'[d]) + 1
       /\ \A i \in 1..Len(wire'[d]) : wire'[d][i] = wire[d][i + 1]
  <2>1. wire'[d] = Tail(wire[d]) /\ Len(wire[d]) \in Nat /\ Len(wire[d]) - 1 \in Nat
    BY <1>1, <1>2, <1>4
  <2>2. QED
    BY <1>2, <2>1
<1>7. ASSUME NEW n \in Nat, n <= Len(wire'[d]), NEW s, Reached(d, n + 1, s)
      PROVE  Reached(d, n, s)'
  <2>1. CASE s \in applied[d] \cup overtaken
    BY <1>1, <1>4, <2>1 DEF Reached
  <2>2. CASE s \in wire[d][1]
    BY <1>2, <1>4, <2>2 DEF Reached
  <2>3. ASSUME NEW j \in 2..(n + 1), s \in wire[d][j]
        PROVE  Reached(d, n, s)'
    <3>1. j - 1 \in 1..n /\ j - 1 \in 1..Len(wire'[d]) /\ (j - 1) + 1 = j
      BY <1>7, <1>6
    <3>2. wire'[d][j - 1] = wire[d][j]
      BY <1>6, <3>1
    <3>3. QED
      BY <2>3, <3>1, <3>2 DEF Reached
  <2>4. QED
    BY <1>7, <2>1, <2>2, <2>3 DEF Reached
<1>8. NothingSkipped'
  <2> SUFFICES ASSUME NEW s \in 1..cursor'[d], Meant(d, s)
               PROVE  s \in applied'[d] \cup overtaken
    BY <1>1, <1>4, <1>5 DEF IInv, NothingSkipped
  <2>1. CASE s \in 1..cursor[d]
    BY <1>4, <2>1 DEF IInv, NothingSkipped
  <2>2. CASE s \notin 1..cursor[d]
    <3>1. s <= Top(first) /\ s \in Seqs
      BY <1>1, <1>3, <1>4, <2>2 DEF Ack, TypeOK, Seqs
    <3>2. Reached(d, 1, s)
      BY <1>2, <1>3, <3>1 DEF IInv, WireInv
    <3>3. QED
      BY <1>2, <1>4, <3>2 DEF Reached
  <2>3. QED
    BY <2>1, <2>2
<1>9. WireInv'
  <2> SUFFICES ASSUME NEW e \in Devices, NEW i \in 1..Len(wire'[e]), NEW t \in wire'[e][i],
                      NEW s \in Seqs, s <= t, Meant(e, s)
               PROVE  Reached(e, i, s)'
    BY <1>1, <1>5 DEF WireInv, Seqs
  <2>1. CASE e = d
    <3>1. /\ i \in Nat /\ i <= Len(wire'[d]) /\ i + 1 \in 1..Len(wire[d])
          /\ t \in wire[d][i + 1]
      BY <1>6, <2>1
    <3>2. Reached(d, i + 1, s)
      BY <2>1, <3>1 DEF IInv, WireInv
    <3>3. QED
      BY <1>7, <2>1, <3>1, <3>2
  <2>2. CASE e # d
    <3>1. Reached(e, i, s)
      BY <1>4, <2>2 DEF IInv, WireInv
    <3>2. QED
      BY <1>1, <1>4, <2>2, <3>1 DEF Reached
  <2>3. QED
    BY <2>1, <2>2
<1>10. SentInv'
  <2> SUFFICES ASSUME NEW e \in Devices, link[e] # NoConn, NEW s \in 1..sent[link[e]], Meant(e, s)
               PROVE  Reached(e, Len(wire[e]), s)'
    BY <1>1, <1>5 DEF SentInv
  <2>0. Reached(e, Len(wire[e]), s)
    BY DEF IInv, SentInv
  <2>1. CASE e = d
    <3>1. PICK n \in Nat : n = Len(wire'[d]) /\ n + 1 = Len(wire[d])
      BY <1>6
    <3>2. Reached(d, n + 1, s)
      BY <2>0, <2>1, <3>1
    <3>3. Reached(d, n, s)'
      BY <1>7, <3>1, <3>2
    <3>4. QED
      BY <2>1, <3>1, <3>3
  <2>2. CASE e # d
    BY <1>1, <1>4, <2>0, <2>2 DEF Reached
  <2>3. QED
    BY <2>1, <2>2
<1>11. OwedInv' /\ OrderInv' /\ HeldInv'
  BY <1>1, ServerSideKept DEF serverVars
<1>12. ConnInv'
  BY <1>1 DEF IInv, ConnInv
<1>13. QED
  BY <1>8, <1>9, <1>10, <1>11, <1>12 DEF IInv

\* An app that stops loses its queue and its link with it; what was applied stays applied.
LEMMA QuitKeeps ==
  ASSUME IInv, TypeOK', NEW d \in Devices, Quit(d)
  PROVE  IInv'
<1>1. /\ TypeOK /\ link' = [link EXCEPT ![d] = NoConn] /\ wire' = [wire EXCEPT ![d] = << >>]
      /\ UNCHANGED <<log, phase, owner, sent, rx, unpublished, dialled, cursor, overtaken>>
  BY DEF IInv, Quit, serverVars
<1>2. \A e \in Devices : applied[e] \subseteq applied'[e]
  <2>1. \/ applied' = applied
        \/ applied' = [applied EXCEPT ![d] = @ \cup Head(wire[d])]
    BY DEF Quit
  <2>2. applied \in [Devices -> SUBSET Seqs]
    BY <1>1 DEF TypeOK
  <2>3. QED
    BY <2>1, <2>2
<1>3. /\ Len(wire'[d]) = 0 /\ link'[d] = NoConn
      /\ \A e \in Devices : e # d => wire'[e] = wire[e] /\ link'[e] = link[e]
  BY <1>1 DEF TypeOK
<1>4. \A e, s : Meant(e, s)' <=> Meant(e, s)
  BY <1>1, MeantKept
<1>5. \A e \in Devices : \A n, s : e # d /\ Reached(e, n, s) => Reached(e, n, s)'
  BY <1>1, <1>2, <1>3 DEF Reached
<1>6. NothingSkipped'
  BY <1>1, <1>2, <1>4 DEF IInv, NothingSkipped
<1>7. WireInv'
  BY <1>1, <1>3, <1>4, <1>5 DEF IInv, WireInv, Seqs
<1>8. SentInv'
  BY <1>1, <1>3, <1>4, <1>5 DEF IInv, SentInv
<1>9. OwedInv' /\ OrderInv' /\ HeldInv'
  BY <1>1, ServerSideKept DEF serverVars
<1>10. ConnInv'
  BY <1>1, <1>3 DEF IInv, ConnInv
<1>11. QED
  BY <1>6, <1>7, <1>8, <1>9, <1>10 DEF IInv

\* A crash forgets every thread: nothing is live, held or queued afterwards.
LEMMA CrashKeeps ==
  ASSUME IInv, TypeOK', ServerCrash
  PROVE  IInv'
<1>1. UNCHANGED <<log, owner, dialled, link, wire, cursor, applied, overtaken>>
  BY DEF ServerCrash, clientVars
<1>2. \A c \in Conns : /\ phase'[c] \in {"none", "gone"} /\ sent'[c] = 0 /\ rx'[c] = << >>
                       /\ unpublished'[c] = {} /\ (phase[c] = "none" => phase'[c] = "none")
  BY DEF ServerCrash
<1>3. NothingSkipped' /\ WireInv'
  BY <1>1, QuietKeeps
<1>4. SentInv'
  <2>1. \A d \in Devices : link'[d] # NoConn => sent'[link'[d]] = 0
    BY <1>1, <1>2 DEF IInv, TypeOK
  <2>2. QED
    BY <2>1 DEF SentInv
<1>5. OwedInv' /\ HeldInv' /\ ConnInv'
  BY <1>1, <1>2 DEF IInv, OwedInv, HeldInv, ConnInv
<1>6. OrderInv'
  <2>1. \A c \in Conns : Len(rx'[c]) = 0
    BY <1>2
  <2>2. QED
    BY <2>1 DEF OrderInv
<1>7. QED
  BY <1>3, <1>4, <1>5, <1>6 DEF IInv

LEMMA IInvStep == IInv /\ [Next]_vars => IInv'
<1> SUFFICES ASSUME IInv, [Next]_vars PROVE IInv'
  OBVIOUS
<1>1. TypeOK'
  BY TypeStep DEF IInv
<1>2. ASSUME NEW c \in Conns, Join(c) \/ CatchUp(c) \/ Publish(c) \/ Forward(c) \/ Leave(c)
      PROVE  IInv'
  BY <1>1, <1>2, JoinKeeps, CatchUpKeeps, PublishKeeps, ForwardKeeps, LeaveKeeps
<1>3. ASSUME NEW c \in Conns, NEW kinds \in Pushes, AppendPush(c, kinds)
      PROVE  IInv'
  BY <1>1, <1>3, AppendPushKeeps
<1>4. ASSUME NEW d \in Devices, Dial(d) \/ Drop(d) \/ Apply(d) \/ Quit(d)
      PROVE  IInv'
  BY <1>1, <1>4, DialKeeps, DropKeeps, ApplyKeeps, QuitKeeps
<1>5. ASSUME ServerCrash PROVE IInv'
  BY <1>1, <1>5, CrashKeeps
<1>6. ASSUME UNCHANGED vars PROVE IInv'
  <2>1. UNCHANGED <<log, wire, cursor, applied, link, sent, overtaken>>
    BY <1>6 DEF vars, serverVars, clientVars
  <2>2. NothingSkipped' /\ WireInv'
    BY <2>1, QuietKeeps
  <2>3. \A d \in Devices : link'[d] # NoConn => link'[d] = link[d] /\ sent'[link[d]] = sent[link[d]]
    BY <2>1
  <2>4. SentInv'
    BY <2>1, <2>3, QuietSentKeeps
  <2>5. OwedInv' /\ OrderInv' /\ HeldInv'
    BY <1>6, ServerSideKept DEF vars
  <2>6. ConnInv'
    BY <1>6 DEF IInv, ConnInv, vars, serverVars, clientVars
  <2>7. QED
    BY <1>1, <2>2, <2>4, <2>5, <2>6 DEF IInv
<1>7. QED
  BY <1>2, <1>3, <1>4, <1>5, <1>6 DEF Next

\* At or below its cursor, whatever failed on the way, a machine has had every event meant for it
\* that no higher number was published ahead of: the cursor is a safe place to resume from.
THEOREM NothingIsSkipped == Spec => []NothingSkipped
<1>1. Init => IInv
  BY IInvInit
<1>2. IInv /\ [Next]_vars => IInv'
  BY IInvStep
<1>3. IInv => NothingSkipped
  BY DEF IInv
<1>4. QED
  BY <1>1, <1>2, <1>3, PTL DEF Spec

-----------------------------------------------------------------------------
(* The action property.                                                     *)

\* No step moves a cursor back, although batches of an older connection may be applied after those
\* of a newer one.
THEOREM CursorsAreMonotonic == Spec => CursorsNeverRewind
<1>1. ASSUME TypeOK, [Next]_vars
      PROVE  [\A d \in Devices : cursor'[d] >= cursor[d]]_cursor
  <2>1. \A d \in Devices : cursor[d] \in Nat
    BY <1>1, LenProperties DEF TypeOK
  <2>2. ASSUME NEW d \in Devices, Apply(d)
        PROVE  \A e \in Devices : cursor'[e] >= cursor[e]
    <3>1. Head(wire[d]) \in Batches
      BY <1>1, <2>2, HeadTailProperties DEF Apply, TypeOK
    <3>2. Top(Head(wire[d])) \in Nat
      BY <1>1, <3>1, TopOfBatch DEF Seqs
    <3>3. Ack(d, Top(Head(wire[d]))) >= cursor[d]
      BY <2>1, <3>2 DEF Ack
    <3>4. QED
      BY <1>1, <2>1, <2>2, <3>3 DEF Apply, TypeOK
  <2>3. CASE UNCHANGED cursor
    BY <2>3
  <2>4. QED
    BY <1>1, <2>2, <2>3
       DEF Next, vars, serverVars, clientVars,
           Join, CatchUp, AppendPush, Publish, Forward, Leave, Dial, Drop, Quit, ServerCrash
<1>2. QED
  BY <1>1, TypeInit, TypeStep, PTL DEF Spec, CursorsNeverRewind

-----------------------------------------------------------------------------
(* Who hears what.                                                          *)

\* The event is on a stream this machine may and does take.
May(d, s) == Mine(d, s) /\ Takes(d, s)

\* So is every event it was given, is being sent, or is queued for one of its connections.
ShareInv ==
    /\ \A d \in Devices : \A s \in applied[d] : May(d, s)
    /\ \A d \in Devices : \A i \in 1..Len(wire[d]) : \A s \in wire[d][i] : May(d, s)
    /\ \A c \in Conns : \A i \in 1..Len(rx[c]) : \A s \in rx[c][i] : May(owner[c], s)

LEMMA ShareInit == Init => ShareInv
<1>1. Len(<< >>) = 0
  OBVIOUS
<1>2. QED
  BY <1>1 DEF Init, ShareInv

\* What a thread puts on the wire passed the filter for its own machine.
LEMMA SendKeepsShare ==
  ASSUME TypeOK, ShareInv, NEW c \in Conns, NEW batch \in SUBSET Seqs, Send(c, batch),
         \A s \in batch : May(owner[c], s), UNCHANGED log
  PROVE  \A d \in Devices : \A i \in 1..Len(wire'[d]) : \A s \in wire'[d][i] : May(d, s)'
<1>1. \A d, s : May(d, s)' <=> May(d, s)
  BY DEF May, Mine, Takes
<1>2. CASE wire' = wire
  BY <1>1, <1>2 DEF ShareInv
<1>3. CASE wire' # wire
  <2>1. batch \in Batches /\ owner[c] \in Devices
    BY <1>3 DEF Send, Batches, TypeOK
  <2>2. wire' = [wire EXCEPT ![owner[c]] = Append(@, batch)]
    BY <1>3 DEF Send
  <2>3. wire[owner[c]] \in Seq(Batches) /\ Len(wire[owner[c]]) \in Nat
    BY <2>1, LenProperties DEF TypeOK
  <2>4. /\ Len(Append(wire[owner[c]], batch)) = Len(wire[owner[c]]) + 1
        /\ \A i \in 1..Len(wire[owner[c]]) : Append(wire[owner[c]], batch)[i] = wire[owner[c]][i]
        /\ Append(wire[owner[c]], batch)[Len(wire[owner[c]]) + 1] = batch
    BY <2>1, <2>3, AppendProperties
  <2>5. ASSUME NEW d \in Devices, NEW i \in 1..Len(wire'[d]), NEW s \in wire'[d][i] PROVE May(d, s)
    <3>1. CASE d # owner[c]
      <4>1. wire'[d] = wire[d]
        BY <2>2, <3>1 DEF TypeOK
      <4>2. QED
        BY <2>5, <4>1 DEF ShareInv
    <3>2. CASE d = owner[c]
      <4>1. wire'[d] = Append(wire[owner[c]], batch)
        BY <2>1, <2>2, <3>2 DEF TypeOK
      <4>2. CASE i = Len(wire[owner[c]]) + 1
        BY <2>4, <2>5, <3>2, <4>1, <4>2
      <4>3. CASE i \in 1..Len(wire[owner[c]])
        BY <2>1, <2>4, <2>5, <3>2, <4>1, <4>3 DEF ShareInv
      <4>4. QED
        BY <2>3, <2>4, <2>5, <4>1, <4>2, <4>3
    <3>3. QED
      BY <3>1, <3>2
  <2>6. QED
    BY <1>1, <2>5
<1>4. QED
  BY <1>2, <1>3

LEMMA ShareStep == IInv /\ ShareInv /\ [Next]_vars => ShareInv'
<1> SUFFICES ASSUME IInv, ShareInv, [Next]_vars PROVE ShareInv'
  OBVIOUS
<1> USE DEF IInv
<1>1. CASE UNCHANGED <<log, owner, rx, wire, applied>>
  BY <1>1 DEF ShareInv, May, Mine, Takes
<1>2. ASSUME NEW c \in Conns, CatchUp(c) PROVE ShareInv'
  <2> DEFINE page == FirstPage(Backlog(c))
  <2>1. page \in SUBSET Seqs /\ \A s \in page : May(owner[c], s)
    BY DEF FirstPage, Backlog, May
  <2>2. Send(c, page) /\ UNCHANGED <<log, owner, rx, applied>>
    BY <1>2 DEF CatchUp
  <2> HIDE DEF page
  <2>3. \A d \in Devices : \A i \in 1..Len(wire'[d]) : \A s \in wire'[d][i] : May(d, s)'
    BY <2>1, <2>2, SendKeepsShare
  <2>4. QED
    BY <2>2, <2>3 DEF ShareInv, May, Mine, Takes
<1>3. ASSUME NEW c \in Conns, Forward(c) PROVE ShareInv'
  <2> DEFINE fresh == {s \in Head(rx[c]) : s > sent[c]}
  <2>1. rx[c] \in Seq(Batches) /\ rx[c] # << >>
    BY <1>3 DEF Forward, TypeOK
  <2>2. /\ Head(rx[c]) = rx[c][1] /\ Head(rx[c]) \in Batches /\ 1 \in 1..Len(rx[c])
        /\ Tail(rx[c]) \in Seq(Batches) /\ Len(Tail(rx[c])) = Len(rx[c]) - 1
        /\ \A i \in 1..Len(Tail(rx[c])) : Tail(rx[c])[i] = rx[c][i + 1]
    BY <2>1, HeadTailProperties, LenProperties
  <2>3. fresh \in SUBSET Seqs /\ \A s \in fresh : May(owner[c], s)
    BY <2>2 DEF ShareInv, Batches
  <2>4. /\ Send(c, fresh) /\ UNCHANGED <<log, owner, applied>>
        /\ rx' = [rx EXCEPT ![c] = Tail(@)]
    BY <1>3 DEF Forward
  <2> HIDE DEF fresh
  <2>5. \A d \in Devices : \A i \in 1..Len(wire'[d]) : \A s \in wire'[d][i] : May(d, s)'
    BY <2>3, <2>4, SendKeepsShare
  <2>6. ASSUME NEW x \in Conns, NEW i \in 1..Len(rx'[x]), NEW s \in rx'[x][i] PROVE May(owner[x], s)
    <3>1. CASE x = c
      <4>1. rx'[x] = Tail(rx[c])
        BY <2>4, <3>1 DEF TypeOK
      <4>2. i + 1 \in 1..Len(rx[c]) /\ s \in rx[c][i + 1]
        BY <2>1, <2>2, <2>6, <4>1, LenProperties
      <4>3. QED
        BY <3>1, <4>2 DEF ShareInv
    <3>2. CASE x # c
      BY <2>4, <2>6, <3>2 DEF ShareInv, TypeOK
    <3>3. QED
      BY <3>1, <3>2
  <2>7. QED
    BY <2>4, <2>5, <2>6 DEF ShareInv, May, Mine, Takes
<1>4. ASSUME NEW c \in Conns, Publish(c) PROVE ShareInv'
  <2>1. UNCHANGED <<log, owner, wire, applied>>
    BY <1>4 DEF Publish, clientVars
  <2>2. ASSUME NEW x \in Conns, NEW i \in 1..Len(rx'[x]), NEW s \in rx'[x][i] PROVE May(owner[x], s)
    <3> DEFINE part == Share(owner[x], unpublished[c])
    <3>1. rx[x] \in Seq(Batches) /\ Len(rx[x]) \in Nat
      BY LenProperties DEF TypeOK
    <3>2. \A t \in part : May(owner[x], t)
      BY DEF Share, May
    <3>3. rx'[x] = rx[x] \/ (part # {} /\ rx'[x] = Append(rx[x], part))
      BY <1>4 DEF Publish
    <3>4. part # {} => part \in Batches
      BY DEF TypeOK, Batches, Share
    <3> HIDE DEF part
    <3>5. part # {} => /\ Len(Append(rx[x], part)) = Len(rx[x]) + 1
                       /\ \A j \in 1..Len(rx[x]) : Append(rx[x], part)[j] = rx[x][j]
                       /\ Append(rx[x], part)[Len(rx[x]) + 1] = part
      BY <3>1, <3>4, AppendProperties
    <3>6. CASE rx'[x] = rx[x]
      BY <2>2, <3>6 DEF ShareInv
    <3>7. CASE part # {} /\ rx'[x] = Append(rx[x], part)
      <4>1. CASE i = Len(rx[x]) + 1
        BY <2>2, <3>2, <3>5, <3>7, <4>1
      <4>2. CASE i \in 1..Len(rx[x])
        BY <2>2, <3>5, <3>7, <4>2 DEF ShareInv
      <4>3. QED
        BY <2>2, <3>1, <3>5, <3>7, <4>1, <4>2
    <3>8. QED
      BY <3>3, <3>6, <3>7
  <2>3. QED
    BY <2>1, <2>2 DEF ShareInv, May, Mine, Takes
<1>5. ASSUME NEW c \in Conns, NEW kinds \in Pushes, AppendPush(c, kinds) PROVE ShareInv'
  <2>1. UNCHANGED <<owner, rx, wire, applied>>
    BY <1>5 DEF AppendPush, clientVars
  <2>2. \A s \in Seqs : log'[s] = log[s]
    BY <1>5, PushGrowsLog
  <2>3. \A d : \A s \in Seqs : May(d, s) => May(d, s)'
    BY <2>2 DEF May, Mine, Takes
  <2>4. /\ \A d \in Devices : applied[d] \subseteq Seqs
        /\ \A d \in Devices : \A i \in 1..Len(wire[d]) : wire[d][i] \subseteq Seqs
        /\ \A c1 \in Conns : \A i \in 1..Len(rx[c1]) : rx[c1][i] \subseteq Seqs
    BY ElementOfSeq DEF TypeOK, Batches
  <2>5. \A c1 \in Conns : \A s \in Seqs : May(owner[c1], s) => May(owner[c1], s)'
    BY <2>1, <2>3 DEF May, Mine, Takes
  <2>6. QED
    BY <2>1, <2>3, <2>4, <2>5 DEF ShareInv
<1>6. ASSUME NEW c \in Conns, Leave(c) PROVE ShareInv'
  <2>1. UNCHANGED <<log, owner, wire, applied>> /\ rx' = [rx EXCEPT ![c] = << >>]
    BY <1>6 DEF Leave, clientVars
  <2>2. \A x \in Conns : rx'[x] = rx[x] \/ Len(rx'[x]) = 0
    BY <2>1 DEF TypeOK
  <2>3. QED
    BY <2>1, <2>2 DEF ShareInv, May, Mine, Takes
<1>7. ASSUME NEW d \in Devices, Dial(d) PROVE ShareInv'
  <2>1. /\ UNCHANGED <<log, rx, wire, applied>> /\ owner' = [owner EXCEPT ![dialled + 1] = d]
        /\ dialled + 1 \in Conns
    BY <1>7, SyncLogAssumption DEF Dial, TypeOK, Conns
  <2>2. rx[dialled + 1] = << >>
    BY <2>1, <1>7 DEF ConnInv, TypeOK
  <2>3. \A x \in Conns : x = dialled + 1 \/ owner'[x] = owner[x]
    BY <2>1 DEF TypeOK
  <2>4. \A x \in Conns : Len(rx'[x]) = 0 \/ (owner'[x] = owner[x] /\ rx'[x] = rx[x])
    BY <2>1, <2>2, <2>3
  <2>5. QED
    BY <2>1, <2>4 DEF ShareInv, May, Mine, Takes
<1>8. ASSUME NEW d \in Devices, Drop(d) PROVE ShareInv'
  <2>1. UNCHANGED <<log, owner, rx, applied>>
    BY <1>8 DEF Drop, serverVars
  <2>2. PICK kept \in 0..Len(wire[d]) : wire' = [wire EXCEPT ![d] = SubSeq(@, 1, kept)]
    BY <1>8 DEF Drop
  <2>3. wire[d] \in Seq(Batches) /\ Len(wire[d]) \in Nat
    BY LenProperties DEF TypeOK
  <2>4. /\ Len(SubSeq(wire[d], 1, kept)) = kept
        /\ \A i \in 1..kept : SubSeq(wire[d], 1, kept)[i] = wire[d][i]
    BY <2>2, <2>3, SubSeqProperties
  <2>5. ASSUME NEW e \in Devices, NEW i \in 1..Len(wire'[e]) PROVE wire'[e][i] = wire[e][i] /\ i \in 1..Len(wire[e])
    <3>1. CASE e = d
      BY <2>2, <2>3, <2>4, <2>5, <3>1 DEF TypeOK
    <3>2. CASE e # d
      BY <2>2, <2>5, <3>2 DEF TypeOK
    <3>3. QED
      BY <3>1, <3>2
  <2>6. QED
    BY <2>1, <2>5 DEF ShareInv, May, Mine, Takes
<1>9. ASSUME NEW d \in Devices, Apply(d) \/ Quit(d) PROVE ShareInv'
  <2>1. UNCHANGED <<log, owner, rx>>
    BY <1>9 DEF Apply, Quit, serverVars
  <2>2. wire[d] \in Seq(Batches) /\ Len(wire[d]) \in Nat
    BY LenProperties DEF TypeOK
  <2>3. wire[d] # << >> => /\ Head(wire[d]) = wire[d][1] /\ 1 \in 1..Len(wire[d])
                           /\ Len(Tail(wire[d])) = Len(wire[d]) - 1
                           /\ \A i \in 1..Len(Tail(wire[d])) : Tail(wire[d])[i] = wire[d][i + 1]
    BY <2>2, HeadTailProperties
  <2>4. ASSUME NEW e \in Devices, NEW s \in applied'[e] PROVE May(e, s)
    <3>1. applied'[e] = applied[e] \/ (e = d /\ wire[d] # << >> /\ applied'[e] = applied[e] \cup Head(wire[d]))
      BY <1>9 DEF Apply, Quit, TypeOK
    <3>2. QED
      BY <2>3, <2>4, <3>1 DEF ShareInv
  <2>5. ASSUME NEW e \in Devices, NEW i \in 1..Len(wire'[e]), NEW s \in wire'[e][i] PROVE May(e, s)
    <3>1. CASE e # d
      <4>1. wire'[e] = wire[e]
        BY <1>9, <3>1 DEF Apply, Quit, TypeOK
      <4>2. QED
        BY <2>5, <4>1 DEF ShareInv
    <3>2. CASE e = d /\ Apply(d)
      <4>1. wire'[d] = Tail(wire[d]) /\ wire[d] # << >>
        BY <3>2 DEF Apply, TypeOK
      <4>2. i + 1 \in 1..Len(wire[d]) /\ s \in wire[d][i + 1]
        BY <2>2, <2>3, <2>5, <3>2, <4>1
      <4>3. QED
        BY <3>2, <4>2 DEF ShareInv
    <3>3. CASE e = d /\ Quit(d)
      <4>1. Len(wire'[d]) = 0
        BY <3>3 DEF Quit, TypeOK
      <4>2. QED
        BY <2>5, <3>3, <4>1
    <3>4. QED
      BY <1>9, <3>1, <3>2, <3>3
  <2>6. QED
    BY <2>1, <2>4, <2>5 DEF ShareInv, May, Mine, Takes
<1>10. CASE ServerCrash
  <2>1. UNCHANGED <<log, owner, wire, applied>> /\ \A x \in Conns : Len(rx'[x]) = 0
    BY <1>10 DEF ServerCrash, clientVars
  <2>2. QED
    BY <2>1 DEF ShareInv, May, Mine, Takes
<1>11. ASSUME NEW c \in Conns, Join(c) PROVE ShareInv'
  BY <1>1, <1>11 DEF Join, clientVars
<1>12. CASE UNCHANGED vars
  BY <1>1, <1>12 DEF vars, serverVars, clientVars
<1>13. QED
  BY <1>2, <1>3, <1>4, <1>5, <1>6, <1>7, <1>8, <1>9, <1>10, <1>11, <1>12 DEF Next

\* A personal stream (is_personal) is given to its own user's machines and no other, whether the
\* replay's SQL or the hub's filter let it through, and a memory stream to who asked for it.
THEOREM PersonalStreamsStay == Spec => []PersonalStaysPersonal
<1>1. TypeOK /\ ShareInv => PersonalStaysPersonal
  <2> SUFFICES ASSUME ShareInv, TypeOK PROVE PersonalStaysPersonal
    OBVIOUS
  <2>1. \A d \in Devices : DOMAIN wire[d] = 1..Len(wire[d])
    BY LenProperties DEF TypeOK
  <2>2. QED
    BY <2>1 DEF ShareInv, PersonalStaysPersonal, May
<1>2. IInv => TypeOK
  BY DEF IInv
<1>3. QED
  BY <1>1, <1>2, IInvInit, IInvStep, ShareInit, ShareStep, PTL DEF Spec
==============================================================================
