---------------------------- MODULE SyncLink_proofs ----------------------------
(***************************************************************************)
(* Nothing owed is lost, and every machine agrees: for any machines,       *)
(* preferences, values and bounds, when a machine's clock is past whatever *)
(* it was given or has written (ClocksAgree), and one push takes all that  *)
(* is owed.                                                                *)
(***************************************************************************)
EXTENDS SyncLink, Integers, FiniteSetTheorems, SequenceTheorems, WellFoundedInduction, TLAPS

Settings == Values \cup {Unset}
Stamps == [at : Nat, device : Devices] \cup {NoStamp}
EventT == [key : Keys, value : Settings, at : Nat, device : Devices]
WrittenT == [value : Settings, at : Nat]
EventsT == UNION {[S -> WrittenT] : S \in SUBSET Keys}
PushT == [events : EventsT, owed : SUBSET [key : Keys, at : Nat], state : {"sent", "taken", "refused"}]

TypeInv ==
    /\ log \in Seq(EventT) /\ dropped \subseteq Seqs
    /\ strays \subseteq [device : Devices, events : EventsT]
    /\ value \in [Devices -> [Keys -> Settings]]
    /\ stamp \in [Devices -> [Keys -> Stamps]]
    /\ waiting \in [Devices -> [Keys -> Settings \cup {Nothing}]]
    /\ dirty \in [Devices -> SUBSET Keys] /\ kept \in [Devices -> SUBSET Keys]
    /\ seed \in [Devices -> SUBSET Keys] /\ own \in [Devices -> SUBSET Keys]
    /\ cursor \in [Devices -> 0..Len(log)] /\ head \in [Devices -> Nat]
    /\ link \in [Devices -> {"unpaired", "down", "up"}]
    /\ inflight \in [Devices -> Seq(PushT)]
    /\ undercut \subseteq Keys /\ now \in Nat

\* A write of this machine, wherever it is: in the log, unanswered or left by a dead connection.
OnLog(d, k, a, v) == \E s \in Seqs : log[s].key = k /\ log[s].device = d /\ log[s].at = a /\ log[s].value = v
InPush(p, k, a, v) == k \in DOMAIN p /\ p[k].at = a /\ p[k].value = v
Wrote(d, k, a, v) == OnLog(d, k, a, v) \/ \E p \in OwnPushes(d) : InPush(p, k, a, v)

\* A setting of a machine that has neither been made to differ nor been stamped anew by an offer.
Plain(d, k) == k \notin own[d] \cup undercut
Mine(d, k) == stamp[d][k].device = d

\* Before its first write or merge nothing is known of a key, and before pairing of none.
NothingKnown(d, k) ==
    /\ k \notin dirty[d] /\ waiting[d][k] = Nothing
    /\ \A a, v : ~ Wrote(d, k, a, v)
    /\ link[d] # "unpaired" /\ k \notin own[d] \cup seed[d] => value[d][k] = Unset
Untouched == \A d \in Devices, k \in Keys : stamp[d][k] = NoStamp => NothingKnown(d, k)
Unpaired ==
    \A d \in Devices :
        link[d] = "unpaired" => /\ seed[d] = {} /\ cursor[d] = 0 /\ inflight[d] = << >>
                                /\ \A k \in Keys : stamp[d][k] = NoStamp
\* The books of one machine fit each other.
BooksFit ==
    /\ \A d \in Devices : kept[d] \subseteq own[d]
    /\ \A d \in Devices, k \in Keys :
          /\ k \in dirty[d] => Mine(d, k)
          /\ waiting[d][k] # Nothing => ~ Mine(d, k) /\ k \notin seed[d] \cup kept[d]
\* One stamp, one value; and none of its own writes is past the one it stands by.
OneValue ==
    \A d \in Devices, k \in Keys : \A a, v :
        Plain(d, k) /\ Mine(d, k) /\ Wrote(d, k, a, v) /\ a = stamp[d][k].at => v = value[d][k]
OwnBehind ==
    \A d \in Devices, k \in Keys : \A a, v :
        Plain(d, k) /\ Wrote(d, k, a, v) => ~ Wins([at |-> a, device |-> d], stamp[d][k])
\* What an answer credits is what its push carried, and what the server took is in the log.
PushCredited(d, p) ==
    /\ \A o \in p.owed : o.key \in DOMAIN p.events /\ p.events[o.key].at = o.at
    /\ p.state = "taken" => \A k \in DOMAIN p.events : OnLog(d, k, p.events[k].at, p.events[k].value)
Credited == \A d \in Devices : \A i \in DOMAIN inflight[d] : PushCredited(d, inflight[d][i])

\* What a machine was given does not win against what it stands by, and what it stands by came
\* from a write that won against all that was given before it.
GivenBehind ==
    \A d \in Devices, k \in Keys : Plain(d, k) =>
        \A t \in Present : log[t].key = k /\ t <= cursor[d] => ~ Wins(log[t], stamp[d][k])
SourceOf(d, k) ==
    \E s \in Seqs : /\ log[s].key = k /\ log[s].at = stamp[d][k].at /\ log[s].device = stamp[d][k].device
                    /\ log[s].value = Chosen(d, k)
                    /\ \A t \in Present : log[t].key = k /\ t < s => Wins(log[s], log[t])
Sourced == \A d \in Devices, k \in Keys : Plain(d, k) /\ stamp[d][k] # NoStamp /\ ~ Mine(d, k) => SourceOf(d, k)

IInv == TypeInv /\ Untouched /\ Unpaired /\ BooksFit /\ OneValue /\ OwnBehind /\ Credited
        /\ GivenBehind /\ Sourced /\ OwedUntilTaken

\* What the theorems assume of the constants, besides SyncLinkAssumption.
OnePush == ClocksAgree /\ IsFiniteSet(Keys) /\ Cardinality(Keys) <= Chunk

-----------------------------------------------------------------------------
(* Pushes and the log.                                                      *)

LEMMA EventsAre ==
    ASSUME NEW p \in EventsT
    PROVE  /\ DOMAIN p \subseteq Keys
           /\ \A k \in DOMAIN p : p[k].value \in Settings /\ p[k].at \in Nat
BY SMT DEF EventsT, WrittenT

LEMMA EventsMade ==
    ASSUME NEW S \in SUBSET Keys, NEW val \in [Keys -> Settings], NEW st \in [Keys -> Stamps]
    PROVE  [k \in S |-> [value |-> val[k], at |-> st[k].at]] \in EventsT
<1>1. \A k \in S : st[k].at \in Nat /\ val[k] \in Settings
  BY SMT DEF Stamps, NoStamp
<1>2. [k \in S |-> [value |-> val[k], at |-> st[k].at]] \in [S -> WrittenT]
  BY <1>1, SMT DEF WrittenT
<1> QED
  BY <1>2 DEF EventsT

\* A full push is one push.
LEMMA OneCut ==
    ASSUME OnePush, NEW S \in SUBSET Keys, NEW cut \in Cuts(S)
    PROVE  \/ S = {} /\ DOMAIN cut = {}
           \/ S # {} /\ DOMAIN cut = 1..1 /\ cut[1] = S
<1> DEFINE c == Cardinality(S)
           n == (c + Chunk - 1) \div Chunk
<1>0. Chunk \in Nat \ {0}
  BY SyncLinkAssumption
<1>1. IsFiniteSet(S) /\ c \in Nat /\ c <= Chunk /\ (c = 0 <=> S = {})
  <2>1. IsFiniteSet(S) /\ c <= Cardinality(Keys)
    BY FS_Subset DEF OnePush
  <2>2. c \in Nat /\ Cardinality(Keys) \in Nat /\ (c = 0 <=> S = {})
    BY <2>1, FS_CardinalityType, FS_EmptySet DEF OnePush
  <2> HIDE DEF c
  <2> QED
    BY <2>1, <2>2, <1>0, SMT DEF OnePush
<1>3. cut \in [1..n -> SUBSET S] /\ UNION {cut[i] : i \in 1..n} = S
  BY DEF Cuts
<1> HIDE DEF c
<1>4. c = 0 => n = 0
  BY <1>0, SMT
<1>5. c # 0 => n = 1
  BY <1>0, <1>1, SMT
<1> HIDE DEF n
<1>6. CASE c = 0
  BY <1>1, <1>3, <1>4, <1>6
<1>7. CASE c # 0
  <2>1. 1..n = {1}
    BY <1>5, <1>7, SMT
  <2>2. cut[1] = S
    BY <1>3, <2>1
  <2> QED
    BY <1>1, <1>3, <1>7, <1>5, <2>2
<1> QED
  BY <1>6, <1>7

\* What is flushed is one more push of everything owed, or nothing.
FullPush(S, val, st) ==
    [events |-> [k \in S |-> [value |-> val[k], at |-> st[k].at]],
     owed   |-> {[key |-> k, at |-> st[k].at] : k \in S},
     state  |-> "sent"]

LEMMA FlushIsOnePush ==
    ASSUME OnePush, NEW S \in SUBSET Keys, NEW val \in [Keys -> Settings], NEW st \in [Keys -> Stamps],
           NEW before \in Seq(PushT), NEW pushes \in Flushes(before, S, val, st)
    PROVE  /\ pushes \in Seq(PushT) /\ FullPush(S, val, st) \in PushT
           /\ \/ S = {} /\ pushes = before
              \/ S # {} /\ pushes = Append(before, FullPush(S, val, st))
<1> DEFINE full == FullPush(S, val, st)
<1>1. PICK cut \in Cuts(S) : pushes = before \o PushesOf(cut, S, val, st)
  BY DEF Flushes
<1>2. full \in PushT
  <2>1. full.events \in EventsT
    BY EventsMade DEF FullPush
  <2>2. \A k \in S : st[k].at \in Nat
    BY SMT DEF Stamps, NoStamp
  <2>3. full.owed \in SUBSET [key : Keys, at : Nat]
    BY <2>2, SMT DEF FullPush
  <2> QED
    BY <2>1, <2>3 DEF FullPush, PushT
<1>3. CASE S = {} /\ DOMAIN cut = {}
  <2>1. PushesOf(cut, S, val, st) = << >>
    BY <1>3 DEF PushesOf
  <2> QED
    BY <1>1, <1>2, <1>3, <2>1, ConcatEmptySeq
<1>4. CASE S # {} /\ DOMAIN cut = 1..1 /\ cut[1] = S
  <2>1. PushesOf(cut, S, val, st) = [i \in 1..1 |-> full]
    <3>1. PushesOf(cut, S, val, st) = [i \in 1..1 |->
            [events |-> [k \in cut[i] |-> [value |-> val[k], at |-> st[k].at]],
             owed   |-> Credit(i, S, st), state  |-> "sent"]]
      BY <1>4 DEF PushesOf
    <3>2. \A i \in 1..1 : i = 1
      BY SMT
    <3>3. Credit(1, S, st) = {[key |-> k, at |-> st[k].at] : k \in S}
      BY DEF Credit
    <3> QED
      BY <3>1, <3>2, <3>3, <1>4 DEF FullPush
  <2>2. [i \in 1..1 |-> full] = << full >>
    BY SMT
  <2>3. pushes = Append(before, full)
    BY <1>1, <1>2, <2>1, <2>2, AppendIsConcat
  <2> QED
    BY <1>2, <1>4, <2>3, AppendProperties
<1> QED
  BY <1>3, <1>4, OneCut

\* What one push adds to the log.
LEMMA AppendedIs ==
    ASSUME TypeInv, OnePush, NEW d \in Devices, NEW p \in EventsT, Appended(d, p)
    PROVE  /\ log' \in Seq(EventT) /\ Len(log) \in Nat /\ Len(log') \in Nat /\ Len(log) <= Len(log')
           /\ \A s \in Seqs : log'[s] = log[s]
           /\ \A s \in Seqs' \ Seqs : log'[s].device = d /\ InPush(p, log'[s].key, log'[s].at, log'[s].value)
           /\ \A k \in DOMAIN p : OnLog(d, k, p[k].at, p[k].value)'
<1> DEFINE ks == DOMAIN p
           n == Cardinality(ks)
<1>1. ks \subseteq Keys /\ \A k \in ks : p[k].value \in Settings /\ p[k].at \in Nat
  BY EventsAre
<1>2. n \in Nat
  BY <1>1, FS_Subset, FS_CardinalityType DEF OnePush
<1>3. PICK order \in [1..n -> ks] :
          /\ {order[i] : i \in DOMAIN order} = ks
          /\ log' = log \o [i \in DOMAIN order |->
                    [key |-> order[i], value |-> p[order[i]].value, at |-> p[order[i]].at, device |-> d]]
  BY DEF Appended
<1> HIDE DEF n, ks
<1> DEFINE new == [i \in 1..n |-> [key |-> order[i], value |-> p[order[i]].value, at |-> p[order[i]].at, device |-> d]]
<1>4. DOMAIN order = 1..n /\ \A i \in 1..n : order[i] \in ks
  BY <1>3
<1>5. log' = log \o new
  BY <1>3, <1>4
<1>6. \A i \in 1..n : new[i] \in EventT
  BY <1>1, <1>4, SMT DEF EventT
<1>7. new \in Seq(EventT) /\ Len(new) = n
  BY <1>2, <1>6, SMT
<1>8. \A i \in 1..n : new[i].key = order[i] /\ new[i].value = p[order[i]].value /\ new[i].at = p[order[i]].at /\ new[i].device = d
  OBVIOUS
<1> HIDE DEF new
<1>9. log \in Seq(EventT) /\ Len(log) \in Nat
  BY LenProperties DEF TypeInv
<1>10. /\ log' \in Seq(EventT) /\ Len(log') = Len(log) + n
       /\ \A i \in 1..(Len(log) + n) : log'[i] = IF i <= Len(log) THEN log[i] ELSE new[i - Len(log)]
  BY <1>5, <1>7, <1>9, ConcatProperties
<1>11. \A s \in Seqs : log'[s] = log[s]
  BY <1>2, <1>9, <1>10, SMT DEF Seqs
<1>12. \A s \in Seqs' \ Seqs : log'[s].device = d /\ InPush(p, log'[s].key, log'[s].at, log'[s].value)
  <2> TAKE s \in Seqs' \ Seqs
  <2>1. s - Len(log) \in 1..n /\ log'[s] = new[s - Len(log)]
    BY <1>2, <1>9, <1>10, SMT DEF Seqs
  <2>2. order[s - Len(log)] \in DOMAIN p
    BY <2>1, <1>4 DEF ks
  <2> QED
    BY <2>1, <2>2, <1>8 DEF InPush
<1>13. \A k \in DOMAIN p : OnLog(d, k, p[k].at, p[k].value)'
  <2> TAKE k \in DOMAIN p
  <2>1. PICK i \in 1..n : order[i] = k
    BY <1>3, <1>4 DEF ks
  <2>2. Len(log) + i \in 1..(Len(log) + n) /\ ~ (Len(log) + i <= Len(log)) /\ Len(log) + i - Len(log) = i
    BY <1>2, <2>1, SMT
  <2>3. Len(log) + i \in Seqs' /\ log'[Len(log) + i] = new[i]
    BY <1>9, <1>10, <2>2 DEF Seqs
  <2> QED
    BY <2>1, <2>3, <1>8 DEF OnLog
<1>14. Len(log') \in Nat /\ Len(log) <= Len(log')
  BY <1>2, <1>9, <1>10, SMT
<1> QED
  BY <1>9, <1>10, <1>11, <1>12, <1>13, <1>14

-----------------------------------------------------------------------------
(* How the writes of a machine move.                                        *)

LogGrows ==
    /\ log' \in Seq(EventT) /\ Len(log) \in Nat /\ Len(log') \in Nat /\ Len(log) <= Len(log')
    /\ \A s \in Seqs : s \in Seqs' /\ log'[s] = log[s]

\* The push a machine would make now, and what of a key it would carry.
CurrentPush(d) == [k \in dirty[d] |-> [value |-> value[d][k], at |-> stamp[d][k].at]]
Current(d, k, a, v) == k \in dirty[d] /\ a = stamp[d][k].at /\ v = value[d][k]

\* No step invents a write: it was there, or it is what is owed.
WritesStay ==
    \A d \in Devices, k \in Keys : \A a, v :
        Wrote(d, k, a, v)' => Wrote(d, k, a, v) \/ Current(d, k, a, v)'

PushesStay == \A d \in Devices : \A p \in OwnPushes(d)' : p \in OwnPushes(d) \/ p = CurrentPush(d)'

LEMMA LogStill ==
    ASSUME TypeInv, log' = log
    PROVE  LogGrows
<1>1. Len(log) \in Nat /\ log \in Seq(EventT)
  BY LenProperties DEF TypeInv
<1> QED
  BY <1>1, SMT DEF LogGrows, Seqs

LEMMA OnLogStays ==
    ASSUME LogGrows, NEW d, NEW k, NEW a, NEW v, OnLog(d, k, a, v)
    PROVE  OnLog(d, k, a, v)'
BY DEF LogGrows, OnLog

LEMMA StillWrites ==
    ASSUME TypeInv, log' = log, PushesStay
    PROVE  WritesStay
<1> SUFFICES ASSUME NEW d \in Devices, NEW k \in Keys, NEW a, NEW v, Wrote(d, k, a, v)'
             PROVE  Wrote(d, k, a, v) \/ Current(d, k, a, v)'
  BY DEF WritesStay
<1>1. CASE OnLog(d, k, a, v)'
  BY <1>1 DEF OnLog, Seqs, Wrote
<1>2. CASE ~ OnLog(d, k, a, v)'
  <2>1. PICK p \in OwnPushes(d)' : InPush(p, k, a, v)
    BY <1>2 DEF Wrote, InPush
  <2>2. CASE p \in OwnPushes(d)
    BY <2>1, <2>2 DEF Wrote
  <2>3. CASE p = CurrentPush(d)'
    BY <2>1, <2>3 DEF InPush, CurrentPush, Current
  <2> QED
    BY <2>1, <2>2, <2>3 DEF PushesStay
<1> QED
  BY <1>1, <1>2

LEMMA AppendedWrites ==
    ASSUME TypeInv, OnePush, NEW e \in Devices, NEW q \in EventsT, q \in OwnPushes(e), Appended(e, q), PushesStay
    PROVE  LogGrows /\ WritesStay
<1>1. /\ log' \in Seq(EventT) /\ Len(log) \in Nat /\ Len(log') \in Nat /\ Len(log) <= Len(log')
      /\ \A s \in Seqs : log'[s] = log[s]
      /\ \A s \in Seqs' \ Seqs : log'[s].device = e /\ InPush(q, log'[s].key, log'[s].at, log'[s].value)
  BY AppendedIs
<1>2. Seqs \subseteq Seqs'
  BY <1>1, SMT DEF Seqs
<1>3. LogGrows
  BY <1>1, <1>2 DEF LogGrows
<1>4. ASSUME NEW d \in Devices, NEW k \in Keys, NEW a, NEW v, Wrote(d, k, a, v)'
      PROVE  Wrote(d, k, a, v) \/ Current(d, k, a, v)'
  <2>1. CASE OnLog(d, k, a, v)'
    <3>1. PICK s \in Seqs' : log'[s].key = k /\ log'[s].device = d /\ log'[s].at = a /\ log'[s].value = v
      BY <2>1 DEF OnLog
    <3>2. CASE s \in Seqs
      BY <3>1, <3>2, <1>1 DEF OnLog, Wrote
    <3>3. CASE s \notin Seqs
      <4>1. d = e /\ InPush(q, k, a, v)
        BY <3>1, <3>3, <1>1
      <4> QED
        BY <4>1 DEF Wrote
    <3> QED
      BY <3>2, <3>3
  <2>2. CASE ~ OnLog(d, k, a, v)'
    <3>1. PICK p \in OwnPushes(d)' : InPush(p, k, a, v)
      BY <2>2, <1>4 DEF Wrote, InPush
    <3>2. CASE p \in OwnPushes(d)
      BY <3>1, <3>2 DEF Wrote
    <3>3. CASE p = CurrentPush(d)'
      BY <3>1, <3>3 DEF InPush, CurrentPush, Current
    <3> QED
      BY <3>1, <3>2, <3>3 DEF PushesStay
  <2> QED
    BY <2>1, <2>2
<1> QED
  BY <1>3, <1>4 DEF WritesStay

\* A push that is taken or refused stays what it was.
Marks(d, i, st) ==
    /\ inflight' \in [Devices -> Seq(PushT)]
    /\ \A e \in Devices : DOMAIN inflight'[e] = DOMAIN inflight[e]
    /\ \A e \in Devices : \A j \in DOMAIN inflight[e] :
          /\ inflight'[e][j].events = inflight[e][j].events /\ inflight'[e][j].owed = inflight[e][j].owed
          /\ inflight'[e][j].state = IF e = d /\ j = i THEN st ELSE inflight[e][j].state

LEMMA MarkedIs ==
    ASSUME TypeInv, NEW d \in Devices, NEW i \in DOMAIN inflight[d], NEW st \in {"taken", "refused"},
           inflight' = [inflight EXCEPT ![d][i].state = st]
    PROVE  Marks(d, i, st)
<1>1. inflight \in [Devices -> Seq(PushT)] /\ inflight[d] \in Seq(PushT)
  BY DEF TypeInv
<1>2. DOMAIN inflight[d] = 1..Len(inflight[d]) /\ inflight[d][i] \in PushT
  BY <1>1, LenProperties
<1> DEFINE q == [inflight[d][i] EXCEPT !.state = st]
<1>3. q \in PushT /\ q.events = inflight[d][i].events /\ q.owed = inflight[d][i].owed /\ q.state = st
  BY <1>2, SMT DEF PushT
<1>4. inflight' = [inflight EXCEPT ![d] = [inflight[d] EXCEPT ![i] = q]]
  BY <1>1
<1> HIDE DEF q
<1>5. /\ [inflight[d] EXCEPT ![i] = q] \in Seq(PushT)
      /\ DOMAIN [inflight[d] EXCEPT ![i] = q] = DOMAIN inflight[d]
      /\ \A j \in DOMAIN inflight[d] : [inflight[d] EXCEPT ![i] = q][j] = IF j = i THEN q ELSE inflight[d][j]
  BY <1>1, <1>2, <1>3, ExceptSeq
<1> QED
  BY <1>1, <1>3, <1>4, <1>5 DEF Marks

\* Something of a machine's own to push, put behind what already waits or in its place.
LEMMA PushedIs ==
    ASSUME IInv, OnePush, NEW d \in Devices, NEW before \in {<< >>, inflight[d]},
           dirty'[d] \in SUBSET Keys, value'[d] \in [Keys -> Settings], stamp'[d] \in [Keys -> Stamps],
           NEW pushes \in Flushes(before, dirty'[d], value'[d], stamp'[d])
    PROVE  /\ pushes \in Seq(PushT)
           /\ \A i \in DOMAIN pushes : pushes[i].events = CurrentPush(d)' \/ (i \in DOMAIN before /\ pushes[i] = before[i])
           /\ \A i \in DOMAIN pushes : LogGrows => PushCredited(d, pushes[i])'
<1>0. PICK S \in SUBSET Keys, val \in [Keys -> Settings], st \in [Keys -> Stamps] :
          S = dirty'[d] /\ val = value'[d] /\ st = stamp'[d]
  OBVIOUS
<1> DEFINE full == FullPush(S, val, st)
<1>1. before \in Seq(PushT)
  <2>1. << >> \in Seq(PushT)
    BY EmptySeq
  <2>2. inflight[d] \in Seq(PushT)
    BY DEF IInv, TypeInv
  <2> QED
    BY <2>1, <2>2
<1>2. /\ pushes \in Seq(PushT) /\ full \in PushT
      /\ pushes = before \/ pushes = Append(before, full)
  <2>1. pushes \in Flushes(before, S, val, st)
    BY <1>0
  <2> HIDE DEF full
  <2>2. /\ pushes \in Seq(PushT) /\ FullPush(S, val, st) \in PushT
        /\ \/ S = {} /\ pushes = before
           \/ S # {} /\ pushes = Append(before, FullPush(S, val, st))
    BY <1>1, <2>1, FlushIsOnePush
  <2> QED
    BY <2>2 DEF full
<1>3. \A i \in DOMAIN pushes : (i \in DOMAIN before /\ pushes[i] = before[i]) \/ pushes[i] = full
  <2>1. CASE pushes = before
    BY <2>1
  <2>2. CASE pushes = Append(before, full)
    <3>1. DOMAIN before = 1..Len(before) /\ Len(before) \in Nat
      BY <1>1, LenProperties
    <3> HIDE DEF full
    <3>2. /\ DOMAIN pushes = 1..(Len(before) + 1) /\ pushes[Len(before) + 1] = full
          /\ \A i \in 1..Len(before) : pushes[i] = before[i]
      BY <1>1, <1>2, <2>2, AppendProperties, LenProperties
    <3>3. \A i \in 1..(Len(before) + 1) : i \in 1..Len(before) \/ i = Len(before) + 1
      BY <3>1, SMT
    <3> QED
      BY <3>1, <3>2, <3>3
  <2> QED
    BY <1>2, <2>1, <2>2
<1>4. full.events = CurrentPush(d)'
  BY <1>0 DEF FullPush, CurrentPush
<1>5. PushCredited(d, full)'
  BY DEF FullPush, PushCredited
<1> HIDE DEF full
<1>6. ASSUME NEW i \in DOMAIN before, LogGrows PROVE PushCredited(d, before[i])'
  <2>1. before = inflight[d]
    BY <1>6
  <2>2. PushCredited(d, before[i])
    BY <1>6, <2>1 DEF IInv, Credited
  <2> QED
    BY <1>6, <2>2, OnLogStays DEF PushCredited
<1>7. \A i \in DOMAIN pushes : pushes[i].events = CurrentPush(d)' \/ (i \in DOMAIN before /\ pushes[i] = before[i])
  BY <1>3, <1>4
<1>8. \A i \in DOMAIN pushes : LogGrows => PushCredited(d, pushes[i])'
  BY <1>3, <1>5, <1>6
<1> QED
  BY <1>2, <1>7, <1>8

PairedStay ==
    \A e \in Devices : (link'[e] = "unpaired" <=> link[e] = "unpaired") /\ (link[e] = "unpaired" => inflight'[e] = inflight[e])

\* Books, cursors and choices as they were, while the log, the pushes and the connections move.
LEMMA StillBooks ==
    ASSUME IInv, TypeInv', UNCHANGED <<value, stamp, waiting, kept, seed, own, undercut, cursor>>,
           LogGrows, WritesStay, dropped \subseteq dropped', \A d \in Devices : dirty'[d] \subseteq dirty[d],
           PairedStay
    PROVE  /\ Untouched' /\ Unpaired' /\ BooksFit' /\ OneValue' /\ OwnBehind' /\ GivenBehind' /\ Sourced'
           /\ dirty' = dirty => OwedUntilTaken'
<1>1. Untouched'
  <2> SUFFICES ASSUME NEW d \in Devices, NEW k \in Keys, stamp[d][k] = NoStamp
               PROVE  NothingKnown(d, k)'
    BY DEF Untouched
  <2>0. NothingKnown(d, k)
    BY DEF IInv, Untouched
  <2>1. k \notin dirty'[d] /\ waiting[d][k] = Nothing
    BY <2>0 DEF NothingKnown
  <2>2. ASSUME NEW a, NEW v PROVE ~ Wrote(d, k, a, v)'
    <3>1. ~ Wrote(d, k, a, v)
      BY <2>0 DEF NothingKnown
    <3>2. ~ Current(d, k, a, v)'
      BY <2>1 DEF Current
    <3> QED
      BY <3>1, <3>2 DEF WritesStay
  <2>3. link'[d] # "unpaired" /\ k \notin own[d] \cup seed[d] => value[d][k] = Unset
    <3>1. link'[d] # "unpaired" => link[d] # "unpaired"
      BY DEF PairedStay
    <3> QED
      BY <2>0, <3>1 DEF NothingKnown
  <2> QED
    BY <2>1, <2>2, <2>3 DEF NothingKnown
<1>2. Unpaired'
  BY DEF IInv, Unpaired, PairedStay
<1>3. BooksFit'
  BY DEF IInv, BooksFit, Mine
<1>4. OneValue'
  <2> SUFFICES ASSUME NEW d \in Devices, NEW k \in Keys, NEW a, NEW v,
                      Plain(d, k)', Mine(d, k)', Wrote(d, k, a, v)', a = stamp[d][k].at
               PROVE  v = value[d][k]
    BY DEF OneValue
  <2>1. CASE Wrote(d, k, a, v)
    BY <2>1 DEF IInv, OneValue, Plain, Mine
  <2>2. CASE Current(d, k, a, v)'
    BY <2>2 DEF Current
  <2> QED
    BY <2>1, <2>2 DEF WritesStay
<1>5. OwnBehind'
  <2> SUFFICES ASSUME NEW d \in Devices, NEW k \in Keys, NEW a, NEW v, Plain(d, k)', Wrote(d, k, a, v)'
               PROVE  ~ Wins([at |-> a, device |-> d], stamp[d][k])'
    BY DEF OwnBehind
  <2>1. CASE Wrote(d, k, a, v)
    BY <2>1 DEF IInv, OwnBehind, Plain, Wins
  <2>2. CASE Current(d, k, a, v)'
    <3>1. a = stamp[d][k].at /\ stamp[d][k].device = d
      BY <2>2 DEF IInv, BooksFit, Mine, Current
    <3>2. stamp[d][k] \in Stamps
      BY DEF IInv, TypeInv
    <3> QED
      BY <3>1, <3>2, SyncLinkAssumption, SMT DEF Wins, Stamps, NoStamp
  <2> QED
    BY <2>1, <2>2 DEF WritesStay
<1>6. ASSUME NEW t \in Present', t \in Seqs PROVE t \in Present /\ log'[t] = log[t]
  BY <1>6 DEF Present, LogGrows
<1>7. GivenBehind'
  <2> SUFFICES ASSUME NEW d \in Devices, NEW k \in Keys, Plain(d, k)', NEW t \in Present', log'[t].key = k, t <= cursor[d]
               PROVE  ~ Wins(log'[t], stamp[d][k])
    BY DEF GivenBehind
  <2>1. t \in Seqs
    BY SMT DEF IInv, TypeInv, Present, Seqs, LogGrows
  <2> QED
    BY <2>1, <1>6 DEF IInv, GivenBehind, Plain
<1>8. Sourced'
  <2> SUFFICES ASSUME NEW d \in Devices, NEW k \in Keys, Plain(d, k)', stamp[d][k] # NoStamp, ~ Mine(d, k)'
               PROVE  SourceOf(d, k)'
    BY DEF Sourced
  <2>1. PICK s \in Seqs : /\ log[s].key = k /\ log[s].at = stamp[d][k].at /\ log[s].device = stamp[d][k].device
                          /\ log[s].value = Chosen(d, k)
                          /\ \A t \in Present : log[t].key = k /\ t < s => Wins(log[s], log[t])
    BY DEF IInv, Sourced, SourceOf, Plain, Mine
  <2>2. s \in Seqs' /\ log'[s] = log[s] /\ Chosen(d, k)' = Chosen(d, k)
    BY DEF LogGrows, Chosen
  <2>3. \A t \in Present' : t < s => t \in Seqs
    BY SMT DEF Present, Seqs, LogGrows
  <2> QED
    BY <2>1, <2>2, <2>3, <1>6 DEF SourceOf
<1>9. ASSUME dirty' = dirty PROVE OwedUntilTaken'
  BY <1>9 DEF IInv, OwedUntilTaken, OnServer, LogGrows
<1> QED
  BY <1>1, <1>2, <1>3, <1>4, <1>5, <1>7, <1>8, <1>9

-----------------------------------------------------------------------------
(* One step at a time: the pushes, the server, the connection.              *)

\* One machine's pushes are replaced by some of its own, or by what it would push now.
LEMMA PushesReplaced ==
    ASSUME IInv, NEW d \in Devices, NEW pushes \in Seq(PushT), inflight' = [inflight EXCEPT ![d] = pushes],
           \A i \in DOMAIN pushes : pushes[i].events = CurrentPush(d)' \/ pushes[i].events \in OwnPushes(d),
           \A x \in strays' : x \in strays \/ x.events \in OwnPushes(x.device)
    PROVE  /\ inflight' \in [Devices -> Seq(PushT)] /\ inflight'[d] = pushes
           /\ PushesStay
<1>1. inflight \in [Devices -> Seq(PushT)]
  BY DEF IInv, TypeInv
<1>2. inflight' \in [Devices -> Seq(PushT)] /\ inflight'[d] = pushes /\ \A e \in Devices \ {d} : inflight'[e] = inflight[e]
  BY <1>1
<1>3. ASSUME NEW e \in Devices, NEW p \in OwnPushes(e)' PROVE p \in OwnPushes(e) \/ p = CurrentPush(e)'
  <2>1. CASE \E i \in DOMAIN inflight'[e] : p = inflight'[e][i].events
    <3>1. CASE e = d
      BY <2>1, <3>1, <1>2
    <3>2. CASE e # d
      BY <2>1, <3>2, <1>2 DEF OwnPushes
    <3> QED
      BY <3>1, <3>2
  <2>2. CASE \E x \in strays' : x.device = e /\ p = x.events
    BY <2>2 DEF OwnPushes
  <2> QED
    BY <1>3, <2>1, <2>2 DEF OwnPushes
<1>4. PushesStay
  BY <1>3 DEF PushesStay
<1> QED
  BY <1>2, <1>4

LEMMA CreditedReplaced ==
    ASSUME IInv, LogGrows, NEW d \in Devices, NEW pushes, inflight' = [inflight EXCEPT ![d] = pushes],
           \A i \in DOMAIN pushes : PushCredited(d, pushes[i])'
    PROVE  Credited'
<1>1. inflight'[d] = pushes /\ DOMAIN inflight = Devices /\ \A e \in Devices \ {d} : inflight'[e] = inflight[e]
  BY DEF IInv, TypeInv
<1> SUFFICES ASSUME NEW e \in Devices, NEW i \in DOMAIN inflight'[e] PROVE PushCredited(e, inflight[e][i])'
  BY DEF Credited
<1>2. CASE e = d
  BY <1>1, <1>2 DEF PushCredited, OnLog, Seqs
<1>3. CASE e # d
  <2>1. inflight'[e] = inflight[e] /\ PushCredited(e, inflight[e][i])
    BY <1>1, <1>3 DEF IInv, Credited
  <2> QED
    BY <2>1, OnLogStays DEF PushCredited
<1> QED
  BY <1>2, <1>3

LEMMA FlushStep ==
    ASSUME OnePush, IInv, NEW d \in Devices, Flush(d)
    PROVE  IInv'
<1>1. PICK pushes \in Flushes(inflight[d], dirty[d], value[d], stamp[d]) : inflight' = [inflight EXCEPT ![d] = pushes]
  BY DEF Flush
<1>2. UNCHANGED <<server, book, cursor, link, head, now, own, undercut>> /\ link[d] = "up"
  BY DEF Flush
<1>3. dirty'[d] \in SUBSET Keys /\ value'[d] \in [Keys -> Settings] /\ stamp'[d] \in [Keys -> Stamps]
  BY <1>2 DEF IInv, TypeInv, book
<1>4. pushes \in Flushes(inflight[d], dirty'[d], value'[d], stamp'[d])
  BY <1>1, <1>2 DEF book
<1>5. /\ pushes \in Seq(PushT)
      /\ \A i \in DOMAIN pushes : pushes[i].events = CurrentPush(d)' \/ (i \in DOMAIN inflight[d] /\ pushes[i] = inflight[d][i])
      /\ \A i \in DOMAIN pushes : LogGrows => PushCredited(d, pushes[i])'
  BY <1>3, <1>4, PushedIs
<1>6. LogGrows
  BY <1>2, LogStill DEF IInv, server
<1>7. \A i \in DOMAIN pushes : pushes[i].events = CurrentPush(d)' \/ pushes[i].events \in OwnPushes(d)
  BY <1>5 DEF OwnPushes
<1>8. inflight' \in [Devices -> Seq(PushT)] /\ PushesStay /\ Credited'
  <2>1. \A x \in strays' : x \in strays \/ x.events \in OwnPushes(x.device)
    BY <1>2 DEF server
  <2>2. inflight' \in [Devices -> Seq(PushT)] /\ PushesStay
    BY <1>1, <1>5, <1>7, <2>1, PushesReplaced, ZenonT(30)
  <2>3. Credited'
    BY <1>1, <1>5, <1>6, CreditedReplaced
  <2> QED
    BY <2>2, <2>3
<1>9. WritesStay
  BY <1>2, <1>8, StillWrites DEF IInv, server
<1>10. TypeInv'
  BY <1>2, <1>8 DEF IInv, TypeInv, server, book, Seqs
<1>11. \A e \in Devices : link[e] = "unpaired" => inflight'[e] = inflight[e]
  BY <1>1, <1>2 DEF IInv, TypeInv
<1>12. PairedStay
  BY <1>11, <1>2 DEF PairedStay
<1> QED
  BY <1>12, <1>2, <1>6, <1>8, <1>9, <1>10, StillBooks DEF IInv, server, book

\* A push is read: its events join the log, or it is refused whole.
LEMMA MarkedStep ==
    ASSUME OnePush, IInv, NEW d \in Devices, NEW i \in DOMAIN inflight[d], NEW st \in {"taken", "refused"},
           inflight' = [inflight EXCEPT ![d][i].state = st],
           IF st = "taken" THEN Appended(d, inflight[d][i].events) ELSE log' = log,
           UNCHANGED <<dropped, strays, book, cursor, link, head, now, own, undercut>>
    PROVE  IInv'
<1> USE DEF book
<1>0. TypeInv
  BY DEF IInv
<1>1. Marks(d, i, st)
  BY <1>0, MarkedIs
<1>2. PushesStay
  BY <1>1 DEF Marks, PushesStay, OwnPushes
<1> DEFINE q == inflight[d][i].events
<1>3. q \in EventsT /\ q \in OwnPushes(d)
  <2>1. inflight[d] \in Seq(PushT)
    BY DEF IInv, TypeInv
  <2>2. inflight[d][i] \in PushT
    BY <2>1, LenProperties
  <2> QED
    BY <2>2 DEF PushT, OwnPushes
<1>4. LogGrows /\ WritesStay /\ (st = "taken" => \A k \in DOMAIN q : OnLog(d, k, q[k].at, q[k].value)')
  <2>1. CASE st = "taken"
    BY <1>2, <1>3, <2>1, AppendedIs, AppendedWrites DEF IInv
  <2>2. CASE st # "taken"
    BY <1>2, <2>2, LogStill, StillWrites DEF IInv
  <2> QED
    BY <2>1, <2>2
<1>5. Credited'
  <2> SUFFICES ASSUME NEW e \in Devices, NEW j \in DOMAIN inflight'[e] PROVE PushCredited(e, inflight[e][j])'
    BY DEF Credited
  <2>1. j \in DOMAIN inflight[e] /\ PushCredited(e, inflight[e][j])
    BY <1>1 DEF Marks, IInv, Credited
  <2>2. CASE e = d /\ j = i
    BY <1>1, <1>4, <2>1, <2>2 DEF Marks, PushCredited
  <2>3. CASE ~ (e = d /\ j = i)
    BY <1>1, <1>4, <2>1, <2>3, OnLogStays DEF Marks, PushCredited
  <2> QED
    BY <2>2, <2>3
<1>6. TypeInv'
  BY <1>1, <1>4, SMT DEF Marks, IInv, TypeInv, LogGrows, Seqs
<1>7. \A e \in Devices : link[e] = "unpaired" => inflight'[e] = inflight[e]
  <2> SUFFICES ASSUME NEW e \in Devices, link[e] = "unpaired" PROVE e # d
    BY DEF IInv, TypeInv
  <2>1. inflight[e] = << >>
    BY DEF IInv, Unpaired
  <2> QED
    BY <2>1
<1>8. PairedStay
  BY <1>7 DEF PairedStay
<1> QED
  BY <1>4, <1>5, <1>6, <1>8, StillBooks DEF IInv

LEMMA AppendPushStep ==
    ASSUME OnePush, IInv, NEW d \in Devices, AppendPush(d)
    PROVE  IInv'
BY MarkedStep DEF AppendPush, NextSent

LEMMA RefuseStep ==
    ASSUME OnePush, IInv, NEW d \in Devices, Refuse(d)
    PROVE  IInv'
BY MarkedStep DEF Refuse, NextSent, server

\* An answer clears only what the log has with the value in force.
LEMMA AnsweredStep ==
    ASSUME OnePush, IInv, NEW d \in Devices, Answered(d)
    PROVE  IInv'
<1> DEFINE push == Head(inflight[d])
<1>1. /\ inflight[d] # << >> /\ inflight' = [inflight EXCEPT ![d] = Tail(@)]
      /\ dirty' = [dirty EXCEPT ![d] = IF push.state = "taken" THEN @ \ Settled(d, push) ELSE @]
      /\ UNCHANGED <<server, value, stamp, waiting, kept, seed, cursor, link, head, now, own, undercut>> /\ link[d] = "up"
  BY DEF Answered
<1>2. inflight[d] \in Seq(PushT) /\ inflight \in [Devices -> Seq(PushT)] /\ dirty \in [Devices -> SUBSET Keys]
  BY DEF IInv, TypeInv
<1>3. /\ Tail(inflight[d]) \in Seq(PushT) /\ DOMAIN inflight[d] = 1..Len(inflight[d]) /\ Len(inflight[d]) \in Nat
      /\ DOMAIN Tail(inflight[d]) = 1..(Len(inflight[d]) - 1) /\ 1 \in DOMAIN inflight[d]
      /\ \A i \in DOMAIN Tail(inflight[d]) : i + 1 \in DOMAIN inflight[d] /\ Tail(inflight[d])[i] = inflight[d][i + 1]
  BY <1>1, <1>2, HeadTailProperties, LenProperties, SMT
<1>4. push = inflight[d][1]
  BY <1>1, <1>2, SMT
<1>5. LogGrows
  BY <1>1, LogStill DEF IInv, server
<1>6. inflight' \in [Devices -> Seq(PushT)] /\ PushesStay /\ Credited'
  <2>1. \A x \in strays' : x \in strays \/ x.events \in OwnPushes(x.device)
    BY <1>1 DEF server
  <2> DEFINE pushes == Tail(inflight[d])
  <2>2. pushes \in Seq(PushT) /\ inflight' = [inflight EXCEPT ![d] = pushes]
    BY <1>1, <1>2, <1>3
  <2>3. \A i \in DOMAIN pushes : pushes[i].events \in OwnPushes(d)
    BY <1>3 DEF OwnPushes
  <2>4. ASSUME NEW i \in DOMAIN pushes PROVE PushCredited(d, inflight[d][i + 1])
    BY <1>3 DEF IInv, Credited
  <2>5. inflight' \in [Devices -> Seq(PushT)] /\ inflight'[d] = pushes /\ PushesStay
    <3> HIDE DEF pushes
    <3> QED
      BY <2>1, <2>2, <2>3, PushesReplaced, Zenon
  <2>6. Credited'
    <3> SUFFICES ASSUME NEW e \in Devices, NEW i \in DOMAIN inflight'[e] PROVE PushCredited(e, inflight[e][i])'
      BY DEF Credited
    <3>1. \E j \in DOMAIN inflight[e] : inflight'[e][i] = inflight[e][j]
      BY <1>2, <1>3, <2>2, <2>5
    <3>2. PICK j \in DOMAIN inflight[e] : inflight'[e][i] = inflight[e][j] /\ PushCredited(e, inflight[e][j])
      BY <3>1 DEF IInv, Credited
    <3> QED
      BY <3>2, <1>5, OnLogStays DEF PushCredited
  <2> QED
    BY <2>5, <2>6
<1>7. WritesStay
  BY <1>1, <1>6, StillWrites DEF IInv, server
<1>8. dirty' \in [Devices -> SUBSET Keys] /\ \A e \in Devices : dirty'[e] \subseteq dirty[e]
  BY <1>1, <1>2
<1>9. TypeInv'
  BY <1>1, <1>6, <1>8 DEF IInv, TypeInv, server, Seqs
<1>10. \A e \in Devices : link[e] = "unpaired" => inflight'[e] = inflight[e]
  BY <1>1, <1>2
<1>11. OwedUntilTaken'
  <2> SUFFICES ASSUME NEW e \in Devices, NEW k \in Keys \ undercut, stamp[e][k].device = e,
                      k \notin dirty'[e] \cup own[e]
               PROVE  OnServer(e, k)'
    BY <1>1 DEF OwedUntilTaken
  <2>1. CASE k \notin dirty[e]
    BY <1>1, <1>5, <2>1 DEF IInv, OwedUntilTaken, OnServer, LogGrows
  <2>2. CASE k \in dirty[e]
    <3>1. e = d /\ push.state = "taken" /\ k \in Settled(d, push)
      BY <1>1, <1>2, <2>2
    <3>2. PICK o \in push.owed : o.key = k /\ stamp[d][k].at = o.at
      BY <3>1 DEF Settled
    <3>3. PushCredited(d, push)
      BY <1>3, <1>4 DEF IInv, Credited
    <3>4. k \in DOMAIN push.events /\ push.events[k].at = stamp[d][k].at /\ OnLog(d, k, push.events[k].at, push.events[k].value)
      BY <3>1, <3>2, <3>3 DEF PushCredited
    <3>5. push.events[k].value = value[d][k]
      BY <3>1, <3>4 DEF IInv, OneValue, Plain, Mine, Wrote
    <3>6. OnLog(d, k, stamp[d][k].at, value[d][k])
      BY <3>4, <3>5
    <3> QED
      BY <1>1, <3>1, <3>6 DEF OnLog, OnServer, server, Seqs
  <2> QED
    BY <2>1, <2>2
<1>12. PairedStay
  BY <1>1, <1>10 DEF PairedStay
<1> QED
  BY <1>12, <1>1, <1>5, <1>6, <1>7, <1>8, <1>9, <1>10, <1>11, StillBooks DEF IInv, server

LEMMA AppendStrayStep ==
    ASSUME OnePush, IInv, NEW x \in strays, AppendStray(x)
    PROVE  IInv'
<1>1. /\ Appended(x.device, x.events) /\ strays' = strays \ {x}
      /\ UNCHANGED <<dropped, book, cursor, link, head, inflight, now, own, undercut>>
  BY DEF AppendStray
<1>2. x.device \in Devices /\ x.events \in EventsT /\ x.events \in OwnPushes(x.device)
  BY DEF IInv, TypeInv, OwnPushes
<1>3. PushesStay
  BY <1>1 DEF PushesStay, OwnPushes
<1>4. LogGrows /\ WritesStay
  BY <1>1, <1>2, <1>3, AppendedWrites DEF IInv
<1>5. Credited'
  <2> SUFFICES ASSUME NEW e \in Devices, NEW i \in DOMAIN inflight'[e] PROVE PushCredited(e, inflight[e][i])'
    BY DEF Credited
  <2>1. inflight' = inflight /\ PushCredited(e, inflight[e][i])
    BY <1>1 DEF IInv, Credited
  <2> QED
    BY <2>1, <1>4, OnLogStays DEF PushCredited
<1>6. TypeInv'
  BY <1>1, <1>4, SMT DEF IInv, TypeInv, LogGrows, Seqs, book
<1> QED
  BY <1>1, <1>4, <1>5, <1>6, StillBooks DEF IInv, book, PairedStay

LEMMA CompactStep ==
    ASSUME OnePush, IInv, Compact
    PROVE  IInv'
<1>1. /\ dropped \subseteq dropped' /\ dropped' \subseteq Seqs
      /\ UNCHANGED <<log, strays, book, cursor, link, head, inflight, now, own, undercut>>
  BY DEF Compact, Present, IInv, TypeInv
<1>2. LogGrows
  BY <1>1, LogStill DEF IInv
<1>3. PushesStay
  BY <1>1 DEF PushesStay, OwnPushes
<1>4. WritesStay
  BY <1>1, <1>3, StillWrites DEF IInv
<1>5. Credited'
  BY <1>1 DEF IInv, Credited, PushCredited, OnLog, Seqs
<1>6. TypeInv'
  BY <1>1 DEF IInv, TypeInv, Seqs, book
<1> QED
  BY <1>1, <1>2, <1>4, <1>5, <1>6, StillBooks DEF IInv, book, PairedStay

LEMMA WelcomeStep ==
    ASSUME OnePush, IInv, NEW d \in Devices, Welcome(d)
    PROVE  IInv'
<1>1. PICK pushes \in Flushes(<< >>, dirty[d], value[d], stamp[d]) : inflight' = [inflight EXCEPT ![d] = pushes]
  BY DEF Welcome
<1>2. /\ UNCHANGED <<server, book, cursor, now, own, undercut>>
      /\ link[d] = "down" /\ link' = [link EXCEPT ![d] = "up"]
      /\ head' = [head EXCEPT ![d] = IF seed[d] = {} THEN 0 ELSE Len(log)]
  BY DEF Welcome
<1>3. dirty'[d] \in SUBSET Keys /\ value'[d] \in [Keys -> Settings] /\ stamp'[d] \in [Keys -> Stamps]
  BY <1>2 DEF IInv, TypeInv, book
<1>4. pushes \in Flushes(<< >>, dirty'[d], value'[d], stamp'[d])
  BY <1>1, <1>2 DEF book
<1>5. /\ pushes \in Seq(PushT)
      /\ \A i \in DOMAIN pushes : pushes[i].events = CurrentPush(d)'
      /\ \A i \in DOMAIN pushes : LogGrows => PushCredited(d, pushes[i])'
  <2>1. DOMAIN << >> = {}
    OBVIOUS
  <2>2. PICK before \in {<< >>, inflight[d]} : before = << >>
    OBVIOUS
  <2>3. pushes \in Flushes(before, dirty'[d], value'[d], stamp'[d])
    BY <1>4, <2>2
  <2>4. /\ pushes \in Seq(PushT)
        /\ \A i \in DOMAIN pushes : pushes[i].events = CurrentPush(d)' \/ (i \in DOMAIN before /\ pushes[i] = before[i])
        /\ \A i \in DOMAIN pushes : LogGrows => PushCredited(d, pushes[i])'
    BY <1>3, <2>3, PushedIs
  <2> QED
    BY <2>1, <2>2, <2>4
<1>6. LogGrows
  BY <1>2, LogStill DEF IInv, server
<1>7. inflight' \in [Devices -> Seq(PushT)] /\ PushesStay /\ Credited'
  <2>1. \A x \in strays' : x \in strays \/ x.events \in OwnPushes(x.device)
    BY <1>2 DEF server
  <2>2. inflight' \in [Devices -> Seq(PushT)] /\ PushesStay
    BY <1>1, <1>5, <2>1, PushesReplaced, ZenonT(30)
  <2>3. Credited'
    BY <1>1, <1>5, <1>6, CreditedReplaced
  <2> QED
    BY <2>2, <2>3
<1>8. WritesStay
  BY <1>2, <1>7, StillWrites DEF IInv, server
<1>9. link' \in [Devices -> {"unpaired", "down", "up"}] /\ head' \in [Devices -> Nat]
  BY <1>2, <1>6, SMT DEF IInv, TypeInv, LogGrows
<1>10. TypeInv'
  BY <1>2, <1>7, <1>9 DEF IInv, TypeInv, server, book, Seqs
<1>11. PairedStay
  BY <1>1, <1>2 DEF IInv, TypeInv, PairedStay
<1> QED
  BY <1>2, <1>6, <1>7, <1>8, <1>10, <1>11, StillBooks DEF IInv, server, book

\* What the pushes a dead connection had leave behind.
LEMMA LostIs ==
    ASSUME IInv, NEW d \in Devices, NEW pushes \in Seq(PushT), Lost(d, pushes), link[d] # "unpaired",
           \A i \in DOMAIN pushes : pushes[i].events = CurrentPush(d)' \/ pushes[i].events \in OwnPushes(d)
    PROVE  /\ link' \in [Devices -> {"unpaired", "down", "up"}] /\ inflight' \in [Devices -> Seq(PushT)]
           /\ strays' \subseteq [device : Devices, events : EventsT]
           /\ PushesStay /\ (LogGrows => Credited')
           /\ PairedStay
<1>1. /\ link' = [link EXCEPT ![d] = "down"] /\ inflight' = [inflight EXCEPT ![d] = << >>]
      /\ strays' = strays \cup {[device |-> d, events |-> pushes[i].events] :
                                    i \in {j \in DOMAIN pushes : pushes[j].state = "sent"}}
  BY DEF Lost
<1>2. /\ link \in [Devices -> {"unpaired", "down", "up"}] /\ inflight \in [Devices -> Seq(PushT)]
      /\ strays \subseteq [device : Devices, events : EventsT]
  BY DEF IInv, TypeInv
<1>3. \A i \in DOMAIN pushes : pushes[i].events \in EventsT
  <2>1. DOMAIN pushes = 1..Len(pushes)
    BY LenProperties
  <2>2. \A i \in 1..Len(pushes) : pushes[i] \in PushT
    BY ElementOfSeq
  <2> QED
    BY <2>1, <2>2 DEF PushT
<1>4. << >> \in Seq(PushT) /\ DOMAIN << >> = {}
  BY EmptySeq
<1>5. inflight' \in [Devices -> Seq(PushT)] /\ inflight'[d] = << >> /\ \A e \in Devices \ {d} : inflight'[e] = inflight[e]
  BY <1>1, <1>2, <1>4
<1>6. strays' \subseteq [device : Devices, events : EventsT]
  BY <1>1, <1>2, <1>3
<1>7. ASSUME NEW e \in Devices, NEW p \in OwnPushes(e)' PROVE p \in OwnPushes(e) \/ p = CurrentPush(e)'
  <2>1. CASE \E i \in DOMAIN inflight'[e] : p = inflight'[e][i].events
    BY <2>1, <1>4, <1>5 DEF OwnPushes
  <2>2. CASE \E x \in strays : x.device = e /\ p = x.events
    BY <2>2 DEF OwnPushes
  <2>3. CASE e = d /\ \E i \in DOMAIN pushes : p = pushes[i].events
    BY <2>3
  <2> QED
    BY <1>1, <1>7, <2>1, <2>2, <2>3 DEF OwnPushes
<1>8. PushesStay
  BY <1>7 DEF PushesStay
<1>9. LogGrows => Credited'
  BY <1>1, <1>4, CreditedReplaced
<1>10. link' \in [Devices -> {"unpaired", "down", "up"}]
       /\ PairedStay
  BY <1>1, <1>2, <1>5 DEF PairedStay
<1> QED
  BY <1>5, <1>6, <1>8, <1>9, <1>10

LEMMA DisconnectStep ==
    ASSUME OnePush, IInv, NEW d \in Devices, Disconnect(d)
    PROVE  IInv'
<1>1. link[d] = "up" /\ Lost(d, inflight[d]) /\ UNCHANGED <<log, dropped, book, cursor, head, now, own, undercut>>
  BY DEF Disconnect
<1>2. inflight[d] \in Seq(PushT) /\ \A i \in DOMAIN inflight[d] : inflight[d][i].events \in OwnPushes(d)
  BY DEF IInv, TypeInv, OwnPushes
<1>3. /\ link' \in [Devices -> {"unpaired", "down", "up"}] /\ inflight' \in [Devices -> Seq(PushT)]
      /\ strays' \subseteq [device : Devices, events : EventsT]
      /\ PushesStay /\ (LogGrows => Credited')
      /\ PairedStay
  BY <1>1, <1>2, LostIs
<1>4. LogGrows
  BY <1>1, LogStill DEF IInv
<1>5. WritesStay
  BY <1>1, <1>3, StillWrites DEF IInv
<1>6. TypeInv'
  BY <1>1, <1>3 DEF IInv, TypeInv, book, Seqs
<1> QED
  BY <1>1, <1>3, <1>4, <1>5, <1>6, StillBooks DEF IInv, book

-----------------------------------------------------------------------------
(* One key of one machine at a time: the person, and the pairing.           *)

\* All that the invariant says of one key of one machine.
AtKey(d, k) ==
    /\ stamp[d][k] = NoStamp => NothingKnown(d, k)
    /\ k \in kept[d] => k \in own[d]
    /\ k \in dirty[d] => Mine(d, k)
    /\ waiting[d][k] # Nothing => ~ Mine(d, k) /\ k \notin seed[d] \cup kept[d]
    /\ Plain(d, k) =>
          /\ \A a, v : Mine(d, k) /\ Wrote(d, k, a, v) /\ a = stamp[d][k].at => v = value[d][k]
          /\ \A a, v : Wrote(d, k, a, v) => ~ Wins([at |-> a, device |-> d], stamp[d][k])
          /\ \A t \in Present : log[t].key = k /\ t <= cursor[d] => ~ Wins(log[t], stamp[d][k])
          /\ stamp[d][k] # NoStamp /\ ~ Mine(d, k) => SourceOf(d, k)
          /\ Mine(d, k) => k \in dirty[d] \/ OnServer(d, k)

LEMMA KeysOf ==
    ASSUME IInv, NEW d \in Devices, NEW k \in Keys
    PROVE  AtKey(d, k)
<1>1. stamp[d][k] = NoStamp => NothingKnown(d, k)
  BY DEF IInv, Untouched
<1>2. /\ k \in kept[d] => k \in own[d]
      /\ k \in dirty[d] => Mine(d, k)
      /\ waiting[d][k] # Nothing => ~ Mine(d, k) /\ k \notin seed[d] \cup kept[d]
  BY DEF IInv, BooksFit
<1>3. Plain(d, k) => \A a, v : Mine(d, k) /\ Wrote(d, k, a, v) /\ a = stamp[d][k].at => v = value[d][k]
  BY DEF IInv, OneValue
<1>4. Plain(d, k) => \A a, v : Wrote(d, k, a, v) => ~ Wins([at |-> a, device |-> d], stamp[d][k])
  BY DEF IInv, OwnBehind
<1>5. Plain(d, k) => \A t \in Present : log[t].key = k /\ t <= cursor[d] => ~ Wins(log[t], stamp[d][k])
  BY DEF IInv, GivenBehind
<1>6. Plain(d, k) /\ stamp[d][k] # NoStamp /\ ~ Mine(d, k) => SourceOf(d, k)
  BY DEF IInv, Sourced
<1>7. Plain(d, k) /\ Mine(d, k) => k \in dirty[d] \/ OnServer(d, k)
  BY DEF IInv, OwedUntilTaken, Plain, Mine
<1> QED
  BY <1>1, <1>2, <1>3, <1>4, <1>5, <1>6, <1>7 DEF AtKey

LEMMA FromKeys ==
    ASSUME TypeInv', Unpaired', Credited', \A d \in Devices, k \in Keys : AtKey(d, k)'
    PROVE  IInv'
<1>1. Untouched'
  BY DEF AtKey, Untouched
<1>2. BooksFit'
  BY DEF AtKey, BooksFit, TypeInv
<1>3. OneValue'
  BY DEF AtKey, OneValue
<1>4. OwnBehind'
  BY DEF AtKey, OwnBehind
<1>5. GivenBehind'
  BY DEF AtKey, GivenBehind
<1>6. Sourced'
  BY DEF AtKey, Sourced
<1>7. OwedUntilTaken'
  <2> SUFFICES ASSUME NEW d \in Devices, NEW k \in Keys \ undercut', (stamp[d][k].device = d)'
               PROVE  (k \in dirty[d] \cup own[d] \/ OnServer(d, k))'
    BY DEF OwedUntilTaken
  <2>1. AtKey(d, k)'
    OBVIOUS
  <2> QED
    BY <2>1 DEF AtKey, Plain, Mine
<1> QED
  BY <1>1, <1>2, <1>3, <1>4, <1>5, <1>6, <1>7 DEF IInv

StillThere == UNCHANGED <<log, dropped, strays, inflight>>

\* A key none of whose variables moved.
LEMMA KeyStill ==
    ASSUME NEW d \in Devices, NEW k \in Keys, AtKey(d, k), StillThere, undercut' = undercut,
           cursor'[d] = cursor[d], link'[d] = link[d],
           value'[d][k] = value[d][k], stamp'[d][k] = stamp[d][k], waiting'[d][k] = waiting[d][k],
           k \in dirty'[d] <=> k \in dirty[d], k \in kept'[d] <=> k \in kept[d],
           k \in seed'[d] <=> k \in seed[d], k \in own'[d] <=> k \in own[d]
    PROVE  AtKey(d, k)'
<1>1. /\ Plain(d, k)' <=> Plain(d, k)
      /\ Mine(d, k)' <=> Mine(d, k)
      /\ Seqs' = Seqs /\ Present' = Present
  BY DEF Plain, Mine, Seqs, Present, StillThere
<1>2. \A a, v : Wrote(d, k, a, v)' <=> Wrote(d, k, a, v)
  BY DEF Wrote, OnLog, InPush, OwnPushes, Seqs, StillThere
<1>3. NothingKnown(d, k) => NothingKnown(d, k)'
  BY <1>2 DEF NothingKnown
<1>4. SourceOf(d, k) => SourceOf(d, k)'
  BY <1>1 DEF SourceOf, Chosen, StillThere
<1>5. OnServer(d, k) => OnServer(d, k)'
  BY <1>1 DEF OnServer, StillThere
<1> QED
  BY <1>1, <1>2, <1>3, <1>4, <1>5 DEF AtKey, StillThere

\* Writes and what was given are what a clock that agrees is past.
LEMMA WroteIsMet ==
    ASSUME TypeInv, NEW d \in Devices, NEW k \in Keys, NEW a, NEW v, Wrote(d, k, a, v)
    PROVE  a \in Nat /\ [at |-> a, device |-> d] \in Met(d, k)
<1>1. CASE OnLog(d, k, a, v)
  <2>1. PICK s \in Seqs : log[s].key = k /\ log[s].device = d /\ log[s].at = a
    BY <1>1 DEF OnLog
  <2>2. log[s] \in EventT
    BY ElementOfSeq DEF TypeInv, Seqs
  <2> QED
    BY <2>1, <2>2 DEF Met, EventT
<1>2. CASE \E p \in OwnPushes(d) : InPush(p, k, a, v)
  <2>1. PICK p \in OwnPushes(d) : k \in DOMAIN p /\ p[k].at = a
    BY <1>2 DEF InPush
  <2>2. p \in EventsT
    <3>1. CASE \E i \in DOMAIN inflight[d] : p = inflight[d][i].events
      <4>1. inflight[d] \in Seq(PushT)
        BY DEF TypeInv
      <4>2. \A i \in DOMAIN inflight[d] : inflight[d][i] \in PushT
        BY <4>1, LenProperties
      <4> QED
        BY <3>1, <4>2 DEF PushT
    <3>2. CASE \E x \in strays : p = x.events
      BY <3>2 DEF TypeInv
    <3> QED
      BY <3>1, <3>2 DEF OwnPushes
  <2> QED
    BY <2>1, <2>2, EventsAre DEF Met
<1> QED
  BY <1>1, <1>2 DEF Wrote

LEMMA GivenIsMet ==
    ASSUME TypeInv, NEW d \in Devices, NEW k \in Keys, NEW t \in Seqs, log[t].key = k, t <= cursor[d]
    PROVE  [at |-> log[t].at, device |-> log[t].device] \in Met(d, k) /\ log[t] \in EventT
BY ElementOfSeq DEF Met, TypeInv, Seqs

\* What one act of the person leaves alone.
Elsewhere(d, k) ==
    /\ StillThere /\ UNCHANGED <<cursor, link, head, undercut, seed>>
    /\ \A e \in Devices, j \in Keys : e # d \/ j # k =>
          /\ value'[e][j] = value[e][j] /\ stamp'[e][j] = stamp[e][j] /\ waiting'[e][j] = waiting[e][j]
          /\ (j \in dirty'[e] <=> j \in dirty[e]) /\ (j \in kept'[e] <=> j \in kept[e]) /\ (j \in own'[e] <=> j \in own[e])

LEMMA OneKeyStep ==
    ASSUME IInv, NEW d \in Devices, NEW k \in Keys, TypeInv', Elsewhere(d, k),
           AtKey(d, k) => AtKey(d, k)', link[d] = "unpaired" => stamp'[d][k] = stamp[d][k]
    PROVE  IInv'
<1>1. TypeInv /\ Unpaired /\ Credited /\ \A e \in Devices, j \in Keys : AtKey(e, j)
  BY KeysOf DEF IInv
<1>2. ASSUME NEW e \in Devices, NEW j \in Keys PROVE AtKey(e, j)'
  <2>1. CASE e = d /\ j = k
    BY <1>1, <2>1
  <2>2. CASE e # d \/ j # k
    BY <1>1, <2>2, KeyStill DEF Elsewhere
  <2> QED
    BY <2>1, <2>2
<1>3. Unpaired'
  BY <1>1 DEF Unpaired, Elsewhere, StillThere
<1>4. Credited'
  BY <1>1 DEF Credited, PushCredited, OnLog, Elsewhere, StillThere, Seqs
<1> QED
  BY <1>2, <1>3, <1>4, FromKeys

LEMMA EditStep ==
    ASSUME OnePush, IInv, NEW d \in Devices, NEW k \in Keys, NEW v \in Settings, Edit(d, k, v)
    PROVE  IInv'
<1>1. /\ value' = [value EXCEPT ![d][k] = v]
      /\ UNCHANGED <<server, kept, seed, cursor, link, head, inflight, undercut>>
  BY DEF Edit
<1>2. TypeInv
  BY DEF IInv
<1>3. CASE link[d] = "unpaired" \/ k \in kept[d]
  <2>1. UNCHANGED <<stamp, dirty, waiting, now, own>>
    BY <1>3 DEF Edit
  <2>2. TypeInv'
    BY <1>1, <1>2, <2>1 DEF TypeInv, server, Seqs
  <2>3. Elsewhere(d, k)
    BY <1>1, <1>2, <2>1 DEF Elsewhere, StillThere, server, TypeInv
  <2>4. ASSUME AtKey(d, k) PROVE AtKey(d, k)'
    <3>1. \A a, w : Wrote(d, k, a, w)' <=> Wrote(d, k, a, w)
      BY <1>1 DEF Wrote, OnLog, InPush, OwnPushes, Seqs, server
    <3>2. link[d] = "unpaired" => stamp[d][k] = NoStamp /\ ~ Mine(d, k)
      BY SyncLinkAssumption DEF IInv, Unpaired, Mine, NoStamp
    <3>3. NothingKnown(d, k) => NothingKnown(d, k)'
      BY <1>1, <1>3, <2>1, <2>4, <3>1 DEF NothingKnown, AtKey
    <3> QED
      BY <1>1, <1>3, <2>1, <2>4, <3>1, <3>2, <3>3 DEF AtKey, Plain, Mine, server, Present, Seqs
  <2> QED
    BY <2>1, <2>2, <2>3, <2>4, OneKeyStep
<1>4. CASE ~ (link[d] = "unpaired" \/ k \in kept[d])
  <2>1. PICK at \in (now + SkewOf[d])..(MaxNow + SkewOf[d]) :
            /\ PastItsStamps(d, k, at) /\ now' = at - SkewOf[d] /\ Owe(d, k, at)
            /\ waiting' = [waiting EXCEPT ![d][k] = Nothing] /\ own' = [own EXCEPT ![d] = @ \ {k}]
    BY <1>4 DEF Edit, OnePush
  <2>2. /\ dirty' = [dirty EXCEPT ![d] = @ \cup {k}]
        /\ stamp' = [stamp EXCEPT ![d][k] = [at |-> at, device |-> d]]
    BY <2>1 DEF Owe
  <2>3. at \in Nat /\ now' \in Nat
    <3>1. SkewOf[d] \in Nat /\ MaxNow \in Nat /\ now \in Nat
      BY <1>2, SyncLinkAssumption DEF TypeInv
    <3> QED
      BY <2>1, <3>1
  <2>4. TypeInv'
    <3>1. [at |-> at, device |-> d] \in Stamps
      BY <2>3 DEF Stamps
    <3>2. value' \in [Devices -> [Keys -> Settings]] /\ stamp' \in [Devices -> [Keys -> Stamps]]
          /\ waiting' \in [Devices -> [Keys -> Settings \cup {Nothing}]]
      BY <1>1, <1>2, <2>1, <2>2, <3>1 DEF TypeInv
    <3>3. dirty' \in [Devices -> SUBSET Keys] /\ own' \in [Devices -> SUBSET Keys]
      BY <1>2, <2>1, <2>2 DEF TypeInv
    <3> QED
      BY <1>1, <1>2, <2>3, <3>2, <3>3 DEF TypeInv, server, Seqs
  <2>5. Elsewhere(d, k)
    BY <1>1, <1>2, <2>1, <2>2 DEF Elsewhere, StillThere, server, TypeInv
  <2>6. /\ value'[d][k] = v /\ stamp'[d][k] = [at |-> at, device |-> d] /\ waiting'[d][k] = Nothing
        /\ k \in dirty'[d] /\ Mine(d, k)' /\ stamp'[d][k] # NoStamp
    BY <1>1, <1>2, <2>1, <2>2, SyncLinkAssumption DEF TypeInv, Mine, NoStamp
  <2>7. ASSUME NEW a, NEW w, Wrote(d, k, a, w)' PROVE a \in Nat /\ a < at
    <3>1. Wrote(d, k, a, w)
      BY <1>1, <2>7 DEF Wrote, OnLog, InPush, OwnPushes, Seqs, server
    <3>2. a \in Nat /\ [at |-> a, device |-> d] \in Met(d, k)
      BY <1>2, <3>1, WroteIsMet
    <3> QED
      BY <2>1, <3>2 DEF PastItsStamps
  <2>8. ASSUME NEW t \in Present', log'[t].key = k, t <= cursor'[d] PROVE log'[t].at \in Nat /\ log'[t].at < at
    <3>1. t \in Seqs /\ log[t].key = k /\ t <= cursor[d] /\ log' = log
      BY <1>1, <2>8 DEF Present, Seqs, server
    <3>2. [at |-> log[t].at, device |-> log[t].device] \in Met(d, k) /\ log[t] \in EventT
      BY <1>2, <3>1, GivenIsMet
    <3> QED
      BY <2>1, <3>1, <3>2 DEF PastItsStamps, EventT
  <2>9. AtKey(d, k) => AtKey(d, k)'
    <3>1. \A a, w : Wrote(d, k, a, w)' => ~ Wins([at |-> a, device |-> d], stamp[d][k]')
      BY <2>3, <2>6, <2>7, SMT DEF Wins
    <3>2. \A t \in Present' : log'[t].key = k /\ t <= cursor'[d] => ~ Wins(log'[t], stamp[d][k]')
      BY <2>3, <2>6, <2>8, SMT DEF Wins
    <3>3. \A a, w : Wrote(d, k, a, w)' /\ a = (stamp[d][k].at)' => w = value'[d][k]
      BY <2>3, <2>6, <2>7, SMT
    <3> QED
      BY <1>1, <1>4, <2>6, <3>1, <3>2, <3>3 DEF AtKey, Wins
  <2> QED
    BY <1>4, <2>4, <2>5, <2>9, OneKeyStep
<1> QED
  BY <1>3, <1>4

LEMMA AcceptStep ==
    ASSUME OnePush, IInv, NEW d \in Devices, NEW k \in Keys, Accept(d, k)
    PROVE  IInv'
<1>1. /\ waiting[d][k] # Nothing
      /\ value' = [value EXCEPT ![d][k] = waiting[d][k]]
      /\ waiting' = [waiting EXCEPT ![d][k] = Nothing]
      /\ UNCHANGED <<server, stamp, dirty, kept, seed, cursor, link, head, inflight, now, own, undercut>>
  BY DEF Accept
<1>2. TypeInv
  BY DEF IInv
<1>3. waiting[d][k] \in Settings
  BY <1>1, <1>2 DEF TypeInv
<1>4. TypeInv'
  BY <1>1, <1>2, <1>3 DEF TypeInv, server, Seqs
<1>5. Elsewhere(d, k)
  BY <1>1, <1>2 DEF Elsewhere, StillThere, server, TypeInv
<1>6. value'[d][k] = waiting[d][k] /\ waiting'[d][k] = Nothing
  BY <1>1, <1>2 DEF TypeInv
<1>7. ASSUME AtKey(d, k) PROVE AtKey(d, k)'
  <2>1. ~ Mine(d, k) /\ stamp[d][k] # NoStamp
    BY <1>1, <1>7 DEF AtKey, NothingKnown
  <2>2. \A a, v : Wrote(d, k, a, v)' <=> Wrote(d, k, a, v)
    BY <1>1 DEF Wrote, OnLog, InPush, OwnPushes, Seqs, server
  <2>3. Chosen(d, k)' = Chosen(d, k)
    BY <1>1, <1>6 DEF Chosen
  <2>4. SourceOf(d, k) => SourceOf(d, k)'
    BY <1>1, <2>3 DEF SourceOf, Seqs, Present, server
  <2> QED
    BY <1>1, <1>6, <1>7, <2>1, <2>2, <2>4 DEF AtKey, Plain, Mine, server, Seqs, Present
<1> QED
  BY <1>1, <1>4, <1>5, <1>7, OneKeyStep

\* A choice to have a setting differ takes it out of what machines agree on.
LEMMA OwnStep ==
    ASSUME IInv, NEW d \in Devices, NEW k \in Keys, Elsewhere(d, k), TypeInv', own' = [own EXCEPT ![d] = @ \cup {k}],
           stamp'[d][k] = stamp[d][k], value'[d][k] = value[d][k], waiting'[d][k] = Nothing,
           k \in dirty'[d] <=> k \in dirty[d]
    PROVE  IInv'
<1>1. k \in own'[d]
  BY DEF IInv, TypeInv
<1>2. ASSUME AtKey(d, k) PROVE AtKey(d, k)'
  <2>1. \A a, v : Wrote(d, k, a, v)' <=> Wrote(d, k, a, v)
    BY DEF Wrote, OnLog, InPush, OwnPushes, Seqs, Elsewhere, StillThere
  <2> QED
    BY <1>1, <1>2, <2>1 DEF AtKey, NothingKnown, Plain, Mine
<1> QED
  BY <1>2, OneKeyStep

LEMMA DeclineStep ==
    ASSUME OnePush, IInv, NEW d \in Devices, NEW k \in Keys, Decline(d, k)
    PROVE  IInv'
<1>1. /\ waiting' = [waiting EXCEPT ![d][k] = Nothing] /\ own' = [own EXCEPT ![d] = @ \cup {k}]
      /\ UNCHANGED <<server, value, stamp, dirty, kept, seed, cursor, link, head, inflight, now, undercut>>
  BY DEF Decline
<1>2. TypeInv
  BY DEF IInv
<1>3. TypeInv'
  BY <1>1, <1>2 DEF TypeInv, server, Seqs
<1>4. Elsewhere(d, k) /\ waiting'[d][k] = Nothing
  BY <1>1, <1>2 DEF Elsewhere, StillThere, server, TypeInv
<1> QED
  BY <1>1, <1>3, <1>4, OwnStep

LEMMA KeepStep ==
    ASSUME OnePush, IInv, NEW d \in Devices, NEW k \in Keys, Keep(d, k)
    PROVE  IInv'
<1>1. /\ waiting' = [waiting EXCEPT ![d][k] = Nothing] /\ own' = [own EXCEPT ![d] = @ \cup {k}]
      /\ kept' = [kept EXCEPT ![d] = @ \cup {k}]
      /\ UNCHANGED <<server, value, stamp, dirty, seed, cursor, link, head, inflight, now, undercut>>
  BY DEF Keep
<1>2. TypeInv
  BY DEF IInv
<1>3. TypeInv'
  BY <1>1, <1>2 DEF TypeInv, server, Seqs
<1>4. Elsewhere(d, k) /\ waiting'[d][k] = Nothing
  BY <1>1, <1>2 DEF Elsewhere, StillThere, server, TypeInv
<1> QED
  BY <1>1, <1>3, <1>4, OwnStep

LEMMA UnkeepStep ==
    ASSUME OnePush, IInv, NEW d \in Devices, NEW k \in Keys, Unkeep(d, k)
    PROVE  IInv'
<1>1. /\ k \in kept[d] /\ kept' = [kept EXCEPT ![d] = @ \ {k}]
      /\ UNCHANGED <<server, value, waiting, seed, cursor, link, head, inflight, now, own, undercut>>
  BY DEF Unkeep
<1>2. TypeInv /\ AtKey(d, k)
  BY KeysOf DEF IInv
<1>3. k \in own[d] /\ waiting[d][k] = Nothing
  BY <1>1, <1>2 DEF AtKey
<1>4. \A a, v : Wrote(d, k, a, v)' <=> Wrote(d, k, a, v)
  BY <1>1 DEF Wrote, OnLog, InPush, OwnPushes, Seqs, server
<1>5. CASE link[d] # "unpaired" /\ value[d][k] # Unset
  <2>1. /\ dirty' = [dirty EXCEPT ![d] = @ \cup {k}]
        /\ stamp' = [stamp EXCEPT ![d][k] = [at |-> Oldest, device |-> d]]
    BY <1>5 DEF Unkeep, Owe
  <2>2. [at |-> Oldest, device |-> d] \in Stamps
    BY DEF Stamps, Oldest
  <2>3. dirty' \in [Devices -> SUBSET Keys] /\ kept' \in [Devices -> SUBSET Keys] /\ stamp' \in [Devices -> [Keys -> Stamps]]
    BY <1>1, <1>2, <2>1, <2>2 DEF TypeInv
  <2>4. TypeInv'
    BY <1>1, <1>2, <2>3 DEF TypeInv, server, Seqs
  <2>5. Elsewhere(d, k)
    BY <1>1, <1>2, <2>1 DEF Elsewhere, StillThere, server, TypeInv
  <2>6. k \in dirty'[d] /\ Mine(d, k)' /\ stamp'[d][k] # NoStamp
    BY <1>2, <2>1, SyncLinkAssumption DEF TypeInv, Mine, NoStamp
  <2>7. AtKey(d, k)'
    BY <1>1, <1>3, <2>6 DEF AtKey, Plain
  <2> QED
    BY <1>5, <2>4, <2>5, <2>7, OneKeyStep
<1>6. CASE ~ (link[d] # "unpaired" /\ value[d][k] # Unset)
  <2>1. UNCHANGED <<dirty, stamp>>
    BY <1>6 DEF Unkeep
  <2>2. TypeInv'
    BY <1>1, <1>2, <2>1 DEF TypeInv, server, Seqs
  <2>3. Elsewhere(d, k)
    BY <1>1, <1>2, <2>1 DEF Elsewhere, StillThere, server, TypeInv
  <2>4. AtKey(d, k)'
    BY <1>1, <1>2, <1>3, <1>4, <2>1 DEF AtKey, NothingKnown, Plain, Mine
  <2> QED
    BY <2>1, <2>2, <2>3, <2>4, OneKeyStep
<1> QED
  BY <1>5, <1>6

LEMMA PairStep ==
    ASSUME OnePush, IInv, NEW d \in Devices, Pair(d)
    PROVE  IInv'
<1>1. /\ link[d] = "unpaired" /\ link' = [link EXCEPT ![d] = "down"]
      /\ dirty' = [dirty EXCEPT ![d] = {}]
      /\ seed' = [seed EXCEPT ![d] = {k \in Keys \ kept[d] : value[d][k] # Unset}]
      /\ cursor' = [cursor EXCEPT ![d] = 0]
      /\ UNCHANGED <<server, value, stamp, waiting, kept, head, inflight, now, own, undercut>>
  BY DEF Pair
<1>2. TypeInv /\ Unpaired /\ Credited
  BY DEF IInv
<1>3. TypeInv'
  <2>1. Len(log) \in Nat
    BY <1>2, LenProperties DEF TypeInv
  <2>2. /\ dirty' \in [Devices -> SUBSET Keys] /\ seed' \in [Devices -> SUBSET Keys]
        /\ link' \in [Devices -> {"unpaired", "down", "up"}]
    BY <1>1, <1>2 DEF TypeInv
  <2>3. cursor' \in [Devices -> 0..Len(log)]
    BY <1>1, <1>2, <2>1 DEF TypeInv
  <2> QED
    BY <1>1, <1>2, <2>2, <2>3 DEF TypeInv, server, Seqs
<1>4. StillThere
  BY <1>1 DEF StillThere, server
<1>5. Unpaired'
  BY <1>1, <1>2 DEF Unpaired, TypeInv
<1>6. Credited'
  BY <1>2, <1>4 DEF Credited, PushCredited, OnLog, StillThere, Seqs
<1>7. ASSUME NEW e \in Devices, NEW j \in Keys PROVE AtKey(e, j)'
  <2>1. AtKey(e, j)
    BY KeysOf
  <2>2. CASE e # d
    <3>1. /\ link'[e] = link[e] /\ dirty'[e] = dirty[e] /\ seed'[e] = seed[e] /\ cursor'[e] = cursor[e]
      BY <1>1, <1>2, <2>2 DEF TypeInv
    <3> QED
      BY <1>1, <1>4, <2>1, <3>1, KeyStill
  <2>3. CASE e = d
    <3>1. stamp[e][j] = NoStamp /\ cursor[e] = 0
      BY <1>1, <1>2, <2>3 DEF Unpaired
    <3>2. \A a, v : ~ Wrote(e, j, a, v)'
      BY <1>4, <2>1, <3>1 DEF AtKey, NothingKnown, Wrote, OnLog, InPush, OwnPushes, Seqs, StillThere
    <3>3. j \notin dirty'[e] /\ cursor'[e] = 0 /\ waiting[e][j] = Nothing
      BY <1>1, <1>2, <2>1, <2>3, <3>1 DEF AtKey, NothingKnown, TypeInv
    <3>4. j \notin seed'[e] /\ j \notin own[e] => value[e][j] = Unset
      BY <1>1, <1>2, <2>1, <2>3 DEF AtKey, TypeInv
    <3>5. NothingKnown(e, j)'
      BY <1>1, <3>2, <3>3, <3>4 DEF NothingKnown
    <3>6. ~ Mine(e, j)' /\ stamp'[e][j] = NoStamp
      BY <1>1, <3>1, SyncLinkAssumption DEF Mine, NoStamp
    <3>7. \A t \in Present' : t > cursor'[e]
      BY <3>3 DEF Present, Seqs
    <3>8. \A t \in Present' : t \in Nat /\ ~ (t <= cursor'[e])
      BY <3>3, <3>7, SMT DEF Present, Seqs
    <3> QED
      BY <1>1, <2>1, <3>2, <3>3, <3>5, <3>6, <3>8 DEF AtKey
  <2> QED
    BY <2>2, <2>3
<1> QED
  BY <1>3, <1>5, <1>6, <1>7, FromKeys

-----------------------------------------------------------------------------
(* What arrives: an event is merged, and a catch-up's end makes its offer.  *)

BookT == [stamp : [Keys -> Stamps], waiting : [Keys -> Settings \cup {Nothing}],
          dirty : SUBSET Keys, seed : SUBSET Keys, own : SUBSET Keys]

\* A key the page leaves as it was, and one it replaces by the event at s.
SameKey(d, m, j) ==
    /\ m.stamp[j] = stamp[d][j] /\ m.waiting[j] = waiting[d][j]
    /\ (j \in m.dirty <=> j \in dirty[d]) /\ (j \in m.seed <=> j \in seed[d]) /\ (j \in m.own <=> j \in own[d])
TakenKey(d, m, s) ==
    LET j == log[s].key
    IN  /\ m.stamp[j] = [at |-> log[s].at, device |-> log[s].device]
        /\ m.waiting[j] = IF log[s].value = value[d][j] THEN Nothing ELSE log[s].value
        /\ j \notin m.dirty /\ j \notin m.seed
        /\ j \notin m.own => (j \notin own[d] \/ \A w \in Met(d, j) : Wins(log[s], w))
Takes(d, m, s, j) == s \in NextFor(d) /\ log[s].key = j /\ Accepts(d, log[s]) /\ TakenKey(d, m, s)

LEMMA HeldIs ==
    ASSUME TypeInv, NEW d \in Devices
    PROVE  Held(d) \in BookT /\ \A j \in Keys : SameKey(d, Held(d), j)
BY DEF Held, BookT, SameKey, TypeInv

LEMMA MergedIs ==
    ASSUME TypeInv, NEW d \in Devices, NEW s \in NextFor(d)
    PROVE  /\ log[s] \in EventT
           /\ Merged(d, log[s]) \in BookT
           /\ \A j \in Keys : SameKey(d, Merged(d, log[s]), j) \/ Takes(d, Merged(d, log[s]), s, j)
           /\ Accepts(d, log[s]) => TakenKey(d, Merged(d, log[s]), s)
<1> DEFINE e == log[s]
           m == Merged(d, log[s])
<1>1. e \in EventT
  BY ElementOfSeq DEF NextFor, Present, Seqs, TypeInv
<1>2. CASE ~ Accepts(d, e)
  <2>1. m = Held(d)
    BY <1>2 DEF Merged
  <2> QED
    BY <1>1, <1>2, <2>1, HeldIs
<1>3. CASE Accepts(d, e)
  <2>1. m = [stamp   |-> [stamp[d] EXCEPT ![e.key] = [at |-> e.at, device |-> e.device]],
             waiting |-> [waiting[d] EXCEPT ![e.key] = IF e.value = value[d][e.key] THEN Nothing ELSE e.value],
             dirty   |-> dirty[d] \ {e.key},
             seed    |-> seed[d] \ {e.key},
             own     |-> StillOwn(d, e)]
    BY <1>3 DEF Merged
  <2>2. StillOwn(d, e) \in SUBSET Keys /\ \A j \in Keys : j # e.key => (j \in StillOwn(d, e) <=> j \in own[d])
    BY DEF StillOwn, TypeInv
  <2>3. /\ stamp[d] \in [Keys -> Stamps] /\ waiting[d] \in [Keys -> Settings \cup {Nothing}]
        /\ e.key \in Keys /\ e.value \in Settings /\ [at |-> e.at, device |-> e.device] \in Stamps
        /\ dirty[d] \in SUBSET Keys /\ seed[d] \in SUBSET Keys
    BY <1>1 DEF TypeInv, EventT, Stamps
  <2>4. m \in BookT
    BY <2>1, <2>2, <2>3 DEF BookT
  <2>5. \A j \in Keys : j # e.key => SameKey(d, m, j)
    BY <2>1, <2>2, <2>3 DEF SameKey
  <2>6. TakenKey(d, m, s)
    BY <2>1, <2>3 DEF TakenKey, StillOwn
  <2> QED
    BY <1>1, <1>3, <2>4, <2>5, <2>6 DEF Takes
<1> QED
  BY <1>2, <1>3

\* The books after a page, key by key.
Offers(d, m, more, j) == ~ more /\ j \in m.seed \ kept[d]
PageBooks(d, m, more) ==
    /\ stamp' \in [Devices -> [Keys -> Stamps]] /\ waiting' \in [Devices -> [Keys -> Settings \cup {Nothing}]]
    /\ dirty' \in [Devices -> SUBSET Keys] /\ seed' \in [Devices -> SUBSET Keys] /\ own' \in [Devices -> SUBSET Keys]
    /\ undercut' \subseteq Keys /\ undercut \subseteq undercut'
    /\ \A e \in Devices \ {d} : stamp'[e] = stamp[e] /\ waiting'[e] = waiting[e] /\ dirty'[e] = dirty[e]
                               /\ seed'[e] = seed[e] /\ own'[e] = own[e]
    /\ waiting'[d] = m.waiting /\ own'[d] = m.own /\ seed'[d] = (IF more THEN m.seed ELSE {})
    /\ \A j \in Keys : Offers(d, m, more, j) =>
          /\ stamp'[d][j] = [at |-> Oldest, device |-> d] /\ j \in dirty'[d]
          /\ m.stamp[j] # NoStamp => j \in undercut'
    /\ \A j \in Keys : ~ Offers(d, m, more, j) => stamp'[d][j] = m.stamp[j] /\ (j \in dirty'[d] <=> j \in m.dirty)

LEMMA PageIs ==
    ASSUME TypeInv, NEW d \in Devices, NEW m \in BookT, NEW more \in BOOLEAN, PageApplied(d, m, more)
    PROVE  PageBooks(d, m, more)
<1> DEFINE b == IF more THEN m ELSE Offered(d, m)
           S == m.seed \ kept[d]
<1>1. /\ stamp' = [stamp EXCEPT ![d] = b.stamp] /\ waiting' = [waiting EXCEPT ![d] = b.waiting]
      /\ dirty' = [dirty EXCEPT ![d] = b.dirty] /\ seed' = [seed EXCEPT ![d] = b.seed]
      /\ own' = [own EXCEPT ![d] = b.own]
      /\ undercut' = IF more THEN undercut ELSE undercut \cup {k \in S : m.stamp[k] # NoStamp}
  BY DEF PageApplied
<1>2. /\ m.stamp \in [Keys -> Stamps] /\ m.waiting \in [Keys -> Settings \cup {Nothing}]
      /\ m.dirty \in SUBSET Keys /\ m.seed \in SUBSET Keys /\ m.own \in SUBSET Keys
  BY DEF BookT
<1>3. /\ Offered(d, m).stamp = [k \in Keys |-> IF k \in S THEN [at |-> Oldest, device |-> d] ELSE m.stamp[k]]
      /\ Offered(d, m).waiting = m.waiting /\ Offered(d, m).own = m.own
      /\ Offered(d, m).seed = {} /\ Offered(d, m).dirty = m.dirty \cup S
  BY DEF Offered, BookT
<1>4. [at |-> Oldest, device |-> d] \in Stamps
  BY DEF Stamps, Oldest
<1>5. /\ b.stamp \in [Keys -> Stamps] /\ b.waiting = m.waiting /\ b.own = m.own
      /\ b.seed = (IF more THEN m.seed ELSE {}) /\ b.dirty \in SUBSET Keys
      /\ \A j \in Keys : Offers(d, m, more, j) => b.stamp[j] = [at |-> Oldest, device |-> d] /\ j \in b.dirty
      /\ \A j \in Keys : ~ Offers(d, m, more, j) => b.stamp[j] = m.stamp[j] /\ (j \in b.dirty <=> j \in m.dirty)
  <2>1. CASE more
    BY <1>2, <2>1 DEF Offers
  <2>2. CASE ~ more
    BY <1>2, <1>3, <1>4, <2>2 DEF Offers
  <2> QED
    BY <2>1, <2>2
<1> HIDE DEF b
<1>6. /\ undercut' \subseteq Keys /\ undercut \subseteq undercut'
      /\ \A j \in Keys : Offers(d, m, more, j) /\ m.stamp[j] # NoStamp => j \in undercut'
  BY <1>1, <1>2 DEF TypeInv, Offers
<1>7. /\ stamp' \in [Devices -> [Keys -> Stamps]] /\ waiting' \in [Devices -> [Keys -> Settings \cup {Nothing}]]
      /\ dirty' \in [Devices -> SUBSET Keys] /\ seed' \in [Devices -> SUBSET Keys] /\ own' \in [Devices -> SUBSET Keys]
  BY <1>1, <1>2, <1>5 DEF TypeInv
<1>8. /\ \A e \in Devices \ {d} : stamp'[e] = stamp[e] /\ waiting'[e] = waiting[e] /\ dirty'[e] = dirty[e]
                               /\ seed'[e] = seed[e] /\ own'[e] = own[e]
      /\ stamp'[d] = b.stamp /\ waiting'[d] = b.waiting /\ dirty'[d] = b.dirty /\ seed'[d] = b.seed /\ own'[d] = b.own
  BY <1>1 DEF TypeInv
<1> QED
  BY <1>5, <1>6, <1>7, <1>8 DEF PageBooks

\* A page of one machine, key by key and event by event.
PageOf(d, m, more) ==
    /\ m \in BookT /\ PageBooks(d, m, more)
    /\ \A j \in Keys : SameKey(d, m, j) \/ \E s \in Seqs : Takes(d, m, s, j)
    /\ \A t \in Present : t <= cursor'[d] => t <= cursor[d] \/ (t \in NextFor(d) /\ (Accepts(d, log[t]) => TakenKey(d, m, t)))
    /\ \A e \in Devices \ {d} : cursor'[e] = cursor[e]
    /\ link[d] = "up" /\ UNCHANGED <<log, dropped, value, kept>> /\ WritesStay /\ PairedStay

GivenThen(e, k) == \A t \in Present : log[t].key = k /\ t <= cursor'[e] => ~ Wins(log[t], stamp[e][k])
QuietKey(e, k) ==
    /\ UNCHANGED <<log, dropped, value, kept>> /\ undercut \subseteq undercut'
    /\ stamp'[e][k] = stamp[e][k] /\ waiting'[e][k] = waiting[e][k]
    /\ (k \in dirty'[e] <=> k \in dirty[e]) /\ (k \in own'[e] <=> k \in own[e])
    /\ (k \in seed'[e] => k \in seed[e]) /\ (k \in seed[e] => k \in seed'[e] \cup own[e])

\* A key whose books stand while its machine goes on reading.
LEMMA QuietStep ==
    ASSUME TypeInv, NEW e \in Devices, NEW k \in Keys, AtKey(e, k), QuietKey(e, k),
           WritesStay, PairedStay, Plain(e, k) => GivenThen(e, k)
    PROVE  AtKey(e, k)'
<1>1. /\ Plain(e, k)' => Plain(e, k)
      /\ Mine(e, k)' <=> Mine(e, k)
      /\ Seqs' = Seqs /\ Present' = Present
  BY DEF QuietKey, Plain, Mine, Seqs, Present
<1>2. stamp'[e][k] = NoStamp => NothingKnown(e, k)'
  <2> SUFFICES ASSUME stamp'[e][k] = NoStamp PROVE NothingKnown(e, k)'
    OBVIOUS
  <2>1. NothingKnown(e, k)
    BY DEF AtKey, QuietKey
  <2>2. k \notin dirty'[e] /\ waiting'[e][k] = Nothing
    BY <2>1 DEF NothingKnown, QuietKey
  <2>3. \A a, v : ~ Wrote(e, k, a, v)'
    BY <2>1, <2>2 DEF NothingKnown, WritesStay, Current
  <2>4. link'[e] # "unpaired" /\ k \notin own'[e] \cup seed'[e] => value'[e][k] = Unset
    BY <2>1 DEF NothingKnown, QuietKey, PairedStay
  <2> QED
    BY <2>2, <2>3, <2>4 DEF NothingKnown
<1>3. ASSUME Plain(e, k)', NEW a, NEW v, Wrote(e, k, a, v)'
      PROVE  ~ Wins([at |-> a, device |-> e], stamp[e][k])' /\ (Mine(e, k)' /\ a = (stamp[e][k].at)' => v = value'[e][k])
  <2>1. CASE Wrote(e, k, a, v)
    BY <1>1, <1>3, <2>1 DEF AtKey, QuietKey, Wins
  <2>2. CASE Current(e, k, a, v)'
    <3>1. a = stamp[e][k].at /\ stamp[e][k].device = e /\ v = value'[e][k]
      BY <2>2 DEF Current, AtKey, QuietKey, Mine
    <3>2. stamp[e][k] \in Stamps
      BY DEF TypeInv
    <3>3. ~ Wins([at |-> a, device |-> e], stamp[e][k])
      BY <3>1, <3>2, SyncLinkAssumption, SMT DEF Wins, Stamps, NoStamp
    <3> QED
      BY <3>1, <3>3 DEF QuietKey, Wins
  <2> QED
    BY <1>3, <2>1, <2>2 DEF WritesStay
<1>4. Plain(e, k)' => \A t \in Present' : log'[t].key = k /\ t <= cursor'[e] => ~ Wins(log'[t], stamp'[e][k])
  BY <1>1 DEF GivenThen, QuietKey
<1>5. Plain(e, k)' /\ stamp'[e][k] # NoStamp /\ ~ Mine(e, k)' => SourceOf(e, k)'
  <2>1. Chosen(e, k)' = Chosen(e, k)
    BY DEF Chosen, QuietKey
  <2> QED
    BY <1>1, <2>1 DEF AtKey, QuietKey, SourceOf
<1>6. Plain(e, k)' /\ Mine(e, k)' => k \in dirty'[e] \/ OnServer(e, k)'
  BY <1>1 DEF AtKey, QuietKey, OnServer
<1>7. /\ k \in kept'[e] => k \in own'[e]
      /\ k \in dirty'[e] => Mine(e, k)'
      /\ waiting'[e][k] # Nothing => ~ Mine(e, k)' /\ k \notin seed'[e] \cup kept'[e]
  BY <1>1 DEF AtKey, QuietKey
<1> QED
  BY <1>2, <1>3, <1>4, <1>5, <1>6, <1>7 DEF AtKey

\* Stamps are totally ordered by when, then by whom.
LEMMA WinsOrder ==
    ASSUME NEW x, NEW y, NEW z, x.at \in Nat, y.at \in Nat, z.at \in Nat,
           x.device \in Nat, y.device \in Nat, z.device \in Nat
    PROVE  /\ ~ Wins(x, x)
           /\ Wins(x, y) => ~ Wins(y, x)
           /\ Wins(x, z) /\ ~ Wins(y, z) => Wins(x, y)
           /\ ~ Wins(x, y) /\ ~ Wins(y, x) => x.at = y.at /\ x.device = y.device
BY SMT DEF Wins

LEMMA StampsAre ==
    ASSUME TypeInv, NEW d \in Devices, NEW k \in Keys
    PROVE  stamp[d][k] \in Stamps /\ stamp[d][k].at \in Nat /\ stamp[d][k].device \in Nat
<1>1. stamp[d][k] \in Stamps
  BY DEF TypeInv
<1>2. \A e \in Devices : e \in Nat
  BY SyncLinkAssumption
<1>3. CASE stamp[d][k] = NoStamp
  BY <1>1, <1>3, SMT DEF NoStamp
<1>4. CASE stamp[d][k] \in [at : Nat, device : Devices]
  BY <1>1, <1>2, <1>4
<1> QED
  BY <1>1, <1>3, <1>4 DEF Stamps

LEMMA EventIs ==
    ASSUME TypeInv, NEW t \in Seqs
    PROVE  /\ log[t] \in EventT /\ log[t].key \in Keys /\ log[t].value \in Settings
           /\ log[t].at \in Nat /\ log[t].device \in Nat /\ log[t].device \in Devices /\ log[t].device # 0
           /\ Wins(log[t], NoStamp)
<1>1. log[t] \in EventT
  BY ElementOfSeq DEF TypeInv, Seqs
<1>2. log[t].at \in Nat /\ log[t].device \in Devices /\ log[t].device \in Nat \ {0}
  BY <1>1, SyncLinkAssumption DEF EventT
<1>3. Wins(log[t], NoStamp)
  BY <1>2, SMT DEF Wins, NoStamp
<1> QED
  BY <1>1, <1>2, <1>3 DEF EventT

\* The next event, where it is accepted: it wins against all that was given or written before.
LEMMA TakenStep ==
    ASSUME TypeInv, NEW d \in Devices, NEW m, NEW more \in BOOLEAN, PageOf(d, m, more),
           NEW s \in Seqs, NEW k \in Keys, Takes(d, m, s, k), AtKey(d, k)
    PROVE  AtKey(d, k)'
<1> DEFINE e == log[s]
<1>1. /\ s \in NextFor(d) /\ e.key = k /\ e.device # d /\ k \notin kept[d] /\ Wins(e, stamp[d][k])
      /\ m.stamp[k] = [at |-> e.at, device |-> e.device]
      /\ m.waiting[k] = IF e.value = value[d][k] THEN Nothing ELSE e.value
      /\ k \notin m.dirty /\ k \notin m.seed
      /\ k \notin m.own => (k \notin own[d] \/ \A w \in Met(d, k) : Wins(e, w))
  BY DEF Takes, TakenKey, Accepts
<1>2. ~ Offers(d, m, more, k) /\ PageBooks(d, m, more)
  BY <1>1 DEF Offers, PageOf
<1>3. /\ stamp'[d][k] = [at |-> e.at, device |-> e.device] /\ k \notin dirty'[d] /\ k \notin seed'[d]
      /\ waiting'[d][k] = (IF e.value = value[d][k] THEN Nothing ELSE e.value)
      /\ (k \in own'[d] <=> k \in m.own) /\ undercut \subseteq undercut'
  BY <1>1, <1>2 DEF PageBooks
<1>4. /\ e.at \in Nat /\ e.device \in Nat /\ e.device # 0 /\ e.value \in Settings /\ e.value # Nothing
      /\ stamp[d][k].at \in Nat /\ stamp[d][k].device \in Nat /\ d \in Nat
  BY EventIs, StampsAre, SyncLinkAssumption DEF Settings
<1>5. /\ UNCHANGED <<log, dropped, value, kept>> /\ Seqs' = Seqs /\ Present' = Present
  BY DEF PageOf, Seqs, Present
<1>6. ~ Mine(d, k)' /\ stamp'[d][k] # NoStamp
  BY <1>1, <1>3, <1>4 DEF Mine, NoStamp
<1>7. Chosen(d, k)' = e.value
  BY <1>3, <1>4, <1>5 DEF Chosen
\* What was met, with the event to replace it.
<1>8. ASSUME Plain(d, k)', NEW w, w.at \in Nat, w.device \in Nat, Plain(d, k) => ~ Wins(w, stamp[d][k]),
             [at |-> w.at, device |-> w.device] \in Met(d, k)
      PROVE  Wins(e, w) /\ ~ Wins(w, e)
  <2>1. CASE k \notin own[d]
    <3>1. Plain(d, k)
      BY <1>3, <1>8, <2>1 DEF Plain
    <3>2. ~ Wins(w, stamp[d][k]) /\ Wins(e, stamp[d][k])
      BY <1>1, <1>8, <3>1
    <3> QED
      BY <1>4, <1>8, <3>2, SMT DEF Wins
  <2>2. CASE k \in own[d]
    <3>1. Wins(e, [at |-> w.at, device |-> w.device])
      BY <1>1, <1>3, <1>8, <2>2 DEF Plain
    <3> QED
      BY <1>4, <1>8, <3>1, SMT DEF Wins
  <2> QED
    BY <2>1, <2>2
<1>9. ASSUME Plain(d, k)', NEW a, NEW v, Wrote(d, k, a, v)'
      PROVE  ~ Wins([at |-> a, device |-> d], stamp[d][k])'
  <2>1. Wrote(d, k, a, v)
    BY <1>3, <1>9 DEF PageOf, WritesStay, Current
  <2>2. a \in Nat /\ [at |-> a, device |-> d] \in Met(d, k)
    BY <2>1, WroteIsMet
  <2> DEFINE w == [at |-> a, device |-> d]
  <2>3. w.at \in Nat /\ w.device \in Nat /\ [at |-> w.at, device |-> w.device] = w
    BY <1>4, <2>2
  <2>4. Plain(d, k) => ~ Wins(w, stamp[d][k])
    BY <2>1 DEF AtKey
  <2> HIDE DEF w
  <2>5. ~ Wins(w, e)
    BY <1>8, <1>9, <2>2, <2>3, <2>4 DEF w
  <2> QED
    BY <1>3, <2>5 DEF Wins, w
<1>10. ASSUME Plain(d, k)', NEW t \in Present, log[t].key = k, t <= cursor[d]
       PROVE  Wins(e, log[t]) /\ ~ Wins(log[t], e)
  <2>1. t \in Seqs
    BY DEF Present
  <2>2. [at |-> log[t].at, device |-> log[t].device] \in Met(d, k) /\ log[t].at \in Nat /\ log[t].device \in Nat
    BY <1>10, <2>1, GivenIsMet, EventIs
  <2>3. Plain(d, k) => ~ Wins(log[t], stamp[d][k])
    BY <1>10 DEF AtKey
  <2> QED
    BY <1>8, <1>10, <2>2, <2>3
<1>11. ASSUME Plain(d, k)', NEW t \in Present', log'[t].key = k, t <= cursor'[d]
       PROVE  ~ Wins(log'[t], stamp'[d][k])
  <2>1. t \in Present /\ log' = log
    BY <1>5, <1>11
  <2>2. CASE t <= cursor[d]
    BY <1>3, <1>10, <1>11, <2>1, <2>2 DEF Wins
  <2>3. CASE t \in NextFor(d)
    <3>1. t = s
      BY <1>1, <2>1, <2>3, SMT DEF NextFor, Present, Seqs
    <3> QED
      BY <1>3, <1>4, <2>1, <3>1, SMT DEF Wins
  <2> QED
    BY <1>11, <2>1, <2>2, <2>3 DEF PageOf
<1>12. ASSUME Plain(d, k)' PROVE SourceOf(d, k)'
  <2>1. ASSUME NEW t \in Present, log[t].key = k, t < s PROVE Wins(e, log[t])
    <3>1. t <= cursor[d]
      <4>1. cursor[d] \in Nat /\ t \in Nat /\ s \in Nat
        BY LenProperties DEF TypeInv, Present, Seqs
      <4> QED
        BY <1>1, <2>1, <4>1, SMT DEF NextFor
    <3> QED
      BY <1>10, <1>12, <2>1, <3>1
  <2> QED
    BY <1>1, <1>3, <1>5, <1>7, <2>1 DEF SourceOf
<1> QED
  BY <1>1, <1>3, <1>5, <1>6, <1>9, <1>11, <1>12 DEF AtKey

\* A key offered anew: where no stamp was taken before, the machine was given nothing of it.
LEMMA OfferStep ==
    ASSUME TypeInv, NEW d \in Devices, NEW m, NEW more \in BOOLEAN, PageOf(d, m, more),
           NEW k \in Keys, Offers(d, m, more, k), SameKey(d, m, k), AtKey(d, k)
    PROVE  AtKey(d, k)'
<1>1. /\ k \in seed[d] /\ k \notin kept[d] /\ waiting[d][k] = Nothing /\ m.waiting[k] = Nothing
      /\ m.stamp[k] = stamp[d][k]
  BY DEF Offers, SameKey, AtKey
<1>2. /\ stamp'[d][k] = [at |-> Oldest, device |-> d] /\ k \in dirty'[d] /\ undercut \subseteq undercut'
      /\ waiting'[d][k] = Nothing /\ (stamp[d][k] # NoStamp => k \in undercut') /\ (k \in own'[d] <=> k \in own[d])
      /\ UNCHANGED <<log, dropped, value, kept>> /\ Present' = Present
  BY <1>1 DEF PageOf, PageBooks, SameKey, Present, Seqs
<1>3. Mine(d, k)' /\ stamp'[d][k] # NoStamp
  BY <1>2, SyncLinkAssumption DEF Mine, NoStamp
<1>4. ASSUME Plain(d, k)' PROVE stamp[d][k] = NoStamp /\ Plain(d, k) /\ NothingKnown(d, k)
  BY <1>2, <1>4 DEF Plain, AtKey
<1>5. ASSUME Plain(d, k)', NEW t \in Present, log[t].key = k, t <= cursor'[d] PROVE FALSE
  <2>1. t \in Seqs /\ Wins(log[t], stamp[d][k])
    BY <1>4, <1>5, EventIs DEF Present
  <2>2. CASE t <= cursor[d]
    BY <1>4, <1>5, <2>1, <2>2 DEF AtKey
  <2>3. CASE t \in NextFor(d) /\ (Accepts(d, log[t]) => TakenKey(d, m, t))
    <3>1. ~ Accepts(d, log[t])
      BY <1>5, <2>3 DEF TakenKey, Offers
    <3>2. log[t].device = d
      BY <1>1, <1>5, <2>1, <3>1 DEF Accepts
    <3>3. Wrote(d, k, log[t].at, log[t].value)
      BY <1>5, <2>1, <3>2 DEF Wrote, OnLog
    <3> QED
      BY <1>4, <1>5, <3>3 DEF NothingKnown
  <2> QED
    BY <1>5, <2>2, <2>3 DEF PageOf
<1>6. ASSUME Plain(d, k)', NEW a, NEW v, Wrote(d, k, a, v)'
      PROVE  ~ Wins([at |-> a, device |-> d], stamp[d][k])' /\ v = value'[d][k]
  <2>1. Current(d, k, a, v)'
    BY <1>4, <1>6 DEF PageOf, WritesStay, NothingKnown
  <2>2. a = Oldest /\ v = value'[d][k]
    BY <1>2, <2>1 DEF Current
  <2> QED
    BY <1>2, <2>2, SyncLinkAssumption, SMT DEF Wins, Oldest
<1>7. Plain(d, k)' => \A t \in Present' : log'[t].key = k /\ t <= cursor'[d] => ~ Wins(log'[t], stamp'[d][k])
  BY <1>2, <1>5
<1> QED
  BY <1>1, <1>2, <1>3, <1>6, <1>7 DEF AtKey

\* A key whose stamp stands: the next event of it, if there is one, does not win.
LEMMA ReadOnStep ==
    ASSUME TypeInv, NEW d \in Devices, NEW m, NEW more \in BOOLEAN, PageOf(d, m, more),
           NEW k \in Keys, ~ Offers(d, m, more, k), SameKey(d, m, k), AtKey(d, k)
    PROVE  AtKey(d, k)'
<1>1. QuietKey(d, k)
  <2>1. /\ stamp'[d][k] = stamp[d][k] /\ waiting'[d][k] = waiting[d][k]
        /\ (k \in dirty'[d] <=> k \in dirty[d]) /\ (k \in own'[d] <=> k \in own[d])
        /\ undercut \subseteq undercut' /\ UNCHANGED <<log, dropped, value, kept>>
    BY DEF PageOf, PageBooks, SameKey
  <2>2. seed'[d] = (IF more THEN m.seed ELSE {}) /\ (k \in m.seed <=> k \in seed[d])
    BY DEF PageOf, PageBooks, SameKey
  <2>3. k \in seed[d] => k \in seed'[d] \cup own[d]
    BY <2>2 DEF Offers, AtKey
  <2>4. k \in seed'[d] => k \in seed[d]
    BY <2>2
  <2> QED
    BY <2>1, <2>3, <2>4 DEF QuietKey
<1>2. ASSUME Plain(d, k), NEW t \in Present, log[t].key = k, t <= cursor'[d]
      PROVE  ~ Wins(log[t], stamp[d][k])
  <2>1. t \in Seqs
    BY DEF Present
  <2>2. CASE t <= cursor[d]
    BY <1>2, <2>2 DEF AtKey
  <2>3. CASE t \in NextFor(d) /\ (Accepts(d, log[t]) => TakenKey(d, m, t))
    <3>1. CASE Accepts(d, log[t])
      <4>1. stamp[d][k] = [at |-> log[t].at, device |-> log[t].device]
        BY <1>2, <2>3, <3>1 DEF TakenKey, SameKey
      <4>2. log[t].at \in Nat /\ log[t].device \in Nat
        BY <2>1, EventIs
      <4> QED
        BY <4>1, <4>2, SMT DEF Wins
    <3>2. CASE log[t].device = d
      <4>1. Wrote(d, k, log[t].at, log[t].value)
        BY <1>2, <2>1, <3>2 DEF Wrote, OnLog
      <4>2. ~ Wins([at |-> log[t].at, device |-> d], stamp[d][k])
        BY <1>2, <4>1 DEF AtKey
      <4> QED
        BY <3>2, <4>2 DEF Wins
    <3>3. k \notin kept[d]
      BY <1>2 DEF Plain, AtKey
    <3> QED
      BY <1>2, <3>1, <3>2, <3>3 DEF Accepts
  <2> QED
    BY <1>2, <2>2, <2>3 DEF PageOf
<1>3. Plain(d, k) => GivenThen(d, k)
  BY <1>2 DEF GivenThen
<1> QED
  BY <1>1, <1>3, QuietStep DEF PageOf

LEMMA PageStep ==
    ASSUME IInv, NEW d \in Devices, NEW m, NEW more \in BOOLEAN, PageOf(d, m, more), NEW e \in Devices, NEW k \in Keys
    PROVE  AtKey(e, k)'
<1>1. TypeInv /\ AtKey(e, k)
  BY KeysOf DEF IInv
<1>2. CASE e = d
  <2>1. CASE \E s \in Seqs : Takes(d, m, s, k)
    BY <1>1, <1>2, <2>1, TakenStep
  <2>2. CASE SameKey(d, m, k) /\ Offers(d, m, more, k)
    BY <1>1, <1>2, <2>2, OfferStep
  <2>3. CASE SameKey(d, m, k) /\ ~ Offers(d, m, more, k)
    BY <1>1, <1>2, <2>3, ReadOnStep
  <2> QED
    BY <2>1, <2>2, <2>3 DEF PageOf
<1>3. CASE e # d
  <2>1. QuietKey(e, k)
    BY <1>3 DEF PageOf, PageBooks, QuietKey
  <2>2. cursor'[e] = cursor[e]
    BY <1>3 DEF PageOf
  <2>3. Plain(e, k) => GivenThen(e, k)
    BY <1>1, <2>2 DEF AtKey, GivenThen
  <2> QED
    BY <1>1, <2>1, <2>3, QuietStep DEF PageOf
<1> QED
  BY <1>2, <1>3

\* What a page leaves in flight: what was, and behind it what is now owed where an offer was made.
LEMMA PagePushesAre ==
    ASSUME OnePush, IInv, NEW d \in Devices, NEW m \in BookT, NEW more \in BOOLEAN, PageApplied(d, m, more),
           NEW pushes \in PagePushes(d, m, more)
    PROVE  /\ pushes \in Seq(PushT)
           /\ \A i \in DOMAIN pushes : pushes[i].events = CurrentPush(d)' \/ pushes[i].events \in OwnPushes(d)
           /\ \A i \in DOMAIN pushes : LogGrows => PushCredited(d, pushes[i])'
<1>1. CASE more \/ m.seed = {}
  <2>1. pushes = inflight[d] /\ inflight[d] \in Seq(PushT)
    BY <1>1 DEF PagePushes, IInv, TypeInv
  <2>2. \A i \in DOMAIN inflight[d] : inflight[d][i].events \in OwnPushes(d)
    BY DEF OwnPushes
  <2>3. ASSUME NEW i \in DOMAIN pushes, LogGrows PROVE PushCredited(d, pushes[i])'
    <3>1. PushCredited(d, pushes[i])
      BY <2>1 DEF IInv, Credited
    <3> QED
      BY <2>3, <3>1, OnLogStays DEF PushCredited
  <2> QED
    BY <2>1, <2>2, <2>3
<1>2. CASE ~ (more \/ m.seed = {})
  <2>1. pushes \in Flushes(inflight[d], Offered(d, m).dirty, value[d], Offered(d, m).stamp)
    BY <1>2 DEF PagePushes
  <2>2. dirty'[d] = Offered(d, m).dirty /\ stamp'[d] = Offered(d, m).stamp /\ value'[d] = value[d]
    BY <1>2 DEF PageApplied, IInv, TypeInv
  <2>3. pushes \in Flushes(inflight[d], dirty'[d], value'[d], stamp'[d])
    BY <2>1, <2>2
  <2>4. dirty'[d] \in SUBSET Keys /\ value'[d] \in [Keys -> Settings] /\ stamp'[d] \in [Keys -> Stamps]
    <3>1. TypeInv
      BY DEF IInv
    <3>2. PageBooks(d, m, more)
      BY <3>1, PageIs
    <3> QED
      BY <2>2, <3>1, <3>2 DEF TypeInv, PageBooks
  <2>5. /\ pushes \in Seq(PushT)
        /\ \A i \in DOMAIN pushes : pushes[i].events = CurrentPush(d)' \/ (i \in DOMAIN inflight[d] /\ pushes[i] = inflight[d][i])
        /\ \A i \in DOMAIN pushes : LogGrows => PushCredited(d, pushes[i])'
    BY <2>3, <2>4, PushedIs
  <2> QED
    BY <2>5 DEF OwnPushes
<1> QED
  BY <1>1, <1>2

\* A page, whatever becomes of the connection and of the ack.
LEMMA PagedStep ==
    ASSUME IInv, NEW d \in Devices, NEW m, NEW more \in BOOLEAN, PageOf(d, m, more), TypeInv', Credited'
    PROVE  IInv'
<1>1. ASSUME NEW e \in Devices, (link[e] = "unpaired")'
      PROVE  (seed[e] = {} /\ cursor[e] = 0 /\ inflight[e] = << >> /\ \A k \in Keys : stamp[e][k] = NoStamp)'
  <2>1. link[e] = "unpaired" /\ e # d /\ inflight'[e] = inflight[e]
    BY <1>1 DEF PageOf, PairedStay
  <2>2. seed'[e] = seed[e] /\ stamp'[e] = stamp[e] /\ cursor'[e] = cursor[e]
    BY <2>1 DEF PageOf, PageBooks
  <2> QED
    BY <2>1, <2>2 DEF IInv, Unpaired
<1>2. Unpaired'
  BY <1>1 DEF Unpaired
<1>3. \A e \in Devices, k \in Keys : AtKey(e, k)'
  BY PageStep
<1> QED
  BY <1>2, <1>3, FromKeys

\* The types after a page.
LEMMA PageTypes ==
    ASSUME IInv, NEW d \in Devices, NEW m \in BookT, NEW more \in BOOLEAN, PageApplied(d, m, more),
           inflight' \in [Devices -> Seq(PushT)], strays' \subseteq [device : Devices, events : EventsT],
           link' \in [Devices -> {"unpaired", "down", "up"}], cursor' \in [Devices -> 0..Len(log)]
    PROVE  TypeInv' /\ PageBooks(d, m, more)
<1>1. TypeInv
  BY DEF IInv
<1>2. PageBooks(d, m, more)
  BY <1>1, PageIs
<1>3. UNCHANGED <<log, dropped, value, kept, head, now>>
  BY DEF PageApplied
<1> QED
  BY <1>1, <1>2, <1>3 DEF TypeInv, PageBooks, Seqs

\* The merge of the next event.
Merging(d, s, m) == s \in NextFor(d) /\ m = Merged(d, log[s])

LEMMA MergingIs ==
    ASSUME TypeInv, NEW d \in Devices, NEW s, NEW m, Merging(d, s, m)
    PROVE  /\ m \in BookT /\ s \in Seqs
           /\ \A j \in Keys : SameKey(d, m, j) \/ \E t \in Seqs : Takes(d, m, t, j)
           /\ \A t \in Present : t <= s => t <= cursor[d] \/ (t \in NextFor(d) /\ (Accepts(d, log[t]) => TakenKey(d, m, t)))
<1>1. s \in NextFor(d) /\ s \in Seqs /\ s \in Present /\ m = Merged(d, log[s])
  BY DEF Merging, NextFor, Present
<1>2. /\ m \in BookT
      /\ \A j \in Keys : SameKey(d, m, j) \/ Takes(d, m, s, j)
      /\ Accepts(d, log[s]) => TakenKey(d, m, s)
  BY <1>1, MergedIs
<1>3. ASSUME NEW t \in Present, t <= s, ~ (t <= cursor[d]) PROVE t = s
  <2>1. cursor[d] \in Nat /\ t \in Nat /\ s \in Nat
    BY <1>1, LenProperties DEF TypeInv, Present, Seqs
  <2>2. s <= t
    BY <1>1, <1>3, <2>1, SMT DEF NextFor
  <2> QED
    BY <1>3, <2>1, <2>2, SMT
<1> QED
  BY <1>1, <1>2, <1>3

LEMMA ReceiveStep ==
    ASSUME OnePush, IInv, NEW d \in Devices, Receive(d)
    PROVE  IInv'
<1>0. PICK s \in NextFor(d) : \E more \in BOOLEAN :
          /\ link[d] = "up" /\ PageApplied(d, Merged(d, log[s]), more)
          /\ \E pushes \in PagePushes(d, Merged(d, log[s]), more) : inflight' = [inflight EXCEPT ![d] = pushes]
          /\ cursor' = [cursor EXCEPT ![d] = s]
          /\ UNCHANGED <<strays, link, bounds>>
  BY DEF Receive, MoreAfter
<1>1. PICK more \in BOOLEAN :
          /\ link[d] = "up" /\ PageApplied(d, Merged(d, log[s]), more)
          /\ \E pushes \in PagePushes(d, Merged(d, log[s]), more) : inflight' = [inflight EXCEPT ![d] = pushes]
          /\ cursor' = [cursor EXCEPT ![d] = s]
          /\ UNCHANGED <<strays, link, bounds>>
  BY <1>0
<1>m. PICK m : m = Merged(d, log[s])
  OBVIOUS
<1>2. PICK pushes \in PagePushes(d, m, more) : inflight' = [inflight EXCEPT ![d] = pushes]
  BY <1>1, <1>m
<1>3. Merging(d, s, m) /\ TypeInv
  BY <1>m DEF Merging, IInv
<1>4. /\ m \in BookT /\ s \in Seqs
      /\ \A j \in Keys : SameKey(d, m, j) \/ \E t \in Seqs : Takes(d, m, t, j)
      /\ \A t \in Present : t <= s => t <= cursor[d] \/ (t \in NextFor(d) /\ (Accepts(d, log[t]) => TakenKey(d, m, t)))
  BY <1>3, MergingIs
<1>5. PageApplied(d, m, more)
  BY <1>1, <1>m
<1>6. LogGrows /\ UNCHANGED <<log, dropped, value, kept>>
  BY <1>3, <1>5, LogStill DEF PageApplied
<1>7. cursor' \in [Devices -> 0..Len(log)]
  <2>1. Len(log) \in Nat
    BY <1>3, LenProperties DEF TypeInv
  <2>2. s \in 0..Len(log)
    BY <1>4, <2>1, SMT DEF Seqs
  <2> QED
    BY <1>1, <1>3, <2>2 DEF TypeInv
<1>8. /\ pushes \in Seq(PushT)
      /\ \A i \in DOMAIN pushes : pushes[i].events = CurrentPush(d)' \/ pushes[i].events \in OwnPushes(d)
      /\ \A i \in DOMAIN pushes : PushCredited(d, pushes[i])'
  BY <1>2, <1>4, <1>5, <1>6, PagePushesAre
<1>9. inflight' \in [Devices -> Seq(PushT)]
  BY <1>2, <1>3, <1>8 DEF TypeInv
<1>10. TypeInv' /\ PageBooks(d, m, more)
  <2>1. strays' \subseteq [device : Devices, events : EventsT] /\ link' \in [Devices -> {"unpaired", "down", "up"}]
    BY <1>1, <1>3 DEF TypeInv
  <2> QED
    BY <1>4, <1>5, <1>7, <1>9, <2>1, PageTypes
<1>11. PushesStay
  BY <1>1, <1>2, <1>8, PushesReplaced, ZenonT(30)
<1>12. Credited'
  BY <1>2, <1>6, <1>8, CreditedReplaced
<1>13. WritesStay
  BY <1>3, <1>6, <1>11, StillWrites
<1>14. PairedStay
  BY <1>1, <1>2, <1>3 DEF PairedStay, TypeInv
<1>15. PageOf(d, m, more)
  <2>1. cursor'[d] = s /\ \A e \in Devices \ {d} : cursor'[e] = cursor[e]
    BY <1>1, <1>3 DEF TypeInv
  <2> QED
    BY <1>1, <1>4, <1>6, <1>10, <1>13, <1>14, <2>1 DEF PageOf
<1> QED
  BY <1>3, <1>10, <1>12, <1>15, PagedStep

\* The app stops after the merge: the books are written, and the cursor and the pushes are not.
LEMMA ReceiveUnackedStep ==
    ASSUME OnePush, IInv, NEW d \in Devices, ReceiveUnacked(d)
    PROVE  IInv'
<1>0. PICK s \in NextFor(d) : \E more \in BOOLEAN :
          /\ link[d] = "up" /\ PageApplied(d, Merged(d, log[s]), more)
          /\ \E pushes \in PagePushes(d, Merged(d, log[s]), more) : Lost(d, pushes)
          /\ UNCHANGED cursor
  BY DEF ReceiveUnacked, MoreAfter
<1>1. PICK more \in BOOLEAN :
          /\ link[d] = "up" /\ PageApplied(d, Merged(d, log[s]), more)
          /\ \E pushes \in PagePushes(d, Merged(d, log[s]), more) : Lost(d, pushes)
          /\ UNCHANGED cursor
  BY <1>0
<1> DEFINE m == Merged(d, log[s])
<1>2. PICK pushes \in PagePushes(d, m, more) : Lost(d, pushes)
  BY <1>1
<1>3. Merging(d, s, m) /\ TypeInv
  BY DEF Merging, IInv
<1> HIDE DEF m
<1>4. m \in BookT /\ \A j \in Keys : SameKey(d, m, j) \/ \E t \in Seqs : Takes(d, m, t, j)
  BY <1>3, MergingIs
<1>5. PageApplied(d, m, more)
  BY <1>1 DEF m
<1>6. LogGrows /\ UNCHANGED <<log, dropped, value, kept>>
  BY <1>3, <1>5, LogStill DEF PageApplied
<1>7. /\ pushes \in Seq(PushT)
      /\ \A i \in DOMAIN pushes : pushes[i].events = CurrentPush(d)' \/ pushes[i].events \in OwnPushes(d)
  BY <1>2, <1>3, <1>4, <1>5, PagePushesAre
<1>8. /\ link' \in [Devices -> {"unpaired", "down", "up"}] /\ inflight' \in [Devices -> Seq(PushT)]
      /\ strays' \subseteq [device : Devices, events : EventsT]
      /\ PushesStay /\ (LogGrows => Credited')
      /\ PairedStay
  BY <1>1, <1>2, <1>7, LostIs
<1>9. TypeInv' /\ PageBooks(d, m, more)
  BY <1>1, <1>3, <1>4, <1>5, <1>8, PageTypes DEF TypeInv
<1>10. WritesStay
  BY <1>3, <1>6, <1>8, StillWrites
<1>11. PageOf(d, m, more)
  BY <1>1, <1>4, <1>6, <1>8, <1>9, <1>10 DEF PageOf
<1> QED
  BY <1>6, <1>8, <1>9, <1>11, PagedStep

LEMMA CaughtUpStep ==
    ASSUME OnePush, IInv, NEW d \in Devices, CaughtUp(d)
    PROVE  IInv'
<1> DEFINE m == Held(d)
<1>1. /\ link[d] = "up" /\ PageApplied(d, m, FALSE)
      /\ \E pushes \in PagePushes(d, m, FALSE) : inflight' = [inflight EXCEPT ![d] = pushes]
      /\ UNCHANGED <<strays, cursor, link>>
  BY DEF CaughtUp
<1>2. PICK pushes \in PagePushes(d, m, FALSE) : inflight' = [inflight EXCEPT ![d] = pushes]
  BY <1>1
<1>3. TypeInv
  BY DEF IInv
<1>4. m \in BookT /\ \A j \in Keys : SameKey(d, m, j)
  BY <1>3, HeldIs
<1> HIDE DEF m
<1>5. LogGrows /\ UNCHANGED <<log, dropped, value, kept>>
  BY <1>1, <1>3, LogStill DEF PageApplied
<1>6. /\ pushes \in Seq(PushT)
      /\ \A i \in DOMAIN pushes : pushes[i].events = CurrentPush(d)' \/ pushes[i].events \in OwnPushes(d)
      /\ \A i \in DOMAIN pushes : PushCredited(d, pushes[i])'
  BY <1>1, <1>2, <1>3, <1>4, <1>5, PagePushesAre
<1>7. inflight' \in [Devices -> Seq(PushT)]
  BY <1>2, <1>3, <1>6 DEF TypeInv
<1>8. TypeInv' /\ PageBooks(d, m, FALSE)
  BY <1>1, <1>3, <1>4, <1>7, PageTypes DEF TypeInv
<1>9. PushesStay
  BY <1>1, <1>2, <1>6, PushesReplaced, ZenonT(30)
<1>10. Credited'
  BY <1>2, <1>5, <1>6, CreditedReplaced
<1>11. WritesStay
  BY <1>3, <1>5, <1>9, StillWrites
<1>12. PairedStay
  BY <1>1, <1>2, <1>3 DEF PairedStay, TypeInv
<1>13. PageOf(d, m, FALSE)
  BY <1>1, <1>4, <1>5, <1>8, <1>11, <1>12 DEF PageOf
<1> QED
  BY <1>8, <1>10, <1>13, PagedStep

-----------------------------------------------------------------------------
(* Nothing owed is lost.                                                    *)

LEMMA InitIInv ==
    ASSUME Init
    PROVE  IInv
<1>1. TypeInv
  BY SMT DEF Init, TypeInv, Settings, Stamps, NoStamp, Seqs
<1>2. log = << >> /\ Seqs = {} /\ Present = {} /\ \A d \in Devices : OwnPushes(d) = {}
  BY SMT DEF Init, Seqs, Present, OwnPushes
<1>3. \A d \in Devices, k \in Keys : \A a, v : ~ Wrote(d, k, a, v)
  BY <1>2 DEF Wrote, OnLog
<1>4. \A d \in Devices, k \in Keys : stamp[d][k] = NoStamp /\ ~ Mine(d, k)
  BY SyncLinkAssumption, SMT DEF Init, Mine, NoStamp
<1>5. Untouched
  BY <1>3 DEF Init, Untouched, NothingKnown
<1>6. Unpaired /\ BooksFit
  BY <1>4 DEF Init, Unpaired, BooksFit
<1>7. OneValue /\ OwnBehind /\ GivenBehind
  BY <1>2, <1>3 DEF OneValue, OwnBehind, GivenBehind
<1>8. Credited
  BY DEF Init, Credited
<1>9. Sourced /\ OwedUntilTaken
  BY <1>4 DEF Sourced, OwedUntilTaken, Mine
<1> QED
  BY <1>1, <1>5, <1>6, <1>7, <1>8, <1>9 DEF IInv

LEMMA NextIInv ==
    ASSUME OnePush, IInv, [Next]_vars
    PROVE  IInv'
<1>1. ASSUME NEW d \in Devices,
             Pair(d) \/ Welcome(d) \/ Disconnect(d) \/ Flush(d) \/ AppendPush(d) \/ Refuse(d) \/ Answered(d)
      PROVE  IInv'
  BY <1>1, PairStep, WelcomeStep, DisconnectStep, FlushStep, AppendPushStep, RefuseStep, AnsweredStep
<1>2. ASSUME NEW d \in Devices, Receive(d) \/ ReceiveUnacked(d) \/ CaughtUp(d)
      PROVE  IInv'
  BY <1>2, ReceiveStep, ReceiveUnackedStep, CaughtUpStep
<1>3. ASSUME NEW d \in Devices, NEW k \in Keys, NEW v \in Values \cup {Unset}, Edit(d, k, v)
      PROVE  IInv'
  BY <1>3, EditStep DEF Settings
<1>4. ASSUME NEW d \in Devices, NEW k \in Keys, Accept(d, k) \/ Decline(d, k) \/ Keep(d, k) \/ Unkeep(d, k)
      PROVE  IInv'
  BY <1>4, AcceptStep, DeclineStep, KeepStep, UnkeepStep
<1>5. ASSUME NEW x \in strays, AppendStray(x)
      PROVE  IInv'
  BY <1>5, AppendStrayStep
<1>6. CASE Compact
  BY <1>6, CompactStep
<1>7. CASE UNCHANGED vars
  <2>1. TypeInv'
    BY <1>7 DEF vars, server, book, bounds, IInv, TypeInv, Seqs
  <2>2. LogGrows /\ PushesStay /\ PairedStay
    <3>1. TypeInv /\ log' = log
      BY <1>7 DEF vars, server, IInv
    <3> QED
      BY <1>7, <3>1, LogStill DEF vars, server, PushesStay, PairedStay, OwnPushes
  <2>3. WritesStay
    BY <1>7, <2>2, StillWrites DEF vars, server, IInv
  <2>4. Credited'
    BY <1>7 DEF vars, server, IInv, Credited, PushCredited, OnLog, Seqs
  <2> QED
    BY <1>7, <2>1, <2>2, <2>3, <2>4, StillBooks DEF vars, server, book, IInv
<1> QED
  BY <1>1, <1>2, <1>3, <1>4, <1>5, <1>6, <1>7 DEF Next

\* A setting whose last write is a machine's own is owed, or the server has that write with the value
\* in force (onLocalWrite, flush, pushed, pushFailed): through refusals, connections lost with pushes
\* still to be read, edits in flight and compaction.
THEOREM NothingOwedIsLost ==
    ASSUME OnePush
    PROVE  Spec => []OwedUntilTaken
<1>1. Init => IInv
  BY InitIInv
<1>2. IInv /\ [Next]_vars => IInv'
  BY NextIInv
<1>3. IInv => OwedUntilTaken
  BY DEF IInv
<1> QED
  BY <1>1, <1>2, <1>3, PTL DEF Spec

-----------------------------------------------------------------------------
(* Every machine agrees.                                                    *)

Less == {x \in Nat \X Nat : x[1] < x[2]}

LEMMA LessWellFounded == IsWellFoundedOn(Less, Nat)
<1>1. OpToRel(<, Nat) = Less
  BY DEF OpToRel, Less
<1> QED
  BY <1>1, NatLessThanWellFounded

\* A machine for which there is no next event was given everything there is.
LEMMA AllGiven ==
    ASSUME TypeInv, NEW d \in Devices, NextFor(d) = {}, NEW t \in Present
    PROVE  t <= cursor[d]
<1> DEFINE S == {s \in Present : s > cursor[d]}
<1>1. S \subseteq Nat /\ cursor[d] \in Nat /\ t \in Nat
  BY LenProperties DEF TypeInv, Present, Seqs
<1>2. CASE S = {}
  BY <1>1, <1>2, SMT
<1>3. CASE S # {}
  <2>1. PICK x \in S : \A y \in S : ~ (<<y, x>> \in Less)
    BY <1>1, <1>3, LessWellFounded, WFMin, Zenon
  <2>2. \A y \in S : x <= y
    <3> TAKE y \in S
    <3>1. x \in Nat /\ y \in Nat /\ ~ (<<y, x>> \in Less)
      BY <1>1, <2>1
    <3> QED
      BY <3>1, SMT DEF Less
  <2>3. x \in NextFor(d)
    BY <2>1, <2>2 DEF NextFor
  <2> QED
    BY <2>3
<1> QED
  BY <1>2, <1>3

\* What a machine at rest has in force is what the newest write of the key says, and among equals
\* its own write or the first of them.
Stands(d, k, s) ==
    /\ s \in Present /\ log[s].key = k /\ log[s].value = Chosen(d, k)
    /\ \A t \in Present : log[t].key = k => ~ Wins(log[t], log[s])
    /\ \/ Mine(d, k) /\ log[s].device = d /\ stamp[d][k].at = log[s].at /\ waiting[d][k] = Nothing
       \/ ~ Mine(d, k) /\ log[s].device # d /\ \A t \in Present : log[t].key = k /\ t < s => Wins(log[s], log[t])

LEMMA AtRestStands ==
    ASSUME IInv, NEW d \in Devices, NEW k \in Keys, Plain(d, k), ~ Shadowed(k),
           link[d] = "up", dirty[d] = {}, seed[d] = {}, NextFor(d) = {}
    PROVE  \/ Chosen(d, k) = Unset /\ \A t \in Present : log[t].key # k
           \/ \E s \in Seqs : Stands(d, k, s)
<1>1. TypeInv /\ AtKey(d, k)
  BY KeysOf DEF IInv
<1>2. ASSUME NEW t \in Present, log[t].key = k PROVE ~ Wins(log[t], stamp[d][k]) /\ t \in Seqs
  <2>1. t <= cursor[d]
    BY <1>1, AllGiven
  <2> QED
    BY <1>1, <1>2, <2>1 DEF AtKey, Present
\* A write that matches the stamp was not compacted away: nothing newer took its place.
<1>3. ASSUME NEW s \in Seqs, log[s].key = k, log[s].at = stamp[d][k].at, log[s].device = stamp[d][k].device
      PROVE  s \in Present /\ \A t \in Present : log[t].key = k => ~ Wins(log[t], log[s])
  <2>1. \A t \in Present : log[t].key = k => ~ Wins(log[t], log[s])
    BY <1>2, <1>3 DEF Wins
  <2>2. s \notin dropped
    BY <1>3, <2>1 DEF Shadowed
  <2> QED
    BY <2>1, <2>2 DEF Present
<1>4. CASE stamp[d][k] = NoStamp
  <2>1. waiting[d][k] = Nothing /\ value[d][k] = Unset
    BY <1>1, <1>4 DEF AtKey, NothingKnown, Plain
  <2>2. \A t \in Present : log[t].key # k
    BY <1>1, <1>2, <1>4, EventIs
  <2> QED
    BY <2>1, <2>2 DEF Chosen
<1>5. CASE Mine(d, k)
  <2>1. OnServer(d, k) /\ waiting[d][k] = Nothing
    BY <1>1, <1>5 DEF AtKey
  <2>2. PICK s \in Seqs : log[s].key = k /\ log[s].device = d /\ log[s].at = stamp[d][k].at /\ log[s].value = value[d][k]
    BY <2>1 DEF OnServer
  <2>3. s \in Present /\ \A t \in Present : log[t].key = k => ~ Wins(log[t], log[s])
    BY <1>3, <1>5, <2>2 DEF Mine
  <2>4. Stands(d, k, s)
    BY <1>5, <2>1, <2>2, <2>3 DEF Stands, Chosen
  <2> QED
    BY <2>4
<1>6. CASE stamp[d][k] # NoStamp /\ ~ Mine(d, k)
  <2>1. PICK s \in Seqs : /\ log[s].key = k /\ log[s].at = stamp[d][k].at /\ log[s].device = stamp[d][k].device
                          /\ log[s].value = Chosen(d, k)
                          /\ \A t \in Present : log[t].key = k /\ t < s => Wins(log[s], log[t])
    BY <1>1, <1>6 DEF AtKey, SourceOf
  <2>2. s \in Present /\ \A t \in Present : log[t].key = k => ~ Wins(log[t], log[s])
    BY <1>3, <2>1
  <2>3. Stands(d, k, s)
    BY <1>6, <2>1, <2>2 DEF Stands, Mine
  <2> QED
    BY <2>3
<1> QED
  BY <1>4, <1>5, <1>6

LEMMA StandsAgree ==
    ASSUME IInv, NEW d \in Devices, NEW e \in Devices, NEW k \in Keys, Plain(d, k), Plain(e, k),
           NEW s \in Seqs, NEW t \in Seqs, Stands(d, k, s), Stands(e, k, t)
    PROVE  Chosen(d, k) = Chosen(e, k)
<1>1. /\ log[s].at \in Nat /\ log[s].device \in Nat /\ log[t].at \in Nat /\ log[t].device \in Nat
      /\ s \in Nat /\ t \in Nat
  BY EventIs DEF IInv, Seqs
<1>2. log[s].at = log[t].at /\ log[s].device = log[t].device
  <2>1. ~ Wins(log[t], log[s]) /\ ~ Wins(log[s], log[t])
    BY DEF Stands
  <2> QED
    BY <1>1, <2>1, SMT DEF Wins
\* One of them is the writer: all it wrote at that stamp is one value.
<1>3. ASSUME NEW x \in Devices, Plain(x, k), NEW u \in Seqs, NEW w \in Seqs, Stands(x, k, u), Mine(x, k),
             log[w].key = k, log[w].at = log[u].at, log[w].device = log[u].device
      PROVE  log[w].value = Chosen(x, k)
  <2>1. Wrote(x, k, log[w].at, log[w].value)
    BY <1>3 DEF Stands, Wrote, OnLog
  <2>2. log[w].at = stamp[x][k].at /\ waiting[x][k] = Nothing
    BY <1>3 DEF Stands
  <2> QED
    BY <1>3, <2>1, <2>2 DEF IInv, OneValue, Chosen
<1>4. CASE Mine(d, k)
  BY <1>2, <1>3, <1>4 DEF Stands
<1>5. CASE Mine(e, k)
  BY <1>2, <1>3, <1>5 DEF Stands
<1>6. CASE ~ Mine(d, k) /\ ~ Mine(e, k)
  <2>1. ~ Wins(log[s], log[t]) /\ ~ Wins(log[t], log[s])
    BY DEF Stands
  <2>2. ~ (s < t) /\ ~ (t < s)
    BY <1>6, <2>1 DEF Stands
  <2>3. s = t
    BY <1>1, <2>2, SMT
  <2> QED
    BY <2>3 DEF Stands
<1> QED
  BY <1>4, <1>5, <1>6

\* Once everything has been exchanged, two machines that have not made a setting differ have the same in
\* force or in review (acceptPref: newer wins, a tie to the larger device), but for a key whose newest
\* write compaction deleted or an offer stamped anew; and nothing waits for review that is kept or owed.
THEOREM MachinesAgree ==
    ASSUME OnePush
    PROVE  Spec => []EveryMachineAgrees
<1>1. Init => IInv
  BY InitIInv
<1>2. IInv /\ [Next]_vars => IInv'
  BY NextIInv
<1>3. IInv => EveryMachineAgrees
  <2> SUFFICES ASSUME IInv PROVE EveryMachineAgrees
    OBVIOUS
  <2>1. \A d \in Devices, k \in Keys : waiting[d][k] # Nothing => k \notin kept[d] \cup dirty[d]
    BY DEF IInv, BooksFit
  <2>2. ASSUME AtRest, NEW k \in Keys \ undercut, ~ Shadowed(k), NEW d \in Devices, k \notin own[d],
               NEW e \in Devices, k \notin own[e]
        PROVE  Chosen(d, k) = Chosen(e, k)
    <3>1. Plain(d, k) /\ Plain(e, k)
      BY <2>2 DEF Plain
    <3>2. /\ (Chosen(d, k) = Unset /\ \A t \in Present : log[t].key # k) \/ (\E s \in Seqs : Stands(d, k, s))
          /\ (Chosen(e, k) = Unset /\ \A t \in Present : log[t].key # k) \/ (\E s \in Seqs : Stands(e, k, s))
      BY <2>2, <3>1, AtRestStands DEF AtRest
    <3>3. CASE \E s, t \in Seqs : Stands(d, k, s) /\ Stands(e, k, t)
      BY <3>1, <3>3, StandsAgree
    <3> QED
      BY <3>2, <3>3 DEF Stands
  <2> QED
    BY <2>1, <2>2 DEF EveryMachineAgrees, Agreed
<1> QED
  BY <1>1, <1>2, <1>3, PTL DEF Spec
=============================================================================
