---------------------------- MODULE Window_proofs ----------------------------
(***************************************************************************)
(* Parts of the window.  The connection threads and the window they feed:  *)
(* the cursor stands for what has been applied, and the status shown is of *)
(* the connection that is left; for any servers, events, threads, queues   *)
(* and acts, but for the orders that Calm leaves out.  Then, taken in with *)
(* INSTANCE, parts that share nothing with it: Cleanup, KeepAwake,         *)
(* Presence, Adoption, Memory, Claims, Lifecycle.                          *)
(***************************************************************************)
EXTENDS Supervisor, FiniteSets, SequenceTheorems, FiniteSetTheorems, WellFoundedInduction, TLAPS

States == {"none", "start", "dial", "opened", "greet", "say", "top", "hear", "wait", "gone"}
ServersOrNone == Servers \cup {0}
ConfigT == [srv : Servers, cursor : Nat] \cup {None}
StatusT == [srv : ServersOrNone, cursor : Nat, up : BOOLEAN, halted : BOOLEAN]
ThreadT == [st : States, srv : ServersOrNone, tok : ServersOrNone, sent : Nat, lost : BOOLEAN]
WordT == [kind : {"status"}, up : BOOLEAN] \cup [kind : {"welcome"}]
BatchT == [kind : {"batch"}, from : 1..Gens, seq : Nat]
EventT == WordT \cup BatchT

\* What the theorems assume: the orders of Calm do not happen, and servers are numbered.
Ordered == Calm /\ Gens \in Nat /\ Servers \subseteq Nat \ {0} /\ 1 \in Servers

TypeInv ==
    /\ disk \in ConfigT /\ token \in ServersOrNone /\ gen \in 0..Gens /\ ready \in BOOLEAN
    /\ status \in StatusT /\ thread \in [1..Gens -> ThreadT] /\ events \in Seq(EventT)
    /\ window \in {"loading", "listens", "started"} /\ showsUp \in BOOLEAN
    /\ merged \in [Servers -> SUBSET Nat] /\ acks \in Seq(Nat)
    /\ acking \in [step : {"", "read", "write"}, seq : Nat, cfg : ConfigT]
    /\ pairing \in [step : {"", "saved", "written"}, srv : ServersOrNone, heard : BOOLEAN]

-----------------------------------------------------------------------------
(* What the cursor rests on.                                                *)

IsBatch(ev) == ev.kind = "batch"

\* The file has the server that is served; when a pairing is not served nothing is under way.
Quiet ==
    /\ acks = <<>> /\ acking = Idle /\ \A i \in DOMAIN events : ~ IsBatch(events[i])
    /\ \A n \in 1..Gens : thread[n].st \in {"none", "gone"}
Serving == status.srv # 0
Matches == (Serving => disk # None /\ disk.srv = status.srv) /\ (disk # None /\ ~ Serving => Quiet)

\* An acknowledgement stands for all below it.
Had(k) == 1..k \subseteq merged[status.srv]
AcksEarned ==
    /\ Serving => (\A i \in DOMAIN acks : Had(acks[i])) /\ (acking # Idle => Had(acking.seq))
    /\ acking.step = "write" => acking.cfg = disk /\ disk # None

\* What a batch comes after has been applied, or is ahead of it.
Brought(s, q, n) == \E j \in 1..n : IsBatch(q[j]) /\ q[j].seq = s
EventsEarned ==
    Serving => \A i \in DOMAIN events : IsBatch(events[i]) =>
        /\ thread[events[i].from].srv = status.srv
        /\ \A s \in Nat \ {0} : s < events[i].seq => s \in merged[status.srv] \/ Brought(s, events, i - 1)

\* A thread that may pass on another batch has the rest applied, or waiting, unless it lost some.
MayEmit(n) == thread[n].st = "hear" \/ (n = gen /\ thread[n].st \notin {"none", "gone"})
Owed(n, s) == \E j \in DOMAIN events : IsBatch(events[j]) /\ events[j].from = n /\ events[j].seq = s
SentEarned(n) == \A s \in Nat \ {0} : s <= thread[n].sent => s \in merged[status.srv] \/ Owed(n, s)
ThreadsEarned ==
    Serving => \A n \in 1..Gens : MayEmit(n) =>
        /\ thread[n].srv = status.srv
        /\ thread[n].st \notin {"wait", "start"} /\ ~ thread[n].lost => SentEarned(n)

\* Threads begin one after another, and speak only then.
NoneAhead ==
    /\ \A n \in 1..Gens : n > gen => thread[n] = NoThread
    /\ \A i \in DOMAIN events : IsBatch(events[i]) => events[i].from <= gen

CursorInv == Matches /\ AcksEarned /\ EventsEarned /\ ThreadsEarned /\ NoneAhead /\ CursorIsEarned

-----------------------------------------------------------------------------
(* What the status rests on.                                                *)

Live == {"say", "top", "hear"}
Word(ev) == ev.kind = "welcome" \/ ev.up

\* A live connection of the thread that is left is alone.
LeftIsUp == gen > 0 /\ thread[gen].st \in Live => status.up /\ Retiring = {}
UpIsLive == status.up => \E n \in 1..gen : thread[n].st \in Live
SaysIsLeft == \A n \in 1..Gens : thread[n].st = "say" => n = gen
HaltIsOwn == status.halted => gen > 0 /\ thread[gen].st = "gone" /\ thread[gen].srv # thread[gen].tok

\* The last word about the connection that the window will hear, or else has heard, is true.
LastWord(q, up) == \A i \in DOMAIN q : ~ IsBatch(q[i]) /\ (\A j \in DOMAIN q : i < j => IsBatch(q[j])) => Word(q[i]) = up
NoWord(q) == \A i \in DOMAIN q : IsBatch(q[i])
ToldIsTrue ==
    /\ window = "loading" => events = <<>>
    /\ window # "loading" => LastWord(events, status.up)
    /\ window = "started" /\ NoWord(events) => showsUp = status.up

StatusInv == LeftIsUp /\ UpIsLive /\ SaysIsLeft /\ HaltIsOwn /\ ToldIsTrue

IInv == TypeInv /\ CursorInv /\ StatusInv

-----------------------------------------------------------------------------
(* Queues of events.                                                        *)

LEMMA Queues ==
    ASSUME NEW q \in Seq(EventT), NEW x \in EventT
    PROVE  LET r == Append(q, x) IN
           /\ Len(q) \in Nat /\ DOMAIN q = 1..Len(q) /\ \A i \in DOMAIN q : q[i] \in EventT
           /\ r \in Seq(EventT) /\ DOMAIN r = 1..(Len(q) + 1)
           /\ r[Len(q) + 1] = x /\ \A i \in DOMAIN q : i \in DOMAIN r /\ r[i] = q[i]
<1> DEFINE r == Append(q, x)
<1>1. Len(q) \in Nat /\ DOMAIN q = 1..Len(q) /\ \A i \in DOMAIN q : q[i] \in EventT
  BY ElementOfSeq, LenProperties
<1>2. r \in Seq(EventT) /\ Len(r) = Len(q) + 1 /\ r[Len(q) + 1] = x /\ \A i \in 1..Len(q) : r[i] = q[i]
  BY AppendProperties
<1> HIDE DEF r
<1>3. DOMAIN r = 1..(Len(q) + 1)
  BY <1>2, LenProperties
<1>4. \A i \in 1..Len(q) : i \in 1..(Len(q) + 1)
  BY <1>1
<1> QED
  BY <1>1, <1>2, <1>3, <1>4 DEF r

LEMMA Kinds == \A ev \in EventT : (ev \in WordT <=> ~ IsBatch(ev)) /\ (ev \in BatchT <=> IsBatch(ev))
BY DEF EventT, WordT, BatchT, IsBatch

\* A word is the last word; a batch leaves it as it was.
LEMMA WordLast ==
    ASSUME NEW q \in Seq(EventT), NEW w \in WordT
    PROVE  /\ LastWord(Append(q, w), Word(w)) /\ ~ NoWord(Append(q, w))
           /\ \A i \in DOMAIN Append(q, w) : IsBatch(Append(q, w)[i]) => i \in DOMAIN q /\ Append(q, w)[i] = q[i]
<1> DEFINE r == Append(q, w)
<1>1. w \in EventT /\ ~ IsBatch(w)
  BY DEF EventT, WordT, IsBatch
<1>2. /\ Len(q) \in Nat /\ DOMAIN q = 1..Len(q) /\ DOMAIN r = 1..(Len(q) + 1)
      /\ r[Len(q) + 1] = w /\ \A i \in DOMAIN q : r[i] = q[i]
  BY <1>1, Queues
<1> HIDE DEF r
<1>3. Len(q) + 1 \in DOMAIN r /\ \A i \in DOMAIN r : i = Len(q) + 1 \/ (i \in DOMAIN q /\ i < Len(q) + 1)
  BY <1>2
<1>4. LastWord(r, Word(w)) /\ ~ NoWord(r)
  BY <1>1, <1>2, <1>3 DEF LastWord, NoWord
<1> QED
  BY <1>1, <1>2, <1>3, <1>4 DEF r

LEMMA BatchAfter ==
    ASSUME NEW q \in Seq(EventT), NEW b \in BatchT, NEW up
    PROVE  /\ LastWord(q, up) => LastWord(Append(q, b), up)
           /\ NoWord(Append(q, b)) => NoWord(q)
<1> DEFINE r == Append(q, b)
<1>1. b \in EventT /\ IsBatch(b)
  BY DEF EventT, BatchT, IsBatch
<1>2. /\ Len(q) \in Nat /\ DOMAIN q = 1..Len(q) /\ DOMAIN r = 1..(Len(q) + 1)
      /\ r[Len(q) + 1] = b /\ \A i \in DOMAIN q : i \in DOMAIN r /\ r[i] = q[i]
  BY <1>1, Queues
<1> HIDE DEF r
<1>3. \A i \in DOMAIN r : ~ IsBatch(r[i]) => i \in DOMAIN q
  BY <1>1, <1>2
<1>4. ASSUME LastWord(q, up), NEW i \in DOMAIN r, ~ IsBatch(r[i]), \A j \in DOMAIN r : i < j => IsBatch(r[j])
      PROVE  Word(r[i]) = up
  BY <1>2, <1>3, <1>4 DEF LastWord
<1>5. NoWord(r) => NoWord(q)
  BY <1>2 DEF NoWord
<1> QED
  BY <1>4, <1>5 DEF LastWord, r

\* What is left when the window has handled the first.
LEMMA Handled ==
    ASSUME NEW q \in Seq(EventT), q # <<>>
    PROVE  LET r == Tail(q) IN
           /\ Head(q) = q[1] /\ q[1] \in EventT /\ 1 \in DOMAIN q /\ DOMAIN q = 1..Len(q) /\ Len(q) \in Nat
           /\ r \in Seq(EventT) /\ Len(r) = Len(q) - 1
           /\ \A i \in DOMAIN r : r[i] = q[i + 1] /\ i + 1 \in DOMAIN q /\ i \in Nat \ {0}
           /\ \A i \in DOMAIN q : i = 1 \/ (i - 1 \in DOMAIN r /\ r[i - 1] = q[i])
           /\ \A up : LastWord(q, up) => LastWord(r, up)
           /\ \A up : LastWord(q, up) /\ NoWord(r) /\ ~ IsBatch(q[1]) => Word(q[1]) = up
<1> DEFINE r == Tail(q)
<1>1. /\ Len(q) \in Nat /\ DOMAIN q = 1..Len(q) /\ \A i \in DOMAIN q : q[i] \in EventT
      /\ Len(q) # 0
  BY ElementOfSeq, LenProperties, EmptySeq
<1>2. Head(q) = q[1] /\ r \in Seq(EventT) /\ Len(r) = Len(q) - 1 /\ \A i \in 1..Len(r) : r[i] = q[i + 1]
  BY HeadTailProperties
<1> HIDE DEF r
<1>3. DOMAIN r = 1..(Len(q) - 1)
  BY <1>2, LenProperties
<1>4. /\ 1 \in DOMAIN q
      /\ \A i \in DOMAIN r : i + 1 \in DOMAIN q /\ i \in Nat \ {0}
      /\ \A i \in DOMAIN q : i = 1 \/ (i - 1 \in DOMAIN r /\ i - 1 + 1 = i)
  BY <1>1, <1>3
<1>5. \A i \in DOMAIN r : r[i] = q[i + 1]
  BY <1>1, <1>2, <1>3
<1>6. \A i \in DOMAIN q : i = 1 \/ (i - 1 \in DOMAIN r /\ r[i - 1] = q[i])
  <2> TAKE i \in DOMAIN q
  <2>1. i = 1 \/ (i - 1 \in DOMAIN r /\ i - 1 + 1 = i)
    BY <1>4
  <2> QED
    BY <1>5, <2>1
<1>7. ASSUME NEW up, LastWord(q, up), NEW i \in DOMAIN r, ~ IsBatch(r[i]), \A j \in DOMAIN r : i < j => IsBatch(r[j])
      PROVE  Word(r[i]) = up
  <2>1. i + 1 \in DOMAIN q /\ ~ IsBatch(q[i + 1])
    BY <1>4, <1>5, <1>7
  <2>2. ASSUME NEW j \in DOMAIN q, i + 1 < j PROVE IsBatch(q[j])
    <3>1. j # 1 /\ i < j - 1
      BY <1>1, <1>3, <2>2
    <3> QED
      BY <1>6, <1>7, <3>1
  <2> QED
    BY <1>5, <1>7, <2>1, <2>2 DEF LastWord
<1>8. ASSUME NEW up, LastWord(q, up), NoWord(r), ~ IsBatch(q[1])
      PROVE  Word(q[1]) = up
  <2>1. \A j \in DOMAIN q : 1 < j => IsBatch(q[j])
    BY <1>1, <1>6, <1>8 DEF NoWord
  <2> QED
    BY <1>4, <1>8, <2>1 DEF LastWord
<1> QED
  BY <1>1, <1>2, <1>4, <1>5, <1>6, <1>7, <1>8 DEF LastWord, r

-----------------------------------------------------------------------------
(* Steps that bring the window no batch.                                    *)

\* The batches that wait are the ones that did.
BatchesStay ==
    /\ \A i \in DOMAIN events' : IsBatch(events'[i]) => i \in DOMAIN events /\ events'[i] = events[i]
    /\ \A i \in DOMAIN events : i \in DOMAIN events' /\ events'[i] = events[i]

LEMMA EventsAre ==
    ASSUME TypeInv
    PROVE  DOMAIN events = 1..Len(events) /\ Len(events) \in Nat /\ \A i \in DOMAIN events : events[i] \in EventT
<1>1. events \in Seq(EventT)
  BY DEF TypeInv
<1> QED
  BY <1>1, ElementOfSeq, LenProperties

LEMMA SameEvents ==
    ASSUME TypeInv, ToldIsTrue, events' = events, status'.up = status.up, window' = window, showsUp' = showsUp
    PROVE  BatchesStay /\ ToldIsTrue'
BY DEF BatchesStay, ToldIsTrue, LastWord, NoWord

\* What an event does to the queue, whether anybody listens or not.
LEMMA Emitted ==
    ASSUME TypeInv, NEW w \in WordT, Emit(w)
    PROVE  /\ BatchesStay /\ events' \in Seq(EventT)
           /\ window = "loading" => events' = events
           /\ window # "loading" => LastWord(events', Word(w)) /\ ~ NoWord(events')
<1>1. CASE window = "loading"
  BY <1>1 DEF Emit, TypeInv, BatchesStay
<1>2. CASE window # "loading"
  <2>1. events' = Append(events, w) /\ events \in Seq(EventT) /\ w \in EventT
    BY <1>2 DEF Emit, TypeInv, EventT
  <2>2. \A i \in DOMAIN events : i \in DOMAIN events' /\ events'[i] = events[i]
    BY <2>1, Queues
  <2>3. events' \in Seq(EventT)
    BY <2>1, Queues
  <2> QED
    BY <1>2, <2>1, <2>2, <2>3, WordLast DEF BatchesStay
<1> QED
  BY <1>1, <1>2

LEMMA StatusSet ==
    ASSUME TypeInv, NEW s \in StatusT, SetStatus(s)
    PROVE  /\ status' = s /\ BatchesStay /\ events' \in Seq(EventT)
           /\ window = "loading" => events' = events
           /\ window # "loading" /\ LastWord(events, status.up) => LastWord(events', s.up)
           /\ window # "loading" => (s.up = status.up /\ events' = events) \/ ~ NoWord(events')
<1> DEFINE w == [kind |-> "status", up |-> s.up]
<1>1. w \in WordT /\ Word(w) = s.up
  BY DEF WordT, StatusT, Word
<1>2. status' = s /\ ((s.up = status.up /\ events' = events) \/ Emit(w))
  BY DEF SetStatus
<1>3. CASE s.up = status.up /\ events' = events
  BY <1>2, <1>3 DEF BatchesStay, TypeInv
<1>4. CASE Emit(w)
  <2> HIDE DEF w
  <2> QED
    BY <1>1, <1>2, <1>4, Emitted
<1> QED
  BY <1>2, <1>3, <1>4

\* A status set is told, or was.
LEMMA SetIsTold ==
    ASSUME TypeInv, ToldIsTrue, NEW s \in StatusT, SetStatus(s), window' = window, showsUp' = showsUp
    PROVE  ToldIsTrue'
<1>1. /\ status' = s
      /\ window = "loading" => events' = events
      /\ window # "loading" /\ LastWord(events, status.up) => LastWord(events', s.up)
      /\ window # "loading" => (s.up = status.up /\ events' = events) \/ ~ NoWord(events')
  BY StatusSet
<1> QED
  BY <1>1 DEF ToldIsTrue

\* What a thread may do while nothing is brought, acknowledged or paired.
ThreadStays(n) ==
    /\ thread'[n].srv = thread[n].srv
    /\ thread[n].st \in {"none", "gone"} => thread'[n] = thread[n]
    /\ MayEmit(n)' => MayEmit(n)
    /\ MayEmit(n)' /\ thread'[n].st \notin {"wait", "start"} /\ ~ thread'[n].lost =>
         \/ thread'[n].sent = status.cursor
         \/ thread[n].st \notin {"wait", "start"} /\ ~ thread[n].lost /\ thread'[n].sent = thread[n].sent

LEMMA CursorStands ==
    ASSUME Ordered, TypeInv, CursorInv, BatchesStay, UNCHANGED <<disk, merged, acks, acking, gen>>,
           status'.srv = status.srv, status'.cursor = status.cursor, \A n \in 1..Gens : ThreadStays(n)
    PROVE  CursorInv'
<1>1. \A i \in DOMAIN events' : IsBatch(events'[i]) =>
         i \in DOMAIN events /\ events'[i] = events[i] /\ events[i].from \in 1..Gens /\ events[i].seq \in Nat
  <2> TAKE i \in DOMAIN events'
  <2> HAVE IsBatch(events'[i])
  <2>1. i \in DOMAIN events /\ events'[i] = events[i]
    BY DEF BatchesStay
  <2>2. events[i] \in EventT
    BY <2>1, EventsAre
  <2>3. events[i] \in BatchT
    BY <2>1, <2>2, Kinds
  <2> QED
    BY <2>1, <2>3 DEF BatchT
<1>2. Serving' <=> Serving
  BY DEF Serving
<1>3. Matches'
  BY <1>1, <1>2 DEF CursorInv, Matches, Quiet, ThreadStays
<1>4. AcksEarned' /\ CursorIsEarned'
  BY <1>2 DEF CursorInv, AcksEarned, Had, CursorIsEarned
<1>5. \A i \in DOMAIN events : \A s : Brought(s, events, i - 1) => Brought(s, events', i - 1)
  <2> TAKE i \in DOMAIN events
  <2> TAKE s
  <2> HAVE Brought(s, events, i - 1)
  <2>1. PICK j \in 1..(i - 1) : IsBatch(events[j]) /\ events[j].seq = s
    BY DEF Brought
  <2>2. j \in DOMAIN events
    BY <2>1, EventsAre
  <2>3. events'[j] = events[j]
    BY <2>2 DEF BatchesStay
  <2> QED
    BY <2>1, <2>3 DEF Brought
<1>6. EventsEarned'
  <2> SUFFICES ASSUME Serving', NEW i \in DOMAIN events', IsBatch(events'[i])
               PROVE  /\ thread'[events'[i].from].srv = status'.srv
                      /\ \A s \in Nat \ {0} : s < events'[i].seq => s \in merged'[status'.srv] \/ Brought(s, events', i - 1)
    BY DEF EventsEarned
  <2>1. i \in DOMAIN events /\ events'[i] = events[i] /\ events[i].from \in 1..Gens
    BY <1>1
  <2>2. /\ thread[events[i].from].srv = status.srv
        /\ \A s \in Nat \ {0} : s < events[i].seq => s \in merged[status.srv] \/ Brought(s, events, i - 1)
    BY <1>2, <2>1 DEF CursorInv, EventsEarned
  <2> QED
    BY <1>5, <2>1, <2>2 DEF ThreadStays
<1>7. \A n, s : Owed(n, s) => Owed(n, s)'
  BY DEF Owed, BatchesStay
<1>8. ThreadsEarned'
  <2> SUFFICES ASSUME Serving', NEW n \in 1..Gens, MayEmit(n)'
               PROVE  /\ thread'[n].srv = status'.srv
                      /\ thread'[n].st \notin {"wait", "start"} /\ ~ thread'[n].lost => SentEarned(n)'
    BY DEF ThreadsEarned
  <2>1. thread'[n].srv = status'.srv
    BY <1>2 DEF CursorInv, ThreadsEarned, ThreadStays
  <2>2. ASSUME thread'[n].st \notin {"wait", "start"}, ~ thread'[n].lost, NEW s \in Nat \ {0}, s <= thread'[n].sent
        PROVE  s \in merged[status.srv] \/ Owed(n, s)
    <3>1. CASE thread'[n].sent = status.cursor
      <4>1. status.cursor \in Nat /\ 1..status.cursor \subseteq merged[status.srv]
        BY <1>2 DEF CursorInv, CursorIsEarned, Serving, TypeInv, StatusT
      <4> QED
        BY <2>2, <3>1, <4>1
    <3>2. CASE thread[n].st \notin {"wait", "start"} /\ ~ thread[n].lost /\ thread'[n].sent = thread[n].sent
      <4>1. SentEarned(n)
        BY <1>2, <3>2 DEF CursorInv, ThreadsEarned, ThreadStays
      <4> QED
        BY <2>2, <3>2, <4>1 DEF SentEarned
    <3> QED
      BY <2>2, <3>1, <3>2 DEF ThreadStays
  <2> QED
    BY <1>7, <2>1, <2>2 DEF SentEarned
<1>9. NoneAhead'
  BY <1>1 DEF CursorInv, NoneAhead, ThreadStays, NoThread
<1> QED
  BY <1>3, <1>4, <1>6, <1>8, <1>9 DEF CursorInv

-----------------------------------------------------------------------------
(* The threads.                                                             *)

Parked == {"none", "gone", "wait", "start"}

LEMMA GenIs ==
    ASSUME Ordered, TypeInv
    PROVE  /\ Gens \in Nat /\ gen \in Nat /\ gen <= Gens
           /\ \A m : m \in 1..gen => m \in 1..Gens
           /\ gen > 0 => gen \in 1..Gens
<1>1. Gens \in Nat /\ gen \in 0..Gens
  BY DEF TypeInv, Ordered
<1> QED
  BY <1>1

LEMMA NoneRetires ==
    ASSUME Ordered, TypeInv
    PROVE  Retiring = {} <=> \A m \in 1..Gens : m < gen => thread[m].st \in Parked
<1>1. \A m : m \in 1..gen - 1 <=> m \in 1..Gens /\ m < gen
  BY GenIs
<1> QED
  BY <1>1 DEF Retiring, Parked

\* A step that no connection lives or dies of.
StatusStays(m) ==
    /\ thread'[m].st \in Live <=> thread[m].st \in Live
    /\ thread'[m].st = "say" => thread[m].st = "say"
    /\ thread[m].st = "gone" => thread'[m].st = "gone" /\ thread'[m].srv = thread[m].srv /\ thread'[m].tok = thread[m].tok
    /\ m < gen /\ thread[m].st \in Parked => thread'[m].st \in Parked

LEMMA StatusStands ==
    ASSUME Ordered, TypeInv, TypeInv', StatusInv, gen' = gen, ToldIsTrue', status'.up = status.up, status'.halted = status.halted,
           \A m \in 1..Gens : StatusStays(m)
    PROVE  StatusInv'
<1>1. gen \in Nat /\ \A m : m \in 1..gen => m \in 1..Gens
  BY GenIs
<1>2. gen > 0 => gen \in 1..Gens
  BY GenIs
<1>3. LeftIsUp'
  <2> SUFFICES ASSUME gen > 0, thread'[gen].st \in Live PROVE status'.up /\ Retiring' = {}
    BY DEF LeftIsUp
  <2>1. status.up /\ Retiring = {}
    BY <1>2 DEF StatusInv, LeftIsUp, StatusStays
  <2>2. \A m \in 1..Gens : m < gen' => thread'[m].st \in Parked
    BY <2>1, NoneRetires DEF StatusStays
  <2>3. (Retiring = {} <=> \A m \in 1..Gens : m < gen => thread[m].st \in Parked)'
    BY NoneRetires, PTL
  <2> QED
    BY <2>1, <2>2, <2>3
<1>4. UpIsLive'
  BY <1>1 DEF StatusInv, UpIsLive, StatusStays
<1>5. SaysIsLeft'
  BY DEF StatusInv, SaysIsLeft, StatusStays
<1>6. HaltIsOwn'
  BY <1>2 DEF StatusInv, HaltIsOwn, StatusStays
<1> QED
  BY <1>3, <1>4, <1>5, <1>6 DEF StatusInv

LEMMA StatusFalls ==
    ASSUME Ordered, TypeInv, StatusInv, gen' = gen, ToldIsTrue', HaltIsOwn', status'.up = FALSE,
           gen > 0 => thread'[gen].st \notin Live, \A m \in 1..Gens : thread'[m].st = "say" => thread[m].st = "say"
    PROVE  StatusInv'
BY DEF StatusInv, LeftIsUp, UpIsLive, SaysIsLeft

LEMMA ThreadTypes ==
    ASSUME TypeInv, thread' \in [1..Gens -> ThreadT], status' \in StatusT, events' \in Seq(EventT),
           UNCHANGED <<disk, token, gen, ready, window, showsUp, merged, acks, acking, pairing>>
    PROVE  TypeInv'
BY DEF TypeInv

LEMMA OneThread ==
    ASSUME TypeInv, NEW n \in 1..Gens, NEW t, thread' = [thread EXCEPT ![n] = t]
    PROVE  /\ thread[n] \in ThreadT /\ thread'[n] = t /\ \A m \in 1..Gens : m # n => thread'[m] = thread[m]
           /\ t \in ThreadT => thread' \in [1..Gens -> ThreadT]
<1>1. thread \in [1..Gens -> ThreadT]
  BY DEF TypeInv
<1> QED
  BY <1>1

\* Another thread does what a thread does not.
LEMMA OthersStay ==
    ASSUME gen' = gen, NEW m, thread'[m] = thread[m], NEW s, status' = s
    PROVE  ThreadStays(m) /\ StatusStays(m)
BY DEF ThreadStays, StatusStays, MayEmit

\* What a thread makes of itself without a word to the window.
LEMMA SilentStep ==
    ASSUME Ordered, IInv, NEW n \in 1..Gens, NEW t \in ThreadT, thread' = [thread EXCEPT ![n] = t],
           UNCHANGED <<disk, token, gen, ready, status, events, window, showsUp, merged, acks, acking, pairing>>,
           ThreadStays(n), StatusStays(n)
    PROVE  IInv'
<1>1. thread' \in [1..Gens -> ThreadT] /\ \A m \in 1..Gens : m # n => thread'[m] = thread[m]
  BY OneThread DEF IInv
<1>2. status \in StatusT /\ events \in Seq(EventT)
  BY DEF IInv, TypeInv
<1>3. TypeInv'
  BY <1>1, <1>2, ThreadTypes DEF IInv
<1>4. BatchesStay /\ ToldIsTrue'
  BY SameEvents DEF IInv, StatusInv
<1>5. \A m \in 1..Gens : ThreadStays(m) /\ StatusStays(m)
  BY <1>1, OthersStay
<1>6. CursorInv'
  BY <1>4, <1>5, CursorStands DEF IInv
<1>7. StatusInv'
  BY <1>3, <1>4, <1>5, StatusStands DEF IInv
<1> QED
  BY <1>3, <1>6, <1>7 DEF IInv

LEMMA DialStep ==
    ASSUME Ordered, IInv, NEW n \in 1..Gens, Dial(n) PROVE IInv'
<1> DEFINE t == [thread[n] EXCEPT !.st = IF gen = n THEN "dial" ELSE "gone", !.sent = status.cursor, !.lost = FALSE]
<1>1. thread[n] \in ThreadT /\ status.cursor \in Nat
  BY DEF IInv, TypeInv, StatusT
<1>2. t \in ThreadT
  BY <1>1 DEF ThreadT, States
<1>3. thread' = [thread EXCEPT ![n] = t]
  BY DEF Dial
<1>4. thread'[n] = t
  BY <1>3, OneThread DEF IInv
<1>5. t.st \in {"dial", "gone"} /\ (t.st = "dial" <=> gen = n) /\ t.srv = thread[n].srv /\ t.sent = status.cursor
  BY <1>1 DEF ThreadT
<1>6. thread[n].st = "start" /\ gen' = gen /\ status' = status
  BY DEF Dial
<1>7. ThreadStays(n) /\ StatusStays(n)
  <2> HIDE DEF t
  <2>1. ThreadStays(n)
    BY <1>4, <1>5, <1>6 DEF ThreadStays, MayEmit
  <2>2. StatusStays(n)
    BY <1>4, <1>5, <1>6, GenIs DEF StatusStays, Live, Parked, IInv
  <2> QED
    BY <2>1, <2>2
<1> QED
  BY <1>2, <1>3, <1>7, SilentStep DEF Dial

LEMMA OpensStep ==
    ASSUME Ordered, IInv, NEW n \in 1..Gens, Opens(n) PROVE IInv'
<1> DEFINE t == [thread[n] EXCEPT !.st = "opened"]
<1>1. thread[n] \in ThreadT
  BY DEF IInv, TypeInv
<1>2. t \in ThreadT /\ t.st = "opened" /\ t.srv = thread[n].srv /\ t.sent = thread[n].sent /\ t.lost = thread[n].lost
  BY <1>1 DEF ThreadT, States
<1>3. thread' = [thread EXCEPT ![n] = t]
  BY DEF Opens
<1>4. thread'[n] = t
  BY <1>3, OneThread DEF IInv
<1>6. ThreadStays(n) /\ StatusStays(n)
  BY <1>2, <1>4 DEF ThreadStays, StatusStays, MayEmit, Opens, Live, Parked
<1> QED
  BY <1>2, <1>3, <1>6, SilentStep DEF Opens

LEMMA WaitsStep ==
    ASSUME Ordered, IInv, NEW n \in 1..Gens, Waits(n) PROVE IInv'
<1> DEFINE t == [thread[n] EXCEPT !.st = "start"]
<1>1. thread[n] \in ThreadT
  BY DEF IInv, TypeInv
<1>2. t \in ThreadT /\ t.st = "start" /\ t.srv = thread[n].srv
  BY <1>1 DEF ThreadT, States
<1>3. thread' = [thread EXCEPT ![n] = t]
  BY DEF Waits
<1>4. thread'[n] = t
  BY <1>3, OneThread DEF IInv
<1>6. ThreadStays(n) /\ StatusStays(n)
  BY <1>2, <1>4 DEF ThreadStays, StatusStays, MayEmit, Waits, Live, Parked
<1> QED
  BY <1>2, <1>3, <1>6, SilentStep DEF Waits

\* An older thread that goes on is one that the thread that is left has not come up beside.
LEMMA OlderGoesOn ==
    ASSUME Ordered, IInv, NEW n \in 1..Gens, n # gen, thread[n].st \notin Parked
    PROVE  n < gen /\ gen \in 1..Gens /\ thread[gen].st \notin Live
<1>1. n < gen
  <2>1. ~ (n > gen)
    BY DEF IInv, CursorInv, NoneAhead, NoThread, Parked
  <2> QED
    BY <2>1, GenIs DEF IInv
<1>2. gen > 0 /\ gen \in 1..Gens
  BY <1>1, GenIs DEF IInv
<1>3. Retiring # {}
  BY <1>1, NoneRetires DEF IInv
<1> QED
  BY <1>1, <1>2, <1>3 DEF IInv, StatusInv, LeftIsUp

\* What a thread makes of itself and of the status.
LEMMA ToldStep ==
    ASSUME Ordered, IInv, NEW n \in 1..Gens, NEW t \in ThreadT, thread' = [thread EXCEPT ![n] = t],
           NEW s \in StatusT, SetStatus(s), s.srv = status.srv, s.cursor = status.cursor,
           UNCHANGED <<disk, token, gen, ready, window, showsUp, merged, acks, acking, pairing>>, ThreadStays(n)
    PROVE  status' = s /\ TypeInv' /\ CursorInv' /\ ToldIsTrue'
<1>1. thread' \in [1..Gens -> ThreadT] /\ \A m \in 1..Gens : m # n => thread'[m] = thread[m]
  BY OneThread DEF IInv
<1>2. status' = s /\ BatchesStay /\ events' \in Seq(EventT)
  BY StatusSet DEF IInv
<1>3. TypeInv'
  BY <1>1, <1>2, ThreadTypes DEF IInv
<1>4. ToldIsTrue'
  BY SetIsTold DEF IInv, StatusInv
<1>5. \A m \in 1..Gens : ThreadStays(m)
  BY <1>1, <1>2, OthersStay
<1>6. CursorInv'
  BY <1>2, <1>5, CursorStands DEF IInv
<1> QED
  BY <1>2, <1>3, <1>4, <1>6

\* A thread that goes takes what is up with it.
LEMMA FallStep ==
    ASSUME Ordered, IInv, NEW n \in 1..Gens, NEW t \in ThreadT, thread' = [thread EXCEPT ![n] = t],
           NEW s \in StatusT, SetStatus(s), s.srv = status.srv, s.cursor = status.cursor, s.up = FALSE,
           UNCHANGED <<disk, token, gen, ready, window, showsUp, merged, acks, acking, pairing>>,
           thread[n].st \notin Parked, t.st \in {"gone", "wait"}, t.srv = thread[n].srv, t.tok = thread[n].tok,
           s.halted => status.halted \/ (n = gen /\ t.st = "gone" /\ t.srv # t.tok)
    PROVE  IInv'
<1>1. thread'[n] = t /\ \A m \in 1..Gens : m # n => thread'[m] = thread[m]
  BY OneThread DEF IInv
<1>2. n = gen \/ (gen \in 1..Gens /\ gen # n /\ thread[gen].st \notin Live)
  BY OlderGoesOn
<1>3. thread[n].st \notin {"none", "gone", "wait", "start"} /\ gen' = gen
  BY DEF Parked
<1>4. ThreadStays(n)
  BY <1>1, <1>3 DEF ThreadStays, MayEmit
<1>5. status' = s /\ TypeInv' /\ CursorInv' /\ ToldIsTrue'
  BY <1>4, ToldStep
<1>6. gen > 0 => thread'[gen].st \notin Live
  BY <1>1, <1>2 DEF Live
<1>7. \A m \in 1..Gens : thread'[m].st = "say" => thread[m].st = "say"
  BY <1>1
<1>8. HaltIsOwn'
  <2> SUFFICES ASSUME s.halted PROVE gen > 0 /\ thread'[gen].st = "gone" /\ thread'[gen].srv # thread'[gen].tok
    BY <1>3, <1>5 DEF HaltIsOwn
  <2>1. CASE n = gen /\ t.st = "gone" /\ t.srv # t.tok
    BY <1>1, <2>1
  <2>2. CASE status.halted
    <3>1. gen > 0 /\ thread[gen].st = "gone" /\ thread[gen].srv # thread[gen].tok
      BY <2>2 DEF IInv, StatusInv, HaltIsOwn
    <3> QED
      BY <1>1, <1>2, <1>3, <3>1
  <2> QED
    BY <2>1, <2>2
<1>9. StatusInv'
  BY <1>3, <1>5, <1>6, <1>7, <1>8, StatusFalls DEF IInv
<1> QED
  BY <1>5, <1>9 DEF IInv

LEMMA LooksStep ==
    ASSUME Ordered, IInv, NEW n \in 1..Gens, Looks(n) PROVE IInv'
<1>1. thread[n] \in ThreadT /\ status \in StatusT /\ thread[n].st \in {"opened", "top"} /\ gen' = gen
  BY DEF IInv, TypeInv, Looks
<1>2. CASE gen = n
  <2> DEFINE t == [thread[n] EXCEPT !.st = IF @ = "top" THEN "hear" ELSE "greet"]
  <2>1. t \in ThreadT /\ t.st = (IF thread[n].st = "top" THEN "hear" ELSE "greet")
        /\ t.srv = thread[n].srv /\ t.sent = thread[n].sent /\ t.lost = thread[n].lost
    BY <1>1 DEF ThreadT, States
  <2>2. thread' = [thread EXCEPT ![n] = t] /\ UNCHANGED <<status, events>>
    BY <1>2 DEF Looks
  <2>3. thread'[n] = t
    BY <2>2, OneThread DEF IInv
  <2> HIDE DEF t
  <2>4. ThreadStays(n)
    BY <1>1, <1>2, <2>1, <2>3 DEF ThreadStays, MayEmit
  <2>5. StatusStays(n)
    BY <1>1, <1>2, <2>1, <2>3, GenIs DEF StatusStays, Live, Parked, IInv
  <2> QED
    BY <2>1, <2>2, <2>4, <2>5, SilentStep DEF Looks
<1>3. CASE gen # n
  <2> DEFINE t == [thread[n] EXCEPT !.st = "gone"]
             s == [status EXCEPT !.up = FALSE]
  <2>1. t \in ThreadT /\ t.st = "gone" /\ t.srv = thread[n].srv /\ t.tok = thread[n].tok
    BY <1>1 DEF ThreadT, States
  <2>2. s \in StatusT /\ s.srv = status.srv /\ s.cursor = status.cursor /\ s.up = FALSE /\ s.halted = status.halted
    BY <1>1 DEF StatusT
  <2>3. thread' = [thread EXCEPT ![n] = t] /\ SetStatus(s)
    BY <1>3 DEF Looks
  <2>4. thread[n].st \notin Parked
    BY <1>1 DEF Parked
  <2> HIDE DEF t, s
  <2> QED
    BY <2>1, <2>2, <2>3, <2>4, FallStep DEF Looks
<1> QED
  BY <1>2, <1>3

LEMMA HaltsStep ==
    ASSUME Ordered, IInv, NEW n \in 1..Gens, Halts(n) PROVE IInv'
<1>1. thread[n] \in ThreadT /\ status \in StatusT /\ thread[n].st = "greet" /\ thread[n].srv # thread[n].tok
  BY DEF IInv, TypeInv, Halts
<1> DEFINE t == [thread[n] EXCEPT !.st = "gone"]
           s == [status EXCEPT !.up = FALSE, !.halted = TRUE]
<1>2. t \in ThreadT /\ t.st = "gone" /\ t.srv = thread[n].srv /\ t.tok = thread[n].tok
  BY <1>1 DEF ThreadT, States
<1>3. s \in StatusT /\ s.srv = status.srv /\ s.cursor = status.cursor /\ s.up = FALSE
  BY <1>1 DEF StatusT
<1>4. thread' = [thread EXCEPT ![n] = t] /\ SetStatus(s) /\ gen = n
  BY DEF Halts, Ordered
<1>5. thread[n].st \notin Parked
  BY <1>1 DEF Parked
<1> HIDE DEF t, s
<1> QED
  BY <1>1, <1>2, <1>3, <1>4, <1>5, FallStep DEF Halts

LEMMA FailsStep ==
    ASSUME Ordered, IInv, NEW n \in 1..Gens, Fails(n) PROVE IInv'
<1>1. thread[n] \in ThreadT /\ status \in StatusT /\ thread[n].st \in {"dial", "greet", "hear"}
  BY DEF IInv, TypeInv, Fails
<1> DEFINE t == [thread[n] EXCEPT !.st = "wait"]
           s == [status EXCEPT !.up = FALSE]
<1>2. t \in ThreadT /\ t.st = "wait" /\ t.srv = thread[n].srv /\ t.tok = thread[n].tok
  BY <1>1 DEF ThreadT, States
<1>3. s \in StatusT /\ s.srv = status.srv /\ s.cursor = status.cursor /\ s.up = FALSE /\ s.halted = status.halted
  BY <1>1 DEF StatusT
<1>4. thread' = [thread EXCEPT ![n] = t] /\ SetStatus(s)
  BY DEF Fails
<1>5. thread[n].st \notin Parked
  BY <1>1 DEF Parked
<1> HIDE DEF t, s
<1> QED
  BY <1>2, <1>3, <1>4, <1>5, FallStep DEF Fails

LEMMA WelcomedStep ==
    ASSUME Ordered, IInv, NEW n \in 1..Gens, Welcomed(n) PROVE IInv'
<1>1. /\ thread[n] \in ThreadT /\ status \in StatusT /\ thread[n].st = "greet"
      /\ gen = n /\ gen' = gen /\ Retiring = {} /\ n \in Nat
  BY GenIs DEF IInv, TypeInv, Welcomed, Ordered
<1> DEFINE t == [thread[n] EXCEPT !.st = "say"]
           s == [status EXCEPT !.up = TRUE]
<1>2. t \in ThreadT /\ t.st = "say" /\ t.srv = thread[n].srv /\ t.sent = thread[n].sent /\ t.lost = thread[n].lost
  BY <1>1 DEF ThreadT, States
<1>3. s \in StatusT /\ s.srv = status.srv /\ s.cursor = status.cursor /\ s.up = TRUE /\ s.halted = status.halted
  BY <1>1 DEF StatusT
<1>4. thread' = [thread EXCEPT ![n] = t] /\ SetStatus(s)
  BY DEF Welcomed
<1> HIDE DEF t, s
<1>5. thread'[n] = t /\ \A m \in 1..Gens : m # n => thread'[m] = thread[m]
  BY <1>4, OneThread DEF IInv
<1>6. ThreadStays(n)
  BY <1>1, <1>2, <1>5 DEF ThreadStays, MayEmit
<1>7. status' = s /\ TypeInv' /\ CursorInv' /\ ToldIsTrue'
  BY <1>2, <1>3, <1>4, <1>6, ToldStep DEF Welcomed
<1>8. Retiring' = {}
  <2>1. \A m \in 1..Gens : m < gen' => thread'[m].st \in Parked
    BY <1>1, <1>5, NoneRetires DEF IInv
  <2>2. (Retiring = {} <=> \A m \in 1..Gens : m < gen => thread[m].st \in Parked)'
    BY <1>7, NoneRetires, PTL
  <2> QED
    BY <2>1, <2>2
<1>9. LeftIsUp'
  BY <1>3, <1>7, <1>8 DEF LeftIsUp
<1>10. UpIsLive'
  <2>1. n \in 1..gen'
    BY <1>1
  <2> QED
    BY <1>2, <1>5, <2>1 DEF UpIsLive, Live
<1>11. SaysIsLeft'
  BY <1>1, <1>5 DEF SaysIsLeft, IInv, StatusInv
<1>12. HaltIsOwn'
  BY <1>1, <1>3, <1>7 DEF HaltIsOwn, IInv, StatusInv
<1> QED
  BY <1>7, <1>9, <1>10, <1>11, <1>12 DEF IInv, StatusInv

LEMMA SaysStep ==
    ASSUME Ordered, IInv, NEW n \in 1..Gens, Says(n) PROVE IInv'
<1>1. thread[n] \in ThreadT /\ thread[n].st = "say" /\ gen' = gen /\ status' = status
  BY DEF IInv, TypeInv, Says
<1>2. n = gen /\ gen \in Nat /\ gen > 0
  BY <1>1, GenIs DEF IInv, StatusInv, SaysIsLeft
<1>3. status.up
  BY <1>1, <1>2 DEF IInv, StatusInv, LeftIsUp, Live
<1> DEFINE t == [thread[n] EXCEPT !.st = "top"]
           w == [kind |-> "welcome"]
<1>4. t \in ThreadT /\ t.st = "top" /\ t.srv = thread[n].srv /\ t.sent = thread[n].sent /\ t.lost = thread[n].lost
  BY <1>1 DEF ThreadT, States
<1>5. w \in WordT /\ Word(w) = TRUE /\ Emit(w) /\ thread' = [thread EXCEPT ![n] = t]
  BY DEF Says, WordT, Word
<1> HIDE DEF t, w
<1>6. thread' \in [1..Gens -> ThreadT] /\ thread'[n] = t /\ \A m \in 1..Gens : m # n => thread'[m] = thread[m]
  BY <1>4, <1>5, OneThread DEF IInv
<1>7. /\ BatchesStay /\ events' \in Seq(EventT)
      /\ window = "loading" => events' = events
      /\ window # "loading" => LastWord(events', TRUE) /\ ~ NoWord(events')
  BY <1>5, Emitted DEF IInv
<1>8. TypeInv'
  <2>1. status' \in StatusT
    BY <1>1 DEF IInv, TypeInv
  <2> QED
    BY <1>6, <1>7, <2>1, ThreadTypes DEF IInv, Says
<1>9. ToldIsTrue'
  <2>1. status.up = TRUE /\ status'.up = status.up /\ window' = window
    BY <1>1, <1>3 DEF IInv, TypeInv, StatusT, Says
  <2> QED
    BY <1>7, <2>1 DEF IInv, StatusInv, ToldIsTrue
<1>10. ThreadStays(n)
  BY <1>1, <1>2, <1>4, <1>6 DEF ThreadStays, MayEmit
<1>11. StatusStays(n)
  BY <1>1, <1>2, <1>4, <1>6 DEF StatusStays, Live, Parked
<1>12. \A m \in 1..Gens : ThreadStays(m) /\ StatusStays(m)
  BY <1>1, <1>6, <1>10, <1>11, OthersStay
<1>13. CursorInv'
  BY <1>1, <1>7, <1>12, CursorStands DEF IInv, Says
<1>14. StatusInv'
  BY <1>1, <1>8, <1>9, <1>12, StatusStands DEF IInv
<1> QED
  BY <1>8, <1>13, <1>14 DEF IInv

\* What a thread has passed on, and whether it was heard.
PassedOn(r, l) == [r EXCEPT !.st = "top", !.sent = @ + 1, !.lost = l]

LEMMA PassingOn ==
    ASSUME NEW r \in ThreadT, NEW l \in BOOLEAN
    PROVE  LET u == PassedOn(r, l) IN
           u \in ThreadT /\ u.st = "top" /\ u.srv = r.srv /\ u.tok = r.tok /\ u.sent = r.sent + 1 /\ u.lost = l
<1> DEFINE k == r.sent + 1
<1>1. k \in Nat
  BY DEF ThreadT
<1>2. PassedOn(r, l) = [r EXCEPT !.st = "top", !.sent = k, !.lost = l]
  BY DEF PassedOn
<1> HIDE DEF k
<1>3. [r EXCEPT !.st = "top", !.sent = k] \in ThreadT
  BY <1>1 DEF ThreadT, States
<1>4. \A x \in ThreadT : [x EXCEPT !.lost = l] \in ThreadT
  BY DEF ThreadT
<1>5. [r EXCEPT !.st = "top", !.sent = k, !.lost = l] = [[r EXCEPT !.st = "top", !.sent = k] EXCEPT !.lost = l]
  OBVIOUS
<1>6. PassedOn(r, l) \in ThreadT
  BY <1>2, <1>3, <1>4, <1>5
<1>7. PassedOn(r, l).st = "top" /\ PassedOn(r, l).srv = r.srv /\ PassedOn(r, l).tok = r.tok
  BY DEF ThreadT, PassedOn
<1>8. PassedOn(r, l).sent = r.sent + 1 /\ PassedOn(r, l).lost = l
  BY DEF ThreadT, PassedOn
<1> QED
  BY <1>6, <1>7, <1>8

\* A batch comes after what its thread has passed on.
LEMMA HearsStep ==
    ASSUME Ordered, IInv, NEW n \in 1..Gens, Hears(n) PROVE IInv'
<1>1. /\ thread[n] \in ThreadT /\ thread[n].st = "hear" /\ thread[n].sent \in Nat /\ gen' = gen
      /\ UNCHANGED <<disk, token, gen, ready, status, window, showsUp, merged, acks, acking, pairing>>
  BY DEF IInv, TypeInv, Hears, ThreadT
<1>2. CASE UNCHANGED events
  <2> DEFINE t == [thread[n] EXCEPT !.st = "top"]
             l == thread[n].lost \/ window = "loading"
             u == PassedOn(thread[n], l)
  <2>1. /\ t \in ThreadT /\ t.st = "top" /\ t.srv = thread[n].srv /\ t.tok = thread[n].tok
        /\ t.sent = thread[n].sent /\ t.lost = thread[n].lost
    BY <1>1 DEF ThreadT, States
  <2>2. u \in ThreadT /\ u.st = "top" /\ u.srv = thread[n].srv /\ u.lost = l
    <3>1. l \in BOOLEAN
      OBVIOUS
    <3> HIDE DEF l
    <3> QED
      BY <1>1, <3>1, PassingOn
  <2>3. thread' = [thread EXCEPT ![n] = t] \/ (thread' = [thread EXCEPT ![n] = u] /\ window = "loading")
    <3>1. CASE gen # n /\ thread' = [thread EXCEPT ![n].st = "top"]
      BY <3>1
    <3>2. CASE /\ thread' = [thread EXCEPT ![n].st = "top", ![n].sent = @ + 1, ![n].lost = @ \/ window = "loading"]
               /\ Emit([kind |-> "batch", from |-> n, seq |-> thread[n].sent + 1])
      <4>1. window = "loading"
        <5> SUFFICES ASSUME window # "loading" PROVE FALSE
          OBVIOUS
        <5>1. events \in Seq(EventT) /\ events' = events
          BY <1>2 DEF IInv, TypeInv
        <5>2. events = Append(events, [kind |-> "batch", from |-> n, seq |-> thread[n].sent + 1])
          BY <3>2, <5>1 DEF Emit
        <5>3. [kind |-> "batch", from |-> n, seq |-> thread[n].sent + 1] \in EventT
          BY <1>1 DEF EventT, BatchT
        <5> HIDE DEF t, u
        <5>4. DOMAIN events = 1..Len(events) /\ DOMAIN events = 1..(Len(events) + 1) /\ Len(events) \in Nat
          BY <5>1, <5>2, <5>3, Queues
        <5> QED
          BY <5>4
      <4> QED
        BY <3>2, <4>1 DEF PassedOn
    <3> QED
      BY <3>1, <3>2 DEF Hears
  <2> HIDE DEF t, u
  <2>4. CASE thread' = [thread EXCEPT ![n] = t]
    <3>1. thread'[n] = t
      BY <2>4, OneThread DEF IInv
    <3>2. ThreadStays(n)
      BY <1>1, <2>1, <3>1 DEF ThreadStays, MayEmit
    <3>3. StatusStays(n)
      BY <1>1, <2>1, <3>1 DEF StatusStays, Live, Parked
    <3> QED
      BY <1>1, <1>2, <2>1, <2>4, <3>2, <3>3, SilentStep
  <2>5. CASE thread' = [thread EXCEPT ![n] = u] /\ window = "loading"
    <3>1. thread'[n] = u
      BY <2>5, OneThread DEF IInv
    <3>2. ThreadStays(n)
      BY <1>1, <2>2, <2>5, <3>1 DEF ThreadStays, MayEmit
    <3>3. StatusStays(n)
      BY <1>1, <2>2, <3>1 DEF StatusStays, Live, Parked
    <3> QED
      BY <1>1, <1>2, <2>2, <2>5, <3>2, <3>3, SilentStep
  <2> QED
    BY <2>3, <2>4, <2>5
<1>3. CASE events' # events
  <2> DEFINE b == [kind |-> "batch", from |-> n, seq |-> thread[n].sent + 1]
             l == thread[n].lost \/ window = "loading"
             t == PassedOn(thread[n], l)
  <2>1. b \in BatchT /\ IsBatch(b) /\ b.from = n /\ b.seq = thread[n].sent + 1 /\ b \in EventT
    BY <1>1 DEF BatchT, IsBatch, EventT
  <2>2. /\ t \in ThreadT /\ t.st = "top" /\ t.srv = thread[n].srv /\ t.tok = thread[n].tok
        /\ t.sent = thread[n].sent + 1 /\ t.lost = l
    <3>1. l \in BOOLEAN
      OBVIOUS
    <3> HIDE DEF l
    <3> QED
      BY <1>1, <3>1, PassingOn
  <2>3. thread' = [thread EXCEPT ![n] = t] /\ Emit(b) /\ ~ (window # "loading" /\ thread[n].lost)
    BY <1>3 DEF Hears, Ordered, PassedOn
  <2> HIDE DEF b, t
  <2>4. events' = Append(events, b) /\ window # "loading" /\ ~ thread[n].lost /\ events \in Seq(EventT)
    BY <1>3, <2>3 DEF Emit, IInv, TypeInv
  <2>5. thread' \in [1..Gens -> ThreadT] /\ thread'[n] = t /\ \A m \in 1..Gens : m # n => thread'[m] = thread[m]
    BY <2>2, <2>3, OneThread DEF IInv
  <2>6. /\ Len(events) \in Nat /\ DOMAIN events = 1..Len(events) /\ \A i \in DOMAIN events : events[i] \in EventT
        /\ events' \in Seq(EventT) /\ DOMAIN events' = 1..(Len(events) + 1) /\ events'[Len(events) + 1] = b
        /\ \A i \in DOMAIN events : i \in DOMAIN events' /\ events'[i] = events[i]
    BY <2>1, <2>4, Queues
  <2>7. \A i \in DOMAIN events' : i = Len(events) + 1 \/ (i \in DOMAIN events /\ i - 1 < Len(events))
    BY <2>6
  <2>8. Matches'
    <3>1. ~ Quiet
      BY <1>1 DEF Quiet
    <3> QED
      BY <1>1, <3>1 DEF IInv, CursorInv, Matches, Serving
  <2>9. AcksEarned' /\ CursorIsEarned'
    BY <1>1 DEF IInv, CursorInv, AcksEarned, Had, CursorIsEarned, Serving
  <2>10. \A m \in 1..Gens : thread'[m].srv = thread[m].srv
    BY <2>2, <2>5
  <2>11. MayEmit(n) /\ (Serving => thread[n].srv = status.srv /\ SentEarned(n))
    BY <1>1, <2>4 DEF MayEmit, IInv, CursorInv, ThreadsEarned
  <2>12. EventsEarned'
    <3> SUFFICES ASSUME Serving, NEW i \in DOMAIN events', IsBatch(events'[i])
                 PROVE  /\ thread'[events'[i].from].srv = status.srv
                        /\ \A k \in Nat \ {0} : k < events'[i].seq => k \in merged[status.srv] \/ Brought(k, events', i - 1)
      BY <1>1 DEF EventsEarned, Serving
    <3>1. CASE i = Len(events) + 1
      <4>1. events'[i] = b /\ thread'[n].srv = status.srv
        BY <2>6, <2>10, <2>11, <3>1
      <4>2. ASSUME NEW k \in Nat \ {0}, k < b.seq, k \notin merged[status.srv] PROVE Brought(k, events', i - 1)
        <5>1. Owed(n, k)
          BY <1>1, <2>1, <2>11, <4>2 DEF SentEarned
        <5>2. PICK j \in DOMAIN events : IsBatch(events[j]) /\ events[j].seq = k
          BY <5>1 DEF Owed
        <5>3. j \in 1..(i - 1) /\ events'[j] = events[j]
          BY <2>6, <3>1, <5>2
        <5> QED
          BY <5>2, <5>3 DEF Brought
      <4> QED
        BY <2>1, <4>1, <4>2
    <3>2. CASE i \in DOMAIN events
      <4>1. events'[i] = events[i] /\ events[i] \in BatchT
        BY <2>6, <3>2, Kinds
      <4>2. /\ thread[events[i].from].srv = status.srv /\ events[i].from \in 1..Gens
            /\ \A k \in Nat \ {0} : k < events[i].seq => k \in merged[status.srv] \/ Brought(k, events, i - 1)
        BY <3>2, <4>1 DEF IInv, CursorInv, EventsEarned, BatchT
      <4>3. \A j \in 1..(i - 1) : events'[j] = events[j]
        BY <2>6, <3>2
      <4>4. \A k : Brought(k, events, i - 1) => Brought(k, events', i - 1)
        BY <4>3 DEF Brought
      <4> QED
        BY <2>10, <4>1, <4>2, <4>4
    <3> QED
      BY <2>7, <3>1, <3>2
  <2>13. \A m, k : Owed(m, k) => Owed(m, k)'
    BY <2>6 DEF Owed
  <2>14. \A k : k = thread[n].sent + 1 => Owed(n, k)'
    <3>1. Len(events) + 1 \in DOMAIN events'
      BY <2>6
    <3> QED
      BY <2>1, <2>6, <3>1 DEF Owed
  <2>15. ThreadsEarned'
    <3> SUFFICES ASSUME Serving, NEW m \in 1..Gens, MayEmit(m)'
                 PROVE  /\ thread'[m].srv = status.srv
                        /\ thread'[m].st \notin {"wait", "start"} /\ ~ thread'[m].lost => SentEarned(m)'
      BY <1>1 DEF ThreadsEarned, Serving
    <3>1. CASE m = n
      <4>1. ASSUME NEW k \in Nat \ {0}, k <= thread[n].sent + 1 PROVE k \in merged[status.srv] \/ Owed(n, k)'
        <5>1. k <= thread[n].sent \/ k = thread[n].sent + 1
          BY <1>1, <4>1
        <5> QED
          BY <2>11, <2>13, <2>14, <5>1 DEF SentEarned
      <4> QED
        BY <1>1, <2>2, <2>5, <2>10, <2>11, <3>1, <4>1 DEF SentEarned
    <3>2. CASE m # n
      <4>1. thread'[m] = thread[m] /\ MayEmit(m)
        BY <1>1, <2>5, <3>2 DEF MayEmit
      <4> QED
        BY <1>1, <2>13, <4>1 DEF SentEarned, IInv, CursorInv, ThreadsEarned
    <3> QED
      BY <3>1, <3>2
  <2>16. NoneAhead'
    <3>1. n <= gen
      <4>1. ~ (n > gen)
        BY <1>1 DEF IInv, CursorInv, NoneAhead, NoThread
      <4> QED
        BY <4>1, GenIs DEF IInv
    <3>2. \A m \in 1..Gens : m > gen => m # n
      BY <3>1, GenIs DEF IInv
    <3> QED
      BY <1>1, <2>1, <2>5, <2>6, <2>7, <3>1, <3>2 DEF IInv, CursorInv, NoneAhead
  <2>17. TypeInv'
    <3>1. status' \in StatusT
      BY <1>1 DEF IInv, TypeInv
    <3> QED
      BY <1>1, <2>5, <2>6, <3>1, ThreadTypes DEF IInv
  <2>18. ToldIsTrue'
    BY <1>1, <2>1, <2>4, BatchAfter DEF IInv, StatusInv, ToldIsTrue
  <2>19. StatusStays(n)
    BY <1>1, <2>2, <2>5 DEF StatusStays, Live, Parked
  <2>20. \A m \in 1..Gens : StatusStays(m)
    BY <1>1, <2>5, <2>19, OthersStay
  <2>21. StatusInv'
    BY <1>1, <2>17, <2>18, <2>20, StatusStands DEF IInv
  <2> QED
    BY <2>8, <2>9, <2>12, <2>15, <2>16, <2>17, <2>21 DEF IInv, CursorInv
<1> QED
  BY <1>2, <1>3

-----------------------------------------------------------------------------
(* The window and the pairings.                                             *)

\* What changes neither the threads nor what the cursor rests on.
LEMMA OutsideStep ==
    ASSUME Ordered, IInv, TypeInv', ToldIsTrue', BatchesStay, UNCHANGED <<disk, gen, status, thread, merged, acks, acking>>
    PROVE  IInv'
<1>1. \A m \in 1..Gens : ThreadStays(m) /\ StatusStays(m)
  BY OthersStay
<1>2. CursorInv'
  BY <1>1, CursorStands DEF IInv
<1>3. StatusInv'
  BY <1>1, StatusStands DEF IInv
<1> QED
  BY <1>2, <1>3 DEF IInv

LEMMA ListensStep ==
    ASSUME Ordered, IInv, Listens PROVE IInv'
<1>1. TypeInv' /\ BatchesStay
  BY DEF IInv, TypeInv, Listens, BatchesStay
<1>2. ToldIsTrue'
  <2>1. events' = <<>>
    BY DEF IInv, StatusInv, ToldIsTrue, Listens
  <2> QED
    BY <2>1 DEF Listens, ToldIsTrue, LastWord
<1> QED
  BY <1>1, <1>2, OutsideStep DEF Listens

LEMMA PairSavesStep ==
    ASSUME Ordered, IInv, NEW s \in Servers, PairSaves(s) PROVE IInv'
<1>1. TypeInv' /\ BatchesStay
  BY DEF IInv, TypeInv, PairSaves, BatchesStay, ServersOrNone
<1>2. ToldIsTrue'
  BY DEF IInv, StatusInv, ToldIsTrue, PairSaves
<1> QED
  BY <1>1, <1>2, OutsideStep DEF PairSaves

LEMMA PairFailsStep ==
    ASSUME Ordered, IInv, PairFails PROVE IInv'
<1>1. TypeInv' /\ BatchesStay
  BY DEF IInv, TypeInv, PairFails, BatchesStay, NoPairing, ServersOrNone
<1>2. ToldIsTrue'
  BY DEF IInv, StatusInv, ToldIsTrue, PairFails
<1> QED
  BY <1>1, <1>2, OutsideStep DEF PairFails

LEMMA PairAnswersStep ==
    ASSUME Ordered, IInv, PairAnswers PROVE IInv'
<1>1. TypeInv' /\ BatchesStay
  <2>1. status.up \in BOOLEAN
    BY DEF IInv, TypeInv, StatusT
  <2> QED
    BY <2>1 DEF IInv, TypeInv, PairAnswers, BatchesStay, NoPairing, ServersOrNone
<1>2. ToldIsTrue'
  BY DEF IInv, StatusInv, ToldIsTrue, PairAnswers
<1> QED
  BY <1>1, <1>2, OutsideStep DEF PairAnswers

\* What the window handles first comes after nothing that is still ahead.
LEMMA TakesStep ==
    ASSUME Ordered, IInv, Takes PROVE IInv'
<1> DEFINE ev == events[1]
<1>1. events \in Seq(EventT) /\ events # <<>> /\ events' = Tail(events)
  BY DEF IInv, TypeInv, Takes
<1>2. /\ Head(events) = ev /\ ev \in EventT /\ 1 \in DOMAIN events /\ DOMAIN events = 1..Len(events) /\ Len(events) \in Nat
      /\ events' \in Seq(EventT)
      /\ \A i \in DOMAIN events' : events'[i] = events[i + 1] /\ i + 1 \in DOMAIN events /\ i \in Nat \ {0}
      /\ \A i \in DOMAIN events : i = 1 \/ (i - 1 \in DOMAIN events' /\ events'[i - 1] = events[i])
      /\ LastWord(events, status.up) => LastWord(events', status.up)
      /\ LastWord(events, status.up) /\ NoWord(events') /\ ~ IsBatch(ev) => Word(ev) = status.up
  BY <1>1, Handled
<1>3. /\ window # "loading" /\ LastWord(events, status.up)
      /\ UNCHANGED <<disk, token, gen, ready, status, thread, window, acking, pairing, supActs>>
  BY DEF Takes, IInv, StatusInv, ToldIsTrue
<1>4. ASSUME IsBatch(ev)
      PROVE  /\ ev \in BatchT /\ ev.from \in 1..Gens /\ ev.seq \in Nat
             /\ merged' = [merged EXCEPT ![thread[ev.from].srv] = @ \cup {ev.seq}]
             /\ acks' = Append(acks, ev.seq) /\ showsUp' = showsUp
  <2>1. ev \in BatchT
    BY <1>2, <1>4, Kinds
  <2> QED
    BY <1>2, <1>4, <2>1 DEF Takes, IsBatch, BatchT
<1>5. ASSUME ~ IsBatch(ev)
      PROVE  merged' = merged /\ acks' = acks /\ showsUp' \in BOOLEAN /\ showsUp' = Word(ev)
  BY <1>2, <1>5 DEF Takes, IsBatch, Word
<1> HIDE DEF ev
<1>6. merged' \in [Servers -> SUBSET Nat] /\ \A s \in Servers : merged[s] \subseteq merged'[s]
  <2>1. merged \in [Servers -> SUBSET Nat]
    BY DEF IInv, TypeInv
  <2>2. CASE IsBatch(ev)
    <3>1. ev.seq \in Nat /\ merged' = [merged EXCEPT ![thread[ev.from].srv] = @ \cup {ev.seq}]
      BY <1>4, <2>2
    <3> QED
      BY <2>1, <3>1
  <2> QED
    BY <1>5, <2>1, <2>2
<1>7. acks' \in Seq(Nat)
  <2>1. acks \in Seq(Nat)
    BY DEF IInv, TypeInv
  <2>2. IsBatch(ev) => acks' \in Seq(Nat)
    <3>1. IsBatch(ev) => ev.seq \in Nat /\ acks' = Append(acks, ev.seq)
      BY <1>4
    <3> QED
      BY <2>1, <3>1, AppendProperties
  <2> QED
    BY <1>5, <2>1, <2>2
<1>8. TypeInv'
  <2>1. showsUp' \in BOOLEAN
    BY <1>4, <1>5 DEF IInv, TypeInv
  <2> QED
    BY <1>2, <1>3, <1>6, <1>7, <2>1 DEF IInv, TypeInv
<1>9. ToldIsTrue'
  <2>1. ASSUME window = "started", NoWord(events') PROVE showsUp' = status.up
    <3>1. CASE IsBatch(ev)
      <4>1. NoWord(events)
        <5>1. \A i \in DOMAIN events : IsBatch(events[i])
          BY <1>2, <2>1, <3>1 DEF NoWord, ev
        <5> QED
          BY <5>1 DEF NoWord
      <4> QED
        BY <1>4, <2>1, <3>1, <4>1 DEF IInv, StatusInv, ToldIsTrue
    <3>2. CASE ~ IsBatch(ev)
      BY <1>2, <1>3, <1>5, <2>1, <3>2
    <3> QED
      BY <3>1, <3>2
  <2> QED
    BY <1>2, <1>3, <2>1 DEF ToldIsTrue
<1>10. \A m \in 1..Gens : StatusStays(m)
  BY <1>3, OthersStay
<1>11. StatusInv'
  BY <1>3, <1>8, <1>9, <1>10, StatusStands DEF IInv
<1>12. Matches'
  <2>1. ASSUME Quiet PROVE Quiet'
    <3>1. ~ IsBatch(ev) /\ acks = <<>> /\ acking = Idle
      BY <1>2, <2>1 DEF Quiet, ev
    <3>2. \A i \in DOMAIN events' : ~ IsBatch(events'[i])
      BY <1>2, <2>1 DEF Quiet
    <3> QED
      BY <1>3, <1>5, <2>1, <3>1, <3>2 DEF Quiet
  <2> QED
    BY <1>3, <2>1 DEF IInv, CursorInv, Matches, Serving
<1>13. NoneAhead'
  BY <1>2, <1>3 DEF IInv, CursorInv, NoneAhead
<1>14. Serving => status.srv \in Servers
  BY DEF IInv, TypeInv, StatusT, ServersOrNone, Serving
<1>15. CursorIsEarned'
  <2>1. disk # None => disk.srv \in Servers
    BY DEF IInv, TypeInv, ConfigT
  <2> QED
    BY <1>3, <1>6, <1>14, <2>1 DEF IInv, CursorInv, CursorIsEarned, Serving
<1>16. ASSUME Serving, IsBatch(ev)
       PROVE  /\ thread[ev.from].srv = status.srv /\ ev.seq \in merged'[status.srv]
              /\ \A s \in Nat \ {0} : s < ev.seq => s \in merged[status.srv]
  <2>1. /\ thread[ev.from].srv = status.srv
        /\ \A s \in Nat \ {0} : s < ev.seq => s \in merged[status.srv] \/ Brought(s, events, 1 - 1)
    BY <1>2, <1>16 DEF IInv, CursorInv, EventsEarned, ev
  <2>2. \A s : ~ Brought(s, events, 1 - 1)
    <3>1. 1..(1 - 1) = {}
      OBVIOUS
    <3> QED
      BY <3>1 DEF Brought
  <2>3. merged \in [Servers -> SUBSET Nat] /\ merged' = [merged EXCEPT ![status.srv] = @ \cup {ev.seq}]
    BY <1>4, <1>16, <2>1 DEF IInv, TypeInv
  <2> QED
    BY <1>14, <1>16, <2>1, <2>2, <2>3
<1>17. AcksEarned'
  <2> DEFINE H(k) == 1..k \subseteq merged'[status.srv]
  <2>1. ASSUME Serving, NEW k, Had(k) PROVE H(k)
    BY <1>6, <1>14, <2>1 DEF Had
  <2>2. ASSUME Serving, IsBatch(ev) PROVE H(ev.seq)
    <3>1. \A s \in 1..ev.seq : s \in Nat \ {0} /\ (s < ev.seq \/ s = ev.seq)
      BY <1>4, <2>2
    <3>2. \A s \in 1..ev.seq : s \in merged'[status.srv]
      BY <1>6, <1>14, <1>16, <2>2, <3>1
    <3> QED
      BY <3>2
  <2> HIDE DEF H
  <2>3. ASSUME Serving, NEW i \in DOMAIN acks' PROVE H(acks'[i])
    <3>1. acks \in Seq(Nat) /\ DOMAIN acks = 1..Len(acks) /\ Len(acks) \in Nat
      BY LenProperties DEF IInv, TypeInv
    <3>2. \A j \in DOMAIN acks : H(acks[j])
      BY <2>1, <2>3 DEF IInv, CursorInv, AcksEarned
    <3>3. CASE IsBatch(ev)
      <4>1. acks' = Append(acks, ev.seq) /\ ev.seq \in Nat
        BY <1>4, <3>3
      <4>2. Len(acks') = Len(acks) + 1 /\ acks'[Len(acks) + 1] = ev.seq /\ \A j \in 1..Len(acks) : acks'[j] = acks[j]
        BY <3>1, <4>1, AppendProperties
      <4>3. i = Len(acks) + 1 \/ i \in 1..Len(acks)
        BY <1>7, <2>3, <3>1, <4>2, LenProperties
      <4> QED
        BY <2>2, <2>3, <3>1, <3>2, <3>3, <4>2, <4>3
    <3>4. CASE ~ IsBatch(ev)
      BY <1>5, <2>3, <3>2, <3>4
    <3> QED
      BY <3>3, <3>4
  <2>4. Serving /\ acking # Idle => H(acking.seq)
    BY <2>1 DEF IInv, CursorInv, AcksEarned
  <2>5. acking.step = "write" => acking.cfg = disk /\ disk # None
    BY DEF IInv, CursorInv, AcksEarned
  <2> QED
    BY <1>3, <2>3, <2>4, <2>5 DEF AcksEarned, Had, H, Serving
<1>18. EventsEarned'
  <2> SUFFICES ASSUME Serving, NEW i \in DOMAIN events', IsBatch(events'[i])
               PROVE  /\ thread[events'[i].from].srv = status.srv
                      /\ \A k \in Nat \ {0} : k < events'[i].seq => k \in merged'[status.srv] \/ Brought(k, events', i - 1)
    BY <1>3 DEF EventsEarned, Serving
  <2>1. events'[i] = events[i + 1] /\ i + 1 \in DOMAIN events /\ i \in Nat \ {0}
    BY <1>2
  <2>2. /\ thread[events[i + 1].from].srv = status.srv
        /\ \A k \in Nat \ {0} : k < events[i + 1].seq => k \in merged[status.srv] \/ Brought(k, events, i + 1 - 1)
    BY <2>1 DEF IInv, CursorInv, EventsEarned
  <2>3. ASSUME NEW k, Brought(k, events, i + 1 - 1) PROVE k \in merged'[status.srv] \/ Brought(k, events', i - 1)
    <3>1. PICK j \in 1..i : IsBatch(events[j]) /\ events[j].seq = k
      BY <2>1, <2>3 DEF Brought
    <3>2. j \in DOMAIN events
      BY <1>2, <2>1, <3>1
    <3>3. CASE j = 1
      <4>1. IsBatch(ev) /\ ev.seq = k
        BY <3>1, <3>3 DEF ev
      <4> QED
        BY <1>16, <4>1
    <3>4. CASE j # 1
      <4>1. events'[j - 1] = events[j]
        BY <1>2, <3>2, <3>4
      <4>2. j - 1 \in 1..(i - 1)
        BY <2>1, <3>1, <3>4
      <4> QED
        BY <3>1, <4>1, <4>2 DEF Brought
    <3> QED
      BY <3>3, <3>4
  <2> QED
    BY <1>6, <1>14, <2>1, <2>2, <2>3
<1>19. ThreadsEarned'
  <2> SUFFICES ASSUME Serving, NEW n \in 1..Gens, MayEmit(n)
               PROVE  /\ thread[n].srv = status.srv
                      /\ thread[n].st \notin {"wait", "start"} /\ ~ thread[n].lost => SentEarned(n)'
    BY <1>3 DEF ThreadsEarned, Serving, MayEmit
  <2>1. thread[n].srv = status.srv /\ (thread[n].st \notin {"wait", "start"} /\ ~ thread[n].lost => SentEarned(n))
    BY DEF IInv, CursorInv, ThreadsEarned
  <2>2. ASSUME NEW k, Owed(n, k) PROVE k \in merged'[status.srv] \/ Owed(n, k)'
    <3>1. PICK j \in DOMAIN events : IsBatch(events[j]) /\ events[j].from = n /\ events[j].seq = k
      BY <2>2 DEF Owed
    <3>2. CASE j = 1
      <4>1. IsBatch(ev) /\ ev.seq = k
        BY <3>1, <3>2 DEF ev
      <4> QED
        BY <1>16, <4>1
    <3>3. CASE j # 1
      <4>1. j - 1 \in DOMAIN events' /\ events'[j - 1] = events[j]
        BY <1>2, <3>3
      <4> QED
        BY <3>1, <4>1 DEF Owed
    <3> QED
      BY <3>2, <3>3
  <2> QED
    BY <1>3, <1>6, <1>14, <2>1, <2>2 DEF SentEarned
<1> QED
  BY <1>8, <1>11, <1>12, <1>13, <1>15, <1>17, <1>18, <1>19 DEF IInv, CursorInv

LEMMA ReloadsStep ==
    ASSUME Ordered, IInv, Reloads PROVE IInv'
<1> DEFINE lost(n) == thread[n].lost \/ \E i \in DOMAIN events : events[i].kind = "batch" /\ events[i].from = n
<1>1. /\ window' = "loading" /\ showsUp' = FALSE /\ events' = <<>>
      /\ UNCHANGED <<disk, token, gen, ready, status, merged, acks, acking>>
      /\ pairing' = IF pairing.step = "written" THEN NoPairing ELSE [pairing EXCEPT !.heard = pairing.step = ""]
      /\ thread' = [n \in DOMAIN thread |-> [thread[n] EXCEPT !.lost = lost(n)]]
  BY DEF Reloads
<1>2. thread \in [1..Gens -> ThreadT]
  BY DEF IInv, TypeInv
<1>3. ASSUME NEW n \in 1..Gens
      PROVE  /\ thread'[n] \in ThreadT /\ thread'[n].st = thread[n].st /\ thread'[n].srv = thread[n].srv
             /\ thread'[n].tok = thread[n].tok /\ thread'[n].sent = thread[n].sent
             /\ (thread'[n].lost <=> lost(n))
             /\ (thread'[n].lost = thread[n].lost => thread'[n] = thread[n])
  <2>1. lost(n) \in BOOLEAN
    OBVIOUS
  <2>2. thread'[n] = [thread[n] EXCEPT !.lost = lost(n)] /\ thread[n] \in ThreadT
    BY <1>1, <1>2
  <2> HIDE DEF lost
  <2>3. \A r \in ThreadT, l \in BOOLEAN : LET u == [r EXCEPT !.lost = l] IN
          /\ u \in ThreadT /\ u.st = r.st /\ u.srv = r.srv /\ u.tok = r.tok /\ u.sent = r.sent
          /\ u.lost = l /\ (l = r.lost => u = r)
    BY DEF ThreadT
  <2> QED
    BY <2>1, <2>2, <2>3
<1>4. thread' \in [1..Gens -> ThreadT]
  BY <1>1, <1>2, <1>3
<1>5. TypeInv'
  <2>1. pairing' \in [step : {"", "saved", "written"}, srv : ServersOrNone, heard : BOOLEAN]
    <3>1. pairing \in [step : {"", "saved", "written"}, srv : ServersOrNone, heard : BOOLEAN]
      BY DEF IInv, TypeInv
    <3>2. \A l \in BOOLEAN : [pairing EXCEPT !.heard = l] \in [step : {"", "saved", "written"}, srv : ServersOrNone, heard : BOOLEAN]
      BY <3>1
    <3>3. (pairing.step = "") \in BOOLEAN
      OBVIOUS
    <3>4. NoPairing \in [step : {"", "saved", "written"}, srv : ServersOrNone, heard : BOOLEAN]
      BY DEF NoPairing, ServersOrNone
    <3> QED
      BY <1>1, <3>2, <3>3, <3>4
  <2>2. events' \in Seq(EventT)
    BY <1>1, EmptySeq
  <2> QED
    BY <1>1, <1>4, <2>1, <2>2 DEF IInv, TypeInv
<1>6. \A i : i \notin DOMAIN events'
  <2>1. Len(events') = 0 /\ events' \in Seq(EventT)
    BY <1>1, EmptySeq
  <2>2. DOMAIN events' = 1..0
    BY <2>1, LenProperties
  <2> QED
    BY <2>2
<1>7. ToldIsTrue'
  BY <1>1, <1>6 DEF ToldIsTrue
<1>8. \A m \in 1..Gens : StatusStays(m)
  BY <1>3 DEF StatusStays
<1>9. StatusInv'
  BY <1>1, <1>5, <1>7, <1>8, StatusStands DEF IInv
<1>10. Matches'
  BY <1>1, <1>3, <1>6 DEF IInv, CursorInv, Matches, Quiet, Serving
<1>11. AcksEarned' /\ CursorIsEarned'
  BY <1>1 DEF IInv, CursorInv, AcksEarned, Had, CursorIsEarned, Serving
<1>12. EventsEarned'
  BY <1>6 DEF EventsEarned
<1>13. ThreadsEarned'
  <2> SUFFICES ASSUME Serving, NEW n \in 1..Gens, MayEmit(n)'
               PROVE  /\ thread'[n].srv = status.srv
                      /\ thread'[n].st \notin {"wait", "start"} /\ ~ thread'[n].lost => SentEarned(n)'
    BY <1>1 DEF ThreadsEarned, Serving
  <2>1. MayEmit(n)
    BY <1>1, <1>3 DEF MayEmit
  <2>2. thread[n].srv = status.srv /\ (thread[n].st \notin {"wait", "start"} /\ ~ thread[n].lost => SentEarned(n))
    BY <2>1 DEF IInv, CursorInv, ThreadsEarned
  <2>3. ~ thread'[n].lost => ~ thread[n].lost /\ \A k : ~ Owed(n, k)
    BY <1>3 DEF Owed, IsBatch
  <2> QED
    BY <1>1, <1>3, <2>2, <2>3 DEF SentEarned
<1>14. NoneAhead'
  <2>1. ASSUME NEW n \in 1..Gens, n > gen PROVE thread'[n] = NoThread
    <3>1. thread[n] = NoThread /\ ~ thread[n].lost
      BY <2>1 DEF IInv, CursorInv, NoneAhead, NoThread
    <3>2. ~ lost(n)
      <4>1. \A i \in DOMAIN events : events[i].kind = "batch" => events[i].from <= gen /\ events[i].from \in Nat
        <5> TAKE i \in DOMAIN events
        <5> HAVE events[i].kind = "batch"
        <5>1. events[i] \in EventT
          BY EventsAre DEF IInv
        <5>2. events[i].from \in 1..Gens
          BY <5>1, Kinds DEF IsBatch, BatchT
        <5> QED
          BY <5>2, GenIs DEF IInv, CursorInv, NoneAhead, IsBatch
      <4> QED
        BY <2>1, <3>1, <4>1, GenIs DEF IInv
    <3>3. thread'[n].lost \in BOOLEAN /\ thread[n].lost \in BOOLEAN
      BY <1>2, <1>3 DEF ThreadT
    <3>4. thread'[n].lost = thread[n].lost
      BY <1>3, <3>1, <3>2, <3>3
    <3> QED
      BY <1>3, <3>1, <3>4
  <2> QED
    BY <1>1, <1>6, <2>1 DEF NoneAhead
<1> QED
  BY <1>5, <1>9, <1>10, <1>11, <1>12, <1>13, <1>14 DEF IInv, CursorInv

AckT == [step : {"", "read", "write"}, seq : Nat, cfg : ConfigT]

LEMMA AckTypes ==
    /\ Idle \in AckT /\ Idle.step = ""
    /\ \A k \in Nat : LET a == [Idle EXCEPT !.step = "read", !.seq = k] IN a \in AckT /\ a.step = "read" /\ a.seq = k
    /\ \A a \in AckT, d \in ConfigT : LET b == [a EXCEPT !.step = "write", !.cfg = d] IN
         b \in AckT /\ b.cfg = d /\ b.seq = a.seq
<1>1. None \in ConfigT
  BY DEF ConfigT
<1>2. Idle \in AckT /\ Idle.step = ""
  BY <1>1 DEF Idle, AckT
<1>3. ASSUME NEW k \in Nat
      PROVE  LET a == [Idle EXCEPT !.step = "read", !.seq = k] IN a \in AckT /\ a.step = "read" /\ a.seq = k
  BY <1>2 DEF AckT
<1>4. ASSUME NEW a \in AckT, NEW d \in ConfigT
      PROVE  LET b == [a EXCEPT !.step = "write", !.cfg = d] IN b \in AckT /\ b.cfg = d /\ b.seq = a.seq
  BY DEF AckT
<1> QED
  BY <1>2, <1>3, <1>4

LEMMA QuitsStep ==
    ASSUME Ordered, IInv, Quits PROVE IInv'
<1>1. /\ window' = "loading" /\ showsUp' = FALSE /\ events' = <<>> /\ ready' = FALSE /\ status' = Off
      /\ acks' = <<>> /\ acking' = Idle /\ pairing' = NoPairing /\ UNCHANGED <<disk, token, gen, merged>>
      /\ thread' = [n \in DOMAIN thread |-> IF thread[n] = NoThread THEN NoThread ELSE [NoThread EXCEPT !.st = "gone"]]
  BY DEF Quits
<1>2. thread \in [1..Gens -> ThreadT]
  BY DEF IInv, TypeInv
<1>3. NoThread \in ThreadT /\ NoThread.st = "none" /\ [NoThread EXCEPT !.st = "gone"] \in ThreadT
      /\ [NoThread EXCEPT !.st = "gone"].st = "gone"
  BY DEF NoThread, ThreadT, States, ServersOrNone
<1>4. ASSUME NEW n \in 1..Gens
      PROVE  thread'[n] \in ThreadT /\ thread'[n].st \in {"none", "gone"} /\ (thread[n] = NoThread => thread'[n] = NoThread)
  BY <1>1, <1>2, <1>3
<1>5. TypeInv'
  <2>1. thread' \in [1..Gens -> ThreadT]
    BY <1>1, <1>2, <1>4
  <2>2. events' \in Seq(EventT) /\ acks' \in Seq(Nat)
    BY <1>1, EmptySeq
  <2>3. status' \in StatusT
    BY <1>1 DEF Off, StatusT, ServersOrNone
  <2>4. acking' \in [step : {"", "read", "write"}, seq : Nat, cfg : ConfigT]
    BY <1>1, AckTypes DEF AckT
  <2>5. pairing' \in [step : {"", "saved", "written"}, srv : ServersOrNone, heard : BOOLEAN]
    BY <1>1 DEF NoPairing, ServersOrNone
  <2> QED
    BY <1>1, <2>1, <2>2, <2>3, <2>4, <2>5 DEF IInv, TypeInv
<1>6. \A i : i \notin DOMAIN events'
  <2>1. Len(events') = 0 /\ events' \in Seq(EventT)
    BY <1>1, EmptySeq
  <2>2. DOMAIN events' = 1..0
    BY <2>1, LenProperties
  <2> QED
    BY <2>2
<1>7. ~ status'.up /\ ~ status'.halted /\ status'.srv = 0
  BY <1>1 DEF Off
<1>8. StatusInv'
  <2>1. gen' > 0 => gen' \in 1..Gens
    BY <1>1, GenIs DEF IInv
  <2>2. LeftIsUp' /\ SaysIsLeft'
    BY <1>4, <2>1 DEF LeftIsUp, SaysIsLeft, Live
  <2>3. UpIsLive' /\ HaltIsOwn'
    BY <1>7 DEF UpIsLive, HaltIsOwn
  <2>4. ToldIsTrue'
    BY <1>1, <1>6 DEF ToldIsTrue
  <2> QED
    BY <2>2, <2>3, <2>4 DEF StatusInv
<1>9. Matches'
  BY <1>1, <1>4, <1>6, <1>7 DEF Matches, Quiet, Serving
<1>10. AcksEarned' /\ EventsEarned' /\ ThreadsEarned'
  BY <1>1, <1>7 DEF AcksEarned, EventsEarned, ThreadsEarned, Serving, Idle
<1>11. CursorIsEarned'
  BY <1>1, <1>7 DEF IInv, CursorInv, CursorIsEarned
<1>12. NoneAhead'
  BY <1>1, <1>4, <1>6 DEF IInv, CursorInv, NoneAhead
<1> QED
  BY <1>5, <1>8, <1>9, <1>10, <1>11, <1>12 DEF IInv, CursorInv

-----------------------------------------------------------------------------
(* The acknowledgements.                                                    *)

\* What neither the threads nor the window take part in.
LEMMA AckStep ==
    ASSUME Ordered, IInv, TypeInv', Matches', AcksEarned', CursorIsEarned',
           UNCHANGED <<gen, thread, events, window, showsUp, merged>>,
           status'.srv = status.srv, status'.up = status.up, status'.halted = status.halted
    PROVE  IInv'
<1>1. \A m \in 1..Gens : StatusStays(m)
  BY DEF StatusStays
<1>2. BatchesStay /\ ToldIsTrue'
  BY SameEvents DEF IInv, StatusInv
<1>3. StatusInv'
  BY <1>1, <1>2, StatusStands DEF IInv
<1>4. EventsEarned' /\ ThreadsEarned' /\ NoneAhead'
  BY DEF IInv, CursorInv, EventsEarned, ThreadsEarned, NoneAhead, Serving, Brought, MayEmit, SentEarned, Owed
<1> QED
  BY <1>3, <1>4 DEF IInv, CursorInv

LEMMA AckMovesStep ==
    ASSUME Ordered, IInv, AckMoves PROVE IInv'
<1> DEFINE seq == acks[1]
<1>1. /\ acking = Idle /\ acks # <<>> /\ acks' = Tail(acks) /\ acks \in Seq(Nat) /\ status \in StatusT
      /\ UNCHANGED <<disk, token, gen, ready, thread, events, window, showsUp, merged, pairing>>
  BY DEF AckMoves, IInv, TypeInv
<1>2. /\ Len(acks) \in Nat /\ DOMAIN acks = 1..Len(acks) /\ Len(acks) # 0 /\ \A i \in DOMAIN acks : acks[i] \in Nat
      /\ Head(acks) = seq /\ acks' \in Seq(Nat) /\ Len(acks') = Len(acks) - 1
      /\ \A i \in 1..Len(acks') : acks'[i] = acks[i + 1]
  BY <1>1, ElementOfSeq, LenProperties, EmptySeq, HeadTailProperties
<1>3. seq \in Nat /\ 1 \in DOMAIN acks
  BY <1>2
<1>4. \A i \in DOMAIN acks' : i + 1 \in DOMAIN acks /\ acks'[i] = acks[i + 1]
  <2>1. DOMAIN acks' = 1..(Len(acks) - 1)
    BY <1>2, LenProperties
  <2> QED
    BY <1>2, <2>1
<1>5. \/ status' = status /\ acking' = acking
      \/ status' = [status EXCEPT !.cursor = seq] /\ acking' = [Idle EXCEPT !.step = "read", !.seq = seq]
  BY <1>1, <1>2 DEF AckMoves
<1>6. Serving => Had(seq)
  BY <1>3 DEF IInv, CursorInv, AcksEarned
<1> HIDE DEF seq
<1>7. /\ status' \in StatusT /\ status'.srv = status.srv /\ status'.up = status.up /\ status'.halted = status.halted
      /\ status'.cursor \in {status.cursor, seq}
  BY <1>1, <1>3, <1>5 DEF StatusT
<1>8. /\ acking' \in AckT
      /\ acking'.step # "write" /\ (acking' # Idle => acking'.seq = seq)
  BY <1>1, <1>3, <1>5, AckTypes
<1>9. TypeInv'
  BY <1>1, <1>2, <1>7, <1>8 DEF IInv, TypeInv, AckT
<1>10. Matches'
  BY <1>1, <1>7 DEF IInv, CursorInv, Matches, Serving, Quiet
<1>11. CursorIsEarned'
  BY <1>1, <1>6, <1>7 DEF IInv, CursorInv, CursorIsEarned, Had, Serving
<1>12. AcksEarned'
  <2>1. ASSUME Serving PROVE (\A i \in DOMAIN acks' : 1..acks'[i] \subseteq merged[status.srv]) /\ 1..seq \subseteq merged[status.srv]
    BY <1>4, <1>6, <2>1 DEF IInv, CursorInv, AcksEarned, Had
  <2> QED
    BY <1>1, <1>7, <1>8, <2>1 DEF AcksEarned, Had, Serving
<1> QED
  BY <1>1, <1>7, <1>9, <1>10, <1>11, <1>12, AckStep

LEMMA AckReadsStep ==
    ASSUME Ordered, IInv, AckReads PROVE IInv'
<1>1. /\ acking \in [step : {"", "read", "write"}, seq : Nat, cfg : ConfigT] /\ disk \in ConfigT /\ acking.step = "read"
      /\ acking' = IF disk = None THEN Idle ELSE [acking EXCEPT !.step = "write", !.cfg = disk]
      /\ UNCHANGED <<disk, token, gen, ready, status, thread, events, window, showsUp, merged, acks, pairing>>
  BY DEF AckReads, IInv, TypeInv
<1>2. /\ acking' \in AckT
      /\ acking' = Idle \/ (disk # None /\ acking'.cfg = disk /\ acking'.seq = acking.seq)
      /\ Idle.step = ""
  BY <1>1, AckTypes DEF AckT
<1>3. acking # Idle
  BY <1>1, <1>2
<1>4. TypeInv'
  BY <1>1, <1>2 DEF IInv, TypeInv, AckT
<1>5. Matches' /\ CursorIsEarned'
  BY <1>1, <1>3 DEF IInv, CursorInv, Matches, Serving, Quiet, CursorIsEarned
<1>6. AcksEarned'
  BY <1>1, <1>2, <1>3 DEF IInv, CursorInv, AcksEarned, Had, Serving
<1> QED
  BY <1>1, <1>4, <1>5, <1>6, AckStep

LEMMA AckWritesStep ==
    ASSUME Ordered, IInv, AckWrites PROVE IInv'
<1>1. /\ acking \in [step : {"", "read", "write"}, seq : Nat, cfg : ConfigT] /\ disk \in ConfigT /\ acking.step = "write"
      /\ disk' = [acking.cfg EXCEPT !.cursor = acking.seq] /\ acking' = Idle
      /\ UNCHANGED <<token, gen, ready, status, thread, events, window, showsUp, merged, acks, pairing>>
  BY DEF AckWrites, IInv, TypeInv
<1>2. Idle.step = "" /\ acking # Idle /\ Idle \in [step : {"", "read", "write"}, seq : Nat, cfg : ConfigT]
  BY <1>1, AckTypes DEF AckT
<1>3. acking.cfg = disk /\ disk # None
  BY <1>1 DEF IInv, CursorInv, AcksEarned
<1>4. Serving /\ disk.srv = status.srv /\ 1..acking.seq \subseteq merged[status.srv]
  BY <1>2, <1>3 DEF IInv, CursorInv, Matches, Quiet, AcksEarned, Had
<1>5. disk \in [srv : Servers, cursor : Nat] /\ acking.seq \in Nat
  BY <1>1, <1>3 DEF ConfigT
<1>6. disk' \in [srv : Servers, cursor : Nat] /\ disk'.srv = disk.srv /\ disk'.cursor = acking.seq
  BY <1>1, <1>3, <1>5
<1>7. disk' # None
  BY <1>6 DEF None, Ordered
<1>8. TypeInv'
  BY <1>1, <1>2, <1>6 DEF IInv, TypeInv, ConfigT
<1>9. Matches'
  BY <1>1, <1>4, <1>6, <1>7 DEF Matches, Serving
<1>10. CursorIsEarned'
  BY <1>1, <1>4, <1>6 DEF IInv, CursorInv, CursorIsEarned
<1>11. AcksEarned'
  BY <1>1, <1>2 DEF IInv, CursorInv, AcksEarned, Had, Serving
<1> QED
  BY <1>1, <1>8, <1>9, <1>10, <1>11, AckStep

-----------------------------------------------------------------------------
(* A thread of a new generation.                                            *)

\* The status it begins with.
Begun(d) == IF d = None THEN Off ELSE [status EXCEPT !.srv = d.srv, !.cursor = d.cursor, !.halted = FALSE]

LEMMA RestartStep ==
    ASSUME Ordered, IInv, NEW d \in ConfigT, NEW t \in ServersOrNone, Restart(d, t), disk' = d,
           acks = <<>>, acking = Idle, UNCHANGED <<merged, acks, acking>>,
           \/ d = None \/ d = disk
           \/ d.cursor = 0 /\ (\A i \in DOMAIN events : ~ IsBatch(events[i])) /\ (\A n \in 1..gen : thread[n].st # "hear")
    PROVE  /\ status' = Begun(d) /\ SetStatus(Begun(d)) /\ Begun(d) \in StatusT
           /\ thread' \in [1..Gens -> ThreadT] /\ gen' \in 0..Gens /\ events' \in Seq(EventT)
           /\ CursorInv' /\ (ToldIsTrue' => StatusInv')
<1> DEFINE new == [NoThread EXCEPT !.st = "start", !.srv = d.srv, !.tok = t]
           s == Begun(d)
<1>1. d \in [srv : Servers, cursor : Nat] \/ d = None
  BY DEF ConfigT
<1>2. d.srv \in ServersOrNone /\ d.cursor \in Nat /\ (d # None => d.srv # 0)
  BY <1>1 DEF ServersOrNone, None, Ordered
<1>3. /\ gen < Gens /\ gen' = gen + 1 /\ SetStatus(s)
      /\ \A n \in 1..gen : thread[n].st # "say"
      /\ thread' = [thread EXCEPT ![gen + 1] = new] \/ thread' = thread
  BY DEF Restart, Begun, Ordered
<1>4. s \in StatusT /\ s.srv = d.srv /\ s.cursor = d.cursor /\ ~ s.halted /\ (s.up => status.up)
  <2>1. status \in StatusT
    BY DEF IInv, TypeInv
  <2>2. CASE d = None
    BY <2>2 DEF Begun, Off, None, StatusT, ServersOrNone
  <2>3. CASE d # None
    BY <1>2, <2>1, <2>3 DEF Begun, StatusT
  <2> QED
    BY <2>2, <2>3
<1>5. new \in ThreadT /\ new.st = "start" /\ new.srv = d.srv
  BY <1>2 DEF NoThread, ThreadT, States, ServersOrNone
<1> HIDE DEF new, s
<1>6. gen \in Nat /\ Gens \in Nat /\ gen + 1 \in 1..Gens /\ gen' \in 0..Gens
      /\ \A n \in 1..Gens : n \in 1..gen \/ n = gen + 1 \/ n > gen + 1
  BY <1>3, GenIs DEF IInv
<1>7. thread \in [1..Gens -> ThreadT] /\ thread[gen + 1] = NoThread
  <2>1. gen + 1 > gen
    BY <1>6
  <2> QED
    BY <1>6, <2>1 DEF IInv, TypeInv, CursorInv, NoneAhead
<1>8. /\ thread' \in [1..Gens -> ThreadT] /\ \A n \in 1..Gens : n # gen + 1 => thread'[n] = thread[n]
      /\ thread'[gen + 1] \in {new, NoThread}
  BY <1>3, <1>5, <1>6, <1>7
<1>9. NoThread.st = "none"
  BY DEF NoThread
<1>10. status' = s /\ BatchesStay /\ events' \in Seq(EventT)
  BY <1>3, <1>4, StatusSet DEF IInv
<1>11. ASSUME NEW n \in 1..gen PROVE n \in 1..Gens /\ n # gen + 1 /\ thread'[n] = thread[n]
  BY <1>6, <1>8
<1>12. ASSUME NEW n \in 1..Gens, n \notin 1..gen PROVE thread'[n].st \in {"none", "start"} /\ (thread'[n].st = "start" => thread'[n].srv = d.srv)
  <2>1. n = gen + 1 \/ (n # gen + 1 /\ n > gen)
    BY <1>6, <1>12
  <2>2. n # gen + 1 /\ n > gen => thread'[n] = NoThread
    BY <1>8 DEF IInv, CursorInv, NoneAhead
  <2> QED
    BY <1>5, <1>8, <1>9, <2>1, <2>2
\* The cursor.
<1>13. Serving' => d # None
  BY <1>4, <1>10 DEF Serving, None
<1>14. Matches'
  BY <1>2, <1>4, <1>10, <1>13 DEF Matches, Serving
<1>15. Idle.step = ""
  BY AckTypes
<1>16. AcksEarned'
  <2>1. \A i : i \notin DOMAIN acks'
    <3>1. Len(acks') = 0 /\ acks' \in Seq(EventT)
      BY EmptySeq
    <3>2. DOMAIN acks' = 1..0
      BY <3>1, LenProperties
    <3> QED
      BY <3>2
  <2> QED
    BY <1>15, <2>1 DEF AcksEarned
<1>17. CursorIsEarned'
  <2> SUFFICES ASSUME d # None PROVE 1..d.cursor \subseteq merged[d.srv]
    BY <1>4, <1>10, <1>13 DEF CursorIsEarned, Serving
  <2>1. CASE d = disk
    BY <2>1 DEF IInv, CursorInv, CursorIsEarned
  <2>2. CASE d.cursor = 0
    BY <2>2
  <2> QED
    BY <2>1, <2>2
\* What the threads before it have still to say was of the same server, or nothing.
<1>18. \/ d = None
       \/ Serving /\ d.srv = status.srv
       \/ (\A i \in DOMAIN events : ~ IsBatch(events[i])) /\ (\A n \in 1..gen : thread[n].st # "hear")
  <2>1. CASE d = disk /\ d # None /\ ~ Serving
    <3>1. Quiet
      BY <2>1 DEF IInv, CursorInv, Matches
    <3> QED
      BY <1>11, <3>1 DEF Quiet
  <2>2. CASE d = disk /\ Serving
    BY <2>2 DEF IInv, CursorInv, Matches
  <2> QED
    BY <2>1, <2>2
<1>19. \A i \in DOMAIN events' : IsBatch(events'[i]) =>
          i \in DOMAIN events /\ events'[i] = events[i] /\ events[i].from \in 1..gen
  <2> TAKE i \in DOMAIN events'
  <2> HAVE IsBatch(events'[i])
  <2>1. i \in DOMAIN events /\ events'[i] = events[i]
    BY <1>10 DEF BatchesStay
  <2>2. events[i] \in EventT
    BY <2>1, EventsAre DEF IInv
  <2>3. events[i].from \in 1..Gens /\ events[i].from <= gen
    BY <2>1, <2>2, Kinds DEF BatchT, IInv, CursorInv, NoneAhead
  <2> QED
    BY <1>6, <2>1, <2>3
<1>20. \A i \in DOMAIN events : \A k : Brought(k, events, i - 1) => Brought(k, events', i - 1)
  <2> TAKE i \in DOMAIN events
  <2> TAKE k
  <2> HAVE Brought(k, events, i - 1)
  <2>1. PICK j \in 1..(i - 1) : IsBatch(events[j]) /\ events[j].seq = k
    BY DEF Brought
  <2>2. j \in DOMAIN events
    BY <2>1, EventsAre DEF IInv
  <2>3. events'[j] = events[j]
    BY <1>10, <2>2 DEF BatchesStay
  <2> QED
    BY <2>1, <2>3 DEF Brought
<1>21. EventsEarned'
  <2> SUFFICES ASSUME Serving', NEW i \in DOMAIN events', IsBatch(events'[i])
               PROVE  /\ thread'[events'[i].from].srv = status'.srv
                      /\ \A k \in Nat \ {0} : k < events'[i].seq => k \in merged'[status'.srv] \/ Brought(k, events', i - 1)
    BY DEF EventsEarned
  <2>1. i \in DOMAIN events /\ events'[i] = events[i] /\ events[i].from \in 1..gen
    BY <1>19
  <2>2. Serving /\ d.srv = status.srv
    BY <1>13, <1>18, <2>1
  <2>3. /\ thread[events[i].from].srv = status.srv
        /\ \A k \in Nat \ {0} : k < events[i].seq => k \in merged[status.srv] \/ Brought(k, events, i - 1)
    BY <2>1, <2>2 DEF IInv, CursorInv, EventsEarned
  <2>4. thread'[events[i].from] = thread[events[i].from]
    BY <1>11, <2>1
  <2> QED
    BY <1>4, <1>10, <1>20, <2>1, <2>2, <2>3, <2>4
<1>22. \A n, k : Owed(n, k) => Owed(n, k)'
  BY <1>10 DEF Owed, BatchesStay
<1>23. ThreadsEarned'
  <2> SUFFICES ASSUME Serving', NEW n \in 1..Gens, MayEmit(n)'
               PROVE  /\ thread'[n].srv = status'.srv
                      /\ thread'[n].st \notin {"wait", "start"} /\ ~ thread'[n].lost => SentEarned(n)'
    BY DEF ThreadsEarned
  <2>1. CASE n \in 1..gen
    <3>1. thread'[n] = thread[n] /\ n # gen'
      BY <1>3, <1>11, <2>1
    <3>2. thread[n].st = "hear" /\ MayEmit(n)
      BY <3>1 DEF MayEmit
    <3>3. Serving /\ d.srv = status.srv
      BY <1>13, <1>18, <2>1, <3>2
    <3>4. thread[n].srv = status.srv /\ (~ thread[n].lost => SentEarned(n))
      BY <3>2, <3>3 DEF IInv, CursorInv, ThreadsEarned
    <3> QED
      BY <1>4, <1>10, <1>22, <3>1, <3>3, <3>4 DEF SentEarned
  <2>2. CASE n \notin 1..gen
    <3>1. thread'[n].st = "start" /\ thread'[n].srv = d.srv
      BY <1>12, <2>2 DEF MayEmit
    <3> QED
      BY <1>4, <1>10, <3>1
  <2> QED
    BY <2>1, <2>2
<1>24. NoneAhead'
  <2>1. ASSUME NEW n \in 1..Gens, n > gen' PROVE thread'[n] = NoThread
    <3>1. n > gen /\ n # gen + 1
      BY <1>3, <1>6, <2>1
    <3> QED
      BY <1>8, <3>1 DEF IInv, CursorInv, NoneAhead
  <2>2. \A k \in 1..gen : k <= gen'
    BY <1>3, <1>6
  <2> QED
    BY <1>19, <2>1, <2>2 DEF NoneAhead
\* The status.
<1>25. LeftIsUp'
  <2>1. thread'[gen'].st \in {"none", "start"}
    BY <1>3, <1>5, <1>8, <1>9
  <2> QED
    BY <2>1 DEF LeftIsUp, Live
<1>26. UpIsLive'
  <2> SUFFICES ASSUME s.up PROVE \E n \in 1..gen' : thread'[n].st \in Live
    BY <1>10 DEF UpIsLive
  <2>1. PICK n \in 1..gen : thread[n].st \in Live
    BY <1>4 DEF IInv, StatusInv, UpIsLive
  <2>2. n \in 1..gen'
    BY <1>3, <1>6
  <2> QED
    BY <1>11, <2>1, <2>2
<1>27. SaysIsLeft'
  BY <1>3, <1>11, <1>12 DEF SaysIsLeft
<1>28. HaltIsOwn'
  BY <1>4, <1>10 DEF HaltIsOwn
<1> QED
  BY <1>3, <1>4, <1>6, <1>8, <1>10, <1>14, <1>16, <1>17, <1>21, <1>23, <1>24, <1>25, <1>26, <1>27, <1>28
     DEF CursorInv, StatusInv, s

\* A window that is answered with the status shows it.
LEMMA AnsweredIsTold ==
    ASSUME Ordered, IInv, NEW s \in StatusT, SetStatus(s), window # "loading", window' # "loading", showsUp' = s.up
    PROVE  ToldIsTrue'
<1>1. status' = s /\ LastWord(events', s.up)
  BY StatusSet DEF IInv, StatusInv, ToldIsTrue
<1> QED
  BY <1>1 DEF ToldIsTrue

LEMMA StartsStep ==
    ASSUME Ordered, IInv, Starts PROVE IInv'
<1>1. /\ window = "listens" /\ window' = "started" /\ acks = <<>> /\ acking = Idle /\ ready' = TRUE
      /\ Restart(disk, token) /\ showsUp' = status'.up /\ UNCHANGED <<disk, token, merged, acks, acking, pairing>>
      /\ disk \in ConfigT /\ token \in ServersOrNone
  BY DEF Starts, MainIsFree, IInv, TypeInv
<1>2. /\ status' = Begun(disk) /\ SetStatus(Begun(disk)) /\ Begun(disk) \in StatusT
      /\ thread' \in [1..Gens -> ThreadT] /\ gen' \in 0..Gens /\ events' \in Seq(EventT)
      /\ CursorInv' /\ (ToldIsTrue' => StatusInv')
  BY <1>1, RestartStep
<1>3. ToldIsTrue'
  BY <1>1, <1>2, AnsweredIsTold
<1>4. status'.up \in BOOLEAN
  BY <1>2 DEF StatusT
<1>5. TypeInv'
  BY <1>1, <1>2, <1>4 DEF IInv, TypeInv
<1> QED
  BY <1>2, <1>3, <1>5 DEF IInv

LEMMA SetsHeadersStep ==
    ASSUME Ordered, IInv, SetsHeaders PROVE IInv'
<1>1. /\ window = "started" /\ window' = window /\ acks = <<>> /\ acking = Idle /\ ready' = ready
      /\ Restart(disk, token) /\ showsUp' = status'.up /\ UNCHANGED <<disk, token, merged, acks, acking, pairing>>
      /\ disk \in ConfigT /\ token \in ServersOrNone
  BY DEF SetsHeaders, MainIsFree, IInv, TypeInv
<1>2. /\ status' = Begun(disk) /\ SetStatus(Begun(disk)) /\ Begun(disk) \in StatusT
      /\ thread' \in [1..Gens -> ThreadT] /\ gen' \in 0..Gens /\ events' \in Seq(EventT)
      /\ CursorInv' /\ (ToldIsTrue' => StatusInv')
  BY <1>1, RestartStep
<1>3. ToldIsTrue'
  BY <1>1, <1>2, AnsweredIsTold
<1>4. status'.up \in BOOLEAN
  BY <1>2 DEF StatusT
<1>5. TypeInv'
  BY <1>1, <1>2, <1>4 DEF IInv, TypeInv
<1> QED
  BY <1>2, <1>3, <1>5 DEF IInv

LEMMA ForgetsStep ==
    ASSUME Ordered, IInv, Forgets PROVE IInv'
<1>1. /\ window = "started" /\ window' = window /\ acks = <<>> /\ acking = Idle /\ ready' = ready
      /\ disk' = None /\ token' = 0 /\ Restart(None, 0) /\ showsUp' = FALSE /\ UNCHANGED <<merged, acks, acking, pairing>>
      /\ None \in ConfigT /\ 0 \in ServersOrNone
  BY DEF Forgets, MainIsFree, ConfigT, ServersOrNone
<1>2. /\ status' = Begun(None) /\ SetStatus(Begun(None)) /\ Begun(None) \in StatusT
      /\ thread' \in [1..Gens -> ThreadT] /\ gen' \in 0..Gens /\ events' \in Seq(EventT)
      /\ CursorInv' /\ (ToldIsTrue' => StatusInv')
  BY <1>1, RestartStep
<1>3. Begun(None).up = FALSE
  BY DEF Begun, Off
<1>4. ToldIsTrue'
  BY <1>1, <1>2, <1>3, AnsweredIsTold
<1>5. TypeInv'
  BY <1>1, <1>2 DEF IInv, TypeInv
<1> QED
  BY <1>2, <1>4, <1>5 DEF IInv

\* A new pairing begins with nothing replayed.
LEMMA PairWritesStep ==
    ASSUME Ordered, IInv, PairWrites PROVE IInv'
<1> DEFINE d == [srv |-> pairing.srv, cursor |-> 0]
<1>1. /\ pairing.step = "saved" /\ disk' = d /\ ready' = ready /\ Restart(disk', token)
      /\ acks = <<>> /\ acking = Idle /\ (\A i \in DOMAIN events : ~ IsBatch(events[i])) /\ (\A n \in 1..gen : thread[n].st # "hear")
      /\ pairing' = (IF pairing.heard THEN [pairing EXCEPT !.step = "written"] ELSE NoPairing)
      /\ UNCHANGED <<token, window, showsUp, merged, acks, acking>>
  BY DEF PairWrites, NewCursor, MainIsFree, IsBatch, Ordered
<1>2. pairing \in [step : {"", "saved", "written"}, srv : ServersOrNone, heard : BOOLEAN] /\ token \in ServersOrNone
  BY DEF IInv, TypeInv
<1>3. d \in ConfigT /\ d.cursor = 0
  BY <1>2 DEF ConfigT, ServersOrNone, None
<1> HIDE DEF d
<1>4. /\ status' = Begun(d) /\ SetStatus(Begun(d)) /\ Begun(d) \in StatusT
      /\ thread' \in [1..Gens -> ThreadT] /\ gen' \in 0..Gens /\ events' \in Seq(EventT)
      /\ CursorInv' /\ (ToldIsTrue' => StatusInv')
  BY <1>1, <1>2, <1>3, RestartStep
<1>5. ToldIsTrue'
  BY <1>1, <1>4, SetIsTold DEF IInv, StatusInv
<1>6. pairing' \in [step : {"", "saved", "written"}, srv : ServersOrNone, heard : BOOLEAN]
  <2>1. NoPairing \in [step : {"", "saved", "written"}, srv : ServersOrNone, heard : BOOLEAN]
    BY DEF NoPairing, ServersOrNone
  <2> QED
    BY <1>1, <1>2, <2>1
<1>7. TypeInv'
  BY <1>1, <1>3, <1>4, <1>6 DEF IInv, TypeInv
<1> QED
  BY <1>4, <1>5, <1>7 DEF IInv

-----------------------------------------------------------------------------
(* The invariant and the theorems.                                          *)

LEMMA InitIInv == ASSUME Ordered, Init PROVE IInv
<1>1. /\ disk = [srv |-> 1, cursor |-> 0] /\ token = 1 /\ gen = 0 /\ ready = FALSE /\ status = Off
      /\ thread = [n \in 1..Gens |-> NoThread] /\ events = <<>> /\ window = "loading" /\ showsUp = FALSE
      /\ merged = [s \in Servers |-> {}] /\ acks = <<>> /\ acking = Idle /\ pairing = NoPairing
      /\ 1 \in Servers /\ Gens \in Nat
  BY DEF Init, Ordered
<1>2. NoThread \in ThreadT /\ NoThread.st = "none"
  BY DEF NoThread, ThreadT, States, ServersOrNone
<1>3. thread \in [1..Gens -> ThreadT] /\ \A n \in 1..Gens : thread[n] = NoThread
  BY <1>1, <1>2
<1>4. \A i : i \notin DOMAIN events
  <2>1. Len(events) = 0 /\ events \in Seq(EventT)
    BY <1>1, EmptySeq
  <2>2. DOMAIN events = 1..0
    BY <2>1, LenProperties
  <2> QED
    BY <2>2
<1>5. status \in StatusT /\ status.srv = 0 /\ ~ status.up /\ ~ status.halted
  BY <1>1 DEF Off, StatusT, ServersOrNone
<1>6. acking \in AckT /\ acking.step = ""
  BY <1>1, AckTypes
<1>7. TypeInv
  <2>1. disk \in ConfigT /\ token \in ServersOrNone /\ gen \in 0..Gens
    BY <1>1 DEF ConfigT, ServersOrNone
  <2>2. events \in Seq(EventT) /\ acks \in Seq(Nat)
    BY <1>1, EmptySeq
  <2>3. pairing \in [step : {"", "saved", "written"}, srv : ServersOrNone, heard : BOOLEAN]
    BY <1>1 DEF NoPairing, ServersOrNone
  <2>4. merged \in [Servers -> SUBSET Nat]
    BY <1>1
  <2> QED
    BY <1>1, <1>3, <1>5, <1>6, <2>1, <2>2, <2>3, <2>4 DEF TypeInv, AckT
<1>8. CursorInv
  <2>1. Matches /\ AcksEarned /\ EventsEarned /\ ThreadsEarned
    BY <1>1, <1>2, <1>3, <1>4, <1>5, <1>6 DEF Matches, Quiet, Serving, AcksEarned, EventsEarned, ThreadsEarned
  <2>2. NoneAhead
    BY <1>3, <1>4 DEF NoneAhead
  <2>3. CursorIsEarned
    BY <1>1, <1>5 DEF CursorIsEarned
  <2> QED
    BY <2>1, <2>2, <2>3 DEF CursorInv
<1>9. StatusInv
  BY <1>1, <1>2, <1>3, <1>4, <1>5 DEF StatusInv, LeftIsUp, UpIsLive, SaysIsLeft, HaltIsOwn, ToldIsTrue
<1> QED
  BY <1>7, <1>8, <1>9 DEF IInv

LEMMA StutterStep == ASSUME IInv, UNCHANGED spvars PROVE IInv'
<1>1. TypeInv'
  BY DEF IInv, TypeInv, spvars
<1>2. CursorInv'
  BY DEF IInv, CursorInv, Matches, Quiet, Serving, AcksEarned, Had, EventsEarned, Brought, ThreadsEarned, MayEmit, SentEarned, Owed,
         NoneAhead, CursorIsEarned, spvars
<1>3. StatusInv'
  BY DEF IInv, StatusInv, LeftIsUp, UpIsLive, SaysIsLeft, HaltIsOwn, ToldIsTrue, Retiring, LastWord, NoWord, spvars
<1> QED
  BY <1>1, <1>2, <1>3 DEF IInv

LEMMA NextIInv == ASSUME Ordered, IInv, [Next]_spvars PROVE IInv'
<1>1. CASE \E n \in 1..Gens : Dial(n) \/ Opens(n) \/ Looks(n) \/ Welcomed(n) \/ Says(n) \/ Halts(n) \/ Hears(n) \/ Fails(n) \/ Waits(n)
  BY <1>1, DialStep, OpensStep, LooksStep, WelcomedStep, SaysStep, HaltsStep, HearsStep, FailsStep, WaitsStep
<1>2. CASE Listens \/ Starts \/ Takes \/ Reloads \/ Quits \/ AckMoves \/ AckReads \/ AckWrites
  BY <1>2, ListensStep, StartsStep, TakesStep, ReloadsStep, QuitsStep, AckMovesStep, AckReadsStep, AckWritesStep
<1>3. CASE (\E s \in Servers : PairSaves(s)) \/ PairWrites \/ PairFails \/ PairAnswers \/ Forgets \/ SetsHeaders
  BY <1>3, PairSavesStep, PairWritesStep, PairFailsStep, PairAnswersStep, ForgetsStep, SetsHeadersStep
<1>4. CASE UNCHANGED spvars
  BY <1>4, StutterStep
<1> QED
  BY <1>1, <1>2, <1>3, <1>4 DEF Next

LEMMA StatusInvIsTrue == ASSUME Ordered, IInv PROVE StatusIsTrue
<1> SUFFICES ASSUME Retiring = {}
             PROVE  /\ gen > 0 => (status.up <=> thread[gen].st \in Live)
                    /\ status.halted => thread[gen].st = "gone" /\ thread[gen].srv # thread[gen].tok
                    /\ events = <<>> /\ window = "started" => showsUp = status.up
  BY DEF StatusIsTrue, Live
<1>1. ASSUME gen > 0, status.up PROVE thread[gen].st \in Live
  <2>1. PICK n \in 1..gen : thread[n].st \in Live
    BY <1>1 DEF IInv, StatusInv, UpIsLive
  <2>2. n \in 1..Gens /\ (n < gen \/ n = gen)
    BY GenIs DEF IInv
  <2>3. ~ (n < gen)
    BY <2>1, <2>2, NoneRetires DEF IInv, Live, Parked
  <2> QED
    BY <2>1, <2>2, <2>3
<1>2. gen > 0 /\ thread[gen].st \in Live => status.up
  BY DEF IInv, StatusInv, LeftIsUp
<1>3. status.up \in BOOLEAN
  BY DEF IInv, TypeInv, StatusT
<1>4. ASSUME events = <<>> PROVE NoWord(events)
  <2>1. Len(events) = 0 /\ DOMAIN events = 1..Len(events)
    BY <1>4, EventsAre, EmptySeq DEF IInv
  <2> QED
    BY <2>1 DEF NoWord
<1> QED
  BY <1>1, <1>2, <1>3, <1>4 DEF IInv, StatusInv, HaltIsOwn, ToldIsTrue

LEMMA Invariance == Ordered => (Spec => []IInv)
<1> SUFFICES ASSUME Ordered PROVE Spec => []IInv
  OBVIOUS
<1>1. Init => IInv
  BY InitIInv
<1>2. IInv /\ [Next]_spvars => IInv'
  BY NextIInv
<1> QED
  BY <1>1, <1>2, PTL DEF Spec

\* What the cursor stands for has been applied here (sync_ack, sync_pair, supervise): whatever reconnects, re-pairings, reloads
\* and restarts come between, but for the orders of Calm, nothing that will not be asked for again is missing.
THEOREM CursorEarned == Ordered => (Spec => []CursorIsEarned)
<1> SUFFICES ASSUME Ordered PROVE Spec => []CursorIsEarned
  OBVIOUS
<1>1. IInv => CursorIsEarned
  BY DEF IInv, CursorInv
<1>2. Spec => []IInv
  BY Invariance
<1> QED
  BY <1>1, <1>2, PTL

\* Once the older threads have retired, the status is of the connection that is left, and a window that has handled every event
\* shows it (supervise, session, set_status, onSyncEvent), but for the orders of Calm.
THEOREM StatusShown == Ordered => (Spec => []StatusIsTrue)
<1> SUFFICES ASSUME Ordered PROVE Spec => []StatusIsTrue
  OBVIOUS
<1>1. IInv => StatusIsTrue
  BY StatusInvIsTrue
<1>2. Spec => []IInv
  BY Invariance
<1> QED
  BY <1>1, <1>2, PTL

-----------------------------------------------------------------------------
(* Deleting branches and checkouts (Cleanup).                               *)

CONSTANTS Commits, Jobs, CleanActs
VARIABLES trunk, remote, seenTrunk, seen, shipped, pr, local, tracked, tree, dirty, open, view, prs, job, made, acts, jobs, lost, excused
Clean == INSTANCE Cleanup WITH Acts <- CleanActs

\* What the last fetch, the last reading and GitHub have said is still so of the trunk and of the pull request.
EvidenceHolds ==
    /\ seenTrunk \subseteq trunk
    /\ prs = "merged" => pr
    /\ view # Clean!NoView => view.trunk \subseteq trunk /\ (view.tree.at = "branch" => view.tree.head = {})
TreeKept ==
    /\ tree = [at |-> tree.at, head |-> tree.head] /\ tree.at \in {"branch", "detached", "gone"}
    /\ tree.at # "detached" => tree.head = {}
    /\ dirty => tree.at # "gone"

\* What was picked for a clean-up rests on that.
Picking == job.at \in {"asked", "tree", "sweep", "remote"}
PicksHold ==
    Picking =>
       /\ job = [at |-> job.at, pick |-> job.pick]
       /\ job.pick.force => pr
       /\ job.pick.remote => pr \/ job.pick.sha \subseteq trunk
       /\ job.at \in {"asked", "tree"} /\ job.pick.tree => view # Clean!NoView /\ view.tree.at = "branch"

CleanInv == EvidenceHolds /\ TreeKept /\ PicksHold /\ Clean!WorkKept

\* A deletion whose leavings the evidence covers.
LEMMA Accounted ==
    ASSUME Clean!WorkKept, NEW h, NEW t, NEW k, NEW late, Clean!Account(h, t, k, late),
           (local \cup remote \cup tree.head) \ (h \cup t \cup k \cup trunk \cup shipped \cup Clean!Base) \subseteq late \cup (seen \ remote)
    PROVE  Clean!WorkKept'
BY DEF Clean!WorkKept, Clean!Account

\* The safe delete takes what its upstream, or the trunk, has.
LEMMA SafelyDeleted ==
    ASSUME seenTrunk \subseteq trunk, NEW heads \in {Clean!Base, seenTrunk}, Clean!SafeDeletes(heads)
    PROVE  local \ (remote \cup trunk \cup Clean!Base) \subseteq seen \ remote
BY DEF Clean!SafeDeletes

LEMMA TreeRemoved ==
    ASSUME CleanInv, NEW deleteBranch, Clean!RemoveTree(deleteBranch, tree.head)
    PROVE  tree' = Clean!NoTree /\ Clean!WorkKept'
<1>1. PICK heads \in {Clean!Base, seenTrunk} :
        /\ tree' = Clean!NoTree
        /\ local' = IF deleteBranch /\ tree.at = "branch" /\ Clean!SafeDeletes(heads) THEN {} ELSE local
        /\ Clean!Account(local', remote, {}, tree.head)
  BY DEF Clean!RemoveTree
<1>2. local \ (local' \cup remote \cup trunk \cup Clean!Base) \subseteq seen \ remote
  BY <1>1, SafelyDeleted DEF CleanInv, EvidenceHolds
<1>3. (local \cup remote \cup tree.head) \ (local' \cup remote \cup {} \cup trunk \cup shipped \cup Clean!Base)
        \subseteq tree.head \cup (seen \ remote)
  BY <1>2
<1> QED
  BY <1>1, <1>3, Accounted DEF CleanInv

\* What agents, people and the remote do takes no evidence away.
LEMMA OthersAct ==
    ASSUME CleanInv, seenTrunk' \subseteq trunk', trunk \subseteq trunk', pr => pr', UNCHANGED <<view, prs, job, lost, excused>>, TreeKept'
    PROVE  CleanInv'
BY DEF CleanInv, EvidenceHolds, PicksHold, Picking, Clean!WorkKept

LEMMA PeopleStep ==
    ASSUME CleanInv,
           \/ Clean!Edit \/ Clean!Commit \/ Clean!Detach \/ Clean!Session \/ Clean!Push
           \/ Clean!OthersPush \/ Clean!MergePr \/ Clean!OthersDelete \/ Clean!Fetch
    PROVE  CleanInv'
<1>1. CASE Clean!Edit \/ Clean!Session \/ Clean!Push \/ Clean!OthersPush \/ Clean!OthersDelete
  <2>1. UNCHANGED <<trunk, seenTrunk, pr, tree, view, prs, job, lost, excused>> /\ (dirty' => dirty \/ tree.at # "gone")
    BY <1>1 DEF Clean!Edit, Clean!Session, Clean!Push, Clean!OthersPush, Clean!OthersDelete, Clean!hub, Clean!refs, Clean!folder,
                Clean!screen, Clean!books
  <2>2. TreeKept'
    BY <2>1 DEF CleanInv, TreeKept
  <2> QED
    BY <2>1, <2>2, OthersAct DEF CleanInv, EvidenceHolds
<1>2. CASE Clean!Commit
  <2>1. UNCHANGED <<trunk, seenTrunk, pr, view, prs, job, lost, excused>> /\ dirty' = FALSE
    BY <1>2 DEF Clean!Commit, Clean!hub, Clean!screen, Clean!books
  <2>2. tree' = tree \/ (tree.at = "detached" /\ tree' = [tree EXCEPT !.head = @ \cup {made'}])
    BY <1>2 DEF Clean!Commit, CleanInv, TreeKept
  <2>3. \A a, h, x : LET r == [at |-> a, head |-> h] IN [r EXCEPT !.head = @ \cup {x}] = [at |-> a, head |-> h \cup {x}]
    OBVIOUS
  <2>4. TreeKept'
    BY <2>1, <2>2, <2>3 DEF CleanInv, TreeKept
  <2> QED
    BY <2>1, <2>4, OthersAct DEF CleanInv, EvidenceHolds
<1>3. CASE Clean!Detach
  <2>1. UNCHANGED <<trunk, seenTrunk, pr, view, prs, job, lost, excused>> /\ tree' = [at |-> "detached", head |-> local]
    BY <1>3 DEF Clean!Detach, Clean!hub, Clean!refs, Clean!screen, Clean!books
  <2>2. TreeKept'
    BY <2>1 DEF TreeKept
  <2> QED
    BY <2>1, <2>2, OthersAct DEF CleanInv, EvidenceHolds
<1>4. CASE Clean!MergePr
  <2>1. UNCHANGED <<seenTrunk, tree, dirty, view, prs, job, lost, excused>> /\ pr' = TRUE /\ trunk \subseteq trunk'
    BY <1>4 DEF Clean!MergePr, Clean!refs, Clean!folder, Clean!screen, Clean!books
  <2>2. TreeKept'
    BY <2>1 DEF CleanInv, TreeKept
  <2> QED
    BY <2>1, <2>2, OthersAct DEF CleanInv, EvidenceHolds
<1>5. CASE Clean!Fetch
  <2>1. UNCHANGED <<trunk, pr, tree, dirty, view, prs, job, lost, excused>> /\ seenTrunk' = trunk
    BY <1>5 DEF Clean!Fetch, Clean!hub, Clean!folder, Clean!screen, Clean!books
  <2>2. TreeKept'
    BY <2>1 DEF CleanInv, TreeKept
  <2> QED
    BY <2>1, <2>2, OthersAct
<1> QED
  BY <1>1, <1>2, <1>3, <1>4, <1>5

\* What a row offers rests on what it has read.
LEMMA Offered ==
    ASSUME CleanInv, view # Clean!NoView, NEW shared \in BOOLEAN
    PROVE  LET p == Clean!Picks(view, shared) IN
           /\ p.force => pr
           /\ p.remote => pr \/ p.sha \subseteq trunk
           /\ p.tree => view.tree.at = "branch"
<1> DEFINE p == Clean!Picks(view, shared)
<1>1. /\ p.force = Clean!Force(view) /\ p.tree = (Clean!LocalOk(view) /\ view.tree.at = "branch")
      /\ p.remote = (shared /\ Clean!RemoteOk(view)) /\ p.sha = view.seen
  BY DEF Clean!Picks
<1> HIDE DEF p
<1>2. Clean!PrMerged => pr
  BY DEF Clean!PrMerged, CleanInv, EvidenceHolds
<1>3. Clean!RemoteOk(view) => pr \/ view.seen \subseteq trunk
  BY <1>2 DEF Clean!RemoteOk, Clean!Merged, Clean!Tip, CleanInv, EvidenceHolds
<1> QED
  BY <1>1, <1>2, <1>3 DEF p, Clean!Force

LEMMA ViewStep ==
    ASSUME CleanInv, Clean!LoadBranches \/ Clean!LoadPrs \/ Clean!Over PROVE CleanInv'
<1> DEFINE read == Clean!Read
<1>1. UNCHANGED <<trunk, pr, seenTrunk, tree, dirty, lost, excused>>
  BY DEF Clean!LoadBranches, Clean!LoadPrs, Clean!Over, Clean!hub, Clean!refs, Clean!folder, Clean!books
<1>2. read.trunk = seenTrunk /\ read.tree = tree
  BY DEF Clean!Read
<1> HIDE DEF read
<1>3. view' \in {view, read} /\ (prs' = "merged" => pr)
  BY DEF Clean!LoadBranches, Clean!LoadPrs, Clean!Over, CleanInv, EvidenceHolds, read
<1>4. EvidenceHolds' /\ TreeKept' /\ Clean!WorkKept'
  BY <1>1, <1>2, <1>3 DEF CleanInv, EvidenceHolds, TreeKept, Clean!WorkKept
<1>5. PicksHold'
  <2>1. job' = Clean!Idle \/ (job' = job /\ (view' = view \/ job = Clean!Idle))
    BY DEF Clean!LoadBranches, Clean!LoadPrs, Clean!Over
  <2>2. Clean!Idle.at = "no"
    BY DEF Clean!Idle
  <2> QED
    BY <1>1, <2>1, <2>2 DEF CleanInv, PicksHold, Picking
<1> QED
  BY <1>4, <1>5 DEF CleanInv

LEMMA RunCleanStep ==
    ASSUME CleanInv, NEW shared \in BOOLEAN, Clean!RunClean(shared) PROVE CleanInv'
<1> DEFINE p == Clean!Picks(view, shared)
<1>1. /\ UNCHANGED <<trunk, pr, seenTrunk, tree, dirty, view, prs, lost, excused>> /\ view # Clean!NoView
      /\ job' = [at |-> IF shared THEN "asked" ELSE "tree", pick |-> p]
  BY DEF Clean!RunClean, Clean!hub, Clean!refs, Clean!folder, Clean!books
<1>2. (p.force => pr) /\ (p.remote => pr \/ p.sha \subseteq trunk) /\ (p.tree => view.tree.at = "branch")
  BY <1>1, Offered
<1> HIDE DEF p
<1>3. job'.pick = p /\ job' = [at |-> job'.at, pick |-> job'.pick]
  BY <1>1
<1>4. PicksHold'
  BY <1>1, <1>2, <1>3 DEF PicksHold
<1> QED
  BY <1>1, <1>4 DEF CleanInv, EvidenceHolds, TreeKept, Clean!WorkKept

\* The clean-up goes on with what was picked.
LEMMA PicksCarry ==
    ASSUME CleanInv, Picking, trunk \subseteq trunk', pr => pr', NEW a \in {"tree", "sweep", "remote"}, job' = [job EXCEPT !.at = a],
           UNCHANGED view, a = "tree" => job.at = "asked"
    PROVE  PicksHold'
<1>1. job = [at |-> job.at, pick |-> job.pick]
  BY DEF CleanInv, PicksHold
<1>2. \A b, q : [[at |-> b, pick |-> q] EXCEPT !.at = a] = [at |-> a, pick |-> q]
  OBVIOUS
<1>3. job' = [at |-> a, pick |-> job.pick]
  BY <1>1, <1>2
<1>4. job'.at = a /\ job'.pick = job.pick /\ job' = [at |-> job'.at, pick |-> job'.pick]
  BY <1>3
<1> QED
  BY <1>4 DEF CleanInv, PicksHold, Picking

LEMMA AnswerStep == ASSUME CleanInv, Clean!Answer PROVE CleanInv'
<1>1. UNCHANGED <<trunk, pr, seenTrunk, tree, dirty, view, prs, lost, excused>>
  BY DEF Clean!Answer, Clean!hub, Clean!refs, Clean!folder, Clean!books
<1>2. job.at = "asked" /\ (job' = Clean!Idle \/ job' = [job EXCEPT !.at = "tree"])
  BY DEF Clean!Answer
<1>3. PicksHold'
  <2>1. Clean!Idle.at = "no"
    BY DEF Clean!Idle
  <2> QED
    BY <1>1, <1>2, <2>1, PicksCarry DEF Picking, PicksHold
<1> QED
  BY <1>1, <1>3 DEF CleanInv, EvidenceHolds, TreeKept, Clean!WorkKept

LEMMA CleanTreeStep == ASSUME CleanInv, Clean!CleanTree PROVE CleanInv'
<1>1. UNCHANGED <<trunk, pr, seenTrunk, dirty, view, prs>> /\ job.at = "tree" /\ job' = [job EXCEPT !.at = "sweep"]
  BY DEF Clean!CleanTree, Clean!hub
<1>2. PicksHold'
  BY <1>1, PicksCarry DEF Picking
<1>3. TreeKept' /\ Clean!WorkKept'
  <2>1. CASE job.pick.tree /\ Clean!Removable
    <3>1. view.tree.head = {}
      BY <1>1, <2>1 DEF CleanInv, PicksHold, Picking, EvidenceHolds
    <3>2. tree.head \ Clean!Stray(view) = tree.head
      BY <3>1 DEF Clean!Stray
    <3>3. Clean!RemoveTree(FALSE, tree.head)
      BY <2>1, <3>2 DEF Clean!CleanTree
    <3>4. tree' = Clean!NoTree /\ Clean!WorkKept' /\ ~ dirty'
      BY <1>1, <2>1, <3>3, TreeRemoved DEF Clean!Removable
    <3> QED
      BY <3>4 DEF TreeKept, Clean!NoTree
  <2>2. CASE ~ (job.pick.tree /\ Clean!Removable)
    <3>1. UNCHANGED <<tree, lost, excused>>
      BY <2>2 DEF Clean!CleanTree, Clean!KeepTree
    <3> QED
      BY <1>1, <3>1 DEF CleanInv, TreeKept, Clean!WorkKept
  <2> QED
    BY <2>1, <2>2
<1> QED
  BY <1>1, <1>2, <1>3 DEF CleanInv, EvidenceHolds

LEMMA SweepStep == ASSUME CleanInv, Clean!Sweep PROVE CleanInv'
<1>1. UNCHANGED <<trunk, pr, remote, seenTrunk, seen, tree, dirty, view, prs>> /\ job.at = "sweep" /\ job' = [job EXCEPT !.at = "remote"]
  BY DEF Clean!Sweep, Clean!hub, Clean!folder
<1>2. PicksHold'
  BY <1>1, PicksCarry DEF Picking
<1>3. Clean!WorkKept'
  <2>1. PICK heads \in {Clean!Base, seenTrunk} :
          \/ (Clean!SafeDeletes(heads) \/ job.pick.force) /\ Clean!Account({}, remote, tree.head, Clean!ByName(local))
          \/ UNCHANGED <<lost, excused>>
    BY DEF Clean!Sweep
  <2>2. job.pick.force => Clean!ByName(local) = local
    BY <1>1 DEF Clean!ByName, CleanInv, PicksHold, Picking
  <2>3. Clean!SafeDeletes(heads) => local \ (remote \cup trunk \cup Clean!Base) \subseteq seen \ remote
    BY SafelyDeleted DEF CleanInv, EvidenceHolds
  <2>4. CASE (Clean!SafeDeletes(heads) \/ job.pick.force) /\ Clean!Account({}, remote, tree.head, Clean!ByName(local))
    <3>1. (local \cup remote \cup tree.head) \ ({} \cup remote \cup tree.head \cup trunk \cup shipped \cup Clean!Base)
            \subseteq Clean!ByName(local) \cup (seen \ remote)
      BY <2>2, <2>3, <2>4
    <3> QED
      BY <2>4, <3>1, Accounted DEF CleanInv
  <2> QED
    BY <2>1, <2>4 DEF CleanInv, Clean!WorkKept
<1> QED
  BY <1>1, <1>2, <1>3 DEF CleanInv, EvidenceHolds, TreeKept

LEMMA SweepRemoteStep == ASSUME CleanInv, Clean!SweepRemote PROVE CleanInv'
<1>1. /\ UNCHANGED <<trunk, shipped, pr, tree, dirty, view, prs>> /\ job.at = "remote" /\ job' = [job EXCEPT !.at = "over"]
      /\ seenTrunk' \in {trunk, seenTrunk}
  BY DEF Clean!SweepRemote, Clean!folder
<1>2. job = [at |-> job.at, pick |-> job.pick] /\ (job.pick.remote => pr \/ job.pick.sha \subseteq trunk)
  BY <1>1 DEF CleanInv, PicksHold, Picking
<1>3. PicksHold'
  <2>1. \A b, q : [[at |-> b, pick |-> q] EXCEPT !.at = "over"].at = "over"
    OBVIOUS
  <2> QED
    BY <1>1, <1>2, <2>1 DEF PicksHold, Picking
<1>4. Clean!WorkKept'
  <2> DEFINE late == Clean!ByName(remote) \cup (remote \ seen)
  <2>1. CASE job.pick.remote /\ Clean!Unmoved(job.pick.sha) /\ Clean!Account(local, {}, tree.head, late)
    <3>1. seen = job.pick.sha
      BY <2>1 DEF Clean!Unmoved
    <3>2. remote \ trunk \subseteq late
      BY <1>2, <2>1, <3>1 DEF Clean!ByName
    <3> HIDE DEF late
    <3>3. (local \cup remote \cup tree.head) \ (local \cup {} \cup tree.head \cup trunk \cup shipped \cup Clean!Base) \subseteq late \cup (seen \ remote)
      BY <3>2
    <3> QED
      BY <2>1, <3>3, Accounted DEF CleanInv
  <2>2. CASE UNCHANGED <<lost, excused>>
    BY <2>2 DEF CleanInv, Clean!WorkKept
  <2> QED
    BY <2>1, <2>2 DEF Clean!SweepRemote
<1> QED
  BY <1>1, <1>3, <1>4 DEF CleanInv, EvidenceHolds, TreeKept

LEMMA RemovalStep ==
    ASSUME CleanInv, Clean!CleanCheckout \/ Clean!AskRemoval \/ Clean!CloseSessionsIn \/ Clean!RemoveWorktree \/ Clean!DeleteBranch
    PROVE  CleanInv'
<1>1. UNCHANGED <<trunk, pr, seenTrunk, dirty, view, prs>>
  BY DEF Clean!CleanCheckout, Clean!AskRemoval, Clean!CloseSessionsIn, Clean!RemoveWorktree, Clean!DeleteBranch, Clean!hub, Clean!refs,
         Clean!folder, Clean!screen
<1>2. PicksHold'
  <2>1. job' = job \/ job' = Clean!Idle \/ job' = [at |-> "over"] \/ job' = [at |-> "close"] \/ job' = [at |-> "remove"]
    BY DEF Clean!CleanCheckout, Clean!AskRemoval, Clean!CloseSessionsIn, Clean!RemoveWorktree, Clean!DeleteBranch, Clean!screen
  <2>2. job' = job \/ job'.at \in {"no", "over", "close", "remove"}
    BY <2>1 DEF Clean!Idle
  <2> QED
    BY <1>1, <2>2 DEF CleanInv, PicksHold, Picking
<1>3. CASE Clean!CleanCheckout \/ Clean!RemoveWorktree
  <2>1. CASE Clean!Removable
    <3>1. Clean!CleanCheckout => Clean!Stray(view) = {}
      BY DEF Clean!CleanCheckout, Clean!CheckoutOk
    <3>2. Clean!RemoveTree(TRUE, tree.head)
      BY <1>3, <2>1, <3>1 DEF Clean!CleanCheckout, Clean!RemoveWorktree
    <3>3. tree' = Clean!NoTree /\ Clean!WorkKept' /\ ~ dirty'
      BY <1>1, <2>1, <3>2, TreeRemoved DEF Clean!Removable
    <3>4. TreeKept'
      BY <3>3 DEF TreeKept, Clean!NoTree
    <3> QED
      BY <1>1, <1>2, <3>3, <3>4 DEF CleanInv, EvidenceHolds
  <2>2. CASE ~ Clean!Removable
    <3>1. UNCHANGED <<tree, lost, excused>>
      BY <1>3, <2>2 DEF Clean!CleanCheckout, Clean!RemoveWorktree, Clean!KeepTree
    <3> QED
      BY <1>1, <1>2, <3>1 DEF CleanInv, EvidenceHolds, TreeKept, Clean!WorkKept
  <2> QED
    BY <2>1, <2>2
<1>4. CASE Clean!AskRemoval \/ Clean!CloseSessionsIn
  <2>1. UNCHANGED <<tree, lost, excused>>
    BY <1>4 DEF Clean!AskRemoval, Clean!CloseSessionsIn, Clean!folder, Clean!books
  <2> QED
    BY <1>1, <1>2, <2>1 DEF CleanInv, EvidenceHolds, TreeKept, Clean!WorkKept
<1>5. CASE Clean!DeleteBranch
  <2>1. PICK heads \in {Clean!Base, seenTrunk} : Clean!SafeDeletes(heads)
    BY <1>5 DEF Clean!DeleteBranch
  <2>2. Clean!Account({}, remote, tree.head, {}) /\ UNCHANGED tree
    BY <1>5 DEF Clean!DeleteBranch, Clean!folder
  <2>3. local \ (remote \cup trunk \cup Clean!Base) \subseteq seen \ remote
    BY <2>1, SafelyDeleted DEF CleanInv, EvidenceHolds
  <2>4. (local \cup remote \cup tree.head) \ ({} \cup remote \cup tree.head \cup trunk \cup shipped \cup Clean!Base) \subseteq {} \cup (seen \ remote)
    BY <2>3
  <2>5. Clean!WorkKept'
    BY <2>2, <2>4, Accounted DEF CleanInv
  <2> QED
    BY <1>1, <1>2, <2>2, <2>5 DEF CleanInv, EvidenceHolds, TreeKept
<1> QED
  BY <1>3, <1>4, <1>5

LEMMA CleanInit == ASSUME Clean!Init PROVE CleanInv
<1>1. /\ seenTrunk = Clean!Base /\ trunk = Clean!Base /\ prs = "unread" /\ view = Clean!NoView /\ lost = {} /\ dirty = FALSE
      /\ tree = [at |-> "branch", head |-> {}] /\ job = [at |-> "no"]
  BY DEF Clean!Init, Clean!Idle
<1> QED
  BY <1>1 DEF CleanInv, EvidenceHolds, TreeKept, PicksHold, Picking, Clean!WorkKept

LEMMA CleanNext == ASSUME CleanInv, [Clean!Next]_(Clean!brvars) PROVE CleanInv'
<1>1. CASE UNCHANGED Clean!brvars
  BY <1>1 DEF CleanInv, EvidenceHolds, TreeKept, PicksHold, Picking, Clean!WorkKept, Clean!brvars
<1>2. CASE Clean!Next
  BY <1>2, PeopleStep, ViewStep, RunCleanStep, AnswerStep, CleanTreeStep, SweepStep, SweepRemoteStep, RemovalStep DEF Clean!Next
<1> QED
  BY <1>1, <1>2

\* However readings age, sessions come and go and others push, and whatever may be committed and cleaned up, no clean-up deletes the
\* last ref to a commit its evidence was not about (branches.ts, dashboard.ts, remove_worktree, sweep_branches and delete_remote_branches).
THEOREM CleanupKeepsWork == Clean!Spec => []Clean!WorkKept
<1>1. Clean!Init => CleanInv
  BY CleanInit
<1>2. CleanInv /\ [Clean!Next]_(Clean!brvars) => CleanInv'
  BY CleanNext
<1>3. CleanInv => Clean!WorkKept
  BY DEF CleanInv
<1> QED
  BY <1>1, <1>2, <1>3, PTL DEF Clean!Spec

-----------------------------------------------------------------------------
(* The keep-awake button (KeepAwake).                                       *)

CONSTANTS Lengths, Mishaps, AwakeActs
VARIABLES armed, preset, length, key, timer, busy, calls, answers, held, left, cafActs, mishaps
Awake == INSTANCE KeepAwake WITH Acts <- AwakeActs

\* What the theorem assumes: the orders of Calm do not happen, and a timer has a length.
Timed == Calm /\ Lengths \subseteq Nat \ {0} /\ Mishaps \in Nat

Flags == {<<"none", 0>>, <<"display", 0>>, <<"system", 0>>} \cup ({"timer"} \X Lengths)
AwakeTypes ==
    /\ armed \in BOOLEAN /\ preset \in {"display", "system", "timer", "agents"} /\ length \in Lengths
    /\ key \in Flags /\ timer \in Nat /\ busy \in BOOLEAN
    /\ calls \in Seq(Flags) /\ answers \in Seq(BOOLEAN) /\ held \in Flags /\ left \in Nat /\ mishaps \in Nat

\* A timer runs while the preset is armed, for no longer than its length, and while its flags are the key; so does the child's own.
TimerRuns ==
    /\ timer # 0 <=> armed /\ preset = "timer"
    /\ timer <= length
    /\ key[1] = "timer" => timer # 0 /\ key[2] = length
    /\ left # 0 => held[1] = "timer"

\* A failure not heard of has left nothing held, and nothing else asked.
Failed == \E i \in DOMAIN answers : answers[i]
FailureStands == Failed => held = Awake!Nothing /\ \A i \in DOMAIN calls : calls[i] = Awake!Nothing
\* While a command may fail, only a reload asks after another.
AskedInTurn == mishaps < Mishaps => \A i \in DOMAIN calls : i > 1 => calls[i] = Awake!Nothing
\* What was asked last, or else is held, is the key; and the child outlasts the timer.
KeyIsAsked ==
    ~ Failed =>
       /\ calls # <<>> => calls[Len(calls)] = key
       /\ calls = <<>> => held = key /\ (key[1] = "timer" => timer <= left)

AwakeInv == AwakeTypes /\ TimerRuns /\ FailureStands /\ AskedInTurn /\ KeyIsAsked

LEMMA Growing ==
    ASSUME NEW S, NEW q \in Seq(S), NEW x \in S
    PROVE  LET r == Append(q, x) IN
           /\ r \in Seq(S) /\ r # <<>> /\ r[Len(r)] = x
           /\ \A i \in DOMAIN r : (i \in DOMAIN q /\ r[i] = q[i]) \/ (i = Len(q) + 1 /\ r[i] = x)
           /\ q = <<>> => \A i \in DOMAIN r : i = 1
           /\ \A i \in DOMAIN q : i \in DOMAIN r /\ r[i] = q[i]
           /\ \E i \in DOMAIN r : r[i] = x
<1> DEFINE r == Append(q, x)
<1>1. r \in Seq(S) /\ Len(r) = Len(q) + 1 /\ r[Len(q) + 1] = x /\ \A i \in 1..Len(q) : r[i] = q[i]
  BY AppendProperties
<1>2. DOMAIN r = 1..Len(r) /\ DOMAIN q = 1..Len(q) /\ Len(q) \in Nat
  BY <1>1, LenProperties
<1>3. r # <<>> /\ (q = <<>> => Len(q) = 0)
  BY <1>1, <1>2, EmptySeq
<1> HIDE DEF r
<1>4. Len(r) \in DOMAIN r /\ \A i \in DOMAIN r : i \in DOMAIN q \/ i = Len(q) + 1
  BY <1>1, <1>2
<1>5. \A i \in DOMAIN q : i \in DOMAIN r
  BY <1>1, <1>2
<1>6. q = <<>> => \A i \in DOMAIN r : i = 1
  BY <1>1, <1>2, <1>3
<1> QED
  BY <1>1, <1>2, <1>3, <1>4, <1>5, <1>6 DEF r

LEMMA Shrinking ==
    ASSUME NEW S, NEW q \in Seq(S), q # <<>>
    PROVE  LET r == Tail(q) IN
           /\ r \in Seq(S) /\ Head(q) = q[1] /\ q[1] \in S /\ 1 \in DOMAIN q
           /\ \A i \in DOMAIN r : i + 1 \in DOMAIN q /\ i + 1 > 1 /\ r[i] = q[i + 1]
           /\ r # <<>> => r[Len(r)] = q[Len(q)]
           /\ r = <<>> => Len(q) = 1
           /\ \A i \in DOMAIN q : i = 1 \/ (i - 1 \in DOMAIN r /\ r[i - 1] = q[i])
<1> DEFINE r == Tail(q)
<1>1. Head(q) = q[1] /\ r \in Seq(S) /\ Len(r) = Len(q) - 1 /\ \A i \in 1..Len(r) : r[i] = q[i + 1]
  BY HeadTailProperties
<1> HIDE DEF r
<1>2. DOMAIN r = 1..Len(r) /\ DOMAIN q = 1..Len(q) /\ Len(q) \in Nat /\ Len(q) # 0 /\ (r = <<>> <=> Len(r) = 0)
  BY <1>1, LenProperties, EmptySeq
<1>3. 1 \in DOMAIN q /\ q[1] \in S
  BY <1>2, ElementOfSeq
<1>4. \A i \in DOMAIN r : i + 1 \in DOMAIN q /\ i + 1 > 1 /\ r[i] = q[i + 1]
  BY <1>1, <1>2
<1>5. ASSUME r # <<>> PROVE r[Len(r)] = q[Len(q)]
  <2>1. Len(r) \in 1..Len(r) /\ Len(r) + 1 = Len(q)
    BY <1>1, <1>2, <1>5
  <2> QED
    BY <1>1, <2>1
<1>6. r = <<>> => Len(q) = 1
  BY <1>1, <1>2
<1>7. ASSUME NEW i \in DOMAIN q, i # 1 PROVE i - 1 \in DOMAIN r /\ r[i - 1] = q[i]
  <2>1. i - 1 \in 1..Len(r) /\ i - 1 + 1 = i
    BY <1>1, <1>2, <1>7
  <2> QED
    BY <1>1, <1>2, <2>1
<1> QED
  BY <1>1, <1>3, <1>4, <1>5, <1>6, <1>7 DEF r

LEMMA FlagsAre ==
    ASSUME Timed
    PROVE  /\ Awake!Nothing \in Flags /\ Awake!Nothing[1] # "timer"
           /\ \A f \in Flags : f[2] \in Nat /\ (f[1] = "timer" <=> f[2] # 0) /\ (f[1] = "timer" => f[2] \in Lengths)
<1>1. Awake!Nothing = <<"none", 0>>
  BY DEF Awake!Nothing
<1>2. ASSUME NEW f \in Flags PROVE f[2] \in Nat /\ (f[1] = "timer" <=> f[2] # 0) /\ (f[1] = "timer" => f[2] \in Lengths)
  <2>1. CASE f \in {<<"none", 0>>, <<"display", 0>>, <<"system", 0>>}
    BY <2>1
  <2>2. CASE f \in {"timer"} \X Lengths
    BY <2>2 DEF Timed
  <2> QED
    BY <1>2, <2>1, <2>2 DEF Flags
<1> QED
  BY <1>1, <1>2 DEF Flags

\* The flags wanted are those of the timer just while it runs.
LEMMA WantedIs ==
    ASSUME Timed, NEW on \in BOOLEAN, NEW p \in {"display", "system", "timer", "agents"}, NEW n \in Lengths, NEW agents \in BOOLEAN
    PROVE  LET f == Awake!Desired(on, p, n, agents) IN
           f \in Flags /\ (f[1] = "timer" <=> on /\ p = "timer") /\ (f[1] = "timer" => f[2] = n)
<1>1. CASE ~on \/ (p = "agents" /\ ~agents)
  <2>1. Awake!Desired(on, p, n, agents) = Awake!Nothing
    BY <1>1 DEF Awake!Desired
  <2> QED
    BY <1>1, <2>1, FlagsAre
<1>2. CASE on /\ p = "timer"
  BY <1>2 DEF Awake!Desired, Flags
<1>3. CASE on /\ (p = "system" \/ (p = "agents" /\ agents))
  BY <1>3 DEF Awake!Desired, Flags
<1>4. CASE on /\ p = "display"
  BY <1>4 DEF Awake!Desired, Flags
<1> QED
  BY <1>1, <1>2, <1>3, <1>4

\* What the user or a repaint leaves behind.
LEMMA Reconciled ==
    ASSUME Timed, AwakeInv, Awake!Reconcile, armed' \in BOOLEAN, preset' \in {"display", "system", "timer", "agents"}, length' \in Lengths,
           busy' \in BOOLEAN, timer' \in Nat, timer' <= length', timer' # 0 <=> armed' /\ preset' = "timer",
           UNCHANGED <<answers, held, left, mishaps>>,
           key' = key /\ key[1] = "timer" => timer' <= timer
    PROVE  AwakeInv'
<1>1. key' = Awake!Wanted' /\ Awake!Wanted' = Awake!Desired(armed', preset', length', busy')
  BY DEF Awake!Reconcile, Awake!Wanted
<1>2. key' \in Flags /\ (key'[1] = "timer" <=> armed' /\ preset' = "timer") /\ (key'[1] = "timer" => key'[2] = length')
  BY <1>1, WantedIs
<1>3. calls \in Seq(Flags)
  BY DEF AwakeInv, AwakeTypes
<1>4. \/ key' = key /\ calls' = calls
      \/ /\ calls' = Append(calls, key') /\ ~ Failed
         /\ calls = <<>> \/ mishaps = Mishaps
  BY <1>1 DEF Awake!Reconcile, Timed, Failed
<1>5. calls' \in Seq(Flags)
  BY <1>2, <1>3, <1>4, Growing
<1>6. AwakeTypes' /\ TimerRuns'
  BY <1>2, <1>5 DEF AwakeInv, AwakeTypes, TimerRuns
<1>7. Failed' <=> Failed
  BY DEF Failed
<1>8. CASE key' = key /\ calls' = calls
  <2>1. KeyIsAsked'
    <3>1. key[1] = "timer" /\ timer <= left => timer' <= left
      BY <1>8 DEF AwakeInv, AwakeTypes
    <3> QED
      BY <1>7, <1>8, <3>1 DEF AwakeInv, KeyIsAsked
  <2>2. FailureStands' /\ AskedInTurn'
    BY <1>7, <1>8 DEF AwakeInv, FailureStands, AskedInTurn
  <2> QED
    BY <1>6, <2>1, <2>2 DEF AwakeInv
<1>9. CASE calls' = Append(calls, key') /\ ~ Failed /\ (calls = <<>> \/ mishaps = Mishaps)
  <2>1. calls' # <<>> /\ calls'[Len(calls')] = key' /\ (calls = <<>> => \A i \in DOMAIN calls' : i = 1)
    BY <1>2, <1>3, <1>9, Growing
  <2>2. AskedInTurn'
    <3>1. mishaps' < Mishaps => calls = <<>>
      BY <1>9 DEF AwakeInv, AwakeTypes, Timed
    <3> QED
      BY <2>1, <3>1 DEF AskedInTurn
  <2> QED
    BY <1>6, <1>7, <1>9, <2>1, <2>2 DEF AwakeInv, FailureStands, KeyIsAsked
<1> QED
  BY <1>4, <1>8, <1>9

LEMMA ActedStep ==
    ASSUME Timed, AwakeInv, Awake!Acted, armed' \in BOOLEAN, preset' \in {"display", "system", "timer", "agents"}, length' \in Lengths
    PROVE  AwakeInv'
<1>1. timer' = (IF armed' /\ preset' = "timer" THEN length' ELSE 0) /\ Awake!Reconcile /\ UNCHANGED <<busy, answers, held, left, mishaps>>
      /\ (key' # key \/ timer' \in {timer, 0})
  BY DEF Awake!Acted, Awake!ArmTimer, Timed
<1>2. length' \in Nat \ {0} /\ busy' \in BOOLEAN /\ timer \in Nat
  BY <1>1 DEF Timed, AwakeInv, AwakeTypes
<1>3. timer' \in Nat /\ timer' <= length' /\ (timer' # 0 <=> armed' /\ preset' = "timer") /\ (key' = key => timer' <= timer)
  BY <1>1, <1>2
<1> QED
  BY <1>1, <1>2, <1>3, Reconciled

LEMMA UserStep ==
    ASSUME Timed, AwakeInv,
           \/ Awake!Toggle \/ Awake!Stop \/ \E p \in {"display", "system", "timer", "agents"} : Awake!Pick(p)
           \/ \E n \in Lengths : Awake!SetDuration(n)
    PROVE  AwakeInv'
<1>1. armed \in BOOLEAN /\ preset \in {"display", "system", "timer", "agents"} /\ length \in Lengths
  BY DEF AwakeInv, AwakeTypes
<1>2. armed' \in BOOLEAN /\ preset' \in {"display", "system", "timer", "agents"} /\ length' \in Lengths /\ Awake!Acted
  BY <1>1 DEF Awake!Toggle, Awake!Stop, Awake!Pick, Awake!SetDuration
<1> QED
  BY <1>2, ActedStep

LEMMA RepaintStep == ASSUME Timed, AwakeInv, Awake!SetAwait \/ Awake!RenderAll \/ Awake!TimerEnds PROVE AwakeInv'
<1>1. /\ armed \in BOOLEAN /\ preset \in {"display", "system", "timer", "agents"} /\ length \in Lengths /\ busy \in BOOLEAN /\ timer \in Nat
      /\ timer <= length /\ (timer # 0 <=> armed /\ preset = "timer") /\ length \in Nat
  BY DEF AwakeInv, AwakeTypes, TimerRuns, Timed
<1>2. Awake!Reconcile /\ UNCHANGED <<preset, length, answers, held, left, mishaps>>
  BY DEF Awake!SetAwait, Awake!RenderAll, Awake!TimerEnds
<1>3. busy' \in BOOLEAN /\ ((armed' = armed /\ timer' = timer) \/ (armed' = FALSE /\ timer' = 0))
  BY <1>1 DEF Awake!SetAwait, Awake!RenderAll, Awake!TimerEnds
<1>4. /\ timer' \in Nat /\ timer' <= length' /\ timer' <= timer
      /\ armed' \in BOOLEAN /\ preset' \in {"display", "system", "timer", "agents"} /\ length' \in Lengths
  <2>1. timer' = timer \/ timer' = 0
    BY <1>3
  <2>2. timer' \in Nat /\ timer' <= length /\ timer' <= timer
    BY <1>1, <2>1
  <2> QED
    BY <1>1, <1>2, <1>3, <2>2
<1>5. timer' # 0 <=> armed' /\ preset' = "timer"
  BY <1>1, <1>2, <1>3
<1> QED
  BY <1>2, <1>3, <1>4, <1>5, Reconciled

LEMMA AgentsTurnStep == ASSUME AwakeInv, Awake!AgentsTurn PROVE AwakeInv'
BY DEF AwakeInv, AwakeTypes, TimerRuns, FailureStands, Failed, AskedInTurn, KeyIsAsked, Awake!AgentsTurn

\* A child whose own time is up was the timer's, which has fired before.
LEMMA TickStep == ASSUME Timed, AwakeInv, Awake!Tick PROVE AwakeInv'
<1>1. /\ timer # 1 /\ timer' = (IF timer = 0 THEN 0 ELSE timer - 1) /\ left' = (IF left = 0 THEN 0 ELSE left - 1)
      /\ held' = (IF left = 1 THEN Awake!Nothing ELSE held)
      /\ UNCHANGED <<armed, preset, length, key, busy, calls, answers, mishaps>>
      /\ timer \in Nat /\ left \in Nat /\ length \in Nat /\ held \in Flags /\ key \in Flags
  BY DEF Awake!Tick, AwakeInv, AwakeTypes, Timed
<1>2. timer' \in Nat /\ left' \in Nat /\ (timer' = 0 <=> timer = 0) /\ timer' <= timer /\ (timer <= left => timer' <= left')
  BY <1>1
<1>3. held' \in Flags
  BY <1>1, FlagsAre
<1>4. AwakeTypes'
  BY <1>1, <1>2, <1>3 DEF AwakeInv, AwakeTypes
<1>5. TimerRuns'
  BY <1>1, <1>2 DEF AwakeInv, TimerRuns
<1>6. FailureStands' /\ AskedInTurn'
  BY <1>1 DEF AwakeInv, FailureStands, Failed, AskedInTurn
<1>7. KeyIsAsked'
  <2> SUFFICES ASSUME ~ Failed, calls = <<>> PROVE held' = key /\ (key[1] = "timer" => timer' <= left')
    BY <1>1 DEF KeyIsAsked, Failed, AwakeInv
  <2>1. held = key /\ (key[1] = "timer" => timer <= left)
    BY DEF AwakeInv, KeyIsAsked
  <2>2. left # 1
    <3> SUFFICES ASSUME left = 1 PROVE FALSE
      OBVIOUS
    <3>1. key[1] = "timer" /\ timer # 0 /\ timer <= 1
      BY <2>1 DEF AwakeInv, TimerRuns
    <3> QED
      BY <1>1, <3>1
  <2> QED
    BY <1>1, <1>2, <2>1, <2>2
<1> QED
  BY <1>4, <1>5, <1>6, <1>7 DEF AwakeInv

LEMMA RunsStep == ASSUME Timed, AwakeInv, Awake!Runs PROVE AwakeInv'
<1> DEFINE f == calls[1]
<1>1. /\ calls \in Seq(Flags) /\ calls # <<>> /\ calls' = Tail(calls) /\ answers \in Seq(BOOLEAN)
      /\ UNCHANGED <<armed, preset, length, key, timer, busy>> /\ mishaps \in Nat
  BY DEF Awake!Runs, AwakeInv, AwakeTypes
<1>2. /\ calls' \in Seq(Flags) /\ Head(calls) = f /\ f \in Flags /\ 1 \in DOMAIN calls
      /\ \A i \in DOMAIN calls' : i + 1 \in DOMAIN calls /\ i + 1 > 1 /\ calls'[i] = calls[i + 1]
      /\ calls' # <<>> => calls'[Len(calls')] = calls[Len(calls)]
      /\ calls' = <<>> => Len(calls) = 1
  BY <1>1, Shrinking
<1>3. \/ held' = f /\ left' = f[2] /\ answers' = Append(answers, FALSE) /\ mishaps' = mishaps
      \/ /\ f # Awake!Nothing /\ mishaps < Mishaps /\ mishaps' = mishaps + 1
         /\ held' = Awake!Nothing /\ left' = 0 /\ answers' = Append(answers, TRUE)
  BY <1>2 DEF Awake!Runs
<1>4. calls' = <<>> => f = calls[Len(calls)]
  BY <1>2
<1> HIDE DEF f
<1>5. f[2] \in Nat /\ (f[1] = "timer" <=> f[2] # 0) /\ Awake!Nothing \in Flags
  BY <1>2, FlagsAre
<1>6. CASE held' = f /\ left' = f[2] /\ answers' = Append(answers, FALSE) /\ mishaps' = mishaps
  <2>1. /\ answers' \in Seq(BOOLEAN)
        /\ \A i \in DOMAIN answers' : (i \in DOMAIN answers /\ answers'[i] = answers[i]) \/ answers'[i] = FALSE
        /\ \A i \in DOMAIN answers : i \in DOMAIN answers' /\ answers'[i] = answers[i]
    <3>1. \A x \in BOOLEAN : LET r == Append(answers, x) IN
            /\ r \in Seq(BOOLEAN)
            /\ \A i \in DOMAIN r : (i \in DOMAIN answers /\ r[i] = answers[i]) \/ r[i] = x
            /\ \A i \in DOMAIN answers : i \in DOMAIN r /\ r[i] = answers[i]
      BY <1>1, Growing
    <3>2. FALSE \in BOOLEAN
      OBVIOUS
    <3> QED
      BY <1>6, <3>1, <3>2, Zenon
  <2>2. Failed' <=> Failed
    BY <2>1 DEF Failed
  <2>3. AwakeTypes'
    BY <1>1, <1>2, <1>5, <1>6, <2>1 DEF AwakeInv, AwakeTypes
  <2>4. TimerRuns'
    BY <1>1, <1>5, <1>6 DEF AwakeInv, TimerRuns
  <2>5. FailureStands'
    <3>1. Failed => f = Awake!Nothing
      BY <1>2 DEF AwakeInv, FailureStands, f
    <3> QED
      BY <1>2, <1>6, <2>2, <3>1 DEF AwakeInv, FailureStands
  <2>6. AskedInTurn'
    BY <1>2, <1>6 DEF AwakeInv, AskedInTurn
  <2>7. KeyIsAsked'
    <3> SUFFICES ASSUME ~ Failed
                 PROVE  /\ calls' # <<>> => calls'[Len(calls')] = key
                        /\ calls' = <<>> => f = key /\ (key[1] = "timer" => timer <= f[2])
      BY <1>1, <1>6, <2>2 DEF KeyIsAsked
    <3>1. calls[Len(calls)] = key
      BY <1>1 DEF AwakeInv, KeyIsAsked
    <3>2. key[1] = "timer" => timer <= key[2]
      BY DEF AwakeInv, TimerRuns
    <3> QED
      BY <1>2, <1>4, <3>1, <3>2
  <2> QED
    BY <2>3, <2>4, <2>5, <2>6, <2>7 DEF AwakeInv
<1>7. CASE /\ f # Awake!Nothing /\ mishaps < Mishaps /\ mishaps' = mishaps + 1
           /\ held' = Awake!Nothing /\ left' = 0 /\ answers' = Append(answers, TRUE)
  <2>1. answers' \in Seq(BOOLEAN) /\ \E i \in DOMAIN answers' : answers'[i] = TRUE
    <3>1. \A x \in BOOLEAN : LET r == Append(answers, x) IN r \in Seq(BOOLEAN) /\ \E i \in DOMAIN r : r[i] = x
      BY <1>1, Growing
    <3>2. TRUE \in BOOLEAN
      OBVIOUS
    <3> QED
      BY <1>7, <3>1, <3>2, Zenon
  <2>2. Failed'
    BY <2>1 DEF Failed
  <2>3. AwakeTypes'
    BY <1>1, <1>2, <1>5, <1>7, <2>1 DEF AwakeInv, AwakeTypes
  <2>4. TimerRuns'
    BY <1>1, <1>7 DEF AwakeInv, TimerRuns
  <2>5. \A i \in DOMAIN calls' : calls'[i] = Awake!Nothing
    BY <1>2, <1>7 DEF AwakeInv, AskedInTurn
  <2>6. FailureStands' /\ AskedInTurn' /\ KeyIsAsked'
    BY <1>7, <2>2, <2>5 DEF FailureStands, AskedInTurn, KeyIsAsked, Awake!Nothing
  <2> QED
    BY <2>3, <2>4, <2>6 DEF AwakeInv
<1> QED
  BY <1>3, <1>6, <1>7

LEMMA AnsweredStep == ASSUME Timed, AwakeInv, Awake!Answered PROVE AwakeInv'
<1>1. /\ answers \in Seq(BOOLEAN) /\ answers # <<>> /\ answers' = Tail(answers)
      /\ key' = (IF Head(answers) THEN Awake!Nothing ELSE key)
      /\ UNCHANGED <<armed, preset, length, timer, busy, calls, held, left, mishaps>> /\ calls \in Seq(Flags)
  BY DEF Awake!Answered, Awake!KeyAfterFailure, AwakeInv, AwakeTypes, Awake!Nothing
<1>2. /\ answers' \in Seq(BOOLEAN) /\ Head(answers) = answers[1] /\ 1 \in DOMAIN answers
      /\ \A i \in DOMAIN answers' : i + 1 \in DOMAIN answers /\ answers'[i] = answers[i + 1]
      /\ \A i \in DOMAIN answers : i = 1 \/ (i - 1 \in DOMAIN answers' /\ answers'[i - 1] = answers[i])
  BY <1>1, Shrinking
<1>3. Awake!Nothing \in Flags /\ Awake!Nothing[1] # "timer"
  BY FlagsAre
<1>4. AwakeTypes' /\ TimerRuns'
  BY <1>1, <1>2, <1>3 DEF AwakeInv, AwakeTypes, TimerRuns
<1>5. Failed' => Failed
  BY <1>2 DEF Failed
<1>6. FailureStands' /\ AskedInTurn'
  BY <1>1, <1>5 DEF AwakeInv, FailureStands, AskedInTurn
<1>7. KeyIsAsked'
  <2> SUFFICES ASSUME ~ Failed'
               PROVE  /\ calls # <<>> => calls[Len(calls)] = key'
                      /\ calls = <<>> => held = key' /\ (key'[1] = "timer" => timer <= left)
    BY <1>1 DEF KeyIsAsked
  <2>1. CASE Head(answers)
    <3>1. Failed
      BY <1>2, <2>1 DEF Failed
    <3>2. key' = Awake!Nothing /\ held = Awake!Nothing /\ \A i \in DOMAIN calls : calls[i] = Awake!Nothing
      BY <1>1, <2>1, <3>1 DEF AwakeInv, FailureStands
    <3>3. calls # <<>> => Len(calls) \in DOMAIN calls
      <4>1. Len(calls) \in Nat /\ DOMAIN calls = 1..Len(calls) /\ (calls = <<>> <=> Len(calls) = 0)
        BY <1>1, LenProperties, EmptySeq
      <4> QED
        BY <4>1
    <3> QED
      BY <1>3, <3>2, <3>3
  <2>2. CASE ~ Head(answers)
    <3>1. key' = key
      BY <1>1, <2>2
    <3>2. ~ Failed
      <4> SUFFICES ASSUME NEW i \in DOMAIN answers, answers[i] PROVE FALSE
        BY DEF Failed
      <4>1. i # 1
        BY <1>2, <2>2
      <4> QED
        BY <1>2, <4>1 DEF Failed
    <3> QED
      BY <3>1, <3>2 DEF AwakeInv, KeyIsAsked
  <2> QED
    BY <2>1, <2>2
<1> QED
  BY <1>4, <1>6, <1>7 DEF AwakeInv

\* The window forgets, and says so to the child.
LEMMA AwakeReloadStep == ASSUME Timed, AwakeInv, Awake!Reload PROVE AwakeInv'
<1>1. /\ armed' = FALSE /\ key' = Awake!Nothing /\ timer' = 0 /\ calls' = Append(calls, Awake!Nothing) /\ answers' = <<>>
      /\ UNCHANGED <<preset, length, busy, held, left, mishaps>> /\ calls \in Seq(Flags) /\ length \in Nat
  BY DEF Awake!Reload, AwakeInv, AwakeTypes, Timed
<1>2. Awake!Nothing \in Flags /\ Awake!Nothing[1] # "timer"
  BY FlagsAre
<1>3. /\ calls' \in Seq(Flags) /\ calls' # <<>> /\ calls'[Len(calls')] = Awake!Nothing
      /\ \A i \in DOMAIN calls' : (i \in DOMAIN calls /\ calls'[i] = calls[i]) \/ calls'[i] = Awake!Nothing
  BY <1>1, <1>2, Growing
<1>4. answers' \in Seq(BOOLEAN) /\ ~ Failed'
  <2>1. answers' \in Seq(BOOLEAN) /\ Len(answers') = 0
    BY <1>1, EmptySeq
  <2>2. DOMAIN answers' = 1..0
    BY <2>1, LenProperties
  <2> QED
    BY <2>1, <2>2 DEF Failed
<1>5. AwakeTypes'
  BY <1>1, <1>2, <1>3, <1>4 DEF AwakeInv, AwakeTypes
<1>6. TimerRuns'
  <2>1. timer' = 0 /\ ~ armed' /\ timer' <= length' /\ key'[1] # "timer" /\ (left' # 0 => held'[1] = "timer")
    BY <1>1, <1>2 DEF AwakeInv, TimerRuns
  <2> QED
    BY <2>1 DEF TimerRuns
<1>7. AskedInTurn'
  BY <1>1, <1>3 DEF AwakeInv, AskedInTurn
<1> QED
  BY <1>1, <1>3, <1>4, <1>5, <1>6, <1>7 DEF AwakeInv, FailureStands, KeyIsAsked

LEMMA AwakeInit == ASSUME Timed, Awake!Init PROVE AwakeInv
<1>1. /\ armed = FALSE /\ preset \in {"display", "agents"} /\ length \in Lengths /\ key = Awake!Nothing /\ timer = 0
      /\ busy \in BOOLEAN /\ calls = <<>> /\ answers = <<>> /\ held = Awake!Nothing /\ left = 0 /\ mishaps \in 0..Mishaps
  BY DEF Awake!Init
<1>2. Awake!Nothing \in Flags /\ Awake!Nothing[1] # "timer"
  BY FlagsAre
<1>3. calls \in Seq(Flags) /\ answers \in Seq(BOOLEAN) /\ DOMAIN calls = 1..0 /\ DOMAIN answers = 1..0
  BY <1>1, EmptySeq, LenProperties
<1>4. length \in Nat /\ mishaps \in Nat
  BY <1>1 DEF Timed
<1>5. AwakeTypes
  BY <1>1, <1>2, <1>3, <1>4 DEF AwakeTypes
<1>6. TimerRuns
  <2>1. timer = 0 /\ ~ armed /\ timer <= length /\ key[1] # "timer" /\ left = 0
    BY <1>1, <1>2, <1>4
  <2> QED
    BY <2>1 DEF TimerRuns
<1> QED
  BY <1>1, <1>2, <1>3, <1>5, <1>6 DEF AwakeInv, FailureStands, AskedInTurn, KeyIsAsked, Failed

LEMMA AwakeNext == ASSUME Timed, AwakeInv, [Awake!Next]_(Awake!kavars) PROVE AwakeInv'
<1>1. CASE UNCHANGED Awake!kavars
  BY <1>1 DEF AwakeInv, AwakeTypes, TimerRuns, FailureStands, Failed, AskedInTurn, KeyIsAsked, Awake!kavars
<1>2. CASE Awake!Next
  BY <1>2, UserStep, RepaintStep, AgentsTurnStep, TickStep, RunsStep, AnsweredStep, AwakeReloadStep DEF Awake!Next
<1> QED
  BY <1>1, <1>2

\* Once every command has run and been answered, the machine is held awake exactly by the flags the button shows (reconcileCaf,
\* set_caffeinate, cafArmTimer): for any lengths, acts and failures, but for the orders of Calm.
THEOREM HeldAsShown == Timed => (Awake!Spec => []Awake!AwakeIsTrue)
<1> SUFFICES ASSUME Timed PROVE Awake!Spec => []Awake!AwakeIsTrue
  OBVIOUS
<1>1. Awake!Init => AwakeInv
  BY AwakeInit
<1>2. AwakeInv /\ [Awake!Next]_(Awake!kavars) => AwakeInv'
  BY AwakeNext
<1>3. AwakeInv => Awake!AwakeIsTrue
  <2> SUFFICES ASSUME AwakeInv, calls = <<>>, answers = <<>> PROVE held = key
    BY DEF Awake!AwakeIsTrue
  <2>1. ~ Failed
    <3>1. DOMAIN answers = 1..0
      BY EmptySeq, LenProperties
    <3> QED
      BY <3>1 DEF Failed
  <2> QED
    BY <2>1 DEF AwakeInv, KeyIsAsked
<1> QED
  BY <1>1, <1>2, <1>3, PTL DEF Awake!Spec

-----------------------------------------------------------------------------
(* Who is here (Presence).                                                  *)

CONSTANTS Machines, Of, HubActs
VARIABLES opened, beat, link, shown, at, said, due, here, subs, tell, swept, torn, presenceActs
Hub == INSTANCE Presence WITH Acts <- HubActs

\* What the theorem assumes: a connection is dialled by one of the machines, of which there are finitely many.
Wired == IsFiniteSet(Machines) /\ Of \in [DOMAIN Of -> Machines] /\ 0 \notin DOMAIN Of

Places == {"free", "joining", "on", "telling", "leaving", "parting", "gone"}
Items == {"", "a", "none"}
News == Machines \X Items
HubTypes ==
    /\ opened \in [Machines -> Hub!Lists] /\ link \in [Machines -> Hub!Links \cup {0}]
    /\ shown \in [Machines -> [Machines -> Items]] /\ at \in [Hub!Links -> Places]
    /\ said \in [Hub!Links -> Seq(Hub!Lists)] /\ due \in [Hub!Links -> Seq(News)]
    /\ here \in [Machines -> Items] /\ subs \subseteq Hub!Links /\ tell \in [Hub!Links -> Items]
    /\ swept \subseteq Machines /\ torn \in BOOLEAN

\* A machine's connection is its own, is on, and is told; without one it shows nobody.
On(c) == at[c] \in {"on", "telling"}
OwnLink == \A m \in Machines : link[m] # 0 => Of[link[m]] = m /\ On(link[m])
ShowsNone == \A m \in Machines : link[m] = 0 => \A n \in Machines : shown[m][n] = ""
Subscribed == \A c \in Hub!Links : On(c) => c \in subs
Dialling ==
    \A c \in Hub!Links : at[c] = "joining" =>
        link[Of[c]] = 0 /\ \A d \in Hub!Links : at[d] = "joining" /\ Of[d] = Of[c] => d = c
Linked == OwnLink /\ ShowsNone /\ Subscribed /\ Dialling

\* Unless two threads have met within the hub, at most one is there.
Apart ==
    ~ torn => /\ \A c, d \in Hub!Within : c = d
              /\ \A m, n \in swept : m = n
              /\ Hub!Within # {} => swept = {}

\* What the news q makes of s, which is shown of n now, is v.
IsLast(q, i, n) == q[i][1] = n /\ \A j \in DOMAIN q : j > i => q[j][1] # n
Leads(q, s, n, v) ==
    /\ \A i \in DOMAIN q : IsLast(q, i, n) => Hub!Shown(q[i][2]) = v
    /\ (\A i \in DOMAIN q : q[i][1] # n) => s = v

\* What is on its way leads to what the hub holds, but for what is still to be told; and that is what the hub holds.
Untold(n) == n \in swept \/ \E c \in Hub!Links : Of[c] = n /\ at[c] \in {"telling", "parting"}
ViewOf(m, n) == Leads(due[link[m]], shown[m][n], n, Hub!Shown(here[n]))
LinkViews == \A m, n \in Machines : link[m] # 0 /\ n # m /\ ~ Untold(n) => ViewOf(m, n)
JoinViews == \A c \in Hub!Links, n \in Machines : at[c] = "joining" /\ n # Of[c] => Leads(due[c], "", n, Hub!Shown(here[n]))
TellsSo ==
    /\ \A c \in Hub!Links : at[c] \in {"telling", "parting"} => Hub!Shown(tell[c]) = Hub!Shown(here[Of[c]])
    /\ \A n \in swept : here[n] = ""
Views == ~ torn => LinkViews /\ JoinViews /\ TellsSo

\* Nobody stays present who is gone.
Keeps(c) == c \in subs \/ at[c] = "leaving"
NobodyStays == \A m \in Machines : here[m] # "" => \E c \in Hub!Links : Of[c] = m /\ Keeps(c)

HubInv == HubTypes /\ Linked /\ Apart /\ Views /\ NobodyStays

-----------------------------------------------------------------------------
\* News of others changes nothing, and news of n is what it leads to.
LEMMA LeadsOn ==
    ASSUME NEW q \in Seq(News), NEW k \in Machines, NEW x \in Items, NEW n, NEW s, NEW v,
           (n # k /\ Leads(q, s, n, v)) \/ (n = k /\ Hub!Shown(x) = v)
    PROVE  Leads(Append(q, <<k, x>>), s, n, v)
<1> DEFINE r == Append(q, <<k, x>>)
<1>1. /\ <<k, x>> \in News /\ r \in Seq(News) /\ Len(r) = Len(q) + 1 /\ r[Len(q) + 1] = <<k, x>>
      /\ \A i \in 1..Len(q) : r[i] = q[i]
  <2>1. <<k, x>> \in News
    BY DEF News
  <2> QED
    BY <2>1, AppendProperties
<1>2. DOMAIN r = 1..Len(r) /\ DOMAIN q = 1..Len(q) /\ Len(q) \in Nat
  BY <1>1, LenProperties
<1> HIDE DEF r
<1>3. CASE n # k /\ Leads(q, s, n, v)
  <2>1. ASSUME NEW i \in DOMAIN r, IsLast(r, i, n) PROVE Hub!Shown(r[i][2]) = v
    <3>1. i # Len(q) + 1
      BY <1>1, <1>3, <2>1 DEF IsLast
    <3>2. i \in DOMAIN q /\ r[i] = q[i]
      BY <1>1, <1>2, <3>1
    <3>3. IsLast(q, i, n)
      BY <1>1, <1>2, <2>1, <3>2 DEF IsLast
    <3> QED
      BY <1>3, <3>2, <3>3 DEF Leads
  <2>2. (\A i \in DOMAIN r : r[i][1] # n) => s = v
    BY <1>1, <1>2, <1>3 DEF Leads
  <2> QED
    BY <2>1, <2>2 DEF Leads, r
<1>4. CASE n = k /\ Hub!Shown(x) = v
  <2>1. Len(q) + 1 \in DOMAIN r /\ r[Len(q) + 1][1] = n /\ r[Len(q) + 1][2] = x
    BY <1>1, <1>2, <1>4
  <2>2. ASSUME NEW i \in DOMAIN r, IsLast(r, i, n) PROVE Hub!Shown(r[i][2]) = v
    <3>1. i = Len(q) + 1
      BY <1>1, <1>2, <2>1, <2>2 DEF IsLast
    <3> QED
      BY <1>4, <2>1, <3>1
  <2> QED
    BY <2>1, <2>2 DEF Leads, r
<1> QED
  BY <1>3, <1>4

\* What is heard first is shown.
LEMMA LeadsOut ==
    ASSUME NEW q \in Seq(News), q # <<>>, NEW n, NEW s, NEW v, Leads(q, s, n, v)
    PROVE  Leads(Tail(q), IF Head(q)[1] = n THEN Hub!Shown(Head(q)[2]) ELSE s, n, v)
<1> DEFINE r == Tail(q)
<1>1. /\ r \in Seq(News) /\ Len(r) = Len(q) - 1 /\ \A i \in 1..Len(r) : r[i] = q[i + 1]
      /\ Head(q) = q[1] /\ Len(q) \in Nat /\ Len(q) > 0
  BY HeadTailProperties, EmptySeq, LenProperties
<1>2. DOMAIN r = 1..Len(r) /\ DOMAIN q = 1..Len(q)
  BY <1>1, LenProperties
<1> HIDE DEF r
<1>3. \A i \in DOMAIN r : i \in Nat /\ i > 0 /\ i + 1 \in DOMAIN q /\ r[i] = q[i + 1]
  BY <1>1, <1>2
<1>4. \A j \in DOMAIN q : j \in Nat /\ (j = 1 \/ (j - 1 \in DOMAIN r /\ r[j - 1] = q[j]))
  BY <1>1, <1>2
<1>5. ASSUME NEW i \in DOMAIN r, IsLast(r, i, n) PROVE Hub!Shown(r[i][2]) = v
  <2>1. ASSUME NEW j \in DOMAIN q, j > i + 1 PROVE q[j][1] # n
    <3>1. j # 1 /\ j - 1 > i
      BY <1>3, <1>4, <2>1
    <3>2. j - 1 \in DOMAIN r /\ r[j - 1] = q[j]
      BY <1>4, <3>1
    <3> QED
      BY <1>5, <3>1, <3>2 DEF IsLast
  <2>2. IsLast(q, i + 1, n)
    BY <1>3, <1>5, <2>1 DEF IsLast
  <2> QED
    BY <1>3, <2>2 DEF Leads
<1>6. ASSUME \A i \in DOMAIN r : r[i][1] # n
      PROVE  (IF Head(q)[1] = n THEN Hub!Shown(Head(q)[2]) ELSE s) = v
  <2>1. \A j \in DOMAIN q : j # 1 => q[j][1] # n
    BY <1>4, <1>6
  <2>2. CASE q[1][1] = n
    <3>1. IsLast(q, 1, n) /\ 1 \in DOMAIN q
      BY <1>1, <1>2, <2>1, <2>2 DEF IsLast
    <3> QED
      BY <1>1, <2>2, <3>1 DEF Leads
  <2>3. CASE q[1][1] # n
    BY <1>1, <2>1, <2>3 DEF Leads
  <2> QED
    BY <2>2, <2>3
<1> QED
  BY <1>5, <1>6 DEF Leads, r

\* A set in some order.
LEMMA InOrder ==
    ASSUME NEW S, IsFiniteSet(S)
    PROVE  LET q == Hub!SetToSeq(S) IN q \in Seq(S) /\ \A y \in S : \E i \in DOMAIN q : q[i] = y
<1> DEFINE q == Hub!SetToSeq(S)
<1> DEFINE k == Cardinality(S)
<1>1. k \in Nat /\ ExistsBijection(1..k, S)
  BY FS_CardinalityType
<1>2. q \in Injection(1..k, S)
  <2>1. PICK g \in Bijection(1..k, S) : TRUE
    BY <1>1 DEF ExistsBijection
  <2>2. g \in [1..k -> S] /\ Hub!IsInjective(g)
    BY <2>1 DEF Bijection, Injection, IsInjective, Hub!IsInjective
  <2>3. Hub!Cardinality(S) = k
    BY DEF Hub!Cardinality, Cardinality
  <2>4. q = CHOOSE h \in [1..k -> S] : Hub!IsInjective(h)
    BY <2>3 DEF Hub!SetToSeq
  <2>5. q \in [1..k -> S] /\ Hub!IsInjective(q)
    BY <2>2, <2>4
  <2> QED
    BY <2>5 DEF Injection, IsInjective, Hub!IsInjective
<1> HIDE DEF q
<1>3. q \in Surjection(1..k, S)
  <2>1. \A n \in Nat : Cardinality(1..n) = n
    BY FS_Interval
  <2> QED
    BY <1>1, <1>2, <2>1, FS_Injection
<1> HIDE DEF k
<1>4. q \in [1..k -> S] /\ \A y \in S : \E i \in 1..k : q[i] = y
  BY <1>3 DEF Surjection
<1> QED
  BY <1>1, <1>4, SeqDef DEF q

\* The list that greets a connection has what the hub holds of the others.
LEMMA Present ==
    ASSUME Wired, here \in [Machines -> Items], NEW T \in SUBSET Machines
    PROVE  LET S == {<<o, here[o]>> : o \in T} IN
           /\ IsFiniteSet(S)
           /\ \A y \in S : y \in News /\ y[1] \in T /\ y[2] = here[y[1]]
           /\ \A o \in T : \E y \in S : y[1] = o
<1> DEFINE S == {<<o, here[o]>> : o \in T}
<1> DEFINE f == [o \in T |-> <<o, here[o]>>]
<1>1. IsFiniteSet(T)
  BY FS_Subset DEF Wired
<1>2. f \in Surjection(T, S)
  BY DEF Surjection
<1>3. ASSUME NEW y \in S PROVE y \in News /\ y[1] \in T /\ y[2] = here[y[1]]
  <2>1. PICK o \in T : y = <<o, here[o]>>
    OBVIOUS
  <2> QED
    BY <2>1 DEF News
<1>4. ASSUME NEW o \in T PROVE \E y \in S : y[1] = o
  <2>1. <<o, here[o]>> \in S /\ <<o, here[o]>>[1] = o
    OBVIOUS
  <2> QED
    BY <2>1
<1>5. IsFiniteSet(S)
  <2> HIDE DEF f, S
  <2> QED
    BY <1>1, <1>2, FS_Surjection
<1> QED
  BY <1>3, <1>4, <1>5

LEMMA Widened == ASSUME NEW S, NEW R, S \subseteq R, NEW q \in Seq(S) PROVE q \in Seq(R)
<1>1. PICK k \in Nat : q \in [1..k -> S]
  BY SeqDef
<1>2. q \in [1..k -> R]
  BY <1>1
<1> QED
  BY <1>2, SeqDef

\* q has S in some order, which is what the hub holds of T, who are all that it holds but for the machine of c.
Greets(T, S, c, q) ==
    /\ c \in Hub!Links /\ q \in Seq(S)
    /\ \A y \in S : y \in News /\ y[1] \in T /\ y[2] = here[y[1]]
    /\ \A o \in T : \E y \in S : y[1] = o
    /\ \A o \in Machines \ {Of[c]} : o \in T \/ here[o] = ""
    /\ \A y \in S : \E i \in DOMAIN q : q[i] = y
LEMMA Greeting ==
    ASSUME here \in [Machines -> Items], NEW T, NEW S, NEW c, NEW q, Greets(T, S, c, q)
    PROVE  q \in Seq(News) /\ \A n \in Machines \ {Of[c]} : Leads(q, "", n, Hub!Shown(here[n]))
<1>0. q \in Seq(S)
  BY DEF Greets
<1> USE DEF Greets
<1>1. q \in Seq(News) /\ \A i \in DOMAIN q : q[i] \in S
  <2>1. Len(q) \in Nat /\ DOMAIN q = 1..Len(q) /\ \A i \in 1..Len(q) : q[i] \in S
    <3> HIDE DEF Greets
    <3> QED
      BY <1>0, LenProperties
  <2>2. S \subseteq News
    OBVIOUS
  <2> HIDE DEF Greets
  <2> QED
    BY <1>0, <2>1, <2>2, Widened
<1>2. ASSUME NEW n \in Machines \ {Of[c]} PROVE Leads(q, "", n, Hub!Shown(here[n]))
  <2>1. \A i \in DOMAIN q : q[i][1] = n => q[i][2] = here[n]
    BY <1>1
  <2>2. here[n] = "" \/ \E i \in DOMAIN q : q[i][1] = n
    <3>1. SUFFICES ASSUME n \in T PROVE \E i \in DOMAIN q : q[i][1] = n
      OBVIOUS
    <3>2. PICK y \in S : y[1] = n
      BY <3>1
    <3>3. PICK i \in DOMAIN q : q[i] = y
      OBVIOUS
    <3> QED
      BY <3>2, <3>3
  <2>3. Hub!Shown("") = ""
    BY DEF Hub!Shown
  <2> QED
    BY <2>1, <2>2, <2>3 DEF Leads, IsLast
<1> QED
  BY <1>1, <1>2

-----------------------------------------------------------------------------
\* What the steps keep.

LEMMA Connected ==
    ASSUME Wired, HubInv, NEW m \in Machines, link[m] # 0
    PROVE  /\ link[m] \in Hub!Links /\ Of[link[m]] = m /\ at[link[m]] \in {"on", "telling"} /\ link[m] \in subs
           /\ \A k \in Machines \ {m} : link[k] # link[m]
<1>1. link[m] \in Hub!Links /\ Of[link[m]] = m /\ at[link[m]] \in {"on", "telling"}
  <2>1. link[m] \in Hub!Links \cup {0}
    BY DEF HubInv, HubTypes
  <2> QED
    BY <2>1 DEF HubInv, Linked, OwnLink, On
<1>2. link[m] \in subs
  BY <1>1 DEF HubInv, Linked, Subscribed, On
<1>3. ASSUME NEW k \in Machines \ {m}, link[k] = link[m] PROVE FALSE
  BY <1>1, <1>3 DEF HubInv, Linked, OwnLink
<1> QED
  BY <1>1, <1>2, <1>3

LEMMA LinksStay ==
    ASSUME Linked, UNCHANGED <<link, at, subs>>, \A k \in Machines : link[k] = 0 => shown'[k] = shown[k]
    PROVE  Linked'
<1>1. OwnLink'
  BY DEF Linked, OwnLink, On
<1>2. ShowsNone'
  BY DEF Linked, ShowsNone
<1>3. Subscribed' /\ Dialling'
  BY DEF Linked, Subscribed, Dialling, On
<1> QED
  BY <1>1, <1>2, <1>3 DEF Linked

\* What the hub and the machines' views do not rest on.
LEMMA Aside ==
    ASSUME Linked, Apart, Views, NobodyStays, UNCHANGED <<link, shown, at, due, here, subs, tell, swept, torn>>
    PROVE  Linked' /\ Apart' /\ Views' /\ NobodyStays'
<1>1. Linked'
  BY LinksStay
<1>2. Apart'
  BY DEF Apart, Hub!Within
<1>3. Views'
  BY DEF Views, LinkViews, JoinViews, TellsSo, ViewOf, Untold
<1>4. NobodyStays'
  BY DEF NobodyStays, Keeps
<1> QED
  BY <1>1, <1>2, <1>3, <1>4

LEMMA MachineSays == ASSUME Wired, HubInv, NEW m \in Machines, Hub!Open(m) \/ Hub!Beats(m) \/ Hub!Silent(m) PROVE HubInv'
<1>1. UNCHANGED <<link, shown, at, due, here, subs, tell, swept, torn>>
  BY DEF Hub!Open, Hub!Beats, Hub!Silent
<1>2. opened' \in [Machines -> Hub!Lists]
  BY DEF Hub!Open, Hub!Beats, Hub!Silent, HubInv, HubTypes
<1>3. said' \in [Hub!Links -> Seq(Hub!Lists)]
  <2>1. CASE Hub!Beats(m)
    <3>1. link[m] \in Hub!Links /\ opened[m] \in Hub!Lists /\ said[link[m]] \in Seq(Hub!Lists)
      BY <2>1 DEF Hub!Beats, HubInv, HubTypes
    <3>2. Append(said[link[m]], opened[m]) \in Seq(Hub!Lists)
      BY <3>1, AppendProperties
    <3> QED
      BY <2>1, <3>2 DEF Hub!Beats, HubInv, HubTypes
  <2> QED
    BY <2>1 DEF Hub!Open, Hub!Silent, HubInv, HubTypes
<1> QED
  BY <1>1, <1>2, <1>3, Aside DEF HubInv, HubTypes

LEMMA HubHearsStep == ASSUME Wired, HubInv, NEW m \in Machines, Hub!Hears(m) PROVE HubInv'
<1> DEFINE c == link[m]
<1> DEFINE q == due[c]
<1>0. link[m] # 0 /\ c \in Hub!Links /\ Of[c] = m /\ at[c] \in {"on", "telling"} /\ \A k \in Machines \ {m} : link[k] # c
  BY Connected DEF Hub!Hears
<1>1. /\ q \in Seq(News) /\ q # <<>>
      /\ UNCHANGED <<opened, link, at, said, here, subs, tell, swept, torn>>
      /\ shown' = [shown EXCEPT ![m][Head(q)[1]] = Hub!Shown(Head(q)[2])] /\ due' = [due EXCEPT ![c] = Tail(@)]
  BY <1>0 DEF Hub!Hears, HubInv, HubTypes
<1>2. Head(q) \in News /\ Tail(q) \in Seq(News)
  BY <1>1, HeadTailProperties
<1> HIDE DEF q
<1>3. /\ Head(q)[1] \in Machines /\ Hub!Shown(Head(q)[2]) \in Items
      /\ due' \in [Hub!Links -> Seq(News)] /\ shown' \in [Machines -> [Machines -> Items]]
  <2>1. Head(q)[1] \in Machines /\ Head(q)[2] \in Items
    BY <1>2 DEF News
  <2>2. Hub!Shown(Head(q)[2]) \in Items
    BY <2>1 DEF Hub!Shown, Items
  <2> QED
    BY <1>0, <1>1, <1>2, <2>1, <2>2 DEF HubInv, HubTypes, q
<1>4. /\ due'[c] = Tail(q) /\ \A d \in Hub!Links \ {c} : due'[d] = due[d]
      /\ \A n \in Machines : shown'[m][n] = IF Head(q)[1] = n THEN Hub!Shown(Head(q)[2]) ELSE shown[m][n]
      /\ \A k \in Machines \ {m} : shown'[k] = shown[k]
  BY <1>0, <1>1, <1>3 DEF HubInv, HubTypes, q
<1> HIDE DEF c
<1>5. HubTypes'
  BY <1>1, <1>3 DEF HubInv, HubTypes
<1>6. Linked'
  <2>1. \A k \in Machines : link[k] = 0 => k # m /\ shown'[k] = shown[k]
    BY <1>0, <1>4
  <2>2. Linked /\ link' = link /\ at' = at /\ subs' = subs
    BY <1>1 DEF HubInv
  <2> QED
    BY <2>1, <2>2, LinksStay
<1>7. Apart' /\ NobodyStays'
  BY <1>1 DEF HubInv, Apart, NobodyStays, Keeps, Hub!Within
<1>8. ASSUME ~ torn PROVE LinkViews' /\ JoinViews' /\ TellsSo'
  <2>1. LinkViews /\ JoinViews /\ TellsSo
    BY <1>8 DEF HubInv, Views
  <2>2. TellsSo'
    BY <1>1, <2>1 DEF TellsSo
  <2>3. JoinViews'
    BY <1>0, <1>1, <1>4, <2>1 DEF JoinViews
  <2>4. ASSUME NEW k \in Machines, NEW n \in Machines, link[k] # 0, n # k, ~ Untold(n) PROVE ViewOf(k, n)'
    <3>1. ViewOf(k, n)
      BY <2>1, <2>4 DEF LinkViews
    <3>2. CASE k = m
      <4>1. Leads(q, shown[m][n], n, Hub!Shown(here[n]))
        BY <3>1, <3>2 DEF ViewOf, q, c
      <4>2. Leads(Tail(q), shown'[m][n], n, Hub!Shown(here[n]))
        BY <1>1, <1>4, <4>1, LeadsOut
      <4> QED
        BY <1>1, <1>4, <3>2, <4>2 DEF ViewOf, c
    <3>3. CASE k # m
      <4>1. link[k] \in Hub!Links \ {c}
        BY <1>0, <2>4, <3>3, Connected
      <4> QED
        BY <1>1, <1>4, <3>1, <3>3, <4>1 DEF ViewOf
    <3> QED
      BY <3>2, <3>3
  <2>5. LinkViews'
    BY <1>1, <2>4 DEF LinkViews, Untold
  <2> QED
    BY <2>2, <2>3, <2>5
<1> QED
  BY <1>1, <1>5, <1>6, <1>7, <1>8 DEF HubInv, Views

LEMMA LostStep == ASSUME Wired, HubInv, NEW m \in Machines, Hub!Lost(m) PROVE HubInv'
<1> DEFINE c == link[m]
<1>0. link[m] # 0 /\ c \in Hub!Links /\ Of[c] = m /\ at[c] \in {"on", "telling"} /\ \A k \in Machines \ {m} : link[k] # c
  BY Connected DEF Hub!Lost
<1>1. /\ UNCHANGED <<opened, at, said, here, subs, tell, swept, torn>>
      /\ link' = [link EXCEPT ![m] = 0] /\ shown' = [shown EXCEPT ![m] = [n \in Machines |-> ""]]
      /\ due' = [due EXCEPT ![c] = <<>>]
  BY DEF Hub!Lost
<1> HIDE DEF c
<1>2. HubTypes'
  <2>1. <<>> \in Seq(News)
    BY EmptySeq
  <2> QED
    BY <1>0, <1>1, <2>1 DEF HubInv, HubTypes, Items
<1>3. Linked'
  <2>1. link \in [Machines -> Hub!Links \cup {0}] /\ shown \in [Machines -> [Machines -> Items]] /\ Linked
    BY DEF HubInv, HubTypes
  <2>2. \A k \in Machines : k # m => link'[k] = link[k] /\ shown'[k] = shown[k]
    BY <1>1, <2>1
  <2>3. link'[m] = 0 /\ \A n \in Machines : shown'[m][n] = ""
    BY <1>1, <2>1
  <2>4. at' = at /\ subs' = subs
    BY <1>1
  <2> QED
    <3>1. OwnLink'
      BY <2>1, <2>2, <2>3, <2>4 DEF Linked, OwnLink, On
    <3>2. ShowsNone'
      BY <2>1, <2>2, <2>3 DEF Linked, ShowsNone
    <3>3. Subscribed'
      BY <2>1, <2>4 DEF Linked, Subscribed, On
    <3>4. Dialling'
      BY <2>1, <2>2, <2>3, <2>4 DEF Linked, Dialling, Wired, Hub!Links
    <3> QED
      BY <3>1, <3>2, <3>3, <3>4 DEF Linked
<1>4. Apart' /\ NobodyStays'
  BY <1>1 DEF HubInv, Apart, NobodyStays, Keeps, Hub!Within
<1>5. ASSUME ~ torn PROVE LinkViews' /\ JoinViews' /\ TellsSo'
  <2>1. LinkViews /\ JoinViews /\ TellsSo
    BY <1>5 DEF HubInv, Views
  <2>2. TellsSo' /\ JoinViews'
    BY <1>0, <1>1, <2>1 DEF TellsSo, JoinViews, HubInv, HubTypes
  <2>3. ASSUME NEW k \in Machines, NEW n \in Machines, link'[k] # 0, n # k, ~ Untold(n) PROVE ViewOf(k, n)'
    <3>1. k # m /\ link'[k] = link[k] /\ link[k] \in Hub!Links /\ link[k] # c /\ shown'[k] = shown[k]
      <4>1. link \in [Machines -> Hub!Links \cup {0}] /\ shown \in [Machines -> [Machines -> Items]]
        BY DEF HubInv, HubTypes
      <4>2. k # m /\ link'[k] = link[k] /\ shown'[k] = shown[k]
        BY <1>1, <2>3, <4>1
      <4> QED
        BY <1>0, <2>3, <4>1, <4>2
    <3>2. ViewOf(k, n)
      BY <2>1, <2>3, <3>1 DEF LinkViews
    <3> QED
      BY <1>1, <3>1, <3>2 DEF ViewOf, HubInv, HubTypes
  <2>4. LinkViews'
    BY <1>1, <2>3 DEF LinkViews, Untold
  <2> QED
    BY <2>2, <2>4
<1> QED
  BY <1>1, <1>2, <1>3, <1>4, <1>5 DEF HubInv, Views

\* Who enters and has not met another was alone.
LEMMA Enters ==
    ASSUME NEW c \in Hub!Links, Hub!Enters(c), ~ torn'
    PROVE  ~ torn /\ swept = {} /\ \A d \in Hub!Links \ {c} : d \notin Hub!Within
<1>1. ~ torn /\ Hub!Within \ {c} = {} /\ swept = {}
  BY Zenon DEF Hub!Enters
<1> QED
  BY <1>1

LEMMA OneWithin ==
    ASSUME NEW c, ~ torn' => swept' = {} /\ \A d \in Hub!Links \ {c} : d \notin Hub!Within' PROVE Apart'
BY DEF Apart, Hub!Within

LEMMA JoinStep == ASSUME Wired, HubInv, NEW c \in Hub!Links, Hub!Join(c) PROVE HubInv'
<1> DEFINE T == {o \in Machines \ {Of[c]} : here[o] # ""}
<1> DEFINE S == {<<n, here[n]>> : n \in T}
<1> DEFINE q == Hub!SetToSeq(S)
<1>1. /\ at[c] = "free" /\ link[Of[c]] = 0 /\ Hub!Enters(c) /\ \A d \in Hub!Links : Of[d] = Of[c] => at[d] # "joining"
      /\ at' = [at EXCEPT ![c] = "joining"] /\ due' = [due EXCEPT ![c] = q]
      /\ opened' = opened /\ link' = link /\ shown' = shown /\ said' = said /\ here' = here /\ subs' = subs
      /\ tell' = tell /\ swept' = swept
  BY DEF Hub!Join
<1>2. at \in [Hub!Links -> Places] /\ due \in [Hub!Links -> Seq(News)] /\ here \in [Machines -> Items] /\ Linked
  BY DEF HubInv, HubTypes
<1>3. q \in Seq(News) /\ \A n \in Machines \ {Of[c]} : Leads(q, "", n, Hub!Shown(here[n]))
  <2>1. /\ IsFiniteSet(S) /\ (\A y \in S : y \in News /\ y[1] \in T /\ y[2] = here[y[1]]) /\ (\A o \in T : \E y \in S : y[1] = o)
    BY <1>2, Present
  <2>2. \A o \in Machines \ {Of[c]} : o \in T \/ here[o] = ""
    OBVIOUS
  <2> HIDE DEF S, T
  <2>3. q \in Seq(S) /\ \A y \in S : \E i \in DOMAIN q : q[i] = y
    BY <2>1, InOrder
  <2> HIDE DEF q
  <2>4. Greets(T, S, c, q)
    BY <2>1, <2>2, <2>3 DEF Greets
  <2> QED
    BY <1>2, <2>4, Greeting
<1> HIDE DEF q
<1>4. at'[c] = "joining" /\ due'[c] = q /\ \A d \in Hub!Links : d # c => at'[d] = at[d] /\ due'[d] = due[d]
  BY <1>1, <1>2
<1>5. HubTypes'
  <2>1. at' \in [Hub!Links -> Places] /\ due' \in [Hub!Links -> Seq(News)]
    BY <1>1, <1>2, <1>3 DEF Places
  <2>2. torn' \in BOOLEAN
    BY <1>1 DEF Hub!Enters, HubInv, HubTypes
  <2> QED
    BY <1>1, <2>1, <2>2 DEF HubInv, HubTypes
<1>6. \A m \in Machines : link[m] # 0 => link[m] \in Hub!Links /\ link[m] # c
  BY <1>1, Connected
<1>7. Linked'
  <2>1. OwnLink'
    BY <1>1, <1>2, <1>4, <1>6 DEF Linked, OwnLink, On
  <2>2. ShowsNone' /\ Subscribed'
    BY <1>1, <1>2, <1>4 DEF Linked, ShowsNone, Subscribed, On
  <2>3. Dialling'
    BY <1>1, <1>2, <1>4 DEF Linked, Dialling
  <2> QED
    BY <2>1, <2>2, <2>3 DEF Linked
<1>8. ASSUME ~ torn' PROVE ~ torn /\ swept = {} /\ \A d \in Hub!Links \ {c} : d \notin Hub!Within
  BY <1>1, <1>8, Enters
<1>9. \A d \in Hub!Links \ {c} : d \in Hub!Within' <=> d \in Hub!Within
  BY <1>4 DEF Hub!Within
<1>10. Apart'
  BY <1>1, <1>8, <1>9, OneWithin
<1>11. ASSUME ~ torn' PROVE LinkViews' /\ JoinViews' /\ TellsSo'
  <2>1. LinkViews /\ JoinViews /\ TellsSo
    BY <1>8, <1>11 DEF HubInv, Views
  <2>2. \A n \in Machines : ~ Untold(n)
    BY <1>1, <1>8, <1>11 DEF Untold, Hub!Within
  <2>3. LinkViews'
    BY <1>1, <1>4, <1>6, <2>1, <2>2 DEF LinkViews, ViewOf
  <2>4. JoinViews'
    BY <1>1, <1>3, <1>4, <1>8, <1>9, <1>11 DEF JoinViews, Hub!Within
  <2>5. TellsSo'
    BY <1>1, <1>4, <1>8, <1>9, <1>11 DEF TellsSo, Hub!Within
  <2> QED
    BY <2>3, <2>4, <2>5
<1>12. NobodyStays'
  <2>1. \A d \in Hub!Links : Keeps(d) => Keeps(d)'
    BY <1>1, <1>4 DEF Keeps
  <2> QED
    BY <1>1, <2>1 DEF HubInv, NobodyStays
<1> QED
  BY <1>5, <1>7, <1>10, <1>11, <1>12 DEF HubInv, Views

LEMMA SubscribeStep == ASSUME Wired, HubInv, NEW c \in Hub!Links, Hub!Subscribe(c) PROVE HubInv'
<1> DEFINE m == Of[c]
<1>1. /\ at[c] = "joining" /\ at' = [at EXCEPT ![c] = "on"] /\ link' = [link EXCEPT ![m] = c] /\ subs' = subs \cup {c}
      /\ opened' = opened /\ shown' = shown /\ said' = said /\ due' = due /\ here' = here /\ tell' = tell /\ swept' = swept
  BY DEF Hub!Subscribe
<1>2. torn' <=> torn
  BY DEF Hub!Subscribe
<1>3. /\ at \in [Hub!Links -> Places] /\ link \in [Machines -> Hub!Links \cup {0}] /\ subs \subseteq Hub!Links /\ Linked
      /\ m \in Machines /\ c # 0
  BY DEF HubInv, HubTypes, Wired, Hub!Links
<1>4. link[m] = 0 /\ \A d \in Hub!Links : at[d] = "joining" /\ Of[d] = m => d = c
  BY <1>1, <1>3 DEF Linked, Dialling
<1>5. /\ at'[c] = "on" /\ \A d \in Hub!Links : d # c => at'[d] = at[d]
      /\ link'[m] = c /\ \A k \in Machines : k # m => link'[k] = link[k]
  BY <1>1, <1>3
<1>6. \A k \in Machines : link[k] # 0 => link[k] \in Hub!Links /\ link[k] # c
  BY <1>1, Connected
<1>7. HubTypes'
  <2>1. at' \in [Hub!Links -> Places] /\ link' \in [Machines -> Hub!Links \cup {0}] /\ subs' \subseteq Hub!Links
    BY <1>1, <1>3 DEF Places
  <2>2. torn' \in BOOLEAN
    BY DEF Hub!Subscribe, HubInv, HubTypes
  <2> QED
    BY <1>1, <2>1, <2>2 DEF HubInv, HubTypes
<1>8. Linked'
  <2>1. OwnLink'
    BY <1>3, <1>5, <1>6 DEF Linked, OwnLink, On
  <2>2. ShowsNone'
    BY <1>1, <1>3, <1>5 DEF Linked, ShowsNone
  <2>3. Subscribed'
    BY <1>1, <1>3, <1>5 DEF Linked, Subscribed, On
  <2>4. Dialling'
    <3>1. \A d \in Hub!Links : at'[d] = "joining" => at[d] = "joining" /\ Of[d] # m /\ Of[d] \in Machines
      BY <1>4, <1>5 DEF Wired, Hub!Links
    <3> QED
      BY <1>3, <1>5, <3>1 DEF Linked, Dialling
  <2> QED
    BY <2>1, <2>2, <2>3, <2>4 DEF Linked
<1>9. \A d \in Hub!Within' : d \in Hub!Within
  BY <1>5 DEF Hub!Within
<1>10. Apart'
  BY <1>1, <1>2, <1>9 DEF HubInv, Apart
<1>11. \A n \in Machines : Untold(n)' <=> Untold(n)
  BY <1>1, <1>5 DEF Untold
<1>12. ASSUME ~ torn PROVE LinkViews' /\ JoinViews' /\ TellsSo'
  <2>1. LinkViews /\ JoinViews /\ TellsSo
    BY <1>12 DEF HubInv, Views
  <2>2. ASSUME NEW k \in Machines, NEW n \in Machines, link'[k] # 0, n # k, ~ Untold(n) PROVE ViewOf(k, n)'
    <3>1. CASE k = m
      <4>1. Leads(due[c], "", n, Hub!Shown(here[n]))
        BY <1>1, <2>1, <2>2, <3>1 DEF JoinViews
      <4>2. shown[m][n] = ""
        BY <1>3, <1>4 DEF Linked, ShowsNone
      <4> QED
        BY <1>1, <1>5, <3>1, <4>1, <4>2 DEF ViewOf
    <3>2. CASE k # m
      <4>1. ViewOf(k, n) /\ link'[k] = link[k]
        BY <1>5, <2>1, <2>2, <3>2 DEF LinkViews
      <4> QED
        BY <1>1, <4>1 DEF ViewOf
    <3> QED
      BY <3>1, <3>2
  <2>3. LinkViews'
    BY <1>11, <2>2 DEF LinkViews
  <2>4. JoinViews'
    BY <1>1, <1>5, <2>1 DEF JoinViews
  <2>5. TellsSo'
    BY <1>1, <1>5, <2>1 DEF TellsSo
  <2> QED
    BY <2>3, <2>4, <2>5
<1>13. NobodyStays'
  <2>1. \A d \in Hub!Links : Keeps(d) => Keeps(d)'
    BY <1>1, <1>5 DEF Keeps
  <2> QED
    BY <1>1, <2>1 DEF HubInv, NobodyStays
<1> QED
  BY <1>2, <1>7, <1>8, <1>10, <1>12, <1>13 DEF HubInv, Views

LEMMA SetsStep == ASSUME Wired, HubInv, NEW c \in Hub!Links, Hub!Sets(c) PROVE HubInv'
<1> DEFINE m == Of[c]
<1> DEFINE x == Head(said[c])
<1> DEFINE told == here[m] # x
<1>1. /\ at[c] = "on" /\ said[c] # <<>> /\ Hub!Enters(c) /\ here' = [here EXCEPT ![m] = x]
      /\ at' = [at EXCEPT ![c] = IF told THEN "telling" ELSE "on"]
      /\ tell' = [tell EXCEPT ![c] = IF told THEN x ELSE ""] /\ said' = [said EXCEPT ![c] = Tail(@)]
      /\ opened' = opened /\ link' = link /\ shown' = shown /\ due' = due /\ subs' = subs /\ swept' = swept
  BY DEF Hub!Sets
<1>2. /\ at \in [Hub!Links -> Places] /\ here \in [Machines -> Items] /\ tell \in [Hub!Links -> Items]
      /\ said \in [Hub!Links -> Seq(Hub!Lists)] /\ Linked /\ m \in Machines
  BY DEF HubInv, HubTypes, Wired, Hub!Links
<1>3. x \in Items /\ Tail(said[c]) \in Seq(Hub!Lists)
  <2>1. x \in Hub!Lists /\ Tail(said[c]) \in Seq(Hub!Lists)
    BY <1>1, <1>2, HeadTailProperties
  <2> QED
    BY <2>1 DEF Hub!Lists, Items
<1> HIDE DEF x, told
<1>4. /\ at'[c] = (IF told THEN "telling" ELSE "on") /\ tell'[c] = (IF told THEN x ELSE "") /\ here'[m] = x
      /\ \A d \in Hub!Links : d # c => at'[d] = at[d]
      /\ \A k \in Machines : k # m => here'[k] = here[k]
  BY <1>1, <1>2
<1>5. HubTypes'
  <2>1. at' \in [Hub!Links -> Places] /\ tell' \in [Hub!Links -> Items] /\ here' \in [Machines -> Items]
        /\ said' \in [Hub!Links -> Seq(Hub!Lists)]
    BY <1>1, <1>2, <1>3 DEF Places, Items
  <2>2. torn' \in BOOLEAN
    BY <1>1 DEF Hub!Enters, HubInv, HubTypes
  <2> QED
    BY <1>1, <2>1, <2>2 DEF HubInv, HubTypes
<1>6. \A d \in Hub!Links : (On(d)' <=> On(d)) /\ (at'[d] = "joining" <=> at[d] = "joining") /\ (Keeps(d)' <=> Keeps(d))
  <2>1. at[c] = "on" /\ at'[c] \in {"on", "telling"}
    BY <1>1, <1>4
  <2> QED
    BY <1>1, <1>4, <2>1 DEF On, Keeps
<1>7. Linked'
  <2>1. OwnLink'
    <3>1. ASSUME NEW k \in Machines, link[k] # 0 PROVE Of[link[k]] = k /\ On(link[k])'
      <4>1. link[k] \in Hub!Links /\ Of[link[k]] = k /\ at[link[k]] \in {"on", "telling"}
        BY <3>1, Connected
      <4>2. at'[link[k]] \in {"on", "telling"}
        BY <1>6, <4>1 DEF On
      <4> QED
        BY <1>1, <4>1, <4>2 DEF On
    <3> QED
      BY <1>1, <3>1 DEF OwnLink, On
  <2>2. ShowsNone'
    BY <1>1, <1>2 DEF Linked, ShowsNone
  <2>3. Subscribed'
    BY <1>1, <1>2, <1>6 DEF Linked, Subscribed
  <2>4. Dialling'
    BY <1>1, <1>2, <1>6 DEF Linked, Dialling
  <2> QED
    BY <2>1, <2>2, <2>3, <2>4 DEF Linked
<1>8. ASSUME ~ torn' PROVE ~ torn /\ swept = {} /\ \A d \in Hub!Links \ {c} : d \notin Hub!Within
  BY <1>1, <1>8, Enters
<1>9. \A d \in Hub!Links \ {c} : d \in Hub!Within' <=> d \in Hub!Within
  BY <1>4 DEF Hub!Within
<1>10. Apart'
  BY <1>1, <1>8, <1>9, OneWithin
<1>11. ASSUME ~ torn' PROVE LinkViews' /\ JoinViews' /\ TellsSo'
  <2>1. LinkViews /\ JoinViews /\ TellsSo
    BY <1>8, <1>11 DEF HubInv, Views
  <2>2. ASSUME NEW n \in Machines, ~ Untold(n)' PROVE ~ Untold(n) /\ here'[n] = here[n]
    <3>1. n = m => ~ told
      BY <1>4, <2>2 DEF Untold
    <3>2. here'[n] = here[n]
      BY <1>4, <3>1 DEF told
    <3>3. ~ Untold(n)
      BY <1>1, <1>4, <2>2 DEF Untold
    <3> QED
      BY <3>2, <3>3
  <2>3. LinkViews'
    BY <1>1, <2>1, <2>2 DEF LinkViews, ViewOf
  <2>4. JoinViews'
    <3>1. \A d \in Hub!Links : at'[d] # "joining"
      BY <1>1, <1>6, <1>8, <1>11 DEF Hub!Within
    <3> QED
      BY <3>1 DEF JoinViews
  <2>5. TellsSo'
    <3>1. \A d \in Hub!Links : at'[d] \in {"telling", "parting"} => d = c /\ told
      BY <1>1, <1>4, <1>8, <1>11 DEF Hub!Within
    <3> QED
      BY <1>1, <1>4, <1>8, <1>11, <3>1 DEF TellsSo
  <2> QED
    BY <2>3, <2>4, <2>5
<1>12. NobodyStays'
  <2>1. Keeps(c)'
    BY <1>1, <1>2 DEF Linked, Subscribed, On, Keeps
  <2> QED
    BY <1>4, <1>6, <2>1 DEF HubInv, NobodyStays
<1> QED
  BY <1>5, <1>7, <1>10, <1>11, <1>12 DEF HubInv, Views

\* What is announced of m is on its way to all that are connected, but for m.
LEMMA Announced ==
    ASSUME Wired, HubInv, NEW m \in Machines, NEW x \in Items, Hub!Announce(m, x), Hub!Shown(x) = Hub!Shown(here[m]), LinkViews
    PROVE  /\ due' \in [Hub!Links -> Seq(News)]
           /\ \A k, n \in Machines : link[k] # 0 /\ n # k /\ (n = m \/ ~ Untold(n)) =>
                 Leads(due'[link[k]], shown[k][n], n, Hub!Shown(here[n]))
<1>1. due \in [Hub!Links -> Seq(News)] /\ subs \subseteq Hub!Links
  BY DEF HubInv, HubTypes
<1>2. \A d \in Hub!Links : due'[d] = IF d \in subs /\ Of[d] # m THEN Append(due[d], <<m, x>>) ELSE due[d]
  BY DEF Hub!Announce, Hub!Told
<1>3. \A d \in Hub!Links : Append(due[d], <<m, x>>) \in Seq(News)
  <2>1. <<m, x>> \in News
    BY DEF News
  <2> QED
    BY <1>1, <2>1, AppendProperties
<1>4. due' \in [Hub!Links -> Seq(News)]
  BY <1>1, <1>3 DEF Hub!Announce
<1>5. ASSUME NEW k \in Machines, NEW n \in Machines, link[k] # 0, n # k, n = m \/ ~ Untold(n)
      PROVE  Leads(due'[link[k]], shown[k][n], n, Hub!Shown(here[n]))
  <2>1. link[k] \in Hub!Links /\ Of[link[k]] = k /\ link[k] \in subs /\ due[link[k]] \in Seq(News)
    BY <1>1, <1>5, Connected
  <2>2. CASE k = m
    <3>1. Leads(due[link[k]], shown[k][n], n, Hub!Shown(here[n]))
      BY <1>5, <2>2 DEF LinkViews, ViewOf
    <3> QED
      BY <1>2, <2>1, <2>2, <3>1
  <2>3. CASE k # m
    <3>1. due'[link[k]] = Append(due[link[k]], <<m, x>>)
      BY <1>2, <2>1, <2>3
    <3>2. (n # m /\ Leads(due[link[k]], shown[k][n], n, Hub!Shown(here[n]))) \/ (n = m /\ Hub!Shown(x) = Hub!Shown(here[n]))
      BY <1>5 DEF LinkViews, ViewOf
    <3> HIDE DEF LinkViews
    <3>3. Leads(Append(due[link[k]], <<m, x>>), shown[k][n], n, Hub!Shown(here[n]))
      BY <2>1, <3>2, LeadsOn
    <3> QED
      BY <3>1, <3>3
  <2> QED
    BY <2>2, <2>3
<1> QED
  BY <1>4, <1>5

LEMMA TellsStep == ASSUME Wired, HubInv, NEW c \in Hub!Links, Hub!Tells(c) PROVE HubInv'
<1> DEFINE m == Of[c]
<1>1. /\ at[c] \in {"telling", "parting"} /\ Hub!Announce(m, tell[c]) /\ tell' = [tell EXCEPT ![c] = ""]
      /\ at' = [at EXCEPT ![c] = IF @ = "telling" THEN "on" ELSE "gone"]
      /\ opened' = opened /\ link' = link /\ shown' = shown /\ said' = said /\ here' = here /\ subs' = subs /\ swept' = swept
  BY DEF Hub!Tells
<1>2. torn' <=> torn
  BY DEF Hub!Tells
<1>3. at \in [Hub!Links -> Places] /\ tell \in [Hub!Links -> Items] /\ Linked /\ m \in Machines /\ tell[c] \in Items
  BY DEF HubInv, HubTypes, Wired, Hub!Links
<1>4. /\ at'[c] \in {"on", "gone"} /\ (at'[c] = "on" <=> at[c] = "telling")
      /\ \A d \in Hub!Links : d # c => at'[d] = at[d]
  BY <1>1, <1>3
<1>5. HubTypes'
  <2>1. at' \in [Hub!Links -> Places] /\ tell' \in [Hub!Links -> Items]
    BY <1>1, <1>3 DEF Places, Items
  <2>2. due' \in [Hub!Links -> Seq(News)]
    <3>1. due \in [Hub!Links -> Seq(News)] /\ <<m, tell[c]>> \in News
      BY <1>3 DEF HubInv, HubTypes, News
    <3>2. \A d \in Hub!Links : Append(due[d], <<m, tell[c]>>) \in Seq(News)
      BY <3>1, AppendProperties
    <3> QED
      BY <1>1, <3>1, <3>2 DEF Hub!Announce
  <2>3. torn' \in BOOLEAN
    BY DEF Hub!Tells, HubInv, HubTypes
  <2> QED
    BY <1>1, <2>1, <2>2, <2>3 DEF HubInv, HubTypes
<1>6. \A d \in Hub!Links : (On(d)' <=> On(d)) /\ (at'[d] = "joining" <=> at[d] = "joining") /\ (Keeps(d)' <=> Keeps(d))
  BY <1>1, <1>4 DEF On, Keeps
<1>7. Linked'
  <2>1. OwnLink'
    <3>1. ASSUME NEW k \in Machines, link[k] # 0 PROVE Of[link[k]] = k /\ On(link[k])'
      <4>1. link[k] \in Hub!Links /\ Of[link[k]] = k /\ at[link[k]] \in {"on", "telling"}
        BY <3>1, Connected
      <4>2. at'[link[k]] \in {"on", "telling"}
        BY <1>6, <4>1 DEF On
      <4> QED
        BY <1>1, <4>1, <4>2 DEF On
    <3> QED
      BY <1>1, <3>1 DEF OwnLink, On
  <2>2. ShowsNone'
    BY <1>1, <1>3 DEF Linked, ShowsNone
  <2>3. Subscribed'
    BY <1>1, <1>3, <1>6 DEF Linked, Subscribed
  <2>4. Dialling'
    BY <1>1, <1>3, <1>6 DEF Linked, Dialling
  <2> QED
    BY <2>1, <2>2, <2>3, <2>4 DEF Linked
<1>8. Hub!Within' = Hub!Within \ {c} /\ c \in Hub!Within
  BY <1>1, <1>4 DEF Hub!Within
<1>9. Apart'
  BY <1>1, <1>2, <1>8 DEF HubInv, Apart
<1>10. ASSUME ~ torn PROVE LinkViews' /\ JoinViews' /\ TellsSo'
  <2>1. LinkViews /\ JoinViews /\ TellsSo
    BY <1>10 DEF HubInv, Views
  <2>2. swept = {} /\ \A d \in Hub!Within : d = c
    BY <1>8, <1>10 DEF HubInv, Apart
  <2>3. Hub!Shown(tell[c]) = Hub!Shown(here[m])
    BY <1>1, <2>1 DEF TellsSo
  <2>4. \A n \in Machines : ~ Untold(n)' => n = m \/ ~ Untold(n)
    BY <1>1, <1>4 DEF Untold
  <2>5. \A k, n \in Machines : link[k] # 0 /\ n # k /\ (n = m \/ ~ Untold(n)) =>
                 Leads(due'[link[k]], shown[k][n], n, Hub!Shown(here[n]))
    BY <1>1, <1>3, <2>1, <2>3, Announced
  <2>6. LinkViews'
    BY <1>1, <2>4, <2>5 DEF LinkViews, ViewOf
  <2>7. \A d \in Hub!Links : at'[d] \notin {"joining", "telling", "parting"}
    BY <1>4, <2>2 DEF Hub!Within
  <2>8. JoinViews' /\ TellsSo'
    BY <1>1, <2>2, <2>7 DEF JoinViews, TellsSo
  <2> QED
    BY <2>6, <2>8
<1>11. NobodyStays'
  BY <1>1, <1>6 DEF HubInv, NobodyStays
<1> QED
  BY <1>2, <1>5, <1>7, <1>9, <1>10, <1>11 DEF HubInv, Views

LEMMA LeavesStep == ASSUME Wired, HubInv, NEW c \in Hub!Links, Hub!Leaves(c) PROVE HubInv'
<1>1. /\ at[c] = "on" /\ link[Of[c]] # c /\ Hub!Enters(c) /\ at' = [at EXCEPT ![c] = "leaving"] /\ subs' = subs \ {c}
      /\ said' = [said EXCEPT ![c] = <<>>] /\ due' = [due EXCEPT ![c] = <<>>]
      /\ opened' = opened /\ link' = link /\ shown' = shown /\ here' = here /\ tell' = tell /\ swept' = swept
  BY DEF Hub!Leaves
<1>2. /\ at \in [Hub!Links -> Places] /\ due \in [Hub!Links -> Seq(News)] /\ said \in [Hub!Links -> Seq(Hub!Lists)]
      /\ subs \subseteq Hub!Links /\ Linked
  BY DEF HubInv, HubTypes
<1>3. at'[c] = "leaving" /\ \A d \in Hub!Links : d # c => at'[d] = at[d] /\ due'[d] = due[d]
  BY <1>1, <1>2
<1>4. HubTypes'
  <2>1. at' \in [Hub!Links -> Places] /\ due' \in [Hub!Links -> Seq(News)] /\ said' \in [Hub!Links -> Seq(Hub!Lists)]
    <3>1. <<>> \in Seq(News) /\ <<>> \in Seq(Hub!Lists)
      BY EmptySeq
    <3> QED
      BY <1>1, <1>2, <3>1 DEF Places
  <2>2. torn' \in BOOLEAN
    BY <1>1 DEF Hub!Enters, HubInv, HubTypes
  <2> QED
    BY <1>1, <1>2, <2>1, <2>2 DEF HubInv, HubTypes
<1>5. \A m \in Machines : link[m] # 0 => link[m] \in Hub!Links /\ Of[link[m]] = m /\ link[m] # c /\ at[link[m]] \in {"on", "telling"}
  BY <1>1, Connected
<1>6. Linked'
  <2>1. OwnLink'
    BY <1>1, <1>3, <1>5 DEF OwnLink, On
  <2>2. ShowsNone' /\ Subscribed'
    BY <1>1, <1>2, <1>3 DEF Linked, ShowsNone, Subscribed, On
  <2>3. Dialling'
    BY <1>1, <1>2, <1>3 DEF Linked, Dialling
  <2> QED
    BY <2>1, <2>2, <2>3 DEF Linked
<1>7. ASSUME ~ torn' PROVE ~ torn /\ swept = {} /\ \A d \in Hub!Links \ {c} : d \notin Hub!Within
  BY <1>1, <1>7, Enters
<1>8. \A d \in Hub!Links \ {c} : d \in Hub!Within' <=> d \in Hub!Within
  BY <1>3 DEF Hub!Within
<1>9. Apart'
  BY <1>1, <1>7, <1>8, OneWithin
<1>10. ASSUME ~ torn' PROVE LinkViews' /\ JoinViews' /\ TellsSo'
  <2>1. LinkViews /\ JoinViews /\ TellsSo
    BY <1>7, <1>10 DEF HubInv, Views
  <2>2. \A d \in Hub!Links : at'[d] \notin {"joining", "telling", "parting"} /\ at[d] \notin {"telling", "parting"}
    BY <1>1, <1>3, <1>7, <1>10 DEF Hub!Within
  <2>3. \A n \in Machines : ~ Untold(n)
    BY <1>7, <1>10, <2>2 DEF Untold
  <2>4. LinkViews'
    BY <1>1, <1>3, <1>5, <2>1, <2>3 DEF LinkViews, ViewOf
  <2>5. JoinViews' /\ TellsSo'
    BY <1>1, <1>7, <1>10, <2>2 DEF JoinViews, TellsSo
  <2> QED
    BY <2>4, <2>5
<1>11. NobodyStays'
  <2>1. \A d \in Hub!Links : Keeps(d) => Keeps(d)'
    BY <1>1, <1>3 DEF Keeps
  <2> QED
    BY <1>1, <2>1 DEF HubInv, NobodyStays
<1> QED
  BY <1>4, <1>6, <1>9, <1>10, <1>11 DEF HubInv, Views

LEMMA PartsStep == ASSUME Wired, HubInv, NEW c \in Hub!Links, Hub!Parts(c) PROVE HubInv'
<1> DEFINE m == Of[c]
<1> DEFINE goes == ~ Hub!StillHere(c) /\ here[m] # ""
<1>1. /\ at[c] = "leaving" /\ at' = [at EXCEPT ![c] = IF goes THEN "parting" ELSE "gone"]
      /\ here' = (IF goes THEN [here EXCEPT ![m] = ""] ELSE here) /\ tell' = [tell EXCEPT ![c] = IF goes THEN "none" ELSE ""]
      /\ opened' = opened /\ link' = link /\ shown' = shown /\ said' = said /\ due' = due /\ subs' = subs /\ swept' = swept
  BY DEF Hub!Parts
<1>2. torn' <=> torn
  BY DEF Hub!Parts
<1>3. at \in [Hub!Links -> Places] /\ here \in [Machines -> Items] /\ tell \in [Hub!Links -> Items] /\ Linked /\ m \in Machines
  BY DEF HubInv, HubTypes, Wired, Hub!Links
<1>4. ~ goes /\ here[m] # "" => \E d \in Hub!Links : d \in subs /\ Of[d] = m
  BY DEF Hub!StillHere, HubInv, HubTypes
<1> HIDE DEF goes
<1>5. /\ at'[c] = (IF goes THEN "parting" ELSE "gone") /\ tell'[c] = (IF goes THEN "none" ELSE "")
      /\ here'[m] = (IF goes THEN "" ELSE here[m])
      /\ \A d \in Hub!Links : d # c => at'[d] = at[d] /\ tell'[d] = tell[d]
      /\ \A k \in Machines : k # m => here'[k] = here[k]
  BY <1>1, <1>3
<1>6. HubTypes'
  <2>1. at' \in [Hub!Links -> Places] /\ tell' \in [Hub!Links -> Items] /\ here' \in [Machines -> Items]
    BY <1>1, <1>3 DEF Places, Items
  <2>2. torn' \in BOOLEAN
    BY DEF Hub!Parts, HubInv, HubTypes
  <2> QED
    BY <1>1, <2>1, <2>2 DEF HubInv, HubTypes
<1>7. Linked'
  <2>1. \A k \in Machines : link[k] # 0 => link[k] \in Hub!Links /\ Of[link[k]] = k /\ link[k] # c /\ at[link[k]] \in {"on", "telling"}
    BY <1>1, Connected
  <2>2. OwnLink'
    <3>1. \A k \in Machines : link[k] # 0 => Of[link[k]] = k /\ at'[link[k]] \in {"on", "telling"}
      BY <1>5, <2>1
    <3> QED
      BY <1>1, <3>1 DEF OwnLink, On
  <2>3. ShowsNone' /\ Subscribed'
    BY <1>1, <1>3, <1>5 DEF Linked, ShowsNone, Subscribed, On
  <2>4. Dialling'
    BY <1>1, <1>3, <1>5 DEF Linked, Dialling
  <2> QED
    BY <2>2, <2>3, <2>4 DEF Linked
<1>8. c \in Hub!Within /\ \A d \in Hub!Within' : d \in Hub!Within
  BY <1>1, <1>5 DEF Hub!Within
<1>9. Apart'
  BY <1>1, <1>2, <1>8 DEF HubInv, Apart
<1>10. ASSUME ~ torn PROVE LinkViews' /\ JoinViews' /\ TellsSo'
  <2>1. LinkViews /\ JoinViews /\ TellsSo
    BY <1>10 DEF HubInv, Views
  <2>2. swept = {} /\ \A d \in Hub!Within : d = c
    BY <1>8, <1>10 DEF HubInv, Apart
  <2>3. ASSUME NEW n \in Machines, ~ Untold(n)' PROVE ~ Untold(n) /\ here'[n] = here[n]
    <3>1. n = m => ~ goes
      BY <1>5, <2>3 DEF Untold
    <3>2. here'[n] = here[n]
      BY <1>5, <3>1
    <3>3. ~ Untold(n)
      BY <1>1, <1>5, <2>3 DEF Untold
    <3> QED
      BY <3>2, <3>3
  <2>4. LinkViews'
    BY <1>1, <2>1, <2>3 DEF LinkViews, ViewOf
  <2>5. \A d \in Hub!Links : at'[d] # "joining" /\ (at'[d] \in {"telling", "parting"} => d = c /\ goes)
    BY <1>5, <2>2 DEF Hub!Within
  <2>6. Hub!Shown("none") = Hub!Shown("")
    BY DEF Hub!Shown
  <2>7. TellsSo'
    BY <1>1, <1>5, <2>2, <2>5, <2>6 DEF TellsSo
  <2>8. JoinViews'
    BY <2>5 DEF JoinViews
  <2> QED
    BY <2>4, <2>7, <2>8
<1>11. NobodyStays'
  <2>1. ASSUME NEW k \in Machines, here'[k] # "" PROVE \E d \in Hub!Links : Of[d] = k /\ Keeps(d)'
    <3>1. CASE k = m
      BY <1>1, <1>4, <1>5, <2>1, <3>1 DEF Keeps
    <3>2. CASE k # m
      <4>1. PICK d \in Hub!Links : Of[d] = k /\ Keeps(d)
        BY <1>5, <2>1, <3>2 DEF HubInv, NobodyStays
      <4>2. Keeps(d)'
        BY <1>1, <1>5, <3>2, <4>1 DEF Keeps
      <4> QED
        BY <4>1, <4>2
    <3> QED
      BY <3>1, <3>2
  <2> QED
    BY <2>1 DEF NobodyStays
<1> QED
  BY <1>2, <1>6, <1>7, <1>9, <1>10, <1>11 DEF HubInv, Views

LEMMA HubSweepStep == ASSUME Wired, HubInv, NEW m \in Machines, Hub!Sweep(m) PROVE HubInv'
<1>1. /\ here' = [here EXCEPT ![m] = ""] /\ swept' = swept \cup {m} /\ opened' = opened /\ link' = link /\ shown' = shown
      /\ at' = at /\ said' = said /\ due' = due /\ subs' = subs /\ tell' = tell
  BY DEF Hub!Sweep
<1>2. here \in [Machines -> Items] /\ swept \subseteq Machines /\ Linked
  BY DEF HubInv, HubTypes
<1>3. here'[m] = "" /\ \A k \in Machines : k # m => here'[k] = here[k]
  BY <1>1, <1>2
<1>4. HubTypes'
  <2>1. here' \in [Machines -> Items] /\ swept' \subseteq Machines
    BY <1>1, <1>2 DEF Items
  <2>2. torn' \in BOOLEAN
    BY DEF Hub!Sweep, HubInv, HubTypes
  <2> QED
    BY <1>1, <2>1, <2>2 DEF HubInv, HubTypes
<1>5. Linked'
  BY <1>1, <1>2, LinksStay
<1>6. ASSUME ~ torn' PROVE ~ torn /\ Hub!Within = {} /\ swept = {}
  BY <1>6, Zenon DEF Hub!Sweep
<1>7. Hub!Within' = Hub!Within
  BY <1>1 DEF Hub!Within
<1>8. Apart'
  BY <1>1, <1>6, <1>7 DEF Apart
<1>9. ASSUME ~ torn' PROVE LinkViews' /\ JoinViews' /\ TellsSo'
  <2>1. LinkViews /\ JoinViews /\ TellsSo
    BY <1>6, <1>9 DEF HubInv, Views
  <2>2. \A d \in Hub!Links : at[d] \notin {"joining", "telling", "parting"}
    BY <1>6, <1>9 DEF Hub!Within
  <2>3. \A n \in Machines : ~ Untold(n)' => ~ Untold(n) /\ here'[n] = here[n]
    BY <1>1, <1>3 DEF Untold
  <2>4. LinkViews'
    BY <1>1, <2>1, <2>3 DEF LinkViews, ViewOf
  <2>5. JoinViews'
    BY <1>1, <2>2 DEF JoinViews
  <2>6. TellsSo'
    BY <1>1, <1>3, <1>6, <1>9, <2>2 DEF TellsSo
  <2> QED
    BY <2>4, <2>5, <2>6
<1>10. NobodyStays'
  BY <1>1, <1>3 DEF HubInv, NobodyStays, Keeps
<1> QED
  BY <1>4, <1>5, <1>8, <1>9, <1>10 DEF HubInv, Views

LEMMA TellsOfSweptStep == ASSUME Wired, HubInv, NEW m \in Machines, Hub!TellsOfSwept(m) PROVE HubInv'
<1>1. /\ m \in swept /\ swept' = swept \ {m} /\ Hub!Announce(m, "none") /\ opened' = opened /\ link' = link /\ shown' = shown
      /\ at' = at /\ said' = said /\ here' = here /\ subs' = subs /\ tell' = tell
  BY DEF Hub!TellsOfSwept
<1>2. torn' <=> torn
  BY DEF Hub!TellsOfSwept
<1>3. "none" \in Items /\ swept \subseteq Machines /\ Linked
  BY DEF Items, HubInv, HubTypes
<1>4. HubTypes'
  <2>1. due' \in [Hub!Links -> Seq(News)]
    <3>1. due \in [Hub!Links -> Seq(News)] /\ <<m, "none">> \in News
      BY <1>3 DEF HubInv, HubTypes, News
    <3>2. \A d \in Hub!Links : Append(due[d], <<m, "none">>) \in Seq(News)
      BY <3>1, AppendProperties
    <3> QED
      BY <1>1, <3>1, <3>2 DEF Hub!Announce
  <2>2. torn' \in BOOLEAN
    BY DEF Hub!TellsOfSwept, HubInv, HubTypes
  <2> QED
    BY <1>1, <1>3, <2>1, <2>2 DEF HubInv, HubTypes
<1>5. Linked'
  BY <1>1, <1>3, LinksStay
<1>6. Hub!Within' = Hub!Within
  BY <1>1 DEF Hub!Within
<1>7. Apart'
  BY <1>1, <1>2, <1>6 DEF HubInv, Apart
<1>8. ASSUME ~ torn PROVE LinkViews' /\ JoinViews' /\ TellsSo'
  <2>1. LinkViews /\ JoinViews /\ TellsSo
    BY <1>8 DEF HubInv, Views
  <2>2. \A d \in Hub!Links : at[d] \notin {"joining", "telling", "parting"}
    BY <1>1, <1>8 DEF HubInv, Apart, Hub!Within
  <2>3. Hub!Shown("none") = Hub!Shown(here[m])
    BY <1>1, <2>1 DEF TellsSo, Hub!Shown
  <2>4. \A n \in Machines : ~ Untold(n)' => n = m \/ ~ Untold(n)
    BY <1>1 DEF Untold
  <2>5. \A k, n \in Machines : link[k] # 0 /\ n # k /\ (n = m \/ ~ Untold(n)) =>
                 Leads(due'[link[k]], shown[k][n], n, Hub!Shown(here[n]))
    BY <1>1, <1>3, <2>1, <2>3, Announced
  <2>6. LinkViews'
    BY <1>1, <2>4, <2>5 DEF LinkViews, ViewOf
  <2>7. JoinViews' /\ TellsSo'
    BY <1>1, <2>1, <2>2 DEF JoinViews, TellsSo
  <2> QED
    BY <2>6, <2>7
<1>9. NobodyStays'
  BY <1>1 DEF HubInv, NobodyStays, Keeps
<1> QED
  BY <1>2, <1>4, <1>5, <1>7, <1>8, <1>9 DEF HubInv, Views

(***************************************************************************)
(* Once nothing is on its way a machine shows of every other what the hub  *)
(* holds, unless two threads have met within the hub; and the hub never    *)
(* holds a machine whose last connection has parted: for any number of     *)
(* machines, connections and acts (Hub::join, leave, set_presence, sweep). *)
(***************************************************************************)
THEOREM WhoIsHere == Wired => (Hub!Spec => []Hub!PresenceIsTrue)
<1> SUFFICES ASSUME Wired PROVE Hub!Spec => []Hub!PresenceIsTrue
  OBVIOUS
<1>1. Hub!Init => HubInv
  <2> SUFFICES ASSUME Hub!Init PROVE HubInv
    OBVIOUS
  <2>1. <<>> \in Seq(News) /\ <<>> \in Seq(Hub!Lists)
    BY EmptySeq
  <2>2. HubTypes
    BY <2>1 DEF Hub!Init, HubTypes, Items, Places, Hub!Lists
  <2>3. \A c \in Hub!Links : at[c] = "free"
    BY DEF Hub!Init
  <2>4. (\A m \in Machines : link[m] = 0 /\ here[m] = "" /\ \A n \in Machines : shown[m][n] = "") /\ swept = {}
    BY DEF Hub!Init
  <2>5. Linked
    BY <2>3, <2>4 DEF Linked, OwnLink, ShowsNone, Subscribed, Dialling, On
  <2>6. Apart
    BY <2>3, <2>4 DEF Apart, Hub!Within
  <2>7. Views
    BY <2>3, <2>4 DEF Views, LinkViews, JoinViews, TellsSo
  <2>8. NobodyStays
    BY <2>4 DEF NobodyStays
  <2> QED
    BY <2>2, <2>5, <2>6, <2>7, <2>8 DEF HubInv
<1>2. HubInv /\ [Hub!Next]_Hub!prvars => HubInv'
  <2> SUFFICES ASSUME HubInv, [Hub!Next]_Hub!prvars PROVE HubInv'
    OBVIOUS
  <2>1. ASSUME UNCHANGED Hub!prvars PROVE HubInv'
    <3>1. UNCHANGED <<opened, said>> /\ UNCHANGED <<link, shown, at, due, here, subs, tell, swept, torn>>
      BY <2>1 DEF Hub!prvars
    <3>2. HubTypes'
      BY <3>1 DEF HubInv, HubTypes
    <3> QED
      BY <3>1, <3>2, Aside DEF HubInv
  <2>2. ASSUME NEW m \in Machines,
               \/ Hub!Open(m) \/ Hub!Beats(m) \/ Hub!Silent(m) \/ Hub!Hears(m) \/ Hub!Lost(m) \/ Hub!Sweep(m) \/ Hub!TellsOfSwept(m)
        PROVE  HubInv'
    BY <2>2, MachineSays, HubHearsStep, LostStep, HubSweepStep, TellsOfSweptStep
  <2>3. ASSUME NEW c \in Hub!Links,
               \/ Hub!Subscribe(c) \/ Hub!Sets(c) \/ Hub!Tells(c) \/ Hub!Leaves(c) \/ Hub!Parts(c) \/ Hub!Join(c)
        PROVE  HubInv'
    BY <2>3, JoinStep, SubscribeStep, SetsStep, TellsStep, LeavesStep, PartsStep
  <2> QED
    BY <2>1, <2>2, <2>3 DEF Hub!Next
<1>3. HubInv => Hub!PresenceIsTrue
  <2> SUFFICES ASSUME HubInv PROVE Hub!PresenceIsTrue
    OBVIOUS
  <2>1. ASSUME ~ torn, NEW m \in Machines, Hub!Quiet(m), NEW n \in Machines \ {m} PROVE shown[m][n] = Hub!Shown(here[n])
    <3>1. link[m] # 0 /\ due[link[m]] = <<>> /\ ~ Untold(n)
      BY <2>1 DEF Hub!Quiet, Untold, Hub!Within
    <3>2. Leads(<<>>, shown[m][n], n, Hub!Shown(here[n]))
      BY <2>1, <3>1 DEF HubInv, Views, LinkViews, ViewOf
    <3> QED
      BY <3>2 DEF Leads
  <2> QED
    BY <2>1 DEF Hub!PresenceIsTrue, HubInv, NobodyStays, Keeps
<1> QED
  BY <1>1, <1>2, <1>3, PTL DEF Hub!Spec

-----------------------------------------------------------------------------
(* A pane that a reload orphaned (Adoption).                                *)

CONSTANTS Chunks, Loads, Overtaken
VARIABLES out, running, emitted, step, snap, pending, term, isEnded, loads
Pane == INSTANCE Adoption WITH events <- emitted

\* The exit of a process that is gone is known, or on its way, once the pane's scrollback was read with it running.
ExitAhead == \E i \in DOMAIN emitted : emitted[i] = 0
PaneInv ==
    /\ out \in Nat /\ running \in BOOLEAN /\ emitted \in Seq(Nat) /\ isEnded \in BOOLEAN
    /\ step \in {"read", "broken", "adopted"} /\ ~ running => isEnded \/ ExitAhead

\* An event that is emitted now is on its way, and the others still are.
LEMMA PaneEmitted ==
    ASSUME emitted \in Seq(Nat), NEW e \in Nat, Pane!Emit(e)
    PROVE  emitted' \in Seq(Nat) /\ (ExitAhead => ExitAhead') /\ (step # "away" /\ e = 0 => ExitAhead')
<1>1. CASE step = "away"
  BY <1>1 DEF Pane!Emit, ExitAhead
<1>2. CASE step # "away"
  <2>1. emitted' = Append(emitted, e)
    BY <1>2 DEF Pane!Emit
  <2>2. /\ emitted' \in Seq(Nat) /\ Len(emitted') = Len(emitted) + 1 /\ emitted'[Len(emitted) + 1] = e
        /\ \A i \in 1..Len(emitted) : emitted'[i] = emitted[i]
    BY <2>1, AppendProperties
  <2>3. DOMAIN emitted' = 1..(Len(emitted) + 1) /\ DOMAIN emitted = 1..Len(emitted) /\ Len(emitted) \in Nat
    BY <2>2, LenProperties
  <2> QED
    BY <2>2, <2>3 DEF ExitAhead
<1> QED
  BY <1>1, <1>2

\* What is heard first is the exit, or the exit is still on its way.
LEMMA Heard ==
    ASSUME emitted \in Seq(Nat), emitted # <<>>, emitted' = Tail(emitted)
    PROVE  emitted' \in Seq(Nat) /\ (ExitAhead => Head(emitted) = 0 \/ ExitAhead')
<1>1. /\ emitted' \in Seq(Nat) /\ Len(emitted') = Len(emitted) - 1 /\ \A i \in 1..Len(emitted') : emitted'[i] = emitted[i + 1]
      /\ Head(emitted) = emitted[1] /\ Len(emitted) \in Nat /\ Len(emitted) > 0
  BY HeadTailProperties, EmptySeq, LenProperties
<1>2. DOMAIN emitted' = 1..Len(emitted') /\ DOMAIN emitted = 1..Len(emitted)
  BY <1>1, LenProperties
<1>3. \A i \in DOMAIN emitted : i = 1 \/ (i - 1 \in DOMAIN emitted' /\ emitted'[i - 1] = emitted[i])
  BY <1>1, <1>2
<1> QED
  BY <1>1, <1>3 DEF ExitAhead

(***************************************************************************)
(* An adopted pane whose process is gone says so once what was emitted has *)
(* been heard, wherever the exit falls between the listing, the reading    *)
(* and the answer: for any output, any number of reloads, and whether or   *)
(* not the answer overtakes the output (adoptSession, stream_pty_session). *)
(***************************************************************************)
THEOREM ExitIsSaid == Pane!Spec => []Pane!EndIsKnown
<1>1. Pane!Init => PaneInv
  <2> SUFFICES ASSUME Pane!Init PROVE PaneInv
    OBVIOUS
  <2>1. out = 0 /\ running = TRUE /\ emitted = <<>> /\ isEnded = FALSE /\ emitted \in Seq(Nat)
    BY EmptySeq DEF Pane!Init
  <2> QED
    BY <2>1 DEF PaneInv
<1>2. PaneInv /\ [Pane!Next]_Pane!avars => PaneInv'
  <2> SUFFICES ASSUME PaneInv, [Pane!Next]_Pane!avars PROVE PaneInv'
    OBVIOUS
  <2> USE DEF PaneInv
  <2>1. CASE Pane!Output
    <3>1. out + 1 \in Nat
      OBVIOUS
    <3> QED
      BY <2>1, <3>1, PaneEmitted DEF Pane!Output
  <2>2. CASE Pane!Reap
    <3>1. Pane!Emit(0) /\ running' = FALSE /\ step' = step /\ out' = out /\ isEnded' = isEnded
      BY <2>2 DEF Pane!Reap
    <3> QED
      BY <3>1, PaneEmitted
  <2>3. CASE Pane!Reload
    BY <2>3, EmptySeq DEF Pane!Reload
  <2>4. CASE Pane!List \/ Pane!Ask
    BY <2>4 DEF Pane!List, Pane!Ask
  <2>5. CASE Pane!ReadScrollback
    BY <2>5 DEF Pane!ReadScrollback
  <2>6. CASE Pane!Adopt
    <3>1. step \in {"read", "no session", "broken"} /\ isEnded' = (isEnded \/ step = "no session") /\ UNCHANGED <<out, running, emitted>>
      BY <2>6 DEF Pane!Adopt
    <3> QED
      BY <3>1 DEF ExitAhead
  <2>7. CASE Pane!Hear
    <3>1. /\ emitted # <<>> /\ emitted' = Tail(emitted) /\ UNCHANGED <<out, running, step>>
          /\ isEnded' = (isEnded \/ (Head(emitted) = 0 /\ Pane!Ends))
      BY <2>7 DEF Pane!Hear
    <3>2. step \in {"read", "broken", "adopted"} => Pane!Ends
      BY DEF Pane!Ends, Pane!Paned
    <3> QED
      BY <3>1, <3>2, Heard
  <2>8. CASE UNCHANGED Pane!avars
    BY <2>8 DEF Pane!avars, ExitAhead
  <2> QED
    BY <2>1, <2>2, <2>3, <2>4, <2>5, <2>6, <2>7, <2>8 DEF Pane!Next
<1>3. PaneInv => Pane!EndIsKnown
  BY DEF PaneInv, ExitAhead, Pane!EndIsKnown
<1> QED
  BY <1>1, <1>2, <1>3, PTL DEF Pane!Spec

\* Any numbers have a least one: the library's fact, on the relation as a set.
Lower == {p \in Nat \X Nat : p[1] < p[2]}
LEMMA LeastOne == ASSUME NEW B \in SUBSET Nat, B # {} PROVE \E m \in B : \A n \in B : m <= n
<1>1. OpToRel(<, Nat) = Lower
  BY DEF OpToRel, Lower
<1>2. IsWellFoundedOn(Lower, Nat)
  BY <1>1, NatLessThanWellFounded
<1>3. PICK m \in B : \A n \in B : ~ (<<n, m>> \in Lower)
  BY <1>2, WFMin, Zenon
<1>4. ASSUME NEW n \in B PROVE m <= n
  <2>1. m \in Nat /\ n \in Nat /\ ~ (<<n, m>> \in Lower)
    BY <1>3
  <2>2. ~ (n < m)
    BY <2>1 DEF Lower
  <2> QED
    BY <2>1, <2>2
<1> QED
  BY <1>4

\* Chunks in a row, of which the last is h.
EndsAt(s, h) == s \in Seq(Nat) /\ \A i \in 1..Len(s) : s[i] + Len(s) = h + i

LEMMA OneMore ==
    ASSUME NEW n \in Nat, NEW q \in Nat
    PROVE  Append([k \in 1..q |-> n + k], n + (q + 1)) = [k \in 1..(q + 1) |-> n + k]
<1> DEFINE s == [k \in 1..q |-> n + k]
<1>1. s \in Seq(Nat) /\ Len(s) = q
  OBVIOUS
<1>2. /\ Append(s, n + (q + 1)) \in Seq(Nat) /\ Len(Append(s, n + (q + 1))) = q + 1
      /\ \A k \in 1..q : Append(s, n + (q + 1))[k] = s[k]
      /\ Append(s, n + (q + 1))[q + 1] = n + (q + 1)
  BY <1>1, AppendProperties
<1>3. \A k \in 1..(q + 1) : Append(s, n + (q + 1))[k] = n + k
  BY <1>2
<1>4. DOMAIN Append(s, n + (q + 1)) = 1..(q + 1)
  BY <1>2, LenProperties
<1> HIDE DEF s
<1>5. Append(s, n + (q + 1)) = [k \in DOMAIN Append(s, n + (q + 1)) |-> Append(s, n + (q + 1))[k]]
  BY <1>2
<1> QED
  BY <1>3, <1>4, <1>5 DEF s

\* Of chunks in a row up to h, the ones past a snapshot that is no older than their beginning go on from it.
LEMMA AfterSnapIs ==
    ASSUME NEW h \in Nat, NEW n \in Nat, EndsAt(pending, h), n <= h, h <= n + Len(pending)
    PROVE  Pane!AfterSnap(n) = [k \in 1..(h - n) |-> n + k]
<1> DEFINE L == Len(pending)
           m(i) == IF h + i > L + n THEN h + i - (L + n) ELSE 0
           upto(i) == [k \in 1..m(i) |-> n + k]
           Loop(f) == f = [i \in 0..L |->
                IF i = 0 THEN <<>> ELSE IF pending[i] > n THEN Append(f[i - 1], pending[i]) ELSE f[i - 1]]
           g == [i \in 0..L |-> upto(i)]
<1>1. L \in Nat /\ \A i \in 1..L : pending[i] \in Nat /\ pending[i] + L = h + i
  BY LenProperties, ElementOfSeq DEF EndsAt
<1>2. ASSUME NEW i \in 0..L PROVE g[i] = IF i = 0 THEN <<>> ELSE IF pending[i] > n THEN Append(g[i - 1], pending[i]) ELSE g[i - 1]
  <2>1. CASE i = 0
    <3>1. m(0) = 0 /\ g[i] = upto(0)
      BY <1>1, <2>1
    <3>2. upto(0) = <<>>
      BY <3>1
    <3> QED
      BY <2>1, <3>1, <3>2
  <2>2. CASE i # 0
    <3>1. i \in 1..L /\ i - 1 \in 0..L /\ pending[i] + L = h + i /\ pending[i] \in Nat
      BY <1>1, <2>2
    <3>2. g[i] = upto(i) /\ g[i - 1] = upto(i - 1)
      BY <3>1
    <3>3. CASE pending[i] > n
      <4>1. m(i) = m(i - 1) + 1 /\ m(i - 1) \in Nat /\ pending[i] = n + m(i)
        <5>1. h \in Nat /\ n \in Nat /\ L \in Nat /\ i \in Nat /\ i >= 1
          BY <1>1, <3>1
        <5>2. h + i > L + n
          BY <3>1, <3>3, <5>1
        <5> HIDE DEF L
        <5> QED
          BY <3>1, <5>1, <5>2
      <4>2. Append(upto(i - 1), n + m(i)) = upto(i)
        BY <4>1, OneMore
      <4> QED
        BY <2>2, <3>2, <3>3, <4>1, <4>2
    <3>4. CASE ~ pending[i] > n
      <4>1. m(i) = m(i - 1)
        BY <1>1, <3>1, <3>4
      <4> QED
        BY <2>2, <3>2, <3>4, <4>1
    <3> QED
      BY <3>3, <3>4
  <2> QED
    BY <2>1, <2>2
<1>3. Loop(g)
  BY <1>2
<1>4. ASSUME NEW f, Loop(f) PROVE f = g
  <2> DEFINE Bad == {i \in 0..L : f[i] # g[i]}
  <2>1. f = [i \in 0..L |-> f[i]] /\ g = [i \in 0..L |-> g[i]]
    BY <1>4
  <2>2. SUFFICES ASSUME Bad # {} PROVE FALSE
    BY <2>1
  <2>3. Bad \in SUBSET Nat
    BY <1>1
  <2>4. PICK i \in Bad : \A j \in Bad : i <= j
    BY <2>2, <2>3, LeastOne
  <2> HIDE DEF g
  <2>5. i \in 0..L /\ f[i] # g[i] /\ (i # 0 => i - 1 \in 0..L)
    BY <1>1, <2>4
  <2>6. i # 0 => i - 1 \notin Bad
    BY <1>1, <2>4, <2>5
  <2>7. f[i] = IF i = 0 THEN <<>> ELSE IF pending[i] > n THEN Append(f[i - 1], pending[i]) ELSE f[i - 1]
    BY <1>4, <2>5
  <2> QED
    BY <1>2, <2>5, <2>6, <2>7
<1> HIDE DEF g
<1>5. (CHOOSE f : Loop(f)) = g
  BY <1>3, <1>4
<1>6. Pane!AfterSnap(n) = (CHOOSE f : Loop(f))[L]
  BY DEF Pane!AfterSnap
<1>7. g[L] = upto(L) /\ m(L) = h - n
  BY <1>1 DEF g
<1> QED
  BY <1>5, <1>6, <1>7

\* What is on its way are the chunks past h, in order.
OnItsWay(h) ==
    /\ h \in Nat /\ h <= out
    /\ \A i \in 1..Len(emitted) : emitted[i] # 0 => emitted[i] \in (h + 1)..out
    /\ \A n \in (h + 1)..out : step = "away" \/ \E i \in 1..Len(emitted) : emitted[i] = n
    /\ \A i, j \in 1..Len(emitted) : i < j /\ emitted[i] # 0 /\ emitted[j] # 0 => emitted[i] < emitted[j]
ShownTo(h) ==
    /\ OnItsWay(h)
    /\ EndsAt(pending, h) /\ EndsAt(term, h)
    /\ step = "adopted" => pending = <<>>
    /\ step # "adopted" => term = <<>>
    /\ step \in {"away", "listed"} => pending = <<>>
    /\ step = "read" => snap <= out /\ h <= snap + Len(pending)
ShownInv ==
    /\ out \in Nat /\ snap \in Nat /\ emitted \in Seq(Nat) /\ pending \in Seq(Nat) /\ term \in Seq(Nat)
    /\ step \in {"away", "listed", "asked", "read", "no session", "broken", "adopted"}
    /\ step = "away" => emitted = <<>>
    /\ \E h \in Nat : ShownTo(h)

LEMMA EndsEmpty == ASSUME NEW h PROVE EndsAt(<<>>, h)
<1>1. <<>> \in Seq(Nat) /\ Len(<<>>) = 0
  BY EmptySeq
<1>2. 1..0 = {}
  OBVIOUS
<1> QED
  BY <1>1, <1>2 DEF EndsAt

LEMMA EndsOneOn == ASSUME NEW s, NEW h \in Nat, EndsAt(s, h) PROVE EndsAt(Append(s, h + 1), h + 1)
<1> DEFINE t == Append(s, h + 1)
<1>1. s \in Seq(Nat) /\ h + 1 \in Nat /\ Len(s) \in Nat
  BY LenProperties DEF EndsAt
<1>2. t \in Seq(Nat) /\ Len(t) = Len(s) + 1 /\ t[Len(s) + 1] = h + 1 /\ \A i \in 1..Len(s) : t[i] = s[i]
  BY <1>1, AppendProperties
<1>3. \A i \in 1..Len(s) : s[i] \in Nat /\ s[i] + Len(s) = h + i
  BY <1>1, ElementOfSeq DEF EndsAt
<1> HIDE DEF t
<1>4. ASSUME NEW i \in 1..Len(t) PROVE t[i] + Len(t) = (h + 1) + i
  <2>1. CASE i = Len(s) + 1
    BY <1>1, <1>2, <2>1
  <2>2. CASE i # Len(s) + 1
    <3>1. i \in 1..Len(s)
      BY <1>1, <1>2, <2>2
    <3>2. t[i] = s[i] /\ s[i] \in Nat /\ s[i] + Len(s) = h + i /\ i \in Nat
      BY <1>2, <1>3, <3>1
    <3> QED
      <4>1. \A c, l \in Nat : c + l = h + i => c + (l + 1) = (h + 1) + i
        BY <3>2
      <4>2. s[i] + (Len(s) + 1) = (h + 1) + i
        BY <1>1, <3>2, <4>1
      <4> QED
        BY <1>2, <3>2, <4>2
  <2> QED
    BY <2>1, <2>2
<1> QED
  BY <1>2, <1>4 DEF EndsAt, t

\* Output, or the exit, goes behind what is on its way.
LEMMA ShownEmitted ==
    ASSUME NEW h, OnItsWay(h), emitted \in Seq(Nat), out \in Nat, step' = step, step = "away" => emitted = <<>>,
           NEW e \in Nat, Pane!Emit(e), (e = out + 1 /\ out' = out + 1) \/ (e = 0 /\ out' = out)
    PROVE  emitted' \in Seq(Nat) /\ (step' = "away" => emitted' = <<>>) /\ OnItsWay(h)'
<1>0. h \in Nat /\ h <= out /\ out' \in Nat /\ out <= out'
  BY DEF OnItsWay
<1>1. CASE step = "away"
  <2>1. emitted' = <<>> /\ Len(emitted') = 0 /\ emitted' \in Seq(Nat)
    BY <1>1, EmptySeq DEF Pane!Emit
  <2>2. 1..0 = {}
    OBVIOUS
  <2> QED
    BY <1>0, <1>1, <2>1, <2>2 DEF OnItsWay
<1>2. CASE step # "away"
  <2> DEFINE L == Len(emitted)
  <2>1. emitted' = Append(emitted, e)
    BY <1>2 DEF Pane!Emit
  <2>2. /\ emitted' \in Seq(Nat) /\ Len(emitted') = L + 1 /\ emitted'[L + 1] = e
        /\ \A i \in 1..L : emitted'[i] = emitted[i]
    BY <2>1, AppendProperties
  <2>3. L \in Nat /\ \A i \in 1..L : emitted[i] \in Nat
    BY LenProperties, ElementOfSeq
  <2>4. \A i \in 1..Len(emitted') : i \in 1..L \/ i = L + 1
    BY <2>2, <2>3
  <2>5. ASSUME NEW i \in 1..Len(emitted'), emitted'[i] # 0 PROVE emitted'[i] \in (h + 1)..out'
    <3>1. CASE i \in 1..L
      <4>1. emitted[i] \in (h + 1)..out /\ emitted'[i] = emitted[i]
        BY <2>2, <2>5, <3>1 DEF OnItsWay
      <4> QED
        BY <1>0, <4>1
    <3>2. CASE i = L + 1
      BY <1>0, <2>2, <2>5, <3>2
    <3> QED
      BY <2>4, <3>1, <3>2
  <2>6. ASSUME NEW n \in (h + 1)..out' PROVE \E i \in 1..Len(emitted') : emitted'[i] = n
    <3>1. CASE n \in (h + 1)..out
      <4>1. PICK i \in 1..L : emitted[i] = n
        BY <1>2, <3>1 DEF OnItsWay
      <4>2. i \in 1..Len(emitted') /\ emitted'[i] = n
        BY <2>2, <2>3, <4>1
      <4> QED
        BY <4>2
    <3>2. CASE n \notin (h + 1)..out
      <4>1. n = e /\ L + 1 \in 1..Len(emitted')
        BY <1>0, <2>2, <2>3, <3>2
      <4> QED
        BY <2>2, <4>1
    <3> QED
      BY <3>1, <3>2
  <2>7. ASSUME NEW i \in 1..Len(emitted'), NEW j \in 1..Len(emitted'), i < j, emitted'[i] # 0, emitted'[j] # 0
        PROVE  emitted'[i] < emitted'[j]
    <3>1. i \in 1..L /\ emitted'[i] = emitted[i]
      BY <2>2, <2>3, <2>7
    <3>2. emitted[i] \in (h + 1)..out
      BY <2>7, <3>1 DEF OnItsWay
    <3>3. CASE j \in 1..L
      BY <2>2, <2>7, <3>1, <3>3 DEF OnItsWay
    <3>4. CASE j = L + 1
      BY <1>0, <2>2, <2>7, <3>1, <3>2, <3>4
    <3> QED
      BY <2>4, <3>3, <3>4
  <2> QED
    BY <1>0, <1>2, <2>2, <2>5, <2>6, <2>7 DEF OnItsWay
<1> QED
  BY <1>1, <1>2

\* What is heard is the exit, or the chunk that comes next.
LEMMA ShownHeard ==
    ASSUME NEW h, OnItsWay(h), emitted \in Seq(Nat), out \in Nat, emitted # <<>>, emitted' = Tail(emitted),
           out' = out, step' = step, step # "away"
    PROVE  /\ emitted' \in Seq(Nat)
           /\ Head(emitted) = 0 => OnItsWay(h)'
           /\ Head(emitted) # 0 => Head(emitted) = h + 1 /\ OnItsWay(h + 1)'
<1> DEFINE e == Head(emitted)
<1>1. /\ emitted' \in Seq(Nat) /\ Len(emitted') = Len(emitted) - 1 /\ \A i \in 1..Len(emitted') : emitted'[i] = emitted[i + 1]
      /\ e = emitted[1] /\ Len(emitted) \in Nat /\ Len(emitted) > 0 /\ Len(emitted') \in Nat
  BY HeadTailProperties, EmptySeq, LenProperties
<1>2. \A i \in 1..Len(emitted) : emitted[i] \in Nat
  BY ElementOfSeq
<1>3. \A i \in 1..Len(emitted') : i + 1 \in 1..Len(emitted) /\ i + 1 > 1
  BY <1>1
<1>4. \A i \in 1..Len(emitted) : i # 1 => i - 1 \in 1..Len(emitted') /\ emitted'[i - 1] = emitted[i] /\ i > 1
  BY <1>1
<1>5. h \in Nat /\ h <= out /\ 1 \in 1..Len(emitted)
  BY <1>1 DEF OnItsWay
<1> HIDE DEF e
<1>6. \A i, j \in 1..Len(emitted') : i < j /\ emitted'[i] # 0 /\ emitted'[j] # 0 => emitted'[i] < emitted'[j]
  <2> SUFFICES ASSUME NEW i \in 1..Len(emitted'), NEW j \in 1..Len(emitted'), i < j, emitted'[i] # 0, emitted'[j] # 0
               PROVE  emitted'[i] < emitted'[j]
    OBVIOUS
  <2>1. i + 1 < j + 1 /\ emitted'[i] = emitted[i + 1] /\ emitted'[j] = emitted[j + 1]
    BY <1>1
  <2> QED
    BY <1>3, <2>1 DEF OnItsWay
<1>7. ASSUME e = 0 PROVE OnItsWay(h)'
  <2>1. \A i \in 1..Len(emitted') : emitted'[i] # 0 => emitted'[i] \in (h + 1)..out'
    BY <1>1, <1>3 DEF OnItsWay
  <2>2. ASSUME NEW n \in (h + 1)..out' PROVE \E i \in 1..Len(emitted') : emitted'[i] = n
    <3>1. PICK i \in 1..Len(emitted) : emitted[i] = n
      BY DEF OnItsWay
    <3>2. i # 1
      <4>1. n # 0
        BY <1>5
      <4> QED
        BY <1>1, <1>7, <3>1, <4>1
    <3> QED
      BY <1>4, <3>1, <3>2
  <2> QED
    BY <1>5, <1>6, <2>1, <2>2 DEF OnItsWay
<1>8. ASSUME e # 0 PROVE e = h + 1 /\ OnItsWay(h + 1)'
  <2>1. e \in (h + 1)..out
    BY <1>1, <1>5, <1>8 DEF OnItsWay
  <2>2. h + 1 \in (h + 1)..out /\ h + 1 \in Nat /\ h + 1 # 0 /\ h + 1 <= out'
    BY <1>5, <2>1
  <2>3. PICK k \in 1..Len(emitted) : emitted[k] = h + 1
    BY <2>2 DEF OnItsWay
  <2>4. e = h + 1
    <3>1. CASE k = 1
      BY <1>1, <2>3, <3>1
    <3>2. CASE k # 1
      <4>1. e < h + 1
        BY <1>1, <1>4, <1>5, <1>8, <2>2, <2>3, <3>2 DEF OnItsWay
      <4> QED
        BY <1>5, <2>1, <4>1
    <3> QED
      BY <3>1, <3>2
  <2>5. ASSUME NEW i \in 1..Len(emitted'), emitted'[i] # 0 PROVE emitted'[i] \in ((h + 1) + 1)..out'
    <3>1. i + 1 \in 1..Len(emitted) /\ emitted'[i] = emitted[i + 1] /\ 1 < i + 1
      BY <1>1, <1>3
    <3>2. emitted[i + 1] \in (h + 1)..out /\ e < emitted[i + 1]
      BY <1>1, <1>5, <1>8, <2>5, <3>1 DEF OnItsWay
    <3> QED
      BY <1>5, <2>4, <3>1, <3>2
  <2>6. ASSUME NEW n \in ((h + 1) + 1)..out' PROVE \E i \in 1..Len(emitted') : emitted'[i] = n
    <3>1. n \in (h + 1)..out /\ n # e
      BY <1>5, <2>4
    <3>2. PICK i \in 1..Len(emitted) : emitted[i] = n
      BY <3>1 DEF OnItsWay
    <3>3. i # 1
      BY <1>1, <3>1, <3>2
    <3> QED
      BY <1>4, <3>2, <3>3
  <2> QED
    BY <1>6, <2>2, <2>4, <2>5, <2>6 DEF OnItsWay
<1> QED
  BY <1>1, <1>7, <1>8 DEF e

\* What the answer holds and what waited join without a gap.
LEMMA ShownAdopted ==
    ASSUME ~ Overtaken, NEW h \in Nat, ShownTo(h), out \in Nat, snap \in Nat, step = "read", Pane!Adopt
    PROVE  EndsAt(term', h)
<1> DEFINE L == Len(pending)
           a == [i \in 1..snap |-> i]
           b == [k \in 1..(h - snap) |-> snap + k]
<1>1. EndsAt(pending, h) /\ snap <= out /\ h <= out /\ h <= snap + L
  BY DEF ShownTo, OnItsWay
<1>2. snap <= h
  <2> SUFFICES ASSUME ~ snap <= h PROVE FALSE
    OBVIOUS
  <2>1. h + 1 \in (h + 1)..out /\ h + 1 # 0 /\ ~ (h + 1 > snap)
    BY <1>1
  <2>2. PICK i \in 1..Len(emitted) : emitted[i] = h + 1
    BY <2>1 DEF ShownTo, OnItsWay
  <2>3. i \in DOMAIN emitted
    BY <2>2, LenProperties DEF ShownTo, OnItsWay
  <2> QED
    BY <2>1, <2>2, <2>3 DEF Pane!Adopt
<1>3. term' = a \o Pane!AfterSnap(snap)
  BY DEF Pane!Adopt
<1>4. Pane!AfterSnap(snap) = b
  BY <1>1, <1>2, AfterSnapIs
<1>5. a \in Seq(Nat) /\ Len(a) = snap /\ \A i \in 1..snap : a[i] = i
  OBVIOUS
<1>6. b \in Seq(Nat) /\ Len(b) = h - snap /\ h - snap \in Nat /\ \A k \in 1..(h - snap) : b[k] = snap + k
  BY <1>2
<1> HIDE DEF a, b
<1>7. /\ a \o b \in Seq(Nat) /\ Len(a \o b) = h
      /\ \A i \in 1..h : (a \o b)[i] = IF i <= snap THEN a[i] ELSE b[i - snap]
  BY <1>5, <1>6, ConcatProperties
<1>8. ASSUME NEW i \in 1..h PROVE (a \o b)[i] = i
  <2>1. CASE i <= snap
    BY <1>5, <1>7, <2>1
  <2>2. CASE ~ i <= snap
    <3>1. i - snap \in 1..(h - snap) /\ snap + (i - snap) = i
      BY <1>2, <2>2
    <3>2. b[i - snap] = snap + (i - snap)
      BY <1>6, <3>1
    <3> QED
      BY <1>7, <2>2, <3>1, <3>2
  <2> QED
    BY <2>1, <2>2
<1>9. \A i \in 1..h : i + h = h + i
  OBVIOUS
<1> QED
  BY <1>3, <1>4, <1>7, <1>8, <1>9 DEF EndsAt

LEMMA ShownInit == Pane!Init => ShownInv
<1> SUFFICES ASSUME Pane!Init PROVE ShownInv
  OBVIOUS
<1>1. /\ out = 0 /\ emitted = <<>> /\ step = "adopted" /\ snap = 0 /\ pending = <<>> /\ term = <<>>
      /\ <<>> \in Seq(Nat) /\ Len(<<>>) = 0
  BY EmptySeq DEF Pane!Init
<1>2. 1..0 = {} /\ (0 + 1)..0 = {}
  OBVIOUS
<1>3. OnItsWay(0)
  BY <1>1, <1>2 DEF OnItsWay
<1> QED
  BY <1>1, <1>3, EndsEmpty DEF ShownInv, ShownTo

LEMMA NothingPast == \A n \in Nat : n <= n /\ (n + 1)..n = {}
OBVIOUS

\* With nothing on its way and nothing shown, all that was written counts as shown.
LEMMA ShownAnew ==
    ASSUME out' \in Nat, emitted' = <<>>, pending' = <<>>, term' = <<>>, step' \in {"away", "listed"}
    PROVE  \E h \in Nat : ShownTo(h)'
<1>1. PICK h \in Nat : h = out'
  OBVIOUS
<1>3. OnItsWay(h)'
  <2>1. h <= out' /\ (h + 1)..out' = {}
    BY <1>1, NothingPast
  <2>2. Len(emitted') = 0 /\ 1..Len(emitted') = {}
    BY EmptySeq
  <2> QED
    BY <2>1, <2>2 DEF OnItsWay
<1>4. EndsAt(pending', h) /\ EndsAt(term', h)
  BY EndsEmpty
<1>5. ShownTo(h)'
  BY <1>3, <1>4 DEF ShownTo, EndsAt
<1> QED
  BY <1>5

LEMMA ShownNext == ASSUME ~ Overtaken PROVE ShownInv /\ [Pane!Next]_Pane!avars => ShownInv'
<1> SUFFICES ASSUME ShownInv, [Pane!Next]_Pane!avars PROVE ShownInv'
  OBVIOUS
<1>1. /\ out \in Nat /\ snap \in Nat /\ emitted \in Seq(Nat) /\ pending \in Seq(Nat) /\ term \in Seq(Nat)
      /\ step \in {"away", "listed", "asked", "read", "no session", "broken", "adopted"}
      /\ (step = "away" => emitted = <<>>)
  BY DEF ShownInv
<1>2. PICK h \in Nat : ShownTo(h)
  BY DEF ShownInv
<1>12. out \in Nat /\ snap \in Nat
  BY DEF ShownInv
<1>3. CASE Pane!Output
  <2>0. out' = out + 1 /\ Pane!Emit(out + 1) /\ step' = step /\ UNCHANGED <<snap, pending, term>>
    BY <1>3 DEF Pane!Output
  <2>1. out + 1 \in Nat /\ out' = out + 1 /\ out' \in Nat /\ step' = step /\ UNCHANGED <<snap, pending, term>>
    BY <1>12, <2>0
  <2>2. emitted' \in Seq(Nat) /\ (step' = "away" => emitted' = <<>>) /\ OnItsWay(h)'
    BY <1>1, <1>2, <2>0, <2>1, ShownEmitted DEF ShownTo
  <2>3. ShownTo(h)'
    <3>1. EndsAt(pending, h)' /\ EndsAt(term, h)'
      BY <1>2, <2>1 DEF ShownTo, EndsAt
    <3>2. snap <= out => snap <= out'
      BY <1>12, <2>1
    <3> QED
      BY <1>2, <2>1, <2>2, <3>1, <3>2 DEF ShownTo
  <2> QED
    BY <1>1, <2>1, <2>2, <2>3 DEF ShownInv
<1>4. CASE Pane!Reap
  <2>1. out' = out /\ 0 \in Nat /\ Pane!Emit(0) /\ step' = step /\ UNCHANGED <<snap, pending, term>>
    BY <1>4 DEF Pane!Reap
  <2>2. emitted' \in Seq(Nat) /\ (step' = "away" => emitted' = <<>>) /\ OnItsWay(h)'
    BY <1>1, <1>2, <2>1, ShownEmitted DEF ShownTo
  <2>3. ShownTo(h)'
    <3>1. EndsAt(pending, h)' /\ EndsAt(term, h)'
      BY <1>2, <2>1 DEF ShownTo, EndsAt
    <3> QED
      BY <1>2, <2>1, <2>2, <3>1 DEF ShownTo
  <2> QED
    BY <1>1, <2>1, <2>2, <2>3 DEF ShownInv
<1>5. CASE Pane!Reload
  <2>1. step' = "away" /\ emitted' = <<>> /\ pending' = <<>> /\ term' = <<>> /\ out' = out /\ snap' = snap
    BY <1>5 DEF Pane!Reload
  <2> QED
    BY <1>1, <2>1, ShownAnew, EmptySeq DEF ShownInv
<1>6. CASE Pane!List
  <2>1. step = "away" /\ step' = "listed" /\ UNCHANGED <<out, emitted, snap, pending, term>>
    BY <1>6 DEF Pane!List
  <2>2. emitted = <<>> /\ pending = <<>> /\ term = <<>>
    BY <1>1, <1>2, <2>1 DEF ShownTo
  <2> QED
    BY <1>1, <2>1, <2>2, ShownAnew DEF ShownInv
<1>7. CASE Pane!Ask
  <2>1. step = "listed" /\ step' = "asked" /\ UNCHANGED <<out, emitted, snap, pending, term>>
    BY <1>7 DEF Pane!Ask
  <2>2. OnItsWay(h)' /\ EndsAt(pending, h)' /\ EndsAt(term, h)'
    BY <1>2, <2>1 DEF ShownTo, OnItsWay, EndsAt
  <2>3. ShownTo(h)'
    BY <1>2, <2>1, <2>2 DEF ShownTo
  <2> QED
    BY <1>1, <2>1, <2>3 DEF ShownInv
<1>8. CASE Pane!ReadScrollback
  <2>1. step = "asked" /\ snap' = out /\ step' \in {"read", "broken", "no session"} /\ UNCHANGED <<out, emitted, pending, term>>
    BY <1>8 DEF Pane!ReadScrollback
  <2>2. OnItsWay(h)' /\ EndsAt(pending, h)' /\ EndsAt(term, h)'
    BY <1>2, <2>1 DEF ShownTo, OnItsWay, EndsAt
  <2>3. snap' <= out' /\ h <= snap' + Len(pending')
    <3>1. h <= out /\ Len(pending) \in Nat
      BY <1>1, <1>2, LenProperties DEF ShownTo, OnItsWay
    <3>2. out <= out /\ h <= out + Len(pending)
      BY <1>12, <3>1
    <3> QED
      BY <2>1, <3>2
  <2>4. ShownTo(h)'
    BY <1>2, <2>1, <2>2, <2>3 DEF ShownTo
  <2> QED
    BY <1>1, <2>1, <2>4 DEF ShownInv
<1>9. CASE Pane!Adopt
  <2>1. /\ step \in {"read", "no session", "broken"} /\ step' = "adopted" /\ pending' = <<>>
        /\ UNCHANGED <<out, emitted, snap>>
        /\ step = "broken" => term' = pending
        /\ step = "no session" => term' = <<>>
    BY <1>9 DEF Pane!Adopt
  <2>2. OnItsWay(h)'
    BY <1>2, <2>1 DEF ShownTo, OnItsWay
  <2>3. EndsAt(term', h)
    <3>1. CASE step = "read"
      BY <1>1, <1>2, <1>9, <3>1, ShownAdopted
    <3>2. CASE step = "broken"
      BY <1>2, <2>1, <3>2 DEF ShownTo
    <3>3. CASE step = "no session"
      BY <2>1, <3>3, EndsEmpty
    <3> QED
      BY <2>1, <3>1, <3>2, <3>3
  <2>4. EndsAt(pending', h)
    BY <2>1, EndsEmpty
  <2>5. ShownTo(h)'
    BY <2>1, <2>2, <2>3, <2>4 DEF ShownTo, EndsAt
  <2>6. pending' \in Seq(Nat) /\ term' \in Seq(Nat)
    BY <2>3, <2>4 DEF EndsAt
  <2> QED
    BY <1>1, <2>1, <2>5, <2>6 DEF ShownInv
<1>10. CASE Pane!Hear
  <2>1. /\ emitted # <<>> /\ emitted' = Tail(emitted) /\ UNCHANGED <<out, step, snap>>
        /\ pending' = IF Head(emitted) # 0 /\ Pane!Paned /\ step # "adopted" THEN Append(pending, Head(emitted)) ELSE pending
        /\ term' = IF Head(emitted) # 0 /\ step = "adopted" THEN Append(term, Head(emitted)) ELSE term
    BY <1>10 DEF Pane!Hear
  <2>2. step # "away"
    BY <1>1, <2>1
  <2>3. /\ emitted' \in Seq(Nat)
        /\ Head(emitted) = 0 => OnItsWay(h)'
        /\ Head(emitted) # 0 => Head(emitted) = h + 1 /\ OnItsWay(h + 1)'
    BY <1>1, <1>2, <2>1, <2>2, ShownHeard DEF ShownTo
  <2>4. CASE Head(emitted) = 0
    <3>1. pending' = pending /\ term' = term
      BY <2>1, <2>4
    <3>2. EndsAt(pending, h)' /\ EndsAt(term, h)'
      BY <1>2, <3>1 DEF ShownTo, EndsAt
    <3>3. ShownTo(h)'
      BY <1>2, <2>1, <2>3, <2>4, <3>1, <3>2 DEF ShownTo
    <3> QED
      BY <1>1, <2>1, <2>2, <2>3, <3>1, <3>3 DEF ShownInv
  <2>5. CASE Head(emitted) # 0
    <3>1. EndsAt(Append(pending, h + 1), h + 1) /\ EndsAt(Append(term, h + 1), h + 1) /\ EndsAt(<<>>, h + 1)
      BY <1>2, EndsOneOn, EndsEmpty DEF ShownTo
    <3>2. /\ EndsAt(pending', h + 1) /\ EndsAt(term', h + 1)
          /\ step = "adopted" => pending' = <<>>
          /\ step # "adopted" => term' = <<>>
          /\ step = "listed" => pending' = <<>>
          /\ step = "read" => pending' = Append(pending, h + 1)
      <4>1. CASE step = "adopted"
        <5>1. pending = <<>> /\ pending' = pending /\ term' = Append(term, h + 1)
          BY <1>2, <2>1, <2>3, <2>5, <4>1 DEF ShownTo
        <5> QED
          BY <3>1, <4>1, <5>1
      <4>2. CASE step = "listed"
        <5>1. pending = <<>> /\ pending' = pending /\ term' = term /\ term = <<>>
          BY <1>2, <2>1, <4>2 DEF ShownTo, Pane!Paned
        <5> QED
          BY <3>1, <4>2, <5>1
      <4>3. CASE step \notin {"adopted", "listed"}
        <5>1. Pane!Paned
          BY <1>1, <2>2, <4>3 DEF Pane!Paned
        <5>2. pending' = Append(pending, h + 1) /\ term' = term /\ term = <<>>
          BY <1>2, <2>1, <2>3, <2>5, <4>3, <5>1 DEF ShownTo
        <5> QED
          BY <3>1, <4>3, <5>2
      <4> QED
        BY <4>1, <4>2, <4>3
    <3>3. step = "read" => snap' <= out' /\ h + 1 <= snap' + Len(pending')
      <4> SUFFICES ASSUME step = "read" PROVE snap <= out /\ h + 1 <= snap + Len(pending')
        BY <2>1
      <4>1. Len(pending') = Len(pending) + 1 /\ Len(pending) \in Nat
        BY <1>1, <3>2, AppendProperties, LenProperties
      <4>2. snap <= out /\ h <= snap + Len(pending)
        BY <1>2 DEF ShownTo
      <4> QED
        BY <1>1, <4>1, <4>2
    <3>4. ShownTo(h + 1)'
      BY <2>1, <2>2, <2>3, <2>5, <3>2, <3>3 DEF ShownTo, EndsAt
    <3>5. pending' \in Seq(Nat) /\ term' \in Seq(Nat) /\ h + 1 \in Nat
      BY <3>2 DEF EndsAt
    <3> QED
      BY <1>1, <2>1, <2>2, <2>3, <3>4, <3>5 DEF ShownInv
  <2> QED
    BY <2>4, <2>5
<1>11. CASE UNCHANGED Pane!avars
  <2>1. UNCHANGED <<out, emitted, step, snap, pending, term>>
    BY <1>11 DEF Pane!avars
  <2>2. ShownTo(h)'
    BY <1>2, <2>1 DEF ShownTo, OnItsWay, EndsAt
  <2> QED
    BY <1>1, <2>1, <2>2 DEF ShownInv
<1> QED
  BY <1>3, <1>4, <1>5, <1>6, <1>7, <1>8, <1>9, <1>10, <1>11 DEF Pane!Next

(***************************************************************************)
(* An adopted terminal shows each chunk once and in order: for any output  *)
(* and any number of reloads, unless the answer reaches the window before  *)
(* a chunk it holds (adoptSession, main.ts's pty-output).                  *)
(***************************************************************************)
THEOREM EachChunkOnce == ASSUME ~ Overtaken PROVE Pane!Spec => []Pane!ShownOnce
<1>1. Pane!Init => ShownInv
  BY ShownInit
<1>2. ShownInv /\ [Pane!Next]_Pane!avars => ShownInv'
  BY ShownNext
<1>3. ShownInv => Pane!ShownOnce
  <2> SUFFICES ASSUME ShownInv, NEW i \in 2..Len(term) PROVE term[i] = term[i - 1] + 1
    BY DEF Pane!ShownOnce
  <2>1. PICK h \in Nat : EndsAt(term, h)
    BY DEF ShownInv, ShownTo
  <2>2. Len(term) \in Nat
    BY <2>1, LenProperties DEF EndsAt
  <2>3. i \in 1..Len(term) /\ i - 1 \in 1..Len(term)
    BY <2>2
  <2>4. term[i] + Len(term) = h + i /\ term[i - 1] + Len(term) = h + (i - 1) /\ term[i] \in Nat /\ term[i - 1] \in Nat
    BY <2>1, <2>3, ElementOfSeq DEF EndsAt
  <2> QED
    BY <2>2, <2>4
<1> QED
  BY <1>1, <1>2, <1>3, PTL DEF Pane!Spec

-----------------------------------------------------------------------------
(* Claude's memories (Memory).                                              *)

CONSTANTS Files, MemBudgets
VARIABLES memLeft, text, clock, mlog, file, memBook, conn, frame, pushes, memAcks, owed
Mem == INSTANCE Memory WITH now <- clock, book <- memBook, left <- memLeft, acks <- memAcks, Budgets <- MemBudgets

\* What the theorems assume: machines and files are finitely many, and machines are ordered.
Remembering == IsFiniteSet(Machines) /\ Machines \subseteq Nat /\ IsFiniteSet(Files)

StampsT == [at : Nat, dev : Machines \cup {0}]
HeldT == [text : Nat, at : Nat, dev : Machines \cup {0}]
TodoT == [key : Mem!Keys, h : HeldT]
MemoryT == [key : Mem!Keys, text : Nat, at : Nat, dev : Machines]
MemBookT == [seen : [Mem!Keys -> Nat], held : [Mem!Keys -> HeldT], stamp : [Mem!Keys -> StampsT],
          parked : SUBSET Mem!Keys, caught : BOOLEAN]
ConnT == [up : BOOLEAN, memory : BOOLEAN, pos : Nat, logCaught : BOOLEAN, caughtUp : BOOLEAN, replay : Nat, letGo : BOOLEAN]
FrameT == [stage : {"no", "write", "side", "scan"}, todo : Seq(TodoT), agreed : Nat, done : BOOLEAN,
           ok : {"", "yes", "kept", "error"}, found : {<<>>} \cup [Mem!Keys -> Nat], sync : BOOLEAN]
OwedT == [Mem!Keys -> Int]

\* A frame that writes has what to write, and one that has scanned what it found.
FrameOk(f) ==
    /\ f \in FrameT /\ (f.stage \in {"write", "side"} => f.todo # <<>>)
    /\ f.stage = "scan" /\ f.done => f.found \in [Mem!Keys -> Nat]

\* A log, or a push, has a text of a key, or there is none to have.
HasIn(q, k, t) == t = 0 \/ \E i \in DOMAIN q : q[i].key = k /\ q[i].text = t
Before(q, n) == \A i \in DOMAIN q : q[i].at < n
NotOlder(s, t) == t.at > s.at \/ (t.at = s.at /\ t.dev >= s.dev)
HadBy(m, e, stamps) == e.dev # m => ~ Mem!Newer(e, stamps[e.key])

\* What holds of a machine, its book, connection, frame, pushes, answers and what they owe, with the log and the clock.
Dated(b, ps, n) == (\A k \in Mem!Keys : b.stamp[k].at < n) /\ \A i \in DOMAIN ps : Before(ps[i], n)
Placed(b, c, q) ==
    /\ c.pos <= Len(q) /\ (c.replay <= Len(q) \/ c.replay <= 1)
    /\ c.replay > 0 => c.up /\ c.memory
    /\ c.up /\ ~ c.memory => ~ b.caught
HadAll(m, b, c, q) ==
    /\ b.caught => \A i \in 1..c.pos : HadBy(m, q[i], b.stamp)
    /\ c.replay > 0 /\ ~ c.letGo => \A i \in 1..(c.replay - 1) : HadBy(m, q[i], b.stamp)
BookLogged(b, q) == \A k \in Mem!Keys : HasIn(q, k, b.seen[k]) /\ HasIn(q, k, b.held[k].text)
FrameLogged(f, q) == f.stage = "write" => HasIn(q, Head(f.todo).key, f.agreed)
OwedLogged(c, ps, as, ow, q) ==
    /\ c.up => Len(ow) = Len(as) + Len(ps)
    /\ ~ c.up => ps = <<>> /\ as = <<>>
    /\ c.up => \A i \in DOMAIN ow, k \in Mem!Keys : ow[i][k] # -1 =>
          HasIn(IF i <= Len(as) THEN q ELSE ps[i - Len(as)], k, ow[i][k])
MemTyped(b, c, f, ps, as, ow) ==
    b \in MemBookT /\ c \in ConnT /\ FrameOk(f) /\ ps \in Seq(Seq(MemoryT)) /\ as \in Seq(Nat) /\ ow \in Seq(OwedT)

MachineWell(m, b, c, f, ps, as, ow, q, n) ==
    /\ MemTyped(b, c, f, ps, as, ow) /\ Dated(b, ps, n) /\ Placed(b, c, q) /\ HadAll(m, b, c, q)
    /\ BookLogged(b, q) /\ FrameLogged(f, q) /\ OwedLogged(c, ps, as, ow, q)
GlobalWell(q, n, f) == q \in Seq(MemoryT) /\ n \in Nat /\ n > 1 /\ Before(q, n) /\ f \in [Machines -> [Mem!Keys -> Nat]]
Domains ==
    /\ DOMAIN memBook = Machines /\ DOMAIN conn = Machines /\ DOMAIN frame = Machines
    /\ DOMAIN pushes = Machines /\ DOMAIN memAcks = Machines /\ DOMAIN owed = Machines
MemInv ==
    /\ GlobalWell(mlog, clock, file) /\ text \in Nat /\ Domains
    /\ \A m \in Machines : MachineWell(m, memBook[m], conn[m], frame[m], pushes[m], memAcks[m], owed[m], mlog, clock)

\* A log that grows keeps what it has.
LEMMA HasStill ==
    ASSUME NEW q \in Seq(MemoryT), NEW p \in Seq(MemoryT)
    PROVE  /\ q \o p \in Seq(MemoryT) /\ Len(q \o p) = Len(q) + Len(p) /\ \A i \in 1..Len(q) : (q \o p)[i] = q[i]
           /\ \A k, t : HasIn(q, k, t) \/ HasIn(p, k, t) => HasIn(q \o p, k, t)
<1>1. /\ q \o p \in Seq(MemoryT) /\ Len(q \o p) = Len(q) + Len(p)
      /\ \A i \in 1..(Len(q) + Len(p)) : (q \o p)[i] = IF i <= Len(q) THEN q[i] ELSE p[i - Len(q)]
  BY ConcatProperties
<1>2. DOMAIN q = 1..Len(q) /\ DOMAIN p = 1..Len(p) /\ DOMAIN (q \o p) = 1..(Len(q) + Len(p)) /\ Len(q) \in Nat /\ Len(p) \in Nat
  BY <1>1, LenProperties
<1>3. ASSUME NEW k, NEW t, HasIn(q, k, t)
      PROVE  HasIn(q \o p, k, t)
  <2>1. \A i \in DOMAIN q : i \in DOMAIN (q \o p) /\ (q \o p)[i] = q[i]
    BY <1>1, <1>2
  <2> QED
    BY <1>3, <2>1 DEF HasIn
<1>4. ASSUME NEW k, NEW t, HasIn(p, k, t)
      PROVE  HasIn(q \o p, k, t)
  <2>1. \A i \in DOMAIN p : Len(q) + i \in DOMAIN (q \o p) /\ (q \o p)[Len(q) + i] = p[i]
    BY <1>1, <1>2
  <2> QED
    BY <1>4, <2>1 DEF HasIn
<1> QED
  BY <1>1, <1>2, <1>3, <1>4

LEMMA BeforeBoth ==
    ASSUME NEW q \in Seq(MemoryT), NEW p \in Seq(MemoryT), NEW n, Before(q, n), Before(p, n)
    PROVE  Before(q \o p, n)
<1>1. /\ DOMAIN (q \o p) = 1..(Len(q) + Len(p))
      /\ \A i \in 1..(Len(q) + Len(p)) : (q \o p)[i] = IF i <= Len(q) THEN q[i] ELSE p[i - Len(q)]
  BY ConcatProperties, LenProperties
<1>2. DOMAIN q = 1..Len(q) /\ DOMAIN p = 1..Len(p) /\ Len(q) \in Nat /\ Len(p) \in Nat
  BY LenProperties
<1> QED
  BY <1>1, <1>2 DEF Before

\* What the log's growth and time do not disturb.
LEMMA WellStill ==
    ASSUME NEW m, NEW b, NEW c, NEW f, NEW ps, NEW as, NEW ow, NEW q \in Seq(MemoryT), NEW p \in Seq(MemoryT), NEW n \in Nat, NEW o \in Nat, n <= o,
           MachineWell(m, b, c, f, ps, as, ow, q, n)
    PROVE  MachineWell(m, b, c, f, ps, as, ow, q \o p, o)
<1> DEFINE r == q \o p
<1>1. /\ r \in Seq(MemoryT) /\ Len(r) = Len(q) + Len(p) /\ \A i \in 1..Len(q) : r[i] = q[i]
      /\ \A k, t : HasIn(q, k, t) => HasIn(r, k, t)
  BY HasStill
<1>2. Len(q) \in Nat /\ Len(p) \in Nat /\ Len(r) \in Nat
  BY <1>1, LenProperties
<1> HIDE DEF r
<1>3. Dated(b, ps, o)
  <2>1. \A k \in Mem!Keys : b.stamp[k].at \in Nat /\ b.stamp[k].at < n
    BY DEF MachineWell, MemTyped, MemBookT, StampsT, Dated
  <2>2. ASSUME NEW i \in DOMAIN ps, NEW j \in DOMAIN ps[i] PROVE ps[i][j].at < o
    <3>1. ps[i] \in Seq(MemoryT)
      BY ElementOfSeq DEF MachineWell, MemTyped
    <3>2. ps[i][j] \in MemoryT
      BY <3>1, ElementOfSeq
    <3>3. ps[i][j].at < n /\ ps[i][j].at \in Nat
      BY <3>2 DEF MachineWell, Dated, Before, MemoryT
    <3> QED
      BY <3>3
  <2> QED
    BY <2>1, <2>2 DEF Dated, Before
<1>4. c \in ConnT /\ c.pos \in Nat /\ c.replay \in Nat
  BY DEF MachineWell, MemTyped, ConnT
<1>5. Placed(b, c, r)
  BY <1>1, <1>2, <1>4 DEF MachineWell, Placed
<1>6. HadAll(m, b, c, r)
  <2>1. c.pos <= Len(q) /\ (c.replay <= Len(q) \/ c.replay <= 1)
    BY DEF MachineWell, Placed
  <2>2. \A i \in 1..c.pos : r[i] = q[i]
    BY <1>1, <1>2, <1>4, <2>1
  <2>3. \A i \in 1..(c.replay - 1) : r[i] = q[i]
    BY <1>1, <1>2, <1>4, <2>1
  <2> QED
    BY <2>2, <2>3 DEF MachineWell, HadAll
<1>7. BookLogged(b, r) /\ FrameLogged(f, r)
  BY <1>1 DEF MachineWell, BookLogged, FrameLogged
<1>8. OwedLogged(c, ps, as, ow, r)
  <2>1. ASSUME c.up, NEW i \in DOMAIN ow, NEW k \in Mem!Keys, ow[i][k] # -1
        PROVE  HasIn(IF i <= Len(as) THEN r ELSE ps[i - Len(as)], k, ow[i][k])
    <3>1. HasIn(IF i <= Len(as) THEN q ELSE ps[i - Len(as)], k, ow[i][k])
      BY <2>1 DEF MachineWell, OwedLogged
    <3> QED
      BY <1>1, <3>1
  <2> QED
    BY <2>1 DEF MachineWell, OwedLogged
<1> QED
  BY <1>3, <1>5, <1>6, <1>7, <1>8 DEF MachineWell, r

\* A machine's step: the others are as they were, the log has grown and time has not gone back.
Alone(m) ==
    /\ Domains'
    /\ \A o \in Machines \ {m} :
          /\ memBook'[o] = memBook[o] /\ conn'[o] = conn[o] /\ frame'[o] = frame[o]
          /\ pushes'[o] = pushes[o] /\ memAcks'[o] = memAcks[o] /\ owed'[o] = owed[o]

LEMMA MachineStep ==
    ASSUME MemInv, NEW m \in Machines, Alone(m), NEW p \in Seq(MemoryT), mlog' = mlog \o p, clock' \in Nat, clock <= clock',
           GlobalWell(mlog', clock', file'), text' \in Nat,
           MachineWell(m, memBook'[m], conn'[m], frame'[m], pushes'[m], memAcks'[m], owed'[m], mlog', clock')
    PROVE  MemInv'
<1>1. ASSUME NEW o \in Machines
      PROVE  MachineWell(o, memBook'[o], conn'[o], frame'[o], pushes'[o], memAcks'[o], owed'[o], mlog', clock')
  <2>1. CASE o = m
    BY <2>1
  <2>2. CASE o # m
    <3>1. /\ MachineWell(o, memBook[o], conn[o], frame[o], pushes[o], memAcks[o], owed[o], mlog, clock)
          /\ mlog \in Seq(MemoryT) /\ clock \in Nat
      BY DEF MemInv, GlobalWell
    <3>2. MachineWell(o, memBook[o], conn[o], frame[o], pushes[o], memAcks[o], owed[o], mlog \o p, clock')
      BY <3>1, WellStill
    <3> QED
      BY <2>2, <3>2 DEF Alone
  <2> QED
    BY <2>1, <2>2
<1> QED
  BY <1>1 DEF MemInv, Alone

\* The same, where the log and the clock stay.
LEMMA MemQuietStep ==
    ASSUME MemInv, NEW m \in Machines, Alone(m), UNCHANGED <<mlog, clock>>,
           file' \in [Machines -> [Mem!Keys -> Nat]], text' \in Nat,
           MachineWell(m, memBook'[m], conn'[m], frame'[m], pushes'[m], memAcks'[m], owed'[m], mlog, clock)
    PROVE  MemInv'
<1>1. <<>> \in Seq(MemoryT) /\ mlog \in Seq(MemoryT) /\ clock \in Nat /\ clock <= clock'
  BY DEF MemInv, GlobalWell
<1>2. mlog' = mlog \o <<>>
  BY <1>1, ConcatEmptySeq
<1>3. GlobalWell(mlog', clock', file')
  BY DEF MemInv, GlobalWell
<1> QED
  BY <1>1, <1>2, <1>3, MachineStep

\* What is known of a machine.
LEMMA Known ==
    ASSUME MemInv, NEW m \in Machines
    PROVE  MachineWell(m, memBook[m], conn[m], frame[m], pushes[m], memAcks[m], owed[m], mlog, clock)
BY DEF MemInv

\* A step of the frame, or of nothing a machine keeps.
LEMMA FrameStep ==
    ASSUME MemInv, NEW m \in Machines, NEW f, FrameOk(f), FrameLogged(f, mlog), frame' = [frame EXCEPT ![m] = f],
           UNCHANGED <<mlog, clock, memBook, conn, pushes, memAcks, owed>>,
           file' \in [Machines -> [Mem!Keys -> Nat]], text' \in Nat
    PROVE  MemInv'
<1>1. Alone(m)
  BY DEF MemInv, Domains, Alone
<1>2. frame'[m] = f
  BY DEF MemInv, Domains
<1>3. MachineWell(m, memBook[m], conn[m], f, pushes[m], memAcks[m], owed[m], mlog, clock)
  BY Known DEF MachineWell, MemTyped
<1>4. UNCHANGED <<mlog, clock>>
  OBVIOUS
<1> QED
  BY <1>1, <1>2, <1>3, <1>4, MemQuietStep

LEMMA FileStep ==
    ASSUME MemInv, UNCHANGED <<mlog, clock, memBook, conn, frame, pushes, memAcks, owed>>,
           file' \in [Machines -> [Mem!Keys -> Nat]], text' \in Nat
    PROVE  MemInv'
BY DEF MemInv, GlobalWell, Domains

-----------------------------------------------------------------------------
\* The first of what is to be written is an arrival.
LEMMA FirstTodo ==
    ASSUME NEW f, FrameOk(f), f.stage \in {"write", "side"}
    PROVE  Head(f.todo) \in TodoT /\ Head(f.todo).key \in Mem!Keys /\ Head(f.todo).h \in HeldT /\ Tail(f.todo) \in Seq(TodoT)
<1>1. f.todo \in Seq(TodoT) /\ f.todo # <<>>
  BY DEF FrameOk, FrameT
<1>2. Head(f.todo) \in TodoT /\ Tail(f.todo) \in Seq(TodoT)
  BY <1>1, HeadTailProperties
<1> QED
  BY <1>2 DEF TodoT

LEMMA WriteStep == ASSUME MemInv, NEW m \in Machines, Mem!Write(m) PROVE MemInv'
<1> DEFINE f == frame[m]
           k == Head(f.todo).key
           t == Head(f.todo).h.text
<1>1. f.stage = "write" /\ FrameOk(f) /\ FrameLogged(f, mlog)
  BY Known DEF Mem!Write, MachineWell, MemTyped
<1>2. k \in Mem!Keys /\ t \in Nat
  BY <1>1, FirstTodo DEF HeldT
<1>3. PICK ok \in {"yes", "kept", "error"} : frame' = [frame EXCEPT ![m] = [f EXCEPT !.done = TRUE, !.ok = ok]]
  BY DEF Mem!Write, MemInv, Domains
<1>4. file' \in [Machines -> [Mem!Keys -> Nat]]
  <2>1. file \in [Machines -> [Mem!Keys -> Nat]]
    BY DEF MemInv, GlobalWell
  <2>2. file' = file \/ \E c \in Nat : file' = [file EXCEPT ![m][k] = c]
    <3>1. CASE UNCHANGED file
      BY <3>1
    <3>2. CASE file' = [file EXCEPT ![m][k] = IF Mem!Fits(m, k, t, f.agreed) THEN t ELSE @]
      <4>1. (IF Mem!Fits(m, k, t, f.agreed) THEN t ELSE file[m][k]) \in Nat
        BY <1>2, <2>1
      <4> QED
        BY <2>1, <3>2, <4>1
    <3> QED
      BY <3>1, <3>2 DEF Mem!Write
  <2> HIDE DEF k
  <2> QED
    BY <1>2, <2>1, <2>2
<1>5. UNCHANGED <<mlog, clock, memBook, conn, pushes, memAcks, owed>> /\ text' \in Nat
  BY DEF Mem!Write, MemInv
<1> DEFINE g == [f EXCEPT !.done = TRUE, !.ok = ok]
<1>6. FrameOk(g) /\ FrameLogged(g, mlog)
  <2>1. f \in FrameT
    BY <1>1 DEF FrameOk
  <2>2. g \in FrameT /\ g.stage = f.stage /\ g.todo = f.todo /\ g.agreed = f.agreed
    BY <2>1 DEF FrameT
  <2> HIDE DEF g
  <2> QED
    BY <1>1, <2>2 DEF FrameOk, FrameLogged
<1> HIDE DEF g
<1> QED
  BY <1>3, <1>4, <1>5, <1>6, FrameStep DEF g

LEMMA FreeFrame == Mem!Free \in FrameT /\ Mem!Free.stage = "no" /\ \A q : FrameOk(Mem!Free) /\ FrameLogged(Mem!Free, q)
<1>1. <<>> \in Seq(TodoT)
  OBVIOUS
<1>2. Mem!Free \in FrameT /\ Mem!Free.stage = "no"
  BY <1>1 DEF Mem!Free, Mem!None, FrameT
<1> QED
  BY <1>2 DEF FrameOk, FrameLogged

LEMMA ScanStep == ASSUME MemInv, NEW m \in Machines, Mem!Scan(m) PROVE MemInv'
<1> DEFINE f == frame[m]
           g == [f EXCEPT !.done = TRUE, !.found = file[m]]
<1>1. f.stage = "scan" /\ FrameOk(f) /\ file[m] \in [Mem!Keys -> Nat]
  BY Known DEF Mem!Scan, MachineWell, MemTyped, MemInv, GlobalWell
<1>2. frame' = [frame EXCEPT ![m] = g]
  BY DEF Mem!Scan, MemInv, Domains
<1>3. g \in FrameT /\ g.stage = "scan" /\ g.found = file[m]
  <2>1. f \in FrameT
    BY <1>1 DEF FrameOk
  <2> QED
    BY <1>1, <2>1 DEF FrameT
<1>4. UNCHANGED <<mlog, clock, memBook, conn, pushes, memAcks, owed, file, text>> /\ text' \in Nat /\ file' \in [Machines -> [Mem!Keys -> Nat]]
  BY DEF Mem!Scan, MemInv, GlobalWell
<1> HIDE DEF g
<1>5. FrameOk(g) /\ FrameLogged(g, mlog)
  BY <1>1, <1>3 DEF FrameOk, FrameLogged
<1> QED
  BY <1>2, <1>4, <1>5, FrameStep

LEMMA WriteSideStep == ASSUME MemInv, NEW m \in Machines, Mem!WriteSide(m) PROVE MemInv'
<1> DEFINE f == frame[m]
           g == [f EXCEPT !.done = TRUE]
           side == <<Head(f.todo).key[1], Head(f.todo).h.dev>>
           t == Head(f.todo).h.text
<1>1. f.stage = "side" /\ FrameOk(f) /\ f \in FrameT
  BY Known DEF Mem!WriteSide, MachineWell, MemTyped, FrameOk
<1>2. t \in Nat
  BY <1>1, FirstTodo DEF HeldT
<1>3. frame' = [frame EXCEPT ![m] = g] /\ file' = [file EXCEPT ![m][side] = IF @ = 0 THEN t ELSE @]
  BY DEF Mem!WriteSide, Mem!None, MemInv, Domains
<1>4. g \in FrameT /\ g.stage = "side" /\ g.todo = f.todo
  BY <1>1 DEF FrameT
<1>5. UNCHANGED <<mlog, clock, memBook, conn, pushes, memAcks, owed>> /\ text' \in Nat
  BY DEF Mem!WriteSide, MemInv
<1> HIDE DEF g, side, t
<1>6. file' \in [Machines -> [Mem!Keys -> Nat]]
  <2>1. file \in [Machines -> [Mem!Keys -> Nat]]
    BY DEF MemInv, GlobalWell
  <2> QED
    BY <1>2, <1>3, <2>1
<1>7. FrameOk(g) /\ FrameLogged(g, mlog)
  BY <1>1, <1>4 DEF FrameOk, FrameLogged
<1> QED
  BY <1>3, <1>5, <1>6, <1>7, FrameStep

\* The next frame writes what arrived, scans or is free; what it takes to be agreed the log has had.
LEMMA LoopOk ==
    ASSUME NEW m, NEW b \in MemBookT, NEW q, BookLogged(b, q), NEW todo \in Seq(TodoT), NEW sync \in BOOLEAN
    PROVE  FrameOk(Mem!Loop(m, b, todo, sync)) /\ FrameLogged(Mem!Loop(m, b, todo, sync), q)
<1>1. CASE todo # <<>>
  <2> DEFINE a == Mem!Agreed(b, Head(todo).key, Head(todo).h)
             g == [Mem!Free EXCEPT !.stage = "write", !.todo = todo, !.sync = sync, !.agreed = a]
  <2>1. Mem!Loop(m, b, todo, sync) = g
    BY <1>1 DEF Mem!Loop
  <2>2. Head(todo) \in TodoT /\ Head(todo).key \in Mem!Keys
    <3>1. Head(todo) \in TodoT
      BY <1>1, HeadTailProperties
    <3> QED
      BY <3>1 DEF TodoT
  <2>3. a \in Nat /\ HasIn(q, Head(todo).key, a)
    <3>1. a = 0 \/ a = b.seen[Head(todo).key]
      BY DEF Mem!Agreed, Mem!None
    <3>2. CASE a = 0
      BY <3>2 DEF HasIn
    <3>3. CASE a = b.seen[Head(todo).key]
      BY <2>2, <3>3 DEF MemBookT, BookLogged
    <3> QED
      BY <3>1, <3>2, <3>3
  <2> HIDE DEF a
  <2>4. g \in FrameT /\ g.stage = "write" /\ g.todo = todo /\ g.agreed = a
    BY <2>3, FreeFrame DEF FrameT
  <2> HIDE DEF g
  <2> QED
    BY <1>1, <2>1, <2>3, <2>4 DEF FrameOk, FrameLogged
<1>2. CASE todo = <<>> /\ sync /\ m \in memLeft.cloned
  <2> DEFINE g == [Mem!Free EXCEPT !.stage = "scan"]
  <2>1. Mem!Loop(m, b, todo, sync) = g
    BY <1>2 DEF Mem!Loop
  <2>2. g \in FrameT /\ g.stage = "scan" /\ g.done = FALSE
    BY FreeFrame DEF FrameT, Mem!Free
  <2> HIDE DEF g
  <2> QED
    BY <2>1, <2>2 DEF FrameOk, FrameLogged
<1>3. CASE todo = <<>> /\ ~ (sync /\ m \in memLeft.cloned)
  BY <1>3, FreeFrame DEF Mem!Loop
<1> QED
  BY <1>1, <1>2, <1>3

LEMMA MemInOrder ==
    ASSUME NEW S, IsFiniteSet(S)
    PROVE  LET q == Mem!SetToSeq(S) IN q \in Seq(S) /\ \A y \in S : \E i \in DOMAIN q : q[i] = y
<1> DEFINE q == Mem!SetToSeq(S)
<1> DEFINE k == Cardinality(S)
<1>1. k \in Nat /\ ExistsBijection(1..k, S)
  BY FS_CardinalityType
<1>2. q \in Injection(1..k, S)
  <2>1. PICK g \in Bijection(1..k, S) : TRUE
    BY <1>1 DEF ExistsBijection
  <2>2. g \in [1..k -> S] /\ Mem!IsInjective(g)
    BY <2>1 DEF Bijection, Injection, IsInjective, Mem!IsInjective
  <2>3. Mem!Cardinality(S) = k
    BY DEF Mem!Cardinality, Cardinality
  <2>4. q = CHOOSE h \in [1..k -> S] : Mem!IsInjective(h)
    BY <2>3 DEF Mem!SetToSeq
  <2>5. q \in [1..k -> S] /\ Mem!IsInjective(q)
    BY <2>2, <2>4
  <2> QED
    BY <2>5 DEF Injection, IsInjective, Mem!IsInjective
<1> HIDE DEF q
<1>3. q \in Surjection(1..k, S)
  <2>1. \A n \in Nat : Cardinality(1..n) = n
    BY FS_Interval
  <2> QED
    BY <1>1, <1>2, <2>1, FS_Injection
<1> HIDE DEF k
<1>4. q \in [1..k -> S] /\ \A y \in S : \E i \in 1..k : q[i] = y
  BY <1>3 DEF Surjection
<1> QED
  BY <1>1, <1>4, SeqDef DEF q

LEMMA KeysFinite == ASSUME Remembering PROVE IsFiniteSet(Mem!Keys)
<1>1. IsFiniteSet(Machines \cup {0})
  BY FS_AddElement DEF Remembering
<1> QED
  BY <1>1, FS_Product DEF Remembering, Mem!Keys

LEMMA DrainOk ==
    ASSUME Remembering, NEW m \in Machines, NEW b \in MemBookT, NEW q, BookLogged(b, q), NEW sync \in BOOLEAN,
           FrameOk(frame[m]), FrameLogged(frame[m], q)
    PROVE  FrameOk(Mem!Drain(m, b, sync)) /\ FrameLogged(Mem!Drain(m, b, sync), q)
<1> DEFINE apply == IF m \in memLeft.cloned THEN {k \in Mem!Keys : b.held[k] # Mem!NotHeld /\ (k \notin b.parked \/ sync)} ELSE {}
           S == {[key |-> k, h |-> b.held[k]] : k \in apply}
           todo == Mem!SetToSeq(S)
<1>1. apply \subseteq Mem!Keys
  OBVIOUS
<1> HIDE DEF apply
<1>2. IsFiniteSet(apply)
  BY <1>1, KeysFinite, FS_Subset
<1>3. IsFiniteSet(S)
  <2> DEFINE g == [k \in apply |-> [key |-> k, h |-> b.held[k]]]
  <2>1. g \in Surjection(apply, S)
    BY DEF Surjection
  <2> HIDE DEF g, S
  <2> QED
    BY <1>2, <2>1, FS_Surjection
<1>4. S \subseteq TodoT
  BY <1>1 DEF TodoT, MemBookT
<1> HIDE DEF S
<1>5. todo \in Seq(TodoT)
  <2>1. todo \in Seq(S)
    BY <1>3, MemInOrder
  <2> QED
    BY <1>4, <2>1
<1>6. Mem!Drain(m, b, sync) = IF frame[m].stage = "no" THEN Mem!Loop(m, b, todo, sync) ELSE frame[m]
  BY DEF Mem!Drain, todo, S, apply
<1> HIDE DEF todo
<1> QED
  BY <1>5, <1>6, LoopOk

LEMMA SyncMemoryStep == ASSUME Remembering, MemInv, NEW m \in Machines, Mem!SyncMemory(m) PROVE MemInv'
<1>1. /\ frame' = [frame EXCEPT ![m] = Mem!Drain(m, memBook[m], TRUE)]
      /\ UNCHANGED <<text, clock, mlog, file, memBook, conn, pushes, memAcks, owed>>
  BY DEF Mem!SyncMemory
<1>2. FrameOk(Mem!Drain(m, memBook[m], TRUE)) /\ FrameLogged(Mem!Drain(m, memBook[m], TRUE), mlog)
  BY Known, DrainOk DEF MachineWell, MemTyped
<1>3. UNCHANGED <<mlog, clock, memBook, conn, pushes, memAcks, owed>> /\ text' \in Nat /\ file' \in [Machines -> [Mem!Keys -> Nat]]
  BY <1>1 DEF MemInv, GlobalWell
<1> QED
  BY <1>1, <1>2, <1>3, FrameStep

-----------------------------------------------------------------------------
\* A push that no longer speaks for a key.
LEMMA UnowedOk ==
    ASSUME MemInv, NEW m \in Machines, NEW k \in Mem!Keys
    PROVE  LET ow == Mem!Unowed(m, k) IN
           ow \in Seq(OwedT) /\ OwedLogged(conn[m], pushes[m], memAcks[m], ow, mlog)
<1> DEFINE ow == Mem!Unowed(m, k)
<1>1. owed[m] \in Seq(OwedT) /\ OwedLogged(conn[m], pushes[m], memAcks[m], owed[m], mlog)
  BY Known DEF MachineWell, MemTyped
<1>2. DOMAIN owed[m] = 1..Len(owed[m]) /\ Len(owed[m]) \in Nat /\ \A i \in DOMAIN owed[m] : owed[m][i] \in OwedT
  BY <1>1, LenProperties, ElementOfSeq
<1>3. DOMAIN ow = 1..Len(owed[m]) /\ \A i \in 1..Len(owed[m]) : ow[i] = [owed[m][i] EXCEPT ![k] = -1]
  BY <1>2 DEF Mem!Unowed, Mem!NotOwed
<1>4. ASSUME NEW i \in 1..Len(owed[m])
      PROVE  ow[i] \in OwedT /\ \A j \in Mem!Keys : ow[i][j] = IF j = k THEN -1 ELSE owed[m][i][j]
  <2>1. owed[m][i] \in [Mem!Keys -> Int]
    BY <1>2 DEF OwedT
  <2>2. ow[i] = [owed[m][i] EXCEPT ![k] = -1] /\ -1 \in Int
    BY <1>3
  <2> HIDE DEF ow
  <2> QED
    BY <2>1, <2>2 DEF OwedT
<1>5. ow \in [1..Len(owed[m]) -> OwedT]
  <2>1. ow = [i \in DOMAIN owed[m] |-> [owed[m][i] EXCEPT ![k] = Mem!NotOwed]]
    BY DEF Mem!Unowed
  <2> HIDE DEF ow
  <2> QED
    BY <1>2, <1>4, <2>1
<1> HIDE DEF ow
<1>6. ow \in Seq(OwedT) /\ Len(ow) = Len(owed[m])
  BY <1>2, <1>5, SeqDef, LenProperties
<1>7. OwedLogged(conn[m], pushes[m], memAcks[m], ow, mlog)
  BY <1>1, <1>2, <1>3, <1>4, <1>6 DEF OwedLogged
<1> QED
  BY <1>6, <1>7 DEF ow

\* A step of the book that leaves its stamps.
LEMMA BookStep ==
    ASSUME MemInv, NEW m \in Machines, NEW b \in MemBookT, b.stamp = memBook[m].stamp, b.caught = memBook[m].caught, BookLogged(b, mlog),
           NEW f, FrameOk(f), FrameLogged(f, mlog), NEW ow \in Seq(OwedT), OwedLogged(conn[m], pushes[m], memAcks[m], ow, mlog),
           memBook' = [memBook EXCEPT ![m] = b], frame' = [frame EXCEPT ![m] = f],
           owed'[m] = ow, DOMAIN owed' = Machines, \A o \in Machines \ {m} : owed'[o] = owed[o],
           UNCHANGED <<mlog, clock, file, text, conn, pushes, memAcks>>
    PROVE  MemInv'
<1>1. Alone(m)
  BY DEF MemInv, Domains, Alone
<1>2. frame'[m] = f /\ memBook'[m] = b /\ owed'[m] = ow /\ UNCHANGED <<mlog, clock>>
  BY DEF MemInv, Domains
<1>3. MachineWell(m, b, conn[m], f, pushes[m], memAcks[m], ow, mlog, clock)
  BY Known DEF MachineWell, MemTyped, Dated, Placed, HadAll
<1>4. file' \in [Machines -> [Mem!Keys -> Nat]] /\ text' \in Nat
  BY DEF MemInv, GlobalWell
<1> QED
  BY <1>1, <1>2, <1>3, <1>4, MemQuietStep

LEMMA OwedKept ==
    ASSUME MemInv, NEW m \in Machines
    PROVE  owed[m] \in Seq(OwedT) /\ OwedLogged(conn[m], pushes[m], memAcks[m], owed[m], mlog)
BY Known DEF MachineWell, MemTyped

\* What is done with an arrival leaves a book that the log accounts for.
Done(b, k) == [b EXCEPT !.held[k] = Mem!NotHeld, !.parked = @ \ {k}]
ParkedOf(b, k) == [b EXCEPT !.parked = @ \cup {k}]
Seen(b, k, t) == [b EXCEPT !.seen[k] = t]
GoodBook(c, b, q) == c \in MemBookT /\ BookLogged(c, q) /\ c.stamp = b.stamp /\ c.caught = b.caught

LEMMA IsDone ==
    ASSUME NEW b \in MemBookT, NEW q, BookLogged(b, q), NEW k \in Mem!Keys
    PROVE  GoodBook(Done(b, k), b, q)
<1> DEFINE c == Done(b, k)
<1>1. Mem!NotHeld \in HeldT /\ Mem!NotHeld.text = 0
  BY DEF Mem!NotHeld, Mem!None, HeldT
<1>2. c \in MemBookT /\ c.seen = b.seen /\ c.held = [b.held EXCEPT ![k] = Mem!NotHeld] /\ c.stamp = b.stamp /\ c.caught = b.caught
  BY <1>1 DEF MemBookT, Done
<1> HIDE DEF c
<1>3. \A j \in Mem!Keys : c.held[j] = IF j = k THEN Mem!NotHeld ELSE b.held[j]
  BY <1>2 DEF MemBookT
<1>4. HasIn(q, k, 0)
  BY DEF HasIn
<1>5. BookLogged(c, q)
  BY <1>1, <1>2, <1>3, <1>4 DEF BookLogged
<1> QED
  BY <1>2, <1>5 DEF GoodBook, c

LEMMA IsParked ==
    ASSUME NEW b \in MemBookT, NEW q, BookLogged(b, q), NEW k \in Mem!Keys
    PROVE  GoodBook(ParkedOf(b, k), b, q)
<1> DEFINE c == ParkedOf(b, k)
<1>1. c \in MemBookT /\ c.seen = b.seen /\ c.held = b.held /\ c.stamp = b.stamp /\ c.caught = b.caught
  BY DEF MemBookT, ParkedOf
<1> QED
  BY <1>1 DEF BookLogged, GoodBook

LEMMA IsSeen ==
    ASSUME NEW b \in MemBookT, NEW q, BookLogged(b, q), NEW k \in Mem!Keys, NEW t \in Nat, HasIn(q, k, t)
    PROVE  GoodBook(Seen(b, k, t), b, q)
<1> DEFINE c == Seen(b, k, t)
<1>1. c \in MemBookT /\ c.seen = [b.seen EXCEPT ![k] = t] /\ c.held = b.held /\ c.stamp = b.stamp /\ c.caught = b.caught
  BY DEF MemBookT, Seen
<1> HIDE DEF c
<1>2. \A j \in Mem!Keys : c.seen[j] = IF j = k THEN t ELSE b.seen[j]
  BY <1>1 DEF MemBookT
<1>3. BookLogged(c, q)
  BY <1>1, <1>2 DEF BookLogged
<1> QED
  BY <1>1, <1>3 DEF GoodBook, c

LEMMA OwedAfter ==
    ASSUME MemInv, NEW m \in Machines, NEW k \in Mem!Keys, UNCHANGED owed \/ owed' = [owed EXCEPT ![m] = Mem!Unowed(m, k)]
    PROVE  /\ owed'[m] \in Seq(OwedT) /\ OwedLogged(conn[m], pushes[m], memAcks[m], owed'[m], mlog)
           /\ DOMAIN owed' = Machines /\ \A o \in Machines \ {m} : owed'[o] = owed[o]
<1>1. CASE UNCHANGED owed
  BY <1>1, OwedKept DEF MemInv, Domains
<1>2. CASE owed' = [owed EXCEPT ![m] = Mem!Unowed(m, k)]
  <2>1. owed'[m] = Mem!Unowed(m, k) /\ DOMAIN owed' = Machines /\ \A o \in Machines \ {m} : owed'[o] = owed[o]
    BY <1>2 DEF MemInv, Domains
  <2> QED
    BY <2>1, UnowedOk
<1> QED
  BY <1>1, <1>2

\* The write of one arrival is over, and the next begins.
LEMMA GoesOn ==
    ASSUME Remembering, MemInv, NEW m \in Machines, NEW c, GoodBook(c, memBook[m], mlog), NEW todo \in Seq(TodoT), NEW sync \in BOOLEAN,
           memBook' = [memBook EXCEPT ![m] = c], frame' = [frame EXCEPT ![m] = Mem!Loop(m, c, todo, sync)],
           owed'[m] \in Seq(OwedT), OwedLogged(conn[m], pushes[m], memAcks[m], owed'[m], mlog),
           DOMAIN owed' = Machines, \A o \in Machines \ {m} : owed'[o] = owed[o],
           UNCHANGED <<mlog, clock, file, text, conn, pushes, memAcks>>
    PROVE  MemInv'
<1>1. c \in MemBookT /\ BookLogged(c, mlog) /\ c.stamp = memBook[m].stamp /\ c.caught = memBook[m].caught
  BY DEF GoodBook
<1>2. PICK g : FrameOk(g) /\ FrameLogged(g, mlog) /\ frame' = [frame EXCEPT ![m] = g]
  BY <1>1, LoopOk
<1>3. memBook' = [memBook EXCEPT ![m] = c] /\ UNCHANGED <<mlog, clock, file, text, conn, pushes, memAcks>>
  OBVIOUS
<1>4. PICK ow \in Seq(OwedT) : owed'[m] = ow /\ OwedLogged(conn[m], pushes[m], memAcks[m], ow, mlog)
  OBVIOUS
<1> QED
  BY <1>1, <1>2, <1>3, <1>4, BookStep

LEMMA WrittenStep == ASSUME Remembering, MemInv, NEW m \in Machines, Mem!Written(m) PROVE MemInv'
<1> DEFINE f == frame[m]
           b == memBook[m]
           k == Head(f.todo).key
           h == Head(f.todo).h
           todo == Tail(f.todo)
           sync == f.sync
           side == [f EXCEPT !.stage = "side", !.done = FALSE]
           Goes(c) == memBook' = [memBook EXCEPT ![m] = c] /\ frame' = [frame EXCEPT ![m] = Mem!Loop(m, c, todo, sync)]
<1>1. f.stage = "write" /\ FrameOk(f) /\ f \in FrameT /\ b \in MemBookT /\ BookLogged(b, mlog)
  BY Known DEF Mem!Written, MachineWell, MemTyped, FrameOk
<1>2. k \in Mem!Keys /\ h \in HeldT /\ todo \in Seq(TodoT) /\ sync \in BOOLEAN /\ h.text \in Nat
  BY <1>1, FirstTodo DEF HeldT, FrameT
<1>3. UNCHANGED <<mlog, clock, file, text, conn, pushes, memAcks>>
  BY DEF Mem!Written
<1>4. \/ Goes(b) /\ UNCHANGED owed
      \/ Goes(ParkedOf(b, k)) /\ UNCHANGED owed
      \/ b.held[k] = h /\ Goes(Seen(Done(b, k), k, h.text)) /\ UNCHANGED owed
      \/ memBook' = [memBook EXCEPT ![m] = Done(b, k)] /\ frame' = [frame EXCEPT ![m] = side] /\ UNCHANGED owed
      \/ Goes(Done(b, k)) /\ owed' = [owed EXCEPT ![m] = Mem!Unowed(m, k)]
  BY DEF Mem!Written, MemInv, Domains, Done, ParkedOf, Seen
<1>5. /\ owed'[m] \in Seq(OwedT) /\ OwedLogged(conn[m], pushes[m], memAcks[m], owed'[m], mlog)
      /\ DOMAIN owed' = Machines /\ \A o \in Machines \ {m} : owed'[o] = owed[o]
  <2>1. UNCHANGED owed \/ owed' = [owed EXCEPT ![m] = Mem!Unowed(m, k)]
    BY <1>4
  <2> QED
    BY <1>2, <2>1, OwedAfter
<1>6. /\ GoodBook(b, b, mlog) /\ GoodBook(Done(b, k), b, mlog) /\ GoodBook(ParkedOf(b, k), b, mlog)
      /\ b.held[k] = h => GoodBook(Seen(Done(b, k), k, h.text), b, mlog)
  <2>1. GoodBook(b, b, mlog)
    BY <1>1 DEF GoodBook
  <2>2. GoodBook(Done(b, k), b, mlog) /\ GoodBook(ParkedOf(b, k), b, mlog)
    BY <1>1, <1>2, IsDone, IsParked
  <2>3. ASSUME b.held[k] = h PROVE GoodBook(Seen(Done(b, k), k, h.text), b, mlog)
    <3>1. HasIn(mlog, k, h.text)
      BY <1>1, <1>2, <2>3 DEF BookLogged
    <3>2. GoodBook(Seen(Done(b, k), k, h.text), Done(b, k), mlog)
      BY <1>2, <2>2, <3>1, IsSeen DEF GoodBook
    <3> QED
      BY <2>2, <3>2 DEF GoodBook
  <2> QED
    BY <2>1, <2>2, <2>3
<1> HIDE DEF f, k, h, todo, sync
<1>7. ASSUME NEW c, GoodBook(c, b, mlog), Goes(c)
      PROVE  MemInv'
  BY <1>2, <1>3, <1>5, <1>7, GoesOn
<1>8. CASE memBook' = [memBook EXCEPT ![m] = Done(b, k)] /\ frame' = [frame EXCEPT ![m] = side] /\ UNCHANGED owed
  <2>1. side \in FrameT /\ side.stage = "side" /\ side.todo = f.todo
    BY <1>1 DEF FrameT
  <2> HIDE DEF side
  <2>2. FrameOk(side) /\ FrameLogged(side, mlog)
    BY <1>1, <2>1 DEF FrameOk, FrameLogged
  <2> DEFINE ow == owed[m]
             c == Done(b, k)
  <2>3. /\ ow \in Seq(OwedT) /\ OwedLogged(conn[m], pushes[m], memAcks[m], ow, mlog) /\ owed'[m] = ow
        /\ DOMAIN owed' = Machines /\ \A o \in Machines \ {m} : owed'[o] = owed[o]
    BY <1>8, OwedKept DEF MemInv, Domains
  <2>4. c \in MemBookT /\ BookLogged(c, mlog) /\ c.stamp = memBook[m].stamp /\ c.caught = memBook[m].caught
    BY <1>6 DEF GoodBook
  <2>5. memBook' = [memBook EXCEPT ![m] = c]
    BY <1>8
  <2> HIDE DEF ow, c
  <2> QED
    BY <1>3, <1>8, <2>2, <2>3, <2>4, <2>5, BookStep
<1> QED
  BY <1>4, <1>6, <1>7, <1>8

LEMMA TextsOf ==
    ASSUME NEW q \in Seq(MemoryT), NEW k, NEW t, HasIn(q, k, t)
    PROVE  t \in Nat
<1>1. \A i \in DOMAIN q : q[i] \in MemoryT
  BY ElementOfSeq, LenProperties
<1> QED
  BY <1>1 DEF HasIn, MemoryT

LEMMA KeptBothStep == ASSUME Remembering, MemInv, NEW m \in Machines, Mem!KeptBoth(m) PROVE MemInv'
<1> DEFINE f == frame[m]
           k == Head(f.todo).key
           todo == Tail(f.todo)
           sync == f.sync
           c == Seen(memBook[m], k, 0)
<1>1. f.stage = "side" /\ FrameOk(f) /\ f \in FrameT /\ memBook[m] \in MemBookT /\ BookLogged(memBook[m], mlog)
  BY Known DEF Mem!KeptBoth, MachineWell, MemTyped, FrameOk
<1>2. k \in Mem!Keys /\ todo \in Seq(TodoT) /\ sync \in BOOLEAN
  BY <1>1, FirstTodo DEF FrameT
<1>3. /\ UNCHANGED <<mlog, clock, file, text, conn, pushes, memAcks>> /\ owed' = [owed EXCEPT ![m] = Mem!Unowed(m, k)]
      /\ memBook' = [memBook EXCEPT ![m] = c] /\ frame' = [frame EXCEPT ![m] = Mem!Loop(m, c, todo, sync)]
  BY DEF Mem!KeptBoth, Mem!None, Seen, MemInv, Domains
<1>4. HasIn(mlog, k, 0)
  BY DEF HasIn
<1> HIDE DEF k
<1>5. GoodBook(c, memBook[m], mlog)
  BY <1>1, <1>2, <1>4, IsSeen
<1>6. /\ owed'[m] \in Seq(OwedT) /\ OwedLogged(conn[m], pushes[m], memAcks[m], owed'[m], mlog)
      /\ DOMAIN owed' = Machines /\ \A o \in Machines \ {m} : owed'[o] = owed[o]
  BY <1>2, <1>3, OwedAfter
<1>7. UNCHANGED <<mlog, clock, file, text, conn, pushes, memAcks>>
  BY <1>3
<1>8. memBook' = [memBook EXCEPT ![m] = c] /\ frame' = [frame EXCEPT ![m] = Mem!Loop(m, c, todo, sync)]
  BY <1>3
<1> HIDE DEF f, todo, sync, c
<1> QED
  BY <1>2, <1>5, <1>6, <1>7, <1>8, GoesOn

\* An answer to a push: what it owed is seen.
LEMMA MemPushedStep == ASSUME MemInv, NEW m \in Machines, Mem!MemPushed(m) PROVE MemInv'
<1> DEFINE b == memBook[m]
           ow == owed[m]
           as == memAcks[m]
           h == Head(ow)
           s == [k \in Mem!Keys |-> IF h[k] = -1 THEN b.seen[k] ELSE h[k]]
           c == [b EXCEPT !.seen = s]
<1>1. /\ conn[m].up /\ as # <<>> /\ ow # <<>> /\ as \in Seq(Nat) /\ ow \in Seq(OwedT) /\ b \in MemBookT /\ BookLogged(b, mlog)
      /\ pushes[m] \in Seq(Seq(MemoryT)) /\ OwedLogged(conn[m], pushes[m], as, ow, mlog)
  BY Known DEF Mem!MemPushed, MachineWell, MemTyped
<1>2. /\ memAcks' = [memAcks EXCEPT ![m] = Tail(as)] /\ owed' = [owed EXCEPT ![m] = Tail(ow)] /\ memBook' = [memBook EXCEPT ![m] = c]
      /\ UNCHANGED <<mlog, clock, file, text, conn, frame, pushes>>
  BY DEF Mem!MemPushed, Mem!NotOwed, MemInv, Domains
<1>3. /\ Tail(as) \in Seq(Nat) /\ Len(as) > 0 /\ Len(Tail(as)) = Len(as) - 1 /\ Len(as) \in Nat
      /\ Tail(ow) \in Seq(OwedT) /\ Len(ow) > 0 /\ Len(Tail(ow)) = Len(ow) - 1 /\ Len(ow) \in Nat
      /\ DOMAIN Tail(ow) = 1..(Len(ow) - 1) /\ \A i \in 1..(Len(ow) - 1) : Tail(ow)[i] = ow[i + 1]
      /\ h = ow[1] /\ h \in OwedT /\ DOMAIN ow = 1..Len(ow)
  <2>1. Tail(as) \in Seq(Nat) /\ Len(as) > 0 /\ Len(Tail(as)) = Len(as) - 1 /\ Len(as) \in Nat
    BY <1>1, HeadTailProperties, EmptySeq, LenProperties
  <2>2. Tail(ow) \in Seq(OwedT) /\ Len(ow) > 0 /\ Len(Tail(ow)) = Len(ow) - 1 /\ Len(ow) \in Nat /\ h \in OwedT
    BY <1>1, HeadTailProperties, EmptySeq, LenProperties
  <2>3. DOMAIN Tail(ow) = 1..(Len(ow) - 1) /\ \A i \in 1..(Len(ow) - 1) : Tail(ow)[i] = ow[i + 1]
    BY <1>1, <2>2
  <2> QED
    BY <1>1, <2>1, <2>2, <2>3, LenProperties
<1>4. ASSUME NEW k \in Mem!Keys, h[k] # -1
      PROVE  HasIn(mlog, k, h[k]) /\ h[k] \in Nat
  <2>1. 1 \in DOMAIN ow /\ ow[1][k] # -1
    BY <1>3, <1>4
  <2>2. HasIn(IF 1 <= Len(as) THEN mlog ELSE pushes[m][1 - Len(as)], k, ow[1][k])
    BY <1>1, <2>1 DEF OwedLogged
  <2>3. (IF 1 <= Len(as) THEN mlog ELSE pushes[m][1 - Len(as)]) = mlog
    BY <1>3
  <2>4. HasIn(mlog, k, h[k])
    BY <1>3, <2>2, <2>3
  <2> QED
    BY <2>4, TextsOf DEF MemInv, GlobalWell
<1>5. s \in [Mem!Keys -> Nat] /\ \A k \in Mem!Keys : HasIn(mlog, k, s[k])
  <2>1. \A k \in Mem!Keys : b.seen[k] \in Nat /\ HasIn(mlog, k, b.seen[k])
    BY <1>1 DEF MemBookT, BookLogged
  <2> QED
    BY <1>4, <2>1
<1> HIDE DEF s
<1>6. c \in MemBookT /\ c.seen = s /\ c.held = b.held /\ c.stamp = b.stamp /\ c.caught = b.caught
  BY <1>1, <1>5 DEF MemBookT
<1> HIDE DEF c
<1>7. BookLogged(c, mlog)
  BY <1>1, <1>5, <1>6 DEF BookLogged
<1>8. OwedLogged(conn[m], pushes[m], Tail(as), Tail(ow), mlog)
  <2>1. Len(Tail(ow)) = Len(Tail(as)) + Len(pushes[m])
    <3>1. Len(ow) = Len(as) + Len(pushes[m]) /\ Len(pushes[m]) \in Nat
      BY <1>1, LenProperties DEF OwedLogged
    <3>2. PICK x \in Nat, y \in Nat, z \in Nat : /\ Len(as) = x + 1 /\ Len(Tail(as)) = x
                                               /\ Len(ow) = y + 1 /\ Len(Tail(ow)) = y /\ Len(pushes[m]) = z
      <4>1. Len(as) - 1 \in Nat /\ Len(as) = (Len(as) - 1) + 1 /\ Len(ow) - 1 \in Nat /\ Len(ow) = (Len(ow) - 1) + 1
        BY <1>3
      <4> QED
        BY <1>3, <3>1, <4>1
    <3>3. y = x + z
      BY <3>1, <3>2
    <3> QED
      BY <3>2, <3>3
  <2>2. ASSUME NEW i \in DOMAIN Tail(ow), NEW k \in Mem!Keys, Tail(ow)[i][k] # -1
        PROVE  HasIn(IF i <= Len(Tail(as)) THEN mlog ELSE pushes[m][i - Len(Tail(as))], k, Tail(ow)[i][k])
    <3>1. i + 1 \in DOMAIN ow /\ Tail(ow)[i] = ow[i + 1] /\ i \in Nat
      BY <1>3
    <3>2. ow[i + 1][k] # -1
      BY <2>2, <3>1
    <3>3. HasIn(IF i + 1 <= Len(as) THEN mlog ELSE pushes[m][(i + 1) - Len(as)], k, ow[i + 1][k])
      BY <1>1, <3>1, <3>2 DEF OwedLogged
    <3>4. PICK x \in Nat : Len(as) = x + 1 /\ Len(Tail(as)) = x
      <4>1. Len(as) - 1 \in Nat /\ Len(as) = (Len(as) - 1) + 1
        BY <1>3
      <4> QED
        BY <1>3, <4>1
    <3>5. (i + 1 <= x + 1 <=> i <= x) /\ (i + 1) - (x + 1) = i - x
      BY <3>1
    <3> QED
      BY <3>1, <3>3, <3>4, <3>5
  <2> QED
    BY <1>1, <2>1, <2>2 DEF OwedLogged
<1> DEFINE as2 == Tail(as)
           ow2 == Tail(ow)
<1>9. MachineWell(m, c, conn[m], frame[m], pushes[m], as2, ow2, mlog, clock)
  BY <1>3, <1>6, <1>7, <1>8, Known DEF MachineWell, MemTyped, Dated, Placed, HadAll
<1>10. memAcks'[m] = as2 /\ owed'[m] = ow2 /\ memBook'[m] = c /\ Alone(m) /\ UNCHANGED <<mlog, clock, conn, frame, pushes>>
  BY <1>2 DEF MemInv, Domains, Alone
<1>11. file' \in [Machines -> [Mem!Keys -> Nat]] /\ text' \in Nat
  BY <1>2 DEF MemInv, GlobalWell
<1> HIDE DEF as2, ow2
<1> QED
  BY <1>9, <1>10, <1>11, MemQuietStep

-----------------------------------------------------------------------------
LEMMA MemLostStep == ASSUME MemInv, NEW m \in Machines, Mem!Lost(m) PROVE MemInv'
<1> DEFINE c == conn[m]
           d == Mem!Offline(c.pos, c.letGo)
<1>1. /\ conn' = [conn EXCEPT ![m] = d] /\ pushes' = [pushes EXCEPT ![m] = <<>>] /\ memAcks' = [memAcks EXCEPT ![m] = <<>>]
      /\ UNCHANGED <<text, clock, mlog, file, memBook, frame, owed>>
  BY DEF Mem!Lost, MemInv, Domains
<1>2. c \in ConnT
  BY Known DEF MachineWell, MemTyped
<1>3. d \in ConnT /\ ~ d.up /\ d.replay = 0 /\ d.pos = c.pos
  BY <1>2 DEF ConnT, Mem!Offline
<1> HIDE DEF d
<1>4. MachineWell(m, memBook[m], d, frame[m], <<>>, <<>>, owed[m], mlog, clock)
  <2>1. MachineWell(m, memBook[m], c, frame[m], pushes[m], memAcks[m], owed[m], mlog, clock)
    BY Known
  <2>2. MemTyped(memBook[m], d, frame[m], <<>>, <<>>, owed[m])
    BY <1>3, <2>1 DEF MachineWell, MemTyped
  <2>3. Dated(memBook[m], <<>>, clock)
    BY <2>1 DEF MachineWell, Dated
  <2>4. Placed(memBook[m], d, mlog) /\ HadAll(m, memBook[m], d, mlog)
    <3>1. Len(mlog) \in Nat
      BY LenProperties DEF MemInv, GlobalWell
    <3> QED
      BY <1>3, <2>1, <3>1 DEF MachineWell, Placed, HadAll
  <2>5. OwedLogged(d, <<>>, <<>>, owed[m], mlog)
    BY <1>3 DEF OwedLogged
  <2> QED
    BY <2>1, <2>2, <2>3, <2>4, <2>5 DEF MachineWell
<1>5. Alone(m) /\ conn'[m] = d /\ pushes'[m] = <<>> /\ memAcks'[m] = <<>> /\ UNCHANGED <<mlog, clock, memBook, frame, owed>>
  BY <1>1 DEF MemInv, Domains, Alone
<1>6. file' \in [Machines -> [Mem!Keys -> Nat]] /\ text' \in Nat
  BY <1>1 DEF MemInv, GlobalWell
<1> QED
  BY <1>4, <1>5, <1>6, MemQuietStep

LEMMA MemWelcomeStep == ASSUME MemInv, NEW m \in Machines, NEW memory \in BOOLEAN, Mem!Welcome(m, memory) PROVE MemInv'
<1> DEFINE c == conn[m]
           b == memBook[m]
           d == [Mem!Offline(c.pos, c.letGo) EXCEPT !.up = TRUE, !.memory = memory, !.replay = IF memory /\ ~ b.caught THEN 1 ELSE 0]
           e == [b EXCEPT !.caught = @ /\ memory]
<1>1. /\ conn' = [conn EXCEPT ![m] = d] /\ memBook' = [memBook EXCEPT ![m] = e] /\ owed' = [owed EXCEPT ![m] = <<>>]
      /\ UNCHANGED <<text, clock, mlog, file, frame, pushes, memAcks>> /\ ~ c.up
  BY DEF Mem!Welcome, MemInv, Domains
<1>2. c \in ConnT /\ b \in MemBookT /\ MachineWell(m, b, c, frame[m], pushes[m], memAcks[m], owed[m], mlog, clock)
  BY Known DEF MachineWell, MemTyped
<1>3. d \in ConnT /\ d.up /\ d.memory = memory /\ d.replay \in {0, 1} /\ (d.replay > 0 => memory) /\ d.pos = c.pos
  <2> DEFINE o == Mem!Offline(c.pos, c.letGo)
             r == IF memory /\ ~ b.caught THEN 1 ELSE 0
  <2>1. o \in ConnT /\ o.pos = c.pos
    BY <1>2 DEF ConnT, Mem!Offline
  <2>2. r \in {0, 1} /\ (r > 0 => memory)
    OBVIOUS
  <2> HIDE DEF o, r
  <2>3. d = [o EXCEPT !.up = TRUE, !.memory = memory, !.replay = r]
    BY DEF o, r
  <2>4. r \in Nat
    BY <2>2
  <2>5. d \in ConnT /\ d.up = TRUE /\ d.memory = memory /\ d.replay = r /\ d.pos = o.pos
    BY <2>1, <2>3, <2>4 DEF ConnT
  <2> HIDE DEF d
  <2> QED
    BY <2>1, <2>2, <2>5
<1>4. e \in MemBookT /\ e.seen = b.seen /\ e.held = b.held /\ e.stamp = b.stamp /\ (e.caught <=> b.caught /\ memory)
  BY <1>2 DEF MemBookT
<1>5. pushes[m] = <<>> /\ memAcks[m] = <<>>
  BY <1>1, <1>2 DEF MachineWell, OwedLogged
<1> HIDE DEF d, e, b, c
<1>6. MachineWell(m, e, d, frame[m], <<>>, <<>>, <<>>, mlog, clock)
  <2>1. MemTyped(e, d, frame[m], <<>>, <<>>, <<>>)
    BY <1>2, <1>3, <1>4 DEF MachineWell, MemTyped
  <2>2. Dated(e, <<>>, clock)
    BY <1>2, <1>4 DEF MachineWell, Dated
  <2>3. Len(mlog) \in Nat /\ c.pos <= Len(mlog)
    BY <1>2, LenProperties DEF MemInv, GlobalWell, MachineWell, Placed
  <2>4. Placed(e, d, mlog)
    BY <1>3, <1>4, <2>3 DEF Placed
  <2>5. HadAll(m, e, d, mlog)
    BY <1>2, <1>3, <1>4 DEF MachineWell, HadAll
  <2>6. OwedLogged(d, <<>>, <<>>, <<>>, mlog)
    BY DEF OwedLogged
  <2>7. BookLogged(e, mlog) /\ FrameLogged(frame[m], mlog)
    BY <1>2, <1>4 DEF MachineWell, BookLogged
  <2> QED
    BY <2>1, <2>2, <2>4, <2>5, <2>6, <2>7 DEF MachineWell
<1>7. Alone(m) /\ conn'[m] = d /\ memBook'[m] = e /\ owed'[m] = <<>> /\ pushes'[m] = <<>> /\ memAcks'[m] = <<>> /\ UNCHANGED <<mlog, clock, frame>>
  BY <1>1, <1>5 DEF MemInv, Domains, Alone
<1>8. file' \in [Machines -> [Mem!Keys -> Nat]] /\ text' \in Nat
  BY <1>1 DEF MemInv, GlobalWell
<1> QED
  BY <1>6, <1>7, <1>8, MemQuietStep

\* The server takes the first push: what it owed, the log has.
LEMMA TakeStep == ASSUME MemInv, NEW m \in Machines, Mem!Take(m) PROVE MemInv'
<1> DEFINE c == conn[m]
           b == memBook[m]
           ps == pushes[m]
           as == memAcks[m]
           ow == owed[m]
           p == Head(ps)
           ps2 == Tail(ps)
           as2 == Append(as, Len(mlog))
           q == mlog \o p
<1>1. /\ c.up /\ ps # <<>> /\ mlog' = q /\ pushes' = [pushes EXCEPT ![m] = ps2] /\ memAcks' = [memAcks EXCEPT ![m] = as2]
      /\ UNCHANGED <<text, clock, file, memBook, conn, frame, owed>>
  BY DEF Mem!Take, MemInv, Domains
<1>2. /\ MachineWell(m, b, c, frame[m], ps, as, ow, mlog, clock) /\ ps \in Seq(Seq(MemoryT)) /\ as \in Seq(Nat) /\ ow \in Seq(OwedT)
      /\ OwedLogged(c, ps, as, ow, mlog)
  BY Known DEF MachineWell, MemTyped
<1>3. mlog \in Seq(MemoryT) /\ clock \in Nat /\ Before(mlog, clock) /\ Len(mlog) \in Nat
  BY LenProperties DEF MemInv, GlobalWell
<1> HIDE DEF b, c, ps, as, ow
<1>4. /\ p \in Seq(MemoryT) /\ ps2 \in Seq(Seq(MemoryT)) /\ p = ps[1] /\ 1 \in DOMAIN ps
      /\ \E z \in Nat : Len(ps) = z + 1 /\ Len(ps2) = z /\ DOMAIN ps2 = 1..z /\ \A i \in 1..z : ps2[i] = ps[i + 1] /\ i + 1 \in DOMAIN ps
  <2>1. p \in Seq(MemoryT) /\ ps2 \in Seq(Seq(MemoryT)) /\ Len(ps) > 0 /\ Len(ps2) = Len(ps) - 1 /\ Len(ps) \in Nat
    BY <1>1, <1>2, HeadTailProperties, EmptySeq, LenProperties
  <2>2. DOMAIN ps2 = 1..(Len(ps) - 1) /\ \A i \in 1..(Len(ps) - 1) : ps2[i] = ps[i + 1]
    BY <1>2, <2>1
  <2>3. p = ps[1] /\ DOMAIN ps = 1..Len(ps)
    BY <1>2, <2>1, LenProperties
  <2> DEFINE z == Len(ps) - 1
  <2>4. z \in Nat /\ Len(ps) = z + 1 /\ Len(ps2) = z /\ DOMAIN ps2 = 1..z /\ \A i \in 1..z : ps2[i] = ps[i + 1] /\ i + 1 \in DOMAIN ps
    BY <2>1, <2>2, <2>3
  <2>5. 1 \in DOMAIN ps
    BY <2>1, <2>3
  <2> HIDE DEF z
  <2> QED
    BY <2>1, <2>3, <2>4, <2>5
<1>5. as2 \in Seq(Nat) /\ Len(as2) = Len(as) + 1 /\ Len(as) \in Nat
  BY <1>2, <1>3, AppendProperties, LenProperties
<1> HIDE DEF as2, ps2, p
<1>6. /\ q \in Seq(MemoryT) /\ Len(q) = Len(mlog) + Len(p)
      /\ \A k, t : HasIn(mlog, k, t) \/ HasIn(p, k, t) => HasIn(q, k, t)
  BY <1>3, <1>4, HasStill
<1>7. Before(q, clock)
  <2>1. Before(p, clock)
    BY <1>2, <1>4 DEF MachineWell, Dated
  <2> QED
    BY <1>3, <1>4, <2>1, BeforeBoth
<1>8. MachineWell(m, b, c, frame[m], ps, as, ow, q, clock)
  <2>1. clock <= clock
    BY <1>3
  <2> QED
    BY <1>2, <1>3, <1>4, <2>1, WellStill
<1> HIDE DEF q
<1>9. MachineWell(m, b, c, frame[m], ps2, as2, ow, q, clock)
  <2>1. PICK z \in Nat : Len(ps) = z + 1 /\ Len(ps2) = z /\ DOMAIN ps2 = 1..z /\ \A i \in 1..z : ps2[i] = ps[i + 1] /\ i + 1 \in DOMAIN ps
    BY <1>4
  <2>2. Dated(b, ps2, clock)
    BY <1>8, <2>1 DEF MachineWell, Dated
  <2>3. PICK x \in Nat : Len(as) = x /\ Len(as2) = x + 1
    BY <1>5
  <2>4. Len(ow) = x + (z + 1) /\ DOMAIN ow = 1..(x + (z + 1))
    BY <1>1, <1>2, <2>1, <2>3, LenProperties DEF OwedLogged
  <2>5. ASSUME NEW i \in 1..(x + (z + 1)), NEW k \in Mem!Keys, ow[i][k] # -1
        PROVE  HasIn(IF i <= x + 1 THEN q ELSE ps2[i - (x + 1)], k, ow[i][k])
    <3>0. HasIn(IF i <= x THEN mlog ELSE ps[i - x], k, ow[i][k])
      BY <1>1, <1>2, <2>3, <2>4, <2>5 DEF OwedLogged
    <3>1. CASE i <= x
      <4>1. i <= x + 1
        BY <3>1
      <4> QED
        BY <1>6, <3>0, <3>1, <4>1
    <3>2. CASE i = x + 1
      <4>1. i <= x + 1 /\ ~ i <= x /\ i - x = 1
        BY <3>2
      <4> QED
        BY <1>4, <1>6, <3>0, <4>1
    <3>3. CASE i > x + 1
      <4>1. ~ i <= x + 1 /\ ~ i <= x /\ i - (x + 1) \in 1..z /\ i - x = (i - (x + 1)) + 1
        BY <3>3
      <4> QED
        BY <2>1, <3>0, <4>1
    <3> QED
      BY <3>1, <3>2, <3>3
  <2>6. OwedLogged(c, ps2, as2, ow, q)
    <3>1. x + (z + 1) = (x + 1) + z
      OBVIOUS
    <3> QED
      BY <1>1, <2>1, <2>3, <2>4, <2>5, <3>1 DEF OwedLogged
  <2> QED
    BY <1>4, <1>5, <1>8, <2>2, <2>6 DEF MachineWell, MemTyped
<1>10. /\ Alone(m) /\ pushes'[m] = ps2 /\ memAcks'[m] = as2 /\ UNCHANGED <<clock, memBook, conn, frame, owed, file, text>>
       /\ file' \in [Machines -> [Mem!Keys -> Nat]] /\ text' \in Nat
  BY <1>1 DEF MemInv, Domains, Alone, GlobalWell
<1>11. GlobalWell(mlog', clock', file')
  BY <1>1, <1>6, <1>7, <1>10 DEF MemInv, GlobalWell
<1>12. MachineWell(m, memBook'[m], conn'[m], frame'[m], pushes'[m], memAcks'[m], owed'[m], mlog', clock')
  BY <1>1, <1>9, <1>10 DEF b, c, ow
<1>13. mlog' = mlog \o p /\ clock' \in Nat /\ clock <= clock'
  BY <1>1, <1>3, <1>10 DEF q
<1> QED
  BY <1>4, <1>10, <1>11, <1>12, <1>13, MachineStep

-----------------------------------------------------------------------------
\* What arrives: unless something is let go the machine has had it, and what it had before.
Applied(r, b, m, e) ==
    /\ r.book \in MemBookT /\ r.letGo \in BOOLEAN /\ r.book.seen = b.seen
    /\ r.book.caught => b.caught /\ ~ r.letGo
    /\ ~ r.letGo => HadBy(m, e, r.book.stamp) /\ \A k \in Mem!Keys : NotOlder(b.stamp[k], r.book.stamp[k])
    /\ \A k \in Mem!Keys : r.book.stamp[k].at \in {b.stamp[k].at, 0, e.at}
    /\ \A k \in Mem!Keys : r.book.held[k].text \in {b.held[k].text, 0} \/ (k = e.key /\ r.book.held[k].text = e.text)

LEMMA StampNumbers == ASSUME Remembering PROVE \A s \in StampsT : s.at \in Nat /\ s.dev \in Nat
<1>1. Machines \cup {0} \subseteq Nat
  BY DEF Remembering
<1> QED
  BY <1>1 DEF StampsT

LEMMA ApplyMemOk ==
    ASSUME Remembering, NEW m \in Machines, memBook[m] \in MemBookT, NEW e \in MemoryT
    PROVE  Applied(Mem!ApplyMem(m, e), memBook[m], m, e)
<1> DEFINE b == memBook[m]
           gone == Mem!Evicted(m, b, e)
           fits == e.text = Mem!None \/ ~ Mem!Full(b, e.key) \/ gone # {}
           left2 == Mem!StampsLeft(b, gone)
           held2 == [x \in Mem!Keys |-> IF x \in gone THEN Mem!NotHeld ELSE b.held[x]]
           lessHeld == [b EXCEPT !.caught = @ /\ gone = {} /\ fits, !.stamp = left2, !.held = held2]
           more == [lessHeld EXCEPT !.held[e.key] = [text |-> e.text, at |-> e.at, dev |-> e.dev],
                                    !.stamp[e.key] = [at |-> e.at, dev |-> e.dev]]
           r == Mem!ApplyMem(m, e)
<1>1. r = IF e.dev = m \/ ~ Mem!Newer(e, b.stamp[e.key]) THEN [book |-> b, letGo |-> FALSE]
          ELSE IF ~ fits THEN [book |-> lessHeld, letGo |-> TRUE]
          ELSE [book |-> more, letGo |-> gone # {}]
  BY DEF Mem!ApplyMem
<1>2. /\ b.seen \in [Mem!Keys -> Nat] /\ b.held \in [Mem!Keys -> HeldT] /\ b.stamp \in [Mem!Keys -> StampsT]
      /\ b.parked \subseteq Mem!Keys /\ b.caught \in BOOLEAN /\ b \in MemBookT
  BY DEF MemBookT
<1>3. e.key \in Mem!Keys /\ e.text \in Nat /\ e.at \in Nat /\ e.dev \in Machines /\ e.dev \in Nat
  BY DEF MemoryT, Remembering
<1> HIDE DEF gone, fits, r, b
<1>4. /\ left2 \in [Mem!Keys -> StampsT]
      /\ \A k \in Mem!Keys : left2[k] = IF k \in gone THEN Mem!NoStamp ELSE b.stamp[k]
  BY <1>2 DEF Mem!StampsLeft, Mem!NoStamp, StampsT
<1>5. /\ held2 \in [Mem!Keys -> HeldT]
      /\ \A k \in Mem!Keys : held2[k] = IF k \in gone THEN Mem!NotHeld ELSE b.held[k]
  BY <1>2 DEF Mem!NotHeld, Mem!None, HeldT
<1> HIDE DEF left2, held2
<1>6. /\ lessHeld \in MemBookT /\ lessHeld.seen = b.seen /\ lessHeld.held = held2 /\ lessHeld.stamp = left2
      /\ lessHeld.caught = (b.caught /\ gone = {} /\ fits)
  BY <1>2, <1>4, <1>5 DEF MemBookT
<1> HIDE DEF lessHeld
<1> DEFINE h == [text |-> e.text, at |-> e.at, dev |-> e.dev]
           s == [at |-> e.at, dev |-> e.dev]
<1>7. h \in HeldT /\ s \in StampsT /\ h.text = e.text /\ s.at = e.at /\ s.dev = e.dev
  BY <1>3 DEF HeldT, StampsT
<1> HIDE DEF h, s
<1>8. /\ more \in MemBookT /\ more.seen = b.seen /\ more.caught = lessHeld.caught
      /\ more.held = [held2 EXCEPT ![e.key] = h] /\ more.stamp = [left2 EXCEPT ![e.key] = s]
  <2>1. more = [lessHeld EXCEPT !.held[e.key] = h, !.stamp[e.key] = s]
    BY DEF h, s
  <2> HIDE DEF more
  <2> QED
    BY <1>4, <1>5, <1>6, <1>7, <2>1 DEF MemBookT
<1> HIDE DEF more
<1>9. /\ \A k \in Mem!Keys : more.held[k] = IF k = e.key THEN h ELSE held2[k]
      /\ \A k \in Mem!Keys : more.stamp[k] = IF k = e.key THEN s ELSE left2[k]
  BY <1>4, <1>5, <1>8
<1>10. Mem!NoStamp.at = 0 /\ Mem!NotHeld.text = 0
  BY DEF Mem!NoStamp, Mem!NotHeld, Mem!None
<1>11. \A k \in Mem!Keys : b.stamp[k].at \in Nat /\ b.stamp[k].dev \in Nat
  BY <1>2, StampNumbers
<1>12. ASSUME e.dev = m \/ ~ Mem!Newer(e, b.stamp[e.key])
       PROVE  Applied(r, b, m, e)
  <2>1. r.book = b /\ r.letGo = FALSE
    BY <1>1, <1>12
  <2>2. \A k \in Mem!Keys : NotOlder(b.stamp[k], b.stamp[k])
    BY <1>11 DEF NotOlder
  <2>3. HadBy(m, e, b.stamp)
    BY <1>12 DEF HadBy
  <2> QED
    BY <1>2, <2>1, <2>2, <2>3 DEF Applied
<1>13. ASSUME ~ (e.dev = m \/ ~ Mem!Newer(e, b.stamp[e.key])) /\ ~ fits
       PROVE  Applied(r, b, m, e)
  <2>1. r.book = lessHeld /\ r.letGo = TRUE
    BY <1>1, <1>13
  <2>2. ~ lessHeld.caught
    BY <1>6, <1>13
  <2>3. \A k \in Mem!Keys : lessHeld.stamp[k].at \in {b.stamp[k].at, 0, e.at}
    BY <1>4, <1>6, <1>10
  <2>4. \A k \in Mem!Keys : lessHeld.held[k].text \in {b.held[k].text, 0}
    BY <1>5, <1>6, <1>10
  <2> QED
    BY <1>6, <2>1, <2>2, <2>3, <2>4 DEF Applied
<1>14. ASSUME ~ (e.dev = m \/ ~ Mem!Newer(e, b.stamp[e.key])) /\ fits
       PROVE  Applied(r, b, m, e)
  <2>1. r.book = more /\ r.letGo = (gone # {})
    BY <1>1, <1>14
  <2>2. more.caught => b.caught /\ gone = {}
    BY <1>6, <1>8
  <2>3. \A k \in Mem!Keys : more.stamp[k].at \in {b.stamp[k].at, 0, e.at}
    BY <1>4, <1>7, <1>9, <1>10
  <2>4. \A k \in Mem!Keys : more.held[k].text \in {b.held[k].text, 0} \/ (k = e.key /\ more.held[k].text = e.text)
    BY <1>5, <1>7, <1>9, <1>10
  <2>5. HadBy(m, e, more.stamp)
    <3>1. more.stamp[e.key] = s
      BY <1>3, <1>9
    <3> QED
      BY <1>3, <1>7, <3>1 DEF HadBy, Mem!Newer
  <2>6. ASSUME gone = {}, NEW k \in Mem!Keys PROVE NotOlder(b.stamp[k], more.stamp[k])
    <3>1. CASE k = e.key
      <4>1. e.at > b.stamp[k].at \/ (e.at = b.stamp[k].at /\ e.dev > b.stamp[k].dev)
        BY <1>3, <1>11, <1>14, <3>1 DEF Mem!Newer
      <4>2. more.stamp[k].at = e.at /\ more.stamp[k].dev = e.dev
        BY <1>7, <1>9, <3>1
      <4> QED
        BY <1>3, <1>11, <4>1, <4>2 DEF NotOlder
    <3>2. CASE k # e.key
      <4>1. more.stamp[k] = b.stamp[k]
        BY <1>4, <1>9, <2>6, <3>2
      <4> QED
        BY <1>11, <4>1 DEF NotOlder
    <3> QED
      BY <3>1, <3>2
  <2>7. gone = {} => HadBy(m, e, more.stamp) /\ \A k \in Mem!Keys : NotOlder(b.stamp[k], more.stamp[k])
    BY <2>5, <2>6
  <2> QED
    BY <1>8, <2>1, <2>2, <2>3, <2>4, <2>7 DEF Applied
<1>15. Applied(r, b, m, e)
  BY <1>12, <1>13, <1>14
<1> QED
  BY <1>15 DEF r, b

\* What a machine has had it has had by any later stamp.
LEMMA HadStill ==
    ASSUME Remembering, NEW m, NEW e \in MemoryT, NEW s \in [Mem!Keys -> StampsT], NEW t \in [Mem!Keys -> StampsT],
           \A k \in Mem!Keys : NotOlder(s[k], t[k]), HadBy(m, e, s)
    PROVE  HadBy(m, e, t)
<1>1. e.key \in Mem!Keys /\ e.at \in Nat /\ e.dev \in Nat
  BY DEF MemoryT, Remembering
<1>2. /\ s[e.key].at \in Nat /\ s[e.key].dev \in Nat /\ t[e.key].at \in Nat /\ t[e.key].dev \in Nat
      /\ NotOlder(s[e.key], t[e.key])
  BY <1>1, StampNumbers
<1> QED
  BY <1>1, <1>2 DEF HadBy, NotOlder, Mem!Newer

LEMMA InLog ==
    ASSUME MemInv, NEW i \in 1..Len(mlog)
    PROVE  mlog[i] \in MemoryT /\ mlog[i].at < clock /\ i \in DOMAIN mlog
<1>1. mlog \in Seq(MemoryT) /\ Before(mlog, clock)
  BY DEF MemInv, GlobalWell
<1>2. i \in DOMAIN mlog
  BY <1>1, LenProperties
<1> QED
  BY <1>1, <1>2, ElementOfSeq DEF Before

\* The book after an event of the log.
LEMMA AppliedKeeps ==
    ASSUME Remembering, MemInv, NEW m \in Machines, NEW i \in 1..Len(mlog), NEW r, Applied(r, memBook[m], m, mlog[i])
    PROVE  /\ r.book \in MemBookT /\ r.letGo \in BOOLEAN /\ BookLogged(r.book, mlog)
           /\ \A k \in Mem!Keys : r.book.stamp[k].at < clock
           /\ r.book.caught => memBook[m].caught /\ ~ r.letGo
           /\ ~ r.letGo => HadBy(m, mlog[i], r.book.stamp)
           /\ ~ r.letGo => \A j \in 1..Len(mlog) : HadBy(m, mlog[j], memBook[m].stamp) => HadBy(m, mlog[j], r.book.stamp)
<1> DEFINE b == memBook[m]
           e == mlog[i]
<1>1. /\ b \in MemBookT /\ BookLogged(b, mlog) /\ (\A k \in Mem!Keys : b.stamp[k].at < clock) /\ clock \in Nat /\ clock > 0
  BY Known DEF MachineWell, MemTyped, Dated, MemInv, GlobalWell
<1>2. e \in MemoryT /\ e.at < clock /\ i \in DOMAIN mlog
  BY InLog
<1>3. /\ r.book \in MemBookT /\ r.letGo \in BOOLEAN /\ r.book.seen = b.seen
      /\ r.book.caught => b.caught /\ ~ r.letGo
      /\ ~ r.letGo => HadBy(m, e, r.book.stamp) /\ \A k \in Mem!Keys : NotOlder(b.stamp[k], r.book.stamp[k])
      /\ \A k \in Mem!Keys : r.book.stamp[k].at \in {b.stamp[k].at, 0, e.at}
      /\ \A k \in Mem!Keys : r.book.held[k].text \in {b.held[k].text, 0} \/ (k = e.key /\ r.book.held[k].text = e.text)
  BY DEF Applied
<1>4. \A k \in Mem!Keys : r.book.stamp[k].at < clock
  BY <1>1, <1>2, <1>3
<1>5. BookLogged(r.book, mlog)
  <2>1. ASSUME NEW k \in Mem!Keys PROVE HasIn(mlog, k, r.book.held[k].text)
    <3>1. HasIn(mlog, k, 0) /\ HasIn(mlog, e.key, e.text)
      BY <1>2 DEF HasIn
    <3>2. HasIn(mlog, k, b.held[k].text)
      BY <1>1 DEF BookLogged
    <3> HIDE DEF e
    <3> QED
      BY <1>3, <3>1, <3>2
  <2> QED
    BY <1>1, <1>3, <2>1 DEF BookLogged
<1>6. ASSUME ~ r.letGo, NEW j \in 1..Len(mlog), HadBy(m, mlog[j], b.stamp)
      PROVE  HadBy(m, mlog[j], r.book.stamp)
  <2>1. b.stamp \in [Mem!Keys -> StampsT] /\ r.book.stamp \in [Mem!Keys -> StampsT]
    BY <1>1, <1>3 DEF MemBookT
  <2>2. mlog[j] \in MemoryT
    BY InLog
  <2> HIDE DEF b
  <2> QED
    BY <1>3, <1>6, <2>1, <2>2, HadStill
<1> QED
  BY <1>3, <1>4, <1>5, <1>6

\* A step of the book, the connection and the frame.
LEMMA MemPageStep ==
    ASSUME MemInv, NEW m \in Machines, NEW b \in MemBookT, NEW c \in ConnT, c.up = conn[m].up, BookLogged(b, mlog),
           \A k \in Mem!Keys : b.stamp[k].at < clock, Placed(b, c, mlog), HadAll(m, b, c, mlog),
           NEW f, FrameOk(f), FrameLogged(f, mlog),
           memBook' = [memBook EXCEPT ![m] = b], conn' = [conn EXCEPT ![m] = c], frame' = [frame EXCEPT ![m] = f],
           UNCHANGED <<text, clock, mlog, file, pushes, memAcks, owed>>
    PROVE  MemInv'
<1>1. Alone(m) /\ memBook'[m] = b /\ conn'[m] = c /\ frame'[m] = f /\ UNCHANGED <<mlog, clock, pushes, memAcks, owed>>
  BY DEF MemInv, Domains, Alone
<1>2. MachineWell(m, memBook[m], conn[m], frame[m], pushes[m], memAcks[m], owed[m], mlog, clock)
  BY Known
<1>3. MemTyped(b, c, f, pushes[m], memAcks[m], owed[m]) /\ Dated(b, pushes[m], clock)
  BY <1>2 DEF MachineWell, MemTyped, Dated
<1>4. OwedLogged(c, pushes[m], memAcks[m], owed[m], mlog)
  BY <1>2 DEF MachineWell, OwedLogged
<1>5. MachineWell(m, b, c, f, pushes[m], memAcks[m], owed[m], mlog, clock)
  BY <1>3, <1>4 DEF MachineWell
<1>6. file' \in [Machines -> [Mem!Keys -> Nat]] /\ text' \in Nat
  BY DEF MemInv, GlobalWell
<1> QED
  BY <1>1, <1>5, <1>6, MemQuietStep

LEMMA AfterPageOk ==
    ASSUME Remembering, MemInv, NEW m \in Machines, NEW b \in MemBookT, NEW c \in ConnT, c.up = conn[m].up, BookLogged(b, mlog),
           \A k \in Mem!Keys : b.stamp[k].at < clock, Placed(b, c, mlog), HadAll(m, b, c, mlog),
           NEW ends \in BOOLEAN, Mem!AfterPage(m, b, c, ends)
    PROVE  MemInv'
<1> DEFINE synced == ends /\ c.logCaught /\ ~ c.caughtUp /\ c.replay = 0
           d == [c EXCEPT !.caughtUp = @ \/ synced]
           sync == synced /\ Mem!MaySync(d)
           f == Mem!Drain(m, b, sync)
<1>1. /\ conn' = [conn EXCEPT ![m] = d] /\ memBook' = [memBook EXCEPT ![m] = b] /\ frame' = [frame EXCEPT ![m] = f]
      /\ UNCHANGED <<text, clock, mlog, file, pushes, memAcks, owed>>
  BY DEF Mem!AfterPage
<1>2. synced \in BOOLEAN
  OBVIOUS
<1> HIDE DEF synced
<1>3. d \in ConnT /\ d.up = c.up /\ d.memory = c.memory /\ d.pos = c.pos /\ d.replay = c.replay /\ d.letGo = c.letGo
  BY <1>2 DEF ConnT
<1> HIDE DEF d
<1>4. sync \in BOOLEAN
  BY <1>2 DEF Mem!MaySync
<1> HIDE DEF sync
<1>5. FrameOk(frame[m]) /\ FrameLogged(frame[m], mlog)
  BY Known DEF MachineWell, MemTyped
<1>6. FrameOk(f) /\ FrameLogged(f, mlog)
  BY <1>4, <1>5, DrainOk
<1>7. Placed(b, d, mlog) /\ HadAll(m, b, d, mlog)
  BY <1>3 DEF Placed, HadAll
<1> HIDE DEF f
<1> QED
  BY <1>1, <1>3, <1>6, <1>7, MemPageStep

LEMMA ApplyNoneStep == ASSUME Remembering, MemInv, NEW m \in Machines, Mem!ApplyNone(m) PROVE MemInv'
<1> DEFINE b == memBook[m]
           c == [conn[m] EXCEPT !.logCaught = TRUE]
<1>1. /\ MachineWell(m, b, conn[m], frame[m], pushes[m], memAcks[m], owed[m], mlog, clock) /\ b \in MemBookT /\ conn[m] \in ConnT
      /\ Mem!AfterPage(m, b, c, TRUE)
  BY Known DEF MachineWell, MemTyped, Mem!ApplyNone
<1>2. c \in ConnT /\ c.up = conn[m].up /\ c.memory = conn[m].memory /\ c.pos = conn[m].pos /\ c.replay = conn[m].replay /\ c.letGo = conn[m].letGo
  BY <1>1 DEF ConnT
<1> HIDE DEF c, b
<1>3. Placed(b, c, mlog) /\ HadAll(m, b, c, mlog) /\ BookLogged(b, mlog) /\ \A k \in Mem!Keys : b.stamp[k].at < clock
  BY <1>1, <1>2 DEF MachineWell, Placed, HadAll, Dated
<1> QED
  BY <1>1, <1>2, <1>3, AfterPageOk

LEMMA ApplyAllStep == ASSUME Remembering, MemInv, NEW m \in Machines, Mem!ApplyAll(m) PROVE MemInv'
<1> DEFINE b == memBook[m]
           c == conn[m]
           i == c.pos + 1
           r == Mem!ApplyMem(m, mlog[i])
           last == i = Len(mlog)
           c2 == [c EXCEPT !.pos = @ + 1, !.logCaught = @ \/ last]
           c3 == [c2 EXCEPT !.letGo = @ \/ r.letGo]
<1>1. /\ MachineWell(m, b, c, frame[m], pushes[m], memAcks[m], owed[m], mlog, clock) /\ b \in MemBookT /\ c \in ConnT
      /\ c.pos \in Nat /\ c.replay \in Nat /\ Len(mlog) \in Nat
      /\ BookLogged(b, mlog) /\ \A k \in Mem!Keys : b.stamp[k].at < clock
  BY Known, LenProperties DEF MachineWell, MemTyped, Dated, ConnT, MemInv, GlobalWell
<1>2. /\ c.up /\ c.pos < Len(mlog)
      /\ IF c.memory THEN Mem!AfterPage(m, r.book, c3, last) ELSE Mem!AfterPage(m, b, c2, last)
  BY DEF Mem!ApplyAll
<1>3. i \in 1..Len(mlog) /\ last \in BOOLEAN
  BY <1>1, <1>2
<1>4. mlog[i] \in MemoryT
  BY <1>3, InLog
<1>5. Applied(r, b, m, mlog[i])
  BY <1>1, <1>4, ApplyMemOk
<1> HIDE DEF r, last
<1>6. c2 \in ConnT /\ c2.up = c.up /\ c2.memory = c.memory /\ c2.pos = i /\ c2.replay = c.replay /\ c2.letGo = c.letGo
  <2> DEFINE w == c.logCaught \/ last
  <2>1. i \in Nat /\ w \in BOOLEAN
    BY <1>1, <1>3
  <2>2. c2 = [c EXCEPT !.pos = i, !.logCaught = w]
    OBVIOUS
  <2> HIDE DEF c2, i, w, c
  <2> QED
    BY <1>1, <2>1, <2>2 DEF ConnT
<1>7. /\ r.book \in MemBookT /\ r.letGo \in BOOLEAN /\ BookLogged(r.book, mlog)
      /\ \A k \in Mem!Keys : r.book.stamp[k].at < clock
      /\ r.book.caught => b.caught /\ ~ r.letGo
      /\ ~ r.letGo => HadBy(m, mlog[i], r.book.stamp)
      /\ ~ r.letGo => \A j \in 1..Len(mlog) : HadBy(m, mlog[j], b.stamp) => HadBy(m, mlog[j], r.book.stamp)
  BY <1>3, <1>5, AppliedKeeps
<1> HIDE DEF c2
<1>8. c3 \in ConnT /\ c3.up = c.up /\ c3.memory = c.memory /\ c3.pos = i /\ c3.replay = c.replay /\ c3.letGo = (c.letGo \/ r.letGo)
  BY <1>6, <1>7 DEF ConnT
<1> HIDE DEF c3, b, c
<1>9. CASE c.memory
  <2>1. Placed(r.book, c3, mlog)
    BY <1>1, <1>3, <1>8, <1>9 DEF MachineWell, Placed
  <2>2. r.book.caught => \A j \in 1..c3.pos : HadBy(m, mlog[j], r.book.stamp)
    <3> SUFFICES ASSUME r.book.caught, NEW j \in 1..c3.pos
                 PROVE  HadBy(m, mlog[j], r.book.stamp)
      OBVIOUS
    <3>1. j = i \/ j \in 1..c.pos
      BY <1>1, <1>8
    <3>2. j \in 1..c.pos => j \in 1..Len(mlog) /\ HadBy(m, mlog[j], b.stamp)
      BY <1>1, <1>2, <1>7 DEF MachineWell, HadAll
    <3> QED
      BY <1>7, <3>1, <3>2
  <2>3. c3.replay > 0 /\ ~ c3.letGo => \A j \in 1..(c3.replay - 1) : HadBy(m, mlog[j], r.book.stamp)
    <3> SUFFICES ASSUME c3.replay > 0, ~ c3.letGo, NEW j \in 1..(c3.replay - 1)
                 PROVE  HadBy(m, mlog[j], r.book.stamp)
      OBVIOUS
    <3>1. c.replay > 0 /\ ~ c.letGo /\ ~ r.letGo /\ j \in 1..(c.replay - 1)
      BY <1>8
    <3>2. HadBy(m, mlog[j], b.stamp)
      BY <1>1, <3>1 DEF MachineWell, HadAll
    <3>3. j \in 1..Len(mlog)
      BY <1>1, <3>1 DEF MachineWell, Placed
    <3> QED
      BY <1>7, <3>1, <3>2, <3>3
  <2>4. HadAll(m, r.book, c3, mlog)
    BY <2>2, <2>3 DEF HadAll
  <2>5. Mem!AfterPage(m, r.book, c3, last) /\ c3.up = conn[m].up
    BY <1>2, <1>8, <1>9 DEF c
  <2> QED
    BY <1>3, <1>7, <1>8, <2>1, <2>4, <2>5, AfterPageOk
<1>10. CASE ~ c.memory
  <2>1. ~ b.caught /\ c.replay = 0
    BY <1>1, <1>2, <1>10 DEF MachineWell, Placed
  <2>2. Placed(b, c2, mlog) /\ HadAll(m, b, c2, mlog)
    BY <1>1, <1>3, <1>6, <2>1 DEF Placed, HadAll
  <2>3. Mem!AfterPage(m, b, c2, last) /\ c2.up = conn[m].up
    BY <1>2, <1>6, <1>10 DEF c
  <2> QED
    BY <1>1, <1>3, <1>6, <2>2, <2>3, AfterPageOk
<1> QED
  BY <1>9, <1>10

LEMMA ApplyReplayStep == ASSUME Remembering, MemInv, NEW m \in Machines, Mem!ApplyReplay(m) PROVE MemInv'
<1> DEFINE b == memBook[m]
           c == conn[m]
           i == c.replay
           r == IF mlog = <<>> THEN [book |-> b, letGo |-> FALSE] ELSE Mem!ApplyMem(m, mlog[i])
           letGo == c.letGo \/ r.letGo
           last == i >= Len(mlog)
           b2 == [r.book EXCEPT !.caught = @ \/ Mem!IsComplete(m, letGo)]
           c2 == [c EXCEPT !.replay = 0, !.letGo = FALSE]
           c3 == [c EXCEPT !.replay = @ + 1, !.letGo = letGo]
<1>1. /\ MachineWell(m, b, c, frame[m], pushes[m], memAcks[m], owed[m], mlog, clock) /\ b \in MemBookT /\ c \in ConnT
      /\ c.pos \in Nat /\ c.replay \in Nat /\ c.letGo \in BOOLEAN /\ Len(mlog) \in Nat /\ mlog \in Seq(MemoryT)
      /\ BookLogged(b, mlog) /\ \A k \in Mem!Keys : b.stamp[k].at < clock
  BY Known, LenProperties DEF MachineWell, MemTyped, Dated, ConnT, MemInv, GlobalWell
<1>2. /\ c.up /\ c.replay > 0
      /\ IF last THEN Mem!AfterPage(m, b2, c2, TRUE)
         ELSE /\ conn' = [conn EXCEPT ![m] = c3] /\ memBook' = [memBook EXCEPT ![m] = r.book]
              /\ UNCHANGED <<memLeft, text, clock, mlog, file, frame, pushes, memAcks, owed>>
  BY DEF Mem!ApplyReplay, MemInv, Domains
<1>3. /\ c.memory /\ c.pos <= Len(mlog) /\ (mlog # <<>> => i \in 1..Len(mlog)) /\ (mlog = <<>> => Len(mlog) = 0)
      /\ \A j \in 1..(i - 1) : j \in 1..Len(mlog)
  <2>1. c.memory /\ c.pos <= Len(mlog) /\ (i <= Len(mlog) \/ i <= 1)
    BY <1>1, <1>2 DEF MachineWell, Placed
  <2>2. (mlog = <<>> => Len(mlog) = 0) /\ (mlog # <<>> => Len(mlog) > 0)
    BY <1>1, EmptySeq, LenProperties
  <2> QED
    BY <1>1, <1>2, <2>1, <2>2
<1>4. /\ r.book \in MemBookT /\ r.letGo \in BOOLEAN /\ BookLogged(r.book, mlog)
      /\ \A k \in Mem!Keys : r.book.stamp[k].at < clock
      /\ r.book.caught => b.caught /\ ~ r.letGo
      /\ ~ r.letGo /\ mlog # <<>> => HadBy(m, mlog[i], r.book.stamp)
      /\ ~ r.letGo => \A j \in 1..Len(mlog) : HadBy(m, mlog[j], b.stamp) => HadBy(m, mlog[j], r.book.stamp)
  <2>1. CASE mlog = <<>>
    BY <1>1, <2>1
  <2>2. CASE mlog # <<>>
    <3>1. mlog[i] \in MemoryT /\ i \in 1..Len(mlog)
      BY <1>3, <2>2, InLog
    <3>2. Applied(r, b, m, mlog[i])
      BY <1>1, <2>2, <3>1, ApplyMemOk
    <3> HIDE DEF r
    <3> QED
      BY <3>1, <3>2, AppliedKeeps
  <2> QED
    BY <2>1, <2>2
<1> HIDE DEF r, last
<1>5. /\ b2 \in MemBookT /\ b2.seen = r.book.seen /\ b2.held = r.book.held /\ b2.stamp = r.book.stamp
      /\ b2.caught => r.book.caught \/ ~ letGo
  BY <1>4 DEF MemBookT, Mem!IsComplete
<1>6. c2 \in ConnT /\ c2.up = c.up /\ c2.memory = c.memory /\ c2.pos = c.pos /\ c2.replay = 0
  BY <1>1 DEF ConnT
<1>7. c3 \in ConnT /\ c3.up = c.up /\ c3.memory = c.memory /\ c3.pos = c.pos /\ c3.replay = c.replay + 1 /\ c3.letGo = letGo
  <2>1. letGo \in BOOLEAN
    BY <1>1, <1>4
  <2> DEFINE n == c.replay + 1
  <2>2. n \in Nat /\ c3 = [c EXCEPT !.replay = n, !.letGo = letGo]
    BY <1>1
  <2> HIDE DEF letGo, c3, c
  <2>3. c3 \in ConnT /\ c3.up = c.up /\ c3.memory = c.memory /\ c3.pos = c.pos /\ c3.replay = n /\ c3.letGo = letGo
    <3> HIDE DEF n
    <3> QED
      BY <1>1, <2>1, <2>2 DEF ConnT
  <2> QED
    BY <2>3
<1> HIDE DEF b2, c2, c3, b, c
<1>8. ASSUME ~ letGo, NEW j \in 1..i, mlog # <<>>
      PROVE  HadBy(m, mlog[j], r.book.stamp)
  <2>1. j = i \/ j \in 1..(i - 1)
    BY <1>1 DEF c
  <2>2. CASE j = i
    BY <1>4, <1>8, <2>2
  <2>3. CASE j \in 1..(i - 1)
    <3>1. HadBy(m, mlog[j], b.stamp)
      BY <1>1, <1>2, <1>8, <2>3 DEF MachineWell, HadAll
    <3> QED
      BY <1>3, <1>4, <1>8, <2>3, <3>1
  <2> QED
    BY <2>1, <2>2, <2>3
<1>9. ASSUME r.book.caught, NEW j \in 1..c.pos
      PROVE  HadBy(m, mlog[j], r.book.stamp)
  <2>1. HadBy(m, mlog[j], b.stamp)
    BY <1>1, <1>4, <1>9 DEF MachineWell, HadAll
  <2>2. j \in 1..Len(mlog)
    BY <1>1, <1>3
  <2> QED
    BY <1>4, <1>9, <2>1, <2>2
<1>10. CASE last
  <2>1. Placed(b2, c2, mlog)
    BY <1>1, <1>3, <1>6 DEF Placed
  <2>2. ASSUME b2.caught, NEW j \in 1..c2.pos
        PROVE  HadBy(m, mlog[j], b2.stamp)
    <3>1. CASE r.book.caught
      BY <1>5, <1>6, <1>9, <2>2, <3>1
    <3>2. CASE ~ letGo
      <4>1. j \in 1..i /\ mlog # <<>>
        BY <1>1, <1>3, <1>6, <1>10 DEF last
      <4> QED
        BY <1>5, <1>8, <3>2, <4>1
    <3> QED
      BY <1>5, <2>2, <3>1, <3>2
  <2>3. HadAll(m, b2, c2, mlog)
    BY <1>6, <2>2 DEF HadAll
  <2>4. BookLogged(b2, mlog) /\ \A k \in Mem!Keys : b2.stamp[k].at < clock
    BY <1>4, <1>5 DEF BookLogged
  <2>5. Mem!AfterPage(m, b2, c2, TRUE) /\ c2.up = conn[m].up
    BY <1>2, <1>6, <1>10 DEF c
  <2> QED
    BY <1>5, <1>6, <2>1, <2>3, <2>4, <2>5, AfterPageOk
<1>11. CASE ~ last
  <2>1. /\ conn' = [conn EXCEPT ![m] = c3] /\ memBook' = [memBook EXCEPT ![m] = r.book]
        /\ UNCHANGED <<text, clock, mlog, file, frame, pushes, memAcks, owed>>
    BY <1>2, <1>11
  <2>2. i < Len(mlog) /\ mlog # <<>>
    BY <1>1, <1>3, <1>11 DEF last, c
  <2>3. Placed(r.book, c3, mlog)
    BY <1>1, <1>2, <1>3, <1>7, <2>2 DEF Placed
  <2>4. HadAll(m, r.book, c3, mlog)
    <3>1. c3.replay - 1 = i
      BY <1>1, <1>7
    <3> HIDE DEF letGo
    <3> QED
      BY <1>7, <1>8, <1>9, <2>2, <3>1 DEF HadAll
  <2>5. Alone(m) /\ memBook'[m] = r.book /\ conn'[m] = c3 /\ frame'[m] = frame[m] /\ UNCHANGED <<mlog, clock, pushes, memAcks, owed>>
    BY <2>1 DEF MemInv, Domains, Alone
  <2>6. MachineWell(m, r.book, c3, frame[m], pushes[m], memAcks[m], owed[m], mlog, clock)
    <3>1. MemTyped(r.book, c3, frame[m], pushes[m], memAcks[m], owed[m]) /\ Dated(r.book, pushes[m], clock)
      BY <1>1, <1>4, <1>7 DEF MachineWell, MemTyped, Dated
    <3>2. OwedLogged(c3, pushes[m], memAcks[m], owed[m], mlog)
      BY <1>1, <1>7 DEF MachineWell, OwedLogged
    <3> QED
      BY <1>1, <1>4, <2>3, <2>4, <3>1, <3>2 DEF MachineWell
  <2>7. file' \in [Machines -> [Mem!Keys -> Nat]] /\ text' \in Nat
    BY <2>1 DEF MemInv, GlobalWell
  <2> QED
    BY <2>5, <2>6, <2>7, MemQuietStep
<1> QED
  BY <1>10, <1>11

\* A sequence with one more element at its end.
LEMMA LongerByOne ==
    ASSUME NEW T, NEW s \in Seq(T), NEW e \in T, NEW n \in Nat, Len(s) = n
    PROVE  /\ Append(s, e) \in Seq(T) /\ Len(Append(s, e)) = n + 1 /\ DOMAIN Append(s, e) = 1..(n + 1) /\ DOMAIN s = 1..n
           /\ Append(s, e)[n + 1] = e /\ \A i \in 1..n : Append(s, e)[i] = s[i]
BY AppendProperties, LenProperties

\* What a scan found is stamped past what was there, and what is pushed says what it owes.
LEMMA ScannedStep == ASSUME Remembering, MemInv, NEW m \in Machines, Mem!Scanned(m) PROVE MemInv'
<1> DEFINE b == memBook[m]
           c == conn[m]
           ps == pushes[m]
           as == memAcks[m]
           ow == owed[m]
           found == frame[m].found
           news == Mem!DiffLocal(b, found)
           when == [k \in news |-> IF found[k] # Mem!None /\ b.seen[k] = Mem!None /\ b.stamp[k] = Mem!NoStamp THEN Mem!Reveal ELSE clock]
           S == {[key |-> k, text |-> found[k], at |-> when[k], dev |-> m] : k \in news}
           p == Mem!SetToSeq(S)
           stamp2 == [k \in Mem!Keys |-> IF k \in news THEN [at |-> when[k], dev |-> m] ELSE b.stamp[k]]
           b2 == [b EXCEPT !.stamp = stamp2]
           o == [k \in Mem!Keys |-> IF k \in news THEN found[k] ELSE -1]
<1>1. /\ frame[m].stage = "scan" /\ frame[m].done
      /\ clock' = (IF news # {} THEN clock + 1 ELSE clock)
      /\ memBook' = [memBook EXCEPT ![m] = b2] /\ frame' = [frame EXCEPT ![m] = Mem!Free]
      /\ IF news # {} /\ c.up THEN /\ pushes' = [pushes EXCEPT ![m] = Append(ps, p)] /\ owed' = [owed EXCEPT ![m] = Append(ow, o)]
                             ELSE UNCHANGED <<pushes, owed>>
      /\ UNCHANGED <<memLeft, text, mlog, file, conn, memAcks>>
  BY DEF Mem!Scanned, Mem!NotOwed, MemInv, Domains
<1>2. /\ MachineWell(m, b, c, frame[m], ps, as, ow, mlog, clock) /\ b \in MemBookT /\ c \in ConnT /\ FrameOk(frame[m])
      /\ ps \in Seq(Seq(MemoryT)) /\ as \in Seq(Nat) /\ ow \in Seq(OwedT)
      /\ mlog \in Seq(MemoryT) /\ clock \in Nat /\ clock > 1 /\ Before(mlog, clock) /\ file \in [Machines -> [Mem!Keys -> Nat]]
  BY Known DEF MachineWell, MemTyped, MemInv, GlobalWell
<1>3. found \in [Mem!Keys -> Nat] /\ news \subseteq Mem!Keys
  BY <1>1, <1>2 DEF FrameOk, Mem!DiffLocal
<1> HIDE DEF news, found, b, c, ps, as, ow
<1>4. /\ \A k \in news : when[k] \in Nat /\ when[k] <= clock /\ (when[k] = clock \/ (when[k] = 1 /\ b.stamp[k] = Mem!NoStamp))
      /\ news = {} \/ clock < clock'
      /\ clock' \in Nat /\ clock <= clock'
  BY <1>1, <1>2 DEF Mem!Reveal
<1> HIDE DEF when
<1>5. /\ b.stamp \in [Mem!Keys -> StampsT] /\ stamp2 \in [Mem!Keys -> StampsT]
      /\ \A k \in news : stamp2[k].at = when[k] /\ stamp2[k].dev = m
      /\ \A k \in Mem!Keys \ news : stamp2[k] = b.stamp[k]
  BY <1>2, <1>3, <1>4 DEF MemBookT, StampsT
<1> HIDE DEF stamp2
<1>6. b2 \in MemBookT /\ b2.seen = b.seen /\ b2.held = b.held /\ b2.stamp = stamp2 /\ b2.caught = b.caught
  BY <1>2, <1>5 DEF MemBookT
<1> HIDE DEF b2
<1>7. \A k \in Mem!Keys : stamp2[k].at < clock' /\ NotOlder(b.stamp[k], stamp2[k])
  <2> TAKE k \in Mem!Keys
  <2>1. b.stamp[k].at < clock /\ b.stamp[k].at \in Nat /\ b.stamp[k].dev \in Nat /\ stamp2[k].at \in Nat /\ stamp2[k].dev \in Nat
    BY <1>2, <1>5, StampNumbers DEF MachineWell, Dated
  <2>2. CASE k \in news
    <3>1. stamp2[k].at = when[k] /\ when[k] < clock' /\ b.stamp[k].at < when[k]
      <4>1. b.stamp[k] = Mem!NoStamp => b.stamp[k].at = 0
        BY DEF Mem!NoStamp
      <4>2. when[k] \in Nat /\ when[k] <= clock /\ (when[k] = clock \/ (when[k] = 1 /\ b.stamp[k].at = 0)) /\ clock < clock'
        BY <1>4, <2>2, <4>1
      <4> QED
        BY <1>2, <1>4, <1>5, <2>1, <2>2, <4>2
    <3> QED
      BY <3>1 DEF NotOlder
  <2>3. CASE k \notin news
    BY <1>2, <1>4, <1>5, <2>1, <2>3 DEF NotOlder
  <2> QED
    BY <2>2, <2>3
<1>8. /\ p \in Seq(MemoryT) /\ Before(p, clock') /\ \A k \in news : HasIn(p, k, found[k])
  <2>1. IsFiniteSet(news)
    BY <1>3, KeysFinite, FS_Subset
  <2>2. IsFiniteSet(S)
    <3> DEFINE g == [k \in news |-> [key |-> k, text |-> found[k], at |-> when[k], dev |-> m]]
    <3>1. g \in Surjection(news, S)
      BY DEF Surjection
    <3> HIDE DEF g, S
    <3> QED
      BY <2>1, <3>1, FS_Surjection
  <2>3. \A e \in S : e \in MemoryT /\ e.at < clock'
    <3> TAKE e \in S
    <3>1. PICK k \in news : e = [key |-> k, text |-> found[k], at |-> when[k], dev |-> m]
      OBVIOUS
    <3>2. when[k] \in Nat /\ when[k] < clock' /\ k \in Mem!Keys /\ found[k] \in Nat
      BY <1>2, <1>3, <1>4
    <3> QED
      BY <3>1, <3>2 DEF MemoryT
  <2>4. \A k \in news : \E e \in S : e.key = k /\ e.text = found[k]
    <3> TAKE k \in news
    <3> WITNESS [key |-> k, text |-> found[k], at |-> when[k], dev |-> m] \in S
    <3> QED
      OBVIOUS
  <2> HIDE DEF S
  <2>5. p \in Seq(S) /\ \A e \in S : \E j \in DOMAIN p : p[j] = e
    BY <2>2, MemInOrder
  <2> HIDE DEF p
  <2>6. \A j \in DOMAIN p : p[j] \in S
    BY <2>5, ElementOfSeq, LenProperties
  <2>7. p \in Seq(MemoryT)
    <3>1. S \subseteq MemoryT
      BY <2>3
    <3> QED
      BY <2>5, <3>1
  <2>8. Before(p, clock')
    BY <2>3, <2>6 DEF Before
  <2>9. \A k \in news : HasIn(p, k, found[k])
    BY <2>4, <2>5 DEF HasIn
  <2> QED
    BY <2>7, <2>8, <2>9
<1> HIDE DEF S, p
<1>9. o \in OwedT /\ \A k \in Mem!Keys : o[k] = IF k \in news THEN found[k] ELSE -1
  BY <1>3 DEF OwedT
<1> HIDE DEF o
<1>10. /\ HadAll(m, b2, c, mlog) /\ Placed(b2, c, mlog) /\ BookLogged(b2, mlog)
  <2>1. \A j \in 1..Len(mlog) : HadBy(m, mlog[j], b.stamp) => HadBy(m, mlog[j], stamp2)
    BY <1>5, <1>7, InLog, HadStill
  <2>2. /\ \A j \in 1..c.pos : j \in 1..Len(mlog)
        /\ \A j \in 1..(c.replay - 1) : j \in 1..Len(mlog)
    <3>1. c.pos \in Nat /\ c.replay \in Nat /\ Len(mlog) \in Nat /\ c.pos <= Len(mlog) /\ (c.replay <= Len(mlog) \/ c.replay <= 1)
      BY <1>2, LenProperties DEF ConnT, MachineWell, Placed
    <3> QED
      BY <3>1
  <2>3. HadAll(m, b, c, mlog) /\ Placed(b, c, mlog) /\ BookLogged(b, mlog)
    BY <1>2 DEF MachineWell
  <2> QED
    BY <1>6, <2>1, <2>2, <2>3 DEF HadAll, Placed, BookLogged
<1>11. Before(mlog, clock') /\ \A i \in DOMAIN ps : Before(ps[i], clock')
  <2>0. <<>> \in Seq(MemoryT)
    OBVIOUS
  <2>1. MachineWell(m, b, c, frame[m], ps, as, ow, mlog \o <<>>, clock')
    BY <1>2, <1>4, <2>0, WellStill
  <2>2. \A i \in DOMAIN mlog : mlog[i].at \in Nat /\ mlog[i].at < clock
    <3>1. \A i \in DOMAIN mlog : mlog[i] \in MemoryT
      BY <1>2, ElementOfSeq, LenProperties
    <3> QED
      BY <1>2, <3>1 DEF Before, MemoryT
  <2>3. Before(mlog, clock')
    BY <1>2, <1>4, <2>2 DEF Before
  <2> QED
    BY <2>1, <2>3 DEF MachineWell, Dated
<1>12. PICK ps2, ow2 :
         /\ pushes'[m] = ps2 /\ owed'[m] = ow2 /\ ps2 \in Seq(Seq(MemoryT)) /\ ow2 \in Seq(OwedT) /\ OwedLogged(c, ps2, as, ow2, mlog)
         /\ \A i \in DOMAIN ps2 : Before(ps2[i], clock')
  <2>1. CASE ~ (news # {} /\ c.up)
    <3>1. pushes'[m] = ps /\ owed'[m] = ow
      BY <1>1, <2>1 DEF ps, ow
    <3> QED
      BY <1>2, <1>11, <3>1 DEF MachineWell
  <2>2. CASE news # {} /\ c.up
    <3>1. pushes'[m] = Append(ps, p) /\ owed'[m] = Append(ow, o)
      BY <1>1, <2>2 DEF MemInv, Domains
    <3>2. PICK x \in Nat, y \in Nat : Len(ps) = x /\ Len(as) = y /\ Len(ow) = y + x
      BY <1>2, <2>2, LenProperties DEF MachineWell, OwedLogged
    <3>3. /\ Append(ps, p) \in Seq(Seq(MemoryT)) /\ Len(Append(ps, p)) = x + 1 /\ DOMAIN Append(ps, p) = 1..(x + 1) /\ DOMAIN ps = 1..x
          /\ Append(ps, p)[x + 1] = p /\ \A i \in 1..x : Append(ps, p)[i] = ps[i]
      BY <1>2, <1>8, <3>2, AppendProperties, LenProperties
    <3>4. /\ Append(ow, o) \in Seq(OwedT) /\ Len(Append(ow, o)) = (y + x) + 1 /\ DOMAIN Append(ow, o) = 1..((y + x) + 1) /\ DOMAIN ow = 1..(y + x)
          /\ Append(ow, o)[(y + x) + 1] = o /\ \A i \in 1..(y + x) : Append(ow, o)[i] = ow[i]
      <4>1. y + x \in Nat /\ ow \in Seq(OwedT) /\ o \in OwedT /\ Len(ow) = y + x
        BY <1>2, <1>9, <3>2
      <4> QED
        BY <4>1, LongerByOne
    <3>5. \A i \in 1..(x + 1) : Before(Append(ps, p)[i], clock')
      <4> TAKE i \in 1..(x + 1)
      <4>1. i = x + 1 \/ i \in 1..x
        OBVIOUS
      <4> QED
        BY <1>8, <1>11, <3>3, <4>1
    <3>6. ASSUME NEW i \in 1..((y + x) + 1), NEW k \in Mem!Keys, Append(ow, o)[i][k] # -1
          PROVE  HasIn(IF i <= y THEN mlog ELSE Append(ps, p)[i - y], k, Append(ow, o)[i][k])
      <4>1. CASE i \in 1..(y + x)
        <5>1. HasIn(IF i <= y THEN mlog ELSE ps[i - y], k, ow[i][k])
          BY <1>2, <2>2, <3>2, <3>4, <3>6, <4>1 DEF MachineWell, OwedLogged
        <5>2. ~ i <= y => i - y \in 1..x
          BY <4>1
        <5> QED
          BY <3>3, <3>4, <4>1, <5>1, <5>2
      <4>2. CASE i = (y + x) + 1
        <5>1. ~ i <= y /\ i - y = x + 1
          BY <4>2
        <5>2. Append(ow, o)[i] = o /\ k \in news /\ o[k] = found[k]
          BY <1>9, <3>4, <3>6, <4>2
        <5> QED
          BY <1>8, <3>3, <5>1, <5>2
      <4>3. i \in 1..(y + x) \/ i = (y + x) + 1
        OBVIOUS
      <4> QED
        BY <4>1, <4>2, <4>3
    <3>7. OwedLogged(c, Append(ps, p), as, Append(ow, o), mlog)
      <4>1. (y + x) + 1 = y + (x + 1)
        OBVIOUS
      <4> QED
        BY <2>2, <3>2, <3>3, <3>4, <3>6, <4>1 DEF OwedLogged
    <3> QED
      BY <3>1, <3>3, <3>4, <3>5, <3>7
  <2> QED
    BY <2>1, <2>2
<1>13. MachineWell(m, b2, c, Mem!Free, ps2, as, ow2, mlog, clock')
  <2>1. MemTyped(b2, c, Mem!Free, ps2, as, ow2) /\ FrameLogged(Mem!Free, mlog)
    BY <1>2, <1>6, <1>12, FreeFrame DEF MemTyped
  <2>2. Dated(b2, ps2, clock')
    BY <1>6, <1>7, <1>12 DEF Dated
  <2> QED
    BY <1>10, <1>12, <2>1, <2>2 DEF MachineWell
<1>14. /\ Alone(m) /\ memBook'[m] = b2 /\ conn'[m] = c /\ frame'[m] = Mem!Free /\ pushes'[m] = ps2 /\ memAcks'[m] = as /\ owed'[m] = ow2
       /\ mlog' = mlog /\ file' = file /\ text' \in Nat
  <2>1. /\ Domains' /\ \A n \in Machines \ {m} : pushes'[n] = pushes[n] /\ owed'[n] = owed[n]
    <3>1. DOMAIN pushes' = Machines /\ DOMAIN owed' = Machines /\ \A n \in Machines \ {m} : pushes'[n] = pushes[n] /\ owed'[n] = owed[n]
      BY <1>1 DEF MemInv, Domains
    <3> QED
      BY <1>1, <3>1 DEF MemInv, Domains
  <2> QED
    BY <1>1, <1>12, <2>1 DEF MemInv, Domains, Alone, c, as
<1>15. GlobalWell(mlog', clock', file')
  BY <1>2, <1>4, <1>11, <1>14 DEF GlobalWell
<1>16. mlog' = mlog \o <<>> /\ <<>> \in Seq(MemoryT)
  BY <1>2, <1>14, ConcatEmptySeq
<1>17. MachineWell(m, memBook'[m], conn'[m], frame'[m], pushes'[m], memAcks'[m], owed'[m], mlog', clock')
  BY <1>13, <1>14
<1> QED
  BY <1>4, <1>14, <1>15, <1>16, <1>17, MachineStep

-----------------------------------------------------------------------------
\* What sessions write, what they remove, and a checkout that appears.
LEMMA SessionSteps ==
    ASSUME MemInv, NEW m \in Machines, Mem!Clone(m) \/ \E f \in Files : Mem!Edit(m, f) \/ Mem!Unlink(m, f)
    PROVE  MemInv'
<1>1. UNCHANGED <<mlog, clock, memBook, conn, frame, pushes, memAcks, owed>>
  BY DEF Mem!Clone, Mem!Edit, Mem!Unlink
<1>2. file \in [Machines -> [Mem!Keys -> Nat]] /\ text \in Nat
  BY DEF MemInv, GlobalWell
<1>3. file' \in [Machines -> [Mem!Keys -> Nat]] /\ text' \in Nat
  <2>1. CASE Mem!Clone(m)
    BY <1>2, <2>1 DEF Mem!Clone
  <2>2. ASSUME NEW f \in Files, Mem!Edit(m, f)
        PROVE  file' \in [Machines -> [Mem!Keys -> Nat]] /\ text' \in Nat
    <3>1. text' \in Nat /\ file' = [file EXCEPT ![m][<<f, 0>>] = text']
      BY <1>2, <2>2 DEF Mem!Edit
    <3> QED
      BY <1>2, <3>1
  <2>3. ASSUME NEW f \in Files, Mem!Unlink(m, f)
        PROVE  file' \in [Machines -> [Mem!Keys -> Nat]] /\ text' \in Nat
    <3>1. text' \in Nat /\ file' = [file EXCEPT ![m][<<f, 0>>] = 0]
      BY <1>2, <2>3 DEF Mem!Unlink, Mem!None
    <3> QED
      BY <1>2, <3>1
  <2> QED
    BY <2>1, <2>2, <2>3
<1> QED
  BY <1>1, <1>3, FileStep

LEMMA MemStarts == Mem!Init => MemInv
<1> SUFFICES ASSUME Mem!Init
             PROVE  MemInv
  OBVIOUS
<1> DEFINE b == [seen |-> [k \in Mem!Keys |-> 0], held |-> [k \in Mem!Keys |-> Mem!NotHeld],
                 stamp |-> [k \in Mem!Keys |-> Mem!NoStamp], parked |-> {}, caught |-> FALSE]
           c == Mem!Offline(0, FALSE)
<1>1. /\ text = 0 /\ clock = 2 /\ mlog = <<>> /\ file = [m \in Machines |-> [k \in Mem!Keys |-> 0]] /\ memBook = [m \in Machines |-> b]
      /\ conn = [m \in Machines |-> c] /\ frame = [m \in Machines |-> Mem!Free]
      /\ pushes = [m \in Machines |-> <<>>] /\ memAcks = [m \in Machines |-> <<>>] /\ owed = [m \in Machines |-> <<>>]
  BY DEF Mem!Init, Mem!None
<1>2. /\ b \in MemBookT /\ ~ b.caught /\ \A k \in Mem!Keys : b.seen[k] = 0 /\ b.held[k].text = 0 /\ b.stamp[k].at = 0
  <2>1. Mem!NotHeld \in HeldT /\ Mem!NotHeld.text = 0 /\ Mem!NoStamp \in StampsT /\ Mem!NoStamp.at = 0
    BY DEF Mem!NotHeld, Mem!NoStamp, Mem!None, HeldT, StampsT
  <2> QED
    BY <2>1 DEF MemBookT
<1>3. c \in ConnT /\ ~ c.up /\ c.replay = 0 /\ c.pos = 0
  BY DEF Mem!Offline, ConnT
<1> HIDE DEF b, c
<1>4. MachineWell(0, b, c, Mem!Free, <<>>, <<>>, <<>>, <<>>, 2)
  <2>1. MemTyped(b, c, Mem!Free, <<>>, <<>>, <<>>)
    BY <1>2, <1>3, FreeFrame DEF MemTyped
  <2>2. Dated(b, <<>>, 2)
    BY <1>2 DEF Dated
  <2>3. Placed(b, c, <<>>) /\ HadAll(0, b, c, <<>>)
    BY <1>2, <1>3 DEF Placed, HadAll
  <2>4. BookLogged(b, <<>>)
    BY <1>2 DEF BookLogged, HasIn
  <2>5. OwedLogged(c, <<>>, <<>>, <<>>, <<>>)
    BY <1>3 DEF OwedLogged
  <2> QED
    BY <2>1, <2>2, <2>3, <2>4, <2>5, FreeFrame DEF MachineWell
<1>5. \A m : MachineWell(m, b, c, Mem!Free, <<>>, <<>>, <<>>, <<>>, 2)
  BY <1>2, <1>3, <1>4 DEF MachineWell, HadAll
<1>6. GlobalWell(mlog, clock, file) /\ text \in Nat /\ Domains
  BY <1>1 DEF GlobalWell, Before, Domains
<1> QED
  BY <1>1, <1>5, <1>6 DEF MemInv

LEMMA MemInductive == Remembering => (MemInv /\ [Mem!Next]_(Mem!mvars) => MemInv')
<1> SUFFICES ASSUME Remembering, MemInv, [Mem!Next]_(Mem!mvars)
             PROVE  MemInv'
  OBVIOUS
<1>1. CASE UNCHANGED Mem!mvars
  <2>1. UNCHANGED <<mlog, clock, memBook, conn, frame, pushes, memAcks, owed>> /\ file' \in [Machines -> [Mem!Keys -> Nat]] /\ text' \in Nat
    BY <1>1 DEF Mem!mvars, MemInv, GlobalWell
  <2> QED
    BY <2>1, FileStep
<1>2. CASE Mem!Next
  <2>1. PICK m \in Machines :
          \/ Mem!Write(m) \/ Mem!Written(m) \/ Mem!WriteSide(m) \/ Mem!KeptBoth(m) \/ Mem!Scan(m) \/ Mem!Scanned(m)
          \/ Mem!SyncMemory(m) \/ Mem!Take(m) \/ Mem!MemPushed(m)
          \/ Mem!Welcome(m, TRUE) \/ Mem!Welcome(m, FALSE) \/ Mem!Lost(m) \/ Mem!ApplyAll(m) \/ Mem!ApplyNone(m) \/ Mem!ApplyReplay(m)
          \/ Mem!Clone(m) \/ \E f \in Files : Mem!Edit(m, f) \/ Mem!Unlink(m, f)
    BY <1>2 DEF Mem!Next
  <2>2. CASE Mem!Write(m) \/ Mem!Written(m) \/ Mem!WriteSide(m) \/ Mem!KeptBoth(m) \/ Mem!Scan(m) \/ Mem!Scanned(m)
    BY <2>2, WriteStep, WrittenStep, WriteSideStep, KeptBothStep, ScanStep, ScannedStep
  <2>3. CASE Mem!SyncMemory(m) \/ Mem!Take(m) \/ Mem!MemPushed(m) \/ Mem!Lost(m)
    BY <2>3, SyncMemoryStep, TakeStep, MemPushedStep, MemLostStep
  <2>4. CASE Mem!Welcome(m, TRUE) \/ Mem!Welcome(m, FALSE)
    BY <2>4, MemWelcomeStep
  <2>5. CASE Mem!ApplyAll(m) \/ Mem!ApplyNone(m) \/ Mem!ApplyReplay(m)
    BY <2>5, ApplyAllStep, ApplyNoneStep, ApplyReplayStep
  <2>6. CASE Mem!Clone(m) \/ \E f \in Files : Mem!Edit(m, f) \/ Mem!Unlink(m, f)
    BY <2>6, SessionSteps
  <2> QED
    BY <2>1, <2>2, <2>3, <2>4, <2>5, <2>6
<1> QED
  BY <1>1, <1>2

(***************************************************************************)
(* A machine that counts as caught up with the memory stream has had, and  *)
(* still has or has written, everything it has passed: for any machines,   *)
(* files, caps, gates and lost connections (askMemReplay, applyReplay,     *)
(* memLetGo).                                                              *)
(***************************************************************************)
THEOREM CaughtUpHadAll == Remembering => (Mem!Spec => []Mem!CaughtMeansHad)
<1> SUFFICES ASSUME Remembering
             PROVE  Mem!Spec => []Mem!CaughtMeansHad
  OBVIOUS
<1>1. MemInv => Mem!CaughtMeansHad
  BY Known DEF MachineWell, HadAll, HadBy, Mem!CaughtMeansHad
<1> QED
  BY <1>1, MemStarts, MemInductive, PTL DEF Mem!Spec

(***************************************************************************)
(* An arrival never takes the place of a memory written here that the      *)
(* server has not had, whatever is on its way: for any machines and files  *)
(* (memory_write's ifSha, MemBook.seen, the pushes in flight).             *)
(***************************************************************************)
THEOREM UnsentMemoriesSurvive == Remembering => (Mem!Spec => Mem!UnsentSurvives)
<1> SUFFICES ASSUME Remembering
             PROVE  Mem!Spec => Mem!UnsentSurvives
  OBVIOUS
<1>1. MemInv /\ [Mem!Next]_(Mem!mvars) =>
        [\A m \in Machines, k \in Mem!Keys : Mem!Write(m) /\ file'[m][k] # file[m][k] => file[m][k] \in Mem!Logged(m, k)]_(Mem!mvars)
  <2> SUFFICES ASSUME MemInv, NEW m \in Machines, NEW k \in Mem!Keys, Mem!Write(m), file'[m][k] # file[m][k]
               PROVE  file[m][k] \in Mem!Logged(m, k)
    OBVIOUS
  <2> DEFINE f == frame[m]
             j == Head(f.todo).key
             t == Head(f.todo).h.text
  <2>1. f.stage = "write" /\ FrameOk(f) /\ FrameLogged(f, mlog) /\ file \in [Machines -> [Mem!Keys -> Nat]]
    BY Known DEF Mem!Write, MachineWell, MemTyped, MemInv, GlobalWell
  <2>2. file' = [file EXCEPT ![m][j] = IF Mem!Fits(m, j, t, f.agreed) THEN t ELSE @]
    BY DEF Mem!Write
  <2>3. k = j /\ Mem!Fits(m, j, t, f.agreed) /\ file[m][j] # t
    BY <2>1, <2>2
  <2>4. file[m][k] \in {0, f.agreed}
    BY <2>3 DEF Mem!Fits, Mem!None
  <2>5. HasIn(mlog, k, file[m][k])
    BY <2>1, <2>3, <2>4 DEF FrameLogged, HasIn
  <2> QED
    BY <2>5 DEF HasIn, Mem!Logged, Mem!None
<1> QED
  BY <1>1, MemStarts, MemInductive, PTL DEF Mem!Spec, Mem!UnsentSurvives

-----------------------------------------------------------------------------
(* Leases of issues (Claims).                                               *)

CONSTANTS Sessions, Home, LEASE, LeasePlans
VARIABLES plan, cnow, quits, apps, missed, ses, died, dispatch, lease, leaseStamp, owes, clog, leased, ledger, assigned
Issue == INSTANCE Claims WITH up <- apps, heard <- leased, stamp <- leaseStamp, Plans <- LeasePlans

\* What the theorem assumes: each session is a machine's, and a lease lasts some ticks.
Leasing == Home \in [Sessions -> Machines] /\ 0 \notin Sessions /\ LEASE \in Nat

LeaseT == [who : Sessions \cup {0}, until : Nat, mine : BOOLEAN]
LeaseEvents == [at : Nat, dev : Machines \cup {0}, l : LeaseT]
LeaseTypes ==
    /\ cnow \in Nat /\ died \in [Sessions -> 0..cnow] /\ ses \in [Sessions -> {"no", "live", "dead"}]
    /\ lease \in [Machines -> LeaseT] /\ clog \in Seq(LeaseEvents) /\ leased \in [Machines -> Nat]
    /\ leaseStamp \in [Machines -> [at : Nat, dev : Machines \cup {0}]]

\* When each session was last there; every lease, held or on its way, lapses soon after that.
LastThere == [s \in Sessions |-> IF ses[s] = "live" THEN cnow ELSE died[s]]
Lapses(l, there) == l.who # 0 => l.until <= LEASE + there[l.who]
AllLapse ==
    /\ \A m \in Machines : Lapses(lease[m], LastThere)
    /\ \A i \in DOMAIN clog : Lapses(clog[i].l, LastThere)
LeaseInv == LeaseTypes /\ AllLapse

\* A step that brings no session's end forward.
EndsNow ==
    /\ cnow' \in Nat /\ cnow <= cnow' /\ ses' \in [Sessions -> {"no", "live", "dead"}]
    /\ \E d \in [Sessions -> BOOLEAN] :
          /\ died' = [s \in Sessions |-> IF d[s] THEN cnow ELSE died[s]]
          /\ \A s \in Sessions : ses[s] = "live" /\ ses'[s] # "live" => d[s]

\* Nothing takes a session's last time back.
LEMMA LaterThere ==
    ASSUME Leasing, LeaseTypes, EndsNow
    PROVE  died' \in [Sessions -> 0..cnow'] /\ \A l \in LeaseT : Lapses(l, LastThere) => Lapses(l, LastThere')
<1>1. PICK d \in [Sessions -> BOOLEAN] :
         /\ died' = [s \in Sessions |-> IF d[s] THEN cnow ELSE died[s]]
         /\ \A s \in Sessions : ses[s] = "live" /\ ses'[s] # "live" => d[s]
  BY DEF EndsNow
<1>2. /\ cnow \in Nat /\ cnow' \in Nat /\ cnow <= cnow'
      /\ \A s \in Sessions : died[s] \in Nat /\ died[s] <= cnow
  BY DEF LeaseTypes, EndsNow
<1>3. \A s \in Sessions : died'[s] = IF d[s] THEN cnow ELSE died[s]
  BY <1>1
<1>4. \A s \in Sessions : died'[s] \in Nat /\ died'[s] <= cnow'
  BY <1>2, <1>3
<1>5. died' \in [Sessions -> 0..cnow']
  BY <1>1, <1>2, <1>4
<1>6. \A s \in Sessions : LastThere[s] \in Nat /\ LastThere'[s] \in Nat /\ LastThere[s] <= LastThere'[s]
  BY <1>1, <1>2, <1>3 DEF LastThere
<1>7. \A l \in LeaseT : l.until \in Nat /\ (l.who # 0 => l.who \in Sessions)
  BY DEF LeaseT
<1>8. LEASE \in Nat
  BY DEF Leasing
<1>9. ASSUME NEW l \in LeaseT, Lapses(l, LastThere)
      PROVE  Lapses(l, LastThere')
  BY <1>6, <1>7, <1>8, <1>9 DEF Lapses
<1> QED
  BY <1>5, <1>9

LEMMA InStream == ASSUME LeaseTypes PROVE \A i \in DOMAIN clog : clog[i].l \in LeaseT
<1>1. \A i \in DOMAIN clog : clog[i] \in LeaseEvents
  <2>1. clog \in Seq(LeaseEvents) /\ DOMAIN clog = 1..Len(clog)
    BY DEF LeaseTypes
  <2> QED
    BY <2>1, ElementOfSeq
<1> QED
  BY <1>1 DEF LeaseEvents

\* A session's end, or its start, is one such step.
LEMMA OneEnds ==
    ASSUME LeaseInv, NEW s \in Sessions, cnow' = cnow, died' = [died EXCEPT ![s] = cnow],
           NEW to \in {"no", "live", "dead"}, ses' = [ses EXCEPT ![s] = to]
    PROVE  EndsNow
<1> DEFINE d == [o \in Sessions |-> o = s]
<1>1. cnow' \in Nat /\ cnow <= cnow' /\ ses' \in [Sessions -> {"no", "live", "dead"}]
  BY DEF LeaseInv, LeaseTypes
<1>2. d \in [Sessions -> BOOLEAN] /\ \A o \in Sessions : d[o] <=> o = s
  OBVIOUS
<1>3. died' = [o \in Sessions |-> IF d[o] THEN cnow ELSE died[o]]
  BY <1>2 DEF LeaseInv, LeaseTypes
<1>4. \A o \in Sessions : ses[o] = "live" /\ ses'[o] # "live" => d[o]
  BY <1>2 DEF LeaseInv, LeaseTypes
<1> HIDE DEF d
<1> QED
  BY <1>1, <1>2, <1>3, <1>4 DEF EndsNow

\* A step that leaves the leases alone.
LEMMA LeasesStay == ASSUME Leasing, LeaseInv, EndsNow, UNCHANGED <<lease, leaseStamp, clog, leased>> PROVE LeaseInv'
<1>1. died' \in [Sessions -> 0..cnow'] /\ \A l \in LeaseT : Lapses(l, LastThere) => Lapses(l, LastThere')
  BY LaterThere DEF LeaseInv
<1>2. /\ \A m \in Machines : lease[m] \in LeaseT /\ lease'[m] = lease[m]
      /\ \A i \in DOMAIN clog : clog[i].l \in LeaseT
  BY InStream DEF LeaseInv, LeaseTypes
<1>3. LeaseTypes'
  BY <1>1 DEF LeaseInv, LeaseTypes, EndsNow
<1> QED
  BY <1>1, <1>2, <1>3 DEF LeaseInv, AllLapse

\* A step of one machine that puts one lease in its place.
LEMMA LeasePut ==
    ASSUME Leasing, LeaseInv, EndsNow, NEW m \in Machines, NEW l \in LeaseT, Lapses(l, LastThere'),
           lease' = [lease EXCEPT ![m] = l], leaseStamp' \in [Machines -> [at : Nat, dev : Machines \cup {0}]],
           clog' = clog, leased' \in [Machines -> Nat]
    PROVE  LeaseInv'
<1>1. died' \in [Sessions -> 0..cnow'] /\ \A k \in LeaseT : Lapses(k, LastThere) => Lapses(k, LastThere')
  BY LaterThere DEF LeaseInv
<1>2. /\ \A o \in Machines : lease[o] \in LeaseT /\ lease'[o] = IF o = m THEN l ELSE lease[o]
      /\ lease' \in [Machines -> LeaseT]
  BY DEF LeaseInv, LeaseTypes
<1>3. \A i \in DOMAIN clog : clog[i].l \in LeaseT
  BY InStream DEF LeaseInv
<1>4. LeaseTypes'
  BY <1>1, <1>2 DEF LeaseInv, LeaseTypes, EndsNow
<1> QED
  BY <1>1, <1>2, <1>3, <1>4 DEF LeaseInv, AllLapse

LEMMA IssueDispatchStep == ASSUME Leasing, LeaseInv, NEW s \in Sessions, Issue!Dispatch(s) PROVE LeaseInv'
<1>1. /\ UNCHANGED <<lease, leaseStamp, clog, leased, cnow>>
      /\ ses' = [ses EXCEPT ![s] = "live"] /\ died' = [died EXCEPT ![s] = cnow]
  BY DEF Issue!Dispatch
<1>2. EndsNow
  BY <1>1, OneEnds
<1> QED
  BY <1>1, <1>2, LeasesStay

LEMMA IssueLaunchedStep == ASSUME Leasing, LeaseInv, NEW s \in Sessions, Issue!Launched(s) PROVE LeaseInv'
<1> DEFINE l == [who |-> s, until |-> cnow + LEASE, mine |-> TRUE]
<1>1. /\ lease' = [lease EXCEPT ![Home[s]] = l] /\ leaseStamp' = [leaseStamp EXCEPT ![Home[s]] = [at |-> cnow, dev |-> Home[s]]]
      /\ UNCHANGED <<clog, leased, ses, cnow>> /\ cnow \in Nat /\ died' = [died EXCEPT ![s] = cnow] /\ Home[s] \in Machines
  BY DEF Issue!Launched, Issue!Publish, LeaseInv, LeaseTypes, Leasing
<1>2. ses[s] \in {"no", "live", "dead"} /\ ses' = [ses EXCEPT ![s] = ses[s]]
  BY <1>1 DEF LeaseInv, LeaseTypes
<1>3. EndsNow
  BY <1>1, <1>2, OneEnds
<1>4. LastThere'[s] = cnow
  <2>1. cnow' = cnow /\ died'[s] = cnow
    BY <1>1 DEF LeaseInv, LeaseTypes
  <2> QED
    BY <2>1 DEF LastThere
<1>5. l \in LeaseT /\ Lapses(l, LastThere')
  BY <1>1, <1>4 DEF LeaseT, Lapses, Leasing
<1>6. leased' \in [Machines -> Nat] /\ leaseStamp' \in [Machines -> [at : Nat, dev : Machines \cup {0}]]
  BY <1>1 DEF LeaseInv, LeaseTypes
<1> HIDE DEF l
<1> QED
  BY <1>1, <1>3, <1>5, <1>6, LeasePut

LEMMA IssueExitStep == ASSUME Leasing, LeaseInv, NEW s \in Sessions, Issue!Exit(s) PROVE LeaseInv'
<1>1. /\ ses' = [ses EXCEPT ![s] = "dead"] /\ died' = [died EXCEPT ![s] = cnow] /\ Issue!ReleaseLeases(Home[s], s)
      /\ UNCHANGED <<clog, leased, cnow>> /\ cnow \in Nat /\ Home[s] \in Machines
  BY DEF Issue!Exit, LeaseInv, LeaseTypes, Leasing
<1>2. EndsNow
  BY <1>1, OneEnds
<1>3. CASE UNCHANGED <<lease, leaseStamp, owes>>
  BY <1>1, <1>2, <1>3, LeasesStay
<1>4. CASE Issue!Publish(Home[s], Issue!NoLease)
  <2>1. /\ lease' = [lease EXCEPT ![Home[s]] = Issue!NoLease]
        /\ leaseStamp' \in [Machines -> [at : Nat, dev : Machines \cup {0}]] /\ leased' \in [Machines -> Nat]
    BY <1>1, <1>4 DEF Issue!Publish, LeaseInv, LeaseTypes
  <2>2. Issue!NoLease \in LeaseT /\ Lapses(Issue!NoLease, LastThere')
    BY DEF Issue!NoLease, Issue!Nobody, LeaseT, Lapses
  <2> QED
    BY <1>1, <1>2, <2>1, <2>2, LeasePut
<1> QED
  BY <1>1, <1>3, <1>4 DEF Issue!ReleaseLeases

LEMMA IssueQuitStep == ASSUME Leasing, LeaseInv, NEW m \in Machines, Issue!Quit(m) PROVE LeaseInv'
<1> DEFINE d == [s \in Sessions |-> Home[s] = m /\ ses[s] = "live"]
<1>1. /\ ses' = [s \in Sessions |-> IF Home[s] = m /\ ses[s] = "live" THEN "dead" ELSE ses[s]]
      /\ died' = [s \in Sessions |-> IF Home[s] = m /\ ses[s] = "live" THEN cnow ELSE died[s]]
      /\ UNCHANGED <<lease, leaseStamp, clog, leased, cnow>> /\ cnow \in Nat /\ cnow <= cnow'
      /\ ses \in [Sessions -> {"no", "live", "dead"}]
  BY DEF Issue!Quit, LeaseInv, LeaseTypes
<1>2. d \in [Sessions -> BOOLEAN] /\ died' = [s \in Sessions |-> IF d[s] THEN cnow ELSE died[s]]
  BY <1>1
<1>3. /\ ses' \in [Sessions -> {"no", "live", "dead"}]
      /\ \A s \in Sessions : ses[s] = "live" /\ ses'[s] # "live" => d[s]
  BY <1>1
<1> HIDE DEF d
<1>4. EndsNow
  BY <1>1, <1>2, <1>3 DEF EndsNow
<1> QED
  BY <1>1, <1>4, LeasesStay

\* What a tick makes of a lease lapses in time: it is only renewed for a session that is there.
LEMMA RenewedLapses ==
    ASSUME Leasing, LeaseTypes, cnow' = cnow + 1, UNCHANGED <<ses, died>>, NEW l \in LeaseT, Lapses(l, LastThere')
    PROVE  Issue!Renewed(l, cnow + 1) \in LeaseT /\ Lapses(Issue!Renewed(l, cnow + 1), LastThere')
<1> DEFINE r == [l EXCEPT !.until = cnow + 1 + LEASE]
<1>1. Issue!NoLease \in LeaseT /\ Lapses(Issue!NoLease, LastThere')
  BY DEF Issue!NoLease, Issue!Nobody, LeaseT, Lapses
<1>2. CASE Issue!Unheld(l) \/ ~ l.mine
  <2>1. Issue!Renewed(l, cnow + 1) \in {l, Issue!NoLease}
    BY <1>2 DEF Issue!Renewed
  <2> QED
    BY <1>1, <2>1
<1>3. CASE ~ Issue!Unheld(l) /\ l.mine
  <2>1. ses[l.who] = "live"
    BY <1>3 DEF Issue!Unheld, Issue!Alive
  <2>2. cnow \in Nat /\ LEASE \in Nat
    BY DEF LeaseTypes, Leasing
  <2>3. r \in LeaseT /\ r.who = l.who /\ r.until = LEASE + (cnow + 1)
    BY <2>2 DEF LeaseT
  <2>4. l.who # 0 => l.who \in Sessions /\ LastThere'[l.who] = cnow + 1
    BY <2>1 DEF LastThere, LeaseT
  <2>5. Issue!Renewed(l, cnow + 1) \in {r, l}
    BY <1>3 DEF Issue!Renewed
  <2> HIDE DEF r
  <2>6. Lapses(r, LastThere')
    BY <2>2, <2>3, <2>4 DEF Lapses
  <2> QED
    BY <2>3, <2>5, <2>6
<1> QED
  BY <1>2, <1>3

LEMMA IssueTickStep == ASSUME Leasing, LeaseInv, NEW T \in SUBSET Machines, Issue!Tick(T) PROVE LeaseInv'
<1> DEFINE next == [m \in Machines |-> IF m \in T /\ lease[m] # Issue!NoLease THEN Issue!Renewed(lease[m], cnow + 1) ELSE lease[m]]
           published == {m \in Machines : next[m] # lease[m] /\ lease[m].mine}
<1>1. /\ cnow' = cnow + 1 /\ cnow \in Nat /\ UNCHANGED <<clog, leased, ses, died>> /\ lease' = next
      /\ leaseStamp' = [m \in Machines |-> IF m \in published THEN [at |-> cnow + 1, dev |-> m] ELSE leaseStamp[m]]
      /\ ses \in [Sessions -> {"no", "live", "dead"}] /\ DOMAIN died = Sessions
  BY DEF Issue!Tick, LeaseInv, LeaseTypes
<1>2. EndsNow
  <2> DEFINE d == [s \in Sessions |-> FALSE]
  <2>1. d \in [Sessions -> BOOLEAN] /\ \A s \in Sessions : ~ d[s]
    OBVIOUS
  <2>2. died' = [s \in Sessions |-> IF d[s] THEN cnow ELSE died[s]]
    <3>1. died = [s \in Sessions |-> died[s]]
      BY DEF LeaseInv, LeaseTypes
    <3> QED
      BY <1>1, <3>1
  <2> HIDE DEF d
  <2> QED
    BY <1>1, <2>1, <2>2 DEF EndsNow
<1>3. died' \in [Sessions -> 0..cnow'] /\ \A l \in LeaseT : Lapses(l, LastThere) => Lapses(l, LastThere')
  BY <1>2, LaterThere DEF LeaseInv
<1>4. ASSUME NEW m \in Machines
      PROVE  next[m] \in LeaseT /\ Lapses(next[m], LastThere')
  <2>1. lease[m] \in LeaseT /\ Lapses(lease[m], LastThere')
    <3>1. lease[m] \in LeaseT /\ Lapses(lease[m], LastThere)
      BY DEF LeaseInv, LeaseTypes, AllLapse
    <3> QED
      BY <1>3, <3>1
  <2>2. Issue!Renewed(lease[m], cnow + 1) \in LeaseT /\ Lapses(Issue!Renewed(lease[m], cnow + 1), LastThere')
    BY <1>1, <2>1, RenewedLapses DEF LeaseInv
  <2> QED
    BY <2>1, <2>2
<1>5. leaseStamp' \in [Machines -> [at : Nat, dev : Machines \cup {0}]]
  <2> HIDE DEF published
  <2> QED
    BY <1>1 DEF LeaseInv, LeaseTypes
<1>6. lease' \in [Machines -> LeaseT] /\ \A m \in Machines : lease'[m] = next[m]
  BY <1>1, <1>4
<1> HIDE DEF next
<1>7. LeaseTypes'
  BY <1>1, <1>3, <1>5, <1>6 DEF LeaseInv, LeaseTypes
<1>8. \A i \in DOMAIN clog : clog[i].l \in LeaseT /\ Lapses(clog[i].l, LastThere)
  BY InStream DEF LeaseInv, AllLapse
<1> QED
  BY <1>1, <1>3, <1>4, <1>6, <1>7, <1>8 DEF LeaseInv, AllLapse

\* The steps of the claims stream, and those that concern no lease.
LEMMA NobodyEnds == ASSUME LeaseInv, UNCHANGED <<cnow, ses, died>> PROVE EndsNow
<1> DEFINE d == [s \in Sessions |-> FALSE]
<1>1. d \in [Sessions -> BOOLEAN] /\ \A s \in Sessions : ~ d[s]
  OBVIOUS
<1>2. died = [s \in Sessions |-> died[s]]
  BY DEF LeaseInv, LeaseTypes
<1>3. died' = [s \in Sessions |-> IF d[s] THEN cnow ELSE died[s]]
  BY <1>2
<1> HIDE DEF d
<1>4. cnow \in Nat /\ cnow <= cnow' /\ ses' \in [Sessions -> {"no", "live", "dead"}]
  BY DEF LeaseInv, LeaseTypes
<1> QED
  BY <1>1, <1>3, <1>4 DEF EndsNow

LEMMA IssueFlushStep == ASSUME Leasing, LeaseInv, NEW m \in Machines, Issue!Flush(m) PROVE LeaseInv'
<1> DEFINE e == [at |-> leaseStamp[m].at, dev |-> leaseStamp[m].dev, l |-> [lease[m] EXCEPT !.mine = FALSE]]
<1>1. clog' = Append(clog, e) /\ UNCHANGED <<cnow, ses, died, lease, leaseStamp, leased>>
  BY DEF Issue!Flush
<1>2. lease[m] \in LeaseT /\ Lapses(lease[m], LastThere) /\ leaseStamp[m] \in [at : Nat, dev : Machines \cup {0}] /\ LastThere' = LastThere
  BY <1>1 DEF LeaseInv, LeaseTypes, AllLapse, LastThere
<1>3. e \in LeaseEvents /\ e.l.who = lease[m].who /\ e.l.until = lease[m].until
  BY <1>2 DEF LeaseEvents, LeaseT
<1>4. Lapses(e.l, LastThere)
  BY <1>2, <1>3 DEF Lapses
<1> HIDE DEF e
<1>5. clog \in Seq(LeaseEvents) /\ Len(clog) \in Nat /\ DOMAIN clog = 1..Len(clog)
  BY DEF LeaseInv, LeaseTypes
<1>6. clog' \in Seq(LeaseEvents) /\ DOMAIN clog' = 1..(Len(clog) + 1) /\ clog'[Len(clog) + 1] = e /\ \A i \in 1..Len(clog) : clog'[i] = clog[i]
  BY <1>1, <1>3, <1>5
<1>7. LeaseTypes'
  BY <1>1, <1>6 DEF LeaseInv, LeaseTypes
<1>8. ASSUME NEW i \in DOMAIN clog'
      PROVE  Lapses(clog'[i].l, LastThere')
  <2>1. i = Len(clog) + 1 \/ i \in 1..Len(clog)
    BY <1>5, <1>6
  <2> QED
    BY <1>2, <1>4, <1>5, <1>6, <2>1 DEF LeaseInv, AllLapse
<1> QED
  BY <1>1, <1>2, <1>7, <1>8 DEF LeaseInv, AllLapse

LEMMA ApplyLeaseStep == ASSUME Leasing, LeaseInv, NEW m \in Machines, Issue!ApplyLease(m) PROVE LeaseInv'
<1> DEFINE e == clog[leased[m] + 1]
<1>1. /\ leased[m] < Len(clog) /\ leased' = [leased EXCEPT ![m] = @ + 1] /\ UNCHANGED <<cnow, ses, died, clog>>
      /\ \/ UNCHANGED <<lease, leaseStamp>>
         \/ leaseStamp' = [leaseStamp EXCEPT ![m] = [at |-> e.at, dev |-> e.dev]] /\ lease' = [lease EXCEPT ![m] = e.l]
  BY DEF Issue!ApplyLease
<1>2. leased[m] + 1 \in DOMAIN clog /\ clog[leased[m] + 1] \in LeaseEvents /\ leased' \in [Machines -> Nat]
  BY <1>1 DEF LeaseInv, LeaseTypes
<1>3. LastThere' = LastThere /\ EndsNow
  BY <1>1, NobodyEnds DEF LastThere
<1>4. e.l \in LeaseT /\ Lapses(e.l, LastThere') /\ [at |-> e.at, dev |-> e.dev] \in [at : Nat, dev : Machines \cup {0}]
  BY <1>2, <1>3 DEF LeaseEvents, LeaseInv, AllLapse
<1> HIDE DEF e
<1>5. CASE UNCHANGED <<lease, leaseStamp>>
  <2>1. LeaseTypes'
    BY <1>1, <1>2, <1>5 DEF LeaseInv, LeaseTypes
  <2> QED
    BY <1>1, <1>3, <1>5, <2>1 DEF LeaseInv, AllLapse
<1>6. CASE leaseStamp' = [leaseStamp EXCEPT ![m] = [at |-> e.at, dev |-> e.dev]] /\ lease' = [lease EXCEPT ![m] = e.l]
  <2>1. leaseStamp' \in [Machines -> [at : Nat, dev : Machines \cup {0}]]
    BY <1>4, <1>6 DEF LeaseInv, LeaseTypes
  <2> QED
    BY <1>1, <1>2, <1>3, <1>4, <1>6, <2>1, LeasePut
<1> QED
  BY <1>1, <1>5, <1>6

(***************************************************************************)
(* However machines stop, lose their turn or are not heard, no machine     *)
(* counts on a lease for longer than a lease's time after its session was  *)
(* last there: for any machines, sessions, clocks, leases and plans        *)
(* (renewLeases, LEASE_MS).                                                *)
(***************************************************************************)
THEOREM DeadClaimsLapse == Leasing => (Issue!Spec => []Issue!DeadLeasesLapse)
<1> SUFFICES ASSUME Leasing
             PROVE  Issue!Spec => []Issue!DeadLeasesLapse
  OBVIOUS
<1>1. Issue!Init => LeaseInv
  <2> SUFFICES ASSUME Issue!Init
               PROVE  LeaseInv
    OBVIOUS
  <2>1. /\ cnow = 1 /\ clog = <<>> /\ ses = [s \in Sessions |-> "no"] /\ died = [s \in Sessions |-> 0]
        /\ lease = [m \in Machines |-> [who |-> 0, until |-> 0, mine |-> FALSE]]
        /\ leaseStamp = [m \in Machines |-> [at |-> 0, dev |-> 0]] /\ leased = [m \in Machines |-> 0]
    BY DEF Issue!Init, Issue!NoLease, Issue!Nobody
  <2>2. \A m \in Machines : lease[m] \in LeaseT /\ lease[m].who = 0 /\ leaseStamp[m] \in [at : Nat, dev : Machines \cup {0}]
    BY <2>1 DEF LeaseT
  <2>3. /\ lease \in [Machines -> LeaseT] /\ leaseStamp \in [Machines -> [at : Nat, dev : Machines \cup {0}]]
        /\ clog \in Seq(LeaseEvents) /\ DOMAIN clog = {}
    BY <2>1, <2>2
  <2> QED
    BY <2>1, <2>2, <2>3 DEF LeaseInv, LeaseTypes, AllLapse, Lapses
<1>2. LeaseInv /\ [Issue!Next]_(Issue!cvars) => LeaseInv'
  <2> SUFFICES ASSUME LeaseInv, [Issue!Next]_(Issue!cvars)
               PROVE  LeaseInv'
    OBVIOUS
  <2>1. CASE UNCHANGED <<cnow, ses, died, lease, leaseStamp, clog, leased>>
    BY <2>1, NobodyEnds, LeasesStay
  <2>2. ASSUME NEW s \in Sessions, Issue!Dispatch(s) \/ Issue!Launched(s) \/ Issue!Exit(s) \/ \E wrote \in BOOLEAN : Issue!Claimed(s, wrote)
        PROVE  LeaseInv'
    <3>1. CASE \E wrote \in BOOLEAN : Issue!Claimed(s, wrote)
      BY <2>1, <3>1 DEF Issue!Claimed
    <3> QED
      BY <2>2, <3>1, IssueDispatchStep, IssueLaunchedStep, IssueExitStep
  <2>3. ASSUME NEW m \in Machines, Issue!Quit(m) \/ Issue!Start(m) \/ Issue!Flush(m) \/ Issue!ApplyLease(m)
        PROVE  LeaseInv'
    <3>1. CASE Issue!Start(m)
      BY <2>1, <3>1 DEF Issue!Start
    <3> QED
      BY <2>3, <3>1, IssueQuitStep, IssueFlushStep, ApplyLeaseStep
  <2>4. ASSUME NEW T \in SUBSET Machines, Issue!Tick(T)
        PROVE  LeaseInv'
    BY <2>4, IssueTickStep
  <2>5. CASE UNCHANGED Issue!cvars
    BY <2>1, <2>5 DEF Issue!cvars
  <2> QED
    BY <2>2, <2>3, <2>4, <2>5 DEF Issue!Next
<1>3. LeaseInv => Issue!DeadLeasesLapse
  <2> SUFFICES ASSUME LeaseInv, NEW m \in Machines, lease[m].who # 0
               PROVE  lease[m].until <= LEASE + (IF ses[lease[m].who] = "live" THEN cnow ELSE died[lease[m].who])
    BY DEF Issue!DeadLeasesLapse, Issue!Nobody
  <2>1. lease[m].who \in Sessions /\ lease[m].until <= LEASE + LastThere[lease[m].who]
    BY DEF LeaseInv, LeaseTypes, LeaseT, AllLapse, Lapses
  <2> QED
    BY <2>1 DEF LastThere
<1> QED
  BY <1>1, <1>2, <1>3, PTL DEF Issue!Spec

-----------------------------------------------------------------------------
(* The panes, their processes, the shelf and the roster (Lifecycle).        *)

CONSTANTS PaneIds, PaneReloads, PaneActs, Hurried
VARIABLES lifeWin, lifePane, lifeConv, lifeProc, lifeAsked, lifeShelf, lifeStored, lifeQueued, lifeReading, lifeSeen,
    lifeFile, lifeFlow, lifeResumed, lifeOver, lifeReloads, lifeActs
Life == INSTANCE Lifecycle WITH
    Panes <- PaneIds, Reloads <- PaneReloads, Acts <- PaneActs, Hasty <- Hurried,
    win <- lifeWin, pane <- lifePane, conv <- lifeConv, proc <- lifeProc, asked <- lifeAsked,
    shelf <- lifeShelf, stored <- lifeStored, queued <- lifeQueued, reading <- lifeReading, seen <- lifeSeen,
    file <- lifeFile, flow <- lifeFlow, resumed <- lifeResumed, over <- lifeOver, reloads <- lifeReloads,
    acts <- lifeActs

\* What the theorem assumes: the person waits for what is being started, stopped or read; panes are numbered from 1.
Patient == Hurried = FALSE /\ PaneIds \subseteq Nat \ {0} /\ 1 \in PaneIds

Dirs == {"main", "tree"}
PaneT == [res : PaneIds, home : Dirs, shown : Dirs]
RowT == [id : PaneIds, conv : PaneIds, dir : Dirs]
LifeTypes ==
    /\ lifeWin \in {"adopting", "reading", "up"} /\ lifePane \in [PaneIds -> PaneT \cup {Life!NoPane}]
    /\ lifeConv \in [PaneIds -> PaneIds \cup {0}]
    /\ lifeProc \in [PaneIds -> {"none", "failed", "run", "dying", "gone"}] /\ lifeAsked \subseteq PaneIds
    /\ lifeShelf \subseteq RowT /\ lifeStored \subseteq RowT /\ lifeReading \subseteq RowT
    /\ lifeFile \in [PaneIds -> Dirs] /\ lifeFlow \in [PaneIds -> {"no", "account", "move", "moving"}] /\ lifeResumed \subseteq PaneIds

\* A conversation is named by the pane that began it, and a pane that carries none has no process.
Began ==
    \A p \in PaneIds :
        /\ lifeConv[p] # 0 => lifeConv[lifeConv[p]] = lifeConv[p]
        /\ lifeConv[p] = 0 <=> lifeProc[p] = "none"
        /\ p \in lifeResumed => lifeConv[p] # 0
\* A pane is of the conversation its process carries, and knows where its transcript is; no two are of one.
PanesFit ==
    /\ \A p \in PaneIds : lifePane[p] # Life!NoPane =>
        lifeConv[p] # 0 /\ lifePane[p].res = lifeConv[p] /\ lifePane[p].home = lifeFile[lifeConv[p]]
    /\ \A p, q \in PaneIds : lifePane[p] # Life!NoPane /\ lifePane[q] # Life!NoPane /\ lifeConv[p] = lifeConv[q] => p = q
    /\ \A p \in lifeAsked : lifePane[p] # Life!NoPane
\* A row is of its pane's conversation, and knows where its transcript is.
RowOf(r) == lifeConv[r.id] = r.conv /\ r.dir = lifeFile[r.conv]
RowsFit ==
    /\ \A r \in lifeShelf \cup lifeReading : RowOf(r)
    /\ \A r \in lifeStored : lifeConv[r.id] = r.conv /\ (lifeWin # "up" => RowOf(r))
    /\ lifeWin # "up" => lifeShelf = {}
    /\ lifeWin # "reading" => lifeReading = {}
\* A row of a conversation that has a pane: its process is being started, or could not be.
RowsAside ==
    /\ \A r \in lifeShelf, p \in PaneIds :
        lifePane[p] # Life!NoPane /\ lifeConv[p] = r.conv =>
            r.id # p /\ ((p \in lifeAsked /\ lifeConv[p] # p) \/ lifeProc[p] = "failed")
    /\ \A r \in lifeReading, p \in PaneIds : lifePane[p] # Life!NoPane => lifeConv[p] # r.conv
\* A process has a pane, or will have one when the backend has been asked.
ProcsFit ==
    /\ lifeWin # "adopting" => \A p \in Life!Held : lifePane[p] # Life!NoPane
    /\ \A p, q \in Life!Held : lifeConv[p] = lifeConv[q] => p = q
    /\ lifeWin = "adopting" => \A p \in Life!Held : lifePane[p] # Life!NoPane \/ \E r \in lifeStored : r.id = p
\* The roster as it was when the window went: one row to a process, and no pane launched since is another's.
AsItWas ==
    lifeWin # "up" =>
        /\ \A r \in lifeStored : \A p \in Life!Held : lifeConv[p] = r.conv => r.id = p
        /\ lifeWin = "adopting" => \A p, q \in PaneIds : lifePane[p] # Life!NoPane /\ lifeConv[p] = lifeConv[q] => p = q
        /\ lifeWin = "reading" => \A r \in lifeStored : r \in lifeReading \/ lifePane[r.id] # Life!NoPane
        /\ \A p \in PaneIds :
            lifeFlow[p] = "no" /\ ~ (lifePane[p] # Life!NoPane /\ lifeProc[p] = "failed" /\ p \in lifeResumed)
\* What waits for a pane's exit has it still, or has the conversation to itself.
FlowsFit ==
    /\ \A p \in PaneIds : lifeFlow[p] # "no" => lifeConv[p] # 0 /\ p \notin lifeAsked
    /\ \A p \in PaneIds : lifeFlow[p] \in {"account", "move"} => lifePane[p] # Life!NoPane /\ lifeProc[p] \in {"dying", "gone"}
    /\ \A p \in PaneIds : lifeFlow[p] = "moving" =>
        /\ \A q \in PaneIds : lifePane[q] # Life!NoPane \/ (lifeFlow[q] = "moving" /\ q # p) => lifeConv[q] # lifeConv[p]
        /\ \A r \in lifeShelf : r.conv # lifeConv[p]
\* A resumption that failed leaves the row it was made from.
FailedKeepRows ==
    \A p \in PaneIds : lifePane[p] # Life!NoPane /\ lifeProc[p] = "failed" /\ p \in lifeResumed =>
        lifeConv[p] \in lifeOver \/ \E r \in lifeShelf : r.conv = lifeConv[p]
\* Each conversation has a pane, a row, or a move under way.
Kept ==
    \A p \in PaneIds : lifeConv[p] \in {0} \cup lifeOver \/
        \/ \E q \in PaneIds : lifePane[q] # Life!NoPane /\ lifeConv[q] = lifeConv[p]
        \/ lifeWin = "up" /\ \E q \in PaneIds : lifeFlow[q] = "moving" /\ lifeConv[q] = lifeConv[p]
        \/ \E r \in IF lifeWin = "up" THEN lifeShelf ELSE lifeStored : r.conv = lifeConv[p]
LifeInv ==
    LifeTypes /\ Began /\ PanesFit /\ RowsFit /\ RowsAside /\ ProcsFit /\ AsItWas /\ FlowsFit /\ FailedKeepRows /\ Kept

Core == <<lifeWin, lifePane, lifeConv, lifeProc, lifeAsked, lifeShelf, lifeReading, lifeFile, lifeFlow, lifeResumed, lifeOver>>

LEMMA NoPaneIsNone == ASSUME Patient PROVE Life!NoPane \notin PaneT
BY DEF Patient, Life!NoPane, PaneT

LEMMA RosterRows ==
    ASSUME NEW panes \in [PaneIds -> PaneT \cup {Life!NoPane}], NEW rows \in SUBSET RowT, NEW r \in Life!Roster(panes, rows)
    PROVE  /\ r \in RowT
           /\ \/ panes[r.id] # Life!NoPane /\ r.conv = panes[r.id].res /\ r.dir = panes[r.id].home
              \/ panes[r.id] = Life!NoPane /\ r \in rows
<1>1. CASE r \in rows /\ r.id \notin Life!IsOpen(panes)
  BY <1>1 DEF Life!IsOpen, RowT
<1>2. CASE ~ (r \in rows /\ r.id \notin Life!IsOpen(panes))
  <2>1. PICK p \in Life!IsOpen(panes) : r = Life!RosterEntry(p, panes[p])
    BY <1>2 DEF Life!Roster
  <2>2. p \in PaneIds /\ panes[p] \in PaneT /\ panes[p] # Life!NoPane
    BY <2>1 DEF Life!IsOpen
  <2>3. r = [id |-> p, conv |-> panes[p].res, dir |-> panes[p].home] /\ panes[p].res \in PaneIds /\ panes[p].home \in Dirs
    BY <2>1, <2>2 DEF Life!RosterEntry, PaneT
  <2> QED
    BY <2>2, <2>3 DEF RowT
<1> QED
  BY <1>1, <1>2

LEMMA RosterHas ==
    ASSUME NEW panes \in [PaneIds -> PaneT \cup {Life!NoPane}], NEW rows \in SUBSET RowT
    PROVE  /\ \A p \in PaneIds : panes[p] # Life!NoPane => \E r \in Life!Roster(panes, rows) : r.id = p /\ r.conv = panes[p].res
           /\ \A r \in rows : panes[r.id] = Life!NoPane => r \in Life!Roster(panes, rows)
<1>1. ASSUME NEW p \in PaneIds, panes[p] # Life!NoPane
      PROVE  \E r \in Life!Roster(panes, rows) : r.id = p /\ r.conv = panes[p].res
  <2>1. Life!RosterEntry(p, panes[p]) \in Life!Roster(panes, rows)
    BY <1>1 DEF Life!Roster, Life!IsOpen
  <2> QED
    BY <2>1 DEF Life!RosterEntry
<1>2. ASSUME NEW r \in rows, panes[r.id] = Life!NoPane
      PROVE  r \in Life!Roster(panes, rows)
  BY <1>2 DEF Life!Roster, Life!IsOpen
<1> QED
  BY <1>1, <1>2

LEMMA LifeBegins ==
    ASSUME Patient, Life!Init
    PROVE  LifeInv
<1>1. /\ lifeWin = "up" /\ lifeAsked = {} /\ lifeShelf = {} /\ lifeReading = {} /\ lifeResumed = {} /\ lifeOver = {}
      /\ lifePane \in [PaneIds -> PaneT \cup {Life!NoPane}] /\ lifeConv \in [PaneIds -> PaneIds \cup {0}]
      /\ lifeProc \in [PaneIds -> {"none", "failed", "run", "dying", "gone"}]
      /\ lifeFile \in [PaneIds -> Dirs] /\ lifeFlow \in [PaneIds -> {"no", "account", "move", "moving"}]
      /\ lifeStored = {[id |-> 1, conv |-> 1, dir |-> "main"]}
  BY DEF Life!Init, Patient, PaneT, Dirs
<1>2. /\ lifeConv[1] = 1 /\ lifeProc[1] = "run" /\ lifePane[1].res = 1 /\ lifePane[1].home = "main" /\ lifeFile[1] = "main" /\ 1 \in PaneIds
      /\ \A p \in PaneIds : p # 1 => lifeConv[p] = 0 /\ lifeProc[p] = "none" /\ lifePane[p] = Life!NoPane
      /\ \A p \in PaneIds : lifeFlow[p] = "no"
      /\ lifePane[1] # Life!NoPane
  BY DEF Life!Init, Patient, Life!NoPane
<1>3. lifeStored \subseteq RowT
  BY <1>1, <1>2 DEF RowT, Dirs
<1>4. LifeTypes
  BY <1>1, <1>3 DEF LifeTypes
<1>5. Began /\ PanesFit /\ ProcsFit /\ FlowsFit /\ Kept
  <2>1. Began
    BY <1>1, <1>2 DEF Began, Patient
  <2>2. PanesFit
    BY <1>1, <1>2 DEF PanesFit
  <2>3. ProcsFit
    BY <1>1, <1>2 DEF ProcsFit, Life!Held
  <2>4. FlowsFit
    BY <1>1, <1>2 DEF FlowsFit
  <2>5. Kept
    BY <1>1, <1>2 DEF Kept
  <2> QED
    BY <2>1, <2>2, <2>3, <2>4, <2>5
<1>6. RowsFit /\ RowsAside /\ AsItWas /\ FailedKeepRows
  BY <1>1, <1>2 DEF RowsFit, RowsAside, AsItWas, FailedKeepRows
<1> QED
  BY <1>4, <1>5, <1>6 DEF LifeInv

\* A save writes the open panes and the rows, once the roster has been read; nothing else rests on it then.
LEMMA SavesStep ==
    ASSUME Patient, LifeInv, UNCHANGED Core, lifeStored' = Life!SaveRoster(lifePane, lifeShelf)
    PROVE  LifeInv'
<1>1. /\ UNCHANGED <<lifeWin, lifePane, lifeConv, lifeProc, lifeAsked, lifeShelf, lifeReading, lifeFile, lifeFlow, lifeResumed, lifeOver>>
      /\ lifeWin # "up" => lifeStored' = lifeStored
      /\ lifeWin = "up" => lifeStored' = Life!Roster(lifePane, lifeShelf)
  BY DEF Core, Life!SaveRoster
<1>2. lifePane \in [PaneIds -> PaneT \cup {Life!NoPane}] /\ lifeShelf \in SUBSET RowT
  BY DEF LifeInv, LifeTypes
<1>3. \A r \in Life!Roster(lifePane, lifeShelf) : r \in RowT /\ lifeConv[r.id] = r.conv
  BY <1>2, RosterRows DEF LifeInv, PanesFit, RowsFit, RowOf, RowT
<1>4. LifeTypes'
  BY <1>1, <1>3 DEF LifeInv, LifeTypes
<1>5. RowsFit'
  BY <1>1, <1>3 DEF LifeInv, RowsFit, RowOf
<1> QED
  BY <1>1, <1>4, <1>5 DEF LifeInv, Began, PanesFit, RowsAside, ProcsFit, Life!Held, AsItWas, FlowsFit, FailedKeepRows, Kept

LEMMA IdleStep ==
    ASSUME LifeInv, UNCHANGED Core, UNCHANGED lifeStored
    PROVE  LifeInv'
BY DEF Core, LifeInv, LifeTypes, Began, PanesFit, RowsFit, RowOf, RowsAside, ProcsFit, Life!Held, AsItWas, FlowsFit, FailedKeepRows, Kept

LEMMA ExitStep ==
    ASSUME Patient, LifeInv, NEW p \in PaneIds, Life!Exit(p)
    PROVE  LifeInv'
<1>1. /\ UNCHANGED <<lifeWin, lifePane, lifeConv, lifeAsked, lifeShelf, lifeStored, lifeReading, lifeFile, lifeFlow, lifeResumed, lifeOver>>
      /\ lifeProc[p] \in {"run", "dying"} /\ lifeProc' = [lifeProc EXCEPT ![p] = "gone"]
  BY DEF Life!Exit
<1>2. /\ lifeProc' \in [PaneIds -> {"none", "failed", "run", "dying", "gone"}] /\ lifeProc'[p] = "gone"
      /\ \A q \in PaneIds : q # p => lifeProc'[q] = lifeProc[q]
  BY <1>1 DEF LifeInv, LifeTypes
<1>3. Life!Held' \subseteq Life!Held
  BY <1>1, <1>2 DEF Life!Held
<1>4. LifeTypes'
  BY <1>1, <1>2 DEF LifeInv, LifeTypes
<1>5. Began'
  BY <1>1, <1>2 DEF LifeInv, Began
<1>6. PanesFit' /\ RowsFit'
  BY <1>1 DEF LifeInv, PanesFit, RowsFit, RowOf
<1>7. RowsAside'
  BY <1>1, <1>2 DEF LifeInv, RowsAside
<1>8. ProcsFit'
  BY <1>1, <1>3 DEF LifeInv, ProcsFit
<1>9. AsItWas'
  BY <1>1, <1>2, <1>3 DEF LifeInv, AsItWas
<1>10. FlowsFit'
  BY <1>1, <1>2 DEF LifeInv, FlowsFit
<1>11. FailedKeepRows'
  BY <1>1, <1>2 DEF LifeInv, FailedKeepRows
<1>12. Kept'
  BY <1>1 DEF LifeInv, Kept
<1> QED
  BY <1>4, <1>5, <1>6, <1>7, <1>8, <1>9, <1>10, <1>11, <1>12 DEF LifeInv

LEMMA SpawnedStep ==
    ASSUME Patient, LifeInv, NEW p \in PaneIds, Life!Spawned(p)
    PROVE  LifeInv'
<1>1. /\ UNCHANGED <<lifeWin, lifePane, lifeConv, lifeProc, lifeStored, lifeReading, lifeFile, lifeFlow, lifeResumed, lifeOver>>
      /\ p \in lifeAsked /\ lifeAsked' = lifeAsked \ {p} /\ lifeShelf' = Life!RowsAfter(p)
  BY DEF Life!Spawned
<1>2. /\ lifeShelf' \subseteq lifeShelf
      /\ \A r \in lifeShelf : r \in lifeShelf' \/ (r.conv = lifeConv[p] /\ lifeConv[p] # p /\ lifeProc[p] # "failed")
      /\ lifeConv[p] # p /\ lifeProc[p] # "failed" => \A r \in lifeShelf' : r.conv # lifeConv[p]
  BY <1>1 DEF Life!RowsAfter
<1>3. lifePane[p] # Life!NoPane
  BY <1>1 DEF LifeInv, PanesFit
<1>4. LifeTypes'
  BY <1>1, <1>2 DEF LifeInv, LifeTypes
<1>5. Began'
  BY <1>1 DEF LifeInv, Began
<1>6. PanesFit'
  BY <1>1 DEF LifeInv, PanesFit
<1>7. RowsFit'
  BY <1>1, <1>2 DEF LifeInv, RowsFit, RowOf
<1>8. RowsAside'
  <2> SUFFICES ASSUME NEW r \in lifeShelf', NEW q \in PaneIds, lifePane[q] # Life!NoPane, lifeConv[q] = r.conv
               PROVE  r.id # q /\ ((q \in lifeAsked' /\ lifeConv[q] # q) \/ lifeProc[q] = "failed")
    BY <1>1 DEF LifeInv, RowsAside
  <2>1. r.id # q /\ ((q \in lifeAsked /\ lifeConv[q] # q) \/ lifeProc[q] = "failed")
    BY <1>2 DEF LifeInv, RowsAside
  <2> QED
    BY <1>1, <1>2, <2>1
<1>9. ProcsFit'
  BY <1>1 DEF LifeInv, ProcsFit, Life!Held
<1>10. AsItWas'
  BY <1>1 DEF LifeInv, AsItWas, Life!Held
<1>11. FlowsFit'
  BY <1>1, <1>2 DEF LifeInv, FlowsFit
<1>12. FailedKeepRows'
  <2> SUFFICES ASSUME NEW q \in PaneIds, lifePane[q] # Life!NoPane, lifeProc[q] = "failed", q \in lifeResumed, lifeConv[q] \notin lifeOver
               PROVE  \E r \in lifeShelf' : r.conv = lifeConv[q]
    BY <1>1 DEF FailedKeepRows
  <2>1. PICK r \in lifeShelf : r.conv = lifeConv[q]
    BY DEF LifeInv, FailedKeepRows
  <2>2. lifeConv[q] = lifeConv[p] => q = p
    BY <1>3 DEF LifeInv, PanesFit
  <2> QED
    BY <1>2, <2>1, <2>2
<1>13. Kept'
  <2> SUFFICES ASSUME NEW q \in PaneIds, lifeConv[q] \notin {0} \cup lifeOver,
                      \A x \in PaneIds : ~ (lifePane[x] # Life!NoPane /\ lifeConv[x] = lifeConv[q]),
                      ~ (lifeWin = "up" /\ \E x \in PaneIds : lifeFlow[x] = "moving" /\ lifeConv[x] = lifeConv[q])
               PROVE  \E r \in (IF lifeWin = "up" THEN lifeShelf' ELSE lifeStored) : r.conv = lifeConv[q]
    BY <1>1 DEF Kept
  <2>1. PICK r \in (IF lifeWin = "up" THEN lifeShelf ELSE lifeStored) : r.conv = lifeConv[q]
    BY DEF LifeInv, Kept
  <2> QED
    BY <1>2, <1>3, <2>1
<1> QED
  BY <1>4, <1>5, <1>6, <1>7, <1>8, <1>9, <1>10, <1>11, <1>12, <1>13 DEF LifeInv

\* What a pane's end leaves: the others, and its process told to stop.
LEMMA Closes ==
    ASSUME Patient, LifeInv, NEW p \in PaneIds
    PROVE  /\ Life!Without(p) \in [PaneIds -> PaneT \cup {Life!NoPane}] /\ Life!Without(p)[p] = Life!NoPane
           /\ \A q \in PaneIds : q # p => Life!Without(p)[q] = lifePane[q]
           /\ Life!Killed(p) \in [PaneIds -> {"none", "failed", "run", "dying", "gone"}]
           /\ Life!Killed(p)[p] # "run" /\ (Life!Killed(p)[p] = "none" <=> lifeProc[p] = "none")
           /\ (Life!Killed(p)[p] = "failed" <=> lifeProc[p] = "failed")
           /\ Life!Killed(p)[p] \in {"dying", "gone"} <=> lifeProc[p] \in {"run", "dying", "gone"}
           /\ \A q \in PaneIds : q # p => Life!Killed(p)[q] = lifeProc[q]
BY DEF LifeInv, LifeTypes, Life!Without, Life!Killed

\* Closing what waits for nothing, with the rows as they are or with one more for it.
LEMMA CloseStep ==
    ASSUME Patient, LifeInv, NEW p \in PaneIds, Life!Close(p)
    PROVE  LifeInv'
<1>1. /\ UNCHANGED <<lifeWin, lifeConv, lifeAsked, lifeShelf, lifeReading, lifeFile, lifeFlow, lifeResumed>>
      /\ lifePane[p] # Life!NoPane /\ lifeWin = "up" /\ p \notin lifeAsked /\ lifeFlow[p] = "no"
      /\ lifePane' = Life!Without(p) /\ lifeProc' = Life!Killed(p)
      /\ lifeStored' = Life!Roster(lifePane', lifeShelf)
      /\ lifeOver' = IF lifeProc[p] = "failed" /\ p \in lifeResumed THEN lifeOver ELSE lifeOver \cup {lifePane[p].res}
  BY DEF Life!Close, Life!Flush, Life!SaveRoster, Life!Settled, Patient
<1>2. /\ lifePane' \in [PaneIds -> PaneT \cup {Life!NoPane}] /\ lifePane'[p] = Life!NoPane
      /\ \A q \in PaneIds : q # p => lifePane'[q] = lifePane[q]
      /\ lifeProc' \in [PaneIds -> {"none", "failed", "run", "dying", "gone"}]
      /\ lifeProc'[p] # "run" /\ (lifeProc'[p] = "none" <=> lifeProc[p] = "none")
      /\ (lifeProc'[p] = "failed" <=> lifeProc[p] = "failed")
      /\ \A q \in PaneIds : q # p => lifeProc'[q] = lifeProc[q]
  BY <1>1, Closes
<1>3. lifePane[p].res = lifeConv[p] /\ lifeConv[p] # 0 /\ lifeOver \subseteq lifeOver' /\ lifeOver' \subseteq lifeOver \cup {lifeConv[p]}
  BY <1>1 DEF LifeInv, PanesFit
<1>4. lifeShelf \in SUBSET RowT
  BY DEF LifeInv, LifeTypes
<1>5. \A r \in lifeStored' : r \in RowT /\ lifeConv[r.id] = r.conv
  <2> SUFFICES ASSUME NEW r \in lifeStored'
               PROVE  r \in RowT /\ lifeConv[r.id] = r.conv
    OBVIOUS
  <2>1. r \in RowT /\ (\/ lifePane'[r.id] # Life!NoPane /\ r.conv = lifePane'[r.id].res
                       \/ r \in lifeShelf)
    BY <1>1, <1>2, <1>4, RosterRows
  <2>2. r.id \in PaneIds
    BY <2>1 DEF RowT
  <2> QED
    BY <1>2, <2>1, <2>2 DEF LifeInv, PanesFit, RowsFit, RowOf
<1>6. LifeTypes'
  BY <1>1, <1>2, <1>5 DEF LifeInv, LifeTypes
<1>7. Began'
  BY <1>1, <1>2 DEF LifeInv, Began
<1>8. PanesFit'
  BY <1>1, <1>2 DEF LifeInv, LifeTypes, PanesFit
<1>9. RowsFit'
  BY <1>1, <1>5 DEF LifeInv, RowsFit, RowOf
<1>10. RowsAside'
  BY <1>1, <1>2 DEF LifeInv, RowsAside
<1>11. ProcsFit'
  BY <1>1, <1>2 DEF LifeInv, ProcsFit, Life!Held
<1>12. AsItWas'
  BY <1>1 DEF AsItWas
<1>13. FlowsFit'
  <2>1. \A q \in PaneIds : lifeFlow[q] # "no" => q # p /\ lifeConv[q] # 0 /\ q \notin lifeAsked
    BY <1>1 DEF LifeInv, FlowsFit
  <2>2. \A q \in PaneIds : lifeFlow[q] \in {"account", "move"} => lifePane'[q] # Life!NoPane /\ lifeProc'[q] \in {"dying", "gone"}
    BY <1>1, <1>2, <2>1 DEF LifeInv, FlowsFit
  <2>3. \A q, x \in PaneIds : lifeFlow[q] = "moving" /\ (lifePane'[x] # Life!NoPane \/ (lifeFlow[x] = "moving" /\ x # q)) => lifeConv[x] # lifeConv[q]
    BY <1>2 DEF LifeInv, FlowsFit
  <2>4. \A q \in PaneIds, r \in lifeShelf' : lifeFlow[q] = "moving" => r.conv # lifeConv[q]
    BY <1>1 DEF LifeInv, FlowsFit
  <2> QED
    BY <1>1, <2>1, <2>2, <2>3, <2>4 DEF FlowsFit
<1>14. FailedKeepRows'
  BY <1>1, <1>2, <1>3 DEF LifeInv, FailedKeepRows
<1>15. Kept'
  <2> SUFFICES ASSUME NEW q \in PaneIds, lifeConv[q] \notin {0} \cup lifeOver',
                      \A x \in PaneIds : ~ (lifePane'[x] # Life!NoPane /\ lifeConv[x] = lifeConv[q])
               PROVE  \/ \E x \in PaneIds : lifeFlow[x] = "moving" /\ lifeConv[x] = lifeConv[q]
                      \/ \E r \in lifeShelf : r.conv = lifeConv[q]
    BY <1>1 DEF Kept
  <2>1. lifeConv[q] \notin {0} \cup lifeOver
    BY <1>3
  <2>2. CASE \E x \in PaneIds : lifePane[x] # Life!NoPane /\ lifeConv[x] = lifeConv[q]
    <3>1. lifeConv[q] = lifeConv[p]
      BY <1>2, <2>2
    <3>2. lifeProc[p] = "failed" /\ p \in lifeResumed
      BY <1>1, <1>3, <3>1
    <3> QED
      BY <1>1, <2>1, <3>1, <3>2 DEF LifeInv, FailedKeepRows
  <2>3. CASE ~ \E x \in PaneIds : lifePane[x] # Life!NoPane /\ lifeConv[x] = lifeConv[q]
    BY <1>1, <2>1, <2>3 DEF LifeInv, Kept
  <2> QED
    BY <2>2, <2>3
<1> QED
  BY <1>6, <1>7, <1>8, <1>9, <1>10, <1>11, <1>12, <1>13, <1>14, <1>15 DEF LifeInv

LEMMA ShelveStep ==
    ASSUME Patient, LifeInv, NEW p \in PaneIds, Life!Shelve(p)
    PROVE  LifeInv'
<1>1. /\ UNCHANGED <<lifeWin, lifeConv, lifeAsked, lifeReading, lifeFile, lifeFlow, lifeResumed, lifeOver>>
      /\ lifePane[p] # Life!NoPane /\ lifeWin = "up" /\ p \notin lifeAsked /\ lifeFlow[p] = "no"
      /\ lifePane' = Life!Without(p) /\ lifeProc' = Life!Killed(p) /\ lifeShelf' = Life!ShelvedRow(p)
      /\ lifeStored' = Life!Roster(lifePane', lifeShelf')
  BY DEF Life!Shelve, Life!Flush, Life!SaveRoster, Life!Settled, Patient
<1>2. /\ lifePane' \in [PaneIds -> PaneT \cup {Life!NoPane}] /\ lifePane'[p] = Life!NoPane
      /\ \A q \in PaneIds : q # p => lifePane'[q] = lifePane[q]
      /\ lifeProc' \in [PaneIds -> {"none", "failed", "run", "dying", "gone"}]
      /\ lifeProc'[p] # "run" /\ (lifeProc'[p] = "none" <=> lifeProc[p] = "none")
      /\ (lifeProc'[p] = "failed" <=> lifeProc[p] = "failed")
      /\ \A q \in PaneIds : q # p => lifeProc'[q] = lifeProc[q]
  BY <1>1, Closes
<1> DEFINE e == Life!RosterEntry(p, lifePane[p])
<1>3. /\ lifePane[p] \in PaneT /\ lifePane[p].res = lifeConv[p] /\ lifeConv[p] # 0 /\ lifePane[p].home = lifeFile[lifeConv[p]]
      /\ e \in RowT /\ e.id = p /\ e.conv = lifeConv[p] /\ e.dir = lifeFile[lifeConv[p]]
  <2>1. lifePane[p] \in PaneT /\ lifePane[p].res = lifeConv[p] /\ lifeConv[p] # 0 /\ lifePane[p].home = lifeFile[lifeConv[p]]
    BY <1>1 DEF LifeInv, LifeTypes, PanesFit
  <2> QED
    BY <2>1 DEF Life!RosterEntry, RowT, PaneT
<1>4. /\ e \in lifeShelf' /\ \A r \in lifeShelf' : r = e \/ r \in lifeShelf
      /\ \A r \in lifeShelf : \E x \in lifeShelf' : x.conv = r.conv
  <2>1. e \in lifeShelf' /\ \A r \in lifeShelf' : r = e \/ r \in lifeShelf
    BY <1>1 DEF Life!ShelvedRow
  <2>2. ASSUME NEW r \in lifeShelf
        PROVE  \E x \in lifeShelf' : x.conv = r.conv
    <3>1. CASE r.id = p
      BY <1>3, <2>1, <3>1 DEF LifeInv, RowsFit, RowOf
    <3>2. CASE r.id # p
      BY <1>1, <3>2 DEF Life!ShelvedRow
    <3> QED
      BY <3>1, <3>2
  <2> QED
    BY <2>1, <2>2
<1>5. lifeShelf' \in SUBSET RowT /\ \A r \in lifeShelf' : RowOf(r)
  <2>1. RowOf(e)
    BY <1>3 DEF RowOf
  <2> QED
    BY <1>3, <1>4, <2>1 DEF LifeInv, LifeTypes, RowsFit
<1>6. \A r \in lifeStored' : r \in RowT /\ lifeConv[r.id] = r.conv
  <2> SUFFICES ASSUME NEW r \in lifeStored'
               PROVE  r \in RowT /\ lifeConv[r.id] = r.conv
    OBVIOUS
  <2>1. r \in RowT /\ (\/ lifePane'[r.id] # Life!NoPane /\ r.conv = lifePane'[r.id].res
                       \/ r \in lifeShelf')
    BY <1>1, <1>2, <1>5, RosterRows
  <2>2. r.id \in PaneIds
    BY <2>1 DEF RowT
  <2> QED
    BY <1>2, <1>5, <2>1, <2>2 DEF LifeInv, PanesFit, RowOf
<1>7. LifeTypes'
  BY <1>1, <1>2, <1>5, <1>6 DEF LifeInv, LifeTypes
<1>8. Began'
  BY <1>1, <1>2 DEF LifeInv, Began
<1>9. PanesFit'
  BY <1>1, <1>2 DEF LifeInv, LifeTypes, PanesFit
<1>10. RowsFit'
  BY <1>1, <1>5, <1>6 DEF LifeInv, RowsFit, RowOf
<1>11. RowsAside'
  <2> SUFFICES ASSUME NEW r \in lifeShelf', NEW q \in PaneIds, lifePane'[q] # Life!NoPane, lifeConv[q] = r.conv
               PROVE  r.id # q /\ ((q \in lifeAsked /\ lifeConv[q] # q) \/ lifeProc'[q] = "failed")
    BY <1>1 DEF LifeInv, RowsFit, RowsAside
  <2>1. q # p /\ lifePane[q] # Life!NoPane
    BY <1>2
  <2>2. r # e
    BY <1>1, <1>3, <2>1 DEF LifeInv, PanesFit
  <2>3. r \in lifeShelf
    BY <1>4, <2>2
  <2> QED
    BY <1>2, <2>1, <2>3 DEF LifeInv, RowsAside
<1>12. ProcsFit'
  BY <1>1, <1>2 DEF LifeInv, ProcsFit, Life!Held
<1>13. AsItWas'
  BY <1>1 DEF AsItWas
<1>14. FlowsFit'
  <2>1. \A q \in PaneIds : lifeFlow[q] # "no" => q # p /\ lifeConv[q] # 0 /\ q \notin lifeAsked
    BY <1>1 DEF LifeInv, FlowsFit
  <2>2. \A q \in PaneIds : lifeFlow[q] \in {"account", "move"} => lifePane'[q] # Life!NoPane /\ lifeProc'[q] \in {"dying", "gone"}
    BY <1>1, <1>2, <2>1 DEF LifeInv, FlowsFit
  <2>3. \A q, x \in PaneIds : lifeFlow[q] = "moving" /\ (lifePane'[x] # Life!NoPane \/ (lifeFlow[x] = "moving" /\ x # q)) => lifeConv[x] # lifeConv[q]
    BY <1>2 DEF LifeInv, FlowsFit
  <2>4. \A q \in PaneIds, r \in lifeShelf' : lifeFlow[q] = "moving" => r.conv # lifeConv[q]
    <3>1. \A q \in PaneIds : lifeFlow[q] = "moving" => lifeConv[p] # lifeConv[q]
      BY <1>1 DEF LifeInv, FlowsFit
    <3> QED
      BY <1>3, <1>4, <3>1 DEF LifeInv, FlowsFit
  <2> QED
    BY <1>1, <2>1, <2>2, <2>3, <2>4 DEF FlowsFit
<1>15. FailedKeepRows'
  BY <1>1, <1>2, <1>4 DEF LifeInv, FailedKeepRows
<1>16. Kept'
  <2> SUFFICES ASSUME NEW q \in PaneIds, lifeConv[q] \notin {0} \cup lifeOver,
                      \A x \in PaneIds : ~ (lifePane'[x] # Life!NoPane /\ lifeConv[x] = lifeConv[q]),
                      ~ \E x \in PaneIds : lifeFlow[x] = "moving" /\ lifeConv[x] = lifeConv[q]
               PROVE  \E r \in lifeShelf' : r.conv = lifeConv[q]
    BY <1>1 DEF Kept
  <2>1. CASE lifeConv[q] = lifeConv[p]
    BY <1>3, <1>4, <2>1
  <2>2. CASE lifeConv[q] # lifeConv[p]
    <3>1. \E r \in lifeShelf : r.conv = lifeConv[q]
      BY <1>1, <1>2, <2>2 DEF LifeInv, Kept
    <3> QED
      BY <1>4, <3>1
  <2> QED
    BY <2>1, <2>2
<1> QED
  BY <1>7, <1>8, <1>9, <1>10, <1>11, <1>12, <1>13, <1>14, <1>15, <1>16 DEF LifeInv

LEMMA ForgetStep ==
    ASSUME Patient, LifeInv, NEW r \in lifeShelf, Life!Forget(r)
    PROVE  LifeInv'
<1>1. /\ UNCHANGED <<lifeWin, lifePane, lifeConv, lifeProc, lifeAsked, lifeReading, lifeFile, lifeFlow, lifeResumed>>
      /\ lifeShelf' = {x \in lifeShelf : x.id # r.id} /\ lifeOver' = lifeOver \cup {r.conv}
      /\ lifeStored' = Life!Roster(lifePane, lifeShelf') /\ lifeWin = "up"
  BY DEF Life!Forget, Life!Flush, Life!SaveRoster, LifeInv, RowsFit, LifeTypes
<1>2. /\ lifeShelf' \in SUBSET RowT /\ lifeShelf' \subseteq lifeShelf /\ \A x \in lifeShelf : x \in lifeShelf' \/ x.conv = r.conv
      /\ lifePane \in [PaneIds -> PaneT \cup {Life!NoPane}]
  BY <1>1 DEF LifeInv, LifeTypes, RowsFit, RowOf
<1>3. \A x \in lifeStored' : x \in RowT /\ lifeConv[x.id] = x.conv
  <2> SUFFICES ASSUME NEW x \in lifeStored'
               PROVE  x \in RowT /\ lifeConv[x.id] = x.conv
    OBVIOUS
  <2>1. x \in RowT /\ (\/ lifePane[x.id] # Life!NoPane /\ x.conv = lifePane[x.id].res
                       \/ x \in lifeShelf)
    BY <1>1, <1>2, RosterRows
  <2>2. x.id \in PaneIds
    BY <2>1 DEF RowT
  <2> QED
    BY <2>1, <2>2 DEF LifeInv, PanesFit, RowsFit, RowOf
<1>4. LifeTypes'
  BY <1>1, <1>2, <1>3 DEF LifeInv, LifeTypes
<1>5. Began' /\ PanesFit' /\ ProcsFit' /\ AsItWas'
  BY <1>1 DEF LifeInv, Began, PanesFit, ProcsFit, Life!Held, AsItWas
<1>6. RowsFit' /\ RowsAside' /\ FlowsFit'
  BY <1>1, <1>2, <1>3 DEF LifeInv, RowsFit, RowOf, RowsAside, FlowsFit
<1>7. FailedKeepRows'
  BY <1>1, <1>2 DEF LifeInv, FailedKeepRows
<1>8. Kept'
  <2> SUFFICES ASSUME NEW q \in PaneIds, lifeConv[q] \notin {0} \cup lifeOver',
                      \A x \in PaneIds : ~ (lifePane[x] # Life!NoPane /\ lifeConv[x] = lifeConv[q]),
                      ~ \E x \in PaneIds : lifeFlow[x] = "moving" /\ lifeConv[x] = lifeConv[q]
               PROVE  \E x \in lifeShelf' : x.conv = lifeConv[q]
    BY <1>1 DEF Kept
  <2>1. \E x \in lifeShelf : x.conv = lifeConv[q]
    BY <1>1 DEF LifeInv, Kept
  <2> QED
    BY <1>1, <1>2, <2>1
<1> QED
  BY <1>4, <1>5, <1>6, <1>7, <1>8 DEF LifeInv

LEMMA TrackStep ==
    ASSUME Patient, LifeInv, NEW p \in PaneIds, Life!Track(p)
    PROVE  LifeInv'
<1>1. /\ UNCHANGED <<lifeWin, lifeConv, lifeProc, lifeAsked, lifeShelf, lifeStored, lifeReading, lifeFile, lifeFlow, lifeResumed, lifeOver>>
      /\ lifePane[p] # Life!NoPane /\ lifePane' = [lifePane EXCEPT ![p].shown = Life!Other(@)]
  BY DEF Life!Track
<1>2. lifePane[p] \in PaneT
  BY <1>1 DEF LifeInv, LifeTypes
<1>3. /\ lifePane'[p] \in PaneT /\ lifePane'[p].res = lifePane[p].res /\ lifePane'[p].home = lifePane[p].home
      /\ \A q \in PaneIds : q # p => lifePane'[q] = lifePane[q]
      /\ lifePane' \in [PaneIds -> PaneT \cup {Life!NoPane}]
  BY <1>1, <1>2 DEF LifeInv, LifeTypes, PaneT, Life!Other, Dirs
<1>4. \A q \in PaneIds : lifePane'[q] # Life!NoPane <=> lifePane[q] # Life!NoPane
  BY <1>1, <1>3, NoPaneIsNone
<1>5. LifeTypes'
  BY <1>1, <1>3 DEF LifeInv, LifeTypes
<1>6. PanesFit'
  BY <1>1, <1>3, <1>4 DEF LifeInv, LifeTypes, PanesFit
<1>7. Began' /\ RowsFit'
  BY <1>1 DEF LifeInv, Began, RowsFit, RowOf
<1>8. RowsAside'
  BY <1>1, <1>4 DEF LifeInv, RowsAside
<1>9. ProcsFit'
  BY <1>1, <1>4 DEF LifeInv, ProcsFit, Life!Held
<1>10. AsItWas'
  <2>1. \A r \in lifeStored : r.id \in PaneIds
    BY DEF LifeInv, LifeTypes, RowT
  <2> QED
    BY <1>1, <1>4, <2>1 DEF LifeInv, AsItWas, Life!Held
<1>11. FlowsFit' /\ FailedKeepRows' /\ Kept'
  BY <1>1, <1>4 DEF LifeInv, FlowsFit, FailedKeepRows, Kept
<1> QED
  BY <1>5, <1>6, <1>7, <1>8, <1>9, <1>10, <1>11 DEF LifeInv

LEMMA StopStep ==
    ASSUME Patient, LifeInv, NEW p \in PaneIds, Life!Stop(p)
    PROVE  LifeInv'
<1>1. /\ UNCHANGED <<lifeWin, lifePane, lifeConv, lifeAsked, lifeShelf, lifeStored, lifeReading, lifeFile, lifeResumed, lifeOver>>
      /\ lifePane[p] # Life!NoPane /\ lifeProc[p] = "run" /\ lifeWin = "up" /\ p \notin lifeAsked /\ lifeFlow[p] = "no"
      /\ lifeProc' = Life!Killed(p)
      /\ \E f \in {"account", "move"} : lifeFlow' = [lifeFlow EXCEPT ![p] = f]
  BY DEF Life!Stop, Life!Settled, Patient
<1>2. /\ lifeProc' \in [PaneIds -> {"none", "failed", "run", "dying", "gone"}]
      /\ lifeProc'[p] = "dying" /\ \A q \in PaneIds : q # p => lifeProc'[q] = lifeProc[q]
  BY <1>1 DEF LifeInv, LifeTypes, Life!Killed
<1>3. /\ lifeFlow' \in [PaneIds -> {"no", "account", "move", "moving"}] /\ lifeFlow'[p] \in {"account", "move"}
      /\ \A q \in PaneIds : q # p => lifeFlow'[q] = lifeFlow[q]
  BY <1>1 DEF LifeInv, LifeTypes
<1>4. LifeTypes' /\ PanesFit' /\ RowsFit'
  BY <1>1, <1>2, <1>3 DEF LifeInv, LifeTypes, PanesFit, RowsFit, RowOf
<1>5. Began' /\ RowsAside' /\ FailedKeepRows'
  BY <1>1, <1>2 DEF LifeInv, Began, RowsAside, FailedKeepRows
<1>6. ProcsFit' /\ AsItWas'
  BY <1>1, <1>2 DEF LifeInv, ProcsFit, Life!Held, AsItWas
<1>7. FlowsFit'
  <2>1. \A q \in PaneIds : lifeFlow[q] = "moving" => q # p
    BY <1>1
  <2>2. \A q, x \in PaneIds : lifeFlow'[q] = "moving" /\ (lifePane[x] # Life!NoPane \/ (lifeFlow'[x] = "moving" /\ x # q)) => lifeConv[x] # lifeConv[q]
    BY <1>3 DEF LifeInv, FlowsFit
  <2>3. \A q \in PaneIds : lifeFlow'[q] # "no" => lifeConv[q] # 0 /\ q \notin lifeAsked
    BY <1>1, <1>3 DEF LifeInv, FlowsFit, PanesFit
  <2>4. \A q \in PaneIds : lifeFlow'[q] \in {"account", "move"} => lifePane[q] # Life!NoPane /\ lifeProc'[q] \in {"dying", "gone"}
    BY <1>1, <1>2, <1>3 DEF LifeInv, FlowsFit
  <2>5. \A q \in PaneIds, r \in lifeShelf : lifeFlow'[q] = "moving" => r.conv # lifeConv[q]
    BY <1>3 DEF LifeInv, FlowsFit
  <2> QED
    BY <1>1, <2>2, <2>3, <2>4, <2>5 DEF FlowsFit
<1>8. Kept'
  BY <1>1, <1>3 DEF LifeInv, Kept
<1> QED
  BY <1>4, <1>5, <1>6, <1>7, <1>8 DEF LifeInv

LEMMA CloseToMoveStep ==
    ASSUME Patient, LifeInv, NEW p \in PaneIds, Life!CloseToMove(p)
    PROVE  LifeInv'
<1>1. /\ UNCHANGED <<lifeWin, lifeConv, lifeAsked, lifeShelf, lifeReading, lifeFile, lifeResumed, lifeOver>>
      /\ lifeFlow[p] = "move" /\ lifeFlow' = [lifeFlow EXCEPT ![p] = "moving"]
      /\ lifePane' = Life!Without(p) /\ lifeProc' = Life!Killed(p)
      /\ lifeStored' = Life!SaveRoster(lifePane', lifeShelf)
  BY DEF Life!CloseToMove, Life!Flush
<1>2. /\ lifeWin = "up" /\ lifePane[p] # Life!NoPane /\ lifeProc[p] \in {"dying", "gone"} /\ p \notin lifeAsked /\ lifeConv[p] # 0
      /\ lifeStored' = Life!Roster(lifePane', lifeShelf)
  BY <1>1 DEF LifeInv, AsItWas, FlowsFit, Life!SaveRoster
<1>3. /\ lifePane' \in [PaneIds -> PaneT \cup {Life!NoPane}] /\ lifePane'[p] = Life!NoPane
      /\ \A q \in PaneIds : q # p => lifePane'[q] = lifePane[q]
      /\ lifeProc' = lifeProc /\ lifeShelf \in SUBSET RowT
      /\ lifeFlow' \in [PaneIds -> {"no", "account", "move", "moving"}] /\ lifeFlow'[p] = "moving"
      /\ \A q \in PaneIds : q # p => lifeFlow'[q] = lifeFlow[q]
  BY <1>1, <1>2, Closes DEF LifeInv, LifeTypes, Life!Killed
<1>4. \A r \in lifeStored' : r \in RowT /\ lifeConv[r.id] = r.conv
  <2> SUFFICES ASSUME NEW r \in lifeStored'
               PROVE  r \in RowT /\ lifeConv[r.id] = r.conv
    OBVIOUS
  <2>1. r \in RowT /\ (\/ lifePane'[r.id] # Life!NoPane /\ r.conv = lifePane'[r.id].res
                       \/ r \in lifeShelf)
    BY <1>2, <1>3, RosterRows
  <2>2. r.id \in PaneIds
    BY <2>1 DEF RowT
  <2> QED
    BY <1>3, <2>1, <2>2 DEF LifeInv, PanesFit, RowsFit, RowOf
<1>5. LifeTypes'
  BY <1>1, <1>3, <1>4 DEF LifeInv, LifeTypes
<1>6. Began'
  BY <1>1, <1>3 DEF LifeInv, Began
<1>7. PanesFit'
  BY <1>1, <1>2, <1>3 DEF LifeInv, LifeTypes, PanesFit
<1>8. RowsFit' /\ AsItWas'
  BY <1>1, <1>2, <1>4 DEF LifeInv, RowsFit, RowOf, AsItWas
<1>9. RowsAside' /\ FailedKeepRows'
  BY <1>1, <1>3 DEF LifeInv, RowsAside, FailedKeepRows
<1>10. ProcsFit'
  BY <1>1, <1>2, <1>3 DEF LifeInv, ProcsFit, Life!Held
<1>11. FlowsFit'
  <2>1. \A q \in PaneIds : q # p /\ lifePane[q] # Life!NoPane => lifeConv[q] # lifeConv[p]
    BY <1>2 DEF LifeInv, PanesFit
  <2>2. \A r \in lifeShelf : r.conv # lifeConv[p]
    BY <1>2 DEF LifeInv, RowsAside
  <2>3. \A q \in PaneIds : q # p /\ lifeFlow[q] = "moving" => lifeConv[q] # lifeConv[p]
    BY <1>2 DEF LifeInv, FlowsFit
  <2> QED
    BY <1>1, <1>2, <1>3, <2>1, <2>2, <2>3 DEF LifeInv, FlowsFit
<1>12. Kept'
  BY <1>1, <1>2, <1>3 DEF LifeInv, Kept
<1> QED
  BY <1>5, <1>6, <1>7, <1>8, <1>9, <1>10, <1>11, <1>12 DEF LifeInv

\* A launch takes a pane nothing is known of.
LEMMA Launching ==
    ASSUME Patient, LifeInv, NEW n \in Life!Fresh, NEW c \in PaneIds, NEW dir \in Dirs,
           NEW panes \in [PaneIds -> PaneT \cup {Life!NoPane}], NEW procs \in [PaneIds -> {"none", "failed", "run", "dying", "gone"}],
           Life!Launched(n, c, dir, panes, procs)
    PROVE  /\ n \in PaneIds /\ n # 0 /\ lifeConv[n] = 0 /\ lifePane[n] = Life!NoPane /\ n \notin lifeAsked /\ n \notin lifeResumed /\ lifeFlow[n] = "no"
           /\ lifeProc[n] = "none" /\ \A q \in PaneIds : lifeConv[q] # n
           /\ \A r \in lifeShelf \cup lifeStored \cup lifeReading : r.id # n /\ r.conv # n
           /\ lifePane' \in [PaneIds -> PaneT \cup {Life!NoPane}] /\ lifePane'[n].res = c /\ lifePane'[n].home = dir
           /\ lifePane'[n] # Life!NoPane /\ \A q \in PaneIds : q # n => lifePane'[q] = panes[q]
           /\ lifeConv' \in [PaneIds -> PaneIds \cup {0}] /\ lifeConv'[n] = c /\ \A q \in PaneIds : q # n => lifeConv'[q] = lifeConv[q]
           /\ lifeAsked' = lifeAsked \cup {n}
           /\ lifeProc' \in [PaneIds -> {"none", "failed", "run", "dying", "gone"}] /\ lifeProc'[n] \in {"run", "failed"}
           /\ \A q \in PaneIds : q # n => lifeProc'[q] = procs[q]
<1>1. n \in PaneIds /\ n # 0 /\ lifeConv[n] = 0
  BY DEF Life!Fresh, Patient
<1>2. lifePane[n] = Life!NoPane /\ n \notin lifeAsked /\ n \notin lifeResumed /\ lifeFlow[n] = "no" /\ lifeProc[n] = "none"
  BY <1>1 DEF LifeInv, LifeTypes, Began, PanesFit, FlowsFit
<1>3. \A q \in PaneIds : lifeConv[q] # n
  BY <1>1 DEF LifeInv, LifeTypes, Began
<1>4. \A r \in lifeShelf \cup lifeStored \cup lifeReading : r.id # n /\ r.conv # n
  <2> SUFFICES ASSUME NEW r \in lifeShelf \cup lifeStored \cup lifeReading
               PROVE  r.id # n /\ r.conv # n
    OBVIOUS
  <2>1. r.id \in PaneIds /\ r.conv \in PaneIds /\ lifeConv[r.id] = r.conv
    BY DEF LifeInv, LifeTypes, RowsFit, RowOf, RowT
  <2>2. r.conv # 0
    BY <2>1 DEF Patient
  <2> QED
    BY <1>1, <1>3, <2>1, <2>2
<1>5. [res |-> c, home |-> dir, shown |-> dir] \in PaneT
  BY DEF PaneT
<1>6. /\ lifePane' = [panes EXCEPT ![n] = [res |-> c, home |-> dir, shown |-> dir]]
      /\ lifeConv' = [lifeConv EXCEPT ![n] = c] /\ lifeAsked' = lifeAsked \cup {n}
      /\ \E o \in {"run", "failed"} : lifeProc' = [procs EXCEPT ![n] = o]
  BY DEF Life!Launched
<1>7. /\ lifePane' \in [PaneIds -> PaneT \cup {Life!NoPane}]
      /\ lifePane'[n].res = c /\ lifePane'[n].home = dir /\ lifePane'[n] # Life!NoPane
      /\ \A q \in PaneIds : q # n => lifePane'[q] = panes[q]
  BY <1>1, <1>5, <1>6, NoPaneIsNone
<1>8. lifeConv' \in [PaneIds -> PaneIds \cup {0}] /\ lifeConv'[n] = c /\ \A q \in PaneIds : q # n => lifeConv'[q] = lifeConv[q]
  BY <1>1, <1>6 DEF LifeInv, LifeTypes
<1>9. /\ lifeProc' \in [PaneIds -> {"none", "failed", "run", "dying", "gone"}] /\ lifeProc'[n] \in {"run", "failed"}
      /\ \A q \in PaneIds : q # n => lifeProc'[q] = procs[q]
  BY <1>1, <1>6
<1> QED
  BY <1>1, <1>2, <1>3, <1>4, <1>6, <1>7, <1>8, <1>9

LEMMA LaunchStep ==
    ASSUME Patient, LifeInv, Life!Launch
    PROVE  LifeInv'
<1>1. PICK n \in Life!Fresh : Life!Launched(n, n, lifeFile[n], lifePane, lifeProc)
  BY DEF Life!Launch
<1>2. UNCHANGED <<lifeWin, lifeShelf, lifeStored, lifeReading, lifeFile, lifeFlow, lifeResumed, lifeOver>>
  BY DEF Life!Launch
<1>3. /\ lifePane \in [PaneIds -> PaneT \cup {Life!NoPane}] /\ lifeProc \in [PaneIds -> {"none", "failed", "run", "dying", "gone"}]
      /\ n \in PaneIds /\ lifeFile[n] \in Dirs
  BY DEF LifeInv, LifeTypes, Life!Fresh
<1>4. /\ n # 0 /\ lifeConv[n] = 0 /\ lifePane[n] = Life!NoPane /\ n \notin lifeAsked /\ n \notin lifeResumed /\ lifeFlow[n] = "no"
      /\ lifeProc[n] = "none" /\ \A q \in PaneIds : lifeConv[q] # n
      /\ \A r \in lifeShelf \cup lifeStored \cup lifeReading : r.id # n /\ r.conv # n
  BY <1>1, <1>3, Launching
<1>5. /\ lifePane' \in [PaneIds -> PaneT \cup {Life!NoPane}]
      /\ lifePane'[n].res = n /\ lifePane'[n].home = lifeFile[n] /\ lifePane'[n] # Life!NoPane
      /\ \A q \in PaneIds : q # n => lifePane'[q] = lifePane[q]
  BY <1>1, <1>3, Launching
<1>6. lifeConv' \in [PaneIds -> PaneIds \cup {0}] /\ lifeConv'[n] = n /\ \A q \in PaneIds : q # n => lifeConv'[q] = lifeConv[q]
  BY <1>1, <1>3, Launching
<1>7. lifeAsked' = lifeAsked \cup {n}
  BY <1>1, <1>3, Launching
<1>8. /\ lifeProc' \in [PaneIds -> {"none", "failed", "run", "dying", "gone"}] /\ lifeProc'[n] \in {"run", "failed"}
      /\ \A q \in PaneIds : q # n => lifeProc'[q] = lifeProc[q]
  BY <1>1, <1>3, Launching
<1>9. \A r \in lifeShelf \cup lifeStored \cup lifeReading : r.id \in PaneIds /\ r.id # n /\ r.conv # n
  BY <1>4 DEF LifeInv, LifeTypes, RowT
<1>10. LifeTypes'
  BY <1>2, <1>3, <1>5, <1>6, <1>7, <1>8 DEF LifeInv, LifeTypes
<1>11. Began'
  BY <1>2, <1>4, <1>6, <1>8 DEF LifeInv, LifeTypes, Began
<1>12. PanesFit'
  BY <1>2, <1>4, <1>5, <1>6, <1>7 DEF LifeInv, LifeTypes, PanesFit
<1>13. RowsFit'
  BY <1>2, <1>6, <1>9 DEF LifeInv, RowsFit, RowOf
<1>14. RowsAside'
  BY <1>2, <1>5, <1>6, <1>7, <1>8, <1>9 DEF LifeInv, RowsAside
<1>15. ProcsFit'
  BY <1>2, <1>4, <1>5, <1>6, <1>8 DEF LifeInv, ProcsFit, Life!Held
<1>16. AsItWas'
  <2> SUFFICES ASSUME lifeWin # "up"
               PROVE  AsItWas'
    BY <1>2 DEF AsItWas
  <2>1. \A r \in lifeStored, p \in PaneIds : lifeProc'[p] = "run" /\ lifeConv'[p] = r.conv => r.id = p
    BY <1>6, <1>8, <1>9 DEF LifeInv, AsItWas, Life!Held
  <2>2. lifeWin = "adopting" => \A p, q \in PaneIds : lifePane'[p] # Life!NoPane /\ lifeConv'[p] = lifeConv'[q] => p = q
    BY <1>4, <1>5, <1>6 DEF LifeInv, AsItWas
  <2>3. lifeWin = "reading" => \A r \in lifeStored : r \in lifeReading \/ lifePane'[r.id] # Life!NoPane
    BY <1>5, <1>9 DEF LifeInv, AsItWas
  <2>4. \A p \in PaneIds : lifeFlow[p] = "no" /\ ~ (lifePane'[p] # Life!NoPane /\ lifeProc'[p] = "failed" /\ p \in lifeResumed)
    BY <1>4, <1>5, <1>8 DEF LifeInv, AsItWas
  <2> QED
    BY <1>2, <2>1, <2>2, <2>3, <2>4 DEF AsItWas, Life!Held
<1>17. FlowsFit'
  BY <1>2, <1>4, <1>5, <1>6, <1>7, <1>8 DEF LifeInv, FlowsFit
<1>18. FailedKeepRows'
  BY <1>2, <1>4, <1>5, <1>6, <1>8 DEF LifeInv, FailedKeepRows
<1>19. Kept'
  <2> SUFFICES ASSUME NEW q \in PaneIds, lifeConv'[q] \notin {0} \cup lifeOver, q # n
               PROVE  \/ \E x \in PaneIds : lifePane'[x] # Life!NoPane /\ lifeConv'[x] = lifeConv'[q]
                      \/ lifeWin = "up" /\ \E x \in PaneIds : lifeFlow[x] = "moving" /\ lifeConv'[x] = lifeConv'[q]
                      \/ \E r \in IF lifeWin = "up" THEN lifeShelf ELSE lifeStored : r.conv = lifeConv'[q]
    BY <1>2, <1>5, <1>6 DEF Kept
  <2>1. lifeConv'[q] = lifeConv[q]
    BY <1>6
  <2>2. \/ \E x \in PaneIds : lifePane[x] # Life!NoPane /\ lifeConv[x] = lifeConv[q]
        \/ lifeWin = "up" /\ \E x \in PaneIds : lifeFlow[x] = "moving" /\ lifeConv[x] = lifeConv[q]
        \/ \E r \in IF lifeWin = "up" THEN lifeShelf ELSE lifeStored : r.conv = lifeConv[q]
    BY <2>1 DEF LifeInv, Kept
  <2> QED
    BY <1>4, <1>5, <1>6, <2>1, <2>2
<1> QED
  BY <1>10, <1>11, <1>12, <1>13, <1>14, <1>15, <1>16, <1>17, <1>18, <1>19 DEF LifeInv

LEMMA ResumeStep ==
    ASSUME Patient, LifeInv, NEW r \in lifeShelf, Life!Resume(r)
    PROVE  LifeInv'
<1>1. PICK n \in Life!Fresh : Life!Launched(n, r.conv, r.dir, lifePane, lifeProc) /\ lifeResumed' = lifeResumed \cup {n}
  BY DEF Life!Resume
<1>2. UNCHANGED <<lifeWin, lifeShelf, lifeStored, lifeReading, lifeFile, lifeFlow, lifeOver>> /\ lifeWin = "up" /\ lifeReading = {}
  BY DEF Life!Resume, LifeInv, LifeTypes, RowsFit
<1>3. /\ lifePane \in [PaneIds -> PaneT \cup {Life!NoPane}] /\ lifeProc \in [PaneIds -> {"none", "failed", "run", "dying", "gone"}]
      /\ n \in PaneIds /\ r.conv \in PaneIds /\ r.dir \in Dirs /\ r.id \in PaneIds
      /\ lifeConv[r.id] = r.conv /\ r.dir = lifeFile[r.conv] /\ r.conv # 0
  BY DEF LifeInv, LifeTypes, Life!Fresh, RowT, RowsFit, RowOf, Patient
<1> DEFINE c == r.conv
<1>0. lifeConv[c] = c /\ \A q \in PaneIds : lifePane[q] # Life!NoPane => lifeConv[q] # c
  <2>1. lifeConv[c] = c
    BY <1>3 DEF LifeInv, Began
  <2>2. \A q \in PaneIds : lifePane[q] # Life!NoPane => lifePane[q].res # c
    BY DEF Life!Resume, Life!DormantBusy, Life!IsOpen
  <2> QED
    BY <2>1, <2>2 DEF LifeInv, PanesFit
<1>4. /\ n # 0 /\ lifeConv[n] = 0 /\ lifePane[n] = Life!NoPane /\ n \notin lifeAsked /\ n \notin lifeResumed /\ lifeFlow[n] = "no"
      /\ lifeProc[n] = "none" /\ \A q \in PaneIds : lifeConv[q] # n
      /\ \A x \in lifeShelf \cup lifeStored \cup lifeReading : x.id # n /\ x.conv # n
  BY <1>1, <1>3, Launching
<1>5. /\ lifePane' \in [PaneIds -> PaneT \cup {Life!NoPane}]
      /\ lifePane'[n].res = c /\ lifePane'[n].home = r.dir /\ lifePane'[n] # Life!NoPane
      /\ \A q \in PaneIds : q # n => lifePane'[q] = lifePane[q]
  BY <1>1, <1>3, Launching
<1>6. lifeConv' \in [PaneIds -> PaneIds \cup {0}] /\ lifeConv'[n] = c /\ \A q \in PaneIds : q # n => lifeConv'[q] = lifeConv[q]
  BY <1>1, <1>3, Launching
<1>7. lifeAsked' = lifeAsked \cup {n}
  BY <1>1, <1>3, Launching
<1>8. /\ lifeProc' \in [PaneIds -> {"none", "failed", "run", "dying", "gone"}] /\ lifeProc'[n] \in {"run", "failed"}
      /\ \A q \in PaneIds : q # n => lifeProc'[q] = lifeProc[q]
  BY <1>1, <1>3, Launching
<1>9. \A x \in lifeShelf \cup lifeStored : x.id \in PaneIds /\ x.id # n /\ x.conv # n
  BY <1>4 DEF LifeInv, LifeTypes, RowT
<1>10. LifeTypes'
  BY <1>1, <1>2, <1>3, <1>5, <1>6, <1>7, <1>8 DEF LifeInv, LifeTypes
<1>11. Began'
  BY <1>0, <1>1, <1>3, <1>4, <1>6, <1>8 DEF LifeInv, LifeTypes, Began
<1>12. PanesFit'
  BY <1>0, <1>2, <1>3, <1>4, <1>5, <1>6, <1>7 DEF LifeInv, LifeTypes, PanesFit
<1>13. RowsFit'
  BY <1>2, <1>6, <1>9 DEF LifeInv, RowsFit, RowOf
<1>14. RowsAside'
  <2> SUFFICES ASSUME NEW x \in lifeShelf, NEW q \in PaneIds, lifePane'[q] # Life!NoPane, lifeConv'[q] = x.conv
               PROVE  x.id # q /\ ((q \in lifeAsked' /\ lifeConv'[q] # q) \/ lifeProc'[q] = "failed")
    BY <1>2 DEF RowsAside
  <2>1. CASE q = n
    BY <1>4, <1>6, <1>7, <1>9, <2>1
  <2>2. CASE q # n
    BY <1>5, <1>6, <1>7, <1>8, <2>2 DEF LifeInv, RowsAside
  <2> QED
    BY <2>1, <2>2
<1>15. ProcsFit'
  <2>1. \A q \in Life!Held : lifePane[q] # Life!NoPane
    BY <1>2 DEF LifeInv, ProcsFit
  <2> QED
    BY <1>0, <1>2, <1>4, <1>5, <1>6, <1>8, <2>1 DEF LifeInv, ProcsFit, Life!Held
<1>16. AsItWas'
  BY <1>2 DEF AsItWas
<1>17. FlowsFit'
  <2>1. \A q \in PaneIds : lifeFlow[q] = "moving" => c # lifeConv[q]
    BY DEF LifeInv, FlowsFit
  <2> QED
    BY <1>2, <1>4, <1>5, <1>6, <1>7, <1>8, <2>1 DEF LifeInv, FlowsFit
<1>18. FailedKeepRows'
  BY <1>1, <1>2, <1>4, <1>5, <1>6, <1>8 DEF LifeInv, FailedKeepRows
<1>19. Kept'
  <2> SUFFICES ASSUME NEW q \in PaneIds, lifeConv'[q] \notin {0} \cup lifeOver, q # n
               PROVE  \/ \E x \in PaneIds : lifePane'[x] # Life!NoPane /\ lifeConv'[x] = lifeConv'[q]
                      \/ \E x \in PaneIds : lifeFlow[x] = "moving" /\ lifeConv'[x] = lifeConv'[q]
                      \/ \E x \in lifeShelf : x.conv = lifeConv'[q]
    BY <1>2, <1>5, <1>6 DEF Kept
  <2>1. lifeConv'[q] = lifeConv[q]
    BY <1>6
  <2>2. \/ \E x \in PaneIds : lifePane[x] # Life!NoPane /\ lifeConv[x] = lifeConv[q]
        \/ \E x \in PaneIds : lifeFlow[x] = "moving" /\ lifeConv[x] = lifeConv[q]
        \/ \E x \in lifeShelf : x.conv = lifeConv[q]
    BY <1>2, <2>1 DEF LifeInv, Kept
  <2> QED
    BY <1>4, <1>5, <1>6, <2>1, <2>2
<1> QED
  BY <1>10, <1>11, <1>12, <1>13, <1>14, <1>15, <1>16, <1>17, <1>18, <1>19 DEF LifeInv

LEMMA ContinueStep ==
    ASSUME Patient, LifeInv, NEW p \in PaneIds, Life!Continue(p)
    PROVE  LifeInv'
<1> DEFINE c == lifeConv[p]
<1>1. PICK n \in Life!Fresh : Life!Launched(n, c, lifeFile[c], Life!Without(p), Life!Killed(p))
  BY DEF Life!Continue
<1>2. /\ UNCHANGED <<lifeWin, lifeShelf, lifeReading, lifeFile, lifeResumed, lifeOver>>
      /\ lifeFlow[p] = "account" /\ lifeFlow' = [lifeFlow EXCEPT ![p] = "no"]
      /\ lifeStored' = Life!SaveRoster(Life!Without(p), lifeShelf)
  BY DEF Life!Continue
<1>3. /\ lifeWin = "up" /\ lifePane[p] # Life!NoPane /\ lifeProc[p] \in {"dying", "gone"} /\ p \notin lifeAsked
      /\ c \in PaneIds /\ c # 0 /\ lifeConv[c] = c
      /\ lifeStored' = Life!Roster(Life!Without(p), lifeShelf) /\ lifeReading = {}
  BY <1>2 DEF LifeInv, LifeTypes, Began, RowsFit, AsItWas, FlowsFit, Life!SaveRoster
<1>4. /\ Life!Without(p) \in [PaneIds -> PaneT \cup {Life!NoPane}] /\ Life!Without(p)[p] = Life!NoPane
      /\ \A q \in PaneIds : q # p => Life!Without(p)[q] = lifePane[q]
      /\ Life!Killed(p) = lifeProc /\ lifeProc \in [PaneIds -> {"none", "failed", "run", "dying", "gone"}]
      /\ n \in PaneIds /\ lifeFile[c] \in Dirs /\ lifeShelf \in SUBSET RowT
  BY <1>3, Closes DEF LifeInv, LifeTypes, Life!Fresh, Life!Killed
<1>5. /\ n # 0 /\ lifeConv[n] = 0 /\ lifePane[n] = Life!NoPane /\ n \notin lifeAsked /\ n \notin lifeResumed /\ lifeFlow[n] = "no"
      /\ lifeProc[n] = "none" /\ \A q \in PaneIds : lifeConv[q] # n
      /\ \A x \in lifeShelf \cup lifeStored \cup lifeReading : x.id # n /\ x.conv # n
  BY <1>1, <1>3, <1>4, Launching
<1>6. /\ lifePane' \in [PaneIds -> PaneT \cup {Life!NoPane}]
      /\ lifePane'[n].res = c /\ lifePane'[n].home = lifeFile[c] /\ lifePane'[n] # Life!NoPane
      /\ \A q \in PaneIds : q # n => lifePane'[q] = Life!Without(p)[q]
  BY <1>1, <1>3, <1>4, Launching
<1>7. lifeConv' \in [PaneIds -> PaneIds \cup {0}] /\ lifeConv'[n] = c /\ \A q \in PaneIds : q # n => lifeConv'[q] = lifeConv[q]
  BY <1>1, <1>3, <1>4, Launching
<1>8. lifeAsked' = lifeAsked \cup {n}
  BY <1>1, <1>3, <1>4, Launching
<1>9. /\ lifeProc' \in [PaneIds -> {"none", "failed", "run", "dying", "gone"}] /\ lifeProc'[n] \in {"run", "failed"}
      /\ \A q \in PaneIds : q # n => lifeProc'[q] = lifeProc[q]
  BY <1>1, <1>3, <1>4, Launching
<1>10. /\ n # p /\ lifePane'[p] = Life!NoPane /\ \A q \in PaneIds \ {n, p} : lifePane'[q] = lifePane[q]
       /\ lifeFlow' \in [PaneIds -> {"no", "account", "move", "moving"}] /\ lifeFlow'[p] = "no" /\ lifeFlow'[n] = "no"
       /\ \A q \in PaneIds : q # p => lifeFlow'[q] = lifeFlow[q]
  BY <1>2, <1>3, <1>4, <1>5, <1>6 DEF LifeInv, LifeTypes
<1>11. \A q \in PaneIds \ {n, p} : lifePane[q] # Life!NoPane => lifeConv[q] # c
  BY <1>3 DEF LifeInv, PanesFit
<1>12. \A r \in lifeShelf : r.id \in PaneIds /\ r.id # n /\ r.conv # c
  <2>1. \A r \in lifeShelf : r.conv # c
    BY <1>3 DEF LifeInv, RowsAside
  <2> QED
    BY <1>4, <1>5, <2>1 DEF RowT
<1>13. \A r \in lifeStored' : r \in RowT /\ lifeConv'[r.id] = r.conv
  <2> SUFFICES ASSUME NEW r \in lifeStored'
               PROVE  r \in RowT /\ lifeConv'[r.id] = r.conv
    OBVIOUS
  <2>1. r \in RowT /\ (\/ Life!Without(p)[r.id] # Life!NoPane /\ r.conv = Life!Without(p)[r.id].res
                       \/ r \in lifeShelf)
    BY <1>3, <1>4, RosterRows
  <2>2. r.id \in PaneIds
    BY <2>1 DEF RowT
  <2>3. CASE r \in lifeShelf
    BY <1>7, <1>12, <2>1, <2>3 DEF LifeInv, RowsFit, RowOf
  <2>4. CASE Life!Without(p)[r.id] # Life!NoPane /\ r.conv = Life!Without(p)[r.id].res
    <3>1. r.id # p /\ r.id # n /\ lifePane[r.id] # Life!NoPane /\ r.conv = lifePane[r.id].res
      BY <1>4, <1>5, <2>2, <2>4
    <3> QED
      BY <1>7, <2>1, <2>2, <3>1 DEF LifeInv, PanesFit
  <2> QED
    BY <2>1, <2>3, <2>4
<1>14. LifeTypes'
  BY <1>2, <1>4, <1>6, <1>7, <1>8, <1>9, <1>10, <1>13 DEF LifeInv, LifeTypes
<1>15. Began'
  BY <1>2, <1>3, <1>5, <1>7, <1>9 DEF LifeInv, LifeTypes, Began
<1>16. PanesFit'
  <2>1. \A q \in PaneIds : lifePane'[q] # Life!NoPane =>
        lifeConv'[q] # 0 /\ lifePane'[q].res = lifeConv'[q] /\ lifePane'[q].home = lifeFile[lifeConv'[q]]
    BY <1>3, <1>6, <1>7, <1>10 DEF LifeInv, PanesFit
  <2>2. \A q, x \in PaneIds : lifePane'[q] # Life!NoPane /\ lifePane'[x] # Life!NoPane /\ lifeConv'[q] = lifeConv'[x] => q = x
    BY <1>7, <1>10, <1>11 DEF LifeInv, PanesFit
  <2>3. \A q \in lifeAsked' : lifePane'[q] # Life!NoPane
    BY <1>3, <1>4, <1>6, <1>8, <1>10 DEF LifeInv, LifeTypes, PanesFit
  <2> QED
    BY <1>2, <2>1, <2>2, <2>3 DEF PanesFit
<1>17. RowsFit'
  BY <1>2, <1>3, <1>7, <1>12, <1>13 DEF LifeInv, RowsFit, RowOf
<1>18. RowsAside'
  <2> SUFFICES ASSUME NEW x \in lifeShelf, NEW q \in PaneIds, lifePane'[q] # Life!NoPane, lifeConv'[q] = x.conv
               PROVE  x.id # q /\ ((q \in lifeAsked' /\ lifeConv'[q] # q) \/ lifeProc'[q] = "failed")
    BY <1>2, <1>3 DEF RowsAside
  <2>1. q # n /\ q # p
    BY <1>7, <1>10, <1>12
  <2> QED
    BY <1>7, <1>8, <1>9, <1>10, <2>1 DEF LifeInv, RowsAside
<1>19. ProcsFit'
  <2>1. \A q \in Life!Held : lifePane[q] # Life!NoPane /\ q # p
    BY <1>3 DEF LifeInv, ProcsFit, Life!Held
  <2>2. \A q \in PaneIds : lifeProc'[q] = "run" => q = n \/ (q \in Life!Held /\ q # p /\ q # n)
    BY <1>9, <2>1 DEF Life!Held
  <2>3. \A q \in Life!Held' : lifePane'[q] # Life!NoPane
    BY <1>6, <1>10, <2>1, <2>2 DEF Life!Held
  <2>4. \A q, x \in Life!Held' : lifeConv'[q] = lifeConv'[x] => q = x
    BY <1>7, <1>11, <2>1, <2>2 DEF LifeInv, ProcsFit, Life!Held
  <2> QED
    BY <1>2, <1>3, <2>3, <2>4 DEF ProcsFit
<1>20. AsItWas'
  BY <1>2, <1>3 DEF AsItWas
<1>21. FlowsFit'
  <2>1. \A q \in PaneIds : lifeFlow'[q] # "no" => q \in PaneIds \ {n, p} /\ lifeFlow'[q] = lifeFlow[q] /\ lifeConv'[q] = lifeConv[q]
    BY <1>7, <1>10
  <2>2. \A q \in PaneIds : lifeFlow[q] = "moving" => lifeConv[q] # c
    BY <1>3 DEF LifeInv, FlowsFit
  <2>3. \A q, x \in PaneIds : lifeFlow'[q] = "moving" /\ (lifePane'[x] # Life!NoPane \/ (lifeFlow'[x] = "moving" /\ x # q)) => lifeConv'[x] # lifeConv'[q]
    <3> SUFFICES ASSUME NEW q \in PaneIds, NEW x \in PaneIds, lifeFlow'[q] = "moving", lifePane'[x] # Life!NoPane \/ (lifeFlow'[x] = "moving" /\ x # q)
                 PROVE  lifeConv'[x] # lifeConv'[q]
      OBVIOUS
    <3>1. CASE x = n
      BY <1>7, <2>1, <2>2, <3>1
    <3>2. CASE x # n
      BY <1>7, <1>10, <2>1, <3>2 DEF LifeInv, FlowsFit
    <3> QED
      BY <3>1, <3>2
  <2>4. \A q \in PaneIds : lifeFlow'[q] # "no" => lifeConv'[q] # 0 /\ q \notin lifeAsked'
    BY <1>8, <2>1 DEF LifeInv, FlowsFit
  <2>5. \A q \in PaneIds : lifeFlow'[q] \in {"account", "move"} => lifePane'[q] # Life!NoPane /\ lifeProc'[q] \in {"dying", "gone"}
    BY <1>9, <1>10, <2>1 DEF LifeInv, FlowsFit
  <2>6. \A q \in PaneIds, r \in lifeShelf : lifeFlow'[q] = "moving" => r.conv # lifeConv'[q]
    BY <2>1 DEF LifeInv, FlowsFit
  <2> QED
    BY <1>2, <2>3, <2>4, <2>5, <2>6 DEF FlowsFit
<1>22. FailedKeepRows'
  BY <1>2, <1>5, <1>7, <1>9, <1>10 DEF LifeInv, FailedKeepRows
<1>23. Kept'
  <2> SUFFICES ASSUME NEW q \in PaneIds, lifeConv'[q] \notin {0} \cup lifeOver, lifeConv'[q] # c
               PROVE  \/ \E x \in PaneIds : lifePane'[x] # Life!NoPane /\ lifeConv'[x] = lifeConv'[q]
                      \/ \E x \in PaneIds : lifeFlow'[x] = "moving" /\ lifeConv'[x] = lifeConv'[q]
                      \/ \E x \in lifeShelf : x.conv = lifeConv'[q]
    BY <1>2, <1>3, <1>4, <1>6, <1>7 DEF Kept
  <2>1. lifeConv'[q] = lifeConv[q]
    BY <1>7
  <2>2. \/ \E x \in PaneIds : lifePane[x] # Life!NoPane /\ lifeConv[x] = lifeConv[q]
        \/ \E x \in PaneIds : lifeFlow[x] = "moving" /\ lifeConv[x] = lifeConv[q]
        \/ \E x \in lifeShelf : x.conv = lifeConv[q]
    BY <1>3, <2>1 DEF LifeInv, Kept
  <2> QED
    BY <1>2, <1>5, <1>7, <1>10, <2>1, <2>2
<1> QED
  BY <1>14, <1>15, <1>16, <1>17, <1>18, <1>19, <1>20, <1>21, <1>22, <1>23 DEF LifeInv

LEMMA MovedStep ==
    ASSUME Patient, LifeInv, NEW p \in PaneIds, Life!Moved(p)
    PROVE  LifeInv'
<1> DEFINE c == lifeConv[p]
<1>1. PICK dir \in Dirs, n \in Life!Fresh : Life!Launched(n, c, dir, lifePane, lifeProc) /\ lifeFile' = [lifeFile EXCEPT ![c] = dir]
  <2>1. c \in PaneIds /\ lifeFile \in [PaneIds -> Dirs]
    BY DEF Life!Moved, LifeInv, LifeTypes, FlowsFit
  <2>2. PICK moved \in BOOLEAN, n \in Life!Fresh :
          /\ Life!Launched(n, c, IF moved THEN Life!Other(lifeFile[c]) ELSE lifeFile[c], lifePane, lifeProc)
          /\ lifeFile' = [lifeFile EXCEPT ![c] = IF moved THEN Life!Other(@) ELSE @]
    BY DEF Life!Moved
  <2>3. (IF moved THEN Life!Other(lifeFile[c]) ELSE lifeFile[c]) \in Dirs
    BY <2>1 DEF Life!Other, Dirs
  <2>4. lifeFile' = [lifeFile EXCEPT ![c] = IF moved THEN Life!Other(lifeFile[c]) ELSE lifeFile[c]]
    BY <2>1, <2>2
  <2> QED
    BY <2>2, <2>3, <2>4
<1>2. /\ UNCHANGED <<lifeWin, lifeShelf, lifeStored, lifeReading, lifeResumed, lifeOver>>
      /\ lifeFlow[p] = "moving" /\ lifeFlow' = [lifeFlow EXCEPT ![p] = "no"]
  BY DEF Life!Moved
<1>3. /\ lifeWin = "up" /\ lifeReading = {} /\ p \notin lifeAsked /\ c \in PaneIds /\ c # 0 /\ lifeConv[c] = c
      /\ \A q \in PaneIds : lifePane[q] # Life!NoPane \/ (lifeFlow[q] = "moving" /\ q # p) => lifeConv[q] # c
      /\ \A r \in lifeShelf : r.conv # c
  BY <1>2 DEF LifeInv, LifeTypes, Began, RowsFit, AsItWas, FlowsFit
<1>4. /\ lifePane \in [PaneIds -> PaneT \cup {Life!NoPane}] /\ lifeProc \in [PaneIds -> {"none", "failed", "run", "dying", "gone"}]
      /\ n \in PaneIds /\ lifeShelf \in SUBSET RowT /\ lifeStored \in SUBSET RowT
      /\ lifeFile' \in [PaneIds -> Dirs] /\ lifeFile'[c] = dir /\ \A k \in PaneIds : k # c => lifeFile'[k] = lifeFile[k]
  BY <1>1, <1>3 DEF LifeInv, LifeTypes, Life!Fresh
<1>5. /\ n # 0 /\ lifeConv[n] = 0 /\ lifePane[n] = Life!NoPane /\ n \notin lifeAsked /\ n \notin lifeResumed /\ lifeFlow[n] = "no"
      /\ lifeProc[n] = "none" /\ \A q \in PaneIds : lifeConv[q] # n
      /\ \A x \in lifeShelf \cup lifeStored \cup lifeReading : x.id # n /\ x.conv # n
  BY <1>1, <1>3, <1>4, Launching
<1>6. /\ lifePane' \in [PaneIds -> PaneT \cup {Life!NoPane}]
      /\ lifePane'[n].res = c /\ lifePane'[n].home = dir /\ lifePane'[n] # Life!NoPane
      /\ \A q \in PaneIds : q # n => lifePane'[q] = lifePane[q]
  BY <1>1, <1>3, <1>4, Launching
<1>7. lifeConv' \in [PaneIds -> PaneIds \cup {0}] /\ lifeConv'[n] = c /\ \A q \in PaneIds : q # n => lifeConv'[q] = lifeConv[q]
  BY <1>1, <1>3, <1>4, Launching
<1>8. lifeAsked' = lifeAsked \cup {n}
  BY <1>1, <1>3, <1>4, Launching
<1>9. /\ lifeProc' \in [PaneIds -> {"none", "failed", "run", "dying", "gone"}] /\ lifeProc'[n] \in {"run", "failed"}
      /\ \A q \in PaneIds : q # n => lifeProc'[q] = lifeProc[q]
  BY <1>1, <1>3, <1>4, Launching
<1>10. /\ lifeFlow' \in [PaneIds -> {"no", "account", "move", "moving"}] /\ lifeFlow'[p] = "no" /\ lifeFlow'[n] = "no"
       /\ \A q \in PaneIds : q # p => lifeFlow'[q] = lifeFlow[q]
  BY <1>2, <1>4, <1>5 DEF LifeInv, LifeTypes
<1>11. \A r \in lifeShelf \cup lifeStored : r.id \in PaneIds /\ r.conv \in PaneIds /\ r.id # n
  BY <1>4, <1>5 DEF RowT
<1>12. LifeTypes'
  BY <1>2, <1>4, <1>6, <1>7, <1>8, <1>9, <1>10 DEF LifeInv, LifeTypes
<1>13. Began'
  BY <1>2, <1>3, <1>5, <1>7, <1>9 DEF LifeInv, LifeTypes, Began
<1>14. PanesFit'
  <2>1. \A q \in PaneIds : lifePane'[q] # Life!NoPane =>
        lifeConv'[q] # 0 /\ lifePane'[q].res = lifeConv'[q] /\ lifePane'[q].home = lifeFile'[lifeConv'[q]]
    BY <1>3, <1>4, <1>6, <1>7 DEF LifeInv, LifeTypes, PanesFit
  <2>2. \A q, x \in PaneIds : lifePane'[q] # Life!NoPane /\ lifePane'[x] # Life!NoPane /\ lifeConv'[q] = lifeConv'[x] => q = x
    BY <1>3, <1>6, <1>7 DEF LifeInv, PanesFit
  <2>3. \A q \in lifeAsked' : lifePane'[q] # Life!NoPane
    BY <1>4, <1>6, <1>8 DEF LifeInv, LifeTypes, PanesFit
  <2> QED
    BY <2>1, <2>2, <2>3 DEF PanesFit
<1>15. RowsFit'
  BY <1>2, <1>3, <1>4, <1>7, <1>11 DEF LifeInv, RowsFit, RowOf
<1>16. RowsAside'
  <2> SUFFICES ASSUME NEW x \in lifeShelf, NEW q \in PaneIds, lifePane'[q] # Life!NoPane, lifeConv'[q] = x.conv
               PROVE  x.id # q /\ ((q \in lifeAsked' /\ lifeConv'[q] # q) \/ lifeProc'[q] = "failed")
    BY <1>2, <1>3 DEF RowsAside
  <2>1. q # n
    BY <1>3, <1>7
  <2> QED
    BY <1>6, <1>7, <1>8, <1>9, <2>1 DEF LifeInv, RowsAside
<1>17. ProcsFit'
  <2>1. \A q \in Life!Held : lifePane[q] # Life!NoPane
    BY <1>3 DEF LifeInv, ProcsFit
  <2> QED
    BY <1>2, <1>3, <1>6, <1>7, <1>9, <2>1 DEF LifeInv, ProcsFit, Life!Held
<1>18. AsItWas'
  BY <1>2, <1>3 DEF AsItWas
<1>19. FlowsFit'
  <2>1. \A q \in PaneIds : lifeFlow'[q] # "no" => q # n /\ q # p /\ lifeFlow'[q] = lifeFlow[q] /\ lifeConv'[q] = lifeConv[q]
    BY <1>7, <1>10
  <2>2. \A q \in PaneIds : lifeFlow'[q] = "moving" => lifeConv[q] # c
    BY <1>3, <2>1
  <2>3. \A q, x \in PaneIds : lifeFlow'[q] = "moving" /\ (lifePane'[x] # Life!NoPane \/ (lifeFlow'[x] = "moving" /\ x # q)) => lifeConv'[x] # lifeConv'[q]
    <3> SUFFICES ASSUME NEW q \in PaneIds, NEW x \in PaneIds, lifeFlow'[q] = "moving", lifePane'[x] # Life!NoPane \/ (lifeFlow'[x] = "moving" /\ x # q)
                 PROVE  lifeConv'[x] # lifeConv'[q]
      OBVIOUS
    <3>1. CASE x = n
      BY <1>7, <2>1, <2>2, <3>1
    <3>2. CASE x # n
      BY <1>6, <1>7, <2>1, <3>2 DEF LifeInv, FlowsFit
    <3> QED
      BY <3>1, <3>2
  <2>4. \A q \in PaneIds : lifeFlow'[q] # "no" => lifeConv'[q] # 0 /\ q \notin lifeAsked'
    BY <1>8, <2>1 DEF LifeInv, FlowsFit
  <2>5. \A q \in PaneIds : lifeFlow'[q] \in {"account", "move"} => lifePane'[q] # Life!NoPane /\ lifeProc'[q] \in {"dying", "gone"}
    BY <1>6, <1>9, <2>1 DEF LifeInv, FlowsFit
  <2>6. \A q \in PaneIds, r \in lifeShelf : lifeFlow'[q] = "moving" => r.conv # lifeConv'[q]
    BY <2>1 DEF LifeInv, FlowsFit
  <2> QED
    BY <1>2, <2>3, <2>4, <2>5, <2>6 DEF FlowsFit
<1>20. FailedKeepRows'
  BY <1>2, <1>5, <1>6, <1>7, <1>9 DEF LifeInv, FailedKeepRows
<1>21. Kept'
  <2> SUFFICES ASSUME NEW q \in PaneIds, lifeConv'[q] \notin {0} \cup lifeOver, lifeConv'[q] # c
               PROVE  \/ \E x \in PaneIds : lifePane'[x] # Life!NoPane /\ lifeConv'[x] = lifeConv'[q]
                      \/ \E x \in PaneIds : lifeFlow'[x] = "moving" /\ lifeConv'[x] = lifeConv'[q]
                      \/ \E x \in lifeShelf : x.conv = lifeConv'[q]
    BY <1>2, <1>3, <1>4, <1>6, <1>7 DEF Kept
  <2>1. lifeConv'[q] = lifeConv[q]
    BY <1>7
  <2>2. \/ \E x \in PaneIds : lifePane[x] # Life!NoPane /\ lifeConv[x] = lifeConv[q]
        \/ \E x \in PaneIds : lifeFlow[x] = "moving" /\ lifeConv[x] = lifeConv[q]
        \/ \E x \in lifeShelf : x.conv = lifeConv[q]
    BY <1>3, <2>1 DEF LifeInv, Kept
  <2> QED
    BY <1>5, <1>6, <1>7, <1>10, <2>1, <2>2
<1> QED
  BY <1>12, <1>13, <1>14, <1>15, <1>16, <1>17, <1>18, <1>19, <1>20, <1>21 DEF LifeInv

LEMMA ReloadStep ==
    ASSUME Patient, LifeInv, Life!Reload
    PROVE  LifeInv'
<1>1. /\ UNCHANGED <<lifeConv, lifeFile, lifeResumed, lifeOver>>
      /\ lifeAsked = {} /\ (\A p \in PaneIds : lifeFlow[p] = "no") /\ (lifeWin = "up" \/ Life!Known)
      /\ lifeWin' = "adopting" /\ lifeStored' = Life!SaveRoster(lifePane, lifeShelf)
      /\ lifePane' = [p \in PaneIds |-> Life!NoPane] /\ lifeShelf' = {} /\ lifeAsked' = {} /\ lifeReading' = {}
      /\ lifeFlow' = [p \in PaneIds |-> "no"]
  BY DEF Life!Reload, Life!Flush, Patient
<1>2. /\ lifeProc' \in [PaneIds -> {"none", "failed", "run", "dying", "gone"}]
      /\ \A p \in PaneIds : (lifeProc'[p] = "run" => lifeProc[p] = "run") /\ (lifeProc'[p] = "none" <=> lifeProc[p] = "none")
  <2>1. CASE lifeProc' = lifeProc
    BY <2>1 DEF LifeInv, LifeTypes
  <2>2. CASE lifeProc' = [p \in PaneIds |-> IF lifeProc[p] \in {"run", "dying"} THEN "gone" ELSE lifeProc[p]]
    BY <2>2 DEF LifeInv, LifeTypes
  <2> QED
    BY <2>1, <2>2 DEF Life!Reload
<1>3. lifePane \in [PaneIds -> PaneT \cup {Life!NoPane}] /\ lifeShelf \in SUBSET RowT /\ lifeStored \in SUBSET RowT
  BY DEF LifeInv, LifeTypes
<1>4. \A r \in lifeStored' : r \in RowT /\ RowOf(r)
  <2>1. CASE lifeWin = "up"
    <3> SUFFICES ASSUME NEW r \in lifeStored'
                 PROVE  r \in RowT /\ RowOf(r)
      OBVIOUS
    <3>1. r \in RowT /\ (\/ lifePane[r.id] # Life!NoPane /\ r.conv = lifePane[r.id].res /\ r.dir = lifePane[r.id].home
                         \/ r \in lifeShelf)
      BY <1>1, <1>3, <2>1, RosterRows DEF Life!SaveRoster
    <3>2. r.id \in PaneIds
      BY <3>1 DEF RowT
    <3> QED
      BY <3>1, <3>2 DEF LifeInv, PanesFit, RowsFit, RowOf
  <2>2. CASE lifeWin # "up"
    BY <1>1, <1>3, <2>2 DEF LifeInv, RowsFit, Life!SaveRoster
  <2> QED
    BY <2>1, <2>2
<1>5. \A p \in PaneIds : lifePane[p] # Life!NoPane => \E r \in lifeStored' : r.id = p
  <2>1. CASE lifeWin = "up"
    BY <1>1, <1>3, <2>1, RosterHas DEF Life!SaveRoster
  <2>2. CASE lifeWin # "up"
    BY <1>1, <2>2 DEF Life!SaveRoster, Life!Known, Life!IsOpen
  <2> QED
    BY <2>1, <2>2
<1>6. LifeTypes'
  BY <1>1, <1>2, <1>3, <1>4 DEF LifeInv, LifeTypes
<1>7. Began'
  BY <1>1, <1>2 DEF LifeInv, Began
<1>8. PanesFit' /\ RowsAside' /\ FlowsFit' /\ FailedKeepRows'
  BY <1>1 DEF PanesFit, RowsAside, FlowsFit, FailedKeepRows
<1>9. RowsFit'
  BY <1>1, <1>4 DEF RowsFit, RowOf
<1>10. ProcsFit'
  <2>1. \A p \in Life!Held : lifePane[p] # Life!NoPane \/ \E r \in lifeStored' : r.id = p
    <3>1. CASE lifeWin = "adopting"
      BY <1>1, <3>1 DEF LifeInv, ProcsFit, Life!SaveRoster
    <3>2. CASE lifeWin # "adopting"
      BY <3>2 DEF LifeInv, ProcsFit
    <3> QED
      BY <3>1, <3>2
  <2>2. \A p \in Life!Held' : p \in Life!Held
    BY <1>2 DEF Life!Held
  <2>3. \A p \in Life!Held : p \in PaneIds
    BY DEF Life!Held
  <2> QED
    BY <1>1, <1>5, <2>1, <2>2, <2>3 DEF LifeInv, ProcsFit
<1>11. AsItWas'
  <2> SUFFICES ASSUME NEW r \in lifeStored', NEW p \in Life!Held', lifeConv[p] = r.conv
               PROVE  r.id = p
    BY <1>1 DEF AsItWas
  <2>1. p \in Life!Held /\ p \in PaneIds
    BY <1>2 DEF Life!Held
  <2>2. CASE lifeWin # "up"
    BY <1>1, <2>1, <2>2 DEF LifeInv, AsItWas, Life!SaveRoster
  <2>3. CASE lifeWin = "up"
    <3>1. lifePane[p] # Life!NoPane
      BY <2>1, <2>3 DEF LifeInv, ProcsFit
    <3>2. r \in RowT /\ (lifePane[r.id] # Life!NoPane \/ r \in lifeShelf)
      BY <1>1, <1>3, <2>3, RosterRows DEF Life!SaveRoster
    <3>3. r.id \in PaneIds /\ lifeConv[r.id] = r.conv
      BY <1>4, <3>2 DEF RowT, RowOf
    <3>4. CASE lifePane[r.id] # Life!NoPane
      BY <2>1, <3>1, <3>3, <3>4 DEF LifeInv, PanesFit
    <3>5. CASE r \in lifeShelf
      BY <1>1, <2>1, <3>1, <3>5 DEF LifeInv, RowsAside, Life!Held
    <3> QED
      BY <3>2, <3>4, <3>5
  <2> QED
    BY <2>2, <2>3
<1>12. Kept'
  <2> SUFFICES ASSUME NEW p \in PaneIds, lifeConv[p] \notin {0} \cup lifeOver
               PROVE  \E r \in lifeStored' : r.conv = lifeConv[p]
    BY <1>1 DEF Kept
  <2>1. CASE \E q \in PaneIds : lifePane[q] # Life!NoPane /\ lifeConv[q] = lifeConv[p]
    <3>1. PICK q \in PaneIds : lifePane[q] # Life!NoPane /\ lifeConv[q] = lifeConv[p]
      BY <2>1
    <3>2. PICK r \in lifeStored' : r.id = q
      BY <1>5, <3>1
    <3> QED
      BY <1>4, <3>1, <3>2 DEF RowOf
  <2>2. CASE lifeWin = "up" /\ \A q \in PaneIds : ~ (lifePane[q] # Life!NoPane /\ lifeConv[q] = lifeConv[p])
    <3>1. PICK r \in lifeShelf : r.conv = lifeConv[p]
      BY <1>1, <2>2 DEF LifeInv, Kept
    <3>2. r.id \in PaneIds /\ lifeConv[r.id] = r.conv
      BY <1>3, <3>1 DEF LifeInv, RowsFit, RowOf, RowT
    <3>3. lifePane[r.id] = Life!NoPane
      BY <2>2, <3>1, <3>2
    <3> QED
      BY <1>1, <1>3, <2>2, <3>1, <3>3, RosterHas DEF Life!SaveRoster
  <2>3. CASE lifeWin # "up" /\ \A q \in PaneIds : ~ (lifePane[q] # Life!NoPane /\ lifeConv[q] = lifeConv[p])
    BY <1>1, <2>3 DEF LifeInv, Kept, Life!SaveRoster
  <2> QED
    BY <2>1, <2>2, <2>3
<1> QED
  BY <1>6, <1>7, <1>8, <1>9, <1>10, <1>11, <1>12 DEF LifeInv

LEMMA AdoptStep ==
    ASSUME Patient, LifeInv, Life!AdoptOrphans
    PROVE  LifeInv'
<1>1. /\ UNCHANGED <<lifeConv, lifeProc, lifeAsked, lifeShelf, lifeStored, lifeFile, lifeFlow, lifeResumed, lifeOver>>
      /\ lifeWin = "adopting" /\ lifeWin' = "reading" /\ lifeShelf = {}
      /\ lifePane' = [p \in PaneIds |-> IF p \in Life!Held /\ lifePane[p] = Life!NoPane THEN Life!Adopted(p) ELSE lifePane[p]]
      /\ lifeReading' = {r \in lifeStored : r.id \notin Life!IsOpen(lifePane')}
  BY DEF Life!AdoptOrphans, LifeInv, RowsFit
<1>2. ASSUME NEW p \in Life!Held, lifePane[p] = Life!NoPane
      PROVE  /\ Life!Adopted(p) \in PaneT /\ Life!Adopted(p) # Life!NoPane
             /\ Life!Adopted(p).res = lifeConv[p] /\ Life!Adopted(p).home = lifeFile[lifeConv[p]]
  <2>1. \E r \in lifeStored : r.id = p
    BY <1>1, <1>2 DEF LifeInv, ProcsFit
  <2> DEFINE r == CHOOSE x \in lifeStored : x.id = p
  <2>2. r \in lifeStored /\ r.id = p
    BY <2>1
  <2>3. Life!Adopted(p) = [res |-> r.conv, home |-> r.dir, shown |-> r.dir]
    BY <2>1 DEF Life!Adopted
  <2> HIDE DEF r
  <2>4. r \in RowT /\ lifeConv[p] = r.conv /\ r.dir = lifeFile[r.conv]
    BY <1>1, <2>2 DEF LifeInv, LifeTypes, RowsFit, RowOf
  <2>5. Life!Adopted(p) \in PaneT
    BY <2>3, <2>4 DEF PaneT, RowT
  <2> QED
    BY <2>3, <2>4, <2>5, NoPaneIsNone
<1>3. /\ lifePane' \in [PaneIds -> PaneT \cup {Life!NoPane}]
      /\ \A p \in PaneIds : lifePane[p] # Life!NoPane => lifePane'[p] = lifePane[p]
      /\ \A p \in PaneIds : p \notin Life!Held => lifePane'[p] = lifePane[p]
      /\ \A p \in Life!Held : lifePane'[p] # Life!NoPane
      /\ \A p \in Life!Held : lifePane[p] = Life!NoPane => lifePane'[p].res = lifeConv[p] /\ lifePane'[p].home = lifeFile[lifeConv[p]]
  <2>1. \A p \in PaneIds : lifePane'[p] = IF p \in Life!Held /\ lifePane[p] = Life!NoPane THEN Life!Adopted(p) ELSE lifePane[p]
    BY <1>1
  <2>2. lifePane' \in [PaneIds -> PaneT \cup {Life!NoPane}]
    BY <1>1, <1>2 DEF LifeInv, LifeTypes
  <2>3. \A p \in Life!Held : p \in PaneIds
    BY DEF Life!Held
  <2> QED
    BY <1>2, <2>1, <2>2, <2>3
<1>4. \A r \in lifeStored : r \in RowT /\ r.id \in PaneIds /\ RowOf(r)
  BY <1>1 DEF LifeInv, LifeTypes, RowsFit, RowT
<1>5. /\ \A r \in lifeReading' : r \in lifeStored /\ lifePane'[r.id] = Life!NoPane
      /\ \A r \in lifeStored : r \in lifeReading' \/ lifePane'[r.id] # Life!NoPane
  BY <1>1, <1>4 DEF Life!IsOpen
<1>6. LifeTypes'
  BY <1>1, <1>3, <1>5 DEF LifeInv, LifeTypes
<1>7. Began'
  BY <1>1 DEF LifeInv, Began
<1>8. PanesFit'
  <2>1. \A p \in PaneIds : lifePane'[p] # Life!NoPane =>
        lifeConv[p] # 0 /\ lifePane'[p].res = lifeConv[p] /\ lifePane'[p].home = lifeFile[lifeConv[p]]
    <3> SUFFICES ASSUME NEW p \in PaneIds, lifePane'[p] # Life!NoPane
                 PROVE  lifeConv[p] # 0 /\ lifePane'[p].res = lifeConv[p] /\ lifePane'[p].home = lifeFile[lifeConv[p]]
      OBVIOUS
    <3>1. CASE lifePane[p] # Life!NoPane
      BY <1>3, <3>1 DEF LifeInv, PanesFit
    <3>2. CASE lifePane[p] = Life!NoPane
      <4>1. p \in Life!Held
        BY <1>3, <3>2
      <4> QED
        BY <1>3, <3>2, <4>1 DEF LifeInv, Began, Life!Held
    <3> QED
      BY <3>1, <3>2
  <2>2. \A p, q \in PaneIds : lifePane'[p] # Life!NoPane /\ lifePane'[q] # Life!NoPane /\ lifeConv[p] = lifeConv[q] => p = q
    <3> SUFFICES ASSUME NEW p \in PaneIds, NEW q \in PaneIds, lifePane'[p] # Life!NoPane, lifePane'[q] # Life!NoPane, lifeConv[p] = lifeConv[q]
                 PROVE  p = q
      OBVIOUS
    <3>1. CASE lifePane[p] # Life!NoPane \/ lifePane[q] # Life!NoPane
      BY <1>1, <3>1 DEF LifeInv, AsItWas
    <3>2. CASE lifePane[p] = Life!NoPane /\ lifePane[q] = Life!NoPane
      <4>1. p \in Life!Held /\ q \in Life!Held
        BY <1>3, <3>2
      <4> QED
        BY <4>1 DEF LifeInv, ProcsFit
    <3> QED
      BY <3>1, <3>2
  <2>3. \A p \in lifeAsked : lifePane'[p] # Life!NoPane
    BY <1>3 DEF LifeInv, LifeTypes, PanesFit
  <2> QED
    BY <1>1, <2>1, <2>2, <2>3 DEF PanesFit
<1>9. RowsFit'
  BY <1>1, <1>4, <1>5 DEF RowsFit, RowOf
<1>10. RowsAside'
  <2> SUFFICES ASSUME NEW r \in lifeReading', NEW p \in PaneIds, lifePane'[p] # Life!NoPane, lifeConv[p] = r.conv
               PROVE  FALSE
    BY <1>1 DEF RowsAside
  <2>1. r \in lifeStored /\ lifePane'[r.id] = Life!NoPane /\ r.id \in PaneIds /\ lifeConv[r.id] = r.conv
    BY <1>4, <1>5 DEF RowOf
  <2>2. CASE lifePane[p] # Life!NoPane
    BY <1>1, <2>1, <2>2 DEF LifeInv, AsItWas
  <2>3. CASE lifePane[p] = Life!NoPane
    <3>1. p \in Life!Held
      BY <1>3, <2>3
    <3> QED
      BY <1>1, <2>1, <3>1 DEF LifeInv, AsItWas
  <2> QED
    BY <2>2, <2>3
<1>11. ProcsFit'
  BY <1>1, <1>3 DEF LifeInv, ProcsFit, Life!Held
<1>12. AsItWas'
  <2>1. \A p \in PaneIds : lifeFlow[p] = "no" /\ ~ (lifePane'[p] # Life!NoPane /\ lifeProc[p] = "failed" /\ p \in lifeResumed)
    BY <1>1, <1>3 DEF LifeInv, AsItWas, Life!Held
  <2>2. \A r \in lifeStored : \A p \in Life!Held : lifeConv[p] = r.conv => r.id = p
    BY <1>1 DEF LifeInv, AsItWas
  <2> QED
    BY <1>1, <1>5, <2>1, <2>2 DEF AsItWas, Life!Held
<1>13. FlowsFit'
  BY <1>1 DEF LifeInv, AsItWas, FlowsFit
<1>14. FailedKeepRows'
  BY <1>1, <1>3 DEF LifeInv, AsItWas, FailedKeepRows, Life!Held
<1>15. Kept'
  BY <1>1, <1>3 DEF LifeInv, Kept
<1> QED
  BY <1>6, <1>7, <1>8, <1>9, <1>10, <1>11, <1>12, <1>13, <1>14, <1>15 DEF LifeInv

LEMMA LoadStep ==
    ASSUME Patient, LifeInv, Life!LoadDormants
    PROVE  LifeInv'
<1>1. /\ UNCHANGED <<lifePane, lifeConv, lifeProc, lifeAsked, lifeFile, lifeFlow, lifeResumed, lifeOver>>
      /\ lifeWin = "reading" /\ lifeWin' = "up"
      /\ lifeShelf' = lifeReading /\ lifeReading' = {} /\ lifeStored' = Life!Roster(lifePane, lifeReading)
  BY DEF Life!LoadDormants
<1>2. lifePane \in [PaneIds -> PaneT \cup {Life!NoPane}] /\ lifeReading \in SUBSET RowT /\ lifeStored \in SUBSET RowT
  BY DEF LifeInv, LifeTypes
<1>3. \A r \in lifeStored' : r \in RowT /\ lifeConv[r.id] = r.conv
  <2> SUFFICES ASSUME NEW r \in lifeStored'
               PROVE  r \in RowT /\ lifeConv[r.id] = r.conv
    OBVIOUS
  <2>1. r \in RowT /\ (\/ lifePane[r.id] # Life!NoPane /\ r.conv = lifePane[r.id].res
                       \/ r \in lifeReading)
    BY <1>1, <1>2, RosterRows
  <2>2. r.id \in PaneIds
    BY <2>1 DEF RowT
  <2> QED
    BY <2>1, <2>2 DEF LifeInv, PanesFit, RowsFit, RowOf
<1>4. LifeTypes'
  BY <1>1, <1>2, <1>3 DEF LifeInv, LifeTypes
<1>5. Began' /\ PanesFit'
  BY <1>1 DEF LifeInv, Began, PanesFit
<1>6. RowsFit' /\ RowsAside'
  BY <1>1, <1>3 DEF LifeInv, RowsFit, RowOf, RowsAside
<1>7. ProcsFit' /\ AsItWas'
  BY <1>1 DEF LifeInv, ProcsFit, Life!Held, AsItWas
<1>8. FlowsFit' /\ FailedKeepRows'
  BY <1>1 DEF LifeInv, AsItWas, FlowsFit, FailedKeepRows
<1>9. Kept'
  <2> SUFFICES ASSUME NEW p \in PaneIds, lifeConv[p] \notin {0} \cup lifeOver,
                      \A q \in PaneIds : ~ (lifePane[q] # Life!NoPane /\ lifeConv[q] = lifeConv[p])
               PROVE  \E r \in lifeReading : r.conv = lifeConv[p]
    BY <1>1 DEF Kept
  <2>1. PICK r \in lifeStored : r.conv = lifeConv[p]
    BY <1>1 DEF LifeInv, Kept
  <2>2. r.id \in PaneIds /\ lifeConv[r.id] = r.conv
    BY <1>2, <2>1 DEF LifeInv, RowsFit, RowT
  <2> QED
    BY <1>1, <2>1, <2>2 DEF LifeInv, AsItWas
<1> QED
  BY <1>4, <1>5, <1>6, <1>7, <1>8, <1>9 DEF LifeInv

LEMMA LifeSteps ==
    ASSUME Patient, LifeInv, [Life!Next]_(Life!lvars)
    PROVE  LifeInv'
<1>1. CASE Life!FlushRoster
  BY <1>1, SavesStep DEF Life!FlushRoster, Life!Flush, Core
<1>2. CASE Life!RefreshExternals
  BY <1>2, IdleStep DEF Life!RefreshExternals, Core
<1>3. CASE UNCHANGED Life!lvars
  BY <1>3, IdleStep DEF Life!lvars, Core
<1>4. CASE Life!Launch \/ Life!Reload \/ Life!AdoptOrphans \/ Life!LoadDormants
  BY <1>4, LaunchStep, ReloadStep, AdoptStep, LoadStep
<1>5. ASSUME NEW p \in PaneIds, Life!Spawned(p) \/ Life!Exit(p) \/ Life!Close(p) \/ Life!Shelve(p) \/ Life!Track(p)
      PROVE  LifeInv'
  BY <1>5, SpawnedStep, ExitStep, CloseStep, ShelveStep, TrackStep
<1>6. ASSUME NEW p \in PaneIds, Life!Stop(p) \/ Life!Continue(p) \/ Life!CloseToMove(p) \/ Life!Moved(p)
      PROVE  LifeInv'
  BY <1>6, StopStep, ContinueStep, CloseToMoveStep, MovedStep
<1>7. ASSUME NEW r \in lifeShelf, Life!Resume(r) \/ Life!Forget(r)
      PROVE  LifeInv'
  BY <1>7, ResumeStep, ForgetStep
<1> QED
  BY <1>1, <1>2, <1>3, <1>4, <1>5, <1>6, <1>7 DEF Life!Next

LEMMA LifeSays ==
    ASSUME Patient, LifeInv
    PROVE  Life!ConversationKept /\ Life!OneProcessEach /\ Life!RowsFindTranscripts
<1>1. Life!ConversationKept
  <2> SUFFICES ASSUME NEW p \in PaneIds, lifeConv[p] \notin {0} \cup lifeOver
               PROVE  lifeConv[p] \in Life!Reach
    BY DEF Life!ConversationKept, Life!Conversations
  <2>1. CASE \E q \in PaneIds : lifePane[q] # Life!NoPane /\ lifeConv[q] = lifeConv[p]
    BY <2>1 DEF LifeInv, PanesFit, Life!Reach
  <2>2. CASE \E q \in PaneIds : lifeFlow[q] = "moving" /\ lifeConv[q] = lifeConv[p]
    BY <2>2 DEF Life!Reach
  <2>3. CASE \E r \in IF lifeWin = "up" THEN lifeShelf ELSE lifeStored : r.conv = lifeConv[p]
    BY <2>3 DEF Life!Reach
  <2> QED
    BY <2>1, <2>2, <2>3 DEF LifeInv, Kept
<1>2. Life!OneProcessEach
  BY DEF LifeInv, ProcsFit, Life!OneProcessEach
<1>3. Life!RowsFindTranscripts
  BY DEF LifeInv, RowsFit, RowOf, Life!RowsFindTranscripts
<1> QED
  BY <1>1, <1>2, <1>3

\* A conversation nobody closed stays in reach: it has a pane, a row on the shelf or is on its way to another pane, and
\* across a reload or a quit it is in the roster (launch, closeSession, shelveSession, resumeDormant, saveRoster,
\* adoptOrphans, loadDormants); no two processes carry one on; and a row resumes where its transcript is.
THEOREM ConversationsStay ==
    ASSUME Patient
    PROVE  Life!Spec => [](Life!ConversationKept /\ Life!OneProcessEach /\ Life!RowsFindTranscripts)
<1>1. Life!Init => LifeInv
  BY LifeBegins
<1>2. LifeInv /\ [Life!Next]_(Life!lvars) => LifeInv'
  BY LifeSteps
<1>3. LifeInv => Life!ConversationKept /\ Life!OneProcessEach /\ Life!RowsFindTranscripts
  BY LifeSays
<1> QED
  BY <1>1, <1>2, <1>3, PTL DEF Life!Spec

=============================================================================
