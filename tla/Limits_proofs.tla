----------------------------- MODULE Limits_proofs -----------------------------
(***************************************************************************)
(* The figures shown and kept for an account are its own, and the forecast *)
(* log has a window once, when it is over, for any panes, fills and plans  *)
(* of a behaviour.                                                         *)
(*                                                                         *)
(* LimitsAreOwn is about what the window holds and is not inductive: what  *)
(* comes next is in the panes, which repeat their last answer, in the      *)
(* probe and on the wire.  A pane that follows the login holds the login's *)
(* figures until it has reported them, and those of the account it was     *)
(* heard under for as long as it is heard; the log takes only a window     *)
(* that was on show when it ended, and a later one is shown by then.       *)
(*                                                                         *)
(* Taken in with INSTANCE: what agents spend is booked once (Spend), the   *)
(* days' disk writes add up (DiskMeter), and no machine sends the absence  *)
(* of a project it cannot see (Roster).                                    *)
(***************************************************************************)
EXTENDS Limits, FiniteSetTheorems, SequenceTheorems, WellFoundedInduction, TLAPS

\* What the theorem assumes: `/login` waits for the answers under way, no peer speaks first, and no pane both follows the
\* login and has the token.
OneByOne == Settled /\ ~ Early /\ Follows \cap Own = {}

WinT == {NoWin} \cup [pct : Nat, reset : Nat]
FigT == [h5 : WinT, week : BOOLEAN, wins : Accounts \cup {None}]
SlotsT == UNION {[D -> FigT] : D \in SUBSET Accounts}
LogT == [acct : Accounts, reset : Nat, pct : Nat]
UiT == [on : BOOLEAN, loginAcct : Logins \cup {None}, account : Accounts \cup {None}, rl : [h5 : WinT, week : BOOLEAN],
        wins : Accounts \cup {None}, winsOf : Accounts \cup {None}, slots : SlotsT, saved : SlotsT, moved : SUBSET Panes,
        lastClosed : Int, log : Seq(LogT)]

\* The windows there were, and the one each account has to come: those seen to end are past.
WindowT == [acct : Accounts, reset : Nat, pct : Nat, shown : BOOLEAN]
\* ResetOf, at a time.
EndOf(t, a) == t + 1 + ((t + 1 + a) % 2)
ToCome(us, t, a) == [acct |-> a, reset |-> EndOf(t, a), pct |-> us[a], shown |-> FALSE]
WindowsOf(o, us, t) == o \cup {ToCome(us, t, a) : a \in Accounts}
Windows == WindowsOf(over, used, now)
InTime(W, t) ==
    /\ W \subseteq WindowT /\ t \in Nat
    /\ \A x \in W : x.shown => x.reset <= t
    /\ \A x, y \in W : x.acct = y.acct /\ x.reset > t /\ y.reset > t => x.reset = y.reset

OneOf(W, a, w) == \E x \in W : x.acct = a /\ x.reset = w.reset /\ w.pct <= x.pct
OnShow(W, a, w) == \E x \in W : x.shown /\ x.acct = a /\ x.reset = w.reset /\ w.pct <= x.pct
\* Figures an account may be shown with: its own, of a window the log does not have as over; and if there is no window,
\* one was seen to go or none was logged.
NotLogged(log, a, f) ==
    f.h5 # NoWin \/ ~ f.week => \A i \in DOMAIN log : log[i].acct = a => f.h5 # NoWin /\ log[i].reset < f.h5.reset
Fits(W, log, a, f) == f.wins \in {None, a} /\ (f.h5 # NoWin => OneOf(W, a, f.h5)) /\ NotLogged(log, a, f)
SlotIn(slots, a) == IF a \in DOMAIN slots THEN slots[a] ELSE NoFigures
\* A window on show that has ended, and may yet be logged, was on show then.
Watched(W, t, u) ==
    u.rl.h5 # NoWin /\ u.rl.h5.reset # u.lastClosed /\ u.rl.h5.reset <= t => OnShow(W, u.account, u.rl.h5)
LogOk(W, log) ==
    /\ \A i \in DOMAIN log : OnShow(W, log[i].acct, log[i])
    /\ \A i, j \in DOMAIN log : log[i].acct = log[j].acct /\ log[i].reset = log[j].reset => i = j
Rest(W, t, u) ==
    /\ u \in UiT /\ LogOk(W, u.log) /\ Watched(W, t, u)
    /\ u.account = None => u.rl.h5 = NoWin /\ ~ u.rl.week /\ u.wins = None
    /\ u.account # None => Fits(W, u.log, u.account, SlotNow(u))
UiOk(W, t, u) ==
    /\ Rest(W, t, u)
    /\ \A a \in Accounts : Fits(W, u.log, a, SlotIn(u.slots, a)) /\ Fits(W, u.log, a, SlotIn(u.saved, a))
\* The same but for what is about to be saved.
Unsaved(W, t, u) ==
    /\ Rest(W, t, u)
    /\ \A a \in Accounts : a # u.account => Fits(W, u.log, a, SlotIn(u.slots, a))

-----------------------------------------------------------------------------
(* Figures and slots.                                                       *)

LEMMA Names == Logins \subseteq Accounts /\ Tok \in Accounts /\ Tok \notin Logins /\ None \notin Accounts /\ None \notin Logins
BY DEF Logins, Accounts, Tok, None

LEMMA NoWinTyped ==
    /\ NoWin \in WinT /\ NoWin.reset = -1 /\ NoWin.pct = -1
    /\ NoFigures \in FigT /\ NoFigures.h5 = NoWin /\ ~ NoFigures.week /\ NoFigures.wins = None
BY DEF NoWin, WinT, NoFigures, FigT

LEMMA WinIsWin ==
    ASSUME NEW w \in WinT
    PROVE  /\ w.reset \in Int /\ w.pct \in Int
           /\ w # NoWin => w \in [pct : Nat, reset : Nat] /\ w.reset \in Nat /\ w.pct \in Nat
BY DEF WinT, NoWin

LEMMA SlotTyped ==
    ASSUME NEW s \in SlotsT, NEW a \in Accounts
    PROVE  SlotIn(s, a) \in FigT
BY NoWinTyped DEF SlotsT, SlotIn

LEMMA WithSlots ==
    ASSUME NEW s \in SlotsT, NEW a \in Accounts, NEW f \in FigT
    PROVE  /\ With(s, a, f) \in SlotsT
           /\ SlotIn(With(s, a, f), a) = f
           /\ \A b \in Accounts : b # a => SlotIn(With(s, a, f), b) = SlotIn(s, b)
<1>1. PICK D \in SUBSET Accounts : s \in [D -> FigT]
  BY DEF SlotsT
<1>2. DOMAIN s = D /\ D \cup {a} \in SUBSET Accounts
  BY <1>1
<1>3. With(s, a, f) \in [D \cup {a} -> FigT]
  BY <1>1, <1>2 DEF With
<1>4. \A b \in D \cup {a} : With(s, a, f)[b] = IF b = a THEN f ELSE s[b]
  BY <1>2 DEF With
<1>5. DOMAIN With(s, a, f) = D \cup {a}
  BY <1>3
<1> QED
  BY <1>2, <1>3, <1>4, <1>5 DEF SlotsT, SlotIn

LEMMA NowTyped ==
    ASSUME NEW u \in UiT
    PROVE  SlotNow(u) \in FigT /\ SlotNow(u).h5 = u.rl.h5 /\ SlotNow(u).week = u.rl.week /\ SlotNow(u).wins = u.wins
BY DEF UiT, SlotNow, FigT

LEMMA KeptSlots ==
    ASSUME NEW W, NEW t, NEW u, Unsaved(W, t, u)
    PROVE  Kept(u) \in SlotsT /\ \A a \in Accounts : Fits(W, u.log, a, SlotIn(Kept(u), a))
<1>1. u \in UiT /\ u.slots \in SlotsT
  BY DEF Unsaved, Rest, UiT
<1>2. CASE u.account = None
  BY <1>1, <1>2, Names DEF Kept, Unsaved
<1>3. CASE u.account # None
  <2>1. u.account \in Accounts
    BY <1>1, <1>3 DEF UiT
  <2>2. Kept(u) = With(u.slots, u.account, SlotNow(u))
    BY <1>3 DEF Kept
  <2>3. Fits(W, u.log, u.account, SlotNow(u))
    BY <1>3 DEF Unsaved, Rest
  <2> QED
    BY <1>1, <2>1, <2>2, <2>3, WithSlots, NowTyped DEF Unsaved
<1> QED
  BY <1>2, <1>3

-----------------------------------------------------------------------------
(* What the operations on accounts keep.                                    *)

\* What they leave alone.
Same(u, v) == v.loginAcct = u.loginAcct /\ v.moved = u.moved

LEMMA SaveOk ==
    ASSUME NEW W, NEW t, NEW u, Unsaved(W, t, u)
    PROVE  UiOk(W, t, SaveAccts(u)) /\ Same(u, SaveAccts(u)) /\ SaveAccts(u).account = u.account
<1> DEFINE v == SaveAccts(u)
<1>1. u \in UiT
  BY DEF Unsaved, Rest
<1>2. Kept(u) \in SlotsT /\ \A a \in Accounts : Fits(W, u.log, a, SlotIn(Kept(u), a))
  BY KeptSlots
<1>3. v \in UiT /\ v.slots = Kept(u) /\ v.saved = Kept(u)
  BY <1>1, <1>2 DEF SaveAccts, UiT
<1>4. /\ v.account = u.account /\ v.rl = u.rl /\ v.wins = u.wins /\ v.log = u.log /\ v.lastClosed = u.lastClosed
      /\ v.loginAcct = u.loginAcct /\ v.moved = u.moved
  BY <1>1 DEF SaveAccts, UiT
<1>5. SlotNow(v) = SlotNow(u)
  BY <1>4 DEF SlotNow
<1>6. Rest(W, t, v)
  BY <1>3, <1>4, <1>5 DEF Unsaved, Rest, Watched
<1> QED
  BY <1>2, <1>3, <1>4, <1>6 DEF UiOk, Same

LEMMA ShowOk ==
    ASSUME NEW W, NEW t, NEW u, UiOk(W, t, u), NEW a \in Accounts
    PROVE  UiOk(W, t, ShowAccount(u, a)) /\ Same(u, ShowAccount(u, a)) /\ ShowAccount(u, a).account = a
<1>1. u \in UiT /\ u.slots \in SlotsT /\ u.saved \in SlotsT
  BY DEF UiOk, Rest, UiT
<1> DEFINE next == SlotIn(u.slots, a)
<1>2. next = SlotFor(u, a) /\ next \in FigT /\ Fits(W, u.log, a, next)
  BY <1>1, SlotTyped DEF SlotFor, SlotIn, UiOk
<1>3. CASE u.account = a
  BY <1>3 DEF ShowAccount, Same
<1>4. CASE u.account = None /\ (a \notin DOMAIN u.slots \/ u.rl.h5 # NoWin \/ u.rl.week)
  <2> DEFINE v == [u EXCEPT !.account = a, !.wins = IF u.winsOf \in {None, a} THEN @ ELSE None, !.winsOf = a]
  <2>1. ShowAccount(u, a) = v
    BY <1>4, Names DEF ShowAccount
  <2>2. u.rl.h5 = NoWin /\ ~ u.rl.week /\ u.wins = None /\ a \notin DOMAIN u.slots
    BY <1>4 DEF UiOk, Rest
  <2>3. /\ v \in UiT /\ v.account = a /\ v.wins = None /\ v.rl = u.rl /\ v.slots = u.slots /\ v.saved = u.saved /\ v.log = u.log
        /\ v.lastClosed = u.lastClosed /\ v.loginAcct = u.loginAcct /\ v.moved = u.moved
    BY <1>1, <2>2 DEF UiT
  <2>4. next = NoFigures
    BY <2>2 DEF SlotIn
  <2>5. Fits(W, v.log, a, SlotNow(v))
    BY <1>2, <2>2, <2>3, <2>4, NowTyped, NoWinTyped DEF Fits, NotLogged
  <2>6. Rest(W, t, v)
    BY <2>2, <2>3, <2>5, Names DEF UiOk, Rest, Watched
  <2> QED
    BY <2>1, <2>3, <2>6 DEF UiOk, Same
<1>5. CASE u.account # a /\ ~ (u.account = None /\ (a \notin DOMAIN u.slots \/ u.rl.h5 # NoWin \/ u.rl.week))
  <2> DEFINE v == [u EXCEPT !.account = a, !.slots = Kept(u), !.rl = [h5 |-> next.h5, week |-> next.week],
                            !.wins = next.wins, !.winsOf = a, !.lastClosed = next.h5.reset]
  <2>1. ShowAccount(u, a) = SaveAccts(v)
    BY <1>2, <1>5 DEF ShowAccount
  <2>2. Unsaved(W, t, u)
    BY DEF UiOk, Unsaved
  <2>3. Kept(u) \in SlotsT /\ \A b \in Accounts : Fits(W, u.log, b, SlotIn(Kept(u), b))
    BY <2>2, KeptSlots
  <2>4. next.h5 \in WinT /\ next.week \in BOOLEAN /\ next.wins \in Accounts \cup {None} /\ next.h5.reset \in Int
    BY <1>2, WinIsWin DEF FigT
  <2>5. /\ v \in UiT /\ v.account = a /\ v.wins = next.wins /\ v.rl.h5 = next.h5 /\ v.rl.week = next.week /\ v.slots = Kept(u)
        /\ v.log = u.log /\ v.lastClosed = next.h5.reset /\ v.loginAcct = u.loginAcct /\ v.moved = u.moved
    BY <1>1, <2>3, <2>4 DEF UiT
  <2>6. Fits(W, v.log, a, SlotNow(v))
    BY <1>2, <2>5, NowTyped DEF Fits, NotLogged
  <2>7. Rest(W, t, v)
    BY <2>5, <2>6, Names DEF UiOk, Rest, Watched
  <2>8. Unsaved(W, t, v)
    BY <2>3, <2>5, <2>7 DEF Unsaved
  <2> HIDE DEF v
  <2>9. UiOk(W, t, SaveAccts(v)) /\ Same(v, SaveAccts(v)) /\ SaveAccts(v).account = v.account
    BY <2>8, SaveOk
  <2> QED
    BY <2>1, <2>5, <2>9 DEF Same
<1> QED
  BY <1>3, <1>4, <1>5

LEMMA NoteOk ==
    ASSUME NEW W, NEW t, NEW u, UiOk(W, t, u), NEW a \in Logins
    PROVE  LET n == NoteAccount(u, a) IN
           /\ UiOk(W, t, n) /\ n.loginAcct = a /\ n.account \in Accounts
           /\ n.moved = IF u.loginAcct \in {None, a} THEN u.moved ELSE {}
<1> DEFINE v == [u EXCEPT !.loginAcct = a, !.moved = IF u.loginAcct \in {None, a} THEN @ ELSE {}]
<1>1. u \in UiT
  BY DEF UiOk, Rest
<1>2. /\ v \in UiT /\ v.account = u.account /\ v.rl = u.rl /\ v.wins = u.wins /\ v.log = u.log /\ v.lastClosed = u.lastClosed
      /\ v.slots = u.slots /\ v.saved = u.saved /\ v.loginAcct = a
      /\ v.moved = IF u.loginAcct \in {None, a} THEN u.moved ELSE {}
  BY <1>1 DEF UiT
<1>3. NoteAccount(u, a) = IF u.account = Tok THEN v ELSE ShowAccount(v, a)
  BY DEF NoteAccount
<1> HIDE DEF v
<1>4. SlotNow(v) = SlotNow(u)
  BY <1>2 DEF SlotNow
<1>5. UiOk(W, t, v)
  BY <1>2, <1>4 DEF UiOk, Rest, Watched
<1>6. UiOk(W, t, ShowAccount(v, a)) /\ Same(v, ShowAccount(v, a)) /\ ShowAccount(v, a).account = a
  BY <1>5, Names, ShowOk
<1> QED
  BY <1>2, <1>3, <1>5, <1>6, Names DEF Same

LEMMA SyncShownOk ==
    ASSUME NEW W, NEW t, NEW u, UiOk(W, t, u)
    PROVE  UiOk(W, t, SyncShown(u)) /\ Same(u, SyncShown(u))
<1> DEFINE target == IF u.on /\ ~ Full(u) THEN Tok ELSE u.loginAcct
<1>1. target \in Accounts \cup {None}
  BY Names DEF UiOk, Rest, UiT
<1>2. SyncShown(u) = IF target = None THEN u ELSE ShowAccount(u, target)
  BY DEF SyncShown
<1> HIDE DEF target
<1>3. CASE target = None
  BY <1>2, <1>3 DEF Same
<1>4. CASE target # None
  BY <1>1, <1>2, <1>4, ShowOk
<1> QED
  BY <1>3, <1>4

LEMMA BootOk ==
    ASSUME NEW W, NEW t, NEW slots \in SlotsT, NEW on \in BOOLEAN, NEW log \in Seq(LogT), LogOk(W, log),
           \A a \in Accounts : Fits(W, log, a, SlotIn(slots, a))
    PROVE  UiOk(W, t, Boot(slots, on, log)) /\ Boot(slots, on, log).loginAcct = None
<1> DEFINE v == [on |-> on, loginAcct |-> None, account |-> None, rl |-> [h5 |-> NoWin, week |-> FALSE],
                 wins |-> None, winsOf |-> None, slots |-> slots, saved |-> slots, moved |-> Panes,
                 lastClosed |-> -1, log |-> log]
<1>1. v \in UiT
  BY NoWinTyped DEF UiT
<1>2. UiOk(W, t, v)
  BY <1>1 DEF UiOk, Rest, Watched
<1>3. v.loginAcct = None
  OBVIOUS
<1>4. Boot(slots, on, log) = SyncShown(v)
  BY DEF Boot
<1> HIDE DEF v
<1> QED
  BY <1>2, <1>3, <1>4, SyncShownOk DEF Same

\* A reading merged into figures of the account is one of its windows.
LEMMA MergeOne ==
    ASSUME NEW W, NEW a \in Accounts, NEW cur \in WinT, NEW new \in WinT, new # NoWin,
           OneOf(W, a, new), cur # NoWin => OneOf(W, a, cur)
    PROVE  LET m == MergeRl(cur, new) IN
           /\ m \in WinT /\ m # NoWin /\ OneOf(W, a, m) /\ m.reset >= new.reset
           /\ cur # NoWin => m.reset >= cur.reset
           /\ m = cur \/ m.reset = new.reset
<1> DEFINE m == MergeRl(cur, new)
<1>1. new \in [pct : Nat, reset : Nat]
  BY WinIsWin
<1>2. CASE cur = NoWin \/ new.reset > cur.reset
  <2>1. m = new
    BY <1>2 DEF MergeRl
  <2> QED
    BY <1>1, <1>2, <2>1, WinIsWin
<1>3. CASE cur # NoWin /\ new.reset < cur.reset
  <2>1. m = cur /\ cur \in [pct : Nat, reset : Nat]
    BY <1>1, <1>3, WinIsWin DEF MergeRl
  <2> QED
    BY <1>1, <1>3, <2>1
<1>4. CASE cur # NoWin /\ new.reset = cur.reset
  <2>1. cur \in [pct : Nat, reset : Nat]
    BY <1>4, WinIsWin
  <2>2. m = [cur EXCEPT !.pct = IF new.pct > @ THEN new.pct ELSE @]
    BY <1>1, <1>4, <2>1 DEF MergeRl
  <2>3. m \in [pct : Nat, reset : Nat] /\ m.reset = cur.reset /\ (m.pct = new.pct \/ m.pct = cur.pct)
    BY <1>1, <2>1, <2>2
  <2>4. OneOf(W, a, m)
    BY <1>4, <2>3 DEF OneOf
  <2>5. m # NoWin /\ m \in WinT
    BY <2>3 DEF NoWin, WinT
  <2> QED
    BY <1>1, <1>4, <2>1, <2>3, <2>4, <2>5
<1>5. cur # NoWin => cur.reset \in Nat /\ new.reset \in Nat
  BY <1>1, WinIsWin
<1> QED
  BY <1>1, <1>2, <1>3, <1>4, <1>5
LEMMA LogPast ==
    ASSUME NEW W, NEW t, InTime(W, t), NEW log \in Seq(LogT), LogOk(W, log)
    PROVE  \A i \in DOMAIN log : log[i] \in LogT /\ log[i].reset \in Nat /\ log[i].reset <= t
<1> SUFFICES ASSUME NEW i \in DOMAIN log PROVE log[i] \in LogT /\ log[i].reset \in Nat /\ log[i].reset <= t
  OBVIOUS
<1>1. log[i] \in LogT
  BY ElementOfSeq
<1>2. PICK x \in W : x.shown /\ x.reset = log[i].reset
  BY DEF LogOk, OnShow
<1> QED
  BY <1>1, <1>2 DEF InTime, LogT

LEMMA LogAdded ==
    ASSUME NEW W, NEW log \in Seq(LogT), LogOk(W, log), NEW e \in LogT, OnShow(W, e.acct, e),
           \A i \in DOMAIN log : log[i].acct = e.acct => log[i].reset < e.reset
    PROVE  LET l == Append(log, e) IN
           /\ l \in Seq(LogT) /\ LogOk(W, l)
           /\ \A i \in DOMAIN l : l[i] = e \/ (\E j \in DOMAIN log : l[i] = log[j])
           /\ \A a, f : a # e.acct /\ Fits(W, log, a, f) => Fits(W, l, a, f)
<1> DEFINE l == Append(log, e)  n == Len(log)
<1>1. n \in Nat /\ DOMAIN log = 1..n /\ \A i \in 1..n : log[i] \in LogT
  BY ElementOfSeq, LenProperties
<1>2. l \in Seq(LogT) /\ Len(l) = n + 1 /\ l[n + 1] = e /\ \A i \in 1..n : l[i] = log[i]
  BY AppendProperties
<1> HIDE DEF l, n
<1>3. DOMAIN l = 1..(n + 1)
  BY <1>2, LenProperties
<1>4. \A i \in DOMAIN l : (i = n + 1 /\ l[i] = e) \/ (i # n + 1 /\ i \in DOMAIN log /\ l[i] = log[i])
  BY <1>1, <1>2, <1>3
<1>5. \A i \in DOMAIN l : OnShow(W, l[i].acct, l[i])
  BY <1>4 DEF LogOk
<1>6. \A i, j \in DOMAIN l : l[i].acct = l[j].acct /\ l[i].reset = l[j].reset => i = j
  <2>1. \A i \in DOMAIN log : log[i].acct = e.acct => log[i].reset # e.reset
    BY <1>1 DEF LogT
  <2> QED
    BY <1>4, <2>1 DEF LogOk
<1>7. \A a, f : a # e.acct /\ Fits(W, log, a, f) => Fits(W, l, a, f)
  BY <1>4 DEF Fits, NotLogged
<1> QED
  BY <1>2, <1>4, <1>5, <1>6, <1>7 DEF LogOk, l

\* Readings of the account on the meters: new figures of a window to come, or word of its end.
LEMMA ApplyRlOk ==
    ASSUME NEW W, NEW t, InTime(W, t), NEW u, UiOk(W, t, u), u.account \in Accounts, NEW fresh \in BOOLEAN,
           NEW r \in [h5 : WinT, week : BOOLEAN], r.h5 # NoWin => OneOf(W, u.account, r.h5) /\ r.h5.reset > t
    PROVE  UiOk(W, t, ApplyRl(u, r, fresh)) /\ Same(u, ApplyRl(u, r, fresh))
<1> DEFINE a == u.account  cur == u.rl.h5
<1>1. /\ u \in UiT /\ u.slots \in SlotsT /\ u.saved \in SlotsT /\ cur \in WinT /\ u.rl \in [h5 : WinT, week : BOOLEAN]
      /\ u.log \in Seq(LogT) /\ LogOk(W, u.log) /\ u.wins \in Accounts \cup {None} /\ t \in Nat /\ u.lastClosed \in Int
  BY DEF UiOk, Rest, UiT, InTime
<1>2. u.wins \in {None, a} /\ (cur # NoWin => OneOf(W, a, cur)) /\ NotLogged(u.log, a, SlotNow(u))
  BY Names, NowTyped DEF UiOk, Rest, Fits
<1>3. \A i \in DOMAIN u.log : u.log[i].reset \in Nat /\ u.log[i].reset <= t
  BY <1>1, LogPast
<1> DEFINE m == MergeRl(cur, r.h5)  u1 == [u EXCEPT !.rl.h5 = MergeRl(@, r.h5)]
           v == IF r.h5 # NoWin THEN OnRlUpdate(u1, cur)
                ELSE IF r.week /\ fresh THEN [u EXCEPT !.rl.h5 = NoWin] ELSE u
           w == [v EXCEPT !.rl.week = @ \/ r.week]
<1>4. CASE r.h5 # NoWin
  <2>1. m \in WinT /\ m # NoWin /\ OneOf(W, a, m) /\ m.reset \in Nat /\ m.reset > t
    <3>1. r.h5 \in WinT /\ r.h5.reset \in Nat /\ r.h5.reset > t /\ OneOf(W, a, r.h5)
      BY <1>4, WinIsWin
    <3>2. m \in WinT /\ m # NoWin /\ OneOf(W, a, m) /\ m.reset >= r.h5.reset
      <4>1. a \in Accounts /\ cur \in WinT /\ (cur # NoWin => OneOf(W, a, cur))
        BY <1>1, <1>2
      <4> HIDE DEF a, cur
      <4> QED
        BY <1>4, <3>1, <4>1, MergeOne
    <3>3. m.reset \in Nat
      BY <3>2, WinIsWin
    <3> QED
      BY <1>1, <3>1, <3>2, <3>3
  <2>2. /\ u1 \in UiT /\ u1.rl.h5 = m /\ u1.rl.week = u.rl.week /\ u1.account = a /\ u1.log = u.log /\ u1.slots = u.slots
        /\ u1.saved = u.saved /\ u1.wins = u.wins /\ u1.lastClosed = u.lastClosed /\ Same(u, u1)
    BY <1>1, <2>1 DEF UiT, Same
  <2> HIDE DEF u1, m
  <2> DEFINE e == [acct |-> a, reset |-> cur.reset, pct |-> cur.pct]
             closed == ~ (cur = NoWin \/ m.reset <= cur.reset \/ u.lastClosed = cur.reset)
  <2>3. OnRlUpdate(u1, cur) = IF ~ closed THEN u1 ELSE [u1 EXCEPT !.lastClosed = cur.reset, !.log = Append(@, e)]
    BY <2>2 DEF OnRlUpdate
  <2>4. ASSUME closed
        PROVE  /\ e \in LogT /\ OnShow(W, e.acct, e) /\ cur.reset \in Nat /\ cur.reset <= t
               /\ \A i \in DOMAIN u.log : u.log[i].acct = e.acct => u.log[i].reset < e.reset
    <3>1. cur # NoWin /\ m.reset > cur.reset /\ u.lastClosed # cur.reset /\ cur \in [pct : Nat, reset : Nat]
      BY <1>1, <2>1, <2>4, WinIsWin
    <3>2. PICK x \in W : x.acct = a /\ x.reset = cur.reset
      BY <1>2, <3>1 DEF OneOf
    <3>3. PICK y \in W : y.acct = a /\ y.reset = m.reset
      BY <2>1 DEF OneOf
    <3>4. cur.reset <= t
      BY <2>1, <3>1, <3>2, <3>3 DEF InTime, WindowT
    <3>5. OnShow(W, a, cur)
      BY <3>1, <3>4 DEF UiOk, Rest, Watched
    <3>6. e \in LogT /\ e.acct = a /\ e.reset = cur.reset /\ e.pct = cur.pct
      BY <3>1 DEF LogT
    <3>7. OnShow(W, e.acct, e)
      BY <3>5, <3>6 DEF OnShow
    <3>8. \A i \in DOMAIN u.log : u.log[i].acct = a => u.log[i].reset < cur.reset
      BY <1>1, <1>2, <3>1, NowTyped DEF NotLogged
    <3> QED
      BY <3>1, <3>4, <3>6, <3>7, <3>8
  <2>5. /\ v \in UiT /\ v.rl.h5 = m /\ v.rl.week = u.rl.week /\ v.account = a /\ v.slots = u.slots /\ v.saved = u.saved
        /\ v.wins = u.wins /\ Same(u, v) /\ LogOk(W, v.log)
        /\ \A i \in DOMAIN v.log : v.log[i].reset \in Nat /\ v.log[i].reset <= t
        /\ \A b \in Accounts, f \in FigT : b # a /\ Fits(W, u.log, b, f) => Fits(W, v.log, b, f)
    <3>1. CASE ~ closed
      BY <1>1, <1>3, <1>4, <2>2, <2>3, <3>1
    <3>2. CASE closed
      <4> DEFINE l == Append(u.log, e)
      <4>1. /\ l \in Seq(LogT) /\ LogOk(W, l) /\ \A b, f : b # e.acct /\ Fits(W, u.log, b, f) => Fits(W, l, b, f)
        BY <1>1, <2>4, <3>2, LogAdded
      <4>2. \A i \in DOMAIN l : l[i].reset \in Nat /\ l[i].reset <= t
        BY <4>1, LogPast
      <4>3. v = [u1 EXCEPT !.lastClosed = cur.reset, !.log = l]
        BY <1>4, <2>2, <2>3, <3>2
      <4> HIDE DEF l, v, closed
      <4>4. cur.reset \in Nat
        BY <2>4, <3>2
      <4>5. /\ v \in UiT /\ v.rl = u1.rl /\ v.account = u1.account /\ v.slots = u1.slots /\ v.saved = u1.saved
            /\ v.wins = u1.wins /\ v.log = l /\ v.moved = u1.moved /\ v.loginAcct = u1.loginAcct
        <5>1. u1 \in UiT /\ l \in Seq(LogT) /\ cur.reset \in Int
          BY <2>2, <4>1, <4>4
        <5> QED
          BY <4>3, <5>1 DEF UiT
      <4> QED
        BY <2>2, <4>1, <4>2, <4>5 DEF Same
    <3> QED
      BY <3>1, <3>2
  <2> HIDE DEF v
  <2>6. /\ w \in UiT /\ w.rl.h5 = m /\ w.account = a /\ w.slots = v.slots /\ w.wins = v.wins /\ w.log = v.log /\ Same(v, w)
    BY <1>1, <2>1, <2>5 DEF UiT, Same
  <2> HIDE DEF w
  <2>7. Fits(W, w.log, a, SlotNow(w))
    <3>1. \A i \in DOMAIN w.log : w.log[i].reset < m.reset
      BY <1>1, <2>1, <2>5, <2>6
    <3> QED
      BY <1>2, <2>1, <2>5, <2>6, <3>1, NowTyped DEF Fits, NotLogged
  <2>8. Rest(W, t, w)
    BY <1>1, <2>1, <2>5, <2>6, <2>7, Names DEF Rest, Watched
  <2>9. Unsaved(W, t, w)
    <3>1. \A b \in Accounts : SlotIn(u.slots, b) \in FigT /\ Fits(W, u.log, b, SlotIn(u.slots, b))
      BY <1>1, SlotTyped DEF UiOk
    <3> QED
      BY <2>5, <2>6, <2>8, <3>1 DEF Unsaved
  <2>10. ApplyRl(u, r, fresh) = SaveAccts(w)
    BY <1>4, <2>1, Names DEF ApplyRl, v, w, u1, m
  <2> QED
    BY <2>5, <2>6, <2>9, <2>10, SaveOk DEF Same
<1>5. CASE r.h5 = NoWin /\ r.week
  <2>1. v = IF fresh THEN [u EXCEPT !.rl.h5 = NoWin] ELSE u
    BY <1>5
  <2>2. /\ v \in UiT /\ v.rl.h5 \in {NoWin, cur} /\ v.account = a /\ v.slots = u.slots /\ v.wins = u.wins /\ v.log = u.log
        /\ v.lastClosed = u.lastClosed /\ Same(u, v)
    BY <1>1, <2>1, NoWinTyped DEF UiT, Same
  <2> HIDE DEF v
  <2>3. /\ w \in UiT /\ w.rl.h5 = v.rl.h5 /\ w.rl.week /\ w.account = a /\ w.slots = u.slots /\ w.wins = u.wins /\ w.log = u.log
        /\ w.lastClosed = u.lastClosed /\ Same(v, w)
    BY <1>5, <2>2 DEF UiT, Same
  <2> HIDE DEF w
  <2>4. Fits(W, w.log, a, SlotNow(w))
    BY <1>1, <1>2, <2>2, <2>3, NowTyped DEF Fits, NotLogged
  <2>5. Rest(W, t, w)
    BY <2>2, <2>3, <2>4, Names DEF UiOk, Rest, Watched
  <2>6. Unsaved(W, t, w)
    BY <2>3, <2>5 DEF Unsaved, UiOk
  <2>7. ApplyRl(u, r, fresh) = SaveAccts(w)
    BY <1>5, Names DEF ApplyRl, v, w
  <2> QED
    BY <2>2, <2>3, <2>6, <2>7, SaveOk DEF Same
<1>6. CASE r.h5 = NoWin /\ ~ r.week
  <2>1. ApplyRl(u, r, fresh) = w /\ v = u
    BY <1>6 DEF ApplyRl
  <2>2. w = u
    BY <1>1, <1>6, <2>1 DEF UiT
  <2> QED
    BY <2>1, <2>2 DEF Same
<1> QED
  BY <1>4, <1>5, <1>6
LEMMA SlotSet ==
    ASSUME NEW W, NEW t, NEW u, UiOk(W, t, u), NEW a \in Accounts, a # u.account, NEW f \in FigT, Fits(W, u.log, a, f)
    PROVE  LET v == SaveAccts([u EXCEPT !.slots = With(@, a, f)]) IN UiOk(W, t, v) /\ Same(u, v)
<1> DEFINE v == [u EXCEPT !.slots = With(@, a, f)]
<1>1. u \in UiT /\ u.slots \in SlotsT
  BY DEF UiOk, Rest, UiT
<1>2. /\ With(u.slots, a, f) \in SlotsT /\ SlotIn(With(u.slots, a, f), a) = f
      /\ \A b \in Accounts : b # a => SlotIn(With(u.slots, a, f), b) = SlotIn(u.slots, b)
  BY <1>1, WithSlots
<1>3. /\ v \in UiT /\ v.account = u.account /\ v.rl = u.rl /\ v.wins = u.wins /\ v.log = u.log /\ v.lastClosed = u.lastClosed
      /\ v.slots = With(u.slots, a, f) /\ Same(u, v)
  BY <1>1, <1>2 DEF UiT, Same
<1> HIDE DEF v
<1>4. SlotNow(v) = SlotNow(u)
  BY <1>3 DEF SlotNow
<1>5. Unsaved(W, t, v)
  BY <1>2, <1>3, <1>4 DEF UiOk, Rest, Watched, Unsaved
<1>6. UiOk(W, t, SaveAccts(v)) /\ Same(v, SaveAccts(v))
  BY <1>5, SaveOk
<1>7. v = [u EXCEPT !.slots = With(@, a, f)]
  BY DEF v
<1> QED
  BY <1>3, <1>6, <1>7 DEF Same

\* Readings of an account, on the meters or not.
LEMMA ApplyAccountOk ==
    ASSUME NEW W, NEW t, InTime(W, t), NEW u, UiOk(W, t, u), NEW a \in Accounts, NEW fresh \in BOOLEAN,
           NEW r \in [h5 : WinT, week : BOOLEAN], r.h5 # NoWin => OneOf(W, a, r.h5) /\ r.h5.reset > t
    PROVE  UiOk(W, t, ApplyAccount(u, a, r, fresh)) /\ Same(u, ApplyAccount(u, a, r, fresh))
<1>1. CASE a = u.account
  BY <1>1, ApplyRlOk DEF ApplyAccount
<1>2. CASE a # u.account /\ r.h5 = NoWin /\ ~ r.week
  BY <1>2 DEF ApplyAccount, Same
<1>3. CASE a # u.account /\ ~ (r.h5 = NoWin /\ ~ r.week)
  <2> DEFINE s == SlotIn(u.slots, a)  m == IF r.h5 = NoWin THEN s.h5 ELSE MergeRl(s.h5, r.h5)
             f == [s EXCEPT !.h5 = m, !.week = @ \/ r.week]
  <2>1. /\ u \in UiT /\ u.slots \in SlotsT /\ u.log \in Seq(LogT) /\ LogOk(W, u.log) /\ t \in Nat
    BY DEF UiOk, Rest, UiT, InTime
  <2>2. s = SlotFor(u, a) /\ s \in FigT /\ Fits(W, u.log, a, s)
    BY <2>1, SlotTyped DEF SlotFor, SlotIn, UiOk
  <2> HIDE DEF s
  <2>3. s.h5 \in WinT /\ s.week \in BOOLEAN /\ s.wins \in {None, a} /\ (s.h5 # NoWin => OneOf(W, a, s.h5))
    BY <2>2 DEF FigT, Fits
  <2>4. m \in WinT /\ (m # NoWin => OneOf(W, a, m)) /\ (r.h5 # NoWin => m # NoWin /\ m.reset \in Nat /\ m.reset > t)
    <3>1. CASE r.h5 = NoWin
      BY <2>3, <3>1
    <3>2. CASE r.h5 # NoWin
      <4>1. m \in WinT /\ m # NoWin /\ OneOf(W, a, m) /\ m.reset >= r.h5.reset /\ r.h5.reset \in Nat /\ r.h5.reset > t
        BY <2>3, <3>2, MergeOne, WinIsWin
      <4>2. m.reset \in Nat
        BY <4>1, WinIsWin
      <4> QED
        BY <2>1, <4>1, <4>2
    <3> QED
      BY <3>1, <3>2
  <2>5. m = s.h5 \/ r.h5 # NoWin
    OBVIOUS
  <2> HIDE DEF m
  <2>6. f \in FigT /\ f.h5 = m /\ f.week = (s.week \/ r.week) /\ f.wins = s.wins
    BY <2>2, <2>3, <2>4 DEF FigT
  <2> HIDE DEF f
  <2>7. NotLogged(u.log, a, f)
    <3>1. CASE r.h5 = NoWin
      BY <1>3, <2>2, <2>5, <2>6, <3>1 DEF Fits, NotLogged
    <3>2. CASE r.h5 # NoWin
      <4>1. \A i \in DOMAIN u.log : u.log[i].reset \in Nat /\ u.log[i].reset <= t
        BY <2>1, LogPast
      <4> QED
        BY <2>1, <2>4, <2>6, <3>2, <4>1 DEF NotLogged
    <3> QED
      BY <3>1, <3>2
  <2>8. Fits(W, u.log, a, f)
    BY <2>3, <2>4, <2>6, <2>7 DEF Fits
  <2>9. ApplyAccount(u, a, r, fresh) = SaveAccts([u EXCEPT !.slots = With(@, a, f)])
    BY <1>3, <2>2, <2>3 DEF ApplyAccount, f, m
  <2> QED
    BY <1>3, <2>6, <2>8, <2>9, SlotSet
<1> QED
  BY <1>1, <1>2, <1>3

\* Another machine's figures of an account: a window the panes here saw go does not come back.
LEMMA PeerOne ==
    ASSUME NEW W, NEW t, NEW u, UiOk(W, t, u), NEW a \in Accounts, NEW s \in FigT, Fits(W, u.log, a, s),
           NEW new \in WinT, new # NoWin, OneOf(W, a, new)
    PROVE  LET m == PeerWindow(s.h5, s.week, new) IN
           /\ m \in WinT /\ (m = s.h5 \/ m.reset = new.reset)
           /\ \A f : f.h5 = m /\ f.week /\ f.wins = s.wins => Fits(W, u.log, a, f)
           /\ m # NoWin => OneOf(W, a, m)
<1> DEFINE m == PeerWindow(s.h5, s.week, new)
<1>1. s.h5 \in WinT /\ s.week \in BOOLEAN /\ s.wins \in {None, a} /\ (s.h5 # NoWin => OneOf(W, a, s.h5))
  BY DEF FigT, Fits
<1>2. CASE s.h5 = NoWin /\ s.week
  BY <1>1, <1>2 DEF PeerWindow, Fits, NotLogged
<1>3. CASE ~ (s.h5 = NoWin /\ s.week)
  <2>1. m = MergeRl(s.h5, new)
    BY <1>3 DEF PeerWindow
  <2>2. /\ m \in WinT /\ m # NoWin /\ OneOf(W, a, m) /\ m.reset >= new.reset /\ (s.h5 # NoWin => m.reset >= s.h5.reset)
        /\ (m = s.h5 \/ m.reset = new.reset)
    BY <1>1, <2>1, MergeOne
  <2>3. \A i \in DOMAIN u.log : u.log[i].reset \in Nat
    <3>1. u.log \in Seq(LogT)
      BY DEF UiOk, Rest, UiT
    <3>2. \A i \in DOMAIN u.log : u.log[i] \in LogT
      BY <3>1, ElementOfSeq
    <3> QED
      BY <3>2 DEF LogT
  <2>4. m.reset \in Nat /\ s.h5.reset \in Int
    BY <1>1, <2>2, WinIsWin
  <2>5. \A i \in DOMAIN u.log : u.log[i].acct = a => u.log[i].reset < m.reset
    BY <1>3, <2>2, <2>3, <2>4 DEF Fits, NotLogged
  <2> HIDE DEF m
  <2>6. \A f : f.h5 = m /\ f.week /\ f.wins = s.wins => Fits(W, u.log, a, f)
    BY <1>1, <2>2, <2>5 DEF Fits, NotLogged
  <2> QED
    BY <2>2, <2>6 DEF m
<1> QED
  BY <1>2, <1>3

LEMMA PeerMeters ==
    ASSUME NEW W, NEW t, NEW u, UiOk(W, t, u), u.account \in Accounts, NEW new \in WinT, new # NoWin,
           OneOf(W, u.account, new),
           \A x \in W : x.acct = u.account /\ x.reset = new.reset /\ x.reset <= t => x.shown
    PROVE  LET v == [u EXCEPT !.rl = [h5 |-> PeerWindow(@.h5, @.week, new), week |-> TRUE]] IN UiOk(W, t, v) /\ Same(u, v)
<1> DEFINE a == u.account  m == PeerWindow(u.rl.h5, u.rl.week, new)
           v == [u EXCEPT !.rl = [h5 |-> PeerWindow(@.h5, @.week, new), week |-> TRUE]]
<1>1. u \in UiT /\ SlotNow(u) \in FigT /\ Fits(W, u.log, a, SlotNow(u))
  BY Names, NowTyped DEF UiOk, Rest
<1>2. /\ m \in WinT /\ (m = u.rl.h5 \/ m.reset = new.reset) /\ (m # NoWin => OneOf(W, a, m))
      /\ \A f : f.h5 = m /\ f.week /\ f.wins = u.wins => Fits(W, u.log, a, f)
  BY <1>1, NowTyped, PeerOne
<1> HIDE DEF m
<1>3. /\ v \in UiT /\ v.rl.h5 = m /\ v.rl.week /\ v.account = a /\ v.wins = u.wins /\ v.log = u.log /\ v.slots = u.slots
      /\ v.saved = u.saved /\ v.lastClosed = u.lastClosed /\ Same(u, v)
  BY <1>1, <1>2 DEF UiT, Same, m
<1> HIDE DEF v
<1>4. Fits(W, v.log, a, SlotNow(v))
  BY <1>2, <1>3, NowTyped
<1>5. Watched(W, t, v)
  <2>1. SUFFICES ASSUME m # NoWin, m.reset # u.lastClosed, m.reset <= t PROVE OnShow(W, a, m)
    BY <1>3 DEF Watched
  <2>2. CASE m = u.rl.h5
    BY <2>1, <2>2 DEF UiOk, Rest, Watched
  <2>3. CASE m.reset = new.reset
    BY <1>2, <2>1, <2>3 DEF OneOf, OnShow
  <2> QED
    BY <1>2, <2>2, <2>3
<1>6. UiOk(W, t, v)
  BY <1>3, <1>4, <1>5, Names DEF UiOk, Rest
<1> QED
  BY <1>3, <1>6 DEF v

\* Time goes by, accounts are used, windows end.
Covers(W, V) ==
    /\ W \subseteq WindowT /\ V \subseteq WindowT
    /\ \A x \in W : \E y \in V : y.acct = x.acct /\ y.reset = x.reset /\ x.pct <= y.pct /\ (x.shown => y.shown)

LEMMA OneLater ==
    ASSUME NEW W, NEW V, Covers(W, V), NEW a, NEW w, w.pct \in Int
    PROVE  (OneOf(W, a, w) => OneOf(V, a, w)) /\ (OnShow(W, a, w) => OnShow(V, a, w))
<1>1. \A x \in W : x.pct \in Nat
  BY DEF Covers, WindowT
<1>2. \A x \in V : x.pct \in Nat
  BY DEF Covers, WindowT
<1>3. ASSUME OneOf(W, a, w) PROVE OneOf(V, a, w)
  <2>1. PICK x \in W : x.acct = a /\ x.reset = w.reset /\ w.pct <= x.pct
    BY <1>3 DEF OneOf
  <2>2. PICK y \in V : y.acct = x.acct /\ y.reset = x.reset /\ x.pct <= y.pct
    BY DEF Covers
  <2> QED
    BY <1>1, <1>2, <2>1, <2>2 DEF OneOf
<1>4. ASSUME OnShow(W, a, w) PROVE OnShow(V, a, w)
  <2>1. PICK x \in W : x.shown /\ x.acct = a /\ x.reset = w.reset /\ w.pct <= x.pct
    BY <1>4 DEF OnShow
  <2>2. PICK y \in V : y.acct = x.acct /\ y.reset = x.reset /\ x.pct <= y.pct /\ y.shown
    BY <2>1 DEF Covers
  <2> QED
    BY <1>1, <1>2, <2>1, <2>2 DEF OnShow
<1> QED
  BY <1>3, <1>4

LEMMA UiLater ==
    ASSUME NEW W, NEW V, Covers(W, V), NEW t \in Nat, NEW t2 \in Nat, NEW u, UiOk(W, t, u),
           \A x \in W : x.acct = u.account /\ t < x.reset /\ x.reset <= t2 =>
               \E y \in V : y.shown /\ y.acct = x.acct /\ y.reset = x.reset /\ x.pct <= y.pct
    PROVE  UiOk(V, t2, u)
<1>1. u \in UiT /\ u.slots \in SlotsT /\ u.saved \in SlotsT /\ u.rl.h5 \in WinT /\ u.log \in Seq(LogT)
  BY DEF UiOk, Rest, UiT
<1>2. LogOk(V, u.log)
  <2>1. \A i \in DOMAIN u.log : u.log[i].pct \in Int
    <3>1. \A i \in DOMAIN u.log : u.log[i] \in LogT
      BY <1>1, ElementOfSeq
    <3> QED
      BY <3>1 DEF LogT
  <2>2. \A i \in DOMAIN u.log : OnShow(V, u.log[i].acct, u.log[i])
    BY <2>1, OneLater DEF UiOk, Rest, LogOk
  <2> QED
    BY <2>2 DEF UiOk, Rest, LogOk
<1>3. \A a : \A f \in FigT : Fits(W, u.log, a, f) => Fits(V, u.log, a, f)
  BY OneLater, WinIsWin DEF Fits, FigT
<1>4. Watched(V, t2, u)
  <2> DEFINE h == u.rl.h5
  <2>1. SUFFICES ASSUME h # NoWin, h.reset # u.lastClosed, h.reset <= t2 PROVE OnShow(V, u.account, h)
    BY DEF Watched
  <2>2. h.pct \in Nat /\ h.reset \in Nat
    BY <1>1, <2>1, WinIsWin
  <2>3. CASE h.reset <= t
    <3>1. OnShow(W, u.account, h)
      BY <2>1, <2>3 DEF UiOk, Rest, Watched
    <3> QED
      BY <2>2, <3>1, OneLater
  <2>4. CASE h.reset > t
    <3>1. OneOf(W, u.account, h)
      BY <1>1, <2>1, NowTyped DEF UiOk, Rest, Fits
    <3>2. PICK x \in W : x.acct = u.account /\ x.reset = h.reset /\ h.pct <= x.pct
      BY <3>1 DEF OneOf
    <3>3. PICK y \in V : y.shown /\ y.acct = x.acct /\ y.reset = x.reset /\ x.pct <= y.pct
      BY <2>1, <2>4, <3>2
    <3>4. x.pct \in Nat /\ y.pct \in Nat
      BY DEF Covers, WindowT
    <3> QED
      BY <2>2, <3>2, <3>3, <3>4 DEF OnShow
  <2> QED
    BY <2>2, <2>3, <2>4
<1>5. \A a \in Accounts : SlotIn(u.slots, a) \in FigT /\ SlotIn(u.saved, a) \in FigT
  BY <1>1, SlotTyped
<1>6. SlotNow(u) \in FigT
  BY <1>1, NowTyped
<1>7. Rest(V, t2, u)
  <2>1. u.account # None => Fits(V, u.log, u.account, SlotNow(u))
    BY <1>3, <1>6 DEF UiOk, Rest
  <2> QED
    BY <1>1, <1>2, <1>4, <2>1 DEF UiOk, Rest
<1>8. \A a \in Accounts : Fits(V, u.log, a, SlotIn(u.slots, a)) /\ Fits(V, u.log, a, SlotIn(u.saved, a))
  BY <1>3, <1>5 DEF UiOk
<1> QED
  BY <1>7, <1>8 DEF UiOk
-----------------------------------------------------------------------------
(* The invariant.                                                           *)

HadW(a, w) == w # NoWin => OneOf(Windows, a, w)
\* Figures that an answer carries.
AnswerT == FigT \cup [h5 : WinT, week : BOOLEAN]

TypeInv ==
    /\ now \in Nat /\ used \in [Accounts -> Nat] /\ login \in Logins
    /\ flight \in [Panes -> Accounts \cup {None}] /\ api \in [Panes -> Nat] /\ apiMs \in [Panes -> Int]
    /\ cache \in [Panes -> AnswerT] /\ probing \in {None, login} /\ wire \in [acct : Logins \cup {None}, h5 : WinT]
    /\ over \subseteq WindowT /\ \A x \in over : x.reset <= now

\* A pane that follows the login: what it has yet to report is the login's, and what it repeats is of the account it was
\* heard under, for as long as it is heard.
Follower(p) ==
    /\ flight[p] \in {None, login} /\ apiMs[p] <= api[p] /\ (api[p] = 0 => cache[p].h5 = NoWin)
    /\ api[p] # apiMs[p] => HadW(login, cache[p].h5)
    /\ api[p] = apiMs[p] => ui.loginAcct # None /\ (p \in ui.moved => HadW(ui.loginAcct, cache[p].h5))
OwnPane(p) == flight[p] \in {None, Tok} /\ HadW(Tok, cache[p].h5)
PanesOk == (\A p \in Follows : Follower(p)) /\ (\A p \in Own : OwnPane(p))
Wired == wire.acct # None => wire.h5 # NoWin /\ OneOf(Windows, wire.acct, wire.h5)

IInv == TypeInv /\ UiOk(Windows, now, ui) /\ PanesOk /\ Wired

LEMMA EndAhead ==
    ASSUME NEW t \in Nat, NEW a \in Accounts
    PROVE  EndOf(t, a) \in Nat /\ EndOf(t, a) \in {t + 1, t + 2} /\ (EndOf(t, a) # t + 1 => EndOf(t + 1, a) = EndOf(t, a))
<1>1. a \in Nat
  BY DEF Accounts, Logins, Tok
<1> DEFINE n == t + 1 + a
<1>2. n \in Nat /\ t + 1 + 1 + a = n + 1
  BY <1>1
<1> HIDE DEF n
<1>3. n % 2 \in {0, 1} /\ (n % 2 = 1 => (n + 1) % 2 = 0)
  BY <1>2
<1>4. EndOf(t, a) = t + 1 + (n % 2) /\ EndOf(t + 1, a) = t + 2 + ((n + 1) % 2)
  BY <1>2 DEF EndOf, n
<1> QED
  BY <1>3, <1>4

LEMMA WindowsIn ==
    ASSUME NEW o \in SUBSET WindowT, NEW us \in [Accounts -> Nat], NEW t \in Nat, \A x \in o : x.reset <= t
    PROVE  LET W == WindowsOf(o, us, t) IN
           /\ InTime(W, t) /\ W \subseteq WindowT
           /\ \A a \in Accounts : LET w == [pct |-> us[a], reset |-> EndOf(t, a)] IN
                w \in WinT /\ w # NoWin /\ OneOf(W, a, w) /\ w.reset > t
<1> DEFINE W == WindowsOf(o, us, t)
<1>1. \A a \in Accounts : LET c == ToCome(us, t, a) IN
        c \in WindowT /\ ~ c.shown /\ c.acct = a /\ c.reset > t /\ c.reset = EndOf(t, a) /\ c.pct = us[a]
  BY EndAhead DEF WindowT, ToCome
<1>2. \A x \in W : x \in WindowT /\ (x.reset > t => x = ToCome(us, t, x.acct)) /\ (x.shown => x.reset <= t)
  <2>1. \A x \in o : x \in WindowT /\ ~ (x.reset > t) /\ x.reset <= t
    BY DEF WindowT
  <2> QED
    BY <1>1, <2>1 DEF WindowsOf
<1>3. \A x, y \in W : x.acct = y.acct /\ x.reset > t /\ y.reset > t => x.reset = y.reset
  BY <1>2
<1>4. InTime(W, t) /\ W \subseteq WindowT
  BY <1>2, <1>3 DEF InTime
<1>5. ASSUME NEW a \in Accounts
      PROVE  LET w == [pct |-> us[a], reset |-> EndOf(t, a)] IN w \in WinT /\ w # NoWin /\ OneOf(W, a, w) /\ w.reset > t
  <2> DEFINE w == [pct |-> us[a], reset |-> EndOf(t, a)]
  <2>1. w \in WinT /\ w # NoWin /\ w.reset > t /\ w.pct = us[a] /\ us[a] \in Nat /\ w.reset = EndOf(t, a)
    BY EndAhead DEF WinT, NoWin
  <2>2. ToCome(us, t, a) \in W
    BY DEF WindowsOf
  <2> HIDE DEF w
  <2>3. OneOf(W, a, w)
    BY <1>1, <2>1, <2>2 DEF OneOf
  <2> QED
    BY <2>1, <2>3 DEF w
<1> HIDE DEF W
<1> QED
  BY <1>4, <1>5 DEF W

LEMMA WindowsNow ==
    ASSUME TypeInv
    PROVE  /\ InTime(Windows, now) /\ Windows \subseteq WindowT
           /\ \A a \in Accounts : True(a) \in WinT /\ True(a) # NoWin /\ OneOf(Windows, a, True(a)) /\ True(a).reset > now
BY WindowsIn DEF TypeInv, Windows, True, ResetOf, EndOf

LEMMA WindowsStay ==
    ASSUME UNCHANGED <<now, used, over>>
    PROVE  Windows' = Windows
BY DEF Windows

\* What the panes and the wire hold stays true as windows fill up and end.
LEMMA HadLater ==
    ASSUME Covers(Windows, Windows'), NEW a, NEW w \in WinT, HadW(a, w)
    PROVE  w # NoWin => OneOf(Windows', a, w)
BY OneLater, WinIsWin DEF HadW

LEMMA CacheTyped ==
    ASSUME TypeInv, NEW p \in Panes
    PROVE  cache[p].h5 \in WinT /\ cache[p].week \in BOOLEAN
<1>1. cache[p] \in AnswerT
  BY DEF TypeInv
<1> QED
  BY <1>1 DEF AnswerT, FigT

-----------------------------------------------------------------------------
(* The steps.                                                               *)

LEMMA IInvInit ==
    ASSUME Init
    PROVE  IInv
<1>1. TypeInv
  BY Names, NoWinTyped DEF Init, TypeInv, AnswerT, Accounts, Logins
<1>2. PICK on \in BOOLEAN : ui = Boot(<<>>, on, <<>>)
  BY DEF Init
<1>3. <<>> \in SlotsT /\ <<>> \in Seq(LogT) /\ \A a \in Accounts : SlotIn(<<>>, a) = NoFigures
  BY DEF SlotsT, SlotIn
<1>4. LogOk(Windows, <<>>) /\ \A a : Fits(Windows, <<>>, a, NoFigures)
  BY NoWinTyped DEF LogOk, Fits, NotLogged
<1>5. UiOk(Windows, now, ui)
  BY <1>2, <1>3, <1>4, BootOk
<1>6. PanesOk /\ Wired
  BY NoWinTyped DEF Init, PanesOk, Follower, OwnPane, HadW, Wired, Panes
<1> QED
  BY <1>1, <1>5, <1>6 DEF IInv
LEMMA AskStep ==
    ASSUME OneByOne, IInv, NEW p \in Panes, Ask(p)
    PROVE  IInv'
<1>1. Windows' = Windows
  BY WindowsStay DEF Ask
<1>2. TypeInv'
  BY Names DEF IInv, TypeInv, Ask
<1>3. UiOk(Windows', now', ui')
  BY <1>1 DEF IInv, Ask
<1>4. PanesOk'
  <2>1. \A q \in Panes : flight'[q] = IF q = p THEN (IF p \in Own THEN Tok ELSE login) ELSE flight[q]
    BY DEF Ask, IInv, TypeInv
  <2>2. \A q \in Follows : Follower(q)'
    BY <1>1, <2>1 DEF Ask, IInv, PanesOk, Follower, HadW, Panes, OneByOne
  <2>3. \A q \in Own : OwnPane(q)'
    BY <1>1, <2>1 DEF Ask, IInv, PanesOk, OwnPane, HadW, Panes, OneByOne
  <2> QED
    BY <2>2, <2>3 DEF PanesOk
<1>5. Wired'
  BY <1>1 DEF IInv, Wired, Ask
<1> QED
  BY <1>2, <1>3, <1>4, <1>5 DEF IInv

LEMMA SwitchStep ==
    ASSUME OneByOne, IInv, NEW a \in Logins, Switch(a)
    PROVE  IInv'
<1>1. Windows' = Windows
  BY WindowsStay DEF Switch
<1>2. TypeInv'
  BY DEF IInv, TypeInv, Switch, OneByOne
<1>3. UiOk(Windows', now', ui')
  BY <1>1 DEF IInv, Switch
<1>4. PanesOk'
  <2>1. \A q \in Follows : Follower(q)'
    BY <1>1 DEF Switch, IInv, PanesOk, Follower, HadW, OneByOne
  <2>2. \A q \in Own : OwnPane(q)'
    BY <1>1 DEF Switch, IInv, PanesOk, OwnPane, HadW
  <2> QED
    BY <2>1, <2>2 DEF PanesOk
<1>5. Wired'
  BY <1>1 DEF IInv, Wired, Switch
<1> QED
  BY <1>2, <1>3, <1>4, <1>5 DEF IInv

\* A step that changes nothing but what the window makes of the accounts.
LEMMA UiStep ==
    ASSUME IInv, UNCHANGED <<now, used, login, flight, api, cache, apiMs, over>>,
           UiOk(Windows, now, ui'), Same(ui, ui'),
           probing' \in {None, login}, wire' \in [acct : Logins \cup {None}, h5 : WinT],
           wire'.acct # None => wire'.h5 # NoWin /\ OneOf(Windows, wire'.acct, wire'.h5)
    PROVE  IInv'
<1>1. Windows' = Windows
  BY WindowsStay
<1>2. TypeInv'
  BY DEF IInv, TypeInv
<1>3. PanesOk'
  <2>1. \A q \in Follows : Follower(q)'
    BY <1>1 DEF IInv, PanesOk, Follower, HadW, Same
  <2>2. \A q \in Own : OwnPane(q)'
    BY <1>1 DEF IInv, PanesOk, OwnPane, HadW
  <2> QED
    BY <2>1, <2>2 DEF PanesOk
<1>4. Wired'
  BY <1>1 DEF Wired
<1> QED
  BY <1>1, <1>2, <1>3, <1>4 DEF IInv

LEMMA CheckStep ==
    ASSUME IInv, Check
    PROVE  IInv'
<1> DEFINE r == [h5 |-> True(Tok), week |-> TRUE]  u == ApplyAccount(ui, Tok, r, FALSE)
<1>1. r \in [h5 : WinT, week : BOOLEAN] /\ OneOf(Windows, Tok, r.h5) /\ r.h5.reset > now /\ InTime(Windows, now)
  BY Names, WindowsNow DEF IInv
<1> HIDE DEF r
<1>2. UiOk(Windows, now, u) /\ Same(ui, u)
  BY <1>1, Names, ApplyAccountOk DEF IInv
<1>3. ui' = SyncShown(u)
  BY DEF Check, r
<1> HIDE DEF u
<1>4. UiOk(Windows, now, ui') /\ Same(ui, ui')
  BY <1>2, <1>3, SyncShownOk DEF Same
<1> QED
  BY <1>4, UiStep DEF Check, IInv, TypeInv, Wired

LEMMA ToggleStep ==
    ASSUME IInv, Toggle
    PROVE  IInv'
<1> DEFINE u == [ui EXCEPT !.on = ~ @]
<1>1. ui \in UiT
  BY DEF IInv, UiOk, Rest
<1>2. /\ u \in UiT /\ u.account = ui.account /\ u.rl = ui.rl /\ u.wins = ui.wins /\ u.log = ui.log
      /\ u.lastClosed = ui.lastClosed /\ u.slots = ui.slots /\ u.saved = ui.saved /\ Same(ui, u)
  BY <1>1 DEF UiT, Same
<1>3. ui' = SyncShown(u)
  BY DEF Toggle
<1> HIDE DEF u
<1>4. SlotNow(u) = SlotNow(ui)
  BY <1>2 DEF SlotNow
<1>5. UiOk(Windows, now, u)
  BY <1>2, <1>4 DEF IInv, UiOk, Rest, Watched
<1>6. UiOk(Windows, now, ui') /\ Same(ui, ui')
  BY <1>2, <1>3, <1>5, SyncShownOk DEF Same
<1> QED
  BY <1>6, UiStep DEF Toggle, IInv, TypeInv, Wired

LEMMA ProbeStep ==
    ASSUME IInv, Probe
    PROVE  IInv'
BY UiStep DEF Probe, IInv, TypeInv, Wired, Same

LEMMA PeerSendsStep ==
    ASSUME IInv, NEW a \in Logins, PeerSends(a)
    PROVE  IInv'
<1>1. True(a) \in WinT /\ True(a) # NoWin /\ OneOf(Windows, a, True(a)) /\ a # None
  BY Names, WindowsNow DEF IInv
<1>2. wire'.acct = a /\ wire'.h5 = True(a) /\ wire' \in [acct : Logins \cup {None}, h5 : WinT]
  BY <1>1 DEF PeerSends
<1> QED
  BY <1>1, <1>2, UiStep DEF PeerSends, IInv, TypeInv, Same

\* What has been noted of the login makes every follower's figures the login's, or unheard.
LEMMA NotedPanes ==
    ASSUME OneByOne, IInv, NEW q \in Follows
    PROVE  LET n == NoteAccount(ui, login) IN
           api[q] = apiMs[q] /\ q \in n.moved => HadW(login, cache[q].h5)
<1>1. LET n == NoteAccount(ui, login) IN n.moved = IF ui.loginAcct \in {None, login} THEN ui.moved ELSE {}
  BY NoteOk DEF IInv, TypeInv
<1>2. Follower(q)
  BY DEF IInv, PanesOk
<1> QED
  BY <1>1, <1>2 DEF Follower

\* The same step when the login has been noted in it.
LEMMA NotedStep ==
    ASSUME OneByOne, IInv, UNCHANGED <<now, used, login, flight, api, cache, apiMs, over, wire>>,
           UiOk(Windows, now, ui'), Same(NoteAccount(ui, login), ui'), probing' \in {None, login}
    PROVE  IInv'
<1>1. Windows' = Windows
  BY WindowsStay
<1>2. TypeInv'
  BY DEF IInv, TypeInv
<1>3. ui'.loginAcct = login /\ ui'.moved = NoteAccount(ui, login).moved
  BY NoteOk DEF IInv, TypeInv, Same
<1>4. PanesOk'
  <2>1. \A q \in Follows : Follower(q)'
    BY <1>1, <1>3, Names, NotedPanes DEF IInv, TypeInv, PanesOk, Follower, HadW
  <2>2. \A q \in Own : OwnPane(q)'
    BY <1>1 DEF IInv, PanesOk, OwnPane, HadW
  <2> QED
    BY <2>1, <2>2 DEF PanesOk
<1>5. Wired'
  BY <1>1 DEF IInv, Wired
<1> QED
  BY <1>1, <1>2, <1>4, <1>5 DEF IInv

LEMMA ProbeAnswerStep ==
    ASSUME OneByOne, IInv, ProbeAnswer
    PROVE  IInv'
<1> DEFINE u == NoteAccount(ui, login)  s == SlotIn(u.slots, login)
<1>1. probing = login /\ login \in Logins /\ login \in Accounts
  BY Names DEF ProbeAnswer, IInv, TypeInv
<1>2. UiOk(Windows, now, u) /\ u.account \in Accounts
  BY <1>1, NoteOk DEF IInv
<1> HIDE DEF u
<1>3. CASE u.account # login
  <2> DEFINE f == [s EXCEPT !.wins = login]
  <2>1. u.slots \in SlotsT /\ s \in FigT /\ Fits(Windows, u.log, login, s) /\ s = SlotFor(u, login)
    BY <1>1, <1>2, SlotTyped DEF UiOk, Rest, UiT, SlotFor, SlotIn
  <2> HIDE DEF s
  <2>2. f \in FigT /\ f.wins = login /\ f.h5 = s.h5 /\ f.week = s.week
    BY <1>1, <2>1 DEF FigT
  <2>3. Fits(Windows, u.log, login, f)
    BY <2>1, <2>2 DEF Fits, NotLogged
  <2>4. ui' = SaveAccts([u EXCEPT !.slots = With(@, login, f)])
    BY <1>1, <1>3, <2>1 DEF ProbeAnswer, u
  <2>5. UiOk(Windows, now, ui') /\ Same(u, ui')
    BY <1>1, <1>2, <1>3, <2>2, <2>3, <2>4, SlotSet
  <2> QED
    BY <2>5, NotedStep DEF ProbeAnswer, u
<1>4. CASE u.account = login
  <2> DEFINE v == [u EXCEPT !.wins = login, !.winsOf = login]
  <2>1. u \in UiT /\ Fits(Windows, u.log, login, SlotNow(u))
    BY <1>1, <1>2, <1>4, Names DEF UiOk, Rest
  <2>2. /\ v \in UiT /\ v.account = login /\ v.rl = u.rl /\ v.wins = login /\ v.log = u.log /\ v.slots = u.slots
        /\ v.lastClosed = u.lastClosed /\ Same(u, v)
    BY <1>1, <1>4, <2>1 DEF UiT, Same
  <2>3. ui' = SaveAccts(v)
    BY <1>1, <1>4 DEF ProbeAnswer, u
  <2> HIDE DEF v
  <2>4. Fits(Windows, v.log, login, SlotNow(v))
    BY <2>1, <2>2, NowTyped DEF Fits, NotLogged
  <2>5. Unsaved(Windows, now, v)
    BY <1>1, <1>2, <1>4, <2>2, <2>4, Names DEF UiOk, Rest, Watched, Unsaved
  <2>6. UiOk(Windows, now, ui') /\ Same(u, ui')
    BY <2>2, <2>3, <2>5, SaveOk DEF Same
  <2> QED
    BY <2>6, NotedStep DEF ProbeAnswer, u
<1> QED
  BY <1>3, <1>4
\* Word of a pane: its figures are of the account they are filed under, if they are filed.
LEMMA StatuslineStep ==
    ASSUME OneByOne, IInv, NEW p \in Panes, Statusline(p)
    PROVE  IInv'
<1> DEFINE r == [h5 |-> IF cache[p].h5.reset > now THEN cache[p].h5 ELSE NoWin, week |-> cache[p].week]
           reached == api[p] # apiMs[p]
           noted == IF p \in Own THEN ui ELSE NoteAccount(ui, login)
           u == [noted EXCEPT !.moved = IF reached THEN @ \cup {p} ELSE @]
           filed == IF p \in Own \/ HeardFrom(u, p) THEN ApplyAccount(u, FiledUnder(u, p), r, reached) ELSE u
<1>1. apiMs' = [apiMs EXCEPT ![p] = api[p]] /\ ui' = SyncShown(filed)
  BY DEF Statusline
<1>2. Windows' = Windows
  BY WindowsStay DEF Statusline
<1>3. r \in [h5 : WinT, week : BOOLEAN] /\ (r.h5 # NoWin => r.h5 = cache[p].h5 /\ r.h5.reset > now) /\ InTime(Windows, now)
  BY CacheTyped, NoWinTyped, WindowsNow DEF IInv
<1>4. UiOk(Windows, now, noted) /\ (p \notin Own => noted = NoteAccount(ui, login) /\ noted.loginAcct = login)
  BY NoteOk DEF IInv, TypeInv
<1> HIDE DEF r, noted
<1>5. noted \in UiT
  BY <1>4 DEF UiOk, Rest
<1>6. /\ u \in UiT /\ u.account = noted.account /\ u.rl = noted.rl /\ u.wins = noted.wins /\ u.log = noted.log
      /\ u.lastClosed = noted.lastClosed /\ u.slots = noted.slots /\ u.saved = noted.saved /\ u.loginAcct = noted.loginAcct
      /\ u.moved = IF reached THEN noted.moved \cup {p} ELSE noted.moved
  BY <1>5 DEF UiT
<1> HIDE DEF u
<1>7. SlotNow(u) = SlotNow(noted)
  BY <1>6 DEF SlotNow
<1>8. UiOk(Windows, now, u)
  BY <1>4, <1>6, <1>7 DEF UiOk, Rest, Watched
\* Whose figures a pane repeats that is heard.
<1>9. p \notin Own => p \in Follows /\ (p \in u.moved => HadW(login, cache[p].h5))
  BY <1>4, <1>6, NotedPanes DEF Panes, IInv, PanesOk, Follower
<1>10. UiOk(Windows, now, filed) /\ Same(u, filed)
  <2>1. CASE p \in Own
    <3>1. FiledUnder(u, p) = Tok /\ (r.h5 # NoWin => OneOf(Windows, Tok, r.h5))
      BY <1>3, <2>1 DEF FiledUnder, IInv, PanesOk, OwnPane, HadW
    <3> QED
      BY <1>3, <1>8, <2>1, <3>1, Names, ApplyAccountOk
  <2>2. CASE p \notin Own /\ p \in u.moved
    <3>1. FiledUnder(u, p) = login /\ login \in Accounts /\ (r.h5 # NoWin => OneOf(Windows, login, r.h5))
      BY <1>3, <1>4, <1>6, <1>9, <2>2, Names DEF FiledUnder, HadW, IInv, TypeInv
    <3> QED
      BY <1>3, <1>8, <2>2, <3>1, ApplyAccountOk DEF HeardFrom
  <2>3. CASE p \notin Own /\ p \notin u.moved
    BY <1>8, <2>3 DEF HeardFrom, Same
  <2> QED
    BY <2>1, <2>2, <2>3
<1> HIDE DEF filed
<1>11. UiOk(Windows, now, ui') /\ ui'.loginAcct = noted.loginAcct /\ ui'.moved = IF reached THEN noted.moved \cup {p} ELSE noted.moved
  BY <1>1, <1>6, <1>10, SyncShownOk DEF Same
<1>12. \A q \in Panes : apiMs'[q] = IF q = p THEN api[p] ELSE apiMs[q]
  BY <1>1 DEF IInv, TypeInv
<1>13. TypeInv'
  BY <1>1 DEF IInv, TypeInv, Statusline
<1>14. \A q \in Follows : Follower(q)'
  <2> SUFFICES ASSUME NEW q \in Follows PROVE Follower(q)'
    OBVIOUS
  <2>1. Follower(q) /\ q \in Panes /\ q \notin Own /\ api[q] \in Nat /\ UNCHANGED <<flight, api, cache, login>>
    BY DEF IInv, TypeInv, PanesOk, Panes, OneByOne, Statusline
  <2>2. CASE p \in Own
    <3>1. q # p /\ noted = ui /\ (q \in ui'.moved <=> q \in ui.moved)
      BY <1>11, <2>1, <2>2 DEF noted
    <3> QED
      BY <1>2, <1>11, <1>12, <2>1, <3>1 DEF Follower, HadW
  <2>3. CASE p \notin Own
    <3>1. ui'.loginAcct = login /\ login # None /\ (api[q] = apiMs[q] /\ q \in noted.moved => HadW(login, cache[q].h5))
      BY <1>4, <1>11, <2>3, Names, NotedPanes DEF IInv, TypeInv
    <3>2. CASE q = p
      <4>1. apiMs'[q] = api[q] /\ (q \in ui'.moved => HadW(login, cache[q].h5))
        BY <1>6, <1>9, <1>11, <1>12, <2>3, <3>2
      <4> QED
        BY <1>2, <2>1, <3>1, <4>1 DEF Follower, HadW
    <3>3. CASE q # p
      BY <1>2, <1>11, <1>12, <2>1, <3>1, <3>3 DEF Follower, HadW
    <3> QED
      BY <3>2, <3>3
  <2> QED
    BY <2>2, <2>3
<1>15. \A q \in Own : OwnPane(q)'
  BY <1>2 DEF IInv, PanesOk, OwnPane, HadW, Statusline
<1>16. Wired'
  BY <1>2 DEF IInv, Wired, Statusline
<1>17. UiOk(Windows', now', ui')
  BY <1>2, <1>11 DEF Statusline
<1> QED
  BY <1>13, <1>14, <1>15, <1>16, <1>17 DEF IInv, PanesOk

\* A window fills up.
LEMMA AnswerStep ==
    ASSUME OneByOne, IInv, NEW p \in Panes, Answer(p)
    PROVE  IInv'
<1>1. PICK a \in Accounts : a = flight[p]
  BY DEF Answer, IInv, TypeInv
<1> DEFINE w == [pct |-> used'[a], reset |-> EndOf(now, a)]
<1>2. used' = [used EXCEPT ![a] = IF @ < Most THEN @ + 1 ELSE @] /\ UNCHANGED <<now, over>>
  BY <1>1 DEF Answer
<1>3. used' \in [Accounts -> Nat] /\ \A b \in Accounts : used'[b] \in Nat /\ used[b] \in Nat /\ used[b] <= used'[b]
  BY <1>2 DEF IInv, TypeInv
<1>4. /\ flight' = [flight EXCEPT ![p] = None] /\ api' = [api EXCEPT ![p] = @ + 1]
      /\ cache' = [cache EXCEPT ![p] = [h5 |-> w, week |-> TRUE]]
  BY <1>1 DEF Answer, ResetOf, EndOf
<1>5. /\ InTime(Windows, now) /\ Windows \subseteq WindowT
  BY WindowsNow DEF IInv
<1>6. w \in WinT /\ w # NoWin /\ OneOf(Windows', a, w) /\ Windows' \subseteq WindowT
  BY <1>2, <1>3, WindowsIn DEF IInv, TypeInv, Windows
<1> HIDE DEF w
<1>7. TypeInv'
  <2>1. [h5 |-> w, week |-> TRUE] \in AnswerT
    BY <1>6 DEF AnswerT
  <2>2. cache' \in [Panes -> AnswerT] /\ api' \in [Panes -> Nat] /\ flight' \in [Panes -> Accounts \cup {None}]
    BY <1>4, <2>1 DEF IInv, TypeInv
  <2> QED
    BY <1>2, <1>3, <2>2 DEF IInv, TypeInv, Answer
<1>9. Covers(Windows, Windows')
  <2> SUFFICES ASSUME NEW x \in Windows
               PROVE  \E y \in Windows' : y.acct = x.acct /\ y.reset = x.reset /\ x.pct <= y.pct /\ (x.shown => y.shown)
    BY <1>5, <1>6 DEF Covers
  <2>1. CASE x \in over
    <3>1. x \in Windows' /\ x.pct \in Nat
      BY <1>2, <1>5, <2>1 DEF Windows, WindowsOf, WindowT
    <3> QED
      BY <3>1
  <2>2. CASE x \notin over
    <3>1. PICK b \in Accounts : x = ToCome(used, now, b)
      BY <2>2 DEF Windows, WindowsOf
    <3>2. ToCome(used', now, b) \in Windows'
      BY <1>2 DEF Windows, WindowsOf
    <3> QED
      BY <1>3, <3>1, <3>2 DEF ToCome
  <2> QED
    BY <2>1, <2>2
<1>10. UiOk(Windows', now', ui')
  <2>1. now \in Nat /\ now' = now /\ ui' = ui /\ UiOk(Windows, now, ui)
    BY DEF IInv, TypeInv, Answer
  <2>2. \A x \in Windows : ~ (now < x.reset /\ x.reset <= now)
    BY <1>5, <2>1 DEF WindowT
  <2> QED
    BY <1>9, <2>1, <2>2, UiLater
<1>11. \A q \in Panes : \A b : HadW(b, cache[q].h5) => (cache[q].h5 # NoWin => OneOf(Windows', b, cache[q].h5))
  BY <1>9, CacheTyped, HadLater DEF IInv
<1>12. /\ cache'[p].h5 = w /\ api'[p] = api[p] + 1 /\ flight'[p] = None
       /\ \A q \in Panes : q # p => cache'[q] = cache[q] /\ api'[q] = api[q] /\ flight'[q] = flight[q]
  BY <1>4 DEF IInv, TypeInv
<1>13. \A q \in Follows : Follower(q)'
  <2> SUFFICES ASSUME NEW q \in Follows PROVE Follower(q)'
    OBVIOUS
  <2>1. Follower(q) /\ q \in Panes /\ api[q] \in Nat /\ apiMs[q] \in Int /\ UNCHANGED <<login, apiMs, ui>>
    BY DEF IInv, TypeInv, PanesOk, Panes, Answer
  <2>2. CASE q = p
    <3>1. a = login /\ OneOf(Windows', login, cache'[q].h5)
      BY <1>1, <1>6, <1>12, <2>1, <2>2, Names DEF Follower
    <3>2. api'[q] # apiMs'[q] /\ apiMs'[q] <= api'[q] /\ api'[q] # 0
      BY <1>12, <2>1, <2>2 DEF Follower
    <3> QED
      BY <1>12, <2>1, <2>2, <3>1, <3>2 DEF Follower, HadW
  <2>3. CASE q # p
    BY <1>11, <1>12, <2>1, <2>3 DEF Follower, HadW
  <2> QED
    BY <2>2, <2>3
<1>14. \A q \in Own : OwnPane(q)'
  <2> SUFFICES ASSUME NEW q \in Own PROVE OwnPane(q)'
    OBVIOUS
  <2>1. OwnPane(q) /\ q \in Panes
    BY DEF IInv, PanesOk, Panes
  <2>2. CASE q = p
    BY <1>1, <1>6, <1>12, <2>1, <2>2, Names DEF OwnPane, HadW
  <2>3. CASE q # p
    BY <1>11, <1>12, <2>1, <2>3 DEF OwnPane, HadW
  <2> QED
    BY <2>2, <2>3
<1>15. Wired'
  <2>1. wire' = wire /\ wire.h5 \in WinT
    BY DEF Answer, IInv, TypeInv
  <2> QED
    BY <1>9, <2>1, OneLater, WinIsWin DEF IInv, Wired
<1> QED
  BY <1>7, <1>10, <1>13, <1>14, <1>15 DEF IInv, PanesOk
LEMMA TickStep ==
    ASSUME OneByOne, IInv, Tick
    PROVE  IInv'
<1> DEFINE ends == {a \in Accounts : EndOf(now, a) = now + 1}
           ended(a) == [acct |-> a, reset |-> now + 1, pct |-> used[a], shown |-> ui.account = a]
<1>1. /\ now' = now + 1 /\ over' = over \cup {ended(a) : a \in ends}
      /\ used' = [a \in Accounts |-> IF a \in ends THEN 0 ELSE used[a]]
      /\ UNCHANGED <<login, flight, api, cache, apiMs, ui, probing, wire>>
  BY DEF Tick, ResetOf, EndOf
<1>2. now \in Nat /\ now' \in Nat /\ \A a \in Accounts : used[a] \in Nat
  BY <1>1 DEF IInv, TypeInv
<1>3. over \subseteq WindowT /\ \A x \in over : x.reset <= now /\ x.reset \in Nat /\ x.pct \in Nat
  BY DEF IInv, TypeInv, WindowT
<1>4. over' \subseteq WindowT /\ \A x \in over' : x.reset <= now'
  <2>1. \A a \in ends : ended(a) \in WindowT /\ ended(a).reset = now'
    BY <1>1, <1>2 DEF WindowT
  <2> QED
    BY <1>1, <1>2, <1>3, <2>1
<1>5. TypeInv'
  BY <1>1, <1>2, <1>4 DEF IInv, TypeInv
<1>6. Windows \subseteq WindowT /\ Windows' \subseteq WindowT
  BY <1>2, <1>3, <1>4, <1>5, WindowsIn DEF IInv, TypeInv, Windows
<1>7. \A a \in ends : ended(a) \in Windows'
  BY <1>1 DEF Windows, WindowsOf
<1>8. Covers(Windows, Windows')
  <2> SUFFICES ASSUME NEW x \in Windows
               PROVE  \E y \in Windows' : y.acct = x.acct /\ y.reset = x.reset /\ x.pct <= y.pct /\ (x.shown => y.shown)
    BY <1>6 DEF Covers
  <2>1. CASE x \in over
    <3>1. x \in Windows' /\ x.pct \in Nat
      BY <1>1, <1>3, <2>1 DEF Windows, WindowsOf
    <3> QED
      BY <3>1
  <2>2. CASE x \notin over
    <3>1. PICK b \in Accounts : x = ToCome(used, now, b)
      BY <2>2 DEF Windows, WindowsOf
    <3>2. x.acct = b /\ x.reset = EndOf(now, b) /\ x.pct = used[b] /\ ~ x.shown /\ x.pct \in Nat
      BY <1>2, <3>1 DEF ToCome
    <3>3. CASE b \in ends
      <4>1. ended(b).acct = b /\ ended(b).reset = x.reset /\ ended(b).pct = x.pct
        BY <3>2, <3>3
      <4>2. ended(b) \in Windows'
        BY <1>7, <3>3
      <4> HIDE DEF ended
      <4> QED
        BY <3>2, <4>1, <4>2
    <3>4. CASE b \notin ends
      <4>1. EndOf(now', b) = EndOf(now, b) /\ used'[b] = used[b]
        BY <1>1, <1>2, <3>4, EndAhead
      <4>2. ToCome(used', now', b) \in Windows'
        BY DEF Windows, WindowsOf
      <4> QED
        BY <3>2, <4>1, <4>2 DEF ToCome
    <3> QED
      BY <3>3, <3>4
  <2> QED
    BY <2>1, <2>2
<1>9. UiOk(Windows', now', ui')
  <2>1. ASSUME NEW x \in Windows, x.acct = ui.account, now < x.reset, x.reset <= now'
        PROVE  \E y \in Windows' : y.shown /\ y.acct = x.acct /\ y.reset = x.reset /\ x.pct <= y.pct
    <3>1. x \notin over
      BY <1>2, <1>3, <2>1
    <3>2. PICK b \in Accounts : x = ToCome(used, now, b)
      BY <3>1 DEF Windows, WindowsOf
    <3>3. x.acct = b /\ x.reset = EndOf(now, b) /\ x.pct = used[b] /\ x.pct \in Nat
      BY <1>2, <3>2 DEF ToCome
    <3>4. b \in ends
      BY <1>1, <1>2, <2>1, <3>3, EndAhead
    <3>5. ended(b).shown /\ ended(b).acct = b /\ ended(b).reset = x.reset /\ ended(b).pct = x.pct
      BY <2>1, <3>3, <3>4
    <3>6. ended(b) \in Windows'
      BY <1>7, <3>4
    <3> HIDE DEF ended
    <3> QED
      BY <3>3, <3>5, <3>6
  <2> QED
    BY <1>1, <1>2, <1>8, <2>1, UiLater DEF IInv
<1>10. \A q \in Panes : \A b : HadW(b, cache[q].h5) => (cache[q].h5 # NoWin => OneOf(Windows', b, cache[q].h5))
  BY <1>8, CacheTyped, HadLater DEF IInv
<1>11. PanesOk'
  <2>1. \A q \in Follows : Follower(q)'
    BY <1>1, <1>10 DEF IInv, PanesOk, Follower, HadW, Panes
  <2>2. \A q \in Own : OwnPane(q)'
    BY <1>1, <1>10 DEF IInv, PanesOk, OwnPane, HadW, Panes
  <2> QED
    BY <2>1, <2>2 DEF PanesOk
<1>12. Wired'
  <2>1. wire' = wire /\ wire.h5 \in WinT
    BY <1>1 DEF IInv, TypeInv
  <2> QED
    BY <1>8, <2>1, OneLater, WinIsWin DEF IInv, Wired
<1> QED
  BY <1>5, <1>9, <1>11, <1>12 DEF IInv

LEMMA RestartStep ==
    ASSUME OneByOne, IInv, Restart
    PROVE  IInv'
<1>1. Windows' = Windows
  BY WindowsStay DEF Restart
<1>2. TypeInv'
  BY NoWinTyped DEF IInv, TypeInv, Restart, AnswerT
<1>3. ui \in UiT /\ LogOk(Windows, ui.log) /\ \A a \in Accounts : Fits(Windows, ui.log, a, SlotIn(ui.saved, a))
  BY DEF IInv, UiOk, Rest
<1>4. ui.saved \in SlotsT /\ ui.on \in BOOLEAN /\ ui.log \in Seq(LogT)
  BY <1>3 DEF UiT
<1>5. UiOk(Windows, now, Boot(ui.saved, ui.on, ui.log))
  BY <1>3, <1>4, BootOk
<1>6. PanesOk'
  <2>1. \A q \in Panes : flight'[q] = None /\ api'[q] = 0 /\ apiMs'[q] = -1 /\ cache'[q].h5 = NoWin
    BY NoWinTyped DEF Restart
  <2> QED
    BY <2>1 DEF PanesOk, Follower, OwnPane, HadW, Panes
<1>7. Wired'
  BY <1>1 DEF IInv, Wired, Restart
<1> QED
  BY <1>1, <1>2, <1>5, <1>6, <1>7 DEF IInv, Restart

LEMMA PeerArrivesStep ==
    ASSUME OneByOne, IInv, PeerArrives
    PROVE  IInv'
<1> DEFINE a == wire.acct  to == PeerTarget(ui, a)  new == wire.h5
           seen(x) == [x EXCEPT !.shown = @ \/ (to = "meters" /\ x.acct = a /\ x.reset = new.reset)]
<1>1. /\ over' = {seen(x) : x \in over} /\ wire' = [wire EXCEPT !.acct = None]
      /\ UNCHANGED <<now, used, login, flight, api, cache, apiMs, probing>>
  BY DEF PeerArrives
<1>2. /\ a \in Logins /\ a \in Accounts /\ new \in WinT /\ new # NoWin /\ OneOf(Windows, a, new)
      /\ ui.account # None /\ ui.account \in Accounts /\ ui \in UiT /\ ui.slots \in SlotsT
  BY Names DEF PeerArrives, OneByOne, IInv, TypeInv, Wired, UiOk, Rest, UiT
<1>3. now \in Nat /\ over \subseteq WindowT /\ \A x \in over : x.reset <= now
  BY DEF IInv, TypeInv
<1>4. ASSUME NEW x \in over
      PROVE  /\ seen(x) \in WindowT /\ seen(x).acct = x.acct /\ seen(x).reset = x.reset /\ seen(x).pct = x.pct /\ x.pct \in Nat
             /\ seen(x).shown = (x.shown \/ (to = "meters" /\ x.acct = a /\ x.reset = new.reset))
  <2>1. x \in WindowT
    BY <1>3, <1>4
  <2> HIDE DEF to
  <2> QED
    BY <2>1 DEF WindowT
<1>5. TypeInv'
  <2> HIDE DEF to, seen
  <2>1. over' \subseteq WindowT /\ \A x \in over' : x.reset <= now'
    BY <1>1, <1>3, <1>4
  <2>2. wire' \in [acct : Logins \cup {None}, h5 : WinT]
    BY <1>1 DEF IInv, TypeInv
  <2> QED
    BY <1>1, <2>1, <2>2 DEF IInv, TypeInv
<1>6. Windows \subseteq WindowT /\ Windows' \subseteq WindowT
  BY <1>3, <1>5, WindowsIn DEF IInv, TypeInv, Windows
<1>7. \A x \in over : seen(x) \in Windows'
  BY <1>1 DEF Windows, WindowsOf
<1> HIDE DEF seen
<1>8. Covers(Windows, Windows')
  <2> SUFFICES ASSUME NEW x \in Windows
               PROVE  \E y \in Windows' : y.acct = x.acct /\ y.reset = x.reset /\ x.pct <= y.pct /\ (x.shown => y.shown)
    BY <1>6 DEF Covers
  <2>1. CASE x \in over
    <3>1. seen(x) \in Windows' /\ seen(x).acct = x.acct /\ seen(x).reset = x.reset /\ seen(x).pct = x.pct /\ x.pct \in Nat
      BY <1>4, <1>7, <2>1
    <3>2. x.shown => seen(x).shown
      BY <1>4, <2>1
    <3> QED
      BY <3>1, <3>2
  <2>2. CASE x \notin over
    <3>1. x \in Windows' /\ x.pct \in Nat
      BY <1>1, <1>6, <2>2 DEF Windows, WindowsOf, WindowT
    <3> QED
      BY <3>1
  <2> QED
    BY <2>1, <2>2
<1>9. UiOk(Windows', now, ui)
  <2>1. \A x \in Windows : ~ (now < x.reset /\ x.reset <= now)
    BY <1>3, <1>6 DEF WindowT
  <2> QED
    BY <1>3, <1>8, <2>1, UiLater DEF IInv
<1>10. OneOf(Windows', a, new)
  BY <1>2, <1>8, OneLater, WinIsWin
<1>11. UiOk(Windows', now, ui') /\ Same(ui, ui')
  <2>1. CASE to = "meters"
    <3>1. ui' = [ui EXCEPT !.rl = [h5 |-> PeerWindow(@.h5, @.week, new), week |-> TRUE]]
      BY <2>1 DEF PeerArrives
    <3>2. ui.account = a
      BY <1>2, <2>1 DEF PeerTarget
    <3>3. ASSUME NEW x \in Windows', x.acct = ui.account, x.reset = new.reset, x.reset <= now PROVE x.shown
      <4>1. x \in over'
        <5>1. \A b \in Accounts : ToCome(used', now', b).reset > now
          BY <1>1, <1>3, EndAhead DEF ToCome
        <5>2. x.reset \in Nat
          BY <1>6, <3>3 DEF WindowT
        <5> QED
          BY <1>3, <3>3, <5>1, <5>2 DEF Windows, WindowsOf
      <4>2. PICK y \in over : x = seen(y)
        BY <1>1, <4>1
      <4> QED
        BY <1>4, <2>1, <3>2, <3>3, <4>2
    <3> QED
      BY <1>2, <1>9, <1>10, <3>1, <3>2, <3>3, PeerMeters
  <2>2. CASE to = "slot"
    <3> DEFINE s == ui.slots[a]  m == PeerWindow(s.h5, s.week, new)  f == [s EXCEPT !.h5 = m, !.week = TRUE]
    <3>1. a # ui.account /\ a \in DOMAIN ui.slots
      BY <2>2 DEF PeerTarget
    <3>2. s = SlotIn(ui.slots, a) /\ s \in FigT /\ Fits(Windows', ui.log, a, s)
      BY <1>2, <1>9, <3>1, SlotTyped DEF SlotIn, UiOk
    <3> HIDE DEF s
    <3>3. m \in WinT /\ \A g : g.h5 = m /\ g.week /\ g.wins = s.wins => Fits(Windows', ui.log, a, g)
      BY <1>2, <1>9, <1>10, <3>2, PeerOne
    <3> HIDE DEF m
    <3>4. f \in FigT /\ f.h5 = m /\ f.week /\ f.wins = s.wins
      BY <3>2, <3>3 DEF FigT
    <3>5. ui' = SaveAccts([ui EXCEPT !.slots[a].h5 = m, !.slots[a].week = TRUE])
      BY <2>2 DEF PeerArrives, s, m
    <3>6. [ui.slots EXCEPT ![a].h5 = m, ![a].week = TRUE] = With(ui.slots, a, f)
      BY <1>2, <3>1, <3>2 DEF With, s, SlotsT
    <3>7. [ui EXCEPT !.slots[a].h5 = m, !.slots[a].week = TRUE] = [ui EXCEPT !.slots = With(@, a, f)]
      BY <1>2, <3>6 DEF UiT
    <3> HIDE DEF f
    <3>8. Fits(Windows', ui.log, a, f)
      BY <3>3, <3>4
    <3> QED
      BY <1>2, <1>9, <3>1, <3>4, <3>5, <3>7, <3>8, SlotSet
  <2>3. CASE to = "nowhere"
    BY <1>9, <2>3 DEF PeerArrives, Same
  <2> QED
    BY <2>1, <2>2, <2>3 DEF PeerTarget
<1>12. \A q \in Panes : \A b : HadW(b, cache[q].h5) => (cache[q].h5 # NoWin => OneOf(Windows', b, cache[q].h5))
  BY <1>8, CacheTyped, HadLater DEF IInv
<1>13. PanesOk'
  <2>1. \A q \in Follows : Follower(q)'
    BY <1>1, <1>11, <1>12 DEF IInv, PanesOk, Follower, HadW, Panes, Same
  <2>2. \A q \in Own : OwnPane(q)'
    BY <1>1, <1>12 DEF IInv, PanesOk, OwnPane, HadW, Panes
  <2> QED
    BY <2>1, <2>2 DEF PanesOk
<1>14. Wired'
  BY <1>1 DEF IInv, TypeInv, Wired
<1>15. UiOk(Windows', now', ui')
  BY <1>1, <1>11
<1> QED
  BY <1>5, <1>13, <1>14, <1>15 DEF IInv

-----------------------------------------------------------------------------

LEMMA IInvNext ==
    ASSUME OneByOne, IInv, [Next]_lmvars
    PROVE  IInv'
<1>1. CASE Next
  BY <1>1, AskStep, AnswerStep, StatuslineStep, SwitchStep, PeerSendsStep, CheckStep, ToggleStep, ProbeStep,
     ProbeAnswerStep, PeerArrivesStep, TickStep, RestartStep DEF Next
<1>2. CASE UNCHANGED lmvars
  <2>1. UNCHANGED <<now, used, login, flight, api, cache, apiMs, ui, probing, wire, over>> /\ Windows' = Windows
    BY <1>2, WindowsStay DEF lmvars
  <2> QED
    BY <2>1 DEF IInv, TypeInv, PanesOk, Follower, OwnPane, HadW, Wired
<1> QED
  BY <1>1, <1>2

LEMMA OwnFromInv ==
    ASSUME IInv
    PROVE  LimitsAreOwn
<1>1. UiOk(Windows, now, ui) /\ ui \in UiT /\ ui.slots \in SlotsT /\ ui.saved \in SlotsT /\ ui.account \in Accounts \cup {None}
  BY DEF IInv, UiOk, Rest, UiT
<1>2. ASSUME NEW a \in Accounts, NEW f, Fits(Windows, ui.log, a, f)
      PROVE  OwnFigures(ui, a, f)
  <2>1. f.h5 # NoWin => Had(a, f.h5)
    BY <1>2 DEF Fits, OneOf, Windows, WindowsOf, ToCome, Had, ResetOf, EndOf
  <2>2. f.h5 # NoWin => \A i \in DOMAIN ui.log : ui.log[i].acct = a => ui.log[i].reset < f.h5.reset
    BY <1>2 DEF Fits, NotLogged
  <2> QED
    BY <1>2, <2>1, <2>2 DEF Fits, OwnFigures
<1>3. DOMAIN ui.slots \subseteq Accounts /\ DOMAIN ui.saved \subseteq Accounts
  BY <1>1 DEF SlotsT
<1>4. \A i \in DOMAIN ui.log : OwnEntry(ui.log[i])
  BY <1>1 DEF UiOk, Rest, LogOk, OnShow, Windows, WindowsOf, ToCome, OwnEntry
<1>5. ui.account # None => OwnFigures(ui, ui.account, SlotNow(ui))
  BY <1>1, <1>2 DEF UiOk, Rest
<1>6. \A a \in DOMAIN ui.slots : OwnFigures(ui, a, ui.slots[a])
  BY <1>1, <1>2, <1>3 DEF UiOk, SlotIn
<1>7. \A a \in DOMAIN ui.saved : OwnFigures(ui, a, ui.saved[a])
  BY <1>1, <1>2, <1>3 DEF UiOk, SlotIn
<1> QED
  BY <1>1, <1>4, <1>5, <1>6, <1>7 DEF LimitsAreOwn, UiOk, Rest, LogOk

\* The figures shown and kept for an account are its own, whatever lagging panes, a `/login`, tokens, probes and other
\* machines report, and each forecast-log entry is a window somebody watched end, logged once and gone (applyStatusline,
\* showAccount, onRlUpdate, mergePeerRl), when answers are reported before a `/login` and no peer speaks first.
THEOREM FiguresAreOwn ==
    ASSUME OneByOne
    PROVE  Spec => []LimitsAreOwn
<1>1. Init => IInv
  BY IInvInit
<1>2. IInv /\ [Next]_lmvars => IInv'
  BY IInvNext
<1>3. IInv => LimitsAreOwn
  BY OwnFromInv
<1> QED
  BY <1>1, <1>2, <1>3, PTL DEF Spec

-----------------------------------------------------------------------------
(* The ledger of what agents spend (Spend).                                 *)

CONSTANTS SpendPanes, Convs, Claude, Owners, Mannerly, SpendMost, SpendMax
VARIABLES today, spendConv, total, base, saved, usage, detail, spendStored, detailDay, silent, said, spendHeard, exact, spendActs
Ledger == INSTANCE Spend WITH
    Panes <- SpendPanes, Calm <- Mannerly, Most <- SpendMost, Acts <- SpendMax,
    conv <- spendConv, stored <- spendStored, heard <- spendHeard, acts <- spendActs

\* What the theorem assumes: a conversation keeps the reading of every pane it was on, and a pane that carries one on
\* reports before another pane on it does.
Reckoned ==
    /\ Mannerly /\ IsFiniteSet(SpendPanes) /\ Owners \in Nat /\ Cardinality(SpendPanes) <= Owners
    /\ "none" \notin Convs /\ "gone" \notin Convs

BaseT == [met : BOOLEAN, t : Nat, o : UNION {[D -> Nat] : D \in SUBSET SpendPanes}]
DaysT == [{1, 2} -> Nat]
LedgerTyped ==
    /\ today \in {1, 2} /\ spendConv \in [SpendPanes -> Convs \cup {"none", "gone"}] /\ total \in [SpendPanes -> Nat]
    /\ base \in [Convs -> BaseT] /\ saved \in [Convs -> BaseT]
    /\ usage \in DaysT /\ detail \in DaysT /\ spendStored \in DaysT
    /\ silent \in SUBSET SpendPanes /\ said \in [SpendPanes -> Nat] /\ spendHeard \in Nat /\ exact \in BOOLEAN

\* A reading is kept only of a pane that has reported.
OnlyOfThose(b) == \A p \in SpendPanes : spendConv[p] = "none" => \A c \in Convs : p \notin DOMAIN b[c].o
\* What a pane reported last is what its next reading is held against; a counter that fell reported less.
HeldAgainst(p, c) ==
    LET prev == Ledger!Prev(base[c], p) IN
    /\ p \in silent <=> p \notin DOMAIN base[c].o
    /\ c \in Claude => said[p] \in {0, prev} /\ said[p] <= total[p]
    /\ c \notin Claude => said[p] <= prev
    /\ exact => said[p] = prev /\ said[p] <= total[p]
Booked ==
    /\ usage[1] + usage[2] <= spendHeard
    /\ exact => usage[1] + usage[2] = spendHeard
    /\ \A d \in {1, 2} : spendStored[d] <= detail[d] /\ detail[d] <= usage[d]
LedgerInv ==
    /\ LedgerTyped
    /\ OnlyOfThose(base) /\ OnlyOfThose(saved)
    /\ \A p \in SpendPanes : spendConv[p] \in Convs => HeldAgainst(p, spendConv[p])
    /\ Booked

LEMMA LedgerInit == ASSUME Reckoned, Ledger!Init PROVE LedgerInv
<1>1. <<0, 0>> \in DaysT /\ <<>> \in UNION {[D -> Nat] : D \in SUBSET SpendPanes}
  <2>1. <<>> \in [{} -> Nat]
    OBVIOUS
  <2>2. <<0, 0>> \in [1..2 -> Nat] /\ 1..2 = {1, 2}
    OBVIOUS
  <2> QED
    BY <2>1, <2>2 DEF DaysT
<1>2. LedgerTyped
  BY <1>1 DEF Ledger!Init, Ledger!Unmet, LedgerTyped, BaseT
<1>3. OnlyOfThose(base) /\ OnlyOfThose(saved)
  BY DEF Ledger!Init, Ledger!Unmet, OnlyOfThose
<1>4. \A p \in SpendPanes : spendConv[p] \notin Convs
  BY DEF Ledger!Init, Reckoned
<1>5. Booked
  BY DEF Ledger!Init, Booked
<1> QED
  BY <1>2, <1>3, <1>4, <1>5 DEF LedgerInv

\* The readings o with p's reading v put in.
WithLast(o, p, v) == [q \in DOMAIN o \cup {p} |-> IF q = p THEN v ELSE o[q]]

\* Keeping a pane's reading leaves those of the others.
LEMMA KeepsTheOthers ==
    ASSUME Reckoned, NEW o, DOMAIN o \subseteq SpendPanes, NEW p \in SpendPanes, NEW v
    PROVE  Ledger!Kept(o, p, v) = WithLast(o, p, v)
<1>1. IsFiniteSet(SpendPanes) /\ DOMAIN o \cup {p} \subseteq SpendPanes
  BY DEF Reckoned
<1>2. Cardinality(DOMAIN o \cup {p}) <= Cardinality(SpendPanes) /\ Cardinality(DOMAIN o \cup {p}) \in Nat
      /\ Cardinality(SpendPanes) \in Nat
  BY <1>1, FS_Subset, FS_CardinalityType
<1>3. ~ (Cardinality(DOMAIN o \cup {p}) > Owners)
  BY <1>2 DEF Reckoned
<1>4. Ledger!Kept(o, p, v) = [q \in DOMAIN o \cup {p} |-> IF q = p THEN v ELSE o[q]]
  BY <1>1, <1>3 DEF Ledger!Kept, Ledger!Cardinality, Cardinality
<1> QED
  BY <1>4 DEF WithLast

LEMMA LedgerReport ==
    ASSUME Reckoned, LedgerInv, NEW p \in SpendPanes, NEW late \in BOOLEAN, Ledger!Report(p, late)
    PROVE  LedgerInv'
<1> DEFINE c == spendConv[p]
           b == base[c]
           prev == Ledger!Prev(b, p)
           v == Ledger!Baseline(c, p)
           d == Ledger!Delta(c, p)
           new == IF total[p] > said[p] THEN total[p] - said[p] ELSE 0
<1>1. /\ c \in Convs /\ b \in BaseT /\ total[p] \in Nat /\ said[p] \in Nat /\ today \in {1, 2}
      /\ HeldAgainst(p, c) /\ LedgerTyped
  BY DEF LedgerInv, LedgerTyped, Ledger!Report
<1>2. PICK D \in SUBSET SpendPanes : \E o \in [D -> Nat] : b.o = o
  BY <1>1 DEF BaseT
<1>3. prev \in Nat /\ b.t \in Nat /\ b.met \in BOOLEAN
  BY <1>1, <1>2 DEF BaseT, Ledger!Prev
<1>4. v \in Nat /\ d \in Nat
  BY <1>1, <1>3 DEF Ledger!Baseline, Ledger!Delta
<1>5. /\ new \in Nat /\ d <= new /\ (exact => d = new)
      /\ (c \in Claude => v = total[p]) /\ (c \notin Claude => total[p] <= v) /\ (exact => v = total[p])
  <2>1. /\ c \in Claude => said[p] \in {0, prev} /\ said[p] <= total[p]
        /\ c \notin Claude => said[p] <= prev
        /\ exact => said[p] = prev /\ said[p] <= total[p]
    BY <1>1 DEF HeldAgainst
  <2>2. d = IF total[p] >= prev THEN total[p] - prev ELSE IF c \in Claude THEN total[p] ELSE 0
    BY DEF Ledger!Delta
  <2>3. v = IF c \in Claude \/ prev < total[p] THEN total[p] ELSE prev
    BY DEF Ledger!Baseline
  <2> HIDE DEF c, prev, v, d
  <2> QED
    BY <1>1, <1>3, <2>1, <2>2, <2>3
<1>6. /\ base' = [base EXCEPT ![c] = [met |-> TRUE, t |-> v, o |-> Ledger!Kept(b.o, p, v)]]
      /\ saved' = saved \/ saved' = base'
      /\ usage' = [usage EXCEPT ![today] = @ + d]
      /\ \/ UNCHANGED <<detail, spendStored, detailDay>> /\ d = 0
         \/ /\ detail' = [detail EXCEPT ![today] = @ + d]
            /\ spendStored' = detail' \/ spendStored' = spendStored
      /\ spendHeard' = spendHeard + new
      /\ said' = [said EXCEPT ![p] = total[p]] /\ silent' = silent \ {p}
      /\ UNCHANGED <<today, spendConv, total, exact>>
      /\ \A q \in SpendPanes \ {p} : spendConv[q] = c => q \notin silent
  BY DEF Ledger!Report, Reckoned
<1> HIDE DEF c, b, prev, v, d, new
<1>7. /\ Ledger!Kept(b.o, p, v) \in [D \cup {p} -> Nat] /\ DOMAIN Ledger!Kept(b.o, p, v) = D \cup {p}
      /\ Ledger!Kept(b.o, p, v)[p] = v
      /\ \A q \in D : q # p => Ledger!Kept(b.o, p, v)[q] = b.o[q]
  <2>1. b.o \in [D -> Nat] /\ DOMAIN b.o = D
    BY <1>2
  <2>2. DOMAIN b.o \subseteq SpendPanes
    BY <2>1
  <2>3. Ledger!Kept(b.o, p, v) = WithLast(b.o, p, v)
    BY <2>2, KeepsTheOthers
  <2>4. Ledger!Kept(b.o, p, v) = [q \in D \cup {p} |-> IF q = p THEN v ELSE b.o[q]]
    BY <2>1, <2>3 DEF WithLast
  <2> QED
    BY <1>4, <2>1, <2>4
<1>8. base' \in [Convs -> BaseT]
  <2>1. Ledger!Kept(b.o, p, v) \in UNION {[E -> Nat] : E \in SUBSET SpendPanes}
    BY <1>7
  <2>2. [met |-> TRUE, t |-> v, o |-> Ledger!Kept(b.o, p, v)] \in BaseT
    BY <2>1, <1>4 DEF BaseT
  <2> QED
    BY <2>2, <1>1, <1>6 DEF LedgerTyped
<1>9. LedgerTyped'
  <2>1. usage' \in DaysT /\ detail' \in DaysT /\ spendStored' \in DaysT
    BY <1>1, <1>4, <1>6 DEF LedgerTyped, DaysT
  <2>2. saved' \in [Convs -> BaseT]
    BY <1>1, <1>6, <1>8 DEF LedgerTyped
  <2>3. said' \in [SpendPanes -> Nat] /\ spendHeard' \in Nat
    BY <1>1, <1>5, <1>6 DEF LedgerTyped
  <2> QED
    BY <2>1, <2>2, <2>3, <1>1, <1>6, <1>8 DEF LedgerTyped
<1>10. OnlyOfThose(base)' /\ OnlyOfThose(saved)'
  <2>1. /\ \A e \in Convs : e # c => base'[e] = base[e]
        /\ base'[c].o = Ledger!Kept(b.o, p, v)
    BY <1>1, <1>6 DEF LedgerTyped
  <2>2. ASSUME NEW q \in SpendPanes, spendConv[q] = "none", NEW e \in Convs
        PROVE  q \notin DOMAIN base'[e].o
    <3>1. q # p
      BY <1>1, <2>2 DEF c, Reckoned
    <3>2. q \notin DOMAIN base[e].o
      BY <2>2 DEF LedgerInv, OnlyOfThose
    <3> QED
      BY <2>1, <3>1, <3>2, <1>2, <1>7 DEF b
  <2>3. OnlyOfThose(base)'
    BY <2>2, <1>6 DEF OnlyOfThose
  <2>4. CASE saved' = saved
    BY <2>3, <2>4, <1>6 DEF OnlyOfThose, LedgerInv
  <2> QED
    BY <2>3, <2>4, <1>6 DEF OnlyOfThose
<1>11. ASSUME NEW q \in SpendPanes, spendConv'[q] \in Convs PROVE HeldAgainst(q, spendConv[q])'
  <2>1. /\ \A e \in Convs : e # c => base'[e] = base[e]
        /\ base'[c].o = Ledger!Kept(b.o, p, v) /\ base'[c].t = v
    BY <1>1, <1>6 DEF LedgerTyped
  <2>2. /\ said'[p] = total[p] /\ (q # p => said'[q] = said[q]) /\ said[q] \in Nat /\ total[q] \in Nat
        /\ spendConv' = spendConv /\ total' = total /\ exact' = exact /\ silent' = silent \ {p}
    BY <1>1, <1>6 DEF LedgerTyped
  <2>3. HeldAgainst(q, spendConv[q])
    BY <1>11, <2>2 DEF LedgerInv
  <2>4. CASE q = p
    <3>1. p \in DOMAIN base'[c].o /\ base'[c].o[p] = v
      BY <2>1, <1>7
    <3> QED
      BY <3>1, <2>2, <2>4, <1>1, <1>4, <1>5 DEF HeldAgainst, Ledger!Prev, c
  <2>5. CASE q # p /\ spendConv[q] = c
    <3>1. q \notin silent /\ q \in DOMAIN b.o /\ q \in D
      BY <2>3, <2>5, <1>2, <1>6 DEF HeldAgainst, b
    <3>2. q \in DOMAIN base'[c].o /\ base'[c].o[q] = b.o[q]
      BY <3>1, <2>1, <2>5, <1>7
    <3> QED
      BY <3>1, <3>2, <2>2, <2>3, <2>5 DEF HeldAgainst, Ledger!Prev, b
  <2>6. CASE q # p /\ spendConv[q] # c
    <3>1. base'[spendConv[q]] = base[spendConv[q]]
      BY <2>1, <2>2, <2>6, <1>11
    <3> QED
      BY <3>1, <2>2, <2>3, <2>6 DEF HeldAgainst, Ledger!Prev
  <2> QED
    BY <2>4, <2>5, <2>6
<1>12. Booked'
  <2>1. /\ usage'[1] + usage'[2] = usage[1] + usage[2] + d /\ \A e \in {1, 2} : usage[e] \in Nat /\ detail[e] \in Nat /\ spendStored[e] \in Nat
    BY <1>1, <1>4, <1>6 DEF LedgerTyped, DaysT
  <2>2. \A e \in {1, 2} : usage'[e] = usage[e] + (IF e = today THEN d ELSE 0)
    BY <1>1, <1>4, <1>6 DEF LedgerTyped, DaysT
  <2>3. \A e \in {1, 2} : detail'[e] = detail[e] + (IF e = today THEN d ELSE 0)
    BY <1>1, <1>4, <1>6 DEF LedgerTyped, DaysT
  <2>4. \A e \in {1, 2} : spendStored'[e] = spendStored[e] \/ spendStored'[e] = detail'[e]
    BY <1>6
  <2>5. /\ usage[1] + usage[2] <= spendHeard /\ (exact => usage[1] + usage[2] = spendHeard)
        /\ \A e \in {1, 2} : spendStored[e] <= detail[e] /\ detail[e] <= usage[e]
    BY DEF LedgerInv, Booked
  <2>6. spendHeard' = spendHeard + new /\ exact' = exact /\ spendHeard \in Nat
    BY <1>1, <1>6 DEF LedgerTyped
  <2>7. usage'[1] + usage'[2] <= spendHeard' /\ (exact' => usage'[1] + usage'[2] = spendHeard')
    BY <2>1, <2>5, <2>6, <1>4, <1>5
  <2>8. \A e \in {1, 2} : spendStored'[e] <= detail'[e] /\ detail'[e] <= usage'[e]
    BY <2>1, <2>2, <2>3, <2>4, <2>5, <1>4
  <2> QED
    BY <2>7, <2>8 DEF Booked
<1> QED
  BY <1>6, <1>9, <1>10, <1>11, <1>12 DEF LedgerInv

LEMMA LedgerResume ==
    ASSUME Reckoned, LedgerInv, NEW p \in SpendPanes, NEW c \in Convs, Ledger!Resume(p, c)
    PROVE  LedgerInv'
<1>1. /\ spendConv[p] = "none" /\ spendConv' = [spendConv EXCEPT ![p] = c]
      /\ total' = [total EXCEPT ![p] = base[c].t] /\ said' = [said EXCEPT ![p] = base[c].t] /\ silent' = silent \cup {p}
      /\ UNCHANGED <<today, base, saved, usage, detail, spendStored, spendHeard, exact>> /\ LedgerTyped
      /\ base[c].t \in Nat
  BY DEF Ledger!Resume, Ledger!books, LedgerInv, LedgerTyped, BaseT
<1>2. LedgerTyped'
  BY <1>1 DEF LedgerTyped
<1>3. OnlyOfThose(base)' /\ OnlyOfThose(saved)'
  <2>1. \A q \in SpendPanes : spendConv'[q] = "none" => spendConv[q] = "none"
    BY <1>1 DEF LedgerTyped
  <2> QED
    BY <2>1, <1>1 DEF OnlyOfThose, LedgerInv
<1>4. ASSUME NEW q \in SpendPanes, spendConv'[q] \in Convs PROVE HeldAgainst(q, spendConv[q])'
  <2>1. CASE q = p
    <3>1. /\ p \notin DOMAIN base[c].o /\ spendConv'[p] = c /\ said'[p] = base[c].t /\ total'[p] = base[c].t
          /\ p \in silent' /\ base' = base
      BY <1>1 DEF LedgerTyped, LedgerInv, OnlyOfThose
    <3> QED
      BY <3>1, <2>1, <1>1 DEF HeldAgainst, Ledger!Prev
  <2>2. CASE q # p
    <3>1. /\ spendConv'[q] = spendConv[q] /\ said'[q] = said[q] /\ total'[q] = total[q] /\ base' = base /\ exact' = exact
          /\ q \in silent' <=> q \in silent
      BY <2>2, <1>1 DEF LedgerTyped
    <3>2. HeldAgainst(q, spendConv[q])
      BY <3>1, <1>4 DEF LedgerInv
    <3> QED
      BY <3>1, <3>2 DEF HeldAgainst, Ledger!Prev
  <2> QED
    BY <2>1, <2>2
<1>5. Booked'
  BY <1>1 DEF LedgerInv, Booked
<1> QED
  BY <1>2, <1>3, <1>4, <1>5 DEF LedgerInv

LEMMA LedgerCounts ==
    ASSUME Reckoned, LedgerInv, NEW p \in SpendPanes, Ledger!Costs(p) \/ Ledger!Falls(p)
    PROVE  LedgerInv'
<1>1. /\ spendConv[p] \in Convs /\ total[p] \in Nat /\ LedgerTyped
      /\ UNCHANGED <<today, spendConv, base, saved, usage, detail, spendStored, silent, spendHeard>>
  BY DEF Ledger!Costs, Ledger!Falls, Ledger!books, LedgerInv, LedgerTyped
<1>2. \/ total' = [total EXCEPT ![p] = total[p] + 1] /\ said' = said /\ exact' = exact
      \/ /\ total[p] > 0 /\ exact' = FALSE
         /\ total' = [total EXCEPT ![p] = IF spendConv[p] \in Claude THEN 0 ELSE total[p] - 1]
         /\ said' = [said EXCEPT ![p] = IF spendConv[p] \in Claude THEN 0 ELSE said[p]]
  BY DEF Ledger!Costs, Ledger!Falls
<1>3. LedgerTyped' /\ (exact' => exact)
  <2>1. total' \in [SpendPanes -> Nat] /\ said' \in [SpendPanes -> Nat]
    <3>1. total[p] + 1 \in Nat /\ (total[p] > 0 => total[p] - 1 \in Nat) /\ said[p] \in Nat
      BY <1>1 DEF LedgerTyped
    <3>2. \A x \in Nat : [total EXCEPT ![p] = x] \in [SpendPanes -> Nat] /\ [said EXCEPT ![p] = x] \in [SpendPanes -> Nat]
      BY <1>1 DEF LedgerTyped
    <3> QED
      BY <3>1, <3>2, <1>1, <1>2 DEF LedgerTyped
  <2>2. exact' \in BOOLEAN /\ (exact' => exact)
    <3>1. exact' = exact \/ exact' = FALSE
      BY <1>2, Zenon
    <3>2. exact \in BOOLEAN
      BY <1>1 DEF LedgerTyped
    <3>3. CASE exact' = FALSE
      BY <3>3
    <3>4. CASE exact' = exact
      BY <3>2, <3>4
    <3> QED
      BY <3>1, <3>3, <3>4
  <2> QED
    BY <2>1, <2>2, <1>1 DEF LedgerTyped
<1>4. OnlyOfThose(base)' /\ OnlyOfThose(saved)'
  BY <1>1 DEF OnlyOfThose, LedgerInv
<1>5. ASSUME NEW q \in SpendPanes, spendConv'[q] \in Convs PROVE HeldAgainst(q, spendConv[q])'
  <2>1. HeldAgainst(q, spendConv[q]) /\ said[q] \in Nat /\ total[q] \in Nat
    BY <1>1, <1>5 DEF LedgerInv, LedgerTyped
  <2>2. CASE q # p
    <3>1. said'[q] = said[q] /\ total'[q] = total[q]
      BY <2>2, <1>1, <1>2 DEF LedgerTyped
    <3> QED
      BY <3>1, <2>1, <1>1, <1>3 DEF HeldAgainst, Ledger!Prev
  <2>3. CASE q = p
    <3>1. \/ total'[p] = total[p] + 1 /\ said'[p] = said[p] /\ exact' = exact
          \/ /\ total[p] > 0 /\ exact' = FALSE
             /\ total'[p] = (IF spendConv[p] \in Claude THEN 0 ELSE total[p] - 1)
             /\ said'[p] = (IF spendConv[p] \in Claude THEN 0 ELSE said[p])
      BY <1>1, <1>2 DEF LedgerTyped
    <3> DEFINE prev == Ledger!Prev(base[spendConv[p]], p)
    <3>2. /\ prev' = prev
          /\ spendConv[p] \in Claude => said[p] \in {0, prev} /\ said[p] <= total[p]
          /\ spendConv[p] \notin Claude => said[p] <= prev
          /\ exact => said[p] = prev /\ said[p] <= total[p]
          /\ p \in silent <=> p \notin DOMAIN base[spendConv[p]].o
      BY <2>1, <2>3, <1>1 DEF HeldAgainst, Ledger!Prev
    <3> HIDE DEF prev
    <3>3. /\ spendConv'[p] \in Claude => said'[p] \in {0, prev'} /\ said'[p] <= total'[p]
          /\ spendConv'[p] \notin Claude => said'[p] <= prev'
          /\ exact' => said'[p] = prev' /\ said'[p] <= total'[p]
      BY <3>1, <3>2, <2>1, <2>3, <1>1
    <3> QED
      BY <3>2, <3>3, <2>3, <1>1 DEF HeldAgainst, prev
  <2> QED
    BY <2>2, <2>3
<1>6. Booked'
  BY <1>1, <1>3 DEF LedgerInv, Booked
<1> QED
  BY <1>3, <1>4, <1>5, <1>6, <1>1 DEF LedgerInv

LEMMA LedgerRestart ==
    ASSUME Reckoned, LedgerInv, NEW quit \in BOOLEAN, NEW again \in BOOLEAN, Ledger!Restart(quit, again)
    PROVE  LedgerInv'
<1>1. /\ base' = saved /\ saved' = saved /\ spendStored' = (IF quit THEN detail ELSE spendStored) /\ detail' = spendStored'
      /\ spendConv' = [p \in SpendPanes |-> IF spendConv[p] = "none" THEN "none" ELSE "gone"]
      /\ total' = [p \in SpendPanes |-> 0] /\ said' = [p \in SpendPanes |-> 0] /\ silent' = {}
      /\ UNCHANGED <<today, usage, spendHeard, exact>> /\ LedgerTyped
  BY DEF Ledger!Restart, Reckoned, LedgerInv
<1>2. LedgerTyped'
  BY <1>1 DEF LedgerTyped
<1>3. OnlyOfThose(base)' /\ OnlyOfThose(saved)'
  <2>1. \A q \in SpendPanes : spendConv'[q] = "none" => spendConv[q] = "none"
    BY <1>1
  <2> QED
    BY <2>1, <1>1 DEF OnlyOfThose, LedgerInv
<1>4. \A q \in SpendPanes : spendConv'[q] \notin Convs
  BY <1>1 DEF Reckoned
<1>5. Booked'
  <2>1. \A e \in {1, 2} : usage[e] \in Nat /\ detail[e] \in Nat /\ spendStored[e] \in Nat
    BY <1>1 DEF LedgerTyped, DaysT
  <2> QED
    BY <2>1, <1>1 DEF LedgerInv, Booked
<1> QED
  BY <1>2, <1>3, <1>4, <1>5 DEF LedgerInv

LEMMA LedgerStep == ASSUME Reckoned, LedgerInv, [Ledger!Next]_(Ledger!svars) PROVE LedgerInv'
<1>1. CASE Ledger!Midnight
  <2>1. today' = 2 /\ UNCHANGED <<spendConv, total, base, saved, usage, detail, spendStored, detailDay, silent, said, spendHeard, exact>>
    BY <1>1 DEF Ledger!Midnight
  <2>2. LedgerTyped' /\ OnlyOfThose(base)' /\ OnlyOfThose(saved)' /\ Booked'
    BY <2>1 DEF LedgerInv, LedgerTyped, OnlyOfThose, Booked
  <2>3. \A p \in SpendPanes : spendConv'[p] \in Convs => HeldAgainst(p, spendConv[p])'
    BY <2>1 DEF LedgerInv, HeldAgainst, Ledger!Prev
  <2> QED
    BY <2>2, <2>3 DEF LedgerInv
<1>2. CASE UNCHANGED Ledger!svars
  <2>1. UNCHANGED <<today, spendConv, total, base, saved, usage, detail, spendStored, detailDay, silent, said, spendHeard, exact>>
    BY <1>2 DEF Ledger!svars
  <2>2. LedgerTyped' /\ OnlyOfThose(base)' /\ OnlyOfThose(saved)' /\ Booked'
    BY <2>1 DEF LedgerInv, LedgerTyped, OnlyOfThose, Booked
  <2>3. \A p \in SpendPanes : spendConv'[p] \in Convs => HeldAgainst(p, spendConv[p])'
    BY <2>1 DEF LedgerInv, HeldAgainst, Ledger!Prev
  <2> QED
    BY <2>2, <2>3 DEF LedgerInv
<1>3. ASSUME NEW p \in SpendPanes, Ledger!Costs(p) \/ Ledger!Falls(p) PROVE LedgerInv'
  BY <1>3, LedgerCounts
<1>4. ASSUME NEW p \in SpendPanes, NEW c \in Convs, Ledger!Resume(p, c) PROVE LedgerInv'
  BY <1>4, LedgerResume
<1>5. ASSUME NEW p \in SpendPanes, NEW late \in BOOLEAN, Ledger!Report(p, late) PROVE LedgerInv'
  BY <1>5, LedgerReport
<1>6. ASSUME NEW quit \in BOOLEAN, NEW again \in BOOLEAN, Ledger!Restart(quit, again) PROVE LedgerInv'
  BY <1>6, LedgerRestart
<1> QED
  BY <1>1, <1>2, <1>3, <1>4, <1>5, <1>6 DEF Ledger!Next

\* What is reported is booked once, for any panes and conversations, whoever carries one on and whenever the window
\* stops: never more than was new in the readings, and all of it where no counter fell; and the split by project never
\* claims more than its day (costDelta, addUsage).
THEOREM BookedOnce == ASSUME Reckoned PROVE Ledger!Spec => []Ledger!SpendBookedOnce
<1>1. Ledger!Init => LedgerInv
  BY LedgerInit
<1>2. LedgerInv /\ [Ledger!Next]_(Ledger!svars) => LedgerInv'
  BY LedgerStep
<1>3. LedgerInv => Ledger!SpendBookedOnce
  BY DEF LedgerInv, Booked, Ledger!SpendBookedOnce
<1> QED
  BY <1>1, <1>2, <1>3, PTL DEF Ledger!Spec

-----------------------------------------------------------------------------
(* The daily disk rollup (DiskMeter).                                       *)

CONSTANTS Days, TTL, MeterReloads, MeterMost, MeterMax
VARIABLES meterToday, written, binary, seenBinary, prev, credit, age, excluded, dayIo, meterStored, meterDirty, ioDay,
    wrote, updates, meterLost, meterActs
Meter == INSTANCE DiskMeter WITH
    Reloads <- MeterReloads, Most <- MeterMost, Acts <- MeterMax,
    today <- meterToday, stored <- meterStored, dirty <- meterDirty, lost <- meterLost, acts <- meterActs

\* What the theorem assumes: days are finitely many numbers from 1 up, and the window is not reloaded while the app stays.
Metered == IsFiniteSet(Days) /\ Days \subseteq Nat \ {0} /\ 1 \in Days /\ ~ MeterReloads

\* A total is the value, on all days, of a function that adds one day at a time.
Pick(S) == CHOOSE x \in S : TRUE
AddsUp(g, f) == g = [S \in SUBSET DOMAIN f |-> IF S = {} THEN 0 ELSE f[Pick(S)] + g[S \ {Pick(S)}]]
SumUp(f) == CHOOSE g : AddsUp(g, f)

LEMMA TotalIsSumUp == ASSUME NEW f PROVE Meter!Total(f) = SumUp(f)[DOMAIN f]
BY DEF Meter!Total, Meter!FoldSet, Meter!MapThenFoldSet, SumUp, AddsUp, Pick

Less == {p \in Nat \X Nat : p[1] < p[2]}

\* Any numbers have a least one: the library's fact, on the relation as a set.
LEMMA HasLeast == ASSUME NEW B \in SUBSET Nat, B # {} PROVE \E m \in B : \A n \in B : m <= n
<1>1. OpToRel(<, Nat) = Less
  BY DEF OpToRel, Less
<1>2. IsWellFoundedOn(Less, Nat)
  BY <1>1, NatLessThanWellFounded
<1>3. PICK m \in B : \A n \in B : ~ (<<n, m>> \in Less)
  BY <1>2, WFMin, Zenon
<1>4. ASSUME NEW n \in B PROVE m <= n
  <2>1. m \in Nat /\ n \in Nat /\ ~ (<<n, m>> \in Less)
    BY <1>3
  <2>2. ~ (n < m)
    BY <2>1 DEF Less
  <2> QED
    BY <2>1, <2>2
<1> QED
  BY <1>4

\* Of the sets of days for which something fails, though not for none, one holds a day without which it does not.
LEMMA SmallestSet ==
    ASSUME Metered, NEW B \in SUBSET SUBSET Days, B # {}, {} \notin B
    PROVE  \E S \in B : Pick(S) \in S /\ S \ {Pick(S)} \in (SUBSET Days) \ B
<1> DEFINE Sizes == {Cardinality(S) : S \in B}
<1>1. \A S \in SUBSET Days : IsFiniteSet(S) /\ Cardinality(S) \in Nat
  BY FS_Subset, FS_CardinalityType DEF Metered
<1>2. Sizes \in SUBSET Nat /\ Sizes # {}
  BY <1>1
<1>3. PICK m \in Sizes : \A n \in Sizes : m <= n
  BY <1>2, HasLeast
<1>4. PICK S \in B : m = Cardinality(S)
  OBVIOUS
<1>5. Pick(S) \in S
  BY <1>4 DEF Pick
<1>6. Cardinality(S \ {Pick(S)}) = m - 1 /\ m \in Nat
  BY <1>1, <1>4, <1>5, FS_RemoveElement
<1>7. S \ {Pick(S)} \notin B
  BY <1>3, <1>6
<1> QED
  BY <1>4, <1>5, <1>7

\* There is such a function: for sets of up to n days, for every n.
LEMMA SumExists == ASSUME Metered, NEW f \in [Days -> Nat] PROVE AddsUp(SumUp(f), f)
<1> DEFINE UpTo(n) == {S \in SUBSET Days : Cardinality(S) <= n}
           Part(g, n) == g = [S \in UpTo(n) |-> IF S = {} THEN 0 ELSE f[Pick(S)] + g[S \ {Pick(S)}]]
           Bad == {n \in Nat : ~ \E g : Part(g, n)}
<1>1. \A S \in SUBSET Days : IsFiniteSet(S) /\ Cardinality(S) \in Nat
  BY FS_Subset, FS_CardinalityType DEF Metered
<1>2. \A S \in SUBSET Days : S # {} =>
        /\ Pick(S) \in S /\ S \ {Pick(S)} \in SUBSET Days
        /\ Cardinality(S \ {Pick(S)}) = Cardinality(S) - 1 /\ Cardinality(S) # 0
  <2> SUFFICES ASSUME NEW S \in SUBSET Days, S # {} PROVE
        /\ Pick(S) \in S /\ S \ {Pick(S)} \in SUBSET Days
        /\ Cardinality(S \ {Pick(S)}) = Cardinality(S) - 1 /\ Cardinality(S) # 0
    OBVIOUS
  <2>1. Pick(S) \in S
    BY DEF Pick
  <2> QED
    BY <1>1, <2>1, FS_RemoveElement, FS_EmptySet
<1>3. 0 \notin Bad
  <2> DEFINE g == [S \in UpTo(0) |-> 0]
  <2>1. ASSUME NEW S \in UpTo(0) PROVE S = {}
    <3>1. Cardinality(S) = 0 /\ S \in SUBSET Days
      BY <1>1
    <3> QED
      BY <3>1, <1>2
  <2>2. Part(g, 0)
    BY <2>1
  <2> QED
    BY <2>2
<1>4. ASSUME NEW n \in Nat, n \notin Bad PROVE n + 1 \notin Bad
  <2>1. PICK g : Part(g, n)
    BY <1>4
  <2> DEFINE h == [S \in UpTo(n + 1) |-> IF S = {} THEN 0 ELSE f[Pick(S)] + g[S \ {Pick(S)}]]
  <2>2. ASSUME NEW S \in UpTo(n + 1), S # {} PROVE h[S \ {Pick(S)}] = g[S \ {Pick(S)}]
    <3> DEFINE T == S \ {Pick(S)}
    <3>1. T \in UpTo(n) /\ T \in UpTo(n + 1)
      BY <1>1, <1>2, <2>2
    <3>2. h[T] = IF T = {} THEN 0 ELSE f[Pick(T)] + g[T \ {Pick(T)}]
      BY <3>1
    <3>3. g[T] = IF T = {} THEN 0 ELSE f[Pick(T)] + g[T \ {Pick(T)}]
      BY <2>1, <3>1
    <3> QED
      BY <3>2, <3>3
  <2>3. Part(h, n + 1)
    BY <2>2
  <2> QED
    BY <2>3
<1> HIDE DEF Bad
<1>5. Bad = {}
  <2>1. SUFFICES ASSUME Bad # {} PROVE FALSE
    OBVIOUS
  <2>2. Bad \in SUBSET Nat
    BY DEF Bad
  <2>3. PICK m \in Bad : \A n \in Bad : m <= n
    BY <2>1, <2>2, HasLeast
  <2>4. m \in Nat /\ m # 0
    BY <1>3, <2>2, <2>3
  <2>5. m - 1 \in Nat /\ m - 1 \notin Bad /\ (m - 1) + 1 = m
    BY <2>3, <2>4
  <2> QED
    BY <1>4, <2>3, <2>5
<1>6. Cardinality(Days) \in Nat /\ UpTo(Cardinality(Days)) = SUBSET Days
  BY <1>1, FS_Subset DEF Metered
<1>7. \E g : Part(g, Cardinality(Days))
  BY <1>5, <1>6 DEF Bad
<1>8. \E g : AddsUp(g, f)
  BY <1>6, <1>7 DEF AddsUp
<1> QED
  BY <1>8 DEF SumUp

LEMMA SumOfSet ==
    ASSUME Metered, NEW f \in [Days -> Nat]
    PROVE  /\ SumUp(f)[{}] = 0
           /\ \A S \in SUBSET Days : Pick(S) \in S => SumUp(f)[S] = f[Pick(S)] + SumUp(f)[S \ {Pick(S)}]
<1> DEFINE g == SumUp(f)
<1>1. g = [S \in SUBSET DOMAIN f |-> IF S = {} THEN 0 ELSE f[Pick(S)] + g[S \ {Pick(S)}]] /\ DOMAIN f = Days
  BY SumExists DEF AddsUp
<1> HIDE DEF g
<1>2. /\ g[{}] = 0
      /\ \A S \in SUBSET Days : Pick(S) \in S => g[S] = f[Pick(S)] + g[S \ {Pick(S)}]
  BY <1>1
<1> QED
  BY <1>2 DEF g

\* A total is a number; totals add up day by day; a day alone is its own total.
LEMMA TotalIsNat == ASSUME Metered, NEW f \in [Days -> Nat] PROVE Meter!Total(f) \in Nat
<1> DEFINE Bad == {S \in SUBSET Days : SumUp(f)[S] \notin Nat}
<1>1. {} \notin Bad
  BY SumOfSet
<1>2. Bad = {}
  <2>1. SUFFICES ASSUME Bad # {} PROVE FALSE
    OBVIOUS
  <2>2. PICK S \in Bad : Pick(S) \in S /\ S \ {Pick(S)} \in (SUBSET Days) \ Bad
    BY <1>1, <2>1, SmallestSet
  <2>3. SumUp(f)[S] = f[Pick(S)] + SumUp(f)[S \ {Pick(S)}] /\ f[Pick(S)] \in Nat /\ SumUp(f)[S \ {Pick(S)}] \in Nat
    BY <2>2, SumOfSet
  <2> QED
    BY <2>2, <2>3
<1>3. SumUp(f)[Days] \in Nat /\ DOMAIN f = Days
  BY <1>2
<1> QED
  BY <1>3, TotalIsSumUp

LEMMA TotalAdds ==
    ASSUME Metered, NEW f \in [Days -> Nat], NEW g \in [Days -> Nat], NEW h \in [Days -> Nat],
           \A d \in Days : f[d] = g[d] + h[d]
    PROVE  Meter!Total(f) = Meter!Total(g) + Meter!Total(h)
<1> DEFINE Bad == {S \in SUBSET Days : SumUp(f)[S] # SumUp(g)[S] + SumUp(h)[S] \/ SumUp(g)[S] \notin Nat \/ SumUp(h)[S] \notin Nat}
<1>1. {} \notin Bad
  BY SumOfSet
<1>2. Bad = {}
  <2>1. SUFFICES ASSUME Bad # {} PROVE FALSE
    OBVIOUS
  <2>2. PICK S \in Bad : Pick(S) \in S /\ S \ {Pick(S)} \in (SUBSET Days) \ Bad
    BY <1>1, <2>1, SmallestSet
  <2>3. /\ SumUp(f)[S] = f[Pick(S)] + SumUp(f)[S \ {Pick(S)}]
        /\ SumUp(g)[S] = g[Pick(S)] + SumUp(g)[S \ {Pick(S)}]
        /\ SumUp(h)[S] = h[Pick(S)] + SumUp(h)[S \ {Pick(S)}]
        /\ f[Pick(S)] = g[Pick(S)] + h[Pick(S)] /\ g[Pick(S)] \in Nat /\ h[Pick(S)] \in Nat
    BY <2>2, SumOfSet
  <2>4. LET T == S \ {Pick(S)} IN
        SumUp(f)[T] = SumUp(g)[T] + SumUp(h)[T] /\ SumUp(g)[T] \in Nat /\ SumUp(h)[T] \in Nat
    BY <2>2
  <2>5. SumUp(f)[S] = SumUp(g)[S] + SumUp(h)[S] /\ SumUp(g)[S] \in Nat /\ SumUp(h)[S] \in Nat
    BY <2>3, <2>4
  <2> QED
    BY <2>2, <2>5
<1>3. SumUp(f)[Days] = SumUp(g)[Days] + SumUp(h)[Days] /\ DOMAIN f = Days /\ DOMAIN g = Days /\ DOMAIN h = Days
  BY <1>2
<1> QED
  BY <1>3, TotalIsSumUp

LEMMA TotalOfOne ==
    ASSUME Metered, NEW f \in [Days -> Nat], NEW d \in Days, \A e \in Days : e # d => f[e] = 0
    PROVE  Meter!Total(f) = f[d]
<1> DEFINE Bad == {S \in SUBSET Days : SumUp(f)[S] # IF d \in S THEN f[d] ELSE 0}
<1>1. {} \notin Bad
  BY SumOfSet
<1>2. Bad = {}
  <2>1. SUFFICES ASSUME Bad # {} PROVE FALSE
    OBVIOUS
  <2>2. PICK S \in Bad : Pick(S) \in S /\ S \ {Pick(S)} \in (SUBSET Days) \ Bad
    BY <1>1, <2>1, SmallestSet
  <2>3. SumUp(f)[S] = f[Pick(S)] + SumUp(f)[S \ {Pick(S)}] /\ f[Pick(S)] \in Nat /\ f[d] \in Nat
    BY <2>2, SumOfSet
  <2>4. SumUp(f)[S \ {Pick(S)}] = IF d \in S \ {Pick(S)} THEN f[d] ELSE 0
    BY <2>2
  <2>5. SumUp(f)[S] = IF d \in S THEN f[d] ELSE 0
    <3>1. CASE Pick(S) = d
      BY <2>2, <2>3, <2>4, <3>1
    <3>2. CASE Pick(S) # d
      BY <2>2, <2>3, <2>4, <3>2
    <3> QED
      BY <3>1, <3>2
  <2> QED
    BY <2>2, <2>5
<1>3. SumUp(f)[Days] = f[d] /\ DOMAIN f = Days
  BY <1>2
<1> QED
  BY <1>3, TotalIsSumUp

MeterTyped ==
    /\ meterToday \in Days /\ written \in Nat /\ binary \in Nat /\ seenBinary \in Nat /\ seenBinary <= binary
    /\ prev \in [w : Nat, day : Days \cup {0}] /\ prev.w <= written
    /\ credit \in Nat /\ excluded \in Nat /\ excluded <= written
    /\ dayIo \in [Days -> Nat] /\ meterStored \in [Days -> Nat]
    /\ wrote \in Nat /\ updates \in Nat /\ meterLost \in Int

\* What an update has put on disk and no poll has seen.
Unseen == IF seenBinary = 0 THEN 0 ELSE binary - seenBinary
\* What is yet to be booked is still of the sessions; what may still be taken off is of the updates.
MeterInv ==
    /\ MeterTyped
    /\ Meter!Total(dayIo) + (written - prev.w) <= wrote /\ Meter!Total(meterStored) <= wrote
    /\ wrote + credit + Unseen <= Meter!Total(dayIo) + (written - prev.w) + updates + meterLost

LEMMA MeterInit == ASSUME Metered, Meter!Init PROVE MeterInv
<1>1. Meter!Zero \in [Days -> Nat] /\ Meter!Zero = [d \in Days |-> 0] /\ 1 \in Days
  BY DEF Meter!Zero, Metered
<1>2. Meter!Total(Meter!Zero) = 0
  BY <1>1, TotalOfOne
<1>3. MeterTyped
  BY <1>1 DEF Meter!Init, MeterTyped
<1> QED
  BY <1>2, <1>3 DEF Meter!Init, MeterInv, Unseen

\* However a poll's increment falls on the days, it is all booked.
LEMMA SplitsBook ==
    ASSUME Metered, NEW w \in Nat, NEW from \in Days \cup {0}, NEW to \in Days, NEW f \in Meter!Splits(w, from, to)
    PROVE  f \in [Days -> Nat] /\ Meter!Total(f) = w
<1>1. CASE from \in {0, to}
  <2>1. f = [Meter!Zero EXCEPT ![to] = w]
    BY <1>1 DEF Meter!Splits
  <2>2. f \in [Days -> Nat] /\ f[to] = w /\ \A e \in Days : e # to => f[e] = 0
    BY <2>1 DEF Meter!Zero
  <2> QED
    BY <2>2, TotalOfOne
<1>2. CASE from \notin {0, to}
  <2>1. f \in [Days -> 0..w] /\ Meter!Total(f) = w
    BY <1>2 DEF Meter!Splits
  <2>2. f \in [Days -> Nat]
    BY <2>1
  <2> QED
    BY <2>1, <2>2
<1> QED
  BY <1>1, <1>2

LEMMA MeterPoll == ASSUME Metered, MeterInv, NEW isDue \in BOOLEAN, Meter!AddIo(isDue) PROVE MeterInv'
<1> DEFINE grown == IF seenBinary = 0 THEN 0 ELSE Meter!Less(binary, seenBinary)
           has == IF grown > 0 THEN credit + grown ELSE IF age >= TTL THEN 0 ELSE credit
           w == Meter!Less(written, prev.w)
           first == Meter!Lesser(has, Meter!Lesser(w, Meter!Room(written)))
           retro == Meter!Lesser(has - first, Meter!Lesser(dayIo[meterToday], Meter!Less(Meter!Room(written), first)))
<1>1. MeterTyped /\ meterToday \in Days /\ dayIo[meterToday] \in Nat /\ prev.w \in Nat /\ prev.day \in Days \cup {0}
      /\ credit \in Nat /\ written \in Nat /\ excluded \in Nat /\ excluded <= written /\ prev.w <= written
      /\ binary \in Nat /\ seenBinary \in Nat /\ seenBinary <= binary
  BY DEF MeterInv, MeterTyped
<1>2. /\ grown = Unseen /\ grown \in Nat /\ w = written - prev.w /\ w \in Nat
      /\ Meter!Room(written) = written - excluded /\ Meter!Room(written) \in Nat
  BY <1>1 DEF Meter!Less, Meter!Room, Unseen
<1>3. has \in Nat /\ has <= credit + Unseen
  BY <1>1, <1>2
<1> HIDE DEF grown, has, w
<1>4. /\ first \in Nat /\ first <= has /\ first <= w /\ first <= written - excluded
  BY <1>1, <1>2, <1>3 DEF Meter!Lesser
<1> HIDE DEF first
<1>5. /\ retro \in Nat /\ retro <= has - first /\ retro <= dayIo[meterToday] /\ retro <= written - excluded - first
  BY <1>1, <1>2, <1>3, <1>4 DEF Meter!Lesser, Meter!Less
<1> HIDE DEF retro
<1>6. /\ seenBinary' = binary /\ prev' = [w |-> written, day |-> meterToday] /\ credit' = has - first - retro
      /\ excluded' = excluded + first + retro
      /\ \E f \in Meter!Splits(w - first, prev.day, meterToday) :
            dayIo' = [d \in Days |-> dayIo[d] + f[d] - (IF d = meterToday THEN retro ELSE 0)]
      /\ meterStored' = dayIo' \/ meterStored' = meterStored
      /\ UNCHANGED <<meterToday, written, binary, wrote, updates, meterLost>>
  BY DEF Meter!AddIo, grown, has, w, first, retro
<1>7. PICK f \in Meter!Splits(w - first, prev.day, meterToday) :
            dayIo' = [d \in Days |-> dayIo[d] + f[d] - (IF d = meterToday THEN retro ELSE 0)]
  BY <1>6
<1>8. w - first \in Nat
  BY <1>2, <1>4
<1>9. f \in [Days -> Nat] /\ Meter!Total(f) = w - first
  BY <1>1, <1>7, <1>8, SplitsBook
<1> DEFINE taken == [d \in Days |-> IF d = meterToday THEN retro ELSE 0]
           both == [d \in Days |-> dayIo[d] + f[d]]
<1>10. dayIo \in [Days -> Nat] /\ taken \in [Days -> Nat] /\ both \in [Days -> Nat] /\ dayIo' \in [Days -> Nat]
       /\ \A d \in Days : both[d] = dayIo'[d] + taken[d]
  <2>1. dayIo \in [Days -> Nat]
    BY <1>1 DEF MeterTyped
  <2>2. taken \in [Days -> Nat]
    BY <1>5
  <2>3. \A d \in Days : dayIo[d] \in Nat /\ f[d] \in Nat
    BY <2>1, <1>9
  <2>4. both \in [Days -> Nat]
    BY <2>3
  <2>5. \A d \in Days : dayIo[d] + f[d] - (IF d = meterToday THEN retro ELSE 0) \in Nat
    BY <2>3, <1>5
  <2>6. dayIo' \in [Days -> Nat]
    BY <2>5, <1>7
  <2>7. \A d \in Days : both[d] = dayIo'[d] + taken[d]
    BY <2>3, <1>5, <1>7
  <2> QED
    BY <2>1, <2>2, <2>4, <2>6, <2>7
<1>11. Meter!Total(taken) = retro
  <2>1. taken[meterToday] = retro /\ \A e \in Days : e # meterToday => taken[e] = 0
    BY <1>1
  <2> HIDE DEF taken
  <2> QED
    BY <2>1, <1>1, <1>10, TotalOfOne
<1>12. Meter!Total(both) = Meter!Total(dayIo) + Meter!Total(f)
  <2>1. \A d \in Days : both[d] = dayIo[d] + f[d]
    OBVIOUS
  <2> HIDE DEF both
  <2> QED
    BY <2>1, <1>9, <1>10, TotalAdds
<1>13. Meter!Total(both) = Meter!Total(dayIo') + Meter!Total(taken)
  <2> HIDE DEF both, taken
  <2> QED
    BY <1>10, TotalAdds
<1>14. Meter!Total(dayIo)' = Meter!Total(dayIo') /\ Meter!Total(meterStored)' = Meter!Total(meterStored')
  BY DEF Meter!Total, Meter!FoldSet, Meter!MapThenFoldSet
<1>15. Meter!Total(dayIo)' = Meter!Total(dayIo) + (w - first) - retro /\ Meter!Total(dayIo) \in Nat /\ Meter!Total(meterStored) \in Nat
  <2>1. Meter!Total(dayIo') \in Nat /\ Meter!Total(dayIo) \in Nat /\ Meter!Total(meterStored) \in Nat
    BY <1>1, <1>10, TotalIsNat DEF MeterTyped
  <2> QED
    BY <2>1, <1>5, <1>8, <1>9, <1>11, <1>12, <1>13, <1>14
<1>16. MeterTyped'
  BY <1>1, <1>3, <1>4, <1>5, <1>6, <1>10 DEF MeterTyped
<1>17. /\ Meter!Total(dayIo)' + (written' - prev'.w) <= wrote' /\ Meter!Total(meterStored)' <= wrote'
       /\ wrote' + credit' + Unseen' <= Meter!Total(dayIo)' + (written' - prev'.w) + updates' + meterLost'
  <2>1. /\ Meter!Total(dayIo) + (written - prev.w) <= wrote /\ Meter!Total(meterStored) <= wrote
        /\ wrote + credit + Unseen <= Meter!Total(dayIo) + (written - prev.w) + updates + meterLost
        /\ wrote \in Nat /\ updates \in Nat /\ meterLost \in Int /\ Unseen \in Nat
    BY <1>2 DEF MeterInv, MeterTyped
  <2>2. written' - prev'.w = 0 /\ Unseen' = 0 /\ wrote' = wrote /\ updates' = updates /\ meterLost' = meterLost
    BY <1>1, <1>6 DEF Unseen
  <2>3. Meter!Total(meterStored)' = Meter!Total(dayIo)' \/ Meter!Total(meterStored)' = Meter!Total(meterStored)
    BY <1>6, <1>14
  <2>4. Meter!Total(dayIo)' <= wrote
    BY <2>1, <1>1, <1>2, <1>4, <1>5, <1>15
  <2>5. wrote + credit' <= Meter!Total(dayIo)' + updates + meterLost
    BY <2>1, <1>1, <1>2, <1>3, <1>4, <1>5, <1>6, <1>15
  <2>6. Meter!Total(dayIo)' \in Int /\ credit' \in Int
    BY <1>3, <1>4, <1>5, <1>6, <1>8, <1>15
  <2> QED
    BY <2>1, <2>2, <2>3, <2>4, <2>5, <2>6
<1> QED
  BY <1>16, <1>17 DEF MeterInv

LEMMA MeterRestart ==
    ASSUME Metered, MeterInv, NEW quit \in BOOLEAN, NEW again \in BOOLEAN, Meter!Restart(quit, again) PROVE MeterInv'
<1>1. /\ meterStored' = (IF quit THEN dayIo ELSE meterStored) /\ dayIo' = meterStored'
      /\ seenBinary' = 0 /\ prev' = [w |-> 0, day |-> 0] /\ credit' = 0 /\ excluded' = 0 /\ written' = 0
      /\ meterLost' = meterLost + (written - prev.w) + (Meter!Total(dayIo) - Meter!Total(dayIo'))
      /\ UNCHANGED <<meterToday, binary, wrote, updates>>
  BY DEF Meter!Restart, Metered
<1>2. /\ MeterTyped
      /\ Meter!Total(dayIo) + (written - prev.w) <= wrote /\ Meter!Total(meterStored) <= wrote
      /\ wrote + credit + Unseen <= Meter!Total(dayIo) + (written - prev.w) + updates + meterLost
  BY DEF MeterInv
<1>3. /\ dayIo' \in [Days -> Nat] /\ meterStored' \in [Days -> Nat] /\ dayIo \in [Days -> Nat] /\ meterStored \in [Days -> Nat]
      /\ written - prev.w \in Nat /\ meterLost \in Int /\ wrote \in Nat /\ updates \in Nat /\ credit \in Nat
      /\ Unseen \in Nat
  BY <1>1, <1>2 DEF MeterTyped, Unseen
<1>4. /\ Meter!Total(dayIo') \in Nat /\ Meter!Total(dayIo) \in Nat /\ Meter!Total(meterStored) \in Nat
      /\ Meter!Total(dayIo') = Meter!Total(dayIo) \/ Meter!Total(dayIo') = Meter!Total(meterStored)
  BY <1>1, <1>3, TotalIsNat
<1>5. Meter!Total(dayIo)' = Meter!Total(dayIo') /\ Meter!Total(meterStored)' = Meter!Total(dayIo')
  BY <1>1 DEF Meter!Total, Meter!FoldSet, Meter!MapThenFoldSet
<1>6. meterLost' \in Int
  BY <1>1, <1>3, <1>4
<1>7. MeterTyped'
  BY <1>1, <1>2, <1>3, <1>6 DEF MeterTyped
<1>8. written' - prev'.w = 0 /\ Unseen' = 0
  BY <1>1 DEF Unseen
<1> QED
  BY <1>1, <1>2, <1>3, <1>4, <1>5, <1>7, <1>8 DEF MeterInv

LEMMA MeterWrites ==
    ASSUME Metered, MeterInv, NEW mine \in BOOLEAN, Meter!Writes \/ Meter!Installed(mine) PROVE MeterInv'
<1> DEFINE more == IF wrote' = wrote THEN 0 ELSE 1
           fresh == IF updates' = updates THEN 0 ELSE 1
<1>1. /\ MeterTyped
      /\ Meter!Total(dayIo) + (written - prev.w) <= wrote /\ Meter!Total(meterStored) <= wrote
      /\ wrote + credit + Unseen <= Meter!Total(dayIo) + (written - prev.w) + updates + meterLost
      /\ Meter!Total(dayIo) \in Nat
  BY TotalIsNat DEF MeterInv, MeterTyped
<1>2. /\ wrote' = wrote + more /\ written' = written + more
      /\ updates' = updates + fresh /\ binary' = binary + fresh
      /\ UNCHANGED <<meterToday, seenBinary, prev, credit, excluded, dayIo, meterStored, meterLost>>
  BY <1>1 DEF MeterTyped, Meter!Writes, Meter!Installed
<1>3. more \in 0..1 /\ fresh \in 0..1
  OBVIOUS
<1> HIDE DEF more, fresh
<1>4. MeterTyped'
  BY <1>1, <1>2, <1>3 DEF MeterTyped
<1>5. Meter!Total(dayIo)' = Meter!Total(dayIo) /\ Meter!Total(meterStored)' = Meter!Total(meterStored)
  BY <1>2 DEF Meter!Total, Meter!FoldSet, Meter!MapThenFoldSet
<1>6. Unseen' <= Unseen + fresh /\ Unseen \in Nat /\ Unseen' \in Nat
  BY <1>1, <1>2, <1>3 DEF Unseen, MeterTyped
<1>7. /\ written \in Nat /\ prev.w \in Nat /\ wrote \in Nat /\ updates \in Nat /\ credit \in Nat /\ meterLost \in Int
      /\ prev'.w = prev.w
  BY <1>1, <1>2 DEF MeterTyped
<1>8. Meter!Total(meterStored) <= wrote + more
  <2>1. Meter!Total(meterStored) \in Nat
    BY <1>1, TotalIsNat DEF MeterTyped
  <2> QED
    BY <2>1, <1>1, <1>3, <1>7
<1> QED
  BY <1>1, <1>2, <1>3, <1>4, <1>5, <1>6, <1>7, <1>8 DEF MeterInv

LEMMA MeterStep == ASSUME Metered, MeterInv, [Meter!Next]_(Meter!dmvars) PROVE MeterInv'
<1>1. CASE Meter!Midnight \/ UNCHANGED Meter!dmvars
  <2>1. /\ meterToday' \in Days
        /\ UNCHANGED <<written, binary, seenBinary, prev, credit, excluded, dayIo, meterStored, wrote, updates, meterLost>>
    BY <1>1 DEF Meter!Midnight, Meter!dmvars, MeterInv, MeterTyped
  <2>2. Meter!Total(dayIo)' = Meter!Total(dayIo) /\ Meter!Total(meterStored)' = Meter!Total(meterStored)
    BY <2>1 DEF Meter!Total, Meter!FoldSet, Meter!MapThenFoldSet
  <2>3. MeterTyped' /\ Unseen' = Unseen
    BY <2>1 DEF MeterInv, MeterTyped, Unseen
  <2> QED
    BY <2>1, <2>2, <2>3 DEF MeterInv
<1>2. ASSUME Meter!Writes PROVE MeterInv'
  BY <1>2, MeterWrites
<1>3. ASSUME NEW mine \in BOOLEAN, Meter!Installed(mine) PROVE MeterInv'
  BY <1>3, MeterWrites
<1>4. ASSUME NEW isDue \in BOOLEAN, Meter!AddIo(isDue) PROVE MeterInv'
  BY <1>4, MeterPoll
<1>5. ASSUME NEW quit \in BOOLEAN, NEW again \in BOOLEAN, Meter!Restart(quit, again) PROVE MeterInv'
  BY <1>5, MeterRestart
<1> QED
  BY <1>1, <1>2, <1>3, <1>4, <1>5 DEF Meter!Next

\* The days add up to what sessions wrote, for any days, polls and updates: never more of it, and no less than what
\* updates, and runs that ended unread, account for; and no run gives back more than it reported (addIo).
THEOREM DaysAddUp == ASSUME Metered PROVE Meter!Spec => []Meter!MeterBalances
<1>1. Meter!Init => MeterInv
  BY MeterInit
<1>2. MeterInv /\ [Meter!Next]_(Meter!dmvars) => MeterInv'
  BY MeterStep
<1>3. MeterInv => Meter!MeterBalances
  <2> SUFFICES ASSUME MeterInv PROVE Meter!MeterBalances
    OBVIOUS
  <2>1. /\ Meter!Total(dayIo) + (written - prev.w) <= wrote
        /\ wrote + credit + Unseen <= Meter!Total(dayIo) + (written - prev.w) + updates + meterLost
        /\ written - prev.w \in Nat /\ Unseen \in Nat /\ credit \in Nat /\ wrote \in Nat /\ updates \in Nat /\ meterLost \in Int
        /\ dayIo \in [Days -> Nat] /\ excluded <= written
    BY DEF MeterInv, MeterTyped, Unseen
  <2>2. Meter!Total(dayIo) \in Nat
    BY <2>1, TotalIsNat
  <2>3. \A d \in Days : dayIo[d] >= 0
    BY <2>1
  <2> QED
    BY <2>1, <2>2, <2>3 DEF Meter!MeterBalances
<1> QED
  BY <1>1, <1>2, <1>3, PTL DEF Meter!Spec

-----------------------------------------------------------------------------
(* One machine's roster and its wire (Roster).                              *)

CONSTANTS Projects, RosterEdits, RosterArrivals
VARIABLES ids, favs, order, wfavs, worder, owedNow, owedReveal, writing, edits, arrivals
Ros == INSTANCE Roster WITH MaxEdits <- RosterEdits, MaxArrivals <- RosterArrivals

\* What a filter keeps of the first m entries, for every m up to a last one; the last of it is the filter.
KeepsTo(f, s, S, m) ==
    f = [n \in 0..m |-> IF n = 0 THEN <<>> ELSE IF s[n] \in S THEN Append(f[n - 1], s[n]) ELSE f[n - 1]]
KeepsOne(q, x, S) == IF x \in S THEN Append(q, x) ELSE q

LEMMA FilterIsKept == ASSUME NEW s, NEW S PROVE Ros!Filter(s, S) = (CHOOSE f : KeepsTo(f, s, S, Len(s)))[Len(s)]
BY DEF Ros!Filter, KeepsTo

\* Its entries are one by one; and a function with these entries is one.
LEMMA KeptByStep ==
    ASSUME NEW s, NEW S, NEW m \in Nat, NEW f
    PROVE  KeepsTo(f, s, S, m) <=>
              /\ f = [n \in 0..m |-> f[n]] /\ f[0] = <<>>
              /\ \A n \in 1..m : f[n] = KeepsOne(f[n - 1], s[n], S)
<1>1. ASSUME KeepsTo(f, s, S, m)
      PROVE  f = [n \in 0..m |-> f[n]] /\ f[0] = <<>> /\ \A n \in 1..m : f[n] = KeepsOne(f[n - 1], s[n], S)
  <2>1. DOMAIN f = 0..m /\ f = [n \in 0..m |-> f[n]]
    BY <1>1 DEF KeepsTo
  <2>2. \A n \in 0..m : f[n] = IF n = 0 THEN <<>> ELSE IF s[n] \in S THEN Append(f[n - 1], s[n]) ELSE f[n - 1]
    BY <1>1 DEF KeepsTo
  <2>3. 0 \in 0..m /\ \A n \in 1..m : n \in 0..m /\ n # 0
    OBVIOUS
  <2> QED
    BY <2>1, <2>2, <2>3 DEF KeepsOne
<1>2. ASSUME f = [n \in 0..m |-> f[n]], f[0] = <<>>, \A n \in 1..m : f[n] = KeepsOne(f[n - 1], s[n], S)
      PROVE  KeepsTo(f, s, S, m)
  <2>1. \A n \in 0..m : n = 0 \/ n \in 1..m
    OBVIOUS
  <2>2. \A n \in 0..m : f[n] = IF n = 0 THEN <<>> ELSE IF s[n] \in S THEN Append(f[n - 1], s[n]) ELSE f[n - 1]
    BY <1>2, <2>1 DEF KeepsOne
  <2> QED
    BY <1>2, <2>2, Zenon DEF KeepsTo
<1> QED
  BY <1>1, <1>2

LEMMA KeptExists == ASSUME NEW s, NEW S, NEW l \in Nat PROVE \E f : KeepsTo(f, s, S, l)
<1> DEFINE Bad == {m \in Nat : ~ \E f : KeepsTo(f, s, S, m)}
<1>1. SUFFICES ASSUME Bad # {} PROVE FALSE
  OBVIOUS
<1>2. PICK m \in Bad : \A n \in Bad : m <= n
  BY <1>1, HasLeast
<1>3. m \in Nat /\ ~ \E f : KeepsTo(f, s, S, m)
  BY <1>2
<1>4. CASE m = 0
  <2> DEFINE f == [n \in 0..0 |-> <<>>]
  <2>1. 0..0 = {0} /\ 1..0 = {}
    OBVIOUS
  <2>2. f = [n \in 0..0 |-> f[n]] /\ f[0] = <<>>
    BY <2>1
  <2> HIDE DEF f
  <2>3. KeepsTo(f, s, S, 0)
    BY <2>1, <2>2, KeptByStep
  <2> QED
    BY <1>3, <1>4, <2>3
<1>5. CASE m # 0
  <2>1. m - 1 \in Nat /\ m - 1 \notin Bad
    BY <1>2, <1>3, <1>5
  <2> DEFINE l1 == m - 1
  <2>2. PICK f : KeepsTo(f, s, S, l1)
    BY <2>1
  <2> HIDE DEF l1
  <2>0. f[0] = <<>> /\ \A n \in 1..l1 : f[n] = KeepsOne(f[n - 1], s[n], S)
    <3>1. l1 \in Nat
      BY <2>1 DEF l1
    <3> QED
      BY <2>2, <3>1, KeptByStep
  <2>3. f[0] = <<>> /\ \A n \in 1..(m - 1) : f[n] = KeepsOne(f[n - 1], s[n], S)
    BY <2>0 DEF l1
  <2> DEFINE g == [n \in 0..m |-> IF n = m THEN KeepsOne(f[m - 1], s[m], S) ELSE f[n]]
  <2>4. 0 \in 0..m /\ 0 # m /\ m \in 0..m /\ m - 1 \in 0..m /\ m - 1 # m /\ \A n \in 1..m : n \in 0..m /\ n - 1 \in 0..m /\ n - 1 # m
    BY <1>3, <1>5
  <2>5. g = [n \in 0..m |-> g[n]]
    OBVIOUS
  <2>6. g[m] = KeepsOne(f[m - 1], s[m], S) /\ \A n \in 0..m : n # m => g[n] = f[n]
    BY <2>4
  <2> HIDE DEF g
  <2>7. g[0] = <<>>
    BY <2>3, <2>4, <2>6
  <2>8. ASSUME NEW n \in 1..m PROVE g[n] = KeepsOne(g[n - 1], s[n], S)
    <3>1. CASE n = m
      BY <2>4, <2>6, <3>1
    <3>2. CASE n # m
      <4>1. n \in 1..(m - 1)
        BY <1>3, <3>2
      <4>2. g[n] = f[n] /\ g[n - 1] = f[n - 1]
        BY <2>4, <2>6, <3>2
      <4> QED
        BY <2>3, <4>1, <4>2
    <3> QED
      BY <3>1, <3>2
  <2>9. KeepsTo(g, s, S, m)
    BY <1>3, <2>5, <2>7, <2>8, KeptByStep
  <2> QED
    BY <1>3, <2>9
<1> QED
  BY <1>4, <1>5

\* No entry twice, and the entries.
Once(s) == \A i, j \in 1..Len(s) : s[i] = s[j] => i = j
Elems(s) == {s[i] : i \in 1..Len(s)}

LEMMA NoElems == ASSUME NEW P PROVE <<>> \in Seq(P) /\ Len(<<>>) = 0 /\ Elems(<<>>) = {} /\ Once(<<>>)
<1>1. <<>> \in Seq(P) /\ Len(<<>>) = 0
  BY EmptySeq
<1>2. 1..0 = {}
  OBVIOUS
<1> QED
  BY <1>1, <1>2 DEF Elems, Once

LEMMA AppendOne ==
    ASSUME NEW P, NEW q \in Seq(P), NEW x \in P
    PROVE  /\ Append(q, x) \in Seq(P) /\ Elems(Append(q, x)) = Elems(q) \cup {x}
           /\ Once(q) /\ x \notin Elems(q) => Once(Append(q, x))
<1> DEFINE t == Append(q, x)
<1>1. /\ t \in Seq(P) /\ Len(t) = Len(q) + 1 /\ Len(q) \in Nat /\ t[Len(q) + 1] = x
      /\ \A i \in 1..Len(q) : t[i] = q[i]
  BY AppendProperties, LenProperties
<1>2. \A i : i \in 1..Len(t) <=> i \in 1..Len(q) \/ i = Len(q) + 1
  BY <1>1
<1>3. Len(q) + 1 \notin 1..Len(q)
  BY <1>1
<1> HIDE DEF t
<1>4. Elems(t) = Elems(q) \cup {x}
  BY <1>1, <1>2 DEF Elems
<1>5. ASSUME Once(q), x \notin Elems(q) PROVE Once(t)
  <2>1. \A i \in 1..Len(q) : q[i] # x
    BY <1>5 DEF Elems
  <2> QED
    BY <1>1, <1>2, <1>5, <2>1 DEF Once
<1> QED
  BY <1>1, <1>4, <1>5 DEF t

\* The first n entries.
Upto(s, n) == {s[i] : i \in 1..n}
LEMMA UptoNext == ASSUME NEW s, NEW n \in Nat, n # 0 PROVE Upto(s, n) = Upto(s, n - 1) \cup {s[n]}
<1>1. \A i : i \in 1..n <=> i \in 1..(n - 1) \/ i = n
  OBVIOUS
<1> QED
  BY <1>1 DEF Upto

\* A filter keeps the entries that are in the set, each as often as it was there; all of them, in place, if all are in it.
LEMMA FilterDoes ==
    ASSUME NEW P, NEW s \in Seq(P), NEW S
    PROVE  /\ Ros!Filter(s, S) \in Seq(P)
           /\ Elems(Ros!Filter(s, S)) = S \cap Elems(s)
           /\ Once(s) => Once(Ros!Filter(s, S))
           /\ Elems(s) \subseteq S =>
                 Len(Ros!Filter(s, S)) = Len(s) /\ \A k \in 1..Len(s) : Ros!Filter(s, S)[k] = s[k]
<1> DEFINE L == Len(s)
           f == CHOOSE f : KeepsTo(f, s, S, L)
           Whole(q, n) == Len(q) = n /\ \A k \in 1..n : q[k] = s[k]
           Good(n) == /\ f[n] \in Seq(P)
                      /\ Elems(f[n]) = S \cap Upto(s, n)
                      /\ Once(s) => Once(f[n])
                      /\ Elems(s) \subseteq S => Whole(f[n], n)
           Bad == {n \in 0..L : ~ Good(n)}
<1>1. L \in Nat /\ \A n \in 1..L : s[n] \in P
  BY LenProperties, ElementOfSeq
<1>2. KeepsTo(f, s, S, L)
  BY <1>1, KeptExists
<1> HIDE DEF f
<1>3. f[0] = <<>> /\ \A n \in 1..L : f[n] = KeepsOne(f[n - 1], s[n], S)
  BY <1>1, <1>2, KeptByStep
<1>4. Good(0)
  <2>1. 1..0 = {}
    OBVIOUS
  <2>2. Upto(s, 0) = {}
    BY <2>1 DEF Upto
  <2> QED
    BY <1>3, <2>1, <2>2, NoElems
<1>5. ASSUME NEW n \in 1..L, Good(n - 1) PROVE Good(n)
  <2>1. n \in Nat /\ n # 0 /\ n - 1 \in Nat /\ n \in 1..L /\ s[n] \in P
    BY <1>1
  <2>2. Upto(s, n) = Upto(s, n - 1) \cup {s[n]}
    BY <2>1, UptoNext
  <2>3. f[n - 1] \in Seq(P) /\ Elems(f[n - 1]) = S \cap Upto(s, n - 1) /\ (Once(s) => Once(f[n - 1]))
    BY <1>5
  <2>4. CASE s[n] \in S
    <3>1. f[n] = Append(f[n - 1], s[n])
      BY <1>3, <2>4 DEF KeepsOne
    <3>2. f[n] \in Seq(P) /\ Elems(f[n]) = S \cap Upto(s, n)
      BY <2>1, <2>2, <2>3, <2>4, <3>1, AppendOne
    <3>3. Once(s) => Once(f[n])
      <4> SUFFICES ASSUME Once(s) PROVE Once(f[n])
        OBVIOUS
      <4>1. \A i \in 1..(n - 1) : i \in 1..L /\ i # n
        BY <1>1, <2>1
      <4>2. s[n] \notin Upto(s, n - 1)
        BY <4>1 DEF Upto, Once
      <4> QED
        BY <2>1, <2>3, <3>1, <4>2, AppendOne
    <3>4. Elems(s) \subseteq S => Whole(f[n], n)
      <4> SUFFICES ASSUME Elems(s) \subseteq S PROVE Whole(f[n], n)
        OBVIOUS
      <4>1. Whole(f[n - 1], n - 1)
        BY <1>5
      <4>2. /\ Len(f[n]) = (n - 1) + 1 /\ f[n][(n - 1) + 1] = s[n]
            /\ \A k \in 1..(n - 1) : f[n][k] = f[n - 1][k]
        BY <2>1, <2>3, <3>1, <4>1, AppendProperties
      <4>3. (n - 1) + 1 = n /\ \A k \in 1..n : k \in 1..(n - 1) \/ k = n
        BY <2>1
      <4> QED
        BY <4>1, <4>2, <4>3
    <3> QED
      BY <3>2, <3>3, <3>4
  <2>5. CASE s[n] \notin S
    <3>1. f[n] = f[n - 1]
      BY <1>3, <2>5 DEF KeepsOne
    <3>2. ~ Elems(s) \subseteq S
      BY <2>1, <2>5 DEF Elems
    <3> QED
      BY <2>2, <2>3, <2>5, <3>1, <3>2
  <2> QED
    BY <2>4, <2>5
<1>6. Bad = {}
  <2> SUFFICES ASSUME Bad # {} PROVE FALSE
    OBVIOUS
  <2>1. Bad \in SUBSET Nat
    BY <1>1
  <2>2. PICK n \in Bad : \A m \in Bad : n <= m
    BY <2>1, HasLeast
  <2> HIDE DEF Good
  <2>3. n \in 0..L /\ ~ Good(n) /\ n # 0
    BY <1>4, <2>2
  <2>4. n \in 1..L /\ n - 1 \in 0..L /\ ~ n <= n - 1
    BY <1>1, <2>3
  <2>5. Good(n - 1)
    BY <2>2, <2>4
  <2> QED
    BY <1>5, <2>3, <2>4, <2>5
<1>7. Good(L)
  BY <1>1, <1>6
<1>8. Ros!Filter(s, S) = f[L] /\ Upto(s, L) = Elems(s)
  BY FilterIsKept DEF f, Upto, Elems
<1> QED
  BY <1>7, <1>8

\* What one order followed by another is.
LEMMA JoinedIs ==
    ASSUME NEW P, NEW s \in Seq(P), NEW t \in Seq(P)
    PROVE  /\ s \o t \in Seq(P) /\ Elems(s \o t) = Elems(s) \cup Elems(t)
           /\ Once(s) /\ Once(t) /\ Elems(s) \cap Elems(t) = {} => Once(s \o t)
           /\ \A k \in 1..Len(s) : (s \o t)[k] = s[k]
<1> DEFINE r == s \o t  m == Len(s)  n == Len(t)
<1>1. m \in Nat /\ n \in Nat /\ r \in Seq(P) /\ Len(r) = m + n
  BY ConcatProperties, LenProperties
<1>2. \A k \in 1..(m + n) : r[k] = IF k <= m THEN s[k] ELSE t[k - m]
  BY ConcatProperties
<1> HIDE DEF r, m, n
<1>3. \A k \in 1..m : k \in 1..(m + n) /\ k <= m
  BY <1>1
<1>4. \A k \in 1..n : k + m \in 1..(m + n) /\ ~ k + m <= m /\ (k + m) - m = k
  BY <1>1
<1>5. \A k \in 1..(m + n) : k \in 1..m \/ (~ k <= m /\ k - m \in 1..n /\ (k - m) + m = k)
  BY <1>1
<1>6. \A k \in 1..m : r[k] = s[k]
  BY <1>2, <1>3
<1>7. \A k \in 1..n : r[k + m] = t[k]
  BY <1>2, <1>4
<1>8. Elems(r) = Elems(s) \cup Elems(t)
  <2>1. ASSUME NEW k \in 1..(m + n) PROVE r[k] \in Elems(s) \cup Elems(t)
    <3>1. CASE k \in 1..m
      BY <1>6, <3>1 DEF Elems, m
    <3>2. CASE k \notin 1..m
      <4>1. k - m \in 1..n /\ r[k] = t[k - m]
        BY <1>2, <1>5, <3>2
      <4> QED
        BY <4>1 DEF Elems, n
    <3> QED
      BY <3>1, <3>2
  <2>2. Elems(s) \subseteq Elems(r)
    BY <1>1, <1>3, <1>6 DEF Elems, m
  <2>3. Elems(t) \subseteq Elems(r)
    BY <1>1, <1>4, <1>7 DEF Elems, n
  <2> QED
    BY <1>1, <2>1, <2>2, <2>3 DEF Elems
<1>9. ASSUME Once(s), Once(t), Elems(s) \cap Elems(t) = {} PROVE Once(r)
  <2>1. ASSUME NEW i \in 1..(m + n), NEW j \in 1..(m + n), r[i] = r[j] PROVE i = j
    <3>1. \A k \in 1..(m + n) : (k \in 1..m /\ r[k] = s[k] /\ r[k] \in Elems(s))
                                \/ (k \notin 1..m /\ k - m \in 1..n /\ r[k] = t[k - m] /\ r[k] \in Elems(t))
      <4> SUFFICES ASSUME NEW k \in 1..(m + n)
                   PROVE  (k \in 1..m /\ r[k] = s[k] /\ r[k] \in Elems(s))
                                \/ (k \notin 1..m /\ k - m \in 1..n /\ r[k] = t[k - m] /\ r[k] \in Elems(t))
        OBVIOUS
      <4>1. CASE k \in 1..m
        BY <1>6, <4>1 DEF Elems, m
      <4>2. CASE k \notin 1..m
        <5>1. k - m \in 1..n /\ r[k] = t[k - m]
          BY <1>2, <1>5, <4>2
        <5> QED
          BY <4>2, <5>1 DEF Elems, n
      <4> QED
        BY <4>1, <4>2
    <3>2. CASE i \in 1..m
      <4>1. j \in 1..m
        BY <1>9, <2>1, <3>1, <3>2
      <4> QED
        BY <1>9, <2>1, <3>1, <3>2, <4>1 DEF Once, m
    <3>3. CASE i \notin 1..m
      <4>1. j \notin 1..m
        BY <1>9, <2>1, <3>1, <3>3
      <4>2. i - m \in 1..n /\ j - m \in 1..n /\ t[i - m] = t[j - m]
        BY <2>1, <3>1, <3>3, <4>1
      <4>3. i - m = j - m
        BY <1>9, <4>2 DEF Once, n
      <4> QED
        BY <1>1, <4>3
    <3> QED
      BY <3>2, <3>3
  <2> QED
    BY <1>1, <2>1 DEF Once
<1> QED
  BY <1>1, <1>6, <1>8, <1>9 DEF r, m

LEMMA SameCount == ASSUME NEW S PROVE Ros!Cardinality(S) = Cardinality(S)
BY DEF Ros!Cardinality, Cardinality, Ros!IsFiniteSet, IsFiniteSet

LEMMA ElemsAre == ASSUME NEW P, NEW s \in Seq(P) PROVE Ros!ToSet(s) = Elems(s) /\ Elems(s) \subseteq P
<1>1. DOMAIN s = 1..Len(s) /\ \A k \in 1..Len(s) : s[k] \in P
  BY LenProperties, ElementOfSeq
<1> QED
  BY <1>1 DEF Ros!ToSet, Elems

\* The places of the wire that this machine fills, up to one of them; each takes the next of the queue.
Taken(was, seen, k) == {j \in 1..k : was[j] \in seen}

LEMMA TakesNext ==
    ASSUME NEW P, NEW was \in Seq(P), Once(was), NEW seen, NEW queue \in Seq(P), Elems(queue) = seen \cap Elems(was),
           NEW k \in 1..Len(was), was[k] \in seen
    PROVE  /\ Cardinality(Taken(was, seen, k)) \in 1..Len(queue)
           /\ \A j \in 1..(k - 1) : was[j] \in seen => Cardinality(Taken(was, seen, j)) < Cardinality(Taken(was, seen, k))
<1> DEFINE T == Taken(was, seen, k)  L == Len(queue)
           g == [j \in T |-> CHOOSE q \in 1..L : queue[q] = was[j]]
<1>1. k \in Nat /\ k >= 1 /\ L \in Nat /\ Len(was) \in Nat /\ k <= Len(was)
  BY LenProperties
<1>2. IsFiniteSet(1..k) /\ IsFiniteSet(1..L) /\ Cardinality(1..L) = L
  <2>1. 1 \in Int /\ k \in Int /\ L \in Int
    BY <1>1
  <2>2. IsFiniteSet(1..k) /\ IsFiniteSet(1..L) /\ Cardinality(1..L) = IF 1 > L THEN 0 ELSE L - 1 + 1
    BY <2>1, FS_Interval
  <2> QED
    BY <1>1, <2>2
<1>3. IsFiniteSet(T) /\ Cardinality(T) \in Nat /\ T \in SUBSET (1..k) /\ k \in T
  <2>1. T \in SUBSET (1..k) /\ k \in T
    BY <1>1 DEF Taken
  <2> QED
    BY <1>2, <2>1, FS_Subset, FS_CardinalityType
<1>4. ASSUME NEW j \in T PROVE g[j] \in 1..L /\ queue[g[j]] = was[j] /\ j \in 1..Len(was)
  <2>1. j \in 1..Len(was) /\ was[j] \in seen
    BY <1>1 DEF Taken
  <2>2. was[j] \in Elems(queue)
    BY <2>1 DEF Elems
  <2>3. \E q \in 1..L : queue[q] = was[j]
    BY <2>2 DEF Elems
  <2> QED
    BY <2>1, <2>3
<1>5. g \in [T -> 1..L]
  BY <1>4
<1> HIDE DEF g, T, L
<1>6. ~ L < Cardinality(T)
  <2> SUFFICES ASSUME L < Cardinality(T) PROVE FALSE
    OBVIOUS
  <2>1. PICK x, y \in T : x # y /\ g[x] = g[y]
    BY <1>2, <1>3, <1>5, FS_PigeonHole
  <2>2. was[x] = was[y] /\ x \in 1..Len(was) /\ y \in 1..Len(was)
    BY <1>4, <2>1
  <2> QED
    BY <2>1, <2>2 DEF Once
<1>7. Cardinality(T) # 0
  BY <1>3, FS_EmptySet
<1>8. Cardinality(T) \in 1..L
  BY <1>1, <1>3, <1>6, <1>7
<1>9. ASSUME NEW j \in 1..(k - 1) PROVE Cardinality(Taken(was, seen, j)) < Cardinality(T)
  <2>1. \A i \in 1..j : i \in 1..k /\ i # k
    BY <1>1
  <2>2. Taken(was, seen, j) \in SUBSET (T \ {k})
    BY <2>1 DEF Taken, T
  <2>3. IsFiniteSet(T \ {k}) /\ Cardinality(T \ {k}) = Cardinality(T) - 1
    BY <1>3, FS_RemoveElement
  <2>4. /\ IsFiniteSet(Taken(was, seen, j)) /\ Cardinality(Taken(was, seen, j)) \in Nat
        /\ Cardinality(Taken(was, seen, j)) <= Cardinality(T \ {k})
    BY <2>2, <2>3, FS_Subset, FS_CardinalityType
  <2> QED
    BY <1>3, <2>3, <2>4
<1> QED
  BY <1>8, <1>9 DEF T, L

\* A merge keeps what this machine cannot see, in its place when nothing on the wire goes.
LEMMA MergeOrderIs ==
    ASSUME NEW i, NEW o \in Seq(Projects), Once(o), NEW was \in Seq(Projects), Once(was)
    PROVE  /\ Ros!MergeOrder(i, o, was) \in Seq(Projects) /\ Once(Ros!MergeOrder(i, o, was))
           /\ Elems(was) \ i \subseteq Elems(Ros!MergeOrder(i, o, was))
           /\ Elems(was) \subseteq Elems(Ros!MergeOrder(i, o, was)) =>
                 \A k \in 1..Len(was) : was[k] \notin i => Ros!MergeOrder(i, o, was)[k] = was[k]
<1> DEFINE mine == Ros!MyOrder(i, o)
           seen == i \cap Ros!ToSet(mine)
           queue == Ros!Filter(mine, Ros!ToSet(was))
           turn(k) == Cardinality(Taken(was, seen, k))
           laid == [k \in 1..Len(was) |-> IF was[k] \in seen THEN queue[turn(k)] ELSE was[k]]
           slots == Ros!Filter(laid, seen \cup (Projects \ i))
           rest == Ros!Filter(mine, Projects \ Ros!ToSet(slots))
<1>1. Ros!MergeOrder(i, o, was) = slots \o rest
  BY SameCount DEF Ros!MergeOrder, Taken
<1>2. mine \in Seq(Projects) /\ Once(mine) /\ Elems(mine) = i \cap Elems(o)
  BY FilterDoes DEF Ros!MyOrder
<1> HIDE DEF mine
<1>3. seen = Elems(mine) /\ seen \subseteq Projects
  BY <1>2, ElemsAre
<1>4. Ros!ToSet(was) = Elems(was) /\ Elems(was) \subseteq Projects
  BY ElemsAre
<1>5. queue \in Seq(Projects) /\ Once(queue) /\ Elems(queue) = seen \cap Elems(was)
  BY <1>2, <1>3, <1>4, FilterDoes
<1> HIDE DEF seen, queue
<1>6. ASSUME NEW k \in 1..Len(was), was[k] \in seen
      PROVE  /\ laid[k] = queue[turn(k)] /\ turn(k) \in 1..Len(queue) /\ laid[k] \in seen
             /\ \A j \in 1..(k - 1) : was[j] \in seen => turn(j) < turn(k)
  <2>1. turn(k) \in 1..Len(queue) /\ \A j \in 1..(k - 1) : was[j] \in seen => turn(j) < turn(k)
    BY <1>5, <1>6, TakesNext
  <2>2. laid[k] = queue[turn(k)]
    BY <1>6
  <2>3. queue[turn(k)] \in Elems(queue)
    BY <2>1 DEF Elems
  <2> QED
    BY <1>5, <2>1, <2>2, <2>3
<1>7. \A k \in 1..Len(was) : was[k] \notin seen => laid[k] = was[k]
  OBVIOUS
<1>8. Len(was) \in Nat /\ \A k \in 1..Len(was) : was[k] \in Projects
  BY LenProperties, ElementOfSeq
<1>9. laid \in Seq(Projects) /\ Len(laid) = Len(was)
  <2>1. laid \in [1..Len(was) -> Projects]
    <3>1. \A k \in 1..Len(was) : laid[k] \in Projects
      BY <1>3, <1>6, <1>7, <1>8
    <3>2. laid = [k \in 1..Len(was) |-> laid[k]]
      OBVIOUS
    <3> QED
      BY <3>1, <3>2
  <2>2. laid \in Seq(Projects)
    BY <1>8, <2>1, IsASeq
  <2>3. DOMAIN laid = 1..Len(was) /\ DOMAIN laid = 1..Len(laid) /\ Len(laid) \in Nat
    BY <2>1, <2>2, LenProperties
  <2> QED
    BY <1>8, <2>2, <2>3
<1> HIDE DEF laid
<1>10. Once(laid)
  <2>1. ASSUME NEW j \in 1..Len(was), NEW k \in 1..Len(was), j < k PROVE laid[j] # laid[k]
    <3>1. j \in 1..(k - 1) /\ j # k
      BY <1>8, <2>1
    <3>2. CASE was[j] \in seen /\ was[k] \in seen
      <4>1. /\ turn(j) < turn(k) /\ turn(j) \in 1..Len(queue) /\ turn(k) \in 1..Len(queue)
            /\ laid[j] = queue[turn(j)] /\ laid[k] = queue[turn(k)]
        BY <1>6, <3>1, <3>2
      <4>2. turn(j) # turn(k)
        BY <4>1
      <4> QED
        BY <1>5, <4>1, <4>2 DEF Once
    <3>3. CASE ~ (was[j] \in seen /\ was[k] \in seen)
      <4>1. was[j] # was[k]
        BY <3>1 DEF Once
      <4>2. (was[j] \in seen => laid[j] \in seen) /\ (was[k] \in seen => laid[k] \in seen)
        BY <1>6
      <4>3. (was[j] \notin seen => laid[j] = was[j]) /\ (was[k] \notin seen => laid[k] = was[k])
        BY <1>7
      <4> QED
        BY <3>3, <4>1, <4>2, <4>3
    <3> QED
      BY <3>2, <3>3
  <2>2. \A j, k \in 1..Len(was) : j < k \/ k < j \/ j = k
    BY <1>8
  <2> QED
    BY <1>9, <2>1, <2>2 DEF Once
<1>11. /\ slots \in Seq(Projects) /\ Once(slots) /\ Elems(slots) = (seen \cup (Projects \ i)) \cap Elems(laid)
       /\ Elems(laid) \subseteq seen \cup (Projects \ i) =>
             Len(slots) = Len(was) /\ \A k \in 1..Len(was) : slots[k] = laid[k]
  BY <1>9, <1>10, FilterDoes
<1> HIDE DEF slots
<1>12. rest \in Seq(Projects) /\ Once(rest) /\ Elems(rest) = Elems(mine) \ Elems(slots)
  BY <1>2, <1>3, <1>11, ElemsAre, FilterDoes
<1> HIDE DEF rest
<1>13. /\ slots \o rest \in Seq(Projects) /\ Elems(slots \o rest) = Elems(slots) \cup Elems(rest) /\ Once(slots \o rest)
       /\ \A k \in 1..Len(slots) : (slots \o rest)[k] = slots[k]
  <2>1. Elems(slots) \cap Elems(rest) = {}
    BY <1>12
  <2> QED
    BY <1>11, <1>12, <2>1, JoinedIs
<1>14. ASSUME NEW k \in 1..Len(was), was[k] \notin i PROVE laid[k] = was[k] /\ was[k] \in Elems(slots)
  <2>1. was[k] \notin seen
    BY <1>14 DEF seen
  <2>2. laid[k] = was[k] /\ was[k] \in Projects /\ was[k] \in Elems(laid)
    BY <1>7, <1>8, <1>9, <2>1 DEF Elems
  <2> QED
    BY <1>11, <1>14, <2>2
<1>15. ASSUME Elems(was) \subseteq Elems(slots \o rest), NEW k \in 1..Len(was), was[k] \notin i
       PROVE  (slots \o rest)[k] = was[k]
  <2>1. ASSUME NEW j \in 1..Len(was) PROVE laid[j] \in seen \cup (Projects \ i)
    <3>1. CASE was[j] \in seen
      BY <1>6, <3>1
    <3>2. CASE was[j] \notin seen
      <4>1. was[j] \in Elems(was)
        BY DEF Elems
      <4>2. was[j] \in Elems(slots) \cup Elems(rest)
        BY <1>13, <1>15, <4>1
      <4>3. was[j] \in Projects \ i
        BY <1>3, <1>11, <1>12, <3>2, <4>2
      <4> QED
        BY <1>7, <3>2, <4>3
    <3> QED
      BY <3>1, <3>2
  <2>2. Elems(laid) \subseteq seen \cup (Projects \ i)
    BY <1>9, <2>1 DEF Elems
  <2> QED
    BY <1>11, <1>13, <1>14, <1>15, <2>2
<1>16. Elems(was) \ i \subseteq Elems(slots \o rest)
  BY <1>13, <1>14 DEF Elems
<1> QED
  BY <1>1, <1>13, <1>15, <1>16

\* An order that comes in leaves the order here what it was, sorted.
LEMMA ApplyOrderIs ==
    ASSUME NEW i, NEW o \in Seq(Projects), Once(o), NEW w \in Seq(Projects), Once(w)
    PROVE  Ros!ApplyOrder(i, o, w) \in Seq(Projects) /\ Once(Ros!ApplyOrder(i, o, w))
<1> DEFINE ranked == i \cap Ros!ToSet(w)
           first == Ros!Filter(w, ranked \cap Ros!ToSet(o))
           then == Ros!Filter(o, Projects \ ranked)
<1>1. first \in Seq(Projects) /\ Once(first) /\ Elems(first) \subseteq ranked
  BY FilterDoes
<1>2. then \in Seq(Projects) /\ Once(then) /\ Elems(then) \cap ranked = {}
  BY FilterDoes
<1>3. Ros!ApplyOrder(i, o, w) = first \o then
  BY DEF Ros!ApplyOrder
<1> HIDE DEF first, then, ranked
<1>4. Elems(first) \cap Elems(then) = {}
  BY <1>1, <1>2
<1> QED
  BY <1>1, <1>2, <1>3, <1>4, JoinedIs

RosterInv ==
    /\ order \in Seq(Projects) /\ Once(order) /\ worder \in Seq(Projects) /\ Once(worder)
    /\ arrivals \in Nat
\* What a step here leaves on the wire, and what it reveals.
Carried ==
    /\ arrivals' = arrivals =>
        /\ wfavs \ ids' \subseteq wfavs'
        /\ (Ros!ToSet(worder) \subseteq Ros!ToSet(worder') =>
              \A k \in DOMAIN worder : worder[k] \notin ids' => worder'[k] = worder[k])
        /\ Ros!ToSet(worder) \ ids' \subseteq Ros!ToSet(worder')
    /\ ids' # ids => owedReveal' \cap Ros!InWire \subseteq owedReveal

LEMMA OrdersAre == ASSUME NEW o \in Ros!Orders PROVE o \in Seq(Projects) /\ Once(o)
<1>1. PICK n \in 0..3 : o \in [1..n -> Projects] /\ \A i, j \in 1..n : o[i] = o[j] => i = j
  BY DEF Ros!Orders
<1>2. n \in Nat
  OBVIOUS
<1>3. o \in Seq(Projects)
  BY <1>1, <1>2, IsASeq
<1>4. DOMAIN o = 1..n /\ DOMAIN o = 1..Len(o)
  BY <1>1, <1>3, LenProperties
<1> QED
  BY <1>1, <1>3, <1>4 DEF Once

LEMMA RosterStarts == Ros!Init => RosterInv
<1> SUFFICES ASSUME Ros!Init PROVE RosterInv
  OBVIOUS
<1>1. order \in Ros!Orders /\ worder = <<>> /\ arrivals = 0
  BY DEF Ros!Init
<1> QED
  BY <1>1, OrdersAre, NoElems DEF RosterInv

\* A step that leaves the wire, and the ids, as they were.
LEMMA StillCarried == ASSUME UNCHANGED <<ids, wfavs, worder>> PROVE Carried
BY DEF Carried

\* What the wire's order becomes by a merge here is carried through.
LEMMA OrderCarried ==
    ASSUME RosterInv, NEW i, NEW o \in Seq(Projects), Once(o), NEW w, w = worder \/ w = Ros!MergeOrder(i, o, worder)
    PROVE  /\ w \in Seq(Projects) /\ Once(w)
           /\ Ros!ToSet(worder) \ i \subseteq Ros!ToSet(w)
           /\ Ros!ToSet(worder) \subseteq Ros!ToSet(w) =>
                 \A k \in DOMAIN worder : worder[k] \notin i => w[k] = worder[k]
<1>1. worder \in Seq(Projects) /\ Once(worder) /\ DOMAIN worder = 1..Len(worder)
  BY LenProperties DEF RosterInv
<1>2. CASE w = worder
  BY <1>1, <1>2
<1>3. CASE w = Ros!MergeOrder(i, o, worder)
  <2>1. /\ w \in Seq(Projects) /\ Once(w) /\ Elems(worder) \ i \subseteq Elems(w)
        /\ Elems(worder) \subseteq Elems(w) => \A k \in 1..Len(worder) : worder[k] \notin i => w[k] = worder[k]
    BY <1>1, <1>3, MergeOrderIs
  <2>2. Ros!ToSet(worder) = Elems(worder) /\ Ros!ToSet(w) = Elems(w)
    BY <1>1, <2>1, ElemsAre
  <2> QED
    BY <1>1, <2>1, <2>2
<1> QED
  BY <1>2, <1>3

LEMMA EditedStep == ASSUME RosterInv, Ros!RosterEdited PROVE RosterInv' /\ Carried
<1>1. /\ wfavs' = Ros!MergeFavs(ids, favs, wfavs) /\ worder' = Ros!MergeOrder(ids, order, worder)
      /\ UNCHANGED <<ids, favs, order, edits, arrivals>>
  BY DEF Ros!RosterEdited
<1>2. /\ worder' \in Seq(Projects) /\ Once(worder')
      /\ Ros!ToSet(worder) \ ids \subseteq Ros!ToSet(worder')
      /\ Ros!ToSet(worder) \subseteq Ros!ToSet(worder') =>
            \A k \in DOMAIN worder : worder[k] \notin ids => worder'[k] = worder[k]
  BY <1>1, OrderCarried DEF RosterInv
<1>3. wfavs \ ids \subseteq wfavs'
  BY <1>1 DEF Ros!MergeFavs
<1>4. RosterInv'
  BY <1>1, <1>2 DEF RosterInv, Once
<1>5. Carried
  BY <1>1, <1>2, <1>3 DEF Carried
<1> QED
  BY <1>4, <1>5

LEMMA ResolvedStep == ASSUME RosterInv, NEW p, Ros!ResolveIds(p) PROVE RosterInv' /\ Carried
<1> DEFINE i == ids \cup {p}
           f == Ros!Landed(favs, p)
           o == Ros!ApplyOrder(i, order, worder)
           mf == Ros!MergeFavs(i, f, wfavs)
           mo == Ros!MergeOrder(i, o, worder)
           new == Ros!Revealed(Ros!Diff(wfavs, worder, mf, mo))
<1>1. /\ ids' = i /\ order' = o /\ wfavs' = (wfavs \ new) \cup (mf \cap new)
      /\ worder' = (IF "order" \in new THEN mo ELSE worder)
      /\ owedReveal' = owedReveal \cup new /\ arrivals' = arrivals
  BY DEF Ros!ResolveIds
<1>2. new \cap Ros!InWire = {}
  BY DEF Ros!Revealed
<1>3. wfavs \subseteq Ros!InWire
  BY DEF Ros!InWire
<1> HIDE DEF i, o, mf, mo, new
<1>4. wfavs \subseteq wfavs'
  BY <1>1, <1>2, <1>3
<1>5. o \in Seq(Projects) /\ Once(o)
  BY ApplyOrderIs DEF RosterInv, o
<1>6. worder' = worder \/ worder' = mo
  BY <1>1
<1>7. /\ worder' \in Seq(Projects) /\ Once(worder')
      /\ Ros!ToSet(worder) \ i \subseteq Ros!ToSet(worder')
      /\ Ros!ToSet(worder) \subseteq Ros!ToSet(worder') =>
            \A k \in DOMAIN worder : worder[k] \notin i => worder'[k] = worder[k]
  BY <1>5, <1>6, OrderCarried DEF mo
<1>8. RosterInv'
  BY <1>1, <1>5, <1>7 DEF RosterInv, Once
<1>9. Carried
  BY <1>1, <1>2, <1>4, <1>7 DEF Carried
<1> QED
  BY <1>8, <1>9

LEMMA RosterNext == RosterInv /\ [Ros!Next]_(Ros!rvars) => RosterInv' /\ (Carried \/ UNCHANGED Ros!rvars)
<1> SUFFICES ASSUME RosterInv, [Ros!Next]_(Ros!rvars) PROVE RosterInv' /\ (Carried \/ UNCHANGED Ros!rvars)
  OBVIOUS
<1>1. CASE Ros!RosterEdited
  BY <1>1, EditedStep
<1>2. ASSUME NEW p \in Projects, Ros!ResolveIds(p) PROVE RosterInv' /\ Carried
  BY <1>2, ResolvedStep
<1>3. ASSUME NEW p \in Projects, Ros!ToggleFavorite(p) PROVE RosterInv' /\ Carried
  <2>1. UNCHANGED <<ids, wfavs, worder, order, arrivals>>
    BY <1>3 DEF Ros!ToggleFavorite, Ros!Written
  <2> QED
    BY <2>1, StillCarried DEF RosterInv, Once
<1>4. ASSUME NEW o \in Ros!Orders, Ros!SetProjOrder(o) PROVE RosterInv' /\ Carried
  <2>1. order' = o /\ UNCHANGED <<ids, wfavs, worder, arrivals>>
    BY <1>4 DEF Ros!SetProjOrder, Ros!Written
  <2>2. o \in Seq(Projects) /\ Once(o)
    BY OrdersAre
  <2> QED
    BY <2>1, <2>2, StillCarried DEF RosterInv, Once
<1>5. ASSUME NEW k, Ros!Arrived(k) PROVE arrivals' \in Nat /\ Carried
  <2>1. arrivals' = arrivals + 1 /\ ids' = ids
    BY <1>5 DEF Ros!Arrived
  <2>2. arrivals' \in Nat /\ arrivals' # arrivals
    BY <2>1 DEF RosterInv
  <2> QED
    BY <2>1, <2>2 DEF Carried
<1>6. ASSUME NEW p \in Projects, NEW there \in BOOLEAN, Ros!ArriveFav(p, there) PROVE RosterInv' /\ Carried
  <2>1. Ros!Arrived(p) /\ UNCHANGED <<order, worder>>
    BY <1>6 DEF Ros!ArriveFav
  <2> QED
    BY <1>5, <2>1 DEF RosterInv, Once
<1>7. ASSUME NEW o \in Ros!Orders, Ros!ArriveOrder(o) PROVE RosterInv' /\ Carried
  <2>1. Ros!Arrived("order") /\ worder' = o /\ order' = Ros!ApplyOrder(ids, order, o)
    BY <1>7 DEF Ros!ArriveOrder
  <2>2. o \in Seq(Projects) /\ Once(o)
    BY OrdersAre
  <2>3. order' \in Seq(Projects) /\ Once(order')
    BY <2>1, <2>2, ApplyOrderIs DEF RosterInv
  <2> QED
    BY <1>5, <2>1, <2>2, <2>3 DEF RosterInv, Once
<1>8. CASE UNCHANGED Ros!rvars
  BY <1>8 DEF RosterInv, Once, Ros!rvars
<1> QED
  BY <1>1, <1>2, <1>3, <1>4, <1>6, <1>7, <1>8 DEF Ros!Next

\* No machine sends the absence of what it cannot see, and an id that resolves sends no entry the wire has already: for
\* any projects, edits and arrivals (mergeWire, rosterEdited, resolveIds).
THEOREM UnseenIsCarried == Ros!Spec => Ros!CarriedThrough
<1>1. RosterInv /\ RosterInv' /\ (Carried \/ UNCHANGED Ros!rvars) =>
        [ /\ arrivals' = arrivals =>
              /\ wfavs \ ids' \subseteq wfavs'
              /\ (Ros!ToSet(worder) \subseteq Ros!ToSet(worder') =>
                    \A k \in DOMAIN worder : worder[k] \notin ids' => worder'[k] = worder[k])
              /\ Ros!ToSet(worder) \ ids' \subseteq Ros!ToSet(worder')
          /\ ids' # ids => owedReveal' \cap Ros!InWire \subseteq owedReveal]_(Ros!rvars)
  BY DEF Carried
<1>2. Ros!Init => RosterInv
  BY RosterStarts
<1>3. RosterInv /\ [Ros!Next]_(Ros!rvars) => RosterInv' /\ (Carried \/ UNCHANGED Ros!rvars)
  BY RosterNext
<1> QED
  BY <1>1, <1>2, <1>3, PTL DEF Ros!Spec, Ros!CarriedThrough

===============================================================================
