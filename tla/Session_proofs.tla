----------------------------- MODULE Session_proofs -----------------------------
(***************************************************************************)
(* What the cockpit makes of a session: no held ask is stranded, the       *)
(* watchdog keeps its budget, and, told in order, it shows a session at    *)
(* rest and subagents at work for what they are; for any plans, calls,     *)
(* subagents and bounds.  Then the tasks of its project, for any tasks,    *)
(* dependencies and bounds.                                                *)
(***************************************************************************)
EXTENDS SessionAndTasks, FiniteSetTheorems, SequenceTheorems, TLAPS

Phases == {"idle", "thinking", "working", "done", "error", "ended"}
Queues == UNION {[1..n -> Calls] : n \in Nat}
ReviveT == [attempts : 0..Attempts, errAt : Nat, due : BOOLEAN, gaveUp : BOOLEAN, on : BOOLEAN]
UiT == [phase : Phases, recent : BOOLEAN, stale : BOOLEAN, queued : BOOLEAN, err : Nat, asks : Queues, note : BOOLEAN,
        revive : ReviveT, crew : [Agents -> {"no", "own", "inherited"}], fan : {"none", "fresh", "quiet", "dead"}]

HookEvents == {"SessionStart", "SessionEnd", "UserPromptSubmit", "PreToolUse", "PostToolUse", "Stop", "StopFailure",
               "Notification", "SubagentStart", "SubagentStop"}
StreamEvents == {"turn-started", "turn-completed", "activity-started", "activity-completed", "permission-resolved"}

\* What is told of: a call, a subagent, a failure by number, or a notification by kind.
MsgOk(m) ==
    /\ m.flag \in BOOLEAN
    /\ m.ev \in {"permission", "permission-resolved", "PreToolUse", "PostToolUse", "activity-started", "activity-completed"}
          => m.of \in Calls
    /\ m.ev \in {"SubagentStart", "SubagentStop"} => m.of \in Agents
    /\ m.ev = "StopFailure" \/ (m.ev = "turn-completed" /\ m.flag) => m.of \in Nat \ {0}
    /\ m.ev \in {"permission"} \cup IF Hooked THEN HookEvents ELSE StreamEvents
MsgT == [ev : {"permission"} \cup HookEvents \cup StreamEvents, of : Calls \cup Agents \cup Nat \cup {"idle_prompt", "permission_prompt"}, flag : BOOLEAN]

WireT == wire \in Seq(MsgT) /\ \A i \in DOMAIN wire : MsgOk(wire[i])

TypeInv ==
    /\ plan \in Plan
    /\ cc \in [busy : BOOLEAN, queued : BOOLEAN, cut : BOOLEAN, nudge : BOOLEAN]
    /\ call \in [Calls -> {"no", "run", "ask", "cli", "over", "cut"}]
    /\ agent \in [Agents -> {"no", "run", "over"}] /\ (~ Hooked => \A a \in Agents : agent[a] = "no")
    /\ WireT
    /\ held \subseteq Calls /\ answers \subseteq Calls \X {"allow", "deny", "terminal"} /\ typing \in Nat
    /\ ui \in UiT
    /\ streak \in Nat /\ turns \in Nat /\ fails \in Nat /\ lapses \in Nat

-----------------------------------------------------------------------------
(* Who is told of what by the messages w, when u is the record before them. *)

Last == Len(wire) + 1
OfCall(m) == m.ev \in {"PreToolUse", "PostToolUse", "activity-started", "activity-completed"}
ByMain(m) == OfCall(m) /\ Caller[m.of] = Main
Prompts(m) == m.ev \in {"UserPromptSubmit", "turn-started"}
Resets(m) == m.ev \in {"SessionStart", "SessionEnd"}
Settles(m) == m.ev \in {"SessionStart", "Stop", "StopFailure", "turn-completed"} \/ (m.ev = "Notification" /\ m.of = "idle_prompt")
Clears(m) == Settles(m) \/ m.ev = "SessionEnd"
Stirs(m) == Prompts(m) \/ ByMain(m) \/ m.ev = "SessionEnd"

\* The cockpit will know of a subagent when it comes to message n.
Forgets(m, a) == Resets(m) \/ (m.ev = "SubagentStop" /\ m.of = a)
Told(m, a) == m.ev = "SubagentStart" /\ m.of = a
OnCrew(u, a) == u.crew[a] # "no" /\ u.fan \in {"fresh", "quiet"}
Spared(w, a, i, n) == \A l \in i..(n - 1) : ~ Forgets(w[l], a)
Known(u, w, a, n) ==
    \/ OnCrew(u, a) /\ Spared(w, a, 1, n)
    \/ \E j \in 1..(n - 1) : Told(w[j], a) /\ Spared(w, a, j + 1, n)

\* It may show the agent working then, or have a prompt for queued.
Ends(m) == Clears(m) \/ Prompts(m)
WorkingAt(u, w, n) ==
    \/ u.phase = "working" /\ \A l \in 1..(n - 1) : ~ Ends(w[l])
    \/ \E j \in 1..(n - 1) : ByMain(w[j]) /\ \A l \in (j + 1)..(n - 1) : ~ Ends(w[l])
Enqueues(m) == m.ev = "UserPromptSubmit" /\ ~ m.flag
QueuedAt(u, w, n) ==
    \/ u.queued /\ \A l \in 1..(n - 1) : ~ Clears(w[l])
    \/ \E j \in 1..(n - 1) : /\ Enqueues(w[j]) /\ WorkingAt(u, w, j)
                             /\ \A l \in (j + 1)..(n - 1) : ~ Clears(w[l])

\* It will show a session at rest.
Moves(m) == Stirs(m) \/ Clears(m)
SettledUi(u) == u.phase \in {"idle", "done"} \/ (u.phase = "error" /\ u.err # 0)
SettlesAt(u, w, j) == Settles(w[j]) /\ (w[j].ev = "Stop" => ~ QueuedAt(u, w, j))
SettledAt(u, w, n) ==
    \/ SettledUi(u) /\ \A l \in 1..(n - 1) : ~ Moves(w[l])
    \/ \E j \in 1..(n - 1) : SettlesAt(u, w, j) /\ \A l \in (j + 1)..(n - 1) : ~ Moves(w[l])

\* Who makes a call is at work.
CallersWork == \A k \in Calls : call[k] \in {"run", "ask", "cli"} => Works(Caller[k])
CrewKnown ==
    /\ \A i \in DOMAIN wire : /\ wire[i].ev = "SubagentStop" => Known(ui, wire, wire[i].of, i)
                              /\ OfCall(wire[i]) /\ ~ ByMain(wire[i]) => Known(ui, wire, Caller[wire[i].of], i)
    /\ \A a \in Agents : agent[a] = "run" => Known(ui, wire, a, Last)
QueueKnown ==
    /\ cc.queued => cc.busy
    /\ ui.err # 0 => ~ ui.queued
    /\ ~ cc.cut => (WorkingAt(ui, wire, Last) => cc.busy) /\ (QueuedAt(ui, wire, Last) => cc.queued)
RestKnown == Rests => SettledAt(ui, wire, Last)
Streamed == ~ Hooked => ~ ui.queued /\ \A i \in DOMAIN wire : OfCall(wire[i]) => ByMain(wire[i])

AsksKnown ==
    ~ Hooked => \A k \in held : \A i \in DOMAIN wire : wire[i].ev = "permission-resolved" /\ wire[i].of = k =>
                    \E j \in DOMAIN wire : i < j /\ wire[j].ev = "permission" /\ wire[j].of = k
WithinBudget == streak <= ui.revive.attempts

Held == TypeInv /\ NoAskIsStranded /\ AsksKnown /\ WithinBudget

InOrder == plan.told # "lossy" => CallersWork /\ CrewKnown /\ QueueKnown /\ RestKnown /\ Streamed

-----------------------------------------------------------------------------
(* The queue of asks, and the helpers of the cockpit's record.              *)

LEMMA QueueIs ==
    ASSUME NEW q \in Queues
    PROVE  /\ Len(q) \in Nat /\ DOMAIN q = 1..Len(q) /\ q \in Seq(Calls) /\ q \in [1..Len(q) -> Calls]
<1>1. PICK n \in Nat : q \in [1..n -> Calls]
  BY DEF Queues
<1>2. q \in Seq(Calls) /\ Len(q) = n
  BY <1>1, SMT
<1> QED
  BY <1>1, <1>2

\* What is taken off the queue is K, and nothing else.
LEMMA WithoutIs ==
    ASSUME NEW u \in UiT, NEW K
    PROVE  /\ Without(u, K) \in UiT /\ Without(u, K) = [u EXCEPT !.asks = Without(u, K).asks]
           /\ Shown(u) \ K \subseteq Shown(Without(u, K))
<1> DEFINE left == {i \in DOMAIN u.asks : u.asks[i] \notin K}
           upTo(i) == {j \in left : j <= i}
           nth(n) == CHOOSE i \in left : Cardinality(upTo(i)) = n
           c == Cardinality(left)
           q == [n \in 1..c |-> u.asks[nth(n)]]
<1>1. Without(u, K) = [u EXCEPT !.asks = q]
  BY DEF Without
<1>2. u.asks \in Queues
  BY DEF UiT
<1>3. DOMAIN u.asks = 1..Len(u.asks) /\ Len(u.asks) \in Nat /\ u.asks \in [1..Len(u.asks) -> Calls]
  BY <1>2, QueueIs
<1>4. IsFiniteSet(left) /\ left \subseteq Nat
  <2>1. IsFiniteSet(1..Len(u.asks))
    BY <1>3, FS_Interval
  <2> QED
    BY <1>3, <2>1, FS_Subset
<1>5. c \in Nat
  BY <1>4, FS_CardinalityType
<1>6. ASSUME NEW i \in left
      PROVE  /\ IsFiniteSet(upTo(i)) /\ Cardinality(upTo(i)) \in 1..c
             /\ \A j \in left : i < j => Cardinality(upTo(i)) < Cardinality(upTo(j))
  <2>1. ASSUME NEW j \in left PROVE IsFiniteSet(upTo(j)) /\ Cardinality(upTo(j)) \in Nat /\ Cardinality(upTo(j)) <= c
    BY <1>4, FS_Subset, FS_CardinalityType
  <2>2. Cardinality(upTo(i)) # 0
    <3>1. i \in upTo(i)
      BY <1>4
    <3> QED
      BY <2>1, <3>1, FS_EmptySet
  <2>3. ASSUME NEW j \in left, i < j PROVE Cardinality(upTo(i)) < Cardinality(upTo(j))
    <3>1. upTo(i) \subseteq upTo(j) /\ j \in upTo(j) /\ j \notin upTo(i)
      BY <1>4, <2>3, SMT
    <3>2. Cardinality(upTo(i)) <= Cardinality(upTo(j)) /\ Cardinality(upTo(i)) # Cardinality(upTo(j))
      BY <2>1, <3>1, FS_Subset
    <3>3. Cardinality(upTo(i)) \in Nat /\ Cardinality(upTo(j)) \in Nat
      BY <2>1
    <3> HIDE DEF upTo
    <3> QED
      BY <3>2, <3>3, SMT
  <2>4. Cardinality(upTo(i)) \in 1..c
    <3>1. Cardinality(upTo(i)) \in Nat /\ Cardinality(upTo(i)) <= c
      BY <2>1
    <3> HIDE DEF upTo, c
    <3> QED
      BY <2>2, <3>1, <1>5, SMT
  <2> QED
    BY <2>1, <2>3, <2>4
<1> HIDE DEF upTo
<1>7. ASSUME NEW i \in left PROVE nth(Cardinality(upTo(i))) = i
  <2> DEFINE j == nth(Cardinality(upTo(i)))
  <2>1. j \in left /\ Cardinality(upTo(j)) = Cardinality(upTo(i))
    OBVIOUS
  <2>2. ~ (i < j) /\ ~ (j < i)
    <3>1. Cardinality(upTo(i)) \in 1..c
      BY <1>6
    <3>2. ~ (Cardinality(upTo(i)) < Cardinality(upTo(i)))
      <4>1. PICK n \in Nat : n = Cardinality(upTo(i))
        BY <3>1, <1>5, SMT
      <4> QED
        BY <4>1, SMT
    <3> HIDE DEF j
    <3> QED
      BY <1>6, <2>1, <3>2
  <2> HIDE DEF j
  <2>3. i \in Nat /\ j \in Nat
    BY <1>4, <2>1
  <2>4. j = i
    BY <2>2, <2>3, SMT
  <2> QED
    BY <2>4 DEF j
<1>8. ASSUME NEW n \in 1..c PROVE nth(n) \in left
  <2> DEFINE r == [i \in left |-> Cardinality(upTo(i))]
  <2>1. r \in [left -> 1..c]
    BY <1>6
  <2>2. \A i, j \in left : r[i] = r[j] => i = j
    <3>1. \A i \in left : nth(r[i]) = i
      BY <1>7
    <3> HIDE DEF nth, r
    <3> QED
      BY <3>1
  <2>3. r \in Injection(left, 1..c)
    BY <2>1, <2>2 DEF Injection, IsInjective
  <2>4. IsFiniteSet(1..c) /\ Cardinality(1..c) = c
    BY <1>5, FS_Interval
  <2> HIDE DEF r
  <2>5. r \in Surjection(left, 1..c)
    BY <2>3, <2>4, FS_Injection
  <2>6. \E i \in left : r[i] = n
    BY <2>5 DEF Surjection
  <2> QED
    BY <2>6 DEF r
<1>9. q \in [1..c -> Calls]
  BY <1>3, <1>8
<1> HIDE DEF nth, c
<1>10. q \in Queues
  BY <1>5, <1>9 DEF Queues
<1>11. [u EXCEPT !.asks = q] \in UiT
  BY <1>10 DEF UiT
<1>12. ASSUME NEW i \in DOMAIN u.asks, u.asks[i] \notin K
       PROVE  \E n \in DOMAIN q : q[n] = u.asks[i]
  <2>1. i \in left
    BY <1>12
  <2> HIDE DEF left
  <2> DEFINE n == Cardinality(upTo(i))
  <2>2. n \in 1..c /\ nth(n) = i
    BY <2>1, <1>6, <1>7 DEF c
  <2> HIDE DEF n
  <2> QED
    BY <2>2
<1> HIDE DEF left, q
<1>13. Without(u, K).asks = q
  BY <1>1 DEF UiT
<1> QED
  BY <1>1, <1>11, <1>12, <1>13 DEF Shown

LEMMA SetPhaseIs ==
    ASSUME NEW u \in UiT, NEW p \in Phases
    PROVE  LET v == SetPhase(u, p) IN
           /\ v \in UiT /\ v.phase = p
           /\ v.queued = u.queued /\ v.err = u.err /\ v.asks = u.asks
           /\ v.revive = u.revive /\ v.crew = u.crew /\ v.fan = u.fan
<1>1. CASE u.phase = p
  BY <1>1 DEF SetPhase
<1>2. CASE u.phase # p
  <2>1. SetPhase(u, p) = [u EXCEPT !.phase = p, !.recent = (p = "done"), !.stale = FALSE]
    BY <1>2 DEF SetPhase
  <2> QED
    BY <2>1 DEF UiT
<1> QED
  BY <1>1, <1>2

LEMMA ClearPermissionStateIs ==
    ASSUME NEW u \in UiT
    PROVE  LET v == ClearPermissionState(u) IN
           /\ v \in UiT /\ v.asks = <<>>
           /\ v.phase = u.phase /\ v.queued = u.queued /\ v.err = u.err
           /\ v.revive = u.revive /\ v.crew = u.crew /\ v.fan = u.fan
<1>1. <<>> \in Queues
  <2>1. 0 \in Nat /\ <<>> \in [1..0 -> Calls]
    OBVIOUS
  <2> QED
    BY <2>1 DEF Queues
<1> QED
  BY <1>1 DEF ClearPermissionState, UiT

LEMMA NoReviveIs == NoRevive \in ReviveT /\ NoRevive.attempts = 0
BY SessionAssumption DEF NoRevive, ReviveT

LEMMA EndTurnIs ==
    ASSUME NEW u \in UiT
    PROVE  LET v == EndTurn(u) IN
           /\ v \in UiT /\ v.err = u.err /\ v.asks = u.asks /\ v.crew = u.crew /\ v.fan = u.fan
           /\ v.phase = IF u.err # 0 THEN "error" ELSE IF u.queued THEN "thinking" ELSE "done"
           /\ v.queued = (u.queued /\ u.err # 0)
           /\ v.revive = IF u.err # 0 THEN u.revive ELSE NoRevive
<1>1. [u EXCEPT !.revive = NoRevive, !.queued = FALSE] \in UiT /\ [u EXCEPT !.revive = NoRevive] \in UiT
  BY NoReviveIs DEF UiT
<1>2. {"error", "thinking", "done"} \subseteq Phases
  BY DEF Phases
<1>3. CASE u.err # 0
  BY <1>2, <1>3, SetPhaseIs DEF EndTurn, UiT
<1>4. CASE u.err = 0 /\ u.queued
  <2> DEFINE w == [u EXCEPT !.revive = NoRevive, !.queued = FALSE]
  <2>1. w.queued = FALSE /\ w.err = u.err /\ w.asks = u.asks /\ w.revive = NoRevive /\ w.crew = u.crew /\ w.fan = u.fan
    BY DEF UiT
  <2>2. EndTurn(u) = SetPhase(w, "thinking") /\ w \in UiT
    BY <1>1, <1>4 DEF EndTurn
  <2> HIDE DEF w
  <2>3. LET v == SetPhase(w, "thinking") IN
        /\ v \in UiT /\ v.phase = "thinking" /\ v.queued = FALSE /\ v.err = u.err /\ v.asks = u.asks
        /\ v.revive = NoRevive /\ v.crew = u.crew /\ v.fan = u.fan
    BY <1>2, <2>1, <2>2, SetPhaseIs
  <2> QED
    BY <1>4, <2>2, <2>3
<1>5. CASE u.err = 0 /\ ~ u.queued
  <2> DEFINE w == [u EXCEPT !.revive = NoRevive]
  <2>1. w.queued = u.queued /\ w.err = u.err /\ w.asks = u.asks /\ w.revive = NoRevive /\ w.crew = u.crew /\ w.fan = u.fan
    BY DEF UiT
  <2>2. EndTurn(u) = SetPhase(w, "done")
    BY <1>5 DEF EndTurn
  <2>3. u.queued \in BOOLEAN /\ w \in UiT
    BY <1>1 DEF UiT
  <2> HIDE DEF w
  <2>4. LET v == SetPhase(w, "done") IN
        /\ v \in UiT /\ v.phase = "done" /\ v.queued = w.queued /\ v.err = w.err /\ v.asks = w.asks
        /\ v.revive = w.revive /\ v.crew = w.crew /\ v.fan = w.fan
    BY <1>2, <2>3, SetPhaseIs
  <2> QED
    BY <1>5, <2>1, <2>2, <2>3, <2>4
<1> QED
  BY <1>3, <1>4, <1>5

LEMMA NewTurnIs ==
    ASSUME NEW u \in UiT
    PROVE  NewTurn(u) \in UiT /\ NewTurn(u) = [u EXCEPT !.err = 0]
BY DEF NewTurn, UiT

LEMMA ShownInCalls == \A u \in UiT : Shown(u) \subseteq Calls
<1> TAKE u \in UiT
<1>1. u.asks \in Queues
  BY DEF UiT
<1> QED
  BY <1>1, QueueIs DEF Shown

LEMMA QueuePermissionIs ==
    ASSUME NEW u \in UiT, NEW k \in Calls
    PROVE  LET v == QueuePermission(u, k) IN
           /\ v \in UiT /\ Shown(u) \cup {k} \subseteq Shown(v)
           /\ v.phase = u.phase /\ v.queued = u.queued /\ v.err = u.err
           /\ v.revive = u.revive /\ v.crew = u.crew /\ v.fan = u.fan
<1> DEFINE q == IF k \in Shown(u) THEN u.asks ELSE Append(u.asks, k)
<1>1. u.asks \in Queues
  BY DEF UiT
<1>2. Len(u.asks) \in Nat /\ DOMAIN u.asks = 1..Len(u.asks) /\ u.asks \in Seq(Calls) /\ u.asks \in [1..Len(u.asks) -> Calls]
  BY <1>1, QueueIs
<1>3. /\ q \in Queues
      /\ \A i \in DOMAIN u.asks : i \in DOMAIN q /\ q[i] = u.asks[i]
      /\ \E i \in DOMAIN q : q[i] = k
  <2>1. CASE k \in Shown(u)
    BY <1>1, <2>1 DEF Shown
  <2>2. CASE k \notin Shown(u)
    <3>1. /\ q \in Seq(Calls) /\ Len(q) = Len(u.asks) + 1
          /\ \A i \in 1..Len(u.asks) : q[i] = u.asks[i]
          /\ q[Len(u.asks) + 1] = k
      BY <1>2, <2>2, AppendProperties
    <3> HIDE DEF q
    <3>2. Len(q) \in Nat /\ q \in [1..Len(q) -> Calls] /\ DOMAIN q = 1..Len(q)
      BY <3>1, SMT
    <3>3. q \in Queues
      BY <3>2 DEF Queues
    <3> QED
      BY <1>2, <3>1, <3>2, <3>3
  <2> QED
    BY <2>1, <2>2
<1>4. QueuePermission(u, k) = [u EXCEPT !.asks = q, !.note = FALSE]
  BY DEF QueuePermission
<1> HIDE DEF q
<1>5. QueuePermission(u, k) \in UiT /\ QueuePermission(u, k).asks = q
  BY <1>3, <1>4 DEF UiT
<1> QED
  BY <1>3, <1>4, <1>5 DEF Shown, UiT

LEMMA RemovePermissionIs ==
    ASSUME NEW u \in UiT, NEW k
    PROVE  LET v == RemovePermission(u, k) IN
           /\ v \in UiT /\ Shown(u) \ {k} \subseteq Shown(v)
           /\ v.phase = u.phase /\ v.queued = u.queued /\ v.err = u.err
           /\ v.revive = u.revive /\ v.crew = u.crew /\ v.fan = u.fan
<1> DEFINE w == Without(u, {k})
<1>1. w \in UiT /\ w = [u EXCEPT !.asks = w.asks] /\ Shown(u) \ {k} \subseteq Shown(w)
  BY WithoutIs
<1>2. RemovePermission(u, k) \in {w, [w EXCEPT !.note = FALSE]}
  BY DEF RemovePermission
<1> HIDE DEF w
<1>3. w.phase = u.phase /\ w.queued = u.queued /\ w.err = u.err /\ w.revive = u.revive /\ w.crew = u.crew /\ w.fan = u.fan
  BY <1>1 DEF UiT
<1>4. ASSUME NEW v \in {w, [w EXCEPT !.note = FALSE]}
      PROVE  /\ v \in UiT /\ v.asks = w.asks
             /\ v.phase = w.phase /\ v.queued = w.queued /\ v.err = w.err
             /\ v.revive = w.revive /\ v.crew = w.crew /\ v.fan = w.fan
  <2>1. w \in UiT
    BY <1>1
  <2>2. CASE v = w
    BY <2>1, <2>2
  <2>3. CASE v = [w EXCEPT !.note = FALSE]
    BY <2>1, <2>3 DEF UiT
  <2> QED
    BY <2>2, <2>3
<1>5. Shown(RemovePermission(u, k)) = Shown(w)
  BY <1>2, <1>4 DEF Shown
<1> QED
  BY <1>1, <1>2, <1>3, <1>4, <1>5

-----------------------------------------------------------------------------
(* The hooks, one lemma each: what is left of the record.                   *)

LEMMA HygieneIs ==
    ASSUME NEW u \in UiT
    PROVE  LET v == Hygiene(u) IN
           /\ v \in UiT /\ \A a \in Agents : OnCrew(u, a) => OnCrew(v, a)
           /\ v.phase = u.phase /\ v.queued = u.queued /\ v.err = u.err /\ v.asks = u.asks
           /\ v.revive = u.revive /\ v.fan = u.fan
<1>1. (\E a \in Agents : OnCrew(u, a)) => Hygiene(u) = u
  BY DEF Hygiene, LiveFanout, LiveCrew, OnCrew
<1>2. Hygiene(u) \in {u, [u EXCEPT !.crew = NoCrew]}
  BY DEF Hygiene
<1>3. CASE Hygiene(u) = u
  BY <1>3
<1>4. CASE Hygiene(u) = [u EXCEPT !.crew = NoCrew]
  <2>1. /\ Hygiene(u) \in UiT
        /\ LET v == [u EXCEPT !.crew = NoCrew] IN
           /\ v.phase = u.phase /\ v.queued = u.queued /\ v.err = u.err /\ v.asks = u.asks
           /\ v.revive = u.revive /\ v.fan = u.fan
    BY <1>4 DEF UiT, NoCrew
  <2> QED
    BY <1>1, <1>4, <2>1
<1> QED
  BY <1>2, <1>3, <1>4

LEMMA ResetReplIs ==
    ASSUME NEW u \in UiT, NEW p \in Phases
    PROVE  LET v == SetPhase(ResetRepl(u), p) IN
           v \in UiT /\ v.phase = p /\ v.err = 0 /\ ~ v.queued /\ v.revive = u.revive
<1> DEFINE w == NewTurn(ClearPermissionState(u))
<1>1. w \in UiT /\ w.err = 0 /\ w.revive = u.revive
  <2> DEFINE x == ClearPermissionState(u)
  <2>1. x \in UiT /\ x.revive = u.revive
    BY ClearPermissionStateIs
  <2>2. w = NewTurn(x)
    OBVIOUS
  <2> HIDE DEF x, w
  <2>3. w \in UiT /\ w = [x EXCEPT !.err = 0]
    BY <2>1, <2>2, NewTurnIs
  <2> QED
    BY <2>1, <2>3 DEF UiT
<1>2. ResetRepl(u) = [w EXCEPT !.crew = NoCrew, !.fan = "none", !.queued = FALSE]
  BY DEF ResetRepl
<1> HIDE DEF w
<1>3. NoCrew \in [Agents -> {"no", "own", "inherited"}]
  BY DEF NoCrew
<1>4. [w EXCEPT !.crew = NoCrew, !.fan = "none"] \in UiT
  BY <1>1, <1>3 DEF UiT
<1>5. ResetRepl(u) \in UiT
  BY <1>1, <1>2, <1>4 DEF UiT
<1>6. ResetRepl(u).err = 0 /\ ResetRepl(u).revive = u.revive /\ ResetRepl(u).queued = FALSE
  BY <1>1, <1>2 DEF UiT
<1>7. SetPhase(ResetRepl(u), p) \in UiT
  BY <1>5, SetPhaseIs
<1> QED
  BY <1>5, <1>6, <1>7, SetPhaseIs

LEMMA OnUserPromptSubmitIs ==
    ASSUME NEW u \in UiT, NEW notice \in BOOLEAN
    PROVE  LET v == OnUserPromptSubmit(u, notice) IN
           /\ v \in UiT /\ v.phase = "thinking" /\ v.err = 0
           /\ v.queued = (u.queued \/ (u.phase = "working" /\ ~ notice))
           /\ v.revive = u.revive /\ v.crew = u.crew /\ v.fan = u.fan
<1> DEFINE w == [u EXCEPT !.queued = @ \/ (u.phase = "working" /\ ~notice)]
           x == SetPhase(w, "thinking")
           y == ClearPermissionState(x)
<1>1. /\ w \in UiT /\ w.queued = (u.queued \/ (u.phase = "working" /\ ~notice))
      /\ w.revive = u.revive /\ w.crew = u.crew /\ w.fan = u.fan
  BY DEF UiT
<1>2. OnUserPromptSubmit(u, notice) = NewTurn(y)
  BY DEF OnUserPromptSubmit
<1> HIDE DEF w
<1>3. /\ x \in UiT /\ x.phase = "thinking" /\ x.queued = w.queued
      /\ x.revive = w.revive /\ x.crew = w.crew /\ x.fan = w.fan
  BY <1>1, SetPhaseIs DEF Phases
<1> HIDE DEF x
<1>4. /\ y \in UiT /\ y.phase = "thinking" /\ y.queued = x.queued
      /\ y.revive = x.revive /\ y.crew = x.crew /\ y.fan = x.fan
  BY <1>3, ClearPermissionStateIs
<1> HIDE DEF y
<1>5. /\ NewTurn(y) \in UiT /\ NewTurn(y).phase = y.phase /\ NewTurn(y).queued = y.queued /\ NewTurn(y).err = 0
      /\ NewTurn(y).revive = y.revive /\ NewTurn(y).crew = y.crew /\ NewTurn(y).fan = y.fan
  BY <1>4, NewTurnIs DEF UiT
<1> QED
  BY <1>1, <1>2, <1>3, <1>4, <1>5

LEMMA OnPreToolUseIs ==
    ASSUME NEW u \in UiT, NEW workflow \in BOOLEAN
    PROVE  LET v == OnPreToolUse(u, workflow) IN
           /\ v \in UiT /\ v.queued = u.queued /\ v.revive = u.revive
           /\ (v.phase = u.phase /\ v.err = u.err) \/ (v.phase = "working" /\ v.err = 0)
           /\ \A a \in Agents : OnCrew(u, a) => OnCrew(v, a) /\ v.phase = u.phase /\ v.err = u.err
<1> DEFINE w == IF workflow THEN StartFanout(u) ELSE u
           x == SetPhase(w, "working")
<1>1. /\ w \in UiT /\ w.phase = u.phase /\ w.err = u.err /\ w.queued = u.queued /\ w.revive = u.revive
      /\ \A a \in Agents : OnCrew(u, a) => OnCrew(w, a)
  BY DEF UiT, StartFanout, OnCrew
<1>2. OnPreToolUse(u, workflow) = IF Bg(w) THEN w ELSE NewTurn(x)
  BY DEF OnPreToolUse
<1>3. \A a \in Agents : OnCrew(w, a) => Bg(w)
  BY DEF OnCrew, Bg, LiveCrew
<1> HIDE DEF w
<1>4. /\ x \in UiT /\ x.phase = "working" /\ x.queued = w.queued /\ x.revive = w.revive
  BY <1>1, SetPhaseIs DEF Phases
<1> HIDE DEF x
<1>5. /\ NewTurn(x) \in UiT /\ NewTurn(x).phase = x.phase /\ NewTurn(x).queued = x.queued /\ NewTurn(x).err = 0
      /\ NewTurn(x).revive = x.revive
  BY <1>4, NewTurnIs DEF UiT
<1>6. CASE Bg(w)
  BY <1>1, <1>2, <1>6
<1>7. CASE ~ Bg(w)
  BY <1>1, <1>2, <1>3, <1>4, <1>5, <1>7
<1> QED
  BY <1>6, <1>7

LEMMA OnPostToolUseIs ==
    ASSUME NEW u \in UiT, NEW k, NEW ok \in BOOLEAN
    PROVE  LET v == OnPostToolUse(u, k, ok) IN
           /\ v \in UiT /\ v.queued = u.queued /\ v.err = u.err
           /\ v.revive = u.revive /\ v.crew = u.crew /\ v.fan = u.fan
           /\ \A a \in Agents : OnCrew(u, a) => v.phase = u.phase
<1> DEFINE w == ReleaseAnswered(u, k)
           x == SetPhase(w, IF ok THEN "working" ELSE "error")
<1>1. /\ w \in UiT /\ w.phase = u.phase /\ w.err = u.err /\ w.queued = u.queued
      /\ w.revive = u.revive /\ w.crew = u.crew /\ w.fan = u.fan
  <2> DEFINE z == Without(u, Matching(u, k))
  <2>1. z \in UiT /\ z = [u EXCEPT !.asks = z.asks]
    BY WithoutIs
  <2>2. w \in {u, [z EXCEPT !.note = FALSE]}
    BY DEF ReleaseAnswered
  <2> HIDE DEF z, w
  <2>3. /\ z.phase = u.phase /\ z.err = u.err /\ z.queued = u.queued
        /\ z.revive = u.revive /\ z.crew = u.crew /\ z.fan = u.fan
    BY <2>1 DEF UiT
  <2> QED
    BY <2>1, <2>2, <2>3 DEF UiT
<1>2. OnPostToolUse(u, k, ok) = IF Bg(w) THEN w ELSE x
  BY DEF OnPostToolUse
<1>3. \A a \in Agents : OnCrew(w, a) => Bg(w)
  BY DEF OnCrew, Bg, LiveCrew
<1>4. \A a \in Agents : OnCrew(u, a) => OnCrew(w, a)
  BY <1>1 DEF OnCrew
<1> HIDE DEF w
<1>5. /\ x \in UiT /\ x.queued = w.queued /\ x.err = w.err
      /\ x.revive = w.revive /\ x.crew = w.crew /\ x.fan = w.fan
  BY <1>1, SetPhaseIs DEF Phases
<1> QED
  BY <1>1, <1>2, <1>3, <1>4, <1>5

LEMMA OnStopIs ==
    ASSUME NEW u \in UiT
    PROVE  LET v == OnStop(u) IN
           /\ v \in UiT /\ v.err = u.err /\ v.crew = u.crew /\ v.fan = u.fan
           /\ v.phase = IF u.err # 0 THEN "error" ELSE IF u.queued THEN "thinking" ELSE "done"
           /\ v.queued = (u.queued /\ u.err # 0)
           /\ v.revive = IF u.err # 0 THEN u.revive ELSE NoRevive
<1> DEFINE w == EndTurn(u)
<1>1. /\ w \in UiT /\ w.err = u.err /\ w.crew = u.crew /\ w.fan = u.fan
      /\ w.phase = IF u.err # 0 THEN "error" ELSE IF u.queued THEN "thinking" ELSE "done"
      /\ w.queued = (u.queued /\ u.err # 0)
      /\ w.revive = IF u.err # 0 THEN u.revive ELSE NoRevive
  BY EndTurnIs
<1>2. OnStop(u) = ClearPermissionState(w)
  BY DEF OnStop
<1> HIDE DEF w
<1>3. LET v == ClearPermissionState(w) IN
      /\ v \in UiT /\ v.phase = w.phase /\ v.queued = w.queued /\ v.err = w.err
      /\ v.revive = w.revive /\ v.crew = w.crew /\ v.fan = w.fan
  BY <1>1, ClearPermissionStateIs
<1> QED
  BY <1>1, <1>2, <1>3

LEMMA OnStopFailureIs ==
    ASSUME NEW u \in UiT, NEW at \in Nat \ {0}
    PROVE  LET v == OnStopFailure(u, at) IN
           /\ v \in UiT /\ v.phase = "error" /\ v.err = at /\ ~ v.queued
           /\ v.revive = u.revive /\ v.crew = u.crew /\ v.fan = u.fan
<1> DEFINE w == [u EXCEPT !.err = at, !.queued = FALSE]
           x == SetPhase(w, "error")
<1>1. w \in UiT /\ w.err = at /\ w.queued = FALSE /\ w.revive = u.revive /\ w.crew = u.crew /\ w.fan = u.fan
  BY DEF UiT
<1>2. OnStopFailure(u, at) = ClearPermissionState(x)
  BY DEF OnStopFailure
<1> HIDE DEF w
<1>3. /\ x \in UiT /\ x.phase = "error" /\ x.err = w.err /\ x.queued = w.queued
      /\ x.revive = w.revive /\ x.crew = w.crew /\ x.fan = w.fan
  BY <1>1, SetPhaseIs DEF Phases
<1> HIDE DEF x
<1> QED
  BY <1>1, <1>2, <1>3, ClearPermissionStateIs

LEMMA OnNotificationIs ==
    ASSUME NEW u \in UiT, NEW kind
    PROVE  LET v == OnNotification(u, kind) IN
           /\ v \in UiT /\ v.err = u.err /\ v.crew = u.crew /\ v.fan = u.fan
           /\ v.revive = IF kind = "idle_prompt" /\ u.err = 0 THEN NoRevive ELSE u.revive
           /\ kind = "idle_prompt" => v.phase = (IF u.err # 0 THEN "error" ELSE "done") /\ ~ v.queued
           /\ kind # "idle_prompt" => v.phase = u.phase /\ v.queued = u.queued
<1>1. CASE kind = "idle_prompt"
  <2> DEFINE w == [u EXCEPT !.queued = FALSE]
  <2>1. w \in UiT /\ w.err = u.err /\ w.queued = FALSE /\ w.revive = u.revive /\ w.crew = u.crew /\ w.fan = u.fan
    BY DEF UiT
  <2>2. OnNotification(u, kind) = OnStop(w)
    BY <1>1 DEF OnNotification, OnStop
  <2> HIDE DEF w
  <2>3. LET v == OnStop(w) IN
        /\ v \in UiT /\ v.err = w.err /\ v.crew = w.crew /\ v.fan = w.fan
        /\ v.phase = IF w.err # 0 THEN "error" ELSE "done"
        /\ v.queued = FALSE
        /\ v.revive = IF w.err # 0 THEN w.revive ELSE NoRevive
    BY <2>1, OnStopIs
  <2> QED
    BY <1>1, <2>1, <2>2, <2>3
<1>2. CASE kind # "idle_prompt"
  <2>1. OnNotification(u, kind) = [u EXCEPT !.note = TRUE]
    BY <1>2 DEF OnNotification
  <2> QED
    BY <1>2, <2>1 DEF UiT
<1> QED
  BY <1>1, <1>2

LEMMA OnSubagentStartIs ==
    ASSUME NEW u \in UiT, NEW a \in Agents
    PROVE  LET v == OnSubagentStart(u, a) IN
           /\ v \in UiT /\ v.phase = u.phase /\ v.err = u.err /\ v.queued = u.queued /\ v.revive = u.revive
           /\ OnCrew(v, a) /\ \A b \in Agents : OnCrew(u, b) => OnCrew(v, b)
<1> DEFINE w == IF LiveFanout(u) THEN u ELSE [u EXCEPT !.fan = "none"]
<1>1. w \in UiT /\ w.phase = u.phase /\ w.err = u.err /\ w.queued = u.queued /\ w.revive = u.revive /\ w.crew = u.crew
  BY DEF UiT
<1>2. OnSubagentStart(u, a) = StartAgent(w, a)
  BY DEF OnSubagentStart
<1> HIDE DEF w
<1> DEFINE x == [w EXCEPT !.crew[a] = IF @ = "no" THEN "own" ELSE @]
<1>3. StartAgent(w, a) = [x EXCEPT !.fan = "fresh"]
  BY DEF StartAgent
<1>4. /\ x \in UiT /\ x.phase = w.phase /\ x.err = w.err /\ x.queued = w.queued /\ x.revive = w.revive
      /\ x.crew[a] # "no" /\ \A b \in Agents : w.crew[b] # "no" => x.crew[b] # "no"
  BY <1>1 DEF UiT
<1> HIDE DEF x
<1> QED
  BY <1>1, <1>2, <1>3, <1>4 DEF UiT, OnCrew

LEMMA OnSubagentStopIs ==
    ASSUME NEW u \in UiT, NEW a \in Agents
    PROVE  LET v == OnSubagentStop(u, a) IN
           /\ v \in UiT /\ v.phase = u.phase /\ v.err = u.err /\ v.queued = u.queued /\ v.revive = u.revive
           /\ OnCrew(u, a) => \A b \in Agents \ {a} : OnCrew(u, b) => OnCrew(v, b)
<1>1. PICK pick : StopAgent(u, a) = [u EXCEPT !.crew[pick] = "no"] /\ (u.crew[a] # "no" => pick = a)
  BY DEF StopAgent
<1> DEFINE w == StopAgent(u, a)
<1>2. /\ w \in UiT /\ w.phase = u.phase /\ w.err = u.err /\ w.queued = u.queued /\ w.revive = u.revive /\ w.fan = u.fan
      /\ OnCrew(u, a) => \A b \in Agents \ {a} : w.crew[b] = u.crew[b]
  BY <1>1 DEF UiT, OnCrew
<1>3. OnSubagentStop(u, a) = IF w.fan = "none" THEN w ELSE [w EXCEPT !.fan = "fresh"]
  BY DEF OnSubagentStop
<1> HIDE DEF w
<1> QED
  BY <1>2, <1>3 DEF UiT, OnCrew

-----------------------------------------------------------------------------
(* What the cockpit makes of a message.                                     *)

Hear(u, m) ==
    CASE m.ev = "permission" -> QueuePermission(u, m.of)
      [] m.ev # "permission" /\ Hooked -> ApplyHook(u, m)
      [] OTHER -> ApplyAgentEvent(u, m)

\* Its count of continues is cleared where the turn is heard to end well.
HeardCount(u, v, m) ==
    \/ v.revive = u.revive
    \/ /\ v.revive.attempts = 0 /\ u.err = 0
       /\ m.ev = "Stop" \/ (m.ev = "Notification" /\ m.of = "idle_prompt")

\* Told of a subagent's end, or of its calls, it knows of the subagent; the stream tells of none.
Expected(u, m) ==
    /\ u.err # 0 => ~ u.queued
    /\ ~ Hooked => ~ u.queued /\ (OfCall(m) => ByMain(m))
    /\ m.ev = "SubagentStop" => OnCrew(u, m.of)
    /\ OfCall(m) /\ ~ ByMain(m) => Caller[m.of] \in Agents /\ OnCrew(u, Caller[m.of])

\* It does not show more than it was told.
HeardTurn(u, v, m) ==
    /\ v.phase = "working" => ByMain(m) \/ (u.phase = "working" /\ ~ Ends(m))
    /\ v.queued => \/ Enqueues(m) /\ u.phase = "working"
                   \/ u.queued /\ ~ Clears(m)
    /\ v.err # 0 => ~ v.queued
    /\ Settles(m) /\ (m.ev = "Stop" => ~ u.queued) => SettledUi(v)
    /\ SettledUi(u) /\ ~ Moves(m) => SettledUi(v)

HeardCrew(u, v, m) ==
    /\ \A a \in Agents : OnCrew(u, a) /\ ~ Forgets(m, a) => OnCrew(v, a)
    /\ m.ev = "SubagentStart" => OnCrew(v, m.of)

LEMMA HookHeard ==
    ASSUME NEW u \in UiT, NEW m \in MsgT, MsgOk(m), m.ev \in HookEvents
    PROVE  LET v == ApplyHook(u, m) IN
           /\ v \in UiT /\ HeardCount(u, v, m)
           /\ Expected(u, m) => HeardTurn(u, v, m) /\ HeardCrew(u, v, m)
<1> DEFINE w == Hygiene(u)
           v == ApplyHook(u, m)
<1>1. /\ w \in UiT /\ \A a \in Agents : OnCrew(u, a) => OnCrew(w, a)
      /\ w.phase = u.phase /\ w.queued = u.queued /\ w.err = u.err
      /\ w.revive = u.revive
  BY HygieneIs
<1>2. m.flag \in BOOLEAN /\ u.queued \in BOOLEAN
  BY DEF MsgOk, UiT
<1>3. CASE m.ev = "SessionStart"
  <2>1. v = SetPhase(ResetRepl(w), "idle")
    BY <1>3 DEF ApplyHook, OnSessionStart
  <2> HIDE DEF v, w
  <2>2. v \in UiT /\ v.phase = "idle" /\ v.err = 0 /\ ~ v.queued /\ v.revive = w.revive
    BY <1>1, <2>1, ResetReplIs DEF Phases
  <2>3. HeardCount(u, v, m) /\ HeardTurn(u, v, m) /\ HeardCrew(u, v, m)
    BY <1>1, <1>3, <2>2 DEF HeardCount, HeardTurn, HeardCrew, Forgets, Resets, Moves, Clears, Settles, SettledUi
  <2> QED
    BY <2>2, <2>3 DEF v
<1>4. CASE m.ev = "SessionEnd"
  <2>1. v = SetPhase(ResetRepl(w), "ended")
    BY <1>4 DEF ApplyHook, OnSessionEnd
  <2> HIDE DEF v, w
  <2>2. v \in UiT /\ v.phase = "ended" /\ v.err = 0 /\ ~ v.queued /\ v.revive = w.revive
    BY <1>1, <2>1, ResetReplIs DEF Phases
  <2>3. HeardCount(u, v, m) /\ HeardTurn(u, v, m) /\ HeardCrew(u, v, m)
    BY <1>1, <1>4, <2>2 DEF HeardCount, HeardTurn, HeardCrew, Forgets, Resets, Moves, Clears, Settles, SettledUi
  <2> QED
    BY <2>2, <2>3 DEF v
<1>5. CASE m.ev = "UserPromptSubmit"
  <2>1. v = OnUserPromptSubmit(w, m.flag)
    BY <1>5 DEF ApplyHook
  <2> HIDE DEF v, w
  <2>2. /\ v \in UiT /\ v.phase = "thinking" /\ v.err = 0
        /\ v.queued = (w.queued \/ (w.phase = "working" /\ ~ m.flag))
        /\ v.revive = w.revive /\ v.crew = w.crew /\ v.fan = w.fan
    BY <1>1, <1>2, <2>1, OnUserPromptSubmitIs
  <2>3. HeardCount(u, v, m)
    BY <1>1, <2>2 DEF HeardCount
  <2>4. HeardTurn(u, v, m)
    BY <1>1, <1>5, <2>2 DEF HeardTurn, Enqueues, Moves, Stirs, Prompts, Clears, Settles
  <2>5. HeardCrew(u, v, m)
    BY <1>1, <1>5, <2>2 DEF HeardCrew, OnCrew
  <2> QED
    BY <2>2, <2>3, <2>4, <2>5 DEF v
<1>6. CASE m.ev = "PreToolUse"
  <2>1. v = OnPreToolUse(w, m.flag)
    BY <1>6 DEF ApplyHook
  <2> HIDE DEF v, w
  <2>2. /\ v \in UiT /\ v.queued = w.queued /\ v.revive = w.revive
        /\ (v.phase = w.phase /\ v.err = w.err) \/ (v.phase = "working" /\ v.err = 0)
        /\ \A a \in Agents : OnCrew(w, a) => OnCrew(v, a) /\ v.phase = w.phase /\ v.err = w.err
    BY <1>1, <1>2, <2>1, OnPreToolUseIs
  <2>3. HeardCount(u, v, m)
    BY <1>1, <2>2 DEF HeardCount
  <2>4. OfCall(m) /\ ~ Clears(m) /\ ~ Prompts(m)
    BY <1>6 DEF OfCall, Clears, Settles, Prompts
  <2>5. ASSUME Expected(u, m)
        PROVE  (v.phase = u.phase /\ v.err = u.err) \/ (ByMain(m) /\ v.phase = "working" /\ v.err = 0)
    BY <1>1, <2>2, <2>4, <2>5 DEF Expected
  <2>6. Expected(u, m) => HeardTurn(u, v, m)
    BY <1>1, <1>6, <2>2, <2>4, <2>5 DEF HeardTurn, Ends, Moves, Stirs, Clears, SettledUi, Expected
  <2>7. HeardCrew(u, v, m)
    BY <1>1, <1>6, <2>2 DEF HeardCrew
  <2> QED
    BY <2>2, <2>3, <2>6, <2>7 DEF v
<1>7. CASE m.ev = "PostToolUse"
  <2>1. v = OnPostToolUse(w, m.of, m.flag)
    BY <1>7 DEF ApplyHook
  <2> HIDE DEF v, w
  <2>2. /\ v \in UiT /\ v.queued = w.queued /\ v.err = w.err
        /\ v.revive = w.revive /\ v.crew = w.crew /\ v.fan = w.fan
        /\ \A a \in Agents : OnCrew(w, a) => v.phase = w.phase
    BY <1>1, <1>2, <2>1, OnPostToolUseIs
  <2>3. HeardCount(u, v, m)
    BY <1>1, <2>2 DEF HeardCount
  <2>4. OfCall(m) /\ ~ Clears(m) /\ ~ Prompts(m)
    BY <1>7 DEF OfCall, Clears, Settles, Prompts
  <2>5. ASSUME Expected(u, m)
        PROVE  v.phase = u.phase \/ ByMain(m)
    BY <1>1, <2>2, <2>4, <2>5 DEF Expected
  <2>6. Expected(u, m) => HeardTurn(u, v, m)
    BY <1>1, <1>7, <2>2, <2>4, <2>5 DEF HeardTurn, Ends, Moves, Stirs, Clears, SettledUi, Expected
  <2>7. HeardCrew(u, v, m)
    BY <1>1, <1>7, <2>2 DEF HeardCrew, OnCrew
  <2> QED
    BY <2>2, <2>3, <2>6, <2>7 DEF v
<1>8. CASE m.ev = "Stop"
  <2>1. v = OnStop(w)
    BY <1>8 DEF ApplyHook
  <2> HIDE DEF v, w
  <2>2. /\ v \in UiT /\ v.err = w.err /\ v.crew = w.crew /\ v.fan = w.fan
        /\ v.phase = IF w.err # 0 THEN "error" ELSE IF w.queued THEN "thinking" ELSE "done"
        /\ v.queued = (w.queued /\ w.err # 0)
        /\ v.revive = IF w.err # 0 THEN w.revive ELSE NoRevive
    BY <1>1, <2>1, OnStopIs
  <2>3. HeardCount(u, v, m)
    BY <1>1, <1>8, <2>2, NoReviveIs DEF HeardCount
  <2>4. Expected(u, m) => HeardTurn(u, v, m)
    BY <1>1, <1>8, <2>2 DEF HeardTurn, Moves, Clears, Settles, SettledUi, Expected
  <2>5. HeardCrew(u, v, m)
    BY <1>1, <1>8, <2>2 DEF HeardCrew, OnCrew
  <2> QED
    BY <2>2, <2>3, <2>4, <2>5 DEF v
<1>9. CASE m.ev = "StopFailure"
  <2>1. v = OnStopFailure(w, m.of) /\ m.of \in Nat \ {0}
    BY <1>9 DEF ApplyHook, MsgOk
  <2> HIDE DEF v, w
  <2>2. /\ v \in UiT /\ v.phase = "error" /\ v.err # 0 /\ ~ v.queued
        /\ v.revive = w.revive /\ v.crew = w.crew /\ v.fan = w.fan
    BY <1>1, <2>1, OnStopFailureIs
  <2>3. HeardCount(u, v, m) /\ HeardTurn(u, v, m) /\ HeardCrew(u, v, m)
    BY <1>1, <1>9, <2>2 DEF HeardCount, HeardTurn, HeardCrew, OnCrew, SettledUi
  <2> QED
    BY <2>2, <2>3 DEF v
<1>10. CASE m.ev = "Notification"
  <2>1. v = OnNotification(w, m.of)
    BY <1>10 DEF ApplyHook
  <2> HIDE DEF v, w
  <2>2. /\ v \in UiT /\ v.err = w.err /\ v.crew = w.crew /\ v.fan = w.fan
        /\ v.revive = IF m.of = "idle_prompt" /\ w.err = 0 THEN NoRevive ELSE w.revive
        /\ m.of = "idle_prompt" => v.phase = (IF w.err # 0 THEN "error" ELSE "done") /\ ~ v.queued
        /\ m.of # "idle_prompt" => v.phase = w.phase /\ v.queued = w.queued
    BY <1>1, <2>1, OnNotificationIs
  <2>3. HeardCount(u, v, m)
    BY <1>1, <1>10, <2>2, NoReviveIs DEF HeardCount
  <2>4. Expected(u, m) => HeardTurn(u, v, m)
    BY <1>1, <1>10, <2>2 DEF HeardTurn, Ends, Prompts, Moves, Clears, Settles, SettledUi, Expected
  <2>5. HeardCrew(u, v, m)
    BY <1>1, <1>10, <2>2 DEF HeardCrew, OnCrew
  <2> QED
    BY <2>2, <2>3, <2>4, <2>5 DEF v
<1>11. CASE m.ev = "SubagentStart"
  <2>1. v = OnSubagentStart(w, m.of) /\ m.of \in Agents
    BY <1>11 DEF ApplyHook, MsgOk
  <2> HIDE DEF v, w
  <2>2. /\ v \in UiT /\ v.phase = w.phase /\ v.err = w.err /\ v.queued = w.queued /\ v.revive = w.revive
        /\ OnCrew(v, m.of) /\ \A b \in Agents : OnCrew(w, b) => OnCrew(v, b)
    BY <1>1, <2>1, OnSubagentStartIs
  <2>3. HeardCount(u, v, m) /\ HeardCrew(u, v, m)
    BY <1>1, <2>2 DEF HeardCount, HeardCrew
  <2>4. Expected(u, m) => HeardTurn(u, v, m)
    BY <1>1, <1>11, <2>2 DEF HeardTurn, Ends, Prompts, Moves, Clears, Settles, SettledUi, Expected
  <2> QED
    BY <2>2, <2>3, <2>4 DEF v
<1>12. CASE m.ev = "SubagentStop"
  <2>1. v = OnSubagentStop(w, m.of) /\ m.of \in Agents
    BY <1>12 DEF ApplyHook, MsgOk
  <2> HIDE DEF v, w
  <2>2. /\ v \in UiT /\ v.phase = w.phase /\ v.err = w.err /\ v.queued = w.queued /\ v.revive = w.revive
        /\ OnCrew(w, m.of) => \A b \in Agents \ {m.of} : OnCrew(w, b) => OnCrew(v, b)
    BY <1>1, <2>1, OnSubagentStopIs
  <2>3. HeardCount(u, v, m)
    BY <1>1, <2>2 DEF HeardCount
  <2>4. Expected(u, m) => HeardTurn(u, v, m)
    BY <1>1, <1>12, <2>2 DEF HeardTurn, Ends, Prompts, Moves, Clears, Settles, SettledUi, Expected
  <2>5. Expected(u, m) => HeardCrew(u, v, m)
    BY <1>1, <1>12, <2>1, <2>2 DEF HeardCrew, Forgets, Expected
  <2> QED
    BY <2>2, <2>3, <2>4, <2>5 DEF v
<1> QED
  BY <1>3, <1>4, <1>5, <1>6, <1>7, <1>8, <1>9, <1>10, <1>11, <1>12 DEF HookEvents

LEMMA StreamHeard ==
    ASSUME NEW u \in UiT, NEW m \in MsgT, MsgOk(m), m.ev \in StreamEvents, ~ Hooked
    PROVE  LET v == ApplyAgentEvent(u, m) IN
           /\ v \in UiT /\ v.revive = u.revive /\ v.queued = u.queued
           /\ Expected(u, m) => HeardTurn(u, v, m) /\ HeardCrew(u, v, m)
           /\ m.ev = "permission-resolved" => Shown(u) \ {m.of} \subseteq Shown(v)
<1> DEFINE v == ApplyAgentEvent(u, m)
<1>1. CASE m.ev = "turn-started"
  <2> DEFINE w == ClearPermissionState(u)
  <2>1. w \in UiT /\ w.revive = u.revive /\ w.queued = u.queued /\ w.crew = u.crew /\ w.fan = u.fan
    BY ClearPermissionStateIs
  <2>2. v = SetPhase(NewTurn(w), "thinking")
    BY <1>1 DEF ApplyAgentEvent, BeginAgentTurn
  <2> HIDE DEF v, w
  <2>3. LET x == NewTurn(w) IN
        /\ x \in UiT /\ x.revive = w.revive /\ x.queued = w.queued /\ x.err = 0 /\ x.crew = w.crew /\ x.fan = w.fan
    BY <2>1, NewTurnIs DEF UiT
  <2>4. /\ v \in UiT /\ v.revive = u.revive /\ v.queued = u.queued /\ v.err = 0 /\ v.phase = "thinking"
        /\ v.crew = u.crew /\ v.fan = u.fan
    BY <2>1, <2>2, <2>3, SetPhaseIs DEF Phases
  <2>5. Expected(u, m) => HeardTurn(u, v, m)
    BY <1>1, <2>4 DEF Expected, HeardTurn, Moves, Stirs, Prompts, Clears, Settles
  <2>6. HeardCrew(u, v, m)
    BY <1>1, <2>4 DEF HeardCrew, OnCrew
  <2> QED
    BY <1>1, <2>4, <2>5, <2>6 DEF v
<1>2. CASE m.ev = "turn-completed"
  <2> DEFINE w == IF m.flag THEN [u EXCEPT !.err = m.of] ELSE u
             x == SetPhase(w, IF m.flag THEN "error" ELSE "done")
  <2>1. /\ w \in UiT /\ w.revive = u.revive /\ w.queued = u.queued /\ w.crew = u.crew /\ w.fan = u.fan
        /\ m.flag => w.err # 0
    BY <1>2 DEF UiT, MsgOk
  <2>2. v = ClearPermissionState(x)
    BY <1>2 DEF ApplyAgentEvent, FinishAgentTurn
  <2> HIDE DEF v, w
  <2>3. /\ x \in UiT /\ x.revive = w.revive /\ x.queued = w.queued /\ x.err = w.err /\ x.crew = w.crew /\ x.fan = w.fan
        /\ x.phase = IF m.flag THEN "error" ELSE "done"
    BY <2>1, SetPhaseIs DEF Phases
  <2> HIDE DEF x
  <2>4. /\ v \in UiT /\ v.revive = x.revive /\ v.queued = x.queued /\ v.err = x.err /\ v.phase = x.phase
        /\ v.crew = x.crew /\ v.fan = x.fan
    BY <2>2, <2>3, ClearPermissionStateIs
  <2>5. SettledUi(v) /\ v.phase # "working"
    BY <2>1, <2>3, <2>4 DEF SettledUi
  <2>6. Expected(u, m) => HeardTurn(u, v, m)
    BY <1>2, <2>1, <2>3, <2>4, <2>5 DEF Expected, HeardTurn
  <2>7. HeardCrew(u, v, m)
    BY <1>2, <2>1, <2>3, <2>4 DEF HeardCrew, OnCrew
  <2> QED
    BY <1>2, <2>1, <2>3, <2>4, <2>6, <2>7 DEF v
<1>3. CASE m.ev \in {"activity-started", "activity-completed"}
  <2>1. v \in {u, SetPhase(u, "working"), SetPhase(u, "error")}
    BY <1>3 DEF ApplyAgentEvent
  <2> HIDE DEF v
  <2>2. v \in UiT /\ v.revive = u.revive /\ v.queued = u.queued /\ v.err = u.err /\ v.crew = u.crew /\ v.fan = u.fan
    BY <2>1, SetPhaseIs DEF Phases
  <2>3. OfCall(m) /\ ~ Settles(m) /\ (ByMain(m) => Moves(m))
    BY <1>3 DEF OfCall, Settles, Moves, Stirs
  <2>4. Expected(u, m) => HeardTurn(u, v, m)
    BY <2>2, <2>3 DEF Expected, HeardTurn
  <2>5. HeardCrew(u, v, m)
    BY <1>3, <2>2 DEF HeardCrew, OnCrew
  <2> QED
    BY <1>3, <2>2, <2>4, <2>5 DEF v
<1>4. CASE m.ev = "permission-resolved"
  <2>1. v = RemovePermission(u, m.of)
    BY <1>4 DEF ApplyAgentEvent
  <2> HIDE DEF v
  <2>2. /\ v \in UiT /\ v.revive = u.revive /\ v.queued = u.queued /\ v.phase = u.phase /\ v.err = u.err
        /\ v.crew = u.crew /\ v.fan = u.fan
        /\ Shown(u) \ {m.of} \subseteq Shown(v)
    BY <2>1, RemovePermissionIs
  <2>3. Expected(u, m) => HeardTurn(u, v, m)
    BY <1>4, <2>2 DEF Expected, HeardTurn, Ends, Clears, Prompts, Settles, SettledUi
  <2>4. HeardCrew(u, v, m)
    BY <1>4, <2>2 DEF HeardCrew, OnCrew
  <2> QED
    BY <2>2, <2>3, <2>4 DEF v
<1> QED
  BY <1>1, <1>2, <1>3, <1>4 DEF StreamEvents

\* Whatever it hears, its record is a record, and no continue is forgotten before a turn ends well.
LEMMA HearIs ==
    ASSUME NEW u \in UiT, NEW m \in MsgT, MsgOk(m)
    PROVE  /\ Hear(u, m) \in UiT /\ HeardCount(u, Hear(u, m), m)
           /\ m.ev = "permission" => m.of \in Shown(Hear(u, m))
           /\ m.ev = "permission-resolved" => Shown(u) \ {m.of} \subseteq Shown(Hear(u, m))
           /\ Expected(u, m) => HeardTurn(u, Hear(u, m), m) /\ HeardCrew(u, Hear(u, m), m)
           /\ ~ Hooked => Hear(u, m).queued = u.queued
<1> DEFINE v == Hear(u, m)
<1>1. CASE m.ev = "permission"
  <2>1. v = QueuePermission(u, m.of) /\ m.of \in Calls
    BY <1>1 DEF Hear, MsgOk
  <2> HIDE DEF v
  <2>2. /\ v \in UiT /\ m.of \in Shown(v)
        /\ v.phase = u.phase /\ v.queued = u.queued /\ v.err = u.err
        /\ v.revive = u.revive /\ v.crew = u.crew /\ v.fan = u.fan
    BY <2>1, QueuePermissionIs
  <2>3. HeardCount(u, v, m) /\ HeardCrew(u, v, m) /\ ~ Settles(m) /\ (SettledUi(u) => SettledUi(v))
    BY <1>1, <2>2 DEF HeardCount, HeardCrew, OnCrew, Settles, SettledUi
  <2>4. Expected(u, m) => HeardTurn(u, v, m)
    BY <1>1, <2>2, <2>3 DEF HeardTurn, Expected, Ends, Clears, Prompts
  <2> QED
    BY <1>1, <2>2, <2>3, <2>4 DEF v
<1>2. CASE m.ev # "permission" /\ Hooked
  <2>1. v = ApplyHook(u, m) /\ m.ev \in HookEvents
    BY <1>2 DEF Hear, MsgOk
  <2>2. m.ev # "permission-resolved"
    BY <2>1 DEF HookEvents
  <2> HIDE DEF v
  <2> QED
    BY <1>2, <2>1, <2>2, HookHeard DEF v
<1>3. CASE m.ev # "permission" /\ ~ Hooked
  <2>1. v = ApplyAgentEvent(u, m) /\ m.ev \in StreamEvents
    BY <1>3 DEF Hear, MsgOk
  <2> HIDE DEF v
  <2>2. /\ v \in UiT /\ v.revive = u.revive /\ v.queued = u.queued
        /\ Expected(u, m) => HeardTurn(u, v, m) /\ HeardCrew(u, v, m)
        /\ m.ev = "permission-resolved" => Shown(u) \ {m.of} \subseteq Shown(v)
    BY <1>3, <2>1, StreamHeard
  <2>3. HeardCount(u, v, m)
    BY <2>2 DEF HeardCount
  <2> QED
    BY <1>3, <2>2, <2>3 DEF v
<1> QED
  BY <1>1, <1>2, <1>3

-----------------------------------------------------------------------------
(* The wire.                                                                *)

LEMMA WireIs ==
    ASSUME WireT
    PROVE  Len(wire) \in Nat /\ DOMAIN wire = 1..Len(wire) /\ Last = Len(wire) + 1
BY DEF WireT, Last

LEMMA WithoutMsgIs ==
    ASSUME WireT, NEW i \in DOMAIN wire
    PROVE  LET w == WithoutMsg(i) IN
           /\ w \in Seq(MsgT) /\ Len(w) = Len(wire) - 1 /\ DOMAIN w = 1..(Len(wire) - 1)
           /\ \A l \in 1..(Len(wire) - 1) : w[l] = IF l < i THEN wire[l] ELSE wire[l + 1]
<1> DEFINE a == SubSeq(wire, 1, i - 1)
           b == SubSeq(wire, i + 1, Len(wire))
<1>1. wire \in Seq(MsgT) /\ Len(wire) \in Nat /\ i \in 1..Len(wire) /\ \A l \in 1..Len(wire) : wire[l] \in MsgT
  BY DEF WireT
<1>2. a \in Seq(MsgT) /\ Len(a) = i - 1 /\ \A l \in 1..(i - 1) : a[l] = wire[l]
  BY <1>1, SMT
<1>3. b \in Seq(MsgT) /\ Len(b) = Len(wire) - i /\ \A l \in 1..(Len(wire) - i) : b[l] = wire[l + i]
  BY <1>1, SMT
<1> HIDE DEF a, b
<1>4. WithoutMsg(i) = a \o b
  BY DEF WithoutMsg, a, b
<1>5. /\ a \o b \in Seq(MsgT) /\ Len(a \o b) = Len(a) + Len(b)
      /\ \A l \in 1..(Len(a) + Len(b)) : (a \o b)[l] = IF l <= Len(a) THEN a[l] ELSE b[l - Len(a)]
  BY <1>2, <1>3, ConcatProperties
<1>6. ASSUME NEW l \in 1..(Len(wire) - 1)
      PROVE  (a \o b)[l] = IF l < i THEN wire[l] ELSE wire[l + 1]
  <2>0. \A j \in 1..(i - 1 + (Len(wire) - i)) : (a \o b)[j] = IF j <= i - 1 THEN a[j] ELSE b[j - (i - 1)]
    BY <1>2, <1>3, <1>5
  <2>1. CASE l < i
    <3>1. l \in 1..(i - 1 + (Len(wire) - i)) /\ l <= i - 1 /\ l \in 1..(i - 1)
      BY <1>1, <2>1
    <3> QED
      BY <1>2, <2>0, <2>1, <3>1
  <2>2. CASE ~ (l < i)
    <3>1. l - (i - 1) \in 1..(Len(wire) - i) /\ l \in 1..(i - 1 + (Len(wire) - i)) /\ ~ (l <= i - 1)
      BY <1>1, <2>2
    <3>2. (a \o b)[l] = b[l - (i - 1)]
      BY <2>0, <3>1
    <3>3. b[l - (i - 1)] = wire[l - (i - 1) + i]
      BY <1>3, <3>1
    <3>4. l - (i - 1) + i = l + 1
      BY <1>1
    <3> QED
      BY <2>2, <3>2, <3>3, <3>4
  <2> QED
    BY <2>1, <2>2
<1>7. Len(a \o b) = Len(wire) - 1
  BY <1>1, <1>2, <1>3, <1>5
<1> QED
  BY <1>4, <1>5, <1>6, <1>7

LEMMA PostIs ==
    ASSUME WireT, NEW ms \in Seq(MsgT), Post(ms)
    PROVE  /\ wire' \in Seq(MsgT) /\ Len(wire') = Len(wire) + Len(ms)
           /\ \A l \in 1..Len(wire) : wire'[l] = wire[l]
           /\ \A l \in 1..Len(ms) : wire'[Len(wire) + l] = ms[l]
BY WireIs, ConcatProperties DEF Post, WireT

LEMMA PostOne ==
    ASSUME WireT, plan' = plan, NEW m \in MsgT, MsgOk(m), Post(<<m>>)
    PROVE  /\ WireT' /\ Len(wire') = Len(wire) + 1
           /\ \A l \in 1..Len(wire) : wire'[l] = wire[l]
           /\ wire'[Len(wire) + 1] = m
<1>1. <<m>> \in Seq(MsgT) /\ Len(<<m>>) = 1 /\ <<m>>[1] = m
  OBVIOUS
<1> DEFINE ms == <<m>>
<1>2. Post(ms)
  OBVIOUS
<1> HIDE DEF ms
<1>3. /\ wire' \in Seq(MsgT) /\ Len(wire') = Len(wire) + Len(ms)
      /\ \A l \in 1..Len(wire) : wire'[l] = wire[l]
      /\ \A l \in 1..Len(ms) : wire'[Len(wire) + l] = ms[l]
  BY <1>1, <1>2, PostIs DEF ms
<1>4. /\ Len(wire') = Len(wire) + 1 /\ wire'[Len(wire) + 1] = m
  BY <1>1, <1>3 DEF ms
<1>5. Len(wire) \in Nat /\ DOMAIN wire = 1..Len(wire) /\ DOMAIN wire' = 1..(Len(wire) + 1)
  BY <1>3, <1>4, WireIs
<1>6. ASSUME NEW i \in DOMAIN wire' PROVE MsgOk(wire[i])'
  <2>1. MsgOk(wire'[i])
    BY <1>3, <1>4, <1>5 DEF WireT
  <2> QED
    BY <2>1 DEF MsgOk, Hooked
<1> QED
  BY <1>3, <1>4, <1>6 DEF WireT

\* One more message on the wire.
Sends(ev, of, flag) ==
    \E m \in MsgT : /\ m.ev = ev /\ m.of = of /\ m.flag = flag /\ MsgOk(m)
                    /\ WireT' /\ Len(wire') = Len(wire) + 1
                    /\ \A l \in 1..Len(wire) : wire'[l] = wire[l]
                    /\ wire'[Len(wire) + 1] = m

-----------------------------------------------------------------------------
(* Type correctness, and what each step of the agent's sends.               *)

LEMMA CutIs ==
    ASSUME TypeInv, NEW C
    PROVE  /\ CallsCut(C) \in [Calls -> {"no", "run", "ask", "cli", "over", "cut"}]
           /\ AgentsCut \in [Agents -> {"no", "run", "over"}]
           /\ ~ Hooked => \A a \in Agents : AgentsCut[a] = "no"
BY DEF TypeInv, CallsCut, AgentsCut

LEMMA TypeSends ==
    ASSUME TypeInv, Type
    PROVE  TypeInv' /\ Sends(IF Hooked THEN "UserPromptSubmit" ELSE "turn-started", 0, FALSE)
<1> DEFINE m == Msg(IF Hooked THEN "UserPromptSubmit" ELSE "turn-started", 0, FALSE)
<1>1. m \in MsgT /\ m.ev = (IF Hooked THEN "UserPromptSubmit" ELSE "turn-started") /\ m.of = 0 /\ m.flag = (FALSE)
  BY DEF Msg, MsgT, HookEvents, StreamEvents
<1>2. Post(<<m>>) /\ plan' = plan
  BY DEF Type, Submit
<1> HIDE DEF m
<1>3. MsgOk(m)
  BY <1>1, <1>2 DEF MsgOk, HookEvents, StreamEvents, Type, Submit
<1>4. WireT' /\ Sends(IF Hooked THEN "UserPromptSubmit" ELSE "turn-started", 0, FALSE)
  BY <1>1, <1>2, <1>3, PostOne DEF TypeInv, Sends
<1>6. cc' \in [busy : BOOLEAN, queued : BOOLEAN, cut : BOOLEAN, nudge : BOOLEAN]
  BY DEF TypeInv, Type, Prompted
<1>5. TypeInv'
  BY <1>4, <1>6 DEF TypeInv, Hooked, Type, Prompted
<1> QED
  BY <1>4, <1>5

LEMMA NoticeSends ==
    ASSUME TypeInv, Notice
    PROVE  TypeInv' /\ Sends("UserPromptSubmit", 0, TRUE)
<1> DEFINE m == Msg("UserPromptSubmit", 0, TRUE)
<1>1. m \in MsgT /\ m.ev = ("UserPromptSubmit") /\ m.of = 0 /\ m.flag = (TRUE)
  BY DEF Msg, MsgT, HookEvents, StreamEvents
<1>2. Post(<<m>>) /\ plan' = plan
  BY DEF Notice, Submit
<1> HIDE DEF m
<1>3. MsgOk(m)
  BY <1>1, <1>2 DEF MsgOk, HookEvents, StreamEvents, Notice, Submit
<1>4. WireT' /\ Sends("UserPromptSubmit", 0, TRUE)
  BY <1>1, <1>2, <1>3, PostOne DEF TypeInv, Sends
<1>5. TypeInv'
  BY <1>4 DEF TypeInv, Hooked, Notice
<1> QED
  BY <1>4, <1>5

LEMMA EndOfTurnSends ==
    ASSUME TypeInv, EndOfTurn
    PROVE  TypeInv' /\ Sends(IF Hooked THEN "Stop" ELSE "turn-completed", 0, FALSE)
<1> DEFINE m == Msg(IF Hooked THEN "Stop" ELSE "turn-completed", 0, FALSE)
<1>1. m \in MsgT /\ m.ev = (IF Hooked THEN "Stop" ELSE "turn-completed") /\ m.of = 0 /\ m.flag = (FALSE)
  BY DEF Msg, MsgT, HookEvents, StreamEvents
<1>2. Post(<<m>>) /\ plan' = plan
  BY DEF EndOfTurn
<1> HIDE DEF m
<1>3. MsgOk(m)
  BY <1>1, <1>2 DEF MsgOk, HookEvents, StreamEvents, EndOfTurn
<1>4. WireT' /\ Sends(IF Hooked THEN "Stop" ELSE "turn-completed", 0, FALSE)
  BY <1>1, <1>2, <1>3, PostOne DEF TypeInv, Sends
<1>5. TypeInv'
  BY <1>4 DEF TypeInv, Hooked, EndOfTurn, bounds
<1> QED
  BY <1>4, <1>5

LEMMA ApiFailureSends ==
    ASSUME TypeInv, NEW agents \in BOOLEAN, ApiFailure(agents)
    PROVE  TypeInv' /\ Sends(IF Hooked THEN "StopFailure" ELSE "turn-completed", fails + 1, ~ Hooked)
<1> DEFINE m == Msg(IF Hooked THEN "StopFailure" ELSE "turn-completed", fails + 1, ~ Hooked)
<1>1. m \in MsgT /\ m.ev = (IF Hooked THEN "StopFailure" ELSE "turn-completed") /\ m.of = fails + 1 /\ m.flag = (~ Hooked)
  BY DEF TypeInv, Msg, MsgT, HookEvents, StreamEvents
<1>2. Post(<<m>>) /\ plan' = plan
  BY DEF ApiFailure
<1> HIDE DEF m
<1>3. MsgOk(m)
  BY <1>1, <1>2 DEF TypeInv, MsgOk, HookEvents, StreamEvents, ApiFailure
<1>4. WireT' /\ Sends(IF Hooked THEN "StopFailure" ELSE "turn-completed", fails + 1, ~ Hooked)
  BY <1>1, <1>2, <1>3, PostOne DEF TypeInv, Sends
<1>5. /\ agent' \in [Agents -> {"no", "run", "over"}] /\ (~ Hooked => \A a \in Agents : agent'[a] = "no")
      /\ call' \in [Calls -> {"no", "run", "ask", "cli", "over", "cut"}]
  <2>1. CASE agents
    BY <2>1, CutIs DEF ApiFailure
  <2>2. CASE ~ agents
    BY <2>2 DEF ApiFailure, TypeInv
  <2> QED
    BY <2>1, <2>2
<1>6. TypeInv'
  <2>1. /\ plan' = plan /\ cc' = [cc EXCEPT !.busy = FALSE, !.queued = FALSE, !.nudge = TRUE] /\ fails' = fails + 1
        /\ UNCHANGED <<held, answers, typing, ui, streak, turns, lapses>>
    BY DEF ApiFailure
  <2>2. cc' \in [busy : BOOLEAN, queued : BOOLEAN, cut : BOOLEAN, nudge : BOOLEAN] /\ fails' \in Nat
    <3>1. cc \in [busy : BOOLEAN, queued : BOOLEAN, cut : BOOLEAN, nudge : BOOLEAN] /\ fails \in Nat
      BY DEF TypeInv
    <3>2. fails' \in Nat
      BY <2>1, <3>1
    <3>3. cc' \in [busy : BOOLEAN, queued : BOOLEAN, cut : BOOLEAN, nudge : BOOLEAN]
      BY <2>1, <3>1
    <3> QED
      BY <3>2, <3>3
  <2>3. UNCHANGED <<plan, held, answers, typing, ui, streak, turns, lapses>>
    BY <2>1
  <2> QED
    BY <1>4, <1>5, <2>2, <2>3 DEF TypeInv, Hooked
<1> QED
  BY <1>4, <1>6

LEMMA IdleNudgeSends ==
    ASSUME TypeInv, IdleNudge
    PROVE  TypeInv' /\ Sends("Notification", "idle_prompt", FALSE)
<1> DEFINE m == Msg("Notification", "idle_prompt", FALSE)
<1>1. m \in MsgT /\ m.ev = ("Notification") /\ m.of = "idle_prompt" /\ m.flag = (FALSE)
  BY DEF Msg, MsgT, HookEvents, StreamEvents
<1>2. Post(<<m>>) /\ plan' = plan
  BY DEF IdleNudge
<1> HIDE DEF m
<1>3. MsgOk(m)
  BY <1>1, <1>2 DEF MsgOk, HookEvents, StreamEvents, IdleNudge
<1>4. WireT' /\ Sends("Notification", "idle_prompt", FALSE)
  BY <1>1, <1>2, <1>3, PostOne DEF TypeInv, Sends
<1>5. TypeInv'
  BY <1>4 DEF TypeInv, Hooked, IdleNudge, bounds
<1> QED
  BY <1>4, <1>5

LEMMA AskNudgeSends ==
    ASSUME TypeInv, AskNudge
    PROVE  TypeInv' /\ Sends("Notification", "permission_prompt", FALSE)
<1> DEFINE m == Msg("Notification", "permission_prompt", FALSE)
<1>1. m \in MsgT /\ m.ev = ("Notification") /\ m.of = "permission_prompt" /\ m.flag = (FALSE)
  BY DEF Msg, MsgT, HookEvents, StreamEvents
<1>2. Post(<<m>>) /\ plan' = plan
  BY DEF AskNudge
<1> HIDE DEF m
<1>3. MsgOk(m)
  BY <1>1, <1>2 DEF MsgOk, HookEvents, StreamEvents, AskNudge
<1>4. WireT' /\ Sends("Notification", "permission_prompt", FALSE)
  BY <1>1, <1>2, <1>3, PostOne DEF TypeInv, Sends
<1>5. TypeInv'
  BY <1>4 DEF TypeInv, Hooked, AskNudge
<1> QED
  BY <1>4, <1>5

LEMMA AskSends ==
    ASSUME TypeInv, NEW k \in Calls, Ask(k)
    PROVE  TypeInv' /\ Sends("permission", k, FALSE)
<1> DEFINE m == Msg("permission", k, FALSE)
<1>1. m \in MsgT /\ m.ev = ("permission") /\ m.of = k /\ m.flag = (FALSE)
  BY DEF Msg, MsgT, HookEvents, StreamEvents
<1>2. Post(<<m>>) /\ plan' = plan
  BY DEF Ask
<1> HIDE DEF m
<1>3. MsgOk(m)
  BY <1>1, <1>2 DEF MsgOk, HookEvents, StreamEvents, Ask
<1>4. WireT' /\ Sends("permission", k, FALSE)
  BY <1>1, <1>2, <1>3, PostOne DEF TypeInv, Sends
<1>5. TypeInv'
  BY <1>4 DEF TypeInv, Hooked, Ask, bounds
<1> QED
  BY <1>4, <1>5

LEMMA StartCallSends ==
    ASSUME TypeInv, NEW k \in Calls, NEW f \in BOOLEAN, StartCall(k, f)
    PROVE  TypeInv' /\ Sends(IF Hooked THEN "PreToolUse" ELSE "activity-started", k, f)
<1> DEFINE m == Msg(IF Hooked THEN "PreToolUse" ELSE "activity-started", k, f)
<1>1. m \in MsgT /\ m.ev = (IF Hooked THEN "PreToolUse" ELSE "activity-started") /\ m.of = k /\ m.flag = f
  BY DEF Msg, MsgT, HookEvents, StreamEvents
<1>2. Post(<<m>>) /\ plan' = plan
  BY DEF StartCall
<1> HIDE DEF m
<1>3. MsgOk(m)
  BY <1>1, <1>2 DEF MsgOk, HookEvents, StreamEvents, StartCall
<1>4. WireT' /\ Sends(IF Hooked THEN "PreToolUse" ELSE "activity-started", k, f)
  BY <1>1, <1>2, <1>3, PostOne DEF TypeInv, Sends
<1>5. TypeInv'
  BY <1>4 DEF TypeInv, Hooked, StartCall, bounds
<1> QED
  BY <1>4, <1>5

LEMMA EndCallSends ==
    ASSUME TypeInv, NEW k \in Calls, NEW f \in BOOLEAN, EndCall(k, f)
    PROVE  TypeInv' /\ Sends(IF Hooked THEN "PostToolUse" ELSE "activity-completed", k, f)
<1> DEFINE m == Msg(IF Hooked THEN "PostToolUse" ELSE "activity-completed", k, f)
<1>1. m \in MsgT /\ m.ev = (IF Hooked THEN "PostToolUse" ELSE "activity-completed") /\ m.of = k /\ m.flag = f
  BY DEF Msg, MsgT, HookEvents, StreamEvents
<1>2. Post(<<m>>) /\ plan' = plan
  BY DEF EndCall
<1> HIDE DEF m
<1>3. MsgOk(m)
  BY <1>1, <1>2 DEF MsgOk, HookEvents, StreamEvents, EndCall
<1>4. WireT' /\ Sends(IF Hooked THEN "PostToolUse" ELSE "activity-completed", k, f)
  BY <1>1, <1>2, <1>3, PostOne DEF TypeInv, Sends
<1>5. TypeInv'
  BY <1>4 DEF TypeInv, Hooked, EndCall, bounds
<1> QED
  BY <1>4, <1>5

LEMMA StartSubagentSends ==
    ASSUME TypeInv, NEW a \in Agents, StartSubagent(a)
    PROVE  TypeInv' /\ Sends("SubagentStart", a, FALSE)
<1> DEFINE m == Msg("SubagentStart", a, FALSE)
<1>1. m \in MsgT /\ m.ev = ("SubagentStart") /\ m.of = a /\ m.flag = (FALSE)
  BY DEF Msg, MsgT, HookEvents, StreamEvents
<1>2. Post(<<m>>) /\ plan' = plan
  BY DEF StartSubagent
<1> HIDE DEF m
<1>3. MsgOk(m)
  BY <1>1, <1>2 DEF MsgOk, HookEvents, StreamEvents, StartSubagent
<1>4. WireT' /\ Sends("SubagentStart", a, FALSE)
  BY <1>1, <1>2, <1>3, PostOne DEF TypeInv, Sends
<1>5. TypeInv'
  BY <1>4 DEF TypeInv, Hooked, StartSubagent, bounds
<1> QED
  BY <1>4, <1>5

LEMMA StopSubagentSends ==
    ASSUME TypeInv, NEW a \in Agents, StopSubagent(a)
    PROVE  TypeInv' /\ Sends("SubagentStop", a, FALSE)
<1> DEFINE m == Msg("SubagentStop", a, FALSE)
<1>1. m \in MsgT /\ m.ev = "SubagentStop" /\ m.of = a /\ m.flag = FALSE
  BY DEF Msg, MsgT, HookEvents, StreamEvents
<1>2. Post(<<m>>) /\ plan' = plan /\ Hooked
  BY DEF StopSubagent, TypeInv
<1> HIDE DEF m
<1>3. MsgOk(m)
  BY <1>1, <1>2 DEF MsgOk, HookEvents, StreamEvents
<1>4. WireT' /\ Sends("SubagentStop", a, FALSE)
  BY <1>1, <1>2, <1>3, PostOne DEF TypeInv, Sends
<1>5. TypeInv'
  BY <1>2, <1>4 DEF TypeInv, Hooked, StopSubagent, bounds
<1> QED
  BY <1>4, <1>5

\* Codex is told in so many words that an ask, or a turn, is over.
LEMMA ResolvedSends ==
    ASSUME TypeInv, plan' = plan, ~ Hooked, NEW k \in Calls, Post(<<Msg("permission-resolved", k, FALSE)>>)
    PROVE  WireT' /\ Sends("permission-resolved", k, FALSE)
<1> DEFINE m == Msg("permission-resolved", k, FALSE)
<1>1. m \in MsgT /\ m.ev = "permission-resolved" /\ m.of = k /\ m.flag = FALSE
  BY DEF Msg, MsgT, HookEvents, StreamEvents
<1>2. Post(<<m>>)
  OBVIOUS
<1> HIDE DEF m
<1>3. MsgOk(m)
  BY <1>1 DEF MsgOk, HookEvents, StreamEvents
<1> QED
  BY <1>1, <1>2, <1>3, PostOne DEF TypeInv, Sends

LEMMA InTerminalSends ==
    ASSUME TypeInv, plan' = plan, NEW k \in Calls, NEW allow \in BOOLEAN, InTerminal(k, allow)
    PROVE  /\ call' \in [Calls -> {"no", "run", "ask", "cli", "over", "cut"}] /\ held' \subseteq Calls /\ WireT'
           /\ \/ Hooked /\ UNCHANGED <<wire, held>>
              \/ ~ Hooked /\ Sends("permission-resolved", k, FALSE) /\ held' = held \ {k}
<1>1. CASE Hooked
  <2>1. UNCHANGED <<wire, held>>
    BY <1>1 DEF InTerminal
  <2>2. WireT'
    BY <2>1 DEF TypeInv, WireT, MsgOk, Hooked
  <2> QED
    BY <1>1, <2>1, <2>2 DEF InTerminal, TypeInv
<1>2. CASE ~ Hooked
  <2>1. Post(<<Msg("permission-resolved", k, FALSE)>>) /\ held' = held \ {k}
    BY <1>2 DEF InTerminal
  <2>2. WireT' /\ Sends("permission-resolved", k, FALSE)
    BY <1>2, <2>1, ResolvedSends
  <2> QED
    BY <1>2, <2>1, <2>2 DEF InTerminal, TypeInv
<1> QED
  BY <1>1, <1>2

LEMMA AnswerInTerminalType ==
    ASSUME TypeInv, NEW k \in Calls, NEW allow \in BOOLEAN, AnswerInTerminal(k, allow)
    PROVE  TypeInv'
<1>1. InTerminal(k, allow) /\ plan' = plan
  BY DEF AnswerInTerminal
<1>2. call' \in [Calls -> {"no", "run", "ask", "cli", "over", "cut"}] /\ held' \subseteq Calls /\ WireT'
  BY <1>1, InTerminalSends
<1> QED
  BY <1>2 DEF TypeInv, Hooked, AnswerInTerminal, bounds

LEMMA InterruptSends ==
    ASSUME TypeInv, Interrupt
    PROVE  /\ TypeInv'
           /\ \/ Hooked /\ UNCHANGED <<wire, held>>
              \/ ~ Hooked /\ Sends("turn-completed", 0, FALSE) /\ held' = {}
<1>1. plan' = plan /\ call' \in [Calls -> {"no", "run", "ask", "cli", "over", "cut"}]
  BY CutIs DEF Interrupt
<1>2. CASE Hooked
  <2>1. UNCHANGED <<wire, held>>
    BY <1>2 DEF Interrupt
  <2>2. WireT'
    BY <1>1, <2>1 DEF TypeInv, WireT, MsgOk, Hooked
  <2> QED
    BY <1>1, <1>2, <2>1, <2>2 DEF TypeInv, Hooked, Interrupt, bounds
<1>3. CASE ~ Hooked
  <2> DEFINE m == Msg("turn-completed", 0, FALSE)
  <2>1. m \in MsgT /\ m.ev = "turn-completed" /\ m.of = 0 /\ m.flag = FALSE
    BY DEF Msg, MsgT, HookEvents, StreamEvents
  <2>2. Post(<<m>>) /\ held' = {}
    BY <1>3 DEF Interrupt
  <2> HIDE DEF m
  <2>3. MsgOk(m)
    BY <1>3, <2>1 DEF MsgOk, HookEvents, StreamEvents
  <2>4. WireT' /\ Sends("turn-completed", 0, FALSE)
    BY <1>1, <2>1, <2>2, <2>3, PostOne DEF TypeInv, Sends
  <2> QED
    BY <1>1, <1>3, <2>2, <2>4 DEF TypeInv, Hooked, Interrupt, bounds
<1> QED
  BY <1>2, <1>3

LEMMA ClearConversationSends ==
    ASSUME TypeInv, ClearConversation
    PROVE  /\ TypeInv' /\ Len(wire') = Len(wire) + 2
           /\ \A l \in 1..Len(wire) : wire'[l] = wire[l]
           /\ wire'[Len(wire) + 1].ev = "SessionEnd" /\ wire'[Len(wire) + 2].ev = "SessionStart"
<1> DEFINE end == Msg("SessionEnd", 0, FALSE)
           start == Msg("SessionStart", 0, FALSE)
           ms == <<end, start>>
<1>1. /\ end \in MsgT /\ end.ev = "SessionEnd" /\ end.flag \in BOOLEAN
      /\ start \in MsgT /\ start.ev = "SessionStart" /\ start.flag \in BOOLEAN
  BY DEF Msg, MsgT, HookEvents, StreamEvents
<1>2. Post(ms) /\ plan' = plan /\ Hooked
  BY DEF ClearConversation
<1> HIDE DEF end, start
<1>3. MsgOk(end) /\ MsgOk(start)
  BY <1>1, <1>2 DEF MsgOk, HookEvents, StreamEvents
<1>4. ms \in Seq(MsgT) /\ Len(ms) = 2 /\ ms[1] = end /\ ms[2] = start
  BY <1>1
<1> HIDE DEF ms
<1>5. /\ wire' \in Seq(MsgT) /\ Len(wire') = Len(wire) + Len(ms)
      /\ \A l \in 1..Len(wire) : wire'[l] = wire[l]
      /\ \A l \in 1..Len(ms) : wire'[Len(wire) + l] = ms[l]
  BY <1>2, <1>4, PostIs DEF TypeInv
<1>6. Len(wire') = Len(wire) + 2 /\ wire'[Len(wire) + 1] = end /\ wire'[Len(wire) + 2] = start
  BY <1>4, <1>5
<1>7. Len(wire) \in Nat /\ DOMAIN wire = 1..Len(wire) /\ DOMAIN wire' = 1..(Len(wire) + 2)
  BY <1>5, <1>6, WireIs DEF TypeInv
<1>8. ASSUME NEW i \in DOMAIN wire' PROVE MsgOk(wire[i])'
  <2>1. MsgOk(wire'[i])
    BY <1>3, <1>5, <1>6, <1>7 DEF TypeInv, WireT
  <2> QED
    BY <1>2, <2>1 DEF MsgOk, Hooked
<1>9. WireT'
  BY <1>5, <1>8 DEF WireT
<1>10. TypeInv'
  <2>1. /\ agent' \in [Agents -> {"no", "run", "over"}] /\ (~ Hooked => \A a \in Agents : agent'[a] = "no")
        /\ call' \in [Calls -> {"no", "run", "ask", "cli", "over", "cut"}]
    BY CutIs DEF ClearConversation
  <2>2. /\ plan' = plan /\ cc' = [cc EXCEPT !.cut = FALSE, !.nudge = FALSE] /\ turns' = turns + 1
        /\ UNCHANGED <<held, answers, typing, ui, streak, fails, lapses>>
    BY DEF ClearConversation
  <2>3. cc' \in [busy : BOOLEAN, queued : BOOLEAN, cut : BOOLEAN, nudge : BOOLEAN] /\ turns' \in Nat
    <3>1. cc \in [busy : BOOLEAN, queued : BOOLEAN, cut : BOOLEAN, nudge : BOOLEAN] /\ turns \in Nat
      BY DEF TypeInv
    <3>2. turns' \in Nat
      BY <2>2, <3>1
    <3>3. cc' \in [busy : BOOLEAN, queued : BOOLEAN, cut : BOOLEAN, nudge : BOOLEAN]
      BY <2>2, <3>1
    <3> QED
      BY <3>2, <3>3
  <2>4. UNCHANGED <<plan, held, answers, typing, ui, streak, fails, lapses>>
    BY <2>2
  <2> QED
    BY <1>9, <2>1, <2>3, <2>4 DEF TypeInv, Hooked
<1> QED
  BY <1>1, <1>5, <1>6, <1>10

\* The cockpit's own steps.
LEMMA HandleIs ==
    ASSUME TypeInv, NEW i \in 1..MaxWire, Handle(i)
    PROVE  /\ TypeInv' /\ i \in DOMAIN wire /\ wire[i] \in MsgT /\ MsgOk(wire[i]) /\ (plan.told # "lossy" => i = 1)
           /\ ui' = Hear(ui, wire[i])
           /\ Len(wire') = Len(wire) - 1 /\ DOMAIN wire' = 1..(Len(wire) - 1)
           /\ \A l \in 1..(Len(wire) - 1) : wire'[l] = IF l < i THEN wire[l] ELSE wire[l + 1]
<1>1. i \in DOMAIN wire /\ (plan.told # "lossy" => i = 1) /\ plan' = plan
  BY DEF Handle
<1>2. wire[i] \in MsgT /\ MsgOk(wire[i]) /\ ui \in UiT
  BY <1>1, WireIs DEF TypeInv, WireT
<1>3. ui' = Hear(ui, wire[i])
  BY DEF Handle, Apply, Hear
<1>4. ui' \in UiT
  BY <1>2, <1>3, HearIs
<1>5. wire' = WithoutMsg(i)
  BY DEF Handle
<1>6. /\ wire' \in Seq(MsgT) /\ Len(wire') = Len(wire) - 1 /\ DOMAIN wire' = 1..(Len(wire) - 1)
      /\ \A l \in 1..(Len(wire) - 1) : wire'[l] = IF l < i THEN wire[l] ELSE wire[l + 1]
  BY <1>1, <1>5, WithoutMsgIs DEF TypeInv
<1>7. WireT'
  <2>1. ASSUME NEW l \in DOMAIN wire' PROVE MsgOk(wire[l])'
    <3>1. MsgOk(wire'[l])
      <4>1. l \in DOMAIN wire /\ l + 1 \in DOMAIN wire
        BY <1>6, WireIs DEF TypeInv
      <4> QED
        BY <1>6, <4>1 DEF TypeInv, WireT
    <3> QED
      BY <1>1, <3>1 DEF MsgOk, Hooked
  <2> QED
    BY <1>6, <2>1 DEF WireT
<1>8. answers' \subseteq Calls \X {"allow", "deny", "terminal"}
  BY <1>2, ShownInCalls DEF Handle, Apply, TypeInv
<1>9. TypeInv'
  BY <1>1, <1>4, <1>7, <1>8 DEF TypeInv, Hooked, Handle, agentVars, bounds
<1> QED
  BY <1>1, <1>2, <1>3, <1>6, <1>9

LEMMA LoseIs ==
    ASSUME TypeInv, NEW i \in 1..MaxWire, Lose(i)
    PROVE  TypeInv' /\ \A l \in DOMAIN wire \ {i} : \E n \in DOMAIN wire' : wire'[n] = wire[l]
<1>1. i \in DOMAIN wire /\ wire' = WithoutMsg(i) /\ plan' = plan
  BY DEF Lose
<1>2. /\ wire' \in Seq(MsgT) /\ Len(wire') = Len(wire) - 1 /\ DOMAIN wire' = 1..(Len(wire) - 1)
      /\ \A l \in 1..(Len(wire) - 1) : wire'[l] = IF l < i THEN wire[l] ELSE wire[l + 1]
  BY <1>1, WithoutMsgIs DEF TypeInv
<1>3. WireT'
  <2>1. ASSUME NEW l \in DOMAIN wire' PROVE MsgOk(wire[l])'
    <3>1. MsgOk(wire'[l])
      <4>1. l \in DOMAIN wire /\ l + 1 \in DOMAIN wire
        BY <1>2, WireIs DEF TypeInv
      <4> QED
        BY <1>2, <4>1 DEF TypeInv, WireT
    <3> QED
      BY <1>1, <3>1 DEF MsgOk, Hooked
  <2> QED
    BY <1>2, <2>1 DEF WireT
<1>4. TypeInv'
  BY <1>1, <1>3 DEF TypeInv, Hooked, Lose, agentVars, bounds
<1>5. ASSUME NEW l \in DOMAIN wire \ {i} PROVE \E n \in DOMAIN wire' : wire'[n] = wire[l]
  <2>1. Len(wire) \in Nat /\ DOMAIN wire = 1..Len(wire)
    BY WireIs DEF TypeInv
  <2>2. CASE l < i
    <3>1. l \in 1..(Len(wire) - 1)
      BY <1>1, <2>1, <2>2
    <3> QED
      BY <1>2, <2>2, <3>1
  <2>3. CASE i < l
    <3>1. l - 1 \in 1..(Len(wire) - 1) /\ ~ (l - 1 < i) /\ l - 1 + 1 = l
      BY <1>1, <2>1, <2>3
    <3> QED
      BY <1>2, <3>1
  <2> QED
    BY <1>1, <2>1, <2>2, <2>3
<1> QED
  BY <1>4, <1>5

LEMMA StatuslineIs ==
    ASSUME TypeInv, Statusline
    PROVE  /\ TypeInv' /\ UNCHANGED <<plan, cc, call, agent, wire, held, answers, streak>>
           /\ ui' \in {ui, SetPhase(ui, "idle")} /\ ui'.asks = ui.asks /\ ui'.revive = ui.revive
<1>1. ui \in UiT
  BY DEF TypeInv
<1> DEFINE v == SetPhase(ui, "idle")
<1>2. v \in UiT /\ v.asks = ui.asks /\ v.revive = ui.revive /\ v.phase = "idle"
  BY <1>1, SetPhaseIs DEF Phases
<1>3. ui' = ApplyStatusline(ui)
  BY DEF Statusline
<1> HIDE DEF v
<1>4. ui' \in {ui, v}
  <2>1. CASE ui.phase = "ended"
    BY <1>2, <1>3, <2>1 DEF ApplyStatusline, v
  <2>2. CASE ui.phase # "ended"
    BY <1>3, <2>2 DEF ApplyStatusline, v
  <2> QED
    BY <2>1, <2>2
<1>5. UNCHANGED <<plan, cc, call, agent, wire, held, answers, streak, typing, turns, fails, lapses>>
  BY DEF Statusline, agentVars, bounds
<1>6. ui' \in UiT /\ ui'.asks = ui.asks /\ ui'.revive = ui.revive
  BY <1>1, <1>2, <1>4
<1>7. WireT'
  BY <1>5 DEF TypeInv, WireT, MsgOk, Hooked
<1>8. TypeInv'
  BY <1>5, <1>6, <1>7 DEF TypeInv, Hooked
<1> QED
  BY <1>4, <1>5, <1>6, <1>8 DEF v

\* Nothing on the wire, and nothing of the turn or the crew in the record, is touched.
Aside(u, v) ==
    /\ v.phase = u.phase /\ v.queued = u.queued /\ v.err = u.err
    /\ \A a \in Agents : OnCrew(u, a) => OnCrew(v, a)

LEMMA ResolvePermissionIs ==
    ASSUME TypeInv, NEW behavior \in {"allow", "deny", "terminal"}, ResolvePermission(behavior)
    PROVE  /\ TypeInv' /\ UNCHANGED <<plan, cc, call, agent, wire, held, streak>>
           /\ Aside(ui, ui') /\ ui'.revive = ui.revive
           /\ \E k : answers' = answers \cup {<<k, behavior>>} /\ Shown(ui) \ {k} \subseteq Shown(ui')
<1> DEFINE k == Head(ui.asks)
<1>1. ui \in UiT /\ ui.asks \in Queues
  BY DEF TypeInv, UiT
<1>2. k \in Calls
  <2>1. ui.asks \in Seq(Calls) /\ ui.asks # <<>>
    BY <1>1, QueueIs DEF ResolvePermission
  <2> QED
    BY <2>1, HeadTailProperties
<1>3. /\ answers' = answers \cup {<<k, behavior>>} /\ ui' = RemovePermission(ui, k)
      /\ UNCHANGED <<plan, cc, call, agent, wire, held, streak, typing, turns, fails, lapses>>
  BY DEF ResolvePermission, agentVars, bounds
<1> HIDE DEF k
<1>4. LET v == RemovePermission(ui, k) IN
      /\ v \in UiT /\ Shown(ui) \ {k} \subseteq Shown(v)
      /\ v.phase = ui.phase /\ v.queued = ui.queued /\ v.err = ui.err
      /\ v.revive = ui.revive /\ v.crew = ui.crew /\ v.fan = ui.fan
  BY <1>1, RemovePermissionIs
<1>5. WireT'
  BY <1>3 DEF TypeInv, WireT, MsgOk, Hooked
<1>6. TypeInv'
  BY <1>2, <1>3, <1>4, <1>5 DEF TypeInv, Hooked
<1> QED
  BY <1>3, <1>4, <1>6 DEF Aside, OnCrew

LEMMA AnsweredSends ==
    ASSUME TypeInv, NEW x \in answers, Answered(x)
    PROVE  /\ TypeInv' /\ x[1] \in Calls /\ answers' = answers \ {x} /\ held' = held \ {x[1]}
           /\ UNCHANGED <<plan, cc, agent, ui, streak>>
           /\ wire' = wire \/ (~ Hooked /\ Sends("permission-resolved", x[1], FALSE))
<1>1. x[1] \in Calls
  BY DEF TypeInv
<1>2. /\ answers' = answers \ {x} /\ held' = held \ {x[1]}
      /\ UNCHANGED <<plan, cc, agent, ui, streak, typing, turns, fails, lapses>>
  BY DEF Answered, bounds
<1>3. call' \in [Calls -> {"no", "run", "ask", "cli", "over", "cut"}]
  BY DEF Answered, TypeInv
<1>4. WireT' /\ (wire' = wire \/ (~ Hooked /\ Sends("permission-resolved", x[1], FALSE)))
  <2>1. CASE Hooked \/ x[1] \notin held \/ x[2] = "terminal"
    <3>1. wire' = wire
      BY <2>1 DEF Answered
    <3> QED
      BY <1>2, <3>1 DEF TypeInv, WireT, MsgOk, Hooked
  <2>2. CASE ~ (Hooked \/ x[1] \notin held \/ x[2] = "terminal")
    <3>1. Post(<<Msg("permission-resolved", x[1], FALSE)>>)
      BY <2>2 DEF Answered
    <3> QED
      BY <1>1, <1>2, <2>2, <3>1, ResolvedSends
  <2> QED
    BY <2>1, <2>2
<1>5. TypeInv'
  BY <1>2, <1>3, <1>4 DEF TypeInv, Hooked
<1> QED
  BY <1>1, <1>2, <1>4, <1>5

LEMMA TickReviveIs ==
    ASSUME TypeInv, TickRevive
    PROVE  /\ TypeInv' /\ UNCHANGED <<plan, cc, call, agent, wire, held, answers>>
           /\ Aside(ui, ui') /\ ui'.asks = ui.asks
           /\ \/ streak' = streak /\ ui'.revive.attempts = ui.revive.attempts
              \/ streak' = streak + 1 /\ ui'.revive.attempts = ui.revive.attempts + 1
<1>1. UNCHANGED <<plan, cc, call, agent, wire, held, answers, turns, fails, lapses>> /\ streak' = streak + (typing' - typing)
  BY DEF TickRevive, agentVars, bounds
<1>2. ui \in UiT /\ ui.revive \in ReviveT /\ streak \in Nat /\ typing \in Nat /\ ui.err \in Nat
  BY DEF TypeInv, UiT
<1>3. \E r \in ReviveT :
        /\ ui' = [ui EXCEPT !.revive = r]
        /\ \/ typing' = typing /\ r.attempts = ui.revive.attempts
           \/ typing' = typing + 1 /\ r.attempts = ui.revive.attempts + 1
  <2>1. CASE GiveUp
    <3> DEFINE r == [ui.revive EXCEPT !.gaveUp = TRUE]
    <3>1. r \in ReviveT /\ r.attempts = ui.revive.attempts
      BY <1>2 DEF ReviveT
    <3>2. ui' = [ui EXCEPT !.revive = r] /\ typing' = typing
      BY <1>2, <2>1 DEF GiveUp, UiT
    <3> QED
      BY <3>1, <3>2
  <2>2. CASE Schedule
    <3> DEFINE r == [ui.revive EXCEPT !.on = TRUE, !.errAt = ui.err, !.due = FALSE, !.gaveUp = FALSE]
    <3>1. r \in ReviveT /\ r.attempts = ui.revive.attempts
      BY <1>2 DEF ReviveT
    <3>2. ui' = [ui EXCEPT !.revive = r] /\ typing' = typing
      BY <1>2, <2>2 DEF Schedule, UiT
    <3> QED
      BY <3>1, <3>2
  <2>3. CASE \E online \in BOOLEAN : SendContinue(online)
    <3> DEFINE r == [ui.revive EXCEPT !.attempts = @ + 1, !.due = FALSE]
    <3>1. ui.revive.attempts \in 0..Attempts /\ ~ (ui.revive.attempts >= Attempts) /\ Attempts \in Nat
      BY <1>2, <2>3, SessionAssumption DEF SendContinue, Spent, ReviveT
    <3>2. ui.revive.attempts + 1 \in 0..Attempts
      BY <3>1
    <3>3. r \in ReviveT /\ r.attempts = ui.revive.attempts + 1
      BY <1>2, <3>2 DEF ReviveT
    <3>4. typing' = typing + 1 /\ ui' = [ui EXCEPT !.revive.attempts = @ + 1, !.revive.due = FALSE]
      BY <2>3 DEF SendContinue
    <3>5. ui' = [ui EXCEPT !.revive = r]
      BY <1>2, <3>4 DEF UiT, ReviveT
    <3> QED
      BY <3>3, <3>4, <3>5
  <2> QED
    BY <2>1, <2>2, <2>3 DEF TickRevive
<1>4. PICK r \in ReviveT :
        /\ ui' = [ui EXCEPT !.revive = r]
        /\ \/ typing' = typing /\ r.attempts = ui.revive.attempts
           \/ typing' = typing + 1 /\ r.attempts = ui.revive.attempts + 1
  BY <1>3
<1>5. ui' \in UiT /\ ui'.revive = r /\ Aside(ui, ui') /\ ui'.asks = ui.asks
  BY <1>2, <1>4 DEF UiT, Aside, OnCrew
<1>6. typing' \in Nat /\ streak' \in Nat /\ (streak' = streak + (IF typing' = typing THEN 0 ELSE 1))
  BY <1>1, <1>2, <1>4
<1>7. WireT'
  BY <1>1 DEF TypeInv, WireT, MsgOk, Hooked
<1>8. TypeInv'
  BY <1>1, <1>5, <1>6, <1>7 DEF TypeInv, Hooked
<1>9. \/ streak' = streak /\ ui'.revive.attempts = ui.revive.attempts
      \/ streak' = streak + 1 /\ ui'.revive.attempts = ui.revive.attempts + 1
  BY <1>2, <1>4, <1>5, <1>6
<1> QED
  BY <1>1, <1>5, <1>8, <1>9

LEMMA ContinueLandsSends ==
    ASSUME TypeInv, ContinueLands
    PROVE  /\ TypeInv' /\ UNCHANGED <<plan, agent, answers, ui, streak>>
           /\ \/ /\ UNCHANGED cc
                 /\ \E k \in Calls :
                       /\ InTerminal(k, TRUE)
                       /\ \/ Hooked /\ UNCHANGED <<wire, held>>
                          \/ ~ Hooked /\ Sends("permission-resolved", k, FALSE) /\ held' = held \ {k}
              \/ /\ UNCHANGED <<call, held>> /\ Prompted
                 /\ Sends(IF Hooked THEN "UserPromptSubmit" ELSE "turn-started", 0, FALSE)
<1>1. UNCHANGED <<plan, agent, answers, ui, streak, turns, fails, lapses>> /\ typing' \in Nat
  BY DEF ContinueLands, TypeInv, bounds
<1>2. CASE \E k \in Calls : call[k] \in {"ask", "cli"}
  <2>1. UNCHANGED cc /\ \E k \in Calls : InTerminal(k, TRUE)
    BY <1>2 DEF ContinueLands
  <2>2. PICK k \in Calls : InTerminal(k, TRUE)
    BY <2>1
  <2>3. /\ call' \in [Calls -> {"no", "run", "ask", "cli", "over", "cut"}] /\ held' \subseteq Calls /\ WireT'
        /\ \/ Hooked /\ UNCHANGED <<wire, held>>
           \/ ~ Hooked /\ Sends("permission-resolved", k, FALSE) /\ held' = held \ {k}
    BY <1>1, <2>2, InTerminalSends
  <2>4. TypeInv'
    BY <1>1, <2>1, <2>3 DEF TypeInv, Hooked
  <2> QED
    BY <1>1, <2>1, <2>2, <2>3, <2>4
<1>3. CASE ~ \E k \in Calls : call[k] \in {"ask", "cli"}
  <2> DEFINE m == Msg(IF Hooked THEN "UserPromptSubmit" ELSE "turn-started", 0, FALSE)
  <2>1. m \in MsgT /\ m.ev = (IF Hooked THEN "UserPromptSubmit" ELSE "turn-started") /\ m.of = 0 /\ m.flag = FALSE
    BY DEF Msg, MsgT, HookEvents, StreamEvents
  <2>2. Post(<<m>>) /\ Prompted /\ UNCHANGED <<call, held>>
    BY <1>3 DEF ContinueLands, Submit
  <2> HIDE DEF m
  <2>3. MsgOk(m)
    BY <2>1 DEF MsgOk, HookEvents, StreamEvents
  <2>4. WireT' /\ Sends(IF Hooked THEN "UserPromptSubmit" ELSE "turn-started", 0, FALSE)
    BY <1>1, <2>1, <2>2, <2>3, PostOne DEF TypeInv, Sends
  <2>5. cc' \in [busy : BOOLEAN, queued : BOOLEAN, cut : BOOLEAN, nudge : BOOLEAN]
    BY <2>2 DEF TypeInv, Prompted
  <2>6. TypeInv'
    BY <1>1, <2>2, <2>4, <2>5 DEF TypeInv, Hooked
  <2> QED
    BY <1>1, <2>2, <2>4, <2>6
<1> QED
  BY <1>2, <1>3

Window == RungDue \/ StragglerPast \/ StallPast \/ GracePast \/ DeadPast \/ OrphanPast

LEMMA WindowIs ==
    ASSUME TypeInv, Window
    PROVE  /\ TypeInv' /\ UNCHANGED <<plan, cc, call, agent, wire, held, answers, streak>>
           /\ plan.told # "lossy" => Aside(ui, ui')
           /\ ui'.asks = ui.asks /\ ui'.revive.attempts = ui.revive.attempts
<1>1. UNCHANGED <<plan, cc, call, agent, wire, held, answers, streak, typing, turns, fails>> /\ lapses' \in Nat
  BY DEF Window, RungDue, StragglerPast, StallPast, GracePast, DeadPast, OrphanPast, Pass, agentVars, TypeInv
<1>2. ui \in UiT
  BY DEF TypeInv
<1>3. /\ ui' \in UiT /\ (plan.told # "lossy" => Aside(ui, ui'))
      /\ ui'.asks = ui.asks /\ ui'.revive.attempts = ui.revive.attempts
  <2>1. CASE RungDue
    <3>1. ui' = [ui EXCEPT !.revive.due = TRUE]
      BY <2>1 DEF RungDue, Pass
    <3> QED
      BY <1>2, <3>1 DEF UiT, ReviveT, Aside, OnCrew
  <2>2. CASE StragglerPast
    BY <1>2, <2>2 DEF StragglerPast, Pass, UiT, Aside, OnCrew
  <2>3. CASE StallPast
    BY <1>2, <2>3 DEF StallPast, Pass, UiT, Aside, OnCrew
  <2>4. CASE GracePast
    BY <1>2, <2>4 DEF GracePast, Pass, UiT, Aside, OnCrew
  <2>5. CASE DeadPast
    BY <1>2, <2>5 DEF DeadPast, Pass, UiT
  <2>6. CASE OrphanPast
    BY <1>2, <2>6 DEF OrphanPast, Pass, UiT
  <2> QED
    BY <2>1, <2>2, <2>3, <2>4, <2>5, <2>6 DEF Window
<1>4. WireT'
  BY <1>1 DEF TypeInv, WireT, MsgOk, Hooked
<1>5. TypeInv'
  BY <1>1, <1>3, <1>4 DEF TypeInv, Hooked
<1> QED
  BY <1>1, <1>3, <1>5

LEMMA InitType == Init => TypeInv
<1> SUFFICES ASSUME Init PROVE TypeInv
  OBVIOUS
<1>1. plan \in Plan
  BY SessionAssumption DEF Init
<1>2. FreshUi \in UiT
  <2>1. <<>> \in Queues
    <3>1. 0 \in Nat /\ <<>> \in [1..0 -> Calls]
      OBVIOUS
    <3> QED
      BY <3>1 DEF Queues
  <2> QED
    BY <2>1, NoReviveIs DEF FreshUi, UiT, Phases
<1>3. WireT
  BY DEF Init, WireT
<1> QED
  BY <1>1, <1>2, <1>3 DEF Init, TypeInv

LEMMA TypeStep == TypeInv /\ [Next]_vars => TypeInv'
<1> SUFFICES ASSUME TypeInv, [Next]_vars PROVE TypeInv'
  OBVIOUS
<1>1. CASE UNCHANGED vars
  <2>1. WireT'
    BY <1>1 DEF vars, TypeInv, WireT, MsgOk, Hooked
  <2> QED
    BY <1>1, <2>1 DEF vars, TypeInv, Hooked
<1>2. CASE AgentStep
  <2>1. CASE Type \/ Notice \/ EndOfTurn \/ Interrupt \/ IdleNudge \/ AskNudge \/ ClearConversation
    BY <2>1, TypeSends, NoticeSends, EndOfTurnSends, InterruptSends, IdleNudgeSends, AskNudgeSends, ClearConversationSends
  <2>2. CASE \E k \in Calls : Ask(k)
    BY <2>2, AskSends
  <2>3. CASE \E k \in Calls, f \in BOOLEAN : StartCall(k, f) \/ EndCall(k, f) \/ AnswerInTerminal(k, f)
    BY <2>3, StartCallSends, EndCallSends, AnswerInTerminalType
  <2>4. CASE \E a \in Agents : StartSubagent(a) \/ StopSubagent(a)
    BY <2>4, StartSubagentSends, StopSubagentSends
  <2>5. CASE \E agents \in BOOLEAN : ApiFailure(agents)
    BY <2>5, ApiFailureSends
  <2> QED
    BY <1>2, <2>1, <2>2, <2>3, <2>4, <2>5 DEF AgentStep
<1>3. CASE CockpitStep
  <2>1. CASE \E i \in 1..MaxWire : Handle(i) \/ Lose(i)
    BY <2>1, HandleIs, LoseIs
  <2>2. CASE Statusline \/ TickRevive \/ ContinueLands \/ Window
    BY <2>2, StatuslineIs, TickReviveIs, ContinueLandsSends, WindowIs
  <2>3. CASE \E behavior \in {"allow", "deny", "terminal"} : ResolvePermission(behavior)
    BY <2>3, ResolvePermissionIs
  <2>4. CASE \E x \in answers : Answered(x)
    BY <2>4, AnsweredSends
  <2> QED
    BY <1>3, <2>1, <2>2, <2>3, <2>4 DEF CockpitStep, Window
<1> QED
  BY <1>1, <1>2, <1>3 DEF Next

-----------------------------------------------------------------------------
(* No ask is stranded.                                                      *)

\* What was on the wire is on it still; what is new of it resolves no ask that is held.
LEMMA GrowKeeps ==
    ASSUME TypeInv, TypeInv', NoAskIsStranded, AsksKnown, plan' = plan,
           Len(wire) <= Len(wire'), \A l \in 1..Len(wire) : wire'[l] = wire[l],
           \A l \in DOMAIN wire' : Len(wire) < l /\ wire'[l].ev = "permission-resolved" => wire'[l].of \notin held',
           \A k \in held' : \/ k \in held
                            \/ \E l \in DOMAIN wire' : Len(wire) < l /\ wire'[l].ev = "permission" /\ wire'[l].of = k,
           \A k \in Shown(ui) : k \in Shown(ui') \/ \E y \in answers' : y[1] = k,
           \A x \in answers : x[1] \in held' => \E y \in answers' : y[1] = x[1]
    PROVE  NoAskIsStranded' /\ AsksKnown'
<1>1. /\ Len(wire) \in Nat /\ DOMAIN wire = 1..Len(wire)
      /\ Len(wire') \in Nat /\ DOMAIN wire' = 1..Len(wire')
  BY DEF TypeInv, WireT
<1>2. DOMAIN wire \subseteq DOMAIN wire'
  BY <1>1
<1>3. NoAskIsStranded'
  <2> SUFFICES ASSUME NEW k \in held'
               PROVE  \/ k \in Shown(ui')
                      \/ \E i \in DOMAIN wire' : wire'[i].ev = "permission" /\ wire'[i].of = k
                      \/ \E x \in answers' : x[1] = k
    BY DEF NoAskIsStranded
  <2>1. CASE k \notin held
    BY <2>1
  <2>2. CASE k \in held
    <3>1. \/ k \in Shown(ui)
          \/ \E i \in DOMAIN wire : wire[i].ev = "permission" /\ wire[i].of = k
          \/ \E x \in answers : x[1] = k
      BY <2>2 DEF NoAskIsStranded
    <3> QED
      BY <3>1, <1>1, <1>2
  <2> QED
    BY <2>1, <2>2
<1>4. AsksKnown'
  <2> SUFFICES ASSUME ~ Hooked, NEW k \in held', NEW i \in DOMAIN wire',
                      wire'[i].ev = "permission-resolved", wire'[i].of = k
               PROVE  \E j \in DOMAIN wire' : i < j /\ wire'[j].ev = "permission" /\ wire'[j].of = k
    BY DEF AsksKnown, Hooked
  <2>1. i \in DOMAIN wire /\ wire'[i] = wire[i]
    BY <1>1
  <2>2. CASE k \in held
    <3>1. PICK j \in DOMAIN wire : i < j /\ wire[j].ev = "permission" /\ wire[j].of = k
      BY <2>1, <2>2 DEF AsksKnown
    <3> QED
      BY <1>1, <1>2, <3>1
  <2>3. CASE k \notin held
    <3>1. PICK l \in DOMAIN wire' : Len(wire) < l /\ wire'[l].ev = "permission" /\ wire'[l].of = k
      BY <2>3
    <3>2. i < l
      BY <1>1, <2>1, <3>1
    <3> QED
      BY <3>1, <3>2
  <2> QED
    BY <2>2, <2>3
<1> QED
  BY <1>3, <1>4

LEMMA SendsKeeps ==
    ASSUME TypeInv, TypeInv', NoAskIsStranded, AsksKnown, plan' = plan, ui' = ui,
           NEW ev, NEW of, NEW flag, Sends(ev, of, flag),
           ev = "permission-resolved" => of \notin held',
           held' \subseteq held \cup (IF ev = "permission" THEN {of} ELSE {}),
           \A x \in answers : x[1] \in held' => x \in answers'
    PROVE  NoAskIsStranded' /\ AsksKnown'
<1>1. Len(wire) \in Nat /\ Len(wire') = Len(wire) + 1 /\ DOMAIN wire' = 1..(Len(wire) + 1)
  BY DEF Sends, TypeInv, WireT
<1>2. /\ \A l \in 1..Len(wire) : wire'[l] = wire[l]
      /\ wire'[Len(wire) + 1].ev = ev /\ wire'[Len(wire) + 1].of = of
  BY DEF Sends
<1>3. \A l \in DOMAIN wire' : Len(wire) < l => l = Len(wire) + 1
  BY <1>1
<1>4. Len(wire) + 1 \in DOMAIN wire' /\ Len(wire) < Len(wire) + 1 /\ Len(wire) <= Len(wire')
  BY <1>1
<1>5. \A k \in held' : \/ k \in held
                       \/ \E l \in DOMAIN wire' : Len(wire) < l /\ wire'[l].ev = "permission" /\ wire'[l].of = k
  BY <1>2, <1>4
<1> QED
  BY <1>2, <1>3, <1>4, <1>5, GrowKeeps

\* The wire, and what is held, stay as they are.
LEMMA StillKeeps ==
    ASSUME TypeInv, TypeInv', NoAskIsStranded, AsksKnown, plan' = plan, wire' = wire, held' \subseteq held,
           \A k \in Shown(ui) : k \in Shown(ui') \/ \E y \in answers' : y[1] = k,
           \A x \in answers : x[1] \in held' => x \in answers'
    PROVE  NoAskIsStranded' /\ AsksKnown'
<1>1. Len(wire) \in Nat /\ DOMAIN wire = 1..Len(wire) /\ Len(wire) <= Len(wire')
  BY DEF TypeInv, WireT
<1> QED
  BY <1>1, GrowKeeps

LEMMA HandleKeeps ==
    ASSUME TypeInv, TypeInv', NoAskIsStranded, AsksKnown, NEW n \in 1..MaxWire, Handle(n)
    PROVE  NoAskIsStranded' /\ AsksKnown'
<1> DEFINE m == wire[n]
<1>1. /\ n \in DOMAIN wire /\ m \in MsgT /\ MsgOk(m) /\ (plan.told # "lossy" => n = 1)
      /\ ui' = Hear(ui, m)
      /\ Len(wire') = Len(wire) - 1 /\ DOMAIN wire' = 1..(Len(wire) - 1)
      /\ \A l \in 1..(Len(wire) - 1) : wire'[l] = IF l < n THEN wire[l] ELSE wire[l + 1]
  BY HandleIs
<1>2. Len(wire) \in Nat /\ DOMAIN wire = 1..Len(wire) /\ ui \in UiT
  BY DEF TypeInv, WireT
<1>3. /\ held' = held /\ plan' = plan /\ answers \subseteq answers'
      /\ m.ev # "permission-resolved" => \A k \in Shown(ui) \ Shown(ui') : <<k, "terminal">> \in answers'
  BY DEF Handle, Apply
<1>4. /\ m.ev = "permission" => m.of \in Shown(ui')
      /\ m.ev = "permission-resolved" => Shown(ui) \ {m.of} \subseteq Shown(ui')
  BY <1>1, <1>2, HearIs
<1>5. ASSUME NEW l \in DOMAIN wire, l # n
      PROVE  \E j \in DOMAIN wire' : wire'[j] = wire[l] /\ (n = 1 => j = l - 1)
  <2>1. CASE l < n
    <3>1. l \in 1..(Len(wire) - 1) /\ n # 1
      BY <1>1, <1>2, <2>1
    <3> QED
      BY <1>1, <2>1, <3>1
  <2>2. CASE n < l
    <3>1. l - 1 \in 1..(Len(wire) - 1) /\ ~ (l - 1 < n) /\ l - 1 + 1 = l
      BY <1>1, <1>2, <2>2
    <3> QED
      BY <1>1, <3>1
  <2> QED
    BY <1>1, <1>2, <1>5, <2>1, <2>2
<1> HIDE DEF m
<1>6. NoAskIsStranded'
  <2> SUFFICES ASSUME NEW k \in held
               PROVE  \/ k \in Shown(ui')
                      \/ \E i \in DOMAIN wire' : wire'[i].ev = "permission" /\ wire'[i].of = k
                      \/ \E x \in answers' : x[1] = k
    BY <1>3 DEF NoAskIsStranded
  <2>1. CASE k \in Shown(ui) /\ (m.ev # "permission-resolved" \/ m.of # k)
    <3>1. k \in Shown(ui') \/ <<k, "terminal">> \in answers'
      BY <1>3, <1>4, <2>1
    <3>2. <<k, "terminal">>[1] = k
      OBVIOUS
    <3> QED
      BY <3>1, <3>2
  <2>2. CASE m.ev = "permission-resolved" /\ m.of = k
    <3>1. ~ Hooked
      BY <1>1, <2>2 DEF MsgOk, HookEvents
    <3>2. n = 1
      BY <1>1, <3>1 DEF Hooked
    <3>3. PICK j \in DOMAIN wire : n < j /\ wire[j].ev = "permission" /\ wire[j].of = k
      BY <1>1, <2>2, <3>1 DEF AsksKnown, m
    <3> QED
      BY <1>1, <1>2, <1>5, <3>3
  <2>3. CASE \E i \in DOMAIN wire : wire[i].ev = "permission" /\ wire[i].of = k
    <3>1. PICK i \in DOMAIN wire : wire[i].ev = "permission" /\ wire[i].of = k
      BY <2>3
    <3>2. CASE i = n
      BY <1>4, <3>1, <3>2 DEF m
    <3>3. CASE i # n
      BY <1>5, <3>1, <3>3
    <3> QED
      BY <3>2, <3>3
  <2>4. CASE \E x \in answers : x[1] = k
    BY <1>3, <2>4
  <2> QED
    BY <2>1, <2>2, <2>3, <2>4 DEF NoAskIsStranded
<1>7. AsksKnown'
  <2> SUFFICES ASSUME ~ Hooked, NEW k \in held, NEW i \in DOMAIN wire',
                      wire'[i].ev = "permission-resolved", wire'[i].of = k
               PROVE  \E j \in DOMAIN wire' : i < j /\ wire'[j].ev = "permission" /\ wire'[j].of = k
    BY <1>3 DEF AsksKnown, Hooked
  <2>1. n = 1 /\ i + 1 \in DOMAIN wire /\ i \in 1..(Len(wire) - 1) /\ wire'[i] = wire[i + 1]
    BY <1>1, <1>2 DEF Hooked
  <2>2. PICK j \in DOMAIN wire : i + 1 < j /\ wire[j].ev = "permission" /\ wire[j].of = k
    BY <2>1 DEF AsksKnown
  <2>3. j # n /\ i < j - 1
    BY <1>2, <2>1, <2>2
  <2> QED
    BY <1>5, <2>1, <2>2, <2>3
<1> QED
  BY <1>6, <1>7

LEMMA AsksStep ==
    ASSUME TypeInv, TypeInv', NoAskIsStranded, AsksKnown, [Next]_vars
    PROVE  NoAskIsStranded' /\ AsksKnown'
<1>1. CASE UNCHANGED vars
  BY <1>1, StillKeeps DEF vars
<1>2. CASE AgentStep
  <2>1. CASE Type
    <3>1. UNCHANGED <<plan, held, answers, ui>> /\ Sends(IF Hooked THEN "UserPromptSubmit" ELSE "turn-started", 0, FALSE)
      BY <2>1, TypeSends DEF Type
    <3> QED
      BY <3>1, SendsKeeps
  <2>2. CASE Notice
    <3>1. UNCHANGED <<plan, held, answers, ui>> /\ Sends("UserPromptSubmit", 0, TRUE)
      BY <2>2, NoticeSends DEF Notice
    <3> QED
      BY <3>1, SendsKeeps
  <2>3. CASE EndOfTurn
    <3>1. UNCHANGED <<plan, held, answers, ui>> /\ Sends(IF Hooked THEN "Stop" ELSE "turn-completed", 0, FALSE)
      BY <2>3, EndOfTurnSends DEF EndOfTurn
    <3> QED
      BY <3>1, SendsKeeps
  <2>4. CASE Interrupt
    <3>1. /\ UNCHANGED <<plan, answers, ui>>
          /\ UNCHANGED <<wire, held>> \/ (Sends("turn-completed", 0, FALSE) /\ held' = {})
      BY <2>4, InterruptSends DEF Interrupt
    <3> QED
      BY <3>1, SendsKeeps, StillKeeps
  <2>5. CASE IdleNudge
    <3>1. UNCHANGED <<plan, held, answers, ui>> /\ Sends("Notification", "idle_prompt", FALSE)
      BY <2>5, IdleNudgeSends DEF IdleNudge
    <3> QED
      BY <3>1, SendsKeeps
  <2>6. CASE AskNudge
    <3>1. UNCHANGED <<plan, held, answers, ui>> /\ Sends("Notification", "permission_prompt", FALSE)
      BY <2>6, AskNudgeSends DEF AskNudge
    <3> QED
      BY <3>1, SendsKeeps
  <2>7. CASE ClearConversation
    <3>1. UNCHANGED <<plan, held, answers, ui>>
      BY <2>7 DEF ClearConversation
    <3>2. /\ Len(wire') = Len(wire) + 2
          /\ \A l \in 1..Len(wire) : wire'[l] = wire[l]
          /\ wire'[Len(wire) + 1].ev = "SessionEnd" /\ wire'[Len(wire) + 2].ev = "SessionStart"
      BY <2>7, ClearConversationSends
    <3>3. Len(wire) \in Nat /\ DOMAIN wire' = 1..(Len(wire) + 2)
      BY <3>2 DEF TypeInv, WireT
    <3>4. \A l \in DOMAIN wire' : Len(wire) < l => l \in {Len(wire) + 1, Len(wire) + 2}
      BY <3>3
    <3>5. \A l \in DOMAIN wire' : Len(wire) < l => wire'[l].ev # "permission-resolved"
      BY <3>2, <3>4
    <3>6. Len(wire) <= Len(wire')
      BY <3>2, <3>3
    <3> QED
      BY <3>1, <3>2, <3>5, <3>6, GrowKeeps
  <2>8. ASSUME NEW k \in Calls, Ask(k) PROVE NoAskIsStranded' /\ AsksKnown'
    <3>1. UNCHANGED <<plan, answers, ui>> /\ held' = held \cup {k} /\ Sends("permission", k, FALSE)
      BY <2>8, AskSends DEF Ask
    <3> QED
      BY <3>1, SendsKeeps
  <2>9. ASSUME NEW k \in Calls, NEW f \in BOOLEAN, StartCall(k, f) PROVE NoAskIsStranded' /\ AsksKnown'
    <3>1. /\ UNCHANGED <<plan, held, answers, ui>>
          /\ Sends(IF Hooked THEN "PreToolUse" ELSE "activity-started", k, f)
      BY <2>9, StartCallSends DEF StartCall
    <3> QED
      BY <3>1, SendsKeeps
  <2>10. ASSUME NEW k \in Calls, NEW f \in BOOLEAN, EndCall(k, f) PROVE NoAskIsStranded' /\ AsksKnown'
    <3>1. /\ UNCHANGED <<plan, held, answers, ui>>
          /\ Sends(IF Hooked THEN "PostToolUse" ELSE "activity-completed", k, f)
      BY <2>10, EndCallSends DEF EndCall
    <3> QED
      BY <3>1, SendsKeeps
  <2>11. ASSUME NEW k \in Calls, NEW f \in BOOLEAN, AnswerInTerminal(k, f) PROVE NoAskIsStranded' /\ AsksKnown'
    <3>1. UNCHANGED <<plan, answers, ui>> /\ InTerminal(k, f)
      BY <2>11 DEF AnswerInTerminal
    <3>2. \/ UNCHANGED <<wire, held>>
          \/ Sends("permission-resolved", k, FALSE) /\ held' = held \ {k}
      BY <3>1, InTerminalSends
    <3> QED
      BY <3>1, <3>2, SendsKeeps, StillKeeps
  <2>12. ASSUME NEW a \in Agents, StartSubagent(a) PROVE NoAskIsStranded' /\ AsksKnown'
    <3>1. UNCHANGED <<plan, held, answers, ui>> /\ Sends("SubagentStart", a, FALSE)
      BY <2>12, StartSubagentSends DEF StartSubagent
    <3> QED
      BY <3>1, SendsKeeps
  <2>13. ASSUME NEW a \in Agents, StopSubagent(a) PROVE NoAskIsStranded' /\ AsksKnown'
    <3>1. UNCHANGED <<plan, held, answers, ui>> /\ Sends("SubagentStop", a, FALSE)
      BY <2>13, StopSubagentSends DEF StopSubagent
    <3> QED
      BY <3>1, SendsKeeps
  <2>14. ASSUME NEW agents \in BOOLEAN, ApiFailure(agents) PROVE NoAskIsStranded' /\ AsksKnown'
    <3>1. /\ UNCHANGED <<plan, held, answers, ui>>
          /\ Sends(IF Hooked THEN "StopFailure" ELSE "turn-completed", fails + 1, ~ Hooked)
      BY <2>14, ApiFailureSends DEF ApiFailure
    <3> QED
      BY <3>1, SendsKeeps
  <2> QED
    BY <1>2, <2>1, <2>2, <2>3, <2>4, <2>5, <2>6, <2>7, <2>8, <2>9, <2>10, <2>11, <2>12, <2>13, <2>14 DEF AgentStep
<1>3. CASE CockpitStep
  <2>1. ASSUME NEW i \in 1..MaxWire, Handle(i) PROVE NoAskIsStranded' /\ AsksKnown'
    BY <2>1, HandleKeeps
  <2>2. ASSUME NEW i \in 1..MaxWire, Lose(i) PROVE NoAskIsStranded' /\ AsksKnown'
    <3>1. UNCHANGED <<plan, held, answers, ui>> /\ plan.told = "lossy" /\ wire[i].ev # "permission"
      BY <2>2 DEF Lose
    <3>2. \A l \in DOMAIN wire \ {i} : \E n \in DOMAIN wire' : wire'[n] = wire[l]
      BY <2>2, LoseIs
    <3>3. AsksKnown'
      BY <3>1 DEF AsksKnown, Hooked
    <3>4. \A l \in DOMAIN wire : wire[l].ev = "permission" => \E n \in DOMAIN wire' : wire'[n] = wire[l]
      BY <3>1, <3>2
    <3>5. NoAskIsStranded'
      BY <3>1, <3>4 DEF NoAskIsStranded
    <3> QED
      BY <3>3, <3>5
  <2>3. CASE Statusline
    <3>1. UNCHANGED <<plan, wire, held, answers>> /\ Shown(ui') = Shown(ui)
      BY <2>3, StatuslineIs DEF Shown
    <3> QED
      BY <3>1, StillKeeps
  <2>4. ASSUME NEW behavior \in {"allow", "deny", "terminal"}, ResolvePermission(behavior)
        PROVE  NoAskIsStranded' /\ AsksKnown'
    <3>1. PICK k : answers' = answers \cup {<<k, behavior>>} /\ Shown(ui) \ {k} \subseteq Shown(ui')
      BY <2>4, ResolvePermissionIs
    <3>2. UNCHANGED <<plan, wire, held>>
      BY <2>4, ResolvePermissionIs
    <3>3. \E y \in answers' : y[1] = k
      <4>1. <<k, behavior>>[1] = k
        OBVIOUS
      <4> QED
        BY <3>1, <4>1
    <3> QED
      BY <3>1, <3>2, <3>3, StillKeeps
  <2>5. ASSUME NEW x \in answers, Answered(x) PROVE NoAskIsStranded' /\ AsksKnown'
    <3>1. /\ answers' = answers \ {x} /\ held' = held \ {x[1]}
          /\ UNCHANGED <<plan, ui>>
          /\ wire' = wire \/ Sends("permission-resolved", x[1], FALSE)
      BY <2>5, AnsweredSends
    <3> QED
      BY <3>1, SendsKeeps, StillKeeps
  <2>6. CASE TickRevive \/ Window
    <3>1. UNCHANGED <<plan, wire, held, answers>> /\ Shown(ui') = Shown(ui)
      BY <2>6, TickReviveIs, WindowIs DEF Shown
    <3> QED
      BY <3>1, StillKeeps
  <2>7. CASE ContinueLands
    <3>1. /\ UNCHANGED <<plan, answers, ui>>
          /\ \/ UNCHANGED <<wire, held>>
             \/ \E k \in Calls : Sends("permission-resolved", k, FALSE) /\ held' = held \ {k}
             \/ held' = held /\ Sends(IF Hooked THEN "UserPromptSubmit" ELSE "turn-started", 0, FALSE)
      BY <2>7, ContinueLandsSends
    <3> QED
      BY <3>1, SendsKeeps, StillKeeps
  <2> QED
    BY <1>3, <2>1, <2>2, <2>3, <2>4, <2>5, <2>6, <2>7 DEF CockpitStep, Window
<1> QED
  BY <1>1, <1>2, <1>3 DEF Next

LEMMA BudgetStep ==
    ASSUME TypeInv, TypeInv', WithinBudget, [Next]_vars
    PROVE  WithinBudget'
<1>1. streak \in Nat /\ streak' \in Nat /\ ui \in UiT /\ ui' \in UiT
      /\ ui.revive.attempts \in Nat /\ ui'.revive.attempts \in Nat
  <2>1. \A u \in UiT : u.revive.attempts \in Nat
    BY SessionAssumption DEF UiT, ReviveT
  <2> QED
    BY <2>1 DEF TypeInv
<1>2. CASE UNCHANGED <<streak, ui>>
  BY <1>2 DEF WithinBudget
<1>3. ASSUME NEW i \in 1..MaxWire, Handle(i) PROVE WithinBudget'
  <2> DEFINE m == wire[i]
  <2>1. ui' = Hear(ui, m) /\ m \in MsgT /\ MsgOk(m)
    BY <1>3, HandleIs
  <2>2. streak' = IF EndsWell(m) THEN 0 ELSE streak
    BY <1>3 DEF Handle
  <2> HIDE DEF m
  <2>3. HeardCount(ui, ui', m)
    BY <1>1, <2>1, HearIs
  <2>4. ui'.revive = ui.revive \/ EndsWell(m)
    BY <2>3 DEF HeardCount, EndsWell
  <2> QED
    BY <1>1, <2>2, <2>4 DEF WithinBudget
<1>4. CASE Statusline \/ Window
  BY <1>4, StatuslineIs, WindowIs DEF WithinBudget
<1>5. ASSUME NEW behavior \in {"allow", "deny", "terminal"}, ResolvePermission(behavior) PROVE WithinBudget'
  BY <1>5, ResolvePermissionIs DEF WithinBudget
<1>6. CASE TickRevive
  BY <1>1, <1>6, TickReviveIs DEF WithinBudget
<1>7. CASE ContinueLands
  BY <1>2, <1>7 DEF ContinueLands
<1>8. ASSUME NEW x \in answers, Answered(x) PROVE WithinBudget'
  BY <1>2, <1>8 DEF Answered
<1>9. ASSUME NEW i \in 1..MaxWire, Lose(i) PROVE WithinBudget'
  BY <1>2, <1>9 DEF Lose
<1>10. CASE AgentStep
  BY <1>2, <1>10
     DEF AgentStep, Type, Notice, EndOfTurn, Interrupt, IdleNudge, AskNudge, ClearConversation, Ask, StartCall, EndCall,
         AnswerInTerminal, StartSubagent, StopSubagent, ApiFailure
<1> QED
  BY <1>2, <1>3, <1>4, <1>5, <1>6, <1>7, <1>8, <1>9, <1>10 DEF Next, CockpitStep, Window, vars

LEMMA HeldAlways == Spec => []Held
<1>1. Init => Held
  <2> SUFFICES ASSUME Init PROVE Held
    OBVIOUS
  <2>1. TypeInv
    BY InitType
  <2>2. held = {} /\ streak = 0 /\ ui.revive.attempts = 0
    BY NoReviveIs DEF Init, FreshUi
  <2> QED
    BY <2>1, <2>2 DEF Held, NoAskIsStranded, AsksKnown, WithinBudget
<1>2. Held /\ [Next]_vars => Held'
  <2> SUFFICES ASSUME Held, [Next]_vars PROVE Held'
    OBVIOUS
  <2>1. TypeInv /\ NoAskIsStranded /\ AsksKnown /\ WithinBudget
    BY DEF Held
  <2>2. TypeInv'
    BY <2>1, TypeStep
  <2>3. NoAskIsStranded' /\ AsksKnown'
    BY <2>1, <2>2, AsksStep
  <2>4. WithinBudget'
    BY <2>1, <2>2, BudgetStep
  <2> QED
    BY <2>2, <2>3, <2>4 DEF Held
<1> QED
  BY <1>1, <1>2, PTL DEF Spec

\* A permission request the server holds open is always on its way to the cockpit, on its card, or
\* being released, for any calls and bounds, whatever is lost, reordered or answered in the terminal
\* (clearPending, releasePending, resolvePermission).
THEOREM AsksAreNotStranded == Spec => []NoAskIsStranded
<1>1. Held => NoAskIsStranded
  BY DEF Held
<1> QED
  BY <1>1, HeldAlways, PTL

\* From one turn heard to end well to the next, the watchdog types no more continues than its budget,
\* whatever that budget is and however hooks are lost or reordered (reviveStep, endTurn).
THEOREM BudgetIsKept == Spec => []ContinuesWithinBudget
<1>1. Held => ContinuesWithinBudget
  <2> SUFFICES ASSUME Held PROVE ContinuesWithinBudget
    OBVIOUS
  <2>1. streak \in Nat /\ ui.revive \in ReviveT /\ streak <= ui.revive.attempts
    BY DEF Held, TypeInv, UiT, WithinBudget
  <2>2. ui.revive.attempts \in 0..Attempts /\ Attempts \in Nat
    BY <2>1, SessionAssumption DEF ReviveT
  <2> QED
    BY <2>1, <2>2 DEF ContinuesWithinBudget
<1> QED
  BY <1>1, HeldAlways, PTL

-----------------------------------------------------------------------------
(* What is told up to a message, one message more, the wire grown, and one  *)
(* message heard.                                                           *)

LEMMA OneFurther ==
    ASSUME NEW u, NEW w, NEW n \in Nat \ {0}
    PROVE  /\ \A a : Told(w[n], a) \/ (Known(u, w, a, n) /\ ~ Forgets(w[n], a)) => Known(u, w, a, n + 1)
           /\ WorkingAt(u, w, n + 1) => ByMain(w[n]) \/ (WorkingAt(u, w, n) /\ ~ Ends(w[n]))
           /\ QueuedAt(u, w, n + 1) => \/ Enqueues(w[n]) /\ WorkingAt(u, w, n)
                                       \/ QueuedAt(u, w, n) /\ ~ Clears(w[n])
           /\ SettlesAt(u, w, n) \/ (SettledAt(u, w, n) /\ ~ Moves(w[n])) => SettledAt(u, w, n + 1)
<1>1. /\ 1..(n + 1 - 1) = 1..(n - 1) \cup {n}
      /\ (n + 1)..(n + 1 - 1) = {}
      /\ \A j \in 1..(n - 1) : (j + 1)..(n + 1 - 1) = (j + 1)..(n - 1) \cup {n}
  OBVIOUS
<1>2. ASSUME NEW a, Told(w[n], a) \/ (Known(u, w, a, n) /\ ~ Forgets(w[n], a)) PROVE Known(u, w, a, n + 1)
  BY <1>1, <1>2 DEF Known, Spared
<1>3. WorkingAt(u, w, n + 1) => ByMain(w[n]) \/ (WorkingAt(u, w, n) /\ ~ Ends(w[n]))
  BY <1>1 DEF WorkingAt
<1>4. QueuedAt(u, w, n + 1) => \/ Enqueues(w[n]) /\ WorkingAt(u, w, n)
                               \/ QueuedAt(u, w, n) /\ ~ Clears(w[n])
  <2> SUFFICES ASSUME QueuedAt(u, w, n + 1), ~ (Enqueues(w[n]) /\ WorkingAt(u, w, n))
               PROVE  QueuedAt(u, w, n) /\ ~ Clears(w[n])
    OBVIOUS
  <2>1. CASE u.queued /\ \A l \in 1..(n + 1 - 1) : ~ Clears(w[l])
    BY <1>1, <2>1 DEF QueuedAt
  <2>2. ASSUME NEW j \in 1..(n + 1 - 1), Enqueues(w[j]), WorkingAt(u, w, j), \A l \in (j + 1)..(n + 1 - 1) : ~ Clears(w[l])
        PROVE  QueuedAt(u, w, n) /\ ~ Clears(w[n])
    <3>1. j \in 1..(n - 1)
      BY <1>1, <2>2
    <3>2. (j + 1)..(n + 1 - 1) = (j + 1)..(n - 1) \cup {n}
      BY <1>1, <3>1
    <3> QED
      BY <2>2, <3>1, <3>2 DEF QueuedAt
  <2> QED
    BY <2>1, <2>2 DEF QueuedAt
<1>5. SettlesAt(u, w, n) \/ (SettledAt(u, w, n) /\ ~ Moves(w[n])) => SettledAt(u, w, n + 1)
  BY <1>1 DEF SettledAt
<1> QED
  BY <1>2, <1>3, <1>4, <1>5

\* The record shows the turn, the queue, the rest and the crew as before, or more of a rest.
Tame(u, v) ==
    /\ v.queued = u.queued /\ v.err = u.err /\ (v.phase = "working" => u.phase = "working")
    /\ SettledUi(u) => SettledUi(v)
    /\ \A a \in Agents : OnCrew(u, a) => OnCrew(v, a)

LEMMA SameSoFar ==
    ASSUME NEW u, NEW v, Tame(u, v), NEW w, NEW x, NEW n \in Nat \ {0}, \A l \in 1..(n - 1) : x[l] = w[l]
    PROVE  /\ \A a \in Agents : Known(u, w, a, n) => Known(v, x, a, n)
           /\ WorkingAt(v, x, n) => WorkingAt(u, w, n)
           /\ QueuedAt(v, x, n) => QueuedAt(u, w, n)
           /\ SettledAt(u, w, n) => SettledAt(v, x, n)
<1>1. \A j \in 1..(n - 1) : j \in Nat \ {0} /\ 1..(j - 1) \subseteq 1..(n - 1) /\ (j + 1)..(n - 1) \subseteq 1..(n - 1)
  OBVIOUS
<1>2. ASSUME NEW a \in Agents, Known(u, w, a, n) PROVE Known(v, x, a, n)
  BY <1>1, <1>2 DEF Known, Spared, Tame
<1>3. ASSUME NEW j \in Nat \ {0}, 1..(j - 1) \subseteq 1..(n - 1), WorkingAt(v, x, j) PROVE WorkingAt(u, w, j)
  <2>1. \A i \in 1..(j - 1) : (i + 1)..(j - 1) \subseteq 1..(n - 1)
    BY <1>3
  <2> QED
    BY <1>3, <2>1 DEF WorkingAt, Tame
<1>4. ASSUME NEW j \in Nat \ {0}, 1..(j - 1) \subseteq 1..(n - 1), QueuedAt(v, x, j) PROVE QueuedAt(u, w, j)
  <2>1. \A i \in 1..(j - 1) : i \in Nat \ {0} /\ (i + 1)..(j - 1) \subseteq 1..(n - 1) /\ 1..(i - 1) \subseteq 1..(n - 1)
    BY <1>4
  <2>2. \A i \in 1..(j - 1) : WorkingAt(v, x, i) => WorkingAt(u, w, i)
    BY <1>3, <2>1
  <2> QED
    BY <1>4, <2>1, <2>2 DEF QueuedAt, Tame
<1>5. ASSUME SettledAt(u, w, n) PROVE SettledAt(v, x, n)
  <2>1. \A j \in 1..(n - 1) : SettlesAt(u, w, j) => SettlesAt(v, x, j)
    BY <1>1, <1>4 DEF SettlesAt
  <2> QED
    BY <1>1, <1>5, <2>1 DEF SettledAt, Tame
<1> QED
  BY <1>2, <1>3, <1>4, <1>5

LEMMA OneHeard ==
    ASSUME NEW u, NEW v, NEW w, NEW x, HeardTurn(u, v, w[1]), HeardCrew(u, v, w[1]),
           NEW n \in Nat \ {0}, \A l \in 1..(n - 1) : x[l] = w[l + 1]
    PROVE  /\ \A a \in Agents : Known(u, w, a, n + 1) => Known(v, x, a, n)
           /\ WorkingAt(v, x, n) => WorkingAt(u, w, n + 1)
           /\ QueuedAt(v, x, n) => QueuedAt(u, w, n + 1)
           /\ SettledAt(u, w, n + 1) => SettledAt(v, x, n)
<1>1. /\ 1 \in 1..(n + 1 - 1)
      /\ \A l \in 1..(n - 1) : l + 1 \in 1..(n + 1 - 1) /\ l + 1 \in 2..(n + 1 - 1) /\ l \in Nat \ {0}
      /\ \A l \in 1..(n + 1 - 1) : l # 1 => l - 1 \in 1..(n - 1) /\ l - 1 + 1 = l
  OBVIOUS
<1>2. ASSUME NEW a \in Agents, Known(u, w, a, n + 1) PROVE Known(v, x, a, n)
  <2>1. CASE OnCrew(u, a) /\ Spared(w, a, 1, n + 1)
    <3>1. OnCrew(v, a)
      BY <1>1, <2>1 DEF HeardCrew, Spared
    <3>2. Spared(x, a, 1, n)
      BY <1>1, <2>1 DEF Spared
    <3> QED
      BY <3>1, <3>2 DEF Known
  <2>2. ASSUME NEW j \in 1..(n + 1 - 1), Told(w[j], a), Spared(w, a, j + 1, n + 1) PROVE Known(v, x, a, n)
    <3>1. CASE j = 1
      <4>1. OnCrew(v, a)
        BY <2>2, <3>1 DEF HeardCrew, Told
      <4>2. Spared(x, a, 1, n)
        BY <1>1, <2>2, <3>1 DEF Spared
      <4> QED
        BY <4>1, <4>2 DEF Known
    <3>2. CASE j # 1
      <4>1. j - 1 \in 1..(n - 1) /\ x[j - 1] = w[j]
        BY <1>1, <3>2
      <4>2. Spared(x, a, j - 1 + 1, n)
        <5>1. \A l \in (j - 1 + 1)..(n - 1) : l \in 1..(n - 1) /\ l + 1 \in (j + 1)..(n + 1 - 1)
          BY <3>2
        <5> QED
          BY <2>2, <5>1 DEF Spared
      <4> QED
        BY <2>2, <4>1, <4>2 DEF Known
    <3> QED
      BY <3>1, <3>2
  <2> QED
    BY <1>2, <2>1, <2>2 DEF Known
<1>3. ASSUME NEW k \in 1..n, WorkingAt(v, x, k) PROVE WorkingAt(u, w, k + 1)
  <2>0. /\ 1 \in 1..(k + 1 - 1) /\ \A l \in 2..(k + 1 - 1) : l - 1 \in 1..(k - 1) /\ l - 1 \in 1..(n - 1) /\ l - 1 + 1 = l
        /\ \A l \in 1..(k + 1 - 1) : l = 1 \/ l \in 2..(k + 1 - 1)
        /\ (1 + 1)..(k + 1 - 1) = 2..(k + 1 - 1)
    OBVIOUS
  <2>1. CASE v.phase = "working" /\ \A l \in 1..(k - 1) : ~ Ends(x[l])
    <3>1. \A l \in 2..(k + 1 - 1) : ~ Ends(w[l])
      BY <2>0, <2>1
    <3>2. ByMain(w[1]) \/ (u.phase = "working" /\ ~ Ends(w[1]))
      BY <2>1 DEF HeardTurn
    <3> QED
      BY <2>0, <3>1, <3>2 DEF WorkingAt
  <2>2. ASSUME NEW j \in 1..(k - 1), ByMain(x[j]), \A l \in (j + 1)..(k - 1) : ~ Ends(x[l]) PROVE WorkingAt(u, w, k + 1)
    <3>1. j + 1 \in 1..(k + 1 - 1) /\ j \in 1..(n - 1)
      OBVIOUS
    <3>2. \A l \in (j + 1 + 1)..(k + 1 - 1) : l - 1 \in (j + 1)..(k - 1) /\ l - 1 \in 1..(n - 1) /\ l - 1 + 1 = l
      OBVIOUS
    <3>3. \A l \in (j + 1 + 1)..(k + 1 - 1) : ~ Ends(w[l])
      BY <2>2, <3>2
    <3>4. ByMain(w[j + 1])
      BY <2>2, <3>1
    <3> QED
      BY <3>1, <3>3, <3>4 DEF WorkingAt
  <2> QED
    BY <1>3, <2>1, <2>2 DEF WorkingAt
<1>4. ASSUME NEW k \in 1..n, QueuedAt(v, x, k) PROVE QueuedAt(u, w, k + 1)
  <2>0. /\ 1 \in 1..(k + 1 - 1) /\ \A l \in 2..(k + 1 - 1) : l - 1 \in 1..(k - 1) /\ l - 1 \in 1..(n - 1) /\ l - 1 + 1 = l
        /\ \A l \in 1..(k + 1 - 1) : l = 1 \/ l \in 2..(k + 1 - 1)
        /\ (1 + 1)..(k + 1 - 1) = 2..(k + 1 - 1)
    OBVIOUS
  <2>1. CASE v.queued /\ \A l \in 1..(k - 1) : ~ Clears(x[l])
    <3>1. \A l \in 2..(k + 1 - 1) : ~ Clears(w[l])
      BY <2>0, <2>1
    <3>2. (Enqueues(w[1]) /\ u.phase = "working") \/ (u.queued /\ ~ Clears(w[1]))
      BY <2>1 DEF HeardTurn
    <3>3. u.phase = "working" => WorkingAt(u, w, 1)
      BY DEF WorkingAt
    <3> QED
      BY <2>0, <3>1, <3>2, <3>3 DEF QueuedAt
  <2>2. ASSUME NEW j \in 1..(k - 1), Enqueues(x[j]), WorkingAt(v, x, j), \A l \in (j + 1)..(k - 1) : ~ Clears(x[l])
        PROVE  QueuedAt(u, w, k + 1)
    <3>1. j + 1 \in 1..(k + 1 - 1) /\ j \in 1..(n - 1) /\ j \in 1..n
      OBVIOUS
    <3>2. \A l \in (j + 1 + 1)..(k + 1 - 1) : l - 1 \in (j + 1)..(k - 1) /\ l - 1 \in 1..(n - 1) /\ l - 1 + 1 = l
      OBVIOUS
    <3>3. \A l \in (j + 1 + 1)..(k + 1 - 1) : ~ Clears(w[l])
      BY <2>2, <3>2
    <3>4. Enqueues(w[j + 1]) /\ WorkingAt(u, w, j + 1)
      BY <1>3, <2>2, <3>1
    <3> QED
      BY <3>1, <3>3, <3>4 DEF QueuedAt
  <2> QED
    BY <1>4, <2>1, <2>2 DEF QueuedAt
<1>5. ASSUME SettledAt(u, w, n + 1) PROVE SettledAt(v, x, n)
  <2>1. CASE SettledUi(u) /\ \A l \in 1..(n + 1 - 1) : ~ Moves(w[l])
    <3>1. SettledUi(v)
      BY <1>1, <2>1 DEF HeardTurn
    <3>2. \A l \in 1..(n - 1) : ~ Moves(x[l])
      BY <1>1, <2>1
    <3> QED
      BY <3>1, <3>2 DEF SettledAt
  <2>2. ASSUME NEW j \in 1..(n + 1 - 1), SettlesAt(u, w, j), \A l \in (j + 1)..(n + 1 - 1) : ~ Moves(w[l])
        PROVE  SettledAt(v, x, n)
    <3>1. CASE j = 1
      <4>1. SettledUi(v)
        <5>1. u.queued => QueuedAt(u, w, 1)
          BY DEF QueuedAt
        <5> QED
          BY <2>2, <3>1, <5>1 DEF HeardTurn, SettlesAt
      <4>2. \A l \in 1..(n - 1) : ~ Moves(x[l])
        BY <1>1, <2>2, <3>1
      <4> QED
        BY <4>1, <4>2 DEF SettledAt
    <3>2. CASE j # 1
      <4>1. j - 1 \in 1..(n - 1) /\ j - 1 \in 1..n /\ j - 1 + 1 = j /\ x[j - 1] = w[j]
        BY <1>1, <3>2
      <4>2. \A l \in (j - 1 + 1)..(n - 1) : l \in 1..(n - 1) /\ l + 1 \in (j + 1)..(n + 1 - 1)
        BY <3>2
      <4>3. \A l \in (j - 1 + 1)..(n - 1) : ~ Moves(x[l])
        BY <2>2, <4>2
      <4>4. SettlesAt(v, x, j - 1)
        BY <1>4, <2>2, <4>1 DEF SettlesAt
      <4> QED
        BY <4>1, <4>3, <4>4 DEF SettledAt
    <3> QED
      BY <3>1, <3>2
  <2> QED
    BY <1>5, <2>1, <2>2 DEF SettledAt
<1>6. n \in 1..n
  OBVIOUS
<1> QED
  BY <1>2, <1>3, <1>4, <1>5, <1>6

-----------------------------------------------------------------------------
(* Told in order.                                                           *)

LEMMA CallersWorkStep ==
    ASSUME TypeInv, CallersWork, [Next]_vars
    PROVE  CallersWork'
<1>1. Caller \in [Calls -> Agents \cup {Main}] /\ Main \notin Agents /\ call \in [Calls -> {"no", "run", "ask", "cli", "over", "cut"}]
      /\ agent \in [Agents -> {"no", "run", "over"}]
  BY SessionAssumption DEF TypeInv
<1>2. CASE UNCHANGED <<cc, call, agent>>
  BY <1>2 DEF CallersWork, Works
<1>3. CASE Type
  BY <1>1, <1>3 DEF Type, Prompted, CallersWork, Works, TypeInv
<1>4. CASE Notice \/ AskNudge \/ Statusline \/ TickRevive \/ Window
  BY <1>2, <1>4, StatuslineIs, TickReviveIs, WindowIs DEF Notice, AskNudge
<1>5. CASE EndOfTurn
  BY <1>1, <1>5 DEF EndOfTurn, NoCallOf, CallersWork, Works, TypeInv
<1>6. CASE Interrupt
  BY <1>1, <1>6 DEF Interrupt, CallsCut, CallersWork, Works, TypeInv
<1>7. CASE IdleNudge
  BY <1>1, <1>7 DEF IdleNudge, CallersWork, Works, TypeInv
<1>8. CASE ClearConversation
  BY <1>1, <1>8 DEF ClearConversation, CallsCut, CallersWork
<1>9. ASSUME NEW k \in Calls, Ask(k) PROVE CallersWork'
  BY <1>1, <1>9 DEF Ask, CallersWork, Works
<1>10. ASSUME NEW k \in Calls, NEW f \in BOOLEAN, StartCall(k, f) PROVE CallersWork'
  BY <1>1, <1>10 DEF StartCall, CallersWork, Works
<1>11. ASSUME NEW k \in Calls, NEW f \in BOOLEAN, EndCall(k, f) PROVE CallersWork'
  BY <1>1, <1>11 DEF EndCall, CallersWork, Works
<1>12. ASSUME NEW k \in Calls, NEW f \in BOOLEAN, InTerminal(k, f), UNCHANGED <<cc, agent>> PROVE CallersWork'
  BY <1>1, <1>12 DEF InTerminal, CallersWork, Works
<1>13. ASSUME NEW k \in Calls, NEW f \in BOOLEAN, AnswerInTerminal(k, f) PROVE CallersWork'
  BY <1>12, <1>13 DEF AnswerInTerminal
<1>14. ASSUME NEW a \in Agents, StartSubagent(a) PROVE CallersWork'
  BY <1>1, <1>14 DEF StartSubagent, CallersWork, Works
<1>15. ASSUME NEW a \in Agents, StopSubagent(a) PROVE CallersWork'
  BY <1>1, <1>15 DEF StopSubagent, NoCallOf, CallersWork, Works
<1>16. ASSUME NEW agents \in BOOLEAN, ApiFailure(agents) PROVE CallersWork'
  <2>1. \A k \in Calls : call[k] \in {"run", "ask", "cli"} => Caller[k] \in Agents /\ agent[Caller[k]] = "run"
    BY <1>1, <1>16 DEF ApiFailure, NoCallOf, CallersWork, Works
  <2>2. CASE agents
    <3>1. call' = CallsCut(Agents)
      BY <1>16, <2>2 DEF ApiFailure
    <3>2. \A k \in Calls : call'[k] \notin {"run", "ask", "cli"}
      BY <1>1, <2>1, <3>1 DEF CallsCut
    <3> QED
      BY <3>2 DEF CallersWork
  <2>3. CASE ~ agents
    <3>1. UNCHANGED <<agent, call>>
      BY <1>16, <2>3 DEF ApiFailure
    <3> QED
      BY <1>1, <2>1, <3>1 DEF CallersWork, Works
  <2> QED
    BY <2>2, <2>3
<1>17. CASE AgentStep
  BY <1>3, <1>4, <1>5, <1>6, <1>7, <1>8, <1>9, <1>10, <1>11, <1>13, <1>14, <1>15, <1>16, <1>17 DEF AgentStep
<1>18. ASSUME NEW i \in 1..MaxWire, Handle(i) \/ Lose(i) PROVE CallersWork'
  BY <1>2, <1>18 DEF Handle, Lose, agentVars
<1>19. ASSUME NEW behavior \in {"allow", "deny", "terminal"}, ResolvePermission(behavior) PROVE CallersWork'
  BY <1>2, <1>19 DEF ResolvePermission, agentVars
<1>20. ASSUME NEW x \in answers, Answered(x) PROVE CallersWork'
  BY <1>1, <1>20 DEF Answered, CallersWork, Works
<1>21. CASE ContinueLands
  <2>1. CASE UNCHANGED cc /\ \E k \in Calls : InTerminal(k, TRUE)
    BY <1>12, <1>21, <2>1 DEF ContinueLands
  <2>2. CASE UNCHANGED call /\ Prompted
    BY <1>1, <1>21, <2>2 DEF ContinueLands, Prompted, CallersWork, Works, TypeInv
  <2> QED
    BY <1>21, <2>1, <2>2, ContinueLandsSends
<1> QED
  BY <1>2, <1>4, <1>17, <1>18, <1>19, <1>20, <1>21 DEF Next, CockpitStep, Window, vars

\* Message m may be sent: the cockpit knows whom it tells of, and comes to show what is left of the turn.
SettlesNow(m) == Settles(m) /\ (m.ev = "Stop" => ~ QueuedAt(ui, wire, Last))

Fits(m) ==
    /\ m.ev = "SubagentStop" => Known(ui, wire, m.of, Last)
    /\ OfCall(m) /\ ~ ByMain(m) => Hooked /\ Known(ui, wire, Caller[m.of], Last)
    /\ \A a \in Agents : agent'[a] = "run" => Told(m, a) \/ (agent[a] = "run" /\ ~ Forgets(m, a))
    /\ cc'.queued => cc'.busy
    /\ ~ cc'.cut => /\ ByMain(m) \/ (WorkingAt(ui, wire, Last) /\ ~ Ends(m)) => cc'.busy
                    /\ (Enqueues(m) /\ WorkingAt(ui, wire, Last)) \/ (QueuedAt(ui, wire, Last) /\ ~ Clears(m)) => cc'.queued
    /\ Rests' => SettlesNow(m) \/ (Rests /\ ~ Moves(m))

Shows == CrewKnown /\ QueueKnown /\ RestKnown /\ Streamed

LEMMA SendsTells ==
    ASSUME TypeInv, TypeInv', Shows, plan' = plan, ui' = ui,
           NEW ev, NEW of, NEW flag, Sends(ev, of, flag), Fits(Msg(ev, of, flag))
    PROVE  Shows'
<1> DEFINE m == wire'[Last]
<1>1. /\ Last \in Nat \ {0} /\ Last' = Last + 1 /\ DOMAIN wire = 1..(Last - 1) /\ DOMAIN wire' = 1..Last
      /\ \A l \in 1..(Last - 1) : wire'[l] = wire[l]
  BY WireIs DEF TypeInv, WireT, Sends, Last
<1>2. m = Msg(ev, of, flag)
  BY <1>1 DEF Sends, MsgT, Msg, Last
<1>3. Fits(m)
  BY <1>2
<1>4. Tame(ui, ui)
  BY DEF Tame
<1>5. ASSUME NEW n \in 1..Last
      PROVE  /\ \A a \in Agents : Known(ui, wire, a, n) => Known(ui, wire', a, n)
             /\ WorkingAt(ui, wire', n) => WorkingAt(ui, wire, n)
             /\ QueuedAt(ui, wire', n) => QueuedAt(ui, wire, n)
             /\ SettledAt(ui, wire, n) => SettledAt(ui, wire', n)
  <2>1. n \in Nat \ {0} /\ \A l \in 1..(n - 1) : wire'[l] = wire[l]
    BY <1>1
  <2> QED
    BY <1>4, <2>1, SameSoFar
<1>6. /\ \A a : Told(m, a) \/ (Known(ui, wire', a, Last) /\ ~ Forgets(m, a)) => Known(ui, wire', a, Last + 1)
      /\ WorkingAt(ui, wire', Last + 1) => ByMain(m) \/ (WorkingAt(ui, wire', Last) /\ ~ Ends(m))
      /\ QueuedAt(ui, wire', Last + 1) => \/ Enqueues(m) /\ WorkingAt(ui, wire', Last)
                                          \/ QueuedAt(ui, wire', Last) /\ ~ Clears(m)
      /\ SettlesAt(ui, wire', Last) \/ (SettledAt(ui, wire', Last) /\ ~ Moves(m)) => SettledAt(ui, wire', Last + 1)
  BY <1>1, OneFurther
<1>7. Last \in 1..Last /\ \A i \in 1..Last : i = Last \/ i \in 1..(Last - 1)
  BY <1>1
<1>8. SettlesNow(m) => SettlesAt(ui, wire', Last)
  BY <1>5, <1>7 DEF SettlesNow, SettlesAt
<1>9. \A i \in DOMAIN wire' : /\ wire'[i].ev = "SubagentStop" => wire'[i].of \in Agents
                              /\ OfCall(wire'[i]) /\ ~ ByMain(wire'[i]) => Caller[wire'[i].of] \in Agents
  BY SessionAssumption DEF TypeInv, WireT, MsgOk, OfCall, ByMain
<1> HIDE DEF m
<1>10. CrewKnown'
  <2>1. ASSUME NEW i \in DOMAIN wire'
        PROVE  /\ wire'[i].ev = "SubagentStop" => Known(ui, wire', wire'[i].of, i)
               /\ OfCall(wire'[i]) /\ ~ ByMain(wire'[i]) => Known(ui, wire', Caller[wire'[i].of], i)
    <3>1. CASE i = Last
      <4>1. wire'[i] = m
        BY <3>1 DEF m
      <4>2. /\ m.ev = "SubagentStop" => m.of \in Agents
            /\ OfCall(m) /\ ~ ByMain(m) => Caller[m.of] \in Agents
        BY <1>9, <4>1
      <4> QED
        BY <1>3, <1>5, <1>7, <3>1, <4>1, <4>2 DEF Fits
    <3>2. CASE i \in 1..(Last - 1)
      <4> DEFINE x == wire[i]
      <4>1. wire'[i] = x /\ i \in DOMAIN wire /\ i \in 1..Last
        BY <1>1, <3>2
      <4>2. /\ x.ev = "SubagentStop" => x.of \in Agents
            /\ OfCall(x) /\ ~ ByMain(x) => Caller[x.of] \in Agents
        BY <1>9, <4>1
      <4>3. /\ x.ev = "SubagentStop" => Known(ui, wire, x.of, i)
            /\ OfCall(x) /\ ~ ByMain(x) => Known(ui, wire, Caller[x.of], i)
        BY <4>1 DEF Shows, CrewKnown
      <4> HIDE DEF x
      <4> QED
        BY <1>5, <4>1, <4>2, <4>3
    <3> QED
      BY <1>1, <1>7, <3>1, <3>2
  <2>2. ASSUME NEW a \in Agents, agent'[a] = "run" PROVE Known(ui, wire', a, Last + 1)
    BY <1>3, <1>5, <1>6, <1>7, <2>2 DEF Fits, Shows, CrewKnown
  <2> QED
    BY <1>1, <2>1, <2>2 DEF CrewKnown
<1>11. QueueKnown'
  <2>1. ASSUME ~ cc'.cut PROVE (WorkingAt(ui, wire', Last + 1) => cc'.busy) /\ (QueuedAt(ui, wire', Last + 1) => cc'.queued)
    BY <1>3, <1>5, <1>6, <1>7, <2>1 DEF Fits
  <2>2. (cc'.queued => cc'.busy) /\ (ui.err # 0 => ~ ui.queued)
    BY <1>3 DEF Fits, Shows, QueueKnown
  <2> QED
    BY <1>1, <2>1, <2>2 DEF QueueKnown
<1>12. RestKnown'
  <2>1. ASSUME Rests' PROVE SettledAt(ui, wire', Last + 1)
    BY <1>3, <1>5, <1>6, <1>7, <1>8, <2>1 DEF Fits, Shows, RestKnown
  <2> QED
    BY <1>1, <2>1 DEF RestKnown
<1>13. Streamed'
  <2>1. ASSUME ~ Hooked, NEW i \in DOMAIN wire', OfCall(wire'[i]) PROVE ByMain(wire'[i])
    <3>1. CASE i = Last
      BY <1>3, <2>1, <3>1 DEF Fits, m
    <3>2. CASE i \in 1..(Last - 1)
      BY <1>1, <2>1, <3>2 DEF Shows, Streamed
    <3> QED
      BY <1>1, <1>7, <3>1, <3>2
  <2>2. ~ Hooked => ~ ui.queued
    BY DEF Shows, Streamed
  <2> QED
    BY <2>1, <2>2 DEF Streamed, Hooked
<1> QED
  BY <1>10, <1>11, <1>12, <1>13 DEF Shows

\* Nothing sent, and the turn and the crew as they were.
LEMMA StillTells ==
    ASSUME TypeInv, TypeInv', Shows, UNCHANGED <<plan, wire, agent>>, Tame(ui, ui'),
           cc' = cc \/ (cc'.cut /\ ~ cc'.queued)
    PROVE  Shows'
<1>1. Last \in Nat \ {0} /\ Last' = Last /\ DOMAIN wire = 1..(Last - 1)
  BY WireIs DEF TypeInv, Last
<1>2. ASSUME NEW n \in 1..Last
      PROVE  /\ \A a \in Agents : Known(ui, wire, a, n) => Known(ui', wire, a, n)
             /\ WorkingAt(ui', wire, n) => WorkingAt(ui, wire, n)
             /\ QueuedAt(ui', wire, n) => QueuedAt(ui, wire, n)
             /\ SettledAt(ui, wire, n) => SettledAt(ui', wire, n)
  <2>1. n \in Nat \ {0}
    BY <1>1
  <2> QED
    BY <2>1, SameSoFar
<1>3. Last \in 1..Last /\ \A i \in DOMAIN wire : i \in 1..Last
  BY <1>1
<1>4. \A i \in DOMAIN wire : /\ wire[i].ev = "SubagentStop" => wire[i].of \in Agents
                             /\ OfCall(wire[i]) /\ ~ ByMain(wire[i]) => Caller[wire[i].of] \in Agents
  BY SessionAssumption DEF TypeInv, WireT, MsgOk, OfCall, ByMain
<1>5. CrewKnown'
  <2>1. ASSUME NEW i \in DOMAIN wire
        PROVE  /\ wire[i].ev = "SubagentStop" => Known(ui', wire, wire[i].of, i)
               /\ OfCall(wire[i]) /\ ~ ByMain(wire[i]) => Known(ui', wire, Caller[wire[i].of], i)
    <3> DEFINE x == wire[i]
    <3>1. /\ x.ev = "SubagentStop" => x.of \in Agents
          /\ OfCall(x) /\ ~ ByMain(x) => Caller[x.of] \in Agents
      BY <1>4
    <3>2. /\ x.ev = "SubagentStop" => Known(ui, wire, x.of, i)
          /\ OfCall(x) /\ ~ ByMain(x) => Known(ui, wire, Caller[x.of], i)
      BY DEF Shows, CrewKnown
    <3> HIDE DEF x
    <3> QED
      BY <1>2, <1>3, <3>1, <3>2 DEF x
  <2>2. ASSUME NEW a \in Agents, agent[a] = "run" PROVE Known(ui', wire, a, Last)
    BY <1>2, <1>3, <2>2 DEF Shows, CrewKnown
  <2> QED
    BY <1>1, <2>1, <2>2 DEF CrewKnown
<1>6. QueueKnown' /\ RestKnown'
  <2>1. CASE cc' = cc
    BY <1>1, <1>2, <1>3, <2>1 DEF Shows, QueueKnown, RestKnown, Rests, Tame
  <2>2. CASE cc'.cut /\ ~ cc'.queued
    BY <2>2 DEF Shows, QueueKnown, RestKnown, Rests, Tame
  <2> QED
    BY <2>1, <2>2
<1>7. Streamed'
  BY DEF Shows, Streamed, Hooked, Tame
<1> QED
  BY <1>5, <1>6, <1>7 DEF Shows

LEMMA HandleTells ==
    ASSUME TypeInv, TypeInv', Shows, NEW n \in 1..MaxWire, Handle(n), plan.told # "lossy"
    PROVE  Shows'
<1> DEFINE m == wire[1]
           len == Len(wire)
<1>1. /\ n = 1 /\ 1 \in DOMAIN wire /\ m \in MsgT /\ MsgOk(m) /\ ui' = Hear(ui, m)
      /\ Len(wire') = len - 1 /\ DOMAIN wire' = 1..(len - 1)
      /\ \A l \in 1..(len - 1) : wire'[l] = IF l < n THEN wire[l] ELSE wire[l + 1]
  BY HandleIs
<1>2. UNCHANGED <<plan, cc, call, agent>>
  BY DEF Handle, agentVars
<1>3. /\ len \in Nat \ {0} /\ DOMAIN wire = 1..len /\ Last = len + 1 /\ Last' = len /\ ui \in UiT
      /\ \A l \in 1..(len - 1) : wire'[l] = wire[l + 1] /\ l + 1 \in 1..len
  BY <1>1, WireIs DEF TypeInv, Last
<1>4. \A i \in DOMAIN wire : /\ wire[i].ev = "SubagentStop" => wire[i].of \in Agents
                             /\ OfCall(wire[i]) /\ ~ ByMain(wire[i]) => Caller[wire[i].of] \in Agents
  BY SessionAssumption DEF TypeInv, WireT, MsgOk, OfCall, ByMain
<1>5. \A a : Known(ui, wire, a, 1) => OnCrew(ui, a)
  BY DEF Known
<1>6. Expected(ui, m)
  <2>1. /\ m.ev = "SubagentStop" => Known(ui, wire, m.of, 1)
        /\ OfCall(m) /\ ~ ByMain(m) => Known(ui, wire, Caller[m.of], 1) /\ Caller[m.of] \in Agents
    BY <1>1, <1>4 DEF Shows, CrewKnown
  <2>2. ~ Hooked => ~ ui.queued /\ (OfCall(m) => ByMain(m))
    BY <1>1 DEF Shows, Streamed
  <2>3. ui.err # 0 => ~ ui.queued
    BY DEF Shows, QueueKnown
  <2> HIDE DEF m
  <2> QED
    BY <1>5, <2>1, <2>2, <2>3 DEF Expected
<1>7. HeardTurn(ui, ui', m) /\ HeardCrew(ui, ui', m) /\ (~ Hooked => ui'.queued = ui.queued)
  <2> HIDE DEF m
  <2> QED
    BY <1>1, <1>3, <1>6, HearIs
<1>8. ASSUME NEW k \in 1..len
      PROVE  /\ \A a \in Agents : Known(ui, wire, a, k + 1) => Known(ui', wire', a, k)
             /\ WorkingAt(ui', wire', k) => WorkingAt(ui, wire, k + 1)
             /\ QueuedAt(ui', wire', k) => QueuedAt(ui, wire, k + 1)
             /\ SettledAt(ui, wire, k + 1) => SettledAt(ui', wire', k)
  <2>1. k \in Nat \ {0} /\ \A l \in 1..(k - 1) : wire'[l] = wire[l + 1]
    BY <1>3
  <2> QED
    BY <1>7, <2>1, OneHeard
<1> HIDE DEF m, len
<1>9. len \in 1..len /\ \A l \in 1..(len - 1) : l \in 1..len
  BY <1>3
<1>10. CrewKnown'
  <2>1. ASSUME NEW i \in DOMAIN wire'
        PROVE  /\ wire'[i].ev = "SubagentStop" => Known(ui', wire', wire'[i].of, i)
               /\ OfCall(wire'[i]) /\ ~ ByMain(wire'[i]) => Known(ui', wire', Caller[wire'[i].of], i)
    <3> DEFINE x == wire[i + 1]
    <3>1. wire'[i] = x /\ i + 1 \in DOMAIN wire /\ i \in 1..len
      BY <1>1, <1>3, <1>9
    <3>2. /\ x.ev = "SubagentStop" => x.of \in Agents
          /\ OfCall(x) /\ ~ ByMain(x) => Caller[x.of] \in Agents
      BY <1>4, <3>1
    <3>3. /\ x.ev = "SubagentStop" => Known(ui, wire, x.of, i + 1)
          /\ OfCall(x) /\ ~ ByMain(x) => Known(ui, wire, Caller[x.of], i + 1)
      BY <3>1 DEF Shows, CrewKnown
    <3> HIDE DEF x
    <3> QED
      BY <1>8, <3>1, <3>2, <3>3
  <2>2. ASSUME NEW a \in Agents, agent'[a] = "run" PROVE Known(ui', wire', a, len)
    BY <1>2, <1>3, <1>8, <1>9, <2>2 DEF Shows, CrewKnown
  <2> QED
    BY <1>3, <2>1, <2>2 DEF CrewKnown
<1>11. QueueKnown'
  <2>1. ASSUME ~ cc'.cut PROVE (WorkingAt(ui', wire', len) => cc'.busy) /\ (QueuedAt(ui', wire', len) => cc'.queued)
    BY <1>2, <1>3, <1>8, <1>9, <2>1 DEF Shows, QueueKnown
  <2>2. (cc'.queued => cc'.busy) /\ (ui'.err # 0 => ~ ui'.queued)
    BY <1>2, <1>7 DEF Shows, QueueKnown, HeardTurn
  <2> QED
    BY <1>3, <2>1, <2>2 DEF QueueKnown
<1>12. RestKnown'
  BY <1>2, <1>3, <1>8, <1>9 DEF Shows, RestKnown, Rests
<1>13. Streamed'
  <2>1. ASSUME ~ Hooked, NEW i \in DOMAIN wire', OfCall(wire'[i]) PROVE ByMain(wire'[i])
    BY <1>1, <1>3, <2>1 DEF Shows, Streamed
  <2>2. ~ Hooked => ~ ui'.queued
    BY <1>7 DEF Shows, Streamed
  <2> QED
    BY <1>2, <2>1, <2>2 DEF Streamed, Hooked
<1> QED
  BY <1>10, <1>11, <1>12, <1>13 DEF Shows

\* Two messages, of which the second settles everything.
LEMMA ClearConversationTells ==
    ASSUME TypeInv, TypeInv', Shows, ClearConversation
    PROVE  Shows'
<1>1. /\ Len(wire') = Len(wire) + 2
      /\ \A l \in 1..Len(wire) : wire'[l] = wire[l]
      /\ wire'[Len(wire) + 1].ev = "SessionEnd" /\ wire'[Len(wire) + 2].ev = "SessionStart"
  BY ClearConversationSends
<1>2. /\ Last \in Nat \ {0} /\ Last' = Last + 2 /\ DOMAIN wire = 1..(Last - 1) /\ DOMAIN wire' = 1..(Last + 1)
      /\ wire'[Last].ev = "SessionEnd" /\ wire'[Last + 1].ev = "SessionStart" /\ Last + 1 + 1 = Last + 2 /\ Last + 1 \in Nat \ {0}
      /\ \A l \in 1..(Last - 1) : wire'[l] = wire[l]
  BY <1>1, WireIs DEF TypeInv, WireT, Last
<1>3. /\ UNCHANGED <<plan, ui>> /\ ~ cc.busy /\ cc' = [cc EXCEPT !.cut = FALSE, !.nudge = FALSE] /\ agent' = AgentsCut
      /\ Hooked
  BY DEF ClearConversation
<1>4. Tame(ui, ui)
  BY DEF Tame
<1>5. ASSUME NEW n \in 1..Last, NEW a \in Agents, Known(ui, wire, a, n) PROVE Known(ui, wire', a, n)
  <2>1. n \in Nat \ {0} /\ \A l \in 1..(n - 1) : wire'[l] = wire[l]
    BY <1>2
  <2> QED
    BY <1>4, <1>5, <2>1, SameSoFar
<1> DEFINE start == wire'[Last + 1]
<1>6. /\ WorkingAt(ui, wire', Last + 2) => ByMain(start) \/ ~ Ends(start)
      /\ QueuedAt(ui, wire', Last + 2) => Enqueues(start) \/ ~ Clears(start)
      /\ SettlesAt(ui, wire', Last + 1) => SettledAt(ui, wire', Last + 2)
  <2>1. /\ WorkingAt(ui, wire', Last + 1 + 1) => ByMain(start) \/ (WorkingAt(ui, wire', Last + 1) /\ ~ Ends(start))
        /\ QueuedAt(ui, wire', Last + 1 + 1) => (Enqueues(start) /\ WorkingAt(ui, wire', Last + 1)) \/ (QueuedAt(ui, wire', Last + 1) /\ ~ Clears(start))
        /\ SettlesAt(ui, wire', Last + 1) \/ (SettledAt(ui, wire', Last + 1) /\ ~ Moves(start)) => SettledAt(ui, wire', Last + 1 + 1)
    BY <1>2, OneFurther
  <2> QED
    BY <1>2, <2>1
<1>7. Settles(start) /\ ~ ByMain(start) /\ ~ Enqueues(start) /\ start.ev # "Stop"
  BY <1>2 DEF Settles, ByMain, OfCall, Enqueues
<1>8. ~ WorkingAt(ui, wire', Last + 2) /\ ~ QueuedAt(ui, wire', Last + 2) /\ SettledAt(ui, wire', Last + 2)
  BY <1>6, <1>7 DEF Ends, Clears, SettlesAt
<1>9. CrewKnown'
  <2>1. ASSUME NEW i \in DOMAIN wire'
        PROVE  /\ wire'[i].ev = "SubagentStop" => Known(ui, wire', wire'[i].of, i)
               /\ OfCall(wire'[i]) /\ ~ ByMain(wire'[i]) => Known(ui, wire', Caller[wire'[i].of], i)
    <3>1. CASE i \in {Last, Last + 1}
      BY <1>2, <3>1 DEF OfCall
    <3>2. CASE i \in 1..(Last - 1)
      <4> DEFINE x == wire[i]
      <4>1. wire'[i] = x /\ i \in DOMAIN wire /\ i \in 1..Last
        BY <1>2, <3>2
      <4>2. /\ x.ev = "SubagentStop" => x.of \in Agents
            /\ OfCall(x) /\ ~ ByMain(x) => Caller[x.of] \in Agents
        BY <4>1, SessionAssumption DEF TypeInv, WireT, MsgOk, OfCall, ByMain
      <4>3. /\ x.ev = "SubagentStop" => Known(ui, wire, x.of, i)
            /\ OfCall(x) /\ ~ ByMain(x) => Known(ui, wire, Caller[x.of], i)
        BY <4>1 DEF Shows, CrewKnown
      <4> HIDE DEF x
      <4> QED
        BY <1>5, <4>1, <4>2, <4>3
    <3>3. i \in {Last, Last + 1} \/ i \in 1..(Last - 1)
      BY <1>2
    <3> QED
      BY <3>1, <3>2, <3>3
  <2>2. \A a \in Agents : agent'[a] # "run"
    BY <1>3 DEF AgentsCut
  <2> QED
    BY <1>3, <2>1, <2>2 DEF CrewKnown
<1>10. QueueKnown' /\ RestKnown'
  <2>1. cc'.queued => cc'.busy
    BY <1>3 DEF Shows, QueueKnown, TypeInv
  <2> QED
    BY <1>2, <1>3, <1>8, <2>1 DEF Shows, QueueKnown, RestKnown
<1>11. Streamed'
  BY <1>3 DEF Streamed, Hooked
<1> QED
  BY <1>9, <1>10, <1>11 DEF Shows

\* Nothing of the turn or of the crew is told.
LEMMA AsideFits ==
    ASSUME Shows, UNCHANGED <<cc, agent>>, NEW m,
           m.ev \in {"permission", "permission-resolved"} \/ (m.ev = "Notification" /\ m.of = "permission_prompt")
    PROVE  Fits(m)
<1>1. ~ OfCall(m) /\ ~ Moves(m) /\ ~ Ends(m) /\ ~ Clears(m) /\ ~ Enqueues(m) /\ \A a : ~ Forgets(m, a)
  BY DEF OfCall, Moves, Stirs, Prompts, ByMain, Ends, Clears, Settles, Enqueues, Forgets, Resets
<1>2. m.ev # "SubagentStop"
  OBVIOUS
<1>3. Rests' = Rests
  BY DEF Rests
<1> QED
  BY <1>1, <1>2, <1>3 DEF Fits, Shows, QueueKnown, ByMain

\* A prompt, typed or continued, opens a turn or waits for the one that runs.
LEMMA PromptFits ==
    ASSUME TypeInv, Shows, Prompted, agent' = agent
    PROVE  Fits(Msg(IF Hooked THEN "UserPromptSubmit" ELSE "turn-started", 0, FALSE))
<1> DEFINE m == Msg(IF Hooked THEN "UserPromptSubmit" ELSE "turn-started", 0, FALSE)
<1>1. m.ev = (IF Hooked THEN "UserPromptSubmit" ELSE "turn-started")
  BY DEF Msg
<1>2. cc'.busy = TRUE /\ cc'.cut = cc.cut /\ cc'.queued = (cc.queued \/ cc.busy)
  BY DEF Prompted, TypeInv
<1> HIDE DEF m
<1>3. ~ OfCall(m) /\ m.ev # "SubagentStop" /\ \A a : ~ Forgets(m, a)
  BY <1>1 DEF OfCall, Forgets, Resets
<1>4. ~ cc'.cut => /\ Enqueues(m) /\ WorkingAt(ui, wire, Last) => cc'.queued
                   /\ QueuedAt(ui, wire, Last) => cc'.queued
  BY <1>2 DEF Shows, QueueKnown
<1>5. Fits(m)
  BY <1>2, <1>3, <1>4 DEF Fits, Rests
<1> QED
  BY <1>5 DEF m

\* Only who is at work makes a call.
LEMMA CallFits ==
    ASSUME TypeInv, CallersWork, Shows, UNCHANGED <<cc, agent>>,
           NEW k \in Calls, Works(Caller[k]), NEW m, OfCall(m), m.of = k
    PROVE  Fits(m)
<1>1. ~ Prompts(m) /\ ~ Clears(m) /\ ~ Enqueues(m) /\ m.ev # "SubagentStop" /\ \A a : ~ Forgets(m, a)
  BY DEF OfCall, Prompts, Clears, Settles, Enqueues, Forgets, Resets
<1>2. ByMain(m) => cc.busy
  BY DEF ByMain, Works
<1>3. ~ ByMain(m) => Hooked /\ Known(ui, wire, Caller[k], Last) /\ ~ Moves(m)
  <2> SUFFICES ASSUME ~ ByMain(m) PROVE Hooked /\ Known(ui, wire, Caller[k], Last) /\ ~ Moves(m)
    OBVIOUS
  <2>1. Caller[k] \in Agents /\ agent[Caller[k]] = "run"
    BY SessionAssumption DEF ByMain, Works
  <2>2. Hooked
    BY <2>1 DEF TypeInv
  <2> QED
    BY <1>1, <2>1, <2>2 DEF Shows, CrewKnown, Moves, Stirs, Clears
<1>4. Rests' = Rests /\ (cc.busy => ~ Rests)
  BY DEF Rests
<1> QED
  BY <1>1, <1>2, <1>3, <1>4 DEF Fits, Shows, QueueKnown

\* The turn's end tells of everything the turn left open.
LEMMA EndFits ==
    ASSUME Shows, NEW m, Settles(m), \A a \in Agents : agent'[a] = "run" => agent[a] = "run" /\ ~ Forgets(m, a),
           cc'.queued => cc'.busy, Rests' /\ m.ev = "Stop" => ~ QueuedAt(ui, wire, Last)
    PROVE  Fits(m)
<1>1. ~ OfCall(m) /\ m.ev # "SubagentStop" /\ Ends(m) /\ Clears(m) /\ ~ Enqueues(m)
  BY DEF Settles, OfCall, Ends, Clears, Enqueues
<1> QED
  BY <1>1 DEF Fits, SettlesNow, ByMain

LEMMA ResolvedTells ==
    ASSUME TypeInv, TypeInv', Shows, UNCHANGED <<plan, cc, agent, ui>>, NEW k,
           wire' = wire \/ Sends("permission-resolved", k, FALSE)
    PROVE  Shows'
<1>1. Tame(ui, ui')
  BY DEF Tame
<1> DEFINE m == Msg("permission-resolved", k, FALSE)
<1>2. m.ev = "permission-resolved"
  BY DEF Msg
<1> HIDE DEF m
<1>3. Fits(m)
  BY <1>2, AsideFits
<1> QED
  BY <1>1, <1>3, StillTells, SendsTells DEF m

LEMMA AgentTells ==
    ASSUME TypeInv, TypeInv', CallersWork, Shows, AgentStep
    PROVE  Shows'
<1>0. \A a \in Agents : agent[a] = "run" => Known(ui, wire, a, Last)
  BY DEF Shows, CrewKnown
<1>1. CASE Type
  <2>1. Prompted /\ UNCHANGED <<plan, agent, ui>>
    BY <1>1 DEF Type
  <2>2. Fits(Msg(IF Hooked THEN "UserPromptSubmit" ELSE "turn-started", 0, FALSE))
    BY <2>1, PromptFits
  <2> QED
    BY <1>1, <2>1, <2>2, TypeSends, SendsTells
<1>2. CASE Notice
  <2>1. cc.busy /\ UNCHANGED <<plan, cc, agent, ui>>
    BY <1>2 DEF Notice
  <2> DEFINE m == Msg("UserPromptSubmit", 0, TRUE)
  <2>2. m.ev = "UserPromptSubmit" /\ m.flag = TRUE
    BY DEF Msg
  <2> HIDE DEF m
  <2>3. Fits(m)
    BY <1>0, <2>1, <2>2 DEF Fits, Shows, QueueKnown, Rests, OfCall, ByMain, Ends, Prompts, Enqueues, Told, Forgets, Resets
  <2> QED
    BY <1>2, <2>1, <2>3, NoticeSends, SendsTells DEF m
<1>3. CASE EndOfTurn
  <2>1. /\ UNCHANGED <<plan, agent, ui>> /\ cc'.busy = cc.queued /\ cc'.queued = FALSE /\ cc'.cut = cc.cut
    BY <1>3 DEF EndOfTurn, TypeInv
  <2> DEFINE m == Msg(IF Hooked THEN "Stop" ELSE "turn-completed", 0, FALSE)
  <2>2. m.ev \in {"Stop", "turn-completed"}
    BY DEF Msg
  <2> HIDE DEF m
  <2>3. Rests' => ~ QueuedAt(ui, wire, Last)
    BY <2>1 DEF Rests, Shows, QueueKnown
  <2>4. Settles(m) /\ \A a \in Agents : ~ Forgets(m, a)
    BY <2>2 DEF Settles, Forgets, Resets
  <2>5. Fits(m)
    BY <2>1, <2>3, <2>4, EndFits
  <2> QED
    BY <1>3, <2>1, <2>5, EndOfTurnSends, SendsTells DEF m
<1>4. CASE Interrupt
  <2>1. /\ UNCHANGED <<plan, agent, ui>> /\ cc'.busy = FALSE /\ cc'.queued = FALSE /\ cc'.cut = Hooked
    BY <1>4 DEF Interrupt, TypeInv
  <2>2. CASE Hooked
    <3>1. wire' = wire /\ Tame(ui, ui')
      BY <1>4, <2>1, <2>2, InterruptSends DEF Tame
    <3> QED
      BY <2>1, <2>2, <3>1, StillTells
  <2>3. CASE ~ Hooked
    <3> DEFINE m == Msg("turn-completed", 0, FALSE)
    <3>1. m.ev = "turn-completed"
      BY DEF Msg
    <3> HIDE DEF m
    <3>2. Settles(m) /\ m.ev # "Stop" /\ \A a \in Agents : ~ Forgets(m, a)
      BY <3>1 DEF Settles, Forgets, Resets
    <3>3. Fits(m)
      BY <2>1, <3>2, EndFits
    <3> QED
      BY <1>4, <2>1, <2>3, <3>3, InterruptSends, SendsTells DEF m
  <2> QED
    BY <2>2, <2>3
<1>5. CASE IdleNudge
  <2>1. UNCHANGED <<plan, agent, ui>> /\ cc'.busy = cc.busy /\ cc'.queued = cc.queued
    BY <1>5 DEF IdleNudge, TypeInv
  <2> DEFINE m == Msg("Notification", "idle_prompt", FALSE)
  <2>2. m.ev = "Notification" /\ m.of = "idle_prompt"
    BY DEF Msg
  <2> HIDE DEF m
  <2>3. Settles(m) /\ m.ev # "Stop" /\ \A a \in Agents : ~ Forgets(m, a)
    BY <2>2 DEF Settles, Forgets, Resets
  <2>4. Fits(m)
    BY <2>1, <2>3, EndFits DEF Shows, QueueKnown
  <2> QED
    BY <1>5, <2>1, <2>4, IdleNudgeSends, SendsTells DEF m
<1>6. CASE AskNudge
  <2>1. UNCHANGED <<plan, cc, agent, ui>>
    BY <1>6 DEF AskNudge
  <2> DEFINE m == Msg("Notification", "permission_prompt", FALSE)
  <2>2. m.ev = "Notification" /\ m.of = "permission_prompt"
    BY DEF Msg
  <2> HIDE DEF m
  <2>3. Fits(m)
    BY <2>1, <2>2, AsideFits
  <2> QED
    BY <1>6, <2>1, <2>3, AskNudgeSends, SendsTells DEF m
<1>7. CASE ClearConversation
  BY <1>7, ClearConversationTells
<1>8. ASSUME NEW k \in Calls, Ask(k) PROVE Shows'
  <2>1. UNCHANGED <<plan, cc, agent, ui>>
    BY <1>8 DEF Ask
  <2> DEFINE m == Msg("permission", k, FALSE)
  <2>2. m.ev = "permission"
    BY DEF Msg
  <2> HIDE DEF m
  <2>3. Fits(m)
    BY <2>1, <2>2, AsideFits
  <2> QED
    BY <1>8, <2>1, <2>3, AskSends, SendsTells DEF m
<1>9. ASSUME NEW k \in Calls, NEW f \in BOOLEAN, StartCall(k, f) PROVE Shows'
  <2>1. UNCHANGED <<plan, cc, agent, ui>> /\ Works(Caller[k])
    BY <1>9 DEF StartCall
  <2> DEFINE m == Msg(IF Hooked THEN "PreToolUse" ELSE "activity-started", k, f)
  <2>2. OfCall(m) /\ m.of = k
    BY DEF Msg, OfCall
  <2> HIDE DEF m
  <2>3. Fits(m)
    BY <2>1, <2>2, CallFits
  <2> QED
    BY <1>9, <2>1, <2>3, StartCallSends, SendsTells DEF m
<1>10. ASSUME NEW k \in Calls, NEW f \in BOOLEAN, EndCall(k, f) PROVE Shows'
  <2>1. UNCHANGED <<plan, cc, agent, ui>> /\ Works(Caller[k])
    BY <1>10 DEF EndCall, CallersWork
  <2> DEFINE m == Msg(IF Hooked THEN "PostToolUse" ELSE "activity-completed", k, f)
  <2>2. OfCall(m) /\ m.of = k
    BY DEF Msg, OfCall
  <2> HIDE DEF m
  <2>3. Fits(m)
    BY <2>1, <2>2, CallFits
  <2> QED
    BY <1>10, <2>1, <2>3, EndCallSends, SendsTells DEF m
<1>11. ASSUME NEW k \in Calls, NEW f \in BOOLEAN, AnswerInTerminal(k, f) PROVE Shows'
  <2>1. UNCHANGED <<plan, cc, agent, ui>> /\ InTerminal(k, f)
    BY <1>11 DEF AnswerInTerminal
  <2>2. wire' = wire \/ Sends("permission-resolved", k, FALSE)
    BY <2>1, InTerminalSends
  <2> QED
    BY <2>1, <2>2, ResolvedTells
<1>12. ASSUME NEW a \in Agents, StartSubagent(a) PROVE Shows'
  <2>1. UNCHANGED <<plan, cc, ui>> /\ cc.busy /\ agent' = [agent EXCEPT ![a] = "run"]
    BY <1>12 DEF StartSubagent
  <2> DEFINE m == Msg("SubagentStart", a, FALSE)
  <2>2. m.ev = "SubagentStart" /\ m.of = a
    BY DEF Msg
  <2> HIDE DEF m
  <2>3. ~ OfCall(m) /\ ~ Enqueues(m) /\ \A b \in Agents : agent'[b] = "run" => Told(m, b) \/ (agent[b] = "run" /\ ~ Forgets(m, b))
    BY <2>1, <2>2 DEF TypeInv, OfCall, Enqueues, Told, Forgets, Resets
  <2>4. Fits(m)
    BY <2>1, <2>2, <2>3 DEF Fits, Shows, QueueKnown, Rests, ByMain
  <2> QED
    BY <1>12, <2>1, <2>4, StartSubagentSends, SendsTells DEF m
<1>13. ASSUME NEW a \in Agents, StopSubagent(a) PROVE Shows'
  <2>1. UNCHANGED <<plan, cc, ui>> /\ agent[a] = "run" /\ agent' = [agent EXCEPT ![a] = "over"]
    BY <1>13 DEF StopSubagent
  <2> DEFINE m == Msg("SubagentStop", a, FALSE)
  <2>2. m.ev = "SubagentStop" /\ m.of = a
    BY DEF Msg
  <2> HIDE DEF m
  <2>3. /\ ~ OfCall(m) /\ ~ Enqueues(m) /\ ~ Moves(m)
        /\ \A b \in Agents : agent'[b] = "run" => agent[b] = "run" /\ ~ Forgets(m, b)
    BY <2>1, <2>2 DEF TypeInv, OfCall, Enqueues, Moves, Stirs, Prompts, ByMain, Clears, Settles, Forgets, Resets
  <2>4. Known(ui, wire, m.of, Last) /\ Rests' = Rests
    BY <1>0, <2>1, <2>2 DEF Rests
  <2>5. Fits(m)
    BY <2>1, <2>3, <2>4 DEF Fits, Shows, QueueKnown, ByMain
  <2> QED
    BY <1>13, <2>1, <2>5, StopSubagentSends, SendsTells DEF m
<1>14. ASSUME NEW agents \in BOOLEAN, ApiFailure(agents) PROVE Shows'
  <2>1. UNCHANGED <<plan, ui>> /\ cc'.queued = FALSE /\ \A a \in Agents : agent'[a] = "run" => agent[a] = "run"
    BY <1>14 DEF ApiFailure, AgentsCut, TypeInv
  <2> DEFINE m == Msg(IF Hooked THEN "StopFailure" ELSE "turn-completed", fails + 1, ~ Hooked)
  <2>2. m.ev \in {"StopFailure", "turn-completed"}
    BY DEF Msg
  <2> HIDE DEF m
  <2>3. Settles(m) /\ m.ev # "Stop" /\ \A a \in Agents : ~ Forgets(m, a)
    BY <2>2 DEF Settles, Forgets, Resets
  <2>4. Fits(m)
    BY <2>1, <2>3, EndFits
  <2> QED
    BY <1>14, <2>1, <2>4, ApiFailureSends, SendsTells DEF m
<1> QED
  BY <1>1, <1>2, <1>3, <1>4, <1>5, <1>6, <1>7, <1>8, <1>9, <1>10, <1>11, <1>12, <1>13, <1>14 DEF AgentStep

LEMMA CockpitTells ==
    ASSUME TypeInv, TypeInv', Shows, CockpitStep, plan.told # "lossy"
    PROVE  Shows'
<1>1. ASSUME NEW i \in 1..MaxWire, Handle(i) \/ Lose(i) PROVE Shows'
  BY <1>1, HandleTells DEF Lose
<1>2. CASE Statusline
  <2>1. UNCHANGED <<plan, cc, agent, wire>> /\ ui' \in {ui, SetPhase(ui, "idle")}
    BY <1>2, StatuslineIs
  <2>2. Tame(ui, SetPhase(ui, "idle"))
    BY DEF Tame, SetPhase, SettledUi, OnCrew, TypeInv, UiT
  <2>3. Tame(ui, ui)
    BY DEF Tame
  <2> QED
    BY <2>1, <2>2, <2>3, StillTells
<1>3. ASSUME UNCHANGED <<plan, cc, agent, wire>>, Aside(ui, ui') PROVE Shows'
  <2>1. Tame(ui, ui')
    BY <1>3 DEF Tame, Aside, SettledUi
  <2> QED
    BY <1>3, <2>1, StillTells
<1>4. CASE TickRevive \/ Window
  BY <1>3, <1>4, TickReviveIs, WindowIs
<1>5. ASSUME NEW behavior \in {"allow", "deny", "terminal"}, ResolvePermission(behavior) PROVE Shows'
  BY <1>3, <1>5, ResolvePermissionIs
<1>6. ASSUME NEW x \in answers, Answered(x) PROVE Shows'
  <2>1. UNCHANGED <<plan, cc, agent, ui>> /\ (wire' = wire \/ Sends("permission-resolved", x[1], FALSE))
    BY <1>6, AnsweredSends
  <2> QED
    BY <2>1, ResolvedTells
<1>7. CASE ContinueLands
  <2>1. UNCHANGED <<plan, agent, ui>>
    BY <1>7, ContinueLandsSends
  <2>2. ASSUME UNCHANGED cc, NEW k, wire' = wire \/ Sends("permission-resolved", k, FALSE) PROVE Shows'
    BY <2>1, <2>2, ResolvedTells
  <2>3. ASSUME Prompted, Sends(IF Hooked THEN "UserPromptSubmit" ELSE "turn-started", 0, FALSE) PROVE Shows'
    BY <2>1, <2>3, PromptFits, SendsTells
  <2> QED
    BY <1>7, <2>2, <2>3, ContinueLandsSends
<1> QED
  BY <1>1, <1>2, <1>4, <1>5, <1>6, <1>7 DEF CockpitStep, Window

LEMMA InOrderStep ==
    ASSUME TypeInv, TypeInv', InOrder, [Next]_vars
    PROVE  InOrder'
<1>1. plan' = plan
  <2>1. CASE AgentStep
    BY <2>1
       DEF AgentStep, Type, Notice, EndOfTurn, Interrupt, IdleNudge, AskNudge, ClearConversation, Ask, StartCall, EndCall,
           AnswerInTerminal, StartSubagent, StopSubagent, ApiFailure
  <2>2. CASE CockpitStep
    BY <2>2
       DEF CockpitStep, Handle, Lose, Statusline, ResolvePermission, Answered, TickRevive, ContinueLands,
           RungDue, StragglerPast, StallPast, GracePast, DeadPast, OrphanPast, Pass
  <2> QED
    BY <2>1, <2>2 DEF Next, vars
<1> SUFFICES ASSUME plan.told # "lossy" PROVE CallersWork' /\ Shows'
  BY <1>1 DEF InOrder, Shows
<1>2. CallersWork /\ Shows
  BY DEF InOrder, Shows
<1>3. CallersWork'
  BY <1>2, CallersWorkStep
<1>4. CASE UNCHANGED vars
  <2>1. Tame(ui, ui')
    BY <1>4 DEF Tame, vars
  <2> QED
    BY <1>2, <1>3, <1>4, <2>1, StillTells DEF vars
<1> QED
  BY <1>2, <1>3, <1>4, AgentTells, CockpitTells DEF Next

LEMMA InOrderAlways == Spec => [](Held /\ InOrder)
<1>1. Init => InOrder
  <2> SUFFICES ASSUME Init PROVE CallersWork /\ CrewKnown /\ QueueKnown /\ RestKnown /\ Streamed
    BY DEF InOrder
  <2>1. Last = 1 /\ DOMAIN wire = {} /\ 1..(1 - 1) = {}
    BY DEF Init, Last
  <2>2. ui.phase = "idle" /\ ui.queued = FALSE /\ ui.err = 0
    BY DEF Init, FreshUi
  <2>3. (\A k \in Calls : call[k] = "no") /\ (\A a \in Agents : agent[a] = "no") /\ cc.busy = FALSE /\ cc.queued = FALSE
    BY DEF Init
  <2> QED
    BY <2>1, <2>2, <2>3
       DEF CallersWork, CrewKnown, QueueKnown, RestKnown, Streamed, WorkingAt, QueuedAt, SettledAt, SettledUi
<1>2. Held /\ InOrder /\ [Next]_vars => InOrder'
  BY TypeStep, InOrderStep DEF Held
<1> QED
  BY <1>1, <1>2, HeldAlways, PTL DEF Spec

\* Told in order, the cockpit shows a resting agent at rest once it has heard everything, and no
\* prompt queued: for any plan of calls, subagents, turns and failures (endTurn, StopFailure, the idle
\* Notification, the straggler window).
THEOREM RestIsAlwaysShown == Spec => []RestIsShown
<1>1. Held /\ InOrder => RestIsShown
  <2> SUFFICES ASSUME TypeInv, CallersWork, Shows, plan.told # "lossy", Quiet, Rests, ~ AgentRuns
               PROVE  SettledUi(ui) /\ ~ ui.queued
    BY DEF Held, InOrder, Shows, RestIsShown, SettledUi
  <2>1. Last = 1 /\ 1..(1 - 1) = {}
    BY DEF Quiet, Last
  <2>2. SettledUi(ui)
    BY <2>1 DEF Shows, RestKnown, SettledAt
  <2>3. ~ ui.queued
    BY <2>1 DEF Shows, QueueKnown, QueuedAt, Rests
  <2> QED
    BY <2>2, <2>3
<1> QED
  BY <1>1, InOrderAlways, PTL

\* Told in order, a resting session whose subagents still run is shown waiting for every one of them,
\* however many fan-outs and turns went by (liveFanout, startFanout, the Subagent hooks).
THEOREM CrewIsAlwaysShown == Spec => []CrewIsShown
<1>1. Held /\ InOrder => CrewIsShown
  <2> SUFFICES ASSUME Shows, Quiet, AgentRuns, NEW a \in Agents, agent[a] = "run"
               PROVE  LiveFanout(ui) /\ ui.crew[a] # "no"
    BY DEF Held, InOrder, Shows, CrewIsShown, AgentRuns
  <2>1. Last = 1 /\ 1..(1 - 1) = {}
    BY DEF Quiet, Last
  <2>2. OnCrew(ui, a)
    BY <2>1 DEF Shows, CrewKnown, Known
  <2> QED
    BY <2>2 DEF OnCrew, LiveFanout, LiveCrew
<1> QED
  BY <1>1, InOrderAlways, PTL

-----------------------------------------------------------------------------
(* The tasks: no step has a pane before what it depends on succeeded, and   *)
(* the rule never runs beside its own run, for any tasks, dependencies and  *)
(* bounds.  A launch is a record, and a step makes another of it: what      *)
(* holds of each launch is stated of the record, and of what a step makes.  *)

Frames == {"no", "enter", "deps", "spawn", "exit", "ok", "failed"}
Panes == {"no", "starting", "run", "dead", "lost", "unseen", "closed", "zero", "bad"}
RunT == [by : {"hand", "stop", "rerun"}, st : {"discover", "go", "over"}, root : Tasks, group : BOOLEAN,
         frame : [Tasks -> Frames], seen : [Tasks -> SUBSET Tasks], pane : [Tasks -> Panes]]

\* A promise not settled yet: what it will do is still to come.
Ahead == {"no", "enter", "deps"}

\* What holds of a launch.
DepsFirst(r) == r.by # "rerun" => \A t \in Tasks : r.pane[t] # "no" => \A x \in TasksOf!Deps(t) : r.frame[x] = "ok"
PanesFit(r) == \A t \in Tasks : (r.frame[t] \in Ahead => r.pane[t] = "no") /\ (r.frame[t] = "spawn" => r.pane[t] # "no")
Untouched(r) == \A t \in Tasks : r.frame[t] = "no"
RootFits(r) ==
    /\ r.by = "stop" => r.root = Root
    /\ r.st = "discover" => r.by = "stop" /\ Untouched(r)
    /\ r.st = "over" => r.frame[r.root] \in TasksOf!Settled \/ Untouched(r)
    /\ r.frame[r.root] # "exit"
Fine(r) == r \in RunT /\ PanesFit(r) /\ RootFits(r) /\ DepsFirst(r)

\* A run after a turn, before its promise is settled, or while its pane runs.
Awaited(r) == r.by = "stop" /\ r.st \in {"discover", "go"}
Stops(r) == Awaited(r) \/ (r.by = "stop" /\ r.pane[Root] \in {"starting", "run"})

\* What a step may make of a launch: it is asked for no more than it was.
Goes(r, q) == Fine(q) /\ (Stops(q) => Stops(r)) /\ (Awaited(q) => Awaited(r))

TasksInv ==
    /\ run \in Seq(RunT) /\ inFlight \in BOOLEAN
    /\ \A t \in Tasks : TasksOf!Deps(t) \subseteq Tasks
    /\ \A c \in DOMAIN run : Fine(run[c])
    /\ \A c \in DOMAIN run : Awaited(run[c]) => inFlight
    /\ \A c, d \in DOMAIN run : Stops(run[c]) /\ Stops(run[d]) => c = d

-----------------------------------------------------------------------------
(* A launch, as one step changes it.                                        *)

LEMMA OverGoes ==
    ASSUME NEW r, NEW q, Goes(r, q)
    PROVE  Goes(r, TasksOf!Over(q))
<1>1. CASE q.st = "go" /\ q.frame[q.root] \in TasksOf!Settled
  <2> DEFINE o == [q EXCEPT !.st = "over"]
  <2>1. q \in RunT
    BY DEF Goes, Fine
  <2>2. /\ o \in RunT /\ o.by = q.by /\ o.st = "over" /\ o.root = q.root /\ o.frame = q.frame /\ o.pane = q.pane
    BY <2>1 DEF RunT
  <2>3. TasksOf!Over(q) = o
    BY <1>1 DEF TasksOf!Over
  <2> HIDE DEF o
  <2>4. Fine(o)
    BY <1>1, <2>1, <2>2 DEF Goes, Fine, PanesFit, RootFits, DepsFirst, TasksOf!Settled, RunT
  <2> QED
    BY <2>2, <2>3, <2>4 DEF Goes, Stops, Awaited
<1>2. CASE ~ (q.st = "go" /\ q.frame[q.root] \in TasksOf!Settled)
  BY <1>2 DEF TasksOf!Over
<1> QED
  BY <1>1, <1>2

\* A promise moves on: none that succeeded is touched, and no pane changes.
LEMMA FrameGoes ==
    ASSUME NEW r, Fine(r), NEW q \in RunT, q.by = r.by, q.st = r.st, q.root = r.root, q.pane = r.pane,
           ~ Untouched(r), q.frame[q.root] # "exit", \A t \in Tasks : TasksOf!Deps(t) \subseteq Tasks,
           \A t \in Tasks : /\ r.frame[t] \in TasksOf!Settled => q.frame[t] = r.frame[t]
                            /\ q.frame[t] \in Ahead => r.frame[t] \in Ahead
                            /\ q.frame[t] = "spawn" => r.pane[t] # "no"
    PROVE  Goes(r, q)
<1>1. PanesFit(q) /\ DepsFirst(q)
  BY DEF Fine, PanesFit, DepsFirst, TasksOf!Settled
<1>2. RootFits(q)
  BY DEF Fine, RootFits, RunT
<1> QED
  BY <1>1, <1>2 DEF Goes, Fine, Stops, Awaited

\* A pane that was there changes, with the promise that waits for its process.
LEMMA PaneGoes ==
    ASSUME NEW r, Fine(r), NEW q \in RunT, q.by = r.by, q.st = r.st, q.root = r.root,
           q.frame[q.root] # "exit", \A t \in Tasks : TasksOf!Deps(t) \subseteq Tasks,
           \A t \in Tasks : /\ q.frame[t] = r.frame[t] \/ (r.frame[t] \in {"spawn", "exit"} /\ q.frame[t] \in {"exit"} \cup TasksOf!Settled)
                            /\ q.pane[t] = r.pane[t] \/ (r.pane[t] # "no" /\ q.pane[t] # "no")
                            /\ q.pane[t] \in {"starting", "run"} => r.pane[t] \in {"starting", "run"}
    PROVE  Goes(r, q)
<1>1. PanesFit(q) /\ DepsFirst(q)
  BY DEF Fine, PanesFit, DepsFirst, TasksOf!Settled, Ahead
<1>2. Untouched(r) => Untouched(q)
  BY DEF Untouched
<1>3. RootFits(q)
  BY <1>2 DEF Fine, RootFits, RunT, TasksOf!Settled
<1>4. Stops(q) => Stops(r)
  BY <1>3 DEF Stops, Awaited, Fine, RootFits, RunT
<1> QED
  BY <1>1, <1>3, <1>4 DEF Goes, Fine, Awaited

\* A step that needs no process, or that cannot start, settles.
LEMMA SettledGoes ==
    ASSUME NEW t \in Tasks, NEW r, Fine(r), r.frame[t] \in {"enter", "deps"}, \A x \in Tasks : TasksOf!Deps(x) \subseteq Tasks,
           NEW s \in TasksOf!Settled
    PROVE  Goes(r, [r EXCEPT !.frame[t] = s])
<1>1. r \in RunT /\ r.pane[t] = "no" /\ ~ Untouched(r)
  BY DEF Fine, PanesFit, Ahead, Untouched
<1> DEFINE q == [r EXCEPT !.frame[t] = s]
<1>2. /\ q \in RunT /\ q.by = r.by /\ q.st = r.st /\ q.root = r.root /\ q.pane = r.pane
      /\ q.frame = [r.frame EXCEPT ![t] = s]
  BY <1>1 DEF RunT, TasksOf!Settled, Frames
<1> HIDE DEF q
<1>3. q.frame[q.root] # "exit"
  BY <1>1, <1>2 DEF Fine, RootFits, RunT, TasksOf!Settled
<1>4. \A x \in Tasks : /\ r.frame[x] \in TasksOf!Settled => q.frame[x] = r.frame[x]
                       /\ q.frame[x] \in Ahead => r.frame[x] \in Ahead
                       /\ q.frame[x] = "spawn" => r.pane[x] # "no"
  BY <1>1, <1>2 DEF Fine, PanesFit, RunT, TasksOf!Settled, Ahead
<1> QED
  BY <1>1, <1>2, <1>3, <1>4, FrameGoes DEF q

\* A step gets its pane once everything it depends on is through.
LEMMA OwnGoes ==
    ASSUME NEW t \in Tasks, NEW r, Fine(r), r.frame[t] \in {"enter", "deps"}, \A x \in TasksOf!Deps(t) : r.frame[x] = "ok",
           \A x \in Tasks : TasksOf!Deps(x) \subseteq Tasks
    PROVE  Goes(r, [r EXCEPT !.frame[t] = "spawn", !.pane[t] = "starting"])
<1>1. r \in RunT /\ r.pane[t] = "no" /\ ~ Untouched(r)
  BY DEF Fine, PanesFit, Ahead, Untouched
<1> DEFINE q == [r EXCEPT !.frame[t] = "spawn", !.pane[t] = "starting"]
<1>2. /\ q \in RunT /\ q.by = r.by /\ q.st = r.st /\ q.root = r.root
      /\ q.frame = [r.frame EXCEPT ![t] = "spawn"] /\ q.pane = [r.pane EXCEPT ![t] = "starting"]
  BY <1>1 DEF RunT, Frames, Panes
<1> HIDE DEF q
<1>3. \A x \in Tasks : /\ q.frame[x] = IF x = t THEN "spawn" ELSE r.frame[x]
                       /\ q.pane[x] = IF x = t THEN "starting" ELSE r.pane[x]
  <2>1. r.frame \in [Tasks -> Frames] /\ r.pane \in [Tasks -> Panes]
    BY <1>1 DEF RunT
  <2> QED
    BY <1>2, <2>1
<1>4. PanesFit(q)
  BY <1>3 DEF Fine, PanesFit, Ahead
<1>5. RootFits(q)
  <2>1. r.root \in Tasks /\ RootFits(r)
    BY <1>1 DEF Fine, RunT
  <2>2. q.frame[r.root] = IF r.root = t THEN "spawn" ELSE r.frame[r.root]
    BY <1>3, <2>1
  <2> QED
    BY <1>1, <1>2, <2>1, <2>2 DEF RootFits, TasksOf!Settled
<1>6. DepsFirst(q)
  <2>1. \A x \in Tasks : r.frame[x] = "ok" => q.frame[x] = "ok"
    BY <1>3
  <2> QED
    BY <1>2, <1>3, <2>1 DEF Fine, DepsFirst
<1>7. Awaited(q) => Awaited(r)
  BY <1>2 DEF Awaited
<1>8. Stops(q) => Stops(r)
  <2>1. r.by = "stop" /\ Root = t => Awaited(r)
    BY <1>1 DEF Fine, RootFits, RunT, Awaited, TasksOf!Settled
  <2> QED
    BY <1>1, <1>2, <1>7, <2>1 DEF Stops, RunT
<1> QED
  BY <1>2, <1>4, <1>5, <1>6, <1>7, <1>8 DEF Goes, Fine, q

\* A pane that makes room for another of the same task.
LEMMA ReplacedGoes ==
    ASSUME NEW t \in Tasks, NEW r, Fine(r), r.pane[t] \in {"zero", "bad", "dead"}, \A x \in Tasks : TasksOf!Deps(x) \subseteq Tasks
    PROVE  Goes(r, [r EXCEPT !.pane[t] = "closed"])
<1> DEFINE q == [r EXCEPT !.pane[t] = "closed"]
<1>1. r \in RunT
  BY DEF Fine
<1>2. /\ q \in RunT /\ q.by = r.by /\ q.st = r.st /\ q.root = r.root /\ q.frame = r.frame /\ q.pane = [r.pane EXCEPT ![t] = "closed"]
  BY <1>1 DEF RunT, Panes
<1> HIDE DEF q
<1>3. q.frame[q.root] # "exit"
  BY <1>2 DEF Fine, RootFits
<1>4. \A x \in Tasks : /\ q.pane[x] = r.pane[x] \/ (r.pane[x] # "no" /\ q.pane[x] # "no")
                       /\ q.pane[x] \in {"starting", "run"} => r.pane[x] \in {"starting", "run"}
  BY <1>1, <1>2 DEF RunT
<1> QED
  BY <1>2, <1>3, <1>4, PaneGoes DEF q

\* Dependencies that nobody reached yet are entered; the step waits for its own.
LEMMA EnteringGoes ==
    ASSUME NEW t \in Tasks, NEW X, NEW r, Fine(r), r.frame[t] \in {"enter", "deps"},
           \A x \in Tasks : TasksOf!Deps(x) \subseteq Tasks
    PROVE  /\ [r EXCEPT !.frame[t] = "deps", !.group = @ \/ deps[t] # <<>>] \in RunT
           /\ Goes(r, [r EXCEPT !.frame[t] = "deps", !.group = @ \/ deps[t] # <<>>])
           /\ Goes(r, TasksOf!Entering([r EXCEPT !.frame[t] = "deps", !.group = @ \/ deps[t] # <<>>], t, X))
           /\ Goes(r, TasksOf!Entering(r, t, X))
<1>1. r \in RunT /\ ~ Untouched(r)
  BY DEF Fine, Untouched
<1> DEFINE e == [r EXCEPT !.frame[t] = "deps", !.group = @ \/ deps[t] # <<>>]
<1>2. /\ e \in RunT /\ e.by = r.by /\ e.st = r.st /\ e.root = r.root /\ e.pane = r.pane /\ e.seen = r.seen
      /\ e.frame = [r.frame EXCEPT ![t] = "deps"]
  BY <1>1 DEF RunT, Frames
<1> HIDE DEF e
<1>3. ASSUME NEW p \in RunT, p.by = r.by, p.st = r.st, p.root = r.root, p.pane = r.pane,
             p.frame \in {r.frame, [r.frame EXCEPT ![t] = "deps"]}
      PROVE  Goes(r, p) /\ Goes(r, TasksOf!Entering(p, t, X))
  <2>1. \A x \in Tasks : /\ r.frame[x] \in TasksOf!Settled => p.frame[x] = r.frame[x]
                         /\ p.frame[x] \in Ahead => r.frame[x] \in Ahead
                         /\ p.frame[x] = "no" => r.frame[x] = "no"
                         /\ p.frame[x] \in {"spawn", "exit"} => r.frame[x] = p.frame[x]
    BY <1>1, <1>3 DEF RunT, Ahead, TasksOf!Settled
  <2>2. r.frame[r.root] # "exit" /\ \A x \in Tasks : r.frame[x] = "spawn" => r.pane[x] # "no"
    BY DEF Fine, RootFits, PanesFit
  <2>3. Goes(r, p)
    BY <1>1, <1>3, <2>1, <2>2, FrameGoes DEF RunT
  <2> DEFINE new == {x \in X : p.frame[x] = "no"}
             fr  == [x \in Tasks |-> IF x \in new THEN "enter" ELSE p.frame[x]]
             se  == [x \in Tasks |-> IF x \in new THEN p.seen[t] \cup {t} ELSE p.seen[x]]
             q   == [p EXCEPT !.frame = fr, !.seen = se]
  <2>4. fr \in [Tasks -> Frames] /\ se \in [Tasks -> SUBSET Tasks]
    BY DEF RunT, Frames
  <2>5. \A x \in Tasks : fr[x] = IF x \in new THEN "enter" ELSE p.frame[x]
    OBVIOUS
  <2>6. TasksOf!Entering(p, t, X) = q
    BY DEF TasksOf!Entering
  <2>7. \A x \in new : p.frame[x] = "no"
    OBVIOUS
  <2> HIDE DEF fr, se, new
  <2>8. q \in RunT /\ q.by = p.by /\ q.st = p.st /\ q.root = p.root /\ q.pane = p.pane /\ q.frame = fr
    BY <2>4 DEF RunT
  <2> HIDE DEF q
  <2>9. \A x \in Tasks : /\ r.frame[x] \in TasksOf!Settled => q.frame[x] = r.frame[x]
                         /\ q.frame[x] \in Ahead => r.frame[x] \in Ahead
                         /\ q.frame[x] \in {"spawn", "exit"} => r.frame[x] = q.frame[x]
    BY <2>1, <2>5, <2>7, <2>8 DEF Ahead, TasksOf!Settled
  <2>10. Goes(r, q)
    BY <1>1, <1>3, <2>2, <2>8, <2>9, FrameGoes DEF RunT
  <2> QED
    BY <2>3, <2>6, <2>10
<1>4. Goes(r, e) /\ Goes(r, TasksOf!Entering(e, t, X)) /\ Goes(r, TasksOf!Entering(r, t, X))
  BY <1>1, <1>2, <1>3
<1> QED
  BY <1>2, <1>4 DEF e

LEMMA ClosedIs ==
    ASSUME NEW r \in RunT, NEW t \in Tasks
    PROVE  /\ TasksOf!Closed(r, t) \in RunT
           /\ TasksOf!Closed(r, t).by = r.by /\ TasksOf!Closed(r, t).st = r.st /\ TasksOf!Closed(r, t).root = r.root /\ TasksOf!Closed(r, t).group = r.group
           /\ \A x \in Tasks : /\ TasksOf!Closed(r, t).pane[x] = IF x # t \/ r.pane[x] \in TasksOf!NoPane THEN r.pane[x]
                                                         ELSE IF r.pane[x] = "starting" THEN "unseen" ELSE "closed"
                               /\ TasksOf!Closed(r, t).frame[x] = IF x = t /\ r.pane[x] \notin TasksOf!NoPane /\ r.frame[x] = "exit" THEN "failed"
                                                          ELSE r.frame[x]
BY DEF TasksOf!Closed, RunT, Panes, Frames

LEMMA ClosedGoes ==
    ASSUME NEW r, Fine(r), \A x \in Tasks : TasksOf!Deps(x) \subseteq Tasks,
           NEW q \in RunT, q.by = r.by, q.st = r.st, q.root = r.root,
           \A t \in Tasks : \/ q.pane[t] = r.pane[t] /\ q.frame[t] = r.frame[t]
                            \/ q.pane[t] = TasksOf!Closed(r, t).pane[t] /\ q.frame[t] = TasksOf!Closed(r, t).frame[t]
    PROVE  Goes(r, q)
<1>1. r \in RunT
  BY DEF Fine
<1>2. \A t \in Tasks : /\ q.frame[t] = r.frame[t] \/ (r.frame[t] = "exit" /\ q.frame[t] = "failed")
                       /\ q.pane[t] = r.pane[t] \/ (r.pane[t] # "no" /\ q.pane[t] # "no")
                       /\ q.pane[t] \in {"starting", "run"} => r.pane[t] \in {"starting", "run"}
  <2> SUFFICES ASSUME NEW t \in Tasks
               PROVE  /\ q.frame[t] = r.frame[t] \/ (r.frame[t] = "exit" /\ q.frame[t] = "failed")
                      /\ q.pane[t] = r.pane[t] \/ (r.pane[t] # "no" /\ q.pane[t] # "no")
                      /\ q.pane[t] \in {"starting", "run"} => r.pane[t] \in {"starting", "run"}
    OBVIOUS
  <2>1. /\ TasksOf!Closed(r, t).pane[t] = IF r.pane[t] \in TasksOf!NoPane THEN r.pane[t] ELSE IF r.pane[t] = "starting" THEN "unseen" ELSE "closed"
        /\ TasksOf!Closed(r, t).frame[t] = IF r.pane[t] \notin TasksOf!NoPane /\ r.frame[t] = "exit" THEN "failed" ELSE r.frame[t]
    BY <1>1, ClosedIs
  <2> QED
    BY <2>1 DEF TasksOf!NoPane
<1>3. q.frame[q.root] # "exit"
  BY <1>1, <1>2 DEF Fine, RootFits, RunT
<1>4. \A t \in Tasks : /\ q.frame[t] = r.frame[t] \/ (r.frame[t] \in {"spawn", "exit"} /\ q.frame[t] \in {"exit"} \cup TasksOf!Settled)
                       /\ q.pane[t] = r.pane[t] \/ (r.pane[t] # "no" /\ q.pane[t] # "no")
                       /\ q.pane[t] \in {"starting", "run"} => r.pane[t] \in {"starting", "run"}
  BY <1>2 DEF TasksOf!Settled
<1> QED
  BY <1>3, <1>4, PaneGoes

\* A launch that begins: its dependencies are found, and nothing of it is there yet.
LEMMA IdleIs ==
    ASSUME Root \in Tasks, NEW by \in {"hand", "stop", "rerun"}, NEW st \in {"discover", "go", "over"},
           st = "discover" => by = "stop"
    PROVE  Fine(TasksOf!Idle(by, st)) /\ TasksOf!Idle(by, st).by = by /\ TasksOf!Idle(by, st).st = st
<1> DEFINE r == TasksOf!Idle(by, st)
<1>1. r \in RunT /\ r.by = by /\ r.st = st /\ r.root = Root /\ \A t \in Tasks : r.frame[t] = "no" /\ r.pane[t] = "no"
  BY DEF TasksOf!Idle, RunT, Frames, Panes
<1> HIDE DEF r
<1>2. Fine(r)
  BY <1>1 DEF Fine, PanesFit, RootFits, DepsFirst, Untouched
<1> QED
  BY <1>1, <1>2 DEF r

LEMMA StartGoes ==
    ASSUME Root \in Tasks, NEW r, Fine(r), Untouched(r), r.root = Root, r.st \in {"discover", "go"}
    PROVE  Goes(r, TasksOf!Start(r)) /\ TasksOf!Start(r).by = r.by /\ TasksOf!Start(r).st \in {"go", "over"}
<1> DEFINE q == TasksOf!Start(r)
<1>1. r \in RunT /\ \A t \in Tasks : r.frame[t] = "no" /\ r.pane[t] = "no"
  BY DEF Fine, PanesFit, Untouched, Ahead
<1>2. /\ q \in RunT /\ q.by = r.by /\ q.root = Root /\ q.pane = r.pane
      /\ \/ q.st = "over" /\ q.frame = [r.frame EXCEPT ![Root] = "failed"]
         \/ q.st = "go" /\ q.frame = [r.frame EXCEPT ![Root] = "enter"]
  BY <1>1 DEF TasksOf!Start, RunT, Frames
<1> HIDE DEF q
<1>3. \A t \in Tasks : q.pane[t] = "no" /\ q.frame[t] # "spawn"
  <2>1. r.frame \in [Tasks -> Frames]
    BY <1>1 DEF RunT
  <2>2. \A t \in Tasks : q.frame[t] \in {"no", "failed", "enter"}
    BY <1>1, <1>2, <2>1
  <2> QED
    BY <1>1, <1>2, <2>2
<1>4. RootFits(q)
  <2>1. r.frame \in [Tasks -> Frames]
    BY <1>1 DEF RunT
  <2>2. \/ q.st = "over" /\ q.frame[Root] = "failed"
        \/ q.st = "go" /\ q.frame[Root] = "enter"
    BY <1>2, <2>1
  <2> QED
    BY <1>2, <2>2 DEF RootFits, TasksOf!Settled
<1>5. Fine(q)
  BY <1>2, <1>3, <1>4 DEF Fine, PanesFit, DepsFirst
<1>6. Awaited(q) => Awaited(r)
  BY <1>2 DEF Awaited
<1>7. Stops(q) => Stops(r)
  BY <1>3, <1>6 DEF Stops
<1> QED
  BY <1>2, <1>5, <1>6, <1>7 DEF Goes, q

\* A launch asked for by hand.
LEMMA HandStarts ==
    ASSUME Root \in Tasks
    PROVE  Fine(TasksOf!Start(TasksOf!Idle("hand", "go"))) /\ ~ Stops(TasksOf!Start(TasksOf!Idle("hand", "go")))
<1> DEFINE r == TasksOf!Idle("hand", "go")
<1>1. Fine(r) /\ r.by = "hand" /\ r.st = "go"
  BY IdleIs
<1>2. Untouched(r) /\ r.root = Root
  BY DEF TasksOf!Idle, Untouched
<1> HIDE DEF r
<1> QED
  BY <1>1, <1>2, StartGoes DEF Goes, Stops, Awaited, r

-----------------------------------------------------------------------------
(* All launches.                                                            *)

LEMMA Keeps ==
    ASSUME TasksInv, deps' = deps, run' \in Seq(RunT), DOMAIN run \subseteq DOMAIN run', inFlight' \in BOOLEAN,
           \A d \in DOMAIN run : Goes(run[d], run'[d]) /\ (Awaited(run'[d]) => inFlight'),
           \A d \in DOMAIN run' \ DOMAIN run :
              Fine(run'[d]) /\ (Stops(run'[d]) => inFlight' /\ \A c \in DOMAIN run' : Stops(run'[c]) => c = d)
    PROVE  TasksInv'
<1>1. \A t \in Tasks : TasksOf!Deps(t)' = TasksOf!Deps(t)
  BY DEF TasksOf!Deps
<1>2. \A d \in DOMAIN run' : Fine(run'[d]) /\ (Awaited(run'[d]) => inFlight')
  BY DEF Goes, Stops
<1>3. \A d \in DOMAIN run' : Fine(run[d])'
  BY <1>1, <1>2 DEF Fine, PanesFit, RootFits, DepsFirst, Untouched
<1>4. ASSUME NEW c \in DOMAIN run', NEW d \in DOMAIN run', Stops(run'[c]), Stops(run'[d]) PROVE c = d
  <2>1. CASE c \in DOMAIN run /\ d \in DOMAIN run
    BY <1>4, <2>1 DEF TasksInv, Goes
  <2>2. CASE ~ (c \in DOMAIN run /\ d \in DOMAIN run)
    BY <1>4, <2>2
  <2> QED
    BY <2>1, <2>2
<1>5. \A c, d \in DOMAIN run' : Stops(run[c])' /\ Stops(run[d])' => c = d
  BY <1>4 DEF Stops, Awaited
<1>6. \A c \in DOMAIN run' : Awaited(run[c])' => inFlight'
  BY <1>2 DEF Awaited
<1> QED
  BY <1>1, <1>3, <1>5, <1>6 DEF TasksInv

\* One launch goes on, and gives its claim back where that ends it; another may begin.
LEMMA SetKeeps ==
    ASSUME TasksInv, deps' = deps, NEW c \in DOMAIN run, NEW r, Goes(run[c], r), inFlight' = (inFlight /\ ~ TasksOf!GivesBack(r)),
           \/ run' = [run EXCEPT ![c] = TasksOf!Over(r)]
           \/ \E new : run' = Append([run EXCEPT ![c] = TasksOf!Over(r)], new) /\ Fine(new) /\ ~ Stops(new)
    PROVE  TasksInv'
<1> DEFINE kept == [run EXCEPT ![c] = TasksOf!Over(r)]
<1>1. Goes(run[c], TasksOf!Over(r)) /\ TasksOf!Over(r) \in RunT /\ run \in Seq(RunT)
  BY OverGoes DEF Goes, Fine, TasksInv
<1>2. /\ kept \in Seq(RunT) /\ DOMAIN kept = DOMAIN run /\ Len(kept) = Len(run)
      /\ \A d \in DOMAIN run : kept[d] = IF d = c THEN TasksOf!Over(r) ELSE run[d]
  BY <1>1
<1> HIDE DEF kept
<1>3. ASSUME NEW d \in DOMAIN run PROVE Goes(run[d], kept[d]) /\ (Awaited(kept[d]) => inFlight')
  <2>1. Goes(run[d], kept[d])
    BY <1>1, <1>2 DEF TasksInv, Goes
  <2>2. ASSUME Awaited(kept[d]) PROVE ~ TasksOf!GivesBack(r)
    <3>1. TasksOf!GivesBack(r) => Awaited(r) /\ ~ Awaited(TasksOf!Over(r))
      BY DEF TasksOf!GivesBack, Awaited
    <3>2. TasksOf!GivesBack(r) => Stops(run[c]) /\ Stops(run[d])
      BY <2>1, <2>2, <3>1 DEF Goes, Stops
    <3> QED
      BY <1>2, <2>2, <3>1, <3>2 DEF TasksInv
  <2> QED
    BY <2>1, <2>2 DEF TasksInv, Goes
<1>4. inFlight' \in BOOLEAN
  OBVIOUS
<1>5. CASE run' = kept
  BY <1>2, <1>3, <1>4, <1>5, Keeps
<1>6. ASSUME NEW new, run' = Append(kept, new), Fine(new), ~ Stops(new) PROVE TasksInv'
  <2>1. /\ run' \in Seq(RunT) /\ DOMAIN run \subseteq DOMAIN run'
        /\ \A d \in DOMAIN run : run'[d] = kept[d]
        /\ \A d \in DOMAIN run' \ DOMAIN run : run'[d] = new
    <3>1. new \in RunT /\ kept \in Seq(RunT)
      BY <1>2, <1>6 DEF Fine
    <3>2. /\ Append(kept, new) \in Seq(RunT) /\ Len(Append(kept, new)) = Len(kept) + 1
          /\ \A d \in 1..Len(kept) : Append(kept, new)[d] = kept[d]
          /\ Append(kept, new)[Len(kept) + 1] = new
      BY <3>1, AppendProperties
    <3>3. DOMAIN run' = 1..(Len(kept) + 1) /\ DOMAIN run = 1..Len(kept) /\ Len(kept) \in Nat
      <4>1. run' \in Seq(RunT) /\ Len(run') = Len(kept) + 1
        BY <1>6, <3>2
      <4>2. \A s \in Seq(RunT) : DOMAIN s = 1..Len(s) /\ Len(s) \in Nat
        OBVIOUS
      <4> QED
        BY <1>1, <1>2, <3>1, <4>1, <4>2
    <3> QED
      BY <1>6, <3>2, <3>3
  <2> QED
    BY <1>3, <1>4, <1>6, <2>1, Keeps
<1> QED
  BY <1>5, <1>6 DEF kept

\* A launch goes on and none begins.
LEMMA SetIs ==
    ASSUME TasksInv, NEW c \in DOMAIN run, NEW r, Goes(run[c], r), TasksOf!Set(c, r)
    PROVE  TasksInv'
BY SetKeeps DEF TasksOf!Set

LEMMA OwnKeeps ==
    ASSUME TasksInv, NEW c \in DOMAIN run, NEW t \in Tasks, run[c].frame[t] \in {"enter", "deps"},
           \A x \in TasksOf!Deps(t) : run[c].frame[x] = "ok", TasksOf!Own(c, run[c], t)
    PROVE  TasksInv'
<1> DEFINE r == run[c]
           q == [r EXCEPT !.frame[t] = "spawn", !.pane[t] = "starting"]
<1>1. Fine(r) /\ \A x \in Tasks : TasksOf!Deps(x) \subseteq Tasks
  BY DEF TasksInv
<1>2. Goes(r, q) /\ \A s \in TasksOf!Settled : Goes(r, [r EXCEPT !.frame[t] = s])
  BY <1>1, OwnGoes, SettledGoes
<1> HIDE DEF q
<1>3. CASE graph[t].kind \in {"compound", "blocked"}
  <2>1. \E s \in TasksOf!Settled : TasksOf!Set(c, [r EXCEPT !.frame[t] = s])
    BY <1>3 DEF TasksOf!Own, TasksOf!Settled
  <2> QED
    BY <1>2, <2>1, SetIs
<1>4. CASE graph[t].kind \notin {"compound", "blocked"}
  <2>1. PICK spared \in {c} \cup {d \in DOMAIN run : TasksOf!Replaced(d, t)} :
           run' = [d \in DOMAIN run |->
                IF d = c THEN q ELSE IF d # spared /\ TasksOf!Replaced(d, t) THEN [run[d] EXCEPT !.pane[t] = "closed"] ELSE run[d]]
    BY <1>4 DEF TasksOf!Own, q
  <2>2. UNCHANGED <<deps, inFlight>>
    BY <1>4 DEF TasksOf!Own
  <2>3. ASSUME NEW d \in DOMAIN run PROVE Goes(run[d], run'[d])
    <3>1. CASE d = c
      BY <1>2, <2>1, <3>1
    <3>2. CASE d # c /\ d # spared /\ TasksOf!Replaced(d, t)
      <4>1. Fine(run[d]) /\ run[d].pane[t] \in {"zero", "bad", "dead"}
        BY <3>2 DEF TasksInv, TasksOf!Replaced
      <4>2. run'[d] = [run[d] EXCEPT !.pane[t] = "closed"]
        BY <2>1, <3>2
      <4> QED
        BY <1>1, <4>1, <4>2, ReplacedGoes
    <3>3. CASE d # c /\ ~ (d # spared /\ TasksOf!Replaced(d, t))
      <4>1. run'[d] = run[d] /\ Fine(run[d])
        BY <2>1, <3>3 DEF TasksInv
      <4> QED
        BY <4>1 DEF Goes
    <3> QED
      BY <3>1, <3>2, <3>3
  <2>4. run' \in Seq(RunT) /\ DOMAIN run' = DOMAIN run
    <3>1. DOMAIN run' = DOMAIN run /\ \A d \in DOMAIN run : run'[d] \in RunT
      BY <2>1, <2>3 DEF Goes, Fine
    <3>2. DOMAIN run = 1..Len(run) /\ Len(run) \in Nat
      BY DEF TasksInv
    <3>3. run' = [d \in 1..Len(run) |-> run'[d]]
      BY <2>1, <3>1, <3>2
    <3> QED
      BY <3>1, <3>2, <3>3
  <2> QED
    BY <2>2, <2>3, <2>4, Keeps DEF TasksInv, Goes
<1> QED
  BY <1>3, <1>4

LEMMA MicrotaskKeeps ==
    ASSUME TasksInv, NEW c \in DOMAIN run, NEW t \in Tasks, TasksOf!Enter(c, t) \/ TasksOf!NextInSequence(c, t) \/ TasksOf!DepsSettle(c, t)
    PROVE  TasksInv'
<1>1. Fine(run[c]) /\ \A x \in Tasks : TasksOf!Deps(x) \subseteq Tasks
  BY DEF TasksInv
<1>2. run[c].frame[t] \in {"enter", "deps"}
  BY DEF TasksOf!Enter, TasksOf!NextInSequence, TasksOf!DepsSettle, TasksOf!AwaitIsOver
<1>3. CASE TasksOf!Enter(c, t)
  <2> DEFINE r == [run[c] EXCEPT !.frame[t] = "deps", !.group = @ \/ deps[t] # <<>>]
  <2>1. CASE TasksOf!Set(c, [run[c] EXCEPT !.frame[t] = "failed"])
    BY <1>1, <1>2, <2>1, SetIs, SettledGoes DEF TasksOf!Settled
  <2>2. CASE deps[t] = <<>> /\ TasksOf!Own(c, run[c], t)
    <3>1. TasksOf!Deps(t) = {}
      BY <2>2 DEF TasksOf!Deps
    <3> QED
      BY <1>2, <2>2, <3>1, OwnKeeps
  <2>3. Goes(run[c], r) /\ Goes(run[c], TasksOf!Entering(r, t, TasksOf!Deps(t)))
    BY <1>1, <1>2, EnteringGoes
  <2>4. CASE TasksOf!Set(c, r) \/ TasksOf!Set(c, TasksOf!Entering(r, t, TasksOf!Deps(t)))
    <3> HIDE DEF r
    <3> QED
      BY <2>3, <2>4, SetIs
  <2> QED
    BY <1>3, <2>1, <2>2, <2>4 DEF TasksOf!Enter
<1>4. CASE TasksOf!NextInSequence(c, t)
  <2> DEFINE x == deps[t][TasksOf!At(run[c], t)]
  <2>1. Goes(run[c], TasksOf!Entering(run[c], t, {x}))
    BY <1>1, <1>2, EnteringGoes
  <2> QED
    BY <1>4, <2>1, SetIs DEF TasksOf!NextInSequence
<1>5. CASE TasksOf!DepsSettle(c, t)
  <2>1. CASE TasksOf!DepsDone(run[c], t) /\ TasksOf!Own(c, run[c], t)
    BY <1>2, <2>1, OwnKeeps DEF TasksOf!DepsDone
  <2>2. CASE TasksOf!Set(c, [run[c] EXCEPT !.frame[t] = "failed"])
    BY <1>1, <1>2, <2>2, SetIs, SettledGoes DEF TasksOf!Settled
  <2> QED
    BY <1>5, <2>1, <2>2 DEF TasksOf!DepsSettle
<1> QED
  BY <1>3, <1>4, <1>5

\* Processes start and end, and panes are closed; a step or a group is run again.
LEMMA ProcessKeeps ==
    ASSUME TasksInv, NEW c \in DOMAIN run, NEW t \in Tasks, NEW flag \in BOOLEAN, TasksOf!Spawned(c, t, flag) \/ TasksOf!Exit(c, t, flag)
    PROVE  TasksInv'
<1> DEFINE r == run[c]
<1>1. Fine(r) /\ r \in RunT /\ \A x \in Tasks : TasksOf!Deps(x) \subseteq Tasks
  BY DEF TasksInv, Fine
<1>2. UNCHANGED deps
  BY DEF TasksOf!Spawned, TasksOf!Exit, TasksOf!Set
<1> DEFINE p == IF TasksOf!Spawned(c, t, flag)
                THEN IF ~ flag /\ r.pane[t] = "starting" THEN "dead" ELSE IF ~ flag THEN "lost"
                     ELSE IF r.pane[t] = "starting" THEN "run" ELSE r.pane[t]
                ELSE IF r.pane[t] = "unseen" THEN "closed" ELSE IF flag THEN "zero" ELSE "bad"
           f == IF TasksOf!Spawned(c, t, flag) THEN IF t = r.root \/ graph[t].kind = "server" THEN "ok" ELSE "exit"
                ELSE IF r.frame[t] # "exit" THEN r.frame[t] ELSE IF flag THEN "ok" ELSE "failed"
           q == [r EXCEPT !.pane[t] = p, !.frame[t] = f]
<1>3. TasksOf!Set(c, q)
  BY <1>1 DEF TasksOf!Spawned, TasksOf!Exit
<1>4. /\ r.pane[t] # "no" /\ p \in Panes \ {"no"} /\ (p \in {"starting", "run"} => r.pane[t] \in {"starting", "run"})
      /\ f = r.frame[t] \/ (r.frame[t] \in {"spawn", "exit"} /\ f \in {"exit"} \cup TasksOf!Settled)
      /\ f \in Frames /\ (t = r.root => f # "exit")
  BY <1>1 DEF TasksOf!Spawned, TasksOf!Exit, Fine, PanesFit, RootFits, RunT, Panes, Frames, TasksOf!Settled
<1> HIDE DEF p, f
<1>5. /\ q \in RunT /\ q.by = r.by /\ q.st = r.st /\ q.root = r.root
      /\ q.pane = [r.pane EXCEPT ![t] = p] /\ q.frame = [r.frame EXCEPT ![t] = f]
  BY <1>1, <1>4 DEF RunT
<1> HIDE DEF q
<1>6. \A x \in Tasks : q.pane[x] = (IF x = t THEN p ELSE r.pane[x]) /\ q.frame[x] = (IF x = t THEN f ELSE r.frame[x])
  BY <1>1, <1>5 DEF RunT
<1>7. q.frame[q.root] # "exit"
  BY <1>1, <1>4, <1>5, <1>6 DEF Fine, RootFits, RunT
<1>8. \A x \in Tasks : /\ q.frame[x] = r.frame[x] \/ (r.frame[x] \in {"spawn", "exit"} /\ q.frame[x] \in {"exit"} \cup TasksOf!Settled)
                       /\ q.pane[x] = r.pane[x] \/ (r.pane[x] # "no" /\ q.pane[x] # "no")
                       /\ q.pane[x] \in {"starting", "run"} => r.pane[x] \in {"starting", "run"}
  BY <1>4, <1>6
<1> HIDE DEF r
<1>9. Goes(r, q)
  BY <1>1, <1>5, <1>7, <1>8, PaneGoes
<1> QED
  BY <1>3, <1>9, SetIs DEF r

LEMMA CloseKeeps ==
    ASSUME Root \in Tasks, TasksInv, NEW c \in DOMAIN run, NEW t \in Tasks, TasksOf!CloseSession(c, t) \/ TasksOf!RerunTask(c, t)
    PROVE  TasksInv'
<1> DEFINE r == run[c]
           q == TasksOf!Closed(r, t)
<1>1. Fine(r) /\ r \in RunT /\ \A x \in Tasks : TasksOf!Deps(x) \subseteq Tasks
  BY DEF TasksInv, Fine
<1>2. q \in RunT /\ q.by = r.by /\ q.st = r.st /\ q.root = r.root
  BY <1>1, ClosedIs
<1>3. \A x \in Tasks : \/ q.pane[x] = r.pane[x] /\ q.frame[x] = r.frame[x]
                       \/ q.pane[x] = TasksOf!Closed(r, x).pane[x] /\ q.frame[x] = TasksOf!Closed(r, x).frame[x]
  <2>1. ASSUME NEW x \in Tasks, x # t PROVE q.pane[x] = r.pane[x] /\ q.frame[x] = r.frame[x]
    BY <1>1, <2>1, ClosedIs
  <2> QED
    BY <2>1
<1>4. Goes(r, q)
  <2> HIDE DEF r, q
  <2> QED
    BY <1>1, <1>2, <1>3, ClosedGoes
<1>5. UNCHANGED deps /\ inFlight' = (inFlight /\ ~ TasksOf!GivesBack(q))
  BY DEF TasksOf!CloseSession, TasksOf!RerunTask
<1>6. CASE TasksOf!CloseSession(c, t)
  <2>1. run' = [run EXCEPT ![c] = TasksOf!Over(q)]
    BY <1>6 DEF TasksOf!CloseSession
  <2> QED
    BY <1>4, <1>5, <2>1, SetKeeps
<1>7. CASE TasksOf!RerunTask(c, t)
  <2> DEFINE idle  == TasksOf!Idle("rerun", "go")
             again == [idle EXCEPT !.root = t, !.group = q.group, !.frame[t] = "spawn", !.pane[t] = "starting"]
  <2>1. run' = Append([run EXCEPT ![c] = TasksOf!Over(q)], again)
    BY <1>7 DEF TasksOf!RerunTask
  <2>2. idle \in RunT /\ idle.by = "rerun" /\ idle.st = "go" /\ \A x \in Tasks : idle.frame[x] = "no" /\ idle.pane[x] = "no"
    BY DEF TasksOf!Idle, RunT, Frames, Panes
  <2>3. q.group \in BOOLEAN
    BY <1>2 DEF RunT
  <2> HIDE DEF idle
  <2>4. /\ again \in RunT /\ again.by = "rerun" /\ again.st = "go" /\ again.root = t
        /\ again.frame = [idle.frame EXCEPT ![t] = "spawn"] /\ again.pane = [idle.pane EXCEPT ![t] = "starting"]
    BY <2>2, <2>3 DEF RunT, Frames, Panes
  <2> HIDE DEF again
  <2>5. Fine(again) /\ ~ Stops(again)
    BY <2>2, <2>4 DEF Fine, PanesFit, RootFits, DepsFirst, Stops, Awaited, RunT, Ahead
  <2> QED
    BY <1>4, <1>5, <2>1, <2>5, SetKeeps
<1> QED
  BY <1>6, <1>7

LEMMA RerunGroupKeeps ==
    ASSUME Root \in Tasks, TasksInv, NEW c \in DOMAIN run, TasksOf!RerunRunGroup(c)
    PROVE  TasksInv'
<1> DEFINE r  == run[c]
           pa == [t \in Tasks |-> TasksOf!Closed(r, t).pane[t]]
           fr == [t \in Tasks |-> TasksOf!Closed(r, t).frame[t]]
           q  == [r EXCEPT !.pane = pa, !.frame = fr]
<1>1. Fine(r) /\ r \in RunT /\ \A x \in Tasks : TasksOf!Deps(x) \subseteq Tasks
  BY DEF TasksInv, Fine
<1>2. pa \in [Tasks -> Panes] /\ fr \in [Tasks -> Frames]
  BY <1>1, ClosedIs DEF RunT
<1>3. \A t \in Tasks : pa[t] = TasksOf!Closed(r, t).pane[t] /\ fr[t] = TasksOf!Closed(r, t).frame[t]
  OBVIOUS
<1>4. /\ run' = Append([run EXCEPT ![c] = TasksOf!Over(q)], TasksOf!Start(TasksOf!Idle("hand", "go")))
      /\ inFlight' = (inFlight /\ ~ TasksOf!GivesBack(q)) /\ UNCHANGED deps
  BY DEF TasksOf!RerunRunGroup
<1> HIDE DEF pa, fr
<1>5. q \in RunT /\ q.by = r.by /\ q.st = r.st /\ q.root = r.root /\ q.pane = pa /\ q.frame = fr
  BY <1>1, <1>2 DEF RunT
<1>6. Goes(r, q)
  <2> HIDE DEF r, q
  <2> QED
    BY <1>1, <1>3, <1>5, ClosedGoes
<1>7. Fine(TasksOf!Start(TasksOf!Idle("hand", "go"))) /\ ~ Stops(TasksOf!Start(TasksOf!Idle("hand", "go")))
  BY HandStarts
<1> HIDE DEF q
<1> QED
  BY <1>4, <1>6, <1>7, SetKeeps

LEMMA TurnEndsKeeps ==
    ASSUME Root \in Tasks, TasksInv, TasksOf!TurnEnds
    PROVE  TasksInv'
<1>1. UNCHANGED deps
  BY DEF TasksOf!TurnEnds
<1>2. CASE UNCHANGED <<run, inFlight>>
  BY <1>1, <1>2, Keeps DEF TasksInv, Goes
<1>3. CASE ~ inFlight /\ ~ TasksOf!RuleRuns /\ run' = Append(run, TasksOf!Idle("stop", "discover")) /\ inFlight' = TRUE
  <2> DEFINE new == TasksOf!Idle("stop", "discover")
  <2>1. Fine(new)
    BY IdleIs
  <2>2. new \in RunT /\ run \in Seq(RunT)
    BY <2>1 DEF Fine, TasksInv
  <2>3. \A d \in DOMAIN run : ~ Stops(run[d])
    BY <1>3 DEF TasksInv, Stops, TasksOf!RuleRuns
  <2> HIDE DEF new
  <2>4. /\ Append(run, new) \in Seq(RunT) /\ Len(Append(run, new)) = Len(run) + 1
        /\ \A d \in 1..Len(run) : Append(run, new)[d] = run[d]
        /\ Append(run, new)[Len(run) + 1] = new
    BY <2>2, AppendProperties
  <2>5. /\ run' \in Seq(RunT) /\ DOMAIN run \subseteq DOMAIN run' /\ DOMAIN run' \ DOMAIN run = {Len(run) + 1}
        /\ \A d \in DOMAIN run : run'[d] = run[d]
        /\ run'[Len(run) + 1] = new
    <3>1. run' \in Seq(RunT) /\ Len(run') = Len(run) + 1
      BY <1>3, <2>4 DEF new
    <3>2. \A s \in Seq(RunT) : DOMAIN s = 1..Len(s) /\ Len(s) \in Nat
      OBVIOUS
    <3> QED
      BY <1>3, <2>2, <2>4, <3>1, <3>2 DEF new
  <2>6. \A c \in DOMAIN run' : Stops(run'[c]) => c = Len(run) + 1
    BY <2>3, <2>5
  <2> QED
    BY <1>1, <1>3, <2>1, <2>5, <2>6, Keeps DEF TasksInv, Goes
<1> QED
  BY <1>2, <1>3 DEF TasksOf!TurnEnds, TasksOf!Claim

LEMMA DiscoveredKeeps ==
    ASSUME Root \in Tasks, TasksInv, NEW c \in DOMAIN run, NEW runs \in BOOLEAN, TasksOf!Discovered(c, runs)
    PROVE  TasksInv'
<1> DEFINE r == run[c]
           q == IF runs THEN TasksOf!Start(r) ELSE [r EXCEPT !.st = "over"]
<1>1. Fine(r) /\ r \in RunT /\ r.st = "discover" /\ r.by = "stop" /\ r.root = Root /\ Untouched(r)
  BY DEF TasksInv, Fine, RootFits, TasksOf!Discovered
<1>2. UNCHANGED deps /\ run' = [run EXCEPT ![c] = q] /\ inFlight' = (q.st = "go")
  BY DEF TasksOf!Discovered
<1>3. Goes(r, q) /\ q.st \in {"go", "over"}
  <2>1. CASE runs
    <3> HIDE DEF r
    <3> QED
      BY <1>1, <2>1, StartGoes
  <2>2. CASE ~ runs
    <3>1. /\ q \in RunT /\ q.by = r.by /\ q.st = "over" /\ q.root = r.root /\ q.frame = r.frame /\ q.pane = r.pane
      BY <1>1, <2>2 DEF RunT
    <3> HIDE DEF r, q
    <3>2. Fine(q)
      BY <1>1, <3>1 DEF Fine, PanesFit, RootFits, DepsFirst, Untouched
    <3> QED
      BY <1>1, <3>1, <3>2 DEF Goes, Stops, Awaited
  <2> QED
    BY <2>1, <2>2
<1> HIDE DEF q
<1>4. run' \in Seq(RunT) /\ DOMAIN run' = DOMAIN run /\ \A d \in DOMAIN run : run'[d] = IF d = c THEN q ELSE run[d]
  BY <1>2, <1>3 DEF TasksInv, Goes, Fine
<1>5. ASSUME NEW d \in DOMAIN run PROVE Goes(run[d], run'[d]) /\ (Awaited(run'[d]) => inFlight')
  <2>1. CASE d = c
    BY <1>2, <1>3, <1>4, <2>1 DEF Awaited
  <2>2. CASE d # c
    <3>1. run'[d] = run[d] /\ Goes(run[d], run[d])
      BY <1>4, <2>2 DEF TasksInv, Goes
    <3>2. ~ Awaited(run[d])
      BY <1>1, <2>2 DEF TasksInv, Stops, Awaited
    <3> QED
      BY <3>1, <3>2
  <2> QED
    BY <2>1, <2>2
<1> QED
  BY <1>2, <1>4, <1>5, Keeps

LEMMA RunByHandKeeps ==
    ASSUME Root \in Tasks, TasksInv, TasksOf!RunByHand
    PROVE  TasksInv'
<1> DEFINE new == TasksOf!Start(TasksOf!Idle("hand", "go"))
<1>1. UNCHANGED <<deps, inFlight>> /\ run' = Append(run, new)
  BY DEF TasksOf!RunByHand
<1>2. Fine(new) /\ ~ Stops(new) /\ new \in RunT /\ run \in Seq(RunT)
  BY HandStarts DEF Fine, TasksInv
<1> HIDE DEF new
<1>3. /\ Append(run, new) \in Seq(RunT) /\ Len(Append(run, new)) = Len(run) + 1
      /\ \A d \in 1..Len(run) : Append(run, new)[d] = run[d]
      /\ Append(run, new)[Len(run) + 1] = new
  BY <1>2, AppendProperties
<1>4. /\ run' \in Seq(RunT) /\ DOMAIN run \subseteq DOMAIN run' /\ DOMAIN run' \ DOMAIN run = {Len(run) + 1}
      /\ \A d \in DOMAIN run : run'[d] = run[d]
      /\ run'[Len(run) + 1] = new
  <2>1. run' \in Seq(RunT) /\ Len(run') = Len(run) + 1
    BY <1>1, <1>3
  <2>2. \A s \in Seq(RunT) : DOMAIN s = 1..Len(s) /\ Len(s) \in Nat
    OBVIOUS
  <2> QED
    BY <1>1, <1>2, <1>3, <2>1, <2>2
<1> QED
  BY <1>1, <1>2, <1>4, Keeps DEF TasksInv, Goes

-----------------------------------------------------------------------------
LEMMA TasksInvAlways ==
    ASSUME Root \in Tasks
    PROVE  TasksOf!Spec => []TasksInv
<1>1. TasksOf!Init => TasksInv
  <2> SUFFICES ASSUME TasksOf!Init PROVE TasksInv
    OBVIOUS
  <2>1. ASSUME NEW t \in Tasks PROVE TasksOf!Deps(t) \subseteq Tasks
    <3>1. \A g, label : TasksOf!FindDep(g, label, t) \in Tasks \cup {NoTask}
      BY DEF TasksOf!FindDep
    <3>2. deps[t] = [i \in DOMAIN graph[t].dependsOn |-> TasksOf!FindDep(graph, graph[t].dependsOn[i], t)]
      BY DEF TasksOf!Init, TasksOf!Found
    <3> QED
      BY <3>1, <3>2 DEF TasksOf!Deps
  <2>2. run = <<>> /\ inFlight = FALSE
    BY DEF TasksOf!Init
  <2>3. run \in Seq(RunT) /\ DOMAIN run = {}
    BY <2>2
  <2> QED
    BY <2>1, <2>2, <2>3 DEF TasksInv
<1>2. TasksInv /\ [TasksOf!Next]_(TasksOf!vars) => TasksInv'
  <2> SUFFICES ASSUME TasksInv, [TasksOf!Next]_(TasksOf!vars) PROVE TasksInv'
    OBVIOUS
  <2>1. CASE UNCHANGED <<deps, run, inFlight>>
    BY <2>1, Keeps DEF TasksInv, Goes
  <2>2. CASE TasksOf!Microtask
    BY <2>2, MicrotaskKeeps DEF TasksOf!Microtask
  <2>3. CASE TasksOf!TurnEnds \/ TasksOf!RunByHand
    BY <2>3, TurnEndsKeeps, RunByHandKeeps
  <2>4. ASSUME NEW c \in DOMAIN run, TasksOf!RerunRunGroup(c) \/ \E flag \in BOOLEAN : TasksOf!Discovered(c, flag) PROVE TasksInv'
    BY <2>4, RerunGroupKeeps, DiscoveredKeeps
  <2>5. ASSUME NEW c \in DOMAIN run, NEW t \in Tasks, TasksOf!CloseSession(c, t) \/ TasksOf!RerunTask(c, t) PROVE TasksInv'
    BY <2>5, CloseKeeps
  <2>6. ASSUME NEW c \in DOMAIN run, NEW t \in Tasks, NEW flag \in BOOLEAN, TasksOf!Spawned(c, t, flag) \/ TasksOf!Exit(c, t, flag) PROVE TasksInv'
    BY <2>6, ProcessKeeps
  <2> QED
    BY <2>1, <2>2, <2>3, <2>4, <2>5, <2>6 DEF TasksOf!Next, TasksOf!FloorPasses, TasksOf!vars
<1> QED
  BY <1>1, <1>2, PTL DEF TasksOf!Spec

\* A step of a launch has a pane only where everything it depends on succeeded, for any tasks, however
\* their dependencies join and whichever branch got there first (launchWithDeps).
THEOREM StepsWait == ASSUME Root \in Tasks PROVE TasksOf!Spec => []TasksOf!DependenciesFirst
<1>1. TasksInv => TasksOf!DependenciesFirst
  BY DEF TasksInv, Fine, DepsFirst, TasksOf!DependenciesFirst
<1> QED
  BY <1>1, TasksInvAlways, PTL

\* The rule that runs after a turn never starts beside its own run, for any number of launches and turns
\* (maybeRunOnStop, stopInFlight).
THEOREM RuleRunsAlone == ASSUME Root \in Tasks PROVE TasksOf!Spec => []TasksOf!OneStopRunAtATime
<1>1. TasksInv => TasksOf!OneStopRunAtATime
  BY DEF TasksInv, Stops, Awaited, TasksOf!OneStopRunAtATime, TasksOf!StopRuns, TasksOf!Busy
<1> QED
  BY <1>1, TasksInvAlways, PTL
--------------------------------------------------------------------------

-----------------------------------------------------------------------------
(* Beside the session, its tasks: what is proved of them holds in every     *)
(* behaviour of SessionAndTasks.                                            *)

LEMMA TasksRun == BothSpec => TasksOf!Spec
<1>1. BothInit => TasksOf!Init
  BY DEF BothInit
<1>2. [BothNext]_<<part, vars, tasksVars>> => [TasksOf!Next]_(TasksOf!vars)
  BY DEF BothNext, tasksVars, TasksOf!vars
<1> QED
  BY <1>1, <1>2, PTL DEF BothSpec, TasksOf!Spec

\* A step of a launch has a pane only where everything it depends on succeeded (launchWithDeps), beside any session.
THEOREM DependenciesComeFirst == BothSpec => []DependenciesFirst
<1>1. TasksOf!Spec => []TasksOf!DependenciesFirst
  BY TasksAssumption, StepsWait
<1>2. TasksOf!DependenciesFirst => DependenciesFirst
  BY DEF DependenciesFirst
<1> QED
  BY <1>1, <1>2, TasksRun, PTL

\* The rule that runs after a turn never starts beside its own run (maybeRunOnStop), beside any session.
THEOREM OneStopRun == BothSpec => []OneStopRunAtATime
<1>1. TasksOf!Spec => []TasksOf!OneStopRunAtATime
  BY TasksAssumption, RuleRunsAlone
<1>2. TasksOf!OneStopRunAtATime => OneStopRunAtATime
  BY DEF OneStopRunAtATime
<1> QED
  BY <1>1, <1>2, TasksRun, PTL
==============================================================================
