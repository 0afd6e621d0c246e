------------------------------- MODULE Session -------------------------------
(***************************************************************************)
(* One agent session: what the agent really does, the hooks that tell it,  *)
(* and what the cockpit makes of them (phase.ts, agents.ts, permissions.ts,*)
(* revive.ts).  Claude Code posts each hook with a curl nobody waits for,  *)
(* so hooks may be lost and may overtake one another; a permission hook is *)
(* held open until an answer.  Codex's observer is one ordered stream.     *)
(*                                                                         *)
(* The cockpit's record is `ui`; an operator named for a function of the   *)
(* source takes the record before the call and is the record after it.     *)
(***************************************************************************)
EXTENDS Naturals, Sequences, FiniteSets

CONSTANTS
    Plans,          \* what a session may live through: see Plan
    Calls,          \* the tool calls there are
    Cmd,            \* [Calls -> commands]: the command a call's ask shows
    Agents,         \* the subagents there are
    Main,           \* the agent itself, as a caller
    Caller,         \* [Calls -> Agents \cup {Main}]: who makes each call
    Asking,         \* the calls that need a permission
    Attempts,       \* RevivePrefs.attempts
    MaxWire         \* bound: hooks on the wire

\* "claude": hooks arrive in order and nothing is silent for an hour; "lossy": they may be lost
\* or overtake one another, and an agent may be silent for an hour; "codex": the observer's stream.
AllModes == {"claude", "lossy", "codex"}

\* How the session is told, and its bounds: the calls and subagents it uses, the prompts typed, the
\* turns the API kills, and the long windows of the source that pass.
Plan == [told : AllModes, calls : SUBSET Calls, agents : SUBSET Agents, turns : Nat, fails : Nat, lapses : Nat]

ASSUME SessionAssumption ==
    /\ Plans \subseteq Plan
    /\ Main \notin Agents /\ Caller \in [Calls -> Agents \cup {Main}] /\ Asking \subseteq Calls
    /\ Attempts \in Nat \ {0}
    /\ MaxWire \in Nat

VARIABLES
    plan,       \* chosen once
    cc,         \* the agent: turn running, prompt queued in its composer, interrupted and not heard to be, nudge due
    call,       \* each call: "no", "run", "ask" (held by Episko), "cli" (asked in the terminal), "over" (reported back), "cut"
    agent,      \* each subagent: "no", "run", "over"
    wire,       \* hooks posted and not handled
    held,       \* asks the telemetry server holds open
    answers,    \* resolve_permission calls under way: <<call, behavior>>
    typing,     \* continues tickRevive wrote that have not reached the agent
    ui,         \* the Sess record
    \* history: continues since the cockpit last heard a turn end well, and the bounds' counters
    streak, turns, fails, lapses

vars == <<plan, cc, call, agent, wire, held, answers, typing, ui, streak, turns, fails, lapses>>

-----------------------------------------------------------------------------
(* What the cockpit keeps, and the helpers of phase.ts and permissions.ts. *)

NoRevive == [attempts |-> 0, errAt |-> 0, due |-> FALSE, gaveUp |-> FALSE, on |-> FALSE]

FreshUi ==
    [phase |-> "idle", recent |-> FALSE, stale |-> FALSE, queued |-> FALSE, err |-> 0,
     asks |-> <<>>, note |-> FALSE, revive |-> NoRevive,
     crew |-> [a \in Agents |-> "no"], fan |-> "none"]

\* `recent`: done for less than STRAGGLER_MS; `stale`: thinking for longer than TURN_STALL_MS.
SetPhase(u, p) == IF u.phase = p THEN u ELSE [u EXCEPT !.phase = p, !.recent = (p = "done"), !.stale = FALSE]

\* `attention`: an ask heads the queue, or a Notification set it.
Attention(u) == u.asks # <<>> \/ u.note

ClearPermissionState(u) == [u EXCEPT !.asks = <<>>, !.note = FALSE]

Shown(u) == {u.asks[i] : i \in DOMAIN u.asks}

QueuePermission(u, k) ==
    [u EXCEPT !.asks = IF k \in Shown(u) THEN @ ELSE Append(@, k), !.note = FALSE]

Without(u, K) ==
    LET left == {i \in DOMAIN u.asks : u.asks[i] \notin K}
        nth(n) == CHOOSE i \in left : Cardinality({j \in left : j <= i}) = n
    IN  [u EXCEPT !.asks = [n \in 1..Cardinality(left) |-> u.asks[nth(n)]]]

\* The queue is projected again only where it had the ask at its head or has asks left.
RemovePermission(u, k) ==
    LET v == Without(u, {k})
    IN  IF v.asks # <<>> \/ (u.asks # <<>> /\ Head(u.asks) = k) THEN [v EXCEPT !.note = FALSE] ELSE v

Matching(u, k) == {q \in Shown(u) : Cmd[q] = Cmd[k]}

ReleaseAnswered(u, k) ==
    IF Matching(u, k) = {} THEN u ELSE [Without(u, Matching(u, k)) EXCEPT !.note = FALSE]

LiveCrew(u) == {a \in Agents : u.crew[a] # "no"}

LiveFanout(u) == u.fan \in {"fresh", "quiet"} /\ (LiveCrew(u) # {} \/ u.fan = "fresh")

Bg(u) == LiveCrew(u) # {} \/ (u.phase = "done" /\ u.recent)

NoCrew == [a \in Agents |-> "no"]

\* The variant forgets the agents of the run before.
StartFanoutAlone(u) == [u EXCEPT !.crew = NoCrew, !.fan = "fresh"]
StartFanout(u) ==
    [u EXCEPT !.crew = [a \in Agents |-> IF @[a] = "own" THEN "inherited" ELSE @[a]], !.fan = "fresh"]

StartAgent(u, a) ==
    [u EXCEPT !.crew[a] = IF @ = "no" THEN "own" ELSE @, !.fan = "fresh"]

\* A stop for an agent nobody knows retires another one, the running fan-out's first.
StopAgent(u, a) ==
    LET own  == {b \in Agents : u.crew[b] = "own"}
        pick == IF u.crew[a] # "no" \/ LiveCrew(u) = {} THEN a
                ELSE CHOOSE b \in LiveCrew(u) : own # {} => b \in own
    IN  [u EXCEPT !.crew[pick] = "no"]

\* The variant leaves the queued prompt.
EndTurnKeepingQueued(u) ==
    IF u.err # 0 THEN SetPhase(u, "error")
    ELSE SetPhase([u EXCEPT !.revive = NoRevive], IF u.queued THEN "thinking" ELSE "done")
EndTurn(u) ==
    IF u.err # 0 THEN SetPhase(u, "error")
    ELSE IF u.queued THEN SetPhase([u EXCEPT !.revive = NoRevive, !.queued = FALSE], "thinking")
    ELSE SetPhase([u EXCEPT !.revive = NoRevive], "done")

\* The variant starts each turn with a fresh ladder.
NewTurnForgiving(u) == [u EXCEPT !.err = 0, !.revive = NoRevive]
NewTurn(u) == [u EXCEPT !.err = 0]

\* What applyHook does before it looks at the event.
Hygiene(u) == IF LiveFanout(u) THEN u ELSE [u EXCEPT !.crew = NoCrew]

-----------------------------------------------------------------------------
(* applyHook, one operator per event, and applyStatusline. *)

ResetRepl(u) == [NewTurn(ClearPermissionState(u)) EXCEPT !.crew = NoCrew, !.fan = "none", !.queued = FALSE]

OnSessionStart(u) == SetPhase(ResetRepl(u), "idle")

OnSessionEnd(u) == SetPhase(ResetRepl(u), "ended")

\* A notice Claude submits for the person never queues.
OnUserPromptSubmit(u, notice) ==
    LET v == [u EXCEPT !.queued = @ \/ (u.phase = "working" /\ ~notice)]
    IN  NewTurn(ClearPermissionState(SetPhase(v, "thinking")))

OnPreToolUse(u, workflow) ==
    LET v == IF workflow THEN StartFanout(u) ELSE u
    IN  IF Bg(v) THEN v ELSE NewTurn(SetPhase(v, "working"))

OnPostToolUse(u, k, ok) ==
    LET v == ReleaseAnswered(u, k)
    IN  IF Bg(v) THEN v ELSE SetPhase(v, IF ok THEN "working" ELSE "error")

OnStop(u) == ClearPermissionState(EndTurn(u))

OnStopFailure(u, at) ==
    ClearPermissionState(SetPhase([u EXCEPT !.err = at, !.queued = FALSE], "error"))

OnNotification(u, kind) ==
    IF kind = "idle_prompt"
    THEN ClearPermissionState(EndTurn([u EXCEPT !.queued = FALSE]))
    ELSE [u EXCEPT !.note = TRUE]

OnSubagentStart(u, a) ==
    StartAgent(IF LiveFanout(u) THEN u ELSE [u EXCEPT !.fan = "none"], a)

OnSubagentStop(u, a) ==
    LET v == StopAgent(u, a) IN IF v.fan = "none" THEN v ELSE [v EXCEPT !.fan = "fresh"]

ApplyHook(u, m) ==
    LET v == Hygiene(u) IN
    CASE m.ev = "SessionStart"     -> OnSessionStart(v)
      [] m.ev = "SessionEnd"       -> OnSessionEnd(v)
      [] m.ev = "UserPromptSubmit" -> OnUserPromptSubmit(v, m.flag)
      [] m.ev = "PreToolUse"       -> OnPreToolUse(v, m.flag)
      [] m.ev = "PostToolUse"      -> OnPostToolUse(v, m.of, m.flag)
      [] m.ev = "Stop"             -> OnStop(v)
      [] m.ev = "StopFailure"      -> OnStopFailure(v, m.of)
      [] m.ev = "Notification"     -> OnNotification(v, m.of)
      [] m.ev = "SubagentStart"    -> OnSubagentStart(v, m.of)
      [] m.ev = "SubagentStop"     -> OnSubagentStop(v, m.of)

\* The variant revives an ended session only.
ApplyStatuslineEnded(u) == IF u.phase = "ended" THEN SetPhase(u, "idle") ELSE u
ApplyStatusline(u) ==
    LET v == IF u.phase = "ended" THEN SetPhase(u, "idle") ELSE u
    IN  IF v.phase = "thinking" /\ v.stale THEN SetPhase(v, "idle") ELSE v

(* applyAgentEvent, for what the Codex adapter makes of the observer's stream. *)

BeginAgentTurn(u) == SetPhase(NewTurn(ClearPermissionState(u)), "thinking")

FinishAgentTurn(u, failed, at) ==
    LET v == IF failed THEN [u EXCEPT !.err = at] ELSE u
    IN  ClearPermissionState(SetPhase(v, IF failed THEN "error" ELSE "done"))

ApplyAgentEvent(u, m) ==
    CASE m.ev = "turn-started"       -> BeginAgentTurn(u)
      [] m.ev = "turn-completed"     -> FinishAgentTurn(u, m.flag, m.of)
      [] m.ev = "activity-started"   -> SetPhase(u, "working")
      [] m.ev = "activity-completed" -> IF m.flag THEN u ELSE SetPhase(u, "error")
      [] m.ev = "permission-resolved" -> RemovePermission(u, m.of)

-----------------------------------------------------------------------------
(* The agent: each step posts the hooks it posts.                          *)

agentVars == <<cc, call, agent>>
bounds    == <<turns, fails, lapses>>

Msg(ev, of, flag) == [ev |-> ev, of |-> of, flag |-> flag]

Post(ms) == Len(wire) + Len(ms) <= MaxWire /\ wire' = wire \o ms

Hooked == plan.told # "codex"

Init ==
    /\ plan \in Plans
    /\ cc = [busy |-> FALSE, queued |-> FALSE, cut |-> FALSE, nudge |-> FALSE]
    /\ call = [k \in Calls |-> "no"] /\ agent = [a \in Agents |-> "no"]
    /\ wire = <<>> /\ held = {} /\ answers = {} /\ typing = 0
    /\ ui = FreshUi
    /\ streak = 0 /\ turns = 0 /\ fails = 0 /\ lapses = 0

Submit(notice) ==
    Post(<<IF Hooked THEN Msg("UserPromptSubmit", 0, notice) ELSE Msg("turn-started", 0, FALSE)>>)

Prompted == cc' = [cc EXCEPT !.busy = TRUE, !.queued = @ \/ cc.busy, !.nudge = FALSE]

\* A prompt at rest opens a turn; one typed while a turn runs waits in the agent's composer.
Type ==
    /\ turns < plan.turns /\ (cc.busy => Hooked /\ ~cc.queued)
    /\ Prompted /\ Submit(FALSE)
    /\ turns' = turns + 1
    /\ UNCHANGED <<plan, call, agent, held, answers, typing, ui, streak, fails, lapses>>

\* A background task's notice is submitted into the running turn, which answers it.
Notice ==
    /\ Hooked /\ cc.busy /\ turns < plan.turns
    /\ Submit(TRUE) /\ turns' = turns + 1
    /\ UNCHANGED <<plan, cc, call, agent, held, answers, typing, ui, streak, fails, lapses>>

Works(c) == IF c = Main THEN cc.busy ELSE agent[c] = "run"

NoCallOf(c) == \A k \in Calls : Caller[k] = c => call[k] \in {"no", "over", "cut"}

\* The calls of callers C that were made end, and nothing reports back.
CallsCut(C) == [k \in Calls |-> IF call[k] \in {"run", "ask", "cli"} /\ Caller[k] \in C THEN "cut" ELSE call[k]]

AgentsCut == [a \in Agents |-> IF agent[a] = "run" THEN "over" ELSE agent[a]]

\* A Workflow call launches subagents, where the plan has any.
StartCall(k, workflow) ==
    /\ k \in plan.calls /\ Works(Caller[k]) /\ call[k] = "no"
    /\ workflow => Hooked /\ Caller[k] = Main /\ plan.agents # {}
    /\ call' = [call EXCEPT ![k] = "run"]
    /\ Post(<<Msg(IF Hooked THEN "PreToolUse" ELSE "activity-started", k, workflow)>>)
    /\ UNCHANGED <<plan, cc, agent, held, answers, typing, ui, streak>> /\ UNCHANGED bounds

\* The blocking hook: the server holds the request and tells the cockpit.
Ask(k) ==
    /\ call[k] = "run" /\ k \in Asking
    /\ call' = [call EXCEPT ![k] = "ask"] /\ held' = held \cup {k}
    /\ Post(<<Msg("permission", k, FALSE)>>)
    /\ UNCHANGED <<plan, cc, agent, answers, typing, ui, streak>> /\ UNCHANGED bounds

EndCall(k, ok) ==
    /\ call[k] = "run"
    /\ call' = [call EXCEPT ![k] = "over"]
    /\ Post(<<Msg(IF Hooked THEN "PostToolUse" ELSE "activity-completed", k, ok)>>)
    /\ UNCHANGED <<plan, cc, agent, held, answers, typing, ui, streak>> /\ UNCHANGED bounds

\* An answer in the terminal; of the two providers only Codex says so.
InTerminal(k, allow) ==
    /\ call[k] \in {"ask", "cli"}
    /\ call' = [call EXCEPT ![k] = IF allow THEN "run" ELSE "cut"]
    /\ IF Hooked THEN UNCHANGED <<wire, held>>
       ELSE Post(<<Msg("permission-resolved", k, FALSE)>>) /\ held' = held \ {k}

AnswerInTerminal(k, allow) ==
    /\ InTerminal(k, allow)
    /\ UNCHANGED <<plan, cc, agent, answers, typing, ui, streak>> /\ UNCHANGED bounds

\* Nothing of this turn is running: the turn ends, and a queued prompt opens the next one.
EndOfTurn ==
    /\ cc.busy /\ NoCallOf(Main)
    /\ Post(<<IF Hooked THEN Msg("Stop", 0, FALSE) ELSE Msg("turn-completed", 0, FALSE)>>)
    /\ cc' = [cc EXCEPT !.busy = cc.queued, !.queued = FALSE, !.nudge = ~cc.queued]
    /\ UNCHANGED <<plan, call, agent, held, answers, typing, ui, streak>> /\ UNCHANGED bounds

\* The API kills the turn; `agents` is whether its subagents die with it, which no hook says.
ApiFailure(agents) ==
    /\ cc.busy /\ NoCallOf(Main) /\ fails < plan.fails
    /\ Post(<<IF Hooked THEN Msg("StopFailure", fails + 1, FALSE) ELSE Msg("turn-completed", fails + 1, TRUE)>>)
    /\ cc' = [cc EXCEPT !.busy = FALSE, !.queued = FALSE, !.nudge = TRUE]
    /\ IF agents THEN agent' = AgentsCut /\ call' = CallsCut(Agents) ELSE UNCHANGED <<agent, call>>
    /\ fails' = fails + 1
    /\ UNCHANGED <<plan, held, answers, typing, ui, streak, turns, lapses>>

\* Esc: no hook of Claude's says so; Codex completes the turn as interrupted.
Interrupt ==
    /\ cc.busy
    /\ cc' = [cc EXCEPT !.busy = FALSE, !.queued = FALSE, !.cut = Hooked, !.nudge = TRUE]
    /\ call' = CallsCut({Main})
    /\ IF Hooked THEN UNCHANGED <<wire, held>>
       ELSE Post(<<Msg("turn-completed", 0, FALSE)>>) /\ held' = {}
    /\ UNCHANGED <<plan, agent, answers, typing, ui, streak>> /\ UNCHANGED bounds

\* The REPL has been at rest for a minute.
IdleNudge ==
    /\ Hooked /\ ~cc.busy /\ cc.nudge
    /\ Post(<<Msg("Notification", "idle_prompt", FALSE)>>)
    /\ cc' = [cc EXCEPT !.nudge = FALSE, !.cut = FALSE]
    /\ UNCHANGED <<plan, call, agent, held, answers, typing, ui, streak>> /\ UNCHANGED bounds

\* The terminal's own dialog is up and says so.
AskNudge ==
    /\ Hooked /\ turns < plan.turns /\ \E k \in Calls : call[k] = "cli"
    /\ Post(<<Msg("Notification", "permission_prompt", FALSE)>>)
    /\ turns' = turns + 1
    /\ UNCHANGED <<plan, cc, call, agent, held, answers, typing, ui, streak, fails, lapses>>

StartSubagent(a) ==
    /\ Hooked /\ a \in plan.agents /\ cc.busy /\ agent[a] = "no"
    /\ agent' = [agent EXCEPT ![a] = "run"]
    /\ Post(<<Msg("SubagentStart", a, FALSE)>>)
    /\ UNCHANGED <<plan, cc, call, held, answers, typing, ui, streak>> /\ UNCHANGED bounds

StopSubagent(a) ==
    /\ agent[a] = "run" /\ NoCallOf(a)
    /\ agent' = [agent EXCEPT ![a] = "over"]
    /\ Post(<<Msg("SubagentStop", a, FALSE)>>)
    /\ UNCHANGED <<plan, cc, call, held, answers, typing, ui, streak>> /\ UNCHANGED bounds

\* /clear: the REPL ends and a fresh one starts.
ClearConversation ==
    /\ Hooked /\ ~cc.busy /\ turns < plan.turns
    /\ Post(<<Msg("SessionEnd", 0, FALSE), Msg("SessionStart", 0, FALSE)>>)
    /\ agent' = AgentsCut /\ call' = CallsCut(Agents \cup {Main})
    /\ cc' = [cc EXCEPT !.cut = FALSE, !.nudge = FALSE]
    /\ turns' = turns + 1
    /\ UNCHANGED <<plan, held, answers, typing, ui, streak, fails, lapses>>

-----------------------------------------------------------------------------
(* The cockpit. *)

WithoutMsg(i) == SubSeq(wire, 1, i - 1) \o SubSeq(wire, i + 1, Len(wire))

\* The variant clears the queue without releasing what was on it.
ApplyKeeping(m) ==
    /\ ui' = CASE m.ev = "permission" -> QueuePermission(ui, m.of)
               [] m.ev # "permission" /\ Hooked -> ApplyHook(ui, m)
               [] OTHER -> ApplyAgentEvent(ui, m)
    /\ UNCHANGED answers

\* What a handler takes off the queue it releases to the terminal, except an ask Codex resolved.
Apply(m) ==
    /\ ui' = CASE m.ev = "permission" -> QueuePermission(ui, m.of)
               [] m.ev # "permission" /\ Hooked -> ApplyHook(ui, m)
               [] OTHER -> ApplyAgentEvent(ui, m)
    /\ answers' = answers \cup
         (IF m.ev = "permission-resolved" THEN {}
          ELSE {<<k, "terminal">> : k \in Shown(ui) \ Shown(ui')})

EndsWell(m) ==
    \/ (m.ev = "Stop" \/ (m.ev = "Notification" /\ m.of = "idle_prompt")) /\ ui.err = 0
    \/ m.ev = "turn-completed" /\ ~m.flag

Handle(i) ==
    /\ i \in DOMAIN wire /\ (plan.told = "lossy" \/ i = 1)
    /\ Apply(wire[i])
    /\ wire' = WithoutMsg(i)
    /\ streak' = IF EndsWell(wire[i]) THEN 0 ELSE streak
    /\ UNCHANGED <<plan, held, typing>> /\ UNCHANGED agentVars /\ UNCHANGED bounds

\* A curl that did not get through in its second; a held ask is no such curl.
Lose(i) ==
    /\ plan.told = "lossy" /\ i \in DOMAIN wire /\ wire[i].ev # "permission"
    /\ wire' = WithoutMsg(i)
    /\ UNCHANGED <<plan, held, answers, typing, ui, streak>> /\ UNCHANGED agentVars /\ UNCHANGED bounds

\* The statusline's periodic report.
Statusline ==
    /\ Hooked /\ ui' = ApplyStatusline(ui) /\ ui' # ui
    /\ UNCHANGED <<plan, wire, held, answers, typing, streak>> /\ UNCHANGED agentVars /\ UNCHANGED bounds

\* The card on screen is the queue's head.
ResolvePermission(behavior) ==
    /\ ui.asks # <<>>
    /\ answers' = answers \cup {<<Head(ui.asks), behavior>>}
    /\ ui' = RemovePermission(ui, Head(ui.asks))
    /\ UNCHANGED <<plan, wire, held, typing, streak>> /\ UNCHANGED agentVars /\ UNCHANGED bounds

\* resolve_permission, or resolve_agent_request: a request is answered once.
Answered(x) ==
    LET k == x[1] IN
    /\ answers' = answers \ {x} /\ held' = held \ {k}
    /\ call' = [call EXCEPT ![k] =
          IF k \notin held \/ @ # "ask" THEN @
          ELSE IF x[2] = "allow" THEN "run" ELSE IF x[2] = "deny" THEN "cut" ELSE "cli"]
    /\ IF Hooked \/ k \notin held \/ x[2] = "terminal" THEN UNCHANGED wire
       ELSE Post(<<Msg("permission-resolved", k, FALSE)>>)
    /\ UNCHANGED <<plan, cc, agent, typing, ui, streak>> /\ UNCHANGED bounds

-----------------------------------------------------------------------------
(* The watchdog: reviveStep and tickRevive. *)

Wanted == ui.phase = "error" /\ ui.err # 0 /\ ~Attention(ui)

Spent == ui.revive.attempts >= Attempts

GiveUp ==
    /\ Wanted /\ Spent /\ ui.revive.on /\ ~ui.revive.gaveUp
    /\ ui' = [ui EXCEPT !.revive.gaveUp = TRUE]
    /\ UNCHANGED typing

\* A failure not seen before is timed anew; the attempts carry over.
Schedule ==
    /\ Wanted /\ ~Spent /\ (~ui.revive.on \/ ui.revive.errAt # ui.err)
    /\ ui' = [ui EXCEPT !.revive = [@ EXCEPT !.on = TRUE, !.errAt = ui.err, !.due = FALSE, !.gaveUp = FALSE]]
    /\ UNCHANGED typing

SendContinue(online) ==
    /\ Wanted /\ ~Spent /\ ui.revive.on /\ ui.revive.errAt = ui.err /\ ui.revive.due /\ online
    /\ ui' = [ui EXCEPT !.revive.attempts = @ + 1, !.revive.due = FALSE]
    /\ typing' = typing + 1

TickRevive ==
    /\ GiveUp \/ Schedule \/ \E online \in BOOLEAN : SendContinue(online)
    /\ streak' = streak + (typing' - typing)
    /\ UNCHANGED <<plan, wire, held, answers>> /\ UNCHANGED agentVars /\ UNCHANGED bounds

\* The sentence and the Enter reach the agent: an open dialog takes the Enter for its answer.
ContinueLands ==
    /\ typing > 0 /\ typing' = typing - 1
    /\ IF \E k \in Calls : call[k] \in {"ask", "cli"}
       THEN (\E k \in Calls : InTerminal(k, TRUE)) /\ UNCHANGED cc
       ELSE Prompted /\ Submit(FALSE) /\ UNCHANGED <<call, held>>
    /\ UNCHANGED <<plan, agent, answers, ui, streak>> /\ UNCHANGED bounds

-----------------------------------------------------------------------------
(* The windows of the source, as they pass. *)

Pass(u) ==
    /\ u # ui /\ ui' = u
    /\ UNCHANGED <<plan, wire, held, answers, typing, streak, turns, fails>> /\ UNCHANGED agentVars

RungDue == ui.revive.on /\ Pass([ui EXCEPT !.revive.due = TRUE]) /\ UNCHANGED lapses

StragglerPast == ui.phase = "done" /\ Pass([ui EXCEPT !.recent = FALSE]) /\ UNCHANGED lapses

StallPast == ui.phase = "thinking" /\ Pass([ui EXCEPT !.stale = TRUE]) /\ UNCHANGED lapses

GracePast == ui.fan = "fresh" /\ Pass([ui EXCEPT !.fan = "quiet"]) /\ UNCHANGED lapses

\* An hour without a Subagent hook, and an inherited agent's quarter of an hour.
DeadPast ==
    /\ plan.told = "lossy" /\ ui.fan = "quiet" /\ lapses < plan.lapses
    /\ Pass([ui EXCEPT !.fan = "dead"]) /\ lapses' = lapses + 1

OrphanPast ==
    /\ plan.told = "lossy" /\ lapses < plan.lapses
    /\ Pass([ui EXCEPT !.crew = [a \in Agents |-> IF @[a] = "inherited" THEN "no" ELSE @[a]]])
    /\ lapses' = lapses + 1

-----------------------------------------------------------------------------
AgentStep ==
    \/ Type \/ Notice \/ EndOfTurn \/ Interrupt \/ IdleNudge \/ AskNudge \/ ClearConversation
    \/ \E k \in Calls :
        \/ Ask(k)
        \/ \E flag \in BOOLEAN : StartCall(k, flag) \/ EndCall(k, flag) \/ AnswerInTerminal(k, flag)
    \/ \E a \in Agents : StartSubagent(a) \/ StopSubagent(a)
    \/ \E agents \in BOOLEAN : ApiFailure(agents)

CockpitStep ==
    \/ \E i \in 1..MaxWire : Handle(i) \/ Lose(i)
    \/ Statusline
    \/ \E behavior \in {"allow", "deny", "terminal"} : ResolvePermission(behavior)
    \/ \E x \in answers : Answered(x)
    \/ TickRevive \/ ContinueLands
    \/ RungDue \/ StragglerPast \/ StallPast \/ GracePast \/ DeadPast \/ OrphanPast

Next == AgentStep \/ CockpitStep

Spec == Init /\ [][Next]_vars

\* The statusline is posted every ten seconds of a live REPL, and time goes on.
Fairness == WF_vars(StallPast) /\ WF_vars(Statusline)

FairSpec == Spec /\ Fairness

-----------------------------------------------------------------------------
(* Properties. *)

\* Whatever is lost, reordered or answered elsewhere, a request the server holds open is on its
\* way to the cockpit, on its card, or being released: none is left to Claude's ten-minute timeout
\* (clearPending, releasePending, resolvePermission).
NoAskIsStranded ==
    \A k \in held : \/ k \in Shown(ui)
                    \/ \E i \in DOMAIN wire : wire[i].ev = "permission" /\ wire[i].of = k
                    \/ \E x \in answers : x[1] = k

Quiet == wire = <<>> /\ answers = {} /\ typing = 0

Rests == ~cc.busy /\ ~cc.cut

AgentRuns == \E a \in Agents : agent[a] = "run"

\* Told in order, the cockpit shows a resting agent as at rest once it has heard everything: no
\* queued prompt outlives its turn, and no straggler or failed tool repaints it (endTurn, the
\* straggler window, the idle Notification's repair).
RestIsShown ==
    plan.told # "lossy" /\ Quiet /\ Rests /\ ~AgentRuns =>
        /\ ui.phase \in {"idle", "done"} \/ (ui.phase = "error" /\ ui.err # 0)
        /\ ~ui.queued

\* Told in order, a resting session whose subagents still run is shown waiting for them, not as
\* the person's turn, however many workflows and turns went by (liveFanout, bgWaiting).
CrewIsShown ==
    plan.told = "claude" /\ Quiet /\ Rests /\ AgentRuns =>
        LiveFanout(ui) /\ \A a \in Agents : agent[a] = "run" => ui.crew[a] # "no"

\* From one turn heard to end well to the next the watchdog types at most its budget of continues,
\* whichever turns those continues open, however they fail and whatever hooks are lost (reviveStep;
\* only endTurn clears the count).
ContinuesWithinBudget == streak <= Attempts

\* Even with every hook of a turn's end lost, a pane does not think for ever once the agent rests:
\* the statusline's stall rule ends it (applyStatusline).
ThinkingEnds == <>[](~cc.busy /\ wire = <<>> /\ typing = 0) => []<>(ui.phase # "thinking")
=============================================================================
