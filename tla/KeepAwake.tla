------------------------------ MODULE KeepAwake ------------------------------
(* The keep-awake button (caffeinate.ts) and the one child that holds the machine awake
   (set_caffeinate of platform.rs).  A command runs when its turn comes and answers later. *)
EXTENDS Naturals, Sequences

CONSTANTS
    Lengths,    \* the lengths of the timer, in ticks
    Acts,       \* how often the user, the agents and the clock act
    Mishaps,    \* how many spawns fail
    Calm        \* whether the orders the README lists under Calm are left out

VARIABLES
    armed,      \* cafArmed
    preset,     \* cafPresetId
    length,     \* cafTimerSec
    key,        \* cafAssertKey: the flags handed over, Nothing for none
    timer,      \* what is left of the timer that switches it off, 0 for none
    busy,       \* cafAgentsBusy
    calls,      \* the commands that have not run
    answers,    \* their answers that have not arrived: whether each failed
    held,       \* the flags of the child that runs
    left,       \* what is left of its -t
    cafActs, mishaps

kavars == <<armed, preset, length, key, timer, busy, calls, answers, held, left, cafActs, mishaps>>

Nothing == <<"none", 0>>
Act == cafActs < Acts /\ cafActs' = cafActs + 1

\* cafDesiredFlags
Desired(on, p, n, agents) ==
    IF ~on \/ (p = "agents" /\ ~agents) THEN Nothing
    ELSE CASE p = "timer" -> <<"timer", n>>
           [] p \in {"system", "agents"} -> <<"system", 0>>
           [] OTHER -> <<p, 0>>
Wanted == Desired(armed, preset, length, busy)

Init ==
    /\ armed = FALSE /\ preset \in {"display", "agents"} /\ length \in Lengths /\ key = Nothing /\ timer = 0
    /\ busy \in BOOLEAN /\ calls = <<>> /\ answers = <<>> /\ held = Nothing /\ left = 0 /\ cafActs = 0 /\ mishaps \in 0 .. Mishaps

\* reconcileCaf, with what the user's act left behind: a command only when the flags change.
Reconcile ==
    IF Wanted' = key THEN UNCHANGED <<key, calls>>
    ELSE /\ key' = Wanted' /\ calls' = Append(calls, Wanted')
         /\ Calm => TRUE \notin {answers[i] : i \in DOMAIN answers} /\ (calls = <<>> \/ mishaps = Mishaps)

\* cafArmTimer: an act starts the timer anew.
ArmTimer == timer' = IF armed' /\ preset' = "timer" THEN length' ELSE 0

Acted ==
    /\ UNCHANGED <<busy, answers, held, left, mishaps>>
    /\ Act /\ ArmTimer /\ Reconcile
    /\ Calm => key' # key \/ timer' \in {timer, 0}

Toggle == armed' = ~armed /\ UNCHANGED <<preset, length>> /\ Acted
Pick(p) == armed' = TRUE /\ preset' = p /\ UNCHANGED length /\ Acted
SetDuration(n) == armed' = TRUE /\ preset' = "timer" /\ length' = n /\ Acted
Stop == armed /\ armed' = FALSE /\ UNCHANGED <<preset, length>> /\ Acted

\* The agents start or stop working; renderAll follows.
AgentsTurn == busy' = ~busy /\ Act /\ UNCHANGED <<armed, preset, length, key, timer, calls, answers, held, left, mishaps>>
\* cafSetAwait changes what counts as working.
SetAwait == busy' = ~busy /\ UNCHANGED <<armed, preset, length, timer, answers, held, left, mishaps>> /\ Act /\ Reconcile
RenderAll ==
    /\ Wanted # key /\ UNCHANGED <<armed, preset, length, busy>> /\ Reconcile
    /\ UNCHANGED <<timer, answers, held, left, cafActs, mishaps>>

TimerEnds ==
    /\ timer = 1 /\ timer' = 0 /\ armed' = FALSE /\ UNCHANGED <<preset, length, busy>> /\ Reconcile
    /\ UNCHANGED <<answers, held, left, cafActs, mishaps>>

\* A timer that is due fires before more time passes; the child's own -t is as long.
Tick ==
    /\ timer # 1 /\ (timer # 0 \/ left # 0) /\ cafActs' = cafActs
    /\ timer' = IF timer = 0 THEN 0 ELSE timer - 1
    /\ left' = IF left = 0 THEN 0 ELSE left - 1
    /\ held' = IF left = 1 THEN Nothing ELSE held
    /\ UNCHANGED <<armed, preset, length, key, busy, calls, answers, mishaps>>

\* set_caffeinate: the child that runs is killed, another is spawned or fails to be.
Runs ==
    /\ calls # <<>> /\ calls' = Tail(calls)
    /\ \/ /\ held' = Head(calls) /\ left' = Head(calls)[2] /\ answers' = Append(answers, FALSE) /\ UNCHANGED mishaps
       \/ /\ Head(calls) # Nothing /\ mishaps < Mishaps /\ mishaps' = mishaps + 1
          /\ held' = Nothing /\ left' = 0 /\ answers' = Append(answers, TRUE)
    /\ UNCHANGED <<armed, preset, length, key, timer, busy, cafActs>>

\* What a failed command leaves of the key: nothing, so that the next repaint asks again.
KeptKey(k) == k
KeyAfterFailure(k) == Nothing
Answered ==
    /\ answers # <<>> /\ answers' = Tail(answers)
    /\ key' = IF Head(answers) THEN KeyAfterFailure(key) ELSE key
    /\ UNCHANGED <<armed, preset, length, timer, busy, calls, held, left, cafActs, mishaps>>

\* initCaf: the module forgets, the child does not, so it is told.
Reload ==
    /\ Act /\ armed' = FALSE /\ key' = Nothing /\ timer' = 0 /\ calls' = Append(calls, Nothing)
    /\ answers' = <<>> /\ UNCHANGED <<preset, length, busy, held, left, mishaps>>

Next ==
    \/ Toggle \/ Stop \/ AgentsTurn \/ SetAwait \/ RenderAll \/ TimerEnds \/ Tick \/ Runs \/ Answered \/ Reload
    \/ \E p \in {"display", "system", "timer", "agents"} : Pick(p)
    \/ \E n \in Lengths : SetDuration(n)

Spec == Init /\ [][Next]_kavars

\* Once every command has run and been answered and the button shows what the flags say, the machine is held
\* awake exactly by those flags (reconcileCaf, set_caffeinate, cafArmTimer).
AwakeIsTrue ==
    key = Wanted /\ calls = <<>> /\ answers = <<>> => held = key
=============================================================================
