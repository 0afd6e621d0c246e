-------------------------------- MODULE Tasks --------------------------------
(***************************************************************************)
(* Running a project's tasks: a launch with its dependencies (tasks.ts),   *)
(* the pane and the process of each step (panes.ts, main.ts), and the rule *)
(* that runs after a turn (taskrun.ts).                                    *)
(*                                                                         *)
(* JavaScript runs one event at a time: what follows an await of something *)
(* already settled (a microtask) comes before the next event.              *)
(***************************************************************************)
EXTENDS Naturals, Sequences

CONSTANTS
    Tasks,      \* task ids of one discovery
    Root,       \* the task that is run, and the rule
    NoTask,     \* a label that names none
    Graphs,     \* [Tasks -> Task]: what discovery may find
    Runs, Acts  \* bounds: launches, and turns that end or things done by hand

\* A task: its label and source, the labels it depends on, whether in sequence, and whether it is an
\* ordinary "task", a "server" that never exits, "compound" (only its dependencies), or "blocked".
Task(label, source, dependsOn, sequence, kind) ==
    [label |-> label, source |-> source, dependsOn |-> dependsOn, sequence |-> sequence, kind |-> kind]

VARIABLES
    graph,      \* runnablesByRoot of the root, chosen once
    deps,       \* what its labels name
    run,        \* launches, in order
    recent,     \* stopRunAt: less than STOP_RUN_FLOOR ago
    inFlight,   \* stopInFlight
    acts        \* turns that ended and things done by hand, for the bound

vars == <<graph, deps, run, recent, inFlight, acts>>

\* A launch: who asked, where it stands, and for each task its promise, the path that reached it
\* and its pane.
Idle(by, st) ==
    [by |-> by, st |-> st, root |-> Root, group |-> FALSE,
     frame |-> [t \in Tasks |-> "no"], seen |-> [t \in Tasks |-> {}], pane |-> [t \in Tasks |-> "no"]]

-----------------------------------------------------------------------------
(* Dependencies, which are named by label. *)

\* The same provider wins where two tasks share a label; none may have it.
FindDep(g, label, t) ==
    LET named == {x \in Tasks : g[x].label = label}
        same  == {x \in named : g[x].source = g[t].source}
    IN  IF same # {} THEN CHOOSE x \in same : TRUE ELSE IF named # {} THEN CHOOSE x \in named : TRUE ELSE NoTask

\* What each task's labels name, in order.
Found(g) == [t \in Tasks |-> [i \in DOMAIN g[t].dependsOn |-> FindDep(g, g[t].dependsOn[i], t)]]

Deps(t) == {deps[t][i] : i \in DOMAIN deps[t]} \ {NoTask}

\* Unresolvable, or met already on the way here: not the same as having none.
ResolveDeps(t, seen) == \A i \in DOMAIN deps[t] : deps[t][i] # NoTask /\ deps[t][i] \notin seen

\* What a walk from t along dependencies reaches.
Reach(t) == {x \in Tasks : \A C \in SUBSET Tasks : t \in C /\ (\A y \in C : Deps(y) \subseteq C) => x \in C}

Circular(t) == \E S \in SUBSET Reach(t) : S # {} /\ \A x \in S : Deps(x) \cap S # {}

FindDepCycle(t) == Circular(t)

-----------------------------------------------------------------------------
NoPane == {"no", "closed", "unseen", "lost"}

Busy(c) == run[c].st \in {"discover", "go"}

Settled == {"ok", "failed"}

\* Where a sequence stands: at its first dependency that is not through.
At(r, t) == CHOOSE i \in 1..(Len(deps[t]) + 1) :
    /\ \A j \in 1..(i - 1) : r.frame[deps[t][j]] = "ok"
    /\ i \in DOMAIN deps[t] => r.frame[deps[t][i]] # "ok"

\* Whether what launchWithDeps awaits is over: all of them in parallel, or the one a sequence is at.
AwaitIsOver(r, t) ==
    /\ r.frame[t] = "deps"
    /\ IF graph[t].sequence
       THEN At(r, t) \in DOMAIN deps[t] => r.frame[deps[t][At(r, t)]] \in {"no", "failed"}
       ELSE \A x \in Deps(t) : r.frame[x] \in Settled

Micro(c) == \E t \in Tasks : run[c].frame[t] = "enter" \/ AwaitIsOver(run[c], t)

Quiet == \A c \in DOMAIN run : ~Micro(c)

\* A launch is over once its root's promise settles; a run after a turn then gives its claim back.
Over(r) == IF r.st = "go" /\ r.frame[r.root] \in Settled THEN [r EXCEPT !.st = "over"] ELSE r

GivesBack(r) == r.by = "stop" /\ r.st = "go" /\ Over(r).st = "over"

Set(c, r) ==
    /\ run' = [run EXCEPT ![c] = Over(r)]
    /\ inFlight' = (inFlight /\ ~GivesBack(r))
    /\ UNCHANGED <<graph, deps, recent, acts>>

\* launchTask and closeSession: a finished pane of the same task that is in no group makes room.
Replaced(d, t) == run[d].pane[t] \in {"zero", "bad", "dead"} /\ ~run[d].group

Own(c, r, t) ==
    IF graph[t].kind \in {"compound", "blocked"}
    THEN Set(c, [r EXCEPT !.frame[t] = IF graph[t].kind = "compound" THEN "ok" ELSE "failed"])
    ELSE \E spared \in {c} \cup {d \in DOMAIN run : Replaced(d, t)} :
           /\ run' = [d \in DOMAIN run |->
                IF d = c THEN [r EXCEPT !.frame[t] = "spawn", !.pane[t] = "starting"]
                ELSE IF d # spared /\ Replaced(d, t) THEN [run[d] EXCEPT !.pane[t] = "closed"] ELSE run[d]]
           /\ UNCHANGED <<graph, deps, recent, inFlight, acts>>

\* A dependency is entered once per launch: the memo is claimed before anything is awaited.
Entering(r, t, X) ==
    LET new == {x \in X : r.frame[x] = "no"}
    IN  [r EXCEPT !.frame = [x \in Tasks |-> IF x \in new THEN "enter" ELSE @[x]],
                  !.seen = [x \in Tasks |-> IF x \in new THEN r.seen[t] \cup {t} ELSE @[x]]]

\* launchWithDeps as far as its first await.
Enter(c, t) ==
    LET r == [run[c] EXCEPT !.frame[t] = "deps", !.group = @ \/ deps[t] # <<>>] IN
    /\ run[c].frame[t] = "enter"
    /\ IF ~ResolveDeps(t, run[c].seen[t]) THEN Set(c, [run[c] EXCEPT !.frame[t] = "failed"])
       ELSE IF deps[t] = <<>> THEN Own(c, run[c], t)
       ELSE IF graph[t].sequence THEN Set(c, r)
       ELSE Set(c, Entering(r, t, Deps(t)))

\* The next dependency of a sequence; the first failure ends it.
NextInSequence(c, t) ==
    /\ AwaitIsOver(run[c], t) /\ graph[t].sequence /\ At(run[c], t) \in DOMAIN deps[t]
    /\ run[c].frame[deps[t][At(run[c], t)]] = "no"
    /\ Set(c, Entering(run[c], t, {deps[t][At(run[c], t)]}))

\* The variant starts a task whatever became of its dependencies.
DepsDoneAnyhow(r, t) == TRUE
DepsDone(r, t) == \A x \in Deps(t) : r.frame[x] = "ok"

DepsSettle(c, t) ==
    /\ AwaitIsOver(run[c], t)
    /\ graph[t].sequence /\ At(run[c], t) \in DOMAIN deps[t] => run[c].frame[deps[t][At(run[c], t)]] # "no"
    /\ IF DepsDone(run[c], t) THEN Own(c, run[c], t) ELSE Set(c, [run[c] EXCEPT !.frame[t] = "failed"])

Microtask == \E c \in DOMAIN run : \E t \in Tasks : Enter(c, t) \/ NextInSequence(c, t) \/ DepsSettle(c, t)

-----------------------------------------------------------------------------
(* Events. *)

Start(r) == IF FindDepCycle(Root) THEN [r EXCEPT !.frame[Root] = "failed", !.st = "over"]
               ELSE [r EXCEPT !.frame[Root] = "enter", !.st = "go"]

RuleRuns == \E c \in DOMAIN run : run[c].pane[Root] \in {"starting", "run"}

\* maybeRunOnStop up to its first await.  The variant claims nothing there.
ClaimNothing == recent' = recent /\ inFlight' = inFlight
Claim == recent' = TRUE /\ inFlight' = TRUE

Act == acts < Acts /\ acts' = acts + 1

TurnEnds ==
    /\ Quiet /\ Len(run) < Runs /\ Act
    /\ IF recent \/ inFlight \/ RuleRuns
       THEN UNCHANGED <<run, recent, inFlight>>
       ELSE run' = Append(run, Idle("stop", "discover")) /\ Claim
    /\ UNCHANGED <<graph, deps>>

\* Discovery answered: the rule is gone, may not run unattended (stopRuleBlocked, an input), or is launched.
Discovered(c, runs) ==
    /\ Quiet /\ run[c].st = "discover"
    /\ runs => graph[Root].kind = "task"
    /\ LET r == IF runs THEN Start(run[c]) ELSE [run[c] EXCEPT !.st = "over"] IN
       run' = [run EXCEPT ![c] = r] /\ inFlight' = (r.st = "go")
    /\ UNCHANGED <<graph, deps, recent, acts>>

\* A run asked for by hand.
RunByHand ==
    /\ Quiet /\ Len(run) < Runs /\ Act
    /\ run' = Append(run, Start(Idle("hand", "go")))
    /\ UNCHANGED <<graph, deps, recent, inFlight>>

\* spawn_task answers: a dependency is now waited for, unless it never exits.  A failure has its pane
\* all the same, and the launch is told its id.
Spawned(c, t, ok) ==
    LET r == run[c] IN
    /\ Quiet /\ r.frame[t] = "spawn"
    /\ Set(c, [r EXCEPT
         !.pane[t] = IF ~ok /\ @ = "starting" THEN "dead" ELSE IF ~ok THEN "lost" ELSE IF @ = "starting" THEN "run" ELSE @,
         !.frame[t] = IF t = r.root \/ graph[t].kind = "server" THEN "ok" ELSE "exit"])

\* pty-exit.
Exit(c, t, zero) ==
    LET r == run[c] IN
    /\ Quiet /\ r.pane[t] \in {"run", "unseen"} /\ r.frame[t] # "spawn"
    /\ Set(c, [r EXCEPT
         !.pane[t] = IF @ = "unseen" THEN "closed" ELSE IF zero THEN "zero" ELSE "bad",
         !.frame[t] = IF @ # "exit" THEN @ ELSE IF zero THEN "ok" ELSE "failed"])

\* closeSession: a waiter hears of a failure; a process not spawned yet outlives its pane.
\* The variant leaves the waiter waiting.
ClosedSilently(r, t) ==
    IF r.pane[t] \in NoPane THEN r ELSE [r EXCEPT !.pane[t] = IF @ = "starting" THEN "unseen" ELSE "closed"]
Closed(r, t) ==
    IF r.pane[t] \in NoPane THEN r
    ELSE [r EXCEPT !.pane[t] = IF @ = "starting" THEN "unseen" ELSE "closed",
                   !.frame[t] = IF @ = "exit" THEN "failed" ELSE @]

CloseSession(c, t) ==
    /\ Quiet /\ Act /\ run[c].pane[t] \notin NoPane
    /\ run' = [run EXCEPT ![c] = Over(Closed(run[c], t))]
    /\ inFlight' = (inFlight /\ ~GivesBack(Closed(run[c], t)))
    /\ UNCHANGED <<graph, deps, recent>>

\* One step again, its dependencies not repeated, in the group it had.
RerunTask(c, t) ==
    /\ Quiet /\ Len(run) < Runs /\ Act /\ run[c].pane[t] \notin NoPane
    /\ LET r == Closed(run[c], t)
           again == [Idle("rerun", "go") EXCEPT !.root = t, !.group = r.group,
                       !.frame[t] = "spawn", !.pane[t] = "starting"]
       IN  /\ run' = Append([run EXCEPT ![c] = Over(r)], again)
           /\ inFlight' = (inFlight /\ ~GivesBack(r))
    /\ UNCHANGED <<graph, deps, recent>>

\* The whole group again: every member is closed first.
RerunRunGroup(c) ==
    /\ Quiet /\ Len(run) < Runs /\ Act /\ run[c].group /\ \E t \in Tasks : run[c].pane[t] \notin NoPane
    /\ LET members == {t \in Tasks : run[c].pane[t] \notin NoPane}
           r == [run[c] EXCEPT !.pane = [t \in Tasks |-> Closed(run[c], t).pane[t]],
                               !.frame = [t \in Tasks |-> Closed(run[c], t).frame[t]]]
       IN  /\ run' = Append([run EXCEPT ![c] = Over(r)], Start(Idle("hand", "go")))
           /\ inFlight' = (inFlight /\ ~GivesBack(r))
    /\ UNCHANGED <<graph, deps, recent>>

FloorPasses ==
    /\ Quiet /\ recent /\ recent' = FALSE /\ UNCHANGED <<graph, deps, run, inFlight, acts>>

Init == graph \in Graphs /\ deps = Found(graph) /\ run = <<>> /\ recent = FALSE /\ inFlight = FALSE /\ acts = 0

Next ==
    \/ Microtask
    \/ TurnEnds \/ RunByHand \/ FloorPasses
    \/ \E c \in DOMAIN run :
         \/ RerunRunGroup(c)
         \/ \E flag \in BOOLEAN : Discovered(c, flag)
         \/ \E t \in Tasks : CloseSession(c, t) \/ RerunTask(c, t)
         \/ \E t \in Tasks, flag \in BOOLEAN : Spawned(c, t, flag) \/ Exit(c, t, flag)

Spec == Init /\ [][Next]_vars

\* Promises are settled, commands answer, and a process that is no server ends.
Progress(c) ==
    \/ Microtask
    \/ \E flag \in BOOLEAN : Discovered(c, flag)
    \/ \E t \in Tasks, flag \in BOOLEAN : Spawned(c, t, flag) \/ (Exit(c, t, flag) /\ graph[t].kind # "server")

Fairness == \A c \in 1..Runs : WF_vars(c \in DOMAIN run /\ Progress(c))

-----------------------------------------------------------------------------
(* Properties. *)

\* A step has a pane only where everything it depends on succeeded, however the graph joins and
\* whichever branch got there first; a re-run step alone is exempt (launchWithDeps).
DependenciesFirst ==
    \A c \in DOMAIN run : run[c].by # "rerun" =>
      \A t \in Tasks : run[c].pane[t] # "no" => \A x \in Deps(t) : run[c].frame[x] = "ok"

\* Turns that end together, or while a chain is starting, never start the rule beside its own run
\* (stopInFlight, the pane scan).
StopRuns == {c \in DOMAIN run : run[c].by = "stop" /\ (Busy(c) \/ run[c].pane[Root] \in {"starting", "run"})}
OneStopRunAtATime == \A c, d \in StopRuns : c = d

Stuck(c) == \E t \in Tasks : run[c].frame[t] = "exit" /\ run[c].pane[t] \in {"dead", "lost"}

\* Every launch ends, and with it the claim that keeps the next one off, unless it waits for a step
\* whose process never started.
LaunchesEnd == \A c \in 1..Runs : []<>(c \in DOMAIN run => ~Busy(c) \/ Stuck(c))

\* "a dependency chain must never deadlock on a vanished session" (main.ts), "A failed dependency
\* stops the chain" (tasks.ts).
ChainsNeverHang == \A c \in 1..Runs : []<>(c \in DOMAIN run => ~Busy(c))
=============================================================================
