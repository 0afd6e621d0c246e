--------------------------- MODULE SessionAndTasks ---------------------------
(* A session and the tasks of its project.  They share no state: in each behaviour one of them runs
   while the other rests. *)
EXTENDS Session

CONSTANTS Tasks, Root, NoTask, Graphs, Runs, TaskActs   \* see Tasks

ASSUME TasksAssumption == Root \in Tasks

VARIABLES part, graph, deps, run, recent, inFlight, acts

TasksOf == INSTANCE Tasks WITH Acts <- TaskActs
tasksVars == <<graph, deps, run, recent, inFlight, acts>>

\* A part at rest stays in one of its initial states.
BothInit ==
    /\ part \in {"session", "tasks"}
    /\ Init /\ (part = "session" \/ plan = CHOOSE x \in Plans : TRUE)
    /\ TasksOf!Init /\ (part = "tasks" \/ graph = CHOOSE x \in Graphs : TRUE)
BothNext ==
    /\ UNCHANGED part
    /\ \/ part = "session" /\ Next /\ UNCHANGED tasksVars
       \/ part = "tasks" /\ TasksOf!Next /\ UNCHANGED vars
BothSpec == BothInit /\ [][BothNext]_<<part, vars, tasksVars>> /\ Fairness /\ TasksOf!Fairness

\* A task starts only where what it depends on succeeded (launchWithDeps).
DependenciesFirst == TasksOf!DependenciesFirst
\* A turn that ends never starts the rule while it runs (taskrun.ts).
OneStopRunAtATime == TasksOf!OneStopRunAtATime
\* A launch in which every process ends is over (waitForExit, launchWithDeps).
LaunchesEnd == TasksOf!LaunchesEnd
==============================================================================
