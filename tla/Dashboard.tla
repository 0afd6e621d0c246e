----------------------------- MODULE Dashboard -----------------------------
(***************************************************************************)
(* The project dashboard (dashboard.ts): one stage, many answers about a   *)
(* folder, each asked when the stage showed it and landing whenever it     *)
(* does, and the queue that buys the days' summaries one at a time.        *)
(***************************************************************************)
EXTENDS Naturals, FiniteSets

CONSTANTS
    Projects, Nowhere,
    Days, Closed,   \* the days on show, and those that are over
    Team,           \* `sharedDay`: more than one person committed
    Rushed,         \* whether the stage moves while a note, a kept issue or a lock is being written
    Acts            \* per set of answers a behaviour follows (they do not depend on one another), a bound on
                    \* what the person does and teammates send

VARIABLES
    watched,        \* chosen once
    tierOf, mode,   \* chosen once, where `watched` tells them apart: what each project is, and where it shares
    root, known, tier,      \* the stage, and what `project_facts` said of it
    shown,          \* [Answers -> Projects and Nowhere]: whose answer the stage holds
    wait,           \* the skeletons up
    calls,          \* [Kinds -> [Projects -> Nat]]: questions not answered yet
    thread,         \* issueAt, and the thread whose body is shown
    syncing,        \* the remote op in flight
    write,          \* the write in flight: a note shared, an issue kept, a branch locked
    lines,          \* summaries and teamSummaries: <<scope, day, project>>
    from, redone,   \* fromServer and redone
    file, server,   \* `.episko/digest.md`, and the server's lines: [Projects -> [Days -> "none", "short", "full"]]
    queue,          \* runSummaryQueue and the pass it runs
    tried,          \* history: lines asked for since the load began that came to nothing
    acts
dvars == <<watched, tierOf, mode, root, known, tier, shown, wait, calls, thread, syncing, write,
           lines, from, redone, file, server, queue, tried, acts>>
chosen == <<watched, tierOf, mode>>
stage == <<root, known, tier>>
loads == <<shown, wait, calls, thread>>
disk == <<file, server>>

Threads == {"thread1", "thread2"}
Parallel == {"gh", "dep", "manifests", "work", "landed"}
Written == {"kept", "shared", "protect"}
Answers == Parallel \cup Written \cup {"days", "body"}
Kinds == Parallel \cup Threads \cup {"facts", "reads", "bare", "digest"}
NoThread == [at |-> Nowhere, body |-> Nowhere]
Idle == [on |-> FALSE, again |-> FALSE]
NoOp == [root |-> Nowhere, op |-> "pull", at |-> "fetch"]

Init ==
    /\ watched \in DOMAIN Acts
    /\ tierOf \in [Projects -> IF watched \subseteq {"work", "landed", "lines"} THEN {"git"} ELSE {"github"}]
    /\ mode \in {[x \in Projects |-> m] : m \in IF "lines" \in watched THEN {"git", "server"} ELSE {"git"}}
    /\ root = Nowhere /\ known = FALSE /\ tier = "none"
    /\ shown = [a \in Answers |-> Nowhere] /\ wait = {} /\ calls = [k \in Kinds |-> [x \in Projects |-> 0]]
    /\ thread = NoThread /\ syncing = NoOp /\ write = [root |-> Nowhere, slot |-> "kept"]
    /\ lines = {} /\ from = {} /\ redone = {}
    /\ file \in {[x \in Projects |-> f] : f \in {{}} \cup IF "lines" \in watched THEN {{d} : d \in Closed} ELSE {}}
    /\ server = [x \in Projects |-> [d \in Days |-> "none"]]
    /\ queue = Idle /\ tried = {} /\ acts = 0

Act == acts < Acts[watched] /\ acts' = acts + 1
Moves == (Rushed \/ write.root = Nowhere) /\ Act

\* Questions nobody follows in this behaviour are not asked.
Followed(K) == K \cap (watched \cup (Kinds \ Parallel))
Ask(c, K, x) == [k \in Kinds |-> IF k \in Followed(K) THEN [c[k] EXCEPT ![x] = @ + 1] ELSE c[k]]
Heard(k, x) == [calls EXCEPT ![k][x] = @ - 1]

-----------------------------------------------------------------------------
(* The summaries.                                                           *)

\* What `renderDash` takes over from the server: a file's line wins, and a line bought here.
Seeds(l, r) == IF r = Nowhere THEN {} ELSE {d \in Days : server[r][d] # "none" /\ <<"team", d, r>> \notin l}
Seeded(l, r) == l \cup {<<"team", d, r>> : d \in Seeds(l, r)}

\* `summaryDays`, and the early returns of `summariseDay`.
HasDigest == shown["days"] = root /\ file[root] # {}
ToGit == mode[root] = "git" /\ tier # "none" /\ HasDigest
ToServer == mode[root] = "server"
Redo(d) == d \in Closed /\ d \in from \ redone /\ server[root][d] = "short"
Buys(scope, d) ==
    /\ scope = "team" => d \in Team \/ ToGit \/ ToServer
    /\ <<scope, d, root>> \notin lines \/ (scope = "team" /\ Redo(d))
Pass(r, again) == [on |-> TRUE, again |-> again, root |-> r, scope |-> "me", todo |-> Days, day |-> 0]

\* A request made while a pass runs is deferred.  The variant drops it.
RequestedDropped == IF "lines" \notin watched \/ queue.on THEN queue ELSE Pass(root', FALSE)
Requested ==
    IF "lines" \notin watched THEN queue
    ELSE IF queue.on THEN [queue EXCEPT !.again = TRUE]
    ELSE Pass(root', FALSE)

Ready == queue.on /\ queue.day = 0
Leaves == root = Nowhere \/ root # queue.root
PassEnds ==
    /\ Ready /\ (Leaves \/ (queue.todo = {} /\ queue.scope = "team"))
    /\ queue' = IF queue.again /\ root # Nowhere THEN Pass(root, FALSE) ELSE Idle
    /\ UNCHANGED <<chosen, stage, loads, syncing, write, lines, from, redone, disk, tried, acts>>
Stage2 ==
    /\ Ready /\ ~ Leaves /\ queue.todo = {} /\ queue.scope = "me"
    /\ queue' = [queue EXCEPT !.scope = "team", !.todo = Days]
    /\ UNCHANGED <<chosen, stage, loads, syncing, write, lines, from, redone, disk, tried, acts>>
\* Closed days come first: they answer from disk.
SummariseDay(d) ==
    /\ Ready /\ ~ Leaves /\ d \in queue.todo /\ (d \in Closed \/ queue.todo \cap Closed = {})
    /\ LET buy == Buys(queue.scope, d) IN
        /\ queue' = [queue EXCEPT !.todo = @ \ {d}, !.day = IF buy THEN d ELSE 0]
        /\ redone' = IF buy /\ queue.scope = "team" /\ Redo(d) THEN redone \cup {d} ELSE redone
    /\ UNCHANGED <<chosen, stage, loads, syncing, write, lines, from, disk, tried, acts>>
\* The answer: a line, or none.  The next project's maps are left alone.
Summarised(line) ==
    /\ queue.on /\ queue.day # 0 /\ queue' = [queue EXCEPT !.day = 0]
    /\ LET d == queue.day
           mine == line /\ root = queue.root
           shared == mine /\ queue.scope = "team" /\ d \in Closed IN
        /\ lines' = IF mine THEN lines \cup {<<queue.scope, d, root>>} ELSE lines
        /\ from' = IF mine THEN from \ {d} ELSE from
        /\ file' = IF shared /\ ToGit THEN [file EXCEPT ![root] = @ \cup {d}] ELSE file
        /\ server' = IF shared THEN [server EXCEPT ![root][d] = "full"] ELSE server
        /\ tried' = IF line THEN tried ELSE tried \cup {<<queue.scope, d, queue.root>>}
    /\ UNCHANGED <<chosen, stage, loads, syncing, write, redone, acts>>
\* A teammate's line arrives, perhaps short of commits held here.
Arrives(x, d, how) ==
    /\ "lines" \in watched /\ Act /\ d \in Closed /\ server[x][d] = "none"
    /\ server' = [server EXCEPT ![x][d] = how]
    /\ IF x = root /\ <<"team", d, x>> \notin lines
       THEN lines' = lines \cup {<<"team", d, x>>} /\ from' = from \cup {d}
       ELSE UNCHANGED <<lines, from>>
    /\ UNCHANGED <<chosen, stage, loads, syncing, write, redone, file, queue, tried>>

-----------------------------------------------------------------------------
(* Loading.                                                                 *)

\* `loadDash` up to its first await, with the skeletons in w.
Begin(c, w) ==
    /\ calls' = Ask(c, {"facts"}, root') /\ wait' = (w \ {"gh"}) \cup {"days"}
    /\ lines' = Seeded({}, root') /\ from' = Seeds({}, root') /\ redone' = {} /\ tried' = {}

\* `openDashboard`: a new project inherits nothing.  The variant keeps the Landed card's skeleton.
ClearedButLanded == wait \cap {"landed"}
Cleared == {}
OpenDashboard(x) ==
    /\ Moves /\ root' = x
    /\ IF x = root THEN Begin(calls, wait) /\ UNCHANGED <<known, tier, shown, thread>>
       ELSE /\ Begin(calls, Cleared) /\ known' = FALSE /\ tier' = "none"
            /\ shown' = [a \in Answers |-> Nowhere] /\ thread' = NoThread
    /\ UNCHANGED <<chosen, syncing, write, disk, queue>>
CloseDashboard ==
    /\ Moves /\ root # Nowhere /\ root' = Nowhere
    /\ UNCHANGED <<chosen, known, tier, loads, syncing, write, lines, from, redone, disk, queue, tried>>
\* `dashBranchSwitched`, and what a pull ends with.
Reload ==
    /\ Act /\ root # Nowhere /\ root' = root /\ Begin(calls, wait)
    /\ UNCHANGED <<chosen, known, tier, shown, thread, syncing, write, disk, queue>>

\* `project_facts` decides which questions are worth asking, and may fail.
Facts(x, t) ==
    /\ calls["facts"][x] > 0 /\ t \in {tierOf[x], "none"}
    /\ IF x # root THEN calls' = Heard("facts", x) /\ UNCHANGED <<known, tier, shown, wait>>
       ELSE /\ known' = TRUE /\ tier' = t
            /\ calls' = Ask(Heard("facts", x), {"manifests", IF t = "none" THEN "bare" ELSE "reads"}
                            \cup (IF t = "github" THEN {"gh", "dep"} ELSE {}), x)
            /\ wait' = wait \cup (IF t = "github" THEN {"gh", "dep"} \cap watched ELSE {})
            /\ shown' = IF t = "github" THEN shown ELSE [shown EXCEPT !["gh"] = Nowhere, !["kept"] = Nowhere, !["dep"] = Nowhere]
    /\ UNCHANGED <<chosen, root, thread, syncing, write, lines, from, redone, disk, queue, tried, acts>>
Loaded ==
    /\ wait' = (IF "landed" \in Followed({"landed"}) /\ calls'["landed"] # calls["landed"] THEN wait \cup {"landed"} ELSE wait) \ {"days"}
    /\ queue' = Requested
\* The git half: history, log, heads, work log, notes; then whether an empty work log exists.
Reads(x) ==
    /\ calls["reads"][x] > 0 /\ UNCHANGED root
    /\ IF x # root THEN calls' = Heard("reads", x) /\ UNCHANGED <<shown, wait, lines, queue>>
       ELSE LET more == IF file[x] = {} THEN {"digest"} ELSE {} IN
            /\ calls' = Ask(Heard("reads", x), {"work", "landed"} \cup more, x)
            /\ lines' = lines \cup {<<"team", d, x>> : d \in file[x]}
            /\ shown' = [shown EXCEPT !["shared"] = x, !["days"] = IF more = {} THEN x ELSE @]
            /\ IF more = {} THEN Loaded ELSE wait' = wait \cup ({"landed"} \cap watched) /\ UNCHANGED queue
    /\ UNCHANGED <<chosen, known, tier, thread, syncing, write, from, redone, disk, tried, acts>>
Rest(k, x) ==
    /\ k \in {"bare", "digest"} /\ calls[k][x] > 0 /\ calls' = Heard(k, x) /\ UNCHANGED root
    /\ IF x # root THEN UNCHANGED <<shown, wait, queue>>
       ELSE /\ shown' = IF k = "digest" THEN [shown EXCEPT !["days"] = x]
                        ELSE [shown EXCEPT !["days"] = x, !["shared"] = x, !["work"] = Nowhere, !["landed"] = Nowhere]
            /\ Loaded
    /\ UNCHANGED <<chosen, known, tier, thread, syncing, write, lines, from, redone, disk, tried, acts>>

\* `loadGh`, `loadDepsGh`, `loadDepsLocal`, `loadSync`, `loadLanded`: an answer lands where the stage
\* still shows its project.  The variant looks at nothing.
LandsAnyhow(k, x) == root # Nowhere
Lands(k, x) == x = root
Answer(k, x) ==
    /\ k \in Parallel /\ calls[k][x] > 0 /\ calls' = Heard(k, x)
    /\ IF Lands(k, x)
       THEN /\ wait' = wait \ {k}
            /\ shown' = [shown EXCEPT ![k] = x, !["kept"] = IF k = "gh" THEN x ELSE @]
       ELSE UNCHANGED <<wait, shown>>
    /\ UNCHANGED <<chosen, stage, thread, syncing, write, lines, from, redone, disk, queue, tried, acts>>
\* `reloadDashGh`, and what closing an issue ends with.
ReloadDashGh ==
    /\ Act /\ root # Nowhere
    /\ calls' = Ask(calls, {"gh", "dep"}, root) /\ wait' = wait \cup ({"gh", "dep"} \cap watched)
    /\ UNCHANGED <<chosen, stage, shown, thread, syncing, write, lines, from, redone, disk, queue, tried>>
\* `refreshDashWorkset`.
Refresh ==
    /\ "work" \in watched /\ Act /\ root # Nowhere /\ known /\ tier # "none" /\ syncing = NoOp
    /\ calls' = Ask(calls, {"work"}, root)
    /\ UNCHANGED <<chosen, stage, shown, wait, thread, syncing, write, lines, from, redone, disk, queue, tried>>

\* `openThread` and `loadIssue`: the body is for one thread of one project.
OpenThread(n) ==
    /\ n \in watched /\ Act /\ root # Nowhere /\ known /\ tier = "github"
    /\ thread' = [at |-> n, body |-> Nowhere] /\ wait' = wait \cup {"body"}
    /\ calls' = Ask(calls, {n}, root)
    /\ UNCHANGED <<chosen, stage, shown, syncing, write, lines, from, redone, disk, queue, tried>>
ThreadRead(n, x) ==
    /\ n \in Threads /\ calls[n][x] > 0 /\ calls' = Heard(n, x)
    /\ IF Lands(n, x) /\ thread.at = n
       THEN /\ wait' = wait \ {"body"} /\ thread' = [thread EXCEPT !.body = n]
            /\ shown' = [shown EXCEPT !["body"] = x]
       ELSE UNCHANGED <<wait, thread, shown>>
    /\ UNCHANGED <<chosen, stage, syncing, write, lines, from, redone, disk, queue, tried, acts>>

\* `syncMain`: fetch, read, pull or push.  How it ends says what is read again.
SyncMain(op) ==
    /\ "work" \in watched /\ Act /\ root # Nowhere /\ syncing = NoOp /\ tier # "none"
    /\ syncing' = [root |-> root, op |-> op, at |-> "fetch"]
    /\ UNCHANGED <<chosen, stage, loads, write, lines, from, redone, disk, queue, tried>>
Fetched ==
    /\ syncing.root # Nowhere /\ syncing.at = "fetch" /\ syncing' = [syncing EXCEPT !.at = "read"]
    /\ UNCHANGED <<chosen, stage, loads, write, lines, from, redone, disk, queue, tried, acts>>
ReadBack(settled) ==
    /\ syncing.root # Nowhere /\ syncing.at = "read"
    /\ syncing' = IF settled \/ root # syncing.root THEN NoOp ELSE [syncing EXCEPT !.at = "op"]
    /\ shown' = IF root = syncing.root THEN [shown EXCEPT !["work"] = root] ELSE shown
    /\ UNCHANGED <<chosen, stage, wait, calls, thread, write, lines, from, redone, disk, queue, tried, acts>>
SyncEnds(ok) ==
    LET here == root # Nowhere /\ root = syncing.root IN
    /\ syncing.root # Nowhere /\ syncing.at \in {"op"} \cup (IF ok THEN {} ELSE {"fetch"})
    /\ syncing' = NoOp /\ root' = root
    /\ IF here /\ ok /\ syncing.op = "pull" THEN Begin(calls, wait)
       ELSE /\ calls' = IF here THEN Ask(calls, {"work"} \cup (IF ok THEN {"landed"} ELSE {}), root) ELSE calls
            /\ wait' = IF here /\ ok THEN wait \cup ({"landed"} \cap watched) ELSE wait
            /\ UNCHANGED <<lines, from, redone, tried>>
    /\ UNCHANGED <<chosen, known, tier, shown, thread, write, disk, queue, acts>>

\* `setKept`, `toggleShare`, `setProtect` with their `withConsent`: what they read back is set at once.
\* `doClose` asks GitHub again instead.
StartWrite(slot) ==
    /\ slot \in watched /\ Act /\ root # Nowhere /\ known /\ write.root = Nowhere
    /\ tier = "github" \/ (tier = "git" /\ slot \in {"shared", "protect"})
    /\ write' = [root |-> root, slot |-> slot]
    /\ UNCHANGED <<chosen, stage, loads, syncing, lines, from, redone, disk, queue, tried>>
EndWrite(wrote) ==
    /\ write.root # Nowhere /\ write' = [write EXCEPT !.root = Nowhere]
    /\ shown' = IF wrote /\ write.slot \in Written THEN [shown EXCEPT ![write.slot] = write.root] ELSE shown
    /\ calls' = IF wrote /\ write.slot = "gh" THEN Ask(calls, {"gh"}, write.root) ELSE calls
    /\ UNCHANGED <<chosen, stage, wait, thread, syncing, lines, from, redone, disk, queue, tried, acts>>

Next ==
    \/ CloseDashboard \/ Reload \/ ReloadDashGh \/ Refresh \/ Fetched \/ PassEnds \/ Stage2
    \/ \E x \in Projects :
        \/ OpenDashboard(x) \/ Reads(x)
        \/ \E t \in {"none", "git", "github"} : Facts(x, t)
        \/ \E k \in Kinds : Rest(k, x) \/ Answer(k, x) \/ ThreadRead(k, x)
        \/ \E d \in Days, how \in {"short", "full"} : Arrives(x, d, how)
    \/ \E n \in Threads : OpenThread(n)
    \/ \E op \in {"pull", "push"} : SyncMain(op)
    \/ \E b \in BOOLEAN : ReadBack(b) \/ SyncEnds(b) \/ EndWrite(b) \/ Summarised(b)
    \/ \E slot \in Written \cup {"gh"} : StartWrite(slot)
    \/ \E d \in Days : SummariseDay(d)
Spec == Init /\ [][Next]_dvars

-----------------------------------------------------------------------------
(* Properties. *)

\* "A new project inherits nothing: everything below is an answer about a folder" (openDashboard): the
\* stage shows no other project's answer, the reader no other thread's body, and a skeleton that is up
\* is one that some call in flight can take down.
StageIsItsOwn == root # Nowhere =>
    /\ \A a \in Answers : shown[a] \in {Nowhere, root}
    /\ thread.body \in {Nowhere, thread.at}
    /\ \A k \in wait \cap Parallel : calls[k][root] > 0
    /\ "days" \in wait => \E k \in {"facts", "reads", "bare", "digest"} : calls[k][root] > 0
    /\ "body" \in wait => calls[thread.at][root] > 0

\* "deferred, never dropped, or a project opened while another's call is in flight never gets its
\* summaries" (runSummaryQueue): once the queue is off, a project whose load is over has every line it
\* would buy, or has asked for it and come away with none.
SummariesDone ==
    ("lines" \in watched /\ ~ queue.on /\ root # Nowhere /\ shown["days"] = root /\ "days" \notin wait) =>
        \A d \in Days : {<<"me", d, root>>, <<"team", d, root>>} \subseteq
            lines \cup tried \cup (IF d \in Team THEN {} ELSE {<<"team", d, root>>})
=============================================================================
