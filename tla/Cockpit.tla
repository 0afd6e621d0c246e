---- MODULE Cockpit ----
(* The parts of the window that share no state with one another: in each behaviour one of them runs
   while the others rest. *)
EXTENDS Naturals, Sequences, FiniteSets

CONSTANTS
    Runners,                            \* the parts that may run
    Acts, Most,                         \* bounds, a field for each part: what people, agents and networks do; counters
    Nowhere,                            \* a stage with nothing on it
    Devices, Files, MemoryBudgets,      \* see Memory; Files also stands for the files of a folder
    Sessions, Home, LEASE, ClaimPlans,  \* see Claims
    Projects, Repos,                    \* the projects of a roster, and those whose stage, dialog and diffs are opened
    HandoffBudgets,                     \* see HandoffClient
    PaneIds, Chunks, CommitsMade,       \* see Lifecycle, Adoption and Cleanup
    Days, Closed, Team, DashActs,       \* see Dashboard
    Convs, Claude, Owners, TTL,         \* see Spend and DiskMeter
    Of, Shells, ShellNatures, Remarks,  \* see Presence, Servers and Review
    Follows, Own, LimitPlans,           \* see Limits
    N, BotSets,                         \* see CommitGraph
    Life, Hold, Last, NoticePlans,      \* see Notices
    Servers, Gens, Queue, Lengths       \* see Supervisor and KeepAwake

\* What a handoff may meet; how machines, connections, servers and shells are named; lengths of time.
HandoffBudget ==
    [badTarget : BOOLEAN, lost : Nat, drops : Nat, restarts : Nat, fails : Nat, purges : Nat, switches : Nat, silences : Nat]
ASSUME CockpitAssumption ==
    /\ IsFiniteSet(Devices) /\ Devices \subseteq Nat /\ IsFiniteSet(Files) /\ IsFiniteSet(Repos) /\ Nowhere \notin Repos
    /\ IsFiniteSet(Days) /\ Days \subseteq Nat \ {0} /\ 1 \in Days
    /\ HandoffBudgets \subseteq HandoffBudget
    /\ Home \in [Sessions -> Devices] /\ 0 \notin Sessions /\ LEASE \in Nat
    /\ Of \in [DOMAIN Of -> Devices] /\ 0 \notin DOMAIN Of
    /\ Shells \subseteq Nat \ {0} /\ Servers \subseteq Nat \ {0} /\ 1 \in Servers /\ Gens \in Nat
    /\ Lengths \subseteq Nat \ {0} /\ Acts.mishaps \in Nat
    /\ Life \in Nat /\ Hold \in Nat /\ \A p \in NoticePlans : p.role \in {"sender", "taker", "machine"}
    /\ PaneIds \subseteq Nat \ {0} /\ 1 \in PaneIds /\ Follows \cap Own = {}
    /\ IsFiniteSet(PaneIds) /\ Owners \in Nat /\ Cardinality(PaneIds) <= Owners /\ "none" \notin Convs /\ "gone" \notin Convs

VARIABLES
    part,
    left, text, now, mlog, file, book, conn, frame, pushes, acks, owed,
    plan, cnow, quits, up, missed, ses, died, dispatch, lease, stamp, owes, clog, heard, ledger, assigned,
    ids, favs, order, wfavs, worder, owedNow, owedReveal, writing, edits, arrivals,
    srv, caps, handoffConn, net, rec, outbox, shelf, win, inrec, inbox, copy, refusing, hist, budget,
    lifecycleWin, pane, conv, proc, asked, lifecycleShelf, stored, queued, reading, seen, lifecycleFile, flow, resumed, over, reloads, acts,
    out, running, events, step, snap, pending, term, isEnded, loads,
    trunk, remote, seenTrunk, cleanupSeen, shipped, pr, local, tracked, tree, dirty, open, view, prs, job, made, cleanupActs, jobs, lost, excused,
    watched, tierOf, mode, root, known, tier, shown, wait, calls, thread, syncing, write, lines, from, redone, dashboardFile, server, queue, tried, dashboardActs,
    ver, head, ctx, gen, rows, repoBranch, last, reads, fetching, fetched, fetches, busy, op, wtdialogActs,
    today, spendConv, total, base, saved, usage, detail, spendStored, detailDay, silent, said, spendHeard, exact, spendActs,
    meterToday, written, binary, seenBinary, prev, credit, age, excluded, dayIo, meterStored, meterDirty, ioDay, wrote, updates, meterLost, meterActs,
    opened, beat, link, presenceShown, at, presenceSaid, due, here, subs, tell, swept, torn, presenceActs,
    nature, shell, log, hooks, isOver, serversRec, asksPorts, logReads, serversAsked, killing, unnamed, serverActs,
    reviewHead, stage, reviewPr, full, range, reviewShown, reviewReading, failed, reviewGen, reviewReads, sending, drafts, sent, reviewWritten, rvActs,
    limitsNow, used, login, flight, api, cache, apiMs, ui, probing, wire, limitsOver, todo,
    lanes, graphIds, graphRows, graphOpened, refs, bots, done,
    role, noticesNow, row, offered, work, noticesConn, noticesQueue, noticesLast, noticesRec, noticesMissed, closed, noticesTodo,
    disk, token, supervisorGen, ready, status, supervisorThread, supervisorEvents, window, showsUp, merged, supervisorAcks, acking, pairing, supActs,
    armed, preset, length, key, timer, awakeBusy, awakeCalls, answers, held, awakeLeft, cafActs, mishaps,
    diffDisk, diffMade, stack, diffEdits, kept, given, diffOpen, dir, diffGen, diffView, drawn, diffShown, stashes, picked, workRead, box, diffDrafts, unsaid, diffReads, diffAsked, diffJob, dvActs

MemoryOf == INSTANCE Memory WITH
    Machines <- Devices, Files <- Files, Budgets <- MemoryBudgets
ClaimsOf == INSTANCE Claims WITH
    Machines <- Devices, Sessions <- Sessions, Home <- Home, LEASE <- LEASE, Plans <- ClaimPlans
RosterOf == INSTANCE Roster WITH
    Projects <- Projects, MaxEdits <- Acts.roster, MaxArrivals <- Acts.arrivals
HandoffOf == INSTANCE HandoffClient WITH
    conn <- handoffConn, Budgets <- HandoffBudgets
LifecycleOf == INSTANCE Lifecycle WITH
    win <- lifecycleWin, shelf <- lifecycleShelf, file <- lifecycleFile, Panes <- PaneIds,
    Reloads <- Acts.reloads, Acts <- Acts.lifecycle, Hasty <- FALSE
AdoptionOf == INSTANCE Adoption WITH
    Chunks <- Chunks, Loads <- Acts.loads, Overtaken <- FALSE
CleanupOf == INSTANCE Cleanup WITH
    seen <- cleanupSeen, acts <- cleanupActs, Commits <- CommitsMade, Acts <- Acts.cleanup, Jobs <- Acts.jobs
DashboardOf == INSTANCE Dashboard WITH
    file <- dashboardFile, acts <- dashboardActs, Projects <- Repos, Nowhere <- Nowhere, Days <- Days,
    Closed <- Closed, Team <- Team, Rushed <- FALSE, Acts <- DashActs
WtDialogOf == INSTANCE WtDialog WITH
    acts <- wtdialogActs, Repos <- Repos, Nowhere <- Nowhere, Hurried <- FALSE, Acts <- Acts.wtdialog
SpendOf == INSTANCE Spend WITH
    conv <- spendConv, stored <- spendStored, heard <- spendHeard, acts <- spendActs, Panes <- PaneIds,
    Convs <- Convs, Claude <- Claude, Owners <- Owners, Calm <- TRUE, Most <- Most.tokens, Acts <- Acts.spend
MeterOf == INSTANCE DiskMeter WITH
    today <- meterToday, stored <- meterStored, dirty <- meterDirty, lost <- meterLost, acts <- meterActs,
    Days <- Days, TTL <- TTL, Reloads <- FALSE, Most <- Most.written, Acts <- Acts.meter
PresenceOf == INSTANCE Presence WITH
    shown <- presenceShown, said <- presenceSaid, Machines <- Devices, Of <- Of, Acts <- Acts.presence
ServersOf == INSTANCE Servers WITH
    rec <- serversRec, asked <- serversAsked, Shells <- Shells, Natures <- ShellNatures, Hasty <- FALSE,
    Acts <- Acts.servers
ReviewOf == INSTANCE Review WITH
    head <- reviewHead, pr <- reviewPr, shown <- reviewShown, reading <- reviewReading, gen <- reviewGen,
    reads <- reviewReads, written <- reviewWritten, Pulls <- Repos, Nowhere <- Nowhere, Steady <- TRUE,
    Remarks <- Remarks, Acts <- Acts.review
LimitsOf == INSTANCE Limits WITH
    now <- limitsNow, over <- limitsOver, Follows <- Follows, Own <- Own, Settled <- TRUE, Early <- FALSE,
    Most <- Most.used, Plans <- LimitPlans
GraphOf == INSTANCE CommitGraph WITH
    ids <- graphIds, rows <- graphRows, opened <- graphOpened, N <- N, BotSets <- BotSets
NoticesOf == INSTANCE Notices WITH
    now <- noticesNow, conn <- noticesConn, queue <- noticesQueue, last <- noticesLast, rec <- noticesRec,
    missed <- noticesMissed, todo <- noticesTodo, Life <- Life, Hold <- Hold, Last <- Last, StepsBack <- FALSE,
    Plans <- NoticePlans
SupervisorOf == INSTANCE Supervisor WITH
    gen <- supervisorGen, thread <- supervisorThread, events <- supervisorEvents, acks <- supervisorAcks,
    Servers <- Servers, Most <- Most.events, Gens <- Gens, Queue <- Queue, Acts <- Acts.supervisor,
    Calm <- TRUE
AwakeOf == INSTANCE KeepAwake WITH
    busy <- awakeBusy, calls <- awakeCalls, left <- awakeLeft, Lengths <- Lengths, Acts <- Acts.awake,
    Mishaps <- Acts.mishaps, Calm <- TRUE
DiffOf == INSTANCE DiffView WITH
    disk <- diffDisk, made <- diffMade, edits <- diffEdits, open <- diffOpen, gen <- diffGen, view <- diffView,
    shown <- diffShown, drafts <- diffDrafts, reads <- diffReads, asked <- diffAsked, job <- diffJob,
    Folders <- Repos, Nowhere <- Nowhere, Files <- Files, Acts <- Acts.diff, Calm <- TRUE

memoryVars == <<left, text, now, mlog, file, book, conn, frame, pushes, acks, owed>>
claimsVars == <<plan, cnow, quits, up, missed, ses, died, dispatch, lease, stamp, owes, clog, heard, ledger, assigned>>
rosterVars == <<ids, favs, order, wfavs, worder, owedNow, owedReveal, writing, edits, arrivals>>
handoffVars == <<srv, caps, handoffConn, net, rec, outbox, shelf, win, inrec, inbox, copy, refusing, hist, budget>>
lifecycleVars == <<lifecycleWin, pane, conv, proc, asked, lifecycleShelf, stored, queued, reading, seen, lifecycleFile, flow, resumed, over, reloads, acts>>
adoptionVars == <<out, running, events, step, snap, pending, term, isEnded, loads>>
cleanupVars == <<trunk, remote, seenTrunk, cleanupSeen, shipped, pr, local, tracked, tree, dirty, open, view, prs, job, made, cleanupActs, jobs, lost, excused>>
dashboardVars == <<watched, tierOf, mode, root, known, tier, shown, wait, calls, thread, syncing, write, lines, from, redone, dashboardFile, server, queue, tried, dashboardActs>>
wtdialogVars == <<ver, head, ctx, gen, rows, repoBranch, last, reads, fetching, fetched, fetches, busy, op, wtdialogActs>>
spendVars == <<today, spendConv, total, base, saved, usage, detail, spendStored, detailDay, silent, said, spendHeard, exact, spendActs>>
meterVars == <<meterToday, written, binary, seenBinary, prev, credit, age, excluded, dayIo, meterStored, meterDirty, ioDay, wrote, updates, meterLost, meterActs>>
presenceVars == <<opened, beat, link, presenceShown, at, presenceSaid, due, here, subs, tell, swept, torn, presenceActs>>
serversVars == <<nature, shell, log, hooks, isOver, serversRec, asksPorts, logReads, serversAsked, killing, unnamed, serverActs>>
reviewVars == <<reviewHead, stage, reviewPr, full, range, reviewShown, reviewReading, failed, reviewGen, reviewReads, sending, drafts, sent, reviewWritten, rvActs>>
limitsVars == <<limitsNow, used, login, flight, api, cache, apiMs, ui, probing, wire, limitsOver, todo>>
graphVars == <<lanes, graphIds, graphRows, graphOpened, refs, bots, done>>
noticesVars == <<role, noticesNow, row, offered, work, noticesConn, noticesQueue, noticesLast, noticesRec, noticesMissed, closed, noticesTodo>>
supervisorVars == <<disk, token, supervisorGen, ready, status, supervisorThread, supervisorEvents, window, showsUp, merged, supervisorAcks, acking, pairing, supActs>>
awakeVars == <<armed, preset, length, key, timer, awakeBusy, awakeCalls, answers, held, awakeLeft, cafActs, mishaps>>
diffVars == <<diffDisk, diffMade, stack, diffEdits, kept, given, diffOpen, dir, diffGen, diffView, drawn, diffShown, stashes, picked, workRead, box, diffDrafts, unsaid, diffReads, diffAsked, diffJob, dvActs>>

Resting(x) ==
    /\ part = x /\ part' = x
    /\ x = "memory" \/ UNCHANGED memoryVars
    /\ x = "claims" \/ UNCHANGED claimsVars
    /\ x = "roster" \/ UNCHANGED rosterVars
    /\ x = "handoff" \/ UNCHANGED handoffVars
    /\ x = "lifecycle" \/ UNCHANGED lifecycleVars
    /\ x = "adoption" \/ UNCHANGED adoptionVars
    /\ x = "cleanup" \/ UNCHANGED cleanupVars
    /\ x = "dashboard" \/ UNCHANGED dashboardVars
    /\ x = "wtdialog" \/ UNCHANGED wtdialogVars
    /\ x = "spend" \/ UNCHANGED spendVars
    /\ x = "meter" \/ UNCHANGED meterVars
    /\ x = "presence" \/ UNCHANGED presenceVars
    /\ x = "servers" \/ UNCHANGED serversVars
    /\ x = "review" \/ UNCHANGED reviewVars
    /\ x = "limits" \/ UNCHANGED limitsVars
    /\ x = "graph" \/ UNCHANGED graphVars
    /\ x = "notices" \/ UNCHANGED noticesVars
    /\ x = "supervisor" \/ UNCHANGED supervisorVars
    /\ x = "awake" \/ UNCHANGED awakeVars
    /\ x = "diff" \/ UNCHANGED diffVars

\* A part at rest stays in one of its initial states.
Init ==
    /\ part \in Runners
    /\ MemoryOf!Init /\ (part = "memory" \/ (left = CHOOSE b \in MemoryBudgets : TRUE))
    /\ ClaimsOf!Init /\ (part = "claims" \/ (plan = CHOOSE c \in ClaimPlans : TRUE))
    /\ RosterOf!Init /\ (part = "roster" \/ (favs = {} /\ order = <<>>)) /\ (favs = {} \/ order = <<>>)
    /\ HandoffOf!Init /\ (part = "handoff" \/ (budget = (CHOOSE b \in HandoffBudgets : TRUE) /\ shelf = "row"))
    /\ LifecycleOf!Init
    /\ AdoptionOf!Init
    /\ CleanupOf!Init
    /\ DashboardOf!Init /\ (part = "dashboard" \/ (watched = {"lines"} /\ (\A x \in Repos : mode[x] = "git" /\ dashboardFile[x] = {})))
    /\ WtDialogOf!Init
    /\ SpendOf!Init
    /\ MeterOf!Init
    /\ PresenceOf!Init
    /\ ServersOf!Init /\ (part = "servers" \/ (nature = CHOOSE x \in ShellNatures : TRUE))
    /\ ReviewOf!Init
    /\ LimitsOf!Init /\ (part = "limits" \/ (todo = (CHOOSE x \in LimitPlans : TRUE) /\ login = 1 /\ ui.on))
    /\ GraphOf!Init
    /\ NoticesOf!Init /\ (part = "notices" \/ (noticesTodo = CHOOSE x \in NoticePlans : TRUE))
    /\ SupervisorOf!Init
    /\ AwakeOf!Init /\ (part = "awake" \/ (preset = "display" /\ length = (CHOOSE n \in Lengths : TRUE) /\ ~awakeBusy /\ mishaps = 0))
    /\ DiffOf!Init /\ (dir = (CHOOSE d \in Repos : TRUE) /\ picked = {CHOOSE x \in Files : TRUE})

Next ==
    \/ Resting("memory") /\ MemoryOf!Next
    \/ Resting("claims") /\ ClaimsOf!Next
    \/ Resting("roster") /\ RosterOf!Next
    \/ Resting("handoff") /\ HandoffOf!Next
    \/ Resting("lifecycle") /\ LifecycleOf!Next
    \/ Resting("adoption") /\ AdoptionOf!Next
    \/ Resting("cleanup") /\ CleanupOf!Next
    \/ Resting("dashboard") /\ DashboardOf!Next
    \/ Resting("wtdialog") /\ WtDialogOf!Next
    \/ Resting("spend") /\ SpendOf!Next
    \/ Resting("meter") /\ MeterOf!Next
    \/ Resting("presence") /\ PresenceOf!Next
    \/ Resting("servers") /\ ServersOf!Next
    \/ Resting("review") /\ ReviewOf!Next
    \/ Resting("limits") /\ LimitsOf!Next
    \/ Resting("graph") /\ GraphOf!Next
    \/ Resting("notices") /\ NoticesOf!Next
    \/ Resting("supervisor") /\ SupervisorOf!Next
    \/ Resting("awake") /\ AwakeOf!Next
    \/ Resting("diff") /\ DiffOf!Next

vars == <<part, memoryVars, claimsVars, rosterVars, handoffVars, lifecycleVars, adoptionVars, cleanupVars, dashboardVars, wtdialogVars, spendVars, meterVars, presenceVars, serversVars, reviewVars, limitsVars, graphVars, noticesVars, supervisorVars, awakeVars, diffVars>>
Spec == Init /\ [][Next]_vars

\* Each invariant is asked of the part that runs.
\* A machine that counts as caught up has had all of the stream (memReplaying, memLetGo).
CaughtMeansHad == part = "memory" => MemoryOf!CaughtMeansHad
\* An arrival never replaces a memory not sent yet (drainMem, memory_write).
UnsentSurvives == MemoryOf!UnsentSurvives
\* A lease ends within its time once its session is gone (renewLeases).
DeadLeasesLapse == part = "claims" => ClaimsOf!DeadLeasesLapse
\* No machine sends the absence of what it cannot see (mergeWire), and a reveal never goes over what the server holds (rosterEdited).
CarriedThrough == RosterOf!CarriedThrough
\* What is handed over is not carried on at both ends (handoffBusy, onCaps), and what the sender archived, the taker has (handoff_settle, handoff_install).
HandedOverOnce == part = "handoff" => HandoffOf!OneHolder /\ HandoffOf!SomebodyHolds
\* A conversation nobody closed stays in reach, and a row resumes where its transcript is (panes.ts, mirror.ts, rosterEntry), and no two processes carry one on (dormantBusy).
ConversationKept == part = "lifecycle" => LifecycleOf!ConversationKept /\ LifecycleOf!RowsFindTranscripts /\ LifecycleOf!OneProcessEach
\* An adopted terminal shows each chunk once (adoptSession).
ShownOnce == part = "adoption" => AdoptionOf!ShownOnce
\* An adopted pane whose process is gone says so (adoptSession, stream_pty_session), and a background shell's record ends as the shell did (endBg, markKilled).
EndIsKnown == (part = "adoption" => AdoptionOf!EndIsKnown) /\ (part = "servers" => ServersOf!EndsAreEarned)
\* No clean-up deletes what its evidence was not about (branches.ts, dashboard.ts, git.rs), no edit under review is lost but on the word of who was shown it, and no message typed for a commit (diffview.ts, git.rs).
WorkKept == (part = "cleanup" => CleanupOf!WorkKept) /\ (part = "diff" => DiffOf!NothingElseIsLost /\ DiffOf!DraftsStay)
\* The stage holds answers about its own project, and a skeleton that is up comes down (loadDash and what it fires); a review is of what is drawn, and no remark of it is lost (reviewui.ts).
StageIsItsOwn == (part = "dashboard" => DashboardOf!StageIsItsOwn) /\ (part = "review" => ReviewOf!ReviewIsItsOwn)
\* Every line a project would buy is in hand or was asked for (runSummaryQueue).
SummariesDone == part = "dashboard" => DashboardOf!SummariesDone
\* The dialog shows its own repository, and only newer of it (wtReadLocal).
RowsStayTrue == WtDialogOf!RowsStayTrue
\* The two daily ledgers, of spend and of disk writes, balance (costDelta, addUsage, addIo).
BooksBalance == (part = "spend" => SpendOf!SpendBookedOnce) /\ (part = "meter" => MeterOf!MeterBalances)
\* What is shown of the others is what the hub holds, and nobody stays present who is gone (Hub, serve.rs); what is shown of a handoff is the record, and an ended one stays ended (fresh, applyInfo).
PresenceIsTrue == (part = "presence" => PresenceOf!PresenceIsTrue) /\ (part = "notices" => NoticesOf!NoticesAreTrue)
\* The usage figures shown for an account are its own (rl.ts, applyStatusline).
LimitsAreOwn == part = "limits" => LimitsOf!LimitsAreOwn
\* What the commit graph draws is the history (graph.ts).
GraphReads == part = "graph" => GraphOf!GraphReads
\* What the cursor stands for has been applied here, and the status shown is of the connection that is left (sync_ack, sync_pair, restart, supervise).
SyncStaysTrue == part = "supervisor" => SupervisorOf!SyncStaysTrue
\* Once the commands have been answered, the machine is held awake by the flags the button shows (reconcileCaf, set_caffeinate).
AwakeIsTrue == part = "awake" => AwakeOf!AwakeIsTrue
====
