--------------------------- MODULE Cockpit_proofs ---------------------------
(***************************************************************************)
(* The parts of the window together: what is proved of a part in           *)
(* Window_proofs, HandoffClient_proofs or Limits_proofs holds in every     *)
(* behaviour of Cockpit, in which that part runs or rests.                 *)
(***************************************************************************)
EXTENDS Cockpit, TLAPS

W == INSTANCE Window_proofs WITH
    Servers <- Servers, Most <- Most.events, Gens <- Gens, Queue <- Queue, Acts <- Acts.supervisor, Calm <- TRUE,
    Commits <- CommitsMade, Jobs <- Acts.jobs, CleanActs <- Acts.cleanup, Lengths <- Lengths, Mishaps <- Acts.mishaps,
    AwakeActs <- Acts.awake, Machines <- Devices, Of <- Of, HubActs <- Acts.presence, Chunks <- Chunks,
    Loads <- Acts.loads, Overtaken <- FALSE, Files <- Files, MemBudgets <- MemoryBudgets, Sessions <- Sessions,
    Home <- Home, LEASE <- LEASE, LeasePlans <- ClaimPlans, memLeft <- left, text <- text, clock <- now, mlog <- mlog,
    file <- file, memBook <- book, conn <- conn, frame <- frame, pushes <- pushes, memAcks <- acks, owed <- owed,
    plan <- plan, cnow <- cnow, quits <- quits, apps <- up, missed <- missed, ses <- ses, died <- died,
    dispatch <- dispatch, lease <- lease, leaseStamp <- stamp, owes <- owes, clog <- clog, leased <- heard,
    ledger <- ledger, assigned <- assigned, out <- out, running <- running, emitted <- events, step <- step, snap <- snap,
    pending <- pending, term <- term, isEnded <- isEnded, loads <- loads, trunk <- trunk, remote <- remote,
    seenTrunk <- seenTrunk, seen <- cleanupSeen, shipped <- shipped, pr <- pr, local <- local, tracked <- tracked,
    tree <- tree, dirty <- dirty, open <- open, view <- view, prs <- prs, job <- job, made <- made, acts <- cleanupActs,
    jobs <- jobs, lost <- lost, excused <- excused, opened <- opened, beat <- beat, link <- link, shown <- presenceShown,
    at <- at, said <- presenceSaid, due <- due, here <- here, subs <- subs, tell <- tell, swept <- swept, torn <- torn,
    presenceActs <- presenceActs, disk <- disk, token <- token, gen <- supervisorGen, ready <- ready, status <- status,
    thread <- supervisorThread, events <- supervisorEvents, window <- window, showsUp <- showsUp, merged <- merged,
    acks <- supervisorAcks, acking <- acking, pairing <- pairing, supActs <- supActs, armed <- armed, preset <- preset,
    length <- length, key <- key, timer <- timer, busy <- awakeBusy, calls <- awakeCalls, answers <- answers, held <- held,
    left <- awakeLeft, cafActs <- cafActs, mishaps <- mishaps,
    PaneIds <- PaneIds, PaneReloads <- Acts.reloads, PaneActs <- Acts.lifecycle, Hurried <- FALSE,
    lifeWin <- lifecycleWin, lifePane <- pane, lifeConv <- conv, lifeProc <- proc, lifeAsked <- asked,
    lifeShelf <- lifecycleShelf, lifeStored <- stored, lifeQueued <- queued, lifeReading <- reading, lifeSeen <- seen,
    lifeFile <- lifecycleFile, lifeFlow <- flow, lifeResumed <- resumed, lifeOver <- over, lifeReloads <- reloads,
    lifeActs <- acts

HP == INSTANCE HandoffClient_proofs WITH
    Budgets <- HandoffBudgets, Repos <- Repos, Nowhere <- Nowhere, Hurried <- FALSE, DialogActs <- Acts.wtdialog,
    Pulls <- Repos, Steady <- TRUE, Remarks <- Remarks, ReviewActs <- Acts.review, Shells <- Shells,
    Natures <- ShellNatures, Hasty <- FALSE, ShellActs <- Acts.servers, srv <- srv, caps <- caps, conn <- handoffConn,
    net <- net, rec <- rec, outbox <- outbox, shelf <- shelf, win <- win, inrec <- inrec, inbox <- inbox, copy <- copy,
    refusing <- refusing, hist <- hist, budget <- budget, ver <- ver, head <- head, ctx <- ctx, gen <- gen, rows <- rows,
    repoBranch <- repoBranch, wtLast <- last, reads <- reads, fetching <- fetching, fetched <- fetched, fetches <- fetches,
    busy <- busy, op <- op, wtActs <- wtdialogActs, nature <- nature, shell <- shell, log <- log, hooks <- hooks,
    isOver <- isOver, shellRec <- serversRec, asksPorts <- asksPorts, logReads <- logReads, asked <- serversAsked,
    killing <- killing, unnamed <- unnamed, serverActs <- serverActs, heads <- reviewHead, stage <- stage, pr <- reviewPr,
    full <- full, range <- range, shown <- reviewShown, reading <- reviewReading, failed <- failed, readsBegun <- reviewGen,
    asks <- reviewReads, sending <- sending, drafts <- drafts, sent <- sent, written <- reviewWritten, rvActs <- rvActs,
    Folders <- Repos, DiffFiles <- Files, Calm <- TRUE, DiffActs <- Acts.diff, diffDisk <- diffDisk,
    diffMade <- diffMade, stack <- stack, diffEdits <- diffEdits, kept <- kept, given <- given, diffOpen <- diffOpen,
    dir <- dir, diffGen <- diffGen, diffView <- diffView, drawn <- drawn, diffShown <- diffShown, stashes <- stashes,
    picked <- picked, workRead <- workRead, box <- box, diffDrafts <- diffDrafts, unsaid <- unsaid,
    diffReads <- diffReads, diffAsked <- diffAsked, diffJob <- diffJob, dvActs <- dvActs,
    Days <- Days, Closed <- Closed, Team <- Team, Rushed <- FALSE, DashActs <- DashActs, dashWatched <- watched,
    dashTierOf <- tierOf, dashMode <- mode, dashRoot <- root, dashKnown <- known, dashTier <- tier, dashShown <- shown,
    dashWait <- wait, dashCalls <- calls, dashThread <- thread, dashSyncing <- syncing, dashWrite <- write,
    dashLines <- lines, dashFrom <- from, dashRedone <- redone, dashFile <- dashboardFile, dashServer <- server,
    dashQueue <- queue, dashTried <- tried, dashActs <- dashboardActs,
    Life <- Life, Hold <- Hold, TimeEnds <- Last, StepsBack <- FALSE, NoticePlans <- NoticePlans, noticeRole <- role,
    noticeNow <- noticesNow, noticeRow <- row, noticeOffered <- offered, noticeWork <- work, noticeConn <- noticesConn,
    noticeQueue <- noticesQueue, noticeLast <- noticesLast, noticeRec <- noticesRec, noticeMissed <- noticesMissed,
    noticeClosed <- closed, noticeTodo <- noticesTodo

LP == INSTANCE Limits_proofs WITH
    now <- limitsNow, over <- limitsOver, Follows <- Follows, Own <- Own, Settled <- TRUE, Early <- FALSE,
    Most <- Most.used, Plans <- LimitPlans,
    SpendPanes <- PaneIds, Convs <- Convs, Claude <- Claude, Owners <- Owners, Mannerly <- TRUE,
    SpendMost <- Most.tokens, SpendMax <- Acts.spend,
    Days <- Days, TTL <- TTL, MeterReloads <- FALSE, MeterMost <- Most.written, MeterMax <- Acts.meter,
    RosterEdits <- Acts.roster, RosterArrivals <- Acts.arrivals

-----------------------------------------------------------------------------
(* A part is the same in Cockpit and where it is proved.                    *)

LEMMA ApplyMemSame ==
    ASSUME NEW m, NEW e
    PROVE  MemoryOf!ApplyMem(m, e) = W!Mem!ApplyMem(m, e)
BY DEF MemoryOf!Keys, W!Mem!Keys, MemoryOf!None, W!Mem!None, MemoryOf!NoStamp, W!Mem!NoStamp, MemoryOf!NotHeld, W!Mem!NotHeld,
   MemoryOf!Newer, W!Mem!Newer, MemoryOf!Full, W!Mem!Full, MemoryOf!Evicted, W!Mem!Evicted, MemoryOf!StampsLeft,
   W!Mem!StampsLeft, MemoryOf!ApplyMem, W!Mem!ApplyMem, MemoryOf!Cardinality, W!Mem!Cardinality, MemoryOf!IsFiniteSet,
   W!Mem!IsFiniteSet

LEMMA DrainSame ==
    ASSUME NEW m, NEW b, NEW sync
    PROVE  MemoryOf!Drain(m, b, sync) = W!Mem!Drain(m, b, sync)
BY DEF MemoryOf!Keys, W!Mem!Keys, MemoryOf!None, W!Mem!None, MemoryOf!NotHeld, W!Mem!NotHeld, MemoryOf!Reveal, W!Mem!Reveal,
   MemoryOf!Free, W!Mem!Free, MemoryOf!Agreed, W!Mem!Agreed, MemoryOf!Loop, W!Mem!Loop, MemoryOf!Drain, W!Mem!Drain,
   MemoryOf!SetToSeq, W!Mem!SetToSeq, MemoryOf!IsInjective, W!Mem!IsInjective, MemoryOf!Cardinality, W!Mem!Cardinality,
   MemoryOf!IsFiniteSet, W!Mem!IsFiniteSet

LEMMA AfterPageSame ==
    ASSUME NEW m, NEW b, NEW c, NEW ends
    PROVE  MemoryOf!AfterPage(m, b, c, ends) = W!Mem!AfterPage(m, b, c, ends)
BY DrainSame DEF MemoryOf!MaySync, W!Mem!MaySync, MemoryOf!AfterPage, W!Mem!AfterPage

LEMMA ApplyAllSame ==
    ASSUME NEW m
    PROVE  MemoryOf!ApplyAll(m) <=> W!Mem!ApplyAll(m)
BY AfterPageSame, ApplyMemSame DEF MemoryOf!Forwarded, W!Mem!Forwarded, MemoryOf!ApplyAll, W!Mem!ApplyAll

LEMMA ApplyNoneSame ==
    ASSUME NEW m
    PROVE  MemoryOf!ApplyNone(m) <=> W!Mem!ApplyNone(m)
BY AfterPageSame DEF MemoryOf!ApplyNone, W!Mem!ApplyNone

LEMMA ApplyReplaySame ==
    ASSUME NEW m
    PROVE  MemoryOf!ApplyReplay(m) <=> W!Mem!ApplyReplay(m)
BY AfterPageSame, ApplyMemSame DEF MemoryOf!Forwarded, W!Mem!Forwarded, MemoryOf!IsComplete, W!Mem!IsComplete, MemoryOf!ApplyReplay, W!Mem!ApplyReplay

LEMMA SyncMemorySame ==
    ASSUME NEW m
    PROVE  MemoryOf!SyncMemory(m) <=> W!Mem!SyncMemory(m)
BY DrainSame DEF MemoryOf!Keys, W!Mem!Keys, MemoryOf!None, W!Mem!None, MemoryOf!NotHeld, W!Mem!NotHeld, MemoryOf!Spend, W!Mem!Spend,
   MemoryOf!MaySync, W!Mem!MaySync, MemoryOf!DiffLocal, W!Mem!DiffLocal, MemoryOf!SyncMemory, W!Mem!SyncMemory

LEMMA ScannedSame ==
    ASSUME NEW m
    PROVE  MemoryOf!Scanned(m) <=> W!Mem!Scanned(m)
BY DEF MemoryOf!Keys, W!Mem!Keys, MemoryOf!None, W!Mem!None, MemoryOf!NoStamp, W!Mem!NoStamp, MemoryOf!NotHeld, W!Mem!NotHeld,
   MemoryOf!NotOwed, W!Mem!NotOwed, MemoryOf!Reveal, W!Mem!Reveal, MemoryOf!Free, W!Mem!Free, MemoryOf!DiffLocal,
   W!Mem!DiffLocal, MemoryOf!Scanned, W!Mem!Scanned, MemoryOf!SetToSeq, W!Mem!SetToSeq, MemoryOf!IsInjective,
   W!Mem!IsInjective, MemoryOf!Cardinality, W!Mem!Cardinality, MemoryOf!IsFiniteSet, W!Mem!IsFiniteSet

LEMMA WrittenSame ==
    ASSUME NEW m
    PROVE  MemoryOf!Written(m) <=> W!Mem!Written(m)
BY DEF MemoryOf!None, W!Mem!None, MemoryOf!NotHeld, W!Mem!NotHeld, MemoryOf!NotOwed, W!Mem!NotOwed, MemoryOf!Reveal,
   W!Mem!Reveal, MemoryOf!Free, W!Mem!Free, MemoryOf!Agreed, W!Mem!Agreed, MemoryOf!Loop, W!Mem!Loop, MemoryOf!Unowed,
   W!Mem!Unowed, MemoryOf!Written, W!Mem!Written

LEMMA KeptBothSame ==
    ASSUME NEW m
    PROVE  MemoryOf!KeptBoth(m) <=> W!Mem!KeptBoth(m)
BY DEF MemoryOf!None, W!Mem!None, MemoryOf!NotOwed, W!Mem!NotOwed, MemoryOf!Reveal, W!Mem!Reveal, MemoryOf!Free, W!Mem!Free,
   MemoryOf!Agreed, W!Mem!Agreed, MemoryOf!Loop, W!Mem!Loop, MemoryOf!Unowed, W!Mem!Unowed, MemoryOf!KeptBoth,
   W!Mem!KeptBoth

LEMMA WriteSame ==
    ASSUME NEW m
    PROVE  MemoryOf!Write(m) <=> W!Mem!Write(m)
BY DEF MemoryOf!None, W!Mem!None, MemoryOf!Spend, W!Mem!Spend, MemoryOf!Fits, W!Mem!Fits, MemoryOf!Write, W!Mem!Write

LEMMA MemoryStepsSame ==
    ASSUME NEW m, NEW f
    PROVE  /\ MemoryOf!WriteSide(m) <=> W!Mem!WriteSide(m)
           /\ MemoryOf!Scan(m) <=> W!Mem!Scan(m)
           /\ MemoryOf!Take(m) <=> W!Mem!Take(m)
           /\ MemoryOf!MemPushed(m) <=> W!Mem!MemPushed(m)
           /\ MemoryOf!Welcome(m, TRUE) <=> W!Mem!Welcome(m, TRUE)
           /\ MemoryOf!Welcome(m, FALSE) <=> W!Mem!Welcome(m, FALSE)
           /\ MemoryOf!Lost(m) <=> W!Mem!Lost(m)
           /\ MemoryOf!Clone(m) <=> W!Mem!Clone(m)
           /\ MemoryOf!Edit(m, f) <=> W!Mem!Edit(m, f)
           /\ MemoryOf!Unlink(m, f) <=> W!Mem!Unlink(m, f)
BY DEF MemoryOf!Keys, W!Mem!Keys, MemoryOf!None, W!Mem!None, MemoryOf!NotOwed, W!Mem!NotOwed, MemoryOf!Offline, W!Mem!Offline,
   MemoryOf!Spend, W!Mem!Spend, MemoryOf!WriteSide, W!Mem!WriteSide, MemoryOf!Scan, W!Mem!Scan, MemoryOf!Take, W!Mem!Take,
   MemoryOf!MemPushed, W!Mem!MemPushed, MemoryOf!Welcome, W!Mem!Welcome, MemoryOf!Lost, W!Mem!Lost, MemoryOf!Edit,
   W!Mem!Edit, MemoryOf!Unlink, W!Mem!Unlink, MemoryOf!Clone, W!Mem!Clone

LEMMA LoggedSame ==
    ASSUME NEW m, NEW k
    PROVE  MemoryOf!Logged(m, k) = W!Mem!Logged(m, k)
BY DEF MemoryOf!None, W!Mem!None, MemoryOf!Logged, W!Mem!Logged

LEMMA MemorySame ==
    /\ MemoryOf!Init <=> W!Mem!Init
    /\ MemoryOf!Next <=> W!Mem!Next
    /\ MemoryOf!CaughtMeansHad <=> W!Mem!CaughtMeansHad
<1>1. MemoryOf!Init <=> W!Mem!Init
  BY DEF MemoryOf!Keys, W!Mem!Keys, MemoryOf!None, W!Mem!None, MemoryOf!NoStamp, W!Mem!NoStamp, MemoryOf!NotHeld, W!Mem!NotHeld,
   MemoryOf!Offline, W!Mem!Offline, MemoryOf!Free, W!Mem!Free, MemoryOf!Init, W!Mem!Init
<1>2. MemoryOf!Next <=> W!Mem!Next
  BY ApplyAllSame, ApplyNoneSame, ApplyReplaySame, SyncMemorySame, ScannedSame, WrittenSame, KeptBothSame, WriteSame,
     MemoryStepsSame
     DEF MemoryOf!Next, W!Mem!Next
<1>3. MemoryOf!CaughtMeansHad <=> W!Mem!CaughtMeansHad
  BY DEF MemoryOf!Newer, W!Mem!Newer, MemoryOf!CaughtMeansHad, W!Mem!CaughtMeansHad
<1> QED
  BY <1>1, <1>2, <1>3

LEMMA ClaimsSame ==
    /\ ClaimsOf!Init <=> W!Issue!Init
    /\ ClaimsOf!Next <=> W!Issue!Next
    /\ ClaimsOf!DeadLeasesLapse <=> W!Issue!DeadLeasesLapse
BY DEF ClaimsOf!cvars, W!Issue!cvars, ClaimsOf!Nobody, W!Issue!Nobody, ClaimsOf!NoLease, W!Issue!NoLease, ClaimsOf!LeaseLive,
   W!Issue!LeaseLive, ClaimsOf!LeaseDue, W!Issue!LeaseDue, ClaimsOf!Alive, W!Issue!Alive, ClaimsOf!Publish, W!Issue!Publish,
   ClaimsOf!ReleaseLeases, W!Issue!ReleaseLeases, ClaimsOf!Dispatch, W!Issue!Dispatch, ClaimsOf!Launched, W!Issue!Launched,
   ClaimsOf!Claimed, W!Issue!Claimed, ClaimsOf!Exit, W!Issue!Exit, ClaimsOf!Quit, W!Issue!Quit, ClaimsOf!Start,
   W!Issue!Start, ClaimsOf!Unheld, W!Issue!Unheld, ClaimsOf!Renewed, W!Issue!Renewed, ClaimsOf!Tick, W!Issue!Tick,
   ClaimsOf!Flush, W!Issue!Flush, ClaimsOf!Wins, W!Issue!Wins, ClaimsOf!ApplyLease, W!Issue!ApplyLease, ClaimsOf!Init,
   W!Issue!Init, ClaimsOf!Next, W!Issue!Next, ClaimsOf!DeadLeasesLapse, W!Issue!DeadLeasesLapse

LEMMA HandoffSame ==
    /\ HandoffOf!Init <=> HP!Init
    /\ HandoffOf!Next <=> HP!Next
    /\ HandoffOf!OneHolder <=> HP!OneHolder
    /\ HandoffOf!SomebodyHolds <=> HP!SomebodyHolds
BY DEF HandoffOf!Open, HP!Open, HandoffOf!GivenUp, HP!GivenUp, HandoffOf!Machines, HP!Machines, HandoffOf!hvars, HP!hvars,
   HandoffOf!sender, HP!sender, HandoffOf!taker, HP!taker, HandoffOf!NoRec, HP!NoRec, HandoffOf!NoInRec, HP!NoInRec,
   HandoffOf!NewWindow, HP!NewWindow, HandoffOf!Spend, HP!Spend, HandoffOf!Init, HP!Init, HandoffOf!OnCaps, HP!OnCaps,
   HandoffOf!ApplyInfo, HP!ApplyInfo, HandoffOf!ApplyList, HP!ApplyList, HandoffOf!ApplyRefused, HP!ApplyRefused,
   HandoffOf!Busy, HP!Busy, HandoffOf!Due, HP!Due, HandoffOf!Dropped, HP!Dropped, HandoffOf!Say, HP!Say, HandoffOf!Info,
   HP!Info, HandoffOf!Move, HP!Move, HandoffOf!Refuse, HP!Refuse, HandoffOf!Unheard, HP!Unheard, HandoffOf!Offered,
   HP!Offered, HandoffOf!Answer, HP!Answer, HandoffOf!Command, HP!Command, HandoffOf!Quiet, HP!Quiet, HandoffOf!Expire,
   HP!Expire, HandoffOf!Purge, HP!Purge, HandoffOf!Restarted, HP!Restarted, HandoffOf!Connect, HP!Connect, HandoffOf!Drop,
   HP!Drop, HandoffOf!Silence, HP!Silence, HandoffOf!Proceed, HP!Proceed, HandoffOf!Pack, HP!Pack, HandoffOf!HandoffSend,
   HP!HandoffSend, HandoffOf!HandoffSent, HP!HandoffSent, HandoffOf!SettleHere, HP!SettleHere, HandoffOf!Cancel, HP!Cancel,
   HandoffOf!TakeBack, HP!TakeBack, HandoffOf!Resume, HP!Resume, HandoffOf!Acked, HP!Acked, HandoffOf!Heard, HP!Heard,
   HandoffOf!Under, HP!Under, HandoffOf!Rest, HP!Rest, HandoffOf!SenderHears, HP!SenderHears, HandoffOf!Upload, HP!Upload,
   HandoffOf!SettleDone, HP!SettleDone, HandoffOf!SettleBack, HP!SettleBack, HandoffOf!DismissHanded, HP!DismissHanded,
   HandoffOf!RestartSender, HP!RestartSender, HandoffOf!ClaimIn, HP!ClaimIn, HandoffOf!DeclineIn, HP!DeclineIn,
   HandoffOf!ApplyIn, HP!ApplyIn, HandoffOf!Unlisted, HP!Unlisted, HandoffOf!ApplyInList, HP!ApplyInList, HandoffOf!Staged,
   HP!Staged, HandoffOf!Placed, HP!Placed, HandoffOf!TakerHears, HP!TakerHears, HandoffOf!Fetch, HP!Fetch, HandoffOf!Ready,
   HP!Ready, HandoffOf!Install, HP!Install, HandoffOf!Retry, HP!Retry, HandoffOf!RestartTaker, HP!RestartTaker,
   HandoffOf!Next, HP!Next, HandoffOf!OneHolder, HP!OneHolder, HandoffOf!SomebodyHolds, HP!SomebodyHolds

LEMMA AdoptionSame ==
    /\ AdoptionOf!Init <=> W!Pane!Init
    /\ AdoptionOf!Next <=> W!Pane!Next
    /\ AdoptionOf!EndIsKnown <=> W!Pane!EndIsKnown
    /\ AdoptionOf!ShownOnce <=> W!Pane!ShownOnce
BY DEF AdoptionOf!avars, W!Pane!avars, AdoptionOf!Paned, W!Pane!Paned, AdoptionOf!Emit, W!Pane!Emit, AdoptionOf!Init,
   W!Pane!Init, AdoptionOf!Output, W!Pane!Output, AdoptionOf!Reap, W!Pane!Reap, AdoptionOf!Reload, W!Pane!Reload,
   AdoptionOf!List, W!Pane!List, AdoptionOf!Ask, W!Pane!Ask, AdoptionOf!ReadScrollback, W!Pane!ReadScrollback,
   AdoptionOf!AfterSnap, W!Pane!AfterSnap, AdoptionOf!Adopt, W!Pane!Adopt, AdoptionOf!Ends, W!Pane!Ends, AdoptionOf!Hear,
   W!Pane!Hear, AdoptionOf!Next, W!Pane!Next, AdoptionOf!EndIsKnown, W!Pane!EndIsKnown, AdoptionOf!ShownOnce,
   W!Pane!ShownOnce

LEMMA FilterSame ==
    ASSUME NEW s, NEW S
    PROVE  RosterOf!Filter(s, S) = LP!Ros!Filter(s, S)
BY DEF RosterOf!Filter, LP!Ros!Filter

LEMMA SetOfSame ==
    ASSUME NEW s
    PROVE  RosterOf!ToSet(s) = LP!Ros!ToSet(s)
BY DEF RosterOf!ToSet, LP!Ros!ToSet

LEMMA MergeOrderSame ==
    ASSUME NEW i, NEW o, NEW was
    PROVE  RosterOf!MergeOrder(i, o, was) = LP!Ros!MergeOrder(i, o, was)
BY DEF RosterOf!Filter, LP!Ros!Filter, RosterOf!ToSet, LP!Ros!ToSet, RosterOf!MyOrder, LP!Ros!MyOrder,
   RosterOf!Cardinality, LP!Ros!Cardinality, RosterOf!IsFiniteSet, LP!Ros!IsFiniteSet, RosterOf!MergeOrder,
   LP!Ros!MergeOrder

LEMMA ApplyOrderSame ==
    ASSUME NEW i, NEW o, NEW w
    PROVE  RosterOf!ApplyOrder(i, o, w) = LP!Ros!ApplyOrder(i, o, w)
BY FilterSame, SetOfSame DEF RosterOf!ApplyOrder, LP!Ros!ApplyOrder

LEMMA RosterStepsSame ==
    ASSUME NEW p, NEW o, NEW b
    PROVE  /\ RosterOf!ResolveIds(p) <=> LP!Ros!ResolveIds(p)
           /\ RosterOf!ToggleFavorite(p) <=> LP!Ros!ToggleFavorite(p)
           /\ RosterOf!ArriveFav(p, b) <=> LP!Ros!ArriveFav(p, b)
           /\ RosterOf!SetProjOrder(o) <=> LP!Ros!SetProjOrder(o)
           /\ RosterOf!ArriveOrder(o) <=> LP!Ros!ArriveOrder(o)
           /\ RosterOf!RosterEdited <=> LP!Ros!RosterEdited
BY MergeOrderSame, ApplyOrderSame, SetOfSame DEF RosterOf!MyFavs, LP!Ros!MyFavs, RosterOf!MergeFavs, LP!Ros!MergeFavs,
   RosterOf!Landed, LP!Ros!Landed, RosterOf!Diff, LP!Ros!Diff, RosterOf!InWire, LP!Ros!InWire, RosterOf!Revealed,
   LP!Ros!Revealed, RosterOf!Written, LP!Ros!Written, RosterOf!Arrived, LP!Ros!Arrived, RosterOf!ResolveIds,
   LP!Ros!ResolveIds, RosterOf!ToggleFavorite, LP!Ros!ToggleFavorite, RosterOf!ArriveFav, LP!Ros!ArriveFav,
   RosterOf!SetProjOrder, LP!Ros!SetProjOrder, RosterOf!ArriveOrder, LP!Ros!ArriveOrder, RosterOf!RosterEdited,
   LP!Ros!RosterEdited

LEMMA RosterSame ==
    /\ RosterOf!Init <=> LP!Ros!Init
    /\ RosterOf!Next <=> LP!Ros!Next
BY RosterStepsSame DEF RosterOf!Orders, LP!Ros!Orders, RosterOf!Init, LP!Ros!Init, RosterOf!Next, LP!Ros!Next

LEMMA CleanupSame ==
    /\ CleanupOf!Init <=> W!Clean!Init
    /\ CleanupOf!Next <=> W!Clean!Next
    /\ CleanupOf!WorkKept <=> W!Clean!WorkKept
BY DEF CleanupOf!brvars, W!Clean!brvars, CleanupOf!hub, W!Clean!hub, CleanupOf!refs, W!Clean!refs, CleanupOf!folder,
   W!Clean!folder, CleanupOf!screen, W!Clean!screen, CleanupOf!books, W!Clean!books, CleanupOf!Base, W!Clean!Base,
   CleanupOf!NoTree, W!Clean!NoTree, CleanupOf!NoView, W!Clean!NoView, CleanupOf!Idle, W!Clean!Idle, CleanupOf!Init,
   W!Clean!Init, CleanupOf!Act, W!Clean!Act, CleanupOf!Start, W!Clean!Start, CleanupOf!Edit, W!Clean!Edit, CleanupOf!Commit,
   W!Clean!Commit, CleanupOf!Detach, W!Clean!Detach, CleanupOf!Session, W!Clean!Session, CleanupOf!Push, W!Clean!Push,
   CleanupOf!OthersPush, W!Clean!OthersPush, CleanupOf!MergePr, W!Clean!MergePr, CleanupOf!OthersDelete,
   W!Clean!OthersDelete, CleanupOf!Fetch, W!Clean!Fetch, CleanupOf!Read, W!Clean!Read, CleanupOf!LoadBranches,
   W!Clean!LoadBranches, CleanupOf!LoadPrs, W!Clean!LoadPrs, CleanupOf!PrMerged, W!Clean!PrMerged, CleanupOf!GoneRef,
   W!Clean!GoneRef, CleanupOf!Tip, W!Clean!Tip, CleanupOf!Merged, W!Clean!Merged, CleanupOf!Force, W!Clean!Force,
   CleanupOf!LocalOk, W!Clean!LocalOk, CleanupOf!RemoteOk, W!Clean!RemoteOk, CleanupOf!Stray, W!Clean!Stray,
   CleanupOf!CheckoutOk, W!Clean!CheckoutOk, CleanupOf!Picks, W!Clean!Picks, CleanupOf!Account, W!Clean!Account,
   CleanupOf!ByName, W!Clean!ByName, CleanupOf!SafeDeletes, W!Clean!SafeDeletes, CleanupOf!Removable, W!Clean!Removable,
   CleanupOf!RemoveTree, W!Clean!RemoveTree, CleanupOf!KeepTree, W!Clean!KeepTree, CleanupOf!RunClean, W!Clean!RunClean,
   CleanupOf!Answer, W!Clean!Answer, CleanupOf!CleanTree, W!Clean!CleanTree, CleanupOf!Swept, W!Clean!Swept,
   CleanupOf!Sweep, W!Clean!Sweep, CleanupOf!Unmoved, W!Clean!Unmoved, CleanupOf!SweepRemote, W!Clean!SweepRemote,
   CleanupOf!CleanCheckout, W!Clean!CleanCheckout, CleanupOf!Over, W!Clean!Over, CleanupOf!AskRemoval, W!Clean!AskRemoval,
   CleanupOf!CloseSessionsIn, W!Clean!CloseSessionsIn, CleanupOf!RemoveWorktree, W!Clean!RemoveWorktree,
   CleanupOf!DeleteBranch, W!Clean!DeleteBranch, CleanupOf!Next, W!Clean!Next, CleanupOf!WorkKept, W!Clean!WorkKept

LEMMA WtDialogSame ==
    /\ WtDialogOf!Init <=> HP!Dlg!Init
    /\ WtDialogOf!Next <=> HP!Dlg!Next
BY DEF WtDialogOf!wtvars, HP!Dlg!wtvars, WtDialogOf!git, HP!Dlg!git, WtDialogOf!NoRows, HP!Dlg!NoRows, WtDialogOf!NoOp,
   HP!Dlg!NoOp, WtDialogOf!Init, HP!Dlg!Init, WtDialogOf!Act, HP!Dlg!Act, WtDialogOf!Still, HP!Dlg!Still, WtDialogOf!Read,
   HP!Dlg!Read, WtDialogOf!Shut, HP!Dlg!Shut, WtDialogOf!OpenWt, HP!Dlg!OpenWt, WtDialogOf!CloseWt, HP!Dlg!CloseWt,
   WtDialogOf!RefreshWtDialog, HP!Dlg!RefreshWtDialog, WtDialogOf!MaybeFetch, HP!Dlg!MaybeFetch, WtDialogOf!Answer,
   HP!Dlg!Answer, WtDialogOf!Answered, HP!Dlg!Answered, WtDialogOf!Lands, HP!Dlg!Lands, WtDialogOf!Land, HP!Dlg!Land,
   WtDialogOf!Fetched, HP!Dlg!Fetched, WtDialogOf!Changes, HP!Dlg!Changes, WtDialogOf!Start, HP!Dlg!Start, WtDialogOf!Did,
   HP!Dlg!Did, WtDialogOf!Refused, HP!Dlg!Refused, WtDialogOf!Next, HP!Dlg!Next

LEMMA PresenceSame ==
    /\ PresenceOf!Init <=> W!Hub!Init
    /\ PresenceOf!Next <=> W!Hub!Next
    /\ PresenceOf!PresenceIsTrue <=> W!Hub!PresenceIsTrue
BY DEF PresenceOf!prvars, W!Hub!prvars, PresenceOf!Links, W!Hub!Links, PresenceOf!Lists, W!Hub!Lists, PresenceOf!Shown,
   W!Hub!Shown, PresenceOf!Init, W!Hub!Init, PresenceOf!Within, W!Hub!Within, PresenceOf!Enters, W!Hub!Enters,
   PresenceOf!Act, W!Hub!Act, PresenceOf!Told, W!Hub!Told, PresenceOf!Announce, W!Hub!Announce, PresenceOf!Open, W!Hub!Open,
   PresenceOf!Beats, W!Hub!Beats, PresenceOf!Silent, W!Hub!Silent, PresenceOf!Hears, W!Hub!Hears, PresenceOf!Lost,
   W!Hub!Lost, PresenceOf!Join, W!Hub!Join, PresenceOf!Subscribe, W!Hub!Subscribe, PresenceOf!Sets, W!Hub!Sets,
   PresenceOf!Tells, W!Hub!Tells, PresenceOf!Leaves, W!Hub!Leaves, PresenceOf!StillHere, W!Hub!StillHere, PresenceOf!Parts,
   W!Hub!Parts, PresenceOf!Sweep, W!Hub!Sweep, PresenceOf!TellsOfSwept, W!Hub!TellsOfSwept, PresenceOf!Next, W!Hub!Next,
   PresenceOf!Quiet, W!Hub!Quiet, PresenceOf!PresenceIsTrue, W!Hub!PresenceIsTrue, PresenceOf!SetToSeq, W!Hub!SetToSeq,
   PresenceOf!IsInjective, W!Hub!IsInjective, PresenceOf!Cardinality, W!Hub!Cardinality, PresenceOf!IsFiniteSet,
   W!Hub!IsFiniteSet

LEMMA ServersSame ==
    /\ ServersOf!Init <=> HP!Bg!Init
    /\ ServersOf!Next <=> HP!Bg!Next
    /\ ServersOf!EndsAreEarned <=> HP!Bg!EndsAreEarned
BY DEF ServersOf!svvars, HP!Bg!svvars, ServersOf!None, HP!Bg!None, ServersOf!Blank, HP!Bg!Blank, ServersOf!Live, HP!Bg!Live,
   ServersOf!NoPoll, HP!Bg!NoPoll, ServersOf!Act, HP!Bg!Act, ServersOf!Init, HP!Bg!Init, ServersOf!AgentRuns,
   HP!Bg!AgentRuns, ServersOf!Start, HP!Bg!Start, ServersOf!Writes, HP!Bg!Writes, ServersOf!Exits, HP!Bg!Exits,
   ServersOf!Stops, HP!Bg!Stops, ServersOf!AgentExits, HP!Bg!AgentExits, ServersOf!EndBg, HP!Bg!EndBg, ServersOf!Hook,
   HP!Bg!Hook, ServersOf!Listening, HP!Bg!Listening, ServersOf!PollPorts, HP!Bg!PollPorts, ServersOf!Single, HP!Bg!Single,
   ServersOf!PortsAnswered, HP!Bg!PortsAnswered, ServersOf!ReadLog, HP!Bg!ReadLog, ServersOf!Found, HP!Bg!Found,
   ServersOf!Missing, HP!Bg!Missing, ServersOf!LogAnswered, HP!Bg!LogAnswered, ServersOf!AskKill, HP!Bg!AskKill,
   ServersOf!KillPort, HP!Bg!KillPort, ServersOf!Marked, HP!Bg!Marked, ServersOf!KillAnswered, HP!Bg!KillAnswered,
   ServersOf!Forget, HP!Bg!Forget, ServersOf!Next, HP!Bg!Next, ServersOf!EndsAreEarned, HP!Bg!EndsAreEarned

LEMMA ReviewSame ==
    /\ ReviewOf!Init <=> HP!Rev!Init
    /\ ReviewOf!Next <=> HP!Rev!Next
    /\ ReviewOf!ReviewIsItsOwn <=> HP!Rev!ReviewIsItsOwn
BY DEF ReviewOf!rvvars, HP!Rev!rvvars, ReviewOf!Nothing, HP!Rev!Nothing, ReviewOf!Undrawn, HP!Rev!Undrawn, ReviewOf!Unsent,
   HP!Rev!Unsent, ReviewOf!Act, HP!Rev!Act, ReviewOf!Init, HP!Rev!Init, ReviewOf!Review, HP!Rev!Review, ReviewOf!Diff,
   HP!Rev!Diff, ReviewOf!DrawsFull, HP!Rev!DrawsFull, ReviewOf!Calm, HP!Rev!Calm, ReviewOf!Load, HP!Rev!Load, ReviewOf!Open,
   HP!Rev!Open, ReviewOf!Close, HP!Rev!Close, ReviewOf!Refresh, HP!Rev!Refresh, ReviewOf!Pushed, HP!Rev!Pushed,
   ReviewOf!Current, HP!Rev!Current, ReviewOf!Dropped, HP!Rev!Dropped, ReviewOf!Answered, HP!Rev!Answered, ReviewOf!Drawn,
   HP!Rev!Drawn, ReviewOf!Failed, HP!Rev!Failed, ReviewOf!Choose, HP!Rev!Choose, ReviewOf!Remark, HP!Rev!Remark,
   ReviewOf!Submit, HP!Rev!Submit, ReviewOf!AfterSending, HP!Rev!AfterSending, ReviewOf!Sent, HP!Rev!Sent, ReviewOf!Next,
   HP!Rev!Next, ReviewOf!ReviewIsItsOwn, HP!Rev!ReviewIsItsOwn

LEMMA SupervisorSame ==
    /\ SupervisorOf!Init <=> W!Init
    /\ SupervisorOf!Next <=> W!Next
    /\ SupervisorOf!SyncStaysTrue <=> W!SyncStaysTrue
BY DEF SupervisorOf!spvars, W!spvars, SupervisorOf!None, W!None, SupervisorOf!Off, W!Off, SupervisorOf!Idle, W!Idle,
   SupervisorOf!NoPairing, W!NoPairing, SupervisorOf!NoThread, W!NoThread, SupervisorOf!Act, W!Act, SupervisorOf!Retiring,
   W!Retiring, SupervisorOf!Init, W!Init, SupervisorOf!Emit, W!Emit, SupervisorOf!SetStatus, W!SetStatus,
   SupervisorOf!Restart, W!Restart, SupervisorOf!Dial, W!Dial, SupervisorOf!Opens, W!Opens, SupervisorOf!Looks, W!Looks,
   SupervisorOf!Welcomed, W!Welcomed, SupervisorOf!Says, W!Says, SupervisorOf!Halts, W!Halts, SupervisorOf!Hears, W!Hears,
   SupervisorOf!Fails, W!Fails, SupervisorOf!Waits, W!Waits, SupervisorOf!Listens, W!Listens, SupervisorOf!MainIsFree,
   W!MainIsFree, SupervisorOf!Starts, W!Starts, SupervisorOf!Takes, W!Takes, SupervisorOf!Reloads, W!Reloads,
   SupervisorOf!Quits, W!Quits, SupervisorOf!AckMoves, W!AckMoves, SupervisorOf!AckReads, W!AckReads,
   SupervisorOf!AckWrites, W!AckWrites, SupervisorOf!PairSaves, W!PairSaves, SupervisorOf!NewCursor, W!NewCursor,
   SupervisorOf!PairWrites, W!PairWrites, SupervisorOf!PairFails, W!PairFails, SupervisorOf!PairAnswers, W!PairAnswers,
   SupervisorOf!Forgets, W!Forgets, SupervisorOf!SetsHeaders, W!SetsHeaders, SupervisorOf!Next, W!Next,
   SupervisorOf!CursorIsEarned, W!CursorIsEarned, SupervisorOf!StatusIsTrue, W!StatusIsTrue, SupervisorOf!SyncStaysTrue,
   W!SyncStaysTrue

LEMMA AwakeSame ==
    /\ AwakeOf!Init <=> W!Awake!Init
    /\ AwakeOf!Next <=> W!Awake!Next
    /\ AwakeOf!AwakeIsTrue <=> W!Awake!AwakeIsTrue
BY DEF AwakeOf!kavars, W!Awake!kavars, AwakeOf!Nothing, W!Awake!Nothing, AwakeOf!Act, W!Awake!Act, AwakeOf!Desired,
   W!Awake!Desired, AwakeOf!Wanted, W!Awake!Wanted, AwakeOf!Init, W!Awake!Init, AwakeOf!Reconcile, W!Awake!Reconcile,
   AwakeOf!ArmTimer, W!Awake!ArmTimer, AwakeOf!Acted, W!Awake!Acted, AwakeOf!Toggle, W!Awake!Toggle, AwakeOf!Pick,
   W!Awake!Pick, AwakeOf!SetDuration, W!Awake!SetDuration, AwakeOf!Stop, W!Awake!Stop, AwakeOf!AgentsTurn,
   W!Awake!AgentsTurn, AwakeOf!SetAwait, W!Awake!SetAwait, AwakeOf!RenderAll, W!Awake!RenderAll, AwakeOf!TimerEnds,
   W!Awake!TimerEnds, AwakeOf!Tick, W!Awake!Tick, AwakeOf!Runs, W!Awake!Runs, AwakeOf!KeyAfterFailure,
   W!Awake!KeyAfterFailure, AwakeOf!Answered, W!Awake!Answered, AwakeOf!Reload, W!Awake!Reload, AwakeOf!Next, W!Awake!Next,
   AwakeOf!AwakeIsTrue, W!Awake!AwakeIsTrue

LEMMA DiffSame ==
    /\ DiffOf!Init <=> HP!Df!Init
    /\ DiffOf!Next <=> HP!Df!Next
    /\ DiffOf!NothingElseIsLost <=> HP!Df!NothingElseIsLost
    /\ DiffOf!DraftsStay <=> HP!Df!DraftsStay
BY DEF DiffOf!git, HP!Df!git, DiffOf!message, HP!Df!message, DiffOf!Clean, HP!Df!Clean, DiffOf!Blank, HP!Df!Blank, DiffOf!NoJob,
   HP!Df!NoJob, DiffOf!Listed, HP!Df!Listed, DiffOf!Ids, HP!Df!Ids, DiffOf!Work, HP!Df!Work, DiffOf!Numbers, HP!Df!Numbers,
   DiffOf!Init, HP!Df!Init, DiffOf!Act, HP!Df!Act, DiffOf!Person, HP!Df!Person, DiffOf!Settled, HP!Df!Settled, DiffOf!Read,
   HP!Df!Read, DiffOf!Stays, HP!Df!Stays, DiffOf!LoadWork, HP!Df!LoadWork, DiffOf!ShowStashes, HP!Df!ShowStashes,
   DiffOf!ShowStash, HP!Df!ShowStash, DiffOf!OpenDiff, HP!Df!OpenDiff, DiffOf!CloseDiff, HP!Df!CloseDiff, DiffOf!ToTab,
   HP!Df!ToTab, DiffOf!OpensStash, HP!Df!OpensStash, DiffOf!Repaint, HP!Df!Repaint, DiffOf!GitReads, HP!Df!GitReads,
   DiffOf!Current, HP!Df!Current, DiffOf!Lands, HP!Df!Lands, DiffOf!ReadFails, HP!Df!ReadFails, DiffOf!Ready, HP!Df!Ready,
   DiffOf!Job, HP!Df!Job, DiffOf!Selected, HP!Df!Selected, DiffOf!Tick, HP!Df!Tick, DiffOf!PickAll, HP!Df!PickAll,
   DiffOf!Type, HP!Df!Type, DiffOf!CommitPicked, HP!Df!CommitPicked, DiffOf!StashPicked, HP!Df!StashPicked,
   DiffOf!DiscardFiles, HP!Df!DiscardFiles, DiffOf!DiscardHunk, HP!Df!DiscardHunk, DiffOf!StashOp, HP!Df!StashOp,
   DiffOf!Answers, HP!Df!Answers, DiffOf!Without, HP!Df!Without, DiffOf!Put, HP!Df!Put, DiffOf!Held, HP!Df!Held, DiffOf!On,
   HP!Df!On, DiffOf!Done, HP!Df!Done, DiffOf!GitCommit, HP!Df!GitCommit, DiffOf!Stash, HP!Df!Stash, DiffOf!GitStashPush,
   HP!Df!GitStashPush, DiffOf!GitDiscard, HP!Df!GitDiscard, DiffOf!AsShown, HP!Df!AsShown, DiffOf!GitDiscardHunk,
   HP!Df!GitDiscardHunk, DiffOf!StashRef, HP!Df!StashRef, DiffOf!GitStashDrop, HP!Df!GitStashDrop, DiffOf!GitStashApply,
   HP!Df!GitStashApply, DiffOf!GitRefuses, HP!Df!GitRefuses, DiffOf!GitRuns, HP!Df!GitRuns, DiffOf!Uses, HP!Df!Uses,
   DiffOf!GoesOn, HP!Df!GoesOn, DiffOf!WriteEnds, HP!Df!WriteEnds, DiffOf!Edited, HP!Df!Edited, DiffOf!StashedElsewhere,
   HP!Df!StashedElsewhere, DiffOf!Next, HP!Df!Next, DiffOf!NothingElseIsLost, HP!Df!NothingElseIsLost, DiffOf!DraftsStay,
   HP!Df!DraftsStay, DiffOf!Cardinality, HP!Df!Cardinality, DiffOf!IsFiniteSet, HP!Df!IsFiniteSet

LEMMA DashboardSame ==
    /\ DashboardOf!Init <=> HP!Db!Init
    /\ DashboardOf!Next <=> HP!Db!Next
    /\ DashboardOf!StageIsItsOwn <=> HP!Db!StageIsItsOwn
    /\ DashboardOf!SummariesDone <=> HP!Db!SummariesDone
BY DEF DashboardOf!dvars, HP!Db!dvars, DashboardOf!chosen, HP!Db!chosen, DashboardOf!stage, HP!Db!stage, DashboardOf!loads,
   HP!Db!loads, DashboardOf!disk, HP!Db!disk, DashboardOf!Threads, HP!Db!Threads, DashboardOf!Parallel, HP!Db!Parallel,
   DashboardOf!Written, HP!Db!Written, DashboardOf!Answers, HP!Db!Answers, DashboardOf!Kinds, HP!Db!Kinds,
   DashboardOf!NoThread, HP!Db!NoThread, DashboardOf!Idle, HP!Db!Idle, DashboardOf!NoOp, HP!Db!NoOp, DashboardOf!Init,
   HP!Db!Init, DashboardOf!Act, HP!Db!Act, DashboardOf!Moves, HP!Db!Moves, DashboardOf!Followed, HP!Db!Followed,
   DashboardOf!Ask, HP!Db!Ask, DashboardOf!Heard, HP!Db!Heard, DashboardOf!Seeds, HP!Db!Seeds, DashboardOf!Seeded,
   HP!Db!Seeded, DashboardOf!HasDigest, HP!Db!HasDigest, DashboardOf!ToGit, HP!Db!ToGit, DashboardOf!ToServer,
   HP!Db!ToServer, DashboardOf!Redo, HP!Db!Redo, DashboardOf!Buys, HP!Db!Buys, DashboardOf!Pass, HP!Db!Pass,
   DashboardOf!Requested, HP!Db!Requested, DashboardOf!Ready, HP!Db!Ready, DashboardOf!Leaves, HP!Db!Leaves,
   DashboardOf!PassEnds, HP!Db!PassEnds, DashboardOf!Stage2, HP!Db!Stage2, DashboardOf!SummariseDay, HP!Db!SummariseDay,
   DashboardOf!Summarised, HP!Db!Summarised, DashboardOf!Arrives, HP!Db!Arrives, DashboardOf!Begin, HP!Db!Begin,
   DashboardOf!Cleared, HP!Db!Cleared, DashboardOf!OpenDashboard, HP!Db!OpenDashboard, DashboardOf!CloseDashboard,
   HP!Db!CloseDashboard, DashboardOf!Reload, HP!Db!Reload, DashboardOf!Facts, HP!Db!Facts, DashboardOf!Loaded, HP!Db!Loaded,
   DashboardOf!Reads, HP!Db!Reads, DashboardOf!Rest, HP!Db!Rest, DashboardOf!Lands, HP!Db!Lands, DashboardOf!Answer,
   HP!Db!Answer, DashboardOf!ReloadDashGh, HP!Db!ReloadDashGh, DashboardOf!Refresh, HP!Db!Refresh, DashboardOf!OpenThread,
   HP!Db!OpenThread, DashboardOf!ThreadRead, HP!Db!ThreadRead, DashboardOf!SyncMain, HP!Db!SyncMain, DashboardOf!Fetched,
   HP!Db!Fetched, DashboardOf!ReadBack, HP!Db!ReadBack, DashboardOf!SyncEnds, HP!Db!SyncEnds, DashboardOf!StartWrite,
   HP!Db!StartWrite, DashboardOf!EndWrite, HP!Db!EndWrite, DashboardOf!Next, HP!Db!Next, DashboardOf!StageIsItsOwn,
   HP!Db!StageIsItsOwn, DashboardOf!SummariesDone, HP!Db!SummariesDone

LEMMA NoticesSame ==
    /\ NoticesOf!Init <=> HP!Nt!Init
    /\ NoticesOf!Next <=> HP!Nt!Next
    /\ NoticesOf!NoticesAreTrue <=> HP!Nt!NoticesAreTrue
BY DEF NoticesOf!ntvars, HP!Nt!ntvars, NoticesOf!Threads, HP!Nt!Threads, NoticesOf!Open, HP!Nt!Open, NoticesOf!GivenUp,
   HP!Nt!GivenUp, NoticesOf!NoRow, HP!Nt!NoRow, NoticesOf!NoRec, HP!Nt!NoRec, NoticesOf!Idle, HP!Nt!Idle, NoticesOf!Out,
   HP!Nt!Out, NoticesOf!Rank, HP!Nt!Rank, NoticesOf!Older, HP!Nt!Older, NoticesOf!Fresh, HP!Nt!Fresh, NoticesOf!Seeded,
   HP!Nt!Seeded, NoticesOf!ApplyInfo, HP!Nt!ApplyInfo, NoticesOf!ApplyList, HP!Nt!ApplyList, NoticesOf!Spend, HP!Nt!Spend,
   NoticesOf!Init, HP!Nt!Init, NoticesOf!Allowed, HP!Nt!Allowed, NoticesOf!Ops, HP!Nt!Ops, NoticesOf!Becomes, HP!Nt!Becomes,
   NoticesOf!Takes, HP!Nt!Takes, NoticesOf!Commits, HP!Nt!Commits, NoticesOf!Reached, HP!Nt!Reached, NoticesOf!Announces,
   HP!Nt!Announces, NoticesOf!Hears, HP!Nt!Hears, NoticesOf!Join, HP!Nt!Join, NoticesOf!Lists, HP!Nt!Lists,
   NoticesOf!Forwards, HP!Nt!Forwards, NoticesOf!Lost, HP!Nt!Lost, NoticesOf!Tick, HP!Nt!Tick, NoticesOf!Purge, HP!Nt!Purge,
   NoticesOf!Next, HP!Nt!Next, NoticesOf!Shows, HP!Nt!Shows, NoticesOf!Said, HP!Nt!Said, NoticesOf!NoticesAreTrue,
   HP!Nt!NoticesAreTrue

LEMMA LifecycleSame ==
    /\ LifecycleOf!Init <=> W!Life!Init
    /\ LifecycleOf!Next <=> W!Life!Next
    /\ LifecycleOf!ConversationKept <=> W!Life!ConversationKept
    /\ LifecycleOf!RowsFindTranscripts <=> W!Life!RowsFindTranscripts
    /\ LifecycleOf!OneProcessEach <=> W!Life!OneProcessEach
BY DEF LifecycleOf!lvars, W!Life!lvars, LifecycleOf!NoPane, W!Life!NoPane, LifecycleOf!IsOpen, W!Life!IsOpen, LifecycleOf!Held,
   W!Life!Held, LifecycleOf!Fresh, W!Life!Fresh, LifecycleOf!Other, W!Life!Other, LifecycleOf!Settled, W!Life!Settled,
   LifecycleOf!Act, W!Life!Act, LifecycleOf!RosterEntry, W!Life!RosterEntry, LifecycleOf!Roster, W!Life!Roster,
   LifecycleOf!SaveRoster, W!Life!SaveRoster, LifecycleOf!Flush, W!Life!Flush, LifecycleOf!FlushRoster, W!Life!FlushRoster,
   LifecycleOf!RefreshExternals, W!Life!RefreshExternals, LifecycleOf!Init, W!Life!Init, LifecycleOf!Launched,
   W!Life!Launched, LifecycleOf!Launch, W!Life!Launch, LifecycleOf!RowsAfter, W!Life!RowsAfter, LifecycleOf!Spawned,
   W!Life!Spawned, LifecycleOf!Killed, W!Life!Killed, LifecycleOf!Exit, W!Life!Exit, LifecycleOf!Without, W!Life!Without,
   LifecycleOf!Close, W!Life!Close, LifecycleOf!ShelvedRow, W!Life!ShelvedRow, LifecycleOf!Shelve, W!Life!Shelve,
   LifecycleOf!DormantBusy, W!Life!DormantBusy, LifecycleOf!Resume, W!Life!Resume, LifecycleOf!Forget, W!Life!Forget,
   LifecycleOf!Track, W!Life!Track, LifecycleOf!Stop, W!Life!Stop, LifecycleOf!Continue, W!Life!Continue,
   LifecycleOf!CloseToMove, W!Life!CloseToMove, LifecycleOf!Moved, W!Life!Moved, LifecycleOf!Known, W!Life!Known,
   LifecycleOf!Reload, W!Life!Reload, LifecycleOf!Adopted, W!Life!Adopted, LifecycleOf!AdoptOrphans, W!Life!AdoptOrphans,
   LifecycleOf!LoadDormants, W!Life!LoadDormants, LifecycleOf!Next, W!Life!Next, LifecycleOf!Conversations,
   W!Life!Conversations, LifecycleOf!Reach, W!Life!Reach, LifecycleOf!ConversationKept, W!Life!ConversationKept,
   LifecycleOf!OneProcessEach, W!Life!OneProcessEach, LifecycleOf!RowsFindTranscripts, W!Life!RowsFindTranscripts

LEMMA SlotsSame ==
    ASSUME NEW u, NEW a
    PROVE  /\ LimitsOf!SlotFor(u, a) = LP!SlotFor(u, a)
           /\ LimitsOf!SlotNow(u) = LP!SlotNow(u)
           /\ LimitsOf!Kept(u) = LP!Kept(u)
           /\ LimitsOf!SaveAccts(u) = LP!SaveAccts(u)
BY DEF LimitsOf!None, LP!None, LimitsOf!NoWin, LP!NoWin, LimitsOf!NoFigures, LP!NoFigures, LimitsOf!SlotFor, LP!SlotFor,
   LimitsOf!SlotNow, LP!SlotNow, LimitsOf!With, LP!With, LimitsOf!Kept, LP!Kept, LimitsOf!SaveAccts, LP!SaveAccts

LEMMA WithSame ==
    ASSUME NEW s, NEW a, NEW f
    PROVE  LimitsOf!With(s, a, f) = LP!With(s, a, f)
BY DEF LimitsOf!With, LP!With

LEMMA MergeSame ==
    ASSUME NEW cur, NEW new
    PROVE  LimitsOf!MergeRl(cur, new) = LP!MergeRl(cur, new)
BY DEF LimitsOf!NoWin, LP!NoWin, LimitsOf!MergeRl, LP!MergeRl

LEMMA ShowSame ==
    ASSUME NEW u, NEW a
    PROVE  LimitsOf!ShowAccount(u, a) = LP!ShowAccount(u, a)
BY SlotsSame DEF LimitsOf!None, LP!None, LimitsOf!NoWin, LP!NoWin, LimitsOf!ShowAccount, LP!ShowAccount

LEMMA NoteSame ==
    ASSUME NEW u, NEW a
    PROVE  LimitsOf!NoteAccount(u, a) = LP!NoteAccount(u, a)
BY ShowSame DEF LimitsOf!None, LP!None, LimitsOf!Tok, LP!Tok, LimitsOf!NoteAccount, LP!NoteAccount

LEMMA UpdateSame ==
    ASSUME NEW u, NEW was
    PROVE  LimitsOf!OnRlUpdate(u, was) = LP!OnRlUpdate(u, was)
BY DEF LimitsOf!NoWin, LP!NoWin, LimitsOf!OnRlUpdate, LP!OnRlUpdate

LEMMA ApplyRlSame ==
    ASSUME NEW u, NEW r, NEW fresh
    PROVE  LimitsOf!ApplyRl(u, r, fresh) = LP!ApplyRl(u, r, fresh)
BY SlotsSame, MergeSame, UpdateSame DEF LimitsOf!None, LP!None, LimitsOf!NoWin, LP!NoWin, LimitsOf!ApplyRl, LP!ApplyRl

LEMMA ApplyAccountSame ==
    ASSUME NEW u, NEW a, NEW r, NEW fresh
    PROVE  LimitsOf!ApplyAccount(u, a, r, fresh) = LP!ApplyAccount(u, a, r, fresh)
BY SlotsSame, WithSame, MergeSame, ApplyRlSame DEF LimitsOf!NoWin, LP!NoWin, LimitsOf!ApplyAccount, LP!ApplyAccount

LEMMA SyncShownSame ==
    ASSUME NEW u
    PROVE  LimitsOf!SyncShown(u) = LP!SyncShown(u)
BY SlotsSame, ShowSame DEF LimitsOf!None, LP!None, LimitsOf!Tok, LP!Tok, LimitsOf!Full, LP!Full, LimitsOf!SyncShown,
   LP!SyncShown

LEMMA BootSame ==
    ASSUME NEW slots, NEW on, NEW entries
    PROVE  LimitsOf!Boot(slots, on, entries) = LP!Boot(slots, on, entries)
BY SyncShownSame DEF LimitsOf!None, LP!None, LimitsOf!Panes, LP!Panes, LimitsOf!NoWin, LP!NoWin, LimitsOf!Boot, LP!Boot

LEMMA StatuslineSame ==
    ASSUME NEW p
    PROVE  LimitsOf!Statusline(p) <=> LP!Statusline(p)
BY NoteSame, ApplyAccountSame, SyncShownSame DEF LimitsOf!Tok, LP!Tok, LimitsOf!NoWin, LP!NoWin, LimitsOf!HeardFrom,
   LP!HeardFrom, LimitsOf!FiledUnder, LP!FiledUnder, LimitsOf!Statusline, LP!Statusline

LEMMA LimitStepsSame ==
    ASSUME NEW p, NEW a
    PROVE  /\ LimitsOf!Ask(p) <=> LP!Ask(p)
           /\ LimitsOf!Answer(p) <=> LP!Answer(p)
           /\ LimitsOf!Switch(a) <=> LP!Switch(a)
           /\ LimitsOf!PeerSends(a) <=> LP!PeerSends(a)
           /\ LimitsOf!Tick <=> LP!Tick
BY DEF LimitsOf!None, LP!None, LimitsOf!Logins, LP!Logins, LimitsOf!Tok, LP!Tok, LimitsOf!Accounts, LP!Accounts,
   LimitsOf!ResetOf, LP!ResetOf, LimitsOf!True, LP!True, LimitsOf!Spend, LP!Spend, LimitsOf!Ask, LP!Ask, LimitsOf!Answer,
   LP!Answer, LimitsOf!Switch, LP!Switch, LimitsOf!PeerSends, LP!PeerSends, LimitsOf!Tick, LP!Tick

LEMMA PeerArrivesSame ==
    LimitsOf!PeerArrives <=> LP!PeerArrives
BY SlotsSame, MergeSame DEF LimitsOf!None, LP!None, LimitsOf!NoWin, LP!NoWin, LimitsOf!PeerTarget, LP!PeerTarget,
   LimitsOf!PeerWindow, LP!PeerWindow, LimitsOf!PeerArrives, LP!PeerArrives

LEMMA ProbedSame ==
    ASSUME NEW u, NEW a
    PROVE  /\ LimitsOf!SaveAccts([u EXCEPT !.slots = LimitsOf!With(@, a, [LimitsOf!SlotFor(u, a) EXCEPT !.wins = probing])])
              = LP!SaveAccts([u EXCEPT !.slots = LP!With(@, a, [LP!SlotFor(u, a) EXCEPT !.wins = probing])])
           /\ LimitsOf!SaveAccts([u EXCEPT !.wins = probing, !.winsOf = a])
              = LP!SaveAccts([u EXCEPT !.wins = probing, !.winsOf = a])
<1>1. LimitsOf!SlotFor(u, a) = LP!SlotFor(u, a)
  BY SlotsSame
<1>2. LimitsOf!With(u.slots, a, [LP!SlotFor(u, a) EXCEPT !.wins = probing])
      = LP!With(u.slots, a, [LP!SlotFor(u, a) EXCEPT !.wins = probing])
  BY WithSame
<1> QED
  BY <1>1, <1>2, SlotsSame

LEMMA LimitsSame ==
    /\ LimitsOf!Init <=> LP!Init
    /\ LimitsOf!Next <=> LP!Next
    /\ LimitsOf!LimitsAreOwn <=> LP!LimitsAreOwn
<1>1. LimitsOf!Init <=> LP!Init
  BY BootSame DEF LimitsOf!None, LP!None, LimitsOf!Logins, LP!Logins, LimitsOf!Tok, LP!Tok, LimitsOf!Accounts, LP!Accounts,
     LimitsOf!Panes, LP!Panes, LimitsOf!NoWin, LP!NoWin, LimitsOf!NoFigures, LP!NoFigures, LimitsOf!Init, LP!Init
<1>2. LimitsOf!Check <=> LP!Check
  BY ApplyAccountSame, SyncShownSame DEF LimitsOf!Tok, LP!Tok, LimitsOf!NoWin, LP!NoWin, LimitsOf!ResetOf, LP!ResetOf,
     LimitsOf!True, LP!True, LimitsOf!Spend, LP!Spend, LimitsOf!Check, LP!Check
<1>3. LimitsOf!Toggle <=> LP!Toggle
  BY SyncShownSame DEF LimitsOf!Spend, LP!Spend, LimitsOf!Toggle, LP!Toggle
<1>4. LimitsOf!Probe <=> LP!Probe
  BY DEF LimitsOf!None, LP!None, LimitsOf!None, LP!None, LimitsOf!Spend, LP!Spend, LimitsOf!Probe, LP!Probe
<1>5. LimitsOf!ProbeAnswer <=> LP!ProbeAnswer
  BY ProbedSame, NoteSame DEF LimitsOf!None, LP!None, LimitsOf!None, LP!None, LimitsOf!ProbeAnswer, LP!ProbeAnswer
<1>6. LimitsOf!Restart <=> LP!Restart
  BY BootSame DEF LimitsOf!None, LP!None, LimitsOf!Panes, LP!Panes, LimitsOf!NoWin, LP!NoWin, LimitsOf!NoFigures,
     LP!NoFigures, LimitsOf!None, LP!None, LimitsOf!Panes, LP!Panes, LimitsOf!NoFigures, LP!NoFigures, LimitsOf!Spend,
     LP!Spend, LimitsOf!Restart, LP!Restart
<1>7. LimitsOf!Next <=> LP!Next
  BY <1>2, <1>3, <1>4, <1>5, <1>6, StatuslineSame, LimitStepsSame, PeerArrivesSame DEF LimitsOf!Logins, LP!Logins,
     LimitsOf!Panes, LP!Panes, LimitsOf!Next, LP!Next
<1>8. LimitsOf!LimitsAreOwn <=> LP!LimitsAreOwn
  BY SlotsSame DEF LimitsOf!None, LP!None, LimitsOf!NoWin, LP!NoWin, LimitsOf!ResetOf, LP!ResetOf, LimitsOf!Had, LP!Had,
     LimitsOf!OwnFigures, LP!OwnFigures, LimitsOf!OwnEntry, LP!OwnEntry, LimitsOf!LimitsAreOwn, LP!LimitsAreOwn
<1> QED
  BY <1>1, <1>2, <1>3, <1>4, <1>5, <1>6, <1>7, <1>8

LEMMA KeptReadingsSame ==
    ASSUME NEW os, NEW p, NEW v
    PROVE  SpendOf!Kept(os, p, v) = LP!Ledger!Kept(os, p, v)
BY DEF SpendOf!Kept, LP!Ledger!Kept, SpendOf!Cardinality, LP!Ledger!Cardinality, SpendOf!IsFiniteSet,
   LP!Ledger!IsFiniteSet

LEMMA ReportSame ==
    ASSUME NEW p, NEW dueNow
    PROVE  SpendOf!Report(p, dueNow) <=> LP!Ledger!Report(p, dueNow)
BY KeptReadingsSame DEF SpendOf!Prev, LP!Ledger!Prev, SpendOf!Baseline, LP!Ledger!Baseline, SpendOf!Delta,
   LP!Ledger!Delta, SpendOf!Report, LP!Ledger!Report

LEMMA SpendStepsSame ==
    ASSUME NEW p, NEW c
    PROVE  /\ SpendOf!Midnight <=> LP!Ledger!Midnight
           /\ SpendOf!Costs(p) <=> LP!Ledger!Costs(p)
           /\ SpendOf!Falls(p) <=> LP!Ledger!Falls(p)
           /\ SpendOf!Resume(p, c) <=> LP!Ledger!Resume(p, c)
BY DEF SpendOf!Act, LP!Ledger!Act, SpendOf!books, LP!Ledger!books, SpendOf!Midnight, LP!Ledger!Midnight,
   SpendOf!Costs, LP!Ledger!Costs, SpendOf!Falls, LP!Ledger!Falls, SpendOf!Resume, LP!Ledger!Resume

LEMMA RestartsSame ==
    ASSUME NEW quitting, NEW reloading
    PROVE  SpendOf!Restart(quitting, reloading) <=> LP!Ledger!Restart(quitting, reloading)
BY DEF SpendOf!Act, LP!Ledger!Act, SpendOf!Restart, LP!Ledger!Restart

LEMMA SpendSame ==
    /\ SpendOf!Init <=> LP!Ledger!Init
    /\ SpendOf!Next <=> LP!Ledger!Next
    /\ SpendOf!SpendBookedOnce <=> LP!Ledger!SpendBookedOnce
BY ReportSame, SpendStepsSame, RestartsSame DEF SpendOf!Unmet, LP!Ledger!Unmet, SpendOf!Init, LP!Ledger!Init,
   SpendOf!Next, LP!Ledger!Next, SpendOf!SpendBookedOnce, LP!Ledger!SpendBookedOnce

LEMMA TotalSame ==
    ASSUME NEW f
    PROVE  MeterOf!Total(f) = LP!Meter!Total(f)
BY DEF MeterOf!Total, LP!Meter!Total, MeterOf!FoldSet, LP!Meter!FoldSet, MeterOf!MapThenFoldSet,
   LP!Meter!MapThenFoldSet

LEMMA SplitsSame ==
    ASSUME NEW w, NEW d, NEW e
    PROVE  MeterOf!Splits(w, d, e) = LP!Meter!Splits(w, d, e)
BY TotalSame DEF MeterOf!Zero, LP!Meter!Zero, MeterOf!Splits, LP!Meter!Splits

LEMMA AddIoSame ==
    ASSUME NEW dueNow
    PROVE  MeterOf!AddIo(dueNow) <=> LP!Meter!AddIo(dueNow)
BY SplitsSame DEF MeterOf!Act, LP!Meter!Act, MeterOf!Less, LP!Meter!Less, MeterOf!Lesser, LP!Meter!Lesser,
   MeterOf!Room, LP!Meter!Room, MeterOf!AddIo, LP!Meter!AddIo

LEMMA MeterStepsSame ==
    ASSUME NEW b, NEW c
    PROVE  /\ MeterOf!Writes <=> LP!Meter!Writes
           /\ MeterOf!Midnight <=> LP!Meter!Midnight
           /\ MeterOf!Installed(b) <=> LP!Meter!Installed(b)
           /\ MeterOf!Restart(b, c) <=> LP!Meter!Restart(b, c)
BY TotalSame DEF MeterOf!Act, LP!Meter!Act, MeterOf!Writes, LP!Meter!Writes, MeterOf!Midnight, LP!Meter!Midnight,
   MeterOf!Installed, LP!Meter!Installed, MeterOf!Restart, LP!Meter!Restart

LEMMA MeterSame ==
    /\ MeterOf!Init <=> LP!Meter!Init
    /\ MeterOf!Next <=> LP!Meter!Next
    /\ MeterOf!MeterBalances <=> LP!Meter!MeterBalances
BY TotalSame, AddIoSame, MeterStepsSame DEF MeterOf!Zero, LP!Meter!Zero, MeterOf!Init, LP!Meter!Init, MeterOf!Next,
   LP!Meter!Next, MeterOf!MeterBalances, LP!Meter!MeterBalances

-----------------------------------------------------------------------------
(* A part takes its own steps and no others.                                *)

LEMMA PartsRun ==
    ASSUME [Next]_vars
    PROVE  /\ [MemoryOf!Next]_memoryVars
           /\ [ClaimsOf!Next]_claimsVars
           /\ [RosterOf!Next]_rosterVars
           /\ [HandoffOf!Next]_handoffVars
           /\ [LifecycleOf!Next]_lifecycleVars
           /\ [AdoptionOf!Next]_adoptionVars
           /\ [CleanupOf!Next]_cleanupVars
           /\ [DashboardOf!Next]_dashboardVars
           /\ [WtDialogOf!Next]_wtdialogVars
           /\ [SpendOf!Next]_spendVars
           /\ [MeterOf!Next]_meterVars
           /\ [PresenceOf!Next]_presenceVars
           /\ [ServersOf!Next]_serversVars
           /\ [ReviewOf!Next]_reviewVars
           /\ [LimitsOf!Next]_limitsVars
           /\ [GraphOf!Next]_graphVars
           /\ [NoticesOf!Next]_noticesVars
           /\ [SupervisorOf!Next]_supervisorVars
           /\ [AwakeOf!Next]_awakeVars
           /\ [DiffOf!Next]_diffVars
<1>1. [MemoryOf!Next]_memoryVars
  BY DEF Next, Resting, vars, memoryVars
<1>2. [ClaimsOf!Next]_claimsVars
  BY DEF Next, Resting, vars, claimsVars
<1>3. [RosterOf!Next]_rosterVars
  BY DEF Next, Resting, vars, rosterVars
<1>4. [HandoffOf!Next]_handoffVars
  BY DEF Next, Resting, vars, handoffVars
<1>5. [LifecycleOf!Next]_lifecycleVars
  BY DEF Next, Resting, vars, lifecycleVars
<1>6. [AdoptionOf!Next]_adoptionVars
  BY DEF Next, Resting, vars, adoptionVars
<1>7. [CleanupOf!Next]_cleanupVars
  BY DEF Next, Resting, vars, cleanupVars
<1>8. [DashboardOf!Next]_dashboardVars
  BY DEF Next, Resting, vars, dashboardVars
<1>9. [WtDialogOf!Next]_wtdialogVars
  BY DEF Next, Resting, vars, wtdialogVars
<1>10. [SpendOf!Next]_spendVars
  BY DEF Next, Resting, vars, spendVars
<1>11. [MeterOf!Next]_meterVars
  BY DEF Next, Resting, vars, meterVars
<1>12. [PresenceOf!Next]_presenceVars
  BY DEF Next, Resting, vars, presenceVars
<1>13. [ServersOf!Next]_serversVars
  BY DEF Next, Resting, vars, serversVars
<1>14. [ReviewOf!Next]_reviewVars
  BY DEF Next, Resting, vars, reviewVars
<1>15. [LimitsOf!Next]_limitsVars
  BY DEF Next, Resting, vars, limitsVars
<1>16. [GraphOf!Next]_graphVars
  BY DEF Next, Resting, vars, graphVars
<1>17. [NoticesOf!Next]_noticesVars
  BY DEF Next, Resting, vars, noticesVars
<1>18. [SupervisorOf!Next]_supervisorVars
  BY DEF Next, Resting, vars, supervisorVars
<1>19. [AwakeOf!Next]_awakeVars
  BY DEF Next, Resting, vars, awakeVars
<1>20. [DiffOf!Next]_diffVars
  BY DEF Next, Resting, vars, diffVars
<1> QED
  BY <1>1, <1>2, <1>3, <1>4, <1>5, <1>6, <1>7, <1>8, <1>9, <1>10, <1>11, <1>12, <1>13, <1>14, <1>15, <1>16, <1>17, <1>18,
   <1>19, <1>20

-----------------------------------------------------------------------------
(* The theorems.                                                            *)

\* A machine the cockpit counts as caught up with the memory stream has had, and still has or has
\* written, everything it passed: memReplaying and memLetGo keep what drainMem and applyMem took.
THEOREM CaughtUpHadAll == Spec => []CaughtMeansHad
<1>1. W!Remembering
  BY CockpitAssumption DEF W!Remembering, IsFiniteSet, W!IsFiniteSet
<1>2. Init => W!Mem!Init
  BY MemorySame DEF Init
<1>3. [Next]_vars => [W!Mem!Next]_(W!Mem!mvars)
  BY PartsRun, MemorySame DEF memoryVars, W!Mem!mvars
<1>4. W!Mem!Spec => []W!Mem!CaughtMeansHad
  BY <1>1, W!CaughtUpHadAll
<1>5. W!Mem!CaughtMeansHad => CaughtMeansHad
  BY MemorySame DEF CaughtMeansHad
<1> QED
  BY <1>2, <1>3, <1>4, <1>5, PTL DEF Spec, W!Mem!Spec

\* No machine counts on a claim for longer than LEASE after its session was last there: renewLeases
\* stops with the session, and a lease already on its way was stamped by then.
THEOREM DeadClaimsLapse == Spec => []DeadLeasesLapse
<1>1. W!Leasing
  BY CockpitAssumption DEF W!Leasing
<1>2. Init => W!Issue!Init
  BY ClaimsSame DEF Init
<1>3. [Next]_vars => [W!Issue!Next]_(W!Issue!cvars)
  BY PartsRun, ClaimsSame DEF claimsVars, W!Issue!cvars
<1>4. W!Issue!Spec => []W!Issue!DeadLeasesLapse
  BY <1>1, W!DeadClaimsLapse
<1>5. W!Issue!DeadLeasesLapse => DeadLeasesLapse
  BY ClaimsSame DEF DeadLeasesLapse
<1> QED
  BY <1>2, <1>3, <1>4, <1>5, PTL DEF Spec, W!Issue!Spec

\* Once the server hands a conversation over, the sender does not carry it on unasked; and what it
\* archived the taker has, unless the server forgot it first (onState, settle, complete in handoff.ts).
THEOREM HandedOverOnceHolds == Spec => []HandedOverOnce
<1>1. HP!BudgetsTyped
  BY CockpitAssumption DEF HP!BudgetsTyped, HandoffBudget, HP!Purse
<1>2. Init => HP!Init
  BY HandoffSame DEF Init
<1>3. [Next]_vars => [HP!Next]_(HP!hvars)
  BY PartsRun, HandoffSame DEF handoffVars, HP!hvars
<1>4. HP!Spec => []HP!OneHolder
  BY <1>1, HP!CarriedOnOnce
<1>5. HP!Spec => []HP!SomebodyHolds
  BY <1>1, HP!ArchivedIsHad
<1>6. HP!OneHolder /\ HP!SomebodyHolds => HandedOverOnce
  BY HandoffSame DEF HandedOverOnce
<1> QED
  BY <1>2, <1>3, <1>4, <1>5, <1>6, PTL DEF Spec, HP!Spec

\* Once everything emitted is heard, an adopted pane says its process is gone, and a background shell
\* counts as ended in success only on its own sentinel (adoptPane, pollLogs, reconcilePorts).
THEOREM EndIsKnownHolds == Spec => []EndIsKnown
<1>1. Init => W!Pane!Init
  BY AdoptionSame DEF Init
<1>2. [Next]_vars => [W!Pane!Next]_(W!Pane!avars)
  BY PartsRun, AdoptionSame DEF adoptionVars, W!Pane!avars
<1>3. W!Pane!Spec => []W!Pane!EndIsKnown
  BY W!ExitIsSaid
<1>4. HP!Shelled
  BY CockpitAssumption DEF HP!Shelled
<1>5. Init => HP!Bg!Init
  BY ServersSame DEF Init
<1>6. [Next]_vars => [HP!Bg!Next]_(HP!Bg!svvars)
  BY PartsRun, ServersSame DEF serversVars, HP!Bg!svvars
<1>7. HP!Bg!Spec => []HP!Bg!EndsAreEarned
  BY <1>4, HP!EndsEarnedAlways
<1>8. W!Pane!EndIsKnown /\ HP!Bg!EndsAreEarned => EndIsKnown
  BY AdoptionSame, ServersSame DEF EndIsKnown
<1> QED
  BY <1>1, <1>2, <1>3, <1>5, <1>6, <1>7, <1>8, PTL DEF Spec, W!Pane!Spec, HP!Bg!Spec

\* What the cursor on disk stands for has been applied here, and the status shown is of the connection
\* that is left: supervise, sync_ack, sync_pair and restart, with Calm.
THEOREM CursorStaysTrue == Spec => []SyncStaysTrue
<1>1. W!Ordered
  BY CockpitAssumption DEF W!Ordered
<1>2. Init => W!Init
  BY SupervisorSame DEF Init
<1>3. [Next]_vars => [W!Next]_(W!spvars)
  BY PartsRun, SupervisorSame DEF supervisorVars, W!spvars
<1>4. W!Spec => []W!CursorIsEarned
  BY <1>1, W!CursorEarned
<1>5. W!Spec => []W!StatusIsTrue
  BY <1>1, W!StatusShown
<1>6. W!CursorIsEarned /\ W!StatusIsTrue => SyncStaysTrue
  BY SupervisorSame DEF SyncStaysTrue, W!SyncStaysTrue
<1> QED
  BY <1>2, <1>3, <1>4, <1>5, <1>6, PTL DEF Spec, W!Spec

\* Once every command has run and been answered, the machine is held awake by the flags the button
\* shows (reconcileCaf, set_caffeinate), also when spawns fail, with Calm.
THEOREM AwakeIsTrueHolds == Spec => []AwakeIsTrue
<1>1. W!Timed
  BY CockpitAssumption DEF W!Timed
<1>2. Init => W!Awake!Init
  BY AwakeSame DEF Init
<1>3. [Next]_vars => [W!Awake!Next]_(W!Awake!kavars)
  BY PartsRun, AwakeSame DEF awakeVars, W!Awake!kavars
<1>4. W!Awake!Spec => []W!Awake!AwakeIsTrue
  BY <1>1, W!HeldAsShown
<1>5. W!Awake!AwakeIsTrue => AwakeIsTrue
  BY AwakeSame DEF AwakeIsTrue
<1> QED
  BY <1>2, <1>3, <1>4, <1>5, PTL DEF Spec, W!Awake!Spec

\* No arrival takes the place of a memory written here that the server has not had (drainMem,
\* memory_write), whatever pushes and acknowledgements are on their way.
THEOREM UnsentMemoriesSurvive == Spec => UnsentSurvives
<1>1. W!Remembering
  BY CockpitAssumption DEF W!Remembering, IsFiniteSet, W!IsFiniteSet
<1>2. Init => W!Mem!Init
  BY MemorySame DEF Init
<1>3. [Next]_vars => [W!Mem!Next]_(W!Mem!mvars)
  BY PartsRun, MemorySame DEF memoryVars, W!Mem!mvars
<1>4. W!Mem!Spec => W!Mem!UnsentSurvives
  BY <1>1, W!UnsentMemoriesSurvive
<1>5. [\A m \in Devices, k \in W!Mem!Keys :
          W!Mem!Write(m) /\ file'[m][k] # file[m][k] => file[m][k] \in W!Mem!Logged(m, k)]_(W!Mem!mvars)
      => [\A m \in Devices, k \in MemoryOf!Keys :
             MemoryOf!Write(m) /\ file'[m][k] # file[m][k] => file[m][k] \in MemoryOf!Logged(m, k)]_(MemoryOf!mvars)
  <2>1. MemoryOf!Keys = W!Mem!Keys /\ (\A m : MemoryOf!Write(m) <=> W!Mem!Write(m))
    BY WriteSame DEF MemoryOf!Keys, W!Mem!Keys
  <2>2. \A m, k : MemoryOf!Logged(m, k) = W!Mem!Logged(m, k)
    BY LoggedSame
  <2> QED
    BY <2>1, <2>2 DEF MemoryOf!mvars, W!Mem!mvars
<1> QED
  BY <1>2, <1>3, <1>4, <1>5, PTL DEF Spec, W!Mem!Spec, UnsentSurvives, MemoryOf!UnsentSurvives, W!Mem!UnsentSurvives

\* The worktree dialog shows rows of the repository it is about, and a read never puts older rows in
\* the place of newer ones (wtReadLocal, wtReadRemote), if the person waits for an act to end.
THEOREM RowsStayTrueHolds == Spec => RowsStayTrue
<1>2. Init => HP!Dlg!Init
  BY WtDialogSame DEF Init
<1>3. [Next]_vars => [HP!Dlg!Next]_(HP!Dlg!wtvars)
  BY PartsRun, WtDialogSame DEF wtdialogVars, HP!Dlg!wtvars
<1>4. HP!Dlg!Spec => HP!Dlg!RowsStayTrue
  BY CockpitAssumption, HP!RowsStayTrueHolds
<1> QED
  BY <1>2, <1>3, <1>4, PTL
  DEF Spec, HP!Dlg!Spec, RowsStayTrue, WtDialogOf!RowsStayTrue, HP!Dlg!RowsStayTrue, WtDialogOf!wtvars, HP!Dlg!wtvars

\* No clean-up takes what its evidence was not about (runClean, runSweep, removeWorktree), and no edit
\* under review is gone but on the word of who was shown it: what git is told to drop is on disk, in a
\* stash or in a commit, or was offered to whom it concerns (diffview.ts, git_discard, git_stash), with Calm.
THEOREM WorkKeptHolds == Spec => []WorkKept
<1>1. Init => W!Clean!Init
  BY CleanupSame DEF Init
<1>2. [Next]_vars => [W!Clean!Next]_(W!Clean!brvars)
  BY PartsRun, CleanupSame DEF cleanupVars, W!Clean!brvars, W!Clean!hub, W!Clean!refs, W!Clean!folder, W!Clean!screen, W!Clean!books
<1>3. W!Clean!Spec => []W!Clean!WorkKept
  BY W!CleanupKeepsWork
<1>4. HP!Calmly
  BY CockpitAssumption DEF HP!Calmly, IsFiniteSet, HP!IsFiniteSet
<1>5. Init => HP!Df!Init
  BY DiffSame DEF Init
<1>6. [Next]_vars => [HP!Df!Next]_(HP!Df!dvvars)
  BY PartsRun, DiffSame DEF diffVars, HP!Df!dvvars
<1>7. HP!Df!Spec => [](HP!Df!NothingElseIsLost /\ HP!Df!DraftsStay)
  BY <1>4, HP!DiffKeepsWork
<1>8. W!Clean!WorkKept /\ HP!Df!NothingElseIsLost /\ HP!Df!DraftsStay => WorkKept
  BY CleanupSame, DiffSame DEF WorkKept
<1> QED
  BY <1>1, <1>2, <1>3, <1>5, <1>6, <1>7, <1>8, PTL DEF Spec, W!Clean!Spec, HP!Df!Spec

\* The dashboard's stage and the review's page hold answers about what they are of, a skeleton that is up
\* comes down, and no remark of a review is lost (openDashboard, loadDash, reviewui.ts), if the stage stays
\* while something is written for its project and the review's person waits for a sending to end.
THEOREM StageIsItsOwnHolds == Spec => []StageIsItsOwn
<1>1. Init => HP!Db!Init
  BY DashboardSame DEF Init
<1>2. [Next]_vars => [HP!Db!Next]_(HP!Db!dvars)
  BY PartsRun, DashboardSame DEF dashboardVars, HP!Db!dvars
<1>3. HP!WritesWait
  BY CockpitAssumption DEF HP!WritesWait
<1>4. HP!Db!Spec => [](HP!Db!StageIsItsOwn /\ HP!Db!SummariesDone)
  BY <1>3, HP!DashboardIsItsOwn
<1>5. Init => HP!Rev!Init
  BY ReviewSame DEF Init
<1>6. [Next]_vars => [HP!Rev!Next]_(HP!Rev!rvvars)
  BY PartsRun, ReviewSame DEF reviewVars, HP!Rev!rvvars
<1>7. HP!Rev!Spec => []HP!Rev!ReviewIsItsOwn
  BY HP!ReviewsAreOwn
<1>8. HP!Db!StageIsItsOwn /\ HP!Rev!ReviewIsItsOwn => StageIsItsOwn
  BY DashboardSame, ReviewSame DEF StageIsItsOwn
<1> QED
  BY <1>1, <1>2, <1>4, <1>5, <1>6, <1>7, <1>8, PTL DEF Spec, HP!Db!Spec, HP!Rev!Spec

\* Once the queue is off, a project whose load is over has every line it would buy, or has asked for it and
\* come away with none: a request made while a pass runs is deferred (runSummaryQueue), a pass that finds
\* another project on the stage ends, and the one deferred serves the project that is there.
THEOREM SummariesDoneHolds == Spec => []SummariesDone
<1>1. Init => HP!Db!Init
  BY DashboardSame DEF Init
<1>2. [Next]_vars => [HP!Db!Next]_(HP!Db!dvars)
  BY PartsRun, DashboardSame DEF dashboardVars, HP!Db!dvars
<1>3. HP!WritesWait
  BY CockpitAssumption DEF HP!WritesWait
<1>4. HP!Db!Spec => [](HP!Db!StageIsItsOwn /\ HP!Db!SummariesDone)
  BY <1>3, HP!DashboardIsItsOwn
<1>5. HP!Db!SummariesDone => SummariesDone
  BY DashboardSame DEF SummariesDone
<1> QED
  BY <1>1, <1>2, <1>4, <1>5, PTL DEF Spec, HP!Db!Spec

\* What a window shows of the others is what the hub holds, and nobody stays present who is gone (Hub, serve.rs);
\* what it shows of a handoff is the record once all of it is said and heard, and a handoff that ended never comes up
\* again (fresh, applyInfo), however threads overtake each other, if the server's clock does not step back.
THEOREM PresenceIsTrueHolds == Spec => []PresenceIsTrue
<1>1. Init => W!Hub!Init
  BY PresenceSame DEF Init
<1>2. [Next]_vars => [W!Hub!Next]_(W!Hub!prvars)
  BY PartsRun, PresenceSame DEF presenceVars, W!Hub!prvars
<1>3. W!Wired
  BY CockpitAssumption DEF W!Wired, IsFiniteSet, W!IsFiniteSet
<1>4. W!Hub!Spec => []W!Hub!PresenceIsTrue
  BY <1>3, W!WhoIsHere
<1>5. Init => HP!Nt!Init
  BY NoticesSame DEF Init
<1>6. [Next]_vars => [HP!Nt!Next]_(HP!Nt!ntvars)
  BY PartsRun, NoticesSame DEF noticesVars, HP!Nt!ntvars
<1>7. HP!Forward
  BY CockpitAssumption DEF HP!Forward
<1>8. HP!Nt!Spec => []HP!Nt!NoticesAreTrue
  BY <1>7, HP!NoticesAreTrueHolds
<1>9. W!Hub!PresenceIsTrue /\ HP!Nt!NoticesAreTrue => PresenceIsTrue
  BY PresenceSame, NoticesSame DEF PresenceIsTrue
<1> QED
  BY <1>1, <1>2, <1>4, <1>5, <1>6, <1>8, <1>9, PTL DEF Spec, W!Hub!Spec, HP!Nt!Spec

\* A conversation nobody closed stays in reach, on a pane, on the shelf or in the roster, across closes, resumptions,
\* moves, reloads and quits; no two processes carry one on, and a row resumes where its transcript is (panes.ts,
\* mirror.ts, actions.ts), while the person waits for what is being started, stopped or read.
THEOREM ConversationKeptHolds == Spec => []ConversationKept
<1>1. Init => W!Life!Init
  BY LifecycleSame DEF Init
<1>2. [Next]_vars => [W!Life!Next]_(W!Life!lvars)
  BY PartsRun, LifecycleSame DEF lifecycleVars, W!Life!lvars
<1>3. W!Patient
  BY CockpitAssumption DEF W!Patient
<1>4. W!Life!Spec => [](W!Life!ConversationKept /\ W!Life!OneProcessEach /\ W!Life!RowsFindTranscripts)
  BY <1>3, W!ConversationsStay
<1>5. W!Life!ConversationKept /\ W!Life!OneProcessEach /\ W!Life!RowsFindTranscripts => ConversationKept
  BY LifecycleSame DEF ConversationKept
<1> QED
  BY <1>1, <1>2, <1>4, <1>5, PTL DEF Spec, W!Life!Spec

\* The figures shown and kept for an account are its own, whatever lagging panes, a `/login`, tokens, probes and other
\* machines report, and a window is logged once, when somebody watched it end (rl.ts, phase.ts applyStatusline).
THEOREM LimitsAreOwnHolds == Spec => []LimitsAreOwn
<1>1. Init => LP!Init
  BY LimitsSame DEF Init
<1>2. [Next]_vars => [LP!Next]_(LP!lmvars)
  BY PartsRun, LimitsSame DEF limitsVars, LP!lmvars
<1>3. LP!OneByOne
  BY CockpitAssumption DEF LP!OneByOne
<1>4. LP!Spec => []LP!LimitsAreOwn
  BY <1>3, LP!FiguresAreOwn
<1>5. LP!LimitsAreOwn => LimitsAreOwn
  BY LimitsSame DEF LimitsAreOwn
<1> QED
  BY <1>1, <1>2, <1>4, <1>5, PTL DEF Spec, LP!Spec

\* What is reported is booked once, whoever carries a conversation on and whenever the window stops (costDelta), and
\* the days' disk writes add up to what sessions wrote, less what updates did and what ended runs never booked (addIo),
\* while a conversation keeps every pane's reading, and the window is not reloaded under a live pane.
THEOREM BooksBalanceHolds == Spec => []BooksBalance
<1>1. Init => LP!Ledger!Init
  BY SpendSame DEF Init
<1>2. [Next]_vars => [LP!Ledger!Next]_(LP!Ledger!svars)
  BY PartsRun, SpendSame DEF spendVars, LP!Ledger!svars
<1>3. LP!Reckoned
  BY CockpitAssumption DEF LP!Reckoned, IsFiniteSet, LP!IsFiniteSet, Cardinality, LP!Cardinality
<1>4. LP!Ledger!Spec => []LP!Ledger!SpendBookedOnce
  BY <1>3, LP!BookedOnce
<1>5. Init => LP!Meter!Init
  BY MeterSame DEF Init
<1>6. [Next]_vars => [LP!Meter!Next]_(LP!Meter!dmvars)
  BY PartsRun, MeterSame DEF meterVars, LP!Meter!dmvars
<1>7. LP!Metered
  BY CockpitAssumption DEF LP!Metered, IsFiniteSet, LP!IsFiniteSet
<1>8. LP!Meter!Spec => []LP!Meter!MeterBalances
  BY <1>7, LP!DaysAddUp
<1>9. LP!Ledger!SpendBookedOnce /\ LP!Meter!MeterBalances => BooksBalance
  BY SpendSame, MeterSame DEF BooksBalance
<1> QED
  BY <1>1, <1>2, <1>4, <1>5, <1>6, <1>8, <1>9, PTL DEF Spec, LP!Ledger!Spec, LP!Meter!Spec

\* A terminal adopted after a reload shows each chunk of output once and in order (adoptSession), if the answer does not
\* overtake a chunk it holds.
THEOREM ShownOnceHolds == Spec => []ShownOnce
<1>1. Init => W!Pane!Init
  BY AdoptionSame DEF Init
<1>2. [Next]_vars => [W!Pane!Next]_(W!Pane!avars)
  BY PartsRun, AdoptionSame DEF adoptionVars, W!Pane!avars
<1>3. W!Pane!Spec => []W!Pane!ShownOnce
  BY W!EachChunkOnce
<1>4. W!Pane!ShownOnce => ShownOnce
  BY AdoptionSame DEF ShownOnce
<1> QED
  BY <1>1, <1>2, <1>3, <1>4, PTL DEF Spec, W!Pane!Spec

\* No machine sends the absence of a project it cannot see, and an id that resolves sends no entry the
\* wire has already (mergeWire, rosterEdited, resolveIds).
THEOREM CarriedThroughHolds == Spec => CarriedThrough
<1>1. Init => LP!Ros!Init
  BY RosterSame DEF Init
<1>2. [Next]_vars => [LP!Ros!Next]_(LP!Ros!rvars)
  BY PartsRun, RosterSame DEF rosterVars, LP!Ros!rvars
<1>3. LP!Ros!Spec => LP!Ros!CarriedThrough
  BY LP!UnseenIsCarried
<1>4. [/\ arrivals' = arrivals =>
           /\ wfavs \ ids' \subseteq wfavs'
           /\ (LP!Ros!ToSet(worder) \subseteq LP!Ros!ToSet(worder') =>
                 \A k \in DOMAIN worder : worder[k] \notin ids' => worder'[k] = worder[k])
           /\ LP!Ros!ToSet(worder) \ ids' \subseteq LP!Ros!ToSet(worder')
       /\ ids' # ids => owedReveal' \cap LP!Ros!InWire \subseteq owedReveal]_(LP!Ros!rvars)
      => [/\ arrivals' = arrivals =>
              /\ wfavs \ ids' \subseteq wfavs'
              /\ (RosterOf!ToSet(worder) \subseteq RosterOf!ToSet(worder') =>
                    \A k \in DOMAIN worder : worder[k] \notin ids' => worder'[k] = worder[k])
              /\ RosterOf!ToSet(worder) \ ids' \subseteq RosterOf!ToSet(worder')
          /\ ids' # ids => owedReveal' \cap RosterOf!InWire \subseteq owedReveal]_(RosterOf!rvars)
  BY DEF RosterOf!ToSet, LP!Ros!ToSet, RosterOf!InWire, LP!Ros!InWire, RosterOf!rvars, LP!Ros!rvars
<1> QED
  BY <1>1, <1>2, <1>3, <1>4, PTL
  DEF Spec, LP!Ros!Spec, CarriedThrough, RosterOf!CarriedThrough, LP!Ros!CarriedThrough

===============================================================================
