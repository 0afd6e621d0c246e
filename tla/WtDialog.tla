------------------------------- MODULE WtDialog -------------------------------
(***************************************************************************)
(* The worktree dialog (worktree.ts): one element that opens on any        *)
(* repository, reads it with git in the background, fetches behind the     *)
(* rows, and creates, switches and removes checkouts from them.            *)
(***************************************************************************)
EXTENDS Naturals

CONSTANTS
    Repos, Nowhere,
    Hurried,    \* whether the dialog is closed, or opened elsewhere, while git still works for it
    Acts        \* bound: clicks, and what agents change in a repository

VARIABLES
    ver, head,      \* git's side, per repository: how often it changed, and how often HEAD moved
    ctx, gen,       \* wtCtx's repository, wtGen
    rows,           \* wtWts, wtBranches, wtRemotes: whose they are and of which version
    repoBranch,     \* wtRepoBranch: whose HEAD, and which
    last,           \* wtLast: per repository, the rows and the HEAD of the last answer
    reads,          \* list_worktrees and its two companions, in flight
    fetching, fetched, fetches,     \* wtFetching, wtFetchedAt > 0, and git_action fetches in flight
    busy, op,       \* wtBusy, and the verb in flight
    acts
wtvars == <<ver, head, ctx, gen, rows, repoBranch, last, reads, fetching, fetched, fetches, busy, op, acts>>
git == <<ver, head>>

NoRows == [repo |-> Nowhere, ver |-> 0]
NoOp == [verb |-> "none", repo |-> Nowhere]

Init ==
    /\ ver = [r \in Repos |-> 0] /\ head = [r \in Repos |-> 0]
    /\ ctx = Nowhere /\ gen = 0 /\ rows = NoRows /\ repoBranch = <<Nowhere, 0>>
    /\ last = [r \in Repos |-> [rows |-> NoRows, head |-> <<Nowhere, 0>>]]
    /\ reads = {} /\ fetching = Nowhere /\ fetched = FALSE /\ fetches = [r \in Repos |-> 0]
    /\ busy = FALSE /\ op = NoOp /\ acts = 0

Act == acts < Acts /\ acts' = acts + 1
Still == Hurried \/ op = NoOp

\* `wtReadLocal` up to git's answers: `load` is wtLoad, which fetches when they have come.
Read(load) ==
    /\ gen' = gen + 1
    /\ reads' = reads \cup {[gen |-> gen + 1, repo |-> ctx', load |-> load, answered |-> FALSE, ver |-> 0, head |-> 0]}
Shut ==
    /\ ctx' = Nowhere /\ gen' = gen + 1 /\ UNCHANGED <<rows, repoBranch, reads>>

\* Another repository's rows never stand in: its own last ones do, or none.
OpenWt(r, known) ==
    /\ Act /\ Still /\ ctx' = r /\ Read(TRUE)
    /\ rows' = last[r].rows /\ repoBranch' = IF known THEN <<r, head[r]>> ELSE last[r].head
    /\ fetched' = FALSE /\ busy' = FALSE
    /\ UNCHANGED <<git, last, fetching, fetches, op>>
CloseWt ==
    /\ Act /\ Still /\ ctx # Nowhere /\ Shut
    /\ UNCHANGED <<git, last, fetching, fetched, fetches, busy, op>>
\* `refreshWtDialog`, the refresh button, and the window's focus.
RefreshWtDialog(load) ==
    /\ Act /\ ctx # Nowhere /\ ctx' = ctx /\ Read(load)
    /\ UNCHANGED <<git, rows, repoBranch, last, fetching, fetched, fetches, busy, op>>

\* `wtMaybeFetch` up to its await.
MaybeFetch ==
    IF ctx = Nowhere \/ fetching = ctx \/ fetched THEN UNCHANGED <<fetching, fetches>>
    ELSE fetching' = ctx /\ fetches' = [fetches EXCEPT ![ctx] = @ + 1]

Answer(q) ==
    [gen |-> q.gen, repo |-> q.repo, load |-> q.load, answered |-> TRUE, ver |-> ver[q.repo], head |-> head[q.repo]]
Answered(q) ==
    /\ ~ q.answered /\ reads' = (reads \ {q}) \cup {Answer(q)}
    /\ UNCHANGED <<git, ctx, gen, rows, repoBranch, last, fetching, fetched, fetches, busy, op, acts>>
\* An answer lands unless a later read was asked for.  The variant looks at the repository alone.
LandsHere(q) == ctx = q.repo
Lands(q) == q.gen = gen /\ ctx = q.repo
Land(q) ==
    /\ q.answered /\ reads' = reads \ {q}
    /\ IF ~ Lands(q) THEN UNCHANGED <<rows, repoBranch, last>>
       ELSE /\ rows' = [repo |-> q.repo, ver |-> q.ver] /\ repoBranch' = <<q.repo, q.head>>
            /\ last' = [last EXCEPT ![q.repo] = [rows |-> rows', head |-> repoBranch']]
    /\ IF q.load THEN MaybeFetch ELSE UNCHANGED <<fetching, fetches>>
    /\ UNCHANGED <<git, ctx, gen, fetched, busy, op, acts>>

\* A fetch moves refs/remotes, or fails; what it says of another project's is left alone.
Fetched(r, ok) ==
    /\ fetches[r] > 0 /\ fetches' = [fetches EXCEPT ![r] = @ - 1]
    /\ ver' = (IF ok THEN [ver EXCEPT ![r] = @ + 1] ELSE ver)
    /\ fetching' = IF fetching = r THEN Nowhere ELSE fetching
    /\ ctx' = ctx
    /\ IF ctx = r THEN fetched' = TRUE /\ Read(FALSE) ELSE UNCHANGED <<fetched, gen, reads>>
    /\ UNCHANGED <<head, rows, repoBranch, last, busy, op, acts>>

\* An agent commits, or moves HEAD.
Changes(r, moves) ==
    /\ Act /\ ver' = [ver EXCEPT ![r] = @ + 1] /\ head' = IF moves THEN [head EXCEPT ![r] = @ + 1] ELSE head
    /\ UNCHANGED <<ctx, gen, rows, repoBranch, last, reads, fetching, fetched, fetches, busy, op>>

\* `wtCreate`, `wtDoSwitch` and `switchCheckout`, `wtDoRemove`, `wtDeleteBranch`.
Start(verb) ==
    /\ Act /\ ctx # Nowhere /\ rows.repo = ctx /\ ~ busy /\ op = NoOp
    /\ busy' = TRUE /\ op' = [verb |-> verb, repo |-> ctx]
    /\ UNCHANGED <<git, ctx, gen, rows, repoBranch, last, reads, fetching, fetched, fetches>>
\* Git did it: a created checkout is launched and the dialog closed, the others read again.  What is shown
\* is taken to be what was asked about.
Did ==
    LET r == op.repo IN
    /\ op # NoOp /\ ver' = [ver EXCEPT ![r] = @ + 1] /\ op' = NoOp /\ busy' = FALSE
    /\ head' = IF op.verb = "switch" THEN [head EXCEPT ![r] = @ + 1] ELSE head
    /\ IF op.verb = "create" THEN Shut
       ELSE /\ ctx' = ctx /\ rows' = rows
            /\ repoBranch' = IF op.verb = "switch" THEN <<r, head'[r]>> ELSE repoBranch
            /\ IF ctx = Nowhere THEN UNCHANGED <<gen, reads>> ELSE Read(TRUE)
    /\ UNCHANGED <<last, fetching, fetched, fetches, acts>>
\* It refused: a switch or a removal is handed to a terminal and the dialog closes.
Refused ==
    /\ op # NoOp /\ op' = NoOp /\ busy' = FALSE
    /\ IF op.verb = "create" THEN UNCHANGED <<ctx, gen, rows, repoBranch, reads>> ELSE Shut
    /\ UNCHANGED <<git, last, fetching, fetched, fetches, acts>>

Next ==
    \/ CloseWt \/ Did \/ Refused
    \/ \E b \in BOOLEAN : RefreshWtDialog(b) \/ \E r \in Repos : OpenWt(r, b) \/ Changes(r, b) \/ Fetched(r, b)
    \/ \E q \in reads : Answered(q) \/ Land(q)
    \/ \E verb \in {"create", "switch", "remove"} : Start(verb)
Spec == Init /\ [][Next]_wtvars

-----------------------------------------------------------------------------
\* "another repo's rows must never stand in for this one's while git is asked" (wtLast), nor an older
\* answer for a newer one (wtGen): what is shown is this repository's, and while the dialog stays on it
\* the rows only get newer.
RowsStayTrue == [][
    ctx' # Nowhere =>
        /\ rows'.repo \in {Nowhere, ctx'} /\ repoBranch'[1] \in {Nowhere, ctx'}
        /\ (ctx' = ctx /\ rows.repo = ctx => rows'.repo = ctx /\ rows'.ver >= rows.ver)]_wtvars
=============================================================================
