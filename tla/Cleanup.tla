------------------------------ MODULE Cleanup ------------------------------
(***************************************************************************)
(* Deleting branches and checkouts: the Branches view (branches.ts,        *)
(* dashboard.ts), the ⑃ dialog and menu (worktree.ts), and the deleters of *)
(* git.rs.  One branch, at most one worktree for it, and the trunk, which  *)
(* the repository's own folder sits on.                                    *)
(*                                                                         *)
(* A ref is the set of commits it contains, with the base 0; {} is no ref. *)
(***************************************************************************)
EXTENDS Naturals, FiniteSets

CONSTANTS
    Commits,    \* bound: how many commits are ever made
    Acts,       \* bound: what else agents, people and the remote do
    Jobs        \* bound: how many clean-ups and removals are started

VARIABLES
    trunk, remote,      \* on the remote, and as the last fetch left them:
    seenTrunk, seen,
    shipped,            \* what a squash put on the trunk under another sha
    pr,                 \* a pull request of this branch's name was merged
    local, tracked,     \* the branch here, and whether it has an upstream
    tree,               \* its worktree: at "branch", "detached" or "gone", and HEAD when detached
    dirty, open,        \* uncommitted changes, and a session, in it
    view, prs,          \* branchData, and branchPrs: "unread", "merged" or "none"
    job,                \* the clean-up or removal that runs
    made, acts, jobs,   \* commits, what else was done, and clean-ups so far
    lost, excused       \* history: what deleting left nowhere, and what of it its evidence did not cover
brvars == <<trunk, remote, seenTrunk, seen, shipped, pr, local, tracked, tree, dirty, open,
            view, prs, job, made, acts, jobs, lost, excused>>
hub == <<trunk, remote, shipped, pr>>
refs == <<seen, seenTrunk, local, tracked>>
folder == <<tree, dirty, open>>
screen == <<view, prs, job>>
books == <<lost, excused>>

Base == {0}
NoTree == [at |-> "gone", head |-> {}]
NoView == [local |-> {}]
Idle == [at |-> "no"]

Init ==
    /\ trunk = Base /\ seenTrunk = Base /\ remote = {} /\ seen = {} /\ shipped = {} /\ pr = FALSE
    /\ local = Base /\ tracked = FALSE /\ tree = [at |-> "branch", head |-> {}] /\ dirty = FALSE /\ open = FALSE
    /\ view = NoView /\ prs = "unread" /\ job = Idle
    /\ made = 0 /\ acts = 0 /\ jobs = 0 /\ lost = {} /\ excused = {}

-----------------------------------------------------------------------------
(* Agents, people and GitHub.                                               *)

Act == acts < Acts /\ acts' = acts + 1
Start == jobs < Jobs /\ jobs' = jobs + 1

Edit ==
    /\ Act
    /\ tree.at # "gone" /\ ~ dirty /\ dirty' = TRUE
    /\ UNCHANGED <<hub, refs, screen, books, tree, open, made, jobs>>
Commit ==
    /\ dirty /\ made < Commits /\ made' = made + 1 /\ dirty' = FALSE
    /\ IF tree.at = "branch"
       THEN /\ local' = local \cup {made'} /\ UNCHANGED tree
       ELSE tree' = [tree EXCEPT !.head = @ \cup {made'}] /\ UNCHANGED local
    /\ UNCHANGED <<hub, screen, books, seenTrunk, seen, tracked, open, acts, jobs>>
Detach ==
    /\ Act
    /\ tree.at = "branch" /\ tree' = [at |-> "detached", head |-> local]
    /\ UNCHANGED <<hub, refs, screen, books, dirty, open, made, jobs>>
Session ==
    /\ Act
    /\ tree.at # "gone" /\ open' = ~ open
    /\ UNCHANGED <<hub, refs, screen, books, tree, dirty, made, jobs>>
Push ==
    /\ Act
    /\ local # {} /\ local # remote /\ remote \subseteq local
    /\ remote' = local /\ seen' = local /\ tracked' = TRUE
    /\ UNCHANGED <<folder, screen, books, trunk, seenTrunk, shipped, pr, local, made, jobs>>
OthersPush ==
    /\ remote # {} /\ made < Commits /\ made' = made + 1
    /\ remote' = remote \cup {made'}
    /\ UNCHANGED <<refs, folder, screen, books, trunk, shipped, pr, acts, jobs>>
MergePr ==
    /\ Act
    /\ remote \ Base # {} /\ ~ pr /\ pr' = TRUE
    /\ \/ trunk' = trunk \cup remote /\ UNCHANGED shipped
       \/ shipped' = shipped \cup remote /\ UNCHANGED trunk
    /\ remote' \in {remote, {}}
    /\ UNCHANGED <<refs, folder, screen, books, made, jobs>>
OthersDelete ==
    /\ Act
    /\ remote # {} /\ remote' = {}
    /\ UNCHANGED <<refs, folder, screen, books, trunk, shipped, pr, made, jobs>>
\* git_action "fetch", which prunes.

Fetch ==
    /\ Act
    /\ <<seen, seenTrunk>> # <<remote, trunk>> /\ seen' = remote /\ seenTrunk' = trunk
    /\ UNCHANGED <<hub, folder, screen, books, local, tracked, made, jobs>>

-----------------------------------------------------------------------------
(* What the view reads, and what its rows offer.                            *)

Read == [local |-> local, seen |-> seen, trunk |-> seenTrunk, tracked |-> tracked, tree |-> tree, dirty |-> dirty]
\* `loadBranches`: git's answers, then GitHub's, which is asked for once.
LoadBranches ==
    /\ job = Idle /\ view # Read /\ view' = Read
    /\ UNCHANGED <<hub, refs, folder, books, prs, job, made, acts, jobs>>
LoadPrs ==
    /\ view # NoView /\ prs = "unread" /\ prs' \in (IF pr THEN {"merged"} ELSE {}) \cup {"none"}
    /\ UNCHANGED <<hub, refs, folder, books, view, job, made, acts, jobs>>

\* `branchRows`: the row's evidence, of which a pull request is known by its branch's name alone.
PrMerged == prs = "merged"
GoneRef(v) == v.tracked /\ v.seen = {}
Tip(v) == IF v.local # {} THEN v.local ELSE v.seen
Merged(v) == Tip(v) \subseteq v.trunk
\* `localScope` and `remoteScope`.  Sessions are looked up now, the rest is the reading's.
\* The variant takes any branch's row for evidence enough to force.
ForceGone(v) == ~ Merged(v)
Force(v) == PrMerged /\ ~ Merged(v)
LocalOk(v) ==
    /\ v.local # {}
    /\ PrMerged \/ GoneRef(v) \/ Merged(v)
    /\ v.tree.at = "branch" => ~ open /\ ~ v.dirty
RemoteOk(v) ==
    /\ v.seen # {} /\ (Merged(v) \/ PrMerged)
    /\ v.local # {} => v.local = v.seen
\* `checkoutRows`.
Stray(v) == v.tree.head \ (v.local \cup v.seen \cup v.trunk)
CheckoutOk(v) == v.tree.at # "gone" /\ ~ open /\ ~ v.dirty /\ Stray(v) = {}

\* `localPicks`, `remotePicks`, `chosenWorktrees`.
Picks(v, shared) ==
    [local |-> LocalOk(v), gone |-> GoneRef(v), force |-> Force(v), tree |-> LocalOk(v) /\ v.tree.at = "branch",
     remote |-> shared /\ RemoteOk(v), sha |-> v.seen]

-----------------------------------------------------------------------------
(* The deleters.  Each says what it leaves and accounts for what is then    *)
(* nowhere: only what came after its evidence is excused, or left the remote *)
(* since the last fetch.                                                    *)

Account(here, there, head, late) ==
    LET gone == (local \cup remote \cup tree.head) \ (here \cup there \cup head \cup trunk \cup shipped \cup Base) IN
    /\ lost' = lost \cup gone
    /\ excused' = excused \cup (gone \cap (late \cup (seen \ remote)))

\* A merged pull request vouches for whatever its branch's name holds.
ByName(ref) == IF pr THEN ref ELSE {}

\* `git branch -d`: contained in its upstream, or without one in HEAD, which may lag.
SafeDeletes(heads) == IF tracked /\ seen # {} THEN local \subseteq seen ELSE local \subseteq heads
\* `remove_worktree`, and `finish_removal`, which deletes the branch by the safe delete alone.
Removable == ~ open /\ ~ dirty /\ tree.at # "gone"
RemoveTree(deleteBranch, late) ==
    \E heads \in {Base, seenTrunk} :
        /\ tree' = NoTree
        /\ local' = IF deleteBranch /\ tree.at = "branch" /\ SafeDeletes(heads) THEN {} ELSE local
        /\ Account(local', remote, {}, late)
KeepTree == UNCHANGED <<tree, local, lost, excused>>

\* `runClean`: the local half at once, the shared one once the question is answered.
RunClean(shared) ==
    /\ Start /\ job = Idle /\ view # NoView
    /\ LET p == Picks(view, shared) IN
        /\ p.local \/ p.remote
        /\ job' = [at |-> IF shared THEN "asked" ELSE "tree", pick |-> p]
    /\ UNCHANGED <<hub, refs, folder, books, view, prs, made, acts>>
Answer ==
    /\ job.at = "asked" /\ \E yes \in BOOLEAN : job' = IF yes THEN [job EXCEPT !.at = "tree"] ELSE Idle
    /\ UNCHANGED <<hub, refs, folder, books, view, prs, made, acts, jobs>>
\* `removeOne`: the branch stays for the sweep.
CleanTree ==
    /\ job.at = "tree" /\ job' = [job EXCEPT !.at = "sweep"]
    /\ IF job.pick.tree /\ Removable THEN RemoveTree(FALSE, tree.head \ Stray(view)) ELSE KeepTree
    /\ UNCHANGED <<hub, seenTrunk, seen, tracked, dirty, open, view, prs, made, acts, jobs>>
\* `sweep_branches`: `gone` is derived again, a worktree's claim beats a force.
Swept == job.pick.local /\ local # {} /\ tree.at # "branch" /\ (job.pick.gone => tracked /\ seen = {})
Sweep ==
    /\ job.at = "sweep" /\ job' = [job EXCEPT !.at = "remote"]
    /\ \E heads \in {Base, seenTrunk} :
        IF Swept /\ (SafeDeletes(heads) \/ job.pick.force)
        THEN local' = {} /\ Account({}, remote, tree.head, ByName(local))
        ELSE UNCHANGED <<local, lost, excused>>
    /\ UNCHANGED <<hub, folder, seenTrunk, seen, tracked, view, prs, made, acts, jobs>>
\* `delete_remote_branches`: a ref that moved in a fetch since it was read is refused; one nobody
\* fetched is not.
Unmoved(sha) == seen # {} /\ seen = sha
SweepRemote ==
    /\ job.at = "remote" /\ job' = [job EXCEPT !.at = "over"]
    /\ \/ /\ job.pick.remote /\ Unmoved(job.pick.sha) /\ remote # {}
          /\ remote' = {} /\ Account(local, {}, tree.head, ByName(remote) \cup (remote \ seen))
          /\ seen' \in {{}, seen} /\ seenTrunk' \in {trunk, seenTrunk}
       \/ UNCHANGED <<remote, seen, seenTrunk, lost, excused>>
    /\ UNCHANGED <<folder, trunk, shipped, pr, local, tracked, view, prs, made, acts, jobs>>
\* `runCheckoutClean`.
CleanCheckout ==
    /\ Start /\ job = Idle /\ view # NoView /\ CheckoutOk(view) /\ job' = [at |-> "over"]
    /\ IF Removable THEN RemoveTree(TRUE, tree.head \ Stray(view)) ELSE KeepTree
    /\ UNCHANGED <<hub, seenTrunk, seen, tracked, dirty, open, view, prs, made, acts>>
Over ==
    /\ job.at = "over" /\ job' = Idle /\ view' = Read
    /\ UNCHANGED <<hub, refs, folder, books, prs, made, acts, jobs>>

\* `removeWorktreeAt`: a dirty tree goes to a terminal, the person is asked, the sessions end, and
\* git is asked.  What only a detached HEAD holds is not mentioned.
AskRemoval ==
    /\ Start /\ job = Idle /\ tree.at # "gone" /\ ~ dirty /\ job' = [at |-> "close"]
    /\ UNCHANGED <<hub, refs, folder, books, view, prs, made, acts>>
CloseSessionsIn ==
    /\ job.at = "close"
    /\ \/ job' = Idle /\ UNCHANGED open
       \/ job' = [at |-> "remove"] /\ open' = FALSE
    /\ UNCHANGED <<hub, refs, books, tree, dirty, view, prs, made, acts, jobs>>
RemoveWorktree ==
    /\ job.at = "remove" /\ job' = Idle
    /\ IF Removable THEN RemoveTree(TRUE, tree.head) ELSE KeepTree
    /\ UNCHANGED <<hub, seenTrunk, seen, tracked, dirty, open, view, prs, made, acts, jobs>>
\* `wtDeleteBranch`.
DeleteBranch ==
    /\ Start /\ job = Idle /\ local # {} /\ tree.at # "branch"
    /\ \E heads \in {Base, seenTrunk} : SafeDeletes(heads)
    /\ local' = {} /\ Account({}, remote, tree.head, {})
    /\ UNCHANGED <<hub, folder, screen, seenTrunk, seen, tracked, made, acts>>

Next ==
    \/ Edit \/ Commit \/ Detach \/ Session \/ Push \/ OthersPush \/ MergePr \/ OthersDelete \/ Fetch
    \/ LoadBranches \/ LoadPrs \/ \E shared \in BOOLEAN : RunClean(shared)
    \/ Answer \/ CleanTree \/ Sweep \/ SweepRemote \/ CleanCheckout \/ Over
    \/ AskRemoval \/ CloseSessionsIn \/ RemoveWorktree \/ DeleteBranch
Spec == Init /\ [][Next]_brvars

-----------------------------------------------------------------------------
\* However readings age, sessions come and go and others push, no clean-up deletes the last ref to a
\* commit its evidence was about: not the merged pull request, the last fetch, nor the last reading.
WorkKept == lost \subseteq excused
=============================================================================
