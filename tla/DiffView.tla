------------------------------- MODULE DiffView -------------------------------
(***************************************************************************)
(* The review of uncommitted work (diffview.ts, gitops.ts) and what it     *)
(* lets git do to it (git.rs).  One dialog opens on any folder, reads it   *)
(* in the background, and writes while agents edit the same files and      *)
(* the stash is shared by every checkout.                                  *)
(***************************************************************************)
EXTENDS Naturals, Sequences, FiniteSets

CONSTANTS
    Folders, Nowhere, Files,
    Acts,       \* bound: what the person and the agents do
    Calm        \* whether the orders the README lists under Calm are left out

VARIABLES
    disk,       \* per folder and file, the edit that is on disk; 0 is what HEAD has
    made, stack,    \* what each stash holds, by its id; the stack, the latest first
    edits,      \* how many edits were made
    kept, given,    \* history: edits that are committed; that somebody gave up
    open, dir, gen, view,   \* diffOpen, diffDir, gen, view
    drawn,      \* files: what is on screen, and whether it offers to write
    shown,      \* shownStash
    stashes,    \* stashes: the ids of the list read last
    picked, workRead,   \* pick.picked, workRead
    box, drafts,    \* the message box, drafts; a message is a number
    unsaid,     \* history: per folder, the message typed and not used
    reads,      \* git_diff, git_stash_diff and git_stash_list in flight
    asked,      \* the write a question is on screen about
    job,        \* the write in flight, for `busy`
    dvActs

dvvars == <<disk, made, stack, edits, kept, given, open, dir, gen, view, drawn, shown, stashes, picked, workRead,
            box, drafts, unsaid, reads, asked, job, dvActs>>
git == <<disk, made, stack, edits, kept, given>>
message == <<box, drafts, unsaid>>

Clean == [x \in Files |-> 0]
Blank == [kind |-> "none", of |-> Nowhere, files |-> Clean, ids |-> {}, controls |-> FALSE]
NoJob == [verb |-> "none", stage |-> "none"]
Listed(d) == {x \in Files : d.files[x] # 0}
Ids == {stack[i] : i \in DOMAIN stack}
Work(d) == [kind |-> "work", of |-> d, files |-> disk[d], ids |-> {}, controls |-> TRUE]

\* Each folder has an edit of its own to begin with.
Numbers == CHOOSE n \in [Folders -> 1 .. Cardinality(Folders)] : \A i \in 1 .. Cardinality(Folders) : \E e \in Folders : n[e] = i

\* One file is edited everywhere, one lies in a stash; the dialog is open on a folder and read.
Init ==
    \E d \in Folders, x \in Files :
        /\ disk = [e \in Folders |-> [Clean EXCEPT ![x] = Numbers[e]]]
        /\ edits = Cardinality(Folders) + 1
        /\ made = <<[y \in Files |-> IF y = x /\ Files # {x} THEN 0 ELSE edits]>> /\ stack = <<1>>
        /\ kept = {} /\ given = {} /\ open = TRUE /\ dir = d /\ gen = 1 /\ view = "work"
        /\ drawn = Work(d) /\ shown = 0 /\ stashes = Ids /\ picked = {x} /\ workRead = TRUE
        /\ box = 0 /\ drafts = [e \in Folders |-> 0] /\ unsaid = drafts
        /\ reads = {} /\ asked = NoJob /\ job = NoJob /\ dvActs = 0

\* A question is modal: while it is up the person does nothing else.
Act == dvActs < Acts /\ dvActs' = dvActs + 1
Person == Act /\ asked = NoJob
Settled == Calm => job = NoJob

---------------------------------------------------------------------------
(* Reading. *)

Read(kind, d, g, id) == [kind |-> kind, dir |-> d, gen |-> g, id |-> id, answered |-> FALSE, value |-> Blank]

\* What the reading of a folder leaves on screen until the answer: a re-read keeps it.
Stays(again) == IF again THEN drawn ELSE Blank
LoadWork(d, again, more) ==
    /\ view' = "work" /\ gen' = gen + 1 /\ drawn' = Stays(again)
    /\ reads' = reads \cup {Read("work", d, gen + 1, 0)} \cup more
    /\ UNCHANGED shown
ShowStashes(d) ==
    /\ view' = "stashes" /\ shown' = 0 /\ gen' = gen + 1 /\ drawn' = Blank
    /\ reads' = reads \cup {Read("list", d, gen + 1, 0)}
ShowStash(id) ==
    IF id \in stashes
    THEN /\ view' = "stash" /\ shown' = id /\ gen' = gen + 1 /\ drawn' = Blank
         /\ reads' = reads \cup {Read("stash", dir, gen + 1, id)}
    ELSE UNCHANGED <<view, shown, gen, drawn, reads>>

OpenDiff(d, tab) ==
    /\ Person /\ (d # dir => Settled)
    /\ open' = TRUE /\ dir' = d /\ picked' = {} /\ workRead' = FALSE /\ stashes' = {} /\ box' = drafts[d]
    /\ IF tab = "stashes" THEN ShowStashes(d) ELSE LoadWork(d, FALSE, {Read("count", d, gen, 0)})
    /\ UNCHANGED <<git, drafts, unsaid, asked, job>>
CloseDiff ==
    /\ Person /\ open /\ open' = FALSE
    /\ UNCHANGED <<git, dir, gen, view, drawn, shown, stashes, picked, workRead, message, reads, asked, job>>
ToTab(tab) ==
    /\ Person /\ open /\ job = NoJob
    /\ \/ tab = "work" /\ view # "work" /\ LoadWork(dir, workRead, {})
       \/ tab = "stashes" /\ view # "stashes" /\ ShowStashes(dir)
    /\ UNCHANGED <<git, open, dir, stashes, picked, workRead, message, asked, job>>
OpensStash(id) ==
    /\ Person /\ open /\ drawn.kind = "list" /\ id \in drawn.ids /\ ShowStash(id)
    /\ UNCHANGED <<git, open, dir, stashes, picked, workRead, message, asked, job>>
\* The other layout repaints what is on screen for the view there is by now.
Repaint ==
    /\ Person /\ open /\ drawn.kind \in {"work", "stash"} /\ (Calm => drawn.kind = view)
    /\ drawn' = [drawn EXCEPT !.controls = (view = "work")]
    /\ UNCHANGED <<git, open, dir, gen, view, shown, stashes, picked, workRead, message, reads, asked, job>>

GitReads(r) ==
    /\ ~r.answered
    /\ LET value == CASE r.kind = "work" -> Work(r.dir)
                      [] r.kind = "stash" -> [Blank EXCEPT !.kind = "stash", !.files = made[r.id]]
                      [] OTHER -> [Blank EXCEPT !.kind = "list", !.ids = Ids]
       IN  reads' = (reads \ {r}) \cup {[r EXCEPT !.answered = TRUE, !.value = value]}
    /\ UNCHANGED <<git, open, dir, gen, view, drawn, shown, stashes, picked, workRead, message, asked, job, dvActs>>

\* A list is assigned before it is asked whether it is still wanted; a count only for its folder.
Current(r) == open /\ r.gen = gen
Lands(r) ==
    /\ r.answered /\ reads' = reads \ {r}
    /\ stashes' = IF r.kind = "list" \/ (r.kind = "count" /\ r.dir = dir) THEN r.value.ids ELSE stashes
    /\ drawn' = IF r.kind # "count" /\ Current(r) THEN r.value ELSE drawn
    /\ IF r.kind = "work" /\ Current(r)
       THEN /\ workRead' = TRUE
            /\ picked' = IF workRead THEN picked \cap Listed(r.value) ELSE Listed(r.value)
       ELSE UNCHANGED <<workRead, picked>>
    /\ UNCHANGED <<git, open, dir, gen, view, shown, message, asked, job, dvActs>>
ReadFails(r) ==
    /\ ~r.answered /\ reads' = reads \ {r}
    /\ drawn' = IF r.kind # "count" /\ Current(r) THEN Blank ELSE drawn
    /\ UNCHANGED <<git, open, dir, gen, view, shown, stashes, picked, workRead, message, asked, job, dvActs>>

---------------------------------------------------------------------------
(* Writing.  A job names what it may touch; `sure` is what the person agreed to lose. *)

Ready == Person /\ open /\ job = NoJob
Job(verb, sel, id) ==
    [verb |-> verb, dir |-> dir, files |-> sel, id |-> id, text |-> box, at |-> 0, stage |-> "called",
     sure |-> IF drawn.kind = "work" THEN {drawn.of} \X sel ELSE {}]
Selected == picked \cap Listed(drawn)

Tick(x) ==
    /\ Person /\ open /\ drawn.controls /\ x \in Listed(drawn)
    /\ picked' = IF x \in picked THEN picked \ {x} ELSE picked \cup {x}
    /\ UNCHANGED <<git, open, dir, gen, view, drawn, shown, stashes, workRead, message, reads, asked, job>>
PickAll ==
    /\ Person /\ open /\ drawn.controls
    /\ picked' = IF Listed(drawn) \subseteq picked THEN picked \ Listed(drawn) ELSE picked \cup Listed(drawn)
    /\ UNCHANGED <<git, open, dir, gen, view, drawn, shown, stashes, workRead, message, reads, asked, job>>
Type ==
    /\ Person /\ open /\ drawn.controls /\ Settled
    /\ box' = dvActs + 1 /\ drafts' = [drafts EXCEPT ![dir] = dvActs + 1] /\ unsaid' = [unsaid EXCEPT ![dir] = dvActs + 1]
    /\ UNCHANGED <<git, open, dir, gen, view, drawn, shown, stashes, picked, workRead, reads, asked, job>>
CommitPicked ==
    /\ Ready /\ drawn.controls /\ Selected # {} /\ box # 0 /\ job' = Job("commit", Selected, 0)
    /\ UNCHANGED <<git, open, dir, gen, view, drawn, shown, stashes, picked, workRead, message, reads, asked>>
StashPicked ==
    /\ Ready /\ drawn.controls /\ Selected # {} /\ job' = Job("push", Selected, 0)
    /\ UNCHANGED <<git, open, dir, gen, view, drawn, shown, stashes, picked, workRead, message, reads, asked>>
\* The ticked files, one file, or one hunk of it: a hunk goes along as it was shown.
DiscardFiles(sel) ==
    /\ Ready /\ drawn.controls /\ sel # {} /\ (sel = Selected \/ \E x \in Listed(drawn) : sel = {x})
    /\ asked' = Job("discard", sel, 0)
    /\ UNCHANGED <<git, open, dir, gen, view, drawn, shown, stashes, picked, workRead, message, reads, job>>
DiscardHunk(x) ==
    /\ Ready /\ drawn.controls /\ x \in Listed(drawn) /\ asked' = Job("hunk", {x}, drawn.files[x])
    /\ UNCHANGED <<git, open, dir, gen, view, drawn, shown, stashes, picked, workRead, message, reads, job>>
StashOp(op, id) ==
    /\ Ready /\ ((drawn.kind = "list" /\ id \in drawn.ids) \/ (drawn.kind = "stash" /\ shown = id /\ view = "stash"))
    /\ IF op = "drop" THEN asked' = Job(op, {}, id) /\ job' = job ELSE job' = Job(op, {}, id) /\ asked' = asked
    /\ UNCHANGED <<git, open, dir, gen, view, drawn, shown, stashes, picked, workRead, message, reads>>
\* The command names the folder of the dialog by then.
Answers(yes) ==
    /\ asked # NoJob /\ asked' = NoJob /\ job' = IF yes THEN [asked EXCEPT !.dir = dir] ELSE job
    /\ UNCHANGED <<git, open, dir, gen, view, drawn, shown, stashes, picked, workRead, message, reads, dvActs>>

---------------------------------------------------------------------------
(* What git does. *)

Without(i) == SubSeq(stack, 1, i - 1) \o SubSeq(stack, i + 1, Len(stack))
Put(d, x, e) == [disk EXCEPT ![d] = [y \in Files |-> IF y \in x THEN e[y] ELSE disk[d][y]]]
Held(id) == {made[id][y] : y \in Files} \ {0}
On(d, x) == {disk[d][y] : y \in x} \ {0}
Done(ok) == job' = [job EXCEPT !.stage = IF ok THEN "done" ELSE "refused"]

\* git_commit: exactly the files named, as they are on disk; a hook may refuse.
GitCommit ==
    /\ job.verb = "commit" /\ On(job.dir, job.files) # {} /\ Done(TRUE)
    /\ kept' = kept \cup On(job.dir, job.files) /\ disk' = Put(job.dir, job.files, Clean)
    /\ UNCHANGED <<made, stack, edits, given>>
Stash(work, after) == made' = Append(made, work) /\ stack' = <<Len(made) + 1>> \o stack /\ disk' = after
GitStashPush ==
    /\ job.verb = "push" /\ Done(TRUE) /\ UNCHANGED <<edits, kept, given>>
    /\ IF On(job.dir, job.files) = {} THEN UNCHANGED <<disk, made, stack>>
       ELSE Stash([y \in Files |-> IF y \in job.files THEN disk[job.dir][y] ELSE 0], Put(job.dir, job.files, Clean))
\* git_discard: whatever is there by now goes.
GitDiscard ==
    /\ job.verb = "discard" /\ Done(TRUE) /\ disk' = Put(job.dir, job.files, Clean)
    /\ given' = given \cup {disk[job.dir][y] : y \in {z \in job.files : <<job.dir, z>> \in job.sure}}
    /\ UNCHANGED <<made, stack, edits, kept>>
\* git_discard_hunk refuses a hunk that is not as it was shown.
AsShown(e, want) == e = want
Anything(e, want) == e # 0
GitDiscardHunk ==
    /\ job.verb = "hunk" /\ \A y \in job.files : AsShown(disk[job.dir][y], job.id)
    /\ Done(TRUE) /\ disk' = Put(job.dir, job.files, Clean)
    /\ given' = given \cup (IF job.sure = {} THEN {} ELSE {job.id}) /\ UNCHANGED <<made, stack, edits, kept>>
\* stash_ref: the place of a sha, which `drop` and `pop` are then given.
StashRef ==
    /\ job.verb \in {"apply", "pop", "drop"} /\ job.stage = "called"
    /\ \E i \in DOMAIN stack : stack[i] = job.id /\ job' = [job EXCEPT !.at = i, !.stage = "found"]
    /\ UNCHANGED git
GitStashDrop ==
    /\ job.verb = "drop" /\ job.stage = "found" /\ job.at \in DOMAIN stack /\ Done(TRUE) /\ stack' = Without(job.at)
    /\ given' = given \cup (IF stack[job.at] = job.id THEN Held(job.id) ELSE {})
    /\ UNCHANGED <<disk, made, edits, kept>>
GitStashApply ==
    /\ job.verb \in {"apply", "pop"} /\ job.stage = "found" /\ job.at \in DOMAIN stack
    /\ LET w == made[stack[job.at]]  took == {y \in Files : w[y] # 0}
       IN  /\ On(job.dir, took) = {} /\ disk' = Put(job.dir, took, w) /\ Done(TRUE)
           /\ stack' = IF job.verb = "pop" THEN Without(job.at) ELSE stack
    /\ UNCHANGED <<made, edits, kept, given>>
\* A hook, a conflict, a hunk or a stash that is no longer there.
GitRefuses == job.stage \in {"called", "found"} /\ Done(FALSE) /\ UNCHANGED git
GitRuns ==
    /\ job # NoJob /\ job.stage \in {"called", "found"}
    /\ (job.stage = "found" => job.verb \in {"drop", "apply", "pop"})
    /\ \/ GitCommit \/ GitStashPush \/ GitDiscard \/ GitDiscardHunk \/ StashRef \/ GitStashDrop \/ GitStashApply \/ GitRefuses
    /\ UNCHANGED <<open, dir, gen, view, drawn, shown, stashes, picked, workRead, message, reads, asked, dvActs>>

\* `write` ends and its caller goes on, in the dialog as it is by then.
Uses(ok) ==
    IF job.verb = "commit" /\ ok
    THEN /\ box' = 0 /\ drafts' = [drafts EXCEPT ![dir] = 0]
         /\ unsaid' = [unsaid EXCEPT ![job.dir] = IF @ = job.text THEN 0 ELSE @]
    ELSE UNCHANGED message
GoesOn(ok) ==
    LET more == IF job.verb = "push" /\ ok THEN {Read("count", dir, gen, 0)} ELSE {}
        ofWork == job.verb \in {"commit", "push", "discard", "hunk"}
    IN  IF ~open THEN reads' = reads \cup more /\ UNCHANGED <<gen, view, drawn, shown>>
        ELSE IF ofWork \/ (ok /\ job.verb # "drop") THEN LoadWork(dir, workRead, more)
        ELSE IF view = "stash" /\ ~(ok /\ job.verb = "drop") THEN ShowStash(job.id)
        ELSE ShowStashes(dir)
WriteEnds ==
    /\ job # NoJob /\ job.stage \in {"done", "refused"} /\ job' = NoJob
    /\ Uses(job.stage = "done") /\ GoesOn(job.stage = "done")
    /\ UNCHANGED <<git, open, dir, stashes, picked, workRead, asked, dvActs>>

\* Others at work in the folders: an edit replaces the one before it; a stash moves every place.
Edited(d, x) ==
    /\ Act /\ edits' = edits + 1 /\ disk' = [disk EXCEPT ![d][x] = edits + 1] /\ given' = given \cup {disk[d][x]}
    /\ UNCHANGED <<made, stack, kept, open, dir, gen, view, drawn, shown, stashes, picked, workRead, message, reads, asked, job>>
StashedElsewhere(d) ==
    /\ Act /\ On(d, Files) # {} /\ (Calm => job = NoJob \/ job.stage # "found")
    /\ Stash(disk[d], [disk EXCEPT ![d] = Clean])
    /\ UNCHANGED <<edits, kept, given, open, dir, gen, view, drawn, shown, stashes, picked, workRead, message, reads, asked, job>>

Next ==
    \/ \E d \in Folders : \/ \E tab \in {"work", "stashes"} : OpenDiff(d, tab)
                          \/ StashedElsewhere(d) \/ \E x \in Files : Edited(d, x)
    \/ CloseDiff \/ Repaint \/ PickAll \/ Type \/ CommitPicked \/ StashPicked \/ GitRuns \/ WriteEnds
    \/ \E tab \in {"work", "stashes"} : ToTab(tab)
    \/ \E r \in reads : GitReads(r) \/ Lands(r) \/ ReadFails(r)
    \/ \E x \in Files : Tick(x) \/ DiscardHunk(x)
    \/ \E sel \in SUBSET Files : DiscardFiles(sel)
    \/ \E id \in drawn.ids \cup {shown} : (OpensStash(id) \/ \E op \in {"apply", "pop", "drop"} : StashOp(op, id))
    \/ \E yes \in BOOLEAN : Answers(yes)

Spec == Init /\ [][Next]_dvvars

---------------------------------------------------------------------------
\* An edit is gone only because its author replaced it or because the person, shown that file of that folder, or
\* that hunk, or that stash, said so; everything else is on disk, in a commit or in a stash (git_discard,
\* git_discard_hunk, git_stash, loadWork).
NothingElseIsLost ==
    1 .. edits \subseteq kept \cup given \cup (UNION {On(d, Files) : d \in Folders})
                          \cup (UNION {Held(id) : id \in Ids})

\* The message typed for a folder is there, on screen and when it is opened again, until a commit used it.
DraftsStay ==
    /\ drafts = unsaid
    /\ open => box = drafts[dir]
=============================================================================
