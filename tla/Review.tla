------------------------------- MODULE Review -------------------------------
(* A pull request under review: what the stage shows of it and the review being written (reviewui.ts).
   Reads of GitHub and of git answer late, and a count of the reads started tells which answers still
   matter (gen); what is written to GitHub answers late too, and has no such count. *)
EXTENDS Naturals, FiniteSets

CONSTANTS
    Pulls,      \* the pull requests of the project
    Nowhere,    \* the stage while no review is on it
    Steady,     \* whether diffs of a range are read and the user waits for them, and for a review being sent
    Remarks,    \* the comments that may be written
    Acts        \* how often the user acts, GitHub moves and reads fail

VARIABLES
    head,       \* head[p]: how often p was pushed to
    stage,      \* the pull request on the stage (reviewMirror)
    pr,         \* what was read of it last: [of, head], Nothing before (pr)
    full,       \* the head GitHub's own diff was read at, 0 when it was not (full)
    range,      \* what the user chose to see, "all" or "since" (range)
    shown,      \* the diff that is drawn: [of, head, range], Nothing before (shown)
    reading,    \* whether a read is under way (loading)
    failed,     \* whether the last read failed (failed)
    gen,        \* how many reads were started (gen)
    reads,      \* the reads under way
    sending,    \* the review being sent: [of, remarks], Nothing when none (busy)
    drafts,     \* drafts[p]: the review being written for p (drafts)
    sent,       \* sent[p]: what GitHub has of it
    written,    \* every remark the user wrote, and where
    rvActs

rvvars == <<head, stage, pr, full, range, shown, reading, failed, gen, reads, sending, drafts, sent, written, rvActs>>

Nothing == [of |-> Nowhere, head |-> 0]
Undrawn == [of |-> Nowhere, head |-> 0, range |-> "all"]
Unsent == [of |-> Nowhere, remarks |-> {}]
Act == rvActs < Acts /\ rvActs' = rvActs + 1

Init ==
    /\ head = [p \in Pulls |-> 1] /\ stage = Nowhere /\ pr = Nothing /\ full = 0 /\ range = "all" /\ shown = Undrawn
    /\ reading = FALSE /\ failed = FALSE /\ gen = 0 /\ reads = {} /\ sending = Unsent
    /\ drafts = [p \in Pulls |-> {}] /\ sent = [p \in Pulls |-> {}] /\ written = {} /\ rvActs = 0

Review(g, p, was) == [kind |-> "review", gen |-> g, of |-> p, head |-> was, range |-> "all"]
\* loadDiffs: GitHub's own diff first, and the chosen one after it.
Diff(g, p, r, has) == [kind |-> IF has = 0 THEN "full" ELSE "range", gen |-> g, of |-> p.of, head |-> p.head, range |-> r]
DrawsFull(r) == r = "all"
Calm == ~Steady \/ (sending = Unsent /\ \A r \in reads : r.gen = gen => r.kind = "review")

\* load.
Load(p, was) ==
    /\ gen' = gen + 1 /\ reading' = TRUE
    /\ reads' = reads \cup {Review(gen + 1, p, was)}

\* openPrReview: another pull request starts from nothing.
Open(p) ==
    /\ Act /\ Calm /\ stage' = p
    /\ IF p = stage THEN UNCHANGED <<pr, full, range, shown, failed>> /\ Load(p, pr.head)
       ELSE /\ pr' = Nothing /\ full' = 0 /\ range' = "all" /\ shown' = Undrawn /\ failed' = FALSE /\ Load(p, 0)
    /\ UNCHANGED <<head, sending, drafts, sent, written>>

Close ==
    /\ stage # Nowhere /\ Act /\ Calm /\ stage' = Nowhere
    /\ UNCHANGED <<head, pr, full, range, shown, reading, failed, gen, reads, sending, drafts, sent, written>>

\* The refresh button.
Refresh ==
    /\ stage # Nowhere /\ Act /\ Calm /\ Load(stage, pr.head)
    /\ UNCHANGED <<head, stage, pr, full, range, shown, failed, sending, drafts, sent, written>>

Pushed(p) ==
    /\ Act /\ head' = [head EXCEPT ![p] = @ + 1]
    /\ UNCHANGED <<stage, pr, full, range, shown, reading, failed, gen, reads, sending, drafts, sent, written>>

\* The variant of what follows takes every answer.
AnyAnswer(r) == TRUE
\* Whether an answer still matters.
Current(r) == r.gen = gen

\* An answer nobody waits for.
Dropped ==
    \E r \in reads :
       /\ ~Current(r) \/ (r.kind = "review" /\ stage = Nowhere)
       /\ reads' = reads \ {r}
       /\ UNCHANGED <<head, stage, pr, full, range, shown, reading, failed, gen, sending, drafts, sent, written, rvActs>>

\* load, answered: a moved head begins again at GitHub's diff.
Answered ==
    \E r \in reads :
       /\ r.kind = "review" /\ Current(r) /\ stage # Nowhere
       /\ LET now == [of |-> r.of, head |-> head[r.of]]
              moved == r.head # now.head
              has == IF moved THEN 0 ELSE full
              wants == IF moved THEN "all" ELSE range IN
          /\ pr' = now /\ failed' = FALSE /\ full' = has /\ range' = wants
          /\ reading' = (has = 0)
          /\ reads' = (reads \ {r}) \cup (IF has = 0 THEN {Diff(r.gen, now, wants, 0)} ELSE {})
       /\ UNCHANGED <<head, stage, shown, gen, sending, drafts, sent, written, rvActs>>

\* loadDiffs, answered, once or twice.
Drawn ==
    \E r \in reads :
       /\ r.kind # "review" /\ Current(r)
       /\ full' = IF r.kind = "full" THEN r.head ELSE full
       /\ IF r.kind = "full" /\ ~DrawsFull(range)
          THEN reads' = (reads \ {r}) \cup {Diff(gen, pr, range, r.head)} /\ UNCHANGED <<shown, reading, failed>>
          ELSE /\ shown' = [of |-> r.of, head |-> r.head, range |-> r.range] /\ reading' = FALSE /\ failed' = FALSE
               /\ reads' = reads \ {r}
       /\ UNCHANGED <<head, stage, pr, range, gen, sending, drafts, sent, written, rvActs>>

\* A read fails: of the review, whether or not it still matters; of a diff, when it does.
Failed ==
    \E r \in reads :
       /\ Act /\ reads' = reads \ {r} /\ failed' = TRUE
       /\ Current(r) \/ r.kind = "review"
       /\ ~Steady \/ r.kind # "range"
       /\ IF Current(r) /\ stage # Nowhere
          THEN reading' = FALSE /\ pr' = IF r.kind = "review" THEN Nothing ELSE pr
          ELSE UNCHANGED <<reading, pr>>
       /\ UNCHANGED <<head, stage, full, range, shown, gen, sending, drafts, sent, written>>

\* setRange. All changes are at hand once they have been read.
Choose(x) ==
    /\ pr # Nothing /\ stage # Nowhere /\ x # range /\ Act /\ (Steady => sending = Unsent) /\ range' = x /\ gen' = gen + 1
    /\ IF full # 0 /\ DrawsFull(x)
       THEN shown' = [of |-> pr.of, head |-> pr.head, range |-> x] /\ reading' = FALSE /\ failed' = FALSE /\ UNCHANGED reads
       ELSE reads' = reads \cup {Diff(gen + 1, pr, x, full)} /\ reading' = TRUE /\ UNCHANGED <<shown, failed>>
    /\ UNCHANGED <<head, stage, pr, full, sending, drafts, sent, written>>

\* A remark on a line of what is drawn (saveDrafts).
Remark(c) ==
    /\ pr # Nothing /\ stage # Nowhere /\ (Steady => sending = Unsent) /\ \A w \in written : w[1] # c
    /\ drafts' = [drafts EXCEPT ![pr.of] = @ \cup {c}] /\ written' = written \cup {<<c, pr.of>>}
    /\ UNCHANGED <<head, stage, pr, full, range, shown, reading, failed, gen, reads, sending, sent, rvActs>>

\* submit, up to its await.
Submit ==
    /\ pr # Nothing /\ stage # Nowhere /\ sending = Unsent /\ drafts[pr.of] # {} /\ (Steady => ~reading)
    /\ sending' = [of |-> pr.of, remarks |-> drafts[pr.of]]
    /\ UNCHANGED <<head, stage, pr, full, range, shown, reading, failed, gen, reads, drafts, sent, written, rvActs>>

\* What a review that was sent leaves of the drafts: none of the one on the stage by then.
AfterSending == IF pr = Nothing THEN drafts ELSE [drafts EXCEPT ![pr.of] = {}]

\* write and the rest of submit: the page is read again, whichever it is, and a sent review is no draft any more.
Sent(ok) ==
    /\ sending # Unsent /\ (IF ok THEN UNCHANGED rvActs ELSE Act) /\ sending' = Unsent
    /\ IF ok THEN sent' = [sent EXCEPT ![sending.of] = @ \cup sending.remarks] /\ drafts' = AfterSending
             ELSE UNCHANGED <<sent, drafts>>
    /\ IF stage = Nowhere THEN gen' = gen + 1 /\ UNCHANGED <<reading, reads>> ELSE Load(stage, pr.head)
    /\ UNCHANGED <<head, stage, pr, full, range, shown, failed, written>>

Next ==
    \/ \E p \in Pulls : Open(p) \/ Pushed(p)
    \/ Close \/ Refresh \/ Dropped \/ Answered \/ Drawn \/ Failed \/ Submit
    \/ \E x \in {"all", "since"} : Choose(x)
    \/ \E c \in Remarks : Remark(c)
    \/ \E ok \in BOOLEAN : Sent(ok)

Spec == Init /\ [][Next]_rvvars

\* A review is of what is drawn: once nothing is being read the stage draws what was chosen, of the pull
\* request and the head that it names (load, loadDiffs). And no remark is lost or sent twice: each is in the
\* draft of its own pull request or on GitHub, and on no other (submit, saveDrafts).
ReviewIsItsOwn ==
    /\ (stage # Nowhere /\ pr # Nothing /\ ~reading /\ ~failed)
          => pr.of = stage /\ shown = [of |-> pr.of, head |-> pr.head, range |-> range]
    /\ \A p \in Pulls : {w[1] : w \in {w \in written : w[2] = p}} = drafts[p] \cup sent[p] /\ drafts[p] \cap sent[p] = {}
=============================================================================
