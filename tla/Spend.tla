-------------------------------- MODULE Spend --------------------------------
(***************************************************************************)
(* The ledger of what agents spend (usage.ts): panes report the running    *)
(* total of the conversation they are on, and the window books what is new *)
(* in a reading, once, per day, across resumes, restarts and midnight.     *)
(***************************************************************************)
EXTENDS Naturals, FiniteSets

CONSTANTS
    Panes, Convs,
    Claude,         \* the conversations whose readings drop only because the counter restarted
    Owners,         \* how many panes' last readings one conversation keeps
    Calm,           \* whether a pane's first reading always comes before another's next on its conversation,
                    \* and the window is not reloaded under a live pane
    Most, Acts      \* bounds: a counter; resumes, restarts, revisions, midnights

VARIABLES
    today, conv, total,     \* the day; each pane's conversation, or "none" before it has one and "gone" after, and its counter
    base, saved,            \* costBaseline: [t, o], and its stored copy; a conversation not met has no t
    usage, detail, stored, detailDay,   \* the total per day, its split, the split's stored copy, and the day it was last written for
    silent,                 \* panes that have not reported yet
    said, heard,            \* history: what each pane last reported or began with, and all that was new in a reading
    exact, acts             \* history: no counter restarted, and no estimate was revised down
svars == <<today, conv, total, base, saved, usage, detail, stored, detailDay, silent, said, heard, exact, acts>>
books == <<today, base, saved, usage, detail, stored, detailDay>>

Unmet == [met |-> FALSE, t |-> 0, o |-> <<>>]

Init ==
    /\ today = 1 /\ conv = [p \in Panes |-> "none"] /\ total = [p \in Panes |-> 0]
    /\ base = [c \in Convs |-> Unmet] /\ saved = base
    /\ usage = <<0, 0>> /\ detail = <<0, 0>> /\ stored = <<0, 0>> /\ detailDay = 0
    /\ silent = {} /\ said = [p \in Panes |-> 0] /\ heard = 0 /\ exact = TRUE /\ acts = 0

Act == acts < Acts /\ acts' = acts + 1

\* `costDelta`: this pane's last reading, else the conversation's.  The variant has the conversation's alone.
PrevTip(b, p) == b.t
Prev(b, p) == IF p \in DOMAIN b.o THEN b.o[p] ELSE b.t
Baseline(c, p) ==
    IF c \in Claude \/ Prev(base[c], p) < total[p] THEN total[p] ELSE Prev(base[c], p)
Kept(o, p, v) ==
    LET others == IF Cardinality(DOMAIN o \cup {p}) > Owners THEN {} ELSE DOMAIN o IN
    [q \in others \cup {p} |-> IF q = p THEN v ELSE o[q]]
Delta(c, p) ==
    LET prev == Prev(base[c], p) IN
    IF total[p] >= prev THEN total[p] - prev ELSE IF c \in Claude THEN total[p] ELSE 0

\* `applyStatusline`, and a provider's "cost" event: `costDelta`, then `addUsage`, whose split is stored
\* at most every DETAIL_SAVE_FLOOR_MS, and when the day has changed.
Report(p, due) ==
    LET c == conv[p]
        v == Baseline(c, p)
        d == Delta(c, p)
        split == [detail EXCEPT ![today] = @ + d] IN
    /\ c \in Convs /\ (p \in silent \/ total[p] # said[p])
    /\ Calm => (\A q \in Panes \ {p} : conv[q] = c => q \notin silent)
    /\ base' = [base EXCEPT ![c] = [met |-> TRUE, t |-> v, o |-> Kept(base[c].o, p, v)]]
    /\ saved' = IF base[c].met /\ Prev(base[c], p) = v THEN saved ELSE base'
    /\ usage' = [usage EXCEPT ![today] = @ + d]
    /\ IF d = 0 THEN UNCHANGED <<detail, stored, detailDay>>
       ELSE /\ detail' = split /\ detailDay' = today
            /\ stored' = IF due \/ detailDay \notin {0, today} THEN split ELSE stored
    /\ heard' = heard + (IF total[p] > said[p] THEN total[p] - said[p] ELSE 0)
    /\ said' = [said EXCEPT ![p] = total[p]] /\ silent' = silent \ {p}
    /\ UNCHANGED <<today, conv, total, exact, acts>>

\* A new pane's process carries its conversation on from the total last reported there.
Resume(p, c) ==
    /\ Act /\ conv[p] = "none" /\ conv' = [conv EXCEPT ![p] = c]
    /\ Calm => (\A q \in silent : conv[q] # c)
    /\ total' = [total EXCEPT ![p] = base[c].t] /\ said' = [said EXCEPT ![p] = base[c].t] /\ silent' = silent \cup {p}
    /\ UNCHANGED <<books, heard, exact>>
Costs(p) ==
    /\ conv[p] \in Convs /\ total[p] < Most /\ total' = [total EXCEPT ![p] = @ + 1]
    /\ UNCHANGED <<books, conv, silent, said, heard, exact, acts>>
\* Claude's counter starts again; another agent's estimate is revised down by a pricing update.
Falls(p) ==
    /\ Act /\ conv[p] \in Convs /\ total[p] > 0 /\ exact' = FALSE
    /\ total' = [total EXCEPT ![p] = IF conv[p] \in Claude THEN 0 ELSE @ - 1]
    /\ said' = [said EXCEPT ![p] = IF conv[p] \in Claude THEN 0 ELSE @]
    /\ UNCHANGED <<books, conv, silent, heard>>
Midnight == Act /\ today = 1 /\ today' = 2 /\ UNCHANGED <<conv, total, base, saved, usage, detail, stored, detailDay, silent, said, heard, exact>>

\* Quitting stores the split first; a crash does not.  Either way the panes' processes are gone.
\* A reload of the window leaves them running.
Restart(quits, reload) ==
    /\ Act /\ (Calm => ~ reload)
    /\ base' = saved /\ stored' = (IF quits THEN detail ELSE stored) /\ detail' = stored' /\ detailDay' = 0
    /\ IF reload THEN UNCHANGED <<conv, total, silent, said>>
       ELSE /\ conv' = [p \in Panes |-> IF conv[p] = "none" THEN "none" ELSE "gone"] /\ total' = [p \in Panes |-> 0] /\ said' = [p \in Panes |-> 0] /\ silent' = {}
    /\ UNCHANGED <<today, saved, usage, heard, exact>>

Next ==
    \/ Midnight
    \/ \E p \in Panes : Costs(p) \/ Falls(p) \/ (\E c \in Convs : Resume(p, c)) \/ \E due \in BOOLEAN : Report(p, due)
    \/ \E quits, reload \in BOOLEAN : Restart(quits, reload)
Spec == Init /\ [][Next]_svars

-----------------------------------------------------------------------------
\* What is reported is booked once, whoever resumes the conversation, in how many panes, and whenever
\* the window stops: never more than was new in the readings, and all of it where no counter fell
\* (costDelta).  The split by project never claims more than its day (daySpend's "unattributed").
SpendBookedOnce ==
    /\ usage[1] + usage[2] <= heard
    /\ exact => usage[1] + usage[2] = heard
    /\ \A d \in {1, 2} : stored[d] <= detail[d] /\ detail[d] <= usage[d]
=============================================================================
