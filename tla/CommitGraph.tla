------------------------------ MODULE CommitGraph ----------------------------
(***************************************************************************)
(* The commit graph's layout (graph.ts): a page of commits, newest first,  *)
(* becomes rows of lanes and lines; the rows are named after refs and      *)
(* merges, and runs of bots' commits are folded.                           *)
(***************************************************************************)
EXTENDS Naturals, Sequences, FiniteSetsExt, SequencesExt

CONSTANTS
    N,          \* how many commits the page holds; no commit has more than two parents
    BotSets     \* which commits a bot wrote, in one behaviour or another

VARIABLES
    lanes, ids,         \* the commit each lane draws next, or 0, and the line that holds it
    rows, opened,       \* the rows laid so far; for each line the merge that opened it, or 0 for a tip
    refs, bots, done    \* the commits with a ref, those of bots, and whether the rows are named
cgvars == <<lanes, ids, rows, opened, refs, bots, done>>

Commits == 1..N
Beyond == N + 1     \* a parent the page does not hold
Parents(c) ==
    LET older == (c + 1)..Beyond IN
    {<<>>} \cup {<<p>> : p \in older} \cup {q \in older \X older : q[1] # q[2]}

\* `freeLane`: the leftmost free lane, or one more.
FreeLane(ls) == Min({i \in DOMAIN ls : ls[i] = 0} \cup {Len(ls) + 1})
Put(s, i, v) == [j \in 1..(IF i > Len(s) THEN i ELSE Len(s)) |-> IF j = i THEN v ELSE s[j]]
At(ls, x) == {i \in DOMAIN ls : ls[i] = x}
LineAt(is, i) == [lane |-> i, line |-> is[i]]

Init ==
    /\ lanes = <<>> /\ ids = <<>> /\ rows = <<>> /\ opened = <<>>
    /\ refs = {} /\ bots = {} /\ done = FALSE

\* A merge's other parent joins the lane that waits for it, or opens one.
JoinOrOpen(s, p, c) ==
    LET l == IF At(s.lanes, p) # {} THEN Min(At(s.lanes, p)) ELSE FreeLane(s.lanes)
        joins == At(s.lanes, p) # {}
        line == IF joins THEN s.ids[l] ELSE Len(s.opened) + 1 IN
    [lanes |-> Put(s.lanes, l, p), ids |-> Put(s.ids, l, line),
     opened |-> IF joins THEN s.opened ELSE Append(s.opened, c),
     below |-> Append(s.below, [lane |-> l, line |-> line])]
\* Every lane that waits for the commit ends at it.  The variant ends only the one that draws it.
EndOne(ls, waiting, lane) == Put(ls, lane, 0)
EndLanes(ls, waiting, lane) == Put([i \in DOMAIN ls |-> IF i \in waiting THEN 0 ELSE ls[i]], lane, 0)

\* One turn of `layoutGraph`: the leftmost lane that waits for the commit draws it, or a new line does.
Lay(ps) ==
    LET c == Len(rows) + 1
        waiting == At(lanes, c)
        tip == waiting = {}
        lane == IF tip THEN FreeLane(lanes) ELSE Min(waiting)
        line == IF tip THEN Len(opened) + 1 ELSE ids[lane]
        ended == [lanes |-> EndLanes(lanes, waiting, lane), ids |-> Put(ids, lane, line),
                  opened |-> IF tip THEN Append(opened, 0) ELSE opened, below |-> <<>>]
        first == [ended EXCEPT !.lanes = Put(@, lane, ps[1]), !.below = <<[lane |-> lane, line |-> line]>>]
        s == FoldLeft(LAMBDA x, p : JoinOrOpen(x, p, c), IF ps = <<>> THEN ended ELSE first, SubSeq(ps, 2, Len(ps)))
    IN
    /\ Len(rows) < N /\ ps \in Parents(c)
    /\ rows' = Append(rows, [parents |-> ps, lane |-> lane, line |-> line, below |-> s.below,
                             above |-> {LineAt(ids, i) : i \in waiting},
                             through |-> {LineAt(ids, i) : i \in {j \in DOMAIN lanes : lanes[j] # 0} \ (waiting \cup {lane})}])
    /\ lanes' = s.lanes /\ ids' = s.ids /\ opened' = s.opened
    /\ UNCHANGED <<refs, bots, done>>

\* `nameLines`: the nearest ref above on the row's line, else the merge that opened the line.
Above(r, i) == {j \in 1..i : j \in r /\ rows[j].line = rows[i].line}
\* The variant takes the topmost.
LabelTop(r, i) ==
    IF Above(r, i) # {} THEN [from |-> "ref", name |-> Min(Above(r, i))]
    ELSE [from |-> IF opened[rows[i].line] = 0 THEN "none" ELSE "merge", name |-> opened[rows[i].line]]
Label(r, i) ==
    IF Above(r, i) # {} THEN [from |-> "ref", name |-> Max(Above(r, i))]
    ELSE [from |-> IF opened[rows[i].line] = 0 THEN "none" ELSE "merge", name |-> opened[rows[i].line]]
\* What a merge took in by a line: the nearest ref below on it, or 0 for the name in the merge's subject.
Merged(r, i, k) ==
    LET below == {j \in i..N : j \in r /\ rows[j].line = rows[i].below[k].line} IN
    IF below = {} THEN 0 ELSE Min(below)

\* `tipFoldable`, `foldable`: the newest commit's ref is HEAD, the others' are branches.
TipFoldable(r, b, i) ==
    i \in b /\ Len(rows[i].parents) = 1 /\ rows[i].above = {} /\ Len(rows[i].below) = 1 /\ i \in r /\ i # 1
Foldable(r, b, i) ==
    /\ i > 1 /\ i \in b /\ i \notin r /\ Len(rows[i].parents) = 1 /\ Cardinality(rows[i].above) <= 1
    /\ Len(rows[i].below) = 1 /\ rows[i].below[1].line = rows[i].line
SameLine(i, j) == rows[i].lane = rows[j].lane /\ rows[i].line = rows[j].line /\ rows[i].through = rows[j].through
\* `foldBots`: where the run that begins at a row ends.
RunEnd(r, b, i) ==
    LET runs == {j \in i..N : \/ \A k \in i..j : TipFoldable(r, b, k)
                              \/ \A k \in i..j : Foldable(r, b, k) /\ SameLine(i, k)} IN
    Max(runs \cup {i})
\* The variant leaves a fold by the first row's lanes.
RowByFirst(i, j) == [from |-> i, to |-> j, into |-> rows[i].above \cup rows[i].through,
                     out |-> Range(rows[i].below) \cup rows[i].through]
\* `foldOf`: a fold is entered where its first row was, and left by every lane its rows leave by.
Row(i, j) == [from |-> i, to |-> j, into |-> rows[i].above \cup rows[i].through,
              out |-> UNION {Range(rows[k].below) : k \in i..j} \cup rows[i].through]
FoldBots(r, b) ==
    LET from[i \in 1..Beyond] == IF i = Beyond THEN <<>> ELSE <<Row(i, RunEnd(r, b, i))>> \o from[RunEnd(r, b, i) + 1]
    IN from[1]

\* The page is drawn: its refs are read and the bots' commits told apart.
Draw(r, b) ==
    /\ Len(rows) = N /\ ~ done /\ done' = TRUE /\ refs' = r /\ bots' = b
    /\ UNCHANGED <<lanes, ids, rows, opened>>

Next ==
    \/ \E ps \in UNION {Parents(c) : c \in Commits} : Lay(ps)
    \/ \E r \in SUBSET Commits, b \in BotSets : Draw(r, b)
Spec == Init /\ [][Next]_cgvars

\* The lines at a row's edges.
Into(i) == rows[i].above \cup rows[i].through
OutOf(i) == Range(rows[i].below) \cup rows[i].through
\* Every row begins where the one above it ends, with one line to a lane.
SeamsMeet ==
    /\ \A i \in DOMAIN rows : i > 1 => Into(i) = OutOf(i - 1)
    /\ \A i \in DOMAIN rows : \A x, y \in OutOf(i) : x.lane = y.lane => x = y
\* The edge to a parent runs from the commit, past every row between, to the parent, or off the page.
EdgesArrive ==
    \A i \in DOMAIN rows : \A k \in DOMAIN rows[i].parents :
        LET p == rows[i].parents[k]  x == rows[i].below[k] IN
        /\ \A j \in (i + 1)..Len(rows) : j < p => x \in rows[j].through
        /\ p \in DOMAIN rows => x \in rows[p].above
\* A row's label is a fact: the ref leads to the row by first parents with no other ref between,
\* or the merge leads to it by another parent and then first ones.
FirstParents(i) ==
    LET chain[j \in Nat] == IF j \notin DOMAIN rows THEN {} ELSE {j} \cup (IF rows[j].parents = <<>> THEN {} ELSE chain[rows[j].parents[1]])
    IN chain[i]
LabelsHold ==
    \A i \in Commits : LET l == Label(refs, i) IN
        /\ l.from = "ref" => i \in FirstParents(l.name) /\ FirstParents(l.name) \cap refs \cap ((l.name + 1)..i) = {}
        /\ l.from = "merge" => \E k \in 2..Len(rows[l.name].parents) : i \in FirstParents(rows[l.name].parents[k])
MergesHold ==
    \A i \in Commits : \A k \in 2..Len(rows[i].parents) :
        Merged(refs, i, k) # 0 => Merged(refs, i, k) \in FirstParents(rows[i].parents[k])
\* The folded list has every commit once, in order, its rows meet as the full list's do, and a fold of a line
\* hides no ref and no merge.
FoldsHold ==
    LET lite == FoldBots(refs, bots) IN
    /\ lite[1].from = 1 /\ lite[Len(lite)].to = N
    /\ \A i \in 2..Len(lite) : lite[i].from = lite[i - 1].to + 1 /\ lite[i].into = lite[i - 1].out
    /\ \A i \in DOMAIN lite : lite[i].from < lite[i].to =>
        /\ lite[i].from..lite[i].to \subseteq bots \ {1}
        /\ (\A k \in lite[i].from..lite[i].to : k \notin refs) \/ (\A k \in lite[i].from..lite[i].to : k \in refs)

(* What the graph draws is the history: every edge reaches its parent without a break, every name on a line is
   that line's, and folding the bots' commits loses no commit, no ref and no line beside them. *)
GraphReads == SeamsMeet /\ EdgesArrive /\ (done => LabelsHold /\ MergesHold /\ FoldsHold)
=============================================================================
