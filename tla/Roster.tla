-------------------------------- MODULE Roster --------------------------------
(***************************************************************************)
(* One machine's roster and its wire (roster.ts, synclink.ts): local       *)
(* stores keyed by path, a wire keyed by project id that also carries what *)
(* is not cloned here, and entries other machines send.                    *)
(*                                                                         *)
(* A path is its project.  "fav" stands for the entries of one project     *)
(* (favourite, colour, icon, agent, account, share), "order" for the one   *)
(* entry that speaks of all of them.                                       *)
(***************************************************************************)
EXTENDS Naturals, Sequences, SequencesExt

CONSTANTS Projects, MaxEdits, MaxArrivals

VARIABLES
    ids,            \* projects whose id is known here (resolveIds)
    favs, order,    \* the local stores
    wfavs, worder,  \* the wire; no order at all is <<>>
    owedNow, owedReveal,    \* keys owed at this moment's stamp, and at the oldest
    writing,        \* a store was written and rosterEdited has not run yet
    edits, arrivals

rvars == <<ids, favs, order, wfavs, worder, owedNow, owedReveal, writing, edits, arrivals>>

Orders == UNION {{s \in [1..n -> Projects] : \A i, j \in 1..n : s[i] = s[j] => i = j} : n \in 0..3}

\* rosterWire: a project with no id is not on the wire.  `Filter` is Array.filter, entry by entry.
MyFavs(i, f) == f \cap i
Filter(s, S) ==
    LET kept[n \in 0..Len(s)] ==
          IF n = 0 THEN <<>> ELSE IF s[n] \in S THEN Append(kept[n - 1], s[n]) ELSE kept[n - 1]
    IN kept[Len(s)]
MyOrder(i, o) == Filter(o, i)

\* mergeWire: what this machine cannot see is carried through.
MergeFavs(i, f, prev) == MyFavs(i, f) \cup (prev \ i)

\* The variant puts this machine's own order first.
MergeOrderLocalFirst(i, o, was) == MyOrder(i, o) \o Filter(was, Projects \ i)
MergeOrder(i, o, was) ==
    LET mine == MyOrder(i, o)
        seen == i \cap ToSet(mine)
        queue == Filter(mine, ToSet(was))
        shifts(k) == Cardinality({j \in 1..k : was[j] \in seen})
        laid == [k \in 1..Len(was) |-> IF was[k] \in seen THEN queue[shifts(k)] ELSE was[k]]
        slots == Filter(laid, seen \cup (Projects \ i))
    IN  slots \o Filter(mine, Projects \ ToSet(slots))

\* applyWire(order): a stable sort by rank, what the wire does not rank last.
ApplyOrder(i, o, w) ==
    LET ranked == i \cap ToSet(w) IN
    Filter(w, ranked \cap ToSet(o)) \o Filter(o, Projects \ ranked)

\* What waited for a project lands when its id does.
Landed(f, p) == f \cup (wfavs \cap {p})

Diff(f, o, f2, o2) == {p \in Projects : (p \in f) # (p \in f2)} \cup (IF o # o2 THEN {"order"} ELSE {})

InWire == wfavs \cup (IF worder # <<>> THEN {"order"} ELSE {})

-----------------------------------------------------------------------------
\* A store is written here: the edit is told apart only once every folder has been asked for.
Written ==
    /\ edits < MaxEdits /\ edits' = edits + 1 /\ writing' = TRUE
    /\ UNCHANGED <<ids, wfavs, worder, owedNow, owedReveal, arrivals>>

ToggleFavorite(p) ==
    /\ Written /\ UNCHANGED order
    /\ favs' = IF p \in favs THEN favs \ {p} ELSE favs \cup {p}

SetProjOrder(o) ==
    /\ Written /\ UNCHANGED favs
    /\ ToSet(order) \subseteq ToSet(o) /\ o # order /\ order' = o

\* rosterEdited(false)
RosterEdited ==
    LET f == MergeFavs(ids, favs, wfavs)
        o == MergeOrder(ids, order, worder) IN
    /\ writing /\ writing' = FALSE
    /\ wfavs' = f /\ worder' = o
    /\ owedNow' = owedNow \cup Diff(wfavs, worder, f, o)
    /\ owedReveal' = owedReveal \ Diff(wfavs, worder, f, o)
    /\ UNCHANGED <<ids, favs, order, edits, arrivals>>

\* What a reveal may send.  The variant sends all that differs.
RevealedAll(changed) == changed
Revealed(changed) == changed \ InWire

\* resolveIds: what waited for the project lands, then rosterEdited(true).
ResolveIds(p) ==
    LET i == ids \cup {p}
        f == Landed(favs, p)
        o == ApplyOrder(i, order, worder)
        mf == MergeFavs(i, f, wfavs)
        mo == MergeOrder(i, o, worder)
        new == Revealed(Diff(wfavs, worder, mf, mo))
    IN  /\ p \in Projects \ ids /\ p \in favs \cup ToSet(order)
        /\ ids' = i /\ favs' = f /\ order' = o
        /\ wfavs' = (wfavs \ new) \cup (mf \cap new)
        /\ worder' = IF "order" \in new THEN mo ELSE worder
        /\ owedReveal' = owedReveal \cup new /\ owedNow' = owedNow \ new
        /\ UNCHANGED <<writing, edits, arrivals>>

\* apply(roster): an entry that wins over what this machine stamped.
Arrived(k) ==
    /\ arrivals < MaxArrivals /\ arrivals' = arrivals + 1
    /\ owedNow' = owedNow \ {k} /\ owedReveal' = owedReveal \ {k}
    /\ UNCHANGED <<ids, writing, edits>>

ArriveFav(p, there) ==
    /\ Arrived(p)
    /\ wfavs' = IF there THEN wfavs \cup {p} ELSE wfavs \ {p}
    /\ favs' = IF p \notin ids THEN favs ELSE IF there THEN favs \cup {p} ELSE favs \ {p}
    /\ UNCHANGED <<order, worder>>

ArriveOrder(o) ==
    /\ Arrived("order")
    /\ worder' = o /\ order' = ApplyOrder(ids, order, o)
    /\ UNCHANGED <<favs, wfavs>>

Init ==
    /\ ids = {} /\ favs \in SUBSET Projects /\ order \in Orders
    /\ wfavs = {} /\ worder = <<>> /\ owedNow = {} /\ owedReveal = {}
    /\ writing = FALSE /\ edits = 0 /\ arrivals = 0

Next ==
    \/ RosterEdited
    \/ \E p \in Projects : ResolveIds(p) \/ ToggleFavorite(p) \/ \E there \in BOOLEAN : ArriveFav(p, there)
    \/ \E o \in Orders : SetProjOrder(o) \/ ArriveOrder(o)

Spec == Init /\ [][Next]_rvars

-----------------------------------------------------------------------------
(* Properties. *)

\* "no machine ever sends the absence of what it cannot see" (mergeWire): nothing done here takes a
\* project that is not cloned here off the wire, or out of its slot while no other one goes.  And an id
\* that resolves never owes an entry the wire has already (rosterEdited's reveal).
CarriedThrough == [][
    /\ arrivals' = arrivals =>
        /\ wfavs \ ids' \subseteq wfavs'
        /\ (ToSet(worder) \subseteq ToSet(worder') =>
              \A k \in DOMAIN worder : worder[k] \notin ids' => worder'[k] = worder[k])
        /\ ToSet(worder) \ ids' \subseteq ToSet(worder')
    /\ ids' # ids => owedReveal' \cap InWire \subseteq owedReveal]_rvars
=============================================================================
