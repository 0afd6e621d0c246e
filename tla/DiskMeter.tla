------------------------------ MODULE DiskMeter ------------------------------
(***************************************************************************)
(* The daily disk rollup (usage.ts): a counter of what this run wrote is   *)
(* polled, its increments are booked to the days they fell on, and what a  *)
(* self-update of `claude` wrote is taken off again.  Reads are booked the *)
(* same way and have no discount; they are left out.                       *)
(***************************************************************************)
EXTENDS Naturals, FiniteSetsExt

CONSTANTS
    Days,       \* 1..n
    TTL,        \* IO_CREDIT_TTL_MS, in polls
    Reloads,    \* whether the window is reloaded while the app, and its counter, stay up
    Most, Acts  \* bounds: MiB written, and by updates; polls, midnights and restarts

VARIABLES
    today, written,     \* the day, and the counter: it starts with the app
    binary,             \* MiB of `claude` on disk
    seenBinary,         \* instPrev; 0 is none
    prev,               \* ioPrev, and the day of ioPrevAt: 0 is none
    credit, age,        \* ioCredit, and the polls since it last grew
    excluded,           \* ioExcluded
    dayIo, stored, dirty,   \* the rollup, its stored copy, ioDirty
    ioDay,
    wrote, updates, lost,   \* history: MiB written by sessions, by updates, and never booked when a run ended
    acts
dmvars == <<today, written, binary, seenBinary, prev, credit, age, excluded, dayIo, stored, dirty, ioDay, wrote, updates, lost, acts>>

Lesser(a, b) == IF a < b THEN a ELSE b
Less(a, b) == IF a > b THEN a - b ELSE 0
Total(f) == FoldSet(LAMBDA d, n : f[d] + n, 0, DOMAIN f)
Zero == [d \in Days |-> 0]

Init ==
    /\ today = 1 /\ written = 0 /\ binary = 1 /\ seenBinary = 0 /\ prev = [w |-> 0, day |-> 0]
    /\ credit = 0 /\ age = 0 /\ excluded = 0 /\ dayIo = Zero /\ stored = Zero /\ dirty = FALSE /\ ioDay = 0
    /\ wrote = 0 /\ updates = 0 /\ lost = 0 /\ acts = 0
Act == acts < Acts /\ acts' = acts + 1

\* A session's process writes; or an update does, of a session or of a `claude` outside.
Writes ==
    /\ wrote < Most /\ wrote' = wrote + 1 /\ written' = written + 1
    /\ UNCHANGED <<today, binary, seenBinary, prev, credit, age, excluded, dayIo, stored, dirty, ioDay, updates, lost, acts>>
Installed(mine) ==
    /\ updates < Most /\ updates' = updates + 1 /\ binary' = binary + 1
    /\ (mine => wrote < Most) /\ wrote' = (IF mine THEN wrote + 1 ELSE wrote) /\ written' = (IF mine THEN written + 1 ELSE written)
    /\ UNCHANGED <<today, seenBinary, prev, credit, age, excluded, dayIo, stored, dirty, ioDay, lost, acts>>
Midnight ==
    /\ Act /\ today + 1 \in Days /\ today' = today + 1
    /\ UNCHANGED <<written, binary, seenBinary, prev, credit, age, excluded, dayIo, stored, dirty, ioDay, wrote, updates, lost>>

\* `splitIo`: an increment over the days its window covers, by wall-clock share.
Splits(w, from, to) ==
    IF from \in {0, to} THEN {[Zero EXCEPT ![to] = w]}
    ELSE {f \in [Days -> 0..w] : Total(f) = w /\ \A d \in Days \ (from..to) : f[d] = 0}

\* What may be given back: no more than this run reported.  The variant forgets what was.
RoomAll(w) == w
Room(w) == Less(w, excluded)

\* `addIo`.  `due`: IO_SAVE_FLOOR_MS has gone by.
AddIo(due) ==
    LET grown == IF seenBinary = 0 THEN 0 ELSE Less(binary, seenBinary)
        has == IF grown > 0 THEN credit + grown ELSE IF age >= TTL THEN 0 ELSE credit
        w == Less(written, prev.w)
        first == Lesser(has, Lesser(w, Room(written)))
        retro == Lesser(has - first, Lesser(dayIo[today], Less(Room(written), first)))
        parts == Splits(w - first, prev.day, today)
        rolled == w > first /\ (prev.day \notin {0, today} \/ ioDay \notin {0, today})
        marked == dirty \/ retro > 0 \/ w > first
        flush == marked /\ (w > first \/ first + retro > 0) /\ (rolled \/ retro > 0 \/ due)
    IN  /\ Act
        /\ seenBinary' = binary /\ prev' = [w |-> written, day |-> today]
        /\ credit' = has - first - retro /\ age' = (IF grown > 0 THEN 0 ELSE Lesser(age + 1, TTL))
        /\ excluded' = excluded + first + retro
        /\ \E f \in parts : dayIo' = [d \in Days |-> dayIo[d] + f[d] - (IF d = today THEN retro ELSE 0)]
        /\ ioDay' = (IF w > first THEN today ELSE ioDay)
        /\ dirty' = (marked /\ ~ flush) /\ stored' = (IF flush THEN dayIo' ELSE stored)
        /\ UNCHANGED <<today, written, binary, wrote, updates, lost>>

\* Quitting stores the rollup (flushIo); a crash does not.  The counter starts with the app.
Restart(quits, reload) ==
    /\ Act /\ (reload => Reloads)
    /\ stored' = (IF quits THEN dayIo ELSE stored) /\ dayIo' = stored' /\ dirty' = FALSE /\ ioDay' = 0
    /\ seenBinary' = 0 /\ prev' = [w |-> 0, day |-> 0] /\ credit' = 0 /\ age' = 0 /\ excluded' = 0
    /\ IF reload THEN UNCHANGED <<written, lost>>
       ELSE written' = 0 /\ lost' = lost + (written - prev.w) + (Total(dayIo) - Total(dayIo'))
    /\ UNCHANGED <<today, binary, wrote, updates>>

Next ==
    \/ Writes \/ Midnight
    \/ \E mine \in BOOLEAN : Installed(mine)
    \/ \E due \in BOOLEAN : AddIo(due)
    \/ \E quits, reload \in BOOLEAN : Restart(quits, reload)
Spec == Init /\ [][Next]_dmvars

-----------------------------------------------------------------------------
\* The days add up to what sessions wrote: never more of it, and no less than what updates, and runs
\* that ended unread, account for; and no run gives back more than it reported (addIo).
MeterBalances ==
    /\ Total(dayIo) <= wrote
    /\ wrote <= Total(dayIo) + (written - prev.w) + updates + lost
    /\ excluded <= written
    /\ \A d \in Days : dayIo[d] >= 0
=============================================================================
