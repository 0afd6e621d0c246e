------------------------------ MODULE Lifecycle ------------------------------
(***************************************************************************)
(* The panes, their processes and the shelf: panes.ts (launch, adopt,      *)
(* close, shelve), mirror.ts (the roster, resume, forget) and the moves of *)
(* actions.ts that stop one process to start another.                      *)
(*                                                                         *)
(* A conversation is named by the pane that began it.  The backend         *)
(* survives a reload of the window, the roster in localStorage everything. *)
(* Only conversations that have a transcript are modelled.                 *)
(***************************************************************************)
EXTENDS Naturals, FiniteSets

CONSTANTS
    Panes,      \* bound: every pane there will be, as 1..n
    Reloads,    \* bound: how often the window reloads or the app quits
    Acts,       \* bound: how much the person does
    Hasty       \* whether the person acts on what is still being started, stopped or read

VARIABLES
    win,        \* "adopting", "reading" (loadDormants) or "up"
    pane,       \* sessions: NoPane or [res: resumeId, home, shown]
    conv,       \* the conversation each pane's process ever carried, 0 before it
    proc,       \* the backend's process: "none", "failed", "run", "dying" (killed) or "gone"
    asked,      \* panes whose spawn the window has not heard of yet
    shelf,      \* dormants: rows [id, conv, dir]
    stored,     \* cc-restore
    queued,     \* a roster save is due
    reading,    \* the rows loadDormants is reconciling
    seen,       \* backendLive
    file,       \* where each conversation's transcript is: "main" or "tree"
    flow,       \* what waits for a pane's exit: "no", "account", "move", or "moving" past it
    resumed,    \* history: the panes a shelf row was resumed in
    over,       \* history: the conversations the person closed or took off the shelf
    reloads, acts
lvars == <<win, pane, conv, proc, asked, shelf, stored, queued, reading, seen, file, flow, resumed, over, reloads, acts>>

NoPane == [res |-> 0]
IsOpen(panes) == {p \in Panes : panes[p] # NoPane}
Held == {p \in Panes : proc[p] = "run"}
Fresh == {p \in Panes : conv[p] = 0 /\ \A o \in 1 .. p - 1 : conv[o] # 0}
Other(dir) == IF dir = "main" THEN "tree" ELSE "main"
\* What waits for p's launch, or for its end, is left alone by a person who is not hasty.
Settled(p) == Hasty \/ (flow[p] = "no" /\ p \notin asked /\ win = "up")

Act == acts < Acts /\ acts' = acts + 1

-----------------------------------------------------------------------------
(* The roster.                                                              *)

\* `rosterEntry`: a tracked pane resumes where its transcript is.  The variant takes where it is shown.
RosterEntryShown(p, q) == [id |-> p, conv |-> q.res, dir |-> q.shown]
RosterEntry(p, q) == [id |-> p, conv |-> q.res, dir |-> q.home]

\* `saveRoster`: the open panes, and the rows of what is not open.
Roster(panes, rows) ==
    {RosterEntry(p, panes[p]) : p \in IsOpen(panes)} \cup {r \in rows : r.id \notin IsOpen(panes)}
\* Not before it has been read.  The variant does not wait.
SaveUnread(panes, rows) == Roster(panes, rows)
SaveRoster(panes, rows) == IF win = "up" THEN Roster(panes, rows) ELSE stored
Flush(panes, rows) == stored' = SaveRoster(panes, rows) /\ queued' = FALSE
FlushRoster ==
    /\ queued /\ Flush(pane, shelf)
    /\ UNCHANGED <<acts, win, pane, conv, proc, asked, shelf, reading, seen, file, flow, resumed, over, reloads>>

\* `refreshExternals`: what the backend holds.
RefreshExternals ==
    /\ seen # Held /\ seen' = Held
    /\ UNCHANGED <<acts, win, pane, conv, proc, asked, shelf, stored, queued, reading, file, flow, resumed, over, reloads>>

-----------------------------------------------------------------------------
(* Panes.                                                                   *)

Init ==
    /\ win = "up" /\ asked = {} /\ shelf = {} /\ queued = FALSE /\ reading = {} /\ seen = {}
    /\ pane = [p \in Panes |-> IF p = 1 THEN [res |-> 1, home |-> "main", shown |-> "main"] ELSE NoPane]
    /\ conv = [p \in Panes |-> IF p = 1 THEN 1 ELSE 0]
    /\ proc = [p \in Panes |-> IF p = 1 THEN "run" ELSE "none"]
    /\ stored = {[id |-> 1, conv |-> 1, dir |-> "main"]}
    /\ file = [p \in Panes |-> "main"] /\ flow = [p \in Panes |-> "no"] /\ resumed = {} /\ over = {} /\ reloads = 0 /\ acts = 0

\* `launch`: the pane, and the process, which may not start; the answer comes later.
Launched(p, c, dir, panes, procs) ==
    /\ pane' = [panes EXCEPT ![p] = [res |-> c, home |-> dir, shown |-> dir]]
    /\ conv' = [conv EXCEPT ![p] = c] /\ asked' = asked \cup {p}
    /\ \E o \in {"run", "failed"} : proc' = [procs EXCEPT ![p] = o]
Launch ==
    /\ Act
    /\ \E p \in Fresh : Launched(p, p, file[p], pane, proc)
    /\ queued' = TRUE
    /\ UNCHANGED <<win, shelf, stored, reading, seen, file, flow, resumed, over, reloads>>

\* A conversation that runs again loses its row, unless the spawn failed.
RowsAfter(p) == IF conv[p] # p /\ proc[p] # "failed" THEN {r \in shelf : r.conv # conv[p]} ELSE shelf
Spawned(p) ==
    /\ p \in asked /\ asked' = asked \ {p}
    /\ shelf' = RowsAfter(p)
    /\ UNCHANGED <<acts, win, pane, conv, proc, stored, queued, reading, seen, file, flow, resumed, over, reloads>>

Killed(p) == IF proc[p] = "run" THEN [proc EXCEPT ![p] = "dying"] ELSE proc
Exit(p) ==
    /\ proc[p] \in {"run", "dying"} /\ proc' = [proc EXCEPT ![p] = "gone"]
    /\ UNCHANGED <<acts, win, pane, conv, asked, shelf, stored, queued, reading, seen, file, flow, resumed, over, reloads>>

\* `closeSession`, and what of it the ✕ means.
Without(p) == [pane EXCEPT ![p] = NoPane]
Close(p) ==
    /\ Act
    /\ pane[p] # NoPane /\ Settled(p)
    /\ pane' = Without(p) /\ proc' = Killed(p) /\ Flush(pane', shelf)
    /\ over' = IF proc[p] = "failed" /\ p \in resumed THEN over ELSE over \cup {pane[p].res}
    /\ UNCHANGED <<win, conv, asked, shelf, reading, seen, file, flow, resumed, reloads>>
\* `shelveSession`: the row first, then the close, whose flush keeps it.
ShelvedRow(p) == {RosterEntry(p, pane[p])} \cup {r \in shelf : r.id # p}
Shelve(p) ==
    /\ Act
    /\ pane[p] # NoPane /\ Settled(p)
    /\ shelf' = ShelvedRow(p) /\ seen' = seen \ {p}
    /\ pane' = Without(p) /\ proc' = Killed(p) /\ Flush(pane', shelf')
    /\ UNCHANGED <<win, conv, asked, reading, file, flow, resumed, over, reloads>>

\* `dormantBusy`, `resumeDormant`, `forgetDormant`.  The variant looks for the row's own pane alone.
BusyAsRow(r) == pane[r.id] # NoPane \/ r.id \in seen
DormantBusy(r) == r.id \in seen \/ \E p \in IsOpen(pane) : p = r.id \/ pane[p].res = r.conv
Resume(r) ==
    /\ Act
    /\ ~ DormantBusy(r)
    /\ \E p \in Fresh : Launched(p, r.conv, r.dir, pane, proc) /\ resumed' = resumed \cup {p}
    /\ queued' = TRUE
    /\ UNCHANGED <<win, shelf, stored, reading, seen, file, flow, over, reloads>>
Forget(r) ==
    /\ Act
    /\ shelf' = {x \in shelf : x.id # r.id} /\ Flush(pane, shelf')
    /\ over' = over \cup {r.conv}
    /\ UNCHANGED <<win, pane, conv, proc, asked, reading, seen, file, flow, resumed, reloads>>

-----------------------------------------------------------------------------
(* A session shown, or moved, elsewhere.                                    *)

\* `followSessionDrift` "track" and "back": the process stays put.
Track(p) ==
    /\ Act
    /\ pane[p] # NoPane /\ Settled(p)
    /\ pane' = [pane EXCEPT ![p].shown = Other(@)] /\ queued' = TRUE
    /\ UNCHANGED <<win, conv, proc, asked, shelf, stored, reading, seen, file, flow, resumed, over, reloads>>
\* `stopForTranscript`, for another account or another folder.
Stop(p) ==
    /\ Act
    /\ pane[p] # NoPane /\ proc[p] = "run" /\ Settled(p) /\ flow[p] = "no"
    /\ \E f \in {"account", "move"} : flow' = [flow EXCEPT ![p] = f]
    /\ proc' = Killed(p)
    /\ UNCHANGED <<win, pane, conv, asked, shelf, stored, queued, reading, seen, file, resumed, over, reloads>>
\* Its exit was heard, or five seconds went by: `resumeOnAccount` starts it again where it was ...
Continue(p) ==
    /\ flow[p] = "account" /\ flow' = [flow EXCEPT ![p] = "no"]
    /\ \E n \in Fresh : Launched(n, conv[p], file[conv[p]], Without(p), Killed(p))
    /\ stored' = SaveRoster(Without(p), shelf) /\ queued' = TRUE
    /\ UNCHANGED <<acts, win, shelf, reading, seen, file, resumed, over, reloads>>
\* ... and a move closes it first, and starts it where its transcript then is.
CloseToMove(p) ==
    /\ flow[p] = "move" /\ flow' = [flow EXCEPT ![p] = "moving"] /\ Fresh # {}
    /\ pane' = Without(p) /\ proc' = Killed(p) /\ Flush(pane', shelf)
    /\ UNCHANGED <<acts, win, conv, asked, shelf, reading, seen, file, resumed, over, reloads>>
Moved(p) ==
    /\ flow[p] = "moving" /\ flow' = [flow EXCEPT ![p] = "no"]
    /\ \E moved \in BOOLEAN, n \in Fresh :
        /\ Launched(n, conv[p], IF moved THEN Other(file[conv[p]]) ELSE file[conv[p]], pane, proc)
        /\ file' = [file EXCEPT ![conv[p]] = IF moved THEN Other(@) ELSE @]
    /\ queued' = TRUE
    /\ UNCHANGED <<acts, win, shelf, stored, reading, seen, resumed, over, reloads>>

-----------------------------------------------------------------------------
(* The window goes, with the processes (a quit) or without, and comes back. *)

\* The roster has every open pane: none was launched before it was read.
Known == IsOpen(pane) \subseteq {r.id : r \in stored}
Reload ==
    /\ reloads < Reloads /\ reloads' = reloads + 1
    /\ Hasty \/ (asked = {} /\ (\A p \in Panes : flow[p] = "no") /\ (win = "up" \/ Known))
    /\ win' = "adopting" /\ Flush(pane, shelf)
    /\ pane' = [p \in Panes |-> NoPane] /\ shelf' = {} /\ asked' = {} /\ reading' = {} /\ seen' = {}
    /\ flow' = [p \in Panes |-> "no"]
    /\ \/ UNCHANGED proc
       \/ proc' = [p \in Panes |-> IF proc[p] \in {"run", "dying"} THEN "gone" ELSE proc[p]]
    /\ UNCHANGED <<conv, file, resumed, over, acts>>

\* `adoptOrphans`: a pane for each process the backend holds, under its roster row if it has one;
\* then loadDormants reads the roster for the rest.
Adopted(p) ==
    IF \E r \in stored : r.id = p
    THEN LET r == CHOOSE x \in stored : x.id = p IN [res |-> r.conv, home |-> r.dir, shown |-> r.dir]
    ELSE [res |-> p, home |-> file[conv[p]], shown |-> file[conv[p]]]
AdoptOrphans ==
    /\ win = "adopting" /\ win' = "reading"
    /\ pane' = [p \in Panes |-> IF p \in Held /\ pane[p] = NoPane THEN Adopted(p) ELSE pane[p]]
    /\ reading' = {r \in stored : r.id \notin IsOpen(pane')}
    /\ UNCHANGED <<acts, conv, proc, asked, shelf, stored, queued, seen, file, flow, resumed, over, reloads>>
LoadDormants ==
    /\ win = "reading" /\ win' = "up"
    /\ shelf' = reading /\ reading' = {}
    /\ stored' = Roster(pane, reading) /\ queued' = FALSE
    /\ UNCHANGED <<acts, pane, conv, proc, asked, seen, file, flow, resumed, over, reloads>>

Next ==
    \/ FlushRoster \/ RefreshExternals \/ Launch \/ Reload \/ AdoptOrphans \/ LoadDormants
    \/ \E p \in Panes : \/ Spawned(p) \/ Exit(p) \/ Close(p) \/ Shelve(p) \/ Track(p)
                        \/ Stop(p) \/ Continue(p) \/ CloseToMove(p) \/ Moved(p)
    \/ \E r \in shelf : Resume(r) \/ Forget(r)
Spec == Init /\ [][Next]_lvars

-----------------------------------------------------------------------------
\* A conversation nobody closed stays in reach: it has a pane, or a row on the shelf, or is on its
\* way to another pane; and before the roster has been read it is in the roster.
Conversations == {conv[p] : p \in Panes} \ ({0} \cup over)
Reach ==
    {pane[p].res : p \in Panes} \cup {conv[p] : p \in {x \in Panes : flow[x] # "no"}}
        \cup {r.conv : r \in IF win = "up" THEN shelf ELSE stored}
        \cup (IF win = "adopting" THEN {conv[p] : p \in Held} ELSE {})
ConversationKept == Conversations \subseteq Reach

\* No two processes carry on one conversation (those told to stop aside).
OneProcessEach == \A p, q \in Held : conv[p] = conv[q] => p = q

\* "restore must target the folder the transcript is in": where a row or the roster would resume.
RowsFindTranscripts ==
    \A r \in shelf \cup (IF win = "up" THEN {} ELSE stored) : r.dir = file[r.conv]

\* "it can't be restored until the other one exits" (mirror.ts): nor one told to stop and still there.
StartsAfterExit ==
    \A p, q \in Panes : proc[p] = "run" /\ proc[q] = "dying" /\ conv[p] = conv[q] => p = q
=============================================================================
