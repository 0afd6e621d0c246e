------------------------------- MODULE Servers -------------------------------
(* The background shells of one session: records made from the agent's hooks, filled in by polls of the
   shells' logs and of the ports the kernel reports, and ended by whichever of five ends comes first
   (servers.ts, serversui.ts). The answer of a poll is of the time it was taken. *)
EXTENDS Naturals, Sequences

CONSTANTS
    Shells,     \* the shells the agent starts; shell n listens on port n, if on any
    Natures,    \* what the shells do: see nature
    Hasty,      \* whether a poll may be answered while a kill is under way
    Acts        \* how often shells, the agent and the user act

VARIABLES
    nature,     \* nature[n]: "job", "talks" (listens and prints its address), "mute" or "late" (listens only)
    shell,      \* shell[n]: "", "up", "failed" or "finished" by itself, "stopped" by the agent, "killed" by the user
    log,        \* log[n]: what its log holds: absent or not, its address, its last line
    hooks,      \* what the agent has reported and the window has not read
    isOver,     \* whether the pane's exit has been handled
    rec,        \* rec[n]: the record (BgServer), None until the hook
    asksPorts,  \* a poll of the ports that has been taken and not answered
    logReads,   \* a read of a log that has been taken and not applied, if any
    asked,      \* the port the user is being asked about, 0 when none
    killing,    \* the port a kill is under way for, 0 when none
    unnamed,    \* shells the user killed by a port their record had not named
    serverActs

svvars == <<nature, shell, log, hooks, isOver, rec, asksPorts, logReads, asked, killing, unnamed, serverActs>>

None == [url |-> 0, why |-> "none", red |-> FALSE, missed |-> FALSE]
Blank == [None EXCEPT !.why = ""]
Live(r) == {n \in Shells : r[n].why = ""}
NoPoll == {0}
Act == serverActs < Acts /\ serverActs' = serverActs + 1

Init ==
    /\ nature \in Natures
    /\ shell = [n \in Shells |-> ""] /\ log = [n \in Shells |-> [there |-> FALSE, url |-> FALSE, last |-> ""]]
    /\ hooks = <<>> /\ isOver = FALSE /\ rec = [n \in Shells |-> None]
    /\ asksPorts = NoPoll /\ logReads = {} /\ asked = 0 /\ killing = 0 /\ unnamed = {} /\ serverActs = 0

\* ---- the agent and its shells

AgentRuns == ~isOver /\ \A i \in DOMAIN hooks : hooks[i] # <<"exit", 0>>

Start(n) ==
    /\ shell[n] = "" /\ AgentRuns
    /\ \A m \in Shells : m < n => shell[m] # ""
    /\ shell' = [shell EXCEPT ![n] = "up"] /\ hooks' = Append(hooks, <<"start", n>>)
    /\ UNCHANGED <<nature, log, isOver, rec, asksPorts, logReads, asked, killing, unnamed, serverActs>>

Writes(n) ==
    /\ shell[n] = "up"
    /\ \/ ~log[n].there /\ log' = [log EXCEPT ![n].there = TRUE]
       \/ log[n].there /\ ~log[n].url /\ nature[n] = "talks" /\ log' = [log EXCEPT ![n].url = TRUE]
    /\ UNCHANGED <<nature, shell, hooks, isOver, rec, asksPorts, logReads, asked, killing, unnamed, serverActs>>

\* A shell ends, with or without a last line.
Exits(n, how) ==
    /\ shell[n] = "up" /\ Act /\ shell' = [shell EXCEPT ![n] = how]
    /\ \E last \in {how, "unknown", ""} : log' = [log EXCEPT ![n].last = last, ![n].there = @ \/ last # ""]
    /\ UNCHANGED <<nature, hooks, isOver, rec, asksPorts, logReads, asked, killing, unnamed>>

\* TaskStop: the shell is killed, its last line says so, and the call is reported.
Stops(n) ==
    /\ shell[n] = "up" /\ AgentRuns /\ Act
    /\ shell' = [shell EXCEPT ![n] = "stopped"]
    /\ log' = [log EXCEPT ![n].last = "stopped", ![n].there = TRUE]
    /\ hooks' = Append(hooks, <<"stop", n>>)
    /\ UNCHANGED <<nature, isOver, rec, asksPorts, logReads, asked, killing, unnamed>>

AgentExits ==
    /\ AgentRuns /\ Act /\ hooks' = Append(hooks, <<"exit", 0>>)
    /\ UNCHANGED <<nature, shell, log, isOver, rec, asksPorts, logReads, asked, killing, unnamed>>

\* ---- the window

\* No ending replaces an earlier one.
EndBg(r, why, red) == IF r.why = "" THEN [r EXCEPT !.why = why, !.red = red] ELSE r

Hook ==
    /\ hooks # <<>> /\ hooks' = Tail(hooks)
    /\ LET kind == Head(hooks)[1] n == Head(hooks)[2] IN
       /\ rec' = CASE kind = "start" -> [rec EXCEPT ![n] = Blank]
                   [] kind = "stop" -> [rec EXCEPT ![n] = EndBg(@, "asked", FALSE)]
                   [] OTHER -> [m \in Shells |-> EndBg(rec[m], "session", FALSE)]
       /\ isOver' = (isOver \/ kind = "exit")
    /\ UNCHANGED <<nature, shell, log, asksPorts, logReads, asked, killing, unnamed, serverActs>>

Listening == {n \in Shells : shell[n] = "up" /\ nature[n] # "job"}
PollPorts ==
    /\ asksPorts = NoPoll /\ Live(rec) # {} /\ Act /\ asksPorts' = Listening
    /\ UNCHANGED <<nature, shell, log, hooks, isOver, rec, logReads, asked, killing, unnamed>>

Single(S) == \E x \in S : S = {x}
\* One silent record and one port nobody has named are each other; a command that only timed out never adopts.
PortsAnswered ==
    /\ asksPorts # NoPoll /\ asksPorts' = NoPoll
    /\ LET loose == asksPorts \ {rec[n].url : n \in Live(rec)}
           silent == {n \in Live(rec) : rec[n].url = 0 /\ nature[n] # "late"} IN
       rec' = IF Single(loose) /\ Single(silent)
              THEN [n \in Shells |-> IF n \in silent THEN [rec[n] EXCEPT !.url = CHOOSE p \in loose : TRUE] ELSE rec[n]]
              ELSE rec
    /\ UNCHANGED <<nature, shell, log, hooks, isOver, logReads, asked, killing, unnamed, serverActs>>

\* The poll reads the logs of the live records only, the answer applies to the record whatever became of it.
ReadLog(n) ==
    /\ rec[n].why = "" /\ logReads = {} /\ logReads' = logReads \cup {<<n, log[n]>>}
    /\ Hasty \/ killing = 0
    /\ UNCHANGED <<nature, shell, log, hooks, isOver, rec, asksPorts, asked, killing, unnamed, serverActs>>

\* applyBgLog: the address, and the end the last line announces.
Found(r, n, text) ==
    LET seen == [r EXCEPT !.missed = FALSE, !.url = IF text.url THEN n ELSE @] IN
    IF text.last = "" THEN seen
    ELSE EndBg(seen, IF text.last = "unknown" THEN "unknown" ELSE "sentinel", text.last \in {"failed", "killed"})

\* applyBgMiss and bgRetire: only a record that named no address, and has been missing its log for long.
Missing(r, long) == IF r.missed /\ long /\ r.url = 0 THEN EndBg(r, "stale", FALSE) ELSE [r EXCEPT !.missed = TRUE]

LogAnswered ==
    \E got \in logReads, long \in BOOLEAN :
       /\ Hasty \/ killing = 0
       /\ logReads' = logReads \ {got}
       /\ rec' = [rec EXCEPT ![got[1]] = IF got[2].there THEN Found(@, got[1], got[2]) ELSE Missing(@, long)]
       /\ UNCHANGED <<nature, shell, log, hooks, isOver, asksPorts, asked, killing, unnamed, serverActs>>

\* ---- the user

\* A port has a row of its own, with a kill, while no live record names it; the question stays up for a while.
AskKill(p) ==
    /\ asked = 0 /\ killing = 0 /\ p \in Listening /\ p \notin {rec[n].url : n \in Live(rec)} /\ Act /\ asked' = p
    /\ UNCHANGED <<nature, shell, log, hooks, isOver, rec, asksPorts, logReads, killing, unnamed>>

\* kill_listener: whatever holds the port dies, and its shell's last line says with which code.
KillPort ==
    /\ asked # 0 /\ asked' = 0
    /\ Hasty \/ logReads = {}
    /\ IF asked \in Listening
       THEN /\ killing' = asked /\ shell' = [shell EXCEPT ![asked] = "killed"]
            /\ log' = [log EXCEPT ![asked].last = "killed", ![asked].there = TRUE]
            /\ unnamed' = IF rec[asked].url = asked THEN unnamed ELSE unnamed \cup {asked}
       ELSE UNCHANGED <<shell, log, killing, unnamed>>
    /\ UNCHANGED <<nature, hooks, isOver, rec, asksPorts, logReads, serverActs>>

\* The variant of what follows marks every live record.
MarkedAll(p) == Live(rec)
\* markKilled: the live records that named the port end as stopped.
Marked(p) == {n \in Live(rec) : rec[n].url = p}

KillAnswered ==
    /\ killing # 0 /\ killing' = 0
    /\ rec' = [n \in Shells |-> IF n \in Marked(killing) THEN EndBg(rec[n], "asked", FALSE) ELSE rec[n]]
    /\ UNCHANGED <<nature, shell, log, hooks, isOver, asksPorts, logReads, asked, unnamed, serverActs>>

Forget(n) ==
    /\ rec[n].why \notin {"none", ""} /\ rec[n].red /\ Act
    /\ rec' = [rec EXCEPT ![n] = None]
    /\ UNCHANGED <<nature, shell, log, hooks, isOver, asksPorts, logReads, asked, killing, unnamed>>

Next ==
    \/ \E n \in Shells : Start(n) \/ Writes(n) \/ Stops(n) \/ ReadLog(n) \/ AskKill(n) \/ Forget(n)
    \/ \E n \in Shells, how \in {"failed", "finished"} : Exits(n, how)
    \/ AgentExits \/ Hook \/ PollPorts \/ PortsAnswered \/ LogAnswered \/ KillPort \/ KillAnswered

Spec == Init /\ [][Next]_svvars

\* A record's end is what became of its shell: red only for one that failed by itself, "stopped" never for
\* one that runs on, unless its row had adopted the port of another (reconcilePorts), and not for one the user
\* killed by a port its record had named (markKilled); and once the pane has exited, none is left that looks alive (endBg).
EndsAreEarned ==
    \A n \in Shells : LET r == rec[n] IN
       /\ r.red => shell[n] = "failed" \/ n \in unnamed
       /\ r.why \in {"asked", "sentinel", "unknown"} => shell[n] # "up" \/ r.url \notin {0, n}
       /\ isOver => r.why # ""
=============================================================================
