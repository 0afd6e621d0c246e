-------------------------------- MODULE Limits -------------------------------
(***************************************************************************)
(* Whose usage limits are shown (rl.ts, phase.ts applyStatusline): panes   *)
(* repeat the figures of their last answer, `/login` changes the account   *)
(* under them, setup-token panes keep their own, other machines send       *)
(* theirs, windows rotate, and the meters show one account at a time.      *)
(***************************************************************************)
EXTENDS Integers, Sequences

CONSTANTS
    Follows, Own,       \* panes that follow the login, and panes launched on the setup token
    Settled,            \* whether `/login` waits until every answer of the old account is reported
    Early,              \* whether another machine's figures come before this one knows who is logged in
    Most, Plans         \* a full window; what each behaviour may spend

VARIABLES
    now, used, login,   \* the time; what each account used of its window; who `claude` is logged in as
    flight, api, cache, \* each pane: the account of its request out, its API clock, the figures of its last answer
    apiMs, ui,          \* the last API clock the window heard of each pane (-1: none), and what it knows of accounts
    probing, wire,      \* whom the per-model probe runs as; another machine's figures on their way
    over, todo          \* history: how full each window ended; what the behaviour may still spend
lmvars == <<now, used, login, flight, api, cache, apiMs, ui, probing, wire, over, todo>>

None == 0
Logins == {1, 2}
Tok == 3
Accounts == Logins \cup {Tok}
Panes == Follows \cup Own

NoWin == [pct |-> -1, reset |-> -1]
NoFigures == [h5 |-> NoWin, week |-> FALSE, wins |-> None]

\* The accounts' windows end at different times.
ResetOf(a) == now + 1 + ((now + 1 + a) % 2)
True(a) == [pct |-> used[a], reset |-> ResetOf(a)]

\* The variant takes the newest reading.
MergeLast(cur, new) == new

\* `mergeRl`: a later window replaces, an earlier one is a lagging pane's, the same one climbs.
MergeRl(cur, new) ==
    IF cur = NoWin \/ new.reset > cur.reset THEN new
    ELSE IF new.reset < cur.reset THEN cur
    ELSE [cur EXCEPT !.pct = IF new.pct > @ THEN new.pct ELSE @]
\* `slotNow`, `saveAccts`
SlotNow(u) == [h5 |-> u.rl.h5, week |-> u.rl.week, wins |-> u.wins]
With(slots, a, f) == [b \in DOMAIN slots \cup {a} |-> IF b = a THEN f ELSE slots[b]]
Kept(u) == IF u.account = None THEN u.slots ELSE With(u.slots, u.account, SlotNow(u))
SaveAccts(u) == [u EXCEPT !.slots = Kept(u), !.saved = Kept(u)]
SlotFor(u, a) == IF a \in DOMAIN u.slots THEN u.slots[a] ELSE NoFigures

\* The variant does not know that nobody watched a restored window end.
ShowUnwatched(u, a) ==
    IF u.account = a THEN u
    ELSE LET next == SlotFor(u, a) IN
         SaveAccts([u EXCEPT !.account = a, !.slots = Kept(u), !.rl = [h5 |-> next.h5, week |-> next.week],
                             !.wins = next.wins, !.winsOf = a, !.lastClosed = -1])
\* The variant leaves the old account's figures up.
ShowName(u, a) == [u EXCEPT !.account = a]

\* `showAccount`: the meters are swapped; a first sighting keeps what they hold.
ShowAccount(u, a) ==
    LET next == SlotFor(u, a) IN
    IF u.account = a THEN u
    ELSE IF u.account = None /\ (a \notin DOMAIN u.slots \/ u.rl.h5 # NoWin \/ u.rl.week)
    THEN [u EXCEPT !.account = a, !.wins = IF u.winsOf \in {None, a} THEN @ ELSE None, !.winsOf = a]
    ELSE SaveAccts([u EXCEPT !.account = a, !.slots = Kept(u), !.rl = [h5 |-> next.h5, week |-> next.week],
                             !.wins = next.wins, !.winsOf = a, !.lastClosed = next.h5.reset])
\* The variant keeps no note of when the login changed.
NoteName(u, a) ==
    LET v == [u EXCEPT !.loginAcct = a] IN IF u.account = Tok THEN v ELSE ShowAccount(v, a)

\* `noteAccount`: a change of login leaves every pane unheard until it reaches the API again (acctSince).
NoteAccount(u, a) ==
    LET v == [u EXCEPT !.loginAcct = a, !.moved = IF u.loginAcct \in {None, a} THEN @ ELSE {}] IN
    IF u.account = Tok THEN v ELSE ShowAccount(v, a)
\* The variant logs any change of the window.
OnAnyUpdate(u, prev) ==
    IF prev = NoWin \/ u.rl.h5.reset = prev.reset THEN u
    ELSE [u EXCEPT !.log = Append(@, [acct |-> u.account, reset |-> prev.reset, pct |-> prev.pct])]

\* `onRlUpdate`, `logWindowClose`: a later reset is a window that closed, logged once.
OnRlUpdate(u, prev) ==
    IF prev = NoWin \/ u.rl.h5.reset <= prev.reset \/ u.lastClosed = prev.reset THEN u
    ELSE [u EXCEPT !.lastClosed = prev.reset,
                   !.log = Append(@, [acct |-> u.account, reset |-> prev.reset, pct |-> prev.pct])]
\* `applyRlReadings`, `applyAccountReadings`
ApplyRl(u, r, fresh) ==
    LET v == IF r.h5 # NoWin THEN OnRlUpdate([u EXCEPT !.rl.h5 = MergeRl(@, r.h5)], u.rl.h5)
             ELSE IF r.week /\ fresh THEN [u EXCEPT !.rl.h5 = NoWin] ELSE u
        w == [v EXCEPT !.rl.week = @ \/ r.week] IN
    IF u.account # None /\ (r.h5 # NoWin \/ r.week) THEN SaveAccts(w) ELSE w
ApplyAccount(u, a, r, fresh) ==
    LET s == SlotFor(u, a) IN
    IF a = u.account THEN ApplyRl(u, r, fresh)
    ELSE IF r.h5 = NoWin /\ ~ r.week THEN u
    ELSE SaveAccts([u EXCEPT !.slots = With(@, a, [s EXCEPT !.h5 = IF r.h5 = NoWin THEN @ ELSE MergeRl(@, r.h5),
                                                            !.week = @ \/ r.week])])

\* `pickAcct`, `acctFull`: the token's account if it is switched on and not full, else the login's.
Full(u) ==
    LET w == IF u.account = Tok THEN u.rl.h5 ELSE SlotFor(u, Tok).h5 IN w.pct >= Most /\ w.reset > now
\* `syncShownAccount`
SyncShown(u) ==
    LET target == IF u.on /\ ~ Full(u) THEN Tok ELSE u.loginAcct IN
    IF target = None THEN u ELSE ShowAccount(u, target)

\* A start of the program: `loadAccts`, then `syncShownAccount`.
Boot(slots, on, log) ==
    SyncShown([on |-> on, loginAcct |-> None, account |-> None, rl |-> [h5 |-> NoWin, week |-> FALSE],
               wins |-> None, winsOf |-> None, slots |-> slots, saved |-> slots, moved |-> Panes,
               lastClosed |-> -1, log |-> log])

Spend(what) == todo[what] > 0 /\ todo' = [todo EXCEPT ![what] = @ - 1]

Init ==
    /\ now = 0 /\ used = [a \in Accounts |-> 0] /\ login \in Logins
    /\ flight = [p \in Panes |-> None] /\ api = [p \in Panes |-> 0] /\ cache = [p \in Panes |-> NoFigures]
    /\ apiMs = [p \in Panes |-> -1] /\ probing = None /\ wire = [acct |-> None, h5 |-> NoWin]
    /\ over = {} /\ todo \in Plans
    /\ \E on \in BOOLEAN : ui = Boot(<<>>, on, <<>>)

\* A request goes out as the account of that moment, and its answer carries that account's figures.
Ask(p) ==
    /\ Spend("turns") /\ flight[p] = None
    /\ flight' = [flight EXCEPT ![p] = IF p \in Own THEN Tok ELSE login]
    /\ UNCHANGED <<now, used, login, api, cache, apiMs, ui, probing, wire, over>>
Answer(p) ==
    LET a == flight[p] IN
    /\ a # None /\ flight' = [flight EXCEPT ![p] = None]
    /\ used' = [used EXCEPT ![a] = IF @ < Most THEN @ + 1 ELSE @]
    /\ api' = [api EXCEPT ![p] = @ + 1]
    /\ cache' = [cache EXCEPT ![p] = [h5 |-> [pct |-> used'[a], reset |-> ResetOf(a)], week |-> TRUE]]
    /\ UNCHANGED <<now, login, apiMs, ui, probing, wire, over, todo>>

\* The variant hears every pane.
HeardAll(u, p) == TRUE
\* A pane that follows the login is heard once it reached the API since the login changed.
HeardFrom(u, p) == p \in u.moved
\* The variant files by the stamp.
FiledByStamp(u, p) == login
FiledUnder(u, p) == IF p \in Own THEN Tok ELSE u.loginAcct
\* `applyStatusline`, and `syncShownAccount` after it.  The payload repeats the pane's last figures, without a
\* window that has ended, and the telemetry server stamps it with the login.
Statusline(p) ==
    LET r == [h5 |-> IF cache[p].h5.reset > now THEN cache[p].h5 ELSE NoWin, week |-> cache[p].week]
        reached == api[p] # apiMs[p]
        noted == IF p \in Own THEN ui ELSE NoteAccount(ui, login)
        u == [noted EXCEPT !.moved = IF reached THEN @ \cup {p} ELSE @] IN
    /\ apiMs' = [apiMs EXCEPT ![p] = api[p]]
    /\ ui' = SyncShown(IF p \in Own \/ HeardFrom(u, p) THEN ApplyAccount(u, FiledUnder(u, p), r, reached) ELSE u)
    /\ UNCHANGED <<now, used, login, flight, api, cache, probing, wire, over, todo>>

\* `/login` changes the account under every pane that follows it.
Switch(a) ==
    /\ Spend("switches") /\ a # login /\ login' = a
    /\ Settled => probing = None /\ \A p \in Follows : flight[p] = None /\ api[p] \in {0, apiMs[p]}
    /\ UNCHANGED <<now, used, flight, api, cache, apiMs, ui, probing, wire, over>>

\* `checkClaudeAcct`: a turn on the token, whose answer is a reading of its account.
Check ==
    /\ Spend("checks")
    /\ ui' = SyncShown(ApplyAccount(ui, Tok, [h5 |-> True(Tok), week |-> TRUE], FALSE))
    /\ UNCHANGED <<now, used, login, flight, api, cache, apiMs, probing, wire, over>>
\* `saveClaudeAccts`
Toggle ==
    /\ Spend("checks") /\ ui' = SyncShown([ui EXCEPT !.on = ~ @])
    /\ UNCHANGED <<now, used, login, flight, api, cache, apiMs, probing, wire, over>>

\* `refreshScopedLimits`, `claude_usage_limits`, `applyPlanLimits`: one probe at a time, stamped when it is done.
Probe ==
    /\ Spend("probes") /\ probing = None /\ probing' = login
    /\ UNCHANGED <<now, used, login, flight, api, cache, apiMs, ui, wire, over>>
ProbeAnswer ==
    LET u == NoteAccount(ui, login) IN
    /\ probing # None /\ probing' = None
    /\ ui' = IF u.account # login
             THEN SaveAccts([u EXCEPT !.slots = With(@, login, [SlotFor(u, login) EXCEPT !.wins = probing])])
             ELSE SaveAccts([u EXCEPT !.wins = probing, !.winsOf = login])
    /\ UNCHANGED <<now, used, login, flight, api, cache, apiMs, wire, over, todo>>

\* Another machine sends a login's figures (synclink.ts flush), and `mergePeerRl` takes them in.
PeerSends(a) ==
    /\ Spend("peers") /\ wire.acct = None /\ wire' = [acct |-> a, h5 |-> True(a)]
    /\ UNCHANGED <<now, used, login, flight, api, cache, apiMs, ui, probing, over>>
\* The variant has no slot for another account.
PeerOnMeters(u, a) == "meters"
PeerTarget(u, a) == IF u.account \in {None, a} THEN "meters" ELSE IF a \in DOMAIN u.slots THEN "slot" ELSE "nowhere"
\* A peer's 5 hours do not come back over a window this account's panes saw go (weekOnly).
PeerWindow(h5, week, new) == IF h5 = NoWin /\ week THEN h5 ELSE MergeRl(h5, new)
PeerArrives ==
    LET a == wire.acct  to == PeerTarget(ui, a) IN
    /\ a # None /\ (ui.account # None \/ Early) /\ wire' = [wire EXCEPT !.acct = None]
    /\ ui' = CASE to = "meters" -> [ui EXCEPT !.rl = [h5 |-> PeerWindow(@.h5, @.week, wire.h5), week |-> TRUE]]
               [] to = "slot" -> LET s == ui.slots[a] IN
                    SaveAccts([ui EXCEPT !.slots[a].h5 = PeerWindow(s.h5, s.week, wire.h5), !.slots[a].week = TRUE])
               [] to = "nowhere" -> ui
    /\ over' = {[x EXCEPT !.shown = @ \/ (to = "meters" /\ x.acct = a /\ x.reset = wire.h5.reset)] : x \in over}
    /\ UNCHANGED <<now, used, login, flight, api, cache, apiMs, probing, todo>>

\* Windows end.
Tick ==
    LET ends == {a \in Accounts : ResetOf(a) = now + 1} IN
    /\ Spend("ticks") /\ now' = now + 1
    /\ over' = over \cup {[acct |-> a, reset |-> now + 1, pct |-> used[a], shown |-> ui.account = a] : a \in ends}
    /\ used' = [a \in Accounts |-> IF a \in ends THEN 0 ELSE used[a]]
    /\ UNCHANGED <<login, flight, api, cache, apiMs, ui, probing, wire>>

\* The program is quit and started: its panes are new processes.
Restart ==
    /\ Spend("restarts")
    /\ flight' = [p \in Panes |-> None] /\ api' = [p \in Panes |-> 0] /\ cache' = [p \in Panes |-> NoFigures]
    /\ apiMs' = [p \in Panes |-> -1] /\ probing' = None
    /\ ui' = Boot(ui.saved, ui.on, ui.log)
    /\ UNCHANGED <<now, used, login, wire, over>>

Next ==
    \/ \E p \in Panes : Ask(p) \/ Answer(p) \/ Statusline(p)
    \/ \E a \in Logins : Switch(a) \/ PeerSends(a)
    \/ Check \/ Toggle \/ Probe \/ ProbeAnswer \/ PeerArrives \/ Tick \/ Restart

Spec == Init /\ [][Next]_lmvars

\* A window is one the account had, and no fuller than the account made it.
Had(a, w) ==
    \E x \in over \cup {[acct |-> a, reset |-> ResetOf(a), pct |-> used[a], shown |-> FALSE]} :
        x.acct = a /\ x.reset = w.reset /\ w.pct <= x.pct
\* Its own, and not of a window the log has as over.
OwnFigures(u, a, f) ==
    /\ f.wins \in {None, a}
    /\ f.h5 # NoWin => Had(a, f.h5) /\ \A i \in DOMAIN u.log : u.log[i].acct = a => u.log[i].reset < f.h5.reset
\* Every log entry is of a window of its account that was on show when it ended, or came from a peer after that.
OwnEntry(e) == \E x \in over : x.shown /\ x.acct = e.acct /\ x.reset = e.reset /\ e.pct <= x.pct

(* The figures shown and kept for an account are its own, whatever lagging panes, a `/login`, tokens, probes and
   other machines report, and each forecast-log entry is a window somebody watched end, logged once and gone. *)
LimitsAreOwn ==
    /\ ui.account # None => OwnFigures(ui, ui.account, SlotNow(ui))
    /\ \A a \in DOMAIN ui.slots : a = ui.account \/ OwnFigures(ui, a, ui.slots[a])
    /\ \A a \in DOMAIN ui.saved : a = ui.account \/ OwnFigures(ui, a, ui.saved[a])
    /\ \A i \in DOMAIN ui.log : OwnEntry(ui.log[i])
    /\ \A i, j \in DOMAIN ui.log :
        ui.log[i].acct = ui.log[j].acct /\ ui.log[i].reset = ui.log[j].reset => i = j
=============================================================================
