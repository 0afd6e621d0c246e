-------------------------------- MODULE Claims --------------------------------
(***************************************************************************)
(* Agents dispatched at one issue of a shared project: the lease the team  *)
(* sees (synclink.ts, claim.ts) and the claim written to GitHub, with the  *)
(* ledger a release undoes it from (dashboard.ts, claim.ts).               *)
(***************************************************************************)
EXTENDS Naturals, Sequences

CONSTANTS
    Machines, Sessions, Home,   \* device ids; [Sessions -> Machines]
    LEASE,                      \* LEASE_MS, in ticks of tickSync
    Plans                       \* who may be dispatched, whether a dispatch also claims on GitHub, and bounds

VARIABLES
    plan,               \* policyWritesAnything as writes; bounds: clock, events, quits
    cnow, quits,        \* the clock of the machines; apps stopped so far
    up, missed,         \* machines running; those that missed their last tick
    ses, died,          \* sessions: "no", "live", "dead"; and when they died or were spawned last
    dispatch,           \* doDispatch: "no", "launching", "claiming", "done"
    lease, stamp,       \* what each machine holds of the issue's lease, and its stamp
    owes, clog, heard,  \* owed to the server; the claims stream; how far each machine heard it
    ledger, assigned    \* cc-claims; what GitHub shows of each machine's person

cvars == <<plan, cnow, quits, up, missed, ses, died, dispatch, lease, stamp, owes, clog, heard, ledger, assigned>>

Nobody == 0
\* who: the session it was taken for; mine: its sid is kept, which only the machine that took it does.
NoLease == [who |-> Nobody, until |-> 0, mine |-> FALSE]

LeaseLive(l, t) == l.until > t

\* The variant renews a lease once it is over.
LeaseOver(l, t) == l.until <= t
LeaseDue(l, t) == 2 * (l.until - t) < LEASE

Alive(s) == up[Home[s]] /\ ses[s] = "live"

\* takeLease, releaseLeases: changed here, stamped and owed.
Publish(m, l) ==
    /\ lease' = [lease EXCEPT ![m] = l]
    /\ stamp' = [stamp EXCEPT ![m] = [at |-> cnow, dev |-> m]]
    /\ owes' = [owes EXCEPT ![m] = TRUE]

ReleaseLeases(m, s) ==
    IF lease[m].mine /\ lease[m].who = s THEN Publish(m, NoLease) ELSE UNCHANGED <<lease, stamp, owes>>

-----------------------------------------------------------------------------
\* doDispatch up to its launch: the session is there before the answer is.
Dispatch(s) ==
    /\ dispatch[s] = "no" /\ up[Home[s]] /\ s \in plan.dispatched
    /\ dispatch' = [dispatch EXCEPT ![s] = "launching"]
    /\ ses' = [ses EXCEPT ![s] = "live"] /\ died' = [died EXCEPT ![s] = cnow]
    /\ UNCHANGED <<plan, cnow, quits, up, missed, lease, stamp, owes, clog, heard, ledger, assigned>>

\* The lease goes out whatever becomes of the claim.
Launched(s) ==
    /\ dispatch[s] = "launching" /\ up[Home[s]]
    /\ dispatch' = [dispatch EXCEPT ![s] = IF plan.writes THEN "claiming" ELSE "done"]
    /\ Publish(Home[s], [who |-> s, until |-> cnow + LEASE, mine |-> TRUE])
    /\ died' = [died EXCEPT ![s] = cnow]
    /\ UNCHANGED <<plan, cnow, quits, up, missed, ses, clog, heard, ledger, assigned>>

\* gh_claim answered: what it wrote is recorded, in the place of any earlier claim of the issue.
Claimed(s, wrote) ==
    /\ dispatch[s] = "claiming" /\ up[Home[s]]
    /\ dispatch' = [dispatch EXCEPT ![s] = "done"]
    /\ IF wrote THEN /\ ledger' = [ledger EXCEPT ![Home[s]] = s]
                     /\ assigned' = [assigned EXCEPT ![Home[s]] = TRUE]
                ELSE UNCHANGED <<ledger, assigned>>
    /\ UNCHANGED <<plan, cnow, quits, up, missed, ses, died, lease, stamp, owes, clog, heard>>

\* pty-exit, releaseClaimFor: only what the ledger says was written is undone.
Exit(s) ==
    /\ Alive(s)
    /\ ses' = [ses EXCEPT ![s] = "dead"] /\ died' = [died EXCEPT ![s] = cnow]
    /\ ReleaseLeases(Home[s], s)
    /\ IF ledger[Home[s]] = s THEN /\ ledger' = [ledger EXCEPT ![Home[s]] = Nobody]
                                   /\ assigned' = [assigned EXCEPT ![Home[s]] = FALSE]
                              ELSE UNCHANGED <<ledger, assigned>>
    /\ UNCHANGED <<plan, cnow, quits, up, missed, dispatch, clog, heard>>

\* The app stops, and its sessions and calls with it; no pty-exit is heard.
Quit(m) ==
    /\ up[m] /\ quits < plan.quits /\ quits' = quits + 1
    /\ up' = [up EXCEPT ![m] = FALSE]
    /\ ses' = [s \in Sessions |-> IF Home[s] = m /\ ses[s] = "live" THEN "dead" ELSE ses[s]]
    /\ died' = [s \in Sessions |-> IF Home[s] = m /\ ses[s] = "live" THEN cnow ELSE died[s]]
    /\ dispatch' = [s \in Sessions |-> IF Home[s] = m /\ dispatch[s] # "no" THEN "done" ELSE dispatch[s]]
    /\ UNCHANGED <<plan, cnow, missed, lease, stamp, owes, clog, heard, ledger, assigned>>

Start(m) ==
    /\ ~up[m] /\ up' = [up EXCEPT ![m] = TRUE]
    /\ UNCHANGED <<plan, cnow, quits, missed, ses, died, dispatch, lease, stamp, owes, clog, heard, ledger, assigned>>

\* renewLeases: a dead session's lease goes, a due one is renewed, and another's is dropped long after it
\* lapsed.  The variant renews without asking whether the session is there.
Outlived(l) == FALSE
Unheld(l) == ~Alive(l.who)

Renewed(l, t) ==
    IF ~l.mine THEN IF LeaseLive(l, t - LEASE) THEN l ELSE NoLease
    ELSE IF Unheld(l) THEN NoLease
    ELSE IF LeaseDue(l, t) THEN [l EXCEPT !.until = t + LEASE] ELSE l

\* Time passes, and tickSync runs where it is not delayed.
Tick(T) ==
    /\ cnow < plan.clock /\ cnow' = cnow + 1
    /\ \A m \in Machines : up[m] /\ m \notin T => ~missed[m]
    /\ \A m \in T : up[m]
    /\ missed' = [m \in Machines |-> up[m] /\ m \notin T]
    /\ LET next == [m \in Machines |-> IF m \in T /\ lease[m] # NoLease THEN Renewed(lease[m], cnow + 1) ELSE lease[m]]
           published == {m \in Machines : next[m] # lease[m] /\ lease[m].mine}
       IN  /\ lease' = next
           /\ stamp' = [m \in Machines |-> IF m \in published THEN [at |-> cnow + 1, dev |-> m] ELSE stamp[m]]
           /\ owes' = [m \in Machines |-> owes[m] \/ m \in published]
    /\ UNCHANGED <<plan, quits, up, ses, died, dispatch, clog, heard, ledger, assigned>>

\* flush and what the server makes of it.
Flush(m) ==
    /\ up[m] /\ owes[m] /\ Len(clog) < plan.events
    /\ clog' = Append(clog, [at |-> stamp[m].at, dev |-> stamp[m].dev, l |-> [lease[m] EXCEPT !.mine = FALSE]])
    /\ owes' = [owes EXCEPT ![m] = FALSE]
    /\ UNCHANGED <<plan, cnow, quits, up, missed, ses, died, dispatch, lease, stamp, heard, ledger, assigned>>

Wins(e, s) == IF e.at # s.at THEN e.at > s.at ELSE e.dev > s.dev

\* applyLease: another machine's takes the place of one held here, which is then no longer renewed.
ApplyLease(m) ==
    LET e == clog[heard[m] + 1] IN
    /\ up[m] /\ heard[m] < Len(clog)
    /\ heard' = [heard EXCEPT ![m] = @ + 1]
    /\ IF e.dev = m \/ ~Wins(e, stamp[m]) THEN UNCHANGED <<lease, stamp>>
       ELSE /\ stamp' = [stamp EXCEPT ![m] = [at |-> e.at, dev |-> e.dev]]
            /\ lease' = [lease EXCEPT ![m] = e.l]
    /\ UNCHANGED <<plan, cnow, quits, up, missed, ses, died, dispatch, owes, clog, ledger, assigned>>

Init ==
    /\ plan \in Plans /\ cnow = 1 /\ quits = 0 /\ clog = <<>>
    /\ up = [m \in Machines |-> TRUE] /\ missed = [m \in Machines |-> FALSE]
    /\ ses = [s \in Sessions |-> "no"] /\ died = [s \in Sessions |-> 0] /\ dispatch = [s \in Sessions |-> "no"]
    /\ lease = [m \in Machines |-> NoLease] /\ stamp = [m \in Machines |-> [at |-> 0, dev |-> 0]]
    /\ owes = [m \in Machines |-> FALSE] /\ heard = [m \in Machines |-> 0]
    /\ ledger = [m \in Machines |-> Nobody] /\ assigned = [m \in Machines |-> FALSE]

Next ==
    \/ \E s \in Sessions : Dispatch(s) \/ Launched(s) \/ Exit(s) \/ \E wrote \in BOOLEAN : Claimed(s, wrote)
    \/ \E m \in Machines : Quit(m) \/ Start(m) \/ Flush(m) \/ ApplyLease(m)
    \/ \E T \in SUBSET Machines : Tick(T)

Spec == Init /\ [][Next]_cvars

-----------------------------------------------------------------------------
(* Properties. *)

\* However machines stop, lose their turn or are not heard, no machine counts on a lease for longer
\* than a lease's time after the session it was taken for was last there (renewLeases, LEASE_MS).
DeadLeasesLapse == \A m \in Machines : lease[m].who # Nobody =>
    lease[m].until <= LEASE + (IF ses[lease[m].who] = "live" THEN cnow ELSE died[lease[m].who])

\* "a missed tick never lets it lapse" (leaseDue): a lease held for a live session is live.
HeldLeasesLive == \A m \in Machines :
    up[m] /\ lease[m].mine /\ Alive(lease[m].who) => LeaseLive(lease[m], cnow)

\* "no dead claims linger" (main.ts): a claim recorded for a session is gone once the session is.
NoDeadClaimsLinger == \A m \in Machines : up[m] /\ quits = 0 /\ ledger[m] # Nobody => ses[ledger[m]] # "dead"
=============================================================================
