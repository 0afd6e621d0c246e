---- MODULE MCCockpit ----
(* Cockpit for TLC. *)
EXTENDS Cockpit, TLC

CONSTANTS pa, pb, pc

\* What machines, servers and accounts tell one another, and what one window does.
MCMachines ==
    {"memory", "claims", "roster", "handoff", "presence", "notices", "supervisor", "limits", "spend", "meter"}
MCWindow ==
    {"lifecycle", "adoption", "servers", "cleanup", "diff", "wtdialog", "dashboard", "review", "graph", "awake"}

\* How much happens in each part, and how far its counters go.
MCActs ==
    [roster |-> 1, arrivals |-> 1, lifecycle |-> 3, reloads |-> 2, loads |-> 2, cleanup |-> 4, jobs |-> 1, wtdialog |-> 3,
     spend |-> 3, meter |-> 5, presence |-> 2, servers |-> 2, review |-> 4, supervisor |-> 2, awake |-> 3, mishaps |-> 1,
     diff |-> 3]
MCMost == [tokens |-> 2, written |-> 3, used |-> 2, events |-> 2]

\* Memory: what each behaviour may spend.
B(e, rm, sy, d, g, f, cap, cl) ==
    [edits |-> e, removes |-> rm, syncs |-> sy, drops |-> d, gates |-> g, fails |-> f, cap |-> cap, cloned |-> cl]
MCMemoryBudgets ==
    {B(2, 0, 0, 0, 0, 0, 9, {1, 2}), B(2, 0, 0, 0, 0, 0, 1, {1}), B(1, 1, 1, 0, 0, 1, 9, {1, 2}), B(1, 0, 0, 1, 1, 0, 1, {1})}

\* Claims: two sessions of one machine and one of another; and what each behaviour may spend.
MCHome == <<1, 1, 2>>
C(w, d, c, e, n) == [writes |-> w, dispatched |-> d, clock |-> c, events |-> e, quits |-> n]
MCClaimPlans == {C(FALSE, {1}, 7, 1, 1), C(FALSE, {1, 3}, 3, 2, 0), C(TRUE, {1, 2}, 2, 0, 0)}

\* Handoff: one kind of fault, two, or three, in each behaviour.
H(l, d, r, f, g, w, i) ==
    [badTarget |-> FALSE, lost |-> l, drops |-> d, restarts |-> r, fails |-> f, purges |-> g, switches |-> w, silences |-> i]
MCHandoffBudgets == {H(1, 1, 0, 0, 0, 0, 0), H(0, 0, 1, 0, 1, 0, 0), H(0, 1, 0, 0, 0, 0, 1), H(0, 0, 1, 1, 0, 0, 0),
                     H(0, 0, 0, 0, 0, 2, 0), [H(0, 1, 0, 0, 0, 0, 0) EXCEPT !.badTarget = TRUE]}

\* Dashboard: which answers each behaviour follows, and for how many acts.
MCDashActs ==
    {"gh"} :> 3 @@ {"dep"} :> 3 @@ {"manifests"} :> 3 @@ {"work", "landed"} :> 3 @@ {"thread1", "thread2"} :> 4
    @@ {"gh", "kept", "shared", "protect"} :> 3 @@ {"lines"} :> 2

\* Servers: what the two shells of a behaviour do.
MCShellNatures == {<<"talks", "job">>, <<"mute", "late">>}

\* Limits: what each behaviour may spend.
L(t, s, c, b, w, k, r) ==
    [turns |-> t, switches |-> s, checks |-> c, probes |-> b, peers |-> w, ticks |-> k, restarts |-> r]
MCLimitPlans == {L(2, 1, 0, 0, 0, 1, 0), L(1, 1, 1, 0, 0, 1, 0), L(1, 2, 0, 1, 0, 0, 0),
                 L(1, 1, 0, 0, 1, 0, 0), L(2, 0, 0, 0, 1, 1, 0), L(1, 0, 1, 0, 1, 0, 1)}

\* Notices: who listens, and for each behaviour one kind of trouble.
W(r, p, d, m) == [role |-> r, puts |-> p, drops |-> d, misses |-> m]
MCNoticePlans == {W("sender", 1, 0, 0), W("sender", 0, 1, 0), W("taker", 0, 0, 1), W("machine", 0, 1, 0)}

\* Presence: two connections of one machine and one of another.
MCOf == <<1, 1, 2>>
\* CommitGraph: a bot wrote all but the first commit.
MCBotSets == {{2, 3, 4}}
====
