---- MODULE MCSession ----
(* SessionAndTasks for TLC: one run checks both. *)
EXTENDS SessionAndTasks, TLC

CONSTANTS k1, k2, k3, k4, a1, a2, top, mid, low

\* Three calls are the agent's own, one its subagent's; three need a permission. Each shows its own command.
MCCaller == [k \in Calls |-> IF k = k2 THEN a1 ELSE Main]
MCCmd == [k \in Calls |-> k]

P(how, k, a, t, f, l) == [told |-> how, calls |-> k, agents |-> a, turns |-> t, fails |-> f, lapses |-> l]

\* Parallel asks; a subagent's ask; two fan-outs; failures and the ladder; then hooks lost and reordered.
MCPlans ==
    {P("claude", {k3, k4}, {}, 1, 0, 0), P("claude", {k2}, {a1}, 2, 0, 0),
     P("claude", {k1}, {a1, a2}, 2, 0, 0), P("claude", {k3}, {}, 2, 1, 0),
     P("lossy", {k3}, {}, 1, 0, 0), P("lossy", {k1}, {a1}, 1, 1, 1), P("lossy", {}, {}, 2, 2, 0),
     P("codex", {k3}, {}, 2, 2, 0)}

\* Tasks: a diamond, one that waits for a server, a cycle, a label that names nothing.
T(l, d, seq, k) == [label |-> l, source |-> "npm", dependsOn |-> d, sequence |-> seq, kind |-> k]
Graph(root, dep, leaf) == (top :> root) @@ (mid :> dep) @@ (low :> leaf)
MCGraphs ==
    {Graph(T("r", <<"a", "x">>, FALSE, "task"), T("a", <<"x">>, FALSE, "task"), T("x", <<>>, FALSE, "task")),
     Graph(T("r", <<"x", "a">>, TRUE, "task"), T("a", <<>>, FALSE, "task"), T("x", <<>>, FALSE, "server")),
     Graph(T("r", <<"x", "a">>, TRUE, "task"), T("a", <<"r">>, FALSE, "task"), T("x", <<>>, FALSE, "task")),
     Graph(T("r", <<"x", "a">>, FALSE, "task"), T("a", <<"b">>, FALSE, "task"), T("x", <<>>, FALSE, "compound"))}
====
