------------------------------ MODULE Presence ------------------------------
(* Who is here: what each machine has open, which the server's hub keeps in memory only (Hub, serve.rs),
   and what the others show of it (beatPresence and onSyncEvent, synclink.ts). A connection of the server
   is a thread; what two threads do to the hub may fall into pieces, because the list of the present, the
   list of subscribers and the telling are locked one after the other. *)
EXTENDS Naturals, Sequences, SequencesExt

CONSTANTS
    Machines,   \* the machines of one workspace
    Of,         \* Of[c]: the machine that dials connection c
    Acts        \* how often machines act, connections break and heartbeats lapse

VARIABLES
    opened,     \* opened[m]: what m has open: "a", or "none" (an empty list)
    beat,       \* beat[m]: what m last said, "" when not connected (beat)
    link,       \* link[m]: the connection m is on, 0 when it has none (status.connected)
    shown,      \* shown[m][n]: what m shows of n, "" when nothing (presence, synclink.ts)
    at,         \* at[c]: where the thread of connection c is
    said,       \* said[c]: heartbeats on their way to the server
    due,        \* due[c]: announcements on their way to the machine, in order
    here,       \* here[m]: what the hub holds for m, "" when nothing (Hub::presence)
    subs,       \* the connections that are told (Hub::subs)
    tell,       \* tell[c]: what the thread of c has changed and not announced yet
    swept,      \* the machines the sweeper has removed and not announced yet
    torn,       \* whether two threads have been within the hub at once
    presenceActs

prvars == <<opened, beat, link, shown, at, said, due, here, subs, tell, swept, torn, presenceActs>>

Links == DOMAIN Of
Lists == {"a", "none"}
Shown(items) == IF items = "none" THEN "" ELSE items

Init ==
    /\ opened = [m \in Machines |-> "a"]
    /\ beat = [m \in Machines |-> ""] /\ link = [m \in Machines |-> 0]
    /\ shown = [m \in Machines |-> [n \in Machines |-> ""]]
    /\ at = [c \in Links |-> "free"]
    /\ said = [c \in Links |-> <<>>] /\ due = [c \in Links |-> <<>>]
    /\ here = [m \in Machines |-> ""] /\ subs = {} /\ tell = [c \in Links |-> ""]
    /\ swept = {} /\ torn = FALSE /\ presenceActs = 0

\* The threads within the hub: between the locks of one operation.
Within == {c \in Links : at[c] \in {"joining", "telling", "leaving", "parting"}}
Enters(c) == torn' = (torn \/ Within \ {c} # {} \/ swept # {})
Act == presenceActs < Acts /\ presenceActs' = presenceActs + 1

\* The connections that are told of what m does.
Told(m) == {c \in subs : Of[c] # m}
\* The variant of what follows tells the machine's own connections alone.
AnnounceToItself(m, items) ==
    due' = [c \in Links |-> IF c \in subs \ Told(m) THEN Append(due[c], <<m, items>>) ELSE due[c]]
Announce(m, items) == due' = [c \in Links |-> IF c \in Told(m) THEN Append(due[c], <<m, items>>) ELSE due[c]]

\* ---- the machine

Open(m) == /\ Act /\ \E x \in Lists \ {opened[m]} : opened' = [opened EXCEPT ![m] = x]
           /\ UNCHANGED <<beat, link, shown, at, said, due, here, subs, tell, swept, torn>>

\* The tick of beatPresence: a change at once, the same again for the time to live.
Beats(m) ==
    /\ link[m] # 0 /\ Len(said[link[m]]) < 1
    /\ IF opened[m] # beat[m] THEN UNCHANGED presenceActs ELSE Act
    /\ beat' = [beat EXCEPT ![m] = opened[m]]
    /\ said' = [said EXCEPT ![link[m]] = Append(@, opened[m])]
    /\ UNCHANGED <<opened, link, shown, at, due, here, subs, tell, swept, torn>>

\* The tick while there is no connection.
Silent(m) ==
    /\ link[m] = 0 /\ beat[m] # "" /\ beat' = [beat EXCEPT ![m] = ""]
    /\ UNCHANGED <<opened, link, shown, at, said, due, here, subs, tell, swept, torn, presenceActs>>

Hears(m) ==
    /\ link[m] # 0 /\ due[link[m]] # <<>>
    /\ LET news == Head(due[link[m]]) IN shown' = [shown EXCEPT ![m][news[1]] = Shown(news[2])]
    /\ due' = [due EXCEPT ![link[m]] = Tail(@)]
    /\ UNCHANGED <<opened, beat, link, at, said, here, subs, tell, swept, torn, presenceActs>>

\* The socket is lost. The server may find out only later, and may still read what was on its way.
Lost(m) ==
    /\ link[m] # 0 /\ Act
    /\ link' = [link EXCEPT ![m] = 0] /\ shown' = [shown EXCEPT ![m] = [n \in Machines |-> ""]]
    /\ due' = [due EXCEPT ![link[m]] = <<>>]
    /\ UNCHANGED <<opened, beat, at, said, here, subs, tell, swept, torn>>

\* ---- the threads of the server

\* Hub::join, first lock: what the others have open now.
Join(c) ==
    /\ at[c] = "free" /\ link[Of[c]] = 0 /\ Enters(c)
    /\ \A d \in Links : Of[d] = Of[c] => at[d] # "joining" /\ (d < c => at[d] # "free")
    /\ at' = [at EXCEPT ![c] = "joining"]
    /\ due' = [due EXCEPT ![c] = SetToSeq({<<n, here[n]>> : n \in {o \in Machines \ {Of[c]} : here[o] # ""}})]
    /\ UNCHANGED <<opened, beat, link, shown, said, here, subs, tell, swept, presenceActs>>

\* Hub::join, second lock, and the welcome.
Subscribe(c) ==
    /\ at[c] = "joining" /\ at' = [at EXCEPT ![c] = "on"]
    /\ subs' = subs \cup {c} /\ link' = [link EXCEPT ![Of[c]] = c]
    /\ UNCHANGED <<opened, beat, shown, said, due, here, tell, swept, torn, presenceActs>>

\* Hub::set_presence up to its lock's end: what is unchanged is not announced.
Sets(c) ==
    /\ at[c] = "on" /\ said[c] # <<>> /\ Enters(c)
    /\ LET m == Of[c] items == Head(said[c]) IN
       /\ here' = [here EXCEPT ![m] = items]
       /\ at' = [at EXCEPT ![c] = IF here[m] = items THEN "on" ELSE "telling"]
       /\ tell' = [tell EXCEPT ![c] = IF here[m] = items THEN "" ELSE items]
    /\ said' = [said EXCEPT ![c] = Tail(@)]
    /\ UNCHANGED <<opened, beat, link, shown, due, subs, swept, presenceActs>>

\* Hub::announce, for the thread of a connection that is on or has left.
Tells(c) ==
    /\ at[c] \in {"telling", "parting"} /\ Announce(Of[c], tell[c]) /\ tell' = [tell EXCEPT ![c] = ""]
    /\ at' = [at EXCEPT ![c] = IF @ = "telling" THEN "on" ELSE "gone"]
    /\ UNCHANGED <<opened, beat, link, shown, said, here, subs, swept, torn, presenceActs>>

\* Hub::leave, first lock. The session has ended, here or at the other end.
Leaves(c) ==
    /\ at[c] = "on" /\ link[Of[c]] # c /\ Enters(c)
    /\ at' = [at EXCEPT ![c] = "leaving"] /\ subs' = subs \ {c}
    /\ said' = [said EXCEPT ![c] = <<>>] /\ due' = [due EXCEPT ![c] = <<>>]
    /\ UNCHANGED <<opened, beat, link, shown, here, tell, swept, presenceActs>>

\* The variant of what follows asks after any machine's.
StillAnyone(c) == \E d \in subs : TRUE
\* Another connection of the same machine keeps it present.
StillHere(c) == \E d \in subs : Of[d] = Of[c]

\* Hub::leave, the check and the removal.
Parts(c) ==
    /\ at[c] = "leaving"
    /\ LET goes == ~StillHere(c) /\ here[Of[c]] # "" IN
       /\ here' = IF goes THEN [here EXCEPT ![Of[c]] = ""] ELSE here
       /\ at' = [at EXCEPT ![c] = IF goes THEN "parting" ELSE "gone"]
       /\ tell' = [tell EXCEPT ![c] = IF goes THEN "none" ELSE ""]
    /\ UNCHANGED <<opened, beat, link, shown, said, due, subs, swept, torn, presenceActs>>

\* Hub::sweep removes whom the heartbeat has lapsed for, and then tells of each.
Sweep(m) ==
    /\ here[m] # "" /\ Act
    /\ torn' = (torn \/ Within # {} \/ swept # {})
    /\ here' = [here EXCEPT ![m] = ""] /\ swept' = swept \cup {m}
    /\ UNCHANGED <<opened, beat, link, shown, at, said, due, subs, tell>>
TellsOfSwept(m) ==
    /\ m \in swept /\ swept' = swept \ {m} /\ Announce(m, "none")
    /\ UNCHANGED <<opened, beat, link, shown, at, said, here, subs, tell, torn, presenceActs>>

Next ==
    \/ \E m \in Machines : Open(m) \/ Beats(m) \/ Silent(m) \/ Hears(m) \/ Lost(m) \/ Sweep(m) \/ TellsOfSwept(m)
    \/ \E c \in Links : Subscribe(c) \/ Sets(c) \/ Tells(c) \/ Leaves(c) \/ Parts(c) \/ Join(c)

Spec == Init /\ [][Next]_prvars

\* Nothing is on its way to m, and no thread has something left to tell.
Quiet(m) == link[m] # 0 /\ due[link[m]] = <<>> /\ Within = {} /\ swept = {}

\* Two promises of the hub (join, leave, set_presence, sweep). Once nothing is on its way a machine shows
\* of every other what the hub holds, however connections came and went, unless two threads were within
\* the hub at once. And in any order of their steps, the hub never holds a machine whose last connection
\* has parted: nobody stays present who is gone.
PresenceIsTrue ==
    /\ ~torn => \A m \in Machines : Quiet(m) => \A n \in Machines \ {m} : shown[m][n] = Shown(here[n])
    /\ \A m \in Machines : here[m] # "" => \E c \in Links : Of[c] = m /\ (c \in subs \/ at[c] = "leaving")
=============================================================================
