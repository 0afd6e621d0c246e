---------------------------- MODULE HandoffClient ----------------------------
(***************************************************************************)
(* One handoff between two machines, as their windows and Rust clients see *)
(* it: handoff.ts, handoffui.ts and src-tauri's handoff.rs.  HandoffStore  *)
(* is the server in full; here it is the state of one row.                 *)
(*                                                                         *)
(* A command reaches the server at once or is lost with the connection;    *)
(* what the server says waits in `net`, so the person acts on old news.    *)
(* A machine's Rust half and its window hear a message together.           *)
(***************************************************************************)
EXTENDS Naturals, Sequences

CONSTANT Budgets    \* bound: what one behaviour may spend, see Spend

Open == {"uploading", "offered", "claimed"}
GivenUp == {"declined", "recalled", "expired"}
Machines == {"sender", "taker"}

VARIABLES
    srv,        \* the server's row: [state, upd]; "absent" before the offer and once purged
    caps,       \* whether the server has handoff on
    conn,       \* [Machines -> BOOLEAN]
    net,        \* [Machines -> Seq of what the server said and the machine has not heard]
    rec,        \* the sender's record in cc-handoff
    outbox,     \* the sender's staging: "none", "packed", "named" (a recipient), "acked", "refused"
    shelf,      \* the sender's conversation: "live", "row" (shelved) or "gone"
    win,        \* what the sender's window forgets when it restarts
    inrec,      \* the taker's record
    inbox,      \* the taker's staging: "none", "fetching", "fetched", "done"
    copy,       \* the taker's copy: "no", "installing", "failed", "live"
    refusing,   \* givenBack, which the taker's window forgets when it restarts
    hist,       \* history: [handed, warned, silent], and whether the server forgot the row unheard: [forgot]
    budget
hvars == <<srv, caps, conn, net, rec, outbox, shelf, win, inrec, inbox, copy, refusing, hist, budget>>
sender == <<rec, outbox, shelf, win>>
taker == <<inrec, inbox, copy, refusing>>

NoRec == [state |-> "none", sent |-> FALSE, settled |-> FALSE, unknown |-> FALSE, upd |-> 0]
NoInRec == [state |-> "none", chosen |-> FALSE, settled |-> FALSE, upd |-> 0]
NewWindow == [sheet |-> "none", offered |-> FALSE, recalling |-> FALSE, settling |-> "no", heard |-> "none"]

Spend(kind) == budget[kind] > 0 /\ budget' = [budget EXCEPT ![kind] = @ - 1]

Init ==
    /\ srv = [state |-> "absent", upd |-> 0] /\ caps = TRUE
    /\ conn = [m \in Machines |-> TRUE] /\ net = [m \in Machines |-> <<>>]
    /\ rec = NoRec /\ outbox = "none" /\ shelf \in {"live", "row"}
    /\ win = [NewWindow EXCEPT !.heard = "on"]
    /\ inrec = NoInRec /\ inbox = "none" /\ copy = "no" /\ refusing = FALSE
    /\ hist = [handed |-> FALSE, warned |-> FALSE, silent |-> FALSE, forgot |-> FALSE]
    /\ budget \in Budgets

-----------------------------------------------------------------------------
(* What a record becomes.                                                   *)

\* `onCaps`: an unheard server locks an open send, one with handoff off hands it back.  `over` is
\* whether the offer's expiry and an hour have passed unheard.  The variant forgets it instead.
OnCapsForgets(r, heard, over) ==
    IF r.state \notin Open THEN r
    ELSE CASE heard = "off" \/ (heard = "none" /\ over /\ r.unknown) -> NoRec
           [] heard = "on" -> [r EXCEPT !.unknown = FALSE]
           [] OTHER -> [r EXCEPT !.unknown = TRUE]
OnCaps(r, heard, over) ==
    IF r.state \notin Open THEN r
    ELSE CASE heard = "off" \/ (heard = "none" /\ over /\ r.unknown) -> [r EXCEPT !.state = "returned"]
           [] heard = "on" -> [r EXCEPT !.unknown = FALSE]
           [] OTHER -> [r EXCEPT !.unknown = TRUE]

\* `applyInfo` for a send: only an open one is rebuilt, an older word is dropped, and a local
\* verdict stands against all that is still open.
ApplyInfo(r, i) ==
    IF r.state = "none" THEN IF i.state \in Open THEN [NoRec EXCEPT !.state = i.state, !.upd = i.upd] ELSE r
    ELSE IF r.upd > i.upd \/ (r.state \in {"returned", "refused"} /\ i.state \in Open) THEN r
    ELSE [r EXCEPT !.state = i.state, !.upd = i.upd, !.unknown = FALSE]

\* `reduce` on a list: a send the server no longer holds is back, after a confirm.
ApplyList(r, i) ==
    IF i.state # "absent" THEN ApplyInfo(r, i)
    ELSE IF r.state \in Open THEN [r EXCEPT !.state = "returned"] ELSE r

\* `reduce` on a refusal: an offer the server will never take is the sender's again.
ApplyRefused(r, reason) ==
    IF reason = "bad_target" /\ r.state \in {"packing", "uploading"} THEN [r EXCEPT !.state = "refused"] ELSE r

\* `handoffBusy`: not to be resumed here.  The variant lets go of what is being picked up.
BusyUnlessClaimed(r) == r.state \in {"packing", "uploading", "offered"} \/ (r.state = "done" /\ ~ r.settled)
Busy(r) == r.state \in Open \cup {"packing"} \/ (r.state = "done" /\ ~ r.settled)

\* `settleDue`: what the sender's window sets about for a record whose outcome is in.
Due(r, settling) ==
    IF settling # "no" THEN settling
    ELSE CASE r.state = "done" /\ ~ r.settled -> "done"
           [] r.state \in GivenUp \cup {"refused"} -> "back"
           [] OTHER -> "no"
\* ... and a roster read after the settle brought the row back.
Dropped(r) == IF r.state = "done" /\ r.settled /\ shelf = "row" THEN "gone" ELSE shelf

-----------------------------------------------------------------------------
(* The server.                                                              *)

Say(q, m, msg) == IF conn[m] THEN [q EXCEPT ![m] = Append(@, msg)] ELSE q
Info == [k |-> "info", state |-> srv'.state, upd |-> srv'.upd]
\* The row moves and both machines are told, if they are there to hear it.
Move(q, s) ==
    /\ srv' = [state |-> s, upd |-> srv.upd + 1]
    /\ net' = Say(Say(q, "sender", Info), "taker", Info)
    /\ hist' = [hist EXCEPT !.handed = @ \/ s = "done"]
Refuse(q, m, reason) == net' = Say(q, m, [k |-> "refused", reason |-> reason]) /\ UNCHANGED <<srv, hist>>
Unheard == UNCHANGED <<srv, net, hist>>

\* An offer makes the row, once; its target may be nobody, or its quota spent.
Offered(q) ==
    IF ~ caps THEN Refuse(q, "sender", "off")
    ELSE IF budget.badTarget THEN Refuse(q, "sender", "bad_target")
    ELSE IF srv.state # "absent" THEN net' = q /\ UNCHANGED <<srv, hist>>
    ELSE Move(q, "uploading") \/ Refuse(q, "sender", "quota")

\* The server's answer to a command, while the row lets it.
Answer(m, cmd) ==
    CASE cmd = "offer" -> Offered(net)
      [] caps /\ cmd = "recall" /\ srv.state \in {"uploading", "offered"} -> Move(net, "recalled")
      [] caps /\ cmd = "claim" /\ srv.state = "offered" -> Move(net, "claimed")
      [] caps /\ cmd = "decline" /\ srv.state \in {"offered", "claimed"} -> Move(net, "declined")
      [] caps /\ cmd = "complete" /\ srv.state = "claimed" -> Move(net, "done")
      [] OTHER -> Refuse(net, m, IF caps THEN "gone" ELSE "off")
\* A command goes out on a live socket, and is answered or lost with it.
\* Bound: nobody asks again before a refusal is heard.
Command(m, cmd) ==
    /\ conn[m] /\ \A i \in DOMAIN net[m] : net[m][i].k # "refused"
    /\ \/ Answer(m, cmd) /\ UNCHANGED budget
       \/ Unheard /\ Spend("lost")

\* An offer, claim or upload past its time; a closed row past its week; the switch.  Days pass: what
\* was said to a machine that is there has been heard.
Quiet == \A m \in Machines : net[m] = <<>>
Expire == srv.state \in Open /\ Quiet /\ Move(net, "expired") /\ UNCHANGED <<caps, conn, budget, sender, taker>>
Purge ==
    /\ srv.state \in GivenUp \cup {"done"} /\ Quiet
    /\ Spend("purges")
    /\ srv' = [srv EXCEPT !.state = "absent"]
    /\ UNCHANGED <<caps, conn, net, hist, sender, taker>>
Restarted ==
    /\ Spend("switches")
    /\ caps' = ~ caps
    /\ srv' = IF ~ caps' /\ srv.state \in Open THEN [state |-> "expired", upd |-> srv.upd + 1] ELSE srv
    /\ conn' = [m \in Machines |-> FALSE] /\ net' = [m \in Machines |-> <<>>]
    /\ win' = [win EXCEPT !.heard = "none"] /\ rec' = OnCaps(rec, "none", FALSE)
    /\ UNCHANGED <<outbox, shelf, taker, hist>>

-----------------------------------------------------------------------------
(* The connection.                                                          *)

Connect(m) ==
    /\ ~ conn[m]
    /\ conn' = [conn EXCEPT ![m] = TRUE]
    /\ net' = [net EXCEPT ![m] = <<[k |-> "welcome", on |-> caps], [k |-> "list", state |-> srv.state, upd |-> srv.upd]>>]
    /\ UNCHANGED <<srv, caps, hist, budget, sender, taker>>
Drop(m) ==
    /\ conn[m] /\ Spend("drops")
    /\ conn' = [conn EXCEPT ![m] = FALSE] /\ net' = [net EXCEPT ![m] = <<>>]
    /\ IF m = "sender" THEN win' = [win EXCEPT !.heard = "none"] /\ rec' = OnCaps(rec, "none", FALSE)
                       ELSE UNCHANGED <<win, rec>>
    /\ UNCHANGED <<srv, caps, outbox, shelf, taker, hist>>
\* Nobody is heard until past the expiry and an hour: tickSync asks onCaps again.
Silence ==
    /\ win.heard = "none" /\ win.sheet = "none" /\ ~ hist.silent /\ Spend("silences")
    /\ hist' = [hist EXCEPT !.silent = TRUE]
    /\ rec' = OnCaps(rec, "none", TRUE)
    /\ UNCHANGED <<srv, caps, conn, net, outbox, shelf, win, taker>>

-----------------------------------------------------------------------------
(* The sender.                                                              *)

\* `proceed`: the session is stopped and shelved, and its record is made, under an id of its own.
Proceed ==
    /\ rec = NoRec /\ outbox = "none" /\ srv.upd = 0 /\ shelf # "gone"
    /\ win.heard = "on" /\ win.sheet = "none" /\ ~ hist.warned
    /\ rec' = [NoRec EXCEPT !.state = "packing"] /\ shelf' = "row"
    /\ win' = [win EXCEPT !.sheet = "review", !.offered = FALSE, !.recalling = FALSE]
    /\ UNCHANGED <<srv, caps, conn, net, outbox, taker, hist, budget>>
\* `send`, packed: refused or failed it goes back to the review; cancelled meanwhile, it is settled.
Pack ==
    /\ win.sheet = "review" /\ outbox = "none"
    /\ outbox' = (IF rec.state = "none" THEN "none" ELSE "packed")
    /\ win' = [win EXCEPT !.sheet = IF rec.state = "none" THEN "none" ELSE "sending", !.offered = rec.state # "none"]
    /\ UNCHANGED <<srv, caps, conn, net, rec, shelf, taker, hist, budget>>
\* `handoff_send`: the recipient is staged, and the offer goes out if there is a socket.
HandoffSend ==
    /\ win.sheet = "sending" /\ outbox = "packed"
    /\ outbox' = "named"
    /\ IF conn["sender"] THEN Command("sender", "offer") ELSE Unheard /\ UNCHANGED budget
    /\ win' = [win EXCEPT !.sheet = IF conn["sender"] THEN "sent" ELSE "kept"]
    /\ UNCHANGED <<caps, conn, rec, shelf, taker>>
\* ... and its answer reaches the window.
HandoffSent ==
    /\ win.sheet \in {"sent", "kept"}
    /\ rec' = IF win.sheet = "sent" /\ rec.state # "none" THEN [rec EXCEPT !.sent = TRUE] ELSE rec
    /\ win' = [win EXCEPT !.sheet = "none", !.offered = @ /\ win.sheet = "sent"]
    /\ UNCHANGED <<srv, caps, conn, net, outbox, shelf, taker, hist, budget>>

\* `cancelPacking` here: the record goes and the staging with it.
SettleHere ==
    /\ rec' = NoRec /\ outbox' = "none"
\* Cancel, from the sheet or the row's ↶.
Cancel ==
    /\ rec.state = "packing" /\ win.sheet # "sending" /\ win.sheet # "sent"
    /\ IF win.offered \/ rec.sent
       THEN \/ Command("sender", "recall") /\ win' = [win EXCEPT !.recalling = TRUE] /\ UNCHANGED <<rec, outbox>>
            \/ /\ ~ conn["sender"] /\ ~ rec.sent
               /\ SettleHere /\ win' = [win EXCEPT !.offered = FALSE] /\ Unheard /\ UNCHANGED budget
       ELSE SettleHere /\ win' = [win EXCEPT !.sheet = "none"] /\ Unheard /\ UNCHANGED budget
    /\ UNCHANGED <<caps, conn, shelf, taker>>
\* Take back, once the server has it.
TakeBack ==
    /\ rec.state \in {"uploading", "offered"} /\ ~ rec.unknown
    /\ Command("sender", "recall")
    /\ UNCHANGED <<caps, conn, sender, taker>>

\* `resumeDormant`: a returned one only after the person says so.
Resume ==
    /\ shelf = "row" /\ ~ Busy(rec)
    /\ shelf' = "live"
    /\ IF rec.state = "returned" THEN SettleHere /\ hist' = [hist EXCEPT !.warned = TRUE]
                                 ELSE UNCHANGED <<rec, outbox, hist>>
    /\ UNCHANGED <<srv, caps, conn, net, win, taker, budget>>

\* The Rust half: what is told of the staging, and an offer the server never acknowledged.
Acked(i) == IF outbox \in {"named", "acked", "refused"} /\ i.state # "absent" THEN "acked" ELSE outbox
Heard(r, box) ==
    /\ rec' = r /\ outbox' = box /\ shelf' = Dropped(r)
    /\ win' = [win EXCEPT !.settling = Due(r, @)]
Under(r) == IF win.heard = "off" THEN OnCaps(r, "off", FALSE) ELSE r
Rest == [net EXCEPT !["sender"] = Tail(@)]
SenderHears ==
    /\ net["sender"] # <<>>
    /\ LET msg == Head(net["sender"])
           reoffer == msg.state = "absent" /\ outbox = "named" /\ win.heard = "on"
       IN CASE msg.k = "welcome" ->
                 /\ rec' = OnCaps(rec, IF msg.on THEN "on" ELSE "off", FALSE)
                 /\ win' = [win EXCEPT !.heard = IF msg.on THEN "on" ELSE "off"]
                 /\ hist' = [hist EXCEPT !.silent = FALSE]
                 /\ net' = Rest /\ UNCHANGED <<outbox, shelf, srv>>
            [] msg.k = "list" /\ ~ reoffer -> Heard(Under(ApplyList(rec, msg)), Acked(msg)) /\ net' = Rest /\ UNCHANGED <<srv, hist>>
            [] msg.k = "list" /\ reoffer ->
                 /\ Heard(ApplyList(rec, msg), outbox)
                 /\ Offered(Rest)
            [] msg.k = "info" -> Heard(Under(ApplyInfo(rec, msg)), Acked(msg)) /\ net' = Rest /\ UNCHANGED <<srv, hist>>
            [] msg.k = "refused" /\ msg.reason = "gone" /\ win.recalling /\ rec.state = "packing" ->
                 /\ SettleHere /\ win' = [win EXCEPT !.recalling = FALSE, !.offered = FALSE]
                 /\ net' = Rest /\ UNCHANGED <<shelf, srv, hist>>
            [] OTHER ->
                 /\ Heard(ApplyRefused(rec, msg.reason),
                          IF outbox = "named" /\ msg.reason \in {"bad_target", "off"} THEN "refused" ELSE outbox)
                 /\ net' = Rest /\ UNCHANGED <<srv, hist>>
    /\ UNCHANGED <<caps, conn, taker, budget>>

\* The pump puts the staged parts; the last seals them.
Upload ==
    /\ conn["sender"] /\ caps /\ outbox = "acked" /\ srv.state = "uploading" /\ net["sender"] = <<>>
    /\ Move(net, "offered")
    /\ UNCHANGED <<caps, conn, budget, sender, taker>>

\* `settleDone`: archived, or not and asked again later.  `settleBack`: the record goes.
SettleDone ==
    /\ win.settling = "done" /\ win' = [win EXCEPT !.settling = "no"]
    /\ \/ /\ rec' = (IF rec.state = "done" THEN [rec EXCEPT !.settled = TRUE] ELSE rec)
          /\ outbox' = "none" /\ shelf' = (IF shelf = "row" THEN "gone" ELSE shelf) /\ UNCHANGED budget
       \/ Spend("fails") /\ UNCHANGED <<rec, outbox, shelf>>
    /\ UNCHANGED <<srv, caps, conn, net, taker, hist>>
SettleBack ==
    /\ win.settling = "back" /\ win' = [win EXCEPT !.settling = "no"]
    /\ SettleHere
    /\ UNCHANGED <<srv, caps, conn, net, shelf, taker, hist, budget>>
\* A handed row's ✕.
DismissHanded ==
    /\ rec.state = "done" /\ rec.settled /\ rec' = NoRec
    /\ UNCHANGED <<srv, caps, conn, net, outbox, shelf, win, taker, hist, budget>>

\* The sender's app goes and comes back: a live session is on the shelf, an open send is locked.
RestartSender ==
    /\ Spend("restarts")
    /\ conn' = [conn EXCEPT !["sender"] = FALSE] /\ net' = [net EXCEPT !["sender"] = <<>>]
    /\ rec' = OnCaps(rec, "none", FALSE)
    /\ shelf' = (IF shelf = "live" THEN "row" ELSE Dropped(rec))
    /\ win' = [NewWindow EXCEPT !.settling = Due(rec, "no")]
    /\ UNCHANGED <<srv, caps, outbox, taker, hist>>

-----------------------------------------------------------------------------
(* The taker.                                                               *)

\* `claimIn`: the place is chosen, then the server asked.
ClaimIn ==
    /\ inrec.state = "offered" /\ Command("taker", "claim")
    /\ inrec' = [inrec EXCEPT !.chosen = TRUE]
    /\ UNCHANGED <<caps, conn, inbox, copy, refusing, sender>>
DeclineIn ==
    /\ inrec.state \in {"offered", "claimed"} /\ Command("taker", "decline")
    /\ refusing' = TRUE
    /\ UNCHANGED <<caps, conn, inrec, inbox, copy, sender>>

\* `applyInfo` for an offer to this machine: what ends without being handed over is gone.
ApplyIn(r, i) ==
    IF r.state = "none" THEN IF i.state = "offered" THEN [NoInRec EXCEPT !.state = "offered", !.upd = i.upd] ELSE r
    ELSE IF r.upd > i.upd THEN r
    ELSE IF i.state \in GivenUp THEN NoInRec
    ELSE [r EXCEPT !.state = i.state, !.upd = i.upd]
Unlisted(i) == i.k = "list" /\ i.state = "absent"
ApplyInList(r, i) == IF i.state # "absent" THEN ApplyIn(r, i) ELSE IF r.state = "done" THEN r ELSE NoInRec

\* The Rust half: a claim is downloaded, "done" makes it ready, an ending clears it.  The variant
\* takes any closed row for an ending.
StagedUnlessClosed(i) ==
    CASE i.state = "claimed" /\ inbox = "none" -> "fetching"
      [] i.state \in GivenUp \cup {"done"} -> "none"
      [] OTHER -> inbox
Staged(i) ==
    CASE i.state = "claimed" /\ inbox = "none" -> "fetching"
      [] i.state = "done" /\ inbox = "fetched" -> "done"
      [] i.state \in GivenUp -> "none"
      [] OTHER -> inbox
\* `receiveDue`: on "ready" it is placed where the person chose, unless they had declined it.
Placed(r) ==
    IF inbox' # "done" \/ r.state # "done" \/ r.settled \/ ~ r.chosen \/ copy # "no" THEN copy
    ELSE IF refusing THEN "failed" ELSE "installing"
TakerHears ==
    /\ net["taker"] # <<>>
    /\ LET msg == Head(net["taker"])
           word == msg.k \in {"info", "list"}
       IN  /\ inrec' = CASE msg.k = "info" -> ApplyIn(inrec, msg) [] msg.k = "list" -> ApplyInList(inrec, msg) [] OTHER -> inrec
           /\ inbox' = IF word THEN Staged(msg) ELSE inbox
           /\ copy' = IF word THEN Placed(inrec') ELSE copy
           /\ net' = [net EXCEPT !["taker"] = Tail(@)]
           /\ hist' = [hist EXCEPT !.forgot = @ \/ (hist.handed /\ Unlisted(msg) /\ inrec.state # "done")]
    /\ UNCHANGED <<srv, caps, conn, refusing, budget, sender>>
\* The last part is in and hashes to what was offered: "complete".  Sent again if it was lost.
Fetch ==
    /\ inbox \in {"fetching", "fetched"} /\ inrec.state = "claimed" /\ net["taker"] = <<>>
    /\ Command("taker", "complete")
    /\ inbox' = "fetched"
    /\ UNCHANGED <<caps, conn, inrec, copy, refusing, sender>>

\* `handoff_install` writes only what is handed over.
Ready == inbox = "done"
Install ==
    /\ copy = "installing" /\ Ready
    /\ \/ /\ copy' = "live" /\ inrec' = [inrec EXCEPT !.settled = TRUE] /\ inbox' = "none" /\ UNCHANGED budget
       \/ copy' = "failed" /\ Spend("fails") /\ UNCHANGED <<inrec, inbox>>
    /\ UNCHANGED <<srv, caps, conn, net, refusing, hist, sender>>
\* Retry, from a sheet that shows one received.
Retry ==
    /\ inrec.state = "done" /\ ~ inrec.settled /\ copy \in {"no", "failed"} /\ Ready
    /\ copy' = "installing"
    /\ UNCHANGED <<srv, caps, conn, net, inrec, inbox, refusing, hist, budget, sender>>
\* The taker's app goes and comes back; boot prunes staging no record names.
RestartTaker ==
    /\ Spend("restarts")
    /\ conn' = [conn EXCEPT !["taker"] = FALSE] /\ net' = [net EXCEPT !["taker"] = <<>>]
    /\ copy' = (IF copy = "live" THEN "live" ELSE "no") /\ refusing' = FALSE
    /\ inbox' = (IF inrec.state = "none" THEN "none" ELSE inbox)
    /\ UNCHANGED <<srv, caps, inrec, hist, sender>>

Next ==
    \/ Expire \/ Purge \/ Restarted \/ Silence \/ \E m \in Machines : Connect(m) \/ Drop(m)
    \/ Proceed \/ Pack \/ HandoffSend \/ HandoffSent \/ Cancel \/ TakeBack \/ Resume
    \/ SenderHears \/ Upload \/ SettleDone \/ SettleBack \/ DismissHanded \/ RestartSender
    \/ ClaimIn \/ DeclineIn \/ TakerHears \/ Fetch \/ Install \/ Retry \/ RestartTaker
Spec == Init /\ [][Next]_hvars

-----------------------------------------------------------------------------
\* One conversation is not carried on in two places: from the moment the server hands it over the
\* sender can no longer resume it, however late, twice or never its window hears so, through
\* restarts of both ends and of the server, unless it was asked "resume here?" first.
OneHolder ==
    hist.handed /\ ~ hist.warned =>
        ~ (shelf = "live" \/ (shelf = "row" /\ ~ Busy(rec) /\ rec.state # "returned"))

\* The conversation is somewhere: once the sender's window has archived it, the taker has it
\* open or wholly staged, whatever either end missed meanwhile, unless the taker was away until
\* the server had forgotten the row (`reduce` drops its record then, and the next boot its staging).
SomebodyHolds == shelf = "gone" /\ ~ hist.forgot => copy = "live" \/ inbox \in {"fetched", "done"}

\* "server unreachable after the offer: the sender stays locked until it hears, or expiry + 1h"
\* (docs/handoff.md): past that the row is resumable, after a confirm.
SilenceUnlocks == hist.silent /\ win.heard = "none" /\ win.sheet = "none" /\ rec.sent => ~ Busy(rec)
=============================================================================
