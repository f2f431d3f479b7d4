----------------------------- MODULE MCNightTail -----------------------------
(* Worlds for TLC, on days of two instants.                                 *)
EXTENDS NightTail

MCParams ==
    [quiet_days |-> 0, age_out_days |-> 1, nudge_budget |-> 1, cooldown_days |-> 2,
     expire_days |-> 0, orphan_max |-> 1, dnc_version_alert_days |-> 1, fail_pct |-> 8,
     resp_check_days |-> 1, lead_days |-> 1, batch_checkpoint_days |-> 1,
     heartbeat_days |-> 1, expiry_days |-> 2]

E(i, c, t, a) == [id |-> i, contact |-> c, type |-> t, at |-> a, mailOnly |-> FALSE,
                  credit |-> None]
Event(i, c, t, a) == [kind |-> "event", event |-> E(i, c, t, a)]
Human(c, d) == [kind |-> "human", contact |-> c, date |-> d]
Assigned(p, S) == [kind |-> "assign", partner |-> p, contacts |-> S]
Gone(c)     == [kind |-> "remove", contact |-> c]

Quiet == [known |-> {}, agenda |-> {}, waves |-> {}, codes |-> {}, sender |-> TRUE,
          active |-> {}, demos |-> {}, mishaps |-> 1]

\* c answers a card, is called back, speaks again; a human plans for it.
Talking == [Quiet EXCEPT !.known = {E(1, "c", "piece.submitted", 0)},
    !.agenda = {Event(2, "c", "call.inbound", 1), Event(3, "c", "call.answered", 2),
                Event(4, "c", "sms.inbound", 4), Human("c", 2)}]
\* A partner's contact answers while the house's misses a demo and books again.
Owned == [Quiet EXCEPT !.active = {"p"}, !.demos = {"p"},
    !.known = {E(1, "c", "piece.submitted", 0), E(2, "d", "demo.no_show", 1)},
    !.agenda = {Assigned("p", {"c"}), Event(3, "c", "page.visit", 2),
                Event(4, "d", "demo.booked", 3)}]
\* A contact leaves under the reports of two partners.
Leaving == [Quiet EXCEPT !.active = {"p", "q"},
    !.known = {[E(1, "d", "signup.completed", 1) EXCEPT !.credit = "q"]},
    !.agenda = {Assigned("p", {"c", "d"}), Gone("c")}]
\* Alarms of every kind, and nobody to send to.
Alarms == [Quiet EXCEPT !.sender = FALSE, !.active = {"p"},
    !.known = {E(1, "c", "piece.returned", 0), E(2, "c", "piece.returned", 0),
               E(3, None, "call.inbound", 1), E(5, "d", "demo.no_show", 1)},
    !.agenda = {Assigned("p", {"d"}), Event(4, "d", "note.partner", 2)},
    !.codes = {[checked |-> 1, listed |-> 0]},
    !.waves = {[wave |-> "w", status |-> "sent", scheduled |-> None, executed |-> 1,
                cards |-> 10, bad |-> 0, mailed |-> {"c"}],
               [wave |-> "v", status |-> "draft", scheduled |-> 3, executed |-> None,
                cards |-> 0, bad |-> 0, mailed |-> {}]}]

MCWorlds == {Talking, Owned, Leaving, Alarms}
=============================================================================
