---------------------------- MODULE MCEventHistory ----------------------------
(* A contact's life for TLC: two pieces, two inbounds and two `lost`, each   *)
(* kind early and late, a reply, a signup and both kinds of opt-out.         *)
EXTENDS EventHistory

Event(i, type, at) == [id |-> i, type |-> type, at |-> at, mailOnly |-> FALSE]

Life ==
    {Event(1, "piece.submitted", 1), Event(2, "piece.submitted", 3),
     Event(3, "page.visit", 1), Event(4, "call.inbound", 2), Event(5, "sms.inbound", 4),
     Event(6, "call.answered", 2), Event(7, "sms.outbound", 3),
     Event(8, "contact.lost", 2), Event(9, "contact.lost", 4),
     Event(10, "signup.completed", 3), Event(11, "contact.opt_out", 0),
     [id |-> 12, type |-> "contact.opt_out", at |-> 2, mailOnly |-> TRUE]}
===============================================================================
