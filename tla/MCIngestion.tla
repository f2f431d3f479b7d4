------------------------------ MODULE MCIngestion ------------------------------
(* Facts for TLC: c1 is mailed a card and calls and writes on one thread; c2  *)
(* buys.                                                                      *)
EXTENDS Ingestion

E(i, type, at) == [id |-> i, type |-> type, at |-> at, mailOnly |-> FALSE]

Sent1      == E(1, "piece.submitted", 0)
Delivered1 == E(2, "piece.delivered", 1)
Returned1  == E(3, "piece.returned", 2)
Again1     == E(4, "piece.returned", 2)   \* the same return, by webhook
Call       == E(5, "call.inbound", 1)
Text       == E(6, "sms.inbound", 2)      \* on the thread of Call
Close      == E(7, "signup.completed", 2)
Lost1      == E(8, "contact.lost", 1)    \* said at the desk

\* A card's scans, the return by poll and by webhook.
Mail  == {Sent1, Delivered1, Returned1, Again1}
\* A conversation on a thread, a purchase.
Talks == {Call, Text, Close}
\* A card is answered on a thread; the caller is given up at the desk.
Desk  == {Sent1, Call, Text, Lost1}

MCWorlds == {Mail, Talks, Desk}
MCFacts  == UNION MCWorlds

InletOf == [f \in Facts |-> IF f = Sent1 THEN "drop"
                            ELSE IF f = Lost1 THEN "desk"
                            ELSE IF f \in {Delivered1, Returned1} THEN "feed"
                            ELSE IF f = Close THEN "close" ELSE "push"]
AboutOf == [f \in Facts |-> IF f = Close THEN "c2" ELSE "c1"]
CodeOf  == [f \in Facts |-> IF f \in {Call, Text, Close, Lost1} THEN None ELSE "p1"]
ThreadOf == [f \in Facts |-> IF f \in {Call, Text} THEN "t" ELSE None]
PhoneOf == [f \in Facts |-> IF f \in {Call, Close} THEN AboutOf[f] ELSE None]
AddresseeOf == [p \in Pieces |-> "c1"]
=============================================================================
