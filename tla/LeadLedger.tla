----------------------------- MODULE LeadLedger -----------------------------
(***************************************************************************)
(* What custody promises, without tables, sessions or schedules: a contact *)
(* is with the house or with one partner; it passes to a partner only from *)
(* the house and only in the one grant a key ever makes; it comes back to  *)
(* the house, never sideways to another partner.                           *)
(***************************************************************************)
CONSTANTS Contacts, Partners, House, Keys, None

VARIABLES
    holder,  \* who may dial each contact
    granted  \* the partner and the contacts each used key granted

ledgerVars == <<holder, granted>>

LedgerInit ==
    /\ holder = [c \in Contacts |-> House]
    /\ granted = [k \in Keys |-> None]

Grant(k, p, S) ==
    /\ granted[k] = None
    /\ \A c \in S : holder[c] = House
    /\ granted' = [granted EXCEPT ![k] = [partner |-> p, members |-> S]]
    /\ holder' = [c \in Contacts |-> IF c \in S THEN p ELSE holder[c]]

Return(S) ==
    /\ holder' = [c \in Contacts |-> IF c \in S THEN House ELSE holder[c]]
    /\ UNCHANGED granted

LedgerNext ==
    \/ \E k \in Keys, p \in Partners, S \in SUBSET Contacts : Grant(k, p, S)
    \/ \E S \in SUBSET Contacts : Return(S)

LedgerSpec == LedgerInit /\ [][LedgerNext]_ledgerVars
=============================================================================
