------------------------- MODULE CustodyRefinement -------------------------
(***************************************************************************)
(* Custody implements LeadLedger: the owner column is the holder, and the  *)
(* batch rows, without their clock, are the grants.                        *)
(***************************************************************************)
EXTENDS Custody

GrantedBy(row) == IF row = None THEN None ELSE [partner |-> row.partner, members |-> row.members]

Ledger == INSTANCE LeadLedger WITH
              holder  <- owner,
              granted <- [k \in Keys |-> GrantedBy(batch[k])]

(* Every step of the concurrent verbs is a grant, a return or nothing: a    *)
(* contact never passes from one partner to another, and a key grants once. *)
ImplementsLedger == Ledger!LedgerSpec
=============================================================================
