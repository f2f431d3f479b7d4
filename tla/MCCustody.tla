----------------------------- MODULE MCCustody -----------------------------
(* Small instances of Custody for TLC.                                      *)
EXTENDS CustodyRefinement, TLC

Symmetry ==
    Permutations(Contacts) \cup Permutations(Partners) \cup Permutations(Keys)
        \cup Permutations(Callers)
=============================================================================
