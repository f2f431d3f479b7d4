---------------------------- MODULE EventHistory ----------------------------
(***************************************************************************)
(* A contact's events become known in any order, one or several at once:   *)
(* the feeds overlap, a scan may be reported weeks late, orphans are       *)
(* attributed by a later night.  What may derive_stage say on the way?     *)
(***************************************************************************)
EXTENDS Derivation

CONSTANT Occurrences  \* what happens to the contact

ASSUME HistoryAssumption ==
    /\ Occurrences \subseteq Fact
    /\ \A e, f \in Occurrences : e.id = f.id => e = f

VARIABLE history  \* the contact's attributed events so far

Init == history = {}

(* A transaction that attributes more of the contact's events commits.      *)
Learn(es) ==
    /\ es # {} /\ es \cap history = {}
    /\ history' = history \cup es

Next == \E es \in SUBSET Occurrences : Learn(es)

Spec == Init /\ [][Next]_history

-----------------------------------------------------------------------------
(* An event keeps the instant at which it happened (occurred_at), however   *)
(* late it arrives.                                                         *)
TypeOK == history \subseteq Occurrences

(* derive_stage, with its firsts and lasts, gives each stage exactly to the *)
(* histories that mean it.                                                  *)
StageIsMeaning ==
    LET open == ~IsSuppressed(history) /\ ~HasSignup(history)
        stage == DeriveStage(history) IN
    /\ (stage = "suppressed") <=> IsSuppressed(history)
    /\ (stage = "won") <=> (HasSignup(history) /\ ~IsSuppressed(history))
    /\ (stage = "lost") <=> (open /\ GivenUp(history))
    /\ (stage = "in_conversation") <=> (open /\ ~GivenUp(history) /\ Conversed(history))
    /\ (stage = "responded") <=>
          (open /\ ~GivenUp(history) /\ ~Conversed(history) /\ Answered(history))
    /\ (stage = "prospect") <=>
          (open /\ ~GivenUp(history) /\ \A e \in history : e.type # "piece.submitted")

(* However late and in whatever order events arrive, the stage only moves   *)
(* forward, leaving `lost` aside, won gives way to an opt-out alone, and an *)
(* opt-out is for good.                                                     *)
ForwardOnly ==
    [][LET was == DeriveStage(history) is == DeriveStage(history') IN
          /\ "lost" \notin {was, is} => Rank(was) <= Rank(is)
          /\ was \in {"won", "suppressed"} => is \in {was, "suppressed"}]_history

(* Lost is left only by an inbound, a signup or an opt-out.                 *)
LostIsLeftByAnInbound ==
    [][DeriveStage(history) = "lost" /\ DeriveStage(history') # "lost" =>
          \E e \in history' \ history :
              e.type \in InboundTypes \cup {"signup.completed", "contact.opt_out"}]_history
=============================================================================
