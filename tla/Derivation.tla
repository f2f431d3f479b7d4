----------------------------- MODULE Derivation -----------------------------
(***************************************************************************)
(* derivation/rules.py: what a contact's events add up to.  A history is a *)
(* SET of facts: derive_stage never looks at list positions, only at types *)
(* and at occurred_at.  Facts are told apart by their row (field id), so   *)
(* two returned pieces of one instant are two.                             *)
(***************************************************************************)
EXTENDS Naturals, FiniteSets

CONSTANTS
    Rows,    \* events.id
    Horizon  \* bound: the last instant

ASSUME DerivationAssumption == Horizon \in Nat

Times == 0..Horizon

InboundTypes == {"page.visit", "call.inbound", "sms.inbound"}
EngageTypes  == {"sms.outbound", "call.answered"}
Types == InboundTypes \cup EngageTypes \cup
         {"piece.submitted", "piece.delivered", "piece.returned",
          "signup.completed", "contact.opt_out", "contact.lost"}

(* mailOnly: an opt_out whose payload.reason is do_not_mail.                *)
Fact == [id : Rows, type : Types, at : Times, mailOnly : BOOLEAN]

ReturnedSuppressionCount == 2

-----------------------------------------------------------------------------
TimesOf(E, types) == {e.at : e \in {x \in E : x.type \in types}}

Earliest(T) == CHOOSE t \in T : \A u \in T : t <= u
Latest(T)   == CHOOSE t \in T : \A u \in T : u <= t

FirstSubmittedAt(E) == Earliest(TimesOf(E, {"piece.submitted"}))

WasSubmitted(E) == TimesOf(E, {"piece.submitted"}) # {}

(* Mutant of ResponseTimes: the instant of the piece itself counts.         *)
ResponseTimesFromPiece(E) ==
    {t \in TimesOf(E, InboundTypes) : WasSubmitted(E) /\ t >= FirstSubmittedAt(E)}

(* The inbounds after the first piece; _first_response_at is the earliest.  *)
ResponseTimes(E) ==
    {t \in TimesOf(E, InboundTypes) : WasSubmitted(E) /\ t > FirstSubmittedAt(E)}

IsResponded(E) == ResponseTimes(E) # {}

(* Mutant of IsEngaged: after the latest response.                          *)
IsEngagedSinceLast(E) ==
    \E t \in TimesOf(E, EngageTypes) : IsResponded(E) /\ t > Latest(ResponseTimes(E))

IsEngaged(E) ==
    \E t \in TimesOf(E, EngageTypes) : IsResponded(E) /\ t > Earliest(ResponseTimes(E))

IsSuppressed(E) == \E e \in E : e.type = "contact.opt_out" /\ ~e.mailOnly

IsAddressUndeliverable(E) ==
    Cardinality({e \in E : e.type = "piece.returned"}) >= ReturnedSuppressionCount

(* Mutant of IsLost: any `lost` without a later inbound.                    *)
IsLostEarliest(E) ==
    LET lost == TimesOf(E, {"contact.lost"}) IN
    lost # {} /\ ~\E t \in TimesOf(E, InboundTypes) : t > Earliest(lost)

IsLost(E) ==
    LET lost == TimesOf(E, {"contact.lost"}) IN
    lost # {} /\ ~\E t \in TimesOf(E, InboundTypes) : t > Latest(lost)

HasSignup(E) == \E e \in E : e.type = "signup.completed"

DeriveStage(E) ==
    IF IsSuppressed(E) THEN "suppressed"
    ELSE IF HasSignup(E) THEN "won"
    ELSE IF IsLost(E) THEN "lost"
    ELSE IF IsEngaged(E) THEN "in_conversation"
    ELSE IF IsResponded(E) THEN "responded"
    ELSE IF WasSubmitted(E) THEN "in_sequence"
    ELSE "prospect"

ContactStages == {"prospect", "in_sequence", "responded", "in_conversation", "won",
                  "lost", "suppressed"}

-----------------------------------------------------------------------------
(* The stages as the data document defines them, by who did what after     *)
(* whom and without naming a first or a last of anything.                   *)
Follows(e, f) == e.at > f.at

Answered(E) ==
    \E piece, inbound \in E :
        /\ piece.type = "piece.submitted" /\ inbound.type \in InboundTypes
        /\ Follows(inbound, piece)

Conversed(E) ==
    \E piece, inbound, reply \in E :
        /\ piece.type = "piece.submitted" /\ inbound.type \in InboundTypes
        /\ reply.type \in EngageTypes
        /\ Follows(inbound, piece) /\ Follows(reply, inbound)

GivenUp(E) ==
    \E lost \in E :
        /\ lost.type = "contact.lost"
        /\ \A inbound \in E : inbound.type \in InboundTypes => ~Follows(inbound, lost)

(* The order of the pipeline; `lost` has no place in it.                    *)
Rank(stage) ==
    CASE stage = "prospect" -> 0
      [] stage = "in_sequence" -> 1
      [] stage = "responded" -> 2
      [] stage = "in_conversation" -> 3
      [] stage = "won" -> 4
      [] stage = "suppressed" -> 5
=============================================================================
