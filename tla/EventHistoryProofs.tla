------------------------- MODULE EventHistoryProofs -------------------------
(***************************************************************************)
(* Theorems about derive_stage, for every set of events and every order of *)
(* their arrival.                                                          *)
(***************************************************************************)
EXTENDS EventHistory, DerivationProofs

(* A history only ever grows, within what happens to the contact.           *)
THEOREM TypeCorrect == Spec => []TypeOK
<1>1. Init => TypeOK
  BY DEF Init, TypeOK
<1>2. TypeOK /\ [Next]_history => TypeOK'
  BY DEF TypeOK, Next, Learn
<1> QED BY <1>1, <1>2, PTL DEF Spec

(* derive_stage gives each stage exactly to the histories that mean it,     *)
(* whatever happens to the contact and in whatever order it is learnt.      *)
THEOREM StagesMeanWhatTheySay == Spec => []StageIsMeaning
<1>1. TypeOK => StageIsMeaning
  <2> SUFFICES ASSUME TypeOK
               PROVE  StageIsMeaning
    OBVIOUS
  <2>1. history \subseteq Fact
    BY HistoryAssumption DEF TypeOK
  <2>2. IsResponded(history) <=> Answered(history)
    BY <2>1, RespondedMeans
  <2>3. IsEngaged(history) <=> Conversed(history)
    BY <2>1, EngagedMeans
  <2>4. IsLost(history) <=> GivenUp(history)
    BY <2>1, LostMeans
  <2>5. WasSubmitted(history) <=> \E e \in history : e.type = "piece.submitted"
    BY <2>1, SubmittedMeans
  <2>6. (Conversed(history) => Answered(history)) /\ (Answered(history) => WasSubmitted(history))
    BY <2>1, MeaningsNest
  <2> QED BY <2>2, <2>3, <2>4, <2>5, <2>6 DEF StageIsMeaning, DeriveStage
<1> QED BY <1>1, TypeCorrect, PTL

(* Late and reordered events never take a contact's stage back.             *)
THEOREM StagesGoForward == Spec => ForwardOnly
<1>1. TypeOK /\ [Next]_history =>
        [LET was == DeriveStage(history) is == DeriveStage(history') IN
            /\ "lost" \notin {was, is} => Rank(was) <= Rank(is)
            /\ was \in {"won", "suppressed"} => is \in {was, "suppressed"}]_history
  <2> SUFFICES ASSUME TypeOK, NEW es \in SUBSET Occurrences, Learn(es)
               PROVE  LET was == DeriveStage(history) is == DeriveStage(history') IN
                        /\ "lost" \notin {was, is} => Rank(was) <= Rank(is)
                        /\ was \in {"won", "suppressed"} => is \in {was, "suppressed"}
    BY DEF Next
  <2>1. history \subseteq history' /\ history' \subseteq Fact
    BY HistoryAssumption DEF TypeOK, Learn
  <2> QED BY <2>1, StageGoesForward
<1> QED BY <1>1, TypeCorrect, PTL DEF Spec, ForwardOnly

(* Nothing but an inbound, a signup or an opt-out takes a contact out of    *)
(* lost.                                                                    *)
THEOREM LostStaysLost == Spec => LostIsLeftByAnInbound
<1>1. TypeOK /\ [Next]_history =>
        [DeriveStage(history) = "lost" /\ DeriveStage(history') # "lost" =>
            \E e \in history' \ history :
              e.type \in InboundTypes \cup {"signup.completed", "contact.opt_out"}]_history
  <2> SUFFICES ASSUME TypeOK, NEW es \in SUBSET Occurrences, Learn(es),
                      DeriveStage(history) = "lost",
                      \A e \in es : e.type \notin
                          InboundTypes \cup {"signup.completed", "contact.opt_out"}
               PROVE  DeriveStage(history') = "lost"
    BY DEF Next, Learn
  <2>1. history \subseteq Fact /\ history' \subseteq Fact /\ history' = history \cup es
    BY HistoryAssumption DEF TypeOK, Learn
  <2>2. ~IsSuppressed(history) /\ ~HasSignup(history) /\ IsLost(history)
    BY DEF DeriveStage
  <2>3. ~IsSuppressed(history') /\ ~HasSignup(history')
    BY <2>1, <2>2 DEF IsSuppressed, HasSignup
  <2>4. GivenUp(history)
    BY <2>1, <2>2, LostMeans
  <2>5. GivenUp(history')
    BY <2>1, <2>4 DEF GivenUp
  <2>6. IsLost(history')
    BY <2>1, <2>5, LostMeans
  <2> QED BY <2>3, <2>6 DEF DeriveStage
<1> QED BY <1>1, TypeCorrect, PTL DEF Spec, LostIsLeftByAnInbound
=============================================================================
