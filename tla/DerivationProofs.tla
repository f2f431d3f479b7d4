-------------------------- MODULE DerivationProofs --------------------------
(***************************************************************************)
(* Lemmas about derive_stage for every set of events: its firsts and lasts *)
(* against the meaning of the stages, and what more events do to a stage.  *)
(***************************************************************************)
EXTENDS Derivation, WellFoundedInduction, TLAPS

(* A set of instants has a first, and Earliest is it.                       *)
LEMMA EarliestIsLeast ==
    ASSUME NEW T, T \subseteq Times, T # {}
    PROVE  Earliest(T) \in T /\ \A u \in T : Earliest(T) <= u
<1> DEFINE R == {p \in Nat \X Nat : p[1] < p[2]}
<1>1. IsWellFoundedOn(R, Nat)
  BY NatLessThanWellFounded DEF OpToRel
<1>2. T \subseteq Nat
  BY DerivationAssumption DEF Times
<1>3. PICK x \in T : \A y \in T : ~(<<y, x>> \in R)
  <2> HIDE DEF R
  <2> QED BY <1>1, <1>2, WFMin
<1>4. ASSUME NEW y \in T
      PROVE  x <= y
  <2>1. x \in Nat /\ y \in Nat
    BY <1>2
  <2>2. x <= y \/ y < x
    BY <2>1
  <2>3. y < x => <<y, x>> \in R
    BY <2>1
  <2> QED BY <1>3, <2>2, <2>3
<1> QED BY <1>4 DEF Earliest

(* A set of instants has a last, and Latest is it: the first counted back   *)
(* from the horizon.                                                        *)
LEMMA LatestIsGreatest ==
    ASSUME NEW T, T \subseteq Times, T # {}
    PROVE  Latest(T) \in T /\ \A u \in T : u <= Latest(T)
<1> DEFINE Back == {Horizon - t : t \in T}
<1>0. \A t \in T : t \in Nat /\ t <= Horizon
  BY DerivationAssumption DEF Times
<1>1. Back \subseteq Times /\ Back # {}
  <2>1. \A t \in T : Horizon - t \in Times
    BY <1>0, DerivationAssumption DEF Times
  <2> QED BY <2>1
<1>2. PICK b \in Back : \A c \in Back : b <= c
  <2> HIDE DEF Back
  <2> QED BY <1>1, EarliestIsLeast
<1>3. PICK x \in T : b = Horizon - x
  BY <1>2
<1>4. ASSUME NEW u \in T
      PROVE  u <= x
  <2>1. b <= Horizon - u
    BY <1>2, <1>4
  <2> QED BY <2>1, <1>3, DerivationAssumption DEF Times
<1> QED BY <1>4 DEF Latest

(* The instants of facts are instants.                                      *)
LEMMA TimesOfFacts ==
    ASSUME NEW E, E \subseteq Fact, NEW types
    PROVE  /\ TimesOf(E, types) \subseteq Times
           /\ \A e \in E : e.type \in types => e.at \in TimesOf(E, types)
           /\ \A t \in TimesOf(E, types) : \E e \in E : e.type \in types /\ e.at = t
BY DEF TimesOf, Fact

(* The first piece and the first response, by the events they stand for.    *)
LEMMA RespondedMeans ==
    ASSUME NEW E, E \subseteq Fact
    PROVE  /\ IsResponded(E) <=> Answered(E)
           /\ ResponseTimes(E) \subseteq Times
<1> DEFINE sub == TimesOf(E, {"piece.submitted"})
<1> DEFINE inb == TimesOf(E, InboundTypes)
<1>1. sub \subseteq Times /\ inb \subseteq Times
  BY TimesOfFacts
<1>2. ResponseTimes(E) = {t \in inb : sub # {} /\ t > Earliest(sub)}
  BY DEF ResponseTimes, WasSubmitted, FirstSubmittedAt
<1>3. sub # {} => Earliest(sub) \in sub /\ \A u \in sub : Earliest(sub) <= u
  <2> HIDE DEF sub
  <2> QED BY <1>1, EarliestIsLeast
<1>4. ASSUME IsResponded(E)
      PROVE  Answered(E)
  <2>1. PICK t \in inb : sub # {} /\ t > Earliest(sub)
    BY <1>2, <1>4 DEF IsResponded
  <2>2. PICK inbound \in E : inbound.type \in InboundTypes /\ inbound.at = t
    BY <2>1, TimesOfFacts
  <2>3. PICK piece \in E : piece.type \in {"piece.submitted"} /\ piece.at = Earliest(sub)
    BY <1>3, <2>1, TimesOfFacts
  <2> QED BY <2>1, <2>2, <2>3 DEF Answered, Follows
<1>5. ASSUME Answered(E)
      PROVE  IsResponded(E)
  <2>1. PICK piece \in E, inbound \in E :
           /\ piece.type = "piece.submitted" /\ inbound.type \in InboundTypes
           /\ inbound.at > piece.at
    BY <1>5 DEF Answered, Follows
  <2>2. piece.at \in sub /\ inbound.at \in inb
    BY <2>1, TimesOfFacts
  <2>3. inbound.at > Earliest(sub)
    BY <1>1, <1>3, <2>1, <2>2, DerivationAssumption DEF Times
  <2> QED BY <1>2, <2>2, <2>3 DEF IsResponded
<1> QED BY <1>1, <1>2, <1>4, <1>5

LEMMA EngagedMeans ==
    ASSUME NEW E, E \subseteq Fact
    PROVE  IsEngaged(E) <=> Conversed(E)
<1> DEFINE sub == TimesOf(E, {"piece.submitted"})
<1> DEFINE inb == TimesOf(E, InboundTypes)
<1> DEFINE eng == TimesOf(E, EngageTypes)
<1> DEFINE res == ResponseTimes(E)
<1>1. sub \subseteq Times /\ inb \subseteq Times /\ eng \subseteq Times /\ res \subseteq Times
  BY TimesOfFacts, RespondedMeans
<1>2. res = {t \in inb : sub # {} /\ t > Earliest(sub)}
  BY DEF ResponseTimes, WasSubmitted, FirstSubmittedAt
<1>3. sub # {} => Earliest(sub) \in sub /\ \A u \in sub : Earliest(sub) <= u
  <2> HIDE DEF sub
  <2> QED BY <1>1, EarliestIsLeast
<1>4. res # {} => Earliest(res) \in res /\ \A u \in res : Earliest(res) <= u
  <2> HIDE DEF res
  <2> QED BY <1>1, EarliestIsLeast
<1>5. ASSUME IsEngaged(E)
      PROVE  Conversed(E)
  <2>1. PICK t \in eng : res # {} /\ t > Earliest(res)
    BY <1>5 DEF IsEngaged, IsResponded
  <2>2. PICK reply \in E : reply.type \in EngageTypes /\ reply.at = t
    BY <2>1, TimesOfFacts
  <2>3. Earliest(res) \in inb /\ sub # {} /\ Earliest(res) > Earliest(sub)
    BY <1>2, <1>4, <2>1
  <2>4. PICK inbound \in E : inbound.type \in InboundTypes /\ inbound.at = Earliest(res)
    BY <2>3, TimesOfFacts
  <2>5. PICK piece \in E : piece.type \in {"piece.submitted"} /\ piece.at = Earliest(sub)
    BY <1>3, <2>3, TimesOfFacts
  <2> QED BY <2>1, <2>2, <2>3, <2>4, <2>5 DEF Conversed, Follows
<1>6. ASSUME Conversed(E)
      PROVE  IsEngaged(E)
  <2>1. PICK piece \in E, inbound \in E, reply \in E :
           /\ piece.type = "piece.submitted" /\ inbound.type \in InboundTypes
           /\ reply.type \in EngageTypes
           /\ inbound.at > piece.at /\ reply.at > inbound.at
    BY <1>6 DEF Conversed, Follows
  <2>2. piece.at \in sub /\ inbound.at \in inb /\ reply.at \in eng
    BY <2>1, TimesOfFacts
  <2>3. inbound.at \in res
    BY <1>1, <1>2, <1>3, <2>1, <2>2, DerivationAssumption DEF Times
  <2>4. reply.at > Earliest(res)
    BY <1>1, <1>4, <2>1, <2>2, <2>3, DerivationAssumption DEF Times
  <2> QED BY <2>2, <2>3, <2>4 DEF IsEngaged, IsResponded
<1> QED BY <1>5, <1>6

LEMMA LostMeans ==
    ASSUME NEW E, E \subseteq Fact
    PROVE  IsLost(E) <=> GivenUp(E)
<1> DEFINE lost == TimesOf(E, {"contact.lost"})
<1> DEFINE inb == TimesOf(E, InboundTypes)
<1>1. lost \subseteq Times /\ inb \subseteq Times
  BY TimesOfFacts
<1>2. lost # {} => Latest(lost) \in lost /\ \A u \in lost : u <= Latest(lost)
  <2> HIDE DEF lost
  <2> QED BY <1>1, LatestIsGreatest
<1>3. IsLost(E) <=> lost # {} /\ \A t \in inb : ~(t > Latest(lost))
  BY DEF IsLost
<1>4. ASSUME IsLost(E)
      PROVE  GivenUp(E)
  <2>1. PICK l \in E : l.type \in {"contact.lost"} /\ l.at = Latest(lost)
    BY <1>2, <1>3, <1>4, TimesOfFacts
  <2>2. \A i \in E : i.type \in InboundTypes => i.at \in inb
    BY TimesOfFacts
  <2> QED BY <1>3, <1>4, <2>1, <2>2 DEF GivenUp, Follows
<1>5. ASSUME GivenUp(E)
      PROVE  IsLost(E)
  <2>1. PICK l \in E : /\ l.type = "contact.lost"
                       /\ \A i \in E : i.type \in InboundTypes => ~(i.at > l.at)
    BY <1>5 DEF GivenUp, Follows
  <2>2. l.at \in lost
    BY <2>1, TimesOfFacts
  <2>3. ASSUME NEW t \in inb
        PROVE  ~(t > l.at)
    <3>1. PICK i \in E : i.type \in InboundTypes /\ i.at = t
      BY TimesOfFacts
    <3> QED BY <3>1, <2>1
  <2>4. l.at <= Latest(lost) /\ Latest(lost) \in lost
    BY <1>2, <2>2
  <2>5. \A t \in inb : ~(t > Latest(lost))
    BY <1>1, <2>2, <2>3, <2>4, DerivationAssumption DEF Times
  <2> QED BY <1>3, <2>2, <2>5
<1> QED BY <1>4, <1>5

LEMMA SubmittedMeans ==
    ASSUME NEW E, E \subseteq Fact
    PROVE  WasSubmitted(E) <=> \E e \in E : e.type = "piece.submitted"
BY TimesOfFacts DEF WasSubmitted, TimesOf

(* A conversation contains an answer, an answer a piece.                    *)
LEMMA MeaningsNest ==
    ASSUME NEW E, E \subseteq Fact
    PROVE  /\ Conversed(E) => Answered(E)
           /\ Answered(E) => WasSubmitted(E)
BY SubmittedMeans DEF Conversed, Answered

(* What more events can and cannot undo.                                    *)
LEMMA MeaningsGrow ==
    ASSUME NEW E, NEW F, E \subseteq F, F \subseteq Fact
    PROVE  /\ IsSuppressed(E) => IsSuppressed(F)
           /\ HasSignup(E) => HasSignup(F)
           /\ IsEngaged(E) => IsEngaged(F)
           /\ IsResponded(E) => IsResponded(F)
           /\ WasSubmitted(E) => WasSubmitted(F)
<1>1. E \subseteq Fact
  OBVIOUS
<1>2. IsEngaged(E) => IsEngaged(F)
  BY <1>1, EngagedMeans DEF Conversed
<1>3. IsResponded(E) => IsResponded(F)
  BY <1>1, RespondedMeans DEF Answered
<1>4. WasSubmitted(E) => WasSubmitted(F)
  BY <1>1, SubmittedMeans
<1> QED BY <1>2, <1>3, <1>4 DEF IsSuppressed, HasSignup

(* More events take the stage forward.                                      *)
LEMMA StageGoesForward ==
    ASSUME NEW E, NEW F, E \subseteq F, F \subseteq Fact
    PROVE  /\ "lost" \notin {DeriveStage(E), DeriveStage(F)} =>
                Rank(DeriveStage(E)) <= Rank(DeriveStage(F))
           /\ DeriveStage(E) \in {"won", "suppressed"} =>
                DeriveStage(F) \in {DeriveStage(E), "suppressed"}
<1>1. /\ IsSuppressed(E) => IsSuppressed(F)
      /\ HasSignup(E) => HasSignup(F)
      /\ IsEngaged(E) => IsEngaged(F)
      /\ IsResponded(E) => IsResponded(F)
      /\ WasSubmitted(E) => WasSubmitted(F)
  BY MeaningsGrow
<1>2. (IsEngaged(F) => IsResponded(F)) /\ (IsResponded(F) => WasSubmitted(F))
  BY DEF IsEngaged, IsResponded, ResponseTimes
<1>3. "lost" \notin {DeriveStage(E), DeriveStage(F)} =>
         Rank(DeriveStage(E)) <= Rank(DeriveStage(F))
  BY <1>1, <1>2 DEF DeriveStage, Rank
<1>4. DeriveStage(E) \in {"won", "suppressed"} =>
         DeriveStage(F) \in {DeriveStage(E), "suppressed"}
  BY <1>1 DEF DeriveStage
<1> QED BY <1>3, <1>4
=============================================================================
