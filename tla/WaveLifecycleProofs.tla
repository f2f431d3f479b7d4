------------------------ MODULE WaveLifecycleProofs ------------------------
(***************************************************************************)
(* Proofs about WaveLifecycle for every set of waves, contacts, operators  *)
(* and executors, every drift tolerance and any number of killed drops.    *)
(***************************************************************************)
EXTENDS WaveLifecycle, FiniteSetTheorems, TLAPS

(* A verb or a drop in progress names a wave that exists: their commits     *)
(* update the row without looking at it again.  And the cards can be        *)
(* counted, as their copies are.  Type correctness needs both.              *)
NamedWavesExist ==
    /\ \A o \in Operators :
          web[o] # None /\ web[o].verb # "revise" => wave[web[o].wave] # None
    /\ \A e \in Executors : drop[e] # None => wave[drop[e].wave] # None

WaveInv == TypeOK /\ NamedWavesExist /\ IsFiniteSet(cards)

LEMMA AudienceType ==
    ASSUME NEW rule
    PROVE  ResolveAudience(rule) \in SUBSET Contacts /\ Cardinality(ResolveAudience(rule)) \in Nat
  <1>1. ResolveAudience(rule) \in SUBSET Contacts
    BY DEF ResolveAudience
  <1>2. IsFiniteSet(ResolveAudience(rule))
    BY <1>1, WaveAssumption, FS_Subset
  <1> QED BY <1>1, <1>2, FS_CardinalityType

LEMMA WaveInitInv == Init => WaveInv
  <1> SUFFICES ASSUME Init PROVE WaveInv
    OBVIOUS
  <1>1. TypeOK
    BY WaveAssumption DEF Init, TypeOK, Stages
  <1>2. NamedWavesExist
    BY DEF Init, NamedWavesExist
  <1>3. IsFiniteSet(cards)
    BY FS_EmptySet DEF Init
  <1> QED BY <1>1, <1>2, <1>3 DEF WaveInv

(* A request reads: one session starts, nothing else changes.               *)
LEMMA WebReads ==
    ASSUME WaveInv, NEW o \in Operators, NEW v \in Verb, web' = [web EXCEPT ![o] = v],
           v.verb # "revise" => wave[v.wave] # None,
           UNCHANGED <<wave, creative, contactVars, mailVars, drop, kills>>
    PROVE  WaveInv'
  <1>1. TypeOK'
    BY DEF WaveInv, TypeOK, contactVars, mailVars
  <1>2. NamedWavesExist'
    BY DEF WaveInv, TypeOK, NamedWavesExist
  <1> QED BY <1>1, <1>2 DEF WaveInv, mailVars

(* A request commits: the session ends, and a row it may have changed is    *)
(* still a row.                                                             *)
LEMMA WebCommits ==
    ASSUME WaveInv, NEW o \in Operators, web' = [web EXCEPT ![o] = None],
           wave' \in [Waves -> WaveRow \cup {None}],
           \A w \in Waves : wave[w] # None => wave'[w] # None,
           creative' \in [Variants -> Creatives],
           UNCHANGED <<contactVars, mailVars, drop, kills>>
    PROVE  WaveInv'
  <1>1. TypeOK'
    BY DEF WaveInv, TypeOK, contactVars, mailVars
  <1>2. \A p \in Operators : web'[p] # None => web'[p] = web[p]
    BY DEF WaveInv, TypeOK
  <1>3. \A p \in Operators :
           web[p] # None /\ web[p].verb # "revise" => web[p].wave \in Waves
    BY DEF WaveInv, TypeOK, Verb
  <1>4. \A e \in Executors : drop[e] # None => drop[e].wave \in Waves
    BY DEF WaveInv, TypeOK, Run
  <1>5. NamedWavesExist'
    BY <1>2, <1>3, <1>4 DEF WaveInv, NamedWavesExist
  <1> QED BY <1>1, <1>5 DEF WaveInv, mailVars

(* An update of one row's columns leaves rows rows.                         *)
LEMMA RowUpdate ==
    ASSUME WaveInv, NEW x \in Waves, NEW row \in WaveRow, wave' = [wave EXCEPT ![x] = row]
    PROVE  /\ wave' \in [Waves -> WaveRow \cup {None}]
           /\ \A w \in Waves : wave[w] # None => wave'[w] # None
  BY WaveAssumption DEF WaveInv, TypeOK

LEMMA OperateInv ==
    ASSUME WaveInv, NEW o \in Operators, Operate(o)
    PROVE  WaveInv'
  <1>1. ASSUME NEW w \in Waves, NEW r \in Rules, NEW v \in Variants, UpdateWaveRead(o, w, r, v)
        PROVE  WaveInv'
    <2> DEFINE verb == [verb |-> "update", wave |-> w, rule |-> r, variant |-> v]
    <2>1. verb \in Verb
      BY DEF Verb
    <2>2. wave[w] # None
      BY <1>1 DEF UpdateWaveRead, Status
    <2> QED BY <1>1, <2>1, <2>2, WebReads DEF UpdateWaveRead
  <1>2. CASE UpdateWaveCommit(o)
    <2> DEFINE x   == web[o].wave
               row == [wave[x] EXCEPT !.rule = web[o].rule, !.variant = web[o].variant]
    <2>1. x \in Waves /\ web[o].rule \in Rules /\ web[o].variant \in Variants
      BY <1>2 DEF UpdateWaveCommit, WaveInv, TypeOK, Verb
    <2>2. wave[x] \in WaveRow
      BY <1>2, <2>1 DEF UpdateWaveCommit, WaveInv, TypeOK, NamedWavesExist
    <2>3. row \in WaveRow
      BY <2>1, <2>2 DEF WaveRow
    <2>4. wave' = [wave EXCEPT ![x] = row]
      BY <1>2, <2>1, <2>2 DEF UpdateWaveCommit, WaveInv, TypeOK
    <2>5. /\ wave' \in [Waves -> WaveRow \cup {None}]
          /\ \A w \in Waves : wave[w] # None => wave'[w] # None
      BY <2>1, <2>3, <2>4, RowUpdate
    <2> QED BY <1>2, <2>5, WebCommits DEF UpdateWaveCommit, WaveInv, TypeOK
  <1>3. ASSUME NEW v \in Variants, NEW new \in Creatives, UpdateVariantRead(o, v, new)
        PROVE  WaveInv'
    <2> DEFINE verb == [verb |-> "revise", variant |-> v, creative |-> new]
    <2>1. verb \in Verb
      BY DEF Verb
    <2> QED BY <1>3, <2>1, WebReads DEF UpdateVariantRead
  <1>4. CASE UpdateVariantCommit(o)
    <2>1. web[o].variant \in Variants /\ web[o].creative \in Creatives
      BY <1>4 DEF UpdateVariantCommit, WaveInv, TypeOK, Verb
    <2>2. creative' \in [Variants -> Creatives]
      BY <1>4, <2>1 DEF UpdateVariantCommit, WaveInv, TypeOK
    <2>3. wave' = wave
      BY <1>4 DEF UpdateVariantCommit
    <2>4. wave' \in [Waves -> WaveRow \cup {None}]
      BY <2>3 DEF WaveInv, TypeOK
    <2> QED BY <1>4, <2>2, <2>3, <2>4, WebCommits DEF UpdateVariantCommit
  <1>5. ASSUME NEW w \in Waves, ApproveRead(o, w) PROVE WaveInv'
    <2> DEFINE verb == [verb |-> "approve", wave |-> w,
                        count |-> Cardinality(ResolveAudience(wave[w].rule))]
    <2>1. verb \in Verb
      BY AudienceType DEF Verb
    <2>2. wave[w] # None
      BY <1>5 DEF ApproveRead, Status
    <2> QED BY <1>5, <2>1, <2>2, WebReads DEF ApproveRead
  <1>6. CASE ApproveCommit(o)
    <2> DEFINE x   == web[o].wave
               row == [wave[x] EXCEPT !.status = "approved", !.approvedAt = TRUE,
                                      !.count = web[o].count]
    <2>1. x \in Waves /\ web[o].count \in Nat
      BY <1>6 DEF ApproveCommit, WaveInv, TypeOK, Verb
    <2>2. wave[x] \in WaveRow
      BY <1>6, <2>1 DEF ApproveCommit, WaveInv, TypeOK, NamedWavesExist
    <2>3. row \in WaveRow
      BY <2>1, <2>2 DEF WaveRow, Statuses
    <2>4. wave' = [wave EXCEPT ![x] = row]
      BY <1>6, <2>1, <2>2 DEF ApproveCommit, WaveInv, TypeOK
    <2>5. /\ wave' \in [Waves -> WaveRow \cup {None}]
          /\ \A w \in Waves : wave[w] # None => wave'[w] # None
      BY <2>1, <2>3, <2>4, RowUpdate
    <2> QED BY <1>6, <2>5, WebCommits DEF ApproveCommit, WaveInv, TypeOK
  <1>7. ASSUME NEW w \in Waves, CancelRead(o, w) PROVE WaveInv'
    <2>1. [verb |-> "cancel", wave |-> w] \in Verb
      BY DEF Verb
    <2>2. wave[w] # None
      BY <1>7 DEF CancelRead, Status
    <2> QED BY <1>7, <2>1, <2>2, WebReads DEF CancelRead
  <1>8. CASE CancelCommit(o)
    <2> DEFINE x   == web[o].wave
               row == [wave[x] EXCEPT !.status = "cancelled"]
    <2>1. x \in Waves
      BY <1>8 DEF CancelCommit, WaveInv, TypeOK, Verb
    <2>2. wave[x] \in WaveRow
      BY <1>8, <2>1 DEF CancelCommit, WaveInv, TypeOK, NamedWavesExist
    <2>3. row \in WaveRow
      BY <2>2 DEF WaveRow, Statuses
    <2>4. wave' = [wave EXCEPT ![x] = row]
      BY <1>8, <2>1, <2>2 DEF CancelCommit, WaveInv, TypeOK
    <2>5. /\ wave' \in [Waves -> WaveRow \cup {None}]
          /\ \A w \in Waves : wave[w] # None => wave'[w] # None
      BY <2>1, <2>3, <2>4, RowUpdate
    <2> QED BY <1>8, <2>5, WebCommits DEF CancelCommit, WaveInv, TypeOK
  <1> QED BY <1>1, <1>2, <1>3, <1>4, <1>5, <1>6, <1>7, <1>8 DEF Operate

-----------------------------------------------------------------------------
(* The drop.  A run that ends or goes on still names a wave that exists.    *)
LEMMA RunsGoOn ==
    ASSUME WaveInv, NEW e \in Executors, NEW r \in Run \cup {None},
           drop' = [drop EXCEPT ![e] = r],
           r # None => wave[r.wave] # None,
           UNCHANGED <<wave, creative, contactVars, web>>,
           piece' \in [Waves -> [Contacts -> Variants \cup {None}]],
           cards' \subseteq Card, IsFiniteSet(cards'), kills' \in 0..MaxKills
    PROVE  WaveInv'
  <1>1. TypeOK'
    BY DEF WaveInv, TypeOK, contactVars
  <1>2. NamedWavesExist'
    BY DEF WaveInv, TypeOK, NamedWavesExist
  <1> QED BY <1>1, <1>2 DEF WaveInv

(* A run moves its wave to another status.                                  *)
LEMMA RunsMoveStatus ==
    ASSUME WaveInv, NEW e \in Executors, NEW r \in Run \cup {None}, drop[e] # None,
           r # None => r.wave = drop[e].wave,
           drop' = [drop EXCEPT ![e] = r],
           NEW status \in Statuses,
           wave' = [wave EXCEPT ![drop[e].wave].status = status],
           UNCHANGED <<creative, contactVars, mailVars, web, kills>>
    PROVE  WaveInv'
  <1> DEFINE x   == drop[e].wave
             row == [wave[x] EXCEPT !.status = status]
  <1>1. x \in Waves
    BY DEF WaveInv, TypeOK, Run
  <1>2. wave[x] \in WaveRow
    BY <1>1 DEF WaveInv, TypeOK, NamedWavesExist
  <1>3. row \in WaveRow
    BY <1>2 DEF WaveRow
  <1>4. wave' = [wave EXCEPT ![x] = row]
    BY <1>1, <1>2 DEF WaveInv, TypeOK
  <1>5. /\ wave' \in [Waves -> WaveRow \cup {None}]
        /\ \A w \in Waves : wave[w] # None => wave'[w] # None
    BY <1>1, <1>3, <1>4, RowUpdate
  <1>6. TypeOK'
    BY <1>5 DEF WaveInv, TypeOK, contactVars, mailVars
  <1>7. \A p \in Operators :
           web[p] # None /\ web[p].verb # "revise" => web[p].wave \in Waves
    BY DEF WaveInv, TypeOK, Verb
  <1>8. \A f \in Executors : drop[f] # None => drop[f].wave \in Waves
    BY DEF WaveInv, TypeOK, Run
  <1>9. \A f \in Executors : drop'[f] # None => drop[f] # None /\ drop'[f].wave = drop[f].wave
    BY DEF WaveInv, TypeOK
  <1>10. NamedWavesExist'
    BY <1>5, <1>7, <1>8, <1>9 DEF WaveInv, NamedWavesExist
  <1> QED BY <1>6, <1>10 DEF WaveInv, mailVars

(* What is known of a run in progress.                                      *)
LEMMA RunType ==
    ASSUME WaveInv, NEW e \in Executors, drop[e] # None
    PROVE  /\ drop[e] \in Run
           /\ drop[e].wave \in Waves /\ wave[drop[e].wave] \in WaveRow
           /\ drop[e].variant \in Variants /\ drop[e].creative \in Creatives
           /\ drop[e].todo \in SUBSET Contacts
  <1>1. drop[e] \in Run
    BY DEF WaveInv, TypeOK
  <1>2. /\ drop[e].wave \in Waves
        /\ drop[e].variant \in Variants /\ drop[e].creative \in Creatives
        /\ drop[e].todo \in SUBSET Contacts
    BY <1>1 DEF Run
  <1>3. wave[drop[e].wave] \in WaveRow
    BY <1>2 DEF WaveInv, TypeOK, NamedWavesExist
  <1> QED BY <1>1, <1>2, <1>3

LEMMA ExecuteInv ==
    ASSUME WaveInv, NEW e \in Executors, Execute(e)
    PROVE  WaveInv'
  <1>1. ASSUME NEW w \in Waves, ExecuteRead(e, w) PROVE WaveInv'
    <2> DEFINE r == [wave |-> w, at |-> "gate", status |-> wave[w].status,
                     variant |-> wave[w].variant, creative |-> creative[wave[w].variant],
                     todo |-> ResolveAudience(wave[w].rule), inFlight |-> None]
    <2>1. wave[w] # None
      BY <1>1 DEF ExecuteRead, Status
    <2>2. wave[w].status \in Statuses /\ wave[w].variant \in Variants
      BY <2>1 DEF WaveInv, TypeOK, WaveRow
    <2>3. creative[wave[w].variant] \in Creatives
      BY <2>2 DEF WaveInv, TypeOK
    <2>4. r \in Run
      BY <2>2, <2>3, AudienceType DEF Run
    <2>5. /\ piece' \in [Waves -> [Contacts -> Variants \cup {None}]]
          /\ cards' \subseteq Card /\ IsFiniteSet(cards') /\ kills' \in 0..MaxKills
      BY <1>1 DEF ExecuteRead, mailVars, WaveInv, TypeOK
    <2>6. drop' = [drop EXCEPT ![e] = r]
      BY <1>1 DEF ExecuteRead
    <2>7. UNCHANGED <<wave, creative, contactVars, web>>
      BY <1>1 DEF ExecuteRead
    <2> HIDE DEF r
    <2>8. r # None => wave[r.wave] # None
      BY <2>1 DEF r
    <2> QED BY <2>4, <2>5, <2>6, <2>7, <2>8, RunsGoOn
  <1>2. CASE ExecuteBegin(e)
    <2> DEFINE r == [drop[e] EXCEPT !.at = "loop"]
    <2>1. drop[e] # None
      BY <1>2 DEF ExecuteBegin
    <2>2. r \in Run /\ r.wave = drop[e].wave
      BY <2>1, RunType DEF Run
    <2>3. drop' = [drop EXCEPT ![e] = r]
      BY <1>2 DEF ExecuteBegin
    <2> HIDE DEF r
    <2>4. CASE wave' = wave
      <3>1. /\ piece' \in [Waves -> [Contacts -> Variants \cup {None}]]
            /\ cards' \subseteq Card /\ IsFiniteSet(cards') /\ kills' \in 0..MaxKills
        BY <1>2 DEF ExecuteBegin, mailVars, WaveInv, TypeOK
      <3>2. UNCHANGED <<wave, creative, contactVars, web>>
        BY <1>2, <2>4 DEF ExecuteBegin
      <3>3. wave[r.wave] # None
        BY <2>1, <2>2 DEF WaveInv, NamedWavesExist
      <3> QED BY <2>2, <2>3, <3>1, <3>2, <3>3, RunsGoOn
    <2>5. CASE wave' = [wave EXCEPT ![drop[e].wave].status = "executing"]
      <3>1. "executing" \in Statuses
        BY DEF Statuses
      <3>2. UNCHANGED <<creative, contactVars, mailVars, web, kills>>
        BY <1>2 DEF ExecuteBegin
      <3> QED BY <2>1, <2>2, <2>3, <2>5, <3>1, <3>2, RunsMoveStatus
    <2> QED BY <1>2, <2>4, <2>5 DEF ExecuteBegin
  <1>3. ASSUME NEW c \in Contacts, SkipPiece(e, c) PROVE WaveInv'
    <2> DEFINE r == [drop[e] EXCEPT !.todo = @ \ {c}]
    <2>1. drop[e] # None
      BY <1>3 DEF SkipPiece, Ready
    <2>2. r \in Run /\ r.wave = drop[e].wave
      BY <2>1, RunType DEF Run
    <2>3. drop' = [drop EXCEPT ![e] = r]
      BY <1>3 DEF SkipPiece
    <2> HIDE DEF r
    <2>4. /\ piece' \in [Waves -> [Contacts -> Variants \cup {None}]]
          /\ cards' \subseteq Card /\ IsFiniteSet(cards') /\ kills' \in 0..MaxKills
      BY <1>3 DEF SkipPiece, mailVars, WaveInv, TypeOK
    <2>5. UNCHANGED <<wave, creative, contactVars, web>>
      BY <1>3 DEF SkipPiece
    <2>6. wave[r.wave] # None
      BY <2>1, <2>2 DEF WaveInv, NamedWavesExist
    <2> QED BY <2>2, <2>3, <2>4, <2>5, <2>6, RunsGoOn
  <1>4. ASSUME NEW c \in Contacts, SubmitPiece(e, c) PROVE WaveInv'
    <2> DEFINE r    == [drop[e] EXCEPT !.inFlight = c]
               card == [wave |-> drop[e].wave, contact |-> c, variant |-> drop[e].variant,
                        creative |-> drop[e].creative,
                        copy |-> Cardinality(CardsTo(drop[e].wave, c))]
    <2>1. drop[e] # None
      BY <1>4 DEF SubmitPiece, Ready
    <2>2. r \in Run /\ r.wave = drop[e].wave
      BY <2>1, RunType DEF Run
    <2>3. drop' = [drop EXCEPT ![e] = r]
      BY <1>4 DEF SubmitPiece
    <2>4. card \in Card
      <3>1. CardsTo(drop[e].wave, c) \in SUBSET cards
        BY DEF CardsTo, CardsOf
      <3>2. Cardinality(CardsTo(drop[e].wave, c)) \in Nat
        BY <3>1, FS_Subset, FS_CardinalityType DEF WaveInv
      <3> QED BY <2>1, <3>2, RunType DEF Card
    <2>5. cards' \in SUBSET (cards \cup {card})
      BY <1>4 DEF SubmitPiece, SubmitToVendor
    <2> HIDE DEF r, card
    <2>6. /\ piece' \in [Waves -> [Contacts -> Variants \cup {None}]]
          /\ cards' \subseteq Card /\ IsFiniteSet(cards') /\ kills' \in 0..MaxKills
      <3>1. IsFiniteSet(cards \cup {card})
        BY FS_AddElement DEF WaveInv
      <3>2. IsFiniteSet(cards')
        BY <2>5, <3>1, FS_Subset
      <3> QED BY <1>4, <2>4, <2>5, <3>2 DEF SubmitPiece, WaveInv, TypeOK
    <2>7. UNCHANGED <<wave, creative, contactVars, web>>
      BY <1>4 DEF SubmitPiece
    <2>8. wave[r.wave] # None
      BY <2>1, <2>2 DEF WaveInv, NamedWavesExist
    <2> QED BY <2>2, <2>3, <2>6, <2>7, <2>8, RunsGoOn
  <1>5. CASE CommitPiece(e)
    <2> DEFINE r == [drop[e] EXCEPT !.inFlight = None, !.todo = @ \ {drop[e].inFlight}]
    <2>1. drop[e] # None
      BY <1>5 DEF CommitPiece
    <2>2. r \in Run /\ r.wave = drop[e].wave
      BY <2>1, RunType DEF Run
    <2>3. drop' = [drop EXCEPT ![e] = r]
      BY <1>5, <2>1, RunType DEF CommitPiece, WaveInv, TypeOK
    <2> HIDE DEF r
    <2>4. /\ piece' \in [Waves -> [Contacts -> Variants \cup {None}]]
          /\ cards' \subseteq Card /\ IsFiniteSet(cards') /\ kills' \in 0..MaxKills
      BY <1>5, <2>1, RunType DEF CommitPiece, WaveInv, TypeOK
    <2>5. UNCHANGED <<wave, creative, contactVars, web>>
      BY <1>5 DEF CommitPiece
    <2>6. wave[r.wave] # None
      BY <2>1, <2>2 DEF WaveInv, NamedWavesExist
    <2> QED BY <2>2, <2>3, <2>4, <2>5, <2>6, RunsGoOn
  <1>6. CASE ExecuteFinish(e)
    <2>1. drop[e] # None /\ "sent" \in Statuses
      BY <1>6 DEF ExecuteFinish, Statuses
    <2> QED BY <1>6, <2>1, RunsMoveStatus DEF ExecuteFinish
  <1> QED BY <1>1, <1>2, <1>3, <1>4, <1>5, <1>6 DEF Execute

LEMMA NextInv == WaveInv /\ [Next]_vars => WaveInv'
  <1> SUFFICES ASSUME WaveInv, [Next]_vars PROVE WaveInv'
    OBVIOUS
  <1>1. ASSUME NEW w \in Waves, NEW r \in Rules, NEW v \in Variants, DraftWave(w, r, v)
        PROVE  WaveInv'
    <2> DEFINE row == [status |-> "draft", rule |-> r, variant |-> v,
                       approvedAt |-> FALSE, count |-> 0]
    <2>1. row \in WaveRow
      BY DEF WaveRow, Statuses
    <2>2. wave' = [wave EXCEPT ![w] = row]
      BY <1>1 DEF DraftWave
    <2> HIDE DEF row
    <2>3. /\ wave' \in [Waves -> WaveRow \cup {None}]
          /\ \A x \in Waves : wave[x] # None => wave'[x] # None
      BY <2>1, <2>2, RowUpdate
    <2>4. TypeOK'
      BY <1>1, <2>3 DEF DraftWave, WaveInv, TypeOK, contactVars, mailVars
    <2>5. \A p \in Operators :
             web[p] # None /\ web[p].verb # "revise" => web[p].wave \in Waves
      BY DEF WaveInv, TypeOK, Verb
    <2>6. \A f \in Executors : drop[f] # None => drop[f].wave \in Waves
      BY DEF WaveInv, TypeOK, Run
    <2>7. NamedWavesExist'
      BY <1>1, <2>3, <2>5, <2>6 DEF DraftWave, WaveInv, NamedWavesExist
    <2> QED BY <1>1, <2>4, <2>7 DEF WaveInv, DraftWave, mailVars
  <1>2. ASSUME NEW e \in Executors, ExecuteDies(e) PROVE WaveInv'
    <2>1. /\ piece' \in [Waves -> [Contacts -> Variants \cup {None}]]
          /\ cards' \subseteq Card /\ IsFiniteSet(cards')
      BY <1>2 DEF ExecuteDies, mailVars, WaveInv, TypeOK
    <2>2. kills' \in 0..MaxKills
      BY <1>2, WaveAssumption DEF ExecuteDies, WaveInv, TypeOK
    <2> QED BY <1>2, <2>1, <2>2, RunsGoOn DEF ExecuteDies
  <1>3. ASSUME NEW c \in Contacts, StopMail(c) PROVE WaveInv'
    BY <1>3 DEF StopMail, WaveInv, TypeOK, NamedWavesExist, mailVars
  <1>4. CASE Recompute
    <2>1. stage' \in [Contacts -> Stages]
      BY <1>4 DEF Recompute, WaveInv, TypeOK, Stages
    <2> QED BY <1>4, <2>1 DEF Recompute, WaveInv, TypeOK, NamedWavesExist, mailVars
  <1>5. CASE UNCHANGED vars
    BY <1>5 DEF vars, contactVars, mailVars, WaveInv, TypeOK, NamedWavesExist
  <1> QED BY <1>1, <1>2, <1>3, <1>4, <1>5, OperateInv, ExecuteInv DEF Next

(* Every reachable state is well typed, for every instance.                 *)
THEOREM TypeCorrect == Spec => []TypeOK
  <1>1. WaveInv => TypeOK
    BY DEF WaveInv
  <1> QED BY <1>1, WaveInitInv, NextInv, PTL DEF Spec

-----------------------------------------------------------------------------
(* What a step does to the mail: nothing, a card that has no row yet, or a  *)
(* row for the card in flight.                                              *)
LEMMA MailSteps ==
    ASSUME [Next]_vars
    PROVE  \/ UNCHANGED mailVars
           \/ \E e \in Executors, c \in Contacts : SubmitPiece(e, c)
           \/ \E e \in Executors : CommitPiece(e)
  BY DEF Next, vars, DraftWave, Operate, UpdateWaveRead, UpdateWaveCommit, UpdateVariantRead,
         UpdateVariantCommit, ApproveRead, ApproveCommit, CancelRead, CancelCommit, Execute,
         ExecuteRead, ExecuteBegin, SkipPiece, ExecuteFinish, ExecuteDies, StopMail, Recompute

(* The card of a row still open is printed: what RecordsAreCards needs when *)
(* the row commits.                                                         *)
InFlightIsPrinted ==
    \A e \in Executors :
        drop[e] # None /\ drop[e].inFlight # None => Printed(drop[e].wave, drop[e].inFlight)

LEMMA CardsStay ==
    ASSUME [Next]_vars PROVE cards \subseteq cards'
  <1>1. ASSUME NEW e \in Executors, NEW c \in Contacts, SubmitPiece(e, c)
        PROVE  cards \subseteq cards'
    BY <1>1 DEF SubmitPiece, SubmitToVendor
  <1>2. ASSUME NEW e \in Executors, CommitPiece(e) PROVE cards \subseteq cards'
    BY <1>2 DEF CommitPiece
  <1> QED BY <1>1, <1>2, MailSteps DEF mailVars

LEMMA SubmissionPrints ==
    ASSUME NEW e, NEW c, SubmitPiece(e, c)
    PROVE  \E card \in cards' : card.wave = drop[e].wave /\ card.contact = c
  <1> DEFINE card == [wave |-> drop[e].wave, contact |-> c, variant |-> drop[e].variant,
                      creative |-> drop[e].creative,
                      copy |-> Cardinality(CardsTo(drop[e].wave, c))]
  <1>1. card.wave = drop[e].wave /\ card.contact = c
    OBVIOUS
  <1>2. (Printed(drop[e].wave, c) /\ UNCHANGED cards) \/ cards' = cards \cup {card}
    BY DEF SubmitPiece, SubmitToVendor
  <1> HIDE DEF card
  <1>3. CASE Printed(drop[e].wave, c) /\ UNCHANGED cards
    BY <1>3 DEF Printed, CardsTo, CardsOf
  <1>4. CASE cards' = cards \cup {card}
    BY <1>1, <1>4
  <1> QED BY <1>2, <1>3, <1>4

(* What a step does to a run: it stays, ends, starts, or goes on; only a    *)
(* submission puts a row in flight.                                         *)
LEMMA RunSteps ==
    ASSUME WaveInv, [Next]_vars, NEW f \in Executors, drop'[f] # None, drop'[f].inFlight # None
    PROVE  \/ /\ drop[f] # None /\ drop'[f].inFlight = drop[f].inFlight
              /\ drop'[f].wave = drop[f].wave
           \/ /\ SubmitPiece(f, drop'[f].inFlight)
              /\ drop'[f].wave = drop[f].wave
  <1>1. CASE UNCHANGED drop
    BY <1>1
  <1>2. ASSUME NEW e \in Executors, NEW w \in Waves, ExecuteRead(e, w)
        PROVE  drop[f] # None /\ drop'[f].inFlight = drop[f].inFlight /\ drop'[f].wave = drop[f].wave
    BY <1>2 DEF ExecuteRead, WaveInv, TypeOK
  <1>3. ASSUME NEW e \in Executors, ExecuteBegin(e)
        PROVE  drop[f] # None /\ drop'[f].inFlight = drop[f].inFlight /\ drop'[f].wave = drop[f].wave
    <2>1. drop[e] \in Run
      BY <1>3, RunType DEF ExecuteBegin
    <2> QED BY <1>3, <2>1 DEF ExecuteBegin, WaveInv, TypeOK, Run
  <1>4. ASSUME NEW e \in Executors, NEW c \in Contacts, SkipPiece(e, c)
        PROVE  drop[f] # None /\ drop'[f].inFlight = drop[f].inFlight /\ drop'[f].wave = drop[f].wave
    <2>1. drop[e] \in Run
      BY <1>4, RunType DEF SkipPiece, Ready
    <2> QED BY <1>4, <2>1 DEF SkipPiece, Ready, WaveInv, TypeOK, Run
  <1>5. ASSUME NEW e \in Executors, NEW c \in Contacts, SubmitPiece(e, c)
        PROVE  \/ /\ drop[f] # None /\ drop'[f].inFlight = drop[f].inFlight
                  /\ drop'[f].wave = drop[f].wave
               \/ SubmitPiece(f, drop'[f].inFlight) /\ drop'[f].wave = drop[f].wave
    <2>1. drop[e] \in Run
      BY <1>5, RunType DEF SubmitPiece, Ready
    <2>2. drop' = [drop EXCEPT ![e].inFlight = c] /\ drop \in [Executors -> Run \cup {None}]
      BY <1>5 DEF SubmitPiece, WaveInv, TypeOK
    <2>3. CASE f = e
      <3>1. drop'[f].inFlight = c /\ drop'[f].wave = drop[f].wave
        BY <2>1, <2>2, <2>3 DEF Run
      <3> QED BY <1>5, <2>3, <3>1
    <2>4. CASE f # e
      BY <2>2, <2>4
    <2> QED BY <2>3, <2>4
  <1>6. ASSUME NEW e \in Executors, CommitPiece(e)
        PROVE  drop[f] # None /\ drop'[f].inFlight = drop[f].inFlight /\ drop'[f].wave = drop[f].wave
    <2>1. drop[e] \in Run
      BY <1>6, RunType DEF CommitPiece
    <2> QED BY <1>6, <2>1 DEF CommitPiece, WaveInv, TypeOK, Run
  <1>7. ASSUME NEW e \in Executors, ExecuteFinish(e) \/ ExecuteDies(e)
        PROVE  drop[f] # None /\ drop'[f].inFlight = drop[f].inFlight /\ drop'[f].wave = drop[f].wave
    BY <1>7 DEF ExecuteFinish, ExecuteDies, WaveInv, TypeOK
  <1> QED BY <1>1, <1>2, <1>3, <1>4, <1>5, <1>6, <1>7
          DEF Next, vars, DraftWave, Operate, UpdateWaveRead, UpdateWaveCommit,
              UpdateVariantRead, UpdateVariantCommit, ApproveRead, ApproveCommit, CancelRead,
              CancelCommit, Execute, StopMail, Recompute

(* No row without its card, through kills at any point and concurrent runs. *)
THEOREM RowsClaimCards == Spec => []RecordsAreCards
  <1>1. Init => InFlightIsPrinted /\ RecordsAreCards
    BY DEF Init, InFlightIsPrinted, RecordsAreCards
  <1>2. WaveInv /\ InFlightIsPrinted /\ RecordsAreCards /\ [Next]_vars
        => (InFlightIsPrinted /\ RecordsAreCards)'
    <2> SUFFICES ASSUME WaveInv, InFlightIsPrinted, RecordsAreCards, [Next]_vars
                 PROVE  InFlightIsPrinted' /\ RecordsAreCards'
      OBVIOUS
    <2>1. \A w, c : Printed(w, c) => Printed(w, c)'
      BY CardsStay DEF Printed, CardsTo, CardsOf
    <2>2. ASSUME NEW f \in Executors, drop'[f] # None, drop'[f].inFlight # None
          PROVE  \E card \in cards' :
                    card.wave = drop'[f].wave /\ card.contact = drop'[f].inFlight
      <3>1. CASE /\ drop[f] # None /\ drop'[f].inFlight = drop[f].inFlight
                 /\ drop'[f].wave = drop[f].wave
        <4>1. Printed(drop[f].wave, drop[f].inFlight)
          BY <2>2, <3>1 DEF InFlightIsPrinted
        <4>2. \E card \in cards' : card.wave = drop[f].wave /\ card.contact = drop[f].inFlight
          BY <4>1, CardsStay DEF Printed, CardsTo, CardsOf
        <4> QED BY <4>2, <3>1
      <3>2. CASE SubmitPiece(f, drop'[f].inFlight) /\ drop'[f].wave = drop[f].wave
        BY <3>2, SubmissionPrints
      <3> QED BY <2>2, <3>1, <3>2, RunSteps
    <2>3. InFlightIsPrinted'
      BY <2>2 DEF InFlightIsPrinted, Printed, CardsTo, CardsOf
    <2>4. ASSUME NEW w \in Waves, NEW c \in Contacts, piece'[w][c] # None
          PROVE  Printed(w, c)
      <3>1. CASE UNCHANGED piece
        BY <2>4, <3>1 DEF RecordsAreCards
      <3>2. ASSUME NEW e \in Executors, CommitPiece(e) PROVE Printed(w, c)
        <4>1. CASE w = drop[e].wave /\ c = drop[e].inFlight
          BY <3>2, <4>1 DEF CommitPiece, InFlightIsPrinted
        <4>2. CASE ~(w = drop[e].wave /\ c = drop[e].inFlight)
          BY <2>4, <3>2, <4>2 DEF CommitPiece, WaveInv, TypeOK, RecordsAreCards
        <4> QED BY <4>1, <4>2
      <3> QED BY <3>1, <3>2, MailSteps DEF mailVars, SubmitPiece
    <2>5. RecordsAreCards'
      BY <2>1, <2>4 DEF RecordsAreCards
    <2> QED BY <2>3, <2>5
  <1> QED BY <1>1, <1>2, WaveInitInv, NextInv, PTL DEF Spec

-----------------------------------------------------------------------------
(* The cards and the records.  An open row is one that is missing, is still *)
(* to do, and is open in one run only; and every card beyond the rows, lost *)
(* or printed again, is one in flight or one a kill accounts for.           *)
OpenIsUnrecorded ==
    /\ \A e \in Executors : InFlight(e) =>
          /\ drop[e].inFlight \in UnrecordedCards(drop[e].wave)
          /\ drop[e].inFlight \in drop[e].todo
    /\ \A e, f \in Executors :
          /\ InFlight(e) /\ InFlight(f)
          /\ drop[e].wave = drop[f].wave /\ drop[e].inFlight = drop[f].inFlight
          => e = f

Recorded(w) == {c \in Contacts : piece[w][c] # None}

CardsCounted ==
    \A w \in Waves :
        /\ IsFiniteSet(RunsInFlight(w))
        /\ Cardinality(CardsOf(w)) <=
              Cardinality(Recorded(w)) + Cardinality(RunsInFlight(w)) + kills

LossInv == OpenIsUnrecorded /\ CardsCounted

(* Contacts are finitely many, and numbers are numbers.                     *)
LEMMA CountsAreNat ==
    ASSUME WaveInv, LossInv, NEW w \in Waves
    PROVE  /\ IsFiniteSet(CardsOf(w)) /\ Cardinality(CardsOf(w)) \in Nat
           /\ IsFiniteSet(Recorded(w)) /\ Cardinality(Recorded(w)) \in Nat
           /\ IsFiniteSet(RunsInFlight(w)) /\ Cardinality(RunsInFlight(w)) \in Nat
           /\ kills \in Nat
  <1>1. Recorded(w) \in SUBSET Contacts /\ CardsOf(w) \in SUBSET cards
    BY DEF Recorded, CardsOf
  <1>2. IsFiniteSet(Recorded(w)) /\ IsFiniteSet(CardsOf(w))
    BY <1>1, WaveAssumption, FS_Subset DEF WaveInv
  <1>3. IsFiniteSet(RunsInFlight(w))
    BY DEF LossInv, CardsCounted
  <1>4. kills \in Nat
    BY WaveAssumption DEF WaveInv, TypeOK
  <1> QED BY <1>2, <1>3, <1>4, FS_CardinalityType

(* Steps that leave the mail and every open row alone.                      *)
LEMMA LossStands ==
    ASSUME LossInv, UNCHANGED <<mailVars, kills>>,
           \A e \in Executors :
              /\ InFlight(e)' <=> InFlight(e)
              /\ InFlight(e) => /\ drop'[e].wave = drop[e].wave
                                /\ drop'[e].inFlight = drop[e].inFlight
                                /\ drop[e].inFlight \in drop'[e].todo
    PROVE  LossInv'
  <1>1. \A w : UnrecordedCards(w)' = UnrecordedCards(w)
    BY DEF UnrecordedCards, Printed, CardsTo, CardsOf, mailVars
  <1>2. \A w : RunsInFlight(w)' = RunsInFlight(w)
    BY DEF RunsInFlight
  <1>3. OpenIsUnrecorded'
    BY <1>1 DEF LossInv, OpenIsUnrecorded
  <1>4. \A w : CardsOf(w)' = CardsOf(w) /\ Recorded(w)' = Recorded(w)
    BY DEF CardsOf, Recorded, mailVars
  <1>5. CardsCounted'
    BY <1>2, <1>4 DEF LossInv, CardsCounted
  <1> QED BY <1>3, <1>5 DEF LossInv

(* The vendor's answer: one card and one open row more.                     *)
LEMMA LossOfSubmission ==
    ASSUME WaveInv, LossInv, NEW e \in Executors, NEW c \in Contacts, SubmitPiece(e, c)
    PROVE  LossInv'
  <1>0. PICK x : x = drop[e].wave
    OBVIOUS
  <1>1. /\ drop[e] \in Run /\ drop[e].inFlight = None /\ c \in drop[e].todo /\ c # None
        /\ CodeIsFree(x, c) /\ piece[x][c] = None /\ x \in Waves /\ drop[e] # None
    BY <1>0, RunType, WaveAssumption DEF SubmitPiece, Ready
  <1>2. drop' = [drop EXCEPT ![e].inFlight = c] /\ piece' = piece /\ kills' = kills
    BY DEF SubmitPiece
  <1>3. /\ drop'[e] # None /\ drop'[e].inFlight = c /\ drop'[e].wave = x
        /\ drop'[e].todo = drop[e].todo
        /\ \A f \in Executors : f # e => drop'[f] = drop[f]
    <2>1. drop'[e] = [drop[e] EXCEPT !.inFlight = c]
      BY <1>2 DEF WaveInv, TypeOK
    <2>2. drop'[e] \in Run
      BY <1>1, <2>1 DEF Run
    <2> QED BY <1>0, <1>1, <1>2, <2>1, <2>2, WaveAssumption DEF WaveInv, TypeOK, Run
  <1>4. \A w, d : Printed(w, d) => Printed(w, d)'
    BY DEF SubmitPiece, SubmitToVendor, Printed, CardsTo, CardsOf
  <1>5. Printed(x, c)'
    BY <1>0, SubmissionPrints DEF Printed, CardsTo, CardsOf
  <1>6. PICK card : card.wave = x /\ cards' \in SUBSET (cards \cup {card})
    <2> DEFINE new == [wave |-> drop[e].wave, contact |-> c, variant |-> drop[e].variant,
                       creative |-> drop[e].creative,
                       copy |-> Cardinality(CardsTo(drop[e].wave, c))]
    <2>1. new.wave = x
      BY <1>0
    <2>2. cards' \in SUBSET (cards \cup {new})
      BY DEF SubmitPiece, SubmitToVendor
    <2> HIDE DEF new
    <2> QED BY <2>1, <2>2
  <1>7. InFlight(e)' /\ ~InFlight(e) /\ \A f \in Executors : f # e => (InFlight(f)' <=> InFlight(f))
    BY <1>1, <1>3 DEF InFlight
  <1>8. \A w : UnrecordedCards(w) \subseteq UnrecordedCards(w)'
    BY <1>2, <1>4 DEF UnrecordedCards
  <1>9. OpenIsUnrecorded'
    <2>1. ASSUME NEW f \in Executors, InFlight(f)'
          PROVE  (/\ drop[f].inFlight \in UnrecordedCards(drop[f].wave)
                  /\ drop[f].inFlight \in drop[f].todo)'
      <3>1. CASE f = e
        BY <1>1, <1>2, <1>3, <1>5, <3>1 DEF UnrecordedCards
      <3>2. CASE f # e
        BY <1>3, <1>7, <1>8, <2>1, <3>2 DEF LossInv, OpenIsUnrecorded
      <3> QED BY <3>1, <3>2
    <2>2. ASSUME NEW f \in Executors, f # e, InFlight(f), drop[f].wave = x, drop[f].inFlight = c
          PROVE  FALSE
      BY <1>1, <2>2 DEF CodeIsFree, InFlight
    <2>3. ASSUME NEW f \in Executors, NEW g \in Executors, InFlight(f)', InFlight(g)',
                 drop'[f].wave = drop'[g].wave, drop'[f].inFlight = drop'[g].inFlight
          PROVE  f = g
      BY <1>3, <1>7, <2>2, <2>3 DEF LossInv, OpenIsUnrecorded
    <2>4. \A f \in Executors : InFlight(f)' =>
             (/\ drop[f].inFlight \in UnrecordedCards(drop[f].wave)
              /\ drop[f].inFlight \in drop[f].todo)'
      BY <2>1
    <2>5. \A f, g \in Executors :
             /\ InFlight(f)' /\ InFlight(g)'
             /\ drop'[f].wave = drop'[g].wave /\ drop'[f].inFlight = drop'[g].inFlight
             => f = g
      BY <2>3
    <2> QED BY <2>4, <2>5 DEF OpenIsUnrecorded, UnrecordedCards
  <1>10. ASSUME NEW w \in Waves
         PROVE  /\ IsFiniteSet(RunsInFlight(w)')
                /\ Cardinality(CardsOf(w)') <=
                      Cardinality(Recorded(w)') + Cardinality(RunsInFlight(w)') + kills'
    <2>1. Recorded(w)' = Recorded(w)
      BY <1>2 DEF Recorded
    <2>2. CASE w = x
      <3>1. CardsOf(w)' \in SUBSET (CardsOf(w) \cup {card})
        BY <1>6 DEF CardsOf
      <3>2. RunsInFlight(w)' = RunsInFlight(w) \cup {e} /\ e \notin RunsInFlight(w)
        BY <1>0, <1>3, <1>7, <2>2 DEF RunsInFlight
      <3>3. /\ IsFiniteSet(CardsOf(w) \cup {card})
            /\ Cardinality(CardsOf(w) \cup {card}) \in Nat
            /\ Cardinality(CardsOf(w) \cup {card}) <= Cardinality(CardsOf(w)) + 1
        <4>1. IsFiniteSet(CardsOf(w)) /\ Cardinality(CardsOf(w)) \in Nat
          BY CountsAreNat
        <4>2. /\ IsFiniteSet(CardsOf(w) \cup {card})
              /\ Cardinality(CardsOf(w) \cup {card}) =
                    IF card \in CardsOf(w) THEN Cardinality(CardsOf(w))
                    ELSE Cardinality(CardsOf(w)) + 1
          BY <4>1, FS_AddElement, Zenon
        <4> QED BY <4>1, <4>2
      <3>4. /\ Cardinality(CardsOf(w)') <= Cardinality(CardsOf(w) \cup {card})
            /\ Cardinality(CardsOf(w)') \in Nat
        BY <3>1, <3>3, FS_Subset, FS_CardinalityType
      <3>5. /\ IsFiniteSet(RunsInFlight(w)')
            /\ Cardinality(RunsInFlight(w)') = Cardinality(RunsInFlight(w)) + 1
        BY <3>2, CountsAreNat, FS_AddElement
      <3> QED BY <1>2, <2>1, <3>3, <3>4, <3>5, CountsAreNat DEF LossInv, CardsCounted
    <2>3. CASE w # x
      <3>1. CardsOf(w)' \in SUBSET CardsOf(w)
        BY <1>6, <2>3 DEF CardsOf
      <3>2. RunsInFlight(w)' = RunsInFlight(w)
        BY <1>0, <1>3, <1>7, <2>3 DEF RunsInFlight
      <3>3. Cardinality(CardsOf(w)') <= Cardinality(CardsOf(w)) /\ Cardinality(CardsOf(w)') \in Nat
        BY <3>1, CountsAreNat, FS_Subset, FS_CardinalityType
      <3> QED BY <1>2, <2>1, <3>2, <3>3, CountsAreNat DEF LossInv, CardsCounted
    <2> QED BY <2>2, <2>3
  <1>11. CardsCounted'
    BY <1>10 DEF CardsCounted
  <1> QED BY <1>9, <1>11 DEF LossInv

(* The commit: one row more and one open row less.                          *)
LEMMA LossOfCommit ==
    ASSUME WaveInv, LossInv, NEW e \in Executors, CommitPiece(e)
    PROVE  LossInv'
  <1>0. PICK x, c : x = drop[e].wave /\ c = drop[e].inFlight
    OBVIOUS
  <1>1. /\ drop[e] \in Run /\ c # None /\ x \in Waves /\ InFlight(e)
        /\ c \in UnrecordedCards(x) /\ c \in Contacts
        /\ drop[e].variant \in Variants /\ drop[e].variant # None
    <2>1. drop[e] \in Run /\ InFlight(e) /\ x \in Waves
      BY <1>0, RunType DEF CommitPiece, InFlight
    <2>2. c \in UnrecordedCards(x)
      BY <1>0, <2>1 DEF LossInv, OpenIsUnrecorded
    <2>3. c # None /\ c \in Contacts
      BY <1>0, <2>1, <2>2 DEF InFlight, UnrecordedCards
    <2>4. drop[e].variant \in Variants
      BY <2>1, RunType DEF InFlight
    <2> QED BY <2>1, <2>2, <2>3, <2>4, WaveAssumption
  <1>2. /\ piece' = [piece EXCEPT ![x][c] = drop[e].variant]
        /\ drop' = [drop EXCEPT ![e].inFlight = None, ![e].todo = @ \ {c}]
        /\ cards' = cards /\ kills' = kills
    BY <1>0 DEF CommitPiece
  <1>3. /\ drop'[e].inFlight = None
        /\ \A f \in Executors : f # e => drop'[f] = drop[f]
    BY <1>1, <1>2 DEF WaveInv, TypeOK, Run
  <1>4. /\ piece'[x][c] # None
        /\ \A w \in Waves, d \in Contacts : ~(w = x /\ d = c) => piece'[w][d] = piece[w][d]
    BY <1>1, <1>2 DEF WaveInv, TypeOK
  <1>5. ~InFlight(e)' /\ \A f \in Executors : f # e => (InFlight(f)' <=> InFlight(f))
    BY <1>3 DEF InFlight
  <1>6. \A w \in Waves : UnrecordedCards(w)' = IF w = x THEN UnrecordedCards(w) \ {c}
                                               ELSE UnrecordedCards(w)
    BY <1>1, <1>2, <1>4 DEF UnrecordedCards, Printed, CardsTo, CardsOf
  <1>7. OpenIsUnrecorded'
    <2>1. ASSUME NEW f \in Executors, InFlight(f)'
          PROVE  (/\ drop[f].inFlight \in UnrecordedCards(drop[f].wave)
                  /\ drop[f].inFlight \in drop[f].todo)'
      <3>1. f # e /\ drop'[f] = drop[f] /\ InFlight(f)
        BY <1>3, <1>5, <2>1
      <3>2. drop[f].inFlight \in UnrecordedCards(drop[f].wave) /\ drop[f].inFlight \in drop[f].todo
        BY <3>1 DEF LossInv, OpenIsUnrecorded
      <3>3. ~(drop[f].wave = x /\ drop[f].inFlight = c)
        BY <1>0, <1>1, <3>1 DEF LossInv, OpenIsUnrecorded
      <3>4. drop[f].wave \in Waves
        BY <3>1, RunType DEF InFlight
      <3>5. \A w \in Waves : w = drop[f].wave =>
               (drop[f].inFlight \in UnrecordedCards(w)' <=> drop[f].inFlight \in UnrecordedCards(w))
        BY <1>6, <3>3
      <3>6. PICK w \in Waves : w = drop[f].wave
        BY <3>4
      <3>7. drop[f].inFlight \in UnrecordedCards(w)'
        BY <3>2, <3>5, <3>6
      <3> QED BY <3>1, <3>2, <3>6, <3>7
    <2>2. \A f \in Executors : InFlight(f)' =>
             (/\ drop[f].inFlight \in UnrecordedCards(drop[f].wave)
              /\ drop[f].inFlight \in drop[f].todo)'
      BY <2>1
    <2>3. \A f, g \in Executors :
             /\ InFlight(f)' /\ InFlight(g)'
             /\ drop'[f].wave = drop'[g].wave /\ drop'[f].inFlight = drop'[g].inFlight
             => f = g
      BY <1>3, <1>5 DEF LossInv, OpenIsUnrecorded
    <2> QED BY <2>2, <2>3 DEF OpenIsUnrecorded, UnrecordedCards
  <1>8. ASSUME NEW w \in Waves
        PROVE  /\ IsFiniteSet(RunsInFlight(w)')
               /\ Cardinality(CardsOf(w)') <=
                     Cardinality(Recorded(w)') + Cardinality(RunsInFlight(w)') + kills'
    <2>1. CardsOf(w)' = CardsOf(w)
      BY <1>2 DEF CardsOf
    <2>2. CASE w = x
      <3>1. RunsInFlight(w)' = RunsInFlight(w) \ {e} /\ e \in RunsInFlight(w)
        BY <1>0, <1>1, <1>3, <1>5, <2>2 DEF RunsInFlight
      <3>2. /\ IsFiniteSet(RunsInFlight(w)')
            /\ Cardinality(RunsInFlight(w)') = Cardinality(RunsInFlight(w)) - 1
        BY <3>1, CountsAreNat, FS_RemoveElement
      <3>3. Recorded(w)' = Recorded(w) \cup {c} /\ c \notin Recorded(w)
        BY <1>1, <1>4, <2>2 DEF Recorded, UnrecordedCards
      <3>4. Cardinality(Recorded(w)') = Cardinality(Recorded(w)) + 1
        BY <3>3, CountsAreNat, FS_AddElement
      <3> QED BY <1>2, <2>1, <3>2, <3>4, CountsAreNat DEF LossInv, CardsCounted
    <2>3. CASE w # x
      <3>1. RunsInFlight(w)' = RunsInFlight(w)
        BY <1>0, <1>1, <1>3, <1>5, <2>3 DEF RunsInFlight
      <3>2. Recorded(w)' = Recorded(w)
        BY <1>4, <2>3 DEF Recorded
      <3> QED BY <1>2, <2>1, <3>1, <3>2 DEF LossInv, CardsCounted
    <2> QED BY <2>2, <2>3
  <1>9. CardsCounted'
    BY <1>8 DEF CardsCounted
  <1> QED BY <1>7, <1>9 DEF LossInv

(* A kill: at most one open row less, and one kill more to account for it.  *)
LEMMA LossOfKill ==
    ASSUME WaveInv, LossInv, NEW e \in Executors, ExecuteDies(e)
    PROVE  LossInv'
  <1>1. /\ UNCHANGED mailVars /\ kills' = kills + 1
        /\ drop'[e] = None /\ \A f \in Executors : f # e => drop'[f] = drop[f]
    BY DEF ExecuteDies, WaveInv, TypeOK
  <1>2. ~InFlight(e)' /\ \A f \in Executors : f # e => (InFlight(f)' <=> InFlight(f))
    BY <1>1 DEF InFlight
  <1>3. \A w : UnrecordedCards(w)' = UnrecordedCards(w)
    BY <1>1 DEF UnrecordedCards, Printed, CardsTo, CardsOf, mailVars
  <1>4. OpenIsUnrecorded'
    BY <1>1, <1>2, <1>3 DEF LossInv, OpenIsUnrecorded
  <1>5. ASSUME NEW w \in Waves
        PROVE  /\ IsFiniteSet(RunsInFlight(w)')
               /\ Cardinality(CardsOf(w)') <=
                     Cardinality(Recorded(w)') + Cardinality(RunsInFlight(w)') + kills'
    <2>1. RunsInFlight(w)' = RunsInFlight(w) \ {e}
      BY <1>1, <1>2 DEF RunsInFlight
    <2>2. /\ IsFiniteSet(RunsInFlight(w)') /\ Cardinality(RunsInFlight(w)') \in Nat
          /\ Cardinality(RunsInFlight(w)) <= Cardinality(RunsInFlight(w)') + 1
      <3>1. PICK A, B : A = RunsInFlight(w) /\ B = RunsInFlight(w)'
        OBVIOUS
      <3>2. IsFiniteSet(A) /\ Cardinality(A) \in Nat /\ B = A \ {e}
        BY <2>1, <3>1, CountsAreNat
      <3>3. /\ IsFiniteSet(B) /\ Cardinality(B) \in Nat
            /\ Cardinality(B) = IF e \in A THEN Cardinality(A) - 1 ELSE Cardinality(A)
        BY <3>2, FS_RemoveElement, FS_CardinalityType
      <3> QED BY <3>1, <3>2, <3>3
    <2>3. CardsOf(w)' = CardsOf(w) /\ Recorded(w)' = Recorded(w)
      BY <1>1 DEF CardsOf, Recorded, mailVars
    <2> QED BY <1>1, <2>2, <2>3, CountsAreNat DEF LossInv, CardsCounted
  <1>6. CardsCounted'
    BY <1>5 DEF CardsCounted
  <1> QED BY <1>4, <1>6 DEF LossInv

LEMMA LossStep == WaveInv /\ LossInv /\ [Next]_vars => LossInv'
  <1> SUFFICES ASSUME WaveInv, LossInv, [Next]_vars PROVE LossInv'
    OBVIOUS
  <1>1. CASE UNCHANGED <<mailVars, drop, kills>>
    <2>1. \A e \in Executors : InFlight(e)' <=> InFlight(e)
      BY <1>1 DEF InFlight
    <2>2. \A e \in Executors : InFlight(e) => drop[e].inFlight \in drop[e].todo
      BY DEF LossInv, OpenIsUnrecorded
    <2> QED BY <1>1, <2>1, <2>2, LossStands
  <1>2. ASSUME NEW e \in Executors, ~InFlight(e), ~InFlight(e)', UNCHANGED <<mailVars, kills>>,
               \A f \in Executors : f # e => drop'[f] = drop[f]
        PROVE  LossInv'
    <2>1. \A f \in Executors : f # e => (InFlight(f)' <=> InFlight(f))
      BY <1>2 DEF InFlight
    <2>2. \A f \in Executors : InFlight(f) => drop[f].inFlight \in drop[f].todo
      BY DEF LossInv, OpenIsUnrecorded
    <2> QED BY <1>2, <2>1, <2>2, LossStands
  <1>3. ASSUME NEW e \in Executors, NEW w \in Waves, ExecuteRead(e, w) PROVE LossInv'
    <2>1. /\ drop[e] = None /\ drop'[e].inFlight = None /\ UNCHANGED <<mailVars, kills>>
          /\ \A f \in Executors : f # e => drop'[f] = drop[f]
      BY <1>3 DEF ExecuteRead, WaveInv, TypeOK
    <2> QED BY <1>2, <2>1 DEF InFlight
  <1>4. ASSUME NEW e \in Executors, ExecuteBegin(e) PROVE LossInv'
    <2>1. /\ drop[e] \in Run /\ drop' = [drop EXCEPT ![e].at = "loop"]
          /\ UNCHANGED <<mailVars, kills>>
      BY <1>4, RunType DEF ExecuteBegin
    <2>2. /\ drop'[e] \in Run /\ drop'[e].wave = drop[e].wave
          /\ drop'[e].inFlight = drop[e].inFlight /\ drop'[e].todo = drop[e].todo
          /\ \A f \in Executors : f # e => drop'[f] = drop[f]
      BY <2>1 DEF WaveInv, TypeOK, Run
    <2>3. drop[e] # None /\ drop'[e] # None
      BY <2>1, <2>2, WaveAssumption
    <2>4. \A f \in Executors : InFlight(f)' <=> InFlight(f)
      BY <2>2, <2>3 DEF InFlight
    <2>5. \A f \in Executors : InFlight(f) => drop[f].inFlight \in drop[f].todo
      BY DEF LossInv, OpenIsUnrecorded
    <2> QED BY <2>1, <2>2, <2>4, <2>5, LossStands
  <1>5. ASSUME NEW e \in Executors, NEW c \in Contacts, SkipPiece(e, c) PROVE LossInv'
    <2>1. /\ drop[e] \in Run /\ drop[e].inFlight = None
          /\ drop' = [drop EXCEPT ![e].todo = @ \ {c}] /\ UNCHANGED <<mailVars, kills>>
      BY <1>5, RunType DEF SkipPiece, Ready
    <2>2. drop'[e].inFlight = None /\ \A f \in Executors : f # e => drop'[f] = drop[f]
      BY <2>1 DEF WaveInv, TypeOK, Run
    <2> QED BY <1>2, <2>1, <2>2 DEF InFlight
  <1>6. ASSUME NEW e \in Executors, ExecuteFinish(e) PROVE LossInv'
    <2>1. /\ drop[e] # None /\ drop[e].todo = {} /\ UNCHANGED <<mailVars, kills>>
          /\ drop'[e] = None /\ \A f \in Executors : f # e => drop'[f] = drop[f]
      BY <1>6 DEF ExecuteFinish, WaveInv, TypeOK
    <2>2. ~InFlight(e)
      BY <2>1 DEF LossInv, OpenIsUnrecorded
    <2> QED BY <1>2, <2>1, <2>2 DEF InFlight
  <1> QED BY <1>1, <1>3, <1>4, <1>5, <1>6, LossOfSubmission, LossOfCommit, LossOfKill
          DEF Next, vars, DraftWave, Operate, UpdateWaveRead, UpdateWaveCommit,
              UpdateVariantRead, UpdateVariantCommit, ApproveRead, ApproveCommit, CancelRead,
              CancelCommit, Execute, StopMail, Recompute, mailVars

LEMMA LossInit == Init => LossInv
  <1> SUFFICES ASSUME Init PROVE LossInv
    OBVIOUS
  <1>1. \A e \in Executors : ~InFlight(e)
    BY DEF Init, InFlight
  <1>2. \A w \in Waves : CardsOf(w) = {} /\ Recorded(w) = {} /\ RunsInFlight(w) = {}
    BY <1>1 DEF Init, CardsOf, Recorded, RunsInFlight
  <1>3. OpenIsUnrecorded
    BY <1>1 DEF OpenIsUnrecorded
  <1>4. kills = 0
    BY DEF Init
  <1>5. CardsCounted
    BY <1>2, <1>4, FS_EmptySet DEF CardsCounted
  <1> QED BY <1>3, <1>5 DEF LossInv

(* A contact that was mailed has its row or is unrecorded, and has a card.  *)
Mailed(w) == {c \in Contacts : Printed(w, c)}

LEMMA MailIsCounted ==
    ASSUME WaveInv, LossInv, RecordsAreCards, NEW w \in Waves
    PROVE  /\ Cardinality(Mailed(w)) = Cardinality(Recorded(w)) + Cardinality(UnrecordedCards(w))
           /\ Cardinality(Mailed(w)) <= Cardinality(CardsOf(w))
           /\ Cardinality(RunsInFlight(w)) <= Cardinality(UnrecordedCards(w))
           /\ Cardinality(Mailed(w)) \in Nat /\ Cardinality(UnrecordedCards(w)) \in Nat
  <1>1. /\ IsFiniteSet(Mailed(w)) /\ IsFiniteSet(UnrecordedCards(w))
        /\ Cardinality(Mailed(w)) \in Nat /\ Cardinality(UnrecordedCards(w)) \in Nat
    <2>1. Mailed(w) \in SUBSET Contacts /\ UnrecordedCards(w) \in SUBSET Contacts
      BY DEF Mailed, UnrecordedCards
    <2> QED BY <2>1, WaveAssumption, FS_Subset, FS_CardinalityType
  <1>2. Cardinality(Mailed(w)) = Cardinality(Recorded(w)) + Cardinality(UnrecordedCards(w))
    <2>1. Recorded(w) \cup UnrecordedCards(w) = Mailed(w)
      BY DEF Recorded, UnrecordedCards, Mailed, RecordsAreCards
    <2>2. Recorded(w) \cap UnrecordedCards(w) = {}
      BY DEF Recorded, UnrecordedCards
    <2>3. Cardinality(Recorded(w) \cup UnrecordedCards(w)) =
             Cardinality(Recorded(w)) + Cardinality(UnrecordedCards(w)) - Cardinality({})
      BY <1>1, <2>2, CountsAreNat, FS_Union
    <2>4. Cardinality(Mailed(w)) = Cardinality(Recorded(w) \cup UnrecordedCards(w))
      BY <2>1
    <2>5. Cardinality({}) = 0
      BY FS_EmptySet
    <2>6. Cardinality(Recorded(w)) \in Nat
      BY CountsAreNat
    <2> QED BY <1>1, <2>3, <2>4, <2>5, <2>6
  <1>3. Cardinality(Mailed(w)) <= Cardinality(CardsOf(w))
    <2>1. \A card \in CardsOf(w) : card.contact \in Mailed(w)
      BY DEF CardsOf, CardsTo, Printed, Mailed, WaveInv, TypeOK, Card
    <2>2. \A c \in Mailed(w) : \E card \in CardsOf(w) : card.contact = c
      BY DEF CardsOf, CardsTo, Printed, Mailed
    <2>3. [card \in CardsOf(w) |-> card.contact] \in Surjection(CardsOf(w), Mailed(w))
      BY <2>1, <2>2 DEF Surjection
    <2> QED BY <2>3, CountsAreNat, FS_Surjection
  <1>4. Cardinality(RunsInFlight(w)) <= Cardinality(UnrecordedCards(w))
    <2>1. \A e \in RunsInFlight(w) : drop[e].inFlight \in UnrecordedCards(w)
      BY DEF RunsInFlight, LossInv, OpenIsUnrecorded
    <2>2. \A e, f \in RunsInFlight(w) : drop[e].inFlight = drop[f].inFlight => e = f
      BY DEF RunsInFlight, LossInv, OpenIsUnrecorded
    <2>3. [e \in RunsInFlight(w) |-> drop[e].inFlight]
             \in Injection(RunsInFlight(w), UnrecordedCards(w))
      BY <2>1, <2>2 DEF Injection, IsInjective
    <2> QED BY <1>1, <2>3, FS_Injection
  <1> QED BY <1>1, <1>2, <1>3, <1>4

(* A wave's cards without a row are as many as its open rows and the kills, *)
(* at most: no interleaving of drops loses the record of a printed card.    *)
THEOREM LossesAreKills == Spec => []OnlyKillsLoseRecords
  <1>1. WaveInv /\ LossInv /\ RecordsAreCards => OnlyKillsLoseRecords
    <2> SUFFICES ASSUME WaveInv, LossInv, RecordsAreCards, NEW w \in Waves
                 PROVE  Cardinality(UnrecordedCards(w)) <= kills + Cardinality(RunsInFlight(w))
      BY DEF OnlyKillsLoseRecords
    <2> QED BY MailIsCounted, CountsAreNat DEF LossInv, CardsCounted
  <1> QED BY <1>1, LossInit, LossStep, RowsClaimCards, WaveInitInv, NextInv, PTL DEF Spec

(* FR-4 for any number of waves, contacts, concurrent drops and kills, and  *)
(* for a vendor that may forget a key: a contact's second card takes a      *)
(* kill.  The runs wait for each other's rows, a row is never submitted     *)
(* again, and what a kill leaves unrecorded is all that may be.             *)
THEOREM SecondCardTakesAKill == Spec => []OnlyKillsPrintTwice
  <1>1. WaveInv /\ LossInv /\ RecordsAreCards => OnlyKillsPrintTwice
    <2> SUFFICES ASSUME WaveInv, LossInv, RecordsAreCards, NEW w \in Waves
                 PROVE  Cardinality(CardsOf(w)) <= Cardinality(Mailed(w)) + kills
      BY DEF OnlyKillsPrintTwice, Mailed
    <2> QED BY MailIsCounted, CountsAreNat DEF LossInv, CardsCounted
  <1> QED BY <1>1, LossInit, LossStep, RowsClaimCards, WaveInitInv, NextInv, PTL DEF Spec

-----------------------------------------------------------------------------
(* A run of the drop begins only on a wave that is due, with what the wave  *)
(* carries then, and keeps both.                                            *)
SameMail(e) == /\ drop[e] # None /\ drop'[e].wave = drop[e].wave
               /\ drop'[e].variant = drop[e].variant /\ drop'[e].creative = drop[e].creative

NewMail(e) == /\ drop'[e].wave \in Waves
              /\ Status(drop'[e].wave) \in {"approved", "executing"}
              /\ drop'[e].variant = wave[drop'[e].wave].variant
              /\ drop'[e].creative = creative[drop'[e].variant]

LEMMA RunsKeepTheirWave ==
    ASSUME WaveInv, [Next]_vars, NEW e \in Executors, drop'[e] # None
    PROVE  SameMail(e) \/ NewMail(e)
  <1> USE DEF SameMail, NewMail
  <1>1. ASSUME UNCHANGED drop PROVE SameMail(e)
    BY <1>1
  <1>2. ASSUME NEW f \in Executors, NEW w \in Waves, ExecuteRead(f, w)
        PROVE  SameMail(e) \/ NewMail(e)
    <2>1. CASE e = f
      BY <1>2, <2>1 DEF ExecuteRead, WaveInv, TypeOK
    <2>2. CASE e # f
      BY <1>2, <2>2 DEF ExecuteRead, WaveInv, TypeOK
    <2> QED BY <2>1, <2>2
  <1>3. ASSUME NEW f \in Executors, ExecuteBegin(f)
        PROVE  SameMail(e)
    <2>1. drop[f] \in Run
      BY <1>3, RunType DEF ExecuteBegin
    <2> QED BY <1>3, <2>1 DEF ExecuteBegin, WaveInv, TypeOK, Run
  <1>4. ASSUME NEW f \in Executors, NEW c \in Contacts, SkipPiece(f, c) \/ SubmitPiece(f, c)
        PROVE  SameMail(e)
    <2>1. drop[f] \in Run
      BY <1>4, RunType DEF SkipPiece, SubmitPiece, Ready
    <2>2. CASE SkipPiece(f, c)
      BY <2>1, <2>2 DEF SkipPiece, Ready, WaveInv, TypeOK, Run
    <2>3. CASE SubmitPiece(f, c)
      BY <2>1, <2>3 DEF SubmitPiece, Ready, WaveInv, TypeOK, Run
    <2> QED BY <1>4, <2>2, <2>3
  <1>5. ASSUME NEW f \in Executors, CommitPiece(f)
        PROVE  SameMail(e)
    <2>1. drop[f] \in Run
      BY <1>5, RunType DEF CommitPiece
    <2> QED BY <1>5, <2>1 DEF CommitPiece, WaveInv, TypeOK, Run
  <1>6. ASSUME NEW f \in Executors, ExecuteFinish(f) \/ ExecuteDies(f)
        PROVE  SameMail(e)
    BY <1>6 DEF ExecuteFinish, ExecuteDies, WaveInv, TypeOK
  <1> HIDE DEF SameMail, NewMail
  <1> QED BY <1>1, <1>2, <1>3, <1>4, <1>5, <1>6
          DEF Next, vars, DraftWave, Operate, UpdateWaveRead, UpdateWaveCommit,
              UpdateVariantRead, UpdateVariantCommit, ApproveRead, ApproveCommit, CancelRead,
              CancelCommit, Execute, StopMail, Recompute

(* What a verb that begins has read of its wave or its variant.             *)
Begins(verb) ==
    \/ verb.verb = "revise" /\ ~IsFrozen(verb.variant)
    \/ verb.verb = "update" /\ Status(verb.wave) = "draft"
    \/ verb.verb \in {"approve", "cancel"} /\ Status(verb.wave) \in {"draft", "approved"}

LEMMA VerbsBegin ==
    ASSUME WaveInv, [Next]_vars, NEW o \in Operators, NEW v, v = web'[o], v # None
    PROVE  v = web[o] \/ Begins(v)
  <1>1. CASE UNCHANGED web
    BY <1>1
  <1>2. ASSUME NEW p \in Operators, Operate(p)
        PROVE  v = web[o] \/ Begins(v)
    <2> USE DEF WaveInv, TypeOK
    <2>1. CASE o # p
      BY <1>2, <2>1 DEF Operate, UpdateWaveRead, UpdateWaveCommit, UpdateVariantRead,
         UpdateVariantCommit, ApproveRead, ApproveCommit, CancelRead, CancelCommit
    <2>2. CASE o = p
      <3>1. ASSUME NEW w \in Waves, NEW r \in Rules, NEW u \in Variants,
                   UpdateWaveRead(p, w, r, u)
            PROVE  Begins(v)
        BY <2>2, <3>1 DEF UpdateWaveRead, Begins
      <3>2. ASSUME NEW u \in Variants, NEW new \in Creatives, UpdateVariantRead(p, u, new)
            PROVE  Begins(v)
        BY <2>2, <3>2 DEF UpdateVariantRead, Begins
      <3>3. ASSUME NEW w \in Waves, ApproveRead(p, w)
            PROVE  Begins(v)
        BY <2>2, <3>3 DEF ApproveRead, Begins
      <3>4. ASSUME NEW w \in Waves, CancelRead(p, w)
            PROVE  Begins(v)
        BY <2>2, <3>4 DEF CancelRead, Begins
      <3>5. CASE UpdateWaveCommit(p) \/ UpdateVariantCommit(p) \/ ApproveCommit(p) \/ CancelCommit(p)
        BY <2>2, <3>5 DEF UpdateWaveCommit, UpdateVariantCommit, ApproveCommit, CancelCommit
      <3> QED BY <1>2, <3>1, <3>2, <3>3, <3>4, <3>5 DEF Operate
    <2> QED BY <2>1, <2>2
  <1> QED BY <1>1, <1>2
          DEF Next, vars, DraftWave, Execute, ExecuteRead, ExecuteBegin, SkipPiece, SubmitPiece,
              CommitPiece, ExecuteFinish, ExecuteDies, StopMail, Recompute

(* A settled wave's row and pieces are out of every step's reach.           *)
LEMMA SettledStays ==
    ASSUME WaveInv, [Next]_vars, NEW w \in Waves, Settled(w)
    PROVE  wave'[w] = wave[w] /\ piece'[w] = piece[w]
  <1> USE DEF WaveInv, TypeOK
  <1>1. wave[w] # None /\ wave[w].status \in {"sent", "cancelled"}
    BY DEF Settled, Status
  <1>2. CASE UNCHANGED <<wave, piece>>
    BY <1>2
  <1>3. ASSUME NEW x \in Waves, NEW r \in Rules, NEW v \in Variants, DraftWave(x, r, v)
        PROVE  wave'[w] = wave[w] /\ piece'[w] = piece[w]
    BY <1>1, <1>3 DEF DraftWave, mailVars
  <1>4. ASSUME NEW o \in Operators,
               UpdateWaveCommit(o) \/ ApproveCommit(o) \/ CancelCommit(o)
        PROVE  wave'[w] = wave[w] /\ piece'[w] = piece[w]
    <2>1. web[o] # None /\ web[o].verb # "revise"
      BY <1>4 DEF UpdateWaveCommit, ApproveCommit, CancelCommit
    <2>2. web[o].wave # w
      BY <2>1 DEF Settled
    <2> QED BY <1>4, <2>2 DEF UpdateWaveCommit, ApproveCommit, CancelCommit, mailVars
  <1>5. ASSUME NEW e \in Executors, ExecuteBegin(e) \/ CommitPiece(e) \/ ExecuteFinish(e)
        PROVE  wave'[w] = wave[w] /\ piece'[w] = piece[w]
    <2>1. drop[e] # None
      BY <1>5 DEF ExecuteBegin, CommitPiece, ExecuteFinish
    <2>2. drop[e].wave # w
      BY <2>1 DEF Settled
    <2> QED BY <1>5, <2>2 DEF ExecuteBegin, CommitPiece, ExecuteFinish, mailVars
  <1> QED BY <1>2, <1>3, <1>4, <1>5
          DEF Next, vars, Operate, UpdateWaveRead, UpdateVariantRead, UpdateVariantCommit,
              ApproveRead, CancelRead, Execute, ExecuteRead, SkipPiece, SubmitPiece,
              ExecuteDies, StopMail, Recompute, mailVars

(* Once the last request and the last drop that knew a sent or cancelled    *)
(* wave are over, nothing edits, restarts or mails it: any number of        *)
(* operators and executors.                                                 *)
THEOREM SettledForGood == Spec => SettledIsFinal
  <1>1. WaveInv /\ [Next]_vars =>
           [\A w \in Waves : Settled(w) =>
               /\ Settled(w)'
               /\ wave'[w] = wave[w] /\ piece'[w] = piece[w]]_vars
    <2> SUFFICES ASSUME WaveInv, [Next]_vars, NEW w \in Waves, Settled(w)
                 PROVE  Settled(w)' /\ wave'[w] = wave[w] /\ piece'[w] = piece[w]
      OBVIOUS
    <2>1. wave'[w] = wave[w] /\ piece'[w] = piece[w]
      BY SettledStays
    <2>2. Status(w) \notin {"draft", "approved", "executing"}
      BY DEF Settled
    <2>3. Status(w)' \in {"sent", "cancelled"}
      BY <2>1 DEF Settled, Status
    <2>4. \A e \in Executors : drop'[e] # None => drop'[e].wave # w
      BY <2>2, RunsKeepTheirWave DEF Settled, SameMail, NewMail
    <2>5. ASSUME NEW o \in Operators, NEW v, v = web'[o], v # None, v.verb # "revise"
          PROVE  v.wave # w
      <3>1. v = web[o] \/ Begins(v)
        BY <2>5, VerbsBegin
      <3> QED BY <2>2, <2>5, <3>1 DEF Settled, Begins
    <2> QED BY <2>1, <2>3, <2>4, <2>5 DEF Settled
  <1> QED BY <1>1, WaveInitInv, NextInv, PTL DEF Spec, SettledIsFinal

-----------------------------------------------------------------------------
(* What an approval fixes.  No verb that begins after it can be an edit of  *)
(* the wave: the wave is no draft any more, and its variant is frozen.      *)
DraftsAreUnapproved ==
    \A w \in Waves : wave[w] # None /\ wave[w].status = "draft" => ~wave[w].approvedAt

(* What a step does to a wave and to a creative.                            *)
LEMMA RowSteps ==
    ASSUME [Next]_vars
    PROVE  \/ UNCHANGED <<wave, creative>>
           \/ \E w \in Waves, r \in Rules, v \in Variants : DraftWave(w, r, v)
           \/ \E o \in Operators : \/ UpdateWaveCommit(o) \/ UpdateVariantCommit(o)
                                   \/ ApproveCommit(o) \/ CancelCommit(o)
           \/ \E e \in Executors : ExecuteBegin(e) \/ ExecuteFinish(e)
  BY DEF Next, vars, Operate, UpdateWaveRead, UpdateVariantRead, ApproveRead, CancelRead,
         Execute, ExecuteRead, SkipPiece, SubmitPiece, CommitPiece, ExecuteDies, StopMail,
         Recompute

LEMMA DraftsStayUnapproved ==
    ASSUME WaveInv, DraftsAreUnapproved, [Next]_vars
    PROVE  DraftsAreUnapproved'
  <1> USE DEF WaveInv, TypeOK
  <1> SUFFICES ASSUME NEW w \in Waves, wave'[w] # None, wave'[w].status = "draft"
               PROVE  ~wave'[w].approvedAt
    BY DEF DraftsAreUnapproved
  <1>1. ASSUME wave'[w] = wave[w] PROVE ~wave'[w].approvedAt
    BY <1>1 DEF DraftsAreUnapproved
  <1>2. ASSUME NEW x \in Waves, NEW r \in Rules, NEW v \in Variants, DraftWave(x, r, v)
        PROVE  ~wave'[w].approvedAt
    BY <1>1, <1>2 DEF DraftWave
  <1>3. ASSUME NEW o \in Operators, UpdateWaveCommit(o) PROVE ~wave'[w].approvedAt
    <2>1. CASE web[o].wave = w
      <3>1. wave[w] \in WaveRow
        BY <1>3, <2>1 DEF UpdateWaveCommit, NamedWavesExist
      <3>2. wave'[w].status = wave[w].status /\ wave'[w].approvedAt = wave[w].approvedAt
        BY <1>3, <2>1, <3>1 DEF UpdateWaveCommit, WaveRow
      <3> QED BY <3>1, <3>2, WaveAssumption DEF DraftsAreUnapproved
    <2>2. CASE web[o].wave # w
      BY <1>1, <1>3, <2>2 DEF UpdateWaveCommit
    <2> QED BY <2>1, <2>2
  <1>4. ASSUME NEW x \in Waves, NEW status \in Statuses \ {"draft"}, wave[x] # None,
               \A y \in Waves : y # x => wave'[y] = wave[y], wave'[x].status = status
        PROVE  ~wave'[w].approvedAt
    BY <1>1, <1>4
  <1>5. ASSUME NEW o \in Operators, ApproveCommit(o) \/ CancelCommit(o)
        PROVE  ~wave'[w].approvedAt
    <2>1. web[o].wave \in Waves /\ wave[web[o].wave] \in WaveRow
      BY <1>5 DEF ApproveCommit, CancelCommit, Verb, NamedWavesExist
    <2>2. wave'[web[o].wave].status \in {"approved", "cancelled"}
      BY <1>5, <2>1 DEF ApproveCommit, CancelCommit, WaveRow
    <2>3. \A y \in Waves : y # web[o].wave => wave'[y] = wave[y]
      BY <1>5 DEF ApproveCommit, CancelCommit
    <2> QED BY <1>4, <2>1, <2>2, <2>3, WaveAssumption DEF Statuses
  <1>6. ASSUME NEW e \in Executors, ExecuteBegin(e) \/ ExecuteFinish(e)
        PROVE  ~wave'[w].approvedAt
    <2>1. drop[e].wave \in Waves /\ wave[drop[e].wave] \in WaveRow
      BY <1>6, RunType DEF ExecuteBegin, ExecuteFinish
    <2>2. wave' = wave \/ wave'[drop[e].wave].status \in {"executing", "sent"}
      BY <1>6, <2>1 DEF ExecuteBegin, ExecuteFinish, WaveRow
    <2>3. \A y \in Waves : y # drop[e].wave => wave'[y] = wave[y]
      BY <1>6 DEF ExecuteBegin, ExecuteFinish
    <2> QED BY <1>1, <1>4, <2>1, <2>2, <2>3, WaveAssumption DEF Statuses
  <1> QED BY <1>1, <1>2, <1>3, <1>5, <1>6, RowSteps DEF UpdateVariantCommit

(* The row and the creative of a bound wave.                                *)
BoundRow(w) ==
    /\ wave'[w] # None /\ wave'[w].approvedAt
    /\ wave'[w].rule = wave[w].rule /\ wave'[w].variant = wave[w].variant
    /\ creative'[wave[w].variant] = creative[wave[w].variant]

LEMMA BoundRowStays ==
    ASSUME WaveInv, [Next]_vars, NEW w \in Waves, Bound(w)
    PROVE  BoundRow(w)
  <1> USE DEF WaveInv, TypeOK, BoundRow
  <1>1. wave[w] \in WaveRow /\ wave[w] # None /\ wave[w].approvedAt /\ wave[w].variant \in Variants
    BY DEF Bound, WaveRow
  <1>2. \A row \in WaveRow : row # None
    BY WaveAssumption
  <1>3. ASSUME wave'[w] = wave[w], creative' = creative PROVE BoundRow(w)
    BY <1>1, <1>3
  <1>4. ASSUME NEW x \in Waves, NEW r \in Rules, NEW v \in Variants, DraftWave(x, r, v)
        PROVE  BoundRow(w)
    BY <1>1, <1>3, <1>4 DEF DraftWave
  <1>5. ASSUME NEW o \in Operators, UpdateWaveCommit(o) PROVE BoundRow(w)
    <2>1. web[o].wave # w
      BY <1>5 DEF UpdateWaveCommit, Bound, Edits
    <2> QED BY <1>3, <1>5, <2>1 DEF UpdateWaveCommit
  <1>6. ASSUME NEW o \in Operators, UpdateVariantCommit(o) PROVE BoundRow(w)
    <2>1. web[o].variant # wave[w].variant
      BY <1>6 DEF UpdateVariantCommit, Bound, Edits
    <2>2. creative'[wave[w].variant] = creative[wave[w].variant] /\ wave' = wave
      BY <1>1, <1>6, <2>1 DEF UpdateVariantCommit
    <2> QED BY <1>1, <2>2
  <1>7. ASSUME NEW o \in Operators, ApproveCommit(o) PROVE BoundRow(w)
    <2>1. CASE web[o].wave # w
      BY <1>3, <1>7, <2>1 DEF ApproveCommit
    <2>2. CASE web[o].wave = w
      <3>1. web[o].count \in Nat
        BY <1>7 DEF ApproveCommit, Verb
      <3>2. wave'[w] \in WaveRow /\ wave'[w].approvedAt
            /\ wave'[w].rule = wave[w].rule /\ wave'[w].variant = wave[w].variant
        BY <1>1, <1>7, <2>2, <3>1 DEF ApproveCommit, WaveRow, Statuses
      <3>3. creative' = creative
        BY <1>7 DEF ApproveCommit
      <3> QED BY <1>2, <3>2, <3>3
    <2> QED BY <2>1, <2>2
  <1>8. ASSUME NEW x \in Waves, NEW status \in Statuses,
               wave' = [wave EXCEPT ![x].status = status], creative' = creative
        PROVE  BoundRow(w)
    <2>1. wave'[w] \in WaveRow
      BY <1>1, <1>8 DEF WaveRow
    <2>2. /\ wave'[w].approvedAt = wave[w].approvedAt /\ wave'[w].variant = wave[w].variant
          /\ wave'[w].rule = wave[w].rule
      BY <1>1, <1>8 DEF WaveRow
    <2> QED BY <1>1, <1>2, <1>8, <2>1, <2>2
  <1>9. ASSUME NEW o \in Operators, CancelCommit(o) PROVE BoundRow(w)
    <2>1. web[o].wave \in Waves /\ "cancelled" \in Statuses
      BY <1>9 DEF CancelCommit, Verb, Statuses
    <2> HIDE DEF BoundRow
    <2> QED BY <1>8, <1>9, <2>1 DEF CancelCommit
  <1>10. ASSUME NEW e \in Executors, ExecuteBegin(e) \/ ExecuteFinish(e) PROVE BoundRow(w)
    <2>1. drop[e].wave \in Waves /\ "executing" \in Statuses /\ "sent" \in Statuses
      BY <1>10, RunType DEF ExecuteBegin, ExecuteFinish, Statuses
    <2>2. /\ creative' = creative
          /\ \/ wave' = wave
             \/ wave' = [wave EXCEPT ![drop[e].wave].status = "executing"]
             \/ wave' = [wave EXCEPT ![drop[e].wave].status = "sent"]
      BY <1>10 DEF ExecuteBegin, ExecuteFinish
    <2> HIDE DEF BoundRow
    <2> QED BY <1>3, <1>8, <2>1, <2>2
  <1> HIDE DEF BoundRow
  <1> QED BY <1>3, <1>4, <1>5, <1>6, <1>7, <1>9, <1>10, RowSteps

(* A card printed in a step carries what its run read.                      *)
LEMMA NewCards ==
    ASSUME WaveInv, [Next]_vars, NEW card \in cards', card \notin cards
    PROVE  \E e \in Executors :
              /\ drop[e] # None
              /\ card.wave = drop[e].wave
              /\ card.variant = drop[e].variant /\ card.creative = drop[e].creative
  <1>1. ASSUME NEW e \in Executors, NEW c \in Contacts, SubmitPiece(e, c)
        PROVE  /\ drop[e] # None
               /\ card.wave = drop[e].wave
               /\ card.variant = drop[e].variant /\ card.creative = drop[e].creative
    BY <1>1 DEF SubmitPiece, SubmitToVendor, Ready
  <1>2. ASSUME UNCHANGED cards PROVE FALSE
    BY <1>2
  <1> QED BY <1>1, <1>2, MailSteps DEF mailVars, CommitPiece

(* An approval with no edit in hand and no drop of an older reading binds:  *)
(* any number of operators, drops and kills.                                *)
THEOREM ApprovalsBind == Spec => ApprovalBinds
  <1>1. Init => DraftsAreUnapproved
    BY DEF Init, DraftsAreUnapproved
  <1>2. WaveInv /\ DraftsAreUnapproved /\ [Next]_vars => DraftsAreUnapproved'
    BY DraftsStayUnapproved
  <1>3. WaveInv /\ DraftsAreUnapproved /\ [Next]_vars =>
           [\A w \in Waves : Bound(w) =>
               /\ Bound(w)'
               /\ wave'[w].rule = wave[w].rule /\ wave'[w].variant = wave[w].variant
               /\ creative'[wave[w].variant] = creative[wave[w].variant]
               /\ \A card \in cards' \ cards : card.wave = w =>
                     /\ card.variant = wave[w].variant
                     /\ card.creative = creative[wave[w].variant]]_vars
    <2> SUFFICES ASSUME WaveInv, DraftsAreUnapproved, [Next]_vars, NEW w \in Waves, Bound(w)
                 PROVE  /\ Bound(w)' /\ BoundRow(w)
                        /\ \A card \in cards' \ cards : card.wave = w =>
                              /\ card.variant = wave[w].variant
                              /\ card.creative = creative[wave[w].variant]
      BY DEF BoundRow
    <2>1. BoundRow(w)
      BY BoundRowStays
    <2>2. ASSUME NEW o \in Operators, NEW v, v = web'[o], v # None
          PROVE  ~(\/ v.verb = "update" /\ v.wave = w
                   \/ v.verb = "revise" /\ v.variant = wave'[w].variant)
      <3>1. CASE v = web[o]
        BY <2>1, <2>2, <3>1 DEF Bound, Edits, BoundRow
      <3>2. CASE Begins(v)
        <4>1. wave[w] # None /\ wave[w].approvedAt /\ Status(w) # "draft"
          BY DEF Bound, DraftsAreUnapproved, Status
        <4>2. IsFrozen(wave[w].variant)
          BY <4>1 DEF IsFrozen
        <4> QED BY <2>1, <3>2, <4>1, <4>2 DEF Begins, BoundRow
      <3> QED BY <2>2, <3>1, <3>2, VerbsBegin
    <2>3. ASSUME NEW e \in Executors, drop'[e] # None, drop'[e].wave = w
          PROVE  /\ drop'[e].variant = wave'[w].variant
                 /\ drop'[e].creative = creative'[wave'[w].variant]
      <3>1. CASE SameMail(e)
        BY <2>1, <2>3, <3>1 DEF SameMail, Bound, BoundRow
      <3>2. CASE NewMail(e)
        BY <2>1, <2>3, <3>2 DEF NewMail, BoundRow
      <3> QED BY <2>3, <3>1, <3>2, RunsKeepTheirWave
    <2>4. Bound(w)'
      BY <2>1, <2>2, <2>3 DEF Bound, Edits, BoundRow
    <2>5. ASSUME NEW card \in cards', card \notin cards, card.wave = w
          PROVE  card.variant = wave[w].variant /\ card.creative = creative[wave[w].variant]
      BY <2>5, NewCards DEF Bound
    <2> QED BY <2>1, <2>4, <2>5
  <1> QED BY <1>1, <1>2, <1>3, WaveInitInv, NextInv, PTL DEF Spec, ApprovalBinds
=============================================================================
