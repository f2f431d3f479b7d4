--------------------------- MODULE CustodyProofs ---------------------------
(***************************************************************************)
(* Proofs about Custody for every set of contacts, partners, keys and      *)
(* sessions.                                                               *)
(***************************************************************************)
EXTENDS CustodyRefinement, TLAPS

(* set_owner, given pinned arguments, keeps the three columns well typed.   *)
LEMMA SetOwnerType ==
    ASSUME TypeOK,
           NEW S, NEW new \in Owners, NEW type \in OwnershipEvents, NEW key \in Keys \cup {None},
           SetOwner(S, new, type, key)
    PROVE  /\ owner' \in [Contacts -> Owners]
           /\ pointer' \in [Contacts -> Keys \cup {None}]
           /\ log' \in [Contacts -> Seq(Event)]
  <1>1. owner' \in [Contacts -> Owners] /\ pointer' \in [Contacts -> Keys \cup {None}]
    BY DEF SetOwner, TypeOK
  <1>2. ASSUME NEW c \in Contacts
        PROVE  [type |-> type, prev |-> owner[c], new |-> new, batch |-> key] \in Event
    BY DEF TypeOK, Event
  <1>3. ASSUME NEW c \in Contacts, NEW e \in Event PROVE Append(log[c], e) \in Seq(Event)
    BY DEF TypeOK
  <1>4. log' \in [Contacts -> Seq(Event)]
    BY <1>2, <1>3 DEF SetOwner, TypeOK
  <1> QED BY <1>1, <1>4

LEMMA InitType == Init => TypeOK
  BY DEF Init, TypeOK, Owners, Stages, Pass, IdlePass, Ages

LEMMA NextType == TypeOK /\ [Next]_vars => TypeOK'
  <1> SUFFICES ASSUME TypeOK, [Next]_vars PROVE TypeOK'
    OBVIOUS
  <1> USE DEF contactVars, flagVars, stageVars
  <1>1. ASSUME NEW a \in Callers, NEW k \in Keys, NEW p \in Partners, AssignCheck(a, k, p)
        PROVE  TypeOK'
    BY <1>1 DEF AssignCheck, TypeOK, Request
  <1>2. ASSUME NEW a \in Callers, AssignCommit(a) PROVE TypeOK'
    <2>1. asg[a] \in Request
      BY <1>2 DEF AssignCommit, TypeOK
    <2>2. PICK chosen \in SUBSET {c \in Contacts : Assignable(c)} :
             /\ batch' = [batch EXCEPT ![asg[a].key] =
                            [partner |-> asg[a].partner, members |-> chosen, expired |-> FALSE]]
             /\ SetOwner(chosen, asg[a].partner, "assigned", asg[a].key)
      BY <1>2 DEF AssignCommit
    <2>3. /\ owner' \in [Contacts -> Owners]
          /\ pointer' \in [Contacts -> Keys \cup {None}]
          /\ log' \in [Contacts -> Seq(Event)]
      BY <2>1, <2>2, SetOwnerType DEF Request, Owners, OwnershipEvents
    <2>4. [partner |-> asg[a].partner, members |-> chosen, expired |-> FALSE] \in BatchRow
      BY <2>1, <2>2 DEF Request, BatchRow
    <2>5. batch' \in [Keys -> BatchRow \cup {None}]
      BY <2>1, <2>2, <2>4 DEF TypeOK, Request
    <2> QED BY <1>2, <2>3, <2>5 DEF AssignCommit, TypeOK
  <1>3. ASSUME NEW a \in Callers, AssignAbort(a) PROVE TypeOK'
    BY <1>3 DEF AssignAbort, TypeOK
  <1>4. ASSUME NEW s \in Suppressors, NEW c \in Contacts, NEW ch \in Channels,
               SuppressRead(s, c, ch)
        PROVE  TypeOK'
    BY <1>4 DEF SuppressRead, TypeOK, Suppression
  <1>5. ASSUME NEW s \in Suppressors, SuppressCommit(s) PROVE TypeOK'
    <2>1. sup[s] \in Suppression
      BY <1>5 DEF SuppressCommit, TypeOK
    <2>2. /\ owner' \in [Contacts -> Owners]
          /\ pointer' \in [Contacts -> Keys \cup {None}]
          /\ log' \in [Contacts -> Seq(Event)]
      <3>1. CASE UNCHANGED contactVars
        BY <3>1 DEF TypeOK
      <3>2. CASE SetOwner({sup[s].contact}, House, "reclaimed", None)
        BY <3>2, SetOwnerType DEF Owners, OwnershipEvents
      <3> QED BY <1>5, <3>1, <3>2 DEF SuppressCommit
    <2>3. doNotCall' \in [Contacts -> BOOLEAN] /\ eventStage' \in [Contacts -> Stages]
      BY <1>5, <2>1 DEF SuppressCommit, TypeOK, Suppression, Stages
    <2> QED BY <1>5, <2>2, <2>3 DEF SuppressCommit, TypeOK
  <1>6. ASSUME NEW p \in Partners, Reclaim(p) PROVE TypeOK'
    <2>1. /\ owner' \in [Contacts -> Owners]
          /\ pointer' \in [Contacts -> Keys \cup {None}]
          /\ log' \in [Contacts -> Seq(Event)]
      BY <1>6, SetOwnerType DEF Reclaim, Owners, OwnershipEvents
    <2> QED BY <1>6, <2>1 DEF Reclaim, TypeOK
  <1>7. ASSUME NEW r \in Scrubbers, ScrubDue(r) PROVE TypeOK'
    <2>1. PICK hits \in SUBSET {c \in Contacts : checkedAge[c] # "fresh"} :
             scrub' = [scrub EXCEPT ![r].todo =
                         {[contact |-> c, owner |-> owner[c], listed |-> dncRegistry[c],
                           hit |-> c \in hits] : c \in {d \in Contacts : checkedAge[d] # "fresh"}}]
      BY <1>7 DEF ScrubDue
    <2> DEFINE due  == {c \in Contacts : checkedAge[c] # "fresh"}
               rows == {[contact |-> c, owner |-> owner[c], listed |-> dncRegistry[c],
                         hit |-> c \in hits] : c \in due}
    <2>2. rows \in SUBSET DueRow
      <3>1. ASSUME NEW c \in due
            PROVE  /\ c \in Contacts /\ owner[c] \in Owners
                   /\ dncRegistry[c] \in BOOLEAN /\ (c \in hits) \in BOOLEAN
        BY DEF TypeOK
      <3>2. ASSUME NEW c \in Contacts, NEW o \in Owners, NEW l \in BOOLEAN, NEW h \in BOOLEAN
            PROVE  [contact |-> c, owner |-> o, listed |-> l, hit |-> h] \in DueRow
        BY DEF DueRow
      <3> QED BY <3>1, <3>2, Zenon
    <2>3. scrub' \in [Scrubbers -> Pass]
      <3> HIDE DEF rows
      <3>1. scrub' = [scrub EXCEPT ![r].todo = rows]
        BY <2>1 DEF rows
      <3>2. [scrub[r] EXCEPT !.todo = rows] \in Pass
        <4>1. scrub[r] \in Pass
          BY DEF TypeOK
        <4>2. \A t \in SUBSET DueRow : [scrub[r] EXCEPT !.todo = t] \in Pass
          BY <4>1 DEF Pass
        <4> QED BY <2>2, <4>2
      <3> QED BY <3>1, <3>2 DEF TypeOK
    <2> QED BY <1>7, <2>3 DEF ScrubDue, TypeOK
  <1>8. ASSUME NEW r \in Scrubbers, NEW row \in scrub[r].todo, ScrubApply(r, row) PROVE TypeOK'
    <2>1. scrub[r] \in Pass /\ row \in DueRow
      BY <1>8 DEF TypeOK, Pass
    <2>2. /\ owner' \in [Contacts -> Owners]
          /\ pointer' \in [Contacts -> Keys \cup {None}]
          /\ log' \in [Contacts -> Seq(Event)]
      <3>1. CASE UNCHANGED contactVars
        BY <3>1 DEF TypeOK
      <3>2. CASE SetOwner({row.contact}, House, "reclaimed", None)
        BY <3>2, SetOwnerType DEF Owners, OwnershipEvents
      <3> QED BY <1>8, <3>1, <3>2 DEF ScrubApply
    <2>3. checkedAge' \in [Contacts -> Ages] /\ dncRegistry' \in [Contacts -> BOOLEAN]
      BY <1>8, <2>1 DEF ScrubApply, TypeOK, DueRow, Ages
    <2>4. scrub' \in [Scrubbers -> Pass]
      BY <1>8, <2>1 DEF ScrubApply, TypeOK, DueRow, Pass
    <2> QED BY <1>8, <2>2, <2>3, <2>4 DEF ScrubApply, TypeOK
  <1>9. ASSUME NEW r \in Scrubbers, ScrubClear(r) PROVE TypeOK'
    <2>1. scrub[r] \in Pass
      BY DEF TypeOK
    <2>2. [scrub[r] EXCEPT !.clearing = {}] \in Pass
      BY <2>1 DEF Pass
    <2>3. scrub' \in [Scrubbers -> Pass]
      BY <1>9, <2>2 DEF ScrubClear, TypeOK
    <2>4. dncRegistry' \in [Contacts -> BOOLEAN]
      BY <1>9, <2>1 DEF ScrubClear, TypeOK
    <2> QED BY <1>9, <2>3, <2>4 DEF ScrubClear, TypeOK
  <1>10. ASSUME NEW r \in Scrubbers, ScrubCrash(r) PROVE TypeOK'
    BY <1>10 DEF ScrubCrash, TypeOK, Pass, IdlePass
  <1>11. CASE RecomputeRead
    BY <1>11 DEF RecomputeRead, TypeOK
  <1>12. CASE RecomputeWrite
    BY <1>12 DEF RecomputeWrite, TypeOK
  <1>13. CASE RunExpiryStep
    <2>1. /\ owner' \in [Contacts -> Owners]
          /\ pointer' \in [Contacts -> Keys \cup {None}]
          /\ log' \in [Contacts -> Seq(Event)]
      BY <1>13, SetOwnerType DEF RunExpiryStep, Owners, OwnershipEvents
    <2> QED BY <1>13, <2>1 DEF RunExpiryStep, TypeOK
  <1>14. CASE RunWonTerminationStep
    <2>1. /\ owner' \in [Contacts -> Owners]
          /\ pointer' \in [Contacts -> Keys \cup {None}]
          /\ log' \in [Contacts -> Seq(Event)]
      BY <1>14, SetOwnerType DEF RunWonTerminationStep, Owners, OwnershipEvents
    <2> QED BY <1>14, <2>1 DEF RunWonTerminationStep, TypeOK
  <1>15. CASE NightlyFails
    BY <1>15 DEF NightlyFails, TypeOK
  <1>16. ASSUME NEW c \in Contacts, NEW new \in Stages, EventArrives(c, new) PROVE TypeOK'
    BY <1>16 DEF EventArrives, TypeOK
  <1>17. ASSUME NEW c \in Contacts, CheckAges(c) PROVE TypeOK'
    BY <1>17 DEF CheckAges, TypeOK, Ages
  <1>18. ASSUME NEW k \in Keys, BatchExpires(k) PROVE TypeOK'
    <2>1. batch[k] \in BatchRow
      BY <1>18 DEF BatchExpires, TypeOK
    <2> QED BY <1>18, <2>1 DEF BatchExpires, TypeOK, BatchRow
  <1>19. ASSUME NEW p \in Partners, SetPartnerStatus(p) PROVE TypeOK'
    BY <1>19 DEF SetPartnerStatus, TypeOK
  <1>20. CASE UNCHANGED vars
    BY <1>20 DEF vars, TypeOK
  <1> QED
    BY <1>1, <1>2, <1>3, <1>4, <1>5, <1>6, <1>7, <1>8, <1>9, <1>10, <1>11, <1>12, <1>13,
       <1>14, <1>15, <1>16, <1>17, <1>18, <1>19, <1>20 DEF Next

(* The columns, the event log and the sessions keep their types.            *)
THEOREM TypeCorrect == Spec => []TypeOK
  BY InitType, NextType, PTL DEF Spec

-----------------------------------------------------------------------------
(* The four ways a step can treat the owner, the pointer, the event log and *)
(* the batch rows.                                                          *)
Rests == UNCHANGED <<contactVars, batch>>

Ticks ==
    /\ UNCHANGED contactVars
    /\ \E k \in Keys : /\ batch[k] # None
                       /\ batch' = [batch EXCEPT ![k].expired = TRUE]

Returns ==
    /\ UNCHANGED batch
    /\ \E S \in SUBSET Contacts, type \in {"expired", "reclaimed"} :
          SetOwner(S, House, type, None)

Grants(k, p, S) ==
    /\ batch[k] = None
    /\ \A c \in S : Assignable(c)
    /\ batch' = [batch EXCEPT ![k] = [partner |-> p, members |-> S, expired |-> FALSE]]
    /\ SetOwner(S, p, "assigned", k)

(* Whatever handler runs, it does one of the four.                          *)
LEMMA StepShape ==
    ASSUME TypeOK, [Next]_vars
    PROVE  \/ Rests
           \/ Ticks
           \/ Returns
           \/ \E k \in Keys, p \in Partners, S \in SUBSET Contacts : Grants(k, p, S)
  <1>1. ASSUME NEW a \in Callers, NEW k \in Keys, NEW p \in Partners, AssignCheck(a, k, p)
        PROVE  Rests
    BY <1>1 DEF AssignCheck, Rests
  <1>2. ASSUME NEW a \in Callers, AssignCommit(a)
        PROVE  \E k \in Keys, p \in Partners, S \in SUBSET Contacts : Grants(k, p, S)
    <2>1. asg[a].key \in Keys /\ asg[a].partner \in Partners
      BY <1>2 DEF AssignCommit, TypeOK, Request
    <2>2. PICK chosen \in SUBSET {c \in Contacts : Assignable(c)} :
             /\ batch' = [batch EXCEPT ![asg[a].key] =
                            [partner |-> asg[a].partner, members |-> chosen, expired |-> FALSE]]
             /\ SetOwner(chosen, asg[a].partner, "assigned", asg[a].key)
      BY <1>2 DEF AssignCommit
    <2>3. Grants(asg[a].key, asg[a].partner, chosen)
      BY <1>2, <2>2 DEF AssignCommit, Grants
    <2> QED BY <2>1, <2>2, <2>3
  <1>3. ASSUME NEW a \in Callers, AssignAbort(a) PROVE Rests
    BY <1>3 DEF AssignAbort, Rests
  <1>4. ASSUME NEW s \in Suppressors, NEW c \in Contacts, NEW ch \in Channels,
               SuppressRead(s, c, ch)
        PROVE  Rests
    BY <1>4 DEF SuppressRead, Rests
  <1>5. ASSUME NEW s \in Suppressors, SuppressCommit(s) PROVE Rests \/ Returns
    <2>1. {sup[s].contact} \in SUBSET Contacts
      BY <1>5 DEF SuppressCommit, TypeOK, Suppression
    <2> QED BY <1>5, <2>1 DEF SuppressCommit, Rests, Returns
  <1>6. ASSUME NEW p \in Partners, Reclaim(p) PROVE Returns
    BY <1>6 DEF Reclaim, Returns
  <1>7. ASSUME NEW r \in Scrubbers, ScrubDue(r) PROVE Rests
    BY <1>7 DEF ScrubDue, Rests
  <1>8. ASSUME NEW r \in Scrubbers, NEW row \in scrub[r].todo, ScrubApply(r, row)
        PROVE  Rests \/ Returns
    <2>1. {row.contact} \in SUBSET Contacts
      BY <1>8 DEF TypeOK, Pass, DueRow
    <2> QED BY <1>8, <2>1 DEF ScrubApply, Rests, Returns
  <1>9. ASSUME NEW r \in Scrubbers, ScrubClear(r) \/ ScrubCrash(r) PROVE Rests
    BY <1>9 DEF ScrubClear, ScrubCrash, Rests
  <1>10. CASE RecomputeRead \/ RecomputeWrite \/ NightlyFails
    BY <1>10 DEF RecomputeRead, RecomputeWrite, NightlyFails, Rests
  <1>11. CASE RunExpiryStep \/ RunWonTerminationStep
    <2>1. CASE RunExpiryStep
      BY <2>1 DEF RunExpiryStep, Returns
    <2>2. CASE RunWonTerminationStep
      BY <2>2 DEF RunWonTerminationStep, Returns
    <2> QED BY <1>11, <2>1, <2>2
  <1>12. ASSUME NEW c \in Contacts, NEW new \in Stages, EventArrives(c, new) PROVE Rests
    BY <1>12 DEF EventArrives, Rests
  <1>13. ASSUME NEW c \in Contacts, CheckAges(c) PROVE Rests
    BY <1>13 DEF CheckAges, Rests
  <1>14. ASSUME NEW k \in Keys, BatchExpires(k) PROVE Ticks
    BY <1>14 DEF BatchExpires, Ticks
  <1>15. ASSUME NEW p \in Partners, SetPartnerStatus(p) PROVE Rests
    BY <1>15 DEF SetPartnerStatus, Rests
  <1>16. CASE UNCHANGED vars
    BY <1>16 DEF vars, Rests
  <1> QED
    BY <1>1, <1>2, <1>3, <1>4, <1>5, <1>6, <1>7, <1>8, <1>9, <1>10, <1>11, <1>12, <1>13,
       <1>14, <1>15, <1>16 DEF Next

-----------------------------------------------------------------------------
(* The event log under set_owner: a moved contact's log grows by one event, *)
(* the others stay.                                                         *)
LEMMA SetOwnerLog ==
    ASSUME TypeOK, NEW S, NEW new, NEW type, NEW key, SetOwner(S, new, type, key),
           NEW c \in Contacts
    PROVE  /\ c \notin S => log'[c] = log[c]
           /\ c \in S => /\ Len(log'[c]) = Len(log[c]) + 1
                         /\ \A i \in 1..Len(log[c]) : log'[c][i] = log[c][i]
                         /\ log'[c][Len(log[c]) + 1] =
                               [type |-> type, prev |-> owner[c], new |-> new, batch |-> key]
  <1>1. log[c] \in Seq(Event)
    BY DEF TypeOK
  <1>2. c \notin S => log'[c] = log[c]
    BY DEF SetOwner
  <1>3. c \in S => log'[c] = Append(log[c], [type |-> type, prev |-> owner[c],
                                            new |-> new, batch |-> key])
    BY DEF SetOwner
  <1> QED BY <1>1, <1>2, <1>3

LEMMA OwnerMatchesEventsStep ==
    ASSUME TypeOK, OwnerMatchesEvents, NEW S, NEW new, NEW type, NEW key,
           SetOwner(S, new, type, key)
    PROVE  OwnerMatchesEvents'
  <1> SUFFICES ASSUME NEW c \in Contacts
               PROVE  /\ owner'[c] = CurrentOwner(log'[c])
                      /\ \A i \in 1..Len(log'[c]) :
                            log'[c][i].prev = IF i = 1 THEN House ELSE log'[c][i - 1].new
    BY DEF OwnerMatchesEvents
  <1>1. log[c] \in Seq(Event) /\ Len(log[c]) \in Nat
    BY DEF TypeOK
  <1>2. CASE c \notin S
    <2>1. log'[c] = log[c] /\ owner'[c] = owner[c]
      BY <1>2, SetOwnerLog DEF SetOwner
    <2> QED BY <2>1 DEF OwnerMatchesEvents
  <1>3. CASE c \in S
    <2> DEFINE n == Len(log[c])
    <2>1. /\ Len(log'[c]) = n + 1
          /\ \A i \in 1..n : log'[c][i] = log[c][i]
          /\ log'[c][n + 1] = [type |-> type, prev |-> owner[c], new |-> new, batch |-> key]
      BY <1>3, SetOwnerLog
    <2>2. owner'[c] = new
      BY <1>3 DEF SetOwner
    <2>3. log'[c] # <<>>
      BY <1>1, <2>1
    <2>4. owner'[c] = CurrentOwner(log'[c])
      BY <2>1, <2>2, <2>3 DEF CurrentOwner
    <2>5. owner[c] = IF n = 0 THEN House ELSE log[c][n].new
      BY <1>1 DEF OwnerMatchesEvents, CurrentOwner
    <2>6. ASSUME NEW i \in 1..(n + 1)
          PROVE  log'[c][i].prev = IF i = 1 THEN House ELSE log'[c][i - 1].new
      <3>1. CASE i \in 1..n
        BY <1>1, <2>1, <3>1 DEF OwnerMatchesEvents
      <3>2. CASE i = n + 1
        BY <1>1, <2>1, <2>5, <3>2
      <3> QED BY <1>1, <3>1, <3>2
    <2> QED BY <2>1, <2>4, <2>6
  <1> QED BY <1>2, <1>3

(* The owner column always equals the owner the event stream derives, for   *)
(* every interleaving of every verb: the single-writer invariant.           *)
THEOREM OwnerIsDerived == Spec => []OwnerMatchesEvents
  <1>1. Init => OwnerMatchesEvents
    <2> SUFFICES ASSUME Init, NEW c \in Contacts
                 PROVE  /\ owner[c] = CurrentOwner(log[c])
                        /\ \A i \in 1..Len(log[c]) :
                              log[c][i].prev = IF i = 1 THEN House ELSE log[c][i - 1].new
      BY DEF OwnerMatchesEvents
    <2>1. owner[c] = House /\ log[c] = <<>>
      BY DEF Init
    <2>2. Len(log[c]) = 0
      BY <2>1
    <2> QED BY <2>1, <2>2 DEF CurrentOwner
  <1>2. TypeOK /\ OwnerMatchesEvents /\ [Next]_vars => OwnerMatchesEvents'
    <2> SUFFICES ASSUME TypeOK, OwnerMatchesEvents, [Next]_vars PROVE OwnerMatchesEvents'
      OBVIOUS
    <2>1. CASE Rests \/ Ticks
      <3>1. owner' = owner /\ log' = log
        BY <2>1 DEF Rests, Ticks, contactVars
      <3> QED BY <3>1 DEF OwnerMatchesEvents, CurrentOwner
    <2>2. CASE Returns
      BY <2>2, OwnerMatchesEventsStep DEF Returns
    <2>3. ASSUME NEW k \in Keys, NEW p \in Partners, NEW S \in SUBSET Contacts, Grants(k, p, S)
          PROVE  OwnerMatchesEvents'
      BY <2>3, OwnerMatchesEventsStep DEF Grants
    <2> QED BY <2>1, <2>2, <2>3, StepShape
  <1> QED BY <1>1, <1>2, TypeCorrect, PTL DEF Spec

-----------------------------------------------------------------------------
(* Event i of contact c is an assignment in batch k.                        *)
Assigns(c, i, k) ==
    i \in 1..Len(log[c]) /\ log[c][i].type = "assigned" /\ log[c][i].batch = k

(* The batch rows and the event log: a row's members are exactly the        *)
(* contacts whose events name it, once each, and no event names a batch     *)
(* that has no row.  ReceiptIsOriginal alone is not inductive: a release    *)
(* takes a contact out of Holding, and only its event is left to say that   *)
(* it was a member.                                                         *)
MembersLogged(k) ==
    /\ batch[k] # None =>
          \A c \in Contacts : c \in batch[k].members <=> \E i : Assigns(c, i, k)
    /\ batch[k] = None => \A c \in Contacts : ~ \E i : Assigns(c, i, k)
    /\ \A c \in Contacts : \A i, j : Assigns(c, i, k) /\ Assigns(c, j, k) => i = j

MembersAreLogged == \A k \in Keys : MembersLogged(k)

LEMMA BatchTicks ==
    ASSUME TypeOK, NEW k \in Keys, batch[k] # None,
           batch' = [batch EXCEPT ![k].expired = TRUE],
           NEW l \in Keys
    PROVE  /\ batch'[l] = None <=> batch[l] = None
           /\ batch'[l].partner = batch[l].partner
           /\ batch'[l].members = batch[l].members
  <1>1. batch[k] \in BatchRow
    BY DEF TypeOK
  <1>2. [batch[k] EXCEPT !.expired = TRUE] \in BatchRow
    BY <1>1 DEF BatchRow
  <1>3. [batch[k] EXCEPT !.expired = TRUE] # None
    BY <1>2, CustodyAssumption
  <1>4. /\ batch'[k] = [batch[k] EXCEPT !.expired = TRUE]
        /\ l # k => batch'[l] = batch[l]
    BY DEF TypeOK
  <1>5. /\ [batch[k] EXCEPT !.expired = TRUE].partner = batch[k].partner
        /\ [batch[k] EXCEPT !.expired = TRUE].members = batch[k].members
    BY <1>1 DEF BatchRow
  <1> QED BY <1>3, <1>4, <1>5

LEMMA PointerStep ==
    ASSUME TypeOK, PointerMatchesOwner, [Next]_vars
    PROVE  PointerMatchesOwner'
  <1>1. CASE Rests
    <2>1. owner' = owner /\ pointer' = pointer /\ batch' = batch
      BY <1>1 DEF Rests, contactVars
    <2> QED BY <2>1 DEF PointerMatchesOwner
  <1>2. CASE Ticks
    <2>1. PICK k \in Keys : batch[k] # None /\ batch' = [batch EXCEPT ![k].expired = TRUE]
      BY <1>2 DEF Ticks
    <2>3. \A l \in Keys : batch[l] # None =>
             /\ batch'[l] # None
             /\ batch'[l].partner = batch[l].partner /\ batch'[l].members = batch[l].members
      BY <2>1, BatchTicks
    <2>4. owner' = owner /\ pointer' = pointer
      BY <1>2 DEF Ticks, contactVars
    <2>5. ASSUME NEW c \in Contacts
          PROVE  /\ (pointer'[c] = None) <=> (owner'[c] = House)
                 /\ pointer'[c] # None =>
                       /\ batch'[pointer'[c]] # None
                       /\ batch'[pointer'[c]].partner = owner'[c]
                       /\ c \in batch'[pointer'[c]].members
      <3>1. pointer[c] # None => pointer[c] \in Keys
        BY DEF TypeOK
      <3> QED BY <2>3, <2>4, <3>1 DEF PointerMatchesOwner
    <2> QED BY <2>5 DEF PointerMatchesOwner
  <1>3. CASE Returns
    <2>1. PICK S \in SUBSET Contacts, type \in {"expired", "reclaimed"} :
             SetOwner(S, House, type, None)
      BY <1>3 DEF Returns
    <2> QED BY <1>3, <2>1 DEF Returns, SetOwner, PointerMatchesOwner
  <1>4. ASSUME NEW k \in Keys, NEW p \in Partners, NEW S \in SUBSET Contacts, Grants(k, p, S)
        PROVE  PointerMatchesOwner'
    <2>1. k # None /\ p # House
      BY CustodyAssumption
    <2> DEFINE row == [partner |-> p, members |-> S, expired |-> FALSE]
    <2>2. row \in BatchRow /\ row # None
      <3>1. row \in BatchRow
        BY DEF BatchRow
      <3> QED BY <3>1, CustodyAssumption, Zenon
    <2>3. batch'[k] = row /\ \A l \in Keys : l # k => batch'[l] = batch[l]
      BY <1>4 DEF Grants, TypeOK
    <2>4. \A c \in Contacts : pointer[c] # k
      <3>1. batch[k] = None
        BY <1>4 DEF Grants
      <3>2. ASSUME NEW c \in Contacts, pointer[c] = k PROVE FALSE
        BY <2>1, <3>1, <3>2 DEF PointerMatchesOwner
      <3> QED BY <3>2
    <2>5. ASSUME NEW c \in Contacts
          PROVE  /\ (pointer'[c] = None) <=> (owner'[c] = House)
                 /\ pointer'[c] # None =>
                       /\ batch'[pointer'[c]] # None
                       /\ batch'[pointer'[c]].partner = owner'[c]
                       /\ c \in batch'[pointer'[c]].members
      <3>1. CASE c \in S
        <4>1. pointer'[c] = k /\ owner'[c] = p
          BY <1>4, <3>1 DEF Grants, SetOwner
        <4> QED BY <2>1, <2>2, <2>3, <3>1, <4>1
      <3>2. CASE c \notin S
        <4>1. pointer'[c] = pointer[c] /\ owner'[c] = owner[c]
          BY <1>4, <3>2 DEF Grants, SetOwner
        <4> QED BY <2>3, <2>4, <4>1 DEF PointerMatchesOwner, TypeOK
      <3> QED BY <3>1, <3>2
    <2> QED BY <2>5 DEF PointerMatchesOwner
  <1> QED BY <1>1, <1>2, <1>3, <1>4, StepShape

LEMMA AssignsAfter ==
    ASSUME TypeOK, NEW S, NEW new, NEW type, NEW key, SetOwner(S, new, type, key),
           NEW c \in Contacts, NEW i, NEW k
    PROVE  Assigns(c, i, k)' <=>
             \/ Assigns(c, i, k)
             \/ c \in S /\ i = Len(log[c]) + 1 /\ type = "assigned" /\ key = k
  <1> DEFINE n == Len(log[c])
  <1>1. n \in Nat
    BY DEF TypeOK
  <1>2. CASE c \notin S
    <2>1. log'[c] = log[c]
      BY <1>2, SetOwnerLog
    <2> QED BY <1>2, <2>1 DEF Assigns
  <1>3. CASE c \in S
    <2>1. /\ Len(log'[c]) = n + 1
          /\ \A j \in 1..n : log'[c][j] = log[c][j]
          /\ log'[c][n + 1] = [type |-> type, prev |-> owner[c], new |-> new, batch |-> key]
      BY <1>3, SetOwnerLog
    <2>2. i \in 1..(n + 1) <=> (i \in 1..n \/ i = n + 1)
      BY <1>1
    <2>3. n + 1 \notin 1..n
      BY <1>1
    <2>4. CASE i \in 1..n
      BY <1>1, <2>1, <2>2, <2>3, <2>4 DEF Assigns
    <2>5. CASE i = n + 1
      BY <1>1, <1>3, <2>1, <2>2, <2>3, <2>5 DEF Assigns
    <2>6. CASE i \notin 1..(n + 1)
      BY <1>1, <2>1, <2>2, <2>6 DEF Assigns
    <2> QED BY <2>2, <2>4, <2>5, <2>6
  <1> QED BY <1>2, <1>3

LEMMA MembersAreLoggedStep ==
    ASSUME TypeOK, MembersAreLogged, [Next]_vars
    PROVE  MembersAreLogged'
  <1> SUFFICES ASSUME NEW l \in Keys PROVE MembersLogged(l)'
    BY DEF MembersAreLogged
  <1>1. MembersLogged(l)
    BY DEF MembersAreLogged
  <1>2. CASE Rests
    <2>1. batch' = batch /\ log' = log
      BY <1>2 DEF Rests, contactVars
    <2>2. \A c, i : Assigns(c, i, l)' <=> Assigns(c, i, l)
      BY <2>1 DEF Assigns
    <2> QED BY <1>1, <2>1, <2>2 DEF MembersLogged
  <1>3. CASE Ticks
    <2>1. PICK k \in Keys : batch[k] # None /\ batch' = [batch EXCEPT ![k].expired = TRUE]
      BY <1>3 DEF Ticks
    <2>2. (batch'[l] = None <=> batch[l] = None) /\ batch'[l].members = batch[l].members
      BY <2>1, BatchTicks
    <2>3. log' = log
      BY <1>3 DEF Ticks, contactVars
    <2>4. \A c, i : Assigns(c, i, l)' <=> Assigns(c, i, l)
      BY <2>3 DEF Assigns
    <2> QED BY <1>1, <2>2, <2>4 DEF MembersLogged
  <1>4. CASE Returns
    <2>1. PICK S \in SUBSET Contacts, type \in {"expired", "reclaimed"} :
             SetOwner(S, House, type, None)
      BY <1>4 DEF Returns
    <2>2. ASSUME NEW c \in Contacts, NEW i PROVE Assigns(c, i, l)' <=> Assigns(c, i, l)
      BY <2>1, AssignsAfter
    <2>3. batch' = batch
      BY <1>4 DEF Returns
    <2> QED BY <1>1, <2>2, <2>3 DEF MembersLogged
  <1>5. ASSUME NEW k \in Keys, NEW p \in Partners, NEW S \in SUBSET Contacts, Grants(k, p, S)
        PROVE  MembersLogged(l)'
    <2>1. /\ batch[k] = None
          /\ batch' = [batch EXCEPT ![k] = [partner |-> p, members |-> S, expired |-> FALSE]]
          /\ SetOwner(S, p, "assigned", k)
      BY <1>5 DEF Grants
    <2>2. ASSUME NEW c \in Contacts, NEW i
          PROVE  Assigns(c, i, l)' <=>
                    Assigns(c, i, l) \/ (c \in S /\ i = Len(log[c]) + 1 /\ k = l)
      BY <2>1, AssignsAfter
    <2>3. CASE l # k
      <3>1. batch'[l] = batch[l]
        BY <2>1, <2>3 DEF TypeOK
      <3> QED BY <1>1, <2>2, <2>3, <3>1 DEF MembersLogged
    <2>4. CASE l = k
      <3>1. batch'[l] = [partner |-> p, members |-> S, expired |-> FALSE]
        BY <2>1, <2>4 DEF TypeOK
      <3>2. batch'[l] # None
        <4>1. batch'[l] \in BatchRow
          BY <3>1 DEF BatchRow
        <4> QED BY <4>1, CustodyAssumption, Zenon
      <3>3. \A c \in Contacts : ~ \E i : Assigns(c, i, l)
        BY <1>1, <2>1, <2>4 DEF MembersLogged
      <3>4. ASSUME NEW c \in Contacts, NEW i
            PROVE  Assigns(c, i, l)' <=> (c \in S /\ i = Len(log[c]) + 1)
        BY <2>2, <2>4, <3>3
      <3>5. batch'[l].members = S
        BY <3>1
      <3>6. \A c \in Contacts : c \in S <=> \E i : Assigns(c, i, l)'
        BY <3>4
      <3>7. \A c \in Contacts : \A i, j : Assigns(c, i, l)' /\ Assigns(c, j, l)' => i = j
        BY <3>4
      <3> QED BY <3>2, <3>5, <3>6, <3>7 DEF MembersLogged
    <2> QED BY <2>3, <2>4
  <1> QED BY <1>2, <1>3, <1>4, <1>5, StepShape

(* The conjunction the next theorems are proved from.                       *)
CustodyInv == TypeOK /\ PointerMatchesOwner /\ MembersAreLogged

LEMMA CustodyInvariant == Spec => []CustodyInv
  <1>1. Init => PointerMatchesOwner
    <2> SUFFICES ASSUME Init PROVE PointerMatchesOwner
      OBVIOUS
    <2>1. \A c \in Contacts : pointer[c] = None
      BY DEF Init
    <2>2. \A c \in Contacts : owner[c] = House
      BY DEF Init
    <2> QED BY <2>1, <2>2 DEF PointerMatchesOwner
  <1>2. Init => MembersAreLogged
    <2> SUFFICES ASSUME Init, NEW k \in Keys PROVE MembersLogged(k)
      BY DEF MembersAreLogged
    <2>1. \A c \in Contacts : log[c] = <<>>
      BY DEF Init
    <2>2. \A c \in Contacts : \A i : ~Assigns(c, i, k)
      BY <2>1 DEF Assigns
    <2>3. batch[k] = None
      BY DEF Init
    <2> QED BY <2>2, <2>3 DEF MembersLogged
  <1>3. TypeOK /\ PointerMatchesOwner /\ [Next]_vars => PointerMatchesOwner'
    BY PointerStep
  <1>4. TypeOK /\ MembersAreLogged /\ [Next]_vars => MembersAreLogged'
    BY MembersAreLoggedStep
  <1> QED BY <1>1, <1>2, <1>3, <1>4, InitType, NextType, PTL DEF Spec, CustodyInv

(* A contact has a batch pointer exactly while a partner holds it, and the  *)
(* pointer names a batch of that partner that took that contact.            *)
THEOREM PointerIsOwned == Spec => []PointerMatchesOwner
  BY CustodyInvariant, PTL DEF CustodyInv

(* A same-key retry always reports the batch's original membership, and a   *)
(* key moves a contact at most once.                                        *)
THEOREM RetryReportsOriginal == Spec => []ReceiptIsOriginal
  <1>1. CustodyInv => ReceiptIsOriginal
    <2> SUFFICES ASSUME CustodyInv, NEW k \in Keys
                 PROVE  /\ batch[k] # None =>
                              RetryReceipt(k).assigned \cup RetryReceipt(k).released
                                 = batch[k].members
                        /\ batch[k] = None => AssignedIn(k) = {}
                        /\ \A c \in Contacts : \A i, j \in 1..Len(log[c]) :
                              /\ log[c][i].type = "assigned" /\ log[c][i].batch = k
                              /\ log[c][j].type = "assigned" /\ log[c][j].batch = k
                              => i = j
      BY DEF ReceiptIsOriginal
    <2>1. MembersLogged(k)
      BY DEF CustodyInv, MembersAreLogged
    <2>2. \A c \in Contacts : c \in AssignedIn(k) <=> \E i : Assigns(c, i, k)
      BY DEF AssignedIn, Assigns
    <2>3. AssignedIn(k) \subseteq Contacts
      BY DEF AssignedIn
    <2>4. ASSUME batch[k] # None
          PROVE  RetryReceipt(k).assigned \cup RetryReceipt(k).released = batch[k].members
      <3>1. batch[k].members \subseteq Contacts
        BY <2>4 DEF CustodyInv, TypeOK, BatchRow
      <3>2. AssignedIn(k) = batch[k].members
        BY <2>1, <2>2, <2>3, <2>4, <3>1 DEF MembersLogged
      <3>3. Holding(k) \subseteq batch[k].members
        BY CustodyAssumption DEF CustodyInv, PointerMatchesOwner, Holding
      <3> QED BY <3>2, <3>3 DEF RetryReceipt
    <2>5. batch[k] = None => AssignedIn(k) = {}
      BY <2>1, <2>2, <2>3 DEF MembersLogged
    <2>6. \A c \in Contacts : \A i, j \in 1..Len(log[c]) :
             /\ log[c][i].type = "assigned" /\ log[c][i].batch = k
             /\ log[c][j].type = "assigned" /\ log[c][j].batch = k
             => i = j
      BY <2>1 DEF MembersLogged, Assigns
    <2> QED BY <2>4, <2>5, <2>6
  <1> QED BY <1>1, CustodyInvariant, PTL

-----------------------------------------------------------------------------
(* Custody implements LeadLedger: whatever the interleaving, a contact goes *)
(* from the house to one partner under a fresh key, and comes back.         *)
THEOREM CustodyImplementsLedger == Spec => ImplementsLedger
  <1>1. Init => Ledger!LedgerInit
    BY DEF Init, Ledger!LedgerInit, GrantedBy
  <1>2. TypeOK /\ PointerMatchesOwner /\ [Next]_vars => [Ledger!LedgerNext]_(Ledger!ledgerVars)
    <2> SUFFICES ASSUME TypeOK, PointerMatchesOwner, [Next]_vars
                 PROVE  [Ledger!LedgerNext]_(Ledger!ledgerVars)
      OBVIOUS
    <2> DEFINE granted == [k \in Keys |-> GrantedBy(batch[k])]
    <2>1. CASE Rests
      <3>1. owner' = owner /\ batch' = batch
        BY <2>1 DEF Rests, contactVars
      <3> QED BY <3>1 DEF Ledger!ledgerVars, GrantedBy
    <2>2. CASE Ticks
      <3>1. PICK k \in Keys : batch[k] # None /\ batch' = [batch EXCEPT ![k].expired = TRUE]
        BY <2>2 DEF Ticks
      <3>2. ASSUME NEW l \in Keys PROVE GrantedBy(batch[l])' = GrantedBy(batch[l])
        BY <3>1, BatchTicks DEF GrantedBy
      <3>3. granted' = granted
        BY <3>2
      <3>4. owner' = owner
        BY <2>2 DEF Ticks, contactVars
      <3> QED BY <3>3, <3>4 DEF Ledger!ledgerVars
    <2>3. CASE Returns
      <3>1. PICK S \in SUBSET Contacts, type \in {"expired", "reclaimed"} :
               SetOwner(S, House, type, None)
        BY <2>3 DEF Returns
      <3>2. batch' = batch
        BY <2>3 DEF Returns
      <3>3. granted' = granted
        BY <3>2 DEF GrantedBy
      <3>4. Ledger!Return(S)
        BY <3>1, <3>3 DEF SetOwner, Ledger!Return
      <3> QED BY <3>4 DEF Ledger!LedgerNext
    <2>4. ASSUME NEW k \in Keys, NEW p \in Partners, NEW S \in SUBSET Contacts, Grants(k, p, S)
          PROVE  Ledger!LedgerNext
      <3> DEFINE row == [partner |-> p, members |-> S, expired |-> FALSE]
      <3>1. batch[k] = None /\ batch' = [batch EXCEPT ![k] = row]
        BY <2>4 DEF Grants
      <3>2. row # None
        <4>1. row \in BatchRow
          BY DEF BatchRow
        <4> QED BY <4>1, CustodyAssumption, Zenon
      <3>3. granted[k] = None
        BY <3>1 DEF GrantedBy
      <3>4. \A c \in S : owner[c] = House
        BY <2>4 DEF Grants, Assignable
      <3>5. batch'[k] = row /\ \A l \in Keys : l # k => batch'[l] = batch[l]
        BY <3>1 DEF TypeOK
      <3>6. GrantedBy(row) = [partner |-> p, members |-> S]
        BY <3>2 DEF GrantedBy
      <3>7. granted' = [granted EXCEPT ![k] = [partner |-> p, members |-> S]]
        <4>1. \A l \in Keys : GrantedBy(batch[l])' =
                 IF l = k THEN [partner |-> p, members |-> S] ELSE granted[l]
          BY <3>5, <3>6 DEF GrantedBy
        <4> QED BY <4>1
      <3>8. owner' = [c \in Contacts |-> IF c \in S THEN p ELSE owner[c]]
        BY <2>4 DEF Grants, SetOwner
      <3>9. Ledger!Grant(k, p, S)
        BY <3>3, <3>4, <3>7, <3>8 DEF Ledger!Grant
      <3> QED BY <3>9 DEF Ledger!LedgerNext
    <2> QED BY <2>1, <2>2, <2>3, <2>4, StepShape
  <1> QED
    BY <1>1, <1>2, CustodyInvariant, PTL
    DEF Spec, CustodyInv, ImplementsLedger, Ledger!LedgerSpec

(* No step hands a partner a contact that is do_not_call.                   *)
THEOREM NoHandover == Spec => NoHandoverAfterDoNotCall
  <1>1. TypeOK /\ [Next]_vars =>
           [\A c \in Contacts : (doNotCall[c] /\ owner[c] = House) => owner'[c] = House]_vars
    <2> SUFFICES ASSUME TypeOK, [Next]_vars,
                        NEW c \in Contacts, doNotCall[c], owner[c] = House
                 PROVE  owner'[c] = House
      OBVIOUS
    <2>1. CASE Rests \/ Ticks
      BY <2>1 DEF Rests, Ticks, contactVars
    <2>2. CASE Returns
      BY <2>2 DEF Returns, SetOwner
    <2>3. ASSUME NEW k \in Keys, NEW p \in Partners, NEW S \in SUBSET Contacts, Grants(k, p, S)
          PROVE  owner'[c] = House
      <3>1. c \notin S
        BY <2>3 DEF Grants, Assignable
      <3> QED BY <2>3, <3>1 DEF Grants, SetOwner
    <2> QED BY <2>1, <2>2, <2>3, StepShape
  <1> QED BY <1>1, TypeCorrect, PTL DEF Spec, NoHandoverAfterDoNotCall

(* Only the nightly recompute writes the cached stage.                      *)
LEMMA StageStep ==
    ASSUME [Next]_vars
    PROVE  stage' = stage \/ nightly.at = "write"
  <1> USE DEF stageVars
  <1>1. CASE \E a \in Callers, k \in Keys, p \in Partners : AssignCheck(a, k, p)
    BY <1>1 DEF AssignCheck
  <1>2. CASE \E a \in Callers : AssignCommit(a) \/ AssignAbort(a)
    BY <1>2 DEF AssignCommit, AssignAbort
  <1>3. CASE \E s \in Suppressors : \/ \E c \in Contacts, ch \in Channels : SuppressRead(s, c, ch)
                                  \/ SuppressCommit(s)
    BY <1>3 DEF SuppressRead, SuppressCommit
  <1>4. CASE \E p \in Partners : Reclaim(p) \/ SetPartnerStatus(p)
    BY <1>4 DEF Reclaim, SetPartnerStatus
  <1>5. CASE \E r \in Scrubbers : \/ ScrubDue(r) \/ ScrubClear(r) \/ ScrubCrash(r)
                                \/ \E row \in scrub[r].todo : ScrubApply(r, row)
    BY <1>5 DEF ScrubDue, ScrubApply, ScrubClear, ScrubCrash
  <1>6. CASE RecomputeWrite
    BY <1>6 DEF RecomputeWrite
  <1>7. CASE RecomputeRead \/ RunExpiryStep \/ RunWonTerminationStep \/ NightlyFails
    BY <1>7 DEF RecomputeRead, RunExpiryStep, RunWonTerminationStep, NightlyFails
  <1>8. CASE \E c \in Contacts : (\E new \in Stages : EventArrives(c, new)) \/ CheckAges(c)
    BY <1>8 DEF EventArrives, CheckAges
  <1>9. CASE \E k \in Keys : BatchExpires(k)
    BY <1>9 DEF BatchExpires
  <1>10. CASE UNCHANGED vars
    BY <1>10 DEF vars
  <1> QED BY <1>1, <1>2, <1>3, <1>4, <1>5, <1>6, <1>7, <1>8, <1>9, <1>10 DEF Next

(* Only recompute_state can leave a won contact with a partner; no verb     *)
(* that runs beside the night hands one over.                               *)
THEOREM WonNeverHandedOver == Spec => WonHeldOnlyByRecompute
  <1>1. TypeOK /\ [Next]_vars =>
           [\A c \in Contacts :
               (/\ stage'[c] = "won" /\ pointer'[c] # None
                /\ ~(stage[c] = "won" /\ pointer[c] # None)) => nightly.at = "write"]_vars
    <2> SUFFICES ASSUME TypeOK, [Next]_vars, NEW c \in Contacts,
                        stage'[c] = "won", pointer'[c] # None,
                        ~(stage[c] = "won" /\ pointer[c] # None),
                        nightly.at # "write"
                 PROVE  FALSE
      OBVIOUS
    <2>1. stage[c] = "won" /\ pointer[c] = None
      BY StageStep
    <2>2. CASE Rests \/ Ticks
      BY <2>1, <2>2 DEF Rests, Ticks, contactVars
    <2>3. CASE Returns
      BY <2>1, <2>3 DEF Returns, SetOwner
    <2>4. ASSUME NEW k \in Keys, NEW p \in Partners, NEW S \in SUBSET Contacts, Grants(k, p, S)
          PROVE  FALSE
      <3>1. c \notin S
        BY <2>1, <2>4 DEF Grants, Assignable
      <3> QED BY <2>1, <2>4, <3>1 DEF Grants, SetOwner
    <2> QED BY <2>2, <2>3, <2>4, StepShape
  <1> QED BY <1>1, TypeCorrect, PTL DEF Spec, WonHeldOnlyByRecompute
=============================================================================
