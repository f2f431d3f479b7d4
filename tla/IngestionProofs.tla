--------------------------- MODULE IngestionProofs ---------------------------
(***************************************************************************)
(* Theorems about Ingestion, for any facts, inlets, contacts, pieces and   *)
(* web requests.                                                           *)
(***************************************************************************)
EXTENDS Ingestion, DerivationProofs

-----------------------------------------------------------------------------
(* Types.                                                                   *)

LEMMA InitTyped == Init => TypeOK
BY IngestionAssumption DEF Init, TypeOK, Closed, Asleep, ContactStages

LEMMA AppendTyped ==
    ASSUME TypeOK, NEW f \in Facts, NEW contact \in Contacts \cup {None},
           NEW of \in Pieces \cup {None}, AppendEvent(f, contact, of)
    PROVE  /\ payload' \in [Facts -> Payload \cup {None}]
           /\ owner' \in [Facts -> Contacts \cup {None}]
           /\ piece' \in [Facts -> Pieces \cup {None}]
<1>1. CASE payload[f] # None
  BY <1>1 DEF TypeOK, AppendEvent
<1>2. CASE payload[f] = None
  <2>1. [code |-> Code[f], phone |-> Phone[f]] \in Payload
    BY IngestionAssumption DEF Payload
  <2> DEFINE k == [code |-> Code[f], phone |-> Phone[f]]
  <2>2. /\ payload' = [payload EXCEPT ![f] = k]
        /\ owner' = [owner EXCEPT ![f] = contact] /\ piece' = [piece EXCEPT ![f] = of]
    BY <1>2 DEF AppendEvent
  <2> HIDE DEF k
  <2>3. k \in Payload
    BY <2>1 DEF k
  <2> QED BY <2>2, <2>3 DEF TypeOK
<1> QED BY <1>1, <1>2

PassType == [open : BOOLEAN, todo : SUBSET Facts, read : [Facts -> Payload \cup {None}],
             found : [Facts -> Match \cup {None}]]
PassesTyped ==
    /\ pass \in [Passes -> PassType]
    /\ \A r \in Passes : \A f \in pass[r].todo : pass[r].read[f] # None

LEMMA PassesAreTyped == TypeOK => PassesTyped
BY DEF TypeOK, PassesTyped, PassType

LEMMA ReadTyped ==
    ASSUME TypeOK, NEW r \in Passes, ResolveRead(r)
    PROVE  PassesTyped'
<1> DEFINE new == [Closed EXCEPT !.open = TRUE, !.todo = Orphans,
                      !.read = [f \in Facts |-> IF f \in Orphans THEN payload[f] ELSE None]]
<1>1. new \in PassType /\ \A f \in new.todo : new.read[f] # None
  BY DEF TypeOK, Closed, Orphans, PassType
<1>2. pass' = [pass EXCEPT ![r] = new]
  BY DEF ResolveRead
<1> HIDE DEF new
<1> QED BY <1>1, <1>2, PassesAreTyped DEF PassesTyped

LEMMA ClosedTyped ==
    ASSUME TypeOK, NEW r \in Passes, pass' = [pass EXCEPT ![r] = Closed]
    PROVE  PassesTyped'
<1>1. Closed \in PassType /\ Closed.todo = {}
  BY DEF Closed, PassType
<1> QED BY <1>1, PassesAreTyped DEF PassesTyped

LEMMA MatchesTyped ==
    ASSUME TypeOK, NEW r \in Passes, NEW f \in pass[r].todo
    PROVE  Matches(r, f) \subseteq Match
<1>1. f \in Facts /\ pass[r].read[f] \in Payload /\ r \in Passes
  BY DEF TypeOK
<1>2. \A g \in Facts : pass[r].found[g] \in Match \cup {None}
  BY DEF TypeOK
<1>3. \A g \in Facts : OwnerSeenBy(r, g) \in Contacts \cup {None}
  BY <1>2 DEF TypeOK, OwnerSeenBy, Match
<1>4. \A g \in EarliestThereon(r, f) : OwnerSeenBy(r, g) \in Contacts
  BY <1>3 DEF EarliestThereon, Thereon
<1> DEFINE key == pass[r].read[f]
<1>5. key.code \in Pieces \cup {None} /\ key.phone \in Contacts \cup {None}
  BY <1>1 DEF Payload
<1> HIDE DEF key
<1>6. CASE KnownByCode(r, f)
  <2>1. Matches(r, f) = {[contact |-> Addressee[key.code], piece |-> key.code]}
    BY <1>6 DEF Matches, key
  <2>2. key.code \in Pieces
    BY <1>5, <1>6 DEF KnownByCode, key
  <2> QED BY <2>1, <2>2, IngestionAssumption DEF Match
<1>7. CASE ~KnownByCode(r, f) /\ Thereon(r, f) # {}
  <2>1. Matches(r, f) =
           {[contact |-> OwnerSeenBy(r, g), piece |-> None] : g \in EarliestThereon(r, f)}
    BY <1>7 DEF Matches
  <2> QED BY <1>4, <2>1 DEF Match
<1>8. CASE ~KnownByCode(r, f) /\ Thereon(r, f) = {}
  BY <1>5, <1>8 DEF Matches, Match, key
<1> QED BY <1>6, <1>7, <1>8

LEMMA ResolveOneTyped ==
    ASSUME TypeOK, NEW r \in Passes, ResolveOne(r)
    PROVE  PassesTyped'
<1>1. PICK f \in pass[r].todo :
         \/ pass' = [pass EXCEPT ![r].todo = @ \ {f}, ![r].read[f] = None]
         \/ \E m \in Matches(r, f) :
              pass' = [pass EXCEPT ![r].todo = @ \ {f}, ![r].read[f] = None, ![r].found[f] = m]
  BY DEF ResolveOne
<1>2. /\ pass \in [Passes -> PassType] /\ f \in Facts
      /\ \A g \in pass[r].todo : pass[r].read[g] # None
  BY PassesAreTyped DEF PassesTyped, PassType
<1>3. CASE pass' = [pass EXCEPT ![r].todo = @ \ {f}, ![r].read[f] = None]
  <2> DEFINE new == [pass[r] EXCEPT !.todo = @ \ {f}, !.read[f] = None]
  <2>1. new \in PassType /\ \A g \in new.todo : new.read[g] # None
    BY <1>2 DEF PassType
  <2>2. pass' = [pass EXCEPT ![r] = new]
    BY <1>2, <1>3
  <2> HIDE DEF new
  <2> QED BY <2>1, <2>2, PassesAreTyped DEF PassesTyped
<1>4. ASSUME NEW m \in Matches(r, f),
             pass' = [pass EXCEPT ![r].todo = @ \ {f}, ![r].read[f] = None, ![r].found[f] = m]
      PROVE  PassesTyped'
  <2> DEFINE new == [pass[r] EXCEPT !.todo = @ \ {f}, !.read[f] = None, !.found[f] = m]
  <2>1. m \in Match
    BY MatchesTyped
  <2>2. new \in PassType /\ \A g \in new.todo : new.read[g] # None
    BY <1>2, <2>1 DEF PassType
  <2>3. pass' = [pass EXCEPT ![r] = new]
    BY <1>2, <1>4
  <2> HIDE DEF new
  <2> QED BY <2>2, <2>3, PassesAreTyped DEF PassesTyped
<1> QED BY <1>1, <1>3, <1>4

LEMMA CommitsTyped ==
    ASSUME TypeOK, NEW r \in Passes, ResolveCommits(r)
    PROVE  /\ owner' \in [Facts -> Contacts \cup {None}]
           /\ piece' \in [Facts -> Pieces \cup {None}]
           /\ status' \in [Pieces -> {None, "submitted", "delivered", "returned"}]
           /\ payload' = payload /\ PassesTyped'
<1>1. \A f \in Facts : pass[r].found[f] \in Match \cup {None}
  BY DEF TypeOK
<1>2. owner' \in [Facts -> Contacts \cup {None}] /\ piece' \in [Facts -> Pieces \cup {None}]
  BY <1>1 DEF TypeOK, ResolveCommits, Match
<1>3. \A p \in Pieces :
         StatusAfter(pass[r].found, p) \in {None, "submitted", "delivered", "returned"}
  BY DEF TypeOK, StatusAfter
<1>4. status' \in [Pieces -> {None, "submitted", "delivered", "returned"}]
  BY <1>3 DEF ResolveCommits
<1> QED BY <1>2, <1>4, ClosedTyped DEF ResolveCommits

(* A night's record, typed apart from the rest.                             *)
NightType == [step : {"asleep", "sync", "resolve", "closes", "again", "recompute", "write"},
              todo : SUBSET Facts, insert : [Facts -> Payload \cup {None}],
              backfill : SUBSET Facts, goal : SUBSET Facts, fails : 0..MaxFails]

LEMMA AsleepTyped == \A n \in 0..MaxFails : Asleep(n) \in NightType
BY DEF Asleep, NightType

LEMMA CorrelateOneTyped ==
    ASSUME TypeOK, CorrelateOne
    PROVE  night' \in NightType
<1>1. night \in NightType
  BY DEF TypeOK, NightType
<1>2. PICK f \in night.todo :
         \/ night' = [night EXCEPT !.todo = @ \ {f}, !.backfill = @ \cup {f}]
         \/ night' = [night EXCEPT !.todo = @ \ {f}]
         \/ night' = [night EXCEPT !.todo = @ \ {f}, !.insert[f] = CloseKeys(f)]
  BY DEF CorrelateOne
<1>3. f \in Facts
  BY <1>1 DEF NightType
<1>4. CloseKeys(f) \in Payload
  BY <1>3, IngestionAssumption DEF Payload, CloseKeys
<1>5. ASSUME NEW k \in Payload, night' = [night EXCEPT !.todo = @ \ {f}, !.insert[f] = k]
      PROVE  night' \in NightType
  <2>1. [night.insert EXCEPT ![f] = k] \in [Facts -> Payload \cup {None}]
    BY <1>1, <1>3 DEF NightType
  <2>2. night' = [night EXCEPT !.todo = @ \ {f}, !.insert = [night.insert EXCEPT ![f] = k]]
    BY <1>5
  <2> QED BY <1>1, <2>1, <2>2 DEF NightType
<1>6. CASE night' = [night EXCEPT !.todo = @ \ {f}, !.backfill = @ \cup {f}]
  BY <1>1, <1>3, <1>6 DEF NightType
<1>7. CASE night' = [night EXCEPT !.todo = @ \ {f}]
  BY <1>1, <1>7 DEF NightType
<1> QED BY <1>2, <1>4, <1>5, <1>6, <1>7

LEMMA CorrelateCommitsTyped ==
    ASSUME TypeOK, CorrelateCommits, \A f \in night.backfill : Phone[f] # None /\ payload[f] # None
    PROVE  /\ payload' \in [Facts -> Payload \cup {None}]
           /\ owner' \in [Facts -> Contacts \cup {None}]
           /\ night' \in NightType
<1>1. /\ night.insert \in [Facts -> Payload \cup {None}] /\ night \in NightType
      /\ payload \in [Facts -> Payload \cup {None}]
  BY DEF TypeOK, NightType
<1>2. ASSUME NEW f \in Facts, f \in night.backfill
      PROVE  [payload[f] EXCEPT !.phone = Phone[f]] \in Payload
  BY <1>1, <1>2, IngestionAssumption DEF Payload
<1>3. payload' \in [Facts -> Payload \cup {None}]
  BY <1>1, <1>2 DEF CorrelateCommits
<1>4. owner' \in [Facts -> Contacts \cup {None}]
  BY <1>1 DEF CorrelateCommits, Payload, TypeOK
<1>5. night' \in NightType
  BY <1>1 DEF CorrelateCommits, NightType
<1> QED BY <1>3, <1>4, <1>5

-----------------------------------------------------------------------------
(* The strengthening: what is in flight carries the keys of its fact too.   *)
Carries(f, k) == k # None => k.code \in {None, Code[f]} /\ k.phone \in {None, Phone[f]}

EventsCarry ==
    \A f \in Facts :
        /\ payload[f] = None => owner[f] = None /\ piece[f] = None
        /\ Carries(f, payload[f])
        /\ owner[f] \in {None, About[f]} /\ piece[f] \in {None, Code[f]}
        /\ piece[f] # None => status[piece[f]] # None

PassCarries(p, f) ==
    /\ Carries(f, p.read[f])
    /\ f \in p.todo => payload[f] # None
    /\ p.found[f] # None =>
          /\ payload[f] # None /\ p.found[f].contact = About[f]
          /\ p.found[f].piece \in {None, Code[f]}
          /\ p.found[f].piece # None => status[p.found[f].piece] # None

PassesCarry == \A r \in Passes, f \in Facts : PassCarries(pass[r], f)

NightCarries ==
    /\ night.step = "sync" => \A f \in night.todo : Inlet[f] = "feed"
    /\ night.step = "closes" => \A f \in night.todo : Inlet[f] = "close"
    /\ \A f \in Facts : night.insert[f] # None =>
          Inlet[f] = "close" /\ payload[f] = None /\ Carries(f, night.insert[f])
    /\ \A f \in night.backfill : Inlet[f] = "close" /\ payload[f] # None

IInv == TypeOK /\ EventsCarry /\ PassesCarry /\ NightCarries

(* Rows are never deleted: what a step may do to the tables.                *)
TablesGrow ==
    /\ \A f \in Facts : payload[f] # None => payload'[f] # None
    /\ \A p \in Pieces : status[p] # None => status'[p] # None

LEMMA PassesKeep ==
    ASSUME TypeOK, PassesCarry, TablesGrow, pass' = pass
    PROVE  PassesCarry'
<1>1. \A r \in Passes, f \in Facts :
         pass[r].found[f] # None => pass[r].found[f].piece \in Pieces \cup {None}
  BY DEF TypeOK, Match
<1> QED BY <1>1 DEF PassesCarry, PassCarries, TablesGrow

LEMMA NightKeeps ==
    ASSUME NightCarries, night' = night,
           \A f \in Facts : Inlet[f] = "close" => payload'[f] = payload[f],
           TypeOK
    PROVE  NightCarries'
<1>1. night.backfill \subseteq Facts
  BY DEF TypeOK
<1> QED BY <1>1 DEF NightCarries

LEMMA AppendCarries ==
    ASSUME TypeOK, EventsCarry, NEW f \in Facts, NEW contact \in {None, About[f]},
           NEW of \in {None, Code[f]}, AppendEvent(f, contact, of),
           \A p \in Pieces : status[p] # None => status'[p] # None,
           of # None => status'[of] # None
    PROVE  EventsCarry' /\ TablesGrow
<1>1. \A g \in Facts : piece[g] \in Pieces \cup {None}
  BY DEF TypeOK
<1>2. CASE payload[f] # None
  BY <1>1, <1>2 DEF AppendEvent, EventsCarry, TablesGrow
<1>3. CASE payload[f] = None
  <2> DEFINE k == [code |-> Code[f], phone |-> Phone[f]]
  <2>1. k \in Payload /\ k # None /\ Carries(f, k)
    BY IngestionAssumption DEF Payload, Carries
  <2>2. /\ payload' = [payload EXCEPT ![f] = k]
        /\ owner' = [owner EXCEPT ![f] = contact] /\ piece' = [piece EXCEPT ![f] = of]
    BY <1>3 DEF AppendEvent
  <2> HIDE DEF k
  <2>3. TablesGrow
    BY <2>1, <2>2 DEF TypeOK, TablesGrow
  <2>4. ASSUME NEW g \in Facts
        PROVE  /\ payload'[g] = None => owner'[g] = None /\ piece'[g] = None
               /\ Carries(g, payload'[g])
               /\ owner'[g] \in {None, About[g]} /\ piece'[g] \in {None, Code[g]}
               /\ piece'[g] # None => status'[piece'[g]] # None
    <3>1. CASE g = f
      BY <2>1, <2>2, <3>1 DEF TypeOK
    <3>2. CASE g # f
      BY <1>1, <2>2, <3>2 DEF TypeOK, EventsCarry
    <3> QED BY <3>1, <3>2
  <2> QED BY <2>3, <2>4 DEF EventsCarry, Carries
<1> QED BY <1>2, <1>3

(* A pass reads payloads that carry their keys.                             *)
LEMMA ReadCarries ==
    ASSUME TypeOK, EventsCarry, PassesCarry, NEW r \in Passes, ResolveRead(r),
           UNCHANGED events
    PROVE  PassesCarry'
<1> DEFINE new == [Closed EXCEPT !.open = TRUE, !.todo = Orphans,
                      !.read = [f \in Facts |-> IF f \in Orphans THEN payload[f] ELSE None]]
<1>1. \A f \in Facts : /\ Carries(f, new.read[f]) /\ new.found[f] = None
                       /\ f \in new.todo => payload[f] # None
  BY DEF Closed, Orphans, EventsCarry, Carries
<1>2. pass' = [pass EXCEPT ![r] = new]
  BY DEF ResolveRead
<1> HIDE DEF new
<1>3. ASSUME NEW q \in Passes
      PROVE  pass'[q] = IF q = r THEN new ELSE pass[q]
  BY <1>2 DEF TypeOK
<1> QED BY <1>1, <1>3 DEF PassesCarry, PassCarries, events, Carries

LEMMA ClosingCarries ==
    ASSUME TypeOK, PassesCarry, NEW r \in Passes, pass' = [pass EXCEPT ![r] = Closed], TablesGrow
    PROVE  PassesCarry'
<1>1. \A f \in Facts : Closed.read[f] = None /\ Closed.found[f] = None /\ f \notin Closed.todo
  BY DEF Closed
<1>2. \A q \in Passes : pass'[q] = IF q = r THEN Closed ELSE pass[q]
  BY DEF TypeOK
<1>3. \A q \in Passes, f \in Facts :
         pass[q].found[f] # None => pass[q].found[f].piece \in Pieces \cup {None}
  BY DEF TypeOK, Match
<1> QED BY <1>1, <1>2, <1>3 DEF PassesCarry, PassCarries, TablesGrow, Carries

(* Whatever key matched, the contact is the one the event is about.         *)
LEMMA MatchesTell ==
    ASSUME IInv, NEW r \in Passes, NEW f \in pass[r].todo, NEW m \in Matches(r, f)
    PROVE  /\ m.contact = About[f] /\ m.piece \in {None, Code[f]}
           /\ m.piece # None => status[m.piece] # None
<1> DEFINE key == pass[r].read[f]
<1>1. f \in Facts /\ key \in Payload /\ key # None
  BY IngestionAssumption DEF IInv, TypeOK
<1>2. key.code \in {None, Code[f]} /\ key.phone \in {None, Phone[f]}
  BY <1>1 DEF IInv, PassesCarry, PassCarries, Carries
<1>3. \A g \in Facts : OwnerSeenBy(r, g) \in {None, About[g]}
  BY DEF IInv, EventsCarry, PassesCarry, PassCarries, OwnerSeenBy
<1> HIDE DEF key
<1>4. CASE KnownByCode(r, f)
  <2>1. m = [contact |-> Addressee[key.code], piece |-> key.code]
    BY <1>4 DEF Matches, key
  <2>2. key.code = Code[f] /\ Code[f] # None /\ status[key.code] # None
    BY <1>2, <1>4 DEF KnownByCode, key
  <2> QED BY <1>1, <2>1, <2>2, IngestionAssumption
<1>5. CASE ~KnownByCode(r, f) /\ Thereon(r, f) # {}
  <2>1. PICK g \in EarliestThereon(r, f) : m = [contact |-> OwnerSeenBy(r, g), piece |-> None]
    BY <1>5 DEF Matches
  <2>2. g \in Facts /\ Thread[f] # None /\ Thread[g] = Thread[f] /\ OwnerSeenBy(r, g) # None
    BY DEF EarliestThereon, Thereon
  <2>3. About[f] = About[g] /\ OwnerSeenBy(r, g) = About[g]
    BY <1>1, <1>3, <2>2, IngestionAssumption
  <2> QED BY <2>1, <2>3
<1>6. CASE ~KnownByCode(r, f) /\ Thereon(r, f) = {}
  <2>1. key.phone # None /\ m = [contact |-> key.phone, piece |-> None]
    BY <1>6 DEF Matches, key
  <2> QED BY <1>1, <1>2, <2>1, IngestionAssumption
<1> QED BY <1>4, <1>5, <1>6

LEMMA ResolveOneCarries ==
    ASSUME IInv, NEW r \in Passes, ResolveOne(r)
    PROVE  PassesCarry'
<1>1. PICK f \in pass[r].todo :
         \/ pass' = [pass EXCEPT ![r].todo = @ \ {f}, ![r].read[f] = None]
         \/ \E m \in Matches(r, f) :
              pass' = [pass EXCEPT ![r].todo = @ \ {f}, ![r].read[f] = None, ![r].found[f] = m]
  BY DEF ResolveOne
<1>2. /\ pass \in [Passes -> PassType] /\ f \in Facts /\ UNCHANGED events
      /\ payload[f] # None
  BY PassesAreTyped DEF PassesTyped, PassType, IInv, ResolveOne, PassesCarry, PassCarries
<1>3. ASSUME NEW new \in PassType, pass' = [pass EXCEPT ![r] = new],
             \A g \in Facts : PassCarries(new, g)
      PROVE  PassesCarry'
  <2>1. \A q \in Passes : pass'[q] = IF q = r THEN new ELSE pass[q]
    BY <1>2, <1>3
  <2> QED BY <1>2, <1>3, <2>1 DEF IInv, PassesCarry, PassCarries, events, Carries
<1>4. CASE pass' = [pass EXCEPT ![r].todo = @ \ {f}, ![r].read[f] = None]
  <2> DEFINE new == [pass[r] EXCEPT !.todo = @ \ {f}, !.read[f] = None]
  <2>1. /\ new \in PassType /\ new.todo = pass[r].todo \ {f} /\ new.found = pass[r].found
        /\ \A g \in Facts : new.read[g] = IF g = f THEN None ELSE pass[r].read[g]
    BY <1>2 DEF PassType
  <2>2. pass' = [pass EXCEPT ![r] = new]
    BY <1>2, <1>4
  <2> HIDE DEF new
  <2>3. ASSUME NEW g \in Facts
        PROVE  PassCarries(new, g)
    <3>1. PassCarries(pass[r], g)
      BY DEF IInv, PassesCarry
    <3> QED BY <3>1, <2>1 DEF PassCarries, Carries
  <2> QED BY <1>3, <2>1, <2>2, <2>3
<1>5. ASSUME NEW m \in Matches(r, f),
             pass' = [pass EXCEPT ![r].todo = @ \ {f}, ![r].read[f] = None, ![r].found[f] = m]
      PROVE  PassesCarry'
  <2> DEFINE new == [pass[r] EXCEPT !.todo = @ \ {f}, !.read[f] = None, !.found[f] = m]
  <2>1. m \in Match
    BY MatchesTyped DEF IInv
  <2>2. /\ new \in PassType /\ new.todo = pass[r].todo \ {f}
        /\ \A g \in Facts : /\ new.read[g] = IF g = f THEN None ELSE pass[r].read[g]
                            /\ new.found[g] = IF g = f THEN m ELSE pass[r].found[g]
    BY <1>2, <2>1 DEF PassType
  <2>3. pass' = [pass EXCEPT ![r] = new]
    BY <1>2, <1>5
  <2>4. /\ m.contact = About[f] /\ m.piece \in {None, Code[f]}
        /\ m.piece # None => status[m.piece] # None
    BY MatchesTell
  <2> HIDE DEF new
  <2>5. ASSUME NEW g \in Facts
        PROVE  PassCarries(new, g)
    <3>1. PassCarries(pass[r], g)
      BY DEF IInv, PassesCarry
    <3> QED BY <1>2, <3>1, <2>2, <2>4 DEF PassCarries, Carries
  <2> QED BY <1>3, <2>2, <2>3, <2>5
<1> QED BY <1>1, <1>4, <1>5

(* Committing a pass: every row says what it said, or what was found.       *)
LEMMA CommitsCarry ==
    ASSUME IInv, NEW r \in Passes, ResolveCommits(r)
    PROVE  EventsCarry' /\ TablesGrow /\ PassesCarry'
<1> DEFINE found == pass[r].found
<1>1. \A f \in Facts : found[f] \in Match \cup {None} /\ piece[f] \in Pieces \cup {None}
  BY DEF IInv, TypeOK
<1>2. \A f \in Facts :
         found[f] # None =>
            /\ payload[f] # None /\ found[f].contact = About[f]
            /\ found[f].piece \in {None, Code[f]}
            /\ found[f].piece # None => status[found[f].piece] # None
  BY DEF IInv, PassesCarry, PassCarries
<1>3. /\ \A f \in Facts :
            /\ owner'[f] = IF found[f] = None THEN owner[f] ELSE found[f].contact
            /\ piece'[f] = IF found[f] = None \/ found[f].piece = None
                           THEN piece[f] ELSE found[f].piece
      /\ \A p \in Pieces : status'[p] = StatusAfter(found, p)
      /\ payload' = payload
  BY DEF ResolveCommits
<1>4. \A p \in Pieces : status[p] # None => status'[p] # None
  <2>1. \A p \in Pieces : StatusAfter(found, p) \in {status[p], "delivered", "returned"}
    BY DEF StatusAfter
  <2> QED BY <1>3, <2>1, IngestionAssumption
<1>5. TablesGrow
  BY <1>3, <1>4 DEF TablesGrow
<1>6. EventsCarry'
  <2>1. EventsCarry
    BY DEF IInv
  <2> HIDE DEF found
  <2>2. SUFFICES ASSUME NEW f \in Facts
                 PROVE  /\ payload'[f] = None => owner'[f] = None /\ piece'[f] = None
                        /\ Carries(f, payload'[f])
                        /\ owner'[f] \in {None, About[f]} /\ piece'[f] \in {None, Code[f]}
                        /\ piece'[f] # None => status'[piece'[f]] # None
    BY DEF EventsCarry, Carries
  <2>3. Code[f] \in Pieces \cup {None}
    BY IngestionAssumption
  <2>4. CASE found[f] = None
    BY <1>3, <1>4, <2>1, <2>3, <2>4 DEF EventsCarry
  <2>5. CASE found[f] # None
    BY <1>2, <1>3, <1>4, <2>1, <2>3, <2>5 DEF EventsCarry
  <2> QED BY <2>4, <2>5
<1>7. pass' = [pass EXCEPT ![r] = Closed]
  BY DEF ResolveCommits
<1> QED BY <1>5, <1>6, <1>7, ClosingCarries DEF IInv

LEMMA CorrelateOneCarries ==
    ASSUME IInv, CorrelateOne
    PROVE  NightCarries'
<1>1. night \in NightType /\ night.step = "closes" /\ UNCHANGED events
  BY DEF IInv, TypeOK, NightType, CorrelateOne
<1>2. PICK f \in night.todo :
         \/ /\ payload[f] # None
            /\ night' = [night EXCEPT !.todo = @ \ {f}, !.backfill = @ \cup {f}]
         \/ /\ payload[f] = None
            /\ night' = [night EXCEPT !.todo = @ \ {f}, !.insert[f] = CloseKeys(f)]
         \/ night' = [night EXCEPT !.todo = @ \ {f}]
  BY DEF CorrelateOne, LacksNumber
<1>3. f \in Facts /\ Inlet[f] = "close"
  BY <1>1 DEF IInv, NightCarries, NightType
<1>4. CASE /\ payload[f] # None
           /\ night' = [night EXCEPT !.todo = @ \ {f}, !.backfill = @ \cup {f}]
  BY <1>1, <1>3, <1>4 DEF IInv, NightCarries, NightType, events, Carries
<1>5. CASE /\ payload[f] = None
           /\ night' = [night EXCEPT !.todo = @ \ {f}, !.insert[f] = CloseKeys(f)]
  <2>1. Carries(f, CloseKeys(f))
    BY DEF Carries, CloseKeys
  <2>2. /\ night'.step = "closes" /\ night'.todo = night.todo \ {f}
        /\ night'.backfill = night.backfill
        /\ \A g \in Facts : night'.insert[g] = IF g = f THEN CloseKeys(f) ELSE night.insert[g]
    BY <1>1, <1>3, <1>5 DEF NightType
  <2> QED BY <1>1, <1>3, <1>5, <2>1, <2>2 DEF IInv, NightCarries, events, Carries
<1>6. CASE night' = [night EXCEPT !.todo = @ \ {f}]
  BY <1>1, <1>3, <1>6 DEF IInv, NightCarries, NightType, events, Carries
<1> QED BY <1>2, <1>4, <1>5, <1>6

LEMMA CorrelateCommitsCarry ==
    ASSUME IInv, CorrelateCommits
    PROVE  EventsCarry' /\ TablesGrow /\ NightCarries'
<1>1. /\ night \in NightType /\ night.backfill \subseteq Facts
      /\ \A f \in Facts : /\ night.insert[f] \in Payload \cup {None}
                          /\ payload[f] \in Payload \cup {None}
                          /\ piece[f] \in Pieces \cup {None}
      /\ piece' = piece /\ status' = status
  BY DEF IInv, TypeOK, NightType, CorrelateCommits
<1>2. \A f \in Facts :
         /\ payload'[f] = IF night.insert[f] # None THEN night.insert[f]
                          ELSE IF f \in night.backfill
                          THEN [payload[f] EXCEPT !.phone = Phone[f]]
                          ELSE payload[f]
         /\ owner'[f] = IF night.insert[f] # None THEN night.insert[f].phone ELSE owner[f]
  BY DEF CorrelateCommits
<1>3. ASSUME NEW f \in Facts
      PROVE  /\ payload[f] # None => payload'[f] # None
             /\ payload'[f] = None => owner'[f] = None /\ piece'[f] = None
             /\ Carries(f, payload'[f])
             /\ owner'[f] \in {None, About[f]}
  <2>1. CASE night.insert[f] # None
    <3>1. Inlet[f] = "close" /\ payload[f] = None /\ Carries(f, night.insert[f])
      BY <2>1 DEF IInv, NightCarries
    <3>2. night.insert[f].phone \in {None, About[f]}
      BY <2>1, <3>1, IngestionAssumption DEF Carries
    <3>3. payload'[f] = night.insert[f] /\ owner'[f] = night.insert[f].phone
      BY <1>2, <2>1
    <3> QED BY <2>1, <3>1, <3>2, <3>3 DEF Carries
  <2>2. CASE night.insert[f] = None /\ f \in night.backfill
    <3>1. payload[f] # None /\ payload[f] \in Payload
      BY <1>1, <2>2 DEF IInv, NightCarries
    <3>2. payload[f].code \in {None, Code[f]}
      BY <3>1 DEF IInv, EventsCarry, Carries
    <3> DEFINE k == [payload[f] EXCEPT !.phone = Phone[f]]
    <3>3. k \in Payload /\ k.code = payload[f].code /\ k.phone = Phone[f]
      BY <3>1, IngestionAssumption DEF Payload
    <3>4. payload'[f] = k /\ owner'[f] = owner[f]
      BY <1>2, <2>2
    <3> HIDE DEF k
    <3>5. k # None
      BY <3>3, IngestionAssumption
    <3> QED BY <3>1, <3>2, <3>3, <3>4, <3>5 DEF IInv, EventsCarry, Carries
  <2>3. CASE night.insert[f] = None /\ f \notin night.backfill
    BY <1>1, <1>2, <2>3 DEF IInv, EventsCarry
  <2> QED BY <2>1, <2>2, <2>3
<1>4. TablesGrow
  BY <1>1, <1>3 DEF TablesGrow
<1>5. EventsCarry'
  BY <1>1, <1>3 DEF IInv, EventsCarry, Carries
<1>6. /\ night'.step \in {"recompute", "again"} /\ night'.backfill = {}
      /\ \A f \in Facts : night'.insert[f] = None
  BY <1>1 DEF CorrelateCommits, NightType
<1> QED BY <1>4, <1>5, <1>6 DEF NightCarries

(* The whole invariant, from its parts.                                     *)
LEMMA Parts ==
    ASSUME TypeOK', EventsCarry', PassesCarry', NightCarries'
    PROVE  IInv'
BY DEF IInv

LEMMA InitCarries == Init => IInv
BY InitTyped DEF Init, IInv, EventsCarry, PassesCarry, PassCarries, NightCarries, Carries,
   Closed, Asleep

LEMMA TypedParts ==
    ASSUME happening' \in Worlds, shown' \subseteq offered', offered' \subseteq happening',
           payload' \in [Facts -> Payload \cup {None}],
           owner' \in [Facts -> Contacts \cup {None}],
           piece' \in [Facts -> Pieces \cup {None}],
           status' \in [Pieces -> {None, "submitted", "delivered", "returned"}],
           PassesTyped', night' \in NightType,
           judged' \in [Contacts -> SUBSET Facts],
           snapshot' \in [Contacts -> ContactStages],
           undeliverable' \in [Contacts -> BOOLEAN]
    PROVE  TypeOK'
BY DEF TypeOK, PassesTyped, PassType, NightType

LEMMA PartsTyped ==
    ASSUME TypeOK
    PROVE  /\ happening \in Worlds /\ shown \subseteq offered /\ offered \subseteq happening
           /\ offered \subseteq Facts
           /\ payload \in [Facts -> Payload \cup {None}]
           /\ owner \in [Facts -> Contacts \cup {None}]
           /\ piece \in [Facts -> Pieces \cup {None}]
           /\ status \in [Pieces -> {None, "submitted", "delivered", "returned"}]
           /\ PassesTyped /\ night \in NightType
           /\ judged \in [Contacts -> SUBSET Facts]
           /\ snapshot \in [Contacts -> ContactStages]
           /\ undeliverable \in [Contacts -> BOOLEAN]
BY IngestionAssumption DEF TypeOK, PassesTyped, PassType, NightType

(* The outside and the inlets that are not the night's.                     *)
LEMMA InletSteps ==
    ASSUME IInv, NEW f \in Facts,
           Happens(f) \/ LeavesNumber(f) \/ Push(f) \/ AtDesk(f) \/ CommitPiece(f)
    PROVE  IInv'
<1> USE DEF vars, world, events, contacts
<1>1. CASE Happens(f) \/ LeavesNumber(f)
  <2>1. TypeOK'
    BY <1>1 DEF IInv, TypeOK, Happens, LeavesNumber
  <2> QED BY <1>1, <2>1 DEF Happens, LeavesNumber, IInv, EventsCarry, PassesCarry,
                            PassCarries, NightCarries, Carries
<1>2. ASSUME NEW contact \in {None, About[f]}, NEW of \in {None, Code[f]},
             AppendEvent(f, contact, of), Inlet[f] # "close", of # None => status'[of] # None,
             \A p \in Pieces : status[p] # None => status'[p] # None,
             status' \in [Pieces -> {None, "submitted", "delivered", "returned"}],
             UNCHANGED <<world, pass, night, contacts>>
      PROVE  IInv'
  <2>1. contact \in Contacts \cup {None} /\ of \in Pieces \cup {None}
    BY IngestionAssumption
  <2>2. TypeOK'
    BY <1>2, <2>1, AppendTyped DEF IInv, TypeOK
  <2>3. EventsCarry' /\ TablesGrow
    BY <1>2, AppendCarries DEF IInv
  <2>4. PassesCarry'
    BY <1>2, <2>3, PassesKeep DEF IInv
  <2>5. \A g \in Facts : Inlet[g] = "close" => payload'[g] = payload[g]
    BY <1>2 DEF AppendEvent, IInv, TypeOK
  <2>6. NightCarries'
    BY <1>2, <2>5, NightKeeps DEF IInv
  <2> QED BY <2>2, <2>3, <2>4, <2>6, Parts
<1>3. CASE Push(f)
  BY <1>2, <1>3 DEF Push, IInv, TypeOK
<1>4. CASE AtDesk(f)
  BY <1>2, <1>4 DEF AtDesk, IInv, TypeOK
<1>5. CASE CommitPiece(f)
  <2>1. Code[f] \in Pieces /\ Inlet[f] = "drop"
    BY <1>5, IngestionAssumption DEF CommitPiece
  <2>2. /\ status' = [status EXCEPT ![Code[f]] = "submitted"]
        /\ AppendEvent(f, About[f], Code[f]) /\ UNCHANGED <<world, pass, night, contacts>>
    BY <1>5 DEF CommitPiece
  <2>3. /\ \A p \in Pieces : status[p] # None => status'[p] # None
        /\ status' \in [Pieces -> {None, "submitted", "delivered", "returned"}]
        /\ status'[Code[f]] # None
    BY <2>1, <2>2, IngestionAssumption DEF IInv, TypeOK
  <2> QED BY <1>2, <2>1, <2>2, <2>3
<1> QED BY <1>1, <1>3, <1>4, <1>5

-----------------------------------------------------------------------------
(* The passes, whoever runs them.                                           *)
LEMMA PassRead ==
    ASSUME IInv, NEW r \in Passes, ResolveRead(r), UNCHANGED <<world, events, contacts>>,
           night' \in NightType, NightCarries'
    PROVE  IInv'
<1> USE DEF world, events, contacts
<1>1. PassesTyped'
  BY ReadTyped DEF IInv
<1>2. TypeOK'
  BY <1>1, PartsTyped, TypedParts DEF IInv
<1>3. EventsCarry'
  BY DEF IInv, EventsCarry, Carries
<1>4. PassesCarry'
  BY ReadCarries DEF IInv
<1> QED BY <1>2, <1>3, <1>4, Parts

LEMMA PassOne ==
    ASSUME IInv, NEW r \in Passes, ResolveOne(r)
    PROVE  IInv'
<1> USE DEF world, events, contacts
<1>1. UNCHANGED <<world, events, night, contacts>>
  BY DEF ResolveOne
<1>2. PassesTyped'
  BY ResolveOneTyped DEF IInv
<1>3. TypeOK'
  BY <1>1, <1>2, PartsTyped, TypedParts DEF IInv
<1>4. EventsCarry' /\ NightCarries'
  BY <1>1 DEF IInv, EventsCarry, NightCarries, Carries
<1>5. PassesCarry'
  BY ResolveOneCarries
<1> QED BY <1>3, <1>4, <1>5, Parts

LEMMA PassCommits ==
    ASSUME IInv, NEW r \in Passes, ResolveCommits(r), UNCHANGED <<world, contacts>>,
           night' \in NightType, NightCarries'
    PROVE  IInv'
<1> USE DEF world, contacts
<1>1. TypeOK'
  BY PartsTyped, TypedParts, CommitsTyped DEF IInv
<1>2. EventsCarry' /\ PassesCarry'
  BY CommitsCarry
<1> QED BY <1>1, <1>2, Parts

LEMMA PassCloses ==
    ASSUME IInv, NEW r \in Passes, pass' = [pass EXCEPT ![r] = Closed],
           UNCHANGED <<world, events>>,
           judged' \in [Contacts -> SUBSET Facts], UNCHANGED <<snapshot, undeliverable>>,
           night' \in NightType, NightCarries'
    PROVE  IInv'
<1> USE DEF world, events
<1>1. PassesTyped'
  BY ClosedTyped DEF IInv
<1>2. TypeOK'
  BY <1>1, PartsTyped, TypedParts DEF IInv
<1>3. EventsCarry' /\ TablesGrow
  BY DEF IInv, EventsCarry, TablesGrow, Carries
<1>4. PassesCarry'
  BY <1>3, ClosingCarries DEF IInv
<1> QED BY <1>2, <1>3, <1>4, Parts

LEMMA WebSteps ==
    ASSUME IInv, NEW r \in Sessions,
           WebResolves(r) \/ ResolveOne(r) \/ WebCommits(r) \/ WebAborts(r)
    PROVE  IInv'
<1>1. r \in Passes /\ night \in NightType /\ judged \in [Contacts -> SUBSET Facts]
  BY PartsTyped DEF Passes, IInv
<1>2. CASE WebResolves(r)
  <2>1. NightCarries'
    BY <1>2 DEF WebResolves, IInv, NightCarries, Carries, events
  <2> QED BY <1>1, <1>2, <2>1, PassRead DEF WebResolves
<1>3. CASE ResolveOne(r)
  BY <1>1, <1>3, PassOne
<1>4. CASE WebCommits(r)
  <2>1. NightCarries'
    BY <1>4 DEF WebCommits, ResolveCommits, IInv, NightCarries, Carries
  <2> QED BY <1>1, <1>4, <2>1, PassCommits DEF WebCommits
<1>5. CASE WebAborts(r)
  <2>1. NightCarries'
    BY <1>5 DEF WebAborts, IInv, NightCarries, Carries, events
  <2> QED BY <1>1, <1>5, <2>1, PassCloses DEF WebAborts, contacts
<1> QED BY <1>2, <1>3, <1>4, <1>5

-----------------------------------------------------------------------------
(* The night.                                                               *)
LEMMA NightOnly ==
    ASSUME IInv, UNCHANGED <<world, events, pass>>, night' \in NightType, NightCarries',
           judged' \in [Contacts -> SUBSET Facts], snapshot' \in [Contacts -> ContactStages],
           undeliverable' \in [Contacts -> BOOLEAN]
    PROVE  IInv'
<1> USE DEF world, events
<1>1. PassesTyped'
  BY PartsTyped DEF IInv, PassesTyped
<1>2. TypeOK'
  BY <1>1, PartsTyped, TypedParts DEF IInv
<1>3. EventsCarry' /\ TablesGrow
  BY DEF IInv, EventsCarry, TablesGrow, Carries
<1>4. PassesCarry'
  BY <1>3, PassesKeep DEF IInv
<1> QED BY <1>2, <1>3, <1>4, Parts

LEMMA NightStartsKeeps == ASSUME IInv, NightStarts PROVE IInv'
<1>1. night \in NightType
  BY PartsTyped DEF IInv
<1>2. night' \in NightType
  BY <1>1 DEF NightStarts, NightType, Of
<1>3. NightCarries'
  BY <1>1 DEF NightStarts, NightType, Of, IInv, NightCarries, Carries, events
<1> QED BY <1>2, <1>3, PartsTyped, NightOnly DEF NightStarts, contacts, IInv

LEMMA SyncOneKeeps == ASSUME IInv, SyncOne PROVE IInv'
<1> USE DEF world, contacts
<1>1. PICK f \in night.todo : /\ AppendEvent(f, None, None)
                              /\ night' = [night EXCEPT !.todo = @ \ {f}]
  BY DEF SyncOne
<1>2. /\ night \in NightType /\ f \in Facts /\ Inlet[f] = "feed" /\ night.step = "sync"
      /\ UNCHANGED <<world, status, pass, contacts>>
  BY PartsTyped DEF IInv, SyncOne, NightType, NightCarries
<1>3. night' \in NightType
  BY <1>1, <1>2 DEF NightType
<1>4. /\ payload' \in [Facts -> Payload \cup {None}]
      /\ owner' \in [Facts -> Contacts \cup {None}]
      /\ piece' \in [Facts -> Pieces \cup {None}]
  BY <1>1, <1>2, AppendTyped DEF IInv
<1>5. PassesTyped'
  BY <1>2, PartsTyped DEF IInv, PassesTyped
<1>6. TypeOK'
  BY <1>2, <1>3, <1>4, <1>5, PartsTyped, TypedParts DEF IInv
<1>7. EventsCarry' /\ TablesGrow
  BY <1>1, <1>2, AppendCarries DEF IInv
<1>8. PassesCarry'
  BY <1>2, <1>7, PassesKeep DEF IInv
<1>9. \A g \in Facts : Inlet[g] = "close" => payload'[g] = payload[g]
  BY <1>1, <1>2 DEF AppendEvent, IInv, TypeOK
<1>10. NightCarries'
  <2>1. /\ night'.step = night.step /\ night'.todo \subseteq night.todo
        /\ night'.insert = night.insert /\ night'.backfill = night.backfill
    BY <1>1, <1>2 DEF NightType
  <2>2. night.backfill \subseteq Facts
    BY <1>2 DEF NightType
  <2> QED BY <1>2, <1>9, <2>1, <2>2 DEF IInv, NightCarries, Carries
<1> QED BY <1>6, <1>7, <1>8, <1>10, Parts

LEMMA NightPassesKeep ==
    ASSUME IInv, NightResolves \/ NightResolvesAgain \/ NightCommits \/ ResolveOne(Night)
    PROVE  IInv'
<1>1. Night \in Passes /\ night \in NightType
  BY PartsTyped DEF Passes, IInv
<1>2. CASE NightResolves
  <2>1. night' \in NightType
    BY <1>1, <1>2 DEF NightResolves, NightType
  <2>2. NightCarries'
    BY <1>1, <1>2 DEF NightResolves, NightType, IInv, NightCarries, Carries, events
  <2> QED BY <1>1, <1>2, <2>1, <2>2, PassRead DEF NightResolves
<1>3. CASE NightResolvesAgain
  <2>1. NightCarries'
    BY <1>3 DEF NightResolvesAgain, IInv, NightCarries, Carries, events
  <2> QED BY <1>1, <1>3, <2>1, PassRead DEF NightResolvesAgain
<1>4. CASE NightCommits
  <2>1. CASE night.step = "resolve"
    <3>1. night' = [night EXCEPT !.step = "closes", !.todo = offered \cap Of("close")]
      BY <1>4, <2>1 DEF NightCommits
    <3>2. night' \in NightType
      BY <1>1, <3>1 DEF Of, NightType
    <3>3. /\ night'.step = "closes" /\ \A f \in night'.todo : Inlet[f] = "close"
          /\ night'.insert = night.insert /\ night'.backfill = night.backfill
      BY <1>1, <3>1 DEF NightType, Of
    <3>4. NightCarries'
      BY <1>4, <3>3 DEF NightCommits, ResolveCommits, IInv, NightCarries, Carries
    <3> QED BY <1>1, <1>4, <3>2, <3>4, PassCommits DEF NightCommits
  <2>2. CASE night.step # "resolve"
    <3>1. night' = [night EXCEPT !.step = "recompute"]
      BY <1>4, <2>2 DEF NightCommits
    <3>2. night' \in NightType
      BY <1>1, <3>1 DEF NightType
    <3>3. NightCarries'
      BY <1>1, <1>4, <3>1 DEF NightCommits, ResolveCommits, NightType, IInv, NightCarries,
                              Carries
    <3> QED BY <1>1, <1>4, <3>2, <3>3, PassCommits DEF NightCommits
  <2> QED BY <2>1, <2>2
<1>5. CASE ResolveOne(Night)
  BY <1>1, <1>5, PassOne
<1> QED BY <1>2, <1>3, <1>4, <1>5

LEMMA ClosesKeep == ASSUME IInv, CorrelateOne \/ CorrelateCommits PROVE IInv'
<1>1. CASE CorrelateOne
  <2>1. night' \in NightType
    BY <1>1, CorrelateOneTyped DEF IInv
  <2>2. NightCarries'
    BY <1>1, CorrelateOneCarries
  <2> QED BY <1>1, <2>1, <2>2, PartsTyped, NightOnly DEF CorrelateOne, contacts, IInv
<1>2. CASE CorrelateCommits
  <2>1. \A f \in night.backfill : Phone[f] # None /\ payload[f] # None
    BY PartsTyped, IngestionAssumption DEF IInv, NightCarries, NightType
  <2>2. /\ payload' \in [Facts -> Payload \cup {None}]
        /\ owner' \in [Facts -> Contacts \cup {None}]
        /\ night' \in NightType
    BY <1>2, <2>1, CorrelateCommitsTyped DEF IInv
  <2>3. UNCHANGED <<world, piece, status, pass, contacts>>
    BY <1>2 DEF CorrelateCommits
  <2>4. PassesTyped'
    BY <2>3, PartsTyped DEF IInv, PassesTyped
  <2>5. TypeOK'
    BY <2>2, <2>3, <2>4, PartsTyped, TypedParts DEF IInv, world, contacts
  <2>6. EventsCarry' /\ TablesGrow /\ NightCarries'
    BY <1>2, CorrelateCommitsCarry
  <2>7. PassesCarry'
    BY <2>3, <2>6, PassesKeep DEF IInv
  <2> QED BY <2>5, <2>6, <2>7, Parts
<1> QED BY <1>1, <1>2

LEMMA JudgmentKeeps == ASSUME IInv, RecomputeRead \/ RecomputeWrite \/ NightFails PROVE IInv'
<1> USE DEF world, events
<1>1. night \in NightType
  BY PartsTyped DEF IInv
<1>2. CASE RecomputeRead
  <2>1. night' \in NightType /\ judged' \in [Contacts -> SUBSET Facts]
    BY <1>1, <1>2 DEF RecomputeRead, NightType, History
  <2>2. NightCarries'
    BY <1>1, <1>2 DEF RecomputeRead, NightType, IInv, NightCarries, Carries
  <2> QED BY <1>2, <2>1, <2>2, PartsTyped, NightOnly DEF RecomputeRead, IInv
<1>3. ASSUME NEW n \in 0..MaxFails, night' = Asleep(n), UNCHANGED events
      PROVE  night' \in NightType /\ NightCarries'
  <2>1. night' \in NightType
    BY <1>3, AsleepTyped
  <2>2. NightCarries'
    BY <1>3 DEF Asleep, NightCarries
  <2> QED BY <2>1, <2>2
<1>4. CASE RecomputeWrite
  <2>1. \A S : DeriveStage(S) \in ContactStages /\ IsAddressUndeliverable(S) \in BOOLEAN
    BY DEF DeriveStage, ContactStages, IsAddressUndeliverable
  <2>2. night' \in NightType /\ NightCarries'
    BY <1>1, <1>3, <1>4 DEF RecomputeWrite, NightType
  <2>3. /\ judged' \in [Contacts -> SUBSET Facts] /\ snapshot' \in [Contacts -> ContactStages]
        /\ undeliverable' \in [Contacts -> BOOLEAN]
    BY <1>4, <2>1 DEF RecomputeWrite
  <2> QED BY <1>4, <2>2, <2>3, NightOnly DEF RecomputeWrite
<1>5. CASE NightFails
  <2>1. night.fails + 1 \in 0..MaxFails
    BY <1>1, <1>5, IngestionAssumption DEF NightFails, NightType
  <2>2. night' \in NightType /\ NightCarries'
    BY <1>3, <1>5, <2>1 DEF NightFails
  <2>3. judged' \in [Contacts -> SUBSET Facts] /\ Night \in Passes
    BY <1>5 DEF NightFails, Passes
  <2> QED BY <1>5, <2>2, <2>3, PassCloses DEF NightFails
<1> QED BY <1>2, <1>4, <1>5

-----------------------------------------------------------------------------
LEMMA Inductive == ASSUME IInv, [Next]_vars PROVE IInv'
<1>1. CASE Next
  <2>1. CASE \E f \in Facts :
                Happens(f) \/ LeavesNumber(f) \/ Push(f) \/ AtDesk(f) \/ CommitPiece(f)
    BY <2>1, InletSteps
  <2>2. CASE \E r \in Sessions : WebResolves(r) \/ ResolveOne(r) \/ WebCommits(r) \/ WebAborts(r)
    BY <2>2, WebSteps
  <2>3. CASE NightSteps
    BY <2>3, NightStartsKeeps, SyncOneKeeps, NightPassesKeep, ClosesKeep, JudgmentKeeps
       DEF NightSteps
  <2>4. CASE NightFails
    BY <2>4, JudgmentKeeps
  <2> QED BY <1>1, <2>1, <2>2, <2>3, <2>4 DEF Next
<1>2. CASE UNCHANGED vars
  <2>1. UNCHANGED <<world, events, pass, night, contacts>>
    BY <1>2 DEF vars
  <2>2. night' \in NightType /\ NightCarries'
    BY <2>1, PartsTyped DEF IInv, NightCarries, Carries, events
  <2> QED BY <2>1, <2>2, PartsTyped, NightOnly DEF IInv, contacts
<1> QED BY <1>1, <1>2

LEMMA Invariance == Spec => []IInv
<1>1. Init => IInv
  BY InitCarries
<1>2. IInv /\ [Next]_vars => IInv'
  BY Inductive
<1> QED BY <1>1, <1>2, PTL DEF Spec

(* Every variable keeps its type.                                           *)
THEOREM TypeCorrect == Spec => []TypeOK
<1>1. IInv => TypeOK
  BY DEF IInv
<1> QED BY <1>1, Invariance, PTL

(* However passes overlap, fail and repeat, an event is only ever given to  *)
(* the contact it is about.                                                 *)
THEOREM AttributionTrue == Spec => []AttributionIsTrue
<1>1. IInv => AttributionIsTrue
  BY DEF IInv, EventsCarry, AttributionIsTrue
<1> QED BY <1>1, Invariance, PTL

-----------------------------------------------------------------------------
(* An attribution is never withdrawn, nor changed.                          *)
LEMMA OwnersOfAppend ==
    ASSUME IInv, NEW f \in Facts, NEW contact, NEW of, AppendEvent(f, contact, of)
    PROVE  \A g \in Facts : owner[g] # None => owner'[g] = owner[g]
<1>1. payload[f] = None => owner[f] = None
  BY DEF IInv, EventsCarry
<1>2. owner' = owner \/ (payload[f] = None /\ owner' = [owner EXCEPT ![f] = contact])
  BY DEF AppendEvent
<1> QED BY <1>1, <1>2 DEF IInv, TypeOK

LEMMA OwnersOfCommit ==
    ASSUME IInv, NEW r \in Passes, ResolveCommits(r)
    PROVE  \A g \in Facts : owner[g] # None => owner'[g] = owner[g]
<1>1. \A g \in Facts : /\ pass[r].found[g] # None => pass[r].found[g].contact = About[g]
                       /\ owner[g] \in {None, About[g]}
  BY DEF IInv, PassesCarry, PassCarries, EventsCarry
<1>2. \A g \in Facts : owner'[g] = IF pass[r].found[g] = None THEN owner[g]
                                   ELSE pass[r].found[g].contact
  BY DEF ResolveCommits
<1> QED BY <1>1, <1>2

LEMMA OwnersStay ==
    ASSUME IInv, [Next]_vars
    PROVE  \A g \in Facts : owner[g] # None => owner'[g] = owner[g]
<1> USE DEF events
<1>1. CASE \E f \in Facts : Happens(f) \/ LeavesNumber(f) \/ Push(f) \/ AtDesk(f) \/ CommitPiece(f)
  BY <1>1, OwnersOfAppend DEF Happens, LeavesNumber, Push, AtDesk, CommitPiece
<1>2. CASE \E r \in Sessions : WebResolves(r) \/ ResolveOne(r) \/ WebCommits(r) \/ WebAborts(r)
  BY <1>2, OwnersOfCommit DEF WebResolves, ResolveOne, WebCommits, WebAborts, Passes
<1>3. CASE NightStarts \/ NightResolves \/ ResolveOne(Night) \/ CorrelateOne
           \/ NightResolvesAgain \/ RecomputeRead \/ RecomputeWrite \/ NightFails
  BY <1>3 DEF NightStarts, NightResolves, ResolveOne, CorrelateOne, NightResolvesAgain,
              RecomputeRead, RecomputeWrite, NightFails
<1>4. CASE SyncOne
  BY <1>4, PartsTyped, OwnersOfAppend DEF SyncOne, IInv, NightType
<1>5. CASE NightCommits
  BY <1>5, OwnersOfCommit DEF NightCommits, Passes
<1>6. CASE CorrelateCommits
  <2>1. \A g \in Facts : owner'[g] = IF night.insert[g] # None THEN night.insert[g].phone
                                     ELSE owner[g]
    BY <1>6 DEF CorrelateCommits
  <2>2. \A g \in Facts : night.insert[g] # None => owner[g] = None
    BY DEF IInv, NightCarries, EventsCarry
  <2> QED BY <2>1, <2>2
<1>7. CASE UNCHANGED vars
  BY <1>7 DEF vars
<1> QED BY <1>1, <1>2, <1>3, <1>4, <1>5, <1>6, <1>7 DEF Next, NightSteps

LEMMA HistoriesGrow ==
    ASSUME IInv, [Next]_vars, NEW c \in Contacts
    PROVE  /\ History(c) \subseteq History(c)'
           /\ History(c)' \subseteq {f \in Facts : About[f] = c}
<1>1. IInv'
  BY Inductive
<1>2. \A f \in Facts : owner'[f] \in {None, About[f]}
  BY <1>1 DEF IInv, EventsCarry
<1>3. c # None
  BY IngestionAssumption
<1> QED BY <1>2, <1>3, OwnersStay DEF History

(* The abstract history of each contact: every step of the system adds      *)
(* events to it that are its own, or leaves it alone.                       *)
THEOREM HistoryImplemented == Spec => ImplementsHistory
<1>1. Init => \A c \in Contacts : Told(c)!Init
  BY IngestionAssumption DEF Init, Told!Init, History
<1>2. IInv /\ [Next]_vars => [\A c \in Contacts : Told(c)!Next \/ UNCHANGED History(c)]_vars
  <2> SUFFICES ASSUME IInv, [Next]_vars, NEW c \in Contacts, History(c)' # History(c)
               PROVE  Told(c)!Next
    OBVIOUS
  <2> DEFINE es == History(c)' \ History(c)
  <2>1. /\ History(c) \subseteq History(c)'
        /\ History(c)' \subseteq {f \in Facts : About[f] = c}
    BY HistoriesGrow
  <2>2. /\ es # {} /\ es \cap History(c) = {} /\ History(c)' = History(c) \cup es
        /\ es \subseteq {f \in Facts : About[f] = c}
    BY <2>1
  <2> QED BY <2>2 DEF Told!Next, Told!Learn
<1> QED BY <1>1, <1>2, Invariance, PTL DEF Spec, ImplementsHistory

-----------------------------------------------------------------------------
(* A piece's status, without the sets of types.                             *)
Says(p, type) == \E f \in Facts : piece[f] = p /\ f.type = type

Agrees(p) ==
    /\ status[p] = None => \A f \in Facts : piece[f] # p
    /\ status[p] = "returned" <=> Says(p, "piece.returned")
    /\ status[p] = "delivered" => Says(p, "piece.delivered")
    /\ Says(p, "piece.delivered") => status[p] \in {"delivered", "returned"}

LEMMA StatusTold == StatusTellsDelivery <=> \A p \in Pieces : Agrees(p)
BY DEF StatusTellsDelivery, Agrees, Says

LEMMA PiecesOfAppend ==
    ASSUME IInv, NEW f \in Facts, NEW contact, AppendEvent(f, contact, None)
    PROVE  piece' = piece
<1>1. payload[f] = None => piece[f] = None
  BY DEF IInv, EventsCarry
<1> QED BY <1>1 DEF AppendEvent, IInv, TypeOK

LEMMA StatusOfDrop ==
    ASSUME IInv, NEW f \in Facts, CommitPiece(f), \A p \in Pieces : Agrees(p)
    PROVE  \A p \in Pieces : Agrees(p)'
<1>1. Code[f] \in Pieces /\ f.type = "piece.submitted" /\ status[Code[f]] = None
  BY IngestionAssumption DEF CommitPiece
<1>2. payload[f] = None => piece[f] = None
  BY DEF IInv, EventsCarry
<1>3. \A p \in Pieces : status'[p] = IF p = Code[f] THEN "submitted" ELSE status[p]
  BY <1>1 DEF CommitPiece, IInv, TypeOK
<1>4. \A g \in Facts : \/ piece'[g] = piece[g]
                       \/ g = f /\ piece[g] = None /\ piece'[g] = Code[f]
  BY <1>2 DEF CommitPiece, AppendEvent, IInv, TypeOK
<1>5. ASSUME NEW p \in Pieces, p # Code[f]
      PROVE  Agrees(p)'
  <2>1. \A g \in Facts : piece'[g] = p <=> piece[g] = p
    BY <1>4, <1>5, IngestionAssumption
  <2>2. status'[p] = status[p]
    BY <1>3, <1>5
  <2> QED BY <2>1, <2>2 DEF Agrees, Says
<1>6. Agrees(Code[f])'
  <2>1. \A g \in Facts : piece[g] # Code[f]
    BY <1>1 DEF Agrees
  <2>2. \A g \in Facts : piece'[g] = Code[f] => g.type = "piece.submitted"
    BY <1>1, <1>4, <2>1
  <2>3. status'[Code[f]] = "submitted"
    BY <1>1, <1>3
  <2> QED BY <2>2, <2>3, IngestionAssumption DEF Agrees, Says
<1> QED BY <1>5, <1>6

LEMMA StatusOfCommit ==
    ASSUME IInv, NEW r \in Passes, ResolveCommits(r), NEW p \in Pieces, Agrees(p)
    PROVE  Agrees(p)'
<1> DEFINE found == pass[r].found
<1> DEFINE Finds(type) == \E f \in Facts : found[f] # None /\ found[f].piece = p /\ f.type = type
<1>1. \A f \in Facts :
         /\ piece[f] \in {None, Code[f]}
         /\ found[f] # None => /\ found[f].piece \in {None, Code[f]}
                               /\ found[f].piece # None => status[found[f].piece] # None
  BY DEF IInv, EventsCarry, PassesCarry, PassCarries
<1>2. \A f \in Facts : piece'[f] = IF found[f] = None \/ found[f].piece = None
                                   THEN piece[f] ELSE found[f].piece
  BY DEF ResolveCommits
<1>3. \A f \in Facts : piece'[f] = p <=> piece[f] = p \/ (found[f] # None /\ found[f].piece = p)
  BY <1>1, <1>2, IngestionAssumption
<1>4. \A type : Says(p, type)' <=> Says(p, type) \/ Finds(type)
  BY <1>3 DEF Says
<1>5. status'[p] = IF Finds("piece.returned") \/ status[p] = "returned" THEN "returned"
                   ELSE IF Finds("piece.delivered") THEN "delivered" ELSE status[p]
  BY DEF ResolveCommits, StatusAfter
<1>6. status'[p] = None => \A f \in Facts : piece'[f] # p
  <2>1. status'[p] = None => status[p] = None
    BY <1>5, IngestionAssumption
  <2> QED BY <1>1, <1>3, <2>1, IngestionAssumption DEF Agrees
<1> HIDE DEF Finds
<1>7. Says(p, "piece.returned")' <=> status'[p] = "returned"
  BY <1>4, <1>5, IngestionAssumption DEF Agrees
<1>8. status'[p] = "delivered" => Says(p, "piece.delivered")'
  BY <1>4, <1>5, IngestionAssumption DEF Agrees
<1>9. Says(p, "piece.delivered")' => status'[p] \in {"delivered", "returned"}
  BY <1>4, <1>5, IngestionAssumption DEF Agrees
<1> QED BY <1>6, <1>7, <1>8, <1>9 DEF Agrees

LEMMA StatusStays ==
    ASSUME \A p \in Pieces : Agrees(p), UNCHANGED <<piece, status>>
    PROVE  \A p \in Pieces : Agrees(p)'
BY DEF Agrees, Says

LEMMA StatusInductive ==
    ASSUME IInv, [Next]_vars, \A p \in Pieces : Agrees(p)
    PROVE  \A p \in Pieces : Agrees(p)'
<1> USE DEF events
<1>1. ASSUME NEW f \in Facts,
             Happens(f) \/ LeavesNumber(f) \/ Push(f) \/ AtDesk(f) \/ CommitPiece(f)
      PROVE  \A p \in Pieces : Agrees(p)'
  <2>1. CASE Push(f) \/ AtDesk(f)
    BY <2>1, PiecesOfAppend, StatusStays DEF Push, AtDesk
  <2>2. CASE Happens(f) \/ LeavesNumber(f)
    BY <2>2, StatusStays DEF Happens, LeavesNumber
  <2> QED BY <1>1, <2>1, <2>2, StatusOfDrop
<1>2. ASSUME NEW r \in Sessions,
             WebResolves(r) \/ ResolveOne(r) \/ WebCommits(r) \/ WebAborts(r)
      PROVE  \A p \in Pieces : Agrees(p)'
  <2>1. CASE WebCommits(r)
    BY <2>1, StatusOfCommit DEF WebCommits, Passes
  <2> QED BY <1>2, <2>1, StatusStays DEF WebResolves, ResolveOne, WebAborts
<1>3. CASE NightStarts \/ NightResolves \/ ResolveOne(Night) \/ CorrelateOne
           \/ NightResolvesAgain \/ RecomputeRead \/ RecomputeWrite \/ NightFails
           \/ CorrelateCommits
  BY <1>3, StatusStays DEF NightStarts, NightResolves, ResolveOne, CorrelateOne,
     NightResolvesAgain, RecomputeRead, RecomputeWrite, NightFails, CorrelateCommits
<1>4. CASE SyncOne
  BY <1>4, PartsTyped, PiecesOfAppend, StatusStays DEF SyncOne, IInv, NightType
<1>5. CASE NightCommits
  BY <1>5, StatusOfCommit DEF NightCommits, Passes
<1>6. CASE UNCHANGED vars
  BY <1>6, StatusStays DEF vars
<1> QED BY <1>1, <1>2, <1>3, <1>4, <1>5, <1>6 DEF Next, NightSteps

(* Whichever passes attribute a piece's scans, and in whatever order, its   *)
(* status is what they say: returned before all.                            *)
THEOREM StatusIsTrue == Spec => []StatusTellsDelivery
<1>1. Init => \A p \in Pieces : Agrees(p)
  BY IngestionAssumption DEF Init, Agrees, Says
<1>2. IInv /\ (\A p \in Pieces : Agrees(p)) /\ [Next]_vars => (\A p \in Pieces : Agrees(p))'
  BY StatusInductive
<1>3. Spec => [](\A p \in Pieces : Agrees(p))
  BY <1>1, <1>2, Invariance, PTL DEF Spec
<1> QED BY <1>3, StatusTold, PTL

-----------------------------------------------------------------------------
(* A snapshot is the stage of events the contact has, and that the judgment *)
(* about to be written has read.                                            *)
JudgedFrom(c, S) ==
    /\ S \subseteq History(c) /\ snapshot[c] = DeriveStage(S)
    /\ night.step = "write" => S \subseteq judged[c] /\ judged[c] \subseteq History(c)

SnapshotIsOfAPast == \A c \in Contacts : \E S \in SUBSET Facts : JudgedFrom(c, S)

LEMMA NothingIsAProspect == DeriveStage({}) = "prospect"
<1>1. ~IsLost({}) /\ ~IsEngaged({}) /\ ~IsResponded({}) /\ ~WasSubmitted({})
  BY LostMeans, EngagedMeans, RespondedMeans, SubmittedMeans DEF GivenUp, Conversed, Answered
<1> QED BY <1>1 DEF DeriveStage, IsSuppressed, HasSignup

(* No step but the judgment's own touches what is judged or written.        *)
LEMMA JudgmentSteps ==
    ASSUME IInv, [Next]_vars
    PROVE  \/ /\ night.step = "write" /\ night'.step = "asleep"
              /\ snapshot' = [c \in Contacts |-> DeriveStage(judged[c])]
           \/ snapshot' = snapshot /\ night'.step = "write" /\ judged' = judged
              /\ night.step = "write"
           \/ snapshot' = snapshot /\ night'.step = "write"
              /\ judged' = [c \in Contacts |-> History(c)] /\ UNCHANGED owner
           \/ snapshot' = snapshot /\ night'.step # "write"
<1> USE DEF contacts, events
<1>1. night \in NightType
  BY PartsTyped DEF IInv
<1>2. CASE \E f \in Facts : Happens(f) \/ LeavesNumber(f) \/ Push(f) \/ AtDesk(f) \/ CommitPiece(f)
  BY <1>2 DEF Happens, LeavesNumber, Push, AtDesk, CommitPiece
<1>3. CASE \E r \in Sessions : WebResolves(r) \/ ResolveOne(r) \/ WebCommits(r) \/ WebAborts(r)
  BY <1>3 DEF WebResolves, ResolveOne, WebCommits, WebAborts
<1>4. CASE NightStarts \/ SyncOne \/ NightResolves
  BY <1>1, <1>4 DEF NightStarts, SyncOne, NightResolves, NightType
<1>5. CASE ResolveOne(Night) \/ NightResolvesAgain
  BY <1>5 DEF ResolveOne, NightResolvesAgain
<1>6. CASE NightCommits
  BY <1>1, <1>6 DEF NightCommits, NightType
<1>7. CASE CorrelateOne
  BY <1>1, <1>7 DEF CorrelateOne, NightType
<1>8. CASE CorrelateCommits
  BY <1>1, <1>8 DEF CorrelateCommits, NightType
<1>9. CASE RecomputeRead
  BY <1>1, <1>9 DEF RecomputeRead, NightType
<1>10. CASE RecomputeWrite
  BY <1>10 DEF RecomputeWrite, Asleep
<1>11. CASE NightFails
  BY <1>11 DEF NightFails, Asleep
<1>12. CASE UNCHANGED vars
  BY <1>12 DEF vars
<1> QED BY <1>2, <1>3, <1>4, <1>5, <1>6, <1>7, <1>8, <1>9, <1>10, <1>11, <1>12
        DEF Next, NightSteps

LEMMA SnapshotInductive ==
    ASSUME IInv, [Next]_vars, SnapshotIsOfAPast
    PROVE  SnapshotIsOfAPast'
<1> SUFFICES ASSUME NEW c \in Contacts
             PROVE  \E S \in SUBSET Facts : JudgedFrom(c, S)'
  BY DEF SnapshotIsOfAPast
<1>1. PICK S \in SUBSET Facts : JudgedFrom(c, S)
  BY DEF SnapshotIsOfAPast
<1>2. History(c) \subseteq History(c)' /\ History(c) \subseteq Facts
  BY HistoriesGrow DEF History
<1>3. CASE /\ night.step = "write" /\ night'.step = "asleep"
           /\ snapshot' = [d \in Contacts |-> DeriveStage(judged[d])]
  <2>1. judged[c] \subseteq History(c)' /\ judged[c] \in SUBSET Facts
    BY <1>1, <1>2, <1>3 DEF JudgedFrom
  <2>2. snapshot'[c] = DeriveStage(judged[c])
    BY <1>3
  <2>3. \E U \in SUBSET Facts : U \subseteq History(c)' /\ snapshot'[c] = DeriveStage(U)
    BY <2>1, <2>2
  <2> QED BY <1>3, <2>3 DEF JudgedFrom
<1>4. CASE snapshot' = snapshot /\ night'.step = "write" /\ judged' = judged
           /\ night.step = "write"
  <2>1. JudgedFrom(c, S)'
    BY <1>1, <1>2, <1>4 DEF JudgedFrom
  <2> QED BY <2>1
<1>5. CASE snapshot' = snapshot /\ night'.step = "write"
           /\ judged' = [d \in Contacts |-> History(d)] /\ UNCHANGED owner
  <2>1. judged'[c] = History(c) /\ History(c)' = History(c)
    BY <1>5 DEF History
  <2>2. JudgedFrom(c, S)'
    BY <1>1, <1>5, <2>1 DEF JudgedFrom
  <2> QED BY <2>2
<1>6. CASE snapshot' = snapshot /\ night'.step # "write"
  <2>1. JudgedFrom(c, S)'
    BY <1>1, <1>2, <1>6 DEF JudgedFrom
  <2> QED BY <2>1
<1> QED BY <1>3, <1>4, <1>5, <1>6, JudgmentSteps

(* Nights that fail, requests that overlap and events that come late never  *)
(* show a contact at a stage behind the one it was shown at.                *)
THEOREM SnapshotsGoForward == Spec => SnapshotForward
<1>1. Init => SnapshotIsOfAPast
  <2> SUFFICES ASSUME Init, NEW c \in Contacts
               PROVE  \E S \in SUBSET Facts : JudgedFrom(c, S)
    BY DEF SnapshotIsOfAPast
  <2>1. JudgedFrom(c, {})
    BY NothingIsAProspect DEF Init, Asleep, JudgedFrom
  <2> QED BY <2>1
<1>2. IInv /\ SnapshotIsOfAPast /\ [Next]_vars => SnapshotIsOfAPast'
  BY SnapshotInductive
<1>3. IInv /\ SnapshotIsOfAPast /\ [Next]_vars =>
        [\A c \in Contacts : "lost" \notin {snapshot[c], snapshot'[c]} =>
            Rank(snapshot[c]) <= Rank(snapshot'[c])]_vars
  <2> SUFFICES ASSUME IInv, SnapshotIsOfAPast, [Next]_vars, NEW c \in Contacts,
                      "lost" \notin {snapshot[c], snapshot'[c]}
               PROVE  Rank(snapshot[c]) <= Rank(snapshot'[c])
    OBVIOUS
  <2>1. PICK S \in SUBSET Facts : JudgedFrom(c, S)
    BY DEF SnapshotIsOfAPast
  <2>2. CASE night.step = "write" /\ snapshot' = [d \in Contacts |-> DeriveStage(judged[d])]
    <3>1. S \subseteq judged[c] /\ judged[c] \subseteq Fact
      BY <2>1, <2>2, IngestionAssumption DEF JudgedFrom, History
    <3>2. snapshot[c] = DeriveStage(S) /\ snapshot'[c] = DeriveStage(judged[c])
      BY <2>1, <2>2 DEF JudgedFrom
    <3> QED BY <3>1, <3>2, StageGoesForward
  <2>3. CASE snapshot' = snapshot
    <3>1. snapshot[c] \in ContactStages
      BY DEF IInv, TypeOK
    <3>2. Rank(snapshot[c]) \in Int
      BY <3>1 DEF Rank, ContactStages
    <3> QED BY <2>3, <3>2
  <2> QED BY <2>2, <2>3, JudgmentSteps
<1> QED BY <1>1, <1>2, <1>3, Invariance, PTL DEF Spec, SnapshotForward
-----------------------------------------------------------------------------
(* What a night owes a judgment.                                            *)

(* The list of the night's pass holds the event with the key it is looked   *)
(* up by; or the pass has found its contact, or another has committed it.   *)
Full(f, k) == IF Inlet[f] = "feed" THEN k.code = Code[f] ELSE k.phone = Phone[f]

InHand(f) ==
    \/ owner[f] # None
    \/ pass[Night].found[f] # None
    \/ f \in pass[Night].todo /\ Full(f, pass[Night].read[f])

Counted(f) == HasSignup(History(Phone[f]))
Inserted(c) == \E g \in Facts : night.insert[g] # None /\ night.insert[g].phone = c
HasNumber(f) == payload[f] # None /\ payload[f].phone # None

(* A fact of the feeds, from the night's list to the judgment.              *)
FeedDue(f) ==
    /\ night.step = "sync" => f \in night.todo \/ payload[f] # None
    /\ night.step = "resolve" => InHand(f)
    /\ night.step \in {"closes", "again", "recompute"} => owner[f] # None
    /\ night.step = "write" => f \in judged[About[f]]

(* A close whose number is known: whatever it lacked, it is counted at last.*)
CloseDue(f) ==
    /\ night.step = "resolve" /\ HasNumber(f) => InHand(f)
    /\ night.step = "closes" =>
          /\ HasNumber(f) => owner[f] # None
          /\ f \in night.todo \/ f \in night.backfill \/ Counted(f) \/ Inserted(Phone[f])
    /\ night.step = "again" =>
          \/ Counted(f)
          \/ IF pass[Night].open THEN InHand(f)
             ELSE payload[f] # None /\ payload[f].phone = Phone[f]
    /\ night.step = "recompute" => Counted(f)
    /\ night.step = "write" => HasSignup(judged[Phone[f]])

Owed(f) == IF Inlet[f] = "feed" THEN status[Code[f]] # None
           ELSE Inlet[f] = "close" /\ f \in shown

NightIsAlone ==
    /\ night.step = "resolve" => pass[Night].open
    /\ pass[Night].open => night.step \in {"resolve", "again"}
    /\ night.step # "closes" => \A f \in Facts : night.insert[f] = None
    /\ \A f \in night.todo : night.insert[f] = None

(* Rows of the feeds carry every key of their fact, and passes read them so.*)
FeedsAreFull ==
    \A f \in Of("feed") :
        /\ payload[f] # None => payload[f].code = Code[f]
        /\ pass[Night].read[f] # None => pass[Night].read[f].code = Code[f]

GoalsDue ==
    \A f \in night.goal :
        Owed(f) /\ IF Inlet[f] = "feed" THEN FeedDue(f) ELSE CloseDue(f)

GoalInv == NightIsAlone /\ FeedsAreFull /\ GoalsDue

Growing ==
    /\ shown \subseteq shown'
    /\ \A p \in Pieces : status[p] # None => status'[p] # None
    /\ \A f \in Facts : owner[f] # None => owner'[f] = owner[f]

LEMMA StatusOfCommits ==
    ASSUME IInv, NEW r \in Passes, ResolveCommits(r)
    PROVE  \A p \in Pieces : status[p] # None => status'[p] # None
BY CommitsCarry DEF TablesGrow

LEMMA Grows == ASSUME IInv, [Next]_vars PROVE Growing
<1> USE DEF world, events
<1>1. \A f \in Facts : owner[f] # None => owner'[f] = owner[f]
  BY OwnersStay
<1>2. /\ shown \subseteq shown'
      /\ \A p \in Pieces : status[p] # None => status'[p] # None
  <2>1. CASE \E f \in Facts : Happens(f) \/ LeavesNumber(f) \/ Push(f) \/ AtDesk(f)
    BY <2>1 DEF Happens, LeavesNumber, Push, AtDesk
  <2>2. CASE \E f \in Facts : CommitPiece(f)
    BY <2>2, IngestionAssumption DEF CommitPiece, IInv, TypeOK
  <2>3. CASE \E r \in Sessions : WebResolves(r) \/ ResolveOne(r) \/ WebAborts(r)
    BY <2>3 DEF WebResolves, ResolveOne, WebAborts
  <2>4. CASE \E r \in Sessions : WebCommits(r)
    BY <2>4, StatusOfCommits DEF WebCommits, Passes
  <2>5. CASE NightStarts \/ SyncOne \/ NightResolves \/ ResolveOne(Night) \/ CorrelateOne
             \/ CorrelateCommits \/ NightResolvesAgain \/ RecomputeRead \/ RecomputeWrite
             \/ NightFails
    BY <2>5 DEF NightStarts, SyncOne, NightResolves, ResolveOne, CorrelateOne, CorrelateCommits,
                NightResolvesAgain, RecomputeRead, RecomputeWrite, NightFails
  <2>6. CASE NightCommits
    BY <2>6, StatusOfCommits DEF NightCommits, Passes
  <2>7. CASE UNCHANGED vars
    BY <2>7 DEF vars
  <2> QED BY <2>1, <2>2, <2>3, <2>4, <2>5, <2>6, <2>7 DEF Next, NightSteps
<1> QED BY <1>1, <1>2 DEF Growing

LEMMA OwedStays ==
    ASSUME Growing, NEW f \in Facts, Owed(f)
    PROVE  Owed(f)'
BY IngestionAssumption DEF Growing, Owed, Inlets

(* A close that has its contact is counted for it, and stays so.            *)
LEMMA CountedStays ==
    ASSUME Growing, NEW f \in Of("close"), Counted(f)
    PROVE  Counted(f)'
BY IngestionAssumption DEF Growing, Counted, HasSignup, History, Of

LEMMA OwnedIsCounted ==
    ASSUME IInv, NEW f \in Of("close"), owner[f] # None
    PROVE  Counted(f)
<1>1. owner[f] = Phone[f] /\ f.type = "signup.completed"
  BY IngestionAssumption DEF IInv, EventsCarry, Of
<1> QED BY <1>1 DEF Counted, HasSignup, History, Of

LEMMA InHandStays ==
    ASSUME Growing, NEW f \in Facts, InHand(f), pass'[Night] = pass[Night]
    PROVE  InHand(f)'
BY DEF Growing, InHand

(* The rows a step that is not a commit of closes leaves behind.            *)
RowsKept ==
    /\ \A f \in Of("feed") : /\ payload[f] # None => payload'[f] # None
                             /\ payload'[f] # None => payload'[f].code = Code[f]
    /\ \A f \in Of("close") : payload'[f] = payload[f]

LEMMA RowsOfAppend ==
    ASSUME IInv, FeedsAreFull, NEW f \in Facts, Inlet[f] # "close", NEW contact, NEW of,
           AppendEvent(f, contact, of)
    PROVE  RowsKept
<1>1. CASE payload[f] # None
  BY <1>1 DEF AppendEvent, RowsKept, FeedsAreFull
<1>2. CASE payload[f] = None
  <2> DEFINE k == [code |-> Code[f], phone |-> Phone[f]]
  <2>1. k # None /\ k.code = Code[f]
    BY IngestionAssumption DEF Payload
  <2>2. payload' = [payload EXCEPT ![f] = k]
    BY <1>2 DEF AppendEvent
  <2> HIDE DEF k
  <2>3. \A g \in Facts : payload'[g] = IF g = f THEN k ELSE payload[g]
    BY <2>2 DEF IInv, TypeOK
  <2> QED BY <2>1, <2>3 DEF RowsKept, FeedsAreFull, Of
<1> QED BY <1>1, <1>2

LEMMA RowsStay ==
    ASSUME FeedsAreFull, payload' = payload
    PROVE  RowsKept
BY DEF RowsKept, FeedsAreFull

(* What is not the night's doing takes nothing from it.                     *)
LEMMA NightUndisturbed ==
    ASSUME IInv, GoalInv, Growing, RowsKept, night' = night, judged' = judged,
           pass'[Night] = pass[Night]
    PROVE  GoalInv'
<1>1. NightIsAlone' /\ FeedsAreFull'
  BY DEF GoalInv, NightIsAlone, FeedsAreFull, RowsKept
<1>2. ASSUME NEW f \in night.goal
      PROVE  Owed(f)' /\ IF Inlet[f] = "feed" THEN FeedDue(f)' ELSE CloseDue(f)'
  <2>1. f \in Facts /\ Owed(f)
    BY <1>2, PartsTyped DEF IInv, NightType, GoalInv, GoalsDue
  <2>2. Owed(f)'
    BY <2>1, OwedStays
  <2>3. InHand(f) => InHand(f)'
    BY <2>1, InHandStays
  <2>4. CASE Inlet[f] = "feed"
    <3>1. FeedDue(f) /\ f \in Of("feed")
      BY <1>2, <2>1, <2>4 DEF GoalInv, GoalsDue, Of
    <3>2. FeedDue(f)'
      BY <2>1, <2>3, <3>1 DEF FeedDue, RowsKept, Growing
    <3> QED BY <2>2, <2>4, <3>2
  <2>5. CASE Inlet[f] # "feed"
    <3>1. CloseDue(f) /\ f \in Of("close")
      BY <1>2, <2>1, <2>5 DEF GoalInv, GoalsDue, Owed, Of
    <3>2. payload'[f] = payload[f] /\ (Counted(f) => Counted(f)')
      BY <3>1, CountedStays DEF RowsKept
    <3>3. HasNumber(f)' <=> HasNumber(f)
      BY <3>2 DEF HasNumber
    <3>4. Inserted(Phone[f])' <=> Inserted(Phone[f])
      BY DEF Inserted
    <3>5. owner[f] # None => owner'[f] # None
      BY <2>1 DEF Growing
    <3>6. CloseDue(f)'
      BY <2>3, <3>1, <3>2, <3>3, <3>4, <3>5 DEF CloseDue
    <3> QED BY <2>2, <2>5, <3>6
  <2> QED BY <2>4, <2>5
<1> QED BY <1>1, <1>2 DEF GoalInv, GoalsDue

LEMMA GoalsOfOthers ==
    ASSUME IInv, GoalInv, Growing,
           \/ \E f \in Facts :
                Happens(f) \/ LeavesNumber(f) \/ Push(f) \/ AtDesk(f) \/ CommitPiece(f)
           \/ \E r \in Sessions : WebResolves(r) \/ ResolveOne(r) \/ WebCommits(r) \/ WebAborts(r)
           \/ UNCHANGED vars
    PROVE  GoalInv'
<1> USE DEF world, events, contacts
<1>1. /\ FeedsAreFull /\ Night \notin Sessions /\ pass \in [Passes -> PassType]
      /\ Night \in Passes
  BY IngestionAssumption, PartsTyped DEF GoalInv, IInv, PassesTyped, Passes
<1>2. CASE UNCHANGED vars
  <2>1. payload' = payload /\ night' = night /\ judged' = judged /\ pass' = pass
    BY <1>2 DEF vars
  <2> QED BY <1>1, <2>1, RowsStay, NightUndisturbed
<1>3. ASSUME NEW f \in Facts,
             Happens(f) \/ LeavesNumber(f) \/ Push(f) \/ AtDesk(f) \/ CommitPiece(f)
      PROVE  GoalInv'
  <2>1. night' = night /\ judged' = judged /\ pass' = pass
    BY <1>3 DEF Happens, LeavesNumber, Push, AtDesk, CommitPiece
  <2>2. CASE Happens(f) \/ LeavesNumber(f)
    BY <1>1, <2>1, <2>2, RowsStay, NightUndisturbed DEF Happens, LeavesNumber
  <2>3. CASE Push(f) \/ AtDesk(f) \/ CommitPiece(f)
    <3>1. RowsKept
      BY <1>1, <2>3, RowsOfAppend DEF Push, AtDesk, CommitPiece
    <3> QED BY <2>1, <3>1, NightUndisturbed
  <2> QED BY <1>3, <2>2, <2>3
<1>4. ASSUME NEW r \in Sessions,
             WebResolves(r) \/ ResolveOne(r) \/ WebCommits(r) \/ WebAborts(r)
      PROVE  GoalInv'
  <2>1. r # Night
    BY <1>1
  <2>2. payload' = payload /\ night' = night /\ judged' = judged
    BY <1>4 DEF WebResolves, ResolveOne, WebCommits, ResolveCommits, WebAborts
  <2>3. pass'[Night] = pass[Night]
    <3>1. CASE ResolveOne(r)
      BY <1>1, <2>1, <3>1 DEF ResolveOne
    <3>2. CASE WebResolves(r) \/ WebCommits(r) \/ WebAborts(r)
      BY <1>1, <2>1, <3>2 DEF WebResolves, ResolveRead, WebCommits, ResolveCommits, WebAborts
    <3> QED BY <1>4, <3>1, <3>2
  <2> QED BY <1>1, <2>2, <2>3, RowsStay, NightUndisturbed
<1> QED BY <1>2, <1>3, <1>4

-----------------------------------------------------------------------------
(* The night begins, reads its feeds and starts its pass.                   *)
LEMMA GoalsOfStart == ASSUME IInv, GoalInv, NightStarts PROVE GoalInv'
<1> USE DEF world, events
<1>1. /\ night \in NightType /\ night.step = "asleep"
      /\ UNCHANGED <<shown, payload, owner, status, pass, judged>>
  BY PartsTyped DEF IInv, NightStarts, contacts
<1>2. /\ night'.step = "sync" /\ night'.todo = offered \cap Of("feed")
      /\ night'.insert = night.insert
      /\ night'.goal = {f \in offered \cap Of("feed") : status[Code[f]] # None}
                       \cup (shown \cap Of("close"))
  BY <1>1 DEF NightStarts, NightType
<1>3. NightIsAlone' /\ FeedsAreFull'
  BY <1>1, <1>2 DEF GoalInv, NightIsAlone, FeedsAreFull, Of, NightType
<1>4. ASSUME NEW f \in night'.goal
      PROVE  Owed(f)' /\ IF Inlet[f] = "feed" THEN FeedDue(f)' ELSE CloseDue(f)'
  <2>1. CASE f \in offered \cap Of("feed") /\ status[Code[f]] # None
    BY <1>1, <1>2, <2>1 DEF Owed, FeedDue, Of
  <2>2. CASE f \in shown \cap Of("close")
    BY <1>1, <1>2, <2>2 DEF Owed, CloseDue, Of
  <2> QED BY <1>2, <1>4, <2>1, <2>2
<1> QED BY <1>3, <1>4 DEF GoalInv, GoalsDue

LEMMA GoalsOfSync == ASSUME IInv, GoalInv, Growing, SyncOne PROVE GoalInv'
<1>1. PICK g \in night.todo : /\ AppendEvent(g, None, None)
                              /\ night' = [night EXCEPT !.todo = @ \ {g}]
  BY DEF SyncOne
<1>2. /\ night \in NightType /\ night.step = "sync" /\ g \in Facts /\ Inlet[g] = "feed"
      /\ UNCHANGED <<pass, judged>>
  BY PartsTyped DEF IInv, SyncOne, NightType, NightCarries, contacts
<1>3. /\ night'.step = "sync" /\ night'.todo = night.todo \ {g}
      /\ night'.insert = night.insert /\ night'.goal = night.goal
  BY <1>1, <1>2 DEF NightType
<1>4. RowsKept
  BY <1>1, <1>2, RowsOfAppend DEF GoalInv
<1>5. payload'[g] # None
  BY <1>1, <1>2, IngestionAssumption DEF AppendEvent, IInv, TypeOK, Payload
<1>6. NightIsAlone' /\ FeedsAreFull'
  BY <1>2, <1>3, <1>4 DEF GoalInv, NightIsAlone, FeedsAreFull, RowsKept
<1>7. ASSUME NEW f \in night'.goal
      PROVE  Owed(f)' /\ IF Inlet[f] = "feed" THEN FeedDue(f)' ELSE CloseDue(f)'
  <2>1. f \in Facts /\ Owed(f)
    BY <1>2, <1>3, <1>7 DEF NightType, GoalInv, GoalsDue
  <2>2. Owed(f)'
    BY <2>1, OwedStays
  <2>3. CASE Inlet[f] = "feed"
    <3>1. f \in night.todo \/ payload[f] # None
      BY <1>2, <1>3, <1>7, <2>3 DEF GoalInv, GoalsDue, FeedDue
    <3>2. f \in night'.todo \/ payload'[f] # None
      BY <1>3, <1>4, <1>5, <2>1, <2>3, <3>1 DEF RowsKept, Of
    <3> QED BY <1>3, <2>2, <2>3, <3>2 DEF FeedDue
  <2>4. CASE Inlet[f] # "feed"
    BY <1>3, <2>2, <2>4 DEF CloseDue
  <2> QED BY <2>3, <2>4
<1> QED BY <1>6, <1>7 DEF GoalInv, GoalsDue

(* A pass that begins has in hand every stored event whose key is whole.    *)
LEMMA ReadFields ==
    ASSUME TypeOK, NEW r \in Passes, ResolveRead(r)
    PROVE  /\ pass'[r].open /\ pass'[r].todo = Orphans
           /\ \A f \in Facts : pass'[r].read[f] = IF f \in Orphans THEN payload[f] ELSE None
<1> DEFINE new == [Closed EXCEPT !.open = TRUE, !.todo = Orphans,
                      !.read = [f \in Facts |-> IF f \in Orphans THEN payload[f] ELSE None]]
<1>1. /\ new.open /\ new.todo = Orphans
      /\ \A f \in Facts : new.read[f] = IF f \in Orphans THEN payload[f] ELSE None
  BY DEF Closed
<1>2. pass' = [pass EXCEPT ![r] = new] /\ pass \in [Passes -> PassType]
  BY PassesAreTyped DEF ResolveRead, PassesTyped
<1> HIDE DEF new
<1>3. pass'[r] = new
  BY <1>2
<1> QED BY <1>1, <1>3

LEMMA ReadInHand ==
    ASSUME IInv, ResolveRead(Night), owner' = owner, NEW f \in Facts, payload[f] # None,
           Full(f, payload[f])
    PROVE  InHand(f)'
<1>1. /\ pass'[Night].todo = Orphans
      /\ pass'[Night].read[f] = IF f \in Orphans THEN payload[f] ELSE None
  BY ReadFields DEF IInv, Passes
<1>2. CASE owner[f] # None
  BY <1>2 DEF InHand
<1>3. CASE owner[f] = None
  <2>1. f \in Orphans
    BY <1>3 DEF Orphans
  <2>2. f \in pass'[Night].todo /\ Full(f, pass'[Night].read[f])
    BY <1>1, <2>1
  <2> QED BY <2>2 DEF InHand, Full
<1> QED BY <1>2, <1>3

LEMMA ReadFull ==
    ASSUME IInv, FeedsAreFull, ResolveRead(Night), payload' = payload
    PROVE  FeedsAreFull'
<1>1. \A f \in Facts : pass'[Night].read[f] = IF f \in Orphans THEN payload[f] ELSE None
  BY ReadFields DEF IInv, Passes
<1> QED BY <1>1 DEF FeedsAreFull, Of

(* The number a stored close has is its customer's.                         *)
LEMMA NumberIsFull ==
    ASSUME IInv, NEW f \in Of("close"), HasNumber(f)
    PROVE  payload[f] # None /\ Full(f, payload[f])
BY DEF HasNumber, Full, IInv, EventsCarry, Carries, Of

LEMMA GoalsOfResolve == ASSUME IInv, GoalInv, Growing, NightResolves PROVE GoalInv'
<1>1. /\ night \in NightType /\ night.step = "sync" /\ night.todo = {}
      /\ ResolveRead(Night) /\ UNCHANGED <<payload, owner, judged>>
  BY PartsTyped DEF IInv, NightResolves, events, contacts
<1>2. /\ night'.step = "resolve" /\ night'.todo = {}
      /\ night'.insert = night.insert /\ night'.goal = night.goal
  BY <1>1 DEF NightResolves, NightType
<1>3. pass'[Night].open
  BY <1>1, ReadFields DEF IInv, Passes
<1>4. NightIsAlone' /\ FeedsAreFull'
  BY <1>1, <1>2, <1>3, ReadFull DEF GoalInv, NightIsAlone
<1>5. ASSUME NEW f \in night'.goal
      PROVE  Owed(f)' /\ IF Inlet[f] = "feed" THEN FeedDue(f)' ELSE CloseDue(f)'
  <2>1. f \in Facts /\ Owed(f)
    BY <1>1, <1>2, <1>5 DEF NightType, GoalInv, GoalsDue
  <2>2. Owed(f)'
    BY <2>1, OwedStays
  <2>3. CASE Inlet[f] = "feed"
    <3>1. payload[f] # None
      BY <1>1, <1>2, <1>5, <2>3 DEF GoalInv, GoalsDue, FeedDue
    <3>2. Full(f, payload[f])
      BY <2>1, <2>3, <3>1 DEF Full, GoalInv, FeedsAreFull, Of
    <3>3. InHand(f)'
      BY <1>1, <2>1, <3>1, <3>2, ReadInHand
    <3> QED BY <1>2, <2>2, <2>3, <3>3 DEF FeedDue
  <2>4. CASE Inlet[f] # "feed"
    <3>1. f \in Of("close")
      BY <2>1, <2>4 DEF Owed, Of
    <3>2. HasNumber(f)' => InHand(f)'
      BY <1>1, <2>1, <3>1, NumberIsFull, ReadInHand DEF HasNumber
    <3> QED BY <1>2, <2>2, <2>4, <3>2 DEF CloseDue
  <2> QED BY <2>3, <2>4
<1> QED BY <1>4, <1>5 DEF GoalInv, GoalsDue

LEMMA GoalsOfAgain == ASSUME IInv, GoalInv, Growing, NightResolvesAgain PROVE GoalInv'
<1>1. /\ night \in NightType /\ night.step = "again" /\ ~pass[Night].open /\ night' = night
      /\ ResolveRead(Night) /\ UNCHANGED <<payload, owner, judged>>
  BY PartsTyped DEF IInv, NightResolvesAgain, events, contacts
<1>2. pass'[Night].open
  BY <1>1, ReadFields DEF IInv, Passes
<1>3. NightIsAlone' /\ FeedsAreFull'
  BY <1>1, <1>2, ReadFull DEF GoalInv, NightIsAlone
<1>4. ASSUME NEW f \in night'.goal
      PROVE  Owed(f)' /\ IF Inlet[f] = "feed" THEN FeedDue(f)' ELSE CloseDue(f)'
  <2>1. f \in Facts /\ Owed(f)
    BY <1>1, <1>4 DEF NightType, GoalInv, GoalsDue
  <2>2. Owed(f)'
    BY <2>1, OwedStays
  <2>3. CASE Inlet[f] = "feed"
    BY <1>1, <1>4, <2>1, <2>2, <2>3 DEF GoalInv, GoalsDue, FeedDue
  <2>4. CASE Inlet[f] # "feed"
    <3>1. f \in Of("close") /\ CloseDue(f)
      BY <1>1, <1>4, <2>1, <2>4 DEF GoalInv, GoalsDue, Owed, Of
    <3>2. Counted(f) \/ (payload[f] # None /\ payload[f].phone = Phone[f])
      BY <1>1, <3>1 DEF CloseDue
    <3>3. Counted(f)' \/ InHand(f)'
      <4>1. CASE Counted(f)
        BY <3>1, <4>1, CountedStays
      <4>2. CASE payload[f] # None /\ payload[f].phone = Phone[f]
        BY <1>1, <2>1, <2>4, <4>2, ReadInHand DEF Full
      <4> QED BY <3>2, <4>1, <4>2
    <3> QED BY <1>1, <1>2, <2>2, <2>4, <3>3 DEF CloseDue
  <2> QED BY <2>3, <2>4
<1> QED BY <1>3, <1>4 DEF GoalInv, GoalsDue

-----------------------------------------------------------------------------
(* What is in hand is not dropped: whoever's key is whole is found.         *)
LEMMA WholeKeysMatch ==
    ASSUME IInv, NEW f \in pass[Night].todo, Owed(f), Full(f, pass[Night].read[f])
    PROVE  Matches(Night, f) # {}
<1>1. f \in Facts
  BY DEF IInv, TypeOK, Passes
<1>2. CASE Inlet[f] = "feed"
  <2>1. KnownByCode(Night, f)
    BY <1>1, <1>2, IngestionAssumption DEF KnownByCode, Full, Owed
  <2> QED BY <2>1 DEF Matches
<1>3. CASE Inlet[f] # "feed"
  <2>1. Inlet[f] = "close" /\ Thread[f] = None /\ pass[Night].read[f].phone # None
    BY <1>1, <1>3, IngestionAssumption DEF Owed, Full
  <2>2. Thereon(Night, f) = {}
    BY <2>1 DEF Thereon
  <2> QED BY <2>1, <2>2 DEF Matches
<1> QED BY <1>2, <1>3

LEMMA OneFields ==
    ASSUME IInv, NEW r \in Passes, ResolveOne(r)
    PROVE  \E g \in pass[r].todo :
              /\ pass'[r].open = pass[r].open /\ pass'[r].todo = pass[r].todo \ {g}
              /\ \A f \in Facts : pass'[r].read[f] = IF f = g THEN None ELSE pass[r].read[f]
              /\ \A f \in Facts : f # g => pass'[r].found[f] = pass[r].found[f]
              /\ IF Matches(r, g) = {} THEN pass'[r].found[g] = pass[r].found[g]
                 ELSE pass'[r].found[g] # None
<1>1. PICK g \in pass[r].todo :
         \/ /\ Matches(r, g) = {}
            /\ pass' = [pass EXCEPT ![r].todo = @ \ {g}, ![r].read[g] = None]
         \/ \E m \in Matches(r, g) :
              pass' = [pass EXCEPT ![r].todo = @ \ {g}, ![r].read[g] = None, ![r].found[g] = m]
  BY DEF ResolveOne
<1>2. pass \in [Passes -> PassType] /\ g \in Facts /\ pass[r] \in PassType
  BY PassesAreTyped DEF PassesTyped, PassType, IInv
<1>3. CASE /\ Matches(r, g) = {}
           /\ pass' = [pass EXCEPT ![r].todo = @ \ {g}, ![r].read[g] = None]
  <2> DEFINE new == [pass[r] EXCEPT !.todo = @ \ {g}, !.read[g] = None]
  <2>1. /\ new.open = pass[r].open /\ new.todo = pass[r].todo \ {g}
        /\ new.found = pass[r].found
        /\ \A f \in Facts : new.read[f] = IF f = g THEN None ELSE pass[r].read[f]
    BY <1>2 DEF PassType
  <2>2. pass'[r] = new
    BY <1>2, <1>3
  <2> HIDE DEF new
  <2> QED BY <1>3, <2>1, <2>2
<1>4. ASSUME NEW m \in Matches(r, g),
             pass' = [pass EXCEPT ![r].todo = @ \ {g}, ![r].read[g] = None, ![r].found[g] = m]
      PROVE  /\ pass'[r].open = pass[r].open /\ pass'[r].todo = pass[r].todo \ {g}
             /\ \A f \in Facts : pass'[r].read[f] = IF f = g THEN None ELSE pass[r].read[f]
             /\ \A f \in Facts : f # g => pass'[r].found[f] = pass[r].found[f]
             /\ pass'[r].found[g] # None /\ Matches(r, g) # {}
  <2> DEFINE new == [pass[r] EXCEPT !.todo = @ \ {g}, !.read[g] = None, !.found[g] = m]
  <2>1. m # None
    BY MatchesTyped, IngestionAssumption DEF IInv
  <2>2. /\ new.open = pass[r].open /\ new.todo = pass[r].todo \ {g}
        /\ \A f \in Facts : new.read[f] = IF f = g THEN None ELSE pass[r].read[f]
        /\ \A f \in Facts : new.found[f] = IF f = g THEN m ELSE pass[r].found[f]
    BY <1>2 DEF PassType
  <2>3. pass'[r] = new
    BY <1>2, <1>4
  <2> HIDE DEF new
  <2> QED BY <1>2, <2>1, <2>2, <2>3
<1> QED BY <1>1, <1>3, <1>4

LEMMA OneInHand ==
    ASSUME IInv, ResolveOne(Night), owner' = owner, NEW f \in Facts, Owed(f), InHand(f)
    PROVE  InHand(f)'
<1>1. PICK g \in pass[Night].todo :
         /\ pass'[Night].open = pass[Night].open /\ pass'[Night].todo = pass[Night].todo \ {g}
         /\ \A h \in Facts : pass'[Night].read[h] = IF h = g THEN None ELSE pass[Night].read[h]
         /\ \A h \in Facts : h # g => pass'[Night].found[h] = pass[Night].found[h]
         /\ IF Matches(Night, g) = {} THEN pass'[Night].found[g] = pass[Night].found[g]
            ELSE pass'[Night].found[g] # None
  BY OneFields DEF Passes
<1>2. CASE owner[f] # None
  BY <1>2 DEF InHand
<1>3. CASE pass[Night].found[f] # None
  <2>1. pass'[Night].found[f] # None
    BY <1>1, <1>3
  <2> QED BY <2>1 DEF InHand
<1>4. CASE f \in pass[Night].todo /\ Full(f, pass[Night].read[f])
  <2>1. CASE f = g
    <3>1. pass'[Night].found[f] # None
      BY <1>1, <1>4, <2>1, WholeKeysMatch
    <3> QED BY <3>1 DEF InHand
  <2>2. CASE f # g
    <3>1. f \in pass'[Night].todo /\ Full(f, pass'[Night].read[f])
      BY <1>1, <1>4, <2>2
    <3> QED BY <3>1 DEF InHand, Full
  <2> QED BY <2>1, <2>2
<1> QED BY <1>2, <1>3, <1>4 DEF InHand

LEMMA GoalsOfOne == ASSUME IInv, GoalInv, Growing, ResolveOne(Night) PROVE GoalInv'
<1>1. /\ night \in NightType /\ night' = night /\ UNCHANGED <<payload, owner, judged>>
  BY PartsTyped DEF IInv, ResolveOne, events, contacts
<1>2. /\ pass'[Night].open = pass[Night].open
      /\ \A f \in Facts : pass'[Night].read[f] \in {None, pass[Night].read[f]}
  BY OneFields DEF Passes
<1>3. NightIsAlone' /\ FeedsAreFull'
  BY <1>1, <1>2 DEF GoalInv, NightIsAlone, FeedsAreFull, Of
<1>4. ASSUME NEW f \in night'.goal
      PROVE  Owed(f)' /\ IF Inlet[f] = "feed" THEN FeedDue(f)' ELSE CloseDue(f)'
  <2>1. f \in Facts /\ Owed(f)
    BY <1>1, <1>4 DEF NightType, GoalInv, GoalsDue
  <2>2. Owed(f)' /\ (InHand(f) => InHand(f)')
    BY <1>1, <2>1, OwedStays, OneInHand
  <2>3. CASE Inlet[f] = "feed"
    <3>1. FeedDue(f)
      BY <1>1, <1>4, <2>3 DEF GoalInv, GoalsDue
    <3> QED BY <1>1, <2>2, <2>3, <3>1 DEF FeedDue
  <2>4. CASE Inlet[f] # "feed"
    <3>1. f \in Of("close") /\ CloseDue(f)
      BY <1>1, <1>4, <2>1, <2>4 DEF GoalInv, GoalsDue, Owed, Of
    <3>2. (HasNumber(f)' <=> HasNumber(f)) /\ (Counted(f)' <=> Counted(f))
          /\ (Inserted(Phone[f])' <=> Inserted(Phone[f]))
      BY <1>1 DEF HasNumber, Counted, History, Inserted
    <3> QED BY <1>1, <1>2, <2>2, <2>4, <3>1, <3>2 DEF CloseDue
  <2> QED BY <2>3, <2>4
<1> QED BY <1>3, <1>4 DEF GoalInv, GoalsDue

(* A pass that commits gives what it has in hand to its contact.            *)
LEMMA CommitOwns ==
    ASSUME IInv, ResolveCommits(Night), NEW f \in Facts, InHand(f)
    PROVE  owner'[f] # None
<1>1. pass[Night].found[f] \in Match \cup {None} /\ pass[Night].todo = {}
  BY DEF IInv, TypeOK, ResolveCommits, Passes
<1>2. owner'[f] = IF pass[Night].found[f] = None THEN owner[f] ELSE pass[Night].found[f].contact
  BY DEF ResolveCommits
<1> QED BY <1>1, <1>2, IngestionAssumption DEF InHand, Match

LEMMA GoalsOfCommit == ASSUME IInv, IInv', GoalInv, Growing, NightCommits PROVE GoalInv'
<1>1. /\ night \in NightType /\ ResolveCommits(Night) /\ pass[Night].open
      /\ night.step \in {"resolve", "again"} /\ payload' = payload
      /\ UNCHANGED <<shown, offered, judged>>
  BY PartsTyped DEF IInv, NightCommits, ResolveCommits, world, contacts, GoalInv, NightIsAlone
<1>2. /\ ~pass'[Night].open /\ \A f \in Facts : pass'[Night].read[f] = None
  <2>1. pass' = [pass EXCEPT ![Night] = Closed] /\ pass \in [Passes -> PassType]
    BY PassesAreTyped DEF NightCommits, ResolveCommits, IInv, PassesTyped
  <2>2. pass'[Night] = Closed
    BY <2>1 DEF Passes
  <2> QED BY <2>2 DEF Closed
<1>3. /\ night'.step = IF night.step = "resolve" THEN "closes" ELSE "recompute"
      /\ night'.insert = night.insert /\ night'.goal = night.goal
      /\ night'.backfill = night.backfill
      /\ night.step = "resolve" => night'.todo = offered \cap Of("close")
  BY <1>1 DEF NightCommits, NightType
<1>4. \A f \in Facts : night'.insert[f] = None
  BY <1>1, <1>3 DEF GoalInv, NightIsAlone
<1>5. NightIsAlone' /\ FeedsAreFull'
  <2>1. night' \in NightType
    BY DEF IInv, TypeOK, NightType
  <2>2. NightIsAlone'
    BY <1>2, <1>3, <1>4, <2>1 DEF NightIsAlone, NightType
  <2> QED BY <1>1, <1>2, <2>2 DEF GoalInv, FeedsAreFull, Of
<1>6. ASSUME NEW f \in night'.goal
      PROVE  Owed(f)' /\ IF Inlet[f] = "feed" THEN FeedDue(f)' ELSE CloseDue(f)'
  <2>1. f \in Facts /\ Owed(f) /\ f \in night.goal
    BY <1>1, <1>3, <1>6 DEF NightType, GoalInv, GoalsDue
  <2>2. Owed(f)' /\ (InHand(f) => owner'[f] # None) /\ (owner[f] # None => owner'[f] # None)
    BY <1>1, <2>1, OwedStays, CommitOwns DEF Growing
  <2>3. CASE Inlet[f] = "feed"
    <3>1. FeedDue(f)
      BY <2>1, <2>3 DEF GoalInv, GoalsDue
    <3> QED BY <1>1, <1>3, <2>2, <2>3, <3>1 DEF FeedDue
  <2>4. CASE Inlet[f] # "feed"
    <3>1. f \in Of("close") /\ CloseDue(f) /\ f \in offered
      BY <2>1, <2>4, PartsTyped DEF GoalInv, GoalsDue, Owed, Of, IInv
    <3>2. CASE night.step = "resolve"
      <4>1. HasNumber(f)' => owner'[f] # None
        BY <1>1, <2>2, <3>1, <3>2 DEF CloseDue, HasNumber
      <4>2. f \in night'.todo
        BY <1>3, <3>1, <3>2
      <4> QED BY <1>3, <2>2, <2>4, <3>2, <4>1, <4>2 DEF CloseDue
    <3>3. CASE night.step = "again"
      <4>1. Counted(f) \/ InHand(f)
        BY <1>1, <3>1, <3>3 DEF CloseDue
      <4>2. owner'[f] # None => Counted(f)'
        <5>1. ASSUME owner'[f] # None
              PROVE  owner'[f] = Phone[f] /\ f.type = "signup.completed"
          BY <3>1, <5>1, IngestionAssumption DEF IInv, EventsCarry, Of
        <5> QED BY <2>1, <5>1 DEF Counted, HasSignup, History
      <4>3. Counted(f)'
        BY <2>2, <3>1, <4>1, <4>2, CountedStays
      <4> QED BY <1>3, <2>2, <2>4, <3>3, <4>3 DEF CloseDue
    <3> QED BY <1>1, <3>2, <3>3
  <2> QED BY <2>3, <2>4
<1> QED BY <1>5, <1>6 DEF GoalInv, GoalsDue

-----------------------------------------------------------------------------
(* The closes: each is counted, inserted with its number, given the number  *)
(* it lacked, or a customer's that is counted already.                      *)
LEMMA CorrelateFields ==
    ASSUME IInv, CorrelateOne
    PROVE  \E g \in night.todo :
              /\ g \in Of("close") /\ night'.step = "closes" /\ night'.goal = night.goal
              /\ night'.todo = night.todo \ {g}
              /\ \/ /\ night'.insert = night.insert
                    /\ night'.backfill = night.backfill \cup {g}
                 \/ /\ night'.backfill = night.backfill
                    /\ payload[g] = None /\ ~(g \in shown /\ HasClosed(Phone[g]))
                    /\ \A f \in Facts :
                         night'.insert[f] = IF f = g THEN CloseKeys(g) ELSE night.insert[f]
                 \/ /\ night'.insert = night.insert /\ night'.backfill = night.backfill
                    /\ IF payload[g] # None THEN ~(g \in shown /\ LacksNumber(g))
                       ELSE g \in shown /\ HasClosed(Phone[g])
<1>1. night \in NightType /\ night.step = "closes"
  BY PartsTyped DEF IInv, CorrelateOne
<1>2. PICK g \in night.todo :
          \/ night' = [night EXCEPT !.todo = @ \ {g}, !.backfill = @ \cup {g}]
          \/ /\ payload[g] = None /\ ~(g \in shown /\ HasClosed(Phone[g]))
             /\ night' = [night EXCEPT !.todo = @ \ {g}, !.insert[g] = CloseKeys(g)]
          \/ /\ IF payload[g] # None THEN ~(g \in shown /\ LacksNumber(g))
                ELSE g \in shown /\ HasClosed(Phone[g])
             /\ night' = [night EXCEPT !.todo = @ \ {g}]
  BY DEF CorrelateOne
<1>3. g \in Of("close")
  BY <1>1 DEF IInv, NightCarries, NightType, Of
<1>4. CASE night' = [night EXCEPT !.todo = @ \ {g}, !.backfill = @ \cup {g}]
  BY <1>1, <1>3, <1>4 DEF NightType
<1>5. CASE /\ payload[g] = None /\ ~(g \in shown /\ HasClosed(Phone[g]))
           /\ night' = [night EXCEPT !.todo = @ \ {g}, !.insert[g] = CloseKeys(g)]
  <2>1. \A f \in Facts : night'.insert[f] = IF f = g THEN CloseKeys(g) ELSE night.insert[f]
    BY <1>1, <1>5 DEF NightType
  <2>2. /\ night'.step = "closes" /\ night'.goal = night.goal
        /\ night'.todo = night.todo \ {g} /\ night'.backfill = night.backfill
    BY <1>1, <1>5 DEF NightType
  <2> QED BY <1>3, <1>5, <2>1, <2>2
<1>6. CASE /\ IF payload[g] # None THEN ~(g \in shown /\ LacksNumber(g))
              ELSE g \in shown /\ HasClosed(Phone[g])
           /\ night' = [night EXCEPT !.todo = @ \ {g}]
  BY <1>1, <1>3, <1>6 DEF NightType
<1> QED BY <1>2, <1>4, <1>5, <1>6

LEMMA GoalsOfCorrelate == ASSUME IInv, GoalInv, Growing, CorrelateOne PROVE GoalInv'
<1>1. /\ night \in NightType /\ night.step = "closes"
      /\ UNCHANGED <<shown, payload, owner, status, pass, judged>>
  BY PartsTyped DEF IInv, CorrelateOne, world, events, contacts
<1>2. PICK g \in night.todo :
         /\ g \in Of("close") /\ night'.step = "closes" /\ night'.goal = night.goal
         /\ night'.todo = night.todo \ {g}
         /\ \/ /\ night'.insert = night.insert
               /\ night'.backfill = night.backfill \cup {g}
            \/ /\ night'.backfill = night.backfill
               /\ payload[g] = None /\ ~(g \in shown /\ HasClosed(Phone[g]))
               /\ \A f \in Facts :
                    night'.insert[f] = IF f = g THEN CloseKeys(g) ELSE night.insert[f]
            \/ /\ night'.insert = night.insert /\ night'.backfill = night.backfill
               /\ IF payload[g] # None THEN ~(g \in shown /\ LacksNumber(g))
                  ELSE g \in shown /\ HasClosed(Phone[g])
  BY CorrelateFields
<1>3. /\ g \in Facts /\ night.insert[g] = None /\ night.todo \subseteq Facts
  BY <1>1, <1>2 DEF GoalInv, NightIsAlone, Of, NightType
<1>4. \A f \in Facts : f # g => night'.insert[f] = night.insert[f]
  BY <1>2
<1>5. NightIsAlone' /\ FeedsAreFull'
  BY <1>1, <1>2, <1>3, <1>4 DEF GoalInv, NightIsAlone, FeedsAreFull
<1>6. \A c : Inserted(c) => Inserted(c)'
  BY <1>3, <1>4 DEF Inserted
<1>7. ASSUME NEW f \in night'.goal
      PROVE  Owed(f)' /\ IF Inlet[f] = "feed" THEN FeedDue(f)' ELSE CloseDue(f)'
  <2>1. f \in Facts /\ Owed(f) /\ f \in night.goal
    BY <1>1, <1>2, <1>7 DEF NightType, GoalInv, GoalsDue
  <2>2. Owed(f)'
    BY <2>1, OwedStays
  <2>3. CASE Inlet[f] = "feed"
    <3>1. owner[f] # None
      BY <1>1, <2>1, <2>3 DEF GoalInv, GoalsDue, FeedDue
    <3> QED BY <1>1, <1>2, <2>2, <2>3, <3>1 DEF FeedDue
  <2>4. CASE Inlet[f] # "feed"
    <3>1. f \in Of("close") /\ f \in shown
      BY <2>1, <2>4 DEF Owed, Of
    <3>2. /\ HasNumber(f) => owner[f] # None
          /\ f \in night.todo \/ f \in night.backfill \/ Counted(f) \/ Inserted(Phone[f])
      BY <1>1, <2>1, <2>4 DEF GoalInv, GoalsDue, CloseDue
    <3>3. Counted(f) => Counted(f)'
      BY <3>1, CountedStays
    <3>4. HasClosed(Phone[f]) => Counted(f) \/ Inserted(Phone[f])
      BY DEF HasClosed, Counted, Inserted
    <3>5. f \in night'.todo \/ f \in night'.backfill \/ Counted(f)' \/ Inserted(Phone[f])'
      <4>1. CASE f \notin night.todo
        BY <1>2, <1>6, <3>2, <3>3, <4>1
      <4>2. CASE f \in night.todo /\ f # g
        BY <1>2, <4>2
      <4>3. CASE f = g
        <5>1. CASE f \in night'.backfill
          BY <5>1
        <5>2. CASE payload[f] = None /\ ~HasClosed(Phone[f]) /\ night'.insert[f] = CloseKeys(f)
          <6>1. CloseKeys(f) # None /\ CloseKeys(f).phone = Phone[f]
            BY <2>1, <3>1, IngestionAssumption DEF CloseKeys, Payload
          <6> QED BY <2>1, <5>2, <6>1 DEF Inserted
        <5>3. CASE payload[f] # None /\ ~LacksNumber(f)
          <6>1. owner[f] # None
            BY <3>2, <5>3 DEF LacksNumber, HasNumber
          <6> QED BY <3>1, <3>3, <6>1, OwnedIsCounted
        <5>4. CASE HasClosed(Phone[f])
          BY <1>6, <3>3, <3>4, <5>4
        <5> QED BY <1>2, <2>1, <3>1, <4>3, <5>1, <5>2, <5>3, <5>4
      <4> QED BY <4>1, <4>2, <4>3
    <3>6. HasNumber(f)' => owner'[f] # None
      BY <1>1, <3>2 DEF HasNumber
    <3> QED BY <1>2, <2>2, <2>4, <3>5, <3>6 DEF CloseDue
  <2> QED BY <2>3, <2>4
<1> QED BY <1>5, <1>7 DEF GoalInv, GoalsDue

LEMMA GoalsOfClosing ==
    ASSUME IInv, GoalInv, Growing, CorrelateCommits
    PROVE  GoalInv'
<1>1. /\ night \in NightType /\ night.step = "closes"
      /\ UNCHANGED <<shown, status, pass, judged>> /\ night.todo = {}
  BY PartsTyped DEF IInv, CorrelateCommits, world, contacts
<1>2. /\ night'.step = IF night.backfill = {} THEN "recompute" ELSE "again"
      /\ night'.todo = {} /\ night'.goal = night.goal
      /\ \A f \in Facts : night'.insert[f] = None
  BY <1>1 DEF CorrelateCommits, NightType
<1>3. \A f \in Facts :
         /\ night.insert[f] # None => Inlet[f] = "close" /\ payload[f] = None
         /\ f \in night.backfill => Inlet[f] = "close" /\ payload[f] # None
  BY DEF IInv, NightCarries
<1>4. \A f \in Facts :
         /\ payload'[f] = IF night.insert[f] # None THEN night.insert[f]
                          ELSE IF f \in night.backfill
                          THEN [payload[f] EXCEPT !.phone = Phone[f]]
                          ELSE payload[f]
         /\ owner'[f] = IF night.insert[f] # None THEN night.insert[f].phone ELSE owner[f]
  BY DEF CorrelateCommits
<1>5. ~pass[Night].open
  BY <1>1 DEF GoalInv, NightIsAlone
<1>6. NightIsAlone' /\ FeedsAreFull'
  <2>1. \A f \in Of("feed") : payload'[f] = payload[f]
    BY <1>3, <1>4 DEF Of
  <2> QED BY <1>1, <1>2, <1>5, <2>1 DEF GoalInv, NightIsAlone, FeedsAreFull
<1>7. ASSUME NEW f \in night'.goal
      PROVE  Owed(f)' /\ IF Inlet[f] = "feed" THEN FeedDue(f)' ELSE CloseDue(f)'
  <2>1. f \in Facts /\ Owed(f) /\ f \in night.goal
    BY <1>1, <1>2, <1>7 DEF NightType, GoalInv, GoalsDue
  <2>2. Owed(f)'
    BY <2>1, OwedStays
  <2>3. CASE Inlet[f] = "feed"
    <3>1. owner'[f] # None
      BY <1>1, <2>1, <2>3 DEF GoalInv, GoalsDue, FeedDue, Growing
    <3> QED BY <1>2, <2>2, <2>3, <3>1 DEF FeedDue
  <2>4. CASE Inlet[f] # "feed"
    <3>1. f \in Of("close") /\ f \in shown
      BY <2>1, <2>4 DEF Owed, Of
    <3>2. f \in night.backfill \/ Counted(f) \/ Inserted(Phone[f])
      BY <1>1, <2>1, <2>4 DEF GoalInv, GoalsDue, CloseDue
    <3>3. Inserted(Phone[f]) => Counted(f)'
      <4>1. ASSUME NEW g \in Facts, night.insert[g] # None, night.insert[g].phone = Phone[f]
            PROVE  owner'[g] = Phone[f] /\ g.type = "signup.completed"
        BY <1>3, <1>4, <4>1, IngestionAssumption
      <4> QED BY <4>1 DEF Inserted, Counted, HasSignup, History
    <3>4. CASE Counted(f)'
      BY <1>2, <2>2, <2>4, <3>4 DEF CloseDue
    <3>5. CASE f \in night.backfill
      <4>1. payload[f] \in Payload /\ night.insert[f] = None
        BY <1>3, <2>1, <3>5 DEF IInv, TypeOK
      <4> DEFINE k == [payload[f] EXCEPT !.phone = Phone[f]]
      <4>2. k # None /\ k.phone = Phone[f]
        BY <4>1, <2>1, IngestionAssumption DEF Payload
      <4>3. payload'[f] = k
        BY <1>4, <2>1, <3>5, <4>1
      <4> HIDE DEF k
      <4>4. night'.step = "again" /\ ~pass'[Night].open
        BY <1>1, <1>2, <1>5, <3>5
      <4> QED BY <2>2, <2>4, <4>2, <4>3, <4>4 DEF CloseDue
    <3> QED BY <3>1, <3>2, <3>3, <3>4, <3>5, CountedStays
  <2> QED BY <2>3, <2>4
<1> QED BY <1>6, <1>7 DEF GoalInv, GoalsDue

(* The judgment reads what the night was owed; written, or with the night   *)
(* dead, nothing is owed.                                                   *)
LEMMA GoalsOfRead == ASSUME IInv, GoalInv, Growing, RecomputeRead PROVE GoalInv'
<1>1. /\ night \in NightType /\ night.step = "recompute"
      /\ UNCHANGED <<payload, owner, pass>> /\ judged' = [c \in Contacts |-> History(c)]
  BY PartsTyped DEF IInv, RecomputeRead, events
<1>2. /\ night'.step = "write" /\ night'.todo = night.todo /\ night'.insert = night.insert
      /\ night'.goal = night.goal
  BY <1>1 DEF RecomputeRead, NightType
<1>3. NightIsAlone' /\ FeedsAreFull'
  BY <1>1, <1>2 DEF GoalInv, NightIsAlone, FeedsAreFull
<1>4. ASSUME NEW f \in night'.goal
      PROVE  Owed(f)' /\ IF Inlet[f] = "feed" THEN FeedDue(f)' ELSE CloseDue(f)'
  <2>1. f \in Facts /\ Owed(f) /\ f \in night.goal
    BY <1>1, <1>2, <1>4 DEF NightType, GoalInv, GoalsDue
  <2>2. Owed(f)'
    BY <2>1, OwedStays
  <2>3. CASE Inlet[f] = "feed"
    <3>1. owner[f] # None
      BY <1>1, <2>1, <2>3 DEF GoalInv, GoalsDue, FeedDue
    <3>2. About[f] \in Contacts /\ f \in History(About[f])
      BY <2>1, <3>1, IngestionAssumption DEF History, IInv, EventsCarry
    <3>3. f \in judged'[About[f]]
      BY <1>1, <3>2
    <3> QED BY <1>2, <2>2, <2>3, <3>3 DEF FeedDue
  <2>4. CASE Inlet[f] # "feed"
    <3>1. Counted(f)
      BY <1>1, <2>1, <2>4 DEF GoalInv, GoalsDue, CloseDue
    <3>2. Phone[f] \in Contacts
      BY <2>1, <2>4, IngestionAssumption DEF Owed
    <3>3. HasSignup(judged'[Phone[f]])
      BY <1>1, <3>1, <3>2 DEF Counted
    <3> QED BY <1>2, <2>2, <2>4, <3>3 DEF CloseDue
  <2> QED BY <2>3, <2>4
<1> QED BY <1>3, <1>4 DEF GoalInv, GoalsDue

LEMMA GoalsOfEnd == ASSUME IInv, GoalInv, RecomputeWrite \/ NightFails PROVE GoalInv'
<1>1. /\ payload' = payload /\ night'.step = "asleep" /\ night'.goal = {}
      /\ night'.todo = {} /\ \A f \in Facts : night'.insert[f] = None
  BY DEF RecomputeWrite, NightFails, Asleep, events
<1>2. /\ ~pass'[Night].open
      /\ \A f \in Facts : pass'[Night].read[f] \in {None, pass[Night].read[f]}
  <2>1. CASE RecomputeWrite
    BY <2>1 DEF RecomputeWrite, GoalInv, NightIsAlone
  <2>2. CASE NightFails
    <3>1. pass' = [pass EXCEPT ![Night] = Closed] /\ pass \in [Passes -> PassType]
      BY <2>2, PassesAreTyped DEF NightFails, IInv, PassesTyped
    <3>2. pass'[Night] = Closed
      BY <3>1 DEF Passes
    <3> QED BY <3>2 DEF Closed
  <2> QED BY <2>1, <2>2
<1> QED BY <1>1, <1>2 DEF GoalInv, NightIsAlone, FeedsAreFull, GoalsDue, Of

LEMMA GoalsInductive == ASSUME IInv, GoalInv, [Next]_vars PROVE GoalInv'
<1>1. Growing /\ IInv'
  BY Grows, Inductive
<1>2. CASE \/ \E f \in Facts :
                Happens(f) \/ LeavesNumber(f) \/ Push(f) \/ AtDesk(f) \/ CommitPiece(f)
           \/ \E r \in Sessions : WebResolves(r) \/ ResolveOne(r) \/ WebCommits(r) \/ WebAborts(r)
           \/ UNCHANGED vars
  BY <1>1, <1>2, GoalsOfOthers
<1>3. CASE NightSteps
  BY <1>1, <1>3, GoalsOfStart, GoalsOfSync, GoalsOfResolve, GoalsOfOne, GoalsOfCommit,
     GoalsOfCorrelate, GoalsOfClosing, GoalsOfAgain, GoalsOfRead, GoalsOfEnd DEF NightSteps
<1>4. CASE NightFails
  BY <1>4, GoalsOfEnd
<1> QED BY <1>2, <1>3, <1>4 DEF Next

(* "Never judge stale state": whatever the requests and the webhooks do     *)
(* meanwhile, the judgment a night writes has read all that its feeds held  *)
(* when it began, and every close whose customer had left a number.         *)
THEOREM NightJudges == Spec => []NightJudgesEverything
<1>1. Init => GoalInv
  BY DEF Init, GoalInv, NightIsAlone, FeedsAreFull, GoalsDue, Closed, Asleep, Of, Passes
<1>2. IInv /\ GoalInv /\ [Next]_vars => GoalInv'
  BY GoalsInductive
<1>3. GoalInv => NightJudgesEverything
  BY IngestionAssumption DEF GoalInv, GoalsDue, Owed, FeedDue, CloseDue, NightJudgesEverything
<1> QED BY <1>1, <1>2, <1>3, Invariance, PTL DEF Spec
=============================================================================
