-------------------------- MODULE NightTailProofs --------------------------
(***************************************************************************)
(* Theorems about NightTail, for every set of contacts and partners, every *)
(* horizon and whatever the outside does.                                  *)
(***************************************************************************)
EXTENDS NightTail, DerivationProofs

LEMMA DayMonotone ==
    ASSUME NEW t \in Nat, NEW u \in Nat, t <= u
    PROVE  Day(t) \in Nat /\ Day(t) <= Day(u)
BY JudgmentAssumption, SMTT(30) DEF Day

LEMMA DaysAreNat == ASSUME NEW n \in Nat PROVE Days(n) \in Nat
BY JudgmentAssumption DEF Days

LEMMA ParamsAreNat ==
    /\ Params.cooldown_days \in Nat /\ Params.expire_days \in Nat
    /\ Params.expiry_days \in Nat
BY JudgmentAssumption DEF ParamNames

-----------------------------------------------------------------------------
(* What the judgment hands to the night.                                    *)
LEMMA HitsOfRules ==
    ASSUME NEW asOf, NEW h \in AllRules(asOf)
    PROVE  /\ h.contact \in Contacts \cup {None}
           /\ h.rule \in DealOwnerRules => h.contact \in Contacts
<1>1. CASE h \in HotResponse \cup DemoNoShow \cup QuietReengage(asOf) \cup LostAging(asOf)
  BY <1>1 DEF HotResponse, DemoNoShow, QuietReengage, LostAging, ForContact
<1>2. CASE h \in ReturnedMail \cup OrphanEvents \cup DncVersionAlert(asOf) \cup BatchCheckpoint(asOf)
  BY <1>2 DEF ReturnedMail, OrphanEvents, DncVersionAlert, BatchCheckpoint, RollUp, DealOwnerRules
<1>3. CASE h \in ApprovalPending(asOf) \cup WaveAnomaly(asOf)
  BY <1>3 DEF ApprovalPending, WaveAnomaly, ForWave, DealOwnerRules
<1> QED BY <1>1, <1>2, <1>3 DEF AllRules

LEMMA PreparedHits ==
    ASSUME owner \in [Contacts -> Partners \cup {House}], NEW asOf, NEW x \in Prepared(asOf)
    PROVE  /\ x.founder \in Partners \cup {House}
           /\ x.hit.contact \in Contacts \cup {None}
           /\ x.hit.contact # None => ~HasFutureAction(x.hit.contact, asOf)
           /\ ~InCooldown(x.hit, asOf)
<1>1. PICK h \in AllRules(asOf) :
         /\ x = [hit |-> h, founder |-> Recipient(h)]
         /\ h.contact # None => ~HasFutureAction(h.contact, asOf)
         /\ ~InCooldown(h, asOf)
  BY DEF Prepared
<1>2. Recipient(h) \in Partners \cup {House}
  BY HitsOfRules DEF Recipient
<1> QED BY <1>1, <1>2, HitsOfRules

-----------------------------------------------------------------------------
(* Types.  A night is a record, which its fields alone do not say.          *)
Shape ==
    night = [step |-> night.step, asOf |-> night.asOf, prepared |-> night.prepared,
             counts |-> night.counts, queue |-> night.queue,
             now |-> night.now, left |-> night.left, partner |-> night.partner,
             body |-> night.body]

Typed == TypeOK /\ Shape

LEMMA InitTyped == Init => Typed
<1> SUFFICES ASSUME Init PROVE Typed
  OBVIOUS
<1>1. world \in Worlds /\ clock = 1 /\ night = Idle /\ known = world.known /\ agenda = world.agenda
  BY DEF Init
<1>2. clock \in Times \ {0} /\ Day(clock) \in Nat
  BY <1>1, NightAssumption, DerivationAssumption, DayMonotone DEF Times
<1>3. Shape
  BY <1>1 DEF Shape, Idle
<1>4. known \subseteq Observed /\ \A e \in known : e.at <= clock
  BY <1>1, NightAssumption
<1>5. /\ night.step = "idle" /\ night.asOf = 0 /\ night.prepared = {} /\ night.queue = <<>>
      /\ night.counts \in [Partners \cup {House} -> Nat]
      /\ night.now = 0 /\ night.left = {} /\ night.partner = None
      /\ night.body = {}
  BY <1>1 DEF Idle
<1> QED
  BY <1>1, <1>2, <1>3, <1>4, <1>5, DerivationAssumption DEF Init, Typed, TypeOK, Times, ContactStages

LEMMA TickTyped == Typed /\ Tick => Typed'
<1> SUFFICES ASSUME Typed, Tick PROVE Typed'
  OBVIOUS
<1>1. clock' = clock + 1 /\ clock < Horizon /\ clock \in Nat
  BY DEF Tick, Typed, TypeOK, Times
<1>2. Day(clock) \in Nat /\ Day(clock') \in Nat /\ Day(clock) <= Day(clock')
  BY <1>1, DayMonotone
<1>3. /\ clock' \in Times \ {0} /\ 0..clock \subseteq 0..clock'
      /\ 0..Day(clock) \subseteq 0..Day(clock')
  BY <1>1, <1>2, DerivationAssumption DEF Times
<1>4. \A n \in nudges : n.at \in n.night..clock'
  BY <1>1 DEF Typed, TypeOK, Times
<1>5. \A e \in known : e.at <= clock'
  BY <1>1 DEF Typed, TypeOK, Times, Observed
<1>6. /\ UNCHANGED <<world, snapshot, slot, nudges, lastReport, night, lastNight, delivered, told,
                     broken, mishaps>>
      /\ UNCHANGED <<agenda, known, owner, pointer, batches, news>>
  BY DEF Tick, outsideVars
<1> QED BY <1>3, <1>4, <1>5, <1>6 DEF Typed, TypeOK, Shape

LEMMA OutsideTyped ==
    ASSUME Typed, NEW h \in agenda, Outside(h)
    PROVE  Typed'
<1>1. world.agenda \subseteq Agenda /\ h \in Agenda
  BY NightAssumption DEF Typed, TypeOK
<1>2. /\ agenda' \subseteq agenda
      /\ world' = world /\ clock' = clock /\ snapshot' = snapshot /\ nudges' = nudges
      /\ lastReport' = lastReport /\ lastNight' = lastNight /\ delivered' = delivered
      /\ told' = told /\ broken' = broken /\ mishaps' = mishaps
  BY DEF Outside
<1>3. CASE Learn(h)
  <2>1. /\ h.event \in Observed /\ h.event.at <= clock /\ known' = known \cup {h.event}
        /\ slot' = slot /\ night' = night /\ owner' = owner /\ pointer' = pointer
        /\ batches' = batches /\ news' = news
    BY <1>1, <1>3 DEF Learn, Agenda
  <2> QED BY <1>2, <2>1 DEF Typed, TypeOK, Shape
<1>4. CASE HumanSets(h)
  <2>1. /\ h.contact \in Contacts /\ h.date \in Nat
        /\ slot' = [slot EXCEPT ![h.contact] = [date |-> h.date, human |-> TRUE]]
        /\ known' = known /\ owner' = owner /\ pointer' = pointer
        /\ batches' = batches /\ news' = news
    BY <1>1, <1>4 DEF HumanSets, Agenda
  <2>2. night' = night
    BY <1>4 DEF HumanSets
  <2>3. slot' \in [Contacts -> Action \cup {None}]
    BY <2>1 DEF Typed, TypeOK, Action
  <2> QED BY <1>2, <2>1, <2>2, <2>3 DEF Typed, TypeOK, Shape
<1>5. CASE Assign(h)
  <2>1. PICK b : b = [partner |-> h.partner, at |-> clock,
                      expires |-> clock + Days(Params.expiry_days)]
    OBVIOUS
  <2>2. /\ h.partner \in Partners /\ h.contacts \subseteq Contacts
        /\ batches' = batches \cup {b}
        /\ owner' = [c \in Contacts |-> IF c \in h.contacts THEN h.partner ELSE owner[c]]
        /\ pointer' = [c \in Contacts |-> IF c \in h.contacts THEN b ELSE pointer[c]]
        /\ slot' = slot /\ night' = night /\ known' = known /\ news' = news
    BY <1>1, <1>5, <2>1 DEF Assign, Agenda
  <2>3. b \in Batch
    <3>1. Days(Params.expiry_days) \in Nat
      BY ParamsAreNat, DaysAreNat
    <3> QED BY <2>1, <2>2, <3>1 DEF Typed, TypeOK, Batch, Times
  <2>4. /\ owner' \in [Contacts -> Partners \cup {House}]
        /\ pointer' \in [Contacts -> batches' \cup {None}]
    BY <2>2 DEF Typed, TypeOK
  <2> QED BY <1>2, <2>2, <2>3, <2>4 DEF Typed, TypeOK, Shape
<1>6. CASE Remove(h)
  <2>1. /\ h.contact \in Contacts /\ owner[h.contact] \in Partners
        /\ owner' = [owner EXCEPT ![h.contact] = House]
        /\ pointer' = [pointer EXCEPT ![h.contact] = None]
        /\ slot' = slot /\ night' = night /\ known' = known /\ batches' = batches
    BY <1>1, <1>6 DEF Remove, Agenda, Typed, TypeOK
  <2>2. PICK at \in {clock - 1, clock} :
           news' = news \cup {[partner |-> owner[h.contact], contact |-> h.contact,
                               at |-> at, raced |-> Raced(owner[h.contact], at)]}
    BY <1>6 DEF Remove
  <2>3. at \in Times /\ Raced(owner[h.contact], at) \in BOOLEAN
    BY <2>2, DerivationAssumption DEF Typed, TypeOK, Times, Raced
  <2>4. news' \subseteq Removal /\ news \subseteq news'
    BY <2>1, <2>2, <2>3 DEF Typed, TypeOK, Removal
  <2> QED BY <1>2, <2>1, <2>4 DEF Typed, TypeOK, Shape
<1> QED BY <1>3, <1>4, <1>5, <1>6 DEF Outside

(* The two halves of the type: what surrounds a night, and the night.       *)
Around ==
    /\ world \in Worlds /\ agenda \subseteq world.agenda /\ mishaps \in Nat
    /\ clock \in Times \ {0} /\ lastNight \in 0..clock /\ broken \subseteq Times
    /\ known \subseteq Observed /\ \A e \in known : e.at <= clock
    /\ snapshot \in [Contacts -> ContactStages]
    /\ owner \in [Contacts -> Partners \cup {House}]
    /\ batches \subseteq Batch /\ pointer \in [Contacts -> batches \cup {None}]
    /\ slot \in [Contacts -> Action \cup {None}]
    /\ news \subseteq Removal /\ told \subseteq news
    /\ lastReport \in [Partners -> Times \cup {None}]
    /\ delivered \subseteq nudges
    /\ \A n \in nudges :
          /\ n.founder \in Partners \cup {House} /\ n.hit.contact \in Contacts \cup {None}
          /\ n.night \in 0..lastNight /\ n.at \in n.night..clock

Within ==
    /\ night.step \in {"idle", "expire", "evaluate", "digest", "report", "send", "stamp"}
    /\ night.asOf \in 0..Day(clock) /\ night.now \in 0..clock
    /\ \A x \in night.prepared :
          x.founder \in Partners \cup {House} /\ x.hit.contact \in Contacts \cup {None}
    /\ night.counts \in [Partners \cup {House} -> Nat]
    /\ night.queue \in Seq(Partners \cup {House})
    /\ night.left \subseteq Partners
    /\ night.partner \in Partners \cup {None} /\ night.body \subseteq news
    /\ night.step \in {"send", "stamp"} <=> night.partner # None

LEMMA Halves == Typed <=> Around /\ Within /\ Shape
BY DEF Typed, TypeOK, Around, Within

(* The steps of a digest leave what surrounds it alone.                     *)
LEMMA DigestAround ==
    ASSUME Typed, UNCHANGED <<digestVars, snapshot, lastNight, told>>,
           nudges \subseteq nudges',
           \A n \in nudges' \ nudges : /\ n.founder \in Partners \cup {House}
                                       /\ n.hit.contact \in Contacts \cup {None}
                                       /\ n.night = lastNight /\ n.at = clock,
           slot' \in [Contacts -> Action \cup {None}], delivered' \subseteq nudges',
           broken' \subseteq broken \cup {lastNight}, mishaps' \in Nat
    PROVE  Around' /\ UNCHANGED <<digestVars, outsideVars, clock, world>>
<1>1. /\ world' = world /\ clock' = clock /\ agenda' = agenda /\ known' = known
      /\ owner' = owner /\ pointer' = pointer /\ batches' = batches /\ news' = news
      /\ lastReport' = lastReport /\ snapshot' = snapshot /\ told' = told /\ lastNight' = lastNight
  BY DEF digestVars, outsideVars
<1>2. lastNight \in Times /\ lastNight \in 0..lastNight /\ clock \in lastNight..clock
  BY DerivationAssumption DEF Typed, TypeOK, Times
<1>3. \A n \in nudges' :
         /\ n.founder \in Partners \cup {House} /\ n.hit.contact \in Contacts \cup {None}
         /\ n.night \in 0..lastNight' /\ n.at \in n.night..clock'
  BY <1>1, <1>2 DEF Typed, TypeOK
<1>4. Around'
  BY <1>1, <1>2, <1>3 DEF Typed, TypeOK, Around
<1> QED BY <1>1, <1>4 DEF digestVars, outsideVars

LEMMA IdleWithin ==
    ASSUME clock' \in Times, night' = Idle
    PROVE  Within' /\ Shape'
<1>1. clock' \in Nat
  BY DerivationAssumption DEF Times
<1>2. Day(clock') \in Nat
  BY <1>1, DayMonotone
<1> QED BY <1>1, <1>2 DEF Idle, Within, Shape, Day

LEMMA BeginTyped == Typed /\ NightBegins => Typed'
<1> SUFFICES ASSUME Typed, NightBegins PROVE Typed'
  OBVIOUS
<1>1. /\ world' = world /\ clock' = clock /\ agenda' = agenda /\ known' = known
      /\ owner' = owner /\ pointer' = pointer /\ batches' = batches /\ news' = news
      /\ lastReport' = lastReport /\ slot' = slot /\ told' = told /\ nudges' = nudges
      /\ delivered' = delivered /\ broken' = broken /\ mishaps' = mishaps
      /\ lastNight' = clock /\ lastNight < clock
      /\ snapshot' = [c \in Contacts |-> DeriveStage(Of(c))]
      /\ night' = [Idle EXCEPT !.step = "expire"]
  BY DEF NightBegins, digestVars, outsideVars
<1>2. snapshot' \in [Contacts -> ContactStages]
  BY <1>1 DEF DeriveStage, ContactStages
<1>3. clock \in Nat /\ lastNight \in Nat /\ Day(clock) \in Nat
  BY DerivationAssumption, DayMonotone DEF Typed, TypeOK, Times
<1>4. Around'
  BY <1>1, <1>2, <1>3 DEF Typed, TypeOK, Around
<1>5. /\ night'.step = "expire" /\ night'.asOf = 0 /\ night'.now = 0
      /\ night'.prepared = {} /\ night'.queue = <<>>
      /\ night'.left = {} /\ night'.partner = None /\ night'.body = {}
      /\ night'.counts = [f \in Partners \cup {House} |-> 0] /\ Shape'
  BY <1>1 DEF Idle, Shape
<1>6. Within'
  <2>1. night'.queue \in Seq(Partners \cup {House})
    BY <1>5
  <2>2. night'.counts \in [Partners \cup {House} -> Nat]
    BY <1>5
  <2>3. night'.asOf \in 0..Day(clock') /\ night'.now \in 0..clock'
    BY <1>1, <1>3, <1>5
  <2>4. Day(clock') = Day(clock)'
    BY DEF Day
  <2> QED BY <1>5, <2>1, <2>2, <2>3, <2>4 DEF Within
<1> QED BY <1>4, <1>5, <1>6 DEF Typed, TypeOK, Around, Within

LEMMA ExpireTyped == Typed /\ ExpireStaleActions => Typed'
<1> SUFFICES ASSUME Typed, ExpireStaleActions PROVE Typed'
  OBVIOUS
<1>1. /\ UNCHANGED <<digestVars, snapshot, lastNight, told>> /\ nudges' = nudges
      /\ delivered' = delivered /\ broken' = broken /\ mishaps' = mishaps
      /\ slot' = Expired(Day(clock))
      /\ night' = [night EXCEPT !.step = "evaluate", !.asOf = Day(clock)]
      /\ night.step = "expire"
  BY DEF ExpireStaleActions
<1>2. slot' \in [Contacts -> Action \cup {None}]
  BY <1>1 DEF Expired, Typed, TypeOK
<1>3. Around' /\ clock' = clock /\ news' = news
  BY <1>1, <1>2, DigestAround DEF Typed, TypeOK, digestVars, outsideVars
<1>4. Day(clock) \in Nat
  BY DerivationAssumption, DayMonotone DEF Typed, TypeOK, Times
<1>5. /\ night'.step = "evaluate" /\ night'.asOf = Day(clock) /\ night'.now = night.now
      /\ night'.prepared = night.prepared /\ night'.queue = night.queue
      /\ night'.left = night.left
      /\ night'.partner = night.partner /\ night'.body = night.body
      /\ night'.counts = night.counts /\ Shape'
  BY <1>1 DEF Typed, Shape
<1>6. Within'
  BY <1>1, <1>3, <1>4, <1>5, Halves DEF Within, Day
<1> QED BY <1>3, <1>5, <1>6 DEF Typed, TypeOK, Around, Within

LEMMA EvaluateTyped == Typed /\ Evaluate => Typed'
<1> SUFFICES ASSUME Typed, Evaluate PROVE Typed'
  OBVIOUS
<1>1. /\ UNCHANGED <<digestVars, snapshot, lastNight, told>> /\ nudges' = nudges
      /\ delivered' = delivered /\ broken' = broken /\ mishaps' = mishaps
      /\ slot' = slot /\ night.step = "evaluate"
      /\ night' = [night EXCEPT !.step = "digest", !.prepared = Prepared(night.asOf)]
  BY DEF Evaluate
<1>2. Around' /\ clock' = clock /\ news' = news
  BY <1>1, DigestAround DEF Typed, TypeOK, digestVars, outsideVars
<1>3. \A x \in Prepared(night.asOf) :
         x.founder \in Partners \cup {House} /\ x.hit.contact \in Contacts \cup {None}
  BY PreparedHits DEF Typed, TypeOK
<1>4. Within' /\ Shape'
  BY <1>1, <1>2, <1>3, Halves DEF Within, Shape, Day
<1> QED BY <1>2, <1>4 DEF Typed, TypeOK, Around, Within

LEMMA PassOverTyped == ASSUME Typed, NEW x \in night.prepared, PassOver(x) PROVE Typed'
<1>1. /\ UNCHANGED <<digestVars, snapshot, lastNight, told>> /\ nudges' = nudges
      /\ delivered' = delivered /\ broken' = broken /\ mishaps' = mishaps
      /\ slot' = slot /\ night' = [night EXCEPT !.prepared = @ \ {x}]
  BY DEF PassOver
<1>2. Around' /\ clock' = clock /\ news' = news
  BY <1>1, DigestAround DEF Typed, TypeOK, digestVars, outsideVars
<1>3. Within' /\ Shape'
  BY <1>1, <1>2, Halves DEF Within, Shape, Day
<1> QED BY <1>2, <1>3 DEF Typed, TypeOK, Around, Within

(* Record, field by field.                                                  *)
LEMMA RecordFields ==
    ASSUME Typed, NEW x \in night.prepared, Record(x)
    PROVE  /\ night'.step = "digest" /\ night.step = "digest" /\ night'.asOf = night.asOf
           /\ night'.prepared = night.prepared \ {x}
           /\ night'.counts = [night.counts EXCEPT ![x.founder] = @ + 1]
           /\ night'.queue = IF night.counts[x.founder] = 0 THEN Append(night.queue, x.founder)
                             ELSE night.queue
           /\ night'.now = night.now
           /\ night'.left = night.left /\ night'.partner = night.partner
           /\ night'.body = night.body /\ Shape'
<1>1. /\ night' = [night EXCEPT !.prepared = @ \ {x}, !.counts[x.founder] = @ + 1,
                                !.queue = IF night.counts[x.founder] = 0
                                          THEN Append(@, x.founder) ELSE @]
      /\ night.step = "digest"
  BY DEF Record, NextHit
<1> QED BY <1>1 DEF Typed, Shape

LEMMA RecordTyped == ASSUME Typed, NEW x \in night.prepared, Record(x) PROVE Typed'
<1>1. PICK n : n = [hit |-> x.hit, founder |-> x.founder, at |-> clock, night |-> lastNight]
  OBVIOUS
<1>2. /\ UNCHANGED <<digestVars, snapshot, lastNight, told>> /\ nudges' = nudges \cup {n}
      /\ delivered' = delivered /\ broken' = broken /\ mishaps' = mishaps
      /\ slot' = IF x.hit.contact = None THEN slot
                 ELSE [slot EXCEPT ![x.hit.contact] = [date |-> night.asOf, human |-> FALSE]]
  BY <1>1 DEF Record
<1>3. /\ x.founder \in Partners \cup {House} /\ x.hit.contact \in Contacts \cup {None}
      /\ night.asOf \in Nat
  <2>1. Day(clock) \in Nat
    BY DerivationAssumption, DayMonotone DEF Typed, TypeOK, Times
  <2> QED BY <2>1 DEF Typed, TypeOK
<1>4. slot' \in [Contacts -> Action \cup {None}]
  BY <1>2, <1>3 DEF Typed, TypeOK, Action
<1>5. Around' /\ clock' = clock /\ news' = news
  BY <1>1, <1>2, <1>3, <1>4, DigestAround DEF Typed, TypeOK, digestVars, outsideVars
<1>6. /\ night'.step = "digest" /\ night.step = "digest" /\ night'.asOf = night.asOf
      /\ night'.prepared = night.prepared \ {x}
      /\ night'.counts = [night.counts EXCEPT ![x.founder] = @ + 1]
      /\ night'.queue = IF night.counts[x.founder] = 0 THEN Append(night.queue, x.founder)
                        ELSE night.queue
      /\ night'.now = night.now
      /\ night'.left = night.left /\ night'.partner = night.partner
      /\ night'.body = night.body /\ Shape'
  BY RecordFields
<1>7. night'.queue \in Seq(Partners \cup {House})
  <2>1. night.queue \in Seq(Partners \cup {House})
    BY DEF Typed, TypeOK
  <2>2. Append(night.queue, x.founder) \in Seq(Partners \cup {House})
    BY <1>3, <2>1
  <2> QED BY <1>6, <2>1, <2>2
<1>8. night'.counts \in [Partners \cup {House} -> Nat]
  BY <1>3, <1>6 DEF Typed, TypeOK
<1>9. Within'
  BY <1>3, <1>5, <1>6, <1>7, <1>8, Halves DEF Within, Day
<1> QED BY <1>5, <1>6, <1>9 DEF Typed, TypeOK, Around, Within

(* The steps by which a night ends.                                         *)
LEMMA EndTyped ==
    ASSUME Typed, NightEnds \/ NightDies \/ DigestFails
    PROVE  Typed'
<1>1. /\ UNCHANGED <<digestVars, snapshot, lastNight, told>> /\ nudges' = nudges
      /\ slot' = slot /\ night' = Idle
      /\ broken' \subseteq broken \cup {lastNight}
  BY DEF NightEnds, NightDies, DigestFails
<1>2. mishaps' \in Nat
  BY DEF NightEnds, NightDies, DigestFails, Mishap, Typed, TypeOK
<1>3. delivered' \subseteq nudges'
  BY <1>1 DEF NightEnds, NightDies, DigestFails, Digest, Typed, TypeOK
<1>4. Around' /\ clock' = clock
  BY <1>1, <1>2, <1>3, DigestAround DEF Typed, TypeOK
<1>5. clock' \in Times
  BY <1>4 DEF Typed, TypeOK
<1>6. Within' /\ Shape'
  BY <1>1, <1>5, IdleWithin
<1> QED BY <1>4, <1>6 DEF Typed, TypeOK, Around, Within

(* A send takes the first founder off the queue.                            *)
LEMMA SendTyped == Typed /\ SendDigest => Typed'
<1> SUFFICES ASSUME Typed, SendDigest PROVE Typed'
  OBVIOUS
<1>1. /\ UNCHANGED <<digestVars, snapshot, lastNight, told>> /\ nudges' = nudges
      /\ slot' = slot /\ broken' = broken /\ mishaps' = mishaps
      /\ delivered' = delivered \cup Digest(Head(night.queue))
      /\ night' = [night EXCEPT !.queue = Tail(night.queue)] /\ night.queue # <<>>
  BY DEF SendDigest
<1>2. delivered' \subseteq nudges'
  BY <1>1 DEF Digest, Typed, TypeOK
<1>3. Around' /\ clock' = clock /\ news' = news
  BY <1>1, <1>2, DigestAround DEF Typed, TypeOK, digestVars, outsideVars
<1>4. /\ night'.step = night.step /\ night'.asOf = night.asOf
      /\ night'.prepared = night.prepared /\ night'.counts = night.counts
      /\ night'.queue = Tail(night.queue)
      /\ night'.now = night.now /\ night'.left = night.left
      /\ night'.partner = night.partner /\ night'.body = night.body /\ Shape'
  BY <1>1 DEF Typed, Shape
<1>5. night'.queue \in Seq(Partners \cup {House})
  BY <1>1, <1>4 DEF Typed, TypeOK
<1>6. Within'
  BY <1>3, <1>4, <1>5, Halves DEF Within, Day
<1> QED BY <1>3, <1>4, <1>6 DEF Typed, TypeOK, Around, Within

(* The steps of the reports.                                                *)
LEMMA ReportAround ==
    ASSUME Typed, UNCHANGED reportVars, clock' \in clock..Horizon, told' \subseteq news,
           lastReport' \in [Partners -> Times \cup {None}], mishaps' \in Nat
    PROVE  Around' /\ 0..clock \subseteq 0..clock' /\ 0..Day(clock) \subseteq 0..Day(clock')
<1>1. /\ world' = world /\ agenda' = agenda /\ known' = known /\ nudges' = nudges
      /\ owner' = owner /\ pointer' = pointer /\ batches' = batches /\ news' = news
      /\ snapshot' = snapshot /\ slot' = slot /\ lastNight' = lastNight
      /\ delivered' = delivered /\ broken' = broken
  BY DEF reportVars, outsideVars
<1>2. clock \in Nat /\ clock' \in Nat /\ clock <= clock' /\ clock' \in Times \ {0}
  BY DerivationAssumption DEF Typed, TypeOK, Times
<1>3. Day(clock) \in Nat /\ Day(clock') \in Nat /\ Day(clock) <= Day(clock')
  BY <1>2, DayMonotone
<1>4. \A n \in nudges : n.at \in n.night..clock'
  BY <1>2 DEF Typed, TypeOK, Times
<1>5. \A e \in known : e.at <= clock'
  BY <1>2 DEF Typed, TypeOK, Times, Observed
<1>6. Around'
  BY <1>1, <1>2, <1>4, <1>5 DEF Typed, TypeOK, Around
<1> QED BY <1>2, <1>3, <1>6

LEMMA ReportsBeginTyped == Typed /\ ReportsBegin => Typed'
<1> SUFFICES ASSUME Typed, ReportsBegin PROVE Typed'
  OBVIOUS
<1>1. /\ UNCHANGED reportVars /\ clock < Horizon /\ clock' = clock + 1
      /\ lastReport' = lastReport /\ told' = told /\ mishaps' = mishaps
      /\ night' = [night EXCEPT !.step = "report", !.now = clock, !.left = world.active]
      /\ night.step = "digest"
  BY DEF ReportsBegin
<1>2. clock \in Nat /\ clock' \in clock..Horizon
  BY <1>1, DerivationAssumption DEF Typed, TypeOK, Times
<1>3. /\ Around' /\ 0..clock \subseteq 0..clock' /\ 0..Day(clock) \subseteq 0..Day(clock')
      /\ news' = news
  BY <1>1, <1>2, ReportAround DEF Typed, TypeOK, reportVars, outsideVars
<1>4. /\ night'.step = "report" /\ night'.asOf = night.asOf
      /\ night'.prepared = night.prepared /\ night'.counts = night.counts
      /\ night'.queue = night.queue
      /\ night'.now = clock /\ night'.left = world.active
      /\ night'.partner = night.partner /\ night'.body = night.body /\ Shape'
  BY <1>1 DEF Typed, Shape
<1>5. world.active \subseteq Partners
  BY NightAssumption DEF Typed, TypeOK
<1>6. clock \in 0..clock'
  BY <1>2
<1>7. Within'
  BY <1>1, <1>3, <1>4, <1>5, <1>6, Halves DEF Within, Day
<1> QED BY <1>3, <1>4, <1>7 DEF Typed, TypeOK, Around, Within

(* What a step of the reports does to the night.                            *)
LEMMA ThroughFields ==
    ASSUME Typed, NEW p, night' = Through(p)
    PROVE  /\ night'.step = "report" /\ night'.asOf = night.asOf
           /\ night'.prepared = night.prepared /\ night'.counts = night.counts
           /\ night'.queue = night.queue
           /\ night'.now = night.now /\ night'.left = night.left \ {p}
           /\ night'.partner = None /\ night'.body = {} /\ Shape'
BY DEF Typed, Shape, Through

ReportMoves ==
    \/ \E p : night' = Through(p)
    \/ \E p \in Partners : night' = [night EXCEPT !.step = "send", !.partner = p,
                                                  !.body = Removals(p)]
    \/ night.step = "send" /\ night' = [night EXCEPT !.step = "stamp"]

LEMMA ReportTyped ==
    ASSUME Typed, UNCHANGED <<reportVars, clock>>, told' \subseteq news,
           lastReport' \in [Partners -> Times \cup {None}], mishaps' \in Nat,
           ReportMoves
    PROVE  Typed'
<1>1. clock' = clock /\ clock' \in clock..Horizon /\ news' = news
  <2>1. clock \in Times
    BY DEF Typed, TypeOK
  <2>2. clock' = clock /\ news' = news
    BY DEF reportVars, outsideVars
  <2> QED BY <2>1, <2>2, DerivationAssumption DEF Times
<1>2. Around'
  BY <1>1, ReportAround
<1>3. Within' /\ Shape'
  <2>1. CASE \E p : night' = Through(p)
    <3>1. PICK p : night' = Through(p)
      BY <2>1
    <3>2. /\ night'.step = "report" /\ night'.asOf = night.asOf
          /\ night'.prepared = night.prepared /\ night'.counts = night.counts
          /\ night'.queue = night.queue
          /\ night'.now = night.now /\ night'.left = night.left \ {p}
          /\ night'.partner = None /\ night'.body = {} /\ Shape'
      BY <3>1, ThroughFields
    <3> QED BY <1>1, <3>2, Halves DEF Within, Day
  <2>2. CASE \E p \in Partners : night' = [night EXCEPT !.step = "send", !.partner = p,
                                                        !.body = Removals(p)]
    <3>1. PICK p \in Partners : night' = [night EXCEPT !.step = "send", !.partner = p,
                                                       !.body = Removals(p)]
      BY <2>2
    <3>2. /\ night'.step = "send" /\ night'.asOf = night.asOf
          /\ night'.prepared = night.prepared /\ night'.counts = night.counts
          /\ night'.queue = night.queue
          /\ night'.now = night.now /\ night'.left = night.left
          /\ night'.partner = p /\ night'.body = Removals(p) /\ Shape'
      BY <3>1 DEF Typed, Shape
    <3>3. Removals(p) \subseteq news /\ p # None
      BY JudgmentAssumption DEF Removals
    <3> QED BY <1>1, <3>2, <3>3, Halves DEF Within, Day
  <2>3. CASE night.step = "send" /\ night' = [night EXCEPT !.step = "stamp"]
    <3>1. /\ night'.step = "stamp" /\ night'.asOf = night.asOf
          /\ night'.prepared = night.prepared /\ night'.counts = night.counts
          /\ night'.queue = night.queue
          /\ night'.now = night.now /\ night'.left = night.left
          /\ night'.partner = night.partner /\ night'.body = night.body /\ Shape'
      BY <2>3 DEF Typed, Shape
    <3> QED BY <1>1, <2>3, <3>1, Halves DEF Within, Day
  <2> QED BY <2>1, <2>2, <2>3 DEF ReportMoves
<1> QED BY <1>2, <1>3 DEF Typed, TypeOK, Around, Within

LEMMA TypedStep == Typed /\ [Next]_vars => Typed'
<1> SUFFICES ASSUME Typed, [Next]_vars PROVE Typed'
  OBVIOUS
<1>1. ASSUME NEW p \in Partners, ReportReads(p) PROVE Typed'
  <2>1. /\ UNCHANGED <<reportVars, clock>> /\ told' \subseteq news
        /\ lastReport' \in [Partners -> Times \cup {None}] /\ mishaps' \in Nat
    BY <1>1 DEF ReportReads, Typed, TypeOK
  <2>2. \/ night' = Through(p)
        \/ night' = [night EXCEPT !.step = "send", !.partner = p, !.body = Removals(p)]
    BY <1>1 DEF ReportReads
  <2> QED BY <2>1, <2>2, ReportTyped DEF ReportMoves
<1>2. ASSUME ReportSent PROVE Typed'
  <2>1. /\ UNCHANGED <<reportVars, clock>> /\ told' \subseteq news
        /\ lastReport' \in [Partners -> Times \cup {None}] /\ mishaps' \in Nat
        /\ night.step = "send" /\ night' = [night EXCEPT !.step = "stamp"]
    BY <1>2 DEF ReportSent, Typed, TypeOK
  <2> QED BY <2>1, ReportTyped DEF ReportMoves
<1>3. ASSUME ReportFails PROVE Typed'
  <2>1. /\ UNCHANGED <<reportVars, clock>> /\ told' \subseteq news
        /\ lastReport' \in [Partners -> Times \cup {None}] /\ mishaps' \in Nat
        /\ night' = Through(night.partner)
    BY <1>3 DEF ReportFails, Mishap, Typed, TypeOK
  <2> QED BY <2>1, ReportTyped DEF ReportMoves
<1>4. ASSUME ReportStamped PROVE Typed'
  <2>1. /\ UNCHANGED <<reportVars, clock>> /\ told' = told /\ mishaps' = mishaps
        /\ lastReport' = [lastReport EXCEPT ![night.partner] = night.now]
        /\ night' = Through(night.partner)
    BY <1>4 DEF ReportStamped, Stamp
  <2>2. night.now \in Times
    BY DerivationAssumption DEF Typed, TypeOK, Times
  <2>3. /\ told' \subseteq news /\ mishaps' \in Nat
        /\ lastReport' \in [Partners -> Times \cup {None}]
    BY <2>1, <2>2 DEF Typed, TypeOK
  <2> QED BY <2>1, <2>3, ReportTyped DEF ReportMoves
<1>5. CASE UNCHANGED vars
  BY <1>5 DEF vars, outsideVars, Typed, TypeOK, Shape, Day
<1> QED BY <1>1, <1>2, <1>3, <1>4, <1>5, TickTyped, OutsideTyped, BeginTyped, ExpireTyped,
           EvaluateTyped, PassOverTyped, RecordTyped, SendTyped, EndTyped, ReportsBeginTyped
        DEF Next

(* Every component keeps to its kind, in whatever order nights, people and  *)
(* feeds take their steps.                                                  *)
THEOREM TypeCorrect == Spec => []TypeOK
<1>1. Typed => TypeOK
  BY DEF Typed
<1> QED BY <1>1, InitTyped, TypedStep, PTL DEF Spec

-----------------------------------------------------------------------------
(* Nobody outside moves the night on.                                       *)
LEMMA OutsideNight == \A h \in agenda : Outside(h) => night' = night
BY DEF Outside, Learn, HumanSets, Assign, Remove

-----------------------------------------------------------------------------
(* Delivery.  While tonight's digests are going out, a nudge that is not    *)
(* delivered has its founder in the queue; a founder is queued with his     *)
(* first hit, before the first send.                                        *)
InQueue(f) == \E i \in 1..Len(night.queue) : night.queue[i] = f

Owed ==
    /\ night.step \in {"expire", "evaluate"} =>
          /\ \A n \in nudges : n.night < lastNight
          /\ \A f \in Partners \cup {House} : night.counts[f] = 0
    /\ night.step = "digest" /\ world.sender =>
          \A n \in nudges : n.night = lastNight => n \in delivered \/ InQueue(n.founder)
    /\ night.step = "digest" /\ night.prepared # {} =>
          \A f \in Partners \cup {House} : night.counts[f] = 0 \/ InQueue(f)

DeliveryInv == RecordedIsDelivered /\ Owed

(* Steps that record, send and queue nothing.                               *)
LEMMA DeliveryStands ==
    ASSUME DeliveryInv, nudges' = nudges, delivered' = delivered, broken' = broken,
           lastNight' = lastNight, world' = world,
           \/ /\ night'.step = night.step /\ night'.queue = night.queue
              /\ night'.counts = night.counts /\ night'.prepared \subseteq night.prepared
           \/ /\ night.step \in {"report", "send", "stamp"}
              /\ night'.step \in {"idle", "report", "send", "stamp"}
    PROVE  DeliveryInv'
BY DEF DeliveryInv, RecordedIsDelivered, Owed, InQueue

(* A night that ends elsewhere than in its digest owes nothing.             *)
LEMMA EndDelivers ==
    ASSUME Typed, DeliveryInv, NightEnds \/ NightDies \/ DigestFails
    PROVE  DeliveryInv'
<1>1. /\ nudges' = nudges /\ lastNight' = lastNight /\ night'.step = "idle"
      /\ world' = world /\ delivered \subseteq delivered' /\ broken \subseteq broken'
  BY DEF NightEnds, NightDies, DigestFails, digestVars, Idle
<1>2. Owed'
  BY <1>1 DEF Owed
<1>3. night.step = "digest" => lastNight \in broken' \/ ~world.sender
  BY DEF NightEnds, NightDies, DigestFails
<1>4. RecordedIsDelivered'
  BY <1>1, <1>3 DEF DeliveryInv, RecordedIsDelivered
<1> QED BY <1>2, <1>4 DEF DeliveryInv

LEMMA RecordDelivers ==
    ASSUME Typed, DeliveryInv, NEW x \in night.prepared, Record(x)
    PROVE  DeliveryInv'
<1>1. PICK n : n = [hit |-> x.hit, founder |-> x.founder, at |-> clock, night |-> lastNight]
  OBVIOUS
<1>2. /\ nudges' = nudges \cup {n} /\ lastNight' = lastNight /\ world' = world
      /\ delivered' = delivered /\ broken' = broken
  BY <1>1 DEF Record, digestVars
<1>3. /\ night'.step = "digest" /\ night.step = "digest"
      /\ night'.prepared = night.prepared \ {x}
      /\ night'.counts = [night.counts EXCEPT ![x.founder] = @ + 1]
      /\ night'.queue = IF night.counts[x.founder] = 0 THEN Append(night.queue, x.founder)
                        ELSE night.queue
  BY RecordFields
<1>4. /\ x.founder \in Partners \cup {House} /\ night.queue \in Seq(Partners \cup {House})
      /\ night.counts \in [Partners \cup {House} -> Nat]
  BY DEF Typed, TypeOK
<1>5. \A f : InQueue(f) => InQueue(f)'
  <2>1. CASE night.counts[x.founder] = 0
    <3>1. /\ night'.queue = Append(night.queue, x.founder)
          /\ Len(night'.queue) = Len(night.queue) + 1
          /\ \A i \in 1..Len(night.queue) : night'.queue[i] = night.queue[i]
      BY <1>3, <1>4, <2>1
    <3>2. 1..Len(night.queue) \subseteq 1..Len(night'.queue)
      BY <1>4, <3>1
    <3> QED BY <3>1, <3>2 DEF InQueue
  <2>2. CASE night.counts[x.founder] # 0
    BY <1>3, <2>2 DEF InQueue
  <2> QED BY <2>1, <2>2
<1>6. InQueue(x.founder)'
  <2>1. CASE night.counts[x.founder] = 0
    <3>1. /\ night'.queue = Append(night.queue, x.founder)
          /\ Len(night'.queue) = Len(night.queue) + 1 /\ Len(night.queue) \in Nat
          /\ night'.queue[Len(night.queue) + 1] = x.founder
      BY <1>3, <1>4, <2>1
    <3>2. Len(night.queue) + 1 \in 1..Len(night'.queue)
      BY <3>1
    <3> QED BY <3>1, <3>2 DEF InQueue
  <2>2. CASE night.counts[x.founder] # 0
    BY <1>3, <1>4, <1>5, <2>2 DEF DeliveryInv, Owed
  <2> QED BY <2>1, <2>2
<1>7. \A f \in Partners \cup {House} : night'.counts[f] = 0 \/ InQueue(f)'
  BY <1>3, <1>4, <1>5, <1>6 DEF DeliveryInv, Owed
<1>8. world.sender =>
         \A m \in nudges' : m.night = lastNight => m \in delivered \/ InQueue(m.founder)'
  <2>1. InQueue(n.founder)'
    BY <1>1, <1>6
  <2> QED BY <1>2, <1>3, <1>5, <2>1 DEF DeliveryInv, Owed
<1>9. Owed'
  BY <1>2, <1>3, <1>7, <1>8 DEF Owed
<1>10. RecordedIsDelivered'
  BY <1>1, <1>2, <1>3 DEF DeliveryInv, RecordedIsDelivered
<1> QED BY <1>9, <1>10 DEF DeliveryInv

LEMMA SendDelivers == Typed /\ DeliveryInv /\ SendDigest => DeliveryInv'
<1> SUFFICES ASSUME Typed, DeliveryInv, SendDigest PROVE DeliveryInv'
  OBVIOUS
<1>1. /\ nudges' = nudges /\ lastNight' = lastNight /\ world' = world /\ broken' = broken
      /\ delivered' = delivered \cup Digest(Head(night.queue))
      /\ night.step = "digest" /\ night.prepared = {} /\ night.queue # <<>>
      /\ night' = [night EXCEPT !.queue = Tail(night.queue)]
  BY DEF SendDigest, digestVars
<1>2. /\ night'.step = "digest" /\ night'.prepared = {}
      /\ night'.queue = Tail(night.queue) /\ night.queue \in Seq(Partners \cup {House})
  BY <1>1 DEF Typed, TypeOK, Shape
<1>3. \A f : InQueue(f) => f = Head(night.queue) \/ InQueue(f)'
  <2> SUFFICES ASSUME NEW i \in 1..Len(night.queue), i # 1
               PROVE  i - 1 \in 1..Len(night'.queue) /\ night'.queue[i - 1] = night.queue[i]
    BY <1>1, <1>2 DEF InQueue
  <2> QED BY <1>1, <1>2
<1>4. \A n \in nudges : n.night = lastNight /\ n.founder = Head(night.queue) => n \in delivered'
  BY <1>1 DEF Digest
<1>5. Owed'
  BY <1>1, <1>2, <1>3, <1>4 DEF DeliveryInv, Owed
<1>6. RecordedIsDelivered'
  BY <1>1, <1>2 DEF DeliveryInv, RecordedIsDelivered
<1> QED BY <1>5, <1>6 DEF DeliveryInv

LEMMA DeliveryStep == Typed /\ DeliveryInv /\ [Next]_vars => DeliveryInv'
<1> SUFFICES ASSUME Typed, DeliveryInv, [Next]_vars PROVE DeliveryInv'
  OBVIOUS
<1>1. CASE Tick \/ UNCHANGED vars
  <2>1. /\ nudges' = nudges /\ delivered' = delivered /\ broken' = broken
        /\ lastNight' = lastNight /\ world' = world /\ night' = night
    BY <1>1 DEF Tick, vars
  <2> QED BY <2>1, DeliveryStands
<1>2. ASSUME NEW h \in agenda, Outside(h) PROVE DeliveryInv'
  <2>1. /\ nudges' = nudges /\ delivered' = delivered /\ broken' = broken
        /\ lastNight' = lastNight /\ world' = world
    BY <1>2 DEF Outside
  <2> QED BY <1>2, <2>1, OutsideNight, DeliveryStands
<1>3. CASE NightBegins
  <2>1. /\ nudges' = nudges /\ delivered' = delivered /\ broken' = broken
        /\ lastNight' = clock /\ lastNight < clock /\ world' = world /\ night.step = "idle"
        /\ night'.step = "expire" /\ \A f \in Partners \cup {House} : night'.counts[f] = 0
    BY <1>3 DEF NightBegins, digestVars, Idle
  <2>2. \A n \in nudges : n.night < clock
    BY <2>1, DerivationAssumption DEF Typed, TypeOK, Times
  <2> QED BY <2>1, <2>2 DEF DeliveryInv, RecordedIsDelivered, Owed
<1>4. CASE ExpireStaleActions
  <2>1. /\ nudges' = nudges /\ delivered' = delivered /\ broken' = broken
        /\ lastNight' = lastNight /\ world' = world /\ night.step = "expire"
        /\ night' = [night EXCEPT !.step = "evaluate", !.asOf = Day(clock)]
    BY <1>4 DEF ExpireStaleActions, digestVars
  <2>2. night'.step = "evaluate" /\ night'.counts = night.counts
    BY <2>1 DEF Typed, Shape
  <2> QED BY <2>1, <2>2 DEF DeliveryInv, RecordedIsDelivered, Owed
<1>5. CASE Evaluate
  <2>1. /\ nudges' = nudges /\ delivered' = delivered /\ broken' = broken
        /\ lastNight' = lastNight /\ world' = world /\ night.step = "evaluate"
        /\ night' = [night EXCEPT !.step = "digest", !.prepared = Prepared(night.asOf)]
    BY <1>5 DEF Evaluate, digestVars
  <2>2. night'.step = "digest" /\ night'.counts = night.counts
    BY <2>1 DEF Typed, Shape
  <2>3. \A n \in nudges : n.night # lastNight
    BY <2>1, DerivationAssumption DEF DeliveryInv, Owed, Typed, TypeOK, Times
  <2> QED BY <2>1, <2>2, <2>3 DEF DeliveryInv, RecordedIsDelivered, Owed
<1>6. ASSUME NEW x \in night.prepared, PassOver(x) PROVE DeliveryInv'
  <2>1. /\ nudges' = nudges /\ delivered' = delivered /\ broken' = broken
        /\ lastNight' = lastNight /\ world' = world
        /\ night' = [night EXCEPT !.prepared = @ \ {x}]
    BY <1>6 DEF PassOver, digestVars
  <2>2. /\ night'.step = night.step /\ night'.queue = night.queue
        /\ night'.counts = night.counts /\ night'.prepared \subseteq night.prepared
    BY <2>1 DEF Typed, Shape
  <2> QED BY <2>1, <2>2, DeliveryStands
<1>7. CASE ReportsBegin
  <2>1. /\ nudges' = nudges /\ delivered' = delivered /\ broken' = broken
        /\ lastNight' = lastNight /\ world' = world /\ world.sender
        /\ night.step = "digest" /\ night.queue = <<>>
        /\ night' = [night EXCEPT !.step = "report", !.now = clock, !.left = world.active]
    BY <1>7 DEF ReportsBegin, reportVars
  <2>2. night'.step = "report" /\ \A f : ~InQueue(f)
    BY <2>1 DEF Typed, Shape, InQueue
  <2> QED BY <2>1, <2>2 DEF DeliveryInv, RecordedIsDelivered, Owed
<1>8. CASE (\E p \in Partners : ReportReads(p)) \/ ReportSent \/ ReportFails \/ ReportStamped
  <2>1. /\ nudges' = nudges /\ delivered' = delivered /\ broken' = broken
        /\ lastNight' = lastNight /\ world' = world
    BY <1>8 DEF ReportReads, ReportSent, ReportFails, ReportStamped, reportVars
  <2>2. /\ night.step \in {"report", "send", "stamp"}
        /\ \/ \E p : night' = Through(p)
           \/ \E p : night' = [night EXCEPT !.step = "send", !.partner = p, !.body = Removals(p)]
           \/ night' = [night EXCEPT !.step = "stamp"]
    BY <1>8 DEF ReportReads, ReportSent, ReportFails, ReportStamped
  <2>3. night'.step \in {"report", "send", "stamp"}
    BY <2>2 DEF Typed, Shape, Through
  <2> QED BY <2>1, <2>2, <2>3, DeliveryStands
<1> QED BY <1>1, <1>2, <1>3, <1>4, <1>5, <1>6, <1>7, <1>8, RecordDelivers, SendDelivers,
           EndDelivers
        DEF Next

LEMMA DeliveryInitial == Init => DeliveryInv
BY DEF Init, Idle, DeliveryInv, RecordedIsDelivered, Owed

(* A recorded nudge is lost to its founder only with its night or for want  *)
(* of a sender, for any number of founders, nights and failures.            *)
THEOREM RecordedArrives == Spec => []RecordedIsDelivered
<1>1. Init => Typed /\ DeliveryInv
  BY InitTyped, DeliveryInitial
<1>2. Typed /\ DeliveryInv /\ [Next]_vars => (Typed /\ DeliveryInv)'
  BY TypedStep, DeliveryStep
<1>3. DeliveryInv => RecordedIsDelivered
  BY DEF DeliveryInv
<1> QED BY <1>1, <1>2, <1>3, PTL DEF Spec

-----------------------------------------------------------------------------
(* Removals.  While a report is on its way, a removal of its partner that   *)
(* nobody was told of, did not race and is not later than its now is in its *)
(* body; when it is to be stamped there is none.                            *)
Untold(r) == r \notin told /\ r.partner = night.partner /\ ~r.raced /\ r.at <= night.now

Due ==
    /\ night.step = "send" => \A r \in news : Untold(r) => r \in night.body
    /\ night.step = "stamp" => \A r \in news : ~Untold(r)

RemovalInv == NoRemovalIsSkipped /\ Due

(* Steps that take nobody back and stamp nothing, and tell, if anybody, of  *)
(* more.                                                                    *)
LEMMA RemovalStands ==
    ASSUME RemovalInv, news' = news, told \subseteq told', lastReport' = lastReport,
           \/ night'.step \notin {"send", "stamp"}
           \/ /\ night'.step = night.step /\ night'.partner = night.partner
              /\ night'.now = night.now /\ night'.body = night.body
    PROVE  RemovalInv'
BY DEF RemovalInv, NoRemovalIsSkipped, Due, Untold

(* A removal is due, or raced, the moment it happens.                       *)
LEMMA RemoveIsDue ==
    ASSUME Typed, RemovalInv, NEW h \in agenda, Outside(h)
    PROVE  RemovalInv'
<1>1. /\ told' = told /\ lastReport' = lastReport /\ night'.step = night.step
      /\ night'.partner = night.partner /\ night'.now = night.now /\ night'.body = night.body
  BY OutsideNight DEF Outside
<1>2. CASE news' = news
  BY <1>1, <1>2, RemovalStands
<1>3. CASE Remove(h)
  <2>1. PICK r : /\ news' = news \cup {r}
                 /\ r.raced = Raced(r.partner, r.at)
                 /\ r.at \in {clock - 1, clock} /\ r.partner = owner[h.contact]
    <3>1. PICK at \in {clock - 1, clock} :
             news' = news \cup {[partner |-> owner[h.contact], contact |-> h.contact,
                                 at |-> at, raced |-> Raced(owner[h.contact], at)]}
      BY <1>3 DEF Remove
    <3>2. PICK r : r = [partner |-> owner[h.contact], contact |-> h.contact,
                        at |-> at, raced |-> Raced(owner[h.contact], at)]
      OBVIOUS
    <3>3. r.partner = owner[h.contact] /\ r.at = at /\ r.raced = Raced(owner[h.contact], at)
      BY <3>2
    <3>4. r.raced = Raced(r.partner, r.at)
      BY <3>3
    <3> QED BY <3>1, <3>2, <3>3, <3>4
  <2>2. owner[h.contact] \in Partners
    <3>1. h \in Agenda
      BY NightAssumption DEF Typed, TypeOK
    <3> QED BY <1>3, <3>1 DEF Remove, Agenda, Typed, TypeOK
  <2>3. r.at \in Nat /\ night.now \in Nat /\ lastReport[r.partner] \in Nat \cup {None}
    BY <2>1, <2>2, DerivationAssumption DEF Typed, TypeOK, Times
  <2>4. ~r.raced => \/ lastReport[r.partner] = None
                    \/ r.at > lastReport[r.partner]
    BY <2>1, <2>3 DEF Raced
  <2>5. ~r.raced /\ night.step \in {"send", "stamp"} => r.at > night.now
    BY <2>1, <2>3 DEF Raced
  <2>6. NoRemovalIsSkipped'
    BY <1>1, <2>1, <2>4 DEF RemovalInv, NoRemovalIsSkipped
  <2>7. Due'
    BY <1>1, <2>1, <2>3, <2>5 DEF RemovalInv, Due, Untold
  <2> QED BY <2>6, <2>7 DEF RemovalInv
<1> QED BY <1>2, <1>3 DEF Outside, Learn, HumanSets, Assign

LEMMA RemovalStep == Typed /\ RemovalInv /\ [Next]_vars => RemovalInv'
<1> SUFFICES ASSUME Typed, RemovalInv, [Next]_vars PROVE RemovalInv'
  OBVIOUS
<1>1. CASE Tick \/ UNCHANGED vars
  <2>1. news' = news /\ told' = told /\ lastReport' = lastReport /\ night' = night
    BY <1>1 DEF Tick, vars, outsideVars
  <2> QED BY <2>1, RemovalStands
<1>2. ASSUME NEW h \in agenda, Outside(h) PROVE RemovalInv'
  BY <1>2, RemoveIsDue
<1>3. CASE \/ NightBegins \/ ExpireStaleActions \/ Evaluate \/ SendDigest \/ DigestFails
           \/ NightEnds \/ NightDies \/ ReportsBegin
           \/ \E x \in night.prepared : PassOver(x) \/ Record(x)
  <2>1. news' = news /\ told' = told /\ lastReport' = lastReport
    BY <1>3 DEF NightBegins, ExpireStaleActions, Evaluate, SendDigest, DigestFails, NightEnds,
                NightDies, ReportsBegin, PassOver, Record, digestVars, reportVars, outsideVars
  <2>2. night'.step \notin {"send", "stamp"}
    <3>1. CASE NightBegins \/ DigestFails \/ NightEnds \/ NightDies
      BY <3>1 DEF NightBegins, DigestFails, NightEnds, NightDies, Idle
    <3>2. CASE ExpireStaleActions \/ Evaluate \/ ReportsBegin
      <4>1. \/ night' = [night EXCEPT !.step = "evaluate", !.asOf = Day(clock)]
            \/ night' = [night EXCEPT !.step = "digest", !.prepared = Prepared(night.asOf)]
            \/ night' = [night EXCEPT !.step = "report", !.now = clock, !.left = world.active]
        BY <3>2 DEF ExpireStaleActions, Evaluate, ReportsBegin
      <4> QED BY <4>1 DEF Typed, Shape
    <3>3. CASE SendDigest \/ \E x \in night.prepared : PassOver(x)
      <4>1. night.step = "digest"
        BY <3>3 DEF SendDigest, PassOver, NextHit
      <4> QED BY <3>3, <4>1 DEF SendDigest, PassOver, Typed, Shape
    <3>4. CASE \E x \in night.prepared : Record(x)
      BY <3>4, RecordFields
    <3> QED BY <1>3, <3>1, <3>2, <3>3, <3>4
  <2> QED BY <2>1, <2>2, RemovalStands
<1>4. ASSUME NEW p \in Partners, ReportReads(p) PROVE RemovalInv'
  <2>1. news' = news /\ told' = told /\ lastReport' = lastReport
    BY <1>4 DEF ReportReads, reportVars, outsideVars
  <2>2. CASE night' = Through(p)
    BY <2>1, <2>2, RemovalStands DEF Typed, Shape, Through
  <2>3. CASE night' = [night EXCEPT !.step = "send", !.partner = p, !.body = Removals(p)]
    <3>1. night'.step = "send" /\ night'.partner = p /\ night'.body = Removals(p)
      BY <2>3 DEF Typed, Shape
    <3>2. \A r \in news : Untold(r)' => r \in Removals(p)
      BY <2>1, <3>1 DEF Untold, RemovalInv, NoRemovalIsSkipped, Removals
    <3>3. Due'
      BY <2>1, <3>1, <3>2 DEF Due
    <3> QED BY <2>1, <3>3 DEF RemovalInv, NoRemovalIsSkipped
  <2> QED BY <1>4, <2>2, <2>3 DEF ReportReads
<1>5. CASE ReportSent
  <2>1. /\ news' = news /\ told' = told \cup night.body /\ lastReport' = lastReport
        /\ night.step = "send" /\ night' = [night EXCEPT !.step = "stamp"]
    BY <1>5 DEF ReportSent, reportVars, outsideVars
  <2>2. night'.step = "stamp" /\ night'.partner = night.partner /\ night'.now = night.now
    BY <2>1 DEF Typed, Shape
  <2> QED BY <2>1, <2>2 DEF RemovalInv, NoRemovalIsSkipped, Due, Untold
<1>6. CASE ReportFails
  <2>1. /\ news' = news /\ told \subseteq told' /\ lastReport' = lastReport
        /\ night' = Through(night.partner)
    BY <1>6 DEF ReportFails, reportVars, outsideVars
  <2>2. night'.step = "report"
    BY <2>1 DEF Typed, Shape, Through
  <2> QED BY <2>1, <2>2, RemovalStands
<1>7. CASE ReportStamped
  <2>1. /\ news' = news /\ told' = told /\ night.step = "stamp"
        /\ lastReport' = [lastReport EXCEPT ![night.partner] = night.now]
        /\ night' = Through(night.partner)
    BY <1>7 DEF ReportStamped, Stamp, reportVars, outsideVars
  <2>2. night'.step = "report"
    BY <2>1 DEF Typed, Shape, Through
  <2>3. \A r \in news : r.at \in Nat /\ r.partner \in Partners
    BY DerivationAssumption DEF Typed, TypeOK, Removal, Times
  <2>4. night.now \in Nat
    BY DerivationAssumption DEF Typed, TypeOK, Times
  <2>5. NoRemovalIsSkipped'
    <3> SUFFICES ASSUME NEW r \in news, r \notin told, ~r.raced,
                        lastReport'[r.partner] # None
                 PROVE  r.at > lastReport'[r.partner]
      BY <2>1 DEF NoRemovalIsSkipped
    <3>1. CASE r.partner = night.partner
      BY <2>1, <2>3, <2>4, <3>1 DEF RemovalInv, Due, Untold, Typed, TypeOK
    <3>2. CASE r.partner # night.partner
      BY <2>1, <3>2 DEF RemovalInv, NoRemovalIsSkipped, Typed, TypeOK
    <3> QED BY <3>1, <3>2
  <2> QED BY <2>2, <2>5 DEF RemovalInv, Due
<1> QED BY <1>1, <1>2, <1>3, <1>4, <1>5, <1>6, <1>7 DEF Next

(* Whatever fails, a removal nobody was told of is due or raced, for any    *)
(* number of partners, batches and nights.                                  *)
THEOREM RemovalsAreTold == Spec => []NoRemovalIsSkipped
<1>1. Init => Typed /\ RemovalInv
  BY InitTyped DEF Init, RemovalInv, NoRemovalIsSkipped, Due, Idle
<1>2. Typed /\ RemovalInv /\ [Next]_vars => (Typed /\ RemovalInv)'
  BY TypedStep, RemovalStep
<1>3. RemovalInv => NoRemovalIsSkipped
  BY DEF RemovalInv
<1> QED BY <1>1, <1>2, <1>3, PTL DEF Spec

-----------------------------------------------------------------------------
(* The cooldown.  What is prepared is clear of the nudges of other nights.  *)
SameSubject(g, h) ==
    /\ g.contact = h.contact
    /\ h.contact = None => g.rule = h.rule /\ g.wave = h.wave

SpokeSince(c, t) == \E e \in known : e.contact = c /\ e.type \in InboundTypes /\ t < e.at

ClearOf(n, h) ==
    \/ Day(n.at) + Params.cooldown_days <= night.asOf
    \/ h.contact # None /\ SpokeSince(h.contact, n.at)

Cleared ==
    night.step = "digest" =>
       \A x \in night.prepared, n \in nudges :
          n.night < lastNight /\ SameSubject(n.hit, x.hit) => ClearOf(n, x.hit)

CooldownInv == CooldownHeld /\ Cleared

(* Nudges are of the past.                                                  *)
LEMMA NudgesPast ==
    ASSUME Typed
    PROVE  /\ clock \in Nat /\ lastNight \in Nat /\ Day(clock) \in Nat
           /\ \A n \in nudges : /\ n.at \in Times /\ n.at \in Nat /\ Day(n.at) \in Nat
                               /\ n.at <= clock /\ n.night \in Nat /\ n.night <= lastNight
<1>1. Horizon \in Nat /\ Times = 0..Horizon
  BY DerivationAssumption DEF Times
<1>2. clock \in 0..Horizon /\ lastNight \in 0..clock
  BY <1>1 DEF Typed, TypeOK
<1>3. clock \in Nat /\ lastNight \in Nat /\ clock <= Horizon
  BY <1>1, <1>2
<1>4. ASSUME NEW n \in nudges
      PROVE  /\ n.at \in Times /\ n.at \in Nat /\ n.at <= clock
             /\ n.night \in Nat /\ n.night <= lastNight
  <2>1. n.night \in 0..lastNight /\ n.at \in n.night..clock
    BY DEF Typed, TypeOK
  <2> QED BY <1>1, <1>3, <2>1
<1>5. Day(clock) \in Nat /\ \A n \in nudges : Day(n.at) \in Nat
  BY <1>3, <1>4, DayMonotone
<1> QED BY <1>3, <1>4, <1>5

(* What is not in cooldown is clear.                                        *)
LEMMA NotInCooldown ==
    ASSUME Typed, NEW h, ~InCooldown(h, night.asOf),
           NEW n \in nudges, SameSubject(n.hit, h)
    PROVE  ClearOf(n, h)
<1>1. n.at \in Before(h)
  BY DEF Before, Nudged, SameSubject
<1>2. Before(h) \subseteq Times
  BY NudgesPast DEF Before, Nudged
<1>3. Latest(Before(h)) \in Times /\ n.at <= Latest(Before(h))
  BY <1>1, <1>2, LatestIsGreatest
<1>4. /\ n.at \in Nat /\ Latest(Before(h)) \in Nat
      /\ Day(n.at) \in Nat /\ Day(Latest(Before(h))) \in Nat
      /\ Day(n.at) <= Day(Latest(Before(h)))
  BY <1>1, <1>2, <1>3, DerivationAssumption, DayMonotone DEF Times
<1>5. night.asOf \in Nat
  <2>1. Day(clock) \in Nat
    BY DerivationAssumption, DayMonotone DEF Typed, TypeOK, Times
  <2> QED BY <2>1 DEF Typed, TypeOK
<1>6. CASE ~(Day(Latest(Before(h))) + Params.cooldown_days > night.asOf)
  BY <1>4, <1>5, <1>6, ParamsAreNat DEF ClearOf
<1>7. CASE h.contact # None /\ \E t \in TimesOf(Of(h.contact), InboundTypes) :
                                  t > Latest(Before(h))
  <2>1. PICK e \in Of(h.contact) : e.type \in InboundTypes /\ e.at > Latest(Before(h))
    BY <1>7 DEF TimesOf
  <2>2. e \in known /\ e.contact = h.contact /\ e.at \in Nat
    BY <2>1, DerivationAssumption DEF Of, Typed, TypeOK, Observed, Times
  <2>3. n.at < e.at
    BY <1>3, <1>4, <2>1, <2>2
  <2> QED BY <1>7, <2>1, <2>2, <2>3 DEF ClearOf, SpokeSince
<1> QED BY <1>1, <1>6, <1>7 DEF InCooldown

(* Steps that record and prepare nothing.                                   *)
LEMMA CooldownStands ==
    ASSUME CooldownInv, nudges' = nudges, known \subseteq known',
           \/ night'.step # "digest"
           \/ /\ night'.step = night.step /\ night'.prepared \subseteq night.prepared
              /\ night'.asOf = night.asOf /\ lastNight' = lastNight
    PROVE  CooldownInv'
<1>1. CooldownHeld'
  BY DEF CooldownInv, CooldownHeld, Of, Day
<1>2. \A c, t : SpokeSince(c, t) => SpokeSince(c, t)'
  BY DEF SpokeSince
<1>3. \A n, h : night'.asOf = night.asOf /\ ClearOf(n, h) => ClearOf(n, h)'
  BY <1>2 DEF ClearOf, Day
<1>4. Cleared'
  BY <1>3 DEF CooldownInv, Cleared, SameSubject
<1> QED BY <1>1, <1>4 DEF CooldownInv

LEMMA RecordKeepsCooldown ==
    ASSUME Typed, CooldownInv, NEW x \in night.prepared, Record(x)
    PROVE  CooldownInv'
<1>1. PICK n : n = [hit |-> x.hit, founder |-> x.founder, at |-> clock, night |-> lastNight]
  OBVIOUS
<1>2. n.hit = x.hit /\ n.at = clock /\ n.night = lastNight
  BY <1>1
<1>3. /\ nudges' = nudges \cup {n} /\ lastNight' = lastNight /\ known' = known
      /\ clock' = clock
  BY <1>1 DEF Record, digestVars, outsideVars
<1>4. /\ night'.step = "digest" /\ night.step = "digest" /\ night'.asOf = night.asOf
      /\ night'.prepared = night.prepared \ {x}
  BY RecordFields
<1>5. \A m \in nudges : m.night \in Nat /\ m.night <= lastNight /\ lastNight \in Nat
  BY NudgesPast
<1>6. Cleared'
  <2>1. \A m, h : ClearOf(m, h) => ClearOf(m, h)'
    BY <1>3, <1>4 DEF ClearOf, SpokeSince, Day
  <2>2. ASSUME NEW y \in night.prepared, NEW m \in nudges \cup {n},
               m.night < lastNight, SameSubject(m.hit, y.hit)
        PROVE  ClearOf(m, y.hit)'
    <3>1. m \in nudges
      BY <1>2, <2>2, NudgesPast
    <3>2. ClearOf(m, y.hit)
      BY <1>4, <2>2, <3>1 DEF CooldownInv, Cleared
    <3> QED BY <2>1, <3>2
  <2> QED BY <1>3, <1>4, <2>2 DEF Cleared, SameSubject
<1>7. ASSUME NEW m \in nudges, m.night < lastNight,
             Day(m.at) + Params.cooldown_days > Day(clock)
      PROVE  /\ m.hit.contact # None /\ m.hit.contact = x.hit.contact =>
                   \E e \in Of(m.hit.contact) :
                      e.type \in InboundTypes /\ m.at < e.at /\ e.at <= clock
             /\ m.hit.contact = None /\ x.hit.contact = None =>
                   m.hit.rule # x.hit.rule \/ m.hit.wave # x.hit.wave
  <2>1. m.at \in Nat /\ Day(m.at) \in Nat /\ Day(clock) \in Nat /\ clock \in Nat
    BY NudgesPast
  <2>2. night.asOf \in Nat /\ night.asOf <= Day(clock)
    BY <2>1 DEF Typed, TypeOK
  <2>3. ~(Day(m.at) + Params.cooldown_days <= night.asOf)
    BY <1>7, <2>1, <2>2, ParamsAreNat
  <2>4. SameSubject(m.hit, x.hit) => x.hit.contact # None /\ SpokeSince(x.hit.contact, m.at)
    BY <1>4, <1>7, <2>3 DEF CooldownInv, Cleared, ClearOf
  <2>5. \A e \in known : e.at <= clock
    BY DEF Typed, TypeOK
  <2> QED BY <2>4, <2>5 DEF SameSubject, SpokeSince, Of
<1>8. CooldownHeld'
  <2> SUFFICES ASSUME NEW m \in nudges', NEW q \in nudges', m.night < q.night,
                      Day(m.at) + Params.cooldown_days > Day(q.at)
               PROVE  /\ m.hit.contact # None /\ m.hit.contact = q.hit.contact =>
                            \E e \in Of(m.hit.contact)' :
                               e.type \in InboundTypes /\ m.at < e.at /\ e.at <= q.at
                      /\ m.hit.contact = None /\ q.hit.contact = None =>
                            m.hit.rule # q.hit.rule \/ m.hit.wave # q.hit.wave
    BY DEF CooldownHeld, Day
  <2>1. m \in nudges
    <3>1. n.night = lastNight /\ lastNight \in Nat
      BY <1>2, NudgesPast
    <3>2. \A k \in nudges' : k.night \in Nat /\ k.night <= lastNight
      BY <1>3, <1>5, <3>1
    <3>3. m.night # lastNight
      BY <3>1, <3>2
    <3> QED BY <1>3, <3>1, <3>3
  <2>2. CASE q \in nudges
    BY <1>3, <2>1, <2>2 DEF CooldownInv, CooldownHeld, Of
  <2>3. CASE q = n
    BY <1>2, <1>3, <1>7, <2>1, <2>3 DEF Of
  <2> QED BY <1>3, <2>2, <2>3
<1> QED BY <1>6, <1>8 DEF CooldownInv

LEMMA CooldownStep == Typed /\ CooldownInv /\ [Next]_vars => CooldownInv'
<1> SUFFICES ASSUME Typed, CooldownInv, [Next]_vars PROVE CooldownInv'
  OBVIOUS
<1>1. CASE Tick \/ UNCHANGED vars
  <2>1. nudges' = nudges /\ known' = known /\ night' = night /\ lastNight' = lastNight
    BY <1>1 DEF Tick, vars, outsideVars
  <2> QED BY <2>1, CooldownStands
<1>2. ASSUME NEW h \in agenda, Outside(h) PROVE CooldownInv'
  <2>1. nudges' = nudges /\ known \subseteq known' /\ lastNight' = lastNight
    BY <1>2 DEF Outside, Learn, HumanSets, Assign, Remove
  <2> QED BY <1>2, <2>1, OutsideNight, CooldownStands
<1>3. CASE NightBegins \/ NightEnds \/ NightDies \/ DigestFails
  <2>1. nudges' = nudges /\ known' = known /\ night'.step # "digest"
    BY <1>3 DEF NightBegins, NightEnds, NightDies, DigestFails, digestVars, outsideVars, Idle
  <2> QED BY <2>1, CooldownStands
<1>4. CASE ExpireStaleActions
  <2>1. /\ nudges' = nudges /\ known' = known
        /\ night' = [night EXCEPT !.step = "evaluate", !.asOf = Day(clock)]
    BY <1>4 DEF ExpireStaleActions, digestVars, outsideVars
  <2>2. night'.step # "digest"
    BY <2>1 DEF Typed, Shape
  <2> QED BY <2>1, <2>2, CooldownStands
<1>5. CASE Evaluate
  <2>1. /\ nudges' = nudges /\ known' = known /\ lastNight' = lastNight
        /\ night' = [night EXCEPT !.step = "digest", !.prepared = Prepared(night.asOf)]
    BY <1>5 DEF Evaluate, digestVars, outsideVars
  <2>2. night'.prepared = Prepared(night.asOf) /\ night'.asOf = night.asOf
    BY <2>1 DEF Typed, Shape
  <2>3. \A y \in Prepared(night.asOf), n \in nudges :
           SameSubject(n.hit, y.hit) => ClearOf(n, y.hit)
    BY PreparedHits, NotInCooldown DEF Typed, TypeOK
  <2>4. Cleared'
    BY <2>1, <2>2, <2>3 DEF Cleared, ClearOf, SameSubject, SpokeSince, Day
  <2>5. CooldownHeld'
    BY <2>1 DEF CooldownInv, CooldownHeld, Of, Day
  <2> QED BY <2>4, <2>5 DEF CooldownInv
<1>6. CASE SendDigest \/ \E x \in night.prepared : PassOver(x)
  <2>1. /\ nudges' = nudges /\ known' = known /\ lastNight' = lastNight
        /\ \/ night' = [night EXCEPT !.queue = Tail(night.queue)]
           \/ \E x : night' = [night EXCEPT !.prepared = night.prepared \ {x}]
    BY <1>6 DEF SendDigest, PassOver, digestVars, outsideVars
  <2>2. /\ night'.step = night.step /\ night'.prepared \subseteq night.prepared
        /\ night'.asOf = night.asOf
    BY <2>1 DEF Typed, Shape
  <2> QED BY <2>1, <2>2, CooldownStands
<1>7. CASE ReportsBegin \/ (\E p \in Partners : ReportReads(p)) \/ ReportSent \/ ReportFails
           \/ ReportStamped
  <2>1. nudges' = nudges /\ known' = known
    BY <1>7 DEF ReportsBegin, ReportReads, ReportSent, ReportFails, ReportStamped, reportVars,
                outsideVars
  <2>2. \/ night' = [night EXCEPT !.step = "report", !.now = clock, !.left = world.active]
        \/ \E p : night' = Through(p)
        \/ \E p : night' = [night EXCEPT !.step = "send", !.partner = p, !.body = Removals(p)]
        \/ night' = [night EXCEPT !.step = "stamp"]
    BY <1>7 DEF ReportsBegin, ReportReads, ReportSent, ReportFails, ReportStamped
  <2>3. night'.step # "digest"
    BY <2>2 DEF Typed, Shape, Through
  <2> QED BY <2>1, <2>3, CooldownStands
<1> QED BY <1>1, <1>2, <1>3, <1>4, <1>5, <1>6, <1>7, RecordKeepsCooldown DEF Next

(* Nobody is nudged by two nights within a cooldown unless he spoke since,  *)
(* and no alarm is repeated within one, for any contacts, rules' parameters *)
(* and nights, run again on a day, dying or crossing midnight.              *)
THEOREM CooldownHolds == Spec => []CooldownHeld
<1>1. Init => Typed /\ CooldownInv
  BY InitTyped DEF Init, Idle, CooldownInv, CooldownHeld, Cleared
<1>2. Typed /\ CooldownInv /\ [Next]_vars => (Typed /\ CooldownInv)'
  BY TypedStep, CooldownStep
<1>3. CooldownInv => CooldownHeld
  BY DEF CooldownInv
<1> QED BY <1>1, <1>2, <1>3, PTL DEF Spec
=============================================================================
