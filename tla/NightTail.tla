----------------------------- MODULE NightTail -----------------------------
(***************************************************************************)
(* The end of the nightly run: digest.run records nudges, one transaction  *)
(* each, and then sends them founder by founder; run_partner_reports sends *)
(* each partner a report and then stamps it.  Every send may fail, or work *)
(* and lose its answer, and the night may be killed anywhere, while people *)
(* and feeds go on changing what it has read.  A night may be run again on *)
(* the same day; two do not overlap.                                       *)
(***************************************************************************)
EXTENDS Judgment

VARIABLES
    agenda,     \* what the outside will still do
    news,       \* contact.reclaimed and contact.assignment_expired events
    lastReport, \* partners.last_report_at
    night,      \* the run in progress, identified by the instant it began
    lastNight,  \* when the latest began
    delivered,  \* nudges that reached their founder
    told,       \* removals that reached their partner in a report
    broken,     \* nights whose digest did not end (not in the code)
    mishaps     \* failed sends and kills so far

outsideVars == <<agenda, known, owner, pointer, batches, news>>
vars == <<world, clock, snapshot, slot, nudges, outsideVars, lastReport, night, lastNight,
          delivered, told, broken, mishaps>>

(* raced: visible only after a report that took a later now had begun (not  *)
(* in the code).                                                            *)
Removal == [partner : Partners, contact : Contacts, at : Times, raced : BOOLEAN]

(* What the outside may still do.                                           *)
Agenda == [kind : {"event"}, event : Observed] \cup
          [kind : {"human"}, contact : Contacts, date : Nat] \cup
          [kind : {"assign"}, partner : Partners, contacts : SUBSET Contacts] \cup
          [kind : {"remove"}, contact : Contacts]

ASSUME NightAssumption ==
    /\ Horizon > 0
    /\ \A w \in Worlds :
          /\ w.known \subseteq Observed /\ \A e \in w.known : e.at <= 1
          /\ w.agenda \subseteq Agenda /\ w.active \subseteq Partners
          /\ w.sender \in BOOLEAN /\ w.mishaps \in Nat

Idle == [step |-> "idle", asOf |-> 0, prepared |-> {}, counts |-> [f \in Partners \cup {House} |-> 0],
         queue |-> <<>>, now |-> 0, left |-> {}, partner |-> None, body |-> {}]

Init ==
    /\ world \in Worlds
    /\ clock = 1
    /\ known = world.known /\ agenda = world.agenda
    /\ snapshot = [c \in Contacts |-> "prospect"]
    /\ owner = [c \in Contacts |-> House] /\ pointer = [c \in Contacts |-> None]
    /\ batches = {} /\ news = {} /\ nudges = {}
    /\ slot = [c \in Contacts |-> None]
    /\ lastReport = [p \in Partners |-> None]
    /\ night = Idle /\ lastNight = 0
    /\ delivered = {} /\ told = {} /\ broken = {} /\ mishaps = 0

Mishap == mishaps < world.mishaps /\ mishaps' = mishaps + 1

-----------------------------------------------------------------------------
Tick ==
    /\ clock < Horizon
    /\ clock' = clock + 1
    /\ UNCHANGED <<world, snapshot, slot, nudges, outsideVars, lastReport, night, lastNight,
                   delivered, told, broken, mishaps>>

(* An event becomes known, then or later.                                   *)
Learn(h) ==
    /\ h.kind = "event" /\ h.event.at <= clock
    /\ known' = known \cup {h.event}
    /\ UNCHANGED <<slot, night, owner, pointer, batches, news>>

(* set_next_action, from the page of a contact.                             *)
HumanSets(h) ==
    /\ h.kind = "human"
    /\ slot' = [slot EXCEPT ![h.contact] = [date |-> h.date, human |-> TRUE]]
    /\ UNCHANGED <<night, known, owner, pointer, batches, news>>

(* A batch is assigned.                                                     *)
Assign(h) ==
    /\ h.kind = "assign"
    /\ LET b == [partner |-> h.partner, at |-> clock,
                 expires |-> clock + Days(Params.expiry_days)] IN
          /\ batches' = batches \cup {b}
          /\ owner' = [c \in Contacts |-> IF c \in h.contacts THEN h.partner ELSE owner[c]]
          /\ pointer' = [c \in Contacts |-> IF c \in h.contacts THEN b ELSE pointer[c]]
    /\ UNCHANGED <<slot, night, known, news>>

(* A report of p counts, or will count, what it could not see at instant at.*)
Raced(p, at) ==
    \/ lastReport[p] # None /\ at <= lastReport[p]
    \/ night.step \in {"report", "send", "stamp"} /\ at <= night.now

(* A contact is taken back; its event is stamped before it is visible.      *)
Remove(h) ==
    /\ h.kind = "remove" /\ owner[h.contact] # House
    /\ \E at \in {clock - 1, clock} :
          news' = news \cup {[partner |-> owner[h.contact], contact |-> h.contact,
                              at |-> at, raced |-> Raced(owner[h.contact], at)]}
    /\ owner' = [owner EXCEPT ![h.contact] = House]
    /\ pointer' = [pointer EXCEPT ![h.contact] = None]
    /\ UNCHANGED <<slot, night, known, batches>>

Outside(h) ==
    /\ agenda' = agenda \ {h}
    /\ Learn(h) \/ HumanSets(h) \/ Assign(h) \/ Remove(h)
    /\ UNCHANGED <<world, clock, snapshot, nudges, lastReport, lastNight, delivered, told,
                   broken, mishaps>>

-----------------------------------------------------------------------------
digestVars == <<world, clock, outsideVars, lastReport>>

(* The steps of the night before the digest, of which recompute_state       *)
(* matters here.                                                            *)
NightBegins ==
    /\ night = Idle /\ lastNight < clock
    /\ snapshot' = [c \in Contacts |-> DeriveStage(Of(c))]
    /\ night' = [Idle EXCEPT !.step = "expire"]
    /\ lastNight' = clock
    /\ UNCHANGED <<digestVars, slot, nudges, delivered, told, broken, mishaps>>

Expired(asOf) ==
    [c \in Contacts |-> IF slot[c] # None /\ slot[c].date + Params.expire_days < asOf
                        THEN None ELSE slot[c]]

(* digest.run takes today for as_of and expires stale actions.              *)
ExpireStaleActions ==
    /\ night.step = "expire"
    /\ slot' = Expired(Day(clock))
    /\ night' = [night EXCEPT !.step = "evaluate", !.asOf = Day(clock)]
    /\ UNCHANGED <<digestVars, snapshot, nudges, lastNight, delivered, told, broken, mishaps>>

(* Every rule, and the discipline on its hits, in one read.                 *)
Evaluate ==
    /\ night.step = "evaluate"
    /\ night' = [night EXCEPT !.step = "digest", !.prepared = Prepared(night.asOf)]
    /\ UNCHANGED <<digestVars, snapshot, slot, nudges, lastNight, delivered, told, broken, mishaps>>

(* The next hit, by the rule's priority.                                    *)
NextHit(x) ==
    /\ night.step = "digest" /\ x \in night.prepared
    /\ \A y \in night.prepared : Priority[x.hit.rule] <= Priority[y.hit.rule]

(* Without a sender a partner's hit waits, as does one over the budget.     *)
Unsendable(x) == ~world.sender /\ x.founder # House
OverBudget(x) == night.counts[x.founder] >= Params.nudge_budget

PassOver(x) ==
    /\ NextHit(x) /\ (Unsendable(x) \/ OverBudget(x))
    /\ night' = [night EXCEPT !.prepared = @ \ {x}]
    /\ UNCHANGED <<digestVars, snapshot, slot, nudges, lastNight, delivered, told, broken, mishaps>>

(* record_nudge: the event and the contact's slot, in one transaction.      *)
Record(x) ==
    /\ NextHit(x) /\ ~Unsendable(x) /\ ~OverBudget(x)
    /\ nudges' = nudges \cup {[hit |-> x.hit, founder |-> x.founder, at |-> clock,
                               night |-> lastNight]}
    /\ slot' = IF x.hit.contact = None THEN slot
               ELSE [slot EXCEPT ![x.hit.contact] = [date |-> night.asOf, human |-> FALSE]]
    /\ night' = [night EXCEPT !.prepared = @ \ {x}, !.counts[x.founder] = @ + 1,
                              !.queue = IF night.counts[x.founder] = 0
                                        THEN Append(@, x.founder) ELSE @]
    /\ UNCHANGED <<digestVars, snapshot, lastNight, delivered, told, broken, mishaps>>

Digest(f) == {n \in nudges : n.night = lastNight /\ n.founder = f}

(* Mutant of SendDigest: one digest per night.                              *)
SendFirstDigest ==
    /\ night.step = "digest" /\ night.prepared = {} /\ night.queue # <<>> /\ world.sender
    /\ delivered' = delivered \cup Digest(Head(night.queue))
    /\ night' = [night EXCEPT !.queue = <<>>]
    /\ UNCHANGED <<digestVars, snapshot, slot, nudges, lastNight, told, broken, mishaps>>

(* The digests go out, founder by founder in the order of their first hit.  *)
SendDigest ==
    /\ night.step = "digest" /\ night.prepared = {} /\ night.queue # <<>> /\ world.sender
    /\ delivered' = delivered \cup Digest(Head(night.queue))
    /\ night' = [night EXCEPT !.queue = Tail(@)]
    /\ UNCHANGED <<digestVars, snapshot, slot, nudges, lastNight, told, broken, mishaps>>

(* The sender raises, having delivered or not: the night is over.           *)
DigestFails ==
    /\ night.step = "digest" /\ night.prepared = {} /\ night.queue # <<>> /\ world.sender
    /\ Mishap
    /\ delivered' \in {delivered, delivered \cup Digest(Head(night.queue))}
    /\ broken' = broken \cup {lastNight}
    /\ night' = Idle
    /\ UNCHANGED <<digestVars, snapshot, slot, nudges, lastNight, told>>

(* No digest to send; without a sender there is no report either.           *)
NightEnds ==
    /\ \/ night.step = "digest" /\ night.prepared = {} /\ ~world.sender
       \/ night.step = "report" /\ night.left = {}
    /\ night' = Idle
    /\ UNCHANGED <<digestVars, snapshot, slot, nudges, lastNight, delivered, told, broken, mishaps>>

NightDies ==
    /\ night # Idle /\ Mishap
    /\ broken' = IF night.step = "digest" THEN broken \cup {lastNight} ELSE broken
    /\ night' = Idle
    /\ UNCHANGED <<digestVars, snapshot, slot, nudges, lastNight, delivered, told>>

-----------------------------------------------------------------------------
reportVars == <<world, snapshot, slot, nudges, outsideVars, lastNight, delivered, broken>>

(* run_partner_reports: now is taken, the partners are read.  Nothing later *)
(* bears the same instant.                                                  *)
ReportsBegin ==
    /\ night.step = "digest" /\ night.prepared = {} /\ night.queue = <<>> /\ world.sender
    /\ clock < Horizon /\ clock' = clock + 1
    /\ night' = [night EXCEPT !.step = "report", !.now = clock, !.left = world.active]
    /\ UNCHANGED <<reportVars, lastReport, told, mishaps>>

Removals(p) ==
    {r \in news : r.partner = p /\ (lastReport[p] # None => r.at > lastReport[p])}

ShouldSend(p) ==
    \/ lastReport[p] = None
    \/ lastReport[p] + Days(Params.heartbeat_days) <= night.now
    \/ \E b \in batches : b.partner = p /\ b.at > lastReport[p]
    \/ Removals(p) # {}

(* compose has something to say: a live batch, a removal, a close credited, *)
(* calls on the demo line.                                                  *)
HasContent(p) ==
    \/ \E b \in batches : b.partner = p /\ b.expires > night.now
    \/ Removals(p) # {}
    \/ \E e \in known : e.type = "signup.completed" /\ e.credit = p
    \/ p \in world.demos

Through(p) == [night EXCEPT !.step = "report", !.left = @ \ {p}, !.partner = None, !.body = {}]

(* One partner: nothing to send, or a report is composed.                   *)
ReportReads(p) ==
    /\ night.step = "report" /\ p \in night.left
    /\ night' = IF ShouldSend(p) /\ HasContent(p)
                THEN [night EXCEPT !.step = "send", !.partner = p, !.body = Removals(p)]
                ELSE Through(p)
    /\ UNCHANGED <<reportVars, clock, lastReport, told, mishaps>>

ReportSent ==
    /\ night.step = "send"
    /\ told' = told \cup night.body
    /\ night' = [night EXCEPT !.step = "stamp"]
    /\ UNCHANGED <<reportVars, clock, lastReport, mishaps>>

(* A send that raises is left for the next night; the others go on.         *)
ReportFails ==
    /\ night.step = "send" /\ Mishap
    /\ told' \in {told, told \cup night.body}
    /\ night' = Through(night.partner)
    /\ UNCHANGED <<reportVars, clock, lastReport>>

(* Mutant of Stamp: the instant of the stamping.                            *)
StampOnClock == clock

(* The instant the reports began.                                           *)
Stamp == night.now

ReportStamped ==
    /\ night.step = "stamp"
    /\ lastReport' = [lastReport EXCEPT ![night.partner] = Stamp]
    /\ night' = Through(night.partner)
    /\ UNCHANGED <<reportVars, clock, told, mishaps>>

-----------------------------------------------------------------------------
Next ==
    \/ Tick
    \/ \E h \in agenda : Outside(h)
    \/ NightBegins \/ ExpireStaleActions \/ Evaluate
    \/ \E x \in night.prepared : PassOver(x) \/ Record(x)
    \/ SendDigest \/ DigestFails \/ NightEnds \/ NightDies
    \/ ReportsBegin
    \/ \E p \in Partners : ReportReads(p)
    \/ ReportSent \/ ReportFails \/ ReportStamped

Spec == Init /\ [][Next]_vars

-----------------------------------------------------------------------------
(* Values of the right kind, of no later than now; a run holds what its     *)
(* step needs.                                                              *)
TypeOK ==
    /\ world \in Worlds /\ agenda \subseteq world.agenda /\ mishaps \in Nat
    /\ clock \in Times \ {0} /\ lastNight \in 0..clock /\ broken \subseteq Times
    /\ known \subseteq Observed /\ \A e \in known : e.at <= clock
    /\ snapshot \in [Contacts -> ContactStages]
    /\ owner \in [Contacts -> Partners \cup {House}]
    /\ batches \subseteq Batch /\ pointer \in [Contacts -> batches \cup {None}]
    /\ slot \in [Contacts -> Action \cup {None}]
    /\ news \subseteq Removal /\ told \subseteq news
    /\ lastReport \in [Partners -> Times \cup {None}]
    /\ delivered \subseteq nudges
    /\ \A n \in nudges :
          /\ n.founder \in Partners \cup {House} /\ n.hit.contact \in Contacts \cup {None}
          /\ n.night \in 0..lastNight /\ n.at \in n.night..clock
    /\ night.step \in {"idle", "expire", "evaluate", "digest", "report", "send", "stamp"}
    /\ night.asOf \in 0..Day(clock) /\ night.now \in 0..clock
    /\ \A x \in night.prepared :
          x.founder \in Partners \cup {House} /\ x.hit.contact \in Contacts \cup {None}
    /\ night.counts \in [Partners \cup {House} -> Nat]
    /\ night.queue \in Seq(Partners \cup {House})
    /\ night.left \subseteq Partners
    /\ night.partner \in Partners \cup {None} /\ night.body \subseteq news
    /\ night.step \in {"send", "stamp"} <=> night.partner # None

(* Nights run twice on a day, die or straddle midnight: still no contact is *)
(* nudged by two nights less than the cooldown apart, unless it spoke since *)
(* the first; and no alarm about a wave or about nothing is repeated.       *)
CooldownHeld ==
    \A m, n \in nudges :
       /\ m.night < n.night
       /\ Day(m.at) + Params.cooldown_days > Day(n.at)
       => /\ m.hit.contact # None /\ m.hit.contact = n.hit.contact =>
                \E e \in Of(m.hit.contact) :
                   e.type \in InboundTypes /\ m.at < e.at /\ e.at <= n.at
          /\ m.hit.contact = None /\ n.hit.contact = None =>
                m.hit.rule # n.hit.rule \/ m.hit.wave # n.hit.wave

(* A nudge is recorded before it is sent, and counts from then on.  It is   *)
(* lost to its founder only if its night is broken or there is no sender.   *)
RecordedIsDelivered ==
    \A n \in nudges :
       \/ n \in delivered
       \/ n.night = lastNight /\ night.step = "digest"
       \/ n.night \in broken
       \/ ~world.sender

(* "The nightly job won't overwrite a human-set action until it passes"     *)
(* (service/contacts.py:543-545); docs/direct-mail-ai-judgment-job.md:85:   *)
(* "never overwriting an unexpired human-set action".  Here of plans for a  *)
(* later day only; a human may change them.                                 *)
HumanSlotKept ==
    [][\A c \in Contacts :
          /\ slot[c] # None /\ slot[c].human /\ slot[c].date > Day(clock)
          /\ slot'[c] # slot[c]
          => slot'[c] # None /\ slot'[c].human]_vars

(* Whichever sends fail and wherever nights die, a removal its partner has  *)
(* not been told of is still due, unless it was in flight when a report     *)
(* began.                                                                   *)
NoRemovalIsSkipped ==
    \A r \in news \ told :
       r.raced \/ lastReport[r.partner] = None \/ r.at > lastReport[r.partner]
=============================================================================
