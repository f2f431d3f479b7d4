------------------------------ MODULE Judgment ------------------------------
(***************************************************************************)
(* The nightly judgment: what its rules see in the database, and which of  *)
(* their hits are held back.  The rules only read; NightTail acts on them. *)
(* The rules about the activation table are left out: nothing writes it.   *)
(***************************************************************************)
EXTENDS Derivation, Sequences

CONSTANTS
    Contacts,  \* non-seed contacts
    Partners,  \* partners.id, the house excluded
    House,     \* HOUSE_PARTNER_ID
    None,      \* SQL null
    PerDay,    \* bound: instants in a day
    Params,    \* config.params.Params, and HEARTBEAT_DAYS
    Worlds     \* what happens outside, and what stands still

ActivityTypes == InboundTypes \cup
    {"signup.completed", "note.demo_call", "note.partner", "note.general"}

ObservedTypes == Types \cup ActivityTypes \cup {"demo.booked", "demo.no_show"}

Observed == [id : Rows, contact : Contacts \cup {None}, type : ObservedTypes, at : Times,
             mailOnly : BOOLEAN, credit : Partners \cup {None}]

Batch == [partner : Partners, at : Times, expires : Nat]

(* human: set by set_next_action (not in the code).                         *)
Action == [date : Nat, human : BOOLEAN]

ParamNames == {"quiet_days", "age_out_days", "nudge_budget", "cooldown_days", "expire_days",
               "orphan_max", "dnc_version_alert_days", "fail_pct", "resp_check_days",
               "lead_days", "batch_checkpoint_days", "heartbeat_days", "expiry_days"}

ASSUME JudgmentAssumption ==
    /\ PerDay \in Nat \ {0}
    /\ Params \in [ParamNames -> Nat]
    /\ House \notin Partners
    /\ None \notin Contacts \cup Partners \cup {House} \cup Batch \cup Action

VARIABLES
    world,     \* one of Worlds
    clock,     \* now
    known,     \* events, nudge.sent and ownership excluded
    snapshot,  \* contacts.stage_snapshot
    owner,     \* contacts.owner_id
    pointer,   \* contacts.assignment_batch_id
    batches,   \* assignment_batches
    slot,      \* contacts.next_action_at
    nudges     \* nudge.sent events

Day(t) == t \div PerDay
Midnight(day) == day * PerDay
Days(n) == n * PerDay

(* asked: what a batch or a roll-up hit is about, so that hits differ.      *)
ForContact(rule, c) == [rule |-> rule, contact |-> c, wave |-> None, asked |-> None]
ForWave(rule, w)    == [rule |-> rule, contact |-> None, wave |-> w, asked |-> None]
RollUp(rule, about) == [rule |-> rule, contact |-> None, wave |-> None, asked |-> about]

Of(c) == {e \in known : e.contact = c}
Nudged(c) == {n \in nudges : n.hit.contact = c}

(* The latest inbound is older than days at midnight of asOf; never counts. *)
SilentFor(c, days, asOf) ==
    \A t \in TimesOf(Of(c), InboundTypes) : t + Days(days) < Midnight(asOf)

-----------------------------------------------------------------------------
HotResponse ==
    {ForContact("hot_response", c) :
        c \in {d \in Contacts : snapshot[d] = "responded" /\ Nudged(d) = {}}}

DemoNoShow ==
    {ForContact("demo_no_show", c) :
        c \in {d \in Contacts : \E t \in TimesOf(Of(d), {"demo.no_show"}) :
                  \A u \in TimesOf(Of(d), {"demo.booked"}) : u <= t}}

QuietReengage(asOf) ==
    {ForContact("quiet_reengage", c) :
        c \in {d \in Contacts : /\ snapshot[d] = "in_conversation"
                                /\ SilentFor(d, Params.quiet_days, asOf)}}

LostAging(asOf) ==
    {ForContact("lost_aging", c) :
        c \in {d \in Contacts : /\ snapshot[d] \in {"responded", "in_conversation"}
                                /\ SilentFor(d, Params.age_out_days, asOf)
                                /\ Nudged(d) # {}}}

ReturnedMail ==
    IF \E c \in Contacts : IsAddressUndeliverable(Of(c))
    THEN {RollUp("returned_mail", None)} ELSE {}

(* Events of nobody; the nudges about no contact are such events too.       *)
OrphanEvents ==
    IF Cardinality(Of(None)) + Cardinality(Nudged(None)) > Params.orphan_max
    THEN {RollUp("orphan_events", None)} ELSE {}

(* A code's age is the older of its newest check and its newest list.       *)
CodeIsStale(code, asOf) ==
    \/ code.checked = None
    \/ Day(code.checked) + Params.dnc_version_alert_days < asOf
    \/ code.listed # None /\ code.listed + Params.dnc_version_alert_days < asOf

DncVersionAlert(asOf) ==
    IF \E code \in world.codes : CodeIsStale(code, asOf)
    THEN {RollUp("dnc_version_alert", None)} ELSE {}

ApprovalPending(asOf) ==
    {ForWave("approval_pending", w.wave) :
        w \in {v \in world.waves : /\ v.status = "draft" /\ v.scheduled # None
                                   /\ v.scheduled <= asOf + Params.lead_days}}

(* Too many of its cards are back, or it is out for long and nobody spoke.  *)
WaveAnomaly(asOf) ==
    {ForWave("wave_anomaly", w.wave) :
        w \in {v \in world.waves :
                 /\ v.status \in {"executing", "sent"}
                 /\ v.cards > 0
                 /\ \/ v.bad * 100 > v.cards * Params.fail_pct
                    \/ /\ v.executed # None
                       /\ v.executed + Days(Params.resp_check_days) < Midnight(asOf)
                       /\ \A c \in v.mailed : TimesOf(Of(c), InboundTypes) = {}}}

(* A live batch past the checkpoint, none of whose contacts has stirred.    *)
BatchCheckpoint(asOf) ==
    {RollUp("batch_checkpoint", b) :
        b \in {d \in batches :
                 /\ d.at + Days(Params.batch_checkpoint_days) <= Midnight(asOf)
                 /\ d.expires > clock /\ d.partner \in world.active
                 /\ ~\E c \in Contacts :
                        pointer[c] = d /\ \E t \in TimesOf(Of(c), ActivityTypes) : t >= d.at}}

-----------------------------------------------------------------------------
AllRules(asOf) ==
    UNION {HotResponse, DemoNoShow, QuietReengage(asOf), LostAging(asOf), ReturnedMail,
           OrphanEvents, DncVersionAlert(asOf), ApprovalPending(asOf), WaveAnomaly(asOf),
           BatchCheckpoint(asOf)}

Priority ==
    [dnc_version_alert |-> 0, hot_response |-> 1, demo_no_show |-> 3, quiet_reengage |-> 4,
     returned_mail |-> 6, wave_anomaly |-> 7, approval_pending |-> 8, lost_aging |-> 9,
     orphan_events |-> 10, batch_checkpoint |-> 11]

DealOwnerRules == {"hot_response", "demo_no_show"}

Recipient(hit) ==
    IF hit.rule \in DealOwnerRules THEN owner[hit.contact] ELSE House

HasFutureAction(c, asOf) == slot[c] # None /\ slot[c].date > asOf

(* Mutant of Before: a contact's nudges count rule by rule.                 *)
BeforeByRule(hit) ==
    {n.at : n \in {m \in nudges : m.hit.rule = hit.rule /\ m.hit.wave = hit.wave
                                  /\ m.hit.contact = hit.contact}}

(* What a hit's cooldown counts from: any nudge of its contact; of a wave   *)
(* or of nothing, this rule's.                                              *)
Before(hit) ==
    {n.at : n \in IF hit.contact # None THEN Nudged(hit.contact)
                  ELSE {m \in nudges : m.hit.rule = hit.rule /\ m.hit.wave = hit.wave}}

(* A new inbound ends a contact's cooldown.                                 *)
InCooldown(hit, asOf) ==
    /\ Before(hit) # {}
    /\ Day(Latest(Before(hit))) + Params.cooldown_days > asOf
    /\ hit.contact # None =>
          ~\E t \in TimesOf(Of(hit.contact), InboundTypes) : t > Latest(Before(hit))

(* What is left for the night to record, each with who shall be told.       *)
Prepared(asOf) ==
    {[hit |-> h, founder |-> Recipient(h)] :
        h \in {g \in AllRules(asOf) :
                 /\ g.contact # None => ~HasFutureAction(g.contact, asOf)
                 /\ ~InCooldown(g, asOf)}}
=============================================================================
