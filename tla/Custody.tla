------------------------------ MODULE Custody ------------------------------
(***************************************************************************)
(* Lead custody: who may dial a contact.  Every verb that moves a contact  *)
(* between the house and a partner, run concurrently against one Postgres  *)
(* database at READ COMMITTED, one transaction per verb.                   *)
(*                                                                         *)
(* A verb whose statements all work on rows it has already locked is one   *)
(* action.  A verb that reads a row WITHOUT locking it and acts on what it *)
(* read is two actions, a read and a commit, and whatever commits between  *)
(* them is visible to the second but not to the first: assign_batch (the   *)
(* partner's status and the idempotency key), suppress (the owner), the    *)
(* DNC scrub (the whole due list) and recompute_state.                     *)
(*                                                                         *)
(* Contacts are the non-seed contacts that have a phone in a subscribed    *)
(* area code, so the seed, no_phone and dnc_unsubscribed gates are         *)
(* constant.  Contacts are never deleted, so a voice tombstone exists for  *)
(* a phone exactly when its contact is do_not_call.  The operator never    *)
(* names the house as the partner of a batch or of a reclaim.              *)
(***************************************************************************)
EXTENDS Naturals, Sequences

CONSTANTS
    Contacts,     \* rows of contacts
    Partners,     \* rows of partners, the house excluded
    House,        \* HOUSE_PARTNER_ID
    Keys,         \* idempotency keys; a batch row is named by its unique key
    None,         \* SQL null, and an idle session
    Callers,      \* concurrent assign_batch calls
    Suppressors,  \* concurrent suppress calls
    Scrubbers     \* concurrent DNC scrub passes

VARIABLES
    owner,          \* contacts.owner_id
    pointer,        \* contacts.assignment_batch_id
    doNotCall,      \* contacts.do_not_call
    dncRegistry,    \* contacts.dnc_registry
    checkedAge,     \* age of contacts.dnc_checked_at
    stage,          \* contacts.stage_snapshot, the cached stage
    eventStage,     \* what derive_stage returns over the committed events
    log,            \* the ownership events of each contact, in order
    batch,          \* assignment_batches
    partnerStatus,  \* partners.status
    asg,            \* an assign_batch past its plain reads
    sup,            \* a suppress past its plain read
    scrub,          \* a scrub pass past _due
    nightly         \* where run_nightly is, and the stages it has derived

contactVars == <<owner, pointer, log>>
flagVars    == <<doNotCall, dncRegistry, checkedAge>>
stageVars   == <<stage, eventStage>>
vars == <<contactVars, flagVars, stageVars, partnerStatus, batch, asg, sup, scrub, nightly>>

Owners == Partners \cup {House}

(* Stages as custody tells them apart: "open" is prospect, in_sequence or  *)
(* lost; "mid" is responded or in_conversation.                            *)
Stages == {"open", "mid", "won", "suppressed"}

(* "fresh": inside DNC_RECHECK_DAYS (21).  "due": older, yet inside        *)
(* DNC_FRESHNESS_DAYS (31).  "stale": older still, or never checked.       *)
Ages == {"fresh", "due", "stale"}

Channels == {"voice", "all"}  \* mail and sms touch nothing custody reads

OwnershipEvents == {"assigned", "expired", "reclaimed"}

Event    == [type : OwnershipEvents, prev : Owners, new : Owners, batch : Keys \cup {None}]
BatchRow == [partner : Partners, members : SUBSET Contacts, expired : BOOLEAN]
DueRow   == [contact : Contacts, owner : Owners, listed : BOOLEAN, hit : BOOLEAN]

Request     == [key : Keys, partner : Partners]
Suppression == [contact : Contacts, channel : Channels, owner : Owners]
Pass        == [todo : SUBSET DueRow, clearing : SUBSET Contacts]

(* The house row is not a partner; null is neither a key nor a row.         *)
ASSUME CustodyAssumption ==
    /\ House \notin Partners
    /\ None \notin Keys
    /\ None \notin BatchRow

IdlePass == [todo |-> {}, clearing |-> {}]

-----------------------------------------------------------------------------
(* derivation/custody.py: the owner the event stream implies.               *)
CurrentOwner(events) == IF events = <<>> THEN House ELSE events[Len(events)].new

(* Mutant of SetOwner: a return to the house forgets its event.             *)
SetOwnerSilentReturn(S, new, type, key) ==
    /\ owner' = [c \in Contacts |-> IF c \in S THEN new ELSE owner[c]]
    /\ pointer' = [c \in Contacts |-> IF c \in S THEN key ELSE pointer[c]]
    /\ log' = [c \in Contacts |->
                 IF c \in S /\ new # House
                 THEN Append(log[c], [type |-> type, prev |-> owner[c],
                                      new |-> new, batch |-> key])
                 ELSE log[c]]

(* Mutant of SetOwner: a null batch leaves the pointer as it was.           *)
SetOwnerKeepsPointer(S, new, type, key) ==
    /\ owner' = [c \in Contacts |-> IF c \in S THEN new ELSE owner[c]]
    /\ pointer' = [c \in Contacts |-> IF c \in S /\ key # None THEN key ELSE pointer[c]]
    /\ log' = [c \in Contacts |->
                 IF c \in S
                 THEN Append(log[c], [type |-> type, prev |-> owner[c],
                                      new |-> new, batch |-> key])
                 ELSE log[c]]

(* set_owner, over the contacts S one transaction moves: the owner column,  *)
(* the batch pointer and one ownership event each.                          *)
SetOwner(S, new, type, key) ==
    /\ owner' = [c \in Contacts |-> IF c \in S THEN new ELSE owner[c]]
    /\ pointer' = [c \in Contacts |-> IF c \in S THEN key ELSE pointer[c]]
    /\ log' = [c \in Contacts |->
                 IF c \in S
                 THEN Append(log[c], [type |-> type, prev |-> owner[c],
                                      new |-> new, batch |-> key])
                 ELSE log[c]]

(* Mutants of Assignable: one gate each dropped.                            *)
AssignableWhoeverHolds(c) ==
    stage[c] = "open" /\ ~doNotCall[c] /\ ~dncRegistry[c] /\ checkedAge[c] # "stale"

AssignableThoughDoNotCall(c) ==
    /\ pointer[c] = None /\ owner[c] = House
    /\ stage[c] = "open" /\ ~dncRegistry[c] /\ checkedAge[c] # "stale"

AssignableThoughWon(c) ==
    /\ pointer[c] = None /\ owner[c] = House
    /\ ~doNotCall[c] /\ ~dncRegistry[c] /\ checkedAge[c] # "stale"

(* _gate: the contacts a batch may take.                                    *)
Assignable(c) ==
    /\ pointer[c] = None /\ owner[c] = House
    /\ stage[c] = "open"
    /\ ~doNotCall[c]
    /\ ~dncRegistry[c]
    /\ checkedAge[c] # "stale"

(* The contacts whose events carry contact.assigned with batch k.           *)
AssignedIn(k) ==
    {c \in Contacts : \E i \in 1..Len(log[c]) :
                         log[c][i].type = "assigned" /\ log[c][i].batch = k}

(* What a same-key retry reports: the rows still pointing at the batch, and *)
(* those released since.                                                    *)
Holding(k) == {c \in Contacts : pointer[c] = k}
RetryReceiptLiveView(k) == [assigned |-> Holding(k), released |-> {}]  \* mutant of the next
RetryReceipt(k) == [assigned |-> Holding(k), released |-> AssignedIn(k) \ Holding(k)]

Init ==
    /\ owner = [c \in Contacts |-> House]
    /\ pointer = [c \in Contacts |-> None]
    /\ doNotCall = [c \in Contacts |-> FALSE]
    /\ dncRegistry = [c \in Contacts |-> FALSE]
    /\ checkedAge \in [Contacts -> Ages]
    /\ stage = [c \in Contacts |-> "open"]
    /\ eventStage = [c \in Contacts |-> "open"]
    /\ log = [c \in Contacts |-> <<>>]
    /\ batch = [k \in Keys |-> None]
    /\ partnerStatus = [p \in Partners |-> "active"]
    /\ asg = [a \in Callers |-> None]
    /\ sup = [s \in Suppressors |-> None]
    /\ scrub = [r \in Scrubbers |-> IdlePass]
    /\ nightly = [at |-> "idle", derived |-> [c \in Contacts |-> "open"]]

-----------------------------------------------------------------------------
(* assign_batch.  The partner's status and the idempotency key are read     *)
(* without a lock; an inactive partner is refused, an existing key is a     *)
(* read-only retry (RetryReceipt).                                          *)
AssignCheck(a, k, p) ==
    /\ asg[a] = None
    /\ partnerStatus[p] = "active"
    /\ batch[k] = None
    /\ asg' = [asg EXCEPT ![a] = [key |-> k, partner |-> p]]
    /\ UNCHANGED <<contactVars, flagVars, stageVars, partnerStatus, batch, sup, scrub, nightly>>

(* The candidates are locked FOR UPDATE and gated on their locked versions, *)
(* the batch row is inserted under the unique key, the chosen contacts move,*)
(* the transaction commits.  Which assignable contacts the rule, the count  *)
(* or the id-list picks is left open.                                       *)
AssignCommit(a) ==
    /\ asg[a] # None
    /\ batch[asg[a].key] = None
    /\ \E chosen \in SUBSET {c \in Contacts : Assignable(c)} :
          /\ batch' = [batch EXCEPT ![asg[a].key] =
                         [partner |-> asg[a].partner, members |-> chosen, expired |-> FALSE]]
          /\ SetOwner(chosen, asg[a].partner, "assigned", asg[a].key)
    /\ asg' = [asg EXCEPT ![a] = None]
    /\ UNCHANGED <<flagVars, stageVars, partnerStatus, sup, scrub, nightly>>

(* The insert meets the unique key, or the process dies: the transaction    *)
(* rolls back.                                                              *)
AssignAbort(a) ==
    /\ asg[a] # None
    /\ asg' = [asg EXCEPT ![a] = None]
    /\ UNCHANGED <<contactVars, flagVars, stageVars, partnerStatus, batch, sup, scrub, nightly>>

(* suppress reads owner_id with a plain select ...                          *)
SuppressRead(s, c, channel) ==
    /\ sup[s] = None
    /\ sup' = [sup EXCEPT ![s] = [contact |-> c, channel |-> channel, owner |-> owner[c]]]
    /\ UNCHANGED <<contactVars, flagVars, stageVars, partnerStatus, batch, asg, scrub, nightly>>

(* ... then sets the column (which waits for the row's lock), appends the   *)
(* event (an opt_out for "all"), and returns the contact to the house if    *)
(* the owner it READ was a partner.                                         *)
SuppressCommit(s) ==
    /\ sup[s] # None
    /\ LET c == sup[s].contact IN
          /\ doNotCall' = [doNotCall EXCEPT ![c] = TRUE]
          /\ eventStage' = [eventStage EXCEPT ![c] =
                              IF sup[s].channel = "all" THEN "suppressed" ELSE @]
          /\ IF sup[s].owner # House
             THEN SetOwner({c}, House, "reclaimed", None)
             ELSE UNCHANGED contactVars
    /\ sup' = [sup EXCEPT ![s] = None]
    /\ UNCHANGED <<dncRegistry, checkedAge, stage, partnerStatus, batch, asg, scrub, nightly>>

(* reclaim: every holding of a partner, locked FOR UPDATE, returns.         *)
Reclaim(p) ==
    /\ \E c \in Contacts : owner[c] = p
    /\ SetOwner({c \in Contacts : owner[c] = p}, House, "reclaimed", None)
    /\ UNCHANGED <<flagVars, stageVars, partnerStatus, batch, asg, sup, scrub, nightly>>

-----------------------------------------------------------------------------
(* A scrub pass reads the due contacts in a transaction of its own, then    *)
(* resolves them against the registry file: which of them are hits is the   *)
(* file's say.                                                              *)
ScrubDue(r) ==
    LET due == {c \in Contacts : checkedAge[c] # "fresh"} IN
    /\ scrub[r] = IdlePass
    /\ due # {}
    /\ \E hits \in SUBSET due :
          scrub' = [scrub EXCEPT ![r].todo =
                      {[contact |-> c, owner |-> owner[c], listed |-> dncRegistry[c],
                        hit |-> c \in hits] : c \in due}]
    /\ UNCHANGED <<contactVars, flagVars, stageVars, partnerStatus, batch, asg, sup, nightly>>

(* One transaction per due row: stamp the check and the verdict; on a hit,  *)
(* return the contact if the owner in the due list was a partner.           *)
ScrubApply(r, row) ==
    /\ row \in scrub[r].todo
    /\ scrub[r].clearing = {}
    /\ checkedAge' = [checkedAge EXCEPT ![row.contact] = "fresh"]
    /\ dncRegistry' = [dncRegistry EXCEPT ![row.contact] = row.hit]
    /\ IF row.hit /\ row.owner # House
       THEN SetOwner({row.contact}, House, "reclaimed", None)
       ELSE UNCHANGED contactVars
    /\ scrub' = [scrub EXCEPT ![r] =
                   [todo |-> @.todo \ {row},
                    clearing |-> IF ~row.hit /\ row.listed THEN {row.contact} ELSE {}]]
    /\ UNCHANGED <<doNotCall, stageVars, partnerStatus, batch, asg, sup, nightly>>

(* clear_suppression, a second transaction: the flag is cleared whatever it *)
(* has become meanwhile.                                                    *)
ScrubClear(r) ==
    /\ \E c \in scrub[r].clearing : dncRegistry' = [dncRegistry EXCEPT ![c] = FALSE]
    /\ scrub' = [scrub EXCEPT ![r].clearing = {}]
    /\ UNCHANGED <<contactVars, doNotCall, checkedAge, stageVars, partnerStatus, batch, asg, sup,
                   nightly>>

(* The pass dies; the rows it has committed stay committed.                 *)
ScrubCrash(r) ==
    /\ scrub[r] # IdlePass
    /\ scrub' = [scrub EXCEPT ![r] = IdlePass]
    /\ UNCHANGED <<contactVars, flagVars, stageVars, partnerStatus, batch, asg, sup, nightly>>

-----------------------------------------------------------------------------
(* run_nightly's custody steps, in their order.  recompute_state reads the  *)
(* events ...                                                               *)
RecomputeRead ==
    /\ nightly.at = "idle"
    /\ nightly' = [at |-> "write", derived |-> eventStage]
    /\ UNCHANGED <<contactVars, flagVars, stageVars, partnerStatus, batch, asg, sup, scrub>>

(* ... and writes the stages it derived from them.                          *)
RecomputeWrite ==
    /\ nightly.at = "write"
    /\ stage' = nightly.derived
    /\ nightly' = [nightly EXCEPT !.at = "expire"]
    /\ UNCHANGED <<contactVars, flagVars, eventStage, partnerStatus, batch, asg, sup, scrub>>

(* Mutants of RunExpiryStep: an event type custody does not know; only the  *)
(* batches of active partners expire.                                       *)
RunExpiryStepUnpinned ==
    /\ nightly.at = "expire"
    /\ SetOwner({c \in Contacts : pointer[c] # None /\ batch[pointer[c]].expired},
                House, "lapsed", None)
    /\ nightly' = [nightly EXCEPT !.at = "won"]
    /\ UNCHANGED <<flagVars, stageVars, partnerStatus, batch, asg, sup, scrub>>

RunExpiryStepActiveOnly ==
    /\ nightly.at = "expire"
    /\ SetOwner({c \in Contacts : /\ pointer[c] # None /\ batch[pointer[c]].expired
                                  /\ partnerStatus[owner[c]] = "active"},
                House, "expired", None)
    /\ nightly' = [nightly EXCEPT !.at = "won"]
    /\ UNCHANGED <<flagVars, stageVars, partnerStatus, batch, asg, sup, scrub>>

(* run_expiry_step: the contacts whose batch is past expires_at return.     *)
RunExpiryStep ==
    /\ nightly.at = "expire"
    /\ SetOwner({c \in Contacts : pointer[c] # None /\ batch[pointer[c]].expired},
                House, "expired", None)
    /\ nightly' = [nightly EXCEPT !.at = "won"]
    /\ UNCHANGED <<flagVars, stageVars, partnerStatus, batch, asg, sup, scrub>>

(* Mutant of RunWonTerminationStep: waits for the batch to expire.          *)
RunWonTerminationStepLate ==
    /\ nightly.at = "won"
    /\ SetOwner({c \in Contacts : /\ stage[c] = "won" /\ pointer[c] # None
                                  /\ batch[pointer[c]].expired},
                House, "reclaimed", None)
    /\ nightly' = [nightly EXCEPT !.at = "idle"]
    /\ UNCHANGED <<flagVars, stageVars, partnerStatus, batch, asg, sup, scrub>>

(* run_won_termination_step: the won contacts a partner holds return.       *)
RunWonTerminationStep ==
    /\ nightly.at = "won"
    /\ SetOwner({c \in Contacts : stage[c] = "won" /\ pointer[c] # None},
                House, "reclaimed", None)
    /\ nightly' = [nightly EXCEPT !.at = "idle"]
    /\ UNCHANGED <<flagVars, stageVars, partnerStatus, batch, asg, sup, scrub>>

(* A step raises, or the machine stops: the night ends where it was.        *)
NightlyFails ==
    /\ nightly.at # "idle"
    /\ nightly' = [nightly EXCEPT !.at = "idle"]
    /\ UNCHANGED <<contactVars, flagVars, stageVars, partnerStatus, batch, asg, sup, scrub>>

-----------------------------------------------------------------------------
(* The world: events that change what the stage derives to (an inbound, a   *)
(* human's `lost`, a signup), time and the operator.                        *)
EventArrives(c, new) ==
    /\ eventStage[c] \in {"open", "mid"}
    /\ new \in {"open", "mid", "won"} \ {eventStage[c]}
    /\ eventStage' = [eventStage EXCEPT ![c] = new]
    /\ UNCHANGED <<contactVars, flagVars, stage, partnerStatus, batch, asg, sup, scrub, nightly>>

CheckAges(c) ==
    /\ checkedAge[c] # "stale"
    /\ checkedAge' = [checkedAge EXCEPT ![c] = IF @ = "fresh" THEN "due" ELSE "stale"]
    /\ UNCHANGED <<contactVars, doNotCall, dncRegistry, stageVars, partnerStatus, batch, asg, sup,
                   scrub, nightly>>

(* The batch's expires_at passes.                                           *)
BatchExpires(k) ==
    /\ batch[k] # None
    /\ ~batch[k].expired
    /\ batch' = [batch EXCEPT ![k].expired = TRUE]
    /\ UNCHANGED <<contactVars, flagVars, stageVars, partnerStatus, asg, sup, scrub, nightly>>

(* `partners_cli set --status`.                                             *)
SetPartnerStatus(p) ==
    /\ partnerStatus' = [partnerStatus EXCEPT ![p] =
                           IF @ = "active" THEN "inactive" ELSE "active"]
    /\ UNCHANGED <<contactVars, flagVars, stageVars, batch, asg, sup, scrub,
                   nightly>>

Next ==
    \/ \E a \in Callers, k \in Keys, p \in Partners : AssignCheck(a, k, p)
    \/ \E a \in Callers : AssignCommit(a)
    \/ \E a \in Callers : AssignAbort(a)
    \/ \E s \in Suppressors, c \in Contacts, channel \in Channels : SuppressRead(s, c, channel)
    \/ \E s \in Suppressors : SuppressCommit(s)
    \/ \E p \in Partners : Reclaim(p)
    \/ \E r \in Scrubbers : ScrubDue(r)
    \/ \E r \in Scrubbers : \E row \in scrub[r].todo : ScrubApply(r, row)
    \/ \E r \in Scrubbers : ScrubClear(r)
    \/ \E r \in Scrubbers : ScrubCrash(r)
    \/ RecomputeRead
    \/ RecomputeWrite
    \/ RunExpiryStep
    \/ RunWonTerminationStep
    \/ NightlyFails
    \/ \E c \in Contacts, new \in Stages : EventArrives(c, new)
    \/ \E c \in Contacts : CheckAges(c)
    \/ \E k \in Keys : BatchExpires(k)
    \/ \E p \in Partners : SetPartnerStatus(p)

Spec == Init /\ [][Next]_vars

(* cron starts a night whenever none is running, and a night that keeps     *)
(* failing is repaired in the end.  Nothing else is assumed to happen.      *)
Fairness ==
    /\ WF_vars(RecomputeRead)
    /\ SF_vars(RecomputeWrite)
    /\ SF_vars(RunExpiryStep)
    /\ SF_vars(RunWonTerminationStep)

FairSpec == Spec /\ Fairness

-----------------------------------------------------------------------------
(* Type correctness of the columns, the event log and the sessions.         *)
TypeOK ==
    /\ owner \in [Contacts -> Owners]
    /\ pointer \in [Contacts -> Keys \cup {None}]
    /\ doNotCall \in [Contacts -> BOOLEAN]
    /\ dncRegistry \in [Contacts -> BOOLEAN]
    /\ checkedAge \in [Contacts -> Ages]
    /\ stage \in [Contacts -> Stages]
    /\ eventStage \in [Contacts -> Stages]
    /\ log \in [Contacts -> Seq(Event)]
    /\ batch \in [Keys -> BatchRow \cup {None}]
    /\ partnerStatus \in [Partners -> {"active", "inactive"}]
    /\ asg \in [Callers -> Request \cup {None}]
    /\ sup \in [Suppressors -> Suppression \cup {None}]
    /\ scrub \in [Scrubbers -> Pass]
    /\ nightly \in [at : {"idle", "write", "expire", "won"}, derived : [Contacts -> Stages]]

(* The single-writer invariant: the owner column always equals the owner    *)
(* the event stream derives (derivation/custody.py), and each event's       *)
(* previous_owner_id is the owner the event before it left.                 *)
OwnerMatchesEvents ==
    \A c \in Contacts :
        /\ owner[c] = CurrentOwner(log[c])
        /\ \A i \in 1..Len(log[c]) :
              log[c][i].prev = IF i = 1 THEN House ELSE log[c][i - 1].new

(* The batch pointer is set exactly while a partner holds the contact, and  *)
(* then names a batch that was made for that partner and took that contact: *)
(* expiry, which joins on the pointer, can find every holding.              *)
PointerMatchesOwner ==
    \A c \in Contacts :
        /\ (pointer[c] = None) <=> (owner[c] = House)
        /\ pointer[c] # None =>
              /\ batch[pointer[c]] # None
              /\ batch[pointer[c]].partner = owner[c]
              /\ c \in batch[pointer[c]].members

(* A retry under the same key reports the batch's original membership, from *)
(* the events alone, whatever has been released since; and a key moves a    *)
(* contact at most once however many calls and retries carry it.            *)
ReceiptIsOriginal ==
    \A k \in Keys :
        /\ batch[k] # None =>
              RetryReceipt(k).assigned \cup RetryReceipt(k).released = batch[k].members
        /\ batch[k] = None => AssignedIn(k) = {}
        /\ \A c \in Contacts : \A i, j \in 1..Len(log[c]) :
              /\ log[c][i].type = "assigned" /\ log[c][i].batch = k
              /\ log[c][j].type = "assigned" /\ log[c][j].batch = k
              => i = j

(* The house never gives a partner a contact that has asked not to be       *)
(* called: a suppress that commits while an assign_batch is between its     *)
(* reads and its locks still wins.                                          *)
NoHandoverAfterDoNotCall ==
    [][\A c \in Contacts :
          (doNotCall[c] /\ owner[c] = House) => owner'[c] = House]_vars

(* Only recompute_state can leave a won contact with a partner, and only    *)
(* until the won-termination step of the same night: no verb that runs      *)
(* beside the night puts one there.                                         *)
WonHeldOnlyByRecompute ==
    [][\A c \in Contacts :
          (/\ stage'[c] = "won" /\ pointer'[c] # None
           /\ ~(stage[c] = "won" /\ pointer[c] # None)) => nightly.at = "write"]_vars

(* A paying customer leaves the partner's list though its batch may never   *)
(* expire: the night, not the expiry date, sees to it.  (It stops being won *)
(* only by an opt-out, which outranks won and has its own removal.)         *)
WonIsReturned ==
    \A c \in Contacts :
        (stage[c] = "won" /\ pointer[c] # None)
            ~> (pointer[c] = None \/ stage[c] = "suppressed")

(* Custody is never for good: if expiry dates pass, every holding ends,     *)
(* also when the partner is inactive or a race left it on a contact it      *)
(* should have lost.                                                        *)
EveryHoldingEnds ==
    (\A k \in Keys : WF_vars(BatchExpires(k))) =>
        \A c \in Contacts : (owner[c] # House) ~> (owner[c] = House)

-----------------------------------------------------------------------------
(* service/contacts.py:484-485: setting a voice-blocking flag "immediately  *)
(* removes the contact from its assignment -- same transaction, so the      *)
(* removal cannot be lost".                                                 *)
DoNotCallIsNotHeld == \A c \in Contacts : doNotCall[c] => owner[c] = House
=============================================================================
