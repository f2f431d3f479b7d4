------------------------------ MODULE Ingestion ------------------------------
(***************************************************************************)
(* How facts become judgments: inlets append events (service/ingestion.py, *)
(* jobs/sync.py, jobs/close_correlation.py), resolution passes give them   *)
(* to contacts (resolution/matcher.py), and the night judges the contacts  *)
(* (jobs/nightly.py, recompute_state).  A pass is one READ COMMITTED       *)
(* transaction: its orphans are read once, its lookups see what has been   *)
(* committed since and what it wrote itself.                               *)
(***************************************************************************)
EXTENDS Derivation

CONSTANTS
    Facts,      \* what happens; a fact's id stands for (source, external_id)
    Inlet,      \* how each fact comes in
    About,      \* the contact it is about
    Code,       \* the piece whose mailer code it carries
    Thread,     \* the conversation it belongs to
    Phone,      \* the contact whose phone number it carries
    Worlds,     \* sets of facts that may happen side by side
    Contacts, Pieces, Threads,
    Addressee,  \* the contact each piece was mailed to
    Sessions,   \* web requests that run resolve_orphans
    MaxFails,   \* bound: nights that may fail
    None

Night == "night"
Inlets == {"feed", "push", "close", "drop", "desk"}

(* events.payload, as resolution reads it, and what resolve returns.        *)
Payload == [code : Pieces \cup {None}, phone : Contacts \cup {None}]
Match == [contact : Contacts, piece : Pieces \cup {None}]

(* The keys a fact carries never contradict each other; a delivery scan has *)
(* its piece's code; a close is a signup known by phone.                    *)
ASSUME IngestionAssumption ==
    /\ Facts \subseteq Fact /\ \A f, g \in Facts : f.id = g.id => f = g
    /\ None \notin Contacts \cup Pieces \cup Threads \cup Payload \cup Match
    /\ None \notin {"submitted", "delivered", "returned"}
    /\ Inlet \in [Facts -> Inlets] /\ About \in [Facts -> Contacts]
    /\ Code \in [Facts -> Pieces \cup {None}] /\ Thread \in [Facts -> Threads \cup {None}]
    /\ Phone \in [Facts -> Contacts \cup {None}] /\ Addressee \in [Pieces -> Contacts]
    /\ \A f \in Facts : Code[f] # None => Addressee[Code[f]] = About[f]
    /\ \A f \in Facts : Phone[f] # None => Phone[f] = About[f]
    /\ \A f, g \in Facts : Thread[f] # None /\ Thread[f] = Thread[g] => About[f] = About[g]
    /\ \A f \in Facts : Inlet[f] \in {"feed", "drop"} => Code[f] # None
    /\ \A f \in Facts : Inlet[f] = "drop" <=> f.type = "piece.submitted"
    /\ \A f \in Facts : Inlet[f] = "close" =>
          f.type = "signup.completed" /\ Phone[f] # None /\ Thread[f] = None
    /\ MaxFails \in Nat /\ Night \notin Sessions
    /\ Worlds \subseteq SUBSET Facts

VARIABLES
    happening,    \* the facts of this world: no other ever happens
    offered,      \* the facts of feeds and closes there are to be pulled
    shown,        \* the closes whose customer has left a phone number
    payload,      \* events.payload, None while there is no row
    owner,        \* events.contact_id
    piece,        \* events.piece_id
    status,       \* pieces.status, None while there is no row
    pass,         \* the resolution passes in flight
    night,        \* where run_nightly stands
    judged,       \* the events recompute_state read
    snapshot,     \* contacts.stage_snapshot
    undeliverable \* contacts.address_undeliverable

world == <<happening, offered, shown>>
events == <<payload, owner, piece, status>>
contacts == <<judged, snapshot, undeliverable>>
vars == <<world, events, pass, night, contacts>>

Passes == Sessions \cup {Night}
Of(inlet) == {f \in Facts : Inlet[f] = inlet}
History(c) == {f \in Facts : owner[f] = c}

DeliveryTypes == {"piece.delivered", "piece.returned"}
Closed == [open |-> FALSE, todo |-> {}, read |-> [f \in Facts |-> None],
           found |-> [f \in Facts |-> None]]
Asleep(fails) == [step |-> "asleep", todo |-> {}, insert |-> [f \in Facts |-> None],
                  backfill |-> {}, goal |-> {}, fails |-> fails]

Init ==
    /\ happening \in Worlds /\ offered = {} /\ shown = {}
    /\ payload = [f \in Facts |-> None] /\ owner = [f \in Facts |-> None]
    /\ piece = [f \in Facts |-> None] /\ status = [p \in Pieces |-> None]
    /\ pass = [r \in Passes |-> Closed]
    /\ night = Asleep(0)
    /\ judged = [c \in Contacts |-> {}]
    /\ snapshot = [c \in Contacts |-> "prospect"]
    /\ undeliverable = [c \in Contacts |-> FALSE]

-----------------------------------------------------------------------------
(* Outside: a scan, a visit or a purchase happens; a customer leaves a      *)
(* number.                                                                  *)
Happens(f) ==
    /\ Inlet[f] \in {"feed", "close"} /\ f \in happening \ offered
    /\ offered' = offered \cup {f}
    /\ UNCHANGED <<happening, shown, events, pass, night, contacts>>

LeavesNumber(f) ==
    /\ Inlet[f] = "close" /\ f \in offered \ shown
    /\ shown' = shown \cup {f}
    /\ UNCHANGED <<happening, offered, events, pass, night, contacts>>

(* Mutant of AppendEvent: a repeated event overwrites its row.              *)
AppendEventUpsert(f, contact, of) ==
    /\ payload' = [payload EXCEPT ![f] = [code |-> Code[f], phone |-> Phone[f]]]
    /\ owner' = [owner EXCEPT ![f] = contact]
    /\ piece' = [piece EXCEPT ![f] = of]

(* append_event: a (source, external_id) that has a row gets no other.      *)
AppendEvent(f, contact, of) ==
    IF payload[f] # None THEN UNCHANGED <<payload, owner, piece>>
    ELSE /\ payload' = [payload EXCEPT ![f] = [code |-> Code[f], phone |-> Phone[f]]]
         /\ owner' = [owner EXCEPT ![f] = contact]
         /\ piece' = [piece EXCEPT ![f] = of]

(* A webhook or API call, at any time and any number of times.              *)
Push(f) ==
    /\ Inlet[f] = "push" /\ f \in happening
    /\ AppendEvent(f, None, None)
    /\ UNCHANGED <<world, status, pass, night, contacts>>

(* A verb of the desk names the contact itself.                             *)
AtDesk(f) ==
    /\ Inlet[f] = "desk" /\ f \in happening /\ payload[f] = None
    /\ AppendEvent(f, About[f], None)
    /\ UNCHANGED <<world, status, pass, night, contacts>>

(* execute_wave commits the piece and its piece.submitted together.         *)
CommitPiece(f) ==
    /\ Inlet[f] = "drop" /\ f \in happening /\ status[Code[f]] = None
    /\ status' = [status EXCEPT ![Code[f]] = "submitted"]
    /\ AppendEvent(f, About[f], Code[f])
    /\ UNCHANGED <<world, pass, night, contacts>>

-----------------------------------------------------------------------------
Orphans == {f \in Facts : payload[f] # None /\ owner[f] = None}

(* Mutant of ResolveRead: only recent orphans are looked at again.          *)
ResolveReadSince(r) ==
    LET recent == {f \in Orphans : f.at >= Horizon} IN
    pass' = [pass EXCEPT ![r] =
                [Closed EXCEPT !.open = TRUE, !.todo = recent,
                               !.read = [f \in Facts |-> IF f \in recent THEN payload[f] ELSE None]]]

(* resolve_orphans reads the unattributed events once.                      *)
ResolveRead(r) ==
    pass' = [pass EXCEPT ![r] =
                [Closed EXCEPT !.open = TRUE, !.todo = Orphans,
                               !.read = [f \in Facts |-> IF f \in Orphans THEN payload[f] ELSE None]]]

(* The owner a lookup of the pass sees: its own writes come first.          *)
OwnerSeenBy(r, f) ==
    IF pass[r].found[f] # None THEN pass[r].found[f].contact ELSE owner[f]

(* Mutant of Thereon: any conversation.                                     *)
ThereonAnywhere(r, f) ==
    {g \in Facts : Thread[f] # None /\ OwnerSeenBy(r, g) # None}

(* contact_by_thread: the earliest attributed events on the thread.         *)
Thereon(r, f) ==
    {g \in Facts : Thread[f] # None /\ Thread[g] = Thread[f] /\ OwnerSeenBy(r, g) # None}
EarliestThereon(r, f) == {g \in Thereon(r, f) : \A h \in Thereon(r, f) : g.at <= h.at}

KnownByCode(r, f) ==
    pass[r].read[f].code # None /\ status[pass[r].read[f].code] # None

(* Mutant of Matches: the two columns of the piece's row are mixed up.      *)
MatchesSwapped(r, f) ==
    LET key == pass[r].read[f] IN
    IF KnownByCode(r, f) THEN {[contact |-> key.code, piece |-> Addressee[key.code]]}
    ELSE IF Thereon(r, f) # {}
         THEN {[contact |-> OwnerSeenBy(r, g), piece |-> None] : g \in EarliestThereon(r, f)}
    ELSE IF key.phone # None THEN {[contact |-> key.phone, piece |-> None]}
    ELSE {}

(* resolve: code, then thread, then phone; the first that succeeds.         *)
Matches(r, f) ==
    LET key == pass[r].read[f] IN
    IF KnownByCode(r, f) THEN {[contact |-> Addressee[key.code], piece |-> key.code]}
    ELSE IF Thereon(r, f) # {}
         THEN {[contact |-> OwnerSeenBy(r, g), piece |-> None] : g \in EarliestThereon(r, f)}
    ELSE IF key.phone # None THEN {[contact |-> key.phone, piece |-> None]}
    ELSE {}

(* The rows another pass has written and not committed: the event's, and    *)
(* the piece's when its status is updated.                                  *)
Held(r, f, m) ==
    \E q \in Passes \ {r} :
        \/ pass[q].found[f] # None
        \/ /\ f.type \in DeliveryTypes /\ m.piece # None
           /\ \E g \in Facts : /\ g.type \in DeliveryTypes /\ pass[q].found[g] # None
                               /\ pass[q].found[g].piece = m.piece

(* One orphan of the list, in any order.                                    *)
ResolveOne(r) ==
    /\ \E f \in pass[r].todo :
          \/ /\ Matches(r, f) = {}
             /\ pass' = [pass EXCEPT ![r].todo = @ \ {f}, ![r].read[f] = None]
          \/ \E m \in Matches(r, f) :
                /\ ~Held(r, f, m)
                /\ pass' = [pass EXCEPT ![r].todo = @ \ {f}, ![r].read[f] = None, ![r].found[f] = m]
    /\ UNCHANGED <<world, events, night, contacts>>

(* Mutant of StatusAfter: the last pass decides.                            *)
StatusAfterLastWins(found, p) ==
    LET types == {f.type : f \in {g \in Facts : found[g] # None /\ found[g].piece = p}} IN
    IF "piece.delivered" \in types THEN "delivered"
    ELSE IF "piece.returned" \in types THEN "returned"
    ELSE status[p]

(* The status of a piece after the updates of a pass.                       *)
StatusAfter(found, p) ==
    LET types == {f.type : f \in {g \in Facts : found[g] # None /\ found[g].piece = p}} IN
    IF "piece.returned" \in types \/ status[p] = "returned" THEN "returned"
    ELSE IF "piece.delivered" \in types THEN "delivered"
    ELSE status[p]

ResolveCommits(r) ==
    LET found == pass[r].found IN
    /\ pass[r].open /\ pass[r].todo = {}
    /\ owner' = [f \in Facts |-> IF found[f] = None THEN owner[f] ELSE found[f].contact]
    /\ piece' = [f \in Facts |-> IF found[f] = None \/ found[f].piece = None
                                  THEN piece[f] ELSE found[f].piece]
    /\ status' = [p \in Pieces |-> StatusAfter(found, p)]
    /\ pass' = [pass EXCEPT ![r] = Closed]
    /\ UNCHANGED payload

(* /orphans/resolve                                                         *)
WebResolves(r) ==
    /\ ~pass[r].open
    /\ ResolveRead(r)
    /\ UNCHANGED <<world, events, night, contacts>>

WebCommits(r) ==
    /\ ResolveCommits(r)
    /\ UNCHANGED <<world, night, contacts>>

(* The request dies, or the database picks it to break a deadlock.          *)
WebAborts(r) ==
    /\ pass[r].open
    /\ pass' = [pass EXCEPT ![r] = Closed]
    /\ UNCHANGED <<world, events, night, contacts>>

-----------------------------------------------------------------------------
(* run_nightly starts: the feeds hold what has been offered.  goal, which   *)
(* the code does not keep, is what this night owes a judgment.              *)
NightStarts ==
    /\ night.step = "asleep"
    /\ night' = [night EXCEPT !.step = "sync", !.todo = offered \cap Of("feed"),
                   !.goal = {f \in offered \cap Of("feed") : status[Code[f]] # None}
                            \cup (shown \cap Of("close"))]
    /\ UNCHANGED <<world, events, pass, contacts>>

(* sync: one event, one transaction.                                        *)
SyncOne ==
    /\ night.step = "sync"
    /\ \E f \in night.todo : /\ AppendEvent(f, None, None)
                             /\ night' = [night EXCEPT !.todo = @ \ {f}]
    /\ UNCHANGED <<world, status, pass, contacts>>

NightResolves ==
    /\ night.step = "sync" /\ night.todo = {}
    /\ ResolveRead(Night)
    /\ night' = [night EXCEPT !.step = "resolve"]
    /\ UNCHANGED <<world, events, contacts>>

(* The pass commits and correlate_closes reads its feed; or, the closes     *)
(* done, recompute_state is next.                                           *)
NightCommits ==
    /\ ResolveCommits(Night)
    /\ night' = IF night.step = "resolve"
                THEN [night EXCEPT !.step = "closes", !.todo = offered \cap Of("close")]
                ELSE [night EXCEPT !.step = "recompute"]
    /\ UNCHANGED <<world, contacts>>

(* The double-count guard sees committed signups and its own.               *)
HasClosed(c) ==
    \/ HasSignup(History(c))
    \/ \E f \in Facts : night.insert[f] # None /\ night.insert[f].phone = c

(* The payload of a close: a mailer code only if we printed it, the number  *)
(* if there is one by now.                                                  *)
CloseKeys(f) ==
    [code  |-> IF Code[f] # None /\ status[Code[f]] # None THEN Code[f] ELSE None,
     phone |-> IF f \in shown THEN Phone[f] ELSE None]

LacksNumber(f) == payload[f] # None /\ owner[f] = None /\ payload[f].phone = None

(* One close: give a stored orphan the number it lacked, insert what is     *)
(* new, or skip what is stored or what the guard knows.                     *)
CorrelateOne ==
    /\ night.step = "closes"
    /\ \E f \in night.todo :
          \/ /\ f \in shown /\ LacksNumber(f)
             /\ night' = [night EXCEPT !.todo = @ \ {f}, !.backfill = @ \cup {f}]
          \/ /\ payload[f] = None /\ ~(f \in shown /\ HasClosed(Phone[f]))
             /\ night' = [night EXCEPT !.todo = @ \ {f}, !.insert[f] = CloseKeys(f)]
          \/ /\ IF payload[f] # None THEN ~(f \in shown /\ LacksNumber(f))
                ELSE f \in shown /\ HasClosed(Phone[f])
             /\ night' = [night EXCEPT !.todo = @ \ {f}]
    /\ UNCHANGED <<world, events, pass, contacts>>

(* Mutant of CorrelateCommits: the numbers wait for the next night's pass.  *)
CorrelateCommitsAtOnce ==
    /\ night.step = "closes" /\ night.todo = {}
    /\ payload' = [f \in Facts |-> IF night.insert[f] # None THEN night.insert[f]
                                   ELSE IF f \in night.backfill
                                   THEN [payload[f] EXCEPT !.phone = Phone[f]]
                                   ELSE payload[f]]
    /\ owner' = [f \in Facts |-> IF night.insert[f] # None THEN night.insert[f].phone
                                 ELSE owner[f]]
    /\ night' = [night EXCEPT !.step = "recompute", !.insert = [f \in Facts |-> None],
                              !.backfill = {}]
    /\ UNCHANGED <<world, piece, status, pass, contacts>>

(* The closes commit; numbers that arrived call for another pass.           *)
CorrelateCommits ==
    /\ night.step = "closes" /\ night.todo = {}
    /\ payload' = [f \in Facts |-> IF night.insert[f] # None THEN night.insert[f]
                                   ELSE IF f \in night.backfill
                                   THEN [payload[f] EXCEPT !.phone = Phone[f]]
                                   ELSE payload[f]]
    /\ owner' = [f \in Facts |-> IF night.insert[f] # None THEN night.insert[f].phone
                                 ELSE owner[f]]
    /\ night' = [night EXCEPT !.step = IF night.backfill = {} THEN "recompute" ELSE "again",
                              !.insert = [f \in Facts |-> None], !.backfill = {}]
    /\ UNCHANGED <<world, piece, status, pass, contacts>>

NightResolvesAgain ==
    /\ night.step = "again" /\ ~pass[Night].open
    /\ ResolveRead(Night)
    /\ UNCHANGED <<world, events, night, contacts>>

(* recompute_state reads every contact's events, then writes every contact. *)
RecomputeRead ==
    /\ night.step = "recompute"
    /\ judged' = [c \in Contacts |-> History(c)]
    /\ night' = [night EXCEPT !.step = "write"]
    /\ UNCHANGED <<world, events, pass, snapshot, undeliverable>>

RecomputeWrite ==
    /\ night.step = "write"
    /\ snapshot' = [c \in Contacts |-> DeriveStage(judged[c])]
    /\ undeliverable' = [c \in Contacts |-> IsAddressUndeliverable(judged[c])]
    /\ judged' = [c \in Contacts |-> {}]
    /\ night' = Asleep(night.fails)
    /\ UNCHANGED <<world, events, pass>>

(* A feed raises, the box dies or a deadlock is broken: nothing that was    *)
(* not committed remains.                                                   *)
NightFails ==
    /\ night.step # "asleep" /\ night.fails < MaxFails
    /\ night' = Asleep(night.fails + 1)
    /\ pass' = [pass EXCEPT ![Night] = Closed]
    /\ judged' = [c \in Contacts |-> {}]
    /\ UNCHANGED <<world, events, snapshot, undeliverable>>

-----------------------------------------------------------------------------
NightSteps ==
    \/ NightStarts \/ SyncOne \/ NightResolves \/ ResolveOne(Night) \/ NightCommits
    \/ CorrelateOne \/ CorrelateCommits \/ NightResolvesAgain
    \/ RecomputeRead \/ RecomputeWrite

Next ==
    \/ \E f \in Facts : Happens(f) \/ LeavesNumber(f) \/ Push(f) \/ AtDesk(f) \/ CommitPiece(f)
    \/ \E r \in Sessions : WebResolves(r) \/ ResolveOne(r) \/ WebCommits(r) \/ WebAborts(r)
    \/ NightSteps
    \/ NightFails

(* Two passes that wait for each other's rows: the database picks one.      *)
Waits(r) ==
    /\ pass[r].todo # {}
    /\ \A f \in pass[r].todo : Matches(r, f) # {} /\ \A m \in Matches(r, f) : Held(r, f, m)

(* Nights keep coming and run on, requests end, and a row lock is granted   *)
(* to who waits for it.                                                     *)
Fairness ==
    /\ WF_vars(NightSteps) /\ SF_vars(ResolveOne(Night))
    /\ \A r \in Sessions : /\ WF_vars(ResolveOne(r)) /\ WF_vars(WebCommits(r))
                           /\ WF_vars(WebAborts(r) /\ Waits(r) /\ Waits(Night))

Spec == Init /\ [][Next]_vars /\ Fairness

-----------------------------------------------------------------------------
TypeOK ==
    /\ happening \in Worlds /\ shown \subseteq offered /\ offered \subseteq happening
    /\ payload \in [Facts -> Payload \cup {None}]
    /\ owner \in [Facts -> Contacts \cup {None}]
    /\ piece \in [Facts -> Pieces \cup {None}]
    /\ status \in [Pieces -> {None, "submitted", "delivered", "returned"}]
    /\ pass \in [Passes -> [open : BOOLEAN, todo : SUBSET Facts,
                            read : [Facts -> Payload \cup {None}],
                            found : [Facts -> Match \cup {None}]]]
    /\ \A r \in Passes : \A f \in pass[r].todo : pass[r].read[f] # None
    /\ night \in [step : {"asleep", "sync", "resolve", "closes", "again", "recompute", "write"},
                  todo : SUBSET Facts, insert : [Facts -> Payload \cup {None}],
                  backfill : SUBSET Facts, goal : SUBSET Facts, fails : 0..MaxFails]
    /\ judged \in [Contacts -> SUBSET Facts]
    /\ snapshot \in [Contacts -> ContactStages]
    /\ undeliverable \in [Contacts -> BOOLEAN]

(* However passes overlap, an event is given to the contact it is about.    *)
AttributionIsTrue == \A f \in Facts : owner[f] \in {None, About[f]}

(* pieces.status is what the piece's attributed events say, a return before *)
(* all, in whatever order and by whichever pass they were resolved.         *)
StatusTellsDelivery ==
    \A p \in Pieces :
        LET types == {f.type : f \in {g \in Facts : piece[g] = p}} IN
        /\ status[p] = None => types = {}
        /\ status[p] = "returned" <=> "piece.returned" \in types
        /\ status[p] = "delivered" => "piece.delivered" \in types
        /\ "piece.delivered" \in types => status[p] \in {"delivered", "returned"}

(* "Never judge stale state": what the feeds held when the night began is   *)
(* in the judgment it writes; a close whose number was known has been       *)
(* counted for its contact.                                                 *)
NightJudgesEverything ==
    night.step = "write" =>
        \A f \in night.goal :
            IF Inlet[f] = "close" THEN HasSignup(judged[Phone[f]])
            ELSE f \in judged[About[f]]

(* A contact's attributed events are a history that only grows.             *)
Told(c) == INSTANCE EventHistory
           WITH Occurrences <- {f \in Facts : About[f] = c}, history <- History(c)
ImplementsHistory ==
    /\ \A c \in Contacts : Told(c)!Init
    /\ [][\A c \in Contacts : Told(c)!Next \/ UNCHANGED History(c)]_vars

(* The stage a contact is shown with never goes back, leaving lost aside.   *)
SnapshotForward ==
    [][\A c \in Contacts : "lost" \notin {snapshot[c], snapshot'[c]} =>
            Rank(snapshot[c]) <= Rank(snapshot'[c])]_vars

(* The facts about a contact that carry a key this system can look up.      *)
Keyed(f) ==
    \/ owner[f] # None
    \/ Inlet[f] = "close" /\ f \in shown
    \/ Inlet[f] = "feed" /\ f \in offered /\ status[Code[f]] # None
    \/ /\ Inlet[f] = "push" /\ payload[f] # None
       /\ Phone[f] # None \/ (Code[f] # None /\ status[Code[f]] # None)

Due(c) ==
    {f \in Facts : /\ About[f] = c
                   /\ \/ Keyed(f)
                      \/ /\ payload[f] # None /\ Thread[f] # None
                         /\ \E g \in Facts : Keyed(g) /\ Thread[g] = Thread[f]}

(* Every fact that can be attributed is, and comes to be judged.            *)
SnapshotsCatchUp ==
    \A c \in Contacts : <>[](snapshot[c] = DeriveStage(Due(c)))
=============================================================================
