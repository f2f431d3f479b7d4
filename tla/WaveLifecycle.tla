--------------------------- MODULE WaveLifecycle ---------------------------
(***************************************************************************)
(* A wave of postcards from draft to mailbox: the operator's verbs         *)
(* (service/waves.py), the drop that mails it (service/execution.py,       *)
(* jobs/drop.py) and the print vendor behind the drop.                     *)
(*                                                                         *)
(* Every verb reads the wave's status with a plain select and later        *)
(* updates the row unconditionally, so each is a read and a commit; a drop *)
(* is one transaction for its gate, one per piece and one to finish, may   *)
(* be killed anywhere, and may run twice at once (cron and /drops/run).    *)
(*                                                                         *)
(* A wave carries one variant, standing for its split: _assign_variant is  *)
(* a pure function of the contact and the split.  The preview's state_hash *)
(* only ever refuses an approval, so approvals that pass it are modelled.  *)
(***************************************************************************)
EXTENDS Integers, FiniteSets

CONSTANTS
    Waves,           \* rows of waves
    Contacts,        \* rows of contacts
    Seeds,           \* the contacts that are is_seed
    Variants,        \* rows of variants
    Creatives,       \* contents of variants.creative
    None,            \* SQL null, and an idle session
    Operators,       \* concurrent web requests
    Executors,       \* concurrent runs of the drop
    DriftTolerance,  \* DRIFT_TOLERANCE, in percent
    MaxKills         \* bound: how many drops are killed

VARIABLES
    wave,      \* waves
    creative,  \* variants.creative
    mailable,  \* not do_not_mail, not suppressed, not undeliverable
    stage,     \* contacts.stage_snapshot
    piece,     \* committed rows of pieces, each with its piece.submitted event
    cards,     \* the postcards the vendor has printed; copy tells reprints apart
    web,       \* an operator's verb past its read
    drop,      \* a run of execute_wave past its first read
    kills      \* drops killed so far

contactVars == <<mailable, stage>>
mailVars    == <<piece, cards>>
vars == <<wave, creative, contactVars, mailVars, web, drop, kills>>

Rules    == {"everyone", "prospects"}  \* no stage filter; {"stage": ["prospect"]}
Statuses == {"draft", "approved", "executing", "sent", "cancelled"}
Stages   == {"prospect", "in_sequence", "responded"}

(* approvedAt: whether approved_at is set; count: approved_audience_count.  *)
WaveRow == [status : Statuses, rule : Rules, variant : Variants,
            approvedAt : BOOLEAN, count : Nat]
Card    == [wave : Waves, contact : Contacts, variant : Variants, creative : Creatives,
            copy : Nat]
Verb    == [verb : {"update"}, wave : Waves, rule : Rules, variant : Variants]
             \cup [verb : {"revise"}, variant : Variants, creative : Creatives]
             \cup [verb : {"approve"}, wave : Waves, count : Nat]
             \cup [verb : {"cancel"}, wave : Waves]
Run     == [wave : Waves, at : {"gate", "loop"}, status : Statuses, variant : Variants,
            creative : Creatives, todo : SUBSET Contacts, inFlight : Contacts \cup {None}]

(* Sizes are finite, the tolerance is a percentage, and null is no row.      *)
ASSUME WaveAssumption ==
    /\ Seeds \subseteq Contacts
    /\ IsFiniteSet(Contacts)
    /\ DriftTolerance \in 0..100
    /\ MaxKills \in Nat
    /\ None \notin WaveRow \cup Verb \cup Run \cup Contacts \cup Variants

-----------------------------------------------------------------------------
(* resolve_audience, as far as a wave's life depends on it: the mailable    *)
(* contacts the rule matches, and every seed whatever its state.            *)
InAudience(rule, c) ==
    c \in Seeds \/ (mailable[c] /\ (rule = "prospects" => stage[c] = "prospect"))

ResolveAudience(rule) == {c \in Contacts : InAudience(rule, c)}

Status(w) == IF wave[w] = None THEN "none" ELSE wave[w].status

(* The drift guard, |now - approved| / approved > tolerance, as a band of   *)
(* sizes around the approved one.                                           *)
Tolerated(w) == ((100 - DriftTolerance) * wave[w].count)..((100 + DriftTolerance) * wave[w].count)

Drifted(w) ==
    wave[w] # None /\ 100 * Cardinality(ResolveAudience(wave[w].rule)) \notin Tolerated(w)

(* Mutant of IsFrozen: by status, as its comment warns against.             *)
IsFrozenByStatus(v) ==
    \E w \in Waves : wave[w] # None /\ wave[w].variant = v /\ wave[w].status = "approved"

(* _is_frozen: some wave that carries the variant was once approved.        *)
IsFrozen(v) == \E w \in Waves : wave[w] # None /\ wave[w].variant = v /\ wave[w].approvedAt

CardsOf(w)    == {card \in cards : card.wave = w}
CardsTo(w, c) == {card \in CardsOf(w) : card.contact = c}
Printed(w, c) == CardsTo(w, c) # {}

(* The vendor prints a request.  One whose Idempotency-Key, the mailer code *)
(* of the wave and the contact, it has seen may be answered from memory;    *)
(* for how long the vendor remembers a key is not this repository's to say. *)
SubmitToVendor(w, c, v, art) ==
    \/ Printed(w, c) /\ UNCHANGED cards
    \/ cards' = cards \cup {[wave |-> w, contact |-> c, variant |-> v, creative |-> art,
                             copy |-> Cardinality(CardsTo(w, c))]}

Init ==
    /\ wave = [w \in Waves |-> None]
    /\ creative \in [Variants -> Creatives]
    /\ mailable \in [Contacts -> BOOLEAN]
    /\ stage = [c \in Contacts |-> "prospect"]
    /\ piece = [w \in Waves |-> [c \in Contacts |-> None]]
    /\ cards = {}
    /\ web = [o \in Operators |-> None]
    /\ drop = [e \in Executors |-> None]
    /\ kills = 0

-----------------------------------------------------------------------------
DraftWave(w, r, v) ==
    /\ wave[w] = None
    /\ wave' = [wave EXCEPT ![w] = [status |-> "draft", rule |-> r, variant |-> v,
                                    approvedAt |-> FALSE, count |-> 0]]
    /\ UNCHANGED <<creative, contactVars, mailVars, web, drop, kills>>

(* update_wave: draft-only, by the status it read.                          *)
UpdateWaveRead(o, w, r, v) ==
    /\ web[o] = None
    /\ Status(w) = "draft"
    /\ web' = [web EXCEPT ![o] = [verb |-> "update", wave |-> w, rule |-> r, variant |-> v]]
    /\ UNCHANGED <<wave, creative, contactVars, mailVars, drop, kills>>

UpdateWaveCommit(o) ==
    /\ web[o] # None /\ web[o].verb = "update"
    /\ wave' = [wave EXCEPT ![web[o].wave].rule = web[o].rule,
                            ![web[o].wave].variant = web[o].variant]
    /\ web' = [web EXCEPT ![o] = None]
    /\ UNCHANGED <<creative, contactVars, mailVars, drop, kills>>

(* update_variant: refused once the variant is frozen.                      *)
UpdateVariantRead(o, v, new) ==
    /\ web[o] = None
    /\ ~IsFrozen(v)
    /\ web' = [web EXCEPT ![o] = [verb |-> "revise", variant |-> v, creative |-> new]]
    /\ UNCHANGED <<wave, creative, contactVars, mailVars, drop, kills>>

UpdateVariantCommit(o) ==
    /\ web[o] # None /\ web[o].verb = "revise"
    /\ creative' = [creative EXCEPT ![web[o].variant] = web[o].creative]
    /\ web' = [web EXCEPT ![o] = None]
    /\ UNCHANGED <<wave, contactVars, mailVars, drop, kills>>

(* approve_wave: a draft whose audience, resolved now, is not empty.        *)
ApproveRead(o, w) ==
    /\ web[o] = None
    /\ Status(w) = "draft"
    /\ ResolveAudience(wave[w].rule) # {}
    /\ web' = [web EXCEPT ![o] = [verb |-> "approve", wave |-> w,
                                  count |-> Cardinality(ResolveAudience(wave[w].rule))]]
    /\ UNCHANGED <<wave, creative, contactVars, mailVars, drop, kills>>

ApproveCommit(o) ==
    /\ web[o] # None /\ web[o].verb = "approve"
    /\ wave' = [wave EXCEPT ![web[o].wave].status = "approved",
                            ![web[o].wave].approvedAt = TRUE,
                            ![web[o].wave].count = web[o].count]
    /\ web' = [web EXCEPT ![o] = None]
    /\ UNCHANGED <<creative, contactVars, mailVars, drop, kills>>

(* cancel_wave: until the status it read is executing.                      *)
CancelRead(o, w) ==
    /\ web[o] = None
    /\ Status(w) \in {"draft", "approved"}
    /\ web' = [web EXCEPT ![o] = [verb |-> "cancel", wave |-> w]]
    /\ UNCHANGED <<wave, creative, contactVars, mailVars, drop, kills>>

CancelCommit(o) ==
    /\ web[o] # None /\ web[o].verb = "cancel"
    /\ wave' = [wave EXCEPT ![web[o].wave].status = "cancelled"]
    /\ web' = [web EXCEPT ![o] = None]
    /\ UNCHANGED <<creative, contactVars, mailVars, drop, kills>>

-----------------------------------------------------------------------------
(* Mutant of ExecuteRead: an executable wave is any that was approved.      *)
ExecuteReadAnyApproved(e, w) ==
    /\ drop[e] = None
    /\ wave[w] # None /\ wave[w].approvedAt
    /\ ~Drifted(w)
    /\ drop' = [drop EXCEPT ![e] =
                  [wave |-> w, at |-> "gate", status |-> wave[w].status,
                   variant |-> wave[w].variant, creative |-> creative[wave[w].variant],
                   todo |-> ResolveAudience(wave[w].rule), inFlight |-> None]]
    /\ UNCHANGED <<wave, creative, contactVars, mailVars, web, kills>>

(* Mutant of ExecuteRead: a killed run is not picked up again.              *)
ExecuteReadApprovedOnly(e, w) ==
    /\ drop[e] = None
    /\ Status(w) = "approved"
    /\ ~Drifted(w)
    /\ drop' = [drop EXCEPT ![e] =
                  [wave |-> w, at |-> "gate", status |-> wave[w].status,
                   variant |-> wave[w].variant, creative |-> creative[wave[w].variant],
                   todo |-> ResolveAudience(wave[w].rule), inFlight |-> None]]
    /\ UNCHANGED <<wave, creative, contactVars, mailVars, web, kills>>

(* run_drops picks a wave that is approved or executing; execute_wave       *)
(* re-resolves the audience, halts on drift (and changes nothing), reads    *)
(* the creatives ...                                                        *)
ExecuteRead(e, w) ==
    /\ drop[e] = None
    /\ Status(w) \in {"approved", "executing"}
    /\ ~Drifted(w)
    /\ drop' = [drop EXCEPT ![e] =
                  [wave |-> w, at |-> "gate", status |-> wave[w].status,
                   variant |-> wave[w].variant, creative |-> creative[wave[w].variant],
                   todo |-> ResolveAudience(wave[w].rule), inFlight |-> None]]
    /\ UNCHANGED <<wave, creative, contactVars, mailVars, web, kills>>

(* ... and commits the status, whatever it has become.                      *)
ExecuteBegin(e) ==
    /\ drop[e] # None /\ drop[e].at = "gate"
    /\ wave' = IF drop[e].status = "executing" THEN wave
               ELSE [wave EXCEPT ![drop[e].wave].status = "executing"]
    /\ drop' = [drop EXCEPT ![e].at = "loop"]
    /\ UNCHANGED <<creative, contactVars, mailVars, web, kills>>

(* No run holds the uncommitted row of this mailer code: an insert of the   *)
(* same code waits for the other transaction.                               *)
CodeIsFree(w, c) ==
    \A e \in Executors : drop[e] # None => ~(drop[e].wave = w /\ drop[e].inFlight = c)

Ready(e, c) ==
    /\ drop[e] # None /\ drop[e].at = "loop"
    /\ drop[e].inFlight = None
    /\ c \in drop[e].todo
    /\ CodeIsFree(drop[e].wave, c)

(* The row is there already: on conflict do nothing, and its event too.     *)
SkipPiece(e, c) ==
    /\ Ready(e, c)
    /\ piece[drop[e].wave][c] # None
    /\ drop' = [drop EXCEPT ![e].todo = @ \ {c}]
    /\ UNCHANGED <<wave, creative, contactVars, mailVars, web, kills>>

(* Mutant of SubmitPiece: the row is recorded, the vendor never called.     *)
SubmitPieceUnprinted(e, c) ==
    /\ Ready(e, c)
    /\ piece[drop[e].wave][c] = None
    /\ drop' = [drop EXCEPT ![e].inFlight = c]
    /\ UNCHANGED <<wave, creative, contactVars, mailVars, web, kills>>

(* Mutant of SubmitPiece: a row that was submitted is not told from a new.  *)
SubmitPieceAgain(e, c) ==
    /\ Ready(e, c)
    /\ SubmitToVendor(drop[e].wave, c, drop[e].variant, drop[e].creative)
    /\ drop' = [drop EXCEPT ![e].inFlight = c]
    /\ UNCHANGED <<wave, creative, contactVars, piece, web, kills>>

(* The row is inserted and, inside its transaction, the vendor called.      *)
SubmitPiece(e, c) ==
    /\ Ready(e, c)
    /\ piece[drop[e].wave][c] = None
    /\ SubmitToVendor(drop[e].wave, c, drop[e].variant, drop[e].creative)
    /\ drop' = [drop EXCEPT ![e].inFlight = c]
    /\ UNCHANGED <<wave, creative, contactVars, piece, web, kills>>

(* Mutant of CommitPiece: the row records the contact for the variant.      *)
CommitPieceSwapped(e) ==
    /\ drop[e] # None /\ drop[e].inFlight # None
    /\ piece' = [piece EXCEPT ![drop[e].wave][drop[e].inFlight] = drop[e].inFlight]
    /\ drop' = [drop EXCEPT ![e].inFlight = None, ![e].todo = @ \ {drop[e].inFlight}]
    /\ UNCHANGED <<wave, creative, contactVars, cards, web, kills>>

(* Mutant of CommitPiece: the transaction is left without a commit.         *)
CommitPieceLost(e) ==
    /\ drop[e] # None /\ drop[e].inFlight # None
    /\ drop' = [drop EXCEPT ![e].inFlight = None, ![e].todo = @ \ {drop[e].inFlight}]
    /\ UNCHANGED <<wave, creative, contactVars, mailVars, web, kills>>

(* The row and its piece.submitted event commit together.                   *)
CommitPiece(e) ==
    /\ drop[e] # None /\ drop[e].inFlight # None
    /\ piece' = [piece EXCEPT ![drop[e].wave][drop[e].inFlight] = drop[e].variant]
    /\ drop' = [drop EXCEPT ![e].inFlight = None, ![e].todo = @ \ {drop[e].inFlight}]
    /\ UNCHANGED <<wave, creative, contactVars, cards, web, kills>>

(* The last transaction: sent, whatever the status has become.              *)
ExecuteFinish(e) ==
    /\ drop[e] # None /\ drop[e].at = "loop" /\ drop[e].todo = {}
    /\ wave' = [wave EXCEPT ![drop[e].wave].status = "sent"]
    /\ drop' = [drop EXCEPT ![e] = None]
    /\ UNCHANGED <<creative, contactVars, mailVars, web, kills>>

(* The run is killed or the vendor call fails: the open transaction rolls   *)
(* back, the vendor keeps what it printed.                                  *)
ExecuteDies(e) ==
    /\ drop[e] # None
    /\ kills < MaxKills
    /\ kills' = kills + 1
    /\ drop' = [drop EXCEPT ![e] = None]
    /\ UNCHANGED <<wave, creative, contactVars, mailVars, web>>

-----------------------------------------------------------------------------
(* suppress, or the second returned piece: the contact is out of the mail.  *)
StopMail(c) ==
    /\ mailable[c]
    /\ mailable' = [mailable EXCEPT ![c] = FALSE]
    /\ UNCHANGED <<wave, creative, stage, mailVars, web, drop, kills>>

WasMailed(c) == \E w \in Waves : piece[w][c] # None

(* recompute_state: a mailed prospect is in_sequence, or responded if it    *)
(* has answered since.                                                      *)
Recompute ==
    /\ \E answered \in SUBSET {c \in Contacts : WasMailed(c)} :
          stage' = [c \in Contacts |->
                      IF c \in answered THEN "responded"
                      ELSE IF WasMailed(c) /\ stage[c] = "prospect" THEN "in_sequence"
                      ELSE stage[c]]
    /\ UNCHANGED <<wave, creative, mailable, mailVars, web, drop, kills>>

Operate(o) ==
    \/ \E w \in Waves, r \in Rules, v \in Variants : UpdateWaveRead(o, w, r, v)
    \/ UpdateWaveCommit(o)
    \/ \E v \in Variants, new \in Creatives : UpdateVariantRead(o, v, new)
    \/ UpdateVariantCommit(o)
    \/ \E w \in Waves : ApproveRead(o, w)
    \/ ApproveCommit(o)
    \/ \E w \in Waves : CancelRead(o, w)
    \/ CancelCommit(o)

(* One executor doing what the drop does, without being killed.             *)
Execute(e) ==
    \/ \E w \in Waves : ExecuteRead(e, w)
    \/ ExecuteBegin(e)
    \/ \E c \in Contacts : SkipPiece(e, c)
    \/ \E c \in Contacts : SubmitPiece(e, c)
    \/ CommitPiece(e)
    \/ ExecuteFinish(e)

Next ==
    \/ \E w \in Waves, r \in Rules, v \in Variants : DraftWave(w, r, v)
    \/ \E o \in Operators : Operate(o)
    \/ \E e \in Executors : Execute(e) \/ ExecuteDies(e)
    \/ \E c \in Contacts : StopMail(c)
    \/ Recompute

Spec == Init /\ [][Next]_vars

(* The drop is re-run until no wave is due, and a run that is not killed    *)
(* goes on.                                                                 *)
FairSpec == Spec /\ \A e \in Executors : WF_vars(Execute(e))

-----------------------------------------------------------------------------
TypeOK ==
    /\ wave \in [Waves -> WaveRow \cup {None}]
    /\ creative \in [Variants -> Creatives]
    /\ mailable \in [Contacts -> BOOLEAN]
    /\ stage \in [Contacts -> Stages]
    /\ piece \in [Waves -> [Contacts -> Variants \cup {None}]]
    /\ cards \subseteq Card
    /\ web \in [Operators -> Verb \cup {None}]
    /\ drop \in [Executors -> Run \cup {None}]
    /\ kills \in 0..MaxKills

(* FR-4, one piece per contact per wave: however often the drop is re-run   *)
(* and however many run at once, a contact gets a second card of a wave     *)
(* only for a kill, and one per kill, even from a vendor that forgets.      *)
OnlyKillsPrintTwice ==
    \A w \in Waves :
        Cardinality(CardsOf(w)) <= Cardinality({c \in Contacts : Printed(w, c)}) + kills

(* A piece row, the permanent record, never claims a card that was not      *)
(* printed.                                                                 *)
RecordsAreCards ==
    \A w \in Waves, c \in Contacts : piece[w][c] # None => Printed(w, c)

(* The other direction fails only by a kill: a wave's card without its row  *)
(* is one whose run is between the vendor's answer and its commit, or died  *)
(* there.                                                                   *)
UnrecordedCards(w) == {c \in Contacts : Printed(w, c) /\ piece[w][c] = None}
InFlight(e)        == drop[e] # None /\ drop[e].inFlight # None
RunsInFlight(w)    == {e \in Executors : InFlight(e) /\ drop[e].wave = w}

OnlyKillsLoseRecords ==
    \A w \in Waves : Cardinality(UnrecordedCards(w)) <= kills + Cardinality(RunsInFlight(w))

(* "Approval is the promise that this exact card is what fires"             *)
(* (service/waves.py:288-291).  The verbs lock nothing, so an edit that was *)
(* read before the approval may still land on it; once no such edit is in   *)
(* hand, the promise binds every operator and every drop: the wave keeps    *)
(* its rule, its variant and that variant's creative, and prints no other.  *)
Edits(verb, w) ==
    \/ verb.verb = "update" /\ verb.wave = w
    \/ verb.verb = "revise" /\ verb.variant = wave[w].variant

Bound(w) ==
    /\ wave[w] # None /\ wave[w].approvedAt
    /\ \A o \in Operators : web[o] # None => ~Edits(web[o], w)
    /\ \A e \in Executors : drop[e] # None /\ drop[e].wave = w =>
          /\ drop[e].variant = wave[w].variant
          /\ drop[e].creative = creative[wave[w].variant]

ApprovalBinds ==
    [][\A w \in Waves : Bound(w) =>
          /\ Bound(w)'
          /\ wave'[w].rule = wave[w].rule /\ wave'[w].variant = wave[w].variant
          /\ creative'[wave[w].variant] = creative[wave[w].variant]
          /\ \A card \in cards' \ cards : card.wave = w =>
                /\ card.variant = wave[w].variant
                /\ card.creative = creative[wave[w].variant]]_vars

(* A wave that is over, with no request or drop still holding it, is over   *)
(* for good: nothing restarts, edits or mails it.                           *)
Settled(w) ==
    /\ Status(w) \in {"sent", "cancelled"}
    /\ \A e \in Executors : drop[e] # None => drop[e].wave # w
    /\ \A o \in Operators : web[o] # None => (web[o].verb # "revise" => web[o].wave # w)

SettledIsFinal ==
    [][\A w \in Waves : Settled(w) =>
          /\ Settled(w)'
          /\ wave'[w] = wave[w] /\ piece'[w] = piece[w]]_vars

(* "A killed drop is just re-run until clean": a wave that is due ends sent *)
(* or cancelled, unless its audience drifts away from what was approved.    *)
DropEnds ==
    \A w \in Waves :
        Status(w) \in {"approved", "executing"} ~>
            \/ Status(w) \in {"sent", "cancelled"}
            \/ Drifted(w)

-----------------------------------------------------------------------------
(* service/waves.py:528: cancel is "Valid until status='executing'. After   *)
(* that, mail is physical."                                                 *)
CancelledNeverMails ==
    [][\A w \in Waves : Status(w) = "cancelled" =>
          \A card \in cards' \ cards : card.wave # w]_vars

(* docs/direct-marketing-101.md:351-352: "A killed drop is just re-run      *)
(* until clean".  The drift guard may halt it for a change of the list, but *)
(* not, with contacts still to mail, because those this very wave has       *)
(* mailed, still mailable, left the rule by being mailed.                   *)
OwnMailIsNotDrift ==
    \A w \in Waves :
        (/\ Status(w) = "executing"
         /\ \A e \in Executors : drop[e] = None
         /\ \E c \in ResolveAudience(wave[w].rule) : piece[w][c] = None
         /\ Drifted(w))
        => 100 * Cardinality(ResolveAudience(wave[w].rule)
                               \cup {c \in Contacts : mailable[c] /\ piece[w][c] # None})
              \notin Tolerated(w)
=============================================================================
