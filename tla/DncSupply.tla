----------------------------- MODULE DncSupply -----------------------------
(***************************************************************************)
(* Where Do Not Call verdicts come from: a partner's laptop downloads      *)
(* registry files and uploads them under its token, the Worker keeps them, *)
(* pull_snapshots records a verdict on each and lands what was accepted,   *)
(* and dnc_refresh_all scrubs each area code against its newest accepted   *)
(* file.  Bytes in the bucket, a row in the ledger and a file on the box   *)
(* are three stores nothing keeps together but these programs, any of      *)
(* which may die between two writes.                                       *)
(*                                                                         *)
(* What the scrub's row transaction does to a contact's owner is           *)
(* ScrubApply of Custody.  Whether a file was too old when it was uploaded *)
(* is a fact about the file here, not a date.                              *)
(***************************************************************************)
EXTENDS PartnerTokens, Sequences

CONSTANTS
    Names,     \* file names
    WellNamed, \* those of the portal's shape: date, area code, guid
    Guid,      \* WellNamed -> the guid in the name
    Date,      \* WellNamed -> the date in the name
    Bytes,     \* contents, each standing for its sha256
    Damaged,   \* a content that fails its CRC
    Codes,     \* area codes, all subscribed
    CodeIn,    \* WellNamed -> the code in the name
    CodeOf,    \* Contacts -> the code of the contact's phone
    Format,    \* Bytes -> the code on every line, or None
    Lines,     \* Bytes -> how many
    MinRatio,  \* SNAPSHOT_MIN_LINE_RATIO, in percent
    Contacts,  \* non-seed contacts with a phone
    Lists,     \* Bytes -> the contacts whose number is listed
    Pullers,   \* runs of dnc_pull
    Scrubbers, \* runs of dnc_refresh --from-ledger
    Worlds     \* what the outside may do

File   == [holder : Partners, name : Names, bytes : Bytes \cup {Damaged}]
Object == [holder : Partners, name : Names, bytes : Bytes, late : BOOLEAN]
Landed == [holder : Partners, date : Nat, name : WellNamed, bytes : Bytes]
Row    == [holder : Partners, name : Names, bytes : Bytes,
           verdict : {"accepted", "bad_filename", "duplicate_guid", "duplicate_content",
                      "stale_file", "bad_format", "short_file"}]

(* What the outside does.  tokens: the partners' tokens from before;        *)
(* inbox: files uploaded before; portal: what the registry serves; byHand:  *)
(* what a rep may put in the work folder; late: names uploaded after        *)
(* SNAPSHOT_MAX_AGE_DAYS; clerk: whether the operator works on tokens;      *)
(* aging: contacts whose checks grow old again; mishaps: the bound on       *)
(* crashes and lost files.                                                  *)
World == [tokens : [Partners -> Tokens \cup {None}], inbox : SUBSET File,
          portal : SUBSET File, byHand : SUBSET File, late : SUBSET Names,
          clerk : BOOLEAN, aging : SUBSET Contacts, mishaps : Nat]

Files(w) == w.inbox \cup w.portal \cup w.byHand

ASSUME SupplyAssumption ==
    /\ WellNamed \subseteq Names
    /\ Date \in [WellNamed -> Nat]
    /\ CodeIn \in [WellNamed -> Codes]
    /\ CodeOf \in [Contacts -> Codes]
    /\ Lines \in [Bytes -> Nat]
    /\ Lists \in [Bytes -> SUBSET Contacts]
    /\ Damaged \notin Bytes
    /\ None \notin Landed \cup Contacts \cup Codes
    /\ Worlds \subseteq World
    /\ \A w \in Worlds : \A f \in Files(w) : f.bytes # Damaged

VARIABLES
    world,    \* one of Worlds
    disk,     \* files in the reps' work folders
    sent,     \* their uploaded/ folders: who moved which name there
    bucket,   \* the Worker's SNAPSHOTS
    ledger,   \* dnc_snapshots, in the order of recorded_at
    lists,    \* working copies under dnc-lists/<holder>/<date>/
    pull,     \* runs of pull_snapshots
    due,      \* contacts whose dnc_checked_at is null or over DNC_RECHECK_DAYS
    flagged,  \* contacts with dnc_registry
    backing,  \* dnc_snapshot_id, and the bytes the verdict was read from
    scrub,    \* runs of dnc_refresh_all
    mishaps   \* crashes and lost files so far

laptopVars == <<disk, sent>>
boxVars    == <<ledger, lists, pull>>
scrubVars  == <<due, flagged, backing, scrub>>
supplyVars == <<world, laptopVars, bucket, boxVars, scrubVars, mishaps>>
vars == <<tokenVars, supplyVars>>

Key(f) == <<f.holder, f.name>>
Keep(S, f) == {g \in S : Key(g) # Key(f)} \cup {f}  \* a file replaces its namesake

Accepted == {i \in DOMAIN ledger : ledger[i].verdict = "accepted"}
AcceptedFor(code) == {i \in Accepted : CodeIn[ledger[i].name] = code}

IdlePull  == [active |-> {}, seen |-> 0, todo |-> {}, landing |-> None]
IdleScrub == [cover |-> [code \in Codes |-> 0], codes |-> {}, rows |-> {}, was |-> {},
              open |-> None, bytes |-> None, clearing |-> None]

Stored(f) == [holder |-> f.holder, name |-> f.name, bytes |-> f.bytes,
              late |-> f.name \in world.late]

Init ==
    /\ world \in Worlds
    /\ TokensInit /\ stored = world.tokens
    /\ disk = {} /\ sent = {} /\ bucket = {Stored(f) : f \in world.inbox}
    /\ ledger = <<>> /\ lists = {}
    /\ pull = [x \in Pullers |-> IdlePull]
    /\ due = world.aging /\ flagged = {}
    /\ backing = [c \in Contacts |-> None]
    /\ scrub = [s \in Scrubbers |-> IdleScrub]
    /\ mishaps = 0

Mishap == mishaps < world.mishaps /\ mishaps' = mishaps + 1

-----------------------------------------------------------------------------
(* What the registry serves the rep, what passes the CRC test, whom the     *)
(* Worker lets in, and what it does with a body: a put under the name.      *)
Serves(f) == f \in world.portal
Intact(f) == f.bytes # Damaged
Honours(p) == \E t \in Tokens : edge[t] = p
Put(f) == Keep(bucket, Stored(f))

(* The rep's program.  A name in the folder or in uploaded/ is not fetched  *)
(* again; the file is written in place, so a kill leaves a damaged one.     *)
Download(f) ==
    /\ Serves(f)
    /\ Key(f) \notin {Key(g) : g \in disk} \cup sent
    /\ \/ disk' = disk \cup {f} /\ UNCHANGED mishaps
       \/ disk' = disk \cup {[f EXCEPT !.bytes = Damaged]} /\ Mishap
    /\ UNCHANGED <<tokenVars, world, sent, bucket, boxVars, scrubVars>>

(* The folder is the rep's: a damaged file is deleted, as the program asks, *)
(* and any other *.zip may be put there.                                    *)
RepTidies(f) ==
    /\ \/ f \in disk /\ ~Intact(f) /\ disk' = disk \ {f}
       \/ f \in world.byHand /\ Key(f) \notin {Key(g) : g \in disk} /\ disk' = disk \cup {f}
    /\ UNCHANGED <<tokenVars, world, sent, bucket, boxVars, scrubVars, mishaps>>

(* Mutant of Upload: the file is moved to uploaded/ before it is sent.      *)
UploadMovesFirst(f) ==
    /\ f \in disk /\ Intact(f) /\ Honours(f.holder)
    /\ \/ bucket' = Put(f)
       \/ UNCHANGED bucket
    /\ disk' = disk \ {f} /\ sent' = sent \cup {Key(f)}
    /\ UNCHANGED <<tokenVars, world, boxVars, scrubVars, mishaps>>

(* Each intact file is sent under the rep's token.  The Worker derives the  *)
(* key from the token and overwrites.  On its answer the file is moved to   *)
(* uploaded/; without one it stays, and goes next time.                     *)
Upload(f) ==
    /\ f \in disk /\ Intact(f) /\ Honours(f.holder)
    /\ bucket' = Put(f)
    /\ \/ disk' = disk \ {f} /\ sent' = sent \cup {Key(f)}
       \/ UNCHANGED <<disk, sent>>
    /\ UNCHANGED <<tokenVars, world, boxVars, scrubVars, mishaps>>

-----------------------------------------------------------------------------
(* record_snapshot: the verdict on an object, given the ledger.             *)
Named(i, o) ==
    /\ ledger[i].holder = o.holder /\ ledger[i].name \in WellNamed
    /\ o.name \in WellNamed /\ Guid[ledger[i].name] = Guid[o.name]
SameGuid(o)  == {i \in DOMAIN ledger : Named(i, o)}
SameBytes(o) == {i \in DOMAIN ledger : ledger[i].holder = o.holder /\ ledger[i].bytes = o.bytes}

(* The newest accepted files of a code, by the date in their names.         *)
Latest(code) ==
    {i \in AcceptedFor(code) :
        \A j \in AcceptedFor(code) : Date[ledger[j].name] <= Date[ledger[i].name]}

(* A file is short of the newest accepted one, whichever a tie gives.       *)
Priors(o) == IF Latest(CodeIn[o.name]) = {} THEN {0} ELSE Latest(CodeIn[o.name])
WellFormed(o) == Format[o.bytes] = CodeIn[o.name]
Short(o, prior) == prior # 0 /\ Lines[o.bytes] * 100 < Lines[ledger[prior].bytes] * MinRatio

Verdict(o, prior) ==
    IF o.name \notin WellNamed THEN "bad_filename"
    ELSE IF SameGuid(o) # {} THEN "duplicate_guid"
    ELSE IF SameBytes(o) # {} THEN "duplicate_content"
    ELSE IF o.late THEN "stale_file"
    ELSE IF ~WellFormed(o) THEN "bad_format"
    ELSE IF Short(o, prior) THEN "short_file"
    ELSE "accepted"

Judged(o, verdict) == [holder |-> o.holder, name |-> o.name, bytes |-> o.bytes,
                       verdict |-> verdict]
Copy(o, row) == [holder |-> o.holder, date |-> Date[row.name], name |-> o.name,
                 bytes |-> o.bytes]

-----------------------------------------------------------------------------
(* The inbox's listing.                                                     *)
Offered == {Key(o) : o \in bucket}

(* pull_snapshots.  The ledger and the active partners are read once, then  *)
(* the inbox is listed.                                                     *)
PullStart(x) ==
    /\ pull[x] = IdlePull
    /\ bucket # {}
    /\ pull' = [pull EXCEPT ![x] = [active  |-> {p \in Partners : status[p] = "active"},
                                   seen    |-> Len(ledger),
                                   todo    |-> Offered,
                                   landing |-> None]]
    /\ UNCHANGED <<tokenVars, world, laptopVars, bucket, ledger, lists, scrubVars, mishaps>>

Recorded(x, o) == \E i \in 1..pull[x].seen : Key(ledger[i]) = Key(o)
AcceptedAs(x, o) == {i \in 1..pull[x].seen : i \in Accepted /\ Key(ledger[i]) = Key(o)}

(* The run is through with object o, and idle after the last.               *)
Past(x, o) == IF pull[x].todo = {Key(o)} THEN IdlePull
              ELSE [pull[x] EXCEPT !.todo = @ \ {Key(o)}, !.landing = None]

Takes(x, o) == o \in bucket /\ Key(o) \in pull[x].todo /\ pull[x].landing = None

(* Recorded and rejected, or of a partner who is not active.                *)
PullSkips(x, o) ==
    /\ Takes(x, o)
    /\ IF Recorded(x, o) THEN AcceptedAs(x, o) = {} ELSE o.holder \notin pull[x].active
    /\ pull' = [pull EXCEPT ![x] = Past(x, o)]
    /\ UNCHANGED <<tokenVars, world, laptopVars, bucket, ledger, lists, scrubVars, mishaps>>

(* Mutants of Reland: whatever the inbox has now; nothing.                  *)
RelandUnchecked(o, row) ==
    IF \E f \in lists : f.holder = o.holder /\ f.date = Date[row.name] /\ f.name = o.name
    THEN lists ELSE lists \cup {Copy(o, row)}

RelandNothing(o, row) == lists

(* _reland: an accepted file that is not on the box is fetched again and    *)
(* lands if it is still what was judged.                                    *)
Reland(o, row) ==
    IF \/ \E f \in lists : f.holder = o.holder /\ f.date = Date[row.name] /\ f.name = o.name
       \/ o.bytes # row.bytes
    THEN lists ELSE lists \cup {Copy(o, row)}

PullRelands(x, o) ==
    /\ Takes(x, o)
    /\ \E i \in AcceptedAs(x, o) : lists' = Reland(o, ledger[i])
    /\ pull' = [pull EXCEPT ![x] = Past(x, o)]
    /\ UNCHANGED <<tokenVars, world, laptopVars, bucket, ledger, scrubVars, mishaps>>

(* Recorded with this verdict, the object is landed next or passed over.    *)
Goes(x, o, row) ==
    pull' = [pull EXCEPT ![x] = IF row.verdict = "accepted"
                                THEN [pull[x] EXCEPT !.landing = Copy(o, row)]
                                ELSE Past(x, o)]

(* A new object is fetched and judged in one transaction.  An object whose  *)
(* guid and bytes the holder has on record gets that row, and no new one.   *)
PullJudges(x, o) ==
    /\ Takes(x, o)
    /\ ~Recorded(x, o) /\ o.holder \in pull[x].active
    /\ \/ \E i \in SameGuid(o) :
             ledger[i].bytes = o.bytes /\ Goes(x, o, ledger[i]) /\ UNCHANGED ledger
       \/ \E prior \in IF o.name \in WellNamed THEN Priors(o) ELSE {0} :
             /\ SameGuid(o) # {} => \E i \in SameGuid(o) : ledger[i].bytes # o.bytes
             /\ ledger' = Append(ledger, Judged(o, Verdict(o, prior)))
             /\ Goes(x, o, Judged(o, Verdict(o, prior)))
    /\ UNCHANGED <<tokenVars, world, laptopVars, bucket, lists, scrubVars, mishaps>>

(* The accepted file is moved under dnc-lists/, over its namesake.          *)
PullLands(x) ==
    /\ pull[x].landing # None
    /\ LET f == pull[x].landing IN
          /\ lists' = {g \in lists : <<Key(g), g.date>> # <<Key(f), f.date>>} \cup {f}
          /\ pull' = [pull EXCEPT ![x] = Past(x, f)]
    /\ UNCHANGED <<tokenVars, world, laptopVars, bucket, ledger, scrubVars, mishaps>>

(* A failed fetch, a unique key met by two runs at once, a kill.            *)
PullDies(x) ==
    /\ pull[x] # IdlePull /\ Mishap
    /\ pull' = [pull EXCEPT ![x] = IdlePull]
    /\ UNCHANGED <<tokenVars, world, laptopVars, bucket, ledger, lists, scrubVars>>

(* A working copy is gone from the box.                                     *)
LosesCopy(f) ==
    /\ f \in lists /\ Mishap
    /\ lists' = lists \ {f}
    /\ UNCHANGED <<tokenVars, world, laptopVars, bucket, ledger, pull, scrubVars>>

-----------------------------------------------------------------------------
(* _coverage: a code's newest accepted row; of one date, the last recorded. *)
Newest(code) == IF AcceptedFor(code) = {} THEN 0
                ELSE CHOOSE i \in Latest(code) : \A j \in Latest(code) : j <= i

(* dnc_refresh_all reads the coverage and the due contacts.                 *)
ScrubStart(s) ==
    /\ scrub[s] = IdleScrub
    /\ due # {}
    /\ scrub' = [scrub EXCEPT ![s] = [IdleScrub EXCEPT !.cover = [code \in Codes |-> Newest(code)],
                                                      !.codes = Codes, !.rows = due,
                                                      !.was = due \cap flagged]]
    /\ UNCHANGED <<tokenVars, world, laptopVars, bucket, boxVars, due, flagged, backing, mishaps>>

RowsOf(s, code) == {c \in scrub[s].rows : CodeOf[c] = code}

(* The zips of a code in the directory of row i's holder and date.          *)
Zips(code, i) == {f \in lists : /\ f.holder = ledger[i].holder
                                /\ f.date = Date[ledger[i].name]
                                /\ CodeIn[f.name] = code}

(* listed() refuses a code of none or of several zips, and a zip with a     *)
(* line of another code.                                                    *)
Listed(code, i) == {f \in lists : Zips(code, i) = {f} /\ Format[f.bytes] = code}

(* The pass is through with a code, and idle after the last.                *)
After(s, code) == IF scrub[s].codes = {code} THEN IdleScrub
                  ELSE [scrub[s] EXCEPT !.codes = @ \ {code}, !.open = None, !.bytes = None,
                                        !.rows = @ \ RowsOf(s, code)]

Between(s, code) == code \in scrub[s].codes /\ scrub[s].open = None

(* Mutant of PassedOver: a code that cannot be read ends the pass.          *)
PassEnds(s, code) == IdleScrub

PassedOver(s, code) == After(s, code)

(* No snapshot, or no file to be read: the code stays stale.                *)
ScrubSkips(s, code) ==
    /\ Between(s, code)
    /\ \/ scrub[s].cover[code] = 0
       \/ RowsOf(s, code) = {}
       \/ scrub[s].cover[code] # 0 /\ Listed(code, scrub[s].cover[code]) = {}
    /\ scrub' = [scrub EXCEPT ![s] = PassedOver(s, code)]
    /\ UNCHANGED <<tokenVars, world, laptopVars, bucket, boxVars, due, flagged, backing, mishaps>>

(* The code's zip is read.                                                  *)
ScrubOpens(s, code) ==
    /\ Between(s, code)
    /\ scrub[s].cover[code] # 0 /\ RowsOf(s, code) # {}
    /\ \E f \in Listed(code, scrub[s].cover[code]) :
          scrub' = [scrub EXCEPT ![s].open = code, ![s].bytes = f.bytes]
    /\ UNCHANGED <<tokenVars, world, laptopVars, bucket, boxVars, due, flagged, backing, mishaps>>

(* One contact, one transaction: the check is stamped with the verdict and  *)
(* the snapshot.  A delisting is written next, in a transaction of its own. *)
ScrubRow(s, c) ==
    /\ scrub[s].open # None /\ scrub[s].clearing = None
    /\ c \in RowsOf(s, scrub[s].open)
    /\ LET hit == c \in Lists[scrub[s].bytes] IN
          /\ due' = due \ {c}
          /\ flagged' = IF hit THEN flagged \cup {c} ELSE flagged \ {c}
          /\ backing' = [backing EXCEPT ![c] = [row |-> scrub[s].cover[scrub[s].open],
                                                bytes |-> scrub[s].bytes]]
          /\ scrub' = [scrub EXCEPT ![s].rows = @ \ {c},
                                    ![s].clearing = IF ~hit /\ c \in scrub[s].was
                                                    THEN c ELSE None]
    /\ UNCHANGED <<tokenVars, world, laptopVars, bucket, boxVars, mishaps>>

(* clear_suppression of dnc_registry, without looking.                      *)
ScrubClears(s) ==
    /\ scrub[s].clearing # None
    /\ flagged' = flagged \ {scrub[s].clearing}
    /\ scrub' = [scrub EXCEPT ![s].clearing = None]
    /\ UNCHANGED <<tokenVars, world, laptopVars, bucket, boxVars, due, backing, mishaps>>

(* The code's contacts are done.                                            *)
ScrubCloses(s) ==
    /\ scrub[s].open # None /\ scrub[s].clearing = None
    /\ RowsOf(s, scrub[s].open) = {}
    /\ scrub' = [scrub EXCEPT ![s] = After(s, scrub[s].open)]
    /\ UNCHANGED <<tokenVars, world, laptopVars, bucket, boxVars, due, flagged, backing, mishaps>>

ScrubDies(s) ==
    /\ scrub[s] # IdleScrub /\ Mishap
    /\ scrub' = [scrub EXCEPT ![s] = IdleScrub]
    /\ UNCHANGED <<tokenVars, world, laptopVars, bucket, boxVars, due, flagged, backing>>

(* A check grows older than DNC_RECHECK_DAYS.                               *)
BecomesDue(c) ==
    /\ c \in world.aging \ due
    /\ due' = due \cup {c}
    /\ UNCHANGED <<tokenVars, world, laptopVars, bucket, boxVars, flagged, backing, scrub, mishaps>>

-----------------------------------------------------------------------------
Clerk == world.clerk /\ TokensNext /\ UNCHANGED supplyVars

PullGoesOn(x) ==
    \/ PullStart(x)
    \/ \E o \in bucket : PullSkips(x, o) \/ PullRelands(x, o) \/ PullJudges(x, o)
    \/ PullLands(x)

ScrubGoesOn(s) ==
    \/ ScrubStart(s)
    \/ \E code \in Codes : ScrubSkips(s, code) \/ ScrubOpens(s, code)
    \/ \E c \in Contacts : ScrubRow(s, c)
    \/ ScrubClears(s)
    \/ ScrubCloses(s)

Next ==
    \/ Clerk
    \/ \E f \in world.portal : Download(f)
    \/ \E f \in disk \cup world.byHand : RepTidies(f)
    \/ \E f \in disk : Upload(f)
    \/ \E x \in Pullers : PullGoesOn(x) \/ PullDies(x)
    \/ \E f \in lists : LosesCopy(f)
    \/ \E s \in Scrubbers : ScrubGoesOn(s) \/ ScrubDies(s)
    \/ \E c \in Contacts : BecomesDue(c)

Spec == Init /\ [][Next]_vars

(* Cron runs the pull and the scrub every day, and runs go on.              *)
Fairness ==
    /\ \A x \in Pullers : WF_vars(PullGoesOn(x))
    /\ \A s \in Scrubbers : WF_vars(ScrubGoesOn(s))

FairSpec == Spec /\ Fairness

-----------------------------------------------------------------------------
(* Values of the right kind, and a run that is idle holds nothing.          *)
TypeOK ==
    /\ TokensTypeOK
    /\ world \in Worlds
    /\ disk \subseteq File /\ sent \subseteq Partners \X Names
    /\ bucket \subseteq Object
    /\ ledger \in Seq(Row) /\ lists \subseteq Landed
    /\ pull \in [Pullers -> [active : SUBSET Partners, seen : Nat,
                             todo : SUBSET (Partners \X Names), landing : Landed \cup {None}]]
    /\ due \subseteq Contacts /\ flagged \subseteq Contacts
    /\ backing \in [Contacts -> [row : Nat, bytes : Bytes] \cup {None}]
    /\ scrub \in [Scrubbers -> [cover : [Codes -> Nat], codes : SUBSET Codes,
                                rows : SUBSET Contacts, was : SUBSET Contacts,
                                open : Codes \cup {None}, bytes : Bytes \cup {None},
                                clearing : Contacts \cup {None}]]
    /\ mishaps \in Nat

(* What a rep's program has downloaded whole stays in its folder until the  *)
(* bucket has it: an upload refused, or whose answer is lost, costs nothing.*)
NothingDownloadedIsLost ==
    \A k \in sent : \E o \in bucket : Key(o) = k

OnePass == \A s, t \in Scrubbers : s = t

(* A verdict names an accepted snapshot of the contact's code, and was read *)
(* from bytes accepted from that holder under that code and date: never     *)
(* from what was refused, was damaged on the way or took a file's place.  A *)
(* contact is flagged only if those bytes list it, and whenever they do, as *)
(* long as passes do not overlap.                                           *)
VerdictRestsOnAccepted ==
    \A c \in Contacts : backing[c] # None =>
       LET i == backing[c].row IN
       /\ i \in AcceptedFor(CodeOf[c])
       /\ \E j \in AcceptedFor(CodeOf[c]) :
             /\ ledger[j].holder = ledger[i].holder
             /\ Date[ledger[j].name] = Date[ledger[i].name]
             /\ ledger[j].bytes = backing[c].bytes
       /\ Format[backing[c].bytes] = CodeOf[c]
       /\ c \in flagged => c \in Lists[backing[c].bytes]
       /\ OnePass /\ c \in Lists[backing[c].bytes] => c \in flagged

(* A snapshot accepted by a run that died before landing it, or whose copy  *)
(* was lost since, is on the box in the end, if the bucket still holds what *)
(* was judged.                                                              *)
AcceptedLands ==
    \A f \in UNION {Files(w) : w \in Worlds} :
       (\E i \in Accepted : Key(ledger[i]) = Key(f) /\ ledger[i].bytes = f.bytes)
       ~> \/ \E g \in lists : Key(g) = Key(f) /\ g.bytes = f.bytes
          \/ Stored(f) \notin bucket

Readable(code) == Newest(code) # 0 /\ Listed(code, Newest(code)) # {}

(* Codes do not wait for each other: a code whose newest snapshot is on the *)
(* box for good has each of its contacts checked again and again, whatever  *)
(* is missing of another code.                                              *)
CodesAreIndependent ==
    \A c \in Contacts : <>[]Readable(CodeOf[c]) => []<>(c \notin due)
=============================================================================
