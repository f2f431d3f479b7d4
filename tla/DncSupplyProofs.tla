-------------------------- MODULE DncSupplyProofs --------------------------
(***************************************************************************)
(* Theorems about DncSupply, for every set of partners, tokens, files,     *)
(* contacts and runs and whatever the outside does.                        *)
(***************************************************************************)
EXTENDS DncSupply, FiniteSetTheorems, WellFoundedInduction, TLAPS

-----------------------------------------------------------------------------
(* Tokens.  The strengthening: the command in progress is about the token   *)
(* the database names, and a revoke clears it when the edge has let go.     *)
DeskIsTrue ==
    /\ desk.at # "idle" => stored[desk.partner] = desk.token
    /\ desk.at = "clear" => edge[desk.token] = None

TokensInv == TokensTypeOK /\ HonouredIsNamed /\ DeskIsTrue

LEMMA TokensInitial == TokensInit => TokensInv
<1> SUFFICES ASSUME TokensInit PROVE TokensInv
  OBVIOUS
<1>1. TokensTypeOK
  <2>1. desk = Idle /\ minted \subseteq Tokens
    BY DEF TokensInit
  <2> QED BY <2>1, TokensAssumption DEF TokensInit, TokensTypeOK, Idle
<1>2. HonouredIsNamed
  BY TokensAssumption DEF TokensInit, HonouredIsNamed
<1>3. DeskIsTrue
  BY DEF TokensInit, DeskIsTrue, Idle
<1> QED BY <1>1, <1>2, <1>3 DEF TokensInv

LEMMA IssueKeeps ==
    ASSUME TokensInv, NEW p \in Partners, NEW t \in Tokens, NEW push \in BOOLEAN,
           Issue(p, t, push)
    PROVE  TokensInv'
<1> USE TokensAssumption DEF TokensInv
<1>1. /\ desk = Idle /\ t \notin minted
      /\ minted' = minted \cup {t} /\ stored' = [stored EXCEPT ![p] = t]
      /\ edge' = edge /\ status' = status
  BY DEF Issue
<1>2. \/ /\ stored[p] = None /\ dropped' = dropped
         /\ desk' = [at |-> "publish", partner |-> p, token |-> t, previous |-> stored[p]]
      \/ /\ stored[p] # None /\ dropped' = dropped
         /\ desk' = [at |-> "rotate", partner |-> p, token |-> t, previous |-> stored[p]]
      \/ dropped' = dropped \cup ({stored[p]} \ {None}) /\ desk' = desk
  BY DEF Issue, FirstCall
<1>3. stored[p] \in Tokens \cup {None}
  BY DEF TokensTypeOK
<1>4. TokensTypeOK'
  BY <1>1, <1>2, <1>3 DEF TokensTypeOK, Idle
<1>5. HonouredIsNamed'
  BY <1>1, <1>2, <1>3 DEF TokensTypeOK, HonouredIsNamed, Idle
<1>6. DeskIsTrue'
  BY <1>1, <1>2 DEF TokensTypeOK, DeskIsTrue, Idle
<1> QED BY <1>4, <1>5, <1>6

LEMMA ConfirmKeeps == TokensInv /\ EdgeConfirms => TokensInv'
<1> SUFFICES ASSUME TokensInv, EdgeConfirms PROVE TokensInv'
  OBVIOUS
<1> USE TokensAssumption DEF TokensInv
<1>1. \/ /\ desk.at = "rotate" /\ edge' = [edge EXCEPT ![desk.previous] = None]
         /\ desk' = [desk EXCEPT !.at = "publish"]
      \/ /\ desk.at = "publish" /\ edge' = [edge EXCEPT ![desk.token] = desk.partner]
         /\ desk' = Idle
      \/ /\ desk.at = "kill" /\ edge' = [edge EXCEPT ![desk.token] = None]
         /\ desk' = [desk EXCEPT !.at = "clear"]
  BY DEF EdgeConfirms, EdgeAnswer
<1>2. status' = status /\ stored' = stored /\ minted' = minted /\ dropped' = dropped
  BY DEF EdgeConfirms
<1>3. TokensTypeOK'
  BY <1>1, <1>2 DEF TokensTypeOK, Idle
<1>4. HonouredIsNamed'
  BY <1>1, <1>2 DEF TokensTypeOK, HonouredIsNamed, DeskIsTrue, Idle
<1>5. DeskIsTrue'
  BY <1>1, <1>2 DEF TokensTypeOK, DeskIsTrue, Idle
<1> QED BY <1>3, <1>4, <1>5

LEMMA StopKeeps == TokensInv /\ CommandStops => TokensInv'
<1> SUFFICES ASSUME TokensInv, CommandStops PROVE TokensInv'
  OBVIOUS
<1> USE TokensAssumption DEF TokensInv
<1>1. \/ edge' = edge
      \/ desk.at = "rotate" /\ edge' = [edge EXCEPT ![desk.previous] = None]
      \/ desk.at = "publish" /\ edge' = [edge EXCEPT ![desk.token] = desk.partner]
      \/ desk.at = "kill" /\ edge' = [edge EXCEPT ![desk.token] = None]
  BY DEF CommandStops, EdgeAnswer
<1>2. \/ desk.at = "rotate" /\ dropped' = dropped \cup {desk.previous}
      \/ desk.at # "rotate" /\ dropped' = dropped
  BY DEF CommandStops
<1>3. desk # Idle /\ desk' = Idle /\ status' = status /\ stored' = stored /\ minted' = minted
  BY DEF CommandStops
<1>4. TokensTypeOK'
  BY <1>1, <1>2, <1>3 DEF TokensTypeOK, Idle
<1>5. HonouredIsNamed'
  BY <1>1, <1>2, <1>3 DEF TokensTypeOK, HonouredIsNamed, DeskIsTrue, Idle
<1>6. DeskIsTrue'
  BY <1>3 DEF DeskIsTrue, Idle
<1> QED BY <1>4, <1>5, <1>6

LEMMA TokensStep == TokensInv /\ [TokensNext]_tokenVars => TokensInv'
<1> SUFFICES ASSUME TokensInv, [TokensNext]_tokenVars PROVE TokensInv'
  OBVIOUS
<1> USE TokensAssumption DEF TokensInv
<1>1. ASSUME NEW p \in Partners, NEW s \in {"active", "inactive"}, SetStatus(p, s)
      PROVE  TokensInv'
  BY <1>1 DEF SetStatus, TokensTypeOK, HonouredIsNamed, DeskIsTrue
<1>2. ASSUME NEW p \in Partners, NEW t \in Tokens, NEW push \in BOOLEAN, Issue(p, t, push)
      PROVE  TokensInv'
  BY <1>2, IssueKeeps
<1>3. ASSUME NEW p \in Partners, Revoke(p) PROVE TokensInv'
  <2>1. /\ desk = Idle /\ stored[p] \in Tokens
        /\ desk' = [at |-> "kill", partner |-> p, token |-> stored[p], previous |-> None]
        /\ status' = status /\ stored' = stored /\ edge' = edge
        /\ minted' = minted /\ dropped' = dropped
    BY <1>3 DEF Revoke, TokensTypeOK
  <2>2. TokensTypeOK' /\ DeskIsTrue'
    BY <2>1 DEF TokensTypeOK, DeskIsTrue
  <2>3. HonouredIsNamed'
    BY <2>1 DEF HonouredIsNamed, Idle
  <2> QED BY <2>2, <2>3
<1>4. ASSUME EdgeConfirms PROVE TokensInv'
  BY <1>4, ConfirmKeeps
<1>5. ASSUME ClearStored PROVE TokensInv'
  <2>1. /\ desk.at = "clear" /\ desk' = Idle
        /\ stored' = [stored EXCEPT ![desk.partner] = None]
        /\ status' = status /\ edge' = edge /\ minted' = minted /\ dropped' = dropped
    BY <1>5 DEF ClearStored
  <2>2. TokensTypeOK' /\ DeskIsTrue'
    BY <2>1 DEF TokensTypeOK, DeskIsTrue, Idle
  <2>3. HonouredIsNamed'
    BY <2>1 DEF TokensTypeOK, HonouredIsNamed, DeskIsTrue, Idle
  <2> QED BY <2>2, <2>3
<1>6. ASSUME CommandStops PROVE TokensInv'
  BY <1>6, StopKeeps
<1>7. CASE UNCHANGED tokenVars
  BY <1>7 DEF tokenVars, TokensTypeOK, HonouredIsNamed, DeskIsTrue
<1> QED BY <1>1, <1>2, <1>3, <1>4, <1>5, <1>6, <1>7 DEF TokensNext

(* Nothing but the operator's commands touches tokens.                      *)
LEMMA NextTokens == [Next]_vars => [TokensNext]_tokenVars
<1> USE DEF Next, Clerk, vars
<1>1. ASSUME NEW f, Download(f) \/ RepTidies(f) \/ Upload(f) \/ LosesCopy(f)
      PROVE  UNCHANGED tokenVars
  BY <1>1 DEF Download, RepTidies, Upload, LosesCopy
<1>2. ASSUME NEW x, PullGoesOn(x) \/ PullDies(x)
      PROVE  UNCHANGED tokenVars
  BY <1>2 DEF PullGoesOn, PullDies, PullStart, PullSkips, PullRelands, PullJudges, PullLands
<1>3. ASSUME NEW s, ScrubGoesOn(s) \/ ScrubDies(s)
      PROVE  UNCHANGED tokenVars
  BY <1>3 DEF ScrubGoesOn, ScrubDies, ScrubStart, ScrubSkips, ScrubOpens, ScrubRow,
              ScrubClears, ScrubCloses
<1>4. ASSUME NEW c, BecomesDue(c)
      PROVE  UNCHANGED tokenVars
  BY <1>4 DEF BecomesDue
<1> QED BY <1>1, <1>2, <1>3, <1>4

(* The tokens of the composition behave as the tokens alone do.             *)
THEOREM TokensAmongTheRest == Spec => TokensSpec
<1>1. Init => TokensInit
  BY DEF Init
<1> QED BY <1>1, NextTokens, PTL DEF Spec, TokensSpec

(* Wherever issue-token and revoke-token stop, a token the Worker honours   *)
(* is named by the database, except those an issue-token left behind.       *)
THEOREM TokensHonoured == Spec => []HonouredIsNamed
<1>1. Init => TokensInv
  BY TokensInitial DEF Init
<1>2. TokensInv /\ [Next]_vars => TokensInv'
  BY TokensStep, NextTokens
<1>3. TokensInv => HonouredIsNamed
  BY DEF TokensInv
<1> QED BY <1>1, <1>2, <1>3, PTL DEF Spec

-----------------------------------------------------------------------------
(* A nonempty finite set has an element of the greatest weight: a smallest  *)
(* subset without one would have one.                                       *)
LEMMA Heaviest ==
    ASSUME NEW S, IsFiniteSet(S), S # {}, NEW f, \A x \in S : f[x] \in Nat
    PROVE  \E x \in S : \A y \in S : f[y] <= f[x]
<1> DEFINE Bad == {T \in SUBSET S : T # {} /\ ~\E x \in T : \A y \in T : f[y] <= f[x]}
<1> SUFFICES ASSUME S \in Bad PROVE FALSE
  OBVIOUS
<1>1. Bad \subseteq FiniteSubsetsOf(S) /\ Bad # {}
  BY FS_FiniteSubsetsOfFinite
<1>2. PICK T \in Bad : \A U \in Bad : <<U, T>> \notin StrictSubsetOrdering(S)
  <2> HIDE DEF Bad
  <2> QED BY <1>1, FS_StrictSubsetOrderingWellFounded, WFMin
<1>3. PICK x \in T : TRUE
  OBVIOUS
<1>4. T \ {x} \notin Bad
  BY <1>2, <1>3 DEF StrictSubsetOrdering
<1>5. CASE T \ {x} = {}
  <2>1. T = {x} /\ f[x] \in Nat
    BY <1>3, <1>5
  <2> QED BY <2>1
<1>6. CASE T \ {x} # {}
  <2>1. PICK z \in T \ {x} : \A y \in T \ {x} : f[y] <= f[z]
    BY <1>4, <1>6
  <2>2. f[z] \in Nat /\ f[x] \in Nat /\ \A y \in T : f[y] \in Nat
    BY <1>3, <2>1
  <2>3. CASE f[x] <= f[z]
    BY <2>1, <2>3
  <2>4. CASE ~(f[x] <= f[z])
    <3>1. \A y \in T : f[y] <= f[x]
      BY <2>1, <2>2, <2>4
    <3> QED BY <3>1, <1>3
  <2> QED BY <2>3, <2>4
<1> QED BY <1>5, <1>6

(* What is accepted has a name and bytes of its code.                       *)
LedgerSound ==
    \A i \in Accepted : /\ ledger[i].name \in WellNamed
                        /\ Format[ledger[i].bytes] = CodeIn[ledger[i].name]

Typed == TypeOK /\ LedgerSound

(* The newest row of a code is one of its accepted rows.                    *)
LEMMA NewestIsAccepted ==
    ASSUME Typed, NEW code \in Codes
    PROVE  /\ AcceptedFor(code) \subseteq DOMAIN ledger /\ DOMAIN ledger \subseteq Nat
           /\ Newest(code) = 0 \/ Newest(code) \in AcceptedFor(code)
           /\ Newest(code) \in Nat
<1> USE SupplyAssumption
<1>1. ledger \in Seq(Row)
  BY DEF Typed, TypeOK
<1>2. AcceptedFor(code) \subseteq DOMAIN ledger /\ DOMAIN ledger = 1..Len(ledger)
  BY <1>1 DEF AcceptedFor, Accepted
<1>3. IsFiniteSet(DOMAIN ledger)
  BY <1>1, <1>2, FS_Interval
<1>4. \A S : S \subseteq AcceptedFor(code) => IsFiniteSet(S)
  BY <1>2, <1>3, FS_Subset
<1>5. ASSUME AcceptedFor(code) # {}
      PROVE  Newest(code) \in AcceptedFor(code)
  <2> DEFINE date == [i \in AcceptedFor(code) |-> Date[ledger[i].name]]
             id   == [i \in AcceptedFor(code) |-> i]
  <2>1. \A i \in AcceptedFor(code) : date[i] \in Nat
    BY DEF Typed, LedgerSound, AcceptedFor
  <2>2. PICK i \in AcceptedFor(code) : \A j \in AcceptedFor(code) : date[j] <= date[i]
    <3> HIDE DEF date
    <3> QED BY <1>4, <1>5, <2>1, Heaviest
  <2>3. Latest(code) # {} /\ Latest(code) \subseteq AcceptedFor(code)
    BY <2>2 DEF Latest
  <2>4. \A j \in Latest(code) : id[j] \in Nat
    BY <1>2, <2>3
  <2>5. PICK k \in Latest(code) : \A j \in Latest(code) : id[j] <= id[k]
    <3> HIDE DEF id
    <3> QED BY <1>4, <2>3, <2>4, Heaviest
  <2>6. \A j \in Latest(code) : j <= k
    BY <2>3, <2>5
  <2> QED BY <1>5, <2>3, <2>6 DEF Newest
<1> QED BY <1>2, <1>5 DEF Newest

-----------------------------------------------------------------------------
(* Types.  What runs hold, one record at a time.                            *)
PullRun  == [active : SUBSET Partners, seen : Nat, todo : SUBSET (Partners \X Names),
             landing : Landed \cup {None}]
ScrubRun == [cover : [Codes -> Nat], codes : SUBSET Codes, rows : SUBSET Contacts,
             was : SUBSET Contacts, open : Codes \cup {None}, bytes : Bytes \cup {None},
             clearing : Contacts \cup {None}]

LaptopTyped == disk \subseteq File /\ sent \subseteq Partners \X Names /\ bucket \subseteq Object
BoxTyped    == ledger \in Seq(Row) /\ lists \subseteq Landed /\ pull \in [Pullers -> PullRun]
ScrubTyped  == /\ due \subseteq Contacts /\ flagged \subseteq Contacts
               /\ backing \in [Contacts -> [row : Nat, bytes : Bytes] \cup {None}]
               /\ scrub \in [Scrubbers -> ScrubRun]
WorldTyped  == world \in World /\ world \in Worlds /\ mishaps \in Nat

LEMMA TypeInParts ==
    TypeOK <=> TokensTypeOK /\ WorldTyped /\ LaptopTyped /\ BoxTyped /\ ScrubTyped
<1> QED BY SupplyAssumption
        DEF TypeOK, WorldTyped, LaptopTyped, BoxTyped, ScrubTyped, PullRun, ScrubRun

LEMMA StoredType ==
    ASSUME WorldTyped, NEW f \in File, f.bytes # Damaged
    PROVE  Stored(f) \in Object
<1>1. f.holder \in Partners /\ f.name \in Names /\ f.bytes \in Bytes
  BY DEF File
<1>2. (f.name \in world.late) \in BOOLEAN
  OBVIOUS
<1>3. \A h \in Partners, n \in Names, b \in Bytes, l \in BOOLEAN :
         [holder |-> h, name |-> n, bytes |-> b, late |-> l] \in Object
  BY DEF Object
<1> QED BY <1>1, <1>2, <1>3, Zenon DEF Stored

LEMMA WorldFiles ==
    ASSUME WorldTyped
    PROVE  /\ world.inbox \subseteq File /\ world.portal \subseteq File /\ world.byHand \subseteq File
           /\ \A f \in world.inbox : f.bytes # Damaged
           /\ world.aging \subseteq Contacts /\ world.mishaps \in Nat
<1> QED BY SupplyAssumption DEF WorldTyped, World, Files

LEMMA InitTyped == Init => Typed
<1> SUFFICES ASSUME Init PROVE Typed
  OBVIOUS
<1>1. WorldTyped
  BY SupplyAssumption DEF Init, WorldTyped
<1>2. TokensTypeOK
  BY TokensInitial DEF Init, TokensInv
<1>3. LaptopTyped
  BY <1>1, StoredType, WorldFiles DEF Init, LaptopTyped
<1>4. BoxTyped
  BY DEF Init, BoxTyped, PullRun, IdlePull
<1>5. ScrubTyped
  BY <1>1, WorldFiles DEF Init, ScrubTyped, ScrubRun, IdleScrub
<1>6. LedgerSound
  BY DEF Init, LedgerSound, Accepted
<1> QED BY <1>1, <1>2, <1>3, <1>4, <1>5, <1>6, TypeInParts DEF Typed

LEMMA LaptopStep ==
    ASSUME WorldTyped, LaptopTyped, NEW f,
           \/ f \in world.portal /\ Download(f)
           \/ f \in disk \cup world.byHand /\ RepTidies(f)
           \/ f \in disk /\ Upload(f)
    PROVE  LaptopTyped' /\ UNCHANGED <<tokenVars, world, boxVars, scrubVars>> /\ mishaps' \in Nat
<1> USE WorldFiles DEF LaptopTyped, File, WorldTyped, Mishap
<1>1. ASSUME f \in world.portal, Download(f)
      PROVE  LaptopTyped' /\ UNCHANGED <<tokenVars, world, boxVars, scrubVars>> /\ mishaps' \in Nat
  <2>1. f \in File /\ [f EXCEPT !.bytes = Damaged] \in File
    BY <1>1
  <2> QED BY <1>1, <2>1 DEF Download
<1>2. ASSUME f \in disk \cup world.byHand, RepTidies(f)
      PROVE  LaptopTyped' /\ UNCHANGED <<tokenVars, world, boxVars, scrubVars>> /\ mishaps' \in Nat
  BY <1>2 DEF RepTidies
<1>3. ASSUME f \in disk, Upload(f)
      PROVE  LaptopTyped' /\ UNCHANGED <<tokenVars, world, boxVars, scrubVars>> /\ mishaps' \in Nat
  <2>1. Stored(f) \in Object
    BY <1>3, StoredType DEF Upload, Intact
  <2>2. bucket' \subseteq Object
    BY <1>3, <2>1 DEF Upload, Put, Keep
  <2>3. Key(f) \in Partners \X Names
    BY <1>3 DEF Key
  <2> QED BY <1>3, <2>2, <2>3 DEF Upload
<1> QED BY <1>1, <1>2, <1>3

-----------------------------------------------------------------------------
(* A file is vouched for by an accepted row of its holder, date and bytes.  *)
Vouched(f) ==
    \E i \in Accepted : /\ ledger[i].holder = f.holder
                        /\ Date[ledger[i].name] = f.date
                        /\ ledger[i].bytes = f.bytes

BoxVouched ==
    /\ \A f \in lists : Vouched(f)
    /\ \A x \in Pullers : pull[x].landing # None => Vouched(pull[x].landing)

BoxInv == BoxTyped /\ LedgerSound /\ BoxVouched

(* Rows are only added.                                                     *)
LedgerGrows ==
    \A i \in DOMAIN ledger : i \in DOMAIN ledger' /\ ledger'[i] = ledger[i]

LEMMA GrowingVouches ==
    ASSUME LedgerGrows, NEW f, Vouched(f)
    PROVE  Vouched(f)'
<1> QED BY DEF LedgerGrows, Vouched, Accepted

LEMMA PastType ==
    ASSUME BoxTyped, NEW x \in Pullers, NEW o
    PROVE  Past(x, o) \in PullRun /\ Past(x, o).landing = None
<1>1. pull[x] \in PullRun
  BY DEF BoxTyped
<1>2. IdlePull \in PullRun /\ IdlePull.landing = None
  BY DEF IdlePull, PullRun
<1>3. [pull[x] EXCEPT !.todo = @ \ {Key(o)}, !.landing = None] \in PullRun
  BY <1>1 DEF PullRun
<1>4. [pull[x] EXCEPT !.todo = @ \ {Key(o)}, !.landing = None].landing = None
  BY <1>1 DEF PullRun
<1> QED BY <1>2, <1>3, <1>4 DEF Past

(* A step that only moves one run along.                                    *)
LEMMA RunMoves ==
    ASSUME BoxInv, NEW x \in Pullers, NEW r \in PullRun,
           r.landing = None \/ Vouched(r.landing),
           pull' = [pull EXCEPT ![x] = r], ledger' = ledger, lists' = lists
    PROVE  BoxInv' /\ LedgerGrows
<1> USE DEF BoxInv
<1>1. BoxTyped' /\ LedgerGrows
  BY DEF BoxTyped, LedgerGrows
<1>2. LedgerSound'
  BY DEF LedgerSound, Accepted
<1>3. ASSUME NEW f, Vouched(f) PROVE Vouched(f)'
  BY <1>1, <1>3, GrowingVouches
<1>4. BoxVouched'
  BY <1>3 DEF BoxVouched, BoxTyped
<1> QED BY <1>1, <1>2, <1>4

LEMMA StartBox ==
    ASSUME LaptopTyped, BoxInv, NEW x \in Pullers, PullStart(x)
    PROVE  BoxInv' /\ LedgerGrows
<1> DEFINE r == [active  |-> {p \in Partners : status[p] = "active"},
                 seen    |-> Len(ledger), todo |-> Offered, landing |-> None]
<1>1. Offered \subseteq Partners \X Names
  BY DEF LaptopTyped, Offered, Key, Object
<1>2. Len(ledger) \in Nat
  BY DEF BoxInv, BoxTyped
<1>3. r \in PullRun /\ r.landing = None
  BY <1>1, <1>2 DEF PullRun
<1>4. pull' = [pull EXCEPT ![x] = r] /\ ledger' = ledger /\ lists' = lists
  BY DEF PullStart
<1> HIDE DEF r
<1> QED BY <1>3, <1>4, RunMoves

(* What a row judged accepted lands, it vouches for.                        *)
LEMMA CopyIsVouched ==
    ASSUME LaptopTyped, BoxInv, NEW o \in bucket, NEW i \in Accepted,
           ledger[i].holder = o.holder, ledger[i].bytes = o.bytes, o.name \in WellNamed
    PROVE  Copy(o, ledger[i]) \in Landed /\ Vouched(Copy(o, ledger[i]))
<1>1. Date[ledger[i].name] \in Nat
  BY SupplyAssumption DEF BoxInv, LedgerSound
<1>2. o.holder \in Partners /\ o.bytes \in Bytes
  BY DEF LaptopTyped, Object
<1>3. Copy(o, ledger[i]) \in Landed
  BY <1>1, <1>2 DEF Copy, Landed
<1> QED BY <1>3 DEF Vouched, Copy

LEMMA RelandBox ==
    ASSUME LaptopTyped, BoxInv, NEW x \in Pullers, NEW o \in bucket, PullRelands(x, o)
    PROVE  BoxInv' /\ LedgerGrows
<1>1. PICK i \in AcceptedAs(x, o) : lists' = Reland(o, ledger[i])
  BY DEF PullRelands
<1>2. /\ i \in Accepted /\ Key(ledger[i]) = Key(o)
      /\ ledger[i].holder = o.holder /\ ledger[i].name = o.name
  BY <1>1 DEF AcceptedAs, Key
<1>3. o.name \in WellNamed
  BY <1>2 DEF BoxInv, LedgerSound
<1>4. \A f \in lists' : f \in Landed /\ Vouched(f)
  <2>1. CASE lists' = lists
    BY <2>1 DEF BoxInv, BoxTyped, BoxVouched
  <2>2. CASE lists' = lists \cup {Copy(o, ledger[i])} /\ o.bytes = ledger[i].bytes
    BY <1>2, <1>3, <2>2, CopyIsVouched DEF BoxInv, BoxTyped, BoxVouched
  <2> QED BY <1>1, <2>1, <2>2 DEF Reland
<1>5. pull' = [pull EXCEPT ![x] = Past(x, o)] /\ ledger' = ledger
  BY DEF PullRelands
<1>6. Past(x, o) \in PullRun /\ Past(x, o).landing = None
  BY PastType DEF BoxInv
<1>7. BoxTyped' /\ LedgerGrows
  BY <1>4, <1>5, <1>6 DEF BoxInv, BoxTyped, LedgerGrows
<1>8. LedgerSound'
  BY <1>5 DEF BoxInv, LedgerSound, Accepted
<1>9. ASSUME NEW f, Vouched(f) PROVE Vouched(f)'
  BY <1>7, <1>9, GrowingVouches
<1>10. \A y \in Pullers : pull'[y].landing # None => Vouched(pull'[y].landing)
  BY <1>5, <1>6 DEF BoxInv, BoxTyped, BoxVouched
<1>11. BoxVouched'
  BY <1>4, <1>9, <1>10 DEF BoxVouched
<1> QED BY <1>7, <1>8, <1>11 DEF BoxInv

LEMMA VerdictIsSound ==
    ASSUME NEW o, NEW prior
    PROVE  /\ Verdict(o, prior) \in {"accepted", "bad_filename", "duplicate_guid",
                                      "duplicate_content", "stale_file", "bad_format", "short_file"}
           /\ Verdict(o, prior) = "accepted" =>
                 o.name \in WellNamed /\ Format[o.bytes] = CodeIn[o.name]
<1> QED BY DEF Verdict, WellFormed

LEMMA KnownBox ==
    ASSUME LaptopTyped, BoxInv, NEW x \in Pullers, NEW o \in bucket, NEW i \in SameGuid(o),
           ledger[i].bytes = o.bytes, Goes(x, o, ledger[i]), ledger' = ledger, lists' = lists
    PROVE  BoxInv' /\ LedgerGrows
<1>1. i \in DOMAIN ledger /\ ledger[i].holder = o.holder /\ o.name \in WellNamed
  BY DEF SameGuid, Named
<1>2. CASE ledger[i].verdict = "accepted"
  <2> DEFINE r == [pull[x] EXCEPT !.landing = Copy(o, ledger[i])]
  <2>1. i \in Accepted
    BY <1>1, <1>2 DEF Accepted
  <2>2. Copy(o, ledger[i]) \in Landed /\ Vouched(Copy(o, ledger[i]))
    BY <1>1, <2>1, CopyIsVouched
  <2>3. \A f \in Landed : [pull[x] EXCEPT !.landing = f] \in PullRun
                          /\ [pull[x] EXCEPT !.landing = f].landing = f
    BY DEF BoxInv, BoxTyped, PullRun
  <2>4. r \in PullRun /\ r.landing = Copy(o, ledger[i])
    BY <2>2, <2>3
  <2>5. pull' = [pull EXCEPT ![x] = r]
    BY <1>2 DEF Goes
  <2> HIDE DEF r
  <2> QED BY <2>2, <2>4, <2>5, RunMoves
<1>3. CASE ledger[i].verdict # "accepted"
  <2>1. pull' = [pull EXCEPT ![x] = Past(x, o)]
    BY <1>3 DEF Goes
  <2>2. Past(x, o) \in PullRun /\ Past(x, o).landing = None
    BY PastType DEF BoxInv
  <2> QED BY <2>1, <2>2, RunMoves
<1> QED BY <1>2, <1>3

LEMMA JudgedBox ==
    ASSUME LaptopTyped, BoxInv, NEW x \in Pullers, NEW o \in bucket, NEW row \in Row,
           row.holder = o.holder, row.name = o.name, row.bytes = o.bytes,
           row.verdict = "accepted" =>
              o.name \in WellNamed /\ Format[o.bytes] = CodeIn[o.name],
           ledger' = Append(ledger, row), Goes(x, o, row), lists' = lists
    PROVE  BoxInv' /\ LedgerGrows
<1>1. ledger \in Seq(Row) /\ Len(ledger) \in Nat
  BY DEF BoxInv, BoxTyped
<1>2. PICK n : n = Len(ledger) + 1
  OBVIOUS
<1>3. /\ ledger' \in Seq(Row) /\ DOMAIN ledger' = DOMAIN ledger \cup {n} /\ ledger'[n] = row
      /\ LedgerGrows
  BY <1>1, <1>2 DEF LedgerGrows
<1>4. LedgerSound'
  <2> SUFFICES ASSUME NEW i \in DOMAIN ledger', ledger'[i].verdict = "accepted"
               PROVE  /\ ledger'[i].name \in WellNamed
                      /\ Format[ledger'[i].bytes] = CodeIn[ledger'[i].name]
    BY DEF LedgerSound, Accepted
  <2>1. CASE i \in DOMAIN ledger
    BY <1>3, <2>1 DEF LedgerGrows, BoxInv, LedgerSound, Accepted
  <2>2. CASE i = n
    BY <1>3, <2>2
  <2> QED BY <1>3, <2>1, <2>2
<1>5. ASSUME NEW f, Vouched(f) PROVE Vouched(f)'
  BY <1>3, <1>5, GrowingVouches
<1>6. PICK r \in PullRun :
         /\ pull' = [pull EXCEPT ![x] = r]
         /\ r.landing # None => \E i \in Accepted' :
               /\ ledger'[i].holder = r.landing.holder
               /\ Date[ledger'[i].name] = r.landing.date
               /\ ledger'[i].bytes = r.landing.bytes
  <2>1. CASE row.verdict = "accepted"
    <3>1. PICK f : f = Copy(o, row)
      OBVIOUS
    <3>2. /\ f \in Landed /\ f.holder = row.holder /\ f.date = Date[row.name]
          /\ f.bytes = row.bytes
      BY <2>1, <3>1, SupplyAssumption DEF Copy, Landed, LaptopTyped, Object
    <3>3. n \in Accepted'
      BY <1>3, <2>1 DEF Accepted
    <3>4. \A g \in Landed : [pull[x] EXCEPT !.landing = g] \in PullRun
                            /\ [pull[x] EXCEPT !.landing = g].landing = g
      BY DEF BoxInv, BoxTyped, PullRun
    <3>5. pull' = [pull EXCEPT ![x] = [pull[x] EXCEPT !.landing = f]]
      BY <2>1, <3>1 DEF Goes
    <3>6. PICK r : r = [pull[x] EXCEPT !.landing = f]
      OBVIOUS
    <3>7. r \in PullRun /\ r.landing = f /\ pull' = [pull EXCEPT ![x] = r]
      BY <3>2, <3>4, <3>5, <3>6
    <3> QED BY <1>3, <3>2, <3>3, <3>7
  <2>2. CASE row.verdict # "accepted"
    BY <2>2, PastType DEF BoxInv, Goes
  <2> QED BY <2>1, <2>2
<1>7. /\ BoxTyped' /\ pull'[x] = r
      /\ \A y \in Pullers : y # x => pull'[y] = pull[y]
  BY <1>3, <1>6 DEF BoxInv, BoxTyped
<1>8. ASSUME NEW y \in Pullers, pull'[y].landing # None
      PROVE  Vouched(pull[y].landing)'
  <2>1. CASE y = x
    BY <1>6, <1>7, <1>8, <2>1 DEF Vouched
  <2>2. CASE y # x
    <3>1. PICK f : f = pull[y].landing
      OBVIOUS
    <3>2. Vouched(f) /\ f = pull'[y].landing
      BY <1>7, <1>8, <2>2, <3>1 DEF BoxInv, BoxVouched
    <3>3. Vouched(f)'
      BY <1>5, <3>2
    <3> QED BY <3>2, <3>3
  <2> QED BY <2>1, <2>2
<1>9. BoxVouched'
  BY <1>5, <1>8 DEF BoxInv, BoxVouched
<1> QED BY <1>3, <1>4, <1>7, <1>9 DEF BoxInv

LEMMA LandBox ==
    ASSUME LaptopTyped, BoxInv, NEW x \in Pullers, PullLands(x)
    PROVE  BoxInv' /\ LedgerGrows
<1> DEFINE f == pull[x].landing
<1>1. f \in Landed /\ Vouched(f)
  BY DEF PullLands, BoxInv, BoxTyped, PullRun, BoxVouched
<1>2. \A g \in lists' : g \in lists \cup {f}
  BY DEF PullLands
<1>3. pull' = [pull EXCEPT ![x] = Past(x, f)] /\ ledger' = ledger
  BY DEF PullLands
<1>4. Past(x, f) \in PullRun /\ Past(x, f).landing = None
  BY PastType DEF BoxInv
<1>5. BoxTyped' /\ LedgerGrows
  BY <1>1, <1>2, <1>3, <1>4 DEF BoxInv, BoxTyped, LedgerGrows
<1>6. LedgerSound'
  BY <1>3 DEF BoxInv, LedgerSound, Accepted
<1>7. ASSUME NEW g, Vouched(g) PROVE Vouched(g)'
  BY <1>5, <1>7, GrowingVouches
<1>8. \A y \in Pullers : pull'[y].landing # None => Vouched(pull'[y].landing)
  BY <1>3, <1>4 DEF BoxInv, BoxTyped, BoxVouched
<1>9. \A g \in lists' : Vouched(g)
  BY <1>1, <1>2 DEF BoxInv, BoxVouched
<1>10. BoxVouched'
  BY <1>7, <1>8, <1>9 DEF BoxVouched
<1> QED BY <1>5, <1>6, <1>10 DEF BoxInv

LEMMA BoxStep ==
    ASSUME LaptopTyped, BoxInv, NEW x \in Pullers, PullGoesOn(x) \/ PullDies(x)
    PROVE  BoxInv' /\ LedgerGrows
<1>1. CASE PullStart(x)
  BY <1>1, StartBox
<1>2. ASSUME NEW o \in bucket, PullSkips(x, o)
      PROVE  BoxInv' /\ LedgerGrows
  <2>1. Past(x, o) \in PullRun /\ Past(x, o).landing = None
    BY PastType DEF BoxInv
  <2> QED BY <1>2, <2>1, RunMoves DEF PullSkips
<1>3. ASSUME NEW o \in bucket, PullRelands(x, o)
      PROVE  BoxInv' /\ LedgerGrows
  BY <1>3, RelandBox
<1>4. ASSUME NEW o \in bucket, PullJudges(x, o)
      PROVE  BoxInv' /\ LedgerGrows
  <2>1. lists' = lists
    BY <1>4 DEF PullJudges
  <2>2. ASSUME NEW i \in SameGuid(o), ledger[i].bytes = o.bytes, Goes(x, o, ledger[i]),
               ledger' = ledger
        PROVE  BoxInv' /\ LedgerGrows
    BY <2>1, <2>2, KnownBox
  <2>3. ASSUME NEW prior, ledger' = Append(ledger, Judged(o, Verdict(o, prior))),
               Goes(x, o, Judged(o, Verdict(o, prior)))
        PROVE  BoxInv' /\ LedgerGrows
    <3>1. PICK row : row = Judged(o, Verdict(o, prior))
      OBVIOUS
    <3>2. /\ row.holder = o.holder /\ row.name = o.name /\ row.bytes = o.bytes
          /\ row.verdict = Verdict(o, prior) /\ row \in Row
      BY <3>1, VerdictIsSound DEF LaptopTyped, Object, Judged, Row
    <3>3. ledger' = Append(ledger, row) /\ Goes(x, o, row)
      BY <2>3, <3>1
    <3> QED BY <2>1, <3>2, <3>3, VerdictIsSound, JudgedBox
  <2> QED BY <1>4, <2>2, <2>3 DEF PullJudges
<1>5. CASE PullLands(x)
  BY <1>5, LandBox
<1>6. CASE PullDies(x)
  <2>1. IdlePull \in PullRun /\ IdlePull.landing = None
    BY DEF IdlePull, PullRun
  <2> QED BY <1>6, <2>1, RunMoves DEF PullDies
<1> QED BY <1>1, <1>2, <1>3, <1>4, <1>5, <1>6 DEF PullGoesOn

LEMMA LosesBox ==
    ASSUME BoxInv, NEW f, LosesCopy(f)
    PROVE  BoxInv' /\ LedgerGrows
<1>1. ledger' = ledger /\ pull' = pull /\ lists' \subseteq lists
  BY DEF LosesCopy
<1>2. BoxTyped' /\ LedgerGrows /\ LedgerSound'
  BY <1>1 DEF BoxInv, BoxTyped, LedgerGrows, LedgerSound, Accepted
<1>3. ASSUME NEW g, Vouched(g) PROVE Vouched(g)'
  BY <1>2, <1>3, GrowingVouches
<1>4. BoxVouched'
  BY <1>1, <1>3 DEF BoxInv, BoxVouched
<1> QED BY <1>2, <1>4 DEF BoxInv

-----------------------------------------------------------------------------
(* Row i and bytes b may rest a verdict on a contact of a code.             *)
Backed(code, i, b) ==
    /\ i \in AcceptedFor(code)
    /\ \E j \in AcceptedFor(code) : /\ ledger[j].holder = ledger[i].holder
                                    /\ Date[ledger[j].name] = Date[ledger[i].name]
                                    /\ ledger[j].bytes = b
    /\ Format[b] = code

Covers(cover) == \A code \in Codes : cover[code] = 0 \/ cover[code] \in AcceptedFor(code)

(* A pass covers codes by accepted rows, and the file it has open is one    *)
(* the row of its code vouches for.                                         *)
PassSound(r) ==
    /\ Covers(r.cover)
    /\ r.open # None => r.bytes \in Bytes /\ Backed(r.open, r.cover[r.open], r.bytes)

VerdictsBacked ==
    \A c \in Contacts : backing[c] # None =>
       /\ Backed(CodeOf[c], backing[c].row, backing[c].bytes)
       /\ c \in flagged => c \in Lists[backing[c].bytes]

ScrubInv == ScrubTyped /\ (\A s \in Scrubbers : PassSound(scrub[s])) /\ VerdictsBacked

LEMMA GrowingBacks ==
    ASSUME LedgerGrows, NEW code, NEW i, NEW b, Backed(code, i, b)
    PROVE  Backed(code, i, b)'
<1>1. \A k \in AcceptedFor(code) : k \in DOMAIN ledger /\ k \in AcceptedFor(code)'
                                 /\ ledger'[k] = ledger[k]
  BY DEF LedgerGrows, AcceptedFor, Accepted
<1> QED BY <1>1 DEF Backed

LEMMA GrowingPass ==
    ASSUME LedgerGrows, NEW r, PassSound(r)
    PROVE  PassSound(r)'
<1>1. ASSUME NEW code \in Codes PROVE AcceptedFor(code) \subseteq AcceptedFor(code)'
  BY DEF LedgerGrows, AcceptedFor, Accepted
<1>2. Covers(r.cover)'
  BY <1>1 DEF PassSound, Covers
<1>3. ASSUME r.open # None PROVE Backed(r.open, r.cover[r.open], r.bytes)'
  BY <1>3, GrowingBacks DEF PassSound
<1> QED BY <1>2, <1>3 DEF PassSound

LEMMA GrowingVerdicts ==
    ASSUME LedgerGrows, VerdictsBacked, backing' = backing, flagged' \subseteq flagged
    PROVE  VerdictsBacked'
<1> SUFFICES ASSUME NEW c \in Contacts, backing[c] # None
             PROVE  /\ Backed(CodeOf[c], backing[c].row, backing[c].bytes)'
                    /\ c \in flagged' => c \in Lists[backing[c].bytes]
  BY DEF VerdictsBacked
<1>1. PICK i, b : i = backing[c].row /\ b = backing[c].bytes
  OBVIOUS
<1>2. Backed(CodeOf[c], i, b)
  BY <1>1 DEF VerdictsBacked
<1>3. Backed(CodeOf[c], i, b)'
  BY <1>2, GrowingBacks
<1> QED BY <1>1, <1>3 DEF VerdictsBacked

(* Steps that are no scrub's.                                               *)
LEMMA ScrubStands ==
    ASSUME ScrubInv, LedgerGrows, UNCHANGED <<flagged, backing, scrub>>, due' \subseteq Contacts
    PROVE  ScrubInv'
<1>1. ScrubTyped'
  BY DEF ScrubInv, ScrubTyped
<1>2. ASSUME NEW s \in Scrubbers PROVE PassSound(scrub[s])'
  <2>1. PICK r : r = scrub[s]
    OBVIOUS
  <2>2. PassSound(r)'
    BY <2>1, GrowingPass DEF ScrubInv
  <2> QED BY <2>1, <2>2
<1>3. VerdictsBacked'
  BY GrowingVerdicts DEF ScrubInv
<1> QED BY <1>1, <1>2, <1>3 DEF ScrubInv

(* A step of a pass that gives no verdict.                                  *)
LEMMA PassMoves ==
    ASSUME ScrubInv, NEW s \in Scrubbers, NEW r \in ScrubRun, PassSound(r),
           scrub' = [scrub EXCEPT ![s] = r],
           due' = due, flagged' \subseteq flagged, backing' = backing, ledger' = ledger
    PROVE  ScrubInv'
<1>1. LedgerGrows
  BY DEF LedgerGrows
<1>2. ScrubTyped'
  BY DEF ScrubInv, ScrubTyped
<1>3. \A t \in Scrubbers : scrub'[t] = r \/ scrub'[t] = scrub[t]
  BY DEF ScrubInv, ScrubTyped
<1>4. ASSUME NEW t \in Scrubbers PROVE PassSound(scrub[t])'
  <2>1. PICK q : q = scrub'[t]
    OBVIOUS
  <2>2. PassSound(q)
    BY <1>3, <2>1 DEF ScrubInv
  <2>3. PassSound(q)'
    BY <1>1, <2>2, GrowingPass
  <2> QED BY <2>1, <2>3
<1>5. VerdictsBacked'
  BY <1>1, GrowingVerdicts DEF ScrubInv
<1> QED BY <1>2, <1>4, <1>5 DEF ScrubInv

LEMMA IdleSound == IdleScrub \in ScrubRun /\ PassSound(IdleScrub)
<1> QED BY DEF IdleScrub, ScrubRun, PassSound, Covers

LEMMA AfterSound ==
    ASSUME ScrubInv, NEW s \in Scrubbers, NEW code \in Codes
    PROVE  After(s, code) \in ScrubRun /\ PassSound(After(s, code))
<1> DEFINE r == [scrub[s] EXCEPT !.codes = @ \ {code}, !.open = None, !.bytes = None,
                                 !.rows = @ \ RowsOf(s, code)]
<1>1. scrub[s] \in ScrubRun /\ Covers(scrub[s].cover)
  BY DEF ScrubInv, ScrubTyped, PassSound
<1>2. r \in ScrubRun /\ r.open = None /\ r.cover = scrub[s].cover
  BY <1>1 DEF ScrubRun
<1>3. PassSound(r)
  BY <1>1, <1>2 DEF PassSound
<1> QED BY <1>2, <1>3, IdleSound DEF After

LEMMA StartSound ==
    ASSUME Typed, ScrubInv, NEW s \in Scrubbers, ScrubStart(s)
    PROVE  ScrubInv'
<1> DEFINE cover == [code \in Codes |-> Newest(code)]
           r == [IdleScrub EXCEPT !.cover = cover, !.codes = Codes, !.rows = due,
                                  !.was = due \cap flagged]
<1>1. cover \in [Codes -> Nat] /\ Covers(cover)
  BY NewestIsAccepted DEF Covers
<1>2. due \subseteq Contacts
  BY DEF ScrubInv, ScrubTyped
<1>3. \A v \in [Codes -> Nat] :
         /\ [IdleScrub EXCEPT !.cover = v, !.codes = Codes, !.rows = due,
                              !.was = due \cap flagged] \in ScrubRun
         /\ [IdleScrub EXCEPT !.cover = v, !.codes = Codes, !.rows = due,
                              !.was = due \cap flagged].cover = v
         /\ [IdleScrub EXCEPT !.cover = v, !.codes = Codes, !.rows = due,
                              !.was = due \cap flagged].open = None
  BY <1>2 DEF IdleScrub, ScrubRun
<1>4. scrub' = [scrub EXCEPT ![s] = r]
  BY DEF ScrubStart
<1>5. r \in ScrubRun /\ r.cover = cover /\ r.open = None
  <2> HIDE DEF cover
  <2> QED BY <1>1, <1>3
<1>6. PassSound(r)
  BY <1>1, <1>5 DEF PassSound
<1> HIDE DEF r
<1> QED BY <1>4, <1>5, <1>6, PassMoves DEF ScrubStart, boxVars

LEMMA OpenSound ==
    ASSUME BoxInv, ScrubInv, NEW s \in Scrubbers, NEW code \in Codes, ScrubOpens(s, code)
    PROVE  ScrubInv'
<1>1. PICK f \in Listed(code, scrub[s].cover[code]) :
         scrub' = [scrub EXCEPT ![s].open = code, ![s].bytes = f.bytes]
  BY DEF ScrubOpens
<1>2. PICK i : i = scrub[s].cover[code]
  OBVIOUS
<1>3. /\ f \in lists /\ Format[f.bytes] = code
      /\ f.holder = ledger[i].holder /\ f.date = Date[ledger[i].name]
  BY <1>1, <1>2 DEF Listed, Zips
<1>4. f.bytes \in Bytes
  BY <1>3 DEF BoxInv, BoxTyped, Landed
<1>5. i \in AcceptedFor(code)
  BY <1>2 DEF ScrubOpens, ScrubInv, PassSound, Covers
<1>6. PICK j \in Accepted : /\ ledger[j].holder = f.holder
                           /\ Date[ledger[j].name] = f.date
                           /\ ledger[j].bytes = f.bytes
  BY <1>3 DEF BoxInv, BoxVouched, Vouched
<1>7. j \in AcceptedFor(code)
  BY <1>3, <1>6 DEF BoxInv, LedgerSound, AcceptedFor
<1>8. Backed(code, i, f.bytes)
  BY <1>3, <1>5, <1>6, <1>7 DEF Backed
<1>9. scrub[s] \in ScrubRun
  BY DEF ScrubInv, ScrubTyped
<1>10. PICK r : r = [scrub[s] EXCEPT !.open = code, !.bytes = f.bytes]
  OBVIOUS
<1>11. /\ r \in ScrubRun /\ r.open = code /\ r.bytes = f.bytes /\ r.cover = scrub[s].cover
  BY <1>4, <1>9, <1>10 DEF ScrubRun
<1>12. scrub' = [scrub EXCEPT ![s] = r]
  BY <1>1, <1>9, <1>10 DEF ScrubInv, ScrubTyped
<1>13. PassSound(r)
  BY <1>2, <1>4, <1>8, <1>11 DEF ScrubInv, PassSound
<1> QED BY <1>11, <1>12, <1>13, PassMoves DEF ScrubOpens, boxVars

LEMMA RowSound ==
    ASSUME ScrubInv, NEW s \in Scrubbers, NEW c \in Contacts, ScrubRow(s, c)
    PROVE  ScrubInv'
<1>1. PICK b, i : b = scrub[s].bytes /\ i = scrub[s].cover[scrub[s].open]
  OBVIOUS
<1>2. /\ c \in RowsOf(s, scrub[s].open) /\ scrub[s].open = CodeOf[c]
      /\ scrub[s] \in ScrubRun /\ PassSound(scrub[s])
  BY DEF ScrubRow, RowsOf, ScrubInv, ScrubTyped
<1>3. b \in Bytes /\ Backed(CodeOf[c], i, b)
  BY <1>1, <1>2 DEF PassSound, ScrubRow
<1>4. i \in Nat
  BY <1>1, <1>2 DEF ScrubRow, ScrubRun
<1>5. LedgerGrows
  BY DEF ScrubRow, boxVars, LedgerGrows
<1>6. /\ due' \subseteq Contacts
      /\ flagged' \subseteq Contacts
      /\ backing' \in [Contacts -> [row : Nat, bytes : Bytes] \cup {None}]
      /\ backing'[c] = [row |-> i, bytes |-> b]
      /\ \A d \in Contacts : d # c => backing'[d] = backing[d]
  BY <1>1, <1>3, <1>4 DEF ScrubRow, ScrubInv, ScrubTyped
<1>7. /\ c \in flagged' => c \in Lists[b]
      /\ \A d \in Contacts : d # c /\ d \in flagged' => d \in flagged
  BY <1>1 DEF ScrubRow
<1>8. PICK l \in Contacts \cup {None} :
         scrub' = [scrub EXCEPT ![s].rows = @ \ {c}, ![s].clearing = l]
  <2>1. CASE ~(c \in Lists[scrub[s].bytes]) /\ c \in scrub[s].was
    BY <2>1 DEF ScrubRow
  <2>2. CASE ~(~(c \in Lists[scrub[s].bytes]) /\ c \in scrub[s].was)
    BY <2>2 DEF ScrubRow
  <2> QED BY <2>1, <2>2
<1>9. PICK r : r = [scrub[s] EXCEPT !.rows = @ \ {c}, !.clearing = l]
  OBVIOUS
<1>10. /\ r \in ScrubRun /\ r.open = scrub[s].open /\ r.bytes = scrub[s].bytes
       /\ r.cover = scrub[s].cover
  BY <1>2, <1>8, <1>9 DEF ScrubRun
<1>11. scrub' = [scrub EXCEPT ![s] = r]
  BY <1>8, <1>9 DEF ScrubInv, ScrubTyped
<1>12. ScrubTyped'
  BY <1>6, <1>10, <1>11 DEF ScrubInv, ScrubTyped
<1>13. ASSUME NEW t \in Scrubbers PROVE PassSound(scrub[t])'
  <2>1. PICK q : q = scrub'[t]
    OBVIOUS
  <2>2. PassSound(r)
    BY <1>2, <1>10 DEF PassSound
  <2>3. PassSound(q)
    BY <1>11, <2>1, <2>2 DEF ScrubInv, ScrubTyped
  <2>4. PassSound(q)'
    BY <1>5, <2>3, GrowingPass
  <2> QED BY <2>1, <2>4
<1>14. ASSUME NEW d \in Contacts, backing'[d] # None
       PROVE  /\ Backed(CodeOf[d], backing[d].row, backing[d].bytes)'
              /\ d \in flagged' => d \in Lists[backing'[d].bytes]
  <2>1. PICK k, e : k = backing'[d].row /\ e = backing'[d].bytes
    OBVIOUS
  <2>2. Backed(CodeOf[d], k, e) /\ (d \in flagged' => d \in Lists[e])
    <3>1. CASE d = c
      BY <1>3, <1>6, <1>7, <2>1, <3>1
    <3>2. CASE d # c
      <4>1. backing'[d] = backing[d] /\ (d \in flagged' => d \in flagged)
        BY <1>6, <1>7, <3>2
      <4> QED BY <1>14, <2>1, <4>1 DEF ScrubInv, VerdictsBacked
    <3> QED BY <3>1, <3>2
  <2>3. Backed(CodeOf[d], k, e)'
    BY <1>5, <2>2, GrowingBacks
  <2> QED BY <2>1, <2>2, <2>3
<1>15. VerdictsBacked'
  BY <1>14 DEF VerdictsBacked
<1> QED BY <1>12, <1>13, <1>15 DEF ScrubInv

LEMMA ScrubStep ==
    ASSUME Typed, BoxInv, ScrubInv, NEW s \in Scrubbers, ScrubGoesOn(s) \/ ScrubDies(s)
    PROVE  ScrubInv'
<1>1. CASE ScrubStart(s)
  BY <1>1, StartSound
<1>2. ASSUME NEW code \in Codes, ScrubSkips(s, code)
      PROVE  ScrubInv'
  BY <1>2, AfterSound, PassMoves DEF ScrubSkips, PassedOver, boxVars
<1>3. ASSUME NEW code \in Codes, ScrubOpens(s, code)
      PROVE  ScrubInv'
  BY <1>3, OpenSound
<1>4. ASSUME NEW c \in Contacts, ScrubRow(s, c)
      PROVE  ScrubInv'
  BY <1>4, RowSound
<1>5. CASE ScrubClears(s)
  <2>1. PICK r : r = [scrub[s] EXCEPT !.clearing = None]
    OBVIOUS
  <2>2. scrub[s] \in ScrubRun /\ PassSound(scrub[s])
    BY DEF ScrubInv, ScrubTyped
  <2>3. r \in ScrubRun /\ r.open = scrub[s].open /\ r.bytes = scrub[s].bytes /\ r.cover = scrub[s].cover
    BY <2>1, <2>2 DEF ScrubRun
  <2>4. PassSound(r)
    BY <2>2, <2>3 DEF PassSound
  <2>5. scrub' = [scrub EXCEPT ![s] = r]
    BY <1>5, <2>1 DEF ScrubClears, ScrubInv, ScrubTyped
  <2> QED BY <1>5, <2>3, <2>4, <2>5, PassMoves DEF ScrubClears, boxVars
<1>6. CASE ScrubCloses(s)
  <2>1. scrub[s].open \in Codes
    BY <1>6 DEF ScrubCloses, ScrubInv, ScrubTyped, ScrubRun
  <2> QED BY <1>6, <2>1, AfterSound, PassMoves DEF ScrubCloses, boxVars
<1>7. CASE ScrubDies(s)
  BY <1>7, IdleSound, PassMoves DEF ScrubDies, boxVars
<1> QED BY <1>1, <1>2, <1>3, <1>4, <1>5, <1>6, <1>7 DEF ScrubGoesOn

-----------------------------------------------------------------------------
(* A hit stays a hit: what one pass is about to clear was not one.          *)
HitsStay ==
    OnePass =>
       /\ \A c \in Contacts :
             backing[c] # None /\ c \in Lists[backing[c].bytes] => c \in flagged
       /\ \A s \in Scrubbers : scrub[s].clearing # None =>
             scrub[s].clearing \notin Lists[backing[scrub[s].clearing].bytes]

LEMMA HitsStep ==
    ASSUME ScrubTyped, HitsStay, [Next]_vars
    PROVE  HitsStay'
<1> SUFFICES ASSUME OnePass PROVE HitsStay'
  BY DEF HitsStay, OnePass
<1>1. ASSUME UNCHANGED <<flagged, backing>>,
             \A s \in Scrubbers : scrub'[s].clearing \in {None, scrub[s].clearing}
      PROVE  HitsStay'
  BY <1>1 DEF HitsStay
<1>2. CASE UNCHANGED <<flagged, backing, scrub>>
  BY <1>2 DEF HitsStay
<1>3. ASSUME NEW s \in Scrubbers, ScrubStart(s) PROVE HitsStay'
  <2>1. PICK r : r = [IdleScrub EXCEPT !.cover = [code \in Codes |-> Newest(code)],
                                      !.codes = Codes, !.rows = due, !.was = due \cap flagged]
    OBVIOUS
  <2>2. r.clearing = None /\ scrub' = [scrub EXCEPT ![s] = r] /\ UNCHANGED <<flagged, backing>>
    BY <1>3, <2>1 DEF ScrubStart, IdleScrub
  <2>3. \A t \in Scrubbers : scrub'[t].clearing \in {None, scrub[t].clearing}
    BY <2>2 DEF ScrubTyped
  <2> QED BY <1>1, <2>2, <2>3
<1>4. ASSUME NEW s \in Scrubbers, NEW code \in Codes \cup {None},
             scrub' = [scrub EXCEPT ![s] = After(s, code)], UNCHANGED <<flagged, backing>>
      PROVE  HitsStay'
  <2>1. After(s, code).clearing \in {None, scrub[s].clearing}
    BY DEF After, IdleScrub, ScrubTyped, ScrubRun
  <2>2. \A t \in Scrubbers : scrub'[t].clearing \in {None, scrub[t].clearing}
    BY <1>4, <2>1 DEF ScrubTyped
  <2> QED BY <1>1, <1>4, <2>2
<1>5. ASSUME NEW s \in Scrubbers, NEW code \in Codes, ScrubSkips(s, code) PROVE HitsStay'
  BY <1>4, <1>5 DEF ScrubSkips, PassedOver
<1>6. ASSUME NEW s \in Scrubbers, NEW code \in Codes, ScrubOpens(s, code) PROVE HitsStay'
  <2>1. PICK f : scrub' = [scrub EXCEPT ![s].open = code, ![s].bytes = f.bytes]
    BY <1>6 DEF ScrubOpens
  <2>2. PICK r : r = [scrub[s] EXCEPT !.open = code, !.bytes = f.bytes]
    OBVIOUS
  <2>3. scrub' = [scrub EXCEPT ![s] = r] /\ r.clearing = scrub[s].clearing
    BY <2>1, <2>2 DEF ScrubTyped, ScrubRun
  <2>4. \A t \in Scrubbers : scrub'[t].clearing \in {None, scrub[t].clearing}
    BY <2>3 DEF ScrubTyped
  <2> QED BY <1>1, <1>6, <2>4 DEF ScrubOpens
<1>7. ASSUME NEW s \in Scrubbers, NEW c \in Contacts, ScrubRow(s, c) PROVE HitsStay'
  <2>1. PICK b : b = scrub[s].bytes
    OBVIOUS
  <2>2. /\ scrub[s] \in ScrubRun /\ scrub' \in [Scrubbers -> ScrubRun]
        /\ \/ c \in Lists[b] /\ scrub'[s].clearing = None
           \/ c \notin Lists[b] /\ scrub'[s].clearing \in {c, None}
    <3>1. scrub[s] \in ScrubRun
      BY DEF ScrubTyped
    <3>2. \A l \in {c, None} : [scrub[s] EXCEPT !.rows = @ \ {c}, !.clearing = l] \in ScrubRun
                              /\ [scrub[s] EXCEPT !.rows = @ \ {c}, !.clearing = l].clearing = l
      BY <3>1 DEF ScrubRun
    <3>3. PICK l \in {c, None} :
             /\ scrub' = [scrub EXCEPT ![s].rows = @ \ {c}, ![s].clearing = l]
             /\ c \in Lists[b] => l = None
      <4>1. CASE c \notin Lists[b] /\ c \in scrub[s].was
        BY <1>7, <2>1, <4>1 DEF ScrubRow
      <4>2. CASE ~(c \notin Lists[b] /\ c \in scrub[s].was)
        BY <1>7, <2>1, <4>2 DEF ScrubRow
      <4> QED BY <4>1, <4>2
    <3>4. scrub' = [scrub EXCEPT ![s] = [scrub[s] EXCEPT !.rows = @ \ {c}, !.clearing = l]]
      BY <3>3 DEF ScrubTyped
    <3>5. scrub' \in [Scrubbers -> ScrubRun] /\ scrub'[s].clearing = l
      BY <3>2, <3>4 DEF ScrubTyped
    <3> QED BY <3>1, <3>3, <3>5
  <2>3. /\ backing'[c].bytes = b
        /\ \A d \in Contacts : d # c => backing'[d] = backing[d]
    BY <1>7, <2>1 DEF ScrubRow, ScrubTyped
  <2>4. /\ c \in Lists[b] => c \in flagged'
        /\ \A d \in Contacts : d # c /\ d \in flagged => d \in flagged'
    BY <1>7, <2>1 DEF ScrubRow
  <2>5. \A t \in Scrubbers : t = s
    BY DEF OnePass
  <2> QED BY <2>2, <2>3, <2>4, <2>5 DEF HitsStay, OnePass
<1>8. ASSUME NEW s \in Scrubbers, ScrubClears(s) PROVE HitsStay'
  <2>1. /\ scrub[s].clearing # None /\ flagged' = flagged \ {scrub[s].clearing}
        /\ backing' = backing /\ scrub' = [scrub EXCEPT ![s].clearing = None]
    BY <1>8 DEF ScrubClears
  <2>2. scrub'[s].clearing = None /\ \A t \in Scrubbers : t = s
    BY <2>1 DEF ScrubTyped, ScrubRun, OnePass
  <2> QED BY <2>1, <2>2 DEF HitsStay
<1>9. ASSUME NEW s \in Scrubbers, ScrubCloses(s) PROVE HitsStay'
  <2>1. scrub[s].open \in Codes \cup {None}
    BY DEF ScrubTyped, ScrubRun
  <2> QED BY <1>4, <1>9, <2>1 DEF ScrubCloses
<1>10. ASSUME NEW s \in Scrubbers, ScrubDies(s) PROVE HitsStay'
  BY <1>1, <1>10 DEF ScrubDies, IdleScrub, ScrubTyped
<1>11. ASSUME NEW f, Download(f) \/ RepTidies(f) \/ Upload(f) \/ LosesCopy(f) PROVE HitsStay'
  BY <1>2, <1>11 DEF Download, RepTidies, Upload, LosesCopy, scrubVars
<1>12. ASSUME NEW x, PullGoesOn(x) \/ PullDies(x) PROVE HitsStay'
  BY <1>2, <1>12 DEF PullGoesOn, PullDies, PullStart, PullSkips, PullRelands, PullJudges,
                     PullLands, scrubVars
<1>13. ASSUME NEW c, BecomesDue(c) PROVE HitsStay'
  BY <1>2, <1>13 DEF BecomesDue
<1>14. CASE Clerk \/ UNCHANGED vars
  BY <1>2, <1>14 DEF Clerk, vars, supplyVars, scrubVars
<1> QED BY <1>3, <1>5, <1>6, <1>7, <1>8, <1>9, <1>10, <1>11, <1>12, <1>13, <1>14
        DEF Next, ScrubGoesOn

-----------------------------------------------------------------------------
SupplyInv ==
    /\ TokensInv /\ WorldTyped /\ LaptopTyped /\ BoxInv /\ ScrubInv
    /\ HitsStay /\ NothingDownloadedIsLost

LEMMA InvIsTyped == SupplyInv => Typed
<1> QED BY TypeInParts DEF SupplyInv, TokensInv, BoxInv, ScrubInv, Typed

LEMMA SupplyInitial == Init => SupplyInv
<1> SUFFICES ASSUME Init PROVE SupplyInv
  OBVIOUS
<1>1. TokensTypeOK /\ WorldTyped /\ LaptopTyped /\ BoxTyped /\ ScrubTyped /\ LedgerSound
  BY InitTyped, TypeInParts DEF Typed
<1>2. TokensInv
  BY TokensInitial DEF Init
<1>3. BoxInv
  BY <1>1 DEF BoxInv, BoxVouched, Init, IdlePull
<1>4. ScrubInv
  BY <1>1, IdleSound DEF ScrubInv, VerdictsBacked, Init
<1>5. NothingDownloadedIsLost
  BY DEF Init, NothingDownloadedIsLost
<1>6. HitsStay
  BY DEF Init, HitsStay, IdleScrub
<1> QED BY <1>1, <1>2, <1>3, <1>4, <1>5, <1>6 DEF SupplyInv

(* A put leaves every key of the bucket taken.                              *)
LEMMA PutKeepsKeys ==
    ASSUME NEW f, bucket' = Put(f), NEW k,
           k = Key(f) \/ \E o \in bucket : Key(o) = k
    PROVE  \E o \in bucket' : Key(o) = k
<1>1. Stored(f) \in bucket' /\ Key(Stored(f)) = Key(f)
  BY DEF Put, Keep, Stored, Key
<1>2. CASE k = Key(f)
  BY <1>1, <1>2
<1>3. ASSUME NEW o \in bucket, Key(o) = k, k # Key(f)
      PROVE  \E q \in bucket' : Key(q) = k
  <2>1. o \in bucket'
    BY <1>1, <1>3 DEF Put, Keep
  <2> QED BY <1>3, <2>1
<1> QED BY <1>2, <1>3

LEMMA UploadsStep == NothingDownloadedIsLost /\ [Next]_vars => NothingDownloadedIsLost'
<1> SUFFICES ASSUME NothingDownloadedIsLost, [Next]_vars PROVE NothingDownloadedIsLost'
  OBVIOUS
<1>1. ASSUME NEW f, Upload(f) PROVE NothingDownloadedIsLost'
  <2>1. bucket' = Put(f) /\ sent' \subseteq sent \cup {Key(f)}
    BY <1>1 DEF Upload
  <2>2. ASSUME NEW k \in sent' PROVE \E o \in bucket' : Key(o) = k
    <3>1. k = Key(f) \/ \E o \in bucket : Key(o) = k
      BY <2>1 DEF NothingDownloadedIsLost
    <3> QED BY <2>1, <3>1, PutKeepsKeys
  <2>3. \A k \in sent' : \E o \in bucket' : Key(o) = k
    BY <2>2
  <2> QED BY <2>3 DEF NothingDownloadedIsLost, Key
<1>2. CASE UNCHANGED <<sent, bucket>>
  BY <1>2 DEF NothingDownloadedIsLost, Key
<1>3. ASSUME NEW f, Download(f) \/ RepTidies(f) \/ LosesCopy(f) PROVE UNCHANGED <<sent, bucket>>
  BY <1>3 DEF Download, RepTidies, LosesCopy, laptopVars
<1>4. ASSUME NEW x, PullGoesOn(x) \/ PullDies(x) PROVE UNCHANGED <<sent, bucket>>
  BY <1>4 DEF PullGoesOn, PullDies, PullStart, PullSkips, PullRelands, PullJudges, PullLands,
              laptopVars
<1>5. ASSUME NEW s, ScrubGoesOn(s) \/ ScrubDies(s) PROVE UNCHANGED <<sent, bucket>>
  BY <1>5 DEF ScrubGoesOn, ScrubDies, ScrubStart, ScrubSkips, ScrubOpens, ScrubRow,
              ScrubClears, ScrubCloses, laptopVars
<1>6. ASSUME NEW c, BecomesDue(c) PROVE UNCHANGED <<sent, bucket>>
  BY <1>6 DEF BecomesDue, laptopVars
<1>7. CASE Clerk \/ UNCHANGED vars
  BY <1>2, <1>7 DEF Clerk, vars, supplyVars, laptopVars
<1> QED BY <1>1, <1>2, <1>3, <1>4, <1>5, <1>6, <1>7 DEF Next

LEMMA SupplyStep == SupplyInv /\ [Next]_vars => SupplyInv'
<1> SUFFICES ASSUME SupplyInv, [Next]_vars PROVE SupplyInv'
  OBVIOUS
<1>1. TokensInv'
  BY TokensStep, NextTokens DEF SupplyInv
<1>2. NothingDownloadedIsLost' /\ HitsStay'
  BY UploadsStep, HitsStep DEF SupplyInv, ScrubInv
<1>3. Typed
  BY InvIsTyped
<1>4. ASSUME UNCHANGED <<world, boxVars, scrubVars>>, LaptopTyped', mishaps' \in Nat
      PROVE  WorldTyped' /\ LaptopTyped' /\ BoxInv' /\ ScrubInv'
  <2>1. LedgerGrows /\ WorldTyped'
    BY <1>4 DEF LedgerGrows, boxVars, SupplyInv, WorldTyped
  <2>2. BoxTyped' /\ LedgerSound'
    BY <1>4 DEF boxVars, SupplyInv, BoxInv, BoxTyped, LedgerSound, Accepted
  <2>3. BoxVouched'
    BY <1>4 DEF boxVars, SupplyInv, BoxInv, BoxVouched, Vouched, Accepted
  <2>4. ScrubInv'
    <3>1. due' \subseteq Contacts /\ UNCHANGED <<flagged, backing, scrub>>
      BY <1>4 DEF scrubVars, SupplyInv, ScrubInv, ScrubTyped
    <3> QED BY <2>1, <3>1, ScrubStands DEF SupplyInv
  <2> QED BY <1>4, <2>1, <2>2, <2>3, <2>4 DEF BoxInv
<1>5. ASSUME UNCHANGED <<world, laptopVars, bucket>>, mishaps' \in Nat
      PROVE  WorldTyped' /\ LaptopTyped'
  BY <1>5 DEF SupplyInv, WorldTyped, LaptopTyped, laptopVars
<1>6. mishaps \in Nat
  BY DEF SupplyInv, WorldTyped
<1>7. CASE Clerk \/ UNCHANGED vars
  <2>1. UNCHANGED supplyVars
    BY <1>7 DEF Clerk, vars
  <2> QED BY <1>1, <1>2, <1>4, <1>5, <1>6, <2>1 DEF supplyVars, SupplyInv
<1>8. ASSUME NEW f, \/ f \in world.portal /\ Download(f)
                    \/ f \in disk \cup world.byHand /\ RepTidies(f)
                    \/ f \in disk /\ Upload(f)
      PROVE  SupplyInv'
  BY <1>1, <1>2, <1>4, <1>8, LaptopStep DEF SupplyInv
<1>9. ASSUME BoxInv', LedgerGrows, UNCHANGED <<world, laptopVars, bucket, scrubVars>>,
             mishaps' \in Nat
      PROVE  SupplyInv'
  <2>1. due' \subseteq Contacts /\ UNCHANGED <<flagged, backing, scrub>>
    BY <1>9 DEF scrubVars, SupplyInv, ScrubInv, ScrubTyped
  <2>2. ScrubInv'
    BY <1>9, <2>1, ScrubStands DEF SupplyInv
  <2> QED BY <1>1, <1>2, <1>5, <1>9, <2>2 DEF SupplyInv
<1>10. ASSUME NEW x \in Pullers, PullGoesOn(x) \/ PullDies(x)
       PROVE  SupplyInv'
  <2>1. UNCHANGED <<world, laptopVars, bucket, scrubVars>> /\ mishaps' \in Nat
    BY <1>6, <1>10 DEF PullGoesOn, PullDies, PullStart, PullSkips, PullRelands, PullJudges,
                       PullLands, Mishap
  <2> QED BY <1>9, <1>10, <2>1, BoxStep DEF SupplyInv
<1>11. ASSUME NEW f, LosesCopy(f)
       PROVE  SupplyInv'
  <2>1. UNCHANGED <<world, laptopVars, bucket, scrubVars>> /\ mishaps' \in Nat
    BY <1>6, <1>11 DEF LosesCopy, Mishap
  <2> QED BY <1>9, <1>11, <2>1, LosesBox DEF SupplyInv
<1>12. ASSUME ScrubInv', UNCHANGED <<world, laptopVars, bucket, boxVars>>, mishaps' \in Nat
       PROVE  SupplyInv'
  <2>1. BoxTyped' /\ LedgerSound'
    BY <1>12 DEF boxVars, SupplyInv, BoxInv, BoxTyped, LedgerSound, Accepted
  <2>2. BoxVouched'
    BY <1>12 DEF boxVars, SupplyInv, BoxInv, BoxVouched, Vouched, Accepted
  <2> QED BY <1>1, <1>2, <1>5, <1>12, <2>1, <2>2 DEF SupplyInv, BoxInv
<1>13. ASSUME NEW s \in Scrubbers, ScrubGoesOn(s) \/ ScrubDies(s)
       PROVE  SupplyInv'
  <2>1. UNCHANGED <<world, laptopVars, bucket, boxVars>> /\ mishaps' \in Nat
    <3>1. CASE ScrubDies(s)
      BY <1>6, <3>1 DEF ScrubDies, Mishap
    <3>2. CASE ScrubStart(s) \/ ScrubClears(s) \/ ScrubCloses(s)
      BY <1>6, <3>2 DEF ScrubStart, ScrubClears, ScrubCloses
    <3>3. ASSUME NEW code \in Codes, ScrubSkips(s, code) \/ ScrubOpens(s, code)
          PROVE  UNCHANGED <<world, laptopVars, bucket, boxVars>> /\ mishaps' \in Nat
      BY <1>6, <3>3 DEF ScrubSkips, ScrubOpens
    <3>4. ASSUME NEW c \in Contacts, ScrubRow(s, c)
          PROVE  UNCHANGED <<world, laptopVars, bucket, boxVars>> /\ mishaps' \in Nat
      BY <1>6, <3>4 DEF ScrubRow
    <3> QED BY <1>13, <3>1, <3>2, <3>3, <3>4 DEF ScrubGoesOn
  <2> QED BY <1>3, <1>12, <1>13, <2>1, ScrubStep DEF SupplyInv
<1>14. ASSUME NEW c \in Contacts, BecomesDue(c)
       PROVE  SupplyInv'
  <2>1. /\ UNCHANGED <<world, laptopVars, bucket, boxVars, flagged, backing, scrub>>
        /\ mishaps' \in Nat /\ due' \subseteq Contacts
    BY <1>6, <1>14 DEF BecomesDue, SupplyInv, ScrubInv, ScrubTyped
  <2>2. LedgerGrows
    BY <2>1 DEF boxVars, LedgerGrows
  <2>3. ScrubInv'
    BY <2>1, <2>2, ScrubStands DEF SupplyInv
  <2> QED BY <1>12, <2>1, <2>3
<1> QED BY <1>7, <1>8, <1>10, <1>11, <1>13, <1>14 DEF Next

LEMMA SupplyHolds == Spec => []SupplyInv
<1> QED BY SupplyInitial, SupplyStep, PTL DEF Spec

(* Every component of the supply keeps to its kind, runs that die included. *)
THEOREM TypeCorrect == Spec => []TypeOK
<1>1. SupplyInv => TypeOK
  BY InvIsTyped DEF Typed
<1> QED BY <1>1, SupplyHolds, PTL

(* Whatever a partner's laptop has put away as uploaded is in the bucket.   *)
THEOREM UploadsKept == Spec => []NothingDownloadedIsLost
<1>1. SupplyInv => NothingDownloadedIsLost
  BY DEF SupplyInv
<1> QED BY <1>1, SupplyHolds, PTL

(* No contact is declared listed or clean on anything but accepted bytes    *)
(* of its area code, however pulls and scrubs interleave, die, land again,  *)
(* and whatever is uploaded under a name that was judged.                   *)
THEOREM VerdictsRest == Spec => []VerdictRestsOnAccepted
<1>1. ASSUME SupplyInv PROVE VerdictRestsOnAccepted
  BY <1>1 DEF SupplyInv, ScrubInv, VerdictsBacked, Backed, HitsStay, VerdictRestsOnAccepted
<1> QED BY <1>1, SupplyHolds, PTL
=============================================================================
