------------------------------- MODULE Intake -------------------------------
(***************************************************************************)
(* Where contacts come from and what keeps their addresses and their       *)
(* suppressions: the one-time merge of licence records into businesses     *)
(* (jobs/migrate_grain), the load of list files (service/contacts), the    *)
(* verification of addresses (jobs/verify_addresses), and the trims that   *)
(* turn an eligible list into a mailing (service/waves.resolve_audience).  *)
(* A load reads before it writes; a verification stamps row by row, each   *)
(* in a transaction of its own; both run beside everything else and may    *)
(* stop anywhere.                                                          *)
(* A row is named <<table, list_key>>; a contact bears the name of the row *)
(* it was made from, which no other contact can have been made from.       *)
(***************************************************************************)
EXTENDS Naturals, FiniteSets, FiniteSetsExt, Sequences

CONSTANTS
    Keys,       \* list keys, ordered as the strings are
    FbnKeys,    \* those that begin with fbn-ca-
    SeedKeys,   \* seed keys of the founders' own contacts
    Phones, Addrs,
    Corrected,  \* addresses an operator may write
    Points,     \* delivery points
    Answers,    \* what the address vendor may say of a row
    None,
    Loaders, Verifiers,
    Worlds

Tables   == {"cslb", "fbn"}
Seeds    == {"seed"} \X SeedKeys
Ids      == (Tables \X Keys) \cup Seeds
Channels == {"mail", "sms", "voice"}
Columns  == [mail |-> {"mail"}, sms |-> {"sms"}, voice |-> {"voice"}, all |-> Channels]

(* A source names its intake table, and with it how its rows are grouped:   *)
(* cslb by phone, fbn one contact per filing.                               *)
TableOf(source) == IF source \in Tables THEN source ELSE None
Prefix(k) == IF k \in FbnKeys THEN "fbn" ELSE "cslb"

(* A line of a list file, and a contact of before the merge, when a contact *)
(* was a licence record; next is its next action's day.                     *)
Line   == [key : Keys, phone : Phones \cup {None}, addr : Addrs, email : Nat \cup {None},
           dnm : BOOLEAN, targetable : BOOLEAN]
ListFile == [source : STRING, lines : Seq(Line)]
Record == [key : Keys \cup SeedKeys, phone : Phones \cup {None}, addr : Addrs,
           email : Nat \cup {None}, dnm : BOOLEAN, targetable : BOOLEAN,
           source : STRING \cup {None}, owner : STRING, seed : BOOLEAN, text : BOOLEAN,
           next : Nat \cup {None}]

Table(lines) == {r \in lines : ~r.seed}

ASSUME IntakeAssumption ==
    /\ Keys \subseteq Nat /\ FbnKeys \subseteq Keys /\ SeedKeys \subseteq Nat
    /\ None \notin Keys /\ None \notin Phones /\ None \notin Points /\ None \notin Answers
    /\ None \notin Ids /\ None \notin Tables \cup {"operator", "verifier"}
    /\ Addrs \cap Corrected = {}

(* What may be outside: contacts.list_key was unique and the pieces, but    *)
(* for those to founders, which the merge leaves alone, named licences; an  *)
(* adapter prefixes its keys, so those of two tables never collide.         *)
ASSUME WorldsAssumption ==
    \A w \in Worlds :
        /\ DOMAIN w = {"legacy", "pieces", "waveActive", "files", "fixes", "channels",
                       "corrects", "founders", "erases", "loaders", "verifiers"}
        /\ IsFiniteSet(w.legacy) /\ w.legacy \subseteq Record
        /\ \A r, s \in w.legacy : r.key = s.key => r = s
        /\ \A r \in w.legacy : r.key \in IF r.seed THEN SeedKeys ELSE Keys
        /\ \A p \in DOMAIN w.pieces : \E r \in Table(w.legacy) : r.key = w.pieces[p]
        /\ w.files \subseteq ListFile
        /\ \A f \in w.files : TableOf(f.source) # None =>
              \A i \in DOMAIN f.lines : Prefix(f.lines[i].key) = f.source
        /\ w.fixes \subseteq [prefix : Tables, source : STRING] \cup {None}

VARIABLES
    world,     \* what the outside holds ready (not in the code)
    swapped,   \* contacts.list_key is gone
    legacy,    \* the contacts before that, one per licence record
    pieces,    \* the contact each piece of the early waves went to
    rows,      \* the two intake tables
    contacts,
    tombs,     \* suppression_tombstones
    moved,     \* contact_merge_map
    load,      \* per loader, the file being loaded and what was read for it
    job        \* per verifier, the table being swept and the rows still to do

vars == <<world, swapped, legacy, pieces, rows, contacts, tombs, moved, load, job>>
old  == <<swapped, legacy, pieces, moved>>

Idle    == [table |-> None, todo |-> {}]
NoLoad  == [file |-> None, known |-> {}, stones |-> {}]

Init ==
    /\ world \in Worlds
    /\ swapped = FALSE
    /\ legacy = world.legacy
    /\ pieces = world.pieces
    /\ rows = [r \in {} |-> None] /\ contacts = [c \in {} |-> None]
    /\ tombs = {} /\ moved = {}
    /\ load = [l \in Loaders |-> NoLoad]
    /\ job = [v \in Verifiers |-> Idle]

-----------------------------------------------------------------------------
(* resolution/pick.  addr is the tuple compared: line1, city, state, zip.   *)
PickWinner(group) ==
    LET Freq(l) == Cardinality({m \in group : m.addr = l.addr})
        tied    == {l \in group : \A m \in group : Freq(m) <= Freq(l)}
    IN  CHOOSE l \in tied : \A m \in tied : l.key <= m.key

Winner(group, source) == <<source, PickWinner(group).key>>

CoalesceEmail(group) ==
    LET with == {l \in group : l.email # None}
    IN  IF with = {} \/ PickWinner(group) \in with
        THEN PickWinner(group).email
        ELSE (CHOOSE l \in with : \A m \in with : l.key <= m.key).email

(* Rows without a phone are groups of their own, and so is every filing.    *)
Groups(lines, source) ==
    {{m \in lines : m = l \/ (source = "cslb" /\ l.phone # None /\ m.phone = l.phone)} : l \in lines}

Row(l, home, primary) ==
    [contact |-> home, primary |-> primary, addr |-> l.addr, dnm |-> l.dnm, answer |-> None]

Business(group, phone, channels) ==
    [phone |-> phone, seed |-> FALSE,
     off |-> channels \cup (IF \E l \in group : l.dnm THEN {"mail"} ELSE {}),
     addr |-> PickWinner(group).addr, email |-> CoalesceEmail(group),
     stamp |-> None, next |-> None]

-----------------------------------------------------------------------------
(* migrate_grain.  A dry run, and a run that halts, roll everything back    *)
(* and change nothing.                                                      *)

FixSource(lines, fix) ==
    {IF ~r.seed /\ fix # None /\ Prefix(r.key) = fix.prefix
        THEN [r EXCEPT !.source = fix.source] ELSE r : r \in lines}

Preflight(lines) ==
    /\ ~world.waveActive
    /\ \A r \in Table(lines) : TableOf(r.source) = Prefix(r.key)
    /\ \A r, s \in lines : r.owner = s.owner

(* The groups of one row stay as they are, an fbn row's phone included.     *)
Families(lines) ==
    UNION {Groups({r \in Table(lines) : r.source = t}, t) : t \in Tables}

Survivor(family) == Winner(family, PickWinner(family).source)

(* The earliest date stands, with every dated note; do_not_text is absorbed *)
(* like do_not_mail.                                                        *)
Merged(family) ==
    LET dated  == {r \in family : r.next # None}
        texted == IF \E r \in family : r.text THEN {"sms"} ELSE {}
    IN  [Business(family, PickWinner(family).phone, texted) EXCEPT
            !.next = IF dated = {} THEN None
                     ELSE [at |-> Min({r.next : r \in dated}), notes |-> {r.key : r \in dated}]]

SeedRow(addr) ==
    [phone |-> None, seed |-> TRUE, off |-> {}, addr |-> addr, email |-> None,
     stamp |-> None, next |-> None]

FamilyOf(lines, r) == CHOOSE f \in Families(lines) : \E l \in f : <<l.source, l.key>> = r

MigratedRows(lines) ==
    [r \in {<<l.source, l.key>> : l \in Table(lines)} |->
        LET f == FamilyOf(lines, r)
        IN  Row(CHOOSE l \in f : l.key = r[2], Survivor(f), Survivor(f) = r)]

MigratedContacts(lines) ==
    [c \in {Survivor(f) : f \in Families(lines)} \cup {<<"seed", s.key>> : s \in lines \ Table(lines)} |->
        IF c \in Seeds THEN SeedRow((CHOOSE s \in lines : s.seed /\ s.key = c[2]).addr)
        ELSE Merged(FamilyOf(lines, c))]

(* contacts_phone_unique: the swap fails where two businesses share a phone. *)
PhonesUnique(people) ==
    \A c, d \in DOMAIN people :
        c # d /\ ~people[c].seed /\ ~people[d].seed => people[c].phone = None \/ people[c].phone # people[d].phone

Migrate(fix) ==
    LET lines == FixSource(legacy, fix)
        home  == [k \in {r.key : r \in Table(lines)} |->
                    Survivor(CHOOSE f \in Families(lines) : \E l \in f : l.key = k)]
    IN  /\ ~swapped /\ legacy # {}
        /\ Preflight(lines)
        /\ PhonesUnique(MigratedContacts(lines))
        /\ swapped' = TRUE /\ legacy' = {}
        /\ rows' = MigratedRows(lines)
        /\ contacts' = MigratedContacts(lines)
        /\ pieces' = [p \in DOMAIN pieces |-> home[pieces[p]]]
        /\ moved' = {m \in [from : DOMAIN home, to : DOMAIN contacts'] :
                        m.to = home[m.from] /\ m.from # m.to[2]}
        /\ UNCHANGED <<world, tombs, load, job>>

EnsureSwapped ==
    /\ ~swapped /\ legacy = {}
    /\ swapped' = TRUE
    /\ UNCHANGED <<world, legacy, pieces, rows, contacts, tombs, moved, load, job>>

WaveFinishes ==
    /\ world.waveActive
    /\ world' = [world EXCEPT !.waveActive = FALSE]
    /\ UNCHANGED <<old, rows, contacts, tombs, load, job>>

-----------------------------------------------------------------------------
(* load_list.  One transaction: the keys and the tombstones are read first, *)
(* the contacts as the groups are resolved; a row that would break a unique *)
(* index takes the whole file down.                                         *)
Accepted(file, known) ==
    LET line == file.lines
        Untaken(i) == line[i].targetable /\ line[i].key \notin known
    IN  {line[i] : i \in {i \in DOMAIN line :
            Untaken(i) /\ \A j \in 1..(i - 1) : Untaken(j) => line[j].key # line[i].key}}

Names(t, l) == (t.phone # None /\ t.phone = l.phone) \/ (t.key # None /\ t.key = l.key)
Stones(lines) == {t \in tombs : \E l \in lines : Names(t, l)}

LoadRead(l) ==
    /\ swapped /\ load[l] = NoLoad /\ l \in world.loaders
    /\ \E f \in world.files :
        LET known == {r[2] : r \in {r \in DOMAIN rows : r[1] = f.source}}
        IN  /\ TableOf(f.source) # None
            /\ load' = [load EXCEPT ![l] =
                    [file |-> f, known |-> known, stones |-> Stones(Accepted(f, known))]]
    /\ UNCHANGED <<world, old, rows, contacts, tombs, job>>

(* The contact that has a group's phone.                                    *)
Found(group, source) ==
    {c \in DOMAIN contacts : \E m \in group :
        source = "cslb" /\ m.phone # None /\ contacts[c].phone = m.phone /\ ~contacts[c].seed}

Home(group, source) ==
    IF Found(group, source) # {} THEN CHOOSE c \in Found(group, source) : TRUE
    ELSE Winner(group, source)

(* Mutant of PrimaryRow: an attach picks again.                             *)
PrimaryRowRepicked(group, source) == Winner(group, source)

(* A found contact has its primary row already.                             *)
PrimaryRow(group, source) ==
    IF Found(group, source) # {} THEN None ELSE Winner(group, source)

(* Mutant of TombChannels: only the phone is looked up.                     *)
TombChannelsByPhone(group, stones) ==
    {t.channel : t \in {t \in stones : \E m \in group : t.phone # None /\ t.phone = m.phone}}

TombChannels(group, stones) ==
    {t.channel : t \in {t \in stones : \E m \in group : Names(t, m)}}

(* A created contact takes its group's tombstones; one that is found takes  *)
(* do_not_mail alone.                                                       *)
Created(group, source, stones) ==
    Business(group,
             IF source = "cslb" THEN (CHOOSE m \in group : TRUE).phone ELSE None,
             TombChannels(group, stones))

Attached(c, groups, source) ==
    IF \E g \in groups : c \in Found(g, source) /\ \E m \in g : m.dnm
    THEN [contacts[c] EXCEPT !.off = @ \cup {"mail"}] ELSE contacts[c]

LoadCommit(l) ==
    LET s == load[l].file.source
        lines == Accepted(load[l].file, load[l].known)
        groups == Groups(lines, s)
        new == {g \in groups : Found(g, s) = {}}
        GroupOf(k) == CHOOSE g \in groups : \E m \in g : m.key = k
    IN  /\ load[l] # NoLoad
        /\ \A m \in lines : <<s, m.key>> \notin DOMAIN rows
        /\ rows' = [r \in DOMAIN rows \cup {<<s, m.key>> : m \in lines} |->
                IF r \in DOMAIN rows THEN rows[r]
                ELSE LET g == GroupOf(r[2])
                     IN  Row(CHOOSE m \in g : m.key = r[2], Home(g, s), r = PrimaryRow(g, s))]
        /\ contacts' = [c \in DOMAIN contacts \cup {Home(g, s) : g \in new} |->
                IF c \in DOMAIN contacts THEN Attached(c, groups, s)
                ELSE Created(GroupOf(c[2]), s, load[l].stones)]
        /\ load' = [load EXCEPT ![l] = NoLoad]
        /\ UNCHANGED <<world, old, tombs, job>>

LoadAborts(l) ==
    /\ load[l] # NoLoad
    /\ load' = [load EXCEPT ![l] = NoLoad]
    /\ UNCHANGED <<world, old, rows, contacts, tombs, job>>

-----------------------------------------------------------------------------
(* suppress, its custody left to module Custody.                            *)
PrimaryKey(c) ==
    LET mine == {r \in DOMAIN rows : rows[r].contact = c /\ rows[r].primary}
    IN  IF mine = {} THEN None ELSE (CHOOSE r \in mine : TRUE)[2]

Suppress(c, channel) ==
    /\ c \in DOMAIN contacts /\ channel \in world.channels
    /\ contacts' = [contacts EXCEPT ![c].off = @ \cup Columns[channel]]
    /\ tombs' = tombs \cup [phone : {contacts[c].phone}, key : {PrimaryKey(c)},
                            channel : Columns[channel]]
    /\ UNCHANGED <<world, old, rows, load, job>>

UpdateAddress(c, a) ==
    /\ c \in DOMAIN contacts /\ world.corrects
    /\ contacts' = [contacts EXCEPT ![c].addr = a, ![c].stamp = "operator"]
    /\ UNCHANGED <<world, old, rows, tombs, load, job>>

(* The upsert leaves every other column of a seed it finds.                 *)
EnsureSeeds(s, a) ==
    /\ swapped /\ world.founders
    /\ contacts' = [c \in DOMAIN contacts \cup {s} |->
            IF c # s THEN contacts[c]
            ELSE IF s \in DOMAIN contacts THEN [contacts[s] EXCEPT !.seed = TRUE, !.addr = a]
            ELSE SeedRow(a)]
    /\ UNCHANGED <<world, old, rows, tombs, load, job>>

RetireSeed(s) ==
    /\ s \in DOMAIN contacts /\ world.founders
    /\ contacts' = [contacts EXCEPT ![s].seed = FALSE, ![s].off = @ \cup {"mail"}]
    /\ UNCHANGED <<world, old, rows, tombs, load, job>>

(* The hard delete tombstones were made for.  It is not in the code: it is  *)
(* taken to happen while nothing runs, and to take all that names the       *)
(* contact with it.                                                         *)
Erase(c) ==
    /\ c \in DOMAIN contacts /\ c \notin Seeds /\ world.erases
    /\ \A l \in Loaders : load[l] = NoLoad
    /\ \A v \in Verifiers : job[v] = Idle
    /\ contacts' = [d \in DOMAIN contacts \ {c} |-> contacts[d]]
    /\ rows' = [r \in {r \in DOMAIN rows : rows[r].contact # c} |-> rows[r]]
    /\ pieces' = [p \in {p \in DOMAIN pieces : pieces[p] # c} |-> pieces[p]]
    /\ moved' = {m \in moved : m.to # c}
    /\ UNCHANGED <<world, swapped, legacy, tombs, load, job>>

-----------------------------------------------------------------------------
(* verify_addresses.  Each table's unverified rows are listed once, when    *)
(* its turn comes; the order is that of random ids.  --limit passes rows    *)
(* over, which is what an error does.                                       *)
Unverified(t) == {r \in DOMAIN rows : r[1] = t /\ rows[r].answer = None}

VerifyList(v) ==
    LET next == IF job[v].table = None THEN "cslb" ELSE "fbn"
    IN  /\ swapped /\ v \in world.verifiers
        /\ job[v].todo = {} /\ job[v].table # "fbn"
        /\ job' = [job EXCEPT ![v] = [table |-> next, todo |-> Unverified(next)]]
        /\ UNCHANGED <<world, old, rows, contacts, tombs, load>>

Stamp(v, r, answer) ==
    /\ r \in job[v].todo
    /\ rows' = [rows EXCEPT ![r].answer = answer]
    /\ job' = [job EXCEPT ![v].todo = @ \ {r}]
    /\ UNCHANGED <<world, old, contacts, tombs, load>>

VerifyErrs(v, r) ==
    /\ r \in job[v].todo
    /\ job' = [job EXCEPT ![v].todo = @ \ {r}]
    /\ UNCHANGED <<world, old, rows, contacts, tombs, load>>

Usable(answer) ==
    answer # None /\ answer.deliverable /\ answer.point # None /\ answer.std # None

(* Mutant of Earned: without the null guard.                                *)
EarnedRegardless(c) ==
    {r \in DOMAIN rows : rows[r].contact = c /\ rows[r].primary /\ Usable(rows[r].answer)}

Earned(c) ==
    {r \in DOMAIN rows : /\ rows[r].contact = c /\ rows[r].primary
                         /\ Usable(rows[r].answer)
                         /\ contacts[c].stamp = None}

Inherit(v) ==
    /\ job[v].table = "fbn" /\ job[v].todo = {}
    /\ contacts' = [c \in DOMAIN contacts |->
            IF Earned(c) = {} THEN contacts[c]
            ELSE [contacts[c] EXCEPT !.addr = rows[CHOOSE r \in Earned(c) : TRUE].answer.std,
                                     !.stamp = "verifier"]]
    /\ job' = [job EXCEPT ![v] = Idle]
    /\ UNCHANGED <<world, old, rows, tombs, load>>

VerifyDies(v) ==
    /\ job[v] # Idle
    /\ job' = [job EXCEPT ![v] = Idle]
    /\ UNCHANGED <<world, old, rows, contacts, tombs, load>>

-----------------------------------------------------------------------------
Next ==
    \/ EnsureSwapped \/ WaveFinishes
    \/ \E fix \in world.fixes : Migrate(fix)
    \/ \E l \in Loaders : LoadRead(l) \/ LoadCommit(l) \/ LoadAborts(l)
    \/ \E c \in Ids : Erase(c) \/ \E ch \in DOMAIN Columns : Suppress(c, ch)
    \/ \E c \in Ids, a \in Corrected : UpdateAddress(c, a)
    \/ \E s \in Seeds : RetireSeed(s) \/ \E a \in Addrs : EnsureSeeds(s, a)
    \/ \E v \in Verifiers :
        \/ VerifyList(v) \/ Inherit(v) \/ VerifyDies(v)
        \/ \E r \in Ids : VerifyErrs(v, r) \/ \E a \in Answers : Stamp(v, r, a)

Spec == Init /\ [][Next]_vars

-----------------------------------------------------------------------------
(* resolve_audience.  chosen: the eligible contacts the rule's filters and  *)
(* its limit let through.                                                   *)
Primary(c) == {r \in DOMAIN rows : rows[r].contact = c /\ rows[r].primary /\ rows[r].answer # None}
Undeliverable(c) == \E r \in Primary(c) : ~rows[r].answer.deliverable
PointOf(c) == {rows[r].answer.point : r \in Primary(c)} \ {None}

Eligible == {c \in DOMAIN contacts : "mail" \notin contacts[c].off /\ ~contacts[c].seed}

ExcludeUndeliverable(chosen) == {c \in chosen : ~Undeliverable(c)}

Keeper(sharing) ==
    LET phoned == {c \in sharing : contacts[c].phone # None}
    IN  IF phoned # {} THEN CHOOSE c \in phoned : TRUE ELSE CHOOSE c \in sharing : TRUE

Dedupe(kept) ==
    {c \in kept : PointOf(c) = {} \/ c = Keeper({d \in kept : PointOf(d) = PointOf(c)})}

SeedContacts == {c \in DOMAIN contacts : contacts[c].seed}

(* Mutant of ResolveAudience: the two trims the other way round.            *)
ResolveAudienceDedupedFirst(chosen) == ExcludeUndeliverable(Dedupe(chosen)) \cup SeedContacts

ResolveAudience(chosen) == Dedupe(ExcludeUndeliverable(chosen)) \cup SeedContacts

-----------------------------------------------------------------------------
Contact == [phone : Phones \cup {None}, seed : BOOLEAN, off : SUBSET Channels,
            addr : Addrs \cup Corrected \cup {a.std : a \in Answers}, email : Nat \cup {None},
            stamp : {None, "operator", "verifier"},
            next : [at : Nat, notes : SUBSET Keys] \cup {None}]
IntakeRow == [contact : Tables \X Keys, primary : BOOLEAN, addr : Addrs, dnm : BOOLEAN,
              answer : Answers \cup {None}]
Tomb == [phone : Phones \cup {None}, key : Keys \cup {None}, channel : Channels]

TypeOK ==
    /\ \E w \in Worlds : world \in {w, [w EXCEPT !.waveActive = FALSE]}
    /\ swapped \in BOOLEAN /\ legacy \in {world.legacy, {}}
    /\ DOMAIN rows \subseteq Tables \X Keys /\ rows \in [DOMAIN rows -> IntakeRow]
    /\ DOMAIN contacts \subseteq Ids /\ contacts \in [DOMAIN contacts -> Contact]
    /\ tombs \subseteq Tomb
    /\ moved \subseteq [from : Keys, to : Tables \X Keys]
    /\ load \in [Loaders -> [file : ListFile \cup {None}, known : SUBSET Keys,
                             stones : SUBSET Tomb]]
    /\ job \in [Verifiers -> [table : Tables \cup {None}, todo : SUBSET (Tables \X Keys)]]

(* The business grain, whatever merges, loads and erasures came before:     *)
(* every row and piece names a live contact; a phone is one business; every *)
(* business has exactly one primary row, and until somebody stamps another  *)
(* its address is that row's.                                               *)
BusinessGrain ==
    /\ \A r \in DOMAIN rows : rows[r].contact \in DOMAIN contacts
    /\ swapped => \A p \in DOMAIN pieces : pieces[p] \in DOMAIN contacts
    /\ PhonesUnique(contacts)
    /\ \A c \in DOMAIN contacts \ Seeds :
        \E r \in DOMAIN rows :
            /\ rows[r].contact = c /\ rows[r].primary
            /\ contacts[c].stamp = None => contacts[c].addr = rows[r].addr
            /\ \A q \in DOMAIN rows : rows[q].contact = c /\ rows[q].primary => q = r

(* Suppression is absorbing and outlives deletion: a row that came with     *)
(* do_not_mail keeps its contact out of the mail, and a contact that has    *)
(* the phone or the primary row of a tombstone is off its channel, be it    *)
(* merged, attached to, or made again by a later load.                      *)
SuppressionSurvives ==
    /\ \A r \in DOMAIN rows : rows[r].dnm => "mail" \in contacts[rows[r].contact].off
    /\ \A t \in tombs : \A c \in DOMAIN contacts \ Seeds :
        \/ t.phone # None /\ t.phone = contacts[c].phone
        \/ t.key # None /\ t.key = PrimaryKey(c)
        => t.channel \in contacts[c].off

(* An address an operator wrote is changed by nobody but an operator: no    *)
(* verification that listed the row before, and no load, overwrites it.     *)
CorrectionKept ==
    [][\A c \in (DOMAIN contacts \cap DOMAIN contacts') \ Seeds :
        contacts[c].stamp = "operator" =>
            contacts'[c].stamp = "operator" /\ contacts'[c].addr \in Corrected]_vars

(* Whatever the rule chose, the trims cost no mail: a chosen contact that   *)
(* is not undeliverable is mailed, or another that is not undeliverable is  *)
(* mailed at its delivery point; and no point is mailed twice.              *)
MailIsNeverLost ==
    \A chosen \in SUBSET Eligible :
        LET mailed == ResolveAudience(chosen) \ SeedContacts IN
        /\ \A c \in chosen : ~Undeliverable(c) =>
            c \in mailed \/ \E d \in mailed : PointOf(d) = PointOf(c) /\ ~Undeliverable(d)
        /\ \A c, d \in mailed : c # d => PointOf(c) = {} \/ PointOf(c) # PointOf(d)
=============================================================================
