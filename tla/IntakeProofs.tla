---------------------------- MODULE IntakeProofs ----------------------------
(***************************************************************************)
(* Theorems about Intake, for any worlds: any books of licences and lists, *)
(* any keys, phones and addresses, any loaders and verifiers.              *)
(***************************************************************************)
EXTENDS Intake, FiniteSetTheorems, WellFoundedInduction, TLAPS

-----------------------------------------------------------------------------
(* The winner of a group exists.                                            *)
LEMMA LeastOf ==
    ASSUME NEW T, T \subseteq Nat, T # {}
    PROVE  \E t \in T : \A u \in T : t <= u
<1> DEFINE R == {p \in Nat \X Nat : p[1] < p[2]}
<1>1. IsWellFoundedOn(R, Nat)
  BY NatLessThanWellFounded DEF OpToRel
<1>2. PICK t \in T : \A u \in T : ~(<<u, t>> \in R)
  <2> HIDE DEF R
  <2> QED BY <1>1, WFMin
<1>3. ASSUME NEW u \in T
      PROVE  t <= u
  <2>1. t \in Nat /\ u \in Nat
    OBVIOUS
  <2>2. u < t => <<u, t>> \in R
    BY <2>1
  <2> QED BY <1>2, <2>1, <2>2
<1> QED BY <1>3

LEMMA MostOf ==
    ASSUME NEW T, T \subseteq Nat, T # {}, NEW n \in Nat, \A t \in T : t <= n
    PROVE  \E t \in T : \A u \in T : u <= t
<1> DEFINE Back == {n - t : t \in T}
<1>1. Back \subseteq Nat /\ Back # {}
  <2>1. ASSUME NEW t \in T
        PROVE  n - t \in Nat
    OBVIOUS
  <2> QED BY <2>1
<1>2. PICK b \in Back : \A c \in Back : b <= c
  <2> HIDE DEF Back
  <2> QED BY <1>1, LeastOf
<1>3. PICK t \in T : b = n - t
  OBVIOUS
<1>4. ASSUME NEW u \in T
      PROVE  u <= t
  <2>1. n - t <= n - u
    BY <1>2, <1>3
  <2>2. t \in Nat /\ u \in Nat
    OBVIOUS
  <2> QED BY <2>1, <2>2
<1> QED BY <1>4

LEMMA LeastKey ==
    ASSUME NEW group, group # {}, \A l \in group : l.key \in Nat
    PROVE  \E l \in group : \A m \in group : l.key <= m.key
<1> DEFINE T == {l.key : l \in group}
<1>1. T \subseteq Nat /\ T # {}
  OBVIOUS
<1>2. PICK t \in T : \A u \in T : t <= u
  <2> HIDE DEF T
  <2> QED BY <1>1, LeastOf
<1>3. PICK l \in group : t = l.key
  OBVIOUS
<1>4. \A m \in group : l.key <= m.key
  BY <1>2, <1>3
<1> QED BY <1>4

(* pick_winner returns a row of its group, coalesce_email an email of one.  *)
LEMMA PickedIsMember ==
    ASSUME NEW group, IsFiniteSet(group), group # {}, \A l \in group : l.key \in Nat
    PROVE  PickWinner(group) \in group
<1> DEFINE Freq(l) == Cardinality({m \in group : m.addr = l.addr})
           tied    == {l \in group : \A m \in group : Freq(m) <= Freq(l)}
           counts  == {Freq(l) : l \in group}
           n       == Cardinality(group)
<1>1. n \in Nat
  BY FS_CardinalityType
<1>2. ASSUME NEW l \in group
      PROVE  Freq(l) \in Nat /\ Freq(l) <= n
  <2>1. {m \in group : m.addr = l.addr} \in SUBSET group
    OBVIOUS
  <2>2. /\ IsFiniteSet({m \in group : m.addr = l.addr})
        /\ Cardinality({m \in group : m.addr = l.addr}) <= Cardinality(group)
    BY <2>1, FS_Subset
  <2> QED BY <2>2, FS_CardinalityType
<1> HIDE DEF n, Freq
<1>3. counts \subseteq Nat /\ counts # {} /\ \A t \in counts : t <= n
  BY <1>2
<1>4. PICK t \in counts : \A u \in counts : u <= t
  <2> HIDE DEF counts
  <2> QED BY <1>1, <1>3, MostOf
<1>5. PICK best \in group : t = Freq(best)
  OBVIOUS
<1>6. best \in tied
  BY <1>4, <1>5
<1>7. tied # {} /\ tied \subseteq group /\ \A l \in tied : l.key \in Nat
  BY <1>6
<1> HIDE DEF tied, counts
<1>8. \E l \in tied : \A m \in tied : l.key <= m.key
  BY <1>7, LeastKey
<1>9. PickWinner(group) = CHOOSE l \in tied : \A m \in tied : l.key <= m.key
  BY DEF PickWinner, tied, Freq
<1>10. PickWinner(group) \in tied
  BY <1>8, <1>9
<1> QED BY <1>7, <1>10

LEMMA CoalescedIsOne ==
    ASSUME NEW group, IsFiniteSet(group), group # {}, \A l \in group : l.key \in Nat
    PROVE  \E l \in group : CoalesceEmail(group) = l.email
<1> DEFINE with == {l \in group : l.email # None}
<1>1. PickWinner(group) \in group
  BY PickedIsMember
<1>2. CASE with = {} \/ PickWinner(group) \in with
  BY <1>1, <1>2 DEF CoalesceEmail
<1>3. CASE ~(with = {} \/ PickWinner(group) \in with)
  <2>1. CoalesceEmail(group) = (CHOOSE l \in with : \A m \in with : l.key <= m.key).email
    BY <1>3 DEF CoalesceEmail
  <2>2. with # {} /\ \A l \in with : l.key \in Nat
    BY <1>3
  <2> DEFINE first == CHOOSE l \in with : \A m \in with : l.key <= m.key
  <2>3. first \in with
    <3> HIDE DEF with
    <3> QED BY <2>2, LeastKey
  <2> QED BY <2>1, <2>3
<1> QED BY <1>2, <1>3

-----------------------------------------------------------------------------
(* Groups partition their lines, and a phone is in one group.               *)
Keyed(lines) ==
    /\ IsFiniteSet(lines) /\ \A l \in lines : l.key \in Keys
    /\ \A l, m \in lines : l.key = m.key => l = m

LEMMA GroupsCover ==
    ASSUME NEW lines, NEW source
    PROVE  /\ \A g \in Groups(lines, source) : g \subseteq lines /\ g # {}
           /\ \A l \in lines : \E g \in Groups(lines, source) : l \in g
           /\ \A g \in Groups(lines, source) : \A l, m \in g : l.phone = m.phone
<1> DEFINE Class(l) ==
             {m \in lines : m = l \/ (source = "cslb" /\ l.phone # None /\ m.phone = l.phone)}
<1>1. Groups(lines, source) = {Class(l) : l \in lines}
  BY DEF Groups
<1>2. ASSUME NEW l \in lines
      PROVE  /\ Class(l) \subseteq lines /\ l \in Class(l)
             /\ \A m \in Class(l) : m.phone = l.phone
  OBVIOUS
<1> HIDE DEF Class
<1>3. \A l \in lines : Class(l) \in Groups(lines, source)
  BY <1>1
<1> QED BY <1>1, <1>2, <1>3

LEMMA GroupsApart ==
    ASSUME NEW lines, NEW source, NEW g \in Groups(lines, source),
           NEW h \in Groups(lines, source)
    PROVE  /\ g \cap h # {} => g = h
           /\ source = "cslb" => \A l \in g, m \in h :
                 l.phone = m.phone /\ l.phone # None => g = h
<1>1. PICK a \in lines :
        g = {m \in lines : m = a \/ (source = "cslb" /\ a.phone # None /\ m.phone = a.phone)}
  BY DEF Groups
<1>2. PICK b \in lines :
        h = {m \in lines : m = b \/ (source = "cslb" /\ b.phone # None /\ m.phone = b.phone)}
  BY DEF Groups
<1>3. ASSUME source = "cslb", a.phone = b.phone, a.phone # None
      PROVE  g = h
  BY <1>1, <1>2, <1>3
<1>4. ASSUME NEW l \in g, l \in h
      PROVE  g = h
  BY <1>1, <1>2, <1>3, <1>4
<1>5. ASSUME source = "cslb", NEW l \in g, NEW m \in h, l.phone = m.phone, l.phone # None
      PROVE  g = h
  BY <1>1, <1>2, <1>3, <1>5
<1> QED BY <1>4, <1>5

LEMMA GroupIsPicked ==
    ASSUME NEW lines, NEW source, Keyed(lines), NEW g \in Groups(lines, source)
    PROVE  /\ IsFiniteSet(g) /\ PickWinner(g) \in g
           /\ \E l \in g : CoalesceEmail(g) = l.email
<1>1. g \in SUBSET lines /\ g # {}
  BY GroupsCover
<1>2. IsFiniteSet(g) /\ \A l \in g : l.key \in Nat
  BY <1>1, FS_Subset, IntakeAssumption DEF Keyed
<1> QED BY <1>1, <1>2, PickedIsMember, CoalescedIsOne

(* A key finds its group, and its line in the group.                        *)
LEMMA GroupOfKey ==
    ASSUME NEW lines, NEW source, Keyed(lines), NEW g \in Groups(lines, source), NEW l \in g
    PROVE  /\ (CHOOSE h \in Groups(lines, source) : \E m \in h : m.key = l.key) = g
           /\ (CHOOSE m \in g : m.key = l.key) = l
<1> DEFINE groups == Groups(lines, source)
<1>1. g \subseteq lines
  BY GroupsCover
<1>2. ASSUME NEW h \in groups, NEW m \in h, m.key = l.key
      PROVE  h = g
  <2>1. m \in lines
    BY GroupsCover
  <2>2. m = l
    BY <1>1, <1>2, <2>1 DEF Keyed
  <2> QED BY <2>2, GroupsApart
<1>3. (CHOOSE h \in groups : \E m \in h : m.key = l.key) = g
  <2> HIDE DEF groups
  <2>1. g \in groups
    BY DEF groups
  <2> QED BY <1>2, <2>1
<1>4. \A m \in g : m.key = l.key => m = l
  BY <1>1 DEF Keyed
<1>5. (CHOOSE m \in g : m.key = l.key) = l
  BY <1>4
<1> QED BY <1>3, <1>5

-----------------------------------------------------------------------------
(* What a load accepts is keyed, whatever its file repeats.                 *)
LEMMA AcceptedKeyed ==
    ASSUME NEW file \in ListFile, NEW known
    PROVE  /\ Keyed(Accepted(file, known)) /\ Accepted(file, known) \subseteq Line
           /\ \A l \in Accepted(file, known) : \E i \in DOMAIN file.lines : l = file.lines[i]
<1> DEFINE line == file.lines
           Untaken(i) == line[i].targetable /\ line[i].key \notin known
           I == {i \in DOMAIN line :
                    Untaken(i) /\ \A j \in 1..(i - 1) : Untaken(j) => line[j].key # line[i].key}
<1>1. Accepted(file, known) = {line[i] : i \in I}
  BY DEF Accepted
<1>2. line \in Seq(Line) /\ Len(line) \in Nat /\ DOMAIN line = 1..Len(line)
  BY DEF ListFile
<1>3. \A i \in DOMAIN line : line[i] \in Line
  BY <1>2
<1>4. IsFiniteSet({line[i] : i \in I})
  <2>1. IsFiniteSet(DOMAIN line)
    BY <1>2, FS_Interval
  <2>2. IsFiniteSet(I)
    BY <2>1, FS_Subset
  <2> DEFINE T == {line[i] : i \in I}
  <2>3. [i \in I |-> line[i]] \in Surjection(I, T)
    BY DEF Surjection
  <2> HIDE DEF I, line
  <2> QED BY <2>2, <2>3, FS_Surjection
<1>5. ASSUME NEW i \in I, NEW j \in I, line[i].key = line[j].key
      PROVE  i = j
  <2>1. i \in 1..Len(line) /\ j \in 1..Len(line) /\ Untaken(i) /\ Untaken(j)
    BY <1>2
  <2>2. ~(i < j)
    <3>1. i < j => i \in 1..(j - 1)
      BY <1>2, <2>1
    <3> QED BY <1>5, <2>1, <3>1
  <2>3. ~(j < i)
    <3>1. j < i => j \in 1..(i - 1)
      BY <1>2, <2>1
    <3> QED BY <1>5, <2>1, <3>1
  <2> QED BY <1>2, <2>1, <2>2, <2>3
<1>6. I \subseteq DOMAIN line
  OBVIOUS
<1> HIDE DEF I, line
<1>7. \A l \in {line[i] : i \in I} : l \in Line /\ l.key \in Keys
  BY <1>3, <1>6 DEF Line
<1>8. \A l, m \in {line[i] : i \in I} : l.key = m.key => l = m
  BY <1>5
<1>9. \A l \in Accepted(file, known) : \E i \in DOMAIN file.lines : l = file.lines[i]
  BY <1>1, <1>6 DEF line
<1> QED BY <1>1, <1>4, <1>7, <1>8, <1>9 DEF Keyed

(* A business carries the phone and address it was made with, and the mail  *)
(* off where a line of its group says so.                                   *)
LEMMA BusinessMade ==
    ASSUME NEW group, NEW phone \in Phones \cup {None}, NEW channels \in SUBSET Channels,
           PickWinner(group) \in group, \E l \in group : CoalesceEmail(group) = l.email,
           \A l \in group : l.addr \in Addrs /\ l.email \in Nat \cup {None}
    PROVE  /\ Business(group, phone, channels) \in Contact
           /\ Business(group, phone, channels).phone = phone
           /\ ~Business(group, phone, channels).seed
           /\ Business(group, phone, channels).stamp = None
           /\ Business(group, phone, channels).addr = PickWinner(group).addr
           /\ channels \subseteq Business(group, phone, channels).off
           /\ (\E l \in group : l.dnm) => "mail" \in Business(group, phone, channels).off
BY DEF Business, Contact, Channels

LEMMA SeedMade ==
    ASSUME NEW addr \in Addrs
    PROVE  /\ SeedRow(addr) \in Contact /\ SeedRow(addr).phone = None
           /\ SeedRow(addr).seed /\ SeedRow(addr).stamp = None
BY DEF SeedRow, Contact

-----------------------------------------------------------------------------
(* The books of before the merge, and what --fix-source leaves of them.     *)
Book(lines) ==
    /\ IsFiniteSet(lines) /\ lines \subseteq Record
    /\ \A r, s \in lines : r.key = s.key => r = s
    /\ \A r \in lines : r.key \in IF r.seed THEN SeedKeys ELSE Keys

LEMMA FixedIsBook ==
    ASSUME NEW lines, Book(lines), NEW fix \in [prefix : Tables, source : STRING] \cup {None}
    PROVE  /\ Book(FixSource(lines, fix))
           /\ \A l \in Table(lines) : \E m \in Table(FixSource(lines, fix)) : m.key = l.key
<1> DEFINE Fixed(r) == IF ~r.seed /\ fix # None /\ Prefix(r.key) = fix.prefix
                       THEN [r EXCEPT !.source = fix.source] ELSE r
<1>1. FixSource(lines, fix) = {Fixed(r) : r \in lines}
  BY DEF FixSource
<1>2. ASSUME NEW r \in lines
      PROVE  Fixed(r) \in Record /\ Fixed(r).key = r.key /\ Fixed(r).seed = r.seed
  <2>1. r \in Record
    BY DEF Book
  <2> QED BY <2>1 DEF Record
<1> DEFINE T == {Fixed(r) : r \in lines}
<1>3. IsFiniteSet(T)
  <2> HIDE DEF Fixed
  <2>1. [r \in lines |-> Fixed(r)] \in Surjection(lines, T)
    BY DEF Surjection
  <2> HIDE DEF T
  <2> QED BY <2>1, FS_Surjection DEF Book
<1> HIDE DEF Fixed
<1>4. T \subseteq Record
  BY <1>2
<1>5. \A r, s \in T : r.key = s.key => r = s
  BY <1>2 DEF Book
<1>6. \A r \in T : r.key \in IF r.seed THEN SeedKeys ELSE Keys
  BY <1>2 DEF Book
<1>7. \A l \in Table(lines) : Fixed(l) \in Table(T) /\ Fixed(l).key = l.key
  BY <1>2 DEF Table
<1> QED BY <1>1, <1>3, <1>4, <1>5, <1>6, <1>7 DEF Book

(* In a book that passes preflight every licence is in one family, whose    *)
(* members are of one source.                                               *)
Sourced(lines) == \A r \in Table(lines) : r.source = Prefix(r.key)

LEMMA PreflightSources ==
    ASSUME NEW lines, Preflight(lines)
    PROVE  Sourced(lines)
BY IntakeAssumption DEF Preflight, Sourced, TableOf, Prefix, Tables

Part(lines, t) == {r \in Table(lines) : r.source = t}

LEMMA FamiliesAre ==
    ASSUME NEW lines
    PROVE  \A f : f \in Families(lines) <=> \E t \in Tables : f \in Groups(Part(lines, t), t)
BY DEF Families, Part

LEMMA PartKeyed ==
    ASSUME NEW lines, Book(lines), NEW t
    PROVE  Keyed(Part(lines, t))
<1>1. Part(lines, t) \in SUBSET lines
  BY DEF Part, Table
<1>2. IsFiniteSet(Part(lines, t))
  BY <1>1, FS_Subset DEF Book
<1>3. \A r \in Part(lines, t) : r.key \in Keys
  BY DEF Part, Table, Book
<1>4. \A r, s \in Part(lines, t) : r.key = s.key => r = s
  BY <1>1 DEF Book
<1> QED BY <1>2, <1>3, <1>4 DEF Keyed

LEMMA FamiliesPartition ==
    ASSUME NEW lines, Book(lines), Sourced(lines)
    PROVE  /\ \A f \in Families(lines) :
                /\ f \subseteq Table(lines) /\ PickWinner(f) \in f
                /\ \E l \in f : CoalesceEmail(f) = l.email
                /\ \A l \in f : l.source = PickWinner(f).source
           /\ \A l \in Table(lines) : \E f \in Families(lines) : l \in f
           /\ \A f, h \in Families(lines) : f \cap h # {} => f = h
<1>1. ASSUME NEW f \in Families(lines)
      PROVE  /\ f \subseteq Table(lines) /\ PickWinner(f) \in f
             /\ \E l \in f : CoalesceEmail(f) = l.email
             /\ \A l \in f : l.source = PickWinner(f).source
  <2>1. PICK t \in Tables : f \in Groups(Part(lines, t), t)
    BY FamiliesAre
  <2>2. f \subseteq Part(lines, t)
    BY <2>1, GroupsCover
  <2>3. PickWinner(f) \in f /\ \E l \in f : CoalesceEmail(f) = l.email
    BY <2>1, PartKeyed, GroupIsPicked
  <2> QED BY <2>2, <2>3 DEF Part
<1>2. ASSUME NEW l \in Table(lines)
      PROVE  \E f \in Families(lines) : l \in f
  <2>1. l.source \in Tables /\ l \in Part(lines, l.source)
    BY DEF Sourced, Prefix, Tables, Part
  <2>2. PICK f \in Groups(Part(lines, l.source), l.source) : l \in f
    BY <2>1, GroupsCover
  <2> QED BY <2>1, <2>2, FamiliesAre
<1>3. ASSUME NEW f \in Families(lines), NEW h \in Families(lines), NEW l \in f, l \in h
      PROVE  f = h
  <2>1. PICK t \in Tables : f \in Groups(Part(lines, t), t)
    BY FamiliesAre
  <2>2. PICK u \in Tables : h \in Groups(Part(lines, u), u)
    BY FamiliesAre
  <2>3. l \in Part(lines, t) /\ l \in Part(lines, u)
    BY <1>3, <2>1, <2>2, GroupsCover
  <2>4. t = u
    BY <2>3 DEF Part
  <2> QED BY <1>3, <2>1, <2>2, <2>4, GroupsApart
<1> QED BY <1>1, <1>2, <1>3

(* A licence's name finds its family, and the licence in it.                *)
LEMMA FamilyOfName ==
    ASSUME NEW lines, Book(lines), Sourced(lines), NEW f \in Families(lines), NEW l \in f
    PROVE  /\ FamilyOf(lines, <<l.source, l.key>>) = f
           /\ (CHOOSE m \in f : m.key = l.key) = l
           /\ (CHOOSE h \in Families(lines) : \E m \in h : m.key = l.key) = f
<1>1. f \subseteq Table(lines) /\ Table(lines) \subseteq lines
  BY FamiliesPartition DEF Table
<1>2. ASSUME NEW h \in Families(lines), NEW m \in h, m.key = l.key
      PROVE  h = f /\ m = l
  <2>1. m \in Table(lines)
    BY FamiliesPartition
  <2>2. m = l
    BY <1>1, <1>2, <2>1 DEF Book
  <2> QED BY <2>2, FamiliesPartition
<1>3. (CHOOSE m \in f : m.key = l.key) = l
  BY <1>2
<1>4. (CHOOSE h \in Families(lines) : \E m \in h : m.key = l.key) = f
  BY <1>2
<1>5. ASSUME NEW h \in Families(lines), NEW m \in h, <<m.source, m.key>> = <<l.source, l.key>>
      PROVE  h = f
  BY <1>2, <1>5
<1>6. FamilyOf(lines, <<l.source, l.key>>) = f
  BY <1>5 DEF FamilyOf
<1> QED BY <1>3, <1>4, <1>6

LEMMA SurvivorIsOne ==
    ASSUME NEW lines, Book(lines), Sourced(lines), NEW f \in Families(lines)
    PROVE  /\ Survivor(f) = <<PickWinner(f).source, PickWinner(f).key>>
           /\ PickWinner(f) \in f /\ FamilyOf(lines, Survivor(f)) = f
           /\ Survivor(f) \in Tables \X Keys
           /\ PickWinner(f).source = Prefix(PickWinner(f).key)
<1>1. PickWinner(f) \in f /\ PickWinner(f) \in Table(lines)
  BY FamiliesPartition
<1>2. Survivor(f) = <<PickWinner(f).source, PickWinner(f).key>>
  BY DEF Survivor, Winner
<1>3. /\ PickWinner(f).source = Prefix(PickWinner(f).key)
      /\ PickWinner(f).key \in Keys
  BY <1>1 DEF Sourced, Book, Table
<1> QED BY <1>1, <1>2, <1>3, FamilyOfName DEF Prefix, Tables

-----------------------------------------------------------------------------
(* The invariant.  A business bears the name of its primary row.            *)
Businesses == DOMAIN contacts \ Seeds

BeforeTheSwap ==
    ~swapped => /\ DOMAIN rows = {} /\ DOMAIN contacts = {} /\ tombs = {}
                /\ legacy = world.legacy /\ pieces = world.pieces
                /\ \A l \in Loaders : load[l] = NoLoad

SeedsApart ==
    /\ \A c \in Businesses : ~contacts[c].seed
    /\ \A c \in DOMAIN contacts \cap Seeds : contacts[c].phone = None
    /\ \A c \in Businesses : contacts[c].stamp = "operator" => contacts[c].addr \in Corrected

Named ==
    /\ \A c \in Businesses :
          /\ c \in DOMAIN rows /\ rows[c].contact = c /\ rows[c].primary
          /\ contacts[c].stamp = None => contacts[c].addr = rows[c].addr
    /\ \A r \in DOMAIN rows :
          /\ rows[r].contact \in Businesses /\ r[1] = Prefix(r[2])
          /\ rows[r].primary => rows[r].contact = r
    /\ swapped => \A p \in DOMAIN pieces : pieces[p] \in Businesses

PhonesApart ==
    \A c, d \in Businesses :
        c # d => contacts[c].phone = None \/ contacts[c].phone # contacts[d].phone

Absorbed ==
    /\ \A r \in DOMAIN rows : rows[r].dnm => "mail" \in contacts[rows[r].contact].off
    /\ \A t \in tombs, c \in Businesses :
        (t.phone # None /\ t.phone = contacts[c].phone) \/ (t.key # None /\ t.key = c[2])
            => t.channel \in contacts[c].off

(* A tombstone a load has not read is of a contact that is still there.     *)
Living(t) ==
    /\ t.phone # None => \E c \in Businesses : contacts[c].phone = t.phone
    /\ t.key # None => <<Prefix(t.key), t.key>> \in DOMAIN rows

LoadSound(ld) ==
    /\ ld.file \in world.files /\ TableOf(ld.file.source) # None
    /\ \A t \in tombs \ ld.stones :
          (\E m \in Accepted(ld.file, ld.known) : Names(t, m)) => Living(t)

LoadsSound == \A l \in Loaders : load[l] # NoLoad => swapped /\ LoadSound(load[l])

IInv == /\ TypeOK /\ BeforeTheSwap /\ SeedsApart /\ Named /\ PhonesApart
        /\ Absorbed /\ LoadsSound

LEMMA WorldIs ==
    ASSUME TypeOK
    PROVE  /\ Book(world.legacy)
           /\ \A p \in DOMAIN world.pieces : \E r \in Table(world.legacy) : r.key = world.pieces[p]
           /\ world.files \subseteq ListFile
           /\ \A f \in world.files : TableOf(f.source) # None =>
                 \A i \in DOMAIN f.lines : Prefix(f.lines[i].key) = f.source
           /\ world.fixes \subseteq [prefix : Tables, source : STRING] \cup {None}
<1>1. PICK w \in Worlds : world \in {w, [w EXCEPT !.waveActive = FALSE]}
  BY DEF TypeOK
<1>2. DOMAIN w = {"legacy", "pieces", "waveActive", "files", "fixes", "channels", "corrects",
                  "founders", "erases", "loaders", "verifiers"}
  BY WorldsAssumption
<1>3. /\ world.legacy = w.legacy /\ world.pieces = w.pieces /\ world.files = w.files
      /\ world.fixes = w.fixes
  BY <1>1, <1>2
<1> QED BY <1>3, WorldsAssumption DEF Book

LEMMA SeedsAreNoRows == Seeds \cap (Tables \X Keys) = {} /\ \A s \in Seeds : s[1] = "seed"
BY DEF Seeds, Tables

LEMMA InitInv == Init => IInv
<1> SUFFICES ASSUME Init PROVE IInv
  OBVIOUS
<1>1. DOMAIN rows = {} /\ DOMAIN contacts = {}
  BY DEF Init
<1>2. \A l \in Loaders : load[l] = NoLoad
  BY DEF Init
<1>3. TypeOK
  <2>1. rows \in [DOMAIN rows -> IntakeRow] /\ contacts \in [DOMAIN contacts -> Contact]
    BY DEF Init
  <2>2. load \in [Loaders -> [file : ListFile \cup {None}, known : SUBSET Keys,
                              stones : SUBSET Tomb]]
    BY DEF Init, NoLoad
  <2>3. job \in [Verifiers -> [table : Tables \cup {None}, todo : SUBSET (Tables \X Keys)]]
    BY DEF Init, Idle
  <2> QED BY <1>1, <2>1, <2>2, <2>3 DEF Init, TypeOK
<1> QED BY <1>1, <1>2, <1>3 DEF IInv, BeforeTheSwap, SeedsApart, Named, PhonesApart, Absorbed,
           LoadsSound, Businesses, Init

-----------------------------------------------------------------------------
(* The merge.                                                               *)
LEMMA MergedMade ==
    ASSUME NEW lines, Book(lines), Sourced(lines), NEW f \in Families(lines)
    PROVE  /\ Merged(f) \in Contact /\ ~Merged(f).seed /\ Merged(f).stamp = None
           /\ Merged(f).addr = PickWinner(f).addr
           /\ (\E l \in f : l.dnm) => "mail" \in Merged(f).off
<1> DEFINE dated  == {r \in f : r.next # None}
           texted == IF \E r \in f : r.text THEN {"sms"} ELSE {}
           bare   == Business(f, PickWinner(f).phone, texted)
           due    == IF dated = {} THEN None
                     ELSE [at |-> Min({r.next : r \in dated}), notes |-> {r.key : r \in dated}]
<1>1. /\ f \subseteq Table(lines) /\ PickWinner(f) \in f
      /\ \E l \in f : CoalesceEmail(f) = l.email
  BY FamiliesPartition
<1>2. \A l \in f : l \in Record /\ l.key \in Keys
  BY <1>1 DEF Table, Book
<1>3. PickWinner(f).phone \in Phones \cup {None} /\ texted \in SUBSET Channels
  BY <1>1, <1>2 DEF Record, Channels
<1>4. \A l \in f : l.addr \in Addrs /\ l.email \in Nat \cup {None}
  BY <1>2 DEF Record
<1>5. /\ bare \in Contact /\ ~bare.seed /\ bare.stamp = None
      /\ bare.addr = PickWinner(f).addr
      /\ (\E l \in f : l.dnm) => "mail" \in bare.off
  <2> HIDE DEF texted
  <2> QED BY <1>1, <1>3, <1>4, BusinessMade
<1>6. due \in [at : Nat, notes : SUBSET Keys] \cup {None}
  <2>1. CASE dated # {}
    <3>1. {r.next : r \in dated} \subseteq Nat /\ {r.next : r \in dated} # {}
      BY <1>2, <2>1 DEF Record
    <3>2. Min({r.next : r \in dated}) \in Nat
      <4> DEFINE T == {r.next : r \in dated}
      <4>1. Min(T) \in T
        <5> HIDE DEF T
        <5>1. T \subseteq Nat /\ T # {}
          BY <3>1 DEF T
        <5> QED BY <5>1, LeastOf DEF Min
      <4> QED BY <3>1, <4>1
    <3>3. {r.key : r \in dated} \in SUBSET Keys
      BY <1>2
    <3> QED BY <2>1, <3>2, <3>3
  <2> QED BY <2>1
<1>7. Merged(f) = [bare EXCEPT !.next = due]
  BY DEF Merged
<1> HIDE DEF bare, due
<1> QED BY <1>5, <1>6, <1>7 DEF Contact

(* What stands after it.                                                    *)
LEMMA MigrateMakes ==
    ASSUME IInv, NEW fix \in world.fixes, Migrate(fix)
    PROVE  \E lines :
             /\ lines = FixSource(legacy, fix) /\ Book(lines) /\ Sourced(lines)
             /\ DOMAIN rows' = {<<l.source, l.key>> : l \in Table(lines)}
             /\ rows' = [r \in DOMAIN rows' |-> rows'[r]]
             /\ contacts' = [c \in DOMAIN contacts' |-> contacts'[c]]
             /\ \A f \in Families(lines) : \A l \in f :
                  rows'[<<l.source, l.key>>] =
                      Row(l, Survivor(f), Survivor(f) = <<l.source, l.key>>)
             /\ DOMAIN contacts' \ Seeds = {Survivor(f) : f \in Families(lines)}
             /\ \A f \in Families(lines) : contacts'[Survivor(f)] = Merged(f)
             /\ \A c \in DOMAIN contacts' \cap Seeds :
                  \E a \in Addrs : contacts'[c] = SeedRow(a)
             /\ \A p \in DOMAIN pieces' : pieces'[p] \in DOMAIN contacts' \ Seeds
             /\ moved' \subseteq [from : Keys, to : Tables \X Keys]
             /\ \A c, d \in DOMAIN contacts' :
                  c # d /\ ~contacts'[c].seed /\ ~contacts'[d].seed
                    => contacts'[c].phone = None \/ contacts'[c].phone # contacts'[d].phone
<1>1. PICK lines : lines = FixSource(legacy, fix)
  OBVIOUS
<1>2. ~swapped /\ legacy = world.legacy /\ pieces = world.pieces /\ TypeOK
  BY DEF IInv, BeforeTheSwap, Migrate
<1>3. Book(lines) /\ \A l \in Table(legacy) : \E m \in Table(lines) : m.key = l.key
  BY <1>1, <1>2, WorldIs, FixedIsBook
<1>4. Sourced(lines)
  BY <1>1, PreflightSources DEF Migrate
<1>5. rows' = MigratedRows(lines) /\ contacts' = MigratedContacts(lines)
  BY <1>1 DEF Migrate
<1>6. DOMAIN rows' = {<<l.source, l.key>> : l \in Table(lines)}
  BY <1>5 DEF MigratedRows
<1>6a. rows' = [r \in DOMAIN rows' |-> rows'[r]]
  BY <1>5 DEF MigratedRows
<1>6b. contacts' = [c \in DOMAIN contacts' |-> contacts'[c]]
  BY <1>5 DEF MigratedContacts
<1>7. ASSUME NEW f \in Families(lines), NEW l \in f
      PROVE  rows'[<<l.source, l.key>>] =
                 Row(l, Survivor(f), Survivor(f) = <<l.source, l.key>>)
  <2>1. l \in Table(lines)
    BY <1>3, <1>4, FamiliesPartition
  <2>2. FamilyOf(lines, <<l.source, l.key>>) = f /\ (CHOOSE m \in f : m.key = l.key) = l
    BY <1>3, <1>4, FamilyOfName
  <2>3. PICK r : r = <<l.source, l.key>>
    OBVIOUS
  <2>4. rows'[r] = LET g == FamilyOf(lines, r)
                   IN  Row(CHOOSE m \in g : m.key = r[2], Survivor(g), Survivor(g) = r)
    BY <1>5, <2>1, <2>3 DEF MigratedRows
  <2> QED BY <2>2, <2>3, <2>4
<1> DEFINE founders == {<<"seed", s.key>> : s \in lines \ Table(lines)}
           survivors == {Survivor(f) : f \in Families(lines)}
<1>8. founders \subseteq Seeds
  BY <1>3 DEF Book, Table, Seeds
<1>9. survivors \cap Seeds = {}
  BY <1>3, <1>4, SurvivorIsOne, SeedsAreNoRows
<1>10. /\ DOMAIN contacts' = survivors \cup founders
       /\ \A c \in survivors \cup founders : contacts'[c] =
            IF c \in Seeds THEN SeedRow((CHOOSE s \in lines : s.seed /\ s.key = c[2]).addr)
            ELSE Merged(FamilyOf(lines, c))
  BY <1>5 DEF MigratedContacts
<1>11. DOMAIN contacts' \ Seeds = survivors
  BY <1>8, <1>9, <1>10
<1>12. ASSUME NEW f \in Families(lines)
       PROVE  contacts'[Survivor(f)] = Merged(f)
  <2>1. FamilyOf(lines, Survivor(f)) = f
    BY <1>3, <1>4, SurvivorIsOne
  <2>2. Survivor(f) \in survivors
    OBVIOUS
  <2> QED BY <1>9, <1>10, <2>1, <2>2
<1>13. ASSUME NEW c \in DOMAIN contacts' \cap Seeds
       PROVE  \E a \in Addrs : contacts'[c] = SeedRow(a)
  <2>1. PICK s \in lines \ Table(lines) : c = <<"seed", s.key>>
    BY <1>9, <1>10
  <2>2. s.seed /\ s.key = c[2]
    BY <1>3, <2>1 DEF Table, Book, Record
  <2>3. (CHOOSE x \in lines : x.seed /\ x.key = c[2]) \in lines
    BY <2>1, <2>2
  <2>4. (CHOOSE x \in lines : x.seed /\ x.key = c[2]).addr \in Addrs
    BY <1>3, <2>3 DEF Book, Record
  <2> QED BY <1>10, <2>4
<1> DEFINE home == [k \in {r.key : r \in Table(lines)} |->
                       Survivor(CHOOSE f \in Families(lines) : \E l \in f : l.key = k)]
<1>14. ASSUME NEW r \in Table(lines)
       PROVE  home[r.key] \in survivors
  <2>1. PICK f \in Families(lines) : r \in f
    BY <1>3, <1>4, FamiliesPartition
  <2>2. (CHOOSE h \in Families(lines) : \E l \in h : l.key = r.key) = f
    BY <1>3, <1>4, <2>1, FamilyOfName
  <2> QED BY <2>2
<1>15. /\ pieces' = [p \in DOMAIN pieces |-> home[pieces[p]]]
       /\ moved' \subseteq [from : DOMAIN home, to : DOMAIN contacts']
       /\ \A m \in moved' : m.to = home[m.from]
  BY <1>1 DEF Migrate
<1>16. DOMAIN home = {r.key : r \in Table(lines)}
  OBVIOUS
<1> HIDE DEF home
<1>17. \A p \in DOMAIN pieces' : pieces'[p] \in survivors
  <2>1. ASSUME NEW p \in DOMAIN pieces
        PROVE  \E r \in Table(lines) : r.key = pieces[p]
    BY <1>2, <1>3, <2>1, WorldIs
  <2> QED BY <1>14, <1>15, <2>1
<1>18. moved' \subseteq [from : Keys, to : Tables \X Keys]
  <2>1. survivors \subseteq Tables \X Keys
    BY <1>3, <1>4, SurvivorIsOne
  <2>2. \A r \in Table(lines) : r.key \in Keys
    BY <1>3 DEF Book, Table
  <2> HIDE DEF survivors
  <2>3. ASSUME NEW m \in moved'
        PROVE  m \in [from : Keys, to : Tables \X Keys]
    <3>1. m \in [from : DOMAIN home, to : DOMAIN contacts'] /\ m.to = home[m.from]
      BY <1>15
    <3>2. m.from \in Keys /\ home[m.from] \in survivors
      BY <1>14, <1>16, <2>2, <3>1
    <3> QED BY <2>1, <3>1, <3>2
  <2> QED BY <2>3
<1>19. PhonesUnique(contacts')
  BY <1>1, <1>5 DEF Migrate
<1> QED BY <1>1, <1>3, <1>4, <1>6, <1>6a, <1>6b, <1>7, <1>11, <1>12, <1>13, <1>17, <1>18, <1>19
        DEF PhonesUnique

LEMMA RowMade ==
    ASSUME NEW l, l.addr \in Addrs, l.dnm \in BOOLEAN, NEW home \in Tables \X Keys,
           NEW primary \in BOOLEAN
    PROVE  /\ Row(l, home, primary) \in IntakeRow
           /\ Row(l, home, primary).contact = home
           /\ Row(l, home, primary).primary = primary
           /\ Row(l, home, primary).addr = l.addr
           /\ Row(l, home, primary).dnm = l.dnm
BY DEF Row, IntakeRow

LEMMA MigrateKeeps ==
    ASSUME IInv, NEW fix \in world.fixes, Migrate(fix)
    PROVE  IInv'
<1>1. PICK lines :
        /\ lines = FixSource(legacy, fix) /\ Book(lines) /\ Sourced(lines)
        /\ DOMAIN rows' = {<<l.source, l.key>> : l \in Table(lines)}
        /\ rows' = [r \in DOMAIN rows' |-> rows'[r]]
        /\ contacts' = [c \in DOMAIN contacts' |-> contacts'[c]]
        /\ \A f \in Families(lines) : \A l \in f :
             rows'[<<l.source, l.key>>] = Row(l, Survivor(f), Survivor(f) = <<l.source, l.key>>)
        /\ DOMAIN contacts' \ Seeds = {Survivor(f) : f \in Families(lines)}
        /\ \A f \in Families(lines) : contacts'[Survivor(f)] = Merged(f)
        /\ \A c \in DOMAIN contacts' \cap Seeds : \E a \in Addrs : contacts'[c] = SeedRow(a)
        /\ \A p \in DOMAIN pieces' : pieces'[p] \in DOMAIN contacts' \ Seeds
        /\ moved' \subseteq [from : Keys, to : Tables \X Keys]
        /\ \A c, d \in DOMAIN contacts' :
             c # d /\ ~contacts'[c].seed /\ ~contacts'[d].seed
               => contacts'[c].phone = None \/ contacts'[c].phone # contacts'[d].phone
  BY MigrateMakes
<1>2. /\ ~swapped /\ TypeOK /\ tombs = {} /\ \A l \in Loaders : load[l] = NoLoad
      /\ swapped' = TRUE /\ legacy' = {} /\ UNCHANGED <<world, tombs, load, job>>
  BY DEF IInv, BeforeTheSwap, Migrate
<1>3. ASSUME NEW f \in Families(lines)
      PROVE  /\ Merged(f) \in Contact /\ ~Merged(f).seed /\ Merged(f).stamp = None
             /\ Merged(f).addr = PickWinner(f).addr
             /\ (\E l \in f : l.dnm) => "mail" \in Merged(f).off
             /\ Survivor(f) = <<PickWinner(f).source, PickWinner(f).key>>
             /\ PickWinner(f) \in f /\ Survivor(f) \in Tables \X Keys
  BY <1>1, MergedMade, SurvivorIsOne
<1>4. ASSUME NEW f \in Families(lines), NEW l \in f
      PROVE  /\ l \in Table(lines) /\ l.addr \in Addrs /\ l.dnm \in BOOLEAN
             /\ l.source = Prefix(l.key) /\ l.key \in Keys /\ l.source \in Tables
  <2>1. l \in Table(lines)
    BY <1>1, FamiliesPartition
  <2> QED BY <1>1, <2>1 DEF Book, Table, Record, Sourced, Prefix, Tables
<1>5. ASSUME NEW f \in Families(lines), NEW l \in f, NEW r, r = <<l.source, l.key>>
      PROVE  /\ rows'[r] \in IntakeRow /\ rows'[r].contact = Survivor(f)
             /\ (rows'[r].primary <=> Survivor(f) = r)
             /\ rows'[r].addr = l.addr /\ rows'[r].dnm = l.dnm
  <2>1. rows'[r] = Row(l, Survivor(f), Survivor(f) = r)
    BY <1>1, <1>5
  <2>2. Survivor(f) \in Tables \X Keys /\ l.addr \in Addrs /\ l.dnm \in BOOLEAN
    BY <1>3, <1>4
  <2>3. CASE Survivor(f) = r
    <3>1. rows'[r] = Row(l, Survivor(f), TRUE)
      BY <2>1, <2>3
    <3> QED BY <2>2, <2>3, <3>1 DEF Row, IntakeRow
  <2>4. CASE Survivor(f) # r
    <3>1. rows'[r] = Row(l, Survivor(f), FALSE)
      BY <2>1, <2>4
    <3> QED BY <2>2, <2>4, <3>1 DEF Row, IntakeRow
  <2> QED BY <2>3, <2>4
<1>6. ASSUME NEW r \in DOMAIN rows'
      PROVE  \E f \in Families(lines) : \E l \in f : r = <<l.source, l.key>>
  <2>1. PICK l \in Table(lines) : r = <<l.source, l.key>>
    BY <1>1
  <2>2. PICK f \in Families(lines) : l \in f
    BY <1>1, FamiliesPartition
  <2> QED BY <2>1, <2>2
<1>7. Businesses' = {Survivor(f) : f \in Families(lines)}
  BY <1>1 DEF Businesses
<1>8. ASSUME NEW r \in DOMAIN rows'
      PROVE  /\ r \in Tables \X Keys /\ rows'[r] \in IntakeRow
             /\ rows'[r].contact \in Businesses' /\ r[1] = Prefix(r[2])
             /\ rows'[r].primary => rows'[r].contact = r
             /\ rows'[r].dnm => "mail" \in contacts'[rows'[r].contact].off
  <2>1. PICK f \in Families(lines) : \E l \in f : r = <<l.source, l.key>>
    BY <1>6
  <2>2. PICK l \in f : r = <<l.source, l.key>>
    BY <2>1
  <2>3. contacts'[Survivor(f)] = Merged(f)
    BY <1>1
  <2>4. r \in Tables \X Keys /\ r[1] = Prefix(r[2])
    BY <1>4, <2>2
  <2>5. /\ rows'[r] \in IntakeRow /\ rows'[r].contact = Survivor(f)
        /\ (rows'[r].primary <=> Survivor(f) = r) /\ rows'[r].dnm = l.dnm
    BY <1>5, <2>2
  <2>6. l.dnm => "mail" \in Merged(f).off
    BY <1>3
  <2> QED BY <1>7, <2>3, <2>4, <2>5, <2>6
<1>9. ASSUME NEW c \in Businesses'
      PROVE  /\ c \in DOMAIN rows' /\ rows'[c].contact = c /\ rows'[c].primary
             /\ contacts'[c].addr = rows'[c].addr /\ contacts'[c].stamp = None
             /\ contacts'[c] \in Contact /\ ~contacts'[c].seed /\ c \in Tables \X Keys
  <2>1. PICK f \in Families(lines) : c = Survivor(f)
    BY <1>7
  <2>2. PickWinner(f) \in f /\ c = <<PickWinner(f).source, PickWinner(f).key>>
    BY <1>3, <2>1
  <2>3. c \in DOMAIN rows'
    BY <1>1, <1>4, <2>2
  <2>4. /\ rows'[c].contact = c /\ rows'[c].primary /\ rows'[c].addr = PickWinner(f).addr
    BY <1>5, <2>1, <2>2
  <2>5. contacts'[c] = Merged(f)
    BY <1>1, <2>1
  <2> QED BY <1>3, <2>1, <2>3, <2>4, <2>5
<1>10. ASSUME NEW c \in DOMAIN contacts' \cap Seeds
       PROVE  contacts'[c] \in Contact /\ contacts'[c].phone = None
  BY <1>1, SeedMade
<1>11. TypeOK'
  <2>1. DOMAIN rows' \subseteq Tables \X Keys /\ rows' \in [DOMAIN rows' -> IntakeRow]
    BY <1>1, <1>8
  <2>2. \A c \in DOMAIN contacts' : c \in Ids /\ contacts'[c] \in Contact
    BY <1>9, <1>10 DEF Ids, Businesses
  <2>3. contacts' \in [DOMAIN contacts' -> Contact]
    BY <1>1, <2>2
  <2>4. /\ \E w \in Worlds : world' \in {w, [w EXCEPT !.waveActive = FALSE]}
        /\ tombs' \subseteq Tomb
        /\ load' \in [Loaders -> [file : ListFile \cup {None}, known : SUBSET Keys,
                                  stones : SUBSET Tomb]]
        /\ job' \in [Verifiers -> [table : Tables \cup {None}, todo : SUBSET (Tables \X Keys)]]
    BY <1>2 DEF TypeOK
  <2> QED BY <1>1, <1>2, <2>1, <2>2, <2>3, <2>4 DEF TypeOK
<1>12. BeforeTheSwap' /\ LoadsSound'
  BY <1>2 DEF BeforeTheSwap, LoadsSound
<1>13. SeedsApart'
  <2>1. None # "operator"
    BY IntakeAssumption
  <2> QED BY <1>9, <1>10, <2>1 DEF SeedsApart, Businesses
<1>14. Named'
  BY <1>1, <1>8, <1>9 DEF Named, Businesses
<1>15. PhonesApart'
  BY <1>1, <1>9 DEF PhonesApart, Businesses
<1>16. Absorbed'
  BY <1>2, <1>8 DEF Absorbed
<1> QED BY <1>11, <1>12, <1>13, <1>14, <1>15, <1>16 DEF IInv

-----------------------------------------------------------------------------
(* What stays of the loads under way: a tombstone's contact stays living    *)
(* while businesses and rows only come.                                     *)
Grows ==
    /\ Businesses \subseteq Businesses' /\ DOMAIN rows \subseteq DOMAIN rows'
    /\ \A c \in Businesses : contacts'[c].phone = contacts[c].phone

LEMMA LivingStays ==
    ASSUME NEW t, Living(t), Grows
    PROVE  Living(t)'
BY DEF Living, Grows

LEMMA LoadsStaySound ==
    ASSUME LoadsSound, Grows, world'.files = world.files, swapped => swapped',
           \A t \in tombs' \ tombs : Living(t)',
           \A l \in Loaders : load'[l] \in {load[l], NoLoad}
    PROVE  LoadsSound'
<1> SUFFICES ASSUME NEW l \in Loaders, load'[l] # NoLoad
             PROVE  swapped' /\ LoadSound(load[l])'
  BY DEF LoadsSound
<1>1. load'[l] = load[l] /\ swapped /\ LoadSound(load[l])
  BY DEF LoadsSound
<1>2. ASSUME NEW t \in tombs' \ load[l].stones,
             \E m \in Accepted(load[l].file, load[l].known) : Names(t, m)
      PROVE  Living(t)'
  <2>1. CASE t \in tombs
    <3>1. Living(t)
      BY <1>1, <1>2, <2>1 DEF LoadSound
    <3> QED BY <3>1, LivingStays
  <2> QED BY <2>1
<1> QED BY <1>1, <1>2 DEF LoadSound

-----------------------------------------------------------------------------
(* A load's commit.                                                         *)
SourceOf(l) == load[l].file.source
LinesOf(l)  == Accepted(load[l].file, load[l].known)
GroupsOf(l) == Groups(LinesOf(l), SourceOf(l))

LEMMA LoadReads ==
    ASSUME IInv, NEW l \in Loaders, load[l] # NoLoad
    PROVE  /\ SourceOf(l) \in Tables /\ Keyed(LinesOf(l)) /\ LinesOf(l) \subseteq Line
           /\ \A m \in LinesOf(l) : Prefix(m.key) = SourceOf(l)
           /\ load[l].stones \subseteq Tomb /\ swapped
<1>1. /\ load[l].file \in world.files /\ TableOf(load[l].file.source) # None /\ swapped
  BY DEF IInv, LoadsSound, LoadSound
<1>2. /\ world.files \subseteq ListFile
      /\ \A i \in DOMAIN load[l].file.lines :
            Prefix(load[l].file.lines[i].key) = load[l].file.source
  BY <1>1, WorldIs DEF IInv
<1>3. load[l].stones \subseteq Tomb
  BY DEF IInv, TypeOK
<1> QED BY <1>1, <1>2, <1>3, AcceptedKeyed DEF SourceOf, LinesOf, TableOf

LEMMA FoundIsBusiness ==
    ASSUME IInv, NEW g, NEW s, NEW c \in Found(g, s)
    PROVE  /\ c \in Businesses /\ s = "cslb" /\ ~contacts[c].seed
           /\ \E m \in g : m.phone # None /\ contacts[c].phone = m.phone
BY DEF Found, IInv, SeedsApart, Businesses

LEMMA FoundByPhone ==
    ASSUME IInv, NEW g, NEW m \in g, m.phone # None, NEW c \in Businesses,
           contacts[c].phone = m.phone
    PROVE  c \in Found(g, "cslb")
BY DEF Found, IInv, SeedsApart, Businesses

LEMMA LoadCommitted ==
    ASSUME IInv, NEW l \in Loaders, LoadCommit(l)
    PROVE  \E s, groups :
             /\ s = SourceOf(l) /\ groups = GroupsOf(l) /\ load[l] # NoLoad
             /\ rows' = [r \in DOMAIN rows' |-> rows'[r]]
             /\ contacts' = [c \in DOMAIN contacts' |-> contacts'[c]]
             /\ DOMAIN rows' = DOMAIN rows \cup {<<s, m.key>> : m \in LinesOf(l)}
             /\ \A m \in LinesOf(l) : <<s, m.key>> \notin DOMAIN rows
             /\ \A r \in DOMAIN rows : rows'[r] = rows[r]
             /\ \A g \in groups : \A m \in g :
                  rows'[<<s, m.key>>] = Row(m, Home(g, s), <<s, m.key>> = PrimaryRow(g, s))
             /\ DOMAIN contacts' =
                  DOMAIN contacts \cup {Winner(g, s) : g \in {g \in groups : Found(g, s) = {}}}
             /\ \A c \in DOMAIN contacts : contacts'[c] = Attached(c, groups, s)
             /\ \A g \in groups : Found(g, s) = {} =>
                  /\ Winner(g, s) \notin DOMAIN contacts
                  /\ contacts'[Winner(g, s)] = Created(g, s, load[l].stones)
             /\ \A g \in groups : PickWinner(g) \in g /\ g \subseteq LinesOf(l)
<1>1. PICK s : s = SourceOf(l)
  OBVIOUS
<1>2. PICK lines : lines = LinesOf(l)
  OBVIOUS
<1>3. PICK groups : groups = GroupsOf(l)
  OBVIOUS
<1> DEFINE GroupOf(k) == CHOOSE g \in groups : \E m \in g : m.key = k
           new == {g \in groups : Found(g, s) = {}}
<1>4. groups = Groups(lines, s)
  BY <1>1, <1>2, <1>3 DEF GroupsOf
<1>5. load[l] # NoLoad /\ \A m \in lines : <<s, m.key>> \notin DOMAIN rows
  BY <1>1, <1>2 DEF LoadCommit, SourceOf, LinesOf
<1>6. Keyed(lines) /\ s \in Tables
  BY <1>1, <1>2, <1>5, LoadReads
<1>7. rows' = [r \in DOMAIN rows \cup {<<s, m.key>> : m \in lines} |->
                IF r \in DOMAIN rows THEN rows[r]
                ELSE Row(CHOOSE m \in GroupOf(r[2]) : m.key = r[2], Home(GroupOf(r[2]), s),
                         r = PrimaryRow(GroupOf(r[2]), s))]
  BY <1>1, <1>2, <1>3 DEF LoadCommit, SourceOf, LinesOf, GroupsOf
<1>8. contacts' = [c \in DOMAIN contacts \cup {Home(g, s) : g \in new} |->
                IF c \in DOMAIN contacts THEN Attached(c, groups, s)
                ELSE Created(GroupOf(c[2]), s, load[l].stones)]
  BY <1>1, <1>2, <1>3 DEF LoadCommit, SourceOf, LinesOf, GroupsOf
<1>9. ASSUME NEW g \in groups
      PROVE  PickWinner(g) \in g /\ g \subseteq lines
  BY <1>4, <1>6, GroupIsPicked, GroupsCover
<1>10. ASSUME NEW g \in groups, NEW m \in g
       PROVE  GroupOf(m.key) = g /\ (CHOOSE x \in g : x.key = m.key) = m
  BY <1>4, <1>6, GroupOfKey
<1> HIDE DEF GroupOf
<1>11. ASSUME NEW g \in groups, NEW m \in g
       PROVE  rows'[<<s, m.key>>] = Row(m, Home(g, s), <<s, m.key>> = PrimaryRow(g, s))
  <2>1. PICK r : r = <<s, m.key>>
    OBVIOUS
  <2>2. r \notin DOMAIN rows /\ r \in {<<s, x.key>> : x \in lines} /\ r[2] = m.key
    BY <1>5, <1>9, <2>1
  <2>3. rows'[r] = Row(CHOOSE x \in GroupOf(r[2]) : x.key = r[2], Home(GroupOf(r[2]), s),
                       r = PrimaryRow(GroupOf(r[2]), s))
    BY <1>7, <2>2
  <2>4. GroupOf(r[2]) = g
    BY <1>10, <2>2
  <2>5. PICK k : k = r[2]
    OBVIOUS
  <2>6. rows'[r] = Row(CHOOSE x \in g : x.key = k, Home(g, s), r = PrimaryRow(g, s))
    BY <2>3, <2>4, <2>5
  <2>7. k = m.key
    BY <2>2, <2>5
  <2>8. (CHOOSE x \in g : x.key = k) = m
    BY <1>10, <2>7
  <2>9. rows'[r] = Row(m, Home(g, s), r = PrimaryRow(g, s))
    BY <2>6, <2>8
  <2> QED BY <2>1, <2>9
<1>12. ASSUME NEW g \in groups, Found(g, s) = {}
       PROVE  /\ Home(g, s) = Winner(g, s) /\ Winner(g, s) \notin DOMAIN contacts
              /\ contacts'[Winner(g, s)] = Created(g, s, load[l].stones)
  <2>1. PICK c : c = Winner(g, s)
    OBVIOUS
  <2>2. Home(g, s) = c
    BY <1>12, <2>1 DEF Home
  <2>3. PICK m \in g : m = PickWinner(g) /\ m \in lines
    BY <1>9
  <2>4. c = <<s, m.key>> /\ c[2] = m.key
    BY <2>1, <2>3 DEF Winner
  <2>5. c \notin DOMAIN rows /\ c \notin Seeds
    BY <1>5, <1>6, <2>3, <2>4 DEF Seeds, Tables
  <2>6. c \notin DOMAIN contacts
    BY <2>5 DEF IInv, Named, Businesses
  <2>7. contacts'[c] = Created(GroupOf(c[2]), s, load[l].stones)
    BY <1>8, <1>12, <2>2, <2>6
  <2> QED BY <1>10, <2>1, <2>2, <2>4, <2>6, <2>7
<1>13. DOMAIN contacts' = DOMAIN contacts \cup {Winner(g, s) : g \in new}
  BY <1>8, <1>12
<1>14. \A c \in DOMAIN contacts : contacts'[c] = Attached(c, groups, s)
  BY <1>8
<1>15. /\ rows' = [r \in DOMAIN rows' |-> rows'[r]]
       /\ contacts' = [c \in DOMAIN contacts' |-> contacts'[c]]
       /\ DOMAIN rows' = DOMAIN rows \cup {<<s, m.key>> : m \in lines}
       /\ \A r \in DOMAIN rows : rows'[r] = rows[r]
  BY <1>7, <1>8
<1> QED BY <1>1, <1>2, <1>3, <1>5, <1>9, <1>11, <1>12, <1>13, <1>14, <1>15

(* An attach takes nothing from its contact but the mail.                   *)
LEMMA AttachedKept ==
    ASSUME TypeOK, NEW c \in DOMAIN contacts, NEW groups, NEW s
    PROVE  /\ Attached(c, groups, s) \in Contact
           /\ Attached(c, groups, s).phone = contacts[c].phone
           /\ Attached(c, groups, s).seed = contacts[c].seed
           /\ Attached(c, groups, s).stamp = contacts[c].stamp
           /\ Attached(c, groups, s).addr = contacts[c].addr
           /\ contacts[c].off \subseteq Attached(c, groups, s).off
           /\ (\E g \in groups : c \in Found(g, s) /\ \E m \in g : m.dnm)
                 => "mail" \in Attached(c, groups, s).off
<1>1. contacts[c] \in Contact
  BY DEF TypeOK
<1>2. PICK x : x = contacts[c]
  OBVIOUS
<1>3. x \in Contact
  BY <1>1, <1>2
<1>4. Attached(c, groups, s) =
         IF \E g \in groups : c \in Found(g, s) /\ \E m \in g : m.dnm
         THEN [x EXCEPT !.off = x.off \cup {"mail"}] ELSE x
  BY <1>2 DEF Attached
<1>5. CASE \E g \in groups : c \in Found(g, s) /\ \E m \in g : m.dnm
  <2>1. Attached(c, groups, s) = [x EXCEPT !.off = x.off \cup {"mail"}]
    BY <1>4, <1>5
  <2> QED BY <1>2, <1>3, <2>1 DEF Contact, Channels
<1>6. CASE ~(\E g \in groups : c \in Found(g, s) /\ \E m \in g : m.dnm)
  <2>1. Attached(c, groups, s) = x
    BY <1>4, <1>6
  <2> QED BY <1>2, <1>3, <1>6, <2>1
<1> QED BY <1>5, <1>6

LEMMA CreatedMade ==
    ASSUME IInv, NEW l \in Loaders, load[l] # NoLoad, NEW g \in GroupsOf(l), NEW s,
           s = SourceOf(l)
    PROVE  /\ Created(g, s, load[l].stones) \in Contact
           /\ ~Created(g, s, load[l].stones).seed
           /\ Created(g, s, load[l].stones).stamp = None
           /\ Created(g, s, load[l].stones).addr = PickWinner(g).addr
           /\ Created(g, s, load[l].stones).phone # None =>
                 s = "cslb" /\ \A m \in g : m.phone = Created(g, s, load[l].stones).phone
           /\ TombChannels(g, load[l].stones) \subseteq Created(g, s, load[l].stones).off
           /\ (\E m \in g : m.dnm) => "mail" \in Created(g, s, load[l].stones).off
<1>1a. PICK any : any = CHOOSE m \in g : TRUE
  OBVIOUS
<1>1b. PICK theirs : theirs = any.phone
  OBVIOUS
<1>1. PICK phone : phone = IF s = "cslb" THEN theirs ELSE None
  OBVIOUS
<1>2. PICK channels : channels = TombChannels(g, load[l].stones)
  OBVIOUS
<1>3. Created(g, s, load[l].stones) = Business(g, phone, channels)
  BY <1>1, <1>1a, <1>1b, <1>2 DEF Created
<1>4. /\ Keyed(LinesOf(l)) /\ LinesOf(l) \subseteq Line /\ load[l].stones \subseteq Tomb
  BY LoadReads
<1>5. /\ PickWinner(g) \in g /\ g \subseteq LinesOf(l)
      /\ \E m \in g : CoalesceEmail(g) = m.email
      /\ \A x, m \in g : x.phone = m.phone
  BY <1>4, GroupIsPicked, GroupsCover DEF GroupsOf
<1>6. \A m \in g : m.addr \in Addrs /\ m.email \in Nat \cup {None} /\ m.phone \in Phones \cup {None}
  BY <1>4, <1>5 DEF Line
<1>7. any \in g
  BY <1>1a, <1>5
<1>8. /\ phone \in Phones \cup {None}
      /\ phone # None => s = "cslb" /\ \A m \in g : m.phone = phone
  BY <1>1, <1>1b, <1>5, <1>6, <1>7
<1>9. channels \in SUBSET Channels
  BY <1>2, <1>4 DEF TombChannels, Tomb
<1> QED BY <1>2, <1>3, <1>5, <1>6, <1>8, <1>9, BusinessMade

LEMMA LoadKeeps ==
    ASSUME IInv, NEW l \in Loaders, LoadCommit(l)
    PROVE  IInv'
<1>0. PICK s, groups :
        /\ s = SourceOf(l) /\ groups = GroupsOf(l) /\ load[l] # NoLoad
        /\ rows' = [r \in DOMAIN rows' |-> rows'[r]]
        /\ contacts' = [c \in DOMAIN contacts' |-> contacts'[c]]
        /\ DOMAIN rows' = DOMAIN rows \cup {<<s, m.key>> : m \in LinesOf(l)}
        /\ \A m \in LinesOf(l) : <<s, m.key>> \notin DOMAIN rows
        /\ \A r \in DOMAIN rows : rows'[r] = rows[r]
        /\ \A g \in groups : \A m \in g :
             rows'[<<s, m.key>>] = Row(m, Home(g, s), <<s, m.key>> = PrimaryRow(g, s))
        /\ DOMAIN contacts' =
             DOMAIN contacts \cup {Winner(g, s) : g \in {g \in groups : Found(g, s) = {}}}
        /\ \A c \in DOMAIN contacts : contacts'[c] = Attached(c, groups, s)
        /\ \A g \in groups : Found(g, s) = {} =>
             /\ Winner(g, s) \notin DOMAIN contacts
             /\ contacts'[Winner(g, s)] = Created(g, s, load[l].stones)
        /\ \A g \in groups : PickWinner(g) \in g /\ g \subseteq LinesOf(l)
  BY LoadCommitted
<1>1. s = SourceOf(l)
  BY <1>0
<1>2. groups = GroupsOf(l)
  BY <1>0
<1>3. /\ load[l] # NoLoad /\ load' = [load EXCEPT ![l] = NoLoad]
      /\ UNCHANGED <<world, old, tombs, job>>
  BY DEF LoadCommit
<1>4. /\ s \in Tables /\ LinesOf(l) \subseteq Line /\ swapped
      /\ \A m \in LinesOf(l) : Prefix(m.key) = s
      /\ \A m \in LinesOf(l) : <<s, m.key>> \notin DOMAIN rows
  BY <1>0, <1>1, <1>3, LoadReads
<1>7. ASSUME NEW c \in DOMAIN contacts
      PROVE  /\ c \in DOMAIN contacts' /\ c \in Ids
             /\ contacts'[c] \in Contact
             /\ contacts'[c].phone = contacts[c].phone /\ contacts'[c].seed = contacts[c].seed
             /\ contacts'[c].stamp = contacts[c].stamp /\ contacts'[c].addr = contacts[c].addr
             /\ contacts[c].off \subseteq contacts'[c].off
             /\ \A g \in groups : c \in Found(g, s) /\ (\E m \in g : m.dnm)
                   => "mail" \in contacts'[c].off
  <2>1. contacts'[c] = Attached(c, groups, s) /\ c \in DOMAIN contacts'
    BY <1>0
  <2>2. TypeOK /\ c \in Ids
    BY DEF IInv, TypeOK
  <2> QED BY <2>1, <2>2, AttachedKept
<1>8. ASSUME NEW g \in groups, Found(g, s) = {}, NEW c, c = Winner(g, s)
      PROVE  /\ c \in Businesses' /\ c \notin DOMAIN contacts /\ c \in Tables \X Keys
             /\ c = <<s, PickWinner(g).key>>
             /\ contacts'[c] \in Contact /\ ~contacts'[c].seed /\ contacts'[c].stamp = None
             /\ contacts'[c].addr = PickWinner(g).addr
             /\ contacts'[c].phone # None =>
                   s = "cslb" /\ \A m \in g : m.phone = contacts'[c].phone
             /\ TombChannels(g, load[l].stones) \subseteq contacts'[c].off
             /\ (\E m \in g : m.dnm) => "mail" \in contacts'[c].off
  <2>1. contacts'[c] = Created(g, s, load[l].stones) /\ c \notin DOMAIN contacts
    BY <1>0, <1>8
  <2>2. c = <<s, PickWinner(g).key>> /\ PickWinner(g) \in LinesOf(l)
    BY <1>0, <1>8 DEF Winner
  <2>3. c \in Tables \X Keys
    BY <1>4, <2>2 DEF Line
  <2>4. c \in Businesses'
    BY <1>0, <1>8, <2>3, SeedsAreNoRows DEF Businesses
  <2> QED BY <1>1, <1>2, <1>3, <2>1, <2>2, <2>3, <2>4, CreatedMade
<1>9. ASSUME NEW c \in DOMAIN contacts', c \notin DOMAIN contacts
      PROVE  \E g \in groups : Found(g, s) = {} /\ c = Winner(g, s)
  BY <1>0, <1>9
<1>10. ASSUME NEW m \in LinesOf(l)
       PROVE  \E g \in groups : m \in g
  BY <1>1, <1>2, GroupsCover DEF GroupsOf
<1>11. ASSUME NEW g \in groups
       PROVE  /\ Home(g, s) \in Businesses' /\ Home(g, s) \in Tables \X Keys
              /\ \A r \in Ids : r = PrimaryRow(g, s) => Home(g, s) = r /\ Found(g, s) = {}
              /\ (\E m \in g : m.dnm) => "mail" \in contacts'[Home(g, s)].off
  <2>1. CASE Found(g, s) # {}
    <3>1. PICK c : c = Home(g, s)
      OBVIOUS
    <3>2. c \in Found(g, s)
      BY <2>1, <3>1 DEF Home
    <3>3. c \in Businesses
      BY <3>2, FoundIsBusiness
    <3>4. c \in Businesses' /\ c \in Tables \X Keys
      BY <1>7, <3>3 DEF Businesses, Ids
    <3>5. PrimaryRow(g, s) = None /\ None \notin Ids
      BY <2>1, IntakeAssumption DEF PrimaryRow
    <3>6. (\E m \in g : m.dnm) => "mail" \in contacts'[c].off
      BY <1>7, <3>2, <3>3 DEF Businesses
    <3> QED BY <3>1, <3>4, <3>5, <3>6
  <2>2. CASE Found(g, s) = {}
    <3>1. PICK c : c = Winner(g, s)
      OBVIOUS
    <3>2. Home(g, s) = c /\ PrimaryRow(g, s) = c
      BY <2>2, <3>1 DEF Home, PrimaryRow
    <3>3. /\ c \in Businesses' /\ c \in Tables \X Keys
          /\ (\E m \in g : m.dnm) => "mail" \in contacts'[c].off
      BY <1>8, <2>2, <3>1
    <3> QED BY <2>2, <3>2, <3>3
  <2> QED BY <2>1, <2>2
<1>12. ASSUME NEW g \in groups, NEW m \in g, NEW r, r = <<s, m.key>>
       PROVE  /\ r \in Tables \X Keys /\ r \in DOMAIN rows' /\ rows'[r] \in IntakeRow
              /\ rows'[r].contact = Home(g, s) /\ r[1] = Prefix(r[2])
              /\ rows'[r].primary <=> r = PrimaryRow(g, s)
              /\ rows'[r].addr = m.addr /\ rows'[r].dnm = m.dnm
  <2>1. m \in LinesOf(l) /\ m.addr \in Addrs /\ m.dnm \in BOOLEAN /\ m.key \in Keys
    BY <1>4, <1>0 DEF Line
  <2>2. r \in Tables \X Keys /\ r[1] = Prefix(r[2]) /\ r \in DOMAIN rows'
    BY <1>4, <1>0, <1>12, <2>1
  <2>3. rows'[r] = Row(m, Home(g, s), r = PrimaryRow(g, s))
    BY <1>0, <1>12
  <2>4. Home(g, s) \in Tables \X Keys
    BY <1>11
  <2>5. CASE r = PrimaryRow(g, s)
    <3>1. rows'[r] = Row(m, Home(g, s), TRUE)
      BY <2>3, <2>5
    <3> QED BY <2>1, <2>2, <2>4, <2>5, <3>1 DEF Row, IntakeRow
  <2>6. CASE r # PrimaryRow(g, s)
    <3>1. rows'[r] = Row(m, Home(g, s), FALSE)
      BY <2>3, <2>6
    <3> QED BY <2>1, <2>2, <2>4, <2>6, <3>1 DEF Row, IntakeRow
  <2> QED BY <2>5, <2>6
<1>13. ASSUME NEW r \in DOMAIN rows', r \notin DOMAIN rows
       PROVE  \E g \in groups : \E m \in g : r = <<s, m.key>>
  BY <1>0, <1>10, <1>13
<1>14. Businesses \subseteq Businesses' /\ Grows
  BY <1>0, <1>7 DEF Grows, Businesses
<1>15. TypeOK'
  <2>1. \A r \in DOMAIN rows' : r \in Tables \X Keys /\ rows'[r] \in IntakeRow
    <3>1. \A r \in DOMAIN rows : r \in Tables \X Keys /\ rows'[r] \in IntakeRow
      BY <1>0 DEF IInv, TypeOK
    <3>2. ASSUME NEW r \in DOMAIN rows', r \notin DOMAIN rows
          PROVE  r \in Tables \X Keys /\ rows'[r] \in IntakeRow
      BY <1>12, <1>13, <3>2
    <3> QED BY <3>1, <3>2
  <2>2. rows' \in [DOMAIN rows' -> IntakeRow]
    BY <1>0, <2>1
  <2>3. \A c \in DOMAIN contacts' : c \in Ids /\ contacts'[c] \in Contact
    BY <1>7, <1>8, <1>9 DEF Ids
  <2>4. contacts' \in [DOMAIN contacts' -> Contact]
    BY <1>0, <2>3
  <2>5. load' \in [Loaders -> [file : ListFile \cup {None}, known : SUBSET Keys,
                               stones : SUBSET Tomb]]
    BY <1>3 DEF IInv, TypeOK, NoLoad
  <2>6. /\ \E w \in Worlds : world' \in {w, [w EXCEPT !.waveActive = FALSE]}
        /\ swapped' \in BOOLEAN /\ legacy' \in {world'.legacy, {}} /\ tombs' \subseteq Tomb
        /\ moved' \subseteq [from : Keys, to : Tables \X Keys]
        /\ job' \in [Verifiers -> [table : Tables \cup {None}, todo : SUBSET (Tables \X Keys)]]
    BY <1>3 DEF IInv, TypeOK, old
  <2> QED BY <2>1, <2>2, <2>3, <2>4, <2>5, <2>6 DEF TypeOK
<1>16. BeforeTheSwap'
  BY <1>3, <1>4 DEF BeforeTheSwap, old
<1>17. SeedsApart'
  <2>1. ASSUME NEW c \in Businesses'
        PROVE  /\ ~contacts'[c].seed
               /\ contacts'[c].stamp = "operator" => contacts'[c].addr \in Corrected
    <3>1. CASE c \in DOMAIN contacts
      BY <1>7, <3>1 DEF IInv, SeedsApart, Businesses
    <3>2. CASE c \notin DOMAIN contacts
      <4>1. ~contacts'[c].seed /\ contacts'[c].stamp = None
        BY <1>8, <1>9, <3>2 DEF Businesses
      <4> QED BY <4>1, IntakeAssumption
    <3> QED BY <3>1, <3>2
  <2>2. ASSUME NEW c \in DOMAIN contacts' \cap Seeds
        PROVE  contacts'[c].phone = None
    <3>1. c \in DOMAIN contacts
      BY <1>8, <1>9 DEF Businesses
    <3> QED BY <1>7, <3>1 DEF IInv, SeedsApart
  <2> QED BY <2>1, <2>2 DEF SeedsApart
<1>18. Named'
  <2>1. ASSUME NEW c \in Businesses'
        PROVE  /\ c \in DOMAIN rows' /\ rows'[c].contact = c /\ rows'[c].primary
               /\ contacts'[c].stamp = None => contacts'[c].addr = rows'[c].addr
    <3>1. CASE c \in DOMAIN contacts
      <4>1. /\ c \in DOMAIN rows /\ rows[c].contact = c /\ rows[c].primary
            /\ contacts[c].stamp = None => contacts[c].addr = rows[c].addr
        BY <3>1 DEF IInv, Named, Businesses
      <4> QED BY <1>0, <1>7, <3>1, <4>1
    <3>2. CASE c \notin DOMAIN contacts
      <4>1. PICK g \in groups : Found(g, s) = {} /\ c = Winner(g, s)
        BY <1>9, <3>2 DEF Businesses
      <4>2. /\ c = <<s, PickWinner(g).key>> /\ contacts'[c].addr = PickWinner(g).addr
        BY <1>8, <4>1
      <4>3. c = Home(g, s) /\ c = PrimaryRow(g, s) /\ PickWinner(g) \in g
        BY <1>0, <4>1 DEF Home, PrimaryRow
      <4> QED BY <1>12, <4>2, <4>3
    <3> QED BY <3>1, <3>2
  <2>2. ASSUME NEW r \in DOMAIN rows'
        PROVE  /\ rows'[r].contact \in Businesses' /\ r[1] = Prefix(r[2])
               /\ rows'[r].primary => rows'[r].contact = r
    <3>1. CASE r \in DOMAIN rows
      <4>1. /\ rows[r].contact \in Businesses /\ r[1] = Prefix(r[2])
            /\ rows[r].primary => rows[r].contact = r
        BY <3>1 DEF IInv, Named
      <4> QED BY <1>0, <1>14, <3>1, <4>1
    <3>2. CASE r \notin DOMAIN rows
      <4>1. PICK g \in groups : \E m \in g : r = <<s, m.key>>
        BY <1>13, <3>2
      <4>2. /\ rows'[r].contact = Home(g, s) /\ r[1] = Prefix(r[2]) /\ r \in Tables \X Keys
            /\ rows'[r].primary <=> r = PrimaryRow(g, s)
        BY <1>12, <4>1
      <4>3. r \in Ids
        BY <4>2 DEF Ids
      <4> QED BY <1>11, <4>2, <4>3
    <3> QED BY <3>1, <3>2
  <2>3. \A p \in DOMAIN pieces' : pieces'[p] \in Businesses'
    BY <1>3, <1>4, <1>14 DEF IInv, Named, old
  <2> QED BY <2>1, <2>2, <2>3 DEF Named
<1>19. PhonesApart'
  <2>1. ASSUME NEW g \in groups, Found(g, s) = {}, NEW d \in Businesses, NEW c,
               c = Winner(g, s), contacts'[c].phone # None,
               contacts'[c].phone = contacts'[d].phone
        PROVE  FALSE
    <3>1. PICK m \in g : m = PickWinner(g)
      BY <1>0
    <3>2. s = "cslb" /\ m.phone = contacts'[c].phone
      BY <1>8, <2>1
    <3>3. contacts[d].phone = m.phone /\ m.phone # None
      BY <1>7, <2>1, <3>2 DEF Businesses
    <3> QED BY <2>1, <3>2, <3>3, FoundByPhone
  <2>2. ASSUME NEW g \in groups, NEW h \in groups, Found(g, s) = {}, Found(h, s) = {},
               NEW c, NEW d, c = Winner(g, s), d = Winner(h, s), c # d,
               contacts'[c].phone # None, contacts'[c].phone = contacts'[d].phone
        PROVE  FALSE
    <3>1. /\ s = "cslb" /\ \A m \in g : m.phone = contacts'[c].phone
      BY <1>8, <2>2
    <3>2. \A m \in h : m.phone = contacts'[c].phone
      BY <1>8, <2>2
    <3>3. PickWinner(g) \in g /\ PickWinner(h) \in h
      BY <1>0
    <3>4. g = h
      BY <1>1, <1>2, <2>2, <3>1, <3>2, <3>3, GroupsApart DEF GroupsOf
    <3> QED BY <2>2, <3>4
  <2>3. ASSUME NEW c \in Businesses', NEW d \in Businesses', c # d,
               contacts'[c].phone # None, contacts'[c].phone = contacts'[d].phone
        PROVE  FALSE
    <3>1. CASE c \in Businesses /\ d \in Businesses
      BY <1>7, <2>3, <3>1 DEF IInv, PhonesApart, Businesses
    <3>2. CASE c \notin Businesses
      <4>1. PICK g \in groups : Found(g, s) = {} /\ c = Winner(g, s)
        BY <1>9, <3>2 DEF Businesses
      <4>2. CASE d \in Businesses
        BY <2>1, <2>3, <4>1, <4>2
      <4>3. CASE d \notin Businesses
        <5>1. PICK h \in groups : Found(h, s) = {} /\ d = Winner(h, s)
          BY <1>9, <4>3 DEF Businesses
        <5> QED BY <2>2, <2>3, <4>1, <5>1
      <4> QED BY <4>2, <4>3
    <3>3. CASE c \in Businesses /\ d \notin Businesses
      <4>1. PICK g \in groups : Found(g, s) = {} /\ d = Winner(g, s)
        BY <1>9, <3>3 DEF Businesses
      <4> QED BY <2>1, <2>3, <3>3, <4>1
    <3> QED BY <3>1, <3>2, <3>3
  <2> QED BY <2>3 DEF PhonesApart
<1>20. Absorbed'
  <2>1. ASSUME NEW r \in DOMAIN rows', rows'[r].dnm
        PROVE  "mail" \in contacts'[rows'[r].contact].off
    <3>1. CASE r \in DOMAIN rows
      <4>1. PICK c \in Businesses : c = rows[r].contact
        BY <3>1 DEF IInv, Named
      <4>2. "mail" \in contacts[c].off
        BY <1>0, <2>1, <3>1, <4>1 DEF IInv, Absorbed
      <4> QED BY <1>0, <1>7, <3>1, <4>1, <4>2 DEF Businesses
    <3>2. CASE r \notin DOMAIN rows
      <4>1. PICK g \in groups : \E m \in g : r = <<s, m.key>>
        BY <1>13, <3>2
      <4>2. PICK m \in g : r = <<s, m.key>>
        BY <4>1
      <4>3. rows'[r].contact = Home(g, s) /\ m.dnm
        BY <1>12, <2>1, <4>2
      <4> QED BY <1>11, <4>3
    <3> QED BY <3>1, <3>2
  <2>2. ASSUME NEW t \in tombs, NEW c \in Businesses',
               (t.phone # None /\ t.phone = contacts'[c].phone) \/ (t.key # None /\ t.key = c[2])
        PROVE  t.channel \in contacts'[c].off
    <3>1. CASE c \in Businesses
      <4>1. t.channel \in contacts[c].off
        BY <1>7, <2>2, <3>1 DEF IInv, Absorbed, Businesses
      <4> QED BY <1>7, <3>1, <4>1 DEF Businesses
    <3>2. CASE c \notin Businesses
      <4>1. PICK g \in groups : Found(g, s) = {} /\ c = Winner(g, s)
        BY <1>9, <3>2 DEF Businesses
      <4>2. PICK m \in g : m = PickWinner(g) /\ m \in LinesOf(l)
        BY <1>0
      <4>3. /\ c = <<s, m.key>> /\ TombChannels(g, load[l].stones) \subseteq contacts'[c].off
            /\ contacts'[c].phone # None => s = "cslb" /\ m.phone = contacts'[c].phone
        BY <1>8, <4>1, <4>2
      <4>4. \/ t.phone # None /\ t.phone = m.phone /\ s = "cslb"
            \/ t.key # None /\ t.key = m.key
        BY <2>2, <4>3
      <4>5. Names(t, m)
        BY <4>4 DEF Names
      <4>6. CASE t \in load[l].stones
        BY <4>3, <4>5, <4>6 DEF TombChannels
      <4>7. CASE t \notin load[l].stones
        <5>1. Living(t)
          BY <1>3, <4>2, <4>5, <4>7 DEF IInv, LoadsSound, LoadSound, LinesOf
        <5>2. ~(t.phone # None /\ t.phone = m.phone /\ s = "cslb")
          BY <4>1, <5>1, FoundByPhone DEF Living
        <5>3. ~(t.key # None /\ t.key = m.key)
          BY <1>4, <4>2, <5>1 DEF Living
        <5> QED BY <4>4, <5>2, <5>3
      <4> QED BY <4>6, <4>7
    <3> QED BY <3>1, <3>2
  <2> QED BY <1>3, <2>1, <2>2 DEF Absorbed
<1>21. LoadsSound'
  <2>1. \A x \in Loaders : load'[x] \in {load[x], NoLoad}
    BY <1>3 DEF IInv, TypeOK
  <2> QED BY <1>3, <1>14, <2>1, LoadsStaySound DEF IInv, old
<1> QED BY <1>15, <1>16, <1>17, <1>18, <1>19, <1>20, <1>21 DEF IInv

-----------------------------------------------------------------------------
(* The steps that touch contacts alone.  A tombstone they write is of a     *)
(* living contact, which is off its channel.                                *)
StoneStands(t) ==
    /\ t \in Tomb /\ Living(t)'
    /\ \A c \in Businesses :
        (t.phone # None /\ t.phone = contacts[c].phone) \/ (t.key # None /\ t.key = c[2])
            => t.channel \in contacts'[c].off

LEMMA PeopleKeep ==
    ASSUME IInv, UNCHANGED <<world, old, rows, load>>,
           job' \in [Verifiers -> [table : Tables \cup {None}, todo : SUBSET (Tables \X Keys)]],
           contacts' = [c \in DOMAIN contacts' |-> contacts'[c]],
           \A c \in DOMAIN contacts' : c \in Ids /\ contacts'[c] \in Contact,
           Businesses' = Businesses,
           \A c \in Businesses :
               /\ contacts'[c].phone = contacts[c].phone /\ ~contacts'[c].seed
               /\ contacts[c].off \subseteq contacts'[c].off
               /\ contacts'[c].stamp = None =>
                     contacts[c].stamp = None /\ contacts'[c].addr = contacts[c].addr
               /\ contacts'[c].stamp = "operator" => contacts'[c].addr \in Corrected,
           \A c \in DOMAIN contacts' \cap Seeds : contacts'[c].phone = None,
           swapped \/ (DOMAIN contacts' = {} /\ tombs' = tombs),
           \A t \in tombs' \ tombs : StoneStands(t)
    PROVE  IInv'
<1>1. TypeOK'
  <2>1. contacts' \in [DOMAIN contacts' -> Contact] /\ DOMAIN contacts' \subseteq Ids
    OBVIOUS
  <2>2. tombs' \subseteq Tomb
    BY DEF IInv, TypeOK, StoneStands
  <2>3. /\ \E w \in Worlds : world' \in {w, [w EXCEPT !.waveActive = FALSE]}
        /\ swapped' \in BOOLEAN /\ legacy' \in {world'.legacy, {}}
        /\ DOMAIN rows' \subseteq Tables \X Keys /\ rows' \in [DOMAIN rows' -> IntakeRow]
        /\ moved' \subseteq [from : Keys, to : Tables \X Keys]
        /\ load' \in [Loaders -> [file : ListFile \cup {None}, known : SUBSET Keys,
                                  stones : SUBSET Tomb]]
    BY DEF IInv, TypeOK, old
  <2> QED BY <2>1, <2>2, <2>3 DEF TypeOK
<1>2. BeforeTheSwap'
  BY DEF IInv, BeforeTheSwap, old
<1>3. SeedsApart'
  BY DEF SeedsApart, Businesses
<1>4. Named'
  <2>1. \A c \in Businesses' :
          /\ c \in DOMAIN rows' /\ rows'[c].contact = c /\ rows'[c].primary
          /\ contacts'[c].stamp = None => contacts'[c].addr = rows'[c].addr
    BY DEF IInv, Named
  <2>2. /\ \A r \in DOMAIN rows' :
             /\ rows'[r].contact \in Businesses' /\ r[1] = Prefix(r[2])
             /\ rows'[r].primary => rows'[r].contact = r
        /\ swapped' => \A p \in DOMAIN pieces' : pieces'[p] \in Businesses'
    BY DEF IInv, Named, old
  <2> QED BY <2>1, <2>2 DEF Named
<1>5. PhonesApart'
  BY DEF IInv, PhonesApart
<1>6. Absorbed'
  <2>1. ASSUME NEW r \in DOMAIN rows, rows[r].dnm
        PROVE  "mail" \in contacts'[rows[r].contact].off
    BY <2>1 DEF IInv, Absorbed, Named
  <2>2. ASSUME NEW t \in tombs', NEW c \in Businesses,
               (t.phone # None /\ t.phone = contacts[c].phone) \/ (t.key # None /\ t.key = c[2])
        PROVE  t.channel \in contacts'[c].off
    <3>1. CASE t \in tombs
      BY <2>2, <3>1 DEF IInv, Absorbed
    <3>2. CASE t \notin tombs
      BY <2>2, <3>2 DEF StoneStands
    <3> QED BY <3>1, <3>2
  <2> QED BY <2>1, <2>2 DEF Absorbed
<1>7. LoadsSound'
  <2>1. Grows
    BY DEF Grows
  <2>2. \A t \in tombs' \ tombs : Living(t)'
    BY DEF StoneStands
  <2> QED BY <2>1, <2>2, LoadsStaySound DEF IInv, old
<1> QED BY <1>1, <1>2, <1>3, <1>4, <1>5, <1>6, <1>7 DEF IInv

LEMMA ContactTyped ==
    ASSUME IInv, NEW c \in DOMAIN contacts
    PROVE  contacts[c] \in Contact /\ c \in Ids /\ swapped
BY DEF IInv, TypeOK, BeforeTheSwap

LEMMA JobTyped ==
    IInv => job \in [Verifiers -> [table : Tables \cup {None}, todo : SUBSET (Tables \X Keys)]]
BY DEF IInv, TypeOK

(* A business's primary row is the row it bears the name of.                *)
LEMMA PrimaryKeyIs ==
    ASSUME IInv, NEW c \in DOMAIN contacts
    PROVE  PrimaryKey(c) = IF c \in Seeds THEN None ELSE c[2]
<1> DEFINE mine == {r \in DOMAIN rows : rows[r].contact = c /\ rows[r].primary}
<1>1. PrimaryKey(c) = IF mine = {} THEN None ELSE (CHOOSE r \in mine : TRUE)[2]
  BY DEF PrimaryKey
<1>2. \A r \in mine : r = c
  BY DEF IInv, Named
<1>3. c \in Seeds => mine = {}
  BY DEF IInv, Named, Businesses
<1>4. c \notin Seeds => c \in mine
  BY DEF IInv, Named, Businesses
<1> HIDE DEF mine
<1>5. c \notin Seeds => (CHOOSE r \in mine : TRUE) = c
  BY <1>2, <1>4
<1> QED BY <1>1, <1>3, <1>4, <1>5

LEMMA SuppressKeeps ==
    ASSUME IInv, NEW c \in Ids, NEW ch \in DOMAIN Columns, Suppress(c, ch)
    PROVE  IInv'
<1>1. /\ c \in DOMAIN contacts /\ UNCHANGED <<world, old, rows, load, job>>
      /\ contacts' = [contacts EXCEPT ![c].off = @ \cup Columns[ch]]
      /\ tombs' = tombs \cup [phone : {contacts[c].phone}, key : {PrimaryKey(c)},
                              channel : Columns[ch]]
  BY DEF Suppress
<1>2. Columns[ch] \in SUBSET Channels
  BY DEF Columns, Channels
<1>3. /\ DOMAIN contacts' = DOMAIN contacts
      /\ \A d \in DOMAIN contacts : contacts'[d] =
            IF d = c THEN [contacts[c] EXCEPT !.off = contacts[c].off \cup Columns[ch]]
            ELSE contacts[d]
      /\ contacts' = [d \in DOMAIN contacts' |-> contacts'[d]]
  BY <1>1 DEF IInv, TypeOK
<1>4. ASSUME NEW d \in DOMAIN contacts
      PROVE  /\ contacts'[d] \in Contact /\ d \in Ids
             /\ contacts'[d].phone = contacts[d].phone /\ contacts'[d].seed = contacts[d].seed
             /\ contacts'[d].stamp = contacts[d].stamp /\ contacts'[d].addr = contacts[d].addr
             /\ contacts[d].off \subseteq contacts'[d].off
             /\ d = c => Columns[ch] \subseteq contacts'[d].off
  <2>1. PICK x : x = contacts[d]
    OBVIOUS
  <2>2. x \in Contact /\ d \in Ids
    BY <2>1, ContactTyped
  <2>3. CASE d = c
    <3>1. contacts'[d] = [x EXCEPT !.off = x.off \cup Columns[ch]]
      BY <1>3, <2>1, <2>3
    <3> QED BY <1>2, <2>1, <2>2, <3>1 DEF Contact
  <2>4. CASE d # c
    BY <1>3, <2>1, <2>2, <2>4
  <2> QED BY <2>3, <2>4
<1>5. Businesses' = Businesses
  BY <1>3 DEF Businesses
<1>6. ASSUME NEW t \in tombs' \ tombs
      PROVE  StoneStands(t)
  <2>1. /\ t \in [phone : {contacts[c].phone}, key : {PrimaryKey(c)}, channel : Columns[ch]]
    BY <1>1
  <2>2. t.phone = contacts[c].phone /\ t.channel \in Columns[ch]
    BY <2>1
  <2>3. t.key = IF c \in Seeds THEN None ELSE c[2]
    BY <1>1, <2>1, PrimaryKeyIs
  <2>4. contacts[c] \in Contact /\ c \in Ids
    BY <1>1, ContactTyped
  <2>5. c \in Seeds => t.phone = None
    BY <1>1, <2>2 DEF IInv, SeedsApart
  <2>6. c \notin Seeds => /\ c \in Businesses /\ c \in Tables \X Keys
                          /\ c = <<Prefix(c[2]), c[2]>> /\ c \in DOMAIN rows
    BY <1>1, <2>4 DEF Businesses, IInv, Named, Ids
  <2>7. t \in Tomb
    <3>1. t.phone \in Phones \cup {None}
      BY <2>2, <2>4 DEF Contact
    <3>2. t.key \in Keys \cup {None}
      BY <2>3, <2>6
    <3> QED BY <1>2, <2>1, <2>2, <3>1, <3>2 DEF Tomb
  <2>8. Living(t)'
    <3>1. t.phone # None => \E d \in Businesses' : contacts'[d].phone = t.phone
      BY <1>4, <1>5, <2>2, <2>5, <2>6 DEF Businesses
    <3>2. t.key # None => <<Prefix(t.key), t.key>> \in DOMAIN rows'
      BY <1>1, <2>3, <2>6
    <3> QED BY <3>1, <3>2 DEF Living
  <2>9. ASSUME NEW d \in Businesses,
               (t.phone # None /\ t.phone = contacts[d].phone) \/ (t.key # None /\ t.key = d[2])
        PROVE  t.channel \in contacts'[d].off
    <3>1. c \in Businesses
      BY <2>3, <2>5, <2>6, <2>9
    <3>2. d \in Tables \X Keys /\ d = <<Prefix(d[2]), d[2]>>
      <4>1. d \in DOMAIN rows /\ d[1] = Prefix(d[2])
        BY DEF IInv, Named
      <4>2. d \in Tables \X Keys
        BY <4>1 DEF IInv, TypeOK
      <4> QED BY <4>1, <4>2
    <3>3. CASE t.phone # None /\ t.phone = contacts[d].phone
      <4>1. c = d
        BY <2>2, <3>1, <3>3 DEF IInv, PhonesApart
      <4> QED BY <1>1, <1>4, <2>2, <4>1
    <3>4. CASE t.key # None /\ t.key = d[2]
      <4>1. c = d
        BY <2>3, <2>6, <3>1, <3>2, <3>4
      <4> QED BY <1>1, <1>4, <2>2, <4>1
    <3> QED BY <2>9, <3>3, <3>4
  <2> QED BY <2>7, <2>8, <2>9 DEF StoneStands
<1>7. \A d \in Businesses : /\ ~contacts[d].seed
                            /\ contacts[d].stamp = "operator" => contacts[d].addr \in Corrected
  BY DEF IInv, SeedsApart
<1>8. \A d \in DOMAIN contacts' \cap Seeds : contacts'[d].phone = None
  BY <1>3, <1>4 DEF IInv, SeedsApart
<1>9. job' \in [Verifiers -> [table : Tables \cup {None}, todo : SUBSET (Tables \X Keys)]]
  BY <1>1, JobTyped
<1>10. swapped
  BY <1>1, ContactTyped
<1>11. \A d \in Businesses :
           /\ contacts'[d].phone = contacts[d].phone /\ ~contacts'[d].seed
           /\ contacts[d].off \subseteq contacts'[d].off
           /\ contacts'[d].stamp = None =>
                 contacts[d].stamp = None /\ contacts'[d].addr = contacts[d].addr
           /\ contacts'[d].stamp = "operator" => contacts'[d].addr \in Corrected
  BY <1>4, <1>7 DEF Businesses
<1> QED BY <1>1, <1>3, <1>4, <1>5, <1>6, <1>8, <1>9, <1>10, <1>11, PeopleKeep

(* The steps that write one contact, and name no tombstone.                 *)
LEMMA OneWritten ==
    ASSUME IInv, UNCHANGED <<world, old, rows, tombs, load>>, swapped,
           job' \in [Verifiers -> [table : Tables \cup {None}, todo : SUBSET (Tables \X Keys)]],
           NEW c \in Ids, c \in DOMAIN contacts \cup Seeds, NEW x \in Contact,
           DOMAIN contacts' = DOMAIN contacts \cup {c},
           contacts' = [d \in DOMAIN contacts' |-> IF d = c THEN x ELSE contacts[d]],
           c \in Seeds => x.phone = None,
           c \notin Seeds =>
               /\ x.phone = contacts[c].phone /\ x.seed = contacts[c].seed
               /\ x.off = contacts[c].off /\ x.stamp = "operator" /\ x.addr \in Corrected
    PROVE  IInv'
<1>1. ASSUME NEW d \in DOMAIN contacts, d # c
      PROVE  contacts'[d] = contacts[d] /\ contacts[d] \in Contact /\ d \in Ids
  BY <1>1, ContactTyped
<1>2. contacts'[c] = x
  OBVIOUS
<1>3. \A d \in DOMAIN contacts' : d \in Ids /\ contacts'[d] \in Contact
  BY <1>1, <1>2
<1>4. Businesses' = Businesses
  BY DEF Businesses
<1>5. ASSUME NEW d \in Businesses
      PROVE  /\ contacts'[d].phone = contacts[d].phone /\ ~contacts'[d].seed
             /\ contacts[d].off \subseteq contacts'[d].off
             /\ contacts'[d].stamp = None =>
                   contacts[d].stamp = None /\ contacts'[d].addr = contacts[d].addr
             /\ contacts'[d].stamp = "operator" => contacts'[d].addr \in Corrected
  <2>1. /\ ~contacts[d].seed /\ contacts[d].stamp = "operator" => contacts[d].addr \in Corrected
    BY DEF IInv, SeedsApart
  <2>2. d \in DOMAIN contacts /\ d \notin Seeds
    BY DEF Businesses
  <2>3. CASE d = c
    <3>1. "operator" # None
      BY IntakeAssumption
    <3>2. ~x.seed
      BY <2>2, <2>3 DEF IInv, SeedsApart, Businesses
    <3> QED BY <1>2, <2>2, <2>3, <3>1, <3>2
  <2>4. CASE d # c
    <3>1. ~contacts[d].seed
      BY DEF IInv, SeedsApart
    <3>2. contacts[d].stamp = "operator" => contacts[d].addr \in Corrected
      BY DEF IInv, SeedsApart
    <3> QED BY <1>1, <2>2, <2>4, <3>1, <3>2
  <2> QED BY <2>3, <2>4
<1>6. \A d \in DOMAIN contacts' \cap Seeds : contacts'[d].phone = None
  BY <1>1, <1>2 DEF IInv, SeedsApart
<1>7. contacts' = [d \in DOMAIN contacts' |-> contacts'[d]]
  OBVIOUS
<1>8. tombs' \ tombs = {}
  OBVIOUS
<1> QED BY <1>3, <1>4, <1>5, <1>6, <1>7, <1>8, PeopleKeep

LEMMA SeedTyped == Seeds \subseteq Ids
BY DEF Ids

LEMMA UpdateKeeps ==
    ASSUME IInv, NEW c \in Ids, NEW a \in Corrected, UpdateAddress(c, a)
    PROVE  IInv'
<1>1. c \in DOMAIN contacts /\ UNCHANGED <<world, old, rows, tombs, load, job>>
  BY DEF UpdateAddress
<1>2. PICK y : y = contacts[c]
  OBVIOUS
<1>3. y \in Contact /\ swapped
  BY <1>1, <1>2, ContactTyped
<1>4. PICK x : x = [[y EXCEPT !.addr = a] EXCEPT !.stamp = "operator"]
  OBVIOUS
<1>5. /\ x \in Contact /\ x.phone = y.phone /\ x.seed = y.seed /\ x.off = y.off
      /\ x.stamp = "operator" /\ x.addr = a
  BY <1>3, <1>4 DEF Contact
<1>6. /\ DOMAIN contacts' = DOMAIN contacts \cup {c}
      /\ contacts' = [d \in DOMAIN contacts' |-> IF d = c THEN x ELSE contacts[d]]
  BY <1>1, <1>2, <1>4 DEF UpdateAddress, IInv, TypeOK
<1>7. c \in Seeds => y.phone = None
  BY <1>1, <1>2 DEF IInv, SeedsApart
<1>8. job' \in [Verifiers -> [table : Tables \cup {None}, todo : SUBSET (Tables \X Keys)]]
  BY <1>1, JobTyped
<1> QED BY <1>1, <1>2, <1>3, <1>5, <1>6, <1>7, <1>8, OneWritten

LEMMA EnsureSeedsKeeps ==
    ASSUME IInv, NEW s \in Seeds, NEW a \in Addrs, EnsureSeeds(s, a)
    PROVE  IInv'
<1>1. swapped /\ UNCHANGED <<world, old, rows, tombs, load, job>> /\ s \in Ids
  BY SeedTyped DEF EnsureSeeds
<1>2. PICK y : y = contacts[s]
  OBVIOUS
<1>3. PICK z : z = [[y EXCEPT !.seed = TRUE] EXCEPT !.addr = a]
  OBVIOUS
<1>4. PICK x : x = IF s \in DOMAIN contacts THEN z ELSE SeedRow(a)
  OBVIOUS
<1>5. s \in DOMAIN contacts => y \in Contact /\ y.phone = None
  BY <1>2, ContactTyped DEF IInv, SeedsApart
<1>6. s \in DOMAIN contacts => z \in Contact /\ z.phone = None
  BY <1>3, <1>5 DEF Contact
<1>7. x \in Contact /\ x.phone = None
  BY <1>4, <1>6, SeedMade
<1>8. /\ DOMAIN contacts' = DOMAIN contacts \cup {s}
      /\ contacts' = [d \in DOMAIN contacts' |-> IF d = s THEN x ELSE contacts[d]]
  BY <1>2, <1>3, <1>4 DEF EnsureSeeds
<1>9. job' \in [Verifiers -> [table : Tables \cup {None}, todo : SUBSET (Tables \X Keys)]]
  BY <1>1, JobTyped
<1> QED BY <1>1, <1>7, <1>8, <1>9, OneWritten

LEMMA RetireKeeps ==
    ASSUME IInv, NEW s \in Seeds, RetireSeed(s)
    PROVE  IInv'
<1>1. s \in DOMAIN contacts /\ UNCHANGED <<world, old, rows, tombs, load, job>> /\ s \in Ids
  BY SeedTyped DEF RetireSeed
<1>2. PICK y : y = contacts[s]
  OBVIOUS
<1>3. y \in Contact /\ y.phone = None /\ swapped
  BY <1>1, <1>2, ContactTyped DEF IInv, SeedsApart
<1>4. PICK x : x = [[y EXCEPT !.seed = FALSE] EXCEPT !.off = y.off \cup {"mail"}]
  OBVIOUS
<1>5. x \in Contact /\ x.phone = None
  BY <1>3, <1>4 DEF Contact, Channels
<1>6. /\ DOMAIN contacts' = DOMAIN contacts \cup {s}
      /\ contacts' = [d \in DOMAIN contacts' |-> IF d = s THEN x ELSE contacts[d]]
  <2>1. y.off = contacts[s].off
    BY <1>2
  <2>2. contacts' = [contacts EXCEPT ![s] =
                        [[y EXCEPT !.seed = FALSE] EXCEPT !.off = y.off \cup {"mail"}]]
    BY <1>1, <1>2, <1>3 DEF RetireSeed, IInv, TypeOK, Contact
  <2> QED BY <1>1, <1>4, <2>2 DEF IInv, TypeOK
<1>7. job' \in [Verifiers -> [table : Tables \cup {None}, todo : SUBSET (Tables \X Keys)]]
  BY <1>1, JobTyped
<1> QED BY <1>1, <1>3, <1>5, <1>6, <1>7, OneWritten

LEMMA InheritKeeps ==
    ASSUME IInv, NEW v \in Verifiers, Inherit(v)
    PROVE  IInv'
<1>1. UNCHANGED <<world, old, rows, tombs, load>> /\ job' = [job EXCEPT ![v] = Idle]
  BY DEF Inherit
<1>2. /\ DOMAIN contacts' = DOMAIN contacts
      /\ contacts' = [c \in DOMAIN contacts' |-> contacts'[c]]
      /\ \A c \in DOMAIN contacts : contacts'[c] =
            IF Earned(c) = {} THEN contacts[c]
            ELSE [contacts[c] EXCEPT !.addr = rows[CHOOSE r \in Earned(c) : TRUE].answer.std,
                                     !.stamp = "verifier"]
  BY DEF Inherit
<1>3. ASSUME NEW c \in DOMAIN contacts
      PROVE  /\ contacts'[c] \in Contact
             /\ contacts'[c].phone = contacts[c].phone /\ contacts'[c].seed = contacts[c].seed
             /\ contacts'[c].off = contacts[c].off
             /\ contacts'[c] = contacts[c] \/ contacts'[c].stamp = "verifier"
  <2>1. PICK y : y = contacts[c]
    OBVIOUS
  <2>2. y \in Contact
    BY <2>1, ContactTyped
  <2>3. CASE Earned(c) = {}
    BY <1>2, <2>1, <2>2, <2>3
  <2>4. CASE Earned(c) # {}
    <3>1. PICK r : r = CHOOSE q \in Earned(c) : TRUE
      OBVIOUS
    <3>2. r \in DOMAIN rows /\ Usable(rows[r].answer)
      BY <2>4, <3>1 DEF Earned
    <3>3. rows[r].answer \in Answers
      BY <3>2 DEF Usable, IInv, TypeOK, IntakeRow
    <3>4. PICK std : std = rows[r].answer.std
      OBVIOUS
    <3>5. std \in {b.std : b \in Answers}
      BY <3>3, <3>4
    <3>6. contacts'[c] = [[y EXCEPT !.addr = std] EXCEPT !.stamp = "verifier"]
      BY <1>2, <2>1, <2>4, <3>1, <3>4
    <3> QED BY <2>1, <2>2, <3>5, <3>6 DEF Contact
  <2> QED BY <2>3, <2>4
<1>4. Businesses' = Businesses
  BY <1>2 DEF Businesses
<1>5. ASSUME NEW d \in Businesses
      PROVE  /\ contacts'[d].phone = contacts[d].phone /\ ~contacts'[d].seed
             /\ contacts[d].off \subseteq contacts'[d].off
             /\ contacts'[d].stamp = None =>
                   contacts[d].stamp = None /\ contacts'[d].addr = contacts[d].addr
             /\ contacts'[d].stamp = "operator" => contacts'[d].addr \in Corrected
  <2>1. d \in DOMAIN contacts
    BY DEF Businesses
  <2>2. ~contacts[d].seed
    BY DEF IInv, SeedsApart
  <2>3. contacts[d].stamp = "operator" => contacts[d].addr \in Corrected
    BY DEF IInv, SeedsApart
  <2> QED BY <1>3, <2>1, <2>2, <2>3, IntakeAssumption
<1>6. \A d \in DOMAIN contacts' \cap Seeds : contacts'[d].phone = None
  BY <1>2, <1>3 DEF IInv, SeedsApart
<1>7. \A d \in DOMAIN contacts' : d \in Ids /\ contacts'[d] \in Contact
  BY <1>2, <1>3, ContactTyped
<1>8. job' \in [Verifiers -> [table : Tables \cup {None}, todo : SUBSET (Tables \X Keys)]]
  BY <1>1, JobTyped DEF Idle
<1>9. swapped \/ (DOMAIN contacts' = {} /\ tombs' = tombs)
  BY <1>1, <1>2, ContactTyped
<1>10. tombs' \ tombs = {}
  BY <1>1
<1> QED BY <1>1, <1>2, <1>4, <1>5, <1>6, <1>7, <1>8, <1>9, <1>10, PeopleKeep

-----------------------------------------------------------------------------
(* The steps of a verification, which write nothing but answers.            *)
LEMMA AnswersKeep ==
    ASSUME IInv, UNCHANGED <<world, old, contacts, tombs, load>>,
           job' \in [Verifiers -> [table : Tables \cup {None}, todo : SUBSET (Tables \X Keys)]],
           DOMAIN rows' = DOMAIN rows, rows' \in [DOMAIN rows -> IntakeRow],
           \A r \in DOMAIN rows :
               /\ rows'[r].contact = rows[r].contact /\ rows'[r].primary = rows[r].primary
               /\ rows'[r].addr = rows[r].addr /\ rows'[r].dnm = rows[r].dnm
    PROVE  IInv'
<1>1. TypeOK'
  BY DEF IInv, TypeOK, old
<1>2. BeforeTheSwap' /\ SeedsApart' /\ PhonesApart' /\ Businesses' = Businesses
  BY DEF IInv, BeforeTheSwap, SeedsApart, PhonesApart, Businesses, old
<1>3. Named'
  <2>1. \A c \in Businesses' :
          /\ c \in DOMAIN rows' /\ rows'[c].contact = c /\ rows'[c].primary
          /\ contacts'[c].stamp = None => contacts'[c].addr = rows'[c].addr
    BY <1>2 DEF IInv, Named
  <2>2. \A r \in DOMAIN rows' :
          /\ rows'[r].contact \in Businesses' /\ r[1] = Prefix(r[2])
          /\ rows'[r].primary => rows'[r].contact = r
    BY <1>2 DEF IInv, Named
  <2>3. swapped' => \A p \in DOMAIN pieces' : pieces'[p] \in Businesses'
    BY <1>2 DEF IInv, Named, old
  <2> QED BY <2>1, <2>2, <2>3 DEF Named
<1>4. Absorbed'
  BY <1>2 DEF IInv, Absorbed
<1>5. LoadsSound'
  BY <1>2, LoadsStaySound DEF IInv, Grows, old
<1> QED BY <1>1, <1>2, <1>3, <1>4, <1>5 DEF IInv

LEMMA VerifyKeeps ==
    ASSUME IInv, NEW v \in Verifiers, NEW r, NEW a,
           \/ VerifyList(v) \/ VerifyDies(v) \/ VerifyErrs(v, r)
           \/ a \in Answers /\ Stamp(v, r, a)
    PROVE  IInv'
<1> DEFINE Jobs == [Verifiers -> [table : Tables \cup {None}, todo : SUBSET (Tables \X Keys)]]
<1>1. UNCHANGED <<world, old, contacts, tombs, load>>
  BY DEF VerifyList, VerifyDies, VerifyErrs, Stamp
<1>2. /\ job \in Jobs /\ rows \in [DOMAIN rows -> IntakeRow]
      /\ DOMAIN rows \subseteq Tables \X Keys
  BY DEF IInv, TypeOK
<1>3. job' \in Jobs
  <2>1. CASE VerifyList(v)
    <3>1. PICK next \in Tables : job' = [job EXCEPT ![v] = [table |-> next, todo |-> Unverified(next)]]
      BY <2>1 DEF VerifyList, Tables
    <3>2. Unverified(next) \in SUBSET (Tables \X Keys)
      BY <1>2 DEF Unverified
    <3> QED BY <1>2, <3>1, <3>2
  <2>2. CASE VerifyDies(v)
    BY <1>2, <2>2 DEF VerifyDies, Idle
  <2>3. CASE job' = [job EXCEPT ![v].todo = @ \ {r}]
    <3>1. PICK j : j = job[v]
      OBVIOUS
    <3>2. job' = [job EXCEPT ![v] = [j EXCEPT !.todo = j.todo \ {r}]]
      BY <1>2, <2>3, <3>1
    <3>3. [j EXCEPT !.todo = j.todo \ {r}]
             \in [table : Tables \cup {None}, todo : SUBSET (Tables \X Keys)]
      BY <1>2, <3>1
    <3> QED BY <1>2, <3>2, <3>3
  <2> QED BY <2>1, <2>2, <2>3 DEF VerifyErrs, Stamp
<1>4. /\ DOMAIN rows' = DOMAIN rows /\ rows' \in [DOMAIN rows -> IntakeRow]
      /\ \A q \in DOMAIN rows :
             /\ rows'[q].contact = rows[q].contact /\ rows'[q].primary = rows[q].primary
             /\ rows'[q].addr = rows[q].addr /\ rows'[q].dnm = rows[q].dnm
  <2>1. CASE a \in Answers /\ Stamp(v, r, a)
    <3>1. PICK x : x = [rows[r] EXCEPT !.answer = a]
      OBVIOUS
    <3>2. rows' = [rows EXCEPT ![r] = x]
      BY <2>1, <3>1 DEF Stamp
    <3>3. r \in DOMAIN rows =>
            /\ x \in IntakeRow /\ x.contact = rows[r].contact /\ x.primary = rows[r].primary
            /\ x.addr = rows[r].addr /\ x.dnm = rows[r].dnm
      <4> SUFFICES ASSUME r \in DOMAIN rows
                   PROVE  /\ x \in IntakeRow /\ x.contact = rows[r].contact
                          /\ x.primary = rows[r].primary
                          /\ x.addr = rows[r].addr /\ x.dnm = rows[r].dnm
        OBVIOUS
      <4>1. PICK y : y = rows[r]
        OBVIOUS
      <4>2. y \in IntakeRow /\ x = [y EXCEPT !.answer = a]
        BY <1>2, <3>1, <4>1
      <4> QED BY <2>1, <4>1, <4>2 DEF IntakeRow
    <3> QED BY <1>2, <3>2, <3>3
  <2>2. CASE rows' = rows
    BY <1>2, <2>2
  <2> QED BY <2>1, <2>2 DEF VerifyList, VerifyDies, VerifyErrs
<1> QED BY <1>1, <1>3, <1>4, AnswersKeep

-----------------------------------------------------------------------------
(* The steps that leave the book alone.                                     *)
LEMMA ReadKeeps ==
    ASSUME IInv, NEW l \in Loaders, LoadRead(l)
    PROVE  IInv'
<1>1. PICK f \in world.files :
        /\ TableOf(f.source) # None
        /\ load' = [load EXCEPT ![l] =
             [file |-> f, known |-> {r[2] : r \in {r \in DOMAIN rows : r[1] = f.source}},
              stones |-> Stones(Accepted(f, {r[2] : r \in {r \in DOMAIN rows : r[1] = f.source}}))]]
  BY DEF LoadRead
<1>2. PICK known : known = {r[2] : r \in {r \in DOMAIN rows : r[1] = f.source}}
  OBVIOUS
<1>3. PICK mine : mine = [file |-> f, known |-> known, stones |-> Stones(Accepted(f, known))]
  OBVIOUS
<1>4. load' = [load EXCEPT ![l] = mine]
  BY <1>1, <1>2, <1>3
<1>5. swapped /\ UNCHANGED <<world, old, rows, contacts, tombs, job>>
  BY DEF LoadRead
<1>6. f \in ListFile
  BY WorldIs DEF IInv
<1>7. known \in SUBSET Keys /\ Stones(Accepted(f, known)) \in SUBSET Tomb
  BY <1>2 DEF IInv, TypeOK, Stones
<1>8. mine \in [file : ListFile \cup {None}, known : SUBSET Keys, stones : SUBSET Tomb]
  BY <1>3, <1>6, <1>7
<1>9. LoadSound(mine)
  <2>1. ASSUME NEW t \in tombs, NEW m \in Accepted(f, known), Names(t, m)
        PROVE  t \in mine.stones
    BY <1>3, <2>1 DEF Stones
  <2>2. mine.file = f /\ mine.known = known
    BY <1>3
  <2> QED BY <1>1, <2>1, <2>2 DEF LoadSound
<1>10. TypeOK'
  <2>1. load' \in [Loaders -> [file : ListFile \cup {None}, known : SUBSET Keys,
                               stones : SUBSET Tomb]]
    BY <1>4, <1>8 DEF IInv, TypeOK
  <2> QED BY <1>5, <2>1 DEF IInv, TypeOK, old
<1>11. BeforeTheSwap' /\ SeedsApart' /\ Named' /\ PhonesApart' /\ Absorbed'
  BY <1>5 DEF IInv, BeforeTheSwap, SeedsApart, Named, PhonesApart, Absorbed, Businesses, old
<1>12. LoadsSound'
  <2>1. \A ld : LoadSound(ld)' = LoadSound(ld)
    BY <1>5 DEF LoadSound, Living, Businesses
  <2>2. ASSUME NEW x \in Loaders, load'[x] # NoLoad
        PROVE  LoadSound(load'[x])
    <3>1. CASE x = l
      BY <1>4, <1>9, <3>1 DEF IInv, TypeOK
    <3>2. CASE x # l
      BY <1>4, <2>2, <3>2 DEF IInv, TypeOK, LoadsSound
    <3> QED BY <3>1, <3>2
  <2> QED BY <1>5, <2>1, <2>2 DEF LoadsSound, LoadSound, Living, Businesses, old
<1> QED BY <1>10, <1>11, <1>12 DEF IInv

LEMMA AbortKeeps ==
    ASSUME IInv, NEW l \in Loaders, LoadAborts(l)
    PROVE  IInv'
<1>1. /\ load' = [load EXCEPT ![l] = NoLoad]
      /\ UNCHANGED <<world, old, rows, contacts, tombs, job>>
  BY DEF LoadAborts
<1>2. TypeOK'
  <2>1. load' \in [Loaders -> [file : ListFile \cup {None}, known : SUBSET Keys,
                               stones : SUBSET Tomb]]
    BY <1>1 DEF IInv, TypeOK, NoLoad
  <2> QED BY <1>1, <2>1 DEF IInv, TypeOK, old
<1>3. \A x \in Loaders : load'[x] \in {load[x], NoLoad}
  BY <1>1 DEF IInv, TypeOK
<1>4. BeforeTheSwap' /\ SeedsApart' /\ Named' /\ PhonesApart' /\ Absorbed'
  BY <1>1, <1>3 DEF IInv, BeforeTheSwap, SeedsApart, Named, PhonesApart, Absorbed, Businesses, old
<1>5. Grows
  BY <1>1 DEF Grows, Businesses
<1>6. LoadsSound'
  BY <1>1, <1>3, <1>5, LoadsStaySound DEF IInv, old
<1> QED BY <1>2, <1>4, <1>6 DEF IInv

LEMMA SwapKeeps ==
    ASSUME IInv, EnsureSwapped
    PROVE  IInv'
<1>1. /\ ~swapped /\ legacy = {} /\ swapped' = TRUE
      /\ UNCHANGED <<world, legacy, pieces, rows, contacts, tombs, moved, load, job>>
  BY DEF EnsureSwapped
<1>2. /\ DOMAIN contacts = {} /\ pieces = world.pieces /\ legacy = world.legacy
      /\ \A l \in Loaders : load[l] = NoLoad
  BY <1>1 DEF IInv, BeforeTheSwap
<1>3. DOMAIN pieces = {}
  BY <1>1, <1>2, WorldIs DEF IInv, Table
<1>4. TypeOK'
  BY <1>1 DEF IInv, TypeOK
<1>5. BeforeTheSwap' /\ SeedsApart' /\ PhonesApart' /\ Absorbed' /\ LoadsSound'
  BY <1>1, <1>2 DEF IInv, BeforeTheSwap, SeedsApart, PhonesApart, Absorbed, LoadsSound, Businesses
<1>6. Named'
  BY <1>1, <1>3 DEF IInv, Named, Businesses
<1> QED BY <1>4, <1>5, <1>6 DEF IInv

LEMMA FinishKeeps ==
    ASSUME IInv, WaveFinishes
    PROVE  IInv'
<1>1. /\ world' = [world EXCEPT !.waveActive = FALSE]
      /\ UNCHANGED <<old, rows, contacts, tombs, load, job>>
  BY DEF WaveFinishes
<1>2. PICK w \in Worlds : world \in {w, [w EXCEPT !.waveActive = FALSE]}
  BY DEF IInv, TypeOK
<1>3. world' = [w EXCEPT !.waveActive = FALSE]
  BY <1>1, <1>2
<1>4. /\ world'.legacy = world.legacy /\ world'.pieces = world.pieces
      /\ world'.files = world.files
  BY <1>1
<1>5. TypeOK'
  <2>1. \E x \in Worlds : world' \in {x, [x EXCEPT !.waveActive = FALSE]}
    BY <1>3
  <2>2. /\ swapped' \in BOOLEAN /\ legacy' \in {world'.legacy, {}}
        /\ DOMAIN rows' \subseteq Tables \X Keys /\ rows' \in [DOMAIN rows' -> IntakeRow]
        /\ DOMAIN contacts' \subseteq Ids /\ contacts' \in [DOMAIN contacts' -> Contact]
        /\ tombs' \subseteq Tomb
        /\ moved' \subseteq [from : Keys, to : Tables \X Keys]
        /\ load' \in [Loaders -> [file : ListFile \cup {None}, known : SUBSET Keys,
                                  stones : SUBSET Tomb]]
        /\ job' \in [Verifiers -> [table : Tables \cup {None}, todo : SUBSET (Tables \X Keys)]]
    BY <1>1, <1>4 DEF IInv, TypeOK, old
  <2> QED BY <2>1, <2>2 DEF TypeOK
<1>6. BeforeTheSwap' /\ SeedsApart' /\ Named' /\ PhonesApart' /\ Absorbed'
  BY <1>1, <1>4 DEF IInv, BeforeTheSwap, SeedsApart, Named, PhonesApart, Absorbed, Businesses, old
<1>7. Grows
  BY <1>1 DEF Grows, Businesses
<1>8. LoadsSound'
  BY <1>1, <1>4, <1>7, LoadsStaySound DEF IInv, old
<1> QED BY <1>5, <1>6, <1>8 DEF IInv

(* A deletion takes a contact with its rows and pieces, and leaves the      *)
(* tombstones.                                                              *)
LEMMA EraseKeeps ==
    ASSUME IInv, NEW c \in Ids, Erase(c)
    PROVE  IInv'
<1>1. /\ c \in Businesses /\ \A l \in Loaders : load[l] = NoLoad
      /\ contacts' = [d \in DOMAIN contacts \ {c} |-> contacts[d]]
      /\ rows' = [r \in {r \in DOMAIN rows : rows[r].contact # c} |-> rows[r]]
      /\ pieces' = [p \in {p \in DOMAIN pieces : pieces[p] # c} |-> pieces[p]]
      /\ moved' = {m \in moved : m.to # c}
      /\ UNCHANGED <<world, swapped, legacy, tombs, load, job>>
  BY DEF Erase, Businesses
<1>2. swapped
  BY <1>1, ContactTyped DEF Businesses
<1>3. /\ DOMAIN contacts' = DOMAIN contacts \ {c}
      /\ \A d \in DOMAIN contacts' : contacts'[d] = contacts[d]
      /\ DOMAIN rows' = {r \in DOMAIN rows : rows[r].contact # c}
      /\ \A r \in DOMAIN rows' : rows'[r] = rows[r]
      /\ DOMAIN pieces' \subseteq DOMAIN pieces
      /\ \A p \in DOMAIN pieces' : pieces'[p] = pieces[p] /\ pieces[p] # c
  BY <1>1
<1>4. Businesses' = Businesses \ {c}
  BY <1>3 DEF Businesses
<1>5. TypeOK'
  <2>1. rows' \in [DOMAIN rows' -> IntakeRow] /\ contacts' \in [DOMAIN contacts' -> Contact]
    <3>1. \A r \in DOMAIN rows : rows[r] \in IntakeRow
      BY DEF IInv, TypeOK
    <3>2. \A d \in DOMAIN contacts : contacts[d] \in Contact
      BY DEF IInv, TypeOK
    <3> QED BY <1>1, <3>1, <3>2
  <2>2. /\ DOMAIN rows' \subseteq Tables \X Keys /\ DOMAIN contacts' \subseteq Ids
        /\ moved' \subseteq [from : Keys, to : Tables \X Keys]
    BY <1>1, <1>3 DEF IInv, TypeOK
  <2>3. /\ \E w \in Worlds : world' \in {w, [w EXCEPT !.waveActive = FALSE]}
        /\ swapped' \in BOOLEAN /\ legacy' \in {world'.legacy, {}} /\ tombs' \subseteq Tomb
        /\ load' \in [Loaders -> [file : ListFile \cup {None}, known : SUBSET Keys,
                                  stones : SUBSET Tomb]]
        /\ job' \in [Verifiers -> [table : Tables \cup {None}, todo : SUBSET (Tables \X Keys)]]
    BY <1>1 DEF IInv, TypeOK
  <2> QED BY <2>1, <2>2, <2>3 DEF TypeOK
<1>6. BeforeTheSwap' /\ LoadsSound'
  BY <1>1, <1>2 DEF BeforeTheSwap, LoadsSound
<1>7. SeedsApart'
  BY <1>3, <1>4 DEF IInv, SeedsApart, Businesses
<1>8. Named'
  <2>1. ASSUME NEW d \in Businesses'
        PROVE  /\ d \in DOMAIN rows' /\ rows'[d].contact = d /\ rows'[d].primary
               /\ contacts'[d].stamp = None => contacts'[d].addr = rows'[d].addr
    <3>1. d \in Businesses /\ d # c /\ contacts'[d] = contacts[d]
      BY <1>3, <1>4 DEF Businesses
    <3>2. d \in DOMAIN rows /\ rows[d].contact = d
      BY <3>1 DEF IInv, Named
    <3>3. d \in DOMAIN rows' /\ rows'[d] = rows[d]
      BY <1>3, <3>1, <3>2
    <3> QED BY <3>1, <3>3 DEF IInv, Named
  <2>2. \A r \in DOMAIN rows' :
          /\ rows'[r].contact \in Businesses' /\ r[1] = Prefix(r[2])
          /\ rows'[r].primary => rows'[r].contact = r
    BY <1>3, <1>4 DEF IInv, Named
  <2>3. \A p \in DOMAIN pieces' : pieces'[p] \in Businesses'
    BY <1>2, <1>3, <1>4 DEF IInv, Named
  <2> QED BY <2>1, <2>2, <2>3 DEF Named
<1>9. PhonesApart'
  BY <1>3, <1>4 DEF IInv, PhonesApart, Businesses
<1>10. Absorbed'
  <2>1. ASSUME NEW r \in DOMAIN rows', rows'[r].dnm
        PROVE  "mail" \in contacts'[rows'[r].contact].off
    <3>1. r \in DOMAIN rows /\ rows'[r] = rows[r] /\ rows[r].contact # c
      BY <1>3
    <3>2. rows[r].contact \in DOMAIN contacts'
      BY <1>3, <3>1 DEF IInv, Named, Businesses
    <3> QED BY <1>3, <2>1, <3>1, <3>2 DEF IInv, Absorbed
  <2>2. \A t \in tombs', d \in Businesses' :
          (t.phone # None /\ t.phone = contacts'[d].phone) \/ (t.key # None /\ t.key = d[2])
              => t.channel \in contacts'[d].off
    BY <1>1, <1>3, <1>4 DEF IInv, Absorbed, Businesses
  <2> QED BY <2>1, <2>2 DEF Absorbed
<1> QED BY <1>5, <1>6, <1>7, <1>8, <1>9, <1>10 DEF IInv

-----------------------------------------------------------------------------
LEMMA StepKeeps == IInv /\ [Next]_vars => IInv'
<1> SUFFICES ASSUME IInv, [Next]_vars PROVE IInv'
  OBVIOUS
<1>1. CASE EnsureSwapped
  BY <1>1, SwapKeeps
<1>2. CASE WaveFinishes
  BY <1>2, FinishKeeps
<1>3. CASE \E fix \in world.fixes : Migrate(fix)
  BY <1>3, MigrateKeeps
<1>4. CASE \E l \in Loaders : LoadRead(l) \/ LoadCommit(l) \/ LoadAborts(l)
  BY <1>4, ReadKeeps, LoadKeeps, AbortKeeps
<1>5. CASE \E c \in Ids : Erase(c) \/ \E ch \in DOMAIN Columns : Suppress(c, ch)
  BY <1>5, EraseKeeps, SuppressKeeps
<1>6. CASE \E c \in Ids, a \in Corrected : UpdateAddress(c, a)
  BY <1>6, UpdateKeeps
<1>7. CASE \E s \in Seeds : RetireSeed(s) \/ \E a \in Addrs : EnsureSeeds(s, a)
  BY <1>7, RetireKeeps, EnsureSeedsKeeps
<1>8. CASE \E v \in Verifiers :
             \/ VerifyList(v) \/ Inherit(v) \/ VerifyDies(v)
             \/ \E r \in Ids : VerifyErrs(v, r) \/ \E a \in Answers : Stamp(v, r, a)
  <2>1. PICK v \in Verifiers :
             \/ VerifyList(v) \/ Inherit(v) \/ VerifyDies(v)
             \/ \E r \in Ids : VerifyErrs(v, r) \/ \E a \in Answers : Stamp(v, r, a)
    BY <1>8
  <2>2. CASE VerifyList(v) \/ VerifyDies(v)
    BY <2>2, VerifyKeeps
  <2>3. CASE Inherit(v)
    BY <2>3, InheritKeeps
  <2>4. CASE \E r \in Ids : VerifyErrs(v, r) \/ \E a \in Answers : Stamp(v, r, a)
    BY <2>4, VerifyKeeps
  <2> QED BY <2>1, <2>2, <2>3, <2>4
<1>9. CASE UNCHANGED vars
  <2>1. TypeOK' /\ BeforeTheSwap'
    BY <1>9 DEF IInv, vars, TypeOK, BeforeTheSwap
  <2>2. SeedsApart' /\ Named' /\ PhonesApart' /\ Absorbed'
    BY <1>9 DEF IInv, vars, SeedsApart, Named, PhonesApart, Absorbed, Businesses
  <2>3. LoadsSound'
    BY <1>9, LoadsStaySound DEF IInv, vars, Grows, Businesses
  <2> QED BY <2>1, <2>2, <2>3 DEF IInv
<1> QED BY <1>1, <1>2, <1>3, <1>4, <1>5, <1>6, <1>7, <1>8, <1>9 DEF Next

LEMMA Invariance == Spec => []IInv
<1>1. Init => IInv
  BY InitInv
<1>2. IInv /\ [Next]_vars => IInv'
  BY StepKeeps
<1> QED BY <1>1, <1>2, PTL DEF Spec

-----------------------------------------------------------------------------
(* The tables stay well formed through merges, loads and verifications.     *)
THEOREM TypeCorrect == Spec => []TypeOK
<1>1. IInv => TypeOK
  BY DEF IInv
<1> QED BY <1>1, Invariance, PTL

(* Every row and piece names a live contact, a phone is one business, and   *)
(* every business has one primary row, whose address is its own until       *)
(* somebody stamps another: with jobs/migrate_grain, the attach and create  *)
(* of service/contacts.load_list and verify_addresses' inheritance          *)
(* interleaved as they may be, loads that read before others commit         *)
(* included.                                                                *)
THEOREM GrainHolds == Spec => []BusinessGrain
<1>1. IInv => BusinessGrain
  <2> SUFFICES ASSUME IInv PROVE BusinessGrain
    OBVIOUS
  <2>1. \A r \in DOMAIN rows : rows[r].contact \in DOMAIN contacts
    BY DEF IInv, Named, Businesses
  <2>2. swapped => \A p \in DOMAIN pieces : pieces[p] \in DOMAIN contacts
    BY DEF IInv, Named, Businesses
  <2>3. PhonesUnique(contacts)
    <3>1. \A c \in DOMAIN contacts : c \in Businesses \/ contacts[c].phone = None
      BY DEF IInv, SeedsApart, Businesses
    <3> QED BY <3>1 DEF IInv, PhonesApart, PhonesUnique
  <2>4. ASSUME NEW c \in DOMAIN contacts \ Seeds
        PROVE  \E r \in DOMAIN rows :
                 /\ rows[r].contact = c /\ rows[r].primary
                 /\ contacts[c].stamp = None => contacts[c].addr = rows[r].addr
                 /\ \A q \in DOMAIN rows : rows[q].contact = c /\ rows[q].primary => q = r
    <3>1. /\ c \in DOMAIN rows /\ rows[c].contact = c /\ rows[c].primary
          /\ contacts[c].stamp = None => contacts[c].addr = rows[c].addr
      BY DEF IInv, Named, Businesses
    <3>2. \A q \in DOMAIN rows : rows[q].contact = c /\ rows[q].primary => q = c
      BY DEF IInv, Named
    <3> QED BY <3>1, <3>2
  <2> QED BY <2>1, <2>2, <2>3, <2>4 DEF BusinessGrain
<1> QED BY <1>1, Invariance, PTL

(* No contact that a do_not_mail row or a tombstone names is on its         *)
(* channel, though the tombstones a load uses were read before others wrote *)
(* more: one it has not read is of a contact that lives until it commits,   *)
(* so the load attaches to it, or fails.                                    *)
THEOREM SuppressionHolds == Spec => []SuppressionSurvives
<1>1. IInv => SuppressionSurvives
  <2> SUFFICES ASSUME IInv PROVE SuppressionSurvives
    OBVIOUS
  <2>1. \A r \in DOMAIN rows : rows[r].dnm => "mail" \in contacts[rows[r].contact].off
    BY DEF IInv, Absorbed
  <2>2. ASSUME NEW t \in tombs, NEW c \in DOMAIN contacts \ Seeds,
               \/ t.phone # None /\ t.phone = contacts[c].phone
               \/ t.key # None /\ t.key = PrimaryKey(c)
        PROVE  t.channel \in contacts[c].off
    <3>1. PrimaryKey(c) = c[2]
      BY PrimaryKeyIs
    <3> QED BY <2>2, <3>1 DEF IInv, Absorbed, Businesses
  <2> QED BY <2>1, <2>2 DEF SuppressionSurvives
<1> QED BY <1>1, Invariance, PTL

-----------------------------------------------------------------------------
(* Who takes an operator's stamp away: nobody.                              *)
LEMMA StampStays ==
    ASSUME IInv, Next, NEW c \in Businesses, c \in DOMAIN contacts',
           contacts[c].stamp = "operator"
    PROVE  contacts'[c].stamp = "operator"
<1>1. c \in DOMAIN contacts /\ c \notin Seeds /\ contacts[c] \in Contact /\ swapped
  BY ContactTyped DEF Businesses
<1>2. CASE contacts' = contacts
  BY <1>2
<1>3. CASE \E fix \in world.fixes : Migrate(fix)
  BY <1>1, <1>3 DEF Migrate
<1>4. ASSUME NEW l \in Loaders, LoadCommit(l)
      PROVE  contacts'[c].stamp = "operator"
  <2>1. PICK s, groups : contacts'[c] = Attached(c, groups, s)
    BY <1>1, <1>4, LoadCommitted
  <2> QED BY <1>1, <2>1, AttachedKept DEF IInv
<1>5. ASSUME NEW d \in Ids, Erase(d)
      PROVE  contacts'[c].stamp = "operator"
  BY <1>1, <1>5 DEF Erase
<1>6. ASSUME NEW d \in Ids, NEW ch \in DOMAIN Columns, Suppress(d, ch)
      PROVE  contacts'[c].stamp = "operator"
  <2>1. contacts' = [contacts EXCEPT ![d].off = @ \cup Columns[ch]]
    BY <1>6 DEF Suppress
  <2> QED BY <1>1, <2>1 DEF IInv, TypeOK, Contact
<1>7. ASSUME NEW d \in Ids, NEW a \in Corrected, UpdateAddress(d, a)
      PROVE  contacts'[c].stamp = "operator"
  <2>1. contacts' = [contacts EXCEPT ![d].addr = a, ![d].stamp = "operator"]
    BY <1>7 DEF UpdateAddress
  <2> QED BY <1>1, <2>1 DEF IInv, TypeOK, Contact
<1>8. ASSUME NEW s \in Seeds, RetireSeed(s) \/ \E a \in Addrs : EnsureSeeds(s, a)
      PROVE  contacts'[c].stamp = "operator"
  <2>1. c # s
    BY <1>1
  <2>2. contacts'[c] = contacts[c]
    BY <1>1, <1>8, <2>1 DEF RetireSeed, EnsureSeeds, IInv, TypeOK
  <2> QED BY <2>2
<1>9. ASSUME NEW v \in Verifiers, Inherit(v)
      PROVE  contacts'[c].stamp = "operator"
  <2>1. Earned(c) = {}
    BY IntakeAssumption DEF Earned
  <2> QED BY <1>1, <1>9, <2>1 DEF Inherit
<1>10. CASE EnsureSwapped \/ WaveFinishes
            \/ \E l \in Loaders : LoadRead(l) \/ LoadAborts(l)
  BY <1>2, <1>10 DEF EnsureSwapped, WaveFinishes, LoadRead, LoadAborts
<1>11. CASE \E v \in Verifiers :
              \/ VerifyList(v) \/ VerifyDies(v)
              \/ \E r \in Ids : VerifyErrs(v, r) \/ \E a \in Answers : Stamp(v, r, a)
  BY <1>2, <1>11 DEF VerifyList, VerifyDies, VerifyErrs, Stamp
<1> QED BY <1>3, <1>4, <1>5, <1>6, <1>7, <1>8, <1>9, <1>10, <1>11 DEF Next

(* An address an operator wrote (service/contacts.update_address) outlives  *)
(* every verification, load and suppression: verify_addresses' inheritance  *)
(* guards on the contact's stamp as it is when it writes.                   *)
THEOREM CorrectionStands == Spec => CorrectionKept
<1> DEFINE Kept == \A c \in (DOMAIN contacts \cap DOMAIN contacts') \ Seeds :
                       contacts[c].stamp = "operator" =>
                           contacts'[c].stamp = "operator" /\ contacts'[c].addr \in Corrected
<1>1. IInv /\ IInv' /\ [Next]_vars => [Kept]_vars
  <2> SUFFICES ASSUME IInv, IInv', Next,
                      NEW c \in (DOMAIN contacts \cap DOMAIN contacts') \ Seeds,
                      contacts[c].stamp = "operator"
               PROVE  contacts'[c].stamp = "operator" /\ contacts'[c].addr \in Corrected
    OBVIOUS
  <2>1. contacts'[c].stamp = "operator"
    BY StampStays DEF Businesses
  <2>2. SeedsApart' /\ c \in Businesses'
    BY DEF IInv, Businesses
  <2> QED BY <2>1, <2>2 DEF SeedsApart
<1>2. Spec => []IInv
  BY Invariance
<1> QED BY <1>1, <1>2, PTL DEF Spec, CorrectionKept

-----------------------------------------------------------------------------
(* The trims of an audience.                                                *)
LEMMA KeeperIsOne ==
    ASSUME NEW sharing, sharing # {}
    PROVE  Keeper(sharing) \in sharing
<1> DEFINE phoned == {c \in sharing : contacts[c].phone # None}
<1>1. CASE phoned # {}
  <2>1. Keeper(sharing) = CHOOSE c \in phoned : TRUE
    BY <1>1 DEF Keeper
  <2> QED BY <1>1, <2>1
<1>2. CASE phoned = {}
  <2>1. Keeper(sharing) = CHOOSE c \in sharing : TRUE
    BY <1>2 DEF Keeper
  <2> QED BY <2>1
<1> QED BY <1>1, <1>2

LEMMA DedupeKeepsOne ==
    ASSUME NEW kept
    PROVE  /\ Dedupe(kept) \subseteq kept
           /\ \A c \in kept : \E d \in Dedupe(kept) : d = c \/ PointOf(d) = PointOf(c)
           /\ \A c, d \in Dedupe(kept) :
                 c # d => PointOf(c) = {} \/ PointOf(c) # PointOf(d)
<1> DEFINE Sharing(point) == {d \in kept : PointOf(d) = point}
<1>1. \A c : c \in Dedupe(kept) <=>
             c \in kept /\ (PointOf(c) = {} \/ c = Keeper(Sharing(PointOf(c))))
  BY DEF Dedupe
<1>2. ASSUME NEW c \in kept
      PROVE  \E d \in Dedupe(kept) : d = c \/ PointOf(d) = PointOf(c)
  <2>1. PICK point : point = PointOf(c)
    OBVIOUS
  <2>2. c \in Sharing(point)
    BY <2>1
  <2>3. PICK d : d = Keeper(Sharing(point))
    OBVIOUS
  <2>4. d \in Sharing(point)
    <3>1. Sharing(point) # {}
      BY <2>2
    <3> HIDE DEF Sharing
    <3> QED BY <2>3, <3>1, KeeperIsOne
  <2>5. d \in kept /\ PointOf(d) = point
    BY <2>4
  <2> HIDE DEF Sharing
  <2>6. d \in Dedupe(kept)
    BY <1>1, <2>3, <2>5
  <2> QED BY <2>1, <2>5, <2>6
<1> HIDE DEF Sharing
<1>3. ASSUME NEW c \in Dedupe(kept), NEW d \in Dedupe(kept), PointOf(c) # {},
             PointOf(c) = PointOf(d)
      PROVE  c = d
  BY <1>1, <1>3
<1> QED BY <1>1, <1>2, <1>3

(* service/waves.resolve_audience: whatever the rule and its limit chose,   *)
(* the trims lose no mail and send none twice to one delivery point, for    *)
(* any rows, answers and points.                                            *)
THEOREM MailIsKept == Spec => []MailIsNeverLost
<1>1. MailIsNeverLost
  <2> SUFFICES ASSUME NEW chosen \in SUBSET Eligible,
                      NEW mailed, mailed = ResolveAudience(chosen) \ SeedContacts
               PROVE  /\ \A c \in chosen : ~Undeliverable(c) =>
                            c \in mailed \/ \E d \in mailed :
                                PointOf(d) = PointOf(c) /\ ~Undeliverable(d)
                      /\ \A c, d \in mailed :
                            c # d => PointOf(c) = {} \/ PointOf(c) # PointOf(d)
    BY DEF MailIsNeverLost
  <2>1. PICK kept : kept = ExcludeUndeliverable(chosen)
    OBVIOUS
  <2>2. /\ \A c : c \in kept <=> c \in chosen /\ ~Undeliverable(c)
        /\ kept \cap SeedContacts = {}
    BY <2>1 DEF ExcludeUndeliverable, Eligible, SeedContacts
  <2>3. Dedupe(kept) \subseteq kept
    BY DedupeKeepsOne
  <2>4. mailed = Dedupe(kept)
    BY <2>1, <2>2, <2>3 DEF ResolveAudience
  <2>5. ASSUME NEW c \in chosen, ~Undeliverable(c)
        PROVE  c \in mailed \/ \E d \in mailed : PointOf(d) = PointOf(c) /\ ~Undeliverable(d)
    <3>1. PICK d \in Dedupe(kept) : d = c \/ PointOf(d) = PointOf(c)
      BY <2>2, <2>5, DedupeKeepsOne
    <3>2. ~Undeliverable(d)
      BY <2>2, <2>3
    <3> QED BY <2>4, <3>1, <3>2
  <2>6. \A c, d \in mailed : c # d => PointOf(c) = {} \/ PointOf(c) # PointOf(d)
    BY <2>4, DedupeKeepsOne
  <2> QED BY <2>5, <2>6
<1> QED BY <1>1, PTL

-----------------------------------------------------------------------------
(* The merge and the loads pick alike: groups that differ in what pick does *)
(* not look at make the same business.                                      *)
Twins(l, m) ==
    /\ l.key = m.key /\ l.phone = m.phone /\ l.addr = m.addr
    /\ l.email = m.email /\ l.dnm = m.dnm

KeysApart(g) == \A l, m \in g : l.key \in Nat /\ (l.key = m.key => l = m)

Alike(g, h) ==
    /\ IsFiniteSet(g) /\ IsFiniteSet(h) /\ g # {} /\ h # {}
    /\ KeysApart(g) /\ KeysApart(h)
    /\ \A l \in g : \E m \in h : Twins(l, m)
    /\ \A m \in h : \E l \in g : Twins(m, l)

Frequency(g, addr) == Cardinality({m \in g : m.addr = addr})
Most(g, l)         == l \in g /\ \A m \in g : Frequency(g, m.addr) <= Frequency(g, l.addr)

LEMMA AlikeTurns == ASSUME NEW g, NEW h, Alike(g, h) PROVE Alike(h, g)
BY DEF Alike

LEMMA FrequencyAlike ==
    ASSUME NEW g, NEW h, Alike(g, h), NEW addr
    PROVE  Frequency(g, addr) = Frequency(h, addr)
<1> DEFINE G == {m \in g : m.addr = addr}
           H == {m \in h : m.addr = addr}
           f == [l \in G |-> CHOOSE m \in h : Twins(l, m)]
<1>1. ASSUME NEW l \in G
      PROVE  f[l] \in H /\ Twins(l, f[l])
  <2>1. \E m \in h : Twins(l, m)
    BY DEF Alike
  <2>2. (CHOOSE m \in h : Twins(l, m)) \in h /\ Twins(l, CHOOSE m \in h : Twins(l, m))
    BY <2>1
  <2>3. f[l] = CHOOSE m \in h : Twins(l, m)
    OBVIOUS
  <2> HIDE DEF f
  <2>4. f[l] \in h /\ Twins(l, f[l])
    BY <2>2, <2>3
  <2>5. f[l].addr = addr
    BY <2>4 DEF Twins
  <2> QED BY <2>4, <2>5
<1>2. DOMAIN f = G /\ f = [l \in G |-> f[l]]
  OBVIOUS
<1> HIDE DEF f
<1>3. f \in [G -> H]
  BY <1>1, <1>2
<1>4. \A l, m \in G : f[l] = f[m] => l = m
  BY <1>1 DEF Alike, KeysApart, Twins
<1>5. \A m \in H : \E l \in G : f[l] = m
  <2>1. ASSUME NEW m \in H
        PROVE  \E l \in G : f[l] = m
    <3>1. PICK l \in g : Twins(m, l)
      BY DEF Alike
    <3>2. l \in G
      BY <3>1 DEF Twins
    <3>3. f[l] \in h /\ f[l].key = m.key /\ m \in h
      BY <1>1, <3>1, <3>2 DEF Twins
    <3>4. f[l] = m
      BY <3>3 DEF Alike, KeysApart
    <3> QED BY <3>2, <3>4
  <2> QED BY <2>1
<1>6. f \in Bijection(G, H)
  BY <1>3, <1>4, <1>5 DEF Bijection, Injection, Surjection, IsInjective
<1>7. ExistsBijection(G, H)
  BY <1>6 DEF ExistsBijection
<1>8. IsFiniteSet(G)
  <2>1. G \in SUBSET g
    OBVIOUS
  <2> QED BY <2>1, FS_Subset DEF Alike
<1>9. Cardinality(H) = Cardinality(G)
  <2> HIDE DEF G, H
  <2> QED BY <1>7, <1>8, FS_Bijection
<1> QED BY <1>9 DEF Frequency

(* pick_winner: a row of a most frequent address, and of those the least.   *)
LEMMA PickedIsLeastOfMost ==
    ASSUME NEW g, NEW h, Alike(g, h)
    PROVE  Most(g, PickWinner(g)) /\ \A m : Most(g, m) => PickWinner(g).key <= m.key
<1> DEFINE tied == {l \in g : \A m \in g : Frequency(g, m.addr) <= Frequency(g, l.addr)}
<1>1. PickWinner(g) = CHOOSE l \in tied : \A m \in tied : l.key <= m.key
  BY DEF PickWinner, Frequency
<1>2. \A l : Most(g, l) <=> l \in tied
  BY DEF Most
<1>3. tied # {}
  <2> DEFINE counts == {Frequency(g, l.addr) : l \in g}
             n      == Cardinality(g)
  <2>1. ASSUME NEW l \in g
        PROVE  Frequency(g, l.addr) \in Nat /\ Frequency(g, l.addr) <= n
    <3>1. {m \in g : m.addr = l.addr} \in SUBSET g
      OBVIOUS
    <3>2. /\ IsFiniteSet({m \in g : m.addr = l.addr})
          /\ Cardinality({m \in g : m.addr = l.addr}) <= Cardinality(g)
      BY <3>1, FS_Subset DEF Alike
    <3> QED BY <3>2, FS_CardinalityType DEF Frequency
  <2>2. n \in Nat
    BY FS_CardinalityType DEF Alike
  <2> HIDE DEF n
  <2>3. counts \subseteq Nat /\ counts # {} /\ \A t \in counts : t <= n
    BY <2>1 DEF Alike
  <2>4. PICK t \in counts : \A u \in counts : u <= t
    <3> HIDE DEF counts
    <3> QED BY <2>2, <2>3, MostOf
  <2> QED BY <2>4
<1>4. tied \subseteq g /\ \A l \in tied : l.key \in Nat
  BY DEF Alike, KeysApart
<1> HIDE DEF tied
<1>5. \E l \in tied : \A m \in tied : l.key <= m.key
  BY <1>3, <1>4, LeastKey
<1>6. PickWinner(g) \in tied /\ \A m \in tied : PickWinner(g).key <= m.key
  BY <1>1, <1>5
<1> QED BY <1>2, <1>6

LEMMA TwinIsMost ==
    ASSUME NEW g, NEW h, Alike(g, h), NEW l, Most(g, l)
    PROVE  \E m \in h : Twins(l, m) /\ Most(h, m)
<1>1. PICK m \in h : Twins(l, m)
  BY DEF Alike, Most
<1>2. ASSUME NEW x \in h
      PROVE  Frequency(h, x.addr) <= Frequency(h, m.addr)
  <2>1. PICK y \in g : Twins(x, y)
    BY DEF Alike
  <2>2. Frequency(g, y.addr) <= Frequency(g, l.addr)
    BY DEF Most
  <2>3. y.addr = x.addr /\ l.addr = m.addr
    BY <1>1, <2>1 DEF Twins
  <2> QED BY <2>2, <2>3, FrequencyAlike
<1> QED BY <1>1, <1>2 DEF Most

LEMMA PickedAlike ==
    ASSUME NEW g, NEW h, Alike(g, h)
    PROVE  /\ PickWinner(g) \in g /\ PickWinner(h) \in h
           /\ Twins(PickWinner(g), PickWinner(h))
<1>1. PICK w : w = PickWinner(g)
  OBVIOUS
<1>2. PICK v : v = PickWinner(h)
  OBVIOUS
<1>3. Most(g, w) /\ \A m : Most(g, m) => w.key <= m.key
  BY <1>1, PickedIsLeastOfMost
<1>4. Most(h, v) /\ \A m : Most(h, m) => v.key <= m.key
  BY <1>2, AlikeTurns, PickedIsLeastOfMost
<1>5. PICK m \in h : Twins(w, m) /\ Most(h, m)
  BY <1>3, TwinIsMost
<1>6. PICK u \in g : Twins(v, u) /\ Most(g, u)
  BY <1>4, AlikeTurns, TwinIsMost
<1>7. w \in g /\ v \in h
  BY <1>3, <1>4 DEF Most
<1>8. w.key \in Nat /\ v.key \in Nat /\ w.key = m.key /\ v.key = u.key
  BY <1>5, <1>6, <1>7 DEF Alike, KeysApart, Twins
<1>9. v.key = m.key
  BY <1>3, <1>4, <1>5, <1>6, <1>8
<1>10. v = m
  BY <1>7, <1>9 DEF Alike, KeysApart
<1> QED BY <1>1, <1>2, <1>5, <1>7, <1>10

LEMMA CoalescedAlike ==
    ASSUME NEW g, NEW h, Alike(g, h)
    PROVE  CoalesceEmail(g) = CoalesceEmail(h)
<1> DEFINE G == {l \in g : l.email # None}
           H == {l \in h : l.email # None}
           First(S) == CHOOSE l \in S : \A m \in S : l.key <= m.key
<1>1. /\ CoalesceEmail(g) = IF G = {} \/ PickWinner(g) \in G THEN PickWinner(g).email
                            ELSE First(G).email
      /\ CoalesceEmail(h) = IF H = {} \/ PickWinner(h) \in H THEN PickWinner(h).email
                            ELSE First(H).email
  BY DEF CoalesceEmail
<1>2. /\ PickWinner(g) \in g /\ PickWinner(h) \in h
      /\ PickWinner(g).email = PickWinner(h).email
  BY PickedAlike DEF Twins
<1>3. /\ \A l \in G : \E m \in H : Twins(l, m)
      /\ \A m \in H : \E l \in G : Twins(m, l)
  BY DEF Alike, Twins
<1>4. (G = {} <=> H = {}) /\ (PickWinner(g) \in G <=> PickWinner(h) \in H)
  BY <1>2, <1>3
<1>5. /\ \A l \in G : l.key \in Nat
      /\ \A m \in H : m.key \in Nat
      /\ \A l, m \in H : l.key = m.key => l = m
  BY DEF Alike, KeysApart
<1> HIDE DEF G, H
<1>6. ASSUME G # {}, H # {}
      PROVE  First(G).email = First(H).email
  <2>1. First(G) \in G /\ \A m \in G : First(G).key <= m.key
    BY <1>5, <1>6, LeastKey
  <2>2. First(H) \in H /\ \A m \in H : First(H).key <= m.key
    BY <1>5, <1>6, LeastKey
  <2>3. PICK a \in G : a = First(G)
    BY <2>1
  <2>4. PICK b \in H : b = First(H)
    BY <2>2
  <2> HIDE DEF First
  <2>5. PICK m \in H : Twins(a, m)
    BY <1>3
  <2>6. PICK l \in G : Twins(b, l)
    BY <1>3
  <2>7. a.key <= l.key /\ b.key <= m.key
    BY <2>1, <2>2, <2>3, <2>4
  <2>8. a.key = m.key /\ b.key = l.key /\ a.email = m.email
    BY <2>5, <2>6 DEF Twins
  <2>9. a.key \in Nat /\ b.key \in Nat
    BY <1>5
  <2>10. b.key = m.key
    BY <2>7, <2>8, <2>9
  <2>11. b = m
    BY <1>5, <2>10
  <2> QED BY <2>3, <2>4, <2>8, <2>11
<1> HIDE DEF First
<1> QED BY <1>1, <1>2, <1>4, <1>6

LEMMA BusinessAlike ==
    ASSUME NEW g, NEW h, Alike(g, h), NEW phone, NEW channels
    PROVE  Business(g, phone, channels) = Business(h, phone, channels)
<1>1. PickWinner(g).addr = PickWinner(h).addr
  BY PickedAlike DEF Twins
<1>2. (\E l \in g : l.dnm) <=> (\E l \in h : l.dnm)
  BY DEF Alike, Twins
<1>3. CoalesceEmail(g) = CoalesceEmail(h)
  BY CoalescedAlike
<1> QED BY <1>1, <1>2, <1>3 DEF Business

(* "What makes the one-time migration merge and every later ingest agree"   *)
(* (resolution/pick.py:3-7): a list of fresh licences, loaded into an empty *)
(* base, makes the contacts that the merge of their records makes, for any  *)
(* book that passes preflight.                                              *)
THEOREM MergeIsLoad ==
    ASSUME NEW book, Book(book), Sourced(book),
           \A r \in Part(book, "cslb") : ~r.text /\ r.next = None,
           NEW lines, Keyed(lines),
           \A r \in Part(book, "cslb") : \E m \in lines : Twins(r, m),
           \A m \in lines : \E r \in Part(book, "cslb") : Twins(m, r),
           NEW g \in Groups(lines, "cslb")
    PROVE  /\ Winner(g, "cslb") \in DOMAIN MigratedContacts(book)
           /\ MigratedContacts(book)[Winner(g, "cslb")] = Created(g, "cslb", {})
<1> DEFINE part == Part(book, "cslb")
<1>1. PICK a \in lines : g = {m \in lines : m = a \/ (a.phone # None /\ m.phone = a.phone)}
  BY DEF Groups
<1>2. PICK b \in part : Twins(a, b)
  OBVIOUS
<1>3. PICK f : f = {r \in part : r = b \/ (b.phone # None /\ r.phone = b.phone)}
  OBVIOUS
<1>4. f \in Groups(part, "cslb")
  <2> HIDE DEF part
  <2> QED BY <1>3 DEF Groups
<1>5. f \in Families(book)
  BY <1>4, FamiliesAre DEF Tables
<1>6. Keyed(part)
  BY PartKeyed
<1>7. Alike(f, g)
  <2>1. f \in SUBSET part /\ g \in SUBSET lines
    BY <1>1, <1>3
  <2>2. IsFiniteSet(f) /\ IsFiniteSet(g)
    BY <1>6, <2>1, FS_Subset DEF Keyed
  <2>3. b \in f /\ a \in g
    BY <1>1, <1>3
  <2>4. KeysApart(f) /\ KeysApart(g)
    BY <1>6, <2>1, IntakeAssumption DEF Keyed, KeysApart
  <2>5. ASSUME NEW r \in f
        PROVE  \E m \in g : Twins(r, m)
    <3>1. PICK m \in lines : Twins(r, m)
      BY <2>1
    <3>2. m.phone = r.phone /\ m.key = r.key /\ a.key = b.key /\ a.phone = b.phone
      BY <1>2, <3>1 DEF Twins
    <3>3. r = b => m = a
      BY <3>2 DEF Keyed
    <3> QED BY <1>1, <1>3, <3>1, <3>2, <3>3
  <2>6. ASSUME NEW m \in g
        PROVE  \E r \in f : Twins(m, r)
    <3>1. PICK r \in part : Twins(m, r)
      BY <2>1
    <3>2. m.phone = r.phone /\ m.key = r.key /\ a.key = b.key /\ a.phone = b.phone
      BY <1>2, <3>1 DEF Twins
    <3>3. m = a => r = b
      BY <1>6, <3>2 DEF Keyed
    <3> QED BY <1>1, <1>3, <3>1, <3>2, <3>3
  <2> QED BY <2>2, <2>3, <2>4, <2>5, <2>6 DEF Alike
<1>8. /\ PickWinner(f) \in f /\ PickWinner(g) \in g
      /\ PickWinner(f).key = PickWinner(g).key /\ PickWinner(f).phone = PickWinner(g).phone
  BY <1>7, PickedAlike DEF Twins
<1>9. PickWinner(f).source = "cslb"
  BY <1>3, <1>8 DEF Part
<1>10. Survivor(f) = Winner(g, "cslb")
  BY <1>8, <1>9 DEF Survivor, Winner
<1>11. MigratedContacts(book)[Survivor(f)] = Merged(f) /\ Survivor(f) \in DOMAIN MigratedContacts(book)
  <2>1. FamilyOf(book, Survivor(f)) = f /\ Survivor(f) \notin Seeds
    BY <1>5, SurvivorIsOne, SeedsAreNoRows
  <2>2. PICK c : c = Survivor(f)
    OBVIOUS
  <2>3. c \in {Survivor(h) : h \in Families(book)}
    BY <1>5, <2>2
  <2> QED BY <2>1, <2>2, <2>3 DEF MigratedContacts
<1>12. PICK phone : phone = PickWinner(f).phone
  OBVIOUS
<1>13. Merged(f) = Business(f, phone, {})
  <2>1. {r \in f : r.next # None} = {} /\ ~\E r \in f : r.text
    BY <1>3
  <2>2. Merged(f) = [Business(f, phone, {}) EXCEPT !.next = None]
    BY <1>12, <2>1 DEF Merged
  <2>3. [Business(f, phone, {}) EXCEPT !.next = None] = Business(f, phone, {})
    BY DEF Business
  <2> QED BY <2>2, <2>3
<1>14. Created(g, "cslb", {}) = Business(g, phone, {})
  <2>1. TombChannels(g, {}) = {}
    BY DEF TombChannels
  <2>2. PICK any : any = CHOOSE m \in g : TRUE
    OBVIOUS
  <2>3. any \in g
    BY <1>8, <2>2
  <2>4. any.phone = phone
    BY <1>8, <1>12, <2>3, GroupsCover
  <2> QED BY <2>1, <2>2, <2>4 DEF Created
<1> QED BY <1>7, <1>10, <1>11, <1>13, <1>14, BusinessAlike
=============================================================================
