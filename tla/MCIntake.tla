------------------------------ MODULE MCIntake ------------------------------
(* Worlds for TLC.  Licences are 1 to 4, the filing 11, the founder's     *)
(* seed 90.                                                                 *)
EXTENDS Intake

L(k, phone, addr) ==
    [key |-> k, phone |-> phone, addr |-> addr, email |-> None, dnm |-> FALSE, targetable |-> TRUE]
Opted(l) == [l EXCEPT !.dnm = TRUE]
Mailed(l, e) == [l EXCEPT !.email = e]

\* A licence record of before the merge.
R(l, source, text, next) ==
    [key |-> l.key, phone |-> l.phone, addr |-> l.addr, email |-> l.email, dnm |-> l.dnm,
     targetable |-> TRUE, source |-> source, owner |-> "jack", seed |-> FALSE, text |-> text,
     next |-> next]
Founder == [R(L(90, None, "a"), None, FALSE, None) EXCEPT !.seed = TRUE]

File(source, lines) == [source |-> source, lines |-> lines]
W(records, files) ==
    [legacy |-> records, pieces |-> [p \in {} |-> None], waveActive |-> FALSE, files |-> files,
     fixes |-> {None}, channels |-> {}, corrects |-> FALSE, founders |-> FALSE, erases |-> FALSE,
     loaders |-> {"l1"}, verifiers |-> {}]

Answer(d, point, std) == [deliverable |-> d, point |-> point, std |-> std]
MCAnswers == {Answer(TRUE, "x", "std"), Answer(FALSE, "x", None), Answer(TRUE, None, None)}

\* Three licences of one phone and a filing; a drop is still running; later lists attach.
Merging ==
    [W({R(L(1, "p", "a"), "cslb", FALSE, 5), R(Mailed(L(2, "p", "b"), 2), "cslb", FALSE, None),
        R(Opted(L(3, "p", "b")), "cslb", TRUE, 4), R(L(11, None, "a"), "fbn", FALSE, None), Founder},
       {File("cslb", <<L(4, "p", "a")>>)})
     EXCEPT !.pieces = [x |-> 1, y |-> 3], !.waveActive = TRUE, !.channels = {"voice"}, !.erases = TRUE,
            !.verifiers = {"v1"}]
\* A filing under the wrong source, and the repair.
Missourced ==
    [W({R(L(11, None, "a"), "cslb", FALSE, None), R(L(1, "p", "a"), "cslb", FALSE, None)}, {})
     EXCEPT !.founders = TRUE, !.fixes = {None, [prefix |-> "fbn", source |-> "fbn"], [prefix |-> "cslb", source |-> "fbn"]}]
\* Two lists that share a phone, loaded at once and again; one row twice in a file.
Lists ==
    [W({}, {File("cslb", <<L(1, "p", "a"), [L(3, "q", "a") EXCEPT !.targetable = FALSE],
                           L(2, "p", "b"), L(1, "q", "b")>>),
            File("cslb", <<Opted(L(2, "p", "b")), L(3, "q", "a")>>), File("typo", <<>>)})
     EXCEPT !.channels = {"mail", "all"}, !.erases = TRUE, !.loaders = Loaders]
\* A licence that has left its phone, and one that had none, listed at another.
Moved ==
    [W({}, {File("cslb", <<L(2, "p", "b"), L(3, "q", "a"), L(4, None, "a")>>),
            File("cslb", <<L(2, "q", "a"), L(4, "q", "b")>>)})
     EXCEPT !.channels = {"all"}, !.erases = TRUE]
\* A licence and a filing at one delivery point; a person corrects.
Mailbox ==
    [W({}, {File("cslb", <<L(1, "p", "a"), L(2, None, "b")>>), File("fbn", <<L(11, None, "a")>>)})
     EXCEPT !.corrects = TRUE, !.verifiers = Verifiers]

MCWorlds == {Merging, Missourced, Lists, Moved, Mailbox}

(* A load of a list into an empty base makes the contacts and rows that the *)
(* merge of the same licence records does (resolution/pick.py:3-7).         *)
Lines == {L(k, p, a) : k \in 1..3, p \in {"p", None}, a \in {"a", "b"}}
Books == {b \in SUBSET (Lines \cup {Opted(Mailed(l, l.key)) : l \in Lines}) :
            Cardinality(b) <= 3 /\ \A l, m \in b : l.key = m.key => l = m}
Loaded(b) == [g \in Groups(b, "cslb") |->
                Business(g, (CHOOSE l \in g : TRUE).phone, {})]
ASSUME MergeIsLoad ==
    \A b \in Books :
        LET lines == {R(l, "cslb", FALSE, None) : l \in b}
            merged == MigratedContacts(lines)
        IN  \A g \in Groups(b, "cslb") : merged[Winner(g, "cslb")] = Loaded(b)[g]
=============================================================================
