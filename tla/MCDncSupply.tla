---------------------------- MODULE MCDncSupply ----------------------------
(* Worlds for TLC: p covers area codes X and Y, with a contact each.        *)
EXTENDS DncSupply

F(n, b) == [holder |-> "p", name |-> n, bytes |-> b]

MCNames == {"x1", "x1again", "x2", "y1", "odd"}
Well    == MCNames \ {"odd"}
GuidOf  == [n \in Well |-> IF n = "x1again" THEN "x1" ELSE n]  \* one guid, two spellings
DateOf  == [n \in Well |-> IF n = "x2" THEN 2 ELSE 1]
CodeInOf == [n \in Well |-> IF n = "y1" THEN "Y" ELSE "X"]
CodeOfOf == [c \in Contacts |-> IF c = "d" THEN "Y" ELSE "X"]
MCBytes == {"a", "b", "s", "y"}   \* lists of X with c, without c, short; a list of Y
FormatOf == [b \in MCBytes |-> IF b = "y" THEN "Y" ELSE "X"]
LinesOf == [b \in MCBytes |-> IF b = "s" THEN 1 ELSE 4]
ListsOf == [b \in MCBytes |-> IF b = "a" THEN {"c"} ELSE {}]

W(inbox, portal, byHand, late, aging) ==
    [tokens |-> [p \in Partners |-> "t1"], inbox |-> inbox, portal |-> portal,
     byHand |-> byHand, late |-> late, clerk |-> FALSE, aging |-> aging, mishaps |-> 1]

\* Tokens come and go while a file is uploaded.
Clerking == [W({}, {F("x1", "a")}, {}, {}, {}) EXCEPT !.clerk = TRUE]
\* A newer file delists c.
Newer == W({F("x1", "a")}, {F("x2", "b")}, {}, {}, {"c"})
\* Another file takes the place of one that was judged; two codes.
Replaced == W({F("x1", "a"), F("y1", "y")}, {}, {F("x1", "b")}, {}, {"c", "d"})
\* One guid under two names, a short file.
Odd == W({F("x1", "a"), F("x1again", "a"), F("x2", "s")}, {}, {}, {}, {"c"})
\* A name that is none, the wrong code inside, a late file.
Wrong == W({F("x1", "a"), F("odd", "a"), F("x2", "y"), F("y1", "y")}, {}, {}, {"y1"}, {})

MCWorlds == {Clerking, Newer, Replaced, Odd, Wrong}
=============================================================================
