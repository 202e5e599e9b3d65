--------------------------- MODULE UserDirectory ---------------------------
(* What PlatformServer's Users promises: a directory from user ids to the   *)
(* session each user is on.  Lists, recycled entries and their order do not *)
(* show.                                                                    *)
EXTENDS Naturals

CONSTANTS Uids, Values

VARIABLE dir            \* dir[u]: the session of user u, for u \in DOMAIN dir

Init == dir = [u \in {} |-> {}]

\* A new user is entered, one already there gets the new session.
Add(u, v) == dir' = [x \in DOMAIN dir \cup {u} |-> IF x = u THEN v ELSE dir[x]]

Remove(u) == /\ u \in DOMAIN dir
             /\ dir' = [x \in DOMAIN dir \ {u} |-> dir[x]]

Next == \E u \in Uids : Remove(u) \/ \E v \in Values : Add(u, v)

Spec == Init /\ [][Next]_dir
=============================================================================
