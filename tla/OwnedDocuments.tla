---------------------------- MODULE OwnedDocuments ----------------------------
(***************************************************************************)
(* What the store of user-generated documents promises (ugcstore.go, its   *)
(* package comment), whatever a commit holds: a document belongs to its    *)
(* first writer and only the owner changes or deletes it, nobody writes    *)
(* where another player's id stands in the path, and a player owns at most *)
(* so many.  It does not promise that documents last: a restart goes back  *)
(* to any map that is still written somewhere, or to none (the store could *)
(* not be read), and then whoever comes first writes where a document was. *)
(***************************************************************************)
EXTENDS FiniteSets, Naturals

CONSTANTS Players, Paths, UserOf, Nobody, MaxPerOwner

VARIABLES
  owner,     \* path -> who owns the document there, or Nobody
  stored     \* the maps a restart may go back to

vars == <<owner, stored>>

Maps     == [Paths -> Players \union {Nobody}]
Owns(m, u)   == {p \in Paths : m[p] = u}
Within(m)    == \A u \in Players : Cardinality(Owns(m, u)) <= MaxPerOwner

Empty        == [p \in Paths |-> Nobody]

Init == owner = Empty /\ stored = {}

\* The map may fail to be written, and replaces another when it is.
Kept == stored' \subseteq stored \union {owner'}

Commit(u) ==
  /\ owner' \in Maps /\ Within(owner')
  /\ \A p \in Paths : owner'[p] # owner[p] =>
       {owner[p], owner'[p]} = {u, Nobody} /\ UserOf[p] \in {u, Nobody}
  /\ Kept

Erase(u) ==
  /\ owner' = [p \in Paths |-> IF u \in {owner[p], UserOf[p]} THEN Nobody ELSE owner[p]]
  /\ Kept

Restart == owner' \in stored \union {Empty} /\ stored' \subseteq stored

Next == Restart \/ \E u \in Players : Commit(u) \/ Erase(u)
Spec == Init /\ [][Next]_vars
=============================================================================
