--------------------------- MODULE MCGameSessions ---------------------------
(* GameSessions on a small instance: a public config and a friend config,  *)
(* two players of which one may be erased and one signs in with two         *)
(* versions of the game, rooms for one or two.                              *)
EXTENDS GameSessions, TLC

CONSTANTS u1, u2, quick, friend

MCCapacityOf == (quick :> 2) @@ (friend :> 2)
MCCreations == {[cfg |-> quick, max |-> 2, password |-> ""],
                [cfg |-> friend, max |-> 0, password |-> ""]}
MCSyncs == {[max |-> 1, password |-> "pw", state |-> "GONE", clear |-> FALSE],
            [max |-> 1, password |-> "pw", state |-> "TERMINATED", clear |-> TRUE]}
MCSymmetry == Permutations(Calls)
MCVersionsOf == (u1 :> {"a", "b"}) @@ (u2 :> {})

=============================================================================
