------------------------------ MODULE MCGamesync ------------------------------
(* Gamesync on a small instance: farms only, one version and no passwords,  *)
(* so that the states left are those of sessions, ranks and streams.        *)
EXTENDS Gamesync, TLC

CONSTANTS u1, u2, farm

MCCapacityOf == (farm :> 2)
MCVersionsOf == (u1 :> {}) @@ (u2 :> {})
MCCreations == {[cfg |-> farm, max |-> 0, password |-> ""]}
=============================================================================
