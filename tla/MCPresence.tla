------------------------------ MODULE MCPresence ------------------------------
(* A player with two streams, one that stays away, and a subscriber of both.  *)
EXTENDS Presence, TLC

CONSTANTS u1, u2, s1, s2, status, room

MCUserOf == s1 :> u1 @@ s2 :> u1
MCUpdates == {room :> "a", status :> "host" @@ room :> "b"}
MCFriendSets == {{u1}, {u1, u2}}
MCWanted == {{}, {u1}}
=============================================================================
