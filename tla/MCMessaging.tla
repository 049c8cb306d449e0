----------------------------- MODULE MCMessaging -----------------------------
(* Messaging between a player with a friend and one erasable friend, who is *)
(* listed once or twice; mailboxes for one item.                            *)
EXTENDS Messaging

CONSTANTS u1, u2, s1, s2

MCOpens == {<<s1, u2>>, <<s2, u1>>, <<s2, u2>>}
MCFriends == {<<u1, u2>>}
MCReceivers == {<<u1, u2>>, <<u2, u2>>}
=============================================================================
