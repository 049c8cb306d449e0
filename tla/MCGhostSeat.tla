----------------------------- MODULE MCGhostSeat -----------------------------
(* What becomes of a seat when its stream has ended: MCGamesync with a      *)
(* history of the user sessions whose stream was opened.                    *)
EXTENDS MCGamesync

VARIABLE held   \* history: the user sessions that had a stream while live

GhostInit == GamesyncInit /\ held = {}

GhostNext ==
  /\ GamesyncNext
  /\ held' = held \cup {a \in Uss : Live(a) /\ \E s \in Streams :
                                       stream[s] # NoStream /\ stream[s].uss = a}

GhostSpec == GhostInit /\ [][GhostNext]_<<allVars, held>>

\* "matchmaking membership follows the gamesync session" (gamesync.go:527): once
\* every stream of a session has come to its end, its seat is given up.  A
\* player that opened a session in another room first keeps its seat in the old
\* one, and a host its farm.
MembershipFollowsSession ==
  \A g \in Gsid : \A m \in members[g] :
    m.uss \in held /\ ~Live(m.uss) =>
      \E s \in Streams : stream[s] # NoStream /\ stream[s].uss = m.uss
=============================================================================
