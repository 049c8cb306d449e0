------------------------------ MODULE Gamesync ------------------------------
(***************************************************************************)
(* Gamesync sessions over the rooms of GameSessions (gamesync.go).  A      *)
(* player that took a seat turns its matchmaking id token into a gamesync  *)
(* session with a rank (IssueToken) and holds a KeepUserSession stream;    *)
(* the end of the stream ends the session and then, under the other mutex, *)
(* the seat.  The documents the streams carry are in DocSync.              *)
(*                                                                         *)
(* GameSessions lets any player be dropped at any time; here the only drop *)
(* is the one at the end of a stream.                                      *)
(***************************************************************************)
EXTENDS GameSessions

CONSTANTS
  Streams,   \* KeepUserSession streams
  MaxRank    \* bound: the highest rank handed out

ASSUME GamesyncAssumption == MaxRank \in Nat

VARIABLES
  tokens,    \* the matchmaking id tokens handed out, one for each seat taken
  sess,      \* user session -> gamesync session
  stream     \* KeepUserSession calls in progress

syncVars == <<tokens, sess, stream>>
allVars  == <<vars, syncVars>>

Token  == [user : Users, gsid : Gsid, uss : Uss]
Sess   == [user : Users, gsid : Gsid, rank : 1 .. MaxRank]
NoSess == [user |-> NoUser, gsid |-> NoRoom, rank |-> 0]

\* An open stream knows its user session; a leaving one the session it ended.
Open     == [pc : {"open"}, uss : Uss]
Leaving  == [pc : {"leaving"}, uss : Uss, gone : Sess]
NoStream == [pc |-> "closed"]

Live(a)    == sess[a] # NoSess
InFarm(f, g) == {a \in Uss : f[a].gsid = g}

-----------------------------------------------------------------------------
GamesyncInit ==
  /\ Init
  /\ tokens = {}
  /\ sess   = [a \in Uss |-> NoSess]
  /\ stream = [s \in Streams |-> NoStream]

\* The tokens after a step: every seat taken comes with one.
Minted == tokens \cup UNION {{[user |-> m.user, gsid |-> g, uss |-> m.uss] : m \in members'[g]}
                              : g \in Gsid}

\* A call of GameSessionService or of the Matchmaker, or an erasure.
Rooms ==
  /\ Rpc \/ \E u \in Erasable : EraseUser(u)
  /\ tokens' = Minted
  /\ UNCHANGED <<sess, stream>>

\* mutant: sessions of the same room are not abandoned
AbandonedElsewhere(t) ==
  [a \in Uss |-> IF sess[a].user = t.user /\ sess[a].gsid # t.gsid THEN NoSess ELSE sess[a]]

\* What is left of sess when the player of token t opens its session: a player
\* opening a new session has abandoned the old one.
Abandoned(t) == [a \in Uss |-> IF a # t.uss /\ sess[a].user = t.user THEN NoSess ELSE sess[a]]

\* r is the highest rank of farm g, 0 for an empty one.
IsTop(f, g, r) ==
  /\ r = 0 \/ \E a \in InFarm(f, g) : f[a].rank = r
  /\ \A a \in InFarm(f, g) : f[a].rank <= r

\* mutants: the rank is the number of sessions there; a rank is dealt anew
\* whenever a token is issued
IssueTokenByCount(t, top) ==
  /\ t \in tokens
  /\ top = Cardinality(InFarm(Abandoned(t), t.gsid)) /\ top < MaxRank
  /\ sess' = [Abandoned(t) EXCEPT ![t.uss] =
       [user |-> t.user, gsid |-> t.gsid, rank |-> IF Live(t.uss) THEN @.rank ELSE top + 1]]
  /\ UNCHANGED <<vars, tokens, stream>>
IssueTokenAnew(t, top) ==
  /\ t \in tokens
  /\ IsTop(Abandoned(t), t.gsid, top) /\ top < MaxRank
  /\ sess' = [Abandoned(t) EXCEPT ![t.uss] =
       [user |-> t.user, gsid |-> t.gsid, rank |-> top + 1]]
  /\ UNCHANGED <<vars, tokens, stream>>

\* IssueToken: the rank the session had, else the one after the highest.
IssueToken(t, top) ==
  /\ t \in tokens
  /\ IsTop(Abandoned(t), t.gsid, top)
  /\ top < MaxRank
  /\ sess' = [Abandoned(t) EXCEPT ![t.uss] =
       [user |-> t.user, gsid |-> t.gsid, rank |-> IF Live(t.uss) THEN @.rank ELSE top + 1]]
  /\ UNCHANGED <<vars, tokens, stream>>

KeepUserSession(s, t) ==
  /\ stream[s] = NoStream /\ t \in tokens
  /\ stream' = [stream EXCEPT ![s] = [pc |-> "open", uss |-> t.uss]]
  /\ UNCHANGED <<vars, tokens, sess>>

\* The stream ends, under the gamesync mutex: the stream IS the session.  With
\* no session left under its name there is no seat to give up.
StreamEnds(s) ==
  /\ stream[s].pc = "open"
  /\ LET a == stream[s].uss IN
     /\ stream' = [stream EXCEPT ![s] =
          IF Live(a) THEN [pc |-> "leaving", uss |-> a, gone |-> sess[a]] ELSE NoStream]
     /\ sess' = [sess EXCEPT ![a] = NoSess]
  /\ UNCHANGED <<vars, tokens>>

\* mutant: nobody is dropped
StreamLeavesNobody(s) ==
  /\ stream[s].pc = "leaving"
  /\ stream' = [stream EXCEPT ![s] = NoStream]
  /\ UNCHANGED <<vars, tokens, sess>>
\* Then dropMember, under the mutex of the rooms: by player, whatever happened
\* to the player in between.
StreamLeaves(s) ==
  /\ stream[s].pc = "leaving"
  /\ LET gone == stream[s].gone IN
     IF members[gone.gsid] = {} THEN UNCHANGED vars ELSE DropMember(gone.user, gone.gsid)
  /\ stream' = [stream EXCEPT ![s] = NoStream]
  /\ UNCHANGED <<tokens, sess>>

GamesyncNext ==
  \/ Rooms
  \/ \E t \in tokens, top \in 0 .. MaxRank : IssueToken(t, top)
  \/ \E s \in Streams, t \in tokens : KeepUserSession(s, t)
  \/ \E s \in Streams : StreamEnds(s)
  \/ \E s \in Streams : StreamLeaves(s)

\* A deferred function runs: a stream that ended drops its player.
GamesyncSpec ==
  /\ GamesyncInit /\ [][GamesyncNext]_allVars
  /\ \A s \in Streams : WF_allVars(StreamLeaves(s))

-----------------------------------------------------------------------------
(* Properties *)

GamesyncTypeOK ==
  /\ tokens \in SUBSET Token
  /\ sess   \in [Uss -> Sess \cup {NoSess}]
  /\ stream \in [Streams -> Open \cup Leaving \cup {NoStream}]

\* Two players of a farm never share a rank: the ids Pia keys its station
\* tables on (gamesync.go, withStationLocked).
RanksDistinct ==
  \A a, b \in Uss : Live(a) /\ Live(b) /\ sess[a].gsid = sess[b].gsid
                    /\ sess[a].rank = sess[b].rank => a = b

\* A player has one gamesync session at most, however many seats it took.
OneSessionPerPlayer ==
  \A a, b \in Uss : Live(a) /\ Live(b) /\ sess[a].user = sess[b].user => a = b

\* Ranks follow arrival: a session that opens comes after all its farm has, and
\* a session that is open keeps its rank whatever tokens are issued again.
ArrivalOrder ==
  [][\A a \in Uss : sess'[a] # NoSess =>
       /\ Live(a) => sess'[a].rank = sess[a].rank
       /\ ~Live(a) => \A b \in Uss \ {a} :
            sess'[b].gsid = sess'[a].gsid => sess'[b].rank < sess'[a].rank]_allVars

\* The farm of a host whose stream ended with its session does not stay: it is
\* closed, whatever joins, rejoins or hosts in between (sessions.go:474-476).
HostTakesFarm ==
  \A s \in Streams, g \in Gsid :
    /\ stream[s].pc = "leaving" /\ stream[s].gone.gsid = g
    /\ ~Pooled(g) /\ stream[s].gone.user = hosts[g] /\ hosts[g] \notin erased
    ~> ~Exists(g) \/ hosts[g] \in erased
=============================================================================
