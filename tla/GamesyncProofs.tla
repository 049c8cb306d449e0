--------------------------- MODULE GamesyncProofs ---------------------------
(***************************************************************************)
(* Gamesync for every farm, stream and bound: ranks and sessions, over the *)
(* invariants of the rooms, which hold under gamesync as well.             *)
(***************************************************************************)
EXTENDS Gamesync, GameSessionsProofs

TokenOf(g, m) == [user |-> m.user, gsid |-> g, uss |-> m.uss]

\* A user session belongs to one player and one room for good, and every seat
\* and every session has its token: a rank kept by a session is kept in the room
\* it was given for.
OneToken ==
  /\ \A t \in tokens : t.uss < nextSeat
  /\ \A t, r \in tokens : t.uss = r.uss => t = r
  /\ \A g \in Gsid : \A m \in members[g] : TokenOf(g, m) \in tokens
  /\ \A a \in Uss : Live(a) => [user |-> sess[a].user, gsid |-> sess[a].gsid, uss |-> a] \in tokens

SyncInv ==
  /\ IInv
  /\ GamesyncTypeOK
  /\ OneToken
  /\ RanksDistinct
  /\ OneSessionPerPlayer

-----------------------------------------------------------------------------
(* The rooms *)

\* What a step of the rooms does to seats, seen from above: seats go, or one
\* player takes one in one room under a fresh name.
NoNewSeat == (\A g \in Gsid : members'[g] \subseteq members[g]) /\ nextSeat' \in {nextSeat, nextSeat + 1}
NewSeat(u, h) ==
  /\ nextSeat \in Uss /\ nextSeat' = nextSeat + 1
  /\ \A g \in Gsid : \A m \in members'[g] :
       m \in members[g] \/ (g = h /\ m.user = u /\ m.uss = nextSeat)

\* AddMember keeps the others and gives the player the name it came with.
LEMMA AddMemberNames ==
  ASSUME NEW list \in SUBSET Seat, NEW u \in Users, NEW uss \in Uss,
         NEW m \in AddMember(list, u, uss)
  PROVE  m \in list \/ (m.user = u /\ m.uss = uss)
<1>1. CASE u \in UsersIn(list)
  <2>1. \A n \in SeatOf(list, u) : n \in Seat /\ n.user = u
    BY DEF SeatOf
  <2>2. \A n \in SeatOf(list, u) : [n EXCEPT !.uss = uss].user = u /\ [n EXCEPT !.uss = uss].uss = uss
    BY <2>1 DEF Seat
  <2> QED BY <1>1, <2>2 DEF AddMember
<1>2. CASE u \notin UsersIn(list)
  BY <1>2 DEF AddMember
<1> QED BY <1>1, <1>2

\* A seat taken in one room.
LEMMA TakenIsNew ==
  ASSUME IInv, NEW u \in Users, NEW h \in Gsid, TakeSeat(u, h)
  PROVE  NewSeat(u, h)
<1>1. /\ nextSeat \in Uss /\ nextSeat' = nextSeat + 1
      /\ members' = [members EXCEPT ![h] = AddMember(@, u, nextSeat)]
      /\ members \in [Gsid -> SUBSET Seat]
  BY GameSessionsAssumption DEF TakeSeat, IInv, TypeOK, Uss
<1>2. ASSUME NEW g \in Gsid, NEW m \in members'[g]
      PROVE  m \in members[g] \/ (g = h /\ m.user = u /\ m.uss = nextSeat)
  <2>1. CASE g = h
    <3>1. m \in AddMember(members[h], u, nextSeat) /\ members[h] \in SUBSET Seat
      BY <1>1, <1>2, <2>1
    <3> QED BY <3>1, <2>1, <1>1, AddMemberNames
  <2>2. CASE g # h
    BY <2>2, <1>1, <1>2
  <2> QED BY <2>1, <2>2
<1> QED BY <1>1, <1>2 DEF NewSeat

\* Closing rooms takes seats only.
LEMMA ClosedHaveNone ==
  ASSUME IInv, NEW S \in SUBSET Gsid, NEW f, f = Clear(members, S, {})
  PROVE  f \in [Gsid -> SUBSET Seat] /\ \A g \in Gsid : f[g] \subseteq members[g]
BY DEF Clear, IInv, TypeOK

\* A player that is dropped takes seats along and names none.
LEMMA DropTakesSeats ==
  ASSUME IInv, NEW u \in Users, NEW g \in Gsid, DropMember(u, g)
  PROVE  (\A h \in Gsid : members'[h] \subseteq members[h]) /\ nextSeat' = nextSeat
<1>1. members \in [Gsid -> SUBSET Seat] /\ nextSeat' = nextSeat
  BY DEF IInv, TypeOK, DropMember
<1>2. CASE CloseRooms({g})
  BY <1>1, <1>2, ClosedHaveNone DEF CloseRooms
<1>3. CASE members' = [members EXCEPT ![g] = members[g] \ SeatOf(members[g], u)]
  BY <1>1, <1>3
<1> QED BY <1>1, <1>2, <1>3 DEF DropMember

\* Every step of the rooms takes at most one new seat.
LEMMA SeatsOfStep ==
  ASSUME IInv, Next
  PROVE  NoNewSeat \/ \E u \in Users, h \in Gsid : NewSeat(u, h)
<1> USE GameSessionsAssumption
<1>0. members \in [Gsid -> SUBSET Seat] /\ nextSeat \in 1 .. MaxSeats + 1 /\ nextSession \in 1 .. MaxSessions + 1
  BY DEF IInv, TypeOK
<1>1. CASE UNCHANGED <<members, nextSeat>>
  BY <1>1 DEF NoNewSeat
<1>2. ASSUME NEW u \in Users, NEW in \in Creations, CreateGameSessionCreationTicket(u, in)
      PROVE  NewSeat(u, nextSession)
  <2> DEFINE kept == Clear(members, Stale(u), {})
  <2>1. /\ nextSeat \in Uss /\ nextSeat' = nextSeat + 1 /\ nextSession \in Gsid
        /\ members' = [kept EXCEPT ![nextSession] = AddMember({}, u, nextSeat)]
    BY <1>0, <1>2 DEF CreateGameSessionCreationTicket, Uss, Gsid
  <2>2. kept \in [Gsid -> SUBSET Seat] /\ \A g \in Gsid : kept[g] \subseteq members[g]
    BY ClosedHaveNone DEF Stale
  <2>3. \A m \in AddMember({}, u, nextSeat) : m.user = u /\ m.uss = nextSeat
    BY <2>1, AddMemberNames
  <2> HIDE DEF kept
  <2> QED BY <2>1, <2>2, <2>3 DEF NewSeat
<1>3. ASSUME NEW S \in SUBSET Gsid, CloseRooms(S), UNCHANGED nextSeat
      PROVE  NoNewSeat
  BY <1>3, ClosedHaveNone DEF CloseRooms, NoNewSeat
<1>4. ASSUME NEW u \in Users, NEW g \in Gsid, DropMember(u, g)
      PROVE  NoNewSeat
  BY <1>0, <1>4, DropTakesSeats DEF NoNewSeat
<1>5. ASSUME NEW u \in Users, EraseUser(u)
      PROVE  NoNewSeat
  BY <1>0, <1>5 DEF EraseUser, NoNewSeat
<1>6. ASSUME NEW c \in Calls, NEW h \in Gsid, TrackPlace(c, h)
      PROVE  NoNewSeat \/ \E u \in Users : NewSeat(u, h)
  <2> DEFINE t == mm[call[c].ticket]
  <2>1. t.owner \in Users /\ TrackPlace(c, h)
    <3>1. call[c].pc \in {"read", "versioned", "seated"}
      BY <1>6 DEF TrackPlace
    <3>2. t \in Ticket
      BY <3>1, CallOf
    <3> QED BY <1>6, <3>2 DEF Ticket
  <2>2. UNCHANGED <<members, nextSeat>> \/ TakeSeat(t.owner, h)
    <3>1. Place(t.owner, t.key, call[c].mine, h)
      BY <1>6 DEF TrackPlace
    <3> HIDE DEF t
    <3> QED BY <3>1 DEF Place, NewPool, rooms
  <2> HIDE DEF t
  <2>3. CASE TakeSeat(t.owner, h)
    BY <2>1, <2>3, TakenIsNew
  <2>4. CASE UNCHANGED <<members, nextSeat>>
    BY <1>0, <2>4 DEF NoNewSeat
  <2> QED BY <2>2, <2>3, <2>4
<1>7. ASSUME NEW u \in Users, NEW g \in Gsid, NEW pw \in Passwords, JoinGameSession(u, g, pw)
      PROVE  NewSeat(u, g)
  BY <1>7, TakenIsNew DEF JoinGameSession
<1>8. ASSUME NEW g \in Gsid, CancelGameSessionCreationTicket(g)
      PROVE  NoNewSeat
  BY <1>8, <1>3 DEF CancelGameSessionCreationTicket
<1>9. CASE \E u \in Users, in \in Creations : CreateGameSessionCreationTicket(u, in)
  <2>1. PICK u \in Users, in \in Creations : CreateGameSessionCreationTicket(u, in)
    BY <1>9
  <2>2. nextSession \in Gsid
    BY <2>1, <1>0 DEF CreateGameSessionCreationTicket, Gsid
  <2> QED BY <2>1, <2>2, <1>2
<1> QED BY <1>1, <1>4, <1>5, <1>6, <1>7, <1>8, <1>9
        DEF Next, Rpc, RememberAppVersion, SyncGameSession, CreateMatchmakingTicket,
            CancelMatchmakingTicket, TrackRead, TrackPlaced, TrackVersion, TrackRecord, rooms

-----------------------------------------------------------------------------
(* Tokens and sessions *)

\* A token for every new seat keeps one token for each name, and sessions their
\* tokens.
LEMMA RoomsStep ==
  ASSUME SyncInv, Rooms
  PROVE  SyncInv'
<1> USE GameSessionsAssumption, GamesyncAssumption
<1>1. Next /\ tokens' = Minted /\ UNCHANGED <<sess, stream>>
  BY DEF Rooms, Next
<1>2. IInv'
  BY <1>1, NextIInv DEF SyncInv
<1>3. members' \in [Gsid -> SUBSET Seat] /\ members \in [Gsid -> SUBSET Seat]
      /\ nextSeat \in 1 .. MaxSeats + 1 /\ nextSeat' \in 1 .. MaxSeats + 1
  BY <1>2 DEF SyncInv, IInv, TypeOK
<1>4. tokens' = tokens \cup {t \in Token : \E g \in Gsid : \E m \in members'[g] : t = TokenOf(g, m)}
  <2>1. \A g \in Gsid : \A m \in members'[g] : TokenOf(g, m) \in Token
    BY <1>3 DEF TokenOf, Token, Seat
  <2> QED BY <1>1, <2>1 DEF Minted, TokenOf
<1>5. tokens' \in SUBSET Token /\ tokens \in SUBSET Token
  BY <1>4 DEF SyncInv, GamesyncTypeOK
<1>6. GamesyncTypeOK' /\ RanksDistinct' /\ OneSessionPerPlayer'
  BY <1>1, <1>5 DEF SyncInv, GamesyncTypeOK, RanksDistinct, OneSessionPerPlayer, Live
<1>7. \A g \in Gsid : \A m \in members'[g] : TokenOf(g, m) \in tokens'
  BY <1>3, <1>4 DEF TokenOf, Token, Seat
<1>8. \A a \in Uss : Live(a)' => [user |-> sess'[a].user, gsid |-> sess'[a].gsid, uss |-> a] \in tokens'
  BY <1>1, <1>4 DEF SyncInv, OneToken, Live
<1>9. (\A t \in tokens' : t.uss < nextSeat') /\ (\A t, r \in tokens' : t.uss = r.uss => t = r)
  <2>1. CASE NoNewSeat
    <3>1. tokens' = tokens
      BY <1>3, <1>4, <2>1 DEF NoNewSeat, SyncInv, OneToken
    <3> QED BY <3>1, <1>3, <1>5, <2>1 DEF NoNewSeat, SyncInv, OneToken, Token, Uss
  <2>2. CASE \E u \in Users, h \in Gsid : NewSeat(u, h)
    <3>1. PICK u \in Users, h \in Gsid : NewSeat(u, h)
      BY <2>2
    <3> DEFINE new == [user |-> u, gsid |-> h, uss |-> nextSeat]
    <3>2. \A g \in Gsid : \A m \in members'[g] : TokenOf(g, m) \in tokens \/ TokenOf(g, m) = new
      BY <3>1 DEF NewSeat, TokenOf, SyncInv, OneToken
    <3>3. \A t \in tokens' : t \in tokens \/ t = new
      BY <3>2, <1>4
    <3>4. \A t \in tokens : t.uss < nextSeat /\ t.uss \in Nat
      BY <1>5 DEF SyncInv, OneToken, Token, Uss
    <3>5. new.uss = nextSeat /\ nextSeat' = nextSeat + 1
      BY <3>1 DEF NewSeat
    <3> HIDE DEF new
    <3>6. \A t \in tokens' : t.uss < nextSeat'
      BY <3>3, <3>4, <3>5, <1>3
    <3>7. \A t, r \in tokens' : t.uss = r.uss => t = r
      BY <3>3, <3>4, <3>5, <1>3 DEF SyncInv, OneToken
    <3> QED BY <3>6, <3>7
  <2> QED BY <1>1, <2>1, <2>2, SeatsOfStep DEF SyncInv
<1> QED BY <1>2, <1>6, <1>7, <1>8, <1>9 DEF SyncInv, OneToken

\* IssueToken seen session by session: the caller's is opened or kept with its
\* rank, the player's others go, nobody else's changes.
LEMMA IssuedSessions ==
  ASSUME SyncInv, NEW t \in tokens, NEW top \in 0 .. MaxRank, IssueToken(t, top)
  PROVE  /\ t \in Token
         /\ sess' \in [Uss -> Sess \cup {NoSess}]
         /\ sess'[t.uss].user = t.user /\ sess'[t.uss].gsid = t.gsid
         /\ Live(t.uss) => sess'[t.uss].rank = sess[t.uss].rank /\ sess[t.uss].gsid = t.gsid
         /\ ~Live(t.uss) => sess'[t.uss].rank = top + 1
         /\ \A a \in Uss \ {t.uss} :
              /\ sess'[a] # NoSess => sess'[a] = sess[a] /\ Live(a) /\ sess[a].user # t.user
              /\ sess'[a].gsid = t.gsid => sess'[a].rank <= top
<1> USE GameSessionsAssumption, GamesyncAssumption
<1>1. t \in Token /\ t.uss \in Uss /\ t.user \in Users /\ t.gsid \in Gsid
  BY DEF SyncInv, GamesyncTypeOK, Token
<1>2. sess \in [Uss -> Sess \cup {NoSess}] /\ NoSess.user \notin Users /\ NoSess.gsid = NoRoom /\ NoSess.rank = 0
  BY DEF SyncInv, GamesyncTypeOK, NoSess
<1> DEFINE left == Abandoned(t)
           mine == [user |-> t.user, gsid |-> t.gsid, rank |-> IF Live(t.uss) THEN left[t.uss].rank ELSE top + 1]
<1>3. /\ left \in [Uss -> Sess \cup {NoSess}] /\ left[t.uss] = sess[t.uss]
      /\ \A a \in Uss \ {t.uss} : left[a] # NoSess => left[a] = sess[a] /\ Live(a) /\ sess[a].user # t.user
  BY <1>1, <1>2 DEF Abandoned, Live
<1>4. sess' = [left EXCEPT ![t.uss] = mine] /\ top < MaxRank /\ IsTop(left, t.gsid, top)
  BY DEF IssueToken
<1>5. Live(t.uss) => sess[t.uss] \in Sess /\ sess[t.uss].gsid = t.gsid
  <2>1. Live(t.uss) => [user |-> sess[t.uss].user, gsid |-> sess[t.uss].gsid, uss |-> t.uss] = t
    BY <1>1 DEF SyncInv, OneToken
  <2> QED BY <2>1, <1>1, <1>2 DEF Live
<1>6. mine \in Sess
  BY <1>1, <1>3, <1>4, <1>5 DEF Sess
<1>7. \A a \in Uss \ {t.uss} : left[a].gsid = t.gsid => left[a].rank <= top
  BY <1>1, <1>4 DEF IsTop, InFarm
<1>8. mine.user = t.user /\ mine.gsid = t.gsid
      /\ (Live(t.uss) => mine.rank = sess[t.uss].rank) /\ (~Live(t.uss) => mine.rank = top + 1)
  BY <1>3
<1> HIDE DEF left, mine
<1>9. sess'[t.uss] = mine /\ \A a \in Uss \ {t.uss} : sess'[a] = left[a]
  BY <1>1, <1>3, <1>4
<1>10. sess' \in [Uss -> Sess \cup {NoSess}]
  BY <1>3, <1>4, <1>6
<1> QED BY <1>1, <1>3, <1>5, <1>7, <1>8, <1>9, <1>10

\* IssueToken keeps ranks apart and every player to one session.
LEMMA IssueTokenStep ==
  ASSUME SyncInv, NEW t \in tokens, NEW top \in 0 .. MaxRank, IssueToken(t, top)
  PROVE  SyncInv'
<1> USE GameSessionsAssumption, GamesyncAssumption
<1>1. UNCHANGED <<vars, tokens, stream>>
  BY DEF IssueToken
<1>2. IInv'
  BY <1>1, NextIInv DEF SyncInv
<1>3. GamesyncTypeOK'
  BY <1>1, IssuedSessions DEF SyncInv, GamesyncTypeOK
<1>4. t.uss \in Uss /\ t.user \in Users /\ t = [user |-> t.user, gsid |-> t.gsid, uss |-> t.uss]
  BY IssuedSessions DEF Token
<1>5. OneToken'
  <2>1. \A a \in Uss : Live(a)' => [user |-> sess'[a].user, gsid |-> sess'[a].gsid, uss |-> a] \in tokens
    <3> SUFFICES ASSUME NEW a \in Uss, sess'[a] # NoSess
                 PROVE  [user |-> sess'[a].user, gsid |-> sess'[a].gsid, uss |-> a] \in tokens
      BY DEF Live
    <3>1. CASE a = t.uss
      BY <3>1, <1>4, IssuedSessions
    <3>2. CASE a # t.uss
      BY <3>2, IssuedSessions DEF SyncInv, OneToken
    <3> QED BY <3>1, <3>2
  <2> QED BY <2>1, <1>1 DEF SyncInv, OneToken, vars, rooms, TokenOf
<1>6. OneSessionPerPlayer'
  <2> SUFFICES ASSUME NEW a \in Uss, NEW b \in Uss, sess'[a] # NoSess, sess'[b] # NoSess,
                      sess'[a].user = sess'[b].user
               PROVE  a = b
    BY DEF OneSessionPerPlayer, Live
  <2>1. CASE a = t.uss \/ b = t.uss
    BY <2>1, IssuedSessions
  <2>2. CASE a # t.uss /\ b # t.uss
    BY <2>2, IssuedSessions DEF SyncInv, OneSessionPerPlayer
  <2> QED BY <2>1, <2>2
<1>7. RanksDistinct'
  <2> SUFFICES ASSUME NEW a \in Uss, NEW b \in Uss, sess'[a] # NoSess, sess'[b] # NoSess,
                      sess'[a].gsid = sess'[b].gsid, sess'[a].rank = sess'[b].rank
               PROVE  a = b
    BY DEF RanksDistinct, Live
  <2>1. CASE a # t.uss /\ b # t.uss
    BY <2>1, IssuedSessions DEF SyncInv, RanksDistinct
  <2>2. CASE Live(t.uss)
    <3>1. \A c \in Uss : sess'[c] # NoSess => Live(c) /\ sess[c].gsid = sess'[c].gsid /\ sess[c].rank = sess'[c].rank
      BY <2>2, IssuedSessions
    <3> QED BY <3>1 DEF SyncInv, RanksDistinct
  <2>3. CASE ~Live(t.uss)
    <3>1. sess'[t.uss].rank = top + 1 /\ sess'[t.uss].gsid = t.gsid
      BY <2>3, IssuedSessions
    <3>2. \A c \in Uss \ {t.uss} : sess'[c].gsid = t.gsid => sess'[c].rank <= top
      BY IssuedSessions
    <3>3. \A c \in Uss : sess'[c].rank \in Int
      BY IssuedSessions DEF Sess, NoSess
    <3> QED BY <3>1, <3>2, <3>3, <2>1
  <2> QED BY <2>2, <2>3
<1> QED BY <1>2, <1>3, <1>5, <1>6, <1>7 DEF SyncInv

\* A stream opens under a session named by a token.
LEMMA KeepStep ==
  ASSUME SyncInv, NEW s \in Streams, NEW t \in tokens, KeepUserSession(s, t)
  PROVE  SyncInv'
<1>1. t.uss \in Uss
  BY DEF SyncInv, GamesyncTypeOK, Token
<1>2. stream' = [stream EXCEPT ![s] = [pc |-> "open", uss |-> t.uss]] /\ UNCHANGED <<vars, tokens, sess>>
  BY DEF KeepUserSession
<1>3. IInv'
  BY <1>2, NextIInv DEF SyncInv
<1>4. stream' \in [Streams -> Open \cup Leaving \cup {NoStream}]
  BY <1>1, <1>2 DEF SyncInv, GamesyncTypeOK, Open
<1> QED BY <1>2, <1>3, <1>4
        DEF SyncInv, GamesyncTypeOK, OneToken, RanksDistinct, OneSessionPerPlayer, Live, vars, rooms

\* A stream that ends takes its session along.
LEMMA EndStep ==
  ASSUME SyncInv, NEW s \in Streams, StreamEnds(s)
  PROVE  SyncInv'
<1> DEFINE a == stream[s].uss
           next == IF Live(a) THEN [pc |-> "leaving", uss |-> a, gone |-> sess[a]] ELSE NoStream
<1>1. a \in Uss
  BY DEF StreamEnds, SyncInv, GamesyncTypeOK, Open, Leaving, NoStream
<1>2. stream' = [stream EXCEPT ![s] = next] /\ sess' = [sess EXCEPT ![a] = NoSess] /\ UNCHANGED <<vars, tokens>>
  BY DEF StreamEnds
<1>3. IInv'
  BY <1>2, NextIInv DEF SyncInv
<1>4. next \in Leaving \cup {NoStream}
  BY <1>1 DEF Live, Leaving, SyncInv, GamesyncTypeOK
<1> HIDE DEF a, next
<1>5. GamesyncTypeOK'
  BY <1>1, <1>2, <1>4 DEF SyncInv, GamesyncTypeOK
<1>6. \A b \in Uss : sess'[b] # NoSess => sess'[b] = sess[b] /\ Live(b)
  BY <1>1, <1>2 DEF SyncInv, GamesyncTypeOK, Live
<1>7. OneToken'
  BY <1>2, <1>6 DEF SyncInv, OneToken, Live, TokenOf, vars, rooms
<1>8. RanksDistinct' /\ OneSessionPerPlayer'
  BY <1>6 DEF SyncInv, RanksDistinct, OneSessionPerPlayer, Live
<1> QED BY <1>3, <1>5, <1>7, <1>8 DEF SyncInv

\* The drop at the end of a stream is one GameSessions allows, or no step at all.
LEMMA LeaveIsDrop ==
  ASSUME SyncInv, NEW s \in Streams, StreamLeaves(s)
  PROVE  /\ UNCHANGED <<tokens, sess>> /\ stream' = [stream EXCEPT ![s] = NoStream]
         /\ UNCHANGED vars \/ \E u \in Users, g \in Gsid : DropMember(u, g)
<1>1. stream[s].gone \in Sess
  BY DEF StreamLeaves, SyncInv, GamesyncTypeOK, Open, Leaving, NoStream
<1>2. stream[s].gone.user \in Users /\ stream[s].gone.gsid \in Gsid
  BY <1>1 DEF Sess
<1> QED BY <1>2 DEF StreamLeaves

\* The drop keeps the invariant.
LEMMA LeaveStep ==
  ASSUME SyncInv, NEW s \in Streams, StreamLeaves(s)
  PROVE  SyncInv'
<1>1. UNCHANGED <<tokens, sess>> /\ stream' = [stream EXCEPT ![s] = NoStream]
  BY LeaveIsDrop
<1>2. IInv'
  BY LeaveIsDrop, NextIInv DEF SyncInv, Next
<1>3. GamesyncTypeOK' /\ RanksDistinct' /\ OneSessionPerPlayer'
  BY <1>1 DEF SyncInv, GamesyncTypeOK, RanksDistinct, OneSessionPerPlayer, Live
<1>4. (\A g \in Gsid : members'[g] \subseteq members[g]) /\ nextSeat' = nextSeat
  <2>1. CASE UNCHANGED vars
    BY <2>1 DEF vars, rooms
  <2>2. CASE \E u \in Users, g \in Gsid : DropMember(u, g)
    BY <2>2, DropTakesSeats DEF SyncInv
  <2> QED BY <2>1, <2>2, LeaveIsDrop
<1>5. OneToken'
  BY <1>1, <1>4 DEF SyncInv, OneToken, Live, TokenOf
<1> QED BY <1>2, <1>3, <1>5 DEF SyncInv

-----------------------------------------------------------------------------
(* Theorems *)

\* No room, no token and no session when the server starts.
LEMMA InitSync == GamesyncInit => SyncInv
<1> SUFFICES ASSUME GamesyncInit PROVE SyncInv
  OBVIOUS
<1>1. IInv
  BY InitIInv DEF GamesyncInit
<1>2. tokens = {} /\ sess = [a \in Uss |-> NoSess] /\ stream = [s \in Streams |-> NoStream]
      /\ members = [g \in Gsid |-> {}]
  BY DEF GamesyncInit, Init
<1> QED BY <1>1, <1>2 DEF SyncInv, GamesyncTypeOK, OneToken, RanksDistinct, OneSessionPerPlayer, Live

\* Every step keeps the invariant, one case for each action.
LEMMA NextSync == SyncInv /\ [GamesyncNext]_allVars => SyncInv'
<1> SUFFICES ASSUME SyncInv, [GamesyncNext]_allVars PROVE SyncInv'
  OBVIOUS
<1>1. CASE Rooms
  BY <1>1, RoomsStep
<1>2. CASE \E t \in tokens, top \in 0 .. MaxRank : IssueToken(t, top)
  BY <1>2, IssueTokenStep
<1>3. CASE \E s \in Streams, t \in tokens : KeepUserSession(s, t)
  BY <1>3, KeepStep
<1>4. CASE \E s \in Streams : StreamEnds(s)
  BY <1>4, EndStep
<1>5. CASE \E s \in Streams : StreamLeaves(s)
  BY <1>5, LeaveStep
<1>6. CASE UNCHANGED allVars
  <2>1. IInv'
    BY <1>6, NextIInv DEF SyncInv, allVars
  <2> QED BY <1>6, <2>1
          DEF SyncInv, GamesyncTypeOK, OneToken, RanksDistinct, OneSessionPerPlayer, Live, TokenOf,
              allVars, syncVars, vars, rooms
<1> QED BY <1>1, <1>2, <1>3, <1>4, <1>5, <1>6 DEF GamesyncNext

\* The inductive invariant of the two services together.
THEOREM SyncInvariance == GamesyncSpec => []SyncInv
<1> QED BY InitSync, NextSync, PTL DEF GamesyncSpec

\* Every token, session and stream has its type.
THEOREM SyncTypeCorrect == GamesyncSpec => []GamesyncTypeOK
<1>1. SyncInv => GamesyncTypeOK
  BY DEF SyncInv
<1> QED BY <1>1, SyncInvariance, PTL

\* No two players of a farm have one rank, the key of Pia's station table.
THEOREM RanksStayDistinct == GamesyncSpec => []RanksDistinct
<1>1. SyncInv => RanksDistinct
  BY DEF SyncInv
<1> QED BY <1>1, SyncInvariance, PTL

\* No player ever has two gamesync sessions.
THEOREM OneSessionEach == GamesyncSpec => []OneSessionPerPlayer
<1>1. SyncInv => OneSessionPerPlayer
  BY DEF SyncInv
<1> QED BY <1>1, SyncInvariance, PTL

\* A session that opens ranks after all its farm has; an open one keeps its rank.
THEOREM RanksFollowArrival == GamesyncSpec => ArrivalOrder
<1> DEFINE Arrives == \A a \in Uss : sess'[a] # NoSess =>
                        /\ Live(a) => sess'[a].rank = sess[a].rank
                        /\ ~Live(a) => \A b \in Uss \ {a} :
                             sess'[b].gsid = sess'[a].gsid => sess'[b].rank < sess'[a].rank
<1>1. ASSUME SyncInv, [GamesyncNext]_allVars PROVE [Arrives]_allVars
  <2>1. CASE UNCHANGED sess
    BY <2>1 DEF Live
  <2>2. CASE \E t \in tokens, top \in 0 .. MaxRank : IssueToken(t, top)
    <3>1. PICK t \in tokens, top \in 0 .. MaxRank : IssueToken(t, top)
      BY <2>2
    <3>2. ASSUME NEW a \in Uss, sess'[a] # NoSess, a # t.uss
          PROVE  Live(a) /\ sess'[a].rank = sess[a].rank
      BY <1>1, <3>1, <3>2, IssuedSessions
    <3>3. ASSUME NEW b \in Uss \ {t.uss}, sess'[b].gsid = sess'[t.uss].gsid, ~Live(t.uss)
          PROVE  sess'[b].rank < sess'[t.uss].rank
      <4>1. sess'[b].rank \in Int /\ sess'[b].rank <= top /\ sess'[t.uss].rank = top + 1
        BY <1>1, <3>1, <3>3, IssuedSessions, GamesyncAssumption DEF Sess, NoSess
      <4> QED BY <4>1
    <3>4. Live(t.uss) => sess'[t.uss].rank = sess[t.uss].rank
      BY <1>1, <3>1, IssuedSessions
    <3> QED BY <3>2, <3>3, <3>4
  <2>3. CASE \E s \in Streams : StreamEnds(s)
    <3>1. PICK s \in Streams : StreamEnds(s)
      BY <2>3
    <3>2. \A a \in Uss : sess'[a] # NoSess => sess'[a] = sess[a]
      BY <1>1, <3>1 DEF StreamEnds, SyncInv, GamesyncTypeOK
    <3> QED BY <3>2 DEF Live
  <2> QED BY <1>1, <2>1, <2>2, <2>3, LeaveIsDrop DEF GamesyncNext, Rooms, KeepUserSession, allVars, syncVars
<1>2. [][Arrives]_allVars <=> ArrivalOrder
  BY DEF ArrivalOrder
<1> QED BY <1>1, <1>2, SyncInvariance, PTL DEF GamesyncSpec
=============================================================================
