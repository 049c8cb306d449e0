------------------------- MODULE GameSessionsProofs -------------------------
(***************************************************************************)
(* The invariants of GameSessions, for every set of players, configs and   *)
(* tickets and every bound.                                                *)
(***************************************************************************)
EXTENDS GameSessions, FiniteSetTheorems, TLAPS

\* Positions in a member list are names of seats already minted, so a player
\* appended now comes after all that are there.
Stamped == \A g \in Gsid : \A m \in members[g] : m.pos < nextSeat

\* No room has an id yet to be minted, and a creation ticket names a farm:
\* cancelling it need not look at pools.
Minting ==
  /\ \A g \in Gsid : g >= nextSession => ~Exists(g)
  /\ \A g \in tickets : g < nextSession /\ ~Pooled(g)

\* A call in progress points at a ticket that was made.
CallsPoint == \A c \in Calls : call[c] # NoCall => mm[call[c].ticket] \in Ticket

IInv ==
  /\ TypeOK
  /\ MapsAgree
  /\ OneSeatEach
  /\ HostLeads
  /\ OneFarmPerHost
  /\ PoolClosesEmpty
  /\ Stamped
  /\ Minting
  /\ CallsPoint

-----------------------------------------------------------------------------
(* Member lists *)

USE GameSessionsAssumption DEF Uss

\* A player takes a seat: it and those there before are the players of the
\* list, once each, the list is well typed, no position passes the new name and
\* whoever headed the list still does (addMember).
LEMMA AddMemberSeats ==
  ASSUME NEW list \in SUBSET Seat, NEW u \in Users, NEW uss \in Uss,
         \A m, n \in list : m.user = n.user => m = n,
         \A m \in list : m.pos < uss
  PROVE  /\ AddMember(list, u, uss) \in SUBSET Seat
         /\ UsersIn(AddMember(list, u, uss)) = UsersIn(list) \cup {u}
         /\ \A m, n \in AddMember(list, u, uss) : m.user = n.user => m = n
         /\ \A m \in AddMember(list, u, uss) : m.pos <= uss
         /\ \A h : First(list, h) => First(AddMember(list, u, uss), h)
  <1> DEFINE new == AddMember(list, u, uss)
             fresh == [user |-> u, uss |-> uss, pos |-> uss]
  <1>1. CASE u \in UsersIn(list)
    <2>1. PICK old \in list : old.user = u
      BY <1>1 DEF UsersIn
    <2> DEFINE back == [old EXCEPT !.uss = uss]
    <2>2. SeatOf(list, u) = {old}
      BY <2>1 DEF SeatOf
    <2>3. new = (list \ {old}) \cup {back}
      BY <1>1, <2>2 DEF AddMember
    <2>4. back \in Seat /\ back.user = u /\ back.pos = old.pos
      BY <2>1 DEF Seat
    <2> HIDE DEF new, back
    <2>5. new \in SUBSET Seat
      BY <2>3, <2>4
    <2>6. UsersIn(new) = UsersIn(list) \cup {u}
      <3>1. UsersIn(new) \subseteq UsersIn(list) \cup {u}
        BY <2>3, <2>4 DEF UsersIn
      <3>2. u \in UsersIn(new)
        BY <2>3, <2>4 DEF UsersIn
      <3>3. \A m \in list : m.user \in UsersIn(new)
        BY <2>1, <2>3, <2>4 DEF UsersIn
      <3> QED  BY <3>1, <3>2, <3>3 DEF UsersIn
    <2>7. \A m, n \in new : m.user = n.user => m = n
      BY <2>1, <2>3, <2>4
    <2>8. \A m \in new : m.pos <= uss
      BY <2>1, <2>3, <2>4 DEF Seat
    <2>9. \A h : First(list, h) => First(new, h)
      BY <2>1, <2>3, <2>4 DEF First
    <2> QED  BY <2>5, <2>6, <2>7, <2>8, <2>9 DEF new
  <1>2. CASE u \notin UsersIn(list)
    <2>1. new = list \cup {fresh}
      BY <1>2 DEF AddMember
    <2>2. fresh \in Seat /\ fresh.user = u /\ fresh.pos = uss
      BY DEF Seat
    <2>3. \A m \in list : m.user # u
      BY <1>2 DEF UsersIn
    <2> HIDE DEF new, fresh
    <2>4. new \in SUBSET Seat
      BY <2>1, <2>2
    <2>5. UsersIn(new) = UsersIn(list) \cup {u}
      BY <2>1, <2>2 DEF UsersIn
    <2>6. \A m, n \in new : m.user = n.user => m = n
      BY <2>1, <2>2, <2>3
    <2>7. \A m \in new : m.pos <= uss
      BY <2>1, <2>2 DEF Seat
    <2>8. \A h : First(list, h) => First(new, h)
      BY <2>1, <2>2 DEF First, Seat
    <2> QED  BY <2>4, <2>5, <2>6, <2>7, <2>8 DEF new
  <1> QED  BY <1>1, <1>2

\* What TakeSeat does to the lists.
LEMMA SeatTaken ==
  ASSUME IInv, NEW u \in Users, NEW g \in Gsid, TakeSeat(u, g)
  PROVE  /\ members' \in [Gsid -> SUBSET Seat]
         /\ nextSeat' \in 1 .. MaxSeats + 1
         /\ \A h \in Gsid \ {g} : members'[h] = members[h]
         /\ UsersIn(members'[g]) = UsersIn(members[g]) \cup {u}
         /\ OneSeatEach' /\ Stamped'
         /\ \A x : \A h \in Gsid : First(members[h], x) => First(members'[h], x)
  <1> USE DEF IInv, TypeOK, Stamped, OneSeatEach
  <1>1. nextSeat \in Uss /\ nextSeat <= MaxSeats /\ nextSeat' = nextSeat + 1
    BY DEF TakeSeat
  <1>2. /\ members[g] \in SUBSET Seat
        /\ \A m, n \in members[g] : m.user = n.user => m = n
        /\ \A m \in members[g] : m.pos < nextSeat
    OBVIOUS
  <1>3. members' = [members EXCEPT ![g] = AddMember(members[g], u, nextSeat)]
    BY DEF TakeSeat
  <1>4. /\ members'[g] = AddMember(members[g], u, nextSeat)
        /\ \A h \in Gsid \ {g} : members'[h] = members[h]
    BY <1>3
  <1>5. /\ members'[g] \in SUBSET Seat
        /\ UsersIn(members'[g]) = UsersIn(members[g]) \cup {u}
        /\ \A m, n \in members'[g] : m.user = n.user => m = n
        /\ \A m \in members'[g] : m.pos <= nextSeat
        /\ \A x : First(members[g], x) => First(members'[g], x)
    <2> DEFINE list == members[g]
    <2>1. /\ list \in SUBSET Seat /\ nextSeat \in Uss
          /\ \A m, n \in list : m.user = n.user => m = n
          /\ \A m \in list : m.pos < nextSeat
      BY <1>1, <1>2
    <2>2. members'[g] = AddMember(list, u, nextSeat)
      BY <1>4
    <2> HIDE DEF list, IInv, TypeOK, Stamped, OneSeatEach
    <2>3. /\ AddMember(list, u, nextSeat) \in SUBSET Seat
          /\ UsersIn(AddMember(list, u, nextSeat)) = UsersIn(list) \cup {u}
          /\ \A m, n \in AddMember(list, u, nextSeat) : m.user = n.user => m = n
          /\ \A m \in AddMember(list, u, nextSeat) : m.pos <= nextSeat
          /\ \A x : First(list, x) => First(AddMember(list, u, nextSeat), x)
      BY <2>1, AddMemberSeats
    <2> QED  BY <2>2, <2>3 DEF list
  <1>6. members' \in [Gsid -> SUBSET Seat]
    BY <1>3, <1>4, <1>5
  <1>7. Stamped'
    BY <1>1, <1>4, <1>5, <1>6 DEF Seat
  <1>8. OneSeatEach'
    BY <1>4, <1>5
  <1> QED  BY <1>1, <1>4, <1>5, <1>6, <1>7, <1>8

-----------------------------------------------------------------------------
(* One lemma per operation *)

\* A player takes a seat in a room that is there (JoinGameSession, place).
LEMMA SeatStep ==
  ASSUME IInv, NEW u \in Users, NEW g \in Gsid, Exists(g), TakeSeat(u, g),
         UNCHANGED <<sessions, pools, versions, hosts, tickets, mm, appVersion,
                     nextSession, erased>>,
         call' \in [Calls -> Call \cup {NoCall}],
         CallsPoint'
  PROVE  IInv'
  <1>1. /\ members' \in [Gsid -> SUBSET Seat] /\ nextSeat' \in 1 .. MaxSeats + 1
        /\ \A h \in Gsid \ {g} : members'[h] = members[h]
        /\ UsersIn(members'[g]) = UsersIn(members[g]) \cup {u}
        /\ OneSeatEach' /\ Stamped'
        /\ \A x : \A h \in Gsid : First(members[h], x) => First(members'[h], x)
    BY SeatTaken
  <1> USE DEF IInv
  <1>2. /\ members' \in [Gsid -> SUBSET Seat] /\ nextSeat' \in 1 .. MaxSeats + 1
        /\ \A h \in Gsid \ {g} : members'[h] = members[h]
        /\ members'[g] # {}
        /\ OneSeatEach' /\ Stamped'
        /\ \A x : \A h \in Gsid : First(members[h], x) => First(members'[h], x)
    BY <1>1 DEF UsersIn
  <1>3. TypeOK'  BY <1>2 DEF TypeOK
  <1>4. MapsAgree'  BY <1>2 DEF MapsAgree, Exists, Pooled
  <1>5. HostLeads'  BY <1>2 DEF HostLeads, Exists, Pooled
  <1>6. OneFarmPerHost'  BY DEF OneFarmPerHost, Exists, Pooled
  <1>7. PoolClosesEmpty'  BY <1>2 DEF PoolClosesEmpty, Pooled
  <1>8. Minting'  BY DEF Minting, Exists, Pooled
  <1> QED  BY <1>2, <1>3, <1>4, <1>5, <1>6, <1>7, <1>8

\* A join by name: CanJoin names a room that is there.
LEMMA JoinStep ==
  ASSUME IInv, NEW u \in Users, NEW g \in Gsid, NEW pw \in Passwords, JoinGameSession(u, g, pw)
  PROVE  IInv'
  <1>1. /\ Exists(g) /\ TakeSeat(u, g)
        /\ UNCHANGED <<sessions, pools, versions, hosts, tickets, mm, call, appVersion,
                       nextSession, erased>>
    BY DEF JoinGameSession, CanJoin
  <1>2. call' \in [Calls -> Call \cup {NoCall}] /\ CallsPoint'
    BY <1>1 DEF IInv, TypeOK, CallsPoint
  <1> QED  BY <1>1, <1>2, SeatStep

\* Closing rooms that are farms, or are closed by the caller in pools as well.
LEMMA RoomsClosed ==
  ASSUME IInv, NEW S \in SUBSET Gsid, CloseRooms(S),
         pools' \in [Gsid -> Key \cup {NoKey}],
         \A g \in S : pools'[g] = NoKey,
         \A g \in Gsid \ S : pools'[g] = pools[g],
         UNCHANGED <<nextSession, nextSeat, erased, appVersion, mm, call>>,
         tickets' \in SUBSET tickets
  PROVE  IInv'
  <1> USE DEF IInv
  <1>1. \A g \in Gsid :
          /\ sessions'[g] = IF g \in S THEN NoSession ELSE sessions[g]
          /\ members'[g] = IF g \in S THEN {} ELSE members[g]
          /\ versions'[g] = IF g \in S THEN NoVersion ELSE versions[g]
          /\ hosts'[g] = IF g \in S THEN NoUser ELSE hosts[g]
    BY DEF CloseRooms, Clear
  <1>2. NoSession \in Room
    BY DEF NoSession, Room, States
  <1>3. TypeOK'
    <2>1. /\ sessions' \in [Gsid -> Room] /\ members' \in [Gsid -> SUBSET Seat]
          /\ versions' \in [Gsid -> Versions] /\ hosts' \in [Gsid -> Users \cup {NoUser}]
      BY <1>2 DEF TypeOK, CloseRooms, Clear
    <2> QED  BY <2>1 DEF TypeOK
  <1>4. \A g \in Gsid : Exists(g)' <=> Exists(g) /\ g \notin S
    BY <1>1 DEF Exists, NoSession
  <1>5. \A g \in Gsid : Pooled(g)' <=> Pooled(g) /\ g \notin S
    BY DEF Pooled
  <1>6. MapsAgree'
    BY <1>1, <1>4, <1>5 DEF MapsAgree
  <1>7. OneSeatEach' /\ Stamped'
    BY <1>1 DEF OneSeatEach, Stamped
  <1>8. HostLeads' /\ OneFarmPerHost'
    BY <1>1, <1>4, <1>5 DEF HostLeads, OneFarmPerHost
  <1>9. PoolClosesEmpty'
    BY <1>1, <1>5 DEF PoolClosesEmpty
  <1>10. Minting'
    BY <1>4, <1>5 DEF Minting, TypeOK
  <1>11. CallsPoint'
    BY DEF CallsPoint
  <1> QED  BY <1>3, <1>6, <1>7, <1>8, <1>9, <1>10, <1>11

\* A cancelled creation ticket closes its own room, which is no pool.
LEMMA CancelStep ==
  ASSUME IInv, NEW g \in Gsid, CancelGameSessionCreationTicket(g)
  PROVE  IInv'
  <1>1. ~Pooled(g)
    BY DEF IInv, Minting, CancelGameSessionCreationTicket
  <1> QED  BY <1>1, RoomsClosed DEF IInv, TypeOK, Pooled, CancelGameSessionCreationTicket

\* Seats go and nothing else of the rooms changes.
LEMMA SeatsGone ==
  ASSUME IInv, members' \in [Gsid -> SUBSET Seat],
         \A g \in Gsid : members'[g] \subseteq members[g],
         \A g \in Gsid : Exists(g) /\ ~Pooled(g) /\ hosts[g] \notin erased' /\ First(members[g], hosts[g])
           => First(members'[g], hosts[g]),
         \A g \in Gsid : Pooled(g) /\ members'[g] = {} => erased' # {},
         erased \subseteq erased', erased' \subseteq Users,
         UNCHANGED <<sessions, pools, versions, hosts, tickets, nextSession, nextSeat>>,
         appVersion' \in [Users -> Versions],
         mm' \in [Tickets -> Ticket \cup {NoTicket}],
         call' \in [Calls -> Call \cup {NoCall}],
         CallsPoint'
  PROVE  IInv'
  <1> USE DEF IInv
  <1>1. TypeOK'  BY DEF TypeOK
  <1>2. MapsAgree'  BY DEF MapsAgree, Exists, Pooled
  <1>3. OneSeatEach' /\ Stamped'  BY DEF OneSeatEach, Stamped
  <1>4. HostLeads'  BY DEF HostLeads, Exists, Pooled
  <1>5. OneFarmPerHost'  BY DEF OneFarmPerHost, Exists, Pooled
  <1>6. PoolClosesEmpty'  BY DEF PoolClosesEmpty, Pooled
  <1>7. Minting'  BY DEF Minting, Exists, Pooled
  <1> QED  BY <1>1, <1>2, <1>3, <1>4, <1>5, <1>6, <1>7

\* A departure closes the farm of its host, the pool of its last player, or
\* takes one seat away.
LEMMA DropStep ==
  ASSUME IInv, NEW u \in Users, NEW g \in Gsid, DropMember(u, g)
  PROVE  IInv'
  <1> DEFINE kept == members[g] \ SeatOf(members[g], u)
  <1>0. UNCHANGED <<tickets, mm, call, appVersion, nextSession, nextSeat, erased>>
    BY DEF DropMember
  <1>1. CASE CloseRooms({g}) /\ ~Pooled(g) /\ UNCHANGED pools
    BY <1>0, <1>1, RoomsClosed DEF IInv, TypeOK, Pooled
  <1>2. CASE CloseRooms({g}) /\ pools' = [pools EXCEPT ![g] = NoKey]
    BY <1>0, <1>2, RoomsClosed DEF IInv, TypeOK
  <1>3. CASE /\ ~(~Pooled(g) /\ First(members[g], u)) /\ ~(Pooled(g) /\ kept = {})
             /\ members' = [members EXCEPT ![g] = kept]
             /\ UNCHANGED <<sessions, pools, versions, hosts>>
    <2>1. \A h \in Gsid : members'[h] = IF h = g THEN kept ELSE members[h]
      BY <1>3 DEF IInv, TypeOK
    <2>2. members' \in [Gsid -> SUBSET Seat]
      BY <1>3 DEF IInv, TypeOK
    <2>3. ASSUME ~Pooled(g), First(members[g], hosts[g])
          PROVE  First(kept, hosts[g])
      BY <1>3, <2>3 DEF First, SeatOf
    <2>4. PoolClosesEmpty
      BY DEF IInv
    <2>5. \A h \in Gsid : Pooled(h) /\ members'[h] = {} => erased # {}
      BY <1>3, <2>1, <2>4 DEF PoolClosesEmpty
    <2>6. CallsPoint'
      BY <1>0 DEF IInv, CallsPoint
    <2> HIDE DEF kept
    <2>7. \A h \in Gsid : members'[h] \subseteq members[h]
      BY <2>1 DEF kept
    <2> QED  BY <1>0, <1>3, <2>1, <2>2, <2>3, <2>5, <2>6, <2>7, SeatsGone DEF IInv, TypeOK
  <1> QED  BY <1>1, <1>2, <1>3 DEF DropMember

\* An erasure takes the seats of one player everywhere and shuts its tickets.
LEMMA EraseStep ==
  ASSUME IInv, NEW u \in Users, EraseUser(u)
  PROVE  IInv'
  <1>1. \A g \in Gsid : members'[g] = members[g] \ SeatOf(members[g], u)
    BY DEF EraseUser
  <1>2. members' \in [Gsid -> SUBSET Seat]
    BY DEF EraseUser, IInv, TypeOK
  <1>3. /\ erased' = erased \cup {u}
        /\ UNCHANGED <<sessions, pools, versions, hosts, tickets, call, nextSession, nextSeat>>
    BY DEF EraseUser
  <1>4. /\ mm' \in [Tickets -> Ticket \cup {NoTicket}]
        /\ \A t \in Tickets : mm[t] \in Ticket => mm'[t] \in Ticket
    <2>1. \A t \in Tickets : mm'[t] = [mm[t] EXCEPT !.open = @ /\ mm[t].owner # u]
      BY DEF EraseUser
    <2>2. \A t \in Tickets : mm[t] \in Ticket => mm'[t] \in Ticket
      BY <2>1 DEF Ticket
    <2>3. \A t \in Tickets : mm[t] = NoTicket => mm'[t] = NoTicket
      <3> SUFFICES ASSUME NEW t \in Tickets, mm[t] = NoTicket  PROVE mm'[t] = NoTicket
        OBVIOUS
      <3>1. mm'[t] = [NoTicket EXCEPT !.open = NoTicket.open /\ NoTicket.owner # u]
        BY <2>1
      <3>2. NoTicket.open = FALSE
        BY DEF NoTicket
      <3>3. (NoTicket.open /\ NoTicket.owner # u) = FALSE
        BY <3>2
      <3>4. mm'[t] = [NoTicket EXCEPT !.open = FALSE]
        BY <3>1, <3>3
      <3> QED  BY <3>4 DEF NoTicket
    <2> QED  BY <2>1, <2>2, <2>3 DEF EraseUser, IInv, TypeOK
  <1>5. CallsPoint'
    BY <1>3, <1>4 DEF IInv, TypeOK, CallsPoint, Call, NoCall
  <1>6. appVersion' \in [Users -> Versions]
    BY DEF EraseUser, IInv, TypeOK
  <1>7. \A g \in Gsid : hosts[g] # u /\ First(members[g], hosts[g])
                        => First(members'[g], hosts[g])
    BY <1>1 DEF First, SeatOf
  <1>8. \A g \in Gsid : members'[g] \subseteq members[g]
    BY <1>1
  <1> QED
    BY <1>2, <1>3, <1>4, <1>5, <1>6, <1>7, <1>8, SeatsGone DEF IInv, TypeOK

\* A step that leaves the rooms alone.
LEMMA RoomsKept ==
  ASSUME IInv, UNCHANGED <<rooms, tickets, nextSession, nextSeat, erased>>,
         appVersion' \in [Users -> Versions],
         mm' \in [Tickets -> Ticket \cup {NoTicket}],
         call' \in [Calls -> Call \cup {NoCall}],
         CallsPoint'
  PROVE  IInv'
  <1>1. UNCHANGED <<sessions, members, pools, versions, hosts>>
    BY DEF rooms
  <1>2. PoolClosesEmpty
    BY DEF IInv
  <1>3. \A g \in Gsid : Pooled(g) /\ members'[g] = {} => erased' # {}
    BY <1>1, <1>2 DEF PoolClosesEmpty
  <1> QED  BY <1>1, <1>3, SeatsGone DEF IInv, TypeOK

\* A sign-in touches no room.
LEMMA RememberStep ==
  ASSUME IInv, NEW u \in Users, NEW v \in Versions, RememberAppVersion(u, v)
  PROVE  IInv'
  <1>1. CallsPoint'
    BY DEF RememberAppVersion, IInv, CallsPoint
  <1> QED  BY <1>1, RoomsKept DEF RememberAppVersion, IInv, TypeOK

\* A sync keeps the room open and changes nothing but its fields.
LEMMA SyncStep ==
  ASSUME IInv, NEW u \in Users, NEW g \in Gsid, NEW in \in Syncs, SyncGameSession(u, g, in)
  PROVE  IInv'
  <1> USE DEF IInv
  <1>1. /\ Exists(g)
        /\ UNCHANGED <<members, pools, versions, hosts, tickets, mm, call, appVersion,
                       nextSession, nextSeat, erased>>
    BY DEF SyncGameSession
  <1> DEFINE new == [state      |-> IF in.state = "GONE" THEN sessions[g].state ELSE in.state,
                     max        |-> IF in.max > 0 THEN in.max ELSE sessions[g].max,
                     password   |-> in.password,
                     friendRoom |-> IF in.clear THEN NoRoom ELSE sessions[g].friendRoom]
  <1>2. sessions' = [sessions EXCEPT ![g] = new]
    BY DEF SyncGameSession
  <1>3. sessions[g] \in Room
    BY DEF TypeOK
  <1>4. /\ in.max \in Nat /\ in.password \in Passwords /\ in.state \in States
    BY DEF States
  <1>5. new \in Room /\ new.state # "GONE"
    BY <1>1, <1>3, <1>4 DEF Room, Exists
  <1> HIDE DEF new
  <1>6. sessions' \in [Gsid -> Room] /\ \A h \in Gsid : Exists(h)' <=> Exists(h)
    BY <1>1, <1>2, <1>5 DEF TypeOK, Exists
  <1>7. TypeOK'  BY <1>1, <1>6 DEF TypeOK
  <1>8. MapsAgree'  BY <1>1, <1>6 DEF MapsAgree, Pooled
  <1>9. OneSeatEach' /\ Stamped'  BY <1>1 DEF OneSeatEach, Stamped
  <1>10. HostLeads'  BY <1>1, <1>6 DEF HostLeads, Pooled
  <1>11. OneFarmPerHost'  BY <1>1, <1>6 DEF OneFarmPerHost, Pooled
  <1>12. PoolClosesEmpty'  BY <1>1 DEF PoolClosesEmpty, Pooled
  <1>13. Minting'  BY <1>1, <1>6 DEF Minting, Pooled
  <1>14. CallsPoint'  BY <1>1 DEF CallsPoint
  <1> QED  BY <1>7, <1>8, <1>9, <1>10, <1>11, <1>12, <1>13, <1>14

\* A host opens a farm: the farms it headed go, which is what leaves it with one.
LEMMA CreateStep ==
  ASSUME IInv, NEW u \in Users, NEW in \in Creations, CreateGameSessionCreationTicket(u, in)
  PROVE  IInv'
  <1> USE DEF IInv
  <1> PICK g : g = nextSession
    OBVIOUS
  <1> DEFINE room == [state |-> "ACTIVE", password |-> in.password, friendRoom |-> NoRoom,
                      max |-> IF in.max > 0 THEN in.max ELSE CapacityOr(in.cfg, 4)]
             seat == [user |-> u, uss |-> nextSeat, pos |-> nextSeat]
  <1>1. /\ g = nextSession /\ nextSession <= MaxSessions /\ nextSeat <= MaxSeats
        /\ nextSession' = nextSession + 1 /\ nextSeat' = nextSeat + 1
        /\ tickets' = tickets \cup {g}
        /\ UNCHANGED <<pools, mm, call, appVersion, erased>>
        /\ sessions' = [Clear(sessions, Stale(u), NoSession) EXCEPT ![g] = room]
        /\ members'  = [Clear(members, Stale(u), {}) EXCEPT ![g] = AddMember({}, u, nextSeat)]
        /\ versions' = [Clear(versions, Stale(u), NoVersion) EXCEPT ![g] = appVersion[u]]
        /\ hosts'    = [Clear(hosts, Stale(u), NoUser) EXCEPT ![g] = u]
    BY DEF CreateGameSessionCreationTicket
  <1>2. g \in Gsid /\ nextSeat \in Uss /\ nextSession \in Nat
    BY <1>1 DEF TypeOK, Gsid
  <1>3. AddMember({}, u, nextSeat) = {seat}
    BY DEF AddMember, UsersIn
  <1>4. room \in Room /\ room.state # "GONE"
    <2>1. in.cfg \in Configs /\ in.max \in Nat /\ in.password \in Passwords
      OBVIOUS
    <2>2. CapacityOr(in.cfg, 4) \in Nat
      BY <2>1 DEF CapacityOr
    <2> QED  BY <2>1, <2>2 DEF Room, States
  <1>5. seat \in Seat /\ seat.user = u /\ seat.pos = nextSeat
    BY <1>2 DEF Seat
  <1>6. NoSession \in Room /\ NoSession.state = "GONE"
    BY DEF NoSession, Room, States
  <1>7. appVersion[u] \in Versions
    BY DEF TypeOK
  <1> HIDE DEF room, seat
  <1>8. /\ sessions'[g] = room /\ members'[g] = {seat}
        /\ versions'[g] = appVersion[u] /\ hosts'[g] = u
    BY <1>1, <1>2, <1>3 DEF Clear
  <1>9. \A h \in Gsid \ {g} :
          /\ sessions'[h] = IF h \in Stale(u) THEN NoSession ELSE sessions[h]
          /\ members'[h] = IF h \in Stale(u) THEN {} ELSE members[h]
          /\ versions'[h] = IF h \in Stale(u) THEN NoVersion ELSE versions[h]
          /\ hosts'[h] = IF h \in Stale(u) THEN NoUser ELSE hosts[h]
    BY <1>1, <1>2 DEF Clear
  <1>10. ~Exists(g) /\ ~Pooled(g)
    BY <1>2 DEF Minting, MapsAgree
  <1>11. TypeOK'
    <2>1. /\ sessions' \in [Gsid -> Room]
      BY <1>1, <1>4, <1>6 DEF TypeOK, Clear
    <2>2. members' \in [Gsid -> SUBSET Seat]
      BY <1>1, <1>3, <1>5 DEF TypeOK, Clear
    <2>3. /\ versions' \in [Gsid -> Versions]
          /\ hosts' \in [Gsid -> Users \cup {NoUser}]
      BY <1>1, <1>7 DEF TypeOK, Clear
    <2>4. /\ nextSession' \in 1 .. MaxSessions + 1 /\ nextSeat' \in 1 .. MaxSeats + 1
      BY <1>1, <1>2 DEF TypeOK
    <2> QED  BY <1>1, <1>2, <2>1, <2>2, <2>3, <2>4 DEF TypeOK
  <1>12. \A h \in Gsid \ {g} : Exists(h)' <=> Exists(h) /\ h \notin Stale(u)
    BY <1>6, <1>9 DEF Exists
  <1>13. Exists(g)'
    BY <1>4, <1>8 DEF Exists
  <1>14. \A h \in Gsid : Pooled(h)' <=> Pooled(h)
    BY <1>1 DEF Pooled
  <1>15. \A h \in Stale(u) : ~Pooled(h)
    BY DEF Stale
  <1>16. u # NoUser
    OBVIOUS
  <1>17. MapsAgree'
    BY <1>8, <1>9, <1>12, <1>13, <1>14, <1>15, <1>16 DEF MapsAgree
  <1>18. OneSeatEach'
    BY <1>8, <1>9 DEF OneSeatEach
  <1>19. HostLeads'
    <2>1. First(members'[g], u)
      BY <1>2, <1>5, <1>8 DEF First
    <2> QED  BY <1>1, <1>8, <1>9, <1>12, <1>14, <2>1 DEF HostLeads
  <1>20. OneFarmPerHost'
    <2>1. ASSUME NEW h \in Gsid \ {g}, Exists(h)', ~Pooled(h)', hosts'[h] = u, u \notin erased
          PROVE  FALSE
      <3>1. Exists(h) /\ ~Pooled(h) /\ h \notin Stale(u) /\ hosts[h] = u
        BY <1>9, <1>12, <1>14, <2>1
      <3>2. First(members[h], u)
        BY <2>1, <3>1 DEF HostLeads
      <3> QED  BY <3>1, <3>2 DEF Stale
    <2> QED  BY <1>1, <1>8, <1>9, <1>12, <1>14, <2>1 DEF OneFarmPerHost
  <1>21. PoolClosesEmpty'
    BY <1>1, <1>9, <1>10, <1>14, <1>15 DEF PoolClosesEmpty
  <1>22. Stamped'
    BY <1>1, <1>2, <1>5, <1>8, <1>9 DEF Stamped, TypeOK, Seat
  <1>23. Minting'
    BY <1>1, <1>2, <1>10, <1>12, <1>14 DEF Minting, TypeOK, Gsid
  <1>24. CallsPoint'
    BY <1>1 DEF CallsPoint
  <1> QED
    BY <1>11, <1>17, <1>18, <1>19, <1>20, <1>21, <1>22, <1>23, <1>24

\* A new ticket has an owner, and a friend ticket names a room that exists.
LEMMA CreateTicketStep ==
  ASSUME IInv, NEW u \in Users, NEW t \in Tickets, NEW cfg \in Configs,
         NEW room \in {NoRoom} \cup Gsid, CreateMatchmakingTicket(u, t, cfg, room)
  PROVE  IInv'
  <1> DEFINE new == [owner |-> u, key |-> [cfg |-> cfg, room |-> room],
                     gsid |-> NoRoom, open |-> TRUE]
  <1>1. new \in Ticket
    BY DEF Ticket, Key
  <1>2. /\ mm' = [mm EXCEPT ![t] = new]
        /\ UNCHANGED <<rooms, tickets, call, appVersion, nextSession, nextSeat, erased>>
    BY DEF CreateMatchmakingTicket
  <1> HIDE DEF new
  <1>3. mm' \in [Tickets -> Ticket \cup {NoTicket}] /\ \A s \in Tickets : mm[s] \in Ticket => mm'[s] \in Ticket
    BY <1>1, <1>2 DEF IInv, TypeOK
  <1>4. CallsPoint'
    BY <1>2, <1>3 DEF IInv, TypeOK, CallsPoint, Call, NoCall
  <1> QED  BY <1>2, <1>3, <1>4, RoomsKept DEF IInv, TypeOK

\* An open ticket is a ticket that was made.
LEMMA OpenIsMade ==
  ASSUME TypeOK, NEW t \in Tickets, mm[t].open
  PROVE  mm[t] \in Ticket
  <1>1. mm[t] \in Ticket \/ mm[t] = NoTicket
    BY DEF TypeOK
  <1>2. NoTicket.open = FALSE
    BY DEF NoTicket
  <1> QED  BY <1>1, <1>2

\* A cancelled ticket keeps its owner and key for the calls that hold it.
LEMMA CancelTicketStep ==
  ASSUME IInv, NEW t \in Tickets, CancelMatchmakingTicket(t)
  PROVE  IInv'
  <1>1. mm[t] \in Ticket
    BY OpenIsMade DEF IInv, CancelMatchmakingTicket
  <1>2. /\ mm' = [mm EXCEPT ![t].open = FALSE]
        /\ UNCHANGED <<rooms, tickets, call, appVersion, nextSession, nextSeat, erased>>
    BY DEF CancelMatchmakingTicket
  <1>3. [mm[t] EXCEPT !.open = FALSE] \in Ticket
    BY <1>1 DEF Ticket
  <1>4. mm' \in [Tickets -> Ticket \cup {NoTicket}] /\ \A s \in Tickets : mm[s] \in Ticket => mm'[s] \in Ticket
    BY <1>2, <1>3 DEF IInv, TypeOK
  <1>5. CallsPoint'
    BY <1>2, <1>4 DEF IInv, TypeOK, CallsPoint, Call, NoCall
  <1> QED  BY <1>2, <1>4, <1>5, RoomsKept DEF IInv, TypeOK

\* A call starts with the ticket it found and the session the ticket names.
LEMMA TrackReadStep ==
  ASSUME IInv, NEW c \in Calls, NEW t \in Tickets, TrackRead(c, t)
  PROVE  IInv'
  <1>1. mm[t] \in Ticket
    BY OpenIsMade DEF IInv, TrackRead
  <1> DEFINE new == [pc |-> "read", ticket |-> t, gsid |-> mm[t].gsid, mine |-> NoVersion]
  <1>2. new \in Call /\ new.ticket = t
    BY <1>1 DEF Call, Ticket
  <1>3. /\ call' = [call EXCEPT ![c] = new]
        /\ UNCHANGED <<rooms, tickets, mm, appVersion, nextSession, nextSeat, erased>>
    BY DEF TrackRead
  <1> HIDE DEF new
  <1>4. call' \in [Calls -> Call \cup {NoCall}]
    BY <1>2, <1>3 DEF IInv, TypeOK
  <1>5. CallsPoint'
    BY <1>1, <1>2, <1>3 DEF IInv, TypeOK, CallsPoint
  <1> QED  BY <1>3, <1>4, <1>5, RoomsKept DEF IInv, TypeOK

\* A call that finds its session ends and changes nothing else.
LEMMA TrackPlacedStep ==
  ASSUME IInv, NEW c \in Calls, TrackPlaced(c)
  PROVE  IInv'
  <1>1. /\ call' = [call EXCEPT ![c] = NoCall]
        /\ UNCHANGED <<rooms, tickets, mm, appVersion, nextSession, nextSeat, erased>>
    BY DEF TrackPlaced
  <1>2. call' \in [Calls -> Call \cup {NoCall}] /\ CallsPoint'
    BY <1>1 DEF IInv, TypeOK, CallsPoint
  <1> QED  BY <1>1, <1>2, RoomsKept DEF IInv, TypeOK

\* A call past its first section names a ticket and where it was last placed.
LEMMA CallOf ==
  ASSUME IInv, NEW c \in Calls, call[c].pc \in {"read", "versioned", "seated"}
  PROVE  /\ call[c] \in Call
         /\ call[c].ticket \in Tickets
         /\ call[c].gsid \in {NoRoom} \cup Gsid
         /\ mm[call[c].ticket] \in Ticket
  <1>1. call[c] \in Call
    BY DEF IInv, TypeOK, NoCall
  <1>2. call[c] # NoCall
    BY DEF NoCall
  <1> QED  BY <1>1, <1>2 DEF IInv, CallsPoint, Call

\* A call looks the version of its player up.
LEMMA TrackVersionStep ==
  ASSUME IInv, NEW c \in Calls, TrackVersion(c)
  PROVE  IInv'
  <1> DEFINE v == appVersion[mm[call[c].ticket].owner]
             new == [call[c] EXCEPT !.pc = "versioned", !.gsid = NoRoom, !.mine = v]
  <1>1. /\ call[c] \in Call /\ call[c] # NoCall /\ mm[call[c].ticket] \in Ticket
    BY CallOf DEF TrackVersion, NoCall
  <1>2. v \in Versions
    BY <1>1 DEF IInv, TypeOK, Ticket
  <1>3. /\ call' = [call EXCEPT ![c] = new]
        /\ UNCHANGED <<rooms, tickets, mm, appVersion, nextSession, nextSeat, erased>>
    BY DEF TrackVersion
  <1> HIDE DEF v
  <1>4. new \in Call /\ new.ticket = call[c].ticket
    BY <1>1, <1>2 DEF Call
  <1> HIDE DEF new
  <1>5. call' \in [Calls -> Call \cup {NoCall}] /\ CallsPoint'
    BY <1>1, <1>3, <1>4 DEF IInv, TypeOK, CallsPoint
  <1> QED  BY <1>3, <1>5, RoomsKept DEF IInv, TypeOK

\* A call writes the session it seated its player in back to the ticket.
LEMMA TrackRecordStep ==
  ASSUME IInv, NEW c \in Calls, TrackRecord(c)
  PROVE  IInv'
  <1> DEFINE t == call[c].ticket
             to == call[c].gsid
  <1>1. t \in Tickets /\ to \in {NoRoom} \cup Gsid /\ mm[t] \in Ticket
    BY CallOf DEF TrackRecord
  <1>2. /\ mm' = [mm EXCEPT ![t].gsid = to]
        /\ call' = [call EXCEPT ![c] = NoCall]
        /\ UNCHANGED <<rooms, tickets, appVersion, nextSession, nextSeat, erased>>
    BY DEF TrackRecord
  <1> HIDE DEF t, to
  <1>3. [mm[t] EXCEPT !.gsid = to] \in Ticket
    BY <1>1 DEF Ticket
  <1>4. mm' \in [Tickets -> Ticket \cup {NoTicket}] /\ \A s \in Tickets : mm[s] \in Ticket => mm'[s] \in Ticket
    BY <1>1, <1>2, <1>3 DEF IInv, TypeOK
  <1>5. call' \in [Calls -> Call \cup {NoCall}] /\ CallsPoint'
    BY <1>2, <1>4 DEF IInv, TypeOK, CallsPoint, Call, NoCall
  <1> QED  BY <1>2, <1>4, <1>5, RoomsKept DEF IInv, TypeOK

-----------------------------------------------------------------------------
(* place *)

\* A pool is opened under a fresh id with its first player in it.
LEMMA PoolStep ==
  ASSUME IInv, NEW u \in Users, NEW key \in Key, NewPool(u, key),
         UNCHANGED <<tickets, mm, appVersion, erased>>,
         call' \in [Calls -> Call \cup {NoCall}],
         CallsPoint'
  PROVE  IInv'
  <1> USE DEF IInv
  <1> PICK g : g = nextSession
    OBVIOUS
  <1> DEFINE pool == [state |-> "ACTIVE", max |-> CapacityOr(key.cfg, 4),
                      password |-> NoPassword, friendRoom |-> key.room]
  <1>1. /\ g = nextSession /\ nextSession <= MaxSessions
        /\ nextSession' = nextSession + 1
        /\ TakeSeat(u, g)
        /\ sessions' = [sessions EXCEPT ![g] = pool]
        /\ pools' = [pools EXCEPT ![g] = key]
        /\ versions' = [versions EXCEPT ![g] = appVersion[u]]
        /\ hosts' = [hosts EXCEPT ![g] = u]
    BY DEF NewPool
  <1>2. g \in Gsid
    BY <1>1 DEF TypeOK, Gsid
  <1>3. pool \in Room /\ pool.state # "GONE"
    BY DEF Room, States, Key, CapacityOr
  <1>4. key # NoKey
    BY DEF Key, NoKey
  <1> HIDE DEF pool
  <1>5. nextSession \in Nat
    BY DEF TypeOK
  <1>6. /\ members' \in [Gsid -> SUBSET Seat] /\ nextSeat' \in 1 .. MaxSeats + 1
        /\ \A h \in Gsid \ {g} : members'[h] = members[h]
        /\ members'[g] # {}
        /\ OneSeatEach' /\ Stamped'
    <2> HIDE DEF IInv
    <2>1. /\ members' \in [Gsid -> SUBSET Seat] /\ nextSeat' \in 1 .. MaxSeats + 1
          /\ \A h \in Gsid \ {g} : members'[h] = members[h]
          /\ UsersIn(members'[g]) = UsersIn(members[g]) \cup {u}
          /\ OneSeatEach' /\ Stamped'
      BY <1>1, <1>2, SeatTaken
    <2> QED  BY <2>1 DEF UsersIn
  <1>7. \A h \in Gsid :
          /\ sessions'[h] = IF h = g THEN pool ELSE sessions[h]
          /\ pools'[h] = IF h = g THEN key ELSE pools[h]
          /\ versions'[h] = IF h = g THEN appVersion[u] ELSE versions[h]
          /\ hosts'[h] = IF h = g THEN u ELSE hosts[h]
    BY <1>1, <1>2 DEF TypeOK
  <1>8. TypeOK'
    <2>1. sessions' \in [Gsid -> Room] /\ pools' \in [Gsid -> Key \cup {NoKey}]
      BY <1>1, <1>3 DEF TypeOK
    <2>2. versions' \in [Gsid -> Versions] /\ hosts' \in [Gsid -> Users \cup {NoUser}]
      BY <1>1 DEF TypeOK
    <2>3. nextSession' \in 1 .. MaxSessions + 1
      BY <1>1 DEF TypeOK
    <2> QED  BY <1>6, <2>1, <2>2, <2>3 DEF TypeOK
  <1>9. \A h \in Gsid :
          /\ Exists(h)' <=> (Exists(h) \/ h = g)
          /\ Pooled(h)' <=> (Pooled(h) \/ h = g)
    BY <1>3, <1>4, <1>7 DEF Exists, Pooled
  <1>10. MapsAgree'
    BY <1>6, <1>7, <1>9 DEF MapsAgree
  <1>11. HostLeads'
    BY <1>6, <1>7, <1>9 DEF HostLeads
  <1>12. OneFarmPerHost'
    BY <1>7, <1>9 DEF OneFarmPerHost
  <1>13. PoolClosesEmpty'
    BY <1>6, <1>9 DEF PoolClosesEmpty
  <1>14. Minting'
    BY <1>1, <1>2, <1>5, <1>9 DEF Minting, TypeOK, Gsid
  <1> QED  BY <1>6, <1>8, <1>10, <1>11, <1>12, <1>13, <1>14

\* A call seats its player: where it sits, in a pool with room, or in a new one.
LEMMA TrackPlaceStep ==
  ASSUME IInv, NEW c \in Calls, NEW g \in Gsid, TrackPlace(c, g)
  PROVE  IInv'
  <1> DEFINE t == call[c].ticket
             u == mm[t].owner
             key == mm[t].key
             mine == call[c].mine
  <1>1. /\ call[c] \in Call /\ call[c] # NoCall /\ t \in Tickets /\ mm[t] \in Ticket
        /\ u \in Users /\ key \in Key
    BY CallOf DEF TrackPlace, Ticket, NoCall
  <1>2. /\ Place(u, key, mine, g)
        /\ call' = [call EXCEPT ![c].pc = "seated", ![c].gsid = g, ![c].mine = NoVersion]
        /\ UNCHANGED <<tickets, mm, appVersion, erased>>
    BY DEF TrackPlace
  <1> DEFINE new == [call[c] EXCEPT !.pc = "seated", !.gsid = g, !.mine = NoVersion]
  <1>3. new \in Call /\ new.ticket = t
    BY <1>1 DEF Call
  <1>4. call' = [call EXCEPT ![c] = new]
    BY <1>2
  <1> HIDE DEF new
  <1>5. call' \in [Calls -> Call \cup {NoCall}] /\ CallsPoint'
    <2>1. call \in [Calls -> Call \cup {NoCall}] /\ CallsPoint /\ mm' = mm
      BY <1>2 DEF IInv, TypeOK
    <2> HIDE DEF t
    <2> QED  BY <1>1, <1>3, <1>4, <2>1 DEF CallsPoint
  <1> HIDE DEF t, u, key, mine
  <1>6. CASE UNCHANGED <<rooms, nextSession, nextSeat>>
    BY <1>2, <1>5, <1>6, RoomsKept DEF IInv, TypeOK
  <1>7. CASE /\ g \in Roomy(key, mine) /\ TakeSeat(u, g)
             /\ UNCHANGED <<sessions, pools, versions, hosts, nextSession>>
    <2>1. Exists(g)
      BY <1>7 DEF Roomy, Matching, Exists
    <2> QED  BY <1>1, <1>2, <1>5, <1>7, <2>1, SeatStep
  <1>8. CASE NewPool(u, key)
    BY <1>1, <1>2, <1>5, <1>8, PoolStep
  <1> QED  BY <1>2, <1>6, <1>7, <1>8 DEF Place

-----------------------------------------------------------------------------
\* The inductive invariant holds in the initial state.
LEMMA InitIInv == Init => IInv
  <1> SUFFICES ASSUME Init PROVE IInv
    OBVIOUS
  <1> USE DEF Init
  <1>1. \A g \in Gsid : ~Exists(g) /\ ~Pooled(g) /\ members[g] = {}
    BY DEF Exists, Pooled, NoSession
  <1>2. TypeOK
    <2>1. NoSession \in Room
      BY DEF NoSession, Room, States
    <2>2. 1 \in 1 .. MaxSessions + 1 /\ 1 \in 1 .. MaxSeats + 1
      OBVIOUS
    <2> QED  BY <2>1, <2>2 DEF TypeOK
  <1>3. MapsAgree  BY <1>1 DEF MapsAgree
  <1>4. OneSeatEach /\ Stamped  BY <1>1 DEF OneSeatEach, Stamped
  <1>5. HostLeads /\ OneFarmPerHost /\ PoolClosesEmpty
    BY <1>1 DEF HostLeads, OneFarmPerHost, PoolClosesEmpty
  <1>6. Minting  BY <1>1 DEF Minting
  <1>7. CallsPoint  BY DEF CallsPoint
  <1> QED  BY <1>2, <1>3, <1>4, <1>5, <1>6, <1>7 DEF IInv

\* Every step keeps the inductive invariant, one case for each action.
LEMMA NextIInv == IInv /\ [Next]_vars => IInv'
  <1> SUFFICES ASSUME IInv, [Next]_vars PROVE IInv'
    OBVIOUS
  <1>1. ASSUME NEW u \in Users, NEW v \in VersionsOf[u], RememberAppVersion(u, v)
        PROVE  IInv'
    BY <1>1, RememberStep
  <1>2. ASSUME NEW u \in Users, NEW in \in Creations, CreateGameSessionCreationTicket(u, in)
        PROVE  IInv'
    BY <1>2, CreateStep
  <1>3. ASSUME NEW g \in Gsid, CancelGameSessionCreationTicket(g)
        PROVE  IInv'
    BY <1>3, CancelStep
  <1>4. ASSUME NEW u \in Users, NEW g \in Gsid, NEW pw \in Passwords, JoinGameSession(u, g, pw)
        PROVE  IInv'
    BY <1>4, JoinStep
  <1>5. ASSUME NEW u \in Users, NEW g \in Gsid, NEW in \in Syncs, SyncGameSession(u, g, in)
        PROVE  IInv'
    BY <1>5, SyncStep
  <1>6. ASSUME NEW u \in Users, NEW t \in Tickets, NEW cfg \in Configs,
               NEW room \in {NoRoom} \cup Gsid, CreateMatchmakingTicket(u, t, cfg, room)
        PROVE  IInv'
    BY <1>6, CreateTicketStep
  <1>7. ASSUME NEW t \in Tickets, CancelMatchmakingTicket(t)
        PROVE  IInv'
    BY <1>7, CancelTicketStep
  <1>8. ASSUME NEW c \in Calls, NEW t \in Tickets, TrackRead(c, t)
        PROVE  IInv'
    BY <1>8, TrackReadStep
  <1>9. ASSUME NEW c \in Calls, TrackPlaced(c)
        PROVE  IInv'
    BY <1>9, TrackPlacedStep
  <1>10. ASSUME NEW c \in Calls, NEW g \in Gsid, TrackPlace(c, g)
         PROVE  IInv'
    BY <1>10, TrackPlaceStep
  <1>11. ASSUME NEW c \in Calls, TrackRecord(c)
         PROVE  IInv'
    BY <1>11, TrackRecordStep
  <1>12. ASSUME NEW u \in Users, NEW g \in Gsid, DropMember(u, g)
         PROVE  IInv'
    BY <1>12, DropStep
  <1>13. ASSUME NEW u \in Erasable, EraseUser(u)
         PROVE  IInv'
    BY <1>13, EraseStep
  <1>14. ASSUME NEW c \in Calls, TrackVersion(c)
         PROVE  IInv'
    BY <1>14, TrackVersionStep
  <1>15. CASE UNCHANGED vars
    BY <1>15, RoomsKept DEF vars, IInv, TypeOK, CallsPoint
  <1> QED
    BY <1>1, <1>2, <1>3, <1>4, <1>5, <1>6, <1>7, <1>8, <1>9, <1>10, <1>11, <1>12, <1>13,
       <1>14, <1>15 DEF Next, Rpc

\* The inductive invariant: what the properties need beyond themselves is that
\* ids are fresh when they are minted and that calls and tickets name players.
THEOREM Invariance == Spec => []IInv
  BY InitIInv, NextIInv, PTL DEF Spec

\* Every variable keeps its type: ids stay within those minted, a ticket names
\* a session or none, a call a ticket.
THEOREM TypeCorrect == Spec => []TypeOK
  BY Invariance, PTL DEF IInv

\* A closed session leaves nothing behind in any of the maps (sessions.go,
\* the four deletes; dropMember, the fifth).
THEOREM MapsStayInStep == Spec => []MapsAgree
  BY Invariance, PTL DEF IInv

\* Nobody is ever counted twice in a room (addMember).
THEOREM NobodyCountedTwice == Spec => []OneSeatEach
  BY Invariance, PTL DEF IInv

\* The host SyncGameSession asks for, eviction evicts and dropMember closes
\* after, list[0], is always the player who made the farm.
THEOREM HostStaysFirst == Spec => []HostLeads
  BY Invariance, PTL DEF IInv

\* Re-hosting leaves no second farm of the player behind.
THEOREM OneFarmEach == Spec => []OneFarmPerHost
  BY Invariance, PTL DEF IInv

\* No pool without players stays open.
THEOREM EmptyPoolsClose == Spec => []PoolClosesEmpty
  BY Invariance, PTL DEF IInv

-----------------------------------------------------------------------------
(* Who enters a room, and what the count of its list is worth              *)

\* Lists are finite, so their length is a number a capacity compares with.
FiniteLists == \A g \in Gsid : IsFiniteSet(members[g])

\* The list of g takes u in: a player that sits there already keeps its seat
\* under a new name, any other found a seat free and enters as its version, or
\* the one it had when it was looked up, allows.
Enters(u, g) ==
  /\ members'[g] = AddMember(members[g], u, nextSeat)
  /\ \/ u \in UsersIn(members[g])
     \/ /\ ~(Cardinality(members[g]) >= sessions'[g].max)
        /\ EntersFitting(u, g)

\* Only a join, a new farm and a placement change a list other than by taking
\* seats away, and each seats its player under the rules of Enters.
ListStep(g) == members'[g] \subseteq members[g] \/ \E u \in Users : Enters(u, g)

\* A list that takes a player in stays finite and is longer by one at most.
LEMMA AddMemberCounts ==
  ASSUME NEW list, NEW u, NEW uss, IsFiniteSet(list),
         \A m, n \in list : m.user = n.user => m = n
  PROVE  /\ IsFiniteSet(AddMember(list, u, uss))
         /\ u \notin UsersIn(list) =>
              Cardinality(AddMember(list, u, uss)) <= Cardinality(list) + 1
  <1>1. CASE u \in UsersIn(list)
    <2>1. PICK old \in list : old.user = u
      BY <1>1 DEF UsersIn
    <2>2. SeatOf(list, u) = {old}
      BY <2>1 DEF SeatOf
    <2>3. AddMember(list, u, uss) = (list \ {old}) \cup {[old EXCEPT !.uss = uss]}
      BY <1>1, <2>2 DEF AddMember
    <2>4. IsFiniteSet(list \ {old})
      BY FS_RemoveElement
    <2>5. IsFiniteSet((list \ {old}) \cup {[old EXCEPT !.uss = uss]})
      BY <2>4, FS_AddElement
    <2> QED  BY <1>1, <2>3, <2>5
  <1>2. CASE u \notin UsersIn(list)
    <2> DEFINE fresh == [user |-> u, uss |-> uss, pos |-> uss]
    <2>1. AddMember(list, u, uss) = list \cup {fresh}
      BY <1>2 DEF AddMember
    <2> HIDE DEF fresh
    <2>2. Cardinality(list) \in Nat
      BY FS_CardinalityType
    <2>3. /\ IsFiniteSet(list \cup {fresh})
          /\ Cardinality(list \cup {fresh}) =
               IF fresh \in list THEN Cardinality(list) ELSE Cardinality(list) + 1
      BY FS_AddElement
    <2> QED  BY <2>1, <2>2, <2>3
  <1> QED  BY <1>1, <1>2

\* JoinGameSession seats whom CanJoin lets in.
LEMMA JoinEnters ==
  ASSUME IInv, NEW u \in Users, NEW h \in Gsid, NEW pw \in Passwords,
         JoinGameSession(u, h, pw), NEW g \in Gsid
  PROVE  ListStep(g)
  <1>1. /\ members' = [members EXCEPT ![h] = AddMember(members[h], u, nextSeat)]
        /\ UNCHANGED <<sessions, versions, appVersion>>
    BY DEF JoinGameSession, TakeSeat
  <1>2. CASE g = h
    <2>1. members'[g] = AddMember(members[g], u, nextSeat)
      BY <1>1, <1>2 DEF IInv, TypeOK
    <2>2. IsMember(u, g) \/ (VersionFits(g, u) /\ ~Full(g))
      BY <1>2 DEF JoinGameSession, CanJoin
    <2>3. Enters(u, g)
      BY <1>1, <2>1, <2>2 DEF Enters, EntersFitting, IsMember, VersionFits, Full
    <2> QED  BY <2>3 DEF ListStep
  <1>3. CASE g # h
    BY <1>1, <1>3 DEF IInv, TypeOK, ListStep
  <1> QED  BY <1>2, <1>3

\* A fresh room, farm or pool, has nobody in it and room for its first player.
LEMMA FreshEnters ==
  ASSUME IInv, NEW u \in Users, NEW g \in Gsid, g = nextSession,
         members'[g] = AddMember({}, u, nextSeat),
         sessions'[g].max \in Nat \ {0}, versions'[g] = appVersion[u],
         UNCHANGED appVersion
  PROVE  Enters(u, g)
  <1>1. nextSession \in Nat /\ members[g] = {}
    BY DEF IInv, TypeOK, Minting, MapsAgree
  <1>2. ~(Cardinality(members[g]) >= sessions'[g].max)
    BY <1>1, FS_EmptySet
  <1> QED  BY <1>1, <1>2 DEF Enters, EntersFitting, Fits

\* A host opens a farm for itself.
LEMMA CreateEnters ==
  ASSUME IInv, NEW u \in Users, NEW in \in Creations,
         CreateGameSessionCreationTicket(u, in), NEW g \in Gsid
  PROVE  ListStep(g)
  <1> DEFINE room == [state |-> "ACTIVE", password |-> in.password, friendRoom |-> NoRoom,
                      max |-> IF in.max > 0 THEN in.max ELSE CapacityOr(in.cfg, 4)]
             new == nextSession
  <1>1. /\ sessions' = [Clear(sessions, Stale(u), NoSession) EXCEPT ![new] = room]
        /\ members'  = [Clear(members, Stale(u), {}) EXCEPT ![new] = AddMember({}, u, nextSeat)]
        /\ versions' = [Clear(versions, Stale(u), NoVersion) EXCEPT ![new] = appVersion[u]]
        /\ UNCHANGED appVersion
    BY DEF CreateGameSessionCreationTicket
  <1>2. in.cfg \in Configs /\ in.max \in Nat
    OBVIOUS
  <1>3. room.max \in Nat \ {0}
    BY <1>2 DEF CapacityOr
  <1> HIDE DEF room
  <1>4. CASE g = new
    <2>1. sessions'[g] = room /\ members'[g] = AddMember({}, u, nextSeat) /\ versions'[g] = appVersion[u]
      BY <1>1, <1>4 DEF Clear
    <2> QED  BY <1>1, <1>3, <1>4, <2>1, FreshEnters DEF ListStep
  <1>5. CASE g # new
    <2>1. members'[g] = IF g \in Stale(u) THEN {} ELSE members[g]
      BY <1>1, <1>5 DEF Clear
    <2> QED  BY <2>1 DEF ListStep
  <1> QED  BY <1>4, <1>5

\* A placement: nobody moves, a pool with room takes the player, or a new one.
LEMMA PlaceEnters ==
  ASSUME IInv, NEW c \in Calls, NEW h \in Gsid, TrackPlace(c, h), NEW g \in Gsid
  PROVE  ListStep(g)
  <1> DEFINE u == mm[call[c].ticket].owner
             key == mm[call[c].ticket].key
             mine == call[c].mine
  <1>0. /\ u \in Users /\ key \in Key
        /\ Place(u, key, mine, h) /\ UNCHANGED appVersion
        /\ Places(c) /\ call'[c].gsid = h
    <2>1. call[c] \in Call /\ mm[call[c].ticket] \in Ticket
      BY CallOf DEF TrackPlace
    <2>2. call'[c] = [call[c] EXCEPT !.pc = "seated", !.gsid = h, !.mine = NoVersion]
      BY DEF TrackPlace, IInv, TypeOK
    <2>3. call'[c].pc = "seated" /\ call'[c].gsid = h
      BY <2>1, <2>2 DEF Call
    <2> QED  BY <2>1, <2>3 DEF TrackPlace, Ticket, Places
  <1>01. ASSUME versions' = versions, Fits(versions[h], mine)  PROVE EntersFitting(u, h)
    <2>1. CASE mine = appVersion[u]
      BY <1>0, <1>01, <2>1 DEF EntersFitting
    <2>2. CASE mine # appVersion[u]
      BY <1>0, <1>01, <2>2 DEF EntersFitting
    <2> QED  BY <2>1, <2>2
  <1> HIDE DEF u, key, mine
  <1>1. CASE UNCHANGED rooms
    BY <1>1 DEF rooms, ListStep
  <1>2. CASE h \in Roomy(key, mine) /\ TakeSeat(u, h) /\ UNCHANGED <<sessions, versions>>
    <2>1. members' = [members EXCEPT ![h] = AddMember(members[h], u, nextSeat)]
      BY <1>2 DEF TakeSeat
    <2>2. CASE g = h
      <3>1. members'[g] = AddMember(members[g], u, nextSeat)
        BY <2>1, <2>2 DEF IInv, TypeOK
      <3>2. EntersFitting(u, g) /\ ~Full(g)
        BY <1>01, <1>2, <2>2 DEF Roomy, Matching
      <3> QED  BY <1>0, <1>2, <3>1, <3>2 DEF Enters, Full, ListStep
    <2>3. CASE g # h
      BY <2>1, <2>3 DEF IInv, TypeOK, ListStep
    <2> QED  BY <2>2, <2>3
  <1>3. CASE NewPool(u, key)
    <2> DEFINE new == nextSession
               pool == [state |-> "ACTIVE", max |-> CapacityOr(key.cfg, 4),
                        password |-> NoPassword, friendRoom |-> key.room]
    <2>1. /\ sessions' = [sessions EXCEPT ![new] = pool]
          /\ versions' = [versions EXCEPT ![new] = appVersion[u]]
          /\ members' = [members EXCEPT ![new] = AddMember(members[new], u, nextSeat)]
          /\ new <= MaxSessions
      BY <1>3 DEF NewPool, TakeSeat
    <2>2. pool.max \in Nat \ {0}
      BY <1>0 DEF CapacityOr, Key
    <2> HIDE DEF pool
    <2>3. CASE g = new
      <3>1. /\ sessions'[g] = pool /\ versions'[g] = appVersion[u]
            /\ members'[g] = AddMember(members[g], u, nextSeat)
        BY <2>1, <2>3 DEF IInv, TypeOK
      <3>2. members[g] = {}
        BY <2>3 DEF IInv, TypeOK, Minting, MapsAgree
      <3> QED  BY <1>0, <2>2, <2>3, <3>1, <3>2, FreshEnters DEF ListStep
    <2>4. CASE g # new
      BY <2>1, <2>4 DEF IInv, TypeOK, ListStep
    <2> QED  BY <2>3, <2>4
  <1> QED  BY <1>0, <1>1, <1>2, <1>3 DEF Place

\* No other step seats anybody.
LEMMA ListsOnlyChangeSo ==
  ASSUME IInv, [Next]_vars, NEW g \in Gsid
  PROVE  ListStep(g)
  <1>1. CASE UNCHANGED members
    BY <1>1 DEF ListStep
  <1>2. ASSUME NEW h \in Gsid, CancelGameSessionCreationTicket(h)
        PROVE  ListStep(g)
    BY <1>2 DEF CancelGameSessionCreationTicket, CloseRooms, Clear, ListStep
  <1>3. ASSUME NEW u \in Users, NEW h \in Gsid, DropMember(u, h)
        PROVE  ListStep(g)
    <2>1. CASE CloseRooms({h})
      BY <2>1 DEF CloseRooms, Clear, ListStep
    <2>2. CASE members' = [members EXCEPT ![h] = members[h] \ SeatOf(members[h], u)]
      BY <2>2 DEF IInv, TypeOK, ListStep
    <2> QED  BY <1>3, <2>1, <2>2 DEF DropMember
  <1>4. ASSUME NEW u \in Users, EraseUser(u)
        PROVE  ListStep(g)
    BY <1>4 DEF EraseUser, ListStep
  <1>5. ASSUME NEW c \in Calls, NEW h \in Gsid, TrackPlace(c, h)
        PROVE  ListStep(g)
    BY <1>5, PlaceEnters
  <1>6. ASSUME NEW u \in Users, NEW in \in Creations, CreateGameSessionCreationTicket(u, in)
        PROVE  ListStep(g)
    BY <1>6, CreateEnters
  <1>7. ASSUME NEW u \in Users, NEW h \in Gsid, NEW pw \in Passwords, JoinGameSession(u, h, pw)
        PROVE  ListStep(g)
    BY <1>7, JoinEnters
  <1>8. ASSUME \/ \E u \in Users : \E v \in VersionsOf[u] : RememberAppVersion(u, v)
               \/ \E u \in Users, h \in Gsid, in \in Syncs : SyncGameSession(u, h, in)
               \/ \E u \in Users, t \in Tickets, cfg \in Configs, room \in {NoRoom} \cup Gsid :
                    CreateMatchmakingTicket(u, t, cfg, room)
               \/ \E t \in Tickets : CancelMatchmakingTicket(t)
               \/ \E c \in Calls, t \in Tickets : TrackRead(c, t)
               \/ \E c \in Calls : TrackPlaced(c) \/ TrackVersion(c) \/ TrackRecord(c)
               \/ UNCHANGED vars
        PROVE  UNCHANGED members
    BY <1>8 DEF RememberAppVersion, SyncGameSession, CreateMatchmakingTicket,
                CancelMatchmakingTicket, TrackRead, TrackPlaced, TrackVersion, TrackRecord, rooms, vars
  <1> QED
    BY <1>1, <1>2, <1>3, <1>4, <1>5, <1>6, <1>7, <1>8 DEF Next, Rpc

\* Member lists stay finite.
THEOREM FiniteMembers == Spec => []FiniteLists
  <1>1. Init => FiniteLists
    BY FS_EmptySet DEF Init, FiniteLists
  <1>2. IInv /\ FiniteLists /\ [Next]_vars => FiniteLists'
    <2> SUFFICES ASSUME IInv, FiniteLists, [Next]_vars, NEW g \in Gsid
                 PROVE  IsFiniteSet(members'[g])
      BY DEF FiniteLists
    <2>1. IsFiniteSet(members[g]) /\ \A m, n \in members[g] : m.user = n.user => m = n
      BY DEF FiniteLists, IInv, OneSeatEach
    <2>2. CASE members'[g] \subseteq members[g]
      BY <2>1, <2>2, FS_Subset
    <2>3. ASSUME NEW u \in Users, Enters(u, g)  PROVE IsFiniteSet(members'[g])
      BY <2>1, <2>3, AddMemberCounts DEF Enters
    <2> QED  BY <2>2, <2>3, ListsOnlyChangeSo DEF ListStep
  <1> QED  BY <1>1, <1>2, Invariance, PTL DEF Spec

\* Joining by name and being placed by the Matchmaker both stop at the capacity
\* a room has at that moment, whatever its host synced meanwhile.
THEOREM CapacityKept == Spec => SeatsWithinCapacity
  <1>1. IInv /\ IInv' /\ FiniteLists /\ [Next]_vars =>
          [\A g \in Gsid : UsersIn(members'[g]) \subseteq UsersIn(members[g])
                           \/ Cardinality(members'[g]) <= sessions'[g].max]_vars
    <2> SUFFICES ASSUME IInv, IInv', FiniteLists, [Next]_vars, NEW g \in Gsid,
                        ~(UsersIn(members'[g]) \subseteq UsersIn(members[g]))
                 PROVE  Cardinality(members'[g]) <= sessions'[g].max
      OBVIOUS
    <2>1. PICK u \in Users : Enters(u, g)
      BY ListsOnlyChangeSo DEF ListStep, UsersIn
    <2>2. IsFiniteSet(members[g]) /\ members[g] \in SUBSET Seat
          /\ \A m, n \in members[g] : m.user = n.user => m = n
      BY DEF FiniteLists, IInv, OneSeatEach, TypeOK
    <2>3. u \notin UsersIn(members[g])
      <3> SUFFICES ASSUME u \in UsersIn(members[g])  PROVE FALSE
        OBVIOUS
      <3>1. members'[g] = (members[g] \ SeatOf(members[g], u))
                            \cup {[m EXCEPT !.uss = nextSeat] : m \in SeatOf(members[g], u)}
        BY <2>1 DEF Enters, AddMember
      <3>2. UsersIn(members'[g]) \subseteq UsersIn(members[g])
        BY <2>2, <3>1 DEF UsersIn, SeatOf, Seat
      <3> QED  BY <3>2
    <2>4. /\ members'[g] = AddMember(members[g], u, nextSeat)
          /\ ~(Cardinality(members[g]) >= sessions'[g].max)
      BY <2>1, <2>3 DEF Enters
    <2>5. Cardinality(members'[g]) <= Cardinality(members[g]) + 1
      BY <2>2, <2>3, <2>4, AddMemberCounts
    <2>6. Cardinality(members[g]) \in Nat /\ Cardinality(members'[g]) \in Nat
      BY <2>2, <2>4, AddMemberCounts, FS_CardinalityType
    <2>7. sessions'[g].max \in Nat
      BY DEF IInv, TypeOK, Room
    <2> QED  BY <2>4, <2>5, <2>6, <2>7
  <1> QED  BY <1>1, Invariance, FiniteMembers, PTL DEF Spec, SeatsWithinCapacity

\* Nobody enters a room of another title version by name or by opening it, nor by
\* ticket but with the version it had when its call looked it up, when a sign-in
\* came between the lookup and the mutex.
THEOREM VersionsKeptApart == Spec => SeatedWithOwnVersion
  <1>1. IInv /\ [Next]_vars =>
          [\A g \in Gsid : \A u \in UsersIn(members'[g]) \ UsersIn(members[g]) :
             EntersFitting(u, g)]_vars
    <2> SUFFICES ASSUME IInv, [Next]_vars, NEW g \in Gsid,
                        NEW u \in UsersIn(members'[g]) \ UsersIn(members[g])
                 PROVE  EntersFitting(u, g)
      OBVIOUS
    <2>1. PICK v \in Users : Enters(v, g)
      BY ListsOnlyChangeSo DEF ListStep, UsersIn
    <2>2. members[g] \in SUBSET Seat
      BY DEF IInv, TypeOK
    <2>3. UsersIn(members'[g]) \subseteq UsersIn(members[g]) \cup {v}
      BY <2>1, <2>2 DEF Enters, AddMember, UsersIn, SeatOf, Seat
    <2>4. u = v
      BY <2>3
    <2> QED  BY <2>1, <2>4 DEF Enters
  <1> QED  BY <1>1, Invariance, PTL DEF Spec, SeatedWithOwnVersion

\* What the search lists can be joined: the two handlers agree on version,
\* password and free seats for every room they are asked about.
THEOREM SearchAgreesWithJoin == Spec => []ListedIsJoinable
  <1>1. IInv /\ FiniteLists => ListedIsJoinable
    <2> SUFFICES ASSUME IInv, FiniteLists, NEW u \in Users, NEW g \in Listed(u, 1),
                        sessions[g].password = NoPassword
                 PROVE  CanJoin(u, g, NoPassword)
      BY DEF ListedIsJoinable
    <2>1. /\ g \in Gsid /\ Exists(g) /\ sessions[g].friendRoom = NoRoom /\ VersionFits(g, u)
          /\ sessions[g].max - Cardinality(members[g]) >= 1
      BY DEF Listed, Exists
    <2>2. sessions[g].max \in Nat /\ Cardinality(members[g]) \in Nat
      BY <2>1, FS_CardinalityType DEF IInv, TypeOK, Room, FiniteLists
    <2>3. ~Full(g)
      BY <2>1, <2>2 DEF Full
    <2> QED  BY <2>1, <2>3 DEF CanJoin
  <1> QED  BY <1>1, Invariance, FiniteMembers, PTL

-----------------------------------------------------------------------------
(* A repeated ticket *)

\* A call becomes seated only by its own placement.
LEMMA SeatedBy ==
  ASSUME IInv, Next, NEW c \in Calls, Places(c)
  PROVE  \E g \in Gsid : TrackPlace(c, g) /\ call'[c].gsid = g
  <1>0. call \in [Calls -> Call \cup {NoCall}] /\ NoCall.pc = "idle"
    BY DEF IInv, TypeOK, NoCall
  <1>1. call' # call
    BY <1>0 DEF Places
  <1>2. ASSUME NEW d \in Calls, NEW t \in Tickets  PROVE ~TrackRead(d, t)
    BY <1>0 DEF TrackRead, Places
  <1>3. ASSUME NEW d \in Calls  PROVE ~TrackPlaced(d) /\ ~TrackVersion(d) /\ ~TrackRecord(d)
    <2>1. ~TrackPlaced(d) /\ ~TrackRecord(d)
      BY <1>0 DEF TrackPlaced, TrackRecord, Places
    <2>2. ~TrackVersion(d)
      <3> SUFFICES ASSUME TrackVersion(d) PROVE FALSE
        OBVIOUS
      <3>1. d = c
        BY <1>0 DEF TrackVersion, Places
      <3> QED  BY <3>1 DEF TrackVersion, Places
    <2> QED  BY <2>1, <2>2
  <1>4. PICK d \in Calls, g \in Gsid : TrackPlace(d, g)
    BY <1>1, <1>2, <1>3 DEF Next, Rpc, RememberAppVersion, CreateGameSessionCreationTicket,
       CancelGameSessionCreationTicket, JoinGameSession, SyncGameSession, CreateMatchmakingTicket,
       CancelMatchmakingTicket, DropMember, EraseUser
  <1>5. d = c
    BY <1>0, <1>4 DEF TrackPlace, Places
  <1>6. call'[c] = [call[c] EXCEPT !.pc = "seated", !.gsid = g, !.mine = NoVersion]
    BY <1>0, <1>4, <1>5 DEF TrackPlace
  <1>7. call[c] \in Call
    BY <1>0 DEF Places
  <1>8. call'[c].gsid = g
    BY <1>6, <1>7 DEF Call
  <1> QED  BY <1>4, <1>5, <1>8

\* place looks at every pool of the key before it opens or picks one: a player
\* that holds a seat there gets that seat again, however many calls track its
\* tickets at once, while the pool takes in the version its call looked up.
THEOREM RepeatedTicketKeepsSeat == Spec => MatchedOnce
  <1> DEFINE Once == \A c \in Calls : Places(c) =>
       LET u == mm[call[c].ticket].owner
           k == mm[call[c].ticket].key
           seated == \E g \in Gsid : /\ pools[g] = k /\ sessions[g].state = "ACTIVE"
                                     /\ Fits(versions[g], call[c].mine) /\ IsMember(u, g)
       IN /\ u \in UsersIn(members'[call'[c].gsid])
          /\ seated => members' = members
  <1>1. IInv /\ [Next]_vars => [Once]_vars
    <2> SUFFICES ASSUME IInv, Next, NEW c \in Calls, Places(c)
                 PROVE  LET u == mm[call[c].ticket].owner
                            k == mm[call[c].ticket].key
                            seated == \E g \in Gsid : /\ pools[g] = k /\ sessions[g].state = "ACTIVE"
                                                      /\ Fits(versions[g], call[c].mine) /\ IsMember(u, g)
                        IN /\ u \in UsersIn(members'[call'[c].gsid])
                           /\ seated => members' = members
      OBVIOUS
    <2> DEFINE u == mm[call[c].ticket].owner
               k == mm[call[c].ticket].key
               mine == call[c].mine
    <2>1. PICK g \in Gsid : TrackPlace(c, g) /\ call'[c].gsid = g
      BY SeatedBy
    <2>2. u \in Users /\ k \in Key
      BY CallOf DEF Ticket, Places
    <2>3. Place(u, k, mine, g)
      BY <2>1 DEF TrackPlace
    <2> HIDE DEF u, k, mine
    <2>4. ASSUME Held(u, k, mine) # {}  PROVE members' = members
      BY <2>3, <2>4 DEF Place, rooms
    <2>5. u \in UsersIn(members'[g])
      <3>1. CASE g \in Held(u, k, mine) /\ UNCHANGED rooms
        BY <3>1 DEF Held, IsMember, rooms
      <3>2. CASE TakeSeat(u, g)
        BY <2>2, <3>2, SeatTaken
      <3> QED  BY <2>3, <3>1, <3>2 DEF Place, NewPool
    <2> QED  BY <2>1, <2>4, <2>5 DEF Held, Matching, u, k, mine
  <1> QED  BY <1>1, Invariance, PTL DEF Spec, MatchedOnce
=============================================================================
