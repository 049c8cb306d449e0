---------------------------- MODULE GameSessions ----------------------------
(***************************************************************************)
(* The game sessions of one title instance: farms and rooms made through   *)
(* GameSessionService (sessions.go) and the pool sessions the Matchmaker   *)
(* opens (matchmaker.go).  Both services share the maps of one             *)
(* sessionServer under one mutex, so an RPC that holds the mutex from its  *)
(* first read to its last write is one action here.  TrackMatchmakingTicket*)
(* lets the mutex go between its steps and is split where it does.         *)
(*                                                                         *)
(* The Go maps are total functions with the zero value for an absent key:  *)
(* the code never tells the two apart for members, versions, hosts and     *)
(* pools.  Room fields nobody decides on (is_public, can_participate, host,*)
(* port, attributes) are left out.                                         *)
(***************************************************************************)
EXTENDS Integers, FiniteSets

CONSTANTS
  Users,         \* players, by user id
  Configs,       \* a matchmaking config together with its MatchingKey
  FriendConfigs, \* the configs whose name starts with "Friend"
  CapacityOf,    \* capacityFromConfig: the lobby size a config implies, 0 for none
  Creations,     \* the room a host asks for: [cfg, max, password], max 0 for none
  Syncs,         \* what a host pushes: [max, password, state, clear]
  Versions,      \* title versions
  NoVersion,     \* "", a version nobody knows
  VersionsOf,    \* the versions each player signs in with, one after another
  Erasable,      \* the players whose account may be erased
  Passwords,     \* room passwords
  NoPassword,    \* "", the open room
  Tickets,       \* matchmaking ticket ids
  Calls,         \* slots for TrackMatchmakingTicket calls in progress
  NoUser,        \* the zero roomHost
  NoConfig,      \* "", the config of no pool
  MaxSessions,   \* bound: sessions ever minted
  MaxSeats       \* bound: user sessions ever minted

ASSUME GameSessionsAssumption ==
  /\ MaxSessions \in Nat /\ MaxSeats \in Nat
  /\ FriendConfigs \subseteq Configs
  /\ CapacityOf \in [Configs -> Nat]
  /\ Creations \subseteq [cfg : Configs, max : Nat, password : Passwords]
  /\ Syncs \subseteq [max : Nat, password : Passwords,
                     state : {"GONE", "ACTIVE", "TERMINATED"}, clear : BOOLEAN]
  /\ VersionsOf \in [Users -> SUBSET Versions]
  /\ Erasable \subseteq Users
  /\ NoVersion \in Versions /\ NoPassword \in Passwords
  /\ NoUser \notin Users /\ NoConfig \notin Configs

VARIABLES
  sessions,    \* session id -> room
  members,     \* session id -> its seats
  pools,       \* session id -> Matchmaker pool key, for pool sessions only
  versions,    \* session id -> its creator's title version
  hosts,       \* session id -> whose routing the room uses: its creator
  tickets,     \* creation tickets, each named by the session it made
  mm,          \* matchmaking ticket id -> ticket
  call,        \* TrackMatchmakingTicket calls in progress
  appVersion,  \* appVersionByUID: the version each player last signed in with
  nextSession, \* the next fresh session id (uuid4 in the code)
  nextSeat,    \* the next fresh user session id (uuid4 in the code)
  erased       \* history: the players whose account was erased

rooms == <<sessions, members, pools, versions, hosts>>
vars  == <<rooms, tickets, mm, call, appVersion, nextSession, nextSeat, erased>>

-----------------------------------------------------------------------------
Gsid   == 1 .. MaxSessions
NoRoom == 0

States == {"GONE", "ACTIVE", "TERMINATED"}   \* TERMINATED stands for every state but ACTIVE

\* A stored GameSession; friendRoom is its FriendGameSessionId property.
Room == [state : States, max : Nat, password : Passwords, friendRoom : {NoRoom} \cup Gsid]
NoSession == [state |-> "GONE", max |-> 0, password |-> NoPassword, friendRoom |-> NoRoom]

\* A UserSession in a member list.  uss is its name; pos orders the list: the
\* uss of the entry the player was first appended as, which a rejoin keeps.
Uss  == 1 .. MaxSeats
Seat == [user : Users, uss : Uss, pos : Uss]

Key   == [cfg : Configs, room : {NoRoom} \cup Gsid]
NoKey == [cfg |-> NoConfig, room |-> NoRoom]

Ticket   == [owner : Users, key : Key, gsid : {NoRoom} \cup Gsid, open : BOOLEAN]
NoTicket == [owner |-> NoUser, key |-> NoKey, gsid |-> NoRoom, open |-> FALSE]

\* mine is the version place read for its player, while it waits for the mutex.
Call   == [pc : {"read", "versioned", "seated"}, ticket : Tickets,
           gsid : {NoRoom} \cup Gsid, mine : Versions]
NoCall == [pc |-> "idle"]

-----------------------------------------------------------------------------
Exists(g) == sessions[g].state # "GONE"
Pooled(g) == pools[g] # NoKey
IsRoom(g) == g # NoRoom /\ Exists(g)

UsersIn(list)     == {m.user : m \in list}
SeatOf(list, u)   == {m \in list : m.user = u}
IsMember(u, g)    == u \in UsersIn(members[g])

\* list[0] is u's: the host of a farm, rank 1, the first one added.
First(list, u) == \E m \in list : m.user = u /\ \A n \in list : m.pos <= n.pos

FullAbove(g) == Cardinality(members[g]) > sessions[g].max   \* mutant: off by one
Full(g) == Cardinality(members[g]) >= sessions[g].max

Fits(have, v)     == have = NoVersion \/ v = NoVersion \/ have = v
VersionFits(g, u) == Fits(versions[g], appVersion[u])

\* mutants of AddMember: a rejoin is appended a second time; a rejoin goes to
\* the end of the list
AddMemberTwice(list, u, uss) == list \cup {[user |-> u, uss |-> uss, pos |-> uss]}
AddMemberLast(list, u, uss) ==
  (list \ SeatOf(list, u)) \cup {[user |-> u, uss |-> uss, pos |-> uss]}

\* The member list after u took a seat under the new name uss.
AddMember(list, u, uss) ==
  IF u \in UsersIn(list)
    THEN (list \ SeatOf(list, u)) \cup {[m EXCEPT !.uss = uss] : m \in SeatOf(list, u)}
    ELSE list \cup {[user |-> u, uss |-> uss, pos |-> uss]}

Clear(f, S, zero) == [g \in Gsid |-> IF g \in S THEN zero ELSE f[g]]

\* mutant: the routing input of the host is forgotten
CloseRoomsNotHosts(S) ==
  /\ sessions' = Clear(sessions, S, NoSession)
  /\ members'  = Clear(members, S, {})
  /\ versions' = Clear(versions, S, NoVersion)
  /\ UNCHANGED hosts

\* The four deletes that close a session.  Only dropMember deletes from pools.
CloseRooms(S) ==
  /\ sessions' = Clear(sessions, S, NoSession)
  /\ members'  = Clear(members, S, {})
  /\ versions' = Clear(versions, S, NoVersion)
  /\ hosts'    = Clear(hosts, S, NoUser)

CapacityOr(cfg, default) == IF CapacityOf[cfg] > 0 THEN CapacityOf[cfg] ELSE default

-----------------------------------------------------------------------------
Init ==
  /\ sessions = [g \in Gsid |-> NoSession]
  /\ members  = [g \in Gsid |-> {}]
  /\ pools    = [g \in Gsid |-> NoKey]
  /\ versions = [g \in Gsid |-> NoVersion]
  /\ hosts    = [g \in Gsid |-> NoUser]
  /\ tickets  = {}
  /\ mm       = [t \in Tickets |-> NoTicket]
  /\ call     = [c \in Calls |-> NoCall]
  /\ appVersion  = [u \in Users |-> NoVersion]
  /\ nextSession = 1
  /\ nextSeat    = 1
  /\ erased      = {}

\* A proven sign-in records the player's title version.
RememberAppVersion(u, v) ==
  /\ appVersion' = [appVersion EXCEPT ![u] = v]
  /\ UNCHANGED <<rooms, tickets, mm, call, nextSession, nextSeat, erased>>

-----------------------------------------------------------------------------
(* GameSessionService *)

\* mutant: only rooms still active are looked at
StaleActive(u) ==
  {g \in Gsid : ~Pooled(g) /\ First(members[g], u) /\ sessions[g].state = "ACTIVE"}

\* The sessions a host that opens a new farm loses: the ones whose list it heads.
Stale(u) == {g \in Gsid : ~Pooled(g) /\ First(members[g], u)}

CreateGameSessionCreationTicket(u, in) ==
  LET g == nextSession
      room == [state |-> "ACTIVE", password |-> in.password, friendRoom |-> NoRoom,
               max |-> IF in.max > 0 THEN in.max ELSE CapacityOr(in.cfg, 4)]
  IN
  /\ nextSession <= MaxSessions /\ nextSeat <= MaxSeats
  /\ sessions' = [Clear(sessions, Stale(u), NoSession) EXCEPT ![g] = room]
  /\ members'  = [Clear(members, Stale(u), {}) EXCEPT ![g] = AddMember({}, u, nextSeat)]
  /\ versions' = [Clear(versions, Stale(u), NoVersion) EXCEPT ![g] = appVersion[u]]
  /\ hosts'    = [Clear(hosts, Stale(u), NoUser) EXCEPT ![g] = u]
  /\ tickets' = tickets \cup {g}
  /\ nextSession' = nextSession + 1
  /\ nextSeat' = nextSeat + 1
  /\ UNCHANGED <<pools, mm, call, appVersion, erased>>

CancelGameSessionCreationTicket(g) ==
  /\ g \in tickets
  /\ tickets' = tickets \ {g}
  /\ CloseRooms({g})
  /\ UNCHANGED <<pools, mm, call, appVersion, nextSession, nextSeat, erased>>

\* mutant: the version is not compared
ListedAnyVersion(u, vacancy) ==
  {g \in Gsid : /\ sessions[g].state = "ACTIVE"
                /\ sessions[g].friendRoom = NoRoom
                /\ sessions[g].max - Cardinality(members[g]) >= vacancy}

\* What QueryGameSessions answers u that asks for vacancy free seats, before
\* the filters on properties and on users narrow it.
Listed(u, vacancy) ==
  {g \in Gsid : /\ sessions[g].state = "ACTIVE"
                /\ sessions[g].friendRoom = NoRoom
                /\ VersionFits(g, u)
                /\ sessions[g].max - Cardinality(members[g]) >= vacancy}

\* mutant: the version is not compared
CanJoinAnyVersion(u, g, pw) ==
  /\ Exists(g)
  /\ sessions[g].friendRoom # NoRoom => IsMember(u, g)
  /\ sessions[g].password \in {NoPassword, pw}
  /\ IsMember(u, g) \/ ~Full(g)

\* The checks of JoinGameSession: nobody is kept from a room it is in already
\* but by its password.
CanJoin(u, g, pw) ==
  /\ Exists(g)
  /\ sessions[g].friendRoom # NoRoom => IsMember(u, g)
  /\ IsMember(u, g) \/ VersionFits(g, u)
  /\ sessions[g].password \in {NoPassword, pw}
  /\ IsMember(u, g) \/ ~Full(g)

\* u takes a seat in g under a fresh name.
TakeSeat(u, g) ==
  /\ nextSeat <= MaxSeats
  /\ members' = [members EXCEPT ![g] = AddMember(@, u, nextSeat)]
  /\ nextSeat' = nextSeat + 1

JoinGameSession(u, g, pw) ==
  /\ CanJoin(u, g, pw)
  /\ TakeSeat(u, g)
  /\ UNCHANGED <<sessions, pools, versions, hosts, tickets, mm, call, appVersion,
                 nextSession, erased>>

\* The host pushes its room.  max 0 and state "GONE" (STATE_UNSPECIFIED) leave
\* the field alone; the password is always overwritten; clear says that the
\* properties it sends carry no FriendGameSessionId.
SyncGameSession(u, g, in) ==
  /\ Exists(g) /\ First(members[g], u)
  /\ sessions' = [sessions EXCEPT ![g] =
       [state      |-> IF in.state = "GONE" THEN @.state ELSE in.state,
        max        |-> IF in.max > 0 THEN in.max ELSE @.max,
        password   |-> in.password,
        friendRoom |-> IF in.clear THEN NoRoom ELSE @.friendRoom]]
  /\ UNCHANGED <<members, pools, versions, hosts, tickets, mm, call, appVersion,
                 nextSession, nextSeat, erased>>

\* mutant: the last one out leaves an empty pool open
DropMemberKeepsPool(u, g) ==
  /\ members[g] # {}
  /\ IF ~Pooled(g) /\ First(members[g], u)
       THEN CloseRooms({g}) /\ UNCHANGED pools
       ELSE /\ members' = [members EXCEPT ![g] = @ \ SeatOf(@, u)]
            /\ UNCHANGED <<sessions, pools, versions, hosts>>
  /\ UNCHANGED <<tickets, mm, call, appVersion, nextSession, nextSeat, erased>>

\* gamesync tells a departed player: the host takes its farm along, the last
\* player a pool.
DropMember(u, g) ==
  LET kept == members[g] \ SeatOf(members[g], u) IN
  /\ members[g] # {}
  /\ IF ~Pooled(g) /\ First(members[g], u)
       THEN CloseRooms({g}) /\ UNCHANGED pools
       ELSE IF Pooled(g) /\ kept = {}
         THEN CloseRooms({g}) /\ pools' = [pools EXCEPT ![g] = NoKey]
         ELSE /\ members' = [members EXCEPT ![g] = kept]
              /\ UNCHANGED <<sessions, pools, versions, hosts>>
  /\ UNCHANGED <<tickets, mm, call, appVersion, nextSession, nextSeat, erased>>

-----------------------------------------------------------------------------
(* Matchmaker *)

\* friendPoolAllowed: a Friend config needs the base room, active, with the
\* caller in it; any other config may not name one.
FriendPoolAllowed(u, cfg, room) ==
  IF cfg \in FriendConfigs
    THEN /\ room # NoRoom
         /\ sessions[room].state = "ACTIVE"
         /\ IsMember(u, room)
    ELSE room = NoRoom

CreateMatchmakingTicket(u, t, cfg, room) ==
  /\ mm[t] = NoTicket
  /\ FriendPoolAllowed(u, cfg, room)
  /\ mm' = [mm EXCEPT ![t] = [owner |-> u, key |-> [cfg |-> cfg, room |-> room],
                              gsid |-> NoRoom, open |-> TRUE]]
  /\ UNCHANGED <<rooms, tickets, call, appVersion, nextSession, nextSeat, erased>>

\* The ticket leaves the map; a call that already found it keeps its pointer.
CancelMatchmakingTicket(t) ==
  /\ mm[t].open
  /\ mm' = [mm EXCEPT ![t].open = FALSE]
  /\ UNCHANGED <<rooms, tickets, call, appVersion, nextSession, nextSeat, erased>>

\* newPool, and the first seat in it.  The version is read again, and may be
\* another than place compared.
NewPool(u, key) ==
  LET g == nextSession IN
  /\ nextSession <= MaxSessions
  /\ sessions' = [sessions EXCEPT ![g] =
       [state |-> "ACTIVE", max |-> CapacityOr(key.cfg, 4), password |-> NoPassword,
        friendRoom |-> key.room]]
  /\ pools'    = [pools EXCEPT ![g] = key]
  /\ versions' = [versions EXCEPT ![g] = appVersion[u]]
  /\ hosts'    = [hosts EXCEPT ![g] = u]
  /\ TakeSeat(u, g)
  /\ nextSession' = nextSession + 1

\* mutant: a full pool is skipped before the player's own seat in it is seen
HeldWithRoom(u, key, mine) ==
  {g \in Gsid : /\ pools[g] = key /\ sessions[g].state = "ACTIVE" /\ Fits(versions[g], mine)
                /\ IsMember(u, g) /\ ~Full(g)}

\* The pools of the key that take in a player of version mine, and those of
\* them it sits in already.
Matching(key, mine) ==
  {g \in Gsid : pools[g] = key /\ sessions[g].state = "ACTIVE" /\ Fits(versions[g], mine)}
Held(u, key, mine) == {g \in Matching(key, mine) : IsMember(u, g)}
Roomy(key, mine)   == {g \in Matching(key, mine) : ~Full(g)}

\* place, under the mutex: the seat the player holds, else the first pool with
\* room, else a new one.  The pools are visited in map order, so any of them
\* may be the first.
Place(u, key, mine, g) ==
  \/ /\ g \in Held(u, key, mine)
     /\ UNCHANGED <<rooms, nextSession, nextSeat>>
  \/ /\ Held(u, key, mine) = {} /\ g \in Roomy(key, mine)
     /\ TakeSeat(u, g)
     /\ UNCHANGED <<sessions, pools, versions, hosts, nextSession>>
  \/ /\ Held(u, key, mine) = {} /\ Roomy(key, mine) = {} /\ g = nextSession
     /\ NewPool(u, key)

\* TrackMatchmakingTicket, first section: find the caller's ticket and read
\* where it was placed.
TrackRead(c, t) ==
  /\ call[c] = NoCall /\ mm[t].open
  /\ call' = [call EXCEPT ![c] = [pc |-> "read", ticket |-> t, gsid |-> mm[t].gsid,
                                  mine |-> NoVersion]]
  /\ UNCHANGED <<rooms, tickets, mm, appVersion, nextSession, nextSeat, erased>>

\* Already placed in a session that is still there: only the answer is left,
\* which reads the room and changes nothing.
TrackPlaced(c) ==
  /\ call[c].pc = "read"
  /\ IsRoom(call[c].gsid)
  /\ call' = [call EXCEPT ![c] = NoCall]
  /\ UNCHANGED <<rooms, tickets, mm, appVersion, nextSession, nextSeat, erased>>

\* Not placed, or in a session that is gone, which stays gone: place reads the
\* player's version before it takes the mutex.
TrackVersion(c) ==
  /\ call[c].pc = "read"
  /\ ~IsRoom(call[c].gsid)
  /\ call' = [call EXCEPT ![c].pc = "versioned", ![c].gsid = NoRoom,
                          ![c].mine = appVersion[mm[call[c].ticket].owner]]
  /\ UNCHANGED <<rooms, tickets, mm, appVersion, nextSession, nextSeat, erased>>

TrackPlace(c, g) ==
  /\ call[c].pc = "versioned"
  /\ Place(mm[call[c].ticket].owner, mm[call[c].ticket].key, call[c].mine, g)
  /\ call' = [call EXCEPT ![c].pc = "seated", ![c].gsid = g, ![c].mine = NoVersion]
  /\ UNCHANGED <<tickets, mm, appVersion, erased>>

\* The ticket learns its session in a section of its own.
TrackRecord(c) ==
  /\ call[c].pc = "seated"
  /\ mm' = [mm EXCEPT ![call[c].ticket].gsid = call[c].gsid]
  /\ call' = [call EXCEPT ![c] = NoCall]
  /\ UNCHANGED <<rooms, tickets, appVersion, nextSession, nextSeat, erased>>

-----------------------------------------------------------------------------

\* eraseUsers, what it does to sessions: the seats and the tickets of the
\* player go, no session is closed.
EraseUser(u) ==
  /\ members' = [g \in Gsid |-> members[g] \ SeatOf(members[g], u)]
  /\ mm' = [t \in Tickets |-> [mm[t] EXCEPT !.open = @ /\ mm[t].owner # u]]
  /\ appVersion' = [appVersion EXCEPT ![u] = NoVersion]
  /\ erased' = erased \cup {u}
  /\ UNCHANGED <<sessions, pools, versions, hosts, tickets, call, nextSession, nextSeat>>

-----------------------------------------------------------------------------
\* What the players' own calls do; the other two steps come from gamesync and
\* from the operator.
Rpc ==
  \/ \E u \in Users : \E v \in VersionsOf[u] : RememberAppVersion(u, v)
  \/ \E u \in Users, in \in Creations : CreateGameSessionCreationTicket(u, in)
  \/ \E g \in Gsid : CancelGameSessionCreationTicket(g)
  \/ \E u \in Users, g \in Gsid, pw \in Passwords : JoinGameSession(u, g, pw)
  \/ \E u \in Users, g \in Gsid, in \in Syncs : SyncGameSession(u, g, in)
  \/ \E u \in Users, t \in Tickets, cfg \in Configs, room \in {NoRoom} \cup Gsid :
       CreateMatchmakingTicket(u, t, cfg, room)
  \/ \E t \in Tickets : CancelMatchmakingTicket(t)
  \/ \E c \in Calls, t \in Tickets : TrackRead(c, t)
  \/ \E c \in Calls : TrackPlaced(c)
  \/ \E c \in Calls : TrackVersion(c)
  \/ \E c \in Calls, g \in Gsid : TrackPlace(c, g)
  \/ \E c \in Calls : TrackRecord(c)

Next ==
  \/ Rpc
  \/ \E u \in Users, g \in Gsid : DropMember(u, g)
  \/ \E u \in Erasable : EraseUser(u)

Spec == Init /\ [][Next]_vars

-----------------------------------------------------------------------------
(* Properties *)

TypeOK ==
  /\ sessions \in [Gsid -> Room]
  /\ members  \in [Gsid -> SUBSET Seat]
  /\ pools    \in [Gsid -> Key \cup {NoKey}]
  /\ versions \in [Gsid -> Versions]
  /\ hosts    \in [Gsid -> Users \cup {NoUser}]
  /\ tickets  \in SUBSET Gsid
  /\ mm       \in [Tickets -> Ticket \cup {NoTicket}]
  /\ call     \in [Calls -> Call \cup {NoCall}]
  /\ appVersion  \in [Users -> Versions]
  /\ nextSession \in 1 .. MaxSessions + 1
  /\ nextSeat    \in 1 .. MaxSeats + 1
  /\ erased      \in SUBSET Users

\* Every map forgets a session together with the session: an id that no longer
\* names a room has no seats, no pool key, no version and no host left
\* (the deletes of sessions.go and of dropMember, which alone closes pools).
MapsAgree ==
  \A g \in Gsid :
    /\ ~Exists(g) => /\ members[g] = {} /\ ~Pooled(g)
                     /\ versions[g] = NoVersion /\ hosts[g] = NoUser
    /\ Exists(g) => hosts[g] # NoUser

\* A player that rejoins, is matched again or is sent back to its seat by a
\* repeated ticket is counted once in a room (addMember "never double-count").
OneSeatEach == \A g \in Gsid : \A m, n \in members[g] : m.user = n.user => m = n

\* The first member of a farm is the player who made it, through every join,
\* rejoin and leave, as eviction, SyncGameSession and dropMember take for
\* granted.  Only the erasure of that player's account breaks it.
HostLeads ==
  \A g \in Gsid : Exists(g) /\ ~Pooled(g) /\ hosts[g] \notin erased => First(members[g], hosts[g])

\* The store holds one farm per host: re-hosting drops the farm before it.
OneFarmPerHost ==
  \A g, h \in Gsid :
    /\ Exists(g) /\ ~Pooled(g) /\ Exists(h) /\ ~Pooled(h)
    /\ hosts[g] = hosts[h] /\ hosts[g] \notin erased
    => g = h

\* A pool, which has no host, is closed by whoever leaves it last.
PoolClosesEmpty == \A g \in Gsid : Pooled(g) /\ members[g] = {} => erased # {}

\* What the search lists with a free seat and no password can be joined by the
\* player it was listed to (QueryGameSessions against JoinGameSession's checks).
ListedIsJoinable ==
  \A u \in Users : \A g \in Listed(u, 1) :
    sessions[g].password = NoPassword => CanJoin(u, g, NoPassword)

\* No step that seats a new player, by name or by ticket, leaves the room above
\* its capacity, though a host may lower the capacity below the players present.
SeatsWithinCapacity ==
  [][\A g \in Gsid : UsersIn(members'[g]) \subseteq UsersIn(members[g])
                     \/ Cardinality(members'[g]) <= sessions'[g].max]_vars

\* A call places its player in this step, which it looked the version up for
\* before it had the mutex.
Places(c) == call[c].pc = "versioned" /\ call'[c].pc = "seated"

\* u has the version of g, or it signed in with another while the call that
\* places it waited for the mutex, and had the version of g when the call began.
EntersFitting(u, g) ==
  \/ Fits(versions'[g], appVersion'[u])
  \/ \E c \in Calls : /\ Places(c) /\ mm[call[c].ticket].owner = u /\ call'[c].gsid = g
                      /\ call[c].mine # appVersion[u] /\ Fits(versions'[g], call[c].mine)

\* A player that takes a seat has the title version of the room it enters, or
\* one of the two is unknown.  The one way around it is a sign-in with another
\* version between the two lines of place (matchmaker.go:147-148), and then the
\* version it had when its call began to place it fits.
SeatedWithOwnVersion ==
  [][\A g \in Gsid : \A u \in UsersIn(members'[g]) \ UsersIn(members[g]) : EntersFitting(u, g)]_vars

\* Two calls that track the same ticket, or two tickets of one key, never give
\* the player a second seat in the key's pools (place, "a repeated ticket keeps
\* its seat"), full or not, while a pool it sits in is active and takes in the
\* version its call read: its own, unless it signed in with another since.
MatchedOnce ==
  [][\A c \in Calls : Places(c) =>
       LET u == mm[call[c].ticket].owner
           k == mm[call[c].ticket].key
           seated == \E g \in Gsid : /\ pools[g] = k /\ sessions[g].state = "ACTIVE"
                                     /\ Fits(versions[g], call[c].mine) /\ IsMember(u, g)
       IN /\ u \in UsersIn(members'[call'[c].gsid])
          /\ seated => members' = members]_vars

\* "a session takes a player of its own version, and either side unknown fits"
\* (appversion.go:134), by the version the player has when it is seated.  The
\* code does NOT have this: see SeatedWithOwnVersion and the README.
SeatedWithPresentVersion ==
  [][\A g \in Gsid : \A u \in UsersIn(members'[g]) \ UsersIn(members[g]) :
       Fits(versions'[g], appVersion'[u])]_vars

\* Only members of the base room enter its friend pool (matchmaker.go:7-8).
\* The code does NOT have this: it asks when the ticket is made and not when the
\* player is seated (see the README).
FriendPoolMembersOnly ==
  [][\A g \in Gsid : pools'[g] # NoKey /\ pools'[g].room # NoRoom =>
       \A u \in UsersIn(members'[g]) \ UsersIn(members[g]) : IsMember(u, pools'[g].room)]_vars
=============================================================================
