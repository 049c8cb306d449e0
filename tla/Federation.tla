------------------------------ MODULE Federation ------------------------------
(***************************************************************************)
(* Where a session's TURN comes from (federation.go, routing/client.go):   *)
(* the routing table of the account core, cached and fetched in the        *)
(* background, the country and the tester flag of a player, asked at every *)
(* login, and the copy of the host's that a session keeps.  The core is    *)
(* outside: its nodes and its list of testers change at any time.  A       *)
(* country the core knows and the identity does not is left out.           *)
(***************************************************************************)
EXTENDS Routing

CONSTANTS
  Hosts,        \* players that log in and create sessions
  CountryOf,    \* player -> the country the identity names, or NoCountry
  Rooms,        \* sessions
  Key,          \* session -> hash of its id
  NoHost, NoTable, NoAnswer,    \* model values
  MaxMoves      \* bound: changes of the core's nodes and testers

ASSUME FederationAssumption ==
  /\ CountryOf \in [Hosts -> Countries] /\ NoHost \notin Hosts
  /\ Key \in [Rooms -> Nat] /\ MaxMoves \in Nat

Fetchers == {"start", "one", "two"}   \* startRouting's fetch, and Table's

VARIABLES
  nodes, testers,  \* the core's nodes in rotation, and its list of testers
  moves,
  table,           \* the cached table: a set of nodes, or NoTable
  aged,            \* it is older than the TTL
  inflight,        \* Table has started a fetch
  fetch,           \* fetcher -> "idle", "asked", or the answer it carries
  player,          \* player -> what login left: [known, tester]
  lookup,          \* player -> the core's answer on its way to be stored, or NoAnswer
  cached,          \* players whose answer is cached for AccountTTL, with the answer
  host,            \* session -> [uid, tester] of its host
  told             \* history: the players the core once called testers

vars == <<nodes, testers, moves, table, aged, inflight, fetch, player, lookup, cached, host, told>>
core == <<nodes, testers, moves>>
tableVars == <<table, aged, inflight, fetch>>
loginVars == <<player, lookup, cached, told>>

Idle     == [pc |-> "idle", got |-> NoTable]
Asked    == [pc |-> "asked", got |-> NoTable]
Answers  == [tester : BOOLEAN]
NoRoom   == [uid |-> NoHost, tester |-> FALSE]

Init ==
  /\ nodes \in SUBSET NodeSet /\ testers \in SUBSET Hosts /\ moves = 0
  /\ table = NoTable /\ aged = TRUE /\ inflight = FALSE
  /\ fetch = [f \in Fetchers |-> IF f = "start" THEN Asked ELSE Idle]
  /\ player = [u \in Hosts |-> [known |-> FALSE, tester |-> FALSE]]
  /\ lookup = [u \in Hosts |-> NoAnswer] /\ cached = lookup
  /\ host = [r \in Rooms |-> NoRoom]
  /\ told = {}

-----------------------------------------------------------------------------
(* The core                                                                *)

\* A node enters or leaves the rotation; a player the list of testers.
Move ==
  /\ moves < MaxMoves /\ moves' = moves + 1
  /\ \/ \E n \in NodeSet : nodes' = SymDiff(nodes, {n}) /\ UNCHANGED testers
     \/ \E u \in Hosts : testers' = SymDiff(testers, {u}) /\ UNCHANGED nodes
  /\ UNCHANGED <<tableVars, loginVars, host>>

-----------------------------------------------------------------------------
(* Client.Table, Client.Refresh                                            *)

\* The core answers a fetch, or it fails and the last table is kept.
Answered(f) ==
  /\ fetch[f].pc = "asked"
  /\ \/ fetch' = [fetch EXCEPT ![f] = [pc |-> "answered", got |-> nodes]] /\ UNCHANGED inflight
     \/ fetch' = [fetch EXCEPT ![f] = Idle] /\ inflight' = FALSE
  /\ UNCHANGED <<core, table, aged, loginVars, host>>

\* The answer takes the lock: whichever fetch comes last is the table.
Refresh(f) ==
  /\ fetch[f].pc = "answered"
  /\ table' = fetch[f].got /\ aged' = FALSE /\ inflight' = FALSE
  /\ fetch' = [fetch EXCEPT ![f] = Idle]
  /\ UNCHANGED <<core, loginVars, host>>

\* The TTL runs out: 30 seconds, and a fetch takes at most 5.
Age ==
  /\ ~aged /\ aged' = TRUE
  /\ \A f \in Fetchers : fetch[f] = Idle
  /\ UNCHANGED <<core, table, inflight, fetch, loginVars, host>>

\* A reader of the table, iceFor's among them, starts a fetch when it is old.
Table ==
  /\ aged /\ ~inflight /\ inflight' = TRUE
  /\ \E f \in Fetchers \ {"start"} : fetch[f] = Idle /\ fetch' = [fetch EXCEPT ![f] = Asked]
  /\ UNCHANGED <<core, table, aged, loginVars, host>>

-----------------------------------------------------------------------------
(* RememberPlayer                                                          *)

\* A login stores the player, with the flag it had, and asks the core.  The
\* answer is the cached one, a new one, or none: then the zero Account.  One
\* lookup of a player at a time (bound).
RememberPlayer(u) ==
  /\ lookup[u] = NoAnswer
  /\ player' = [player EXCEPT ![u].known = TRUE]
  /\ \/ cached[u] # NoAnswer /\ lookup' = [lookup EXCEPT ![u] = cached[u]] /\ UNCHANGED <<cached, told>>
     \/ /\ cached[u] = NoAnswer
        /\ LET answer == [tester |-> u \in testers] IN
           /\ lookup' = [lookup EXCEPT ![u] = answer] /\ cached' = [cached EXCEPT ![u] = answer]
           /\ told' = IF answer.tester THEN told \union {u} ELSE told
     \/ /\ cached[u] = NoAnswer
        /\ lookup' = [lookup EXCEPT ![u] = [tester |-> FALSE]] /\ UNCHANGED <<cached, told>>
  /\ UNCHANGED <<core, tableVars, host>>

\* The background lookup stores what it got.
Looked(u) ==
  /\ lookup[u] # NoAnswer
  /\ player' = [player EXCEPT ![u] = [known |-> TRUE, tester |-> lookup[u].tester]]
  /\ lookup' = [lookup EXCEPT ![u] = NoAnswer]
  /\ UNCHANGED <<core, tableVars, cached, told, host>>

\* AccountTTL runs out.
Uncache(u) ==
  /\ cached[u] # NoAnswer
  /\ cached' = [cached EXCEPT ![u] = NoAnswer]
  /\ UNCHANGED <<core, tableVars, player, lookup, told, host>>

-----------------------------------------------------------------------------
(* Sessions                                                                *)

\* hostOf, when the session is created.
Create(r, u) ==
  /\ host[r] = NoRoom /\ player[u].known
  /\ host' = [host EXCEPT ![r] = [uid |-> u, tester |-> player[u].tester]]
  /\ UNCHANGED <<core, tableVars, loginVars>>

Request(r) == [token |-> NoToken, country |-> CountryOf[host[r].uid],
               tester |-> host[r].tester, service |-> "turn", key |-> Key[r]]

\* iceFor: what a member of the session is given while the table is `table'.
TurnOf(r) == IF table = NoTable THEN AtHome ELSE Resolve(table, Request(r))

Next ==
  \/ Move \/ Age \/ Table
  \/ \E f \in Fetchers : Answered(f) \/ Refresh(f)
  \/ \E u \in Hosts : RememberPlayer(u) \/ Looked(u) \/ Uncache(u)
  \/ \E r \in Rooms, u \in Hosts : Create(r, u)
Spec == Init /\ [][Next]_vars

-----------------------------------------------------------------------------
(* Properties                                                              *)

TypeOK ==
  /\ nodes \subseteq NodeSet /\ testers \subseteq Hosts /\ moves \in 0 .. MaxMoves
  /\ table = NoTable \/ table \subseteq NodeSet
  /\ aged \in BOOLEAN /\ inflight \in BOOLEAN
  /\ fetch \in [Fetchers -> [pc : {"idle", "asked", "answered"}, got : {NoTable} \union SUBSET NodeSet]]
  /\ player \in [Hosts -> [known : BOOLEAN, tester : BOOLEAN]]
  /\ lookup \in [Hosts -> Answers \union {NoAnswer}] /\ cached \in [Hosts -> Answers \union {NoAnswer}]
  /\ host \in [Rooms -> [uid : Hosts \union {NoHost}, tester : BOOLEAN]]
  /\ told \subseteq Hosts

\* "A region with no node walks its fallback chain, and every chain ends at
\* home" (routing.go): a session's TURN, and the answer to any request the
\* registry knows, is at the nearest region there is for the caller.
PlacedNearest ==
  table # NoTable =>
    \A c \in Countries, t \in Tokens \union {NoToken}, tester \in BOOLEAN :
      LET req == [token |-> t, country |-> c, tester |-> tester, service |-> "turn", key |-> 1] IN
      Nearest(table, req, Resolve(table, req))

\* "Test nodes are invisible to everyone but allow-listed accounts": a session
\* is at a test node only when the core called its host a tester.
TestersOnly ==
  \A r \in Rooms : host[r] # NoRoom /\ TurnOf(r).node \in TestNodes => host[r].uid \in told

\* "Keep what the core said until it answers again" (RememberPlayer).  The code
\* does NOT have this: a lookup that fails is stored as no tester (see the README).
TesterKept ==
  [][\A u \in Hosts : player[u].tester /\ ~player'[u].tester => u \notin testers]_vars
=============================================================================
