-------------------------------- MODULE Routing --------------------------------
(***************************************************************************)
(* Which region node serves a new room (internal/routing): regions with    *)
(* their fallbacks, nodes in rotation, and a request with the region the   *)
(* player chose in the game, if any, and the country of the account.       *)
(* Names are compared as they are; their normal forms are left out.        *)
(***************************************************************************)
EXTENDS Naturals, FiniteSets, SequencesExt

CONSTANTS
  Order,          \* the registry's region codes, in its order
  Home,           \* the region home serves itself
  Fallback,       \* region -> the regions after it, in order
  RegionOfCountry,\* country -> its region, or NoRegion
  CountryRoutes,  \* countries with a route of their own -> regions in order
  Named,          \* token -> the regions that list it among their names
  Nodes,          \* node ids, in the order of their names
  NodeRegion,     \* node -> region (the code's NodeRegion, country filled in)
  TestNodes,
  Serves,         \* node -> services it runs
  NoRegion, NoToken, NoNode, NoCountry

Regions   == Range(Order)
NodeSet   == Range(Nodes)
Countries == DOMAIN RegionOfCountry

ASSUME RoutingAssumption ==
  /\ Order \in Seq(Regions) /\ Home \in Regions /\ NoRegion \notin Regions /\ NoNode \notin NodeSet
  /\ Fallback \in [Regions -> Seq(Regions)]
  /\ RegionOfCountry \in [Countries -> Regions \union {NoRegion}]
  /\ NoCountry \in Countries /\ RegionOfCountry[NoCountry] = NoRegion
  /\ DOMAIN CountryRoutes \subseteq Countries \ {NoCountry}
  /\ CountryRoutes \in [DOMAIN CountryRoutes -> Seq(Regions)]
  /\ NodeRegion \in [NodeSet -> Regions \union {NoRegion}]
  /\ Nodes \in Seq(NodeSet) /\ TestNodes \subseteq NodeSet /\ NoToken \notin DOMAIN Named

Tokens == DOMAIN Named      \* a token outside is one nobody knows

RegionsForToken(t) == {r \in Regions : t \in Tokens /\ r \in Named[t]}

\* The first of these in that order.
First(order, these) ==
  order[CHOOSE i \in DOMAIN order : order[i] \in these /\ \A j \in 1 .. i - 1 : order[j] \notin these]

CountryRoute(c) ==
  IF c \in DOMAIN CountryRoutes THEN CountryRoutes[c]
  ELSE IF RegionOfCountry[c] # NoRegion THEN <<RegionOfCountry[c]>> ELSE <<>>

\* As many turns as the queue can be long: every region adds its fallbacks once.
Turns(start) ==
  Len(start) + Cardinality(Regions) * Max({Len(Fallback[r]) : r \in Regions})

\* mutant: a region's fallbacks go in front of what is left of the route
ChainDeep(start) ==
  LET after[i \in 0 .. Turns(start)] ==
        IF i = 0 THEN [queue |-> start, out |-> <<>>]
        ELSE LET st == after[i - 1] IN
             IF i > Len(st.queue) \/ st.queue[i] \in Range(st.out) THEN st
             ELSE [queue |-> SubSeq(st.queue, 1, i) \o Fallback[st.queue[i]]
                               \o SubSeq(st.queue, i + 1, Len(st.queue)),
                   out   |-> Append(st.out, st.queue[i])]
  IN after[Turns(start)].out

\* The starting regions and their fallbacks, transitively, in order and once
\* each: the i-th of the queue, whose fallbacks go to its end.
Chain(start) ==
  LET after[i \in 0 .. Turns(start)] ==
        IF i = 0 THEN [queue |-> start, out |-> <<>>]
        ELSE LET st == after[i - 1] IN
             IF i > Len(st.queue) \/ st.queue[i] \in Range(st.out) THEN st
             ELSE [queue |-> st.queue \o Fallback[st.queue[i]], out |-> Append(st.out, st.queue[i])]
  IN after[Turns(start)].out

\* Nodes in the order of their names.
InOrder(some) ==
  LET upTo[i \in 0 .. Len(Nodes)] ==
        IF i = 0 THEN <<>>
        ELSE IF Nodes[i] \in some THEN Append(upTo[i - 1], Nodes[i]) ELSE upTo[i - 1]
  IN upTo[Len(Nodes)]

\* mutant: the list of testers is not looked at
EligibleAnyone(table, r, service, tester) ==
  LET here == {n \in table : NodeRegion[n] = r /\ service \in Serves[n]}
      test == here \cap TestNodes IN
  InOrder(IF test # {} THEN test ELSE here \ TestNodes)

\* The nodes of a region this caller may be sent to: a tester gets the test
\* nodes alone when there are any.
Eligible(table, r, service, tester) ==
  LET here == {n \in table : NodeRegion[n] = r /\ service \in Serves[n]}
      test == here \cap TestNodes IN
  InOrder(IF tester /\ test # {} THEN test ELSE here \ TestNodes)

AtHome == [region |-> Home, node |-> NoNode, via |-> "home"]

\* Where the walk starts: the chosen region, refined by the account's
\* country where the token names several, else the country's route.
Start(req) ==
  LET cands == RegionsForToken(req.token)
      route == CountryRoute(req.country) IN
  IF req.token = NoToken THEN route
  ELSE IF cands = {} THEN <<>>
  ELSE <<First(IF Range(route) \cap cands # {} THEN route ELSE Order, cands)>>

\* The first region of the chain that is home or has a node.
Resolve(table, req) ==
  LET chain  == Chain(Start(req))
      At(i)  == Eligible(table, chain[i], req.service, req.tester)
      Stops  == {i \in 1 .. Len(chain) : chain[i] = Home \/ At(i) # <<>>}
      stop   == CHOOSE i \in Stops : \A j \in Stops : i <= j IN
  IF Stops = {} \/ chain[stop] = Home THEN AtHome
  ELSE [region |-> chain[stop],
        node   |-> At(stop)[1 + (req.key % Len(At(stop)))],
        via    |-> IF stop > Len(Start(req)) THEN "fallback"
                   ELSE IF req.token # NoToken THEN "explicit" ELSE "country"]

-----------------------------------------------------------------------------
(* What a placement must be, said without the walk                         *)

Far == Cardinality(Regions)

\* For n up to Far, the regions at most n fallbacks away from the start.
Within(start) ==
  LET within[n \in 0 .. Far] ==
        IF n = 0 THEN Range(start)
        ELSE within[n - 1] \union UNION {Range(Fallback[r]) : r \in within[n - 1]}
  IN within

\* No region closer than the answer is home or has a node for the caller; and
\* home answers only when it is as close as any node's region, or none has a
\* node.
Nearest(table, req, res) ==
  LET within == Within(Start(req))
      Usable(r) == r # Home /\ \E n \in table :
        NodeRegion[n] = r /\ req.service \in Serves[n] /\ (n \in TestNodes => req.tester) IN
  IF res.node = NoNode
  THEN \A n \in 0 .. Far : (\E r \in within[n] : Usable(r)) => Home \in within[n]
  ELSE /\ Usable(res.region) /\ NodeRegion[res.node] = res.region /\ res.node \in table
       /\ res.node \in TestNodes => req.tester
       /\ \E n \in 0 .. Far :
            /\ res.region \in within[n]
            /\ n > 0 => \A r \in within[n - 1] : r # Home /\ ~Usable(r)
=============================================================================
