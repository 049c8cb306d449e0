--------------------------- MODULE PresenceProofs ---------------------------
(***************************************************************************)
(* Presence proved for any players, streams, updates and friend lists: the *)
(* types, that whoever is online has a handler that will end it, and that  *)
(* a player with one stream is shown with all it published on it.          *)
(***************************************************************************)
EXTENDS Presence, TLAPS

\* The table has what an undisturbed stream published, and the handler of such a
\* stream is the only one of its player.
Undisturbed ==
  \A s \in DOMAIN told :
    /\ Running(s) /\ Others(s) = {}
    /\ UserOf[s] \in DOMAIN live /\ live[UserOf[s]] = told[s]

IInv == TypeOK /\ OnlineIsHeld /\ Undisturbed

-----------------------------------------------------------------------------
(* Maps                                                                    *)

\* A merge of attribute maps is an attribute map (publish).
LEMMA MergeIsAttrs ==
  ASSUME NEW a \in Updates, NEW b \in Attrs
  PROVE  Merge(a, b) \in Attrs
<1>1. PICK K \in SUBSET Keys : b \in [K -> Values]
  BY DEF Attrs
<1>2. DOMAIN a \subseteq Keys /\ \A k \in DOMAIN a : a[k] \in Values
  BY DEF Keys, Values
<1>3. Merge(a, b) \in [DOMAIN a \cup K -> Values]
  BY <1>1, <1>2 DEF Merge
<1>4. DOMAIN a \cup K \in SUBSET Keys
  BY <1>1, <1>2
<1> QED BY <1>3, <1>4 DEF Attrs

LEMMA EmptyIsAttrs == NoAttrs \in Attrs /\ DOMAIN NoAttrs = {}
<1>1. NoAttrs \in [{} -> Values] /\ DOMAIN NoAttrs = {}
  BY DEF NoAttrs
<1> QED BY <1>1 DEF Attrs

\* What a map may hold stays so when a key goes, or comes with a proper value.
LEMMA HoldsPut ==
  ASSUME NEW f, NEW D, NEW R, Holds(f, D, R), NEW x \in D, NEW y \in R
  PROVE  Holds(Put(f, x, y), D, R)
BY DEF Holds, Put

LEMMA HoldsWithout ==
  ASSUME NEW f, NEW D, NEW R, Holds(f, D, R), NEW S
  PROVE  Holds(Without(f, S), D, R)
BY DEF Holds, Without

LEMMA HoldsMerge ==
  ASSUME NEW f, NEW g, NEW D, NEW R, Holds(f, D, R), Holds(g, D, R)
  PROVE  Holds(Merge(g, f), D, R)
BY DEF Holds, Merge

LEMMA HoldsEmpty == \A D, R : Holds(NoAttrs, D, R)
BY DEF Holds, NoAttrs

-----------------------------------------------------------------------------
(* The parts of TypeOK the two halves of the module change                 *)

Phases == {"new", "open", "broken", "done"}

TableOK ==
  /\ Holds(live, Users, Attrs) /\ Holds(told, {s \in KeepAlives : Running(s)}, Attrs)
  /\ beat \in [KeepAlives -> Phases]
  /\ updates \in 0 .. MaxUpdates

SubOK ==
  /\ friends \in FriendSets
  /\ sub = [pc |-> sub.pc, want |-> sub.want, todo |-> sub.todo, got |-> sub.got, known |-> sub.known]
  /\ sub.pc \in {"new", "listing", "passing", "polling", "gone"}
  /\ sub.want \in Wanted \union {{}} /\ sub.todo \subseteq Users
  /\ Holds(sub.got, Users \ sub.todo, States) /\ Holds(sub.known, Users, States)
  /\ lists \in 0 .. MaxLists

LEMMA TypeParts == /\ TypeOK <=> TableOK /\ SubOK
                   /\ TypeOK' <=> TableOK' /\ SubOK'
BY DEF TypeOK, TableOK, SubOK, Phases

TInv == TableOK /\ OnlineIsHeld /\ Undisturbed

-----------------------------------------------------------------------------
(* The table: one lemma for each action of KeepAlive and the erasure       *)

LEMMA ConnectKeeps ==
  ASSUME TInv, NEW s \in KeepAlives, Connect(s)
  PROVE  TInv'
<1> DEFINE u == UserOf[s]
<1> USE PresenceAssumption
<1>1. /\ u \in Users /\ beat[s] = "new"
      /\ beat' = [beat EXCEPT ![s] = "open"]
      /\ live' = IF u \in DOMAIN live THEN live ELSE Put(live, u, NoAttrs)
      /\ told' = IF Others(s) = {} THEN Put(told, s, NoAttrs) ELSE Without(told, Others(s))
      /\ UNCHANGED updates
  BY DEF Connect
<1>2. /\ beat' \in [KeepAlives -> Phases] /\ Running(s)' /\ ~Running(s)
      /\ \A r \in KeepAlives : r # s => Running(r)' = Running(r)
  BY <1>1 DEF TInv, TableOK, Phases, Running
<1>3. Holds(live', Users, Attrs) /\ DOMAIN live' = DOMAIN live \cup {u}
  <2>1. Holds(Put(live, u, NoAttrs), Users, Attrs)
    BY <1>1, HoldsPut, EmptyIsAttrs DEF TInv, TableOK
  <2>2. DOMAIN Put(live, u, NoAttrs) = DOMAIN live \cup {u}
    BY DEF Put
  <2> QED BY <1>1, <2>1, <2>2 DEF TInv, TableOK
<1>4. s \notin DOMAIN told /\ DOMAIN told \subseteq KeepAlives
  BY <1>2 DEF TInv, Undisturbed, TableOK, Holds
<1>5. \A r \in DOMAIN told : Running(r) /\ r \in KeepAlives /\ UserOf[r] \in DOMAIN live
                             /\ live[UserOf[r]] = told[r] /\ Others(r) = {}
  BY DEF TInv, Undisturbed, TableOK, Holds
<1>6. \A r \in DOMAIN live : live'[r] = live[r]
  <2>1. \A r \in DOMAIN live : u \notin DOMAIN live => Put(live, u, NoAttrs)[r] = live[r]
    BY DEF Put
  <2> QED BY <1>1, <2>1
<1>7. OnlineIsHeld'
  <2> SUFFICES ASSUME NEW v \in DOMAIN live' PROVE \E r \in KeepAlives : UserOf[r] = v /\ Running(r)'
    BY DEF OnlineIsHeld
  <2>1. CASE v = u
    BY <2>1, <1>2
  <2>2. CASE v # u
    BY <2>2, <1>2, <1>3 DEF TInv, OnlineIsHeld
  <2> QED BY <2>1, <2>2
<1>8. CASE Others(s) = {}
  <2>1. u \notin DOMAIN live
    BY <1>8, <1>2 DEF TInv, OnlineIsHeld, Others
  <2>2. told' = Put(told, s, NoAttrs) /\ live' = Put(live, u, NoAttrs)
    BY <1>1, <1>8, <2>1
  <2>3. Holds(told', {r \in KeepAlives : Running(r)'}, Attrs)
    <3>1. Holds(told, {r \in KeepAlives : Running(r)'}, Attrs)
      BY <1>2, <1>5 DEF Holds, TInv, TableOK
    <3>2. Holds(Put(told, s, NoAttrs), {r \in KeepAlives : Running(r)'}, Attrs)
      BY <3>1, <1>2, HoldsPut, EmptyIsAttrs
    <3> QED BY <2>2, <3>2
  <2>4. \A r \in DOMAIN told : r # s /\ UserOf[r] # u
    BY <1>4, <1>5, <2>1
  <2>5. Undisturbed'
    <3> SUFFICES ASSUME NEW r \in DOMAIN told'
                 PROVE  /\ Running(r)' /\ Others(r)' = {}
                        /\ UserOf[r] \in DOMAIN live' /\ live'[UserOf[r]] = told'[r]
      BY DEF Undisturbed
    <3>1. CASE r = s
      <4>1. Others(s)' = {}
        BY <1>8, <1>2 DEF Others
      <4>2. told'[s] = NoAttrs /\ live'[u] = NoAttrs /\ u \in DOMAIN live'
        BY <2>2 DEF Put
      <4> QED BY <3>1, <4>1, <4>2, <1>2
    <3>2. CASE r # s
      <4>1. r \in DOMAIN told /\ told'[r] = told[r]
        BY <3>2, <2>2 DEF Put
      <4>2. Others(r)' = {}
        BY <4>1, <2>4, <1>5, <1>2 DEF Others
      <4> QED BY <3>2, <4>1, <4>2, <1>5, <1>2, <1>3, <1>6
    <3> QED BY <3>1, <3>2
  <2> QED BY <1>1, <1>2, <1>3, <1>7, <2>3, <2>5 DEF TInv, TableOK
<1>9. CASE Others(s) # {}
  <2>1. /\ DOMAIN told' = DOMAIN told \ Others(s)
        /\ \A r \in DOMAIN told' : told'[r] = told[r] /\ r # s /\ r \in DOMAIN told
    <3>1. told' = Without(told, Others(s))
      BY <1>1, <1>9
    <3> QED BY <3>1, <1>4 DEF Without
  <2>2. \A r \in DOMAIN told' : UserOf[r] # u
    BY <2>1, <1>5 DEF Others
  <2>3. Holds(told', {r \in KeepAlives : Running(r)'}, Attrs)
    BY <2>1, <1>2, <1>5 DEF Holds, TInv, TableOK
  <2>4. ASSUME NEW r \in DOMAIN told'
        PROVE  Others(r)' = {}
    BY <2>1, <2>2, <1>5, <1>2 DEF Others
  <2>5. Undisturbed'
    BY <2>1, <2>4, <1>2, <1>3, <1>5, <1>6 DEF Undisturbed
  <2> QED BY <1>1, <1>2, <1>3, <1>7, <2>3, <2>5 DEF TInv, TableOK
<1> QED BY <1>8, <1>9

LEMMA PublishKeeps ==
  ASSUME TInv, NEW s \in KeepAlives, NEW a \in Updates, Publish(s, a)
  PROVE  TInv'
<1> DEFINE u == UserOf[s]
           new == Merge(a, IF u \in DOMAIN live THEN live[u] ELSE NoAttrs)
<1> USE PresenceAssumption
<1>1. /\ u \in Users /\ Running(s)
      /\ live' = Put(live, u, new) /\ UNCHANGED beat
      /\ told' = [r \in DOMAIN told |-> IF r = s THEN Merge(a, told[r]) ELSE told[r]]
      /\ updates < MaxUpdates /\ updates' = updates + 1
  BY DEF Publish
<1>2. \A r : Running(r)' = Running(r) /\ Others(r)' = Others(r)
  BY <1>1 DEF Running, Others
<1>3. new \in Attrs
  <2>1. (IF u \in DOMAIN live THEN live[u] ELSE NoAttrs) \in Attrs
    BY EmptyIsAttrs DEF TInv, TableOK, Holds
  <2> QED BY <2>1, MergeIsAttrs
<1>4. /\ Holds(live', Users, Attrs) /\ DOMAIN live' = DOMAIN live \cup {u} /\ live'[u] = new
      /\ \A v \in DOMAIN live : v # u => live'[v] = live[v]
  <2> HIDE DEF new
  <2>1. Holds(live', Users, Attrs)
    BY <1>1, <1>3, HoldsPut DEF TInv, TableOK
  <2> QED BY <2>1, <1>1 DEF Put
<1>5. Holds(told', {r \in KeepAlives : Running(r)'}, Attrs)
  <2>1. \A r \in DOMAIN told : told[r] \in Attrs /\ Merge(a, told[r]) \in Attrs
    BY MergeIsAttrs DEF TInv, TableOK, Holds
  <2> QED BY <2>1, <1>1, <1>2 DEF Holds, TInv, TableOK
<1>6. OnlineIsHeld'
  BY <1>1, <1>2, <1>4 DEF OnlineIsHeld, TInv
<1>7. Undisturbed'
  <2> SUFFICES ASSUME NEW r \in DOMAIN told
               PROVE  /\ Running(r)' /\ Others(r)' = {}
                      /\ UserOf[r] \in DOMAIN live' /\ live'[UserOf[r]] = told'[r]
    BY <1>1 DEF Undisturbed
  <2>1. /\ Running(r) /\ Others(r) = {} /\ r \in KeepAlives
        /\ UserOf[r] \in DOMAIN live /\ live[UserOf[r]] = told[r]
    BY DEF TInv, Undisturbed, TableOK, Holds
  <2>2. CASE r = s
    BY <2>1, <2>2, <1>1, <1>2, <1>4
  <2>3. CASE r # s
    <3>1. UserOf[r] # u
      BY <2>1, <2>3, <1>1 DEF Others
    <3> QED BY <3>1, <2>1, <2>3, <1>1, <1>2, <1>4
  <2> QED BY <2>2, <2>3
<1>8. updates' \in 0 .. MaxUpdates
  BY <1>1 DEF TInv, TableOK
<1> QED BY <1>1, <1>4, <1>5, <1>6, <1>7, <1>8 DEF TInv, TableOK

LEMMA BreakKeeps ==
  ASSUME TInv, NEW s \in KeepAlives, Break(s)
  PROVE  TInv'
<1>1. /\ beat[s] = "open" /\ beat' = [beat EXCEPT ![s] = "broken"] /\ beat' \in [KeepAlives -> Phases]
      /\ UNCHANGED <<live, told, updates>>
  BY DEF Break, TInv, TableOK, Phases
<1>2. \A r \in KeepAlives : Running(r)' = Running(r)
  BY <1>1 DEF Running, TInv, TableOK
<1>3. \A r \in DOMAIN told : r \in KeepAlives /\ Others(r)' = Others(r)
  BY <1>2 DEF Others, TInv, TableOK, Holds
<1>4. {r \in KeepAlives : Running(r)'} = {r \in KeepAlives : Running(r)}
  BY <1>2
<1> QED BY <1>1, <1>2, <1>3, <1>4 DEF TInv, TableOK, OnlineIsHeld, Undisturbed, Holds

\* What a handler that returns leaves: the other handlers of its player run on
\* without an entry, and none of them counted as undisturbed.
LEMMA ReturnKeeps ==
  ASSUME TInv, NEW s \in KeepAlives, Return(s)
  PROVE  TInv'
<1> DEFINE u == UserOf[s]
<1>1. /\ beat[s] = "broken" /\ beat' = [beat EXCEPT ![s] = "done"]
      /\ live' = Without(live, {u}) /\ told' = Without(told, {s})
      /\ UNCHANGED updates
  BY DEF Return
<1>2. /\ beat' \in [KeepAlives -> Phases] /\ ~Running(s)' /\ Running(s)
      /\ \A r \in KeepAlives : r # s => Running(r)' = Running(r)
  BY <1>1 DEF TInv, TableOK, Phases, Running
<1>3. /\ DOMAIN live' = DOMAIN live \ {u} /\ \A v \in DOMAIN live' : live'[v] = live[v]
      /\ DOMAIN told' = DOMAIN told \ {s} /\ \A r \in DOMAIN told' : told'[r] = told[r]
  BY <1>1 DEF Without
<1>4. Holds(live', Users, Attrs)
  BY <1>3 DEF TInv, TableOK, Holds
<1>5. Holds(told', {r \in KeepAlives : Running(r)'}, Attrs)
  BY <1>2, <1>3 DEF TInv, TableOK, Holds
<1>6. OnlineIsHeld'
  BY <1>2, <1>3 DEF TInv, OnlineIsHeld
<1>7. Undisturbed'
  <2> SUFFICES ASSUME NEW r \in DOMAIN told'
               PROVE  /\ Running(r)' /\ Others(r)' = {}
                      /\ UserOf[r] \in DOMAIN live' /\ live'[UserOf[r]] = told'[r]
    BY DEF Undisturbed
  <2>1. /\ r \in DOMAIN told /\ r # s /\ r \in KeepAlives /\ Running(r) /\ Others(r) = {}
        /\ UserOf[r] \in DOMAIN live /\ live[UserOf[r]] = told[r]
    BY <1>3 DEF TInv, Undisturbed, TableOK, Holds
  <2>2. UserOf[r] # u
    BY <2>1, <1>2 DEF Others
  <2>3. Others(r)' = {}
    BY <2>1, <1>2 DEF Others
  <2> QED BY <2>1, <2>2, <2>3, <1>2, <1>3
<1> QED BY <1>1, <1>2, <1>4, <1>5, <1>6, <1>7 DEF TInv, TableOK

LEMMA EraseKeeps ==
  ASSUME TInv, NEW u \in Users, EraseUser(u)
  PROVE  TInv'
<1>1. /\ live' = Without(live, {u}) /\ told' = Without(told, {s \in KeepAlives : UserOf[s] = u})
      /\ UNCHANGED <<beat, updates>>
  BY DEF EraseUser
<1>2. /\ DOMAIN live' = DOMAIN live \ {u} /\ \A v \in DOMAIN live' : live'[v] = live[v]
      /\ DOMAIN told' = DOMAIN told \ {s \in KeepAlives : UserOf[s] = u}
      /\ \A r \in DOMAIN told' : told'[r] = told[r]
  BY <1>1 DEF Without
<1>3. \A r : Running(r)' = Running(r) /\ Others(r)' = Others(r)
  BY <1>1 DEF Running, Others
<1>4. Holds(live', Users, Attrs) /\ Holds(told', {r \in KeepAlives : Running(r)'}, Attrs)
  BY <1>2, <1>3 DEF TInv, TableOK, Holds
<1>5. OnlineIsHeld'
  BY <1>2, <1>3 DEF TInv, OnlineIsHeld
<1>6. Undisturbed'
  BY <1>2, <1>3 DEF TInv, Undisturbed, TableOK, Holds
<1> QED BY <1>1, <1>4, <1>5, <1>6 DEF TInv, TableOK

-----------------------------------------------------------------------------
(* The subscription leaves the table alone, and the other way about        *)

\* Whatever changes neither the table nor a history keeps their half.
LEMMA TableStays ==
  ASSUME TInv, UNCHANGED table
  PROVE  TInv'
BY DEF TInv, TableOK, OnlineIsHeld, Undisturbed, Running, Others, Holds, table

\* The state of a player is attributes or offline (stateOf).
LEMMA StateIsState ==
  ASSUME TableOK, NEW u
  PROVE  StateOf(u) \in States
BY DEF TableOK, Holds, StateOf, States

\* A pass begins with the friends found, wherever the lookup got them.
LEMMA LookKeeps ==
  ASSUME SubOK, NEW want \in Wanted, NEW found \in SUBSET Users, Look(want, found)
  PROVE  SubOK' /\ UNCHANGED table
<1>1. Holds(NoAttrs, Users \ found, States)
  BY HoldsEmpty
<1>2. /\ sub' = [pc |-> IF sub.pc = "new" THEN "listing" ELSE "passing",
                 want |-> IF sub.pc = "new" THEN want ELSE sub.want,
                 todo |-> found, got |-> NoAttrs, known |-> sub.known]
      /\ UNCHANGED <<table, friends, lists>>
  BY DEF Look, SubOK
<1> QED BY <1>1, <1>2 DEF SubOK

\* One friend more is read.
LEMMA ReadKeeps ==
  ASSUME SubOK, TableOK, NEW f \in Users, Read(f)
  PROVE  SubOK' /\ UNCHANGED table
<1>1. /\ sub' = [pc |-> sub.pc, want |-> sub.want, todo |-> sub.todo \ {f},
                 got |-> Put(sub.got, f, StateOf(f)), known |-> sub.known]
      /\ UNCHANGED <<table, friends, lists>>
  BY DEF Read, SubOK
<1>2. Holds(sub.got, Users \ (sub.todo \ {f}), States)
  BY DEF SubOK, Holds
<1>3. Holds(Put(sub.got, f, StateOf(f)), Users \ (sub.todo \ {f}), States)
  BY <1>2, StateIsState, HoldsPut
<1> QED BY <1>1, <1>3 DEF SubOK

\* The first listing is what was read of the friends that were asked for.
LEMMA EnumerateKeeps ==
  ASSUME SubOK, Enumerate
  PROVE  SubOK' /\ UNCHANGED table
<1>1. /\ sub' = [pc |-> "polling", want |-> sub.want, todo |-> sub.todo,
                 got |-> NoAttrs, known |-> Named]
      /\ UNCHANGED <<table, friends, lists>>
  BY DEF Enumerate, SubOK
<1>2. Holds(NoAttrs, Users \ sub.todo, States)
  BY HoldsEmpty
<1>3. Holds(Named, Users, States)
  BY DEF SubOK, Holds, Named
<1> QED BY <1>1, <1>2, <1>3 DEF SubOK

\* A push adds what was read and changed to what is known.
LEMMA PushKeeps ==
  ASSUME SubOK, Push
  PROVE  SubOK' /\ UNCHANGED table
<1>1. /\ sub' = [pc |-> "polling", want |-> sub.want, todo |-> sub.todo,
                 got |-> NoAttrs, known |-> Merge(Changed, sub.known)]
      /\ UNCHANGED <<table, friends, lists>>
  BY DEF Push, SubOK
<1>2. Holds(NoAttrs, Users \ sub.todo, States)
  BY HoldsEmpty
<1>3. Holds(Changed, Users, States) /\ Holds(sub.known, Users, States)
  BY DEF SubOK, Holds, Changed
<1>4. Holds(Merge(Changed, sub.known), Users, States)
  BY <1>3, HoldsMerge
<1> QED BY <1>1, <1>2, <1>4 DEF SubOK

\* A subscription that ends forgets everything.
LEMMA UnsubscribeKeeps ==
  ASSUME SubOK, Unsubscribe
  PROVE  SubOK' /\ UNCHANGED table
<1>1. /\ sub' = [pc |-> "gone", want |-> sub.want, todo |-> {}, got |-> NoAttrs, known |-> NoAttrs]
      /\ UNCHANGED <<table, friends, lists>>
  BY DEF Unsubscribe, SubOK
<1>2. Holds(NoAttrs, Users, States)
  BY HoldsEmpty
<1> QED BY <1>1, <1>2 DEF SubOK

\* The friend list changes in the core, within the bound.
LEMMA ListChangesKeeps ==
  ASSUME SubOK, NEW F \in FriendSets, ListChanges(F)
  PROVE  SubOK' /\ UNCHANGED table
BY PresenceAssumption DEF SubOK, ListChanges

-----------------------------------------------------------------------------
(* The invariant                                                           *)

\* Nobody is online and nobody subscribes when the server starts.
LEMMA InitKeeps == Init => IInv
<1> SUFFICES ASSUME Init PROVE IInv
  OBVIOUS
<1> USE PresenceAssumption
<1>1. live = NoAttrs /\ told = NoAttrs /\ DOMAIN NoAttrs = {}
  BY EmptyIsAttrs DEF Init
<1>2. TableOK
  BY <1>1, HoldsEmpty DEF Init, TableOK, Phases
<1>3. SubOK
  BY HoldsEmpty DEF Init, SubOK
<1>4. OnlineIsHeld /\ Undisturbed
  BY <1>1 DEF OnlineIsHeld, Undisturbed
<1> QED BY <1>2, <1>3, <1>4, TypeParts DEF IInv

\* Every action of the table keeps its half, every action of the subscription
\* the other one.
LEMMA NextKeeps == IInv /\ [Next]_vars => IInv'
<1> SUFFICES ASSUME IInv, [Next]_vars PROVE TInv' /\ SubOK'
  BY TypeParts DEF IInv, TInv
<1>1. TInv /\ TableOK /\ SubOK
  BY TypeParts DEF IInv, TInv
<1>2. UNCHANGED <<friends, sub, lists>> => SubOK'
  BY <1>1 DEF SubOK
<1>3. CASE \E s \in KeepAlives : Connect(s) \/ Break(s) \/ Return(s)
  <2>1. PICK s \in KeepAlives : Connect(s) \/ Break(s) \/ Return(s)
    BY <1>3
  <2>2. TInv'
    BY <2>1, <1>1, ConnectKeeps, BreakKeeps, ReturnKeeps
  <2>3. UNCHANGED <<friends, sub, lists>>
    BY <2>1 DEF Connect, Break, Return
  <2> QED BY <2>2, <2>3, <1>2
<1>4. CASE \E s \in KeepAlives, a \in Updates : Publish(s, a)
  <2>1. PICK s \in KeepAlives, a \in Updates : Publish(s, a)
    BY <1>4
  <2>2. UNCHANGED <<friends, sub, lists>>
    BY <2>1 DEF Publish
  <2> QED BY <2>1, <2>2, <1>1, <1>2, PublishKeeps
<1>5. CASE \E u \in Erasable : EraseUser(u)
  <2>1. PICK u \in Users : EraseUser(u)
    BY <1>5, PresenceAssumption
  <2>2. UNCHANGED <<friends, sub, lists>>
    BY <2>1 DEF EraseUser
  <2> QED BY <2>1, <2>2, <1>1, <1>2, EraseKeeps
<1>6. CASE \E F \in FriendSets : ListChanges(F)
  BY <1>6, <1>1, ListChangesKeeps, TableStays
<1>7. CASE LookUp \/ LookUpFails
  <2>1. friends \in SUBSET Users /\ {} \in SUBSET Users
    BY <1>1, PresenceAssumption DEF SubOK
  <2>2. \E want \in Wanted, found \in SUBSET Users : Look(want, found)
    BY <1>7, <2>1 DEF LookUp, LookUpFails
  <2> QED BY <2>2, <1>1, LookKeeps, TableStays
<1>8. CASE \E f \in Users : Read(f)
  BY <1>8, <1>1, ReadKeeps, TableStays
<1>9. CASE Enumerate \/ Push \/ Unsubscribe
  BY <1>9, <1>1, EnumerateKeeps, PushKeeps, UnsubscribeKeeps, TableStays
<1>10. CASE UNCHANGED vars
  BY <1>10, <1>1, <1>2, TableStays DEF vars
<1> QED BY <1>3, <1>4, <1>5, <1>6, <1>7, <1>8, <1>9, <1>10 DEF Next, Poll

-----------------------------------------------------------------------------
(* Theorems                                                                *)

\* The inductive invariant holds in every state of presence.go.
THEOREM Invariance == Spec => []IInv
<1> QED BY InitKeeps, NextKeeps, PTL DEF Spec

\* Every state of the table and of a subscription has its type.
THEOREM TypeCorrect == Spec => []TypeOK
<1>1. IInv => TypeOK
  BY DEF IInv
<1> QED BY <1>1, Invariance, PTL

\* "A player counts as online only while talking to THIS server": whoever is in
\* the table has a handler still to return, which will take the player out.
THEOREM OnlineMeansHeld == Spec => []OnlineIsHeld
<1>1. IInv => OnlineIsHeld
  BY DEF IInv
<1> QED BY <1>1, Invariance, PTL

\* A player whose stream was alone all the time is shown with all the updates
\* merged that it published on it.
THEOREM PublishedStays == Spec => []PublishedIsKept
<1>1. IInv => PublishedIsKept
  BY DEF IInv, Undisturbed, PublishedIsKept, StateOf
<1> QED BY <1>1, Invariance, PTL
=============================================================================
