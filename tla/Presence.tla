------------------------------ MODULE Presence ------------------------------
(***************************************************************************)
(* The friends' presence (presence.go of both titles: the text is the same *)
(* but for the period of the poll).  A console holds a KeepAlive stream,   *)
(* publishes its state on it and is online in the table `live' meanwhile.  *)
(* A SubscribePresences stream lists the caller's friends once and then    *)
(* pushes what a poll finds changed.  A stream breaks when the console     *)
(* goes away, when gRPC's keep-alive gives it up or when the ban gate ends *)
(* it; its handler notices some time later and only then cleans up.        *)
(*                                                                         *)
(* One subscriber: a subscription shares nothing with another one.         *)
(***************************************************************************)
EXTENDS Naturals

CONSTANTS
  Users,        \* players with a KeepAlive stream, friends of the subscriber at times
  KeepAlives,   \* KeepAlive streams
  UserOf,       \* the player whose token a stream carries
  Updates,      \* attribute maps a console may publish
  FriendSets,   \* the friend lists the identity service may give for the subscriber
  Wanted,       \* the sets of players a subscription may name, {} for everybody
  Erasable,     \* players whose account may be erased
  Offline,      \* the state of a player without an entry
  MaxUpdates,   \* bound: updates published
  MaxLists      \* bound: changes of the friend list

Keys    == UNION {DOMAIN a : a \in Updates}
Values  == UNION {{a[k] : k \in DOMAIN a} : a \in Updates}
Attrs   == UNION {[K -> Values] : K \in SUBSET Keys}
States  == Attrs \union {Offline}
NoAttrs == [k \in {} |-> Offline]

ASSUME PresenceAssumption ==
  /\ UserOf \in [KeepAlives -> Users]
  /\ FriendSets \subseteq SUBSET Users /\ Erasable \subseteq Users
  /\ Wanted \subseteq SUBSET Users
  /\ Offline \notin Attrs
  /\ MaxUpdates \in Nat /\ MaxLists \in Nat

VARIABLES
  live,      \* player -> attributes, of the players online (live.attrs)
  beat,      \* where each KeepAlive handler is
  friends,   \* the subscriber's friend list (external: the identity service)
  sub,       \* the subscription: its place, its pass over the friends, and known,
             \* what its console was told last (the stream delivers in order)
  told,      \* history: what each stream published, of the streams whose player
             \* had no other meanwhile and was not erased
  updates, lists   \* bounds: updates published, changes of the list

table == <<live, beat, told, updates>>
vars  == <<table, friends, sub, lists>>

\* Go's delete(f, x), f[x] = y and the loop that sets all of a in f.
Without(f, S) == [x \in DOMAIN f \ S |-> f[x]]
Put(f, x, y)  == [z \in DOMAIN f \union {x} |-> IF z = x THEN y ELSE f[z]]
Merge(a, f)   == [z \in DOMAIN a \union DOMAIN f |-> IF z \in DOMAIN a THEN a[z] ELSE f[z]]

StateOf(u)    == IF u \in DOMAIN live THEN live[u] ELSE Offline

Running(s)    == beat[s] \in {"open", "broken"}
Others(s)     == {r \in KeepAlives \ {s} : UserOf[r] = UserOf[s] /\ Running(r)}

-----------------------------------------------------------------------------
(* KeepAlive                                                               *)

Init ==
  /\ live = NoAttrs
  /\ beat = [s \in KeepAlives |-> "new"]
  /\ told = NoAttrs /\ updates = 0 /\ lists = 0
  /\ friends \in FriendSets
  /\ sub = [pc |-> "new", want |-> {}, todo |-> {}, got |-> NoAttrs, known |-> NoAttrs]

\* goOnline: a player already in the table keeps what it published.
Connect(s) ==
  LET u == UserOf[s] IN
  /\ beat[s] = "new"
  /\ live' = IF u \in DOMAIN live THEN live ELSE Put(live, u, NoAttrs)
  /\ beat' = [beat EXCEPT ![s] = "open"]
  /\ told' = IF Others(s) = {} THEN Put(told, s, NoAttrs) ELSE Without(told, Others(s))
  /\ UNCHANGED <<friends, sub, updates, lists>>

\* mutant: an update replaces what was published before
PublishReplaces(s, a) ==
  LET u == UserOf[s] IN
  /\ Running(s) /\ updates < MaxUpdates
  /\ live' = Put(live, u, a)
  /\ told' = [r \in DOMAIN told |-> IF r = s THEN Merge(a, told[r]) ELSE told[r]]
  /\ updates' = updates + 1
  /\ UNCHANGED <<beat, friends, sub, lists>>

\* publish: an update merges, and brings back an entry that is gone.  What the
\* console sent before the stream broke may still be read after it.
Publish(s, a) ==
  LET u == UserOf[s] IN
  /\ Running(s) /\ updates < MaxUpdates
  /\ live' = Put(live, u, Merge(a, IF u \in DOMAIN live THEN live[u] ELSE NoAttrs))
  /\ told' = [r \in DOMAIN told |-> IF r = s THEN Merge(a, told[r]) ELSE told[r]]
  /\ updates' = updates + 1
  /\ UNCHANGED <<beat, friends, sub, lists>>

\* The console, gRPC or the ban gate ends the stream.
Break(s) ==
  /\ beat[s] = "open"
  /\ beat' = [beat EXCEPT ![s] = "broken"]
  /\ UNCHANGED <<live, told, updates, friends, sub, lists>>

\* mutant: the handler returns without the deferred call
ReturnStaysOnline(s) ==
  /\ beat[s] = "broken"
  /\ beat' = [beat EXCEPT ![s] = "done"]
  /\ told' = Without(told, {s})
  /\ UNCHANGED <<live, updates, friends, sub, lists>>

\* Recv or Send fails and the handler returns: goOffline.
Return(s) ==
  /\ beat[s] = "broken"
  /\ beat' = [beat EXCEPT ![s] = "done"]
  /\ live' = Without(live, {UserOf[s]})
  /\ told' = Without(told, {s})
  /\ UNCHANGED <<updates, friends, sub, lists>>

EraseUser(u) ==
  /\ live' = Without(live, {u})
  /\ told' = Without(told, {s \in KeepAlives : UserOf[s] = u})
  /\ UNCHANGED <<beat, updates, friends, sub, lists>>

-----------------------------------------------------------------------------
(* SubscribePresences                                                      *)

\* External: the friend list changes in the core.
ListChanges(F) ==
  /\ lists < MaxLists /\ F # friends
  /\ friends' = F /\ lists' = lists + 1
  /\ UNCHANGED <<table, sub>>

\* presencesFor begins: the account is looked up; a lookup that fails finds no
\* friend.  The first pass begins after the opening heartbeat, another one with
\* the poll.
Look(want, found) ==
  /\ sub.pc \in {"new", "polling"}
  /\ sub' = [sub EXCEPT !.pc = IF @ = "new" THEN "listing" ELSE "passing",
                        !.want = IF sub.pc = "new" THEN want ELSE @,
                        !.todo = found, !.got = NoAttrs]
  /\ UNCHANGED <<table, friends, lists>>

LookUp == \E want \in Wanted : (sub.pc = "new" \/ want = sub.want) /\ Look(want, friends)
LookUpFails == \E want \in Wanted : (sub.pc = "new" \/ want = sub.want) /\ Look(want, {})

\* stateOf, under the mutex of the table, one friend after the other.
Read(f) ==
  /\ sub.pc \in {"listing", "passing"} /\ f \in sub.todo
  /\ sub' = [sub EXCEPT !.todo = @ \ {f}, !.got = Put(@, f, StateOf(f))]
  /\ UNCHANGED <<table, friends, lists>>

Asked(f) == sub.want = {} \/ f \in sub.want
Named    == [f \in {g \in DOMAIN sub.got : Asked(g)} |-> sub.got[f]]

\* The listing is sent and remembered, then the enumeration is done.
Enumerate ==
  /\ sub.pc = "listing" /\ sub.todo = {}
  /\ sub' = [sub EXCEPT !.pc = "polling", !.known = Named, !.got = NoAttrs]
  /\ UNCHANGED <<table, friends, lists>>

\* mutant: a presence changes when its state does, whatever its attributes
FingerprintState(f) ==
  f \in DOMAIN sub.known /\ (sub.known[f] = Offline) = (sub.got[f] = Offline)

\* fingerprint: the state and the attributes; a friend not listed is unknown.
SameFingerprint(f) == f \in DOMAIN sub.known /\ sub.known[f] = sub.got[f]
Changed == [f \in {g \in DOMAIN sub.got : ~SameFingerprint(g)} |-> sub.got[f]]

\* The pass is compared with what is known and the changes are sent.
Push ==
  /\ sub.pc = "passing" /\ sub.todo = {}
  /\ sub' = [sub EXCEPT !.pc = "polling", !.known = Merge(Changed, @), !.got = NoAttrs]
  /\ UNCHANGED <<table, friends, lists>>

\* The subscriber goes away: the context is done or a Send fails.
Unsubscribe ==
  /\ sub.pc \in {"polling", "listing", "passing"}
  /\ sub' = [sub EXCEPT !.pc = "gone", !.todo = {}, !.got = NoAttrs, !.known = NoAttrs]
  /\ UNCHANGED <<table, friends, lists>>

Poll == LookUp \/ LookUpFails \/ (\E f \in Users : Read(f)) \/ Enumerate \/ Push

Next ==
  \/ \E s \in KeepAlives : Connect(s) \/ Break(s) \/ Return(s)
  \/ \E s \in KeepAlives, a \in Updates : Publish(s, a)
  \/ \E u \in Erasable : EraseUser(u)
  \/ \E F \in FriendSets : ListChanges(F)
  \/ Poll \/ Unsubscribe

\* The poll's ticker fires and its goroutine runs; a lookup that is tried again
\* and again succeeds in the end (external).
Fairness ==
  /\ SF_vars(LookUp)
  /\ WF_vars(\E f \in Users : Read(f))
  /\ WF_vars(Enumerate \/ Push)

Spec == Init /\ [][Next]_vars /\ Fairness

-----------------------------------------------------------------------------
Holds(f, D, R) == DOMAIN f \subseteq D /\ \A x \in DOMAIN f : f[x] \in R

TypeOK ==
  /\ Holds(live, Users, Attrs) /\ Holds(told, {s \in KeepAlives : Running(s)}, Attrs)
  /\ beat \in [KeepAlives -> {"new", "open", "broken", "done"}]
  /\ friends \in FriendSets
  /\ sub = [pc |-> sub.pc, want |-> sub.want, todo |-> sub.todo, got |-> sub.got, known |-> sub.known]
  /\ sub.pc \in {"new", "listing", "passing", "polling", "gone"}
  /\ sub.want \in Wanted \union {{}} /\ sub.todo \subseteq Users
  /\ Holds(sub.got, Users \ sub.todo, States) /\ Holds(sub.known, Users, States)
  /\ updates \in 0 .. MaxUpdates /\ lists \in 0 .. MaxLists

\* "A player counts as online only while talking to THIS server: claiming
\* otherwise sends friends into a join that cannot succeed" (presence.go):
\* every player of the table has a handler that will take it out.
OnlineIsHeld ==
  \A u \in DOMAIN live : \E s \in KeepAlives : UserOf[s] = u /\ Running(s)

\* While a player has had one stream only, the table holds all it published on
\* it, whatever came in parts: friends see what the console believes it says.
PublishedIsKept == \A s \in DOMAIN told : StateOf(UserOf[s]) = told[s]

\* "keeps reporting as their state CHANGES" (presence.go): a subscription that
\* lasts ends up with the true state of every friend, whatever lookups failed,
\* friends came and went and streams overlapped on the way.
ViewsCatchUp ==
  (<>(sub.pc = "gone")) \/ <>[](\A f \in friends : f \in DOMAIN sub.known /\ sub.known[f] = StateOf(f))

\* "live is every player holding a KeepAlive stream open, with what they last
\* published" (presence.go), for all streams.  The code does NOT have this: of two
\* streams of one player the end of the older breaks it (see the README).
HolderIsOnline ==
  \A s \in KeepAlives : beat[s] = "open" => UserOf[s] \in DOMAIN live
=============================================================================
