-------------------------------- MODULE Rewards --------------------------------
(***************************************************************************)
(* Reporting online sessions to rewards (rewards.go, counted.go): a loop   *)
(* looks at the sessions at every tick, and a player that shared one with  *)
(* another for the minimum of unbroken time is reported, once.             *)
(*                                                                         *)
(* Time is counted in looks: `since' holds how many looks ago a pair was   *)
(* first seen, up to the minimum.  Sessions are in memory with fresh ids,  *)
(* so they end with the process; what was counted is kept in a store.      *)
(***************************************************************************)
EXTENDS Naturals, Sequences, FiniteSets

CONSTANTS
  Players, Sessions,
  NoPair,        \* model value
  MinLooks,      \* sessionMin, in looks
  MaxRestarts    \* bound

\* Checked in MCServices.
RewardsAssumption ==
  MinLooks \in Nat \ {0} /\ MaxRestarts \in Nat /\ NoPair \notin Sessions \X Players

Pairs == Sessions \X Players

VARIABLES
  members,    \* session -> its members (sessionServer.members)
  ended,      \* sessions of earlier processes
  known,      \* players whose BAAS id is known (players.baas)
  since,      \* pairs seen -> looks since the first, MinLooks when as many or more
  emitted, counted,    \* of the clock
  todo,       \* pairs of this look still to be reported
  marking,    \* the pair reported and not marked in the store yet
  marked,     \* the keys in the store of counted sessions
  forgetting, \* what Forget is about to leave in the file, or NoPair
  restarts,
  events,     \* history: pair -> events sent
  looks       \* history: the pairs seen at the last looks of this process, newest first

clock   == <<since, emitted, counted, todo, marking>>
vars    == <<members, ended, known, clock, marked, forgetting, restarts, events, looks>>

NoClock == /\ since' = [k \in {} |-> 0] /\ emitted' = {} /\ todo' = {} /\ marking' = NoPair

Init ==
  /\ members = [g \in Sessions |-> {}] /\ ended = {}
  /\ known = {}
  /\ since = [k \in {} |-> 0] /\ emitted = {} /\ counted = {} /\ todo = {} /\ marking = NoPair
  /\ marked = {} /\ forgetting = NoPair
  /\ restarts = 0 /\ events = [k \in Pairs |-> 0] /\ looks = <<>>

-----------------------------------------------------------------------------
(* The players (see GameSessions)                                          *)

Join(g, u) ==
  /\ g \notin ended /\ u \notin members[g]
  /\ members' = [members EXCEPT ![g] = @ \union {u}]
  /\ UNCHANGED <<ended, known, clock, marked, forgetting, restarts, events, looks>>

Leave(g, u) ==
  /\ u \in members[g]
  /\ members' = [members EXCEPT ![g] = @ \ {u}]
  /\ UNCHANGED <<ended, known, clock, marked, forgetting, restarts, events, looks>>

\* rememberPlayerIdentity at login, or baasOf when the adapter answers.
Learn(u) ==
  /\ u \notin known
  /\ known' = known \union {u}
  /\ UNCHANGED <<members, ended, clock, marked, forgetting, restarts, events, looks>>

-----------------------------------------------------------------------------
(* sessionClock.tick, watchSessions                                        *)

Seen == {k \in Pairs : Cardinality(members[k[1]]) >= 2 /\ k[2] \in members[k[1]]}

\* mutant: pairs that are not seen keep their time
SinceKept(seen) ==
  [k \in seen \union DOMAIN since |->
     IF k \notin DOMAIN since THEN 0 ELSE IF since[k] < MinLooks THEN since[k] + 1 ELSE MinLooks]

\* The pairs not seen lose their time, the new ones start theirs.
SinceNow(seen) ==
  [k \in seen |->
     IF k \notin DOMAIN since THEN 0 ELSE IF since[k] < MinLooks THEN since[k] + 1 ELSE MinLooks]

\* mutant: a pair that came back is due again
DueAgain(seen) == {k \in seen \ emitted : since'[k] = MinLooks}

Due(seen) == {k \in seen \ (emitted \union counted) : since'[k] = MinLooks}

Tick ==
  /\ todo = {} /\ marking = NoPair
  /\ since' = SinceNow(Seen)
  /\ todo' = Due(Seen)
  /\ emitted' = (emitted \union todo') \intersect Seen
  /\ looks' = SubSeq(<<Seen>> \o looks, 1, IF Len(looks) > MinLooks THEN MinLooks + 1 ELSE Len(looks) + 1)
  /\ UNCHANGED <<members, ended, known, counted, marking, marked, forgetting, restarts, events>>

\* mutant: a pair without an identity is not asked again
RetryNever(k) == emitted

\* Not reported: ask again.
Retry(k) == emitted \ {k}

\* One pair of the look: the event, then the clock's own record.
Report(k) ==
  /\ k \in todo /\ marking = NoPair
  /\ todo' = todo \ {k}
  /\ \/ /\ k[2] \in known
        /\ events' = [events EXCEPT ![k] = @ + 1]
        /\ counted' = counted \union {k} /\ marking' = k
        /\ UNCHANGED emitted
     \/ /\ k[2] \notin known
        /\ emitted' = Retry(k)
        /\ UNCHANGED <<events, counted, marking>>
  /\ UNCHANGED <<members, ended, known, since, marked, forgetting, restarts, looks>>

\* Store.Mark; a failure is only logged.
Mark ==
  /\ marking # NoPair
  /\ marked' \in {marked, marked \union {marking}}
  /\ marking' = NoPair
  /\ UNCHANGED <<members, ended, known, since, emitted, counted, todo, forgetting, restarts, events, looks>>

-----------------------------------------------------------------------------
(* eraseUsers, restart                                                     *)

\* The identity and the seats go first, then Forget reads the store, and is done
\* when it finds nothing ...
Erase(u) ==
  /\ forgetting = NoPair
  /\ known' = known \ {u}
  /\ members' = [g \in Sessions |-> members[g] \ {u}]
  /\ LET kept == {k \in marked : k[2] # u} IN forgetting' = IF kept = marked THEN NoPair ELSE kept
  /\ UNCHANGED <<ended, clock, marked, restarts, events, looks>>

\* ... and replaces it, under a mutex the loop's own Mark does not hold.
Forget ==
  /\ forgetting # NoPair
  /\ marked' = forgetting /\ forgetting' = NoPair
  /\ UNCHANGED <<members, ended, known, clock, restarts, events, looks>>

\* Store.Load at the start of the loop; an error is only logged.
Restart ==
  /\ restarts < MaxRestarts /\ restarts' = restarts + 1
  /\ ended' = ended \union {g \in Sessions : members[g] # {}} \union {k[1] : k \in marked \union counted}
  /\ members' = [g \in Sessions |-> {}] /\ known' = {}
  /\ NoClock /\ counted' \in {marked, {}}
  /\ looks' = <<>> /\ forgetting' = NoPair
  /\ UNCHANGED <<marked, events>>

Next ==
  \/ \E g \in Sessions, u \in Players : Join(g, u) \/ Leave(g, u)
  \/ \E u \in Players : Learn(u) \/ Erase(u)
  \/ Tick \/ Mark \/ Forget \/ Restart
  \/ \E k \in Pairs : Report(k)

\* The loop runs at every tick of its ticker and works through what it found.
Fairness == WF_vars(Tick) /\ WF_vars(Mark) /\ \A k \in Pairs : WF_vars(Report(k))
Spec == Init /\ [][Next]_vars /\ Fairness

-----------------------------------------------------------------------------
(* Properties                                                              *)

TypeOK ==
  /\ members \in [Sessions -> SUBSET Players] /\ ended \subseteq Sessions
  /\ known \subseteq Players
  /\ DOMAIN since \subseteq Pairs /\ \A k \in DOMAIN since : since[k] \in 0 .. MinLooks
  /\ emitted \subseteq Pairs /\ counted \subseteq Pairs /\ todo \subseteq emitted
  /\ marking \in {NoPair} \union Pairs
  /\ marked \subseteq Pairs /\ forgetting \in {NoPair} \union SUBSET Pairs
  /\ restarts \in 0 .. MaxRestarts
  /\ events \in [Pairs -> Nat] /\ looks \in Seq(SUBSET Pairs)

\* "One event per (game session, player)" (rewards.go), whatever was retried,
\* forgotten or restarted.
ReportedOnce == \A k \in Pairs : events[k] <= 1

\* "A player counts once they have shared a game session with at least one
\* other player for sessionMin of unbroken time": a pair is reported only when
\* every look over that time saw it.
ReportEarned ==
  [][\A k \in Pairs : events'[k] > events[k] =>
       Len(looks) = MinLooks + 1 /\ \A i \in 1 .. MinLooks + 1 : k \in looks[i]]_vars

\* A player that goes on sharing a session and is known is reported, however
\* late the identity came.
SharedReported ==
  \A k \in Pairs : <>[](k \in Seen /\ k[2] \in known) => <>(events[k] > 0)
=============================================================================
