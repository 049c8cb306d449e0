------------------------------- MODULE BanGate -------------------------------
(***************************************************************************)
(* The ban gate in front of every RPC (bans.go), for one account.  The     *)
(* gate asks nx-baas at every call and, for a stream that stays open, with *)
(* every sweep; it keeps an "active" answer for a while, and so does       *)
(* nx-baas itself.  Time is discrete: what happens between two Ticks       *)
(* happens within one unit, in any order, so that a lease taken in one     *)
(* unit may or may not have run out in the unit it ends in.                *)
(***************************************************************************)
EXTENDS Integers

CONSTANTS
  Streams, Calls,   \* streaming and unary RPCs of the account
  Named,            \* the RPCs whose token carries the pid; the others name the user only
  ActiveTTL,        \* units an "active" answer is trusted (activeTTL)
  SweepEvery,       \* units between two checks of an open stream (sweepEvery)
  Timeout,          \* units a request to nx-baas may take (client.Timeout)
  BaasTTL,          \* units nx-baas trusts its own "active" answer (external)
  MaxTurns          \* bound: bans and unbans

Rpcs == Streams \union Calls
NoLease == -1

ASSUME GateAssumption ==
  /\ Streams \cap Calls = {} /\ Named \subseteq Rpcs
  /\ {ActiveTTL, SweepEvery, Timeout, BaasTTL, MaxTurns} \subseteq Nat
  /\ Timeout < SweepEvery

VARIABLES
  banned,    \* external: the account is locked out
  since,     \* units since the last ban, unban or request that nx-baas failed, capped
  lifted,    \* units since the last unban, capped
  baas,      \* external: what is left of nx-baas's own "active" answer
  active,    \* what is left of the gate's (active[pid])
  known,     \* the pid of the account's user is remembered (users[uid])
  rpc,       \* where each RPC is: closed, asking, open, sweeping (asking while open), refused
  reply,     \* the request of an RPC to nx-baas: none, sent, or its answer
  age,       \* units since it was sent
  sweep,     \* units to the next check of an open stream; NoLease for one never checked
  turns      \* bound: bans and unbans

gate == <<active, known>>
core == <<banned, since, lifted, baas, turns>>
vars == <<core, gate, rpc, reply, age, sweep>>

\* Within this long after a ban no RPC of the account is served any more: both
\* answers run out, a request of each end and the sweep in between.
Limit == BaasTTL + Timeout + ActiveTTL + SweepEvery + Timeout
Later == Limit + 1

Asking(p) == rpc[p] \in {"asking", "sweeping"}
Ongoing   == {"open", "sweeping"}
MayHold(lease)   == lease >= 0
MayRunOut(lease) == lease <= 0
Step(lease)      == IF lease = NoLease THEN NoLease ELSE lease - 1

Init ==
  /\ banned \in BOOLEAN /\ since = Later /\ lifted = Timeout + 1 /\ baas = NoLease /\ turns = 0
  /\ active = NoLease /\ known = FALSE
  /\ rpc = [p \in Rpcs |-> "closed"]
  /\ reply = [p \in Rpcs |-> "none"] /\ age = [p \in Rpcs |-> 0]
  /\ sweep = [s \in Streams |-> NoLease]

-----------------------------------------------------------------------------
(* External: the core and nx-baas                                          *)

Turn ==
  /\ turns < MaxTurns
  /\ banned' = ~banned /\ since' = 0 /\ turns' = turns + 1
  /\ lifted' = IF banned THEN 0 ELSE lifted
  /\ UNCHANGED <<baas, gate, rpc, reply, age, sweep>>

\* nx-baas answers from its cache, or from the core and caches "active".
Answer(p) ==
  /\ reply[p] = "sent"
  /\ \/ MayHold(baas) /\ reply' = [reply EXCEPT ![p] = "active"] /\ UNCHANGED baas
     \/ /\ MayRunOut(baas)
        /\ reply' = [reply EXCEPT ![p] = IF banned THEN "banned" ELSE "active"]
        /\ baas' = IF banned THEN NoLease ELSE BaasTTL
  /\ UNCHANGED <<banned, since, lifted, turns, gate, rpc, age, sweep>>

\* It cannot be reached, fails or is too late for the gate.
Fail(p) ==
  /\ reply[p] = "sent"
  /\ reply' = [reply EXCEPT ![p] = "failed"] /\ since' = 0
  /\ UNCHANGED <<banned, lifted, baas, turns, gate, rpc, age, sweep>>

-----------------------------------------------------------------------------
(* Gate.Check                                                              *)

\* mutant: an answer that is used is trusted anew
CheckExtends(p, pc, asking) ==
  \/ MayHold(active) /\ rpc' = [rpc EXCEPT ![p] = pc] /\ active' = ActiveTTL /\ UNCHANGED <<reply, age>>
  \/ /\ MayRunOut(active)
     /\ rpc' = [rpc EXCEPT ![p] = asking]
     /\ reply' = [reply EXCEPT ![p] = "sent"] /\ age' = [age EXCEPT ![p] = 0]
     /\ UNCHANGED active

\* The first section: a cached answer lets the RPC pass, otherwise nx-baas is asked.
Check(p, pc, asking) ==
  \/ MayHold(active) /\ rpc' = [rpc EXCEPT ![p] = pc] /\ UNCHANGED <<active, reply, age>>
  \/ /\ MayRunOut(active)
     /\ rpc' = [rpc EXCEPT ![p] = asking]
     /\ reply' = [reply EXCEPT ![p] = "sent"] /\ age' = [age EXCEPT ![p] = 0]
     /\ UNCHANGED active

\* The pid of a call: its token carries it, or the user was remembered.
Resolved(p) == p \in Named \/ known

\* The ticker of a stream runs from when it is let in to its end.
Ticking(p, first) ==
  sweep' = [s \in Streams |-> IF s # p THEN sweep[s]
                              ELSE IF rpc'[s] = "open" THEN first ELSE NoLease]

\* Unary and Stream, their start: a caller without a pid is not asked about, nor
\* is its stream later.
Start(p) ==
  /\ rpc[p] \in {"closed", "refused"}
  /\ \/ /\ Resolved(p) /\ Check(p, "open", "asking")
        /\ Ticking(p, SweepEvery)
     \/ /\ ~Resolved(p) /\ rpc' = [rpc EXCEPT ![p] = "open"]
        /\ Ticking(p, NoLease) /\ UNCHANGED <<active, reply, age>>
  /\ UNCHANGED <<core, known>>

\* The ticker of an open stream fires.
Sweep(s) ==
  /\ rpc[s] = "open" /\ sweep[s] = 0
  /\ Check(s, "open", "sweeping")
  /\ sweep' = [sweep EXCEPT ![s] = SweepEvery]
  /\ UNCHANGED <<core, known>>

\* mutant: nx-baas out of reach counts as a ban
RefusesOnFailure(answer) == answer # "active"

Refuses(answer) == answer = "banned"

\* The second section: the answer is kept or forgotten, and the RPC is served or
\* refused; a failed request refuses nobody.
Finish(p) ==
  /\ Asking(p) /\ reply[p] \in {"active", "banned", "failed"}
  /\ active' = CASE reply[p] = "active" -> ActiveTTL
                 [] reply[p] = "banned" -> NoLease
                 [] reply[p] = "failed" -> active
  /\ rpc' = [rpc EXCEPT ![p] = IF Refuses(reply[p]) THEN "refused" ELSE "open"]
  /\ reply' = [reply EXCEPT ![p] = "none"]
  /\ Ticking(p, IF rpc[p] = "asking" \/ p \notin Streams THEN SweepEvery ELSE sweep[p])
  /\ UNCHANGED <<core, known, age>>

\* The handler of an RPC returns, or the console goes away.
Close(p) ==
  /\ rpc[p] = "open"
  /\ rpc' = [rpc EXCEPT ![p] = "closed"]
  /\ Ticking(p, NoLease)
  /\ UNCHANGED <<core, gate, reply, age>>

\* Remember, when a token is issued: the account is active for the core, or for
\* one of the two caches.
Remember ==
  /\ ~banned \/ MayHold(active) \/ MayHold(baas)
  /\ known' = TRUE
  /\ UNCHANGED <<core, active, rpc, reply, age, sweep>>

\* The process starts again: nothing of the gate is kept, every RPC is gone.
Restart ==
  /\ active' = NoLease /\ known' = FALSE
  /\ rpc' = [p \in Rpcs |-> "closed"]
  /\ reply' = [p \in Rpcs |-> "none"] /\ age' = [p \in Rpcs |-> 0]
  /\ sweep' = [s \in Streams |-> NoLease]
  /\ UNCHANGED core

-----------------------------------------------------------------------------
\* Time passes, but not past a ticker that is due or a request that times out.
\* A unary call takes no time once it is served.
Tick ==
  /\ \A s \in Streams : rpc[s] = "open" => sweep[s] # 0
  /\ \A c \in Calls : rpc[c] # "open"
  /\ \A p \in Rpcs : reply[p] # "none" => age[p] < Timeout
  /\ since' = IF since = Later THEN Later ELSE since + 1
  /\ lifted' = IF lifted > Timeout THEN lifted ELSE lifted + 1
  /\ baas' = Step(baas) /\ active' = Step(active)
  /\ age' = [p \in Rpcs |-> IF reply[p] # "none" THEN age[p] + 1 ELSE 0]
  /\ sweep' = [s \in Streams |-> Step(sweep[s])]
  /\ UNCHANGED <<banned, turns, known, rpc, reply>>

Next ==
  \/ Turn \/ Remember \/ Restart \/ Tick
  \/ \E p \in Rpcs : Start(p) \/ Answer(p) \/ Fail(p) \/ Finish(p) \/ Close(p)
  \/ \E s \in Streams : Sweep(s)

Spec == Init /\ [][Next]_vars

-----------------------------------------------------------------------------
TypeOK ==
  /\ banned \in BOOLEAN /\ known \in BOOLEAN
  /\ since \in 0 .. Later /\ turns \in 0 .. MaxTurns
  /\ baas \in NoLease .. BaasTTL /\ active \in NoLease .. ActiveTTL
  /\ lifted \in 0 .. Timeout + 1
  /\ rpc \in [Rpcs -> {"closed", "refused", "asking", "open", "sweeping"}]
  /\ \A p \in Rpcs : (reply[p] # "none") = Asking(p)
  /\ reply \in [Rpcs -> {"none", "sent", "active", "banned", "failed"}]
  /\ age \in [Rpcs -> 0 .. Timeout]
  /\ sweep \in [Streams -> NoLease .. SweepEvery]
  /\ \A s \in Streams : rpc[s] \notin Ongoing => sweep[s] = NoLease

\* The gate as a whole (bans.go): once an account was banned for Limit, and
\* nx-baas answered every request meanwhile, none of its RPCs is served and no
\* answer is left that would let one in.  Streams whose pid was unknown when they
\* opened are not checked and are excepted.
BanBites ==
  banned /\ since > Limit =>
    /\ active = NoLease
    /\ \A c \in Calls \cap Named : rpc[c] # "open"
    /\ \A s \in Streams : rpc[s] \in Ongoing => sweep[s] = NoLease

\* "banned is never cached" and an outage keeps the player: an RPC is refused
\* only while the account is banned, or by an answer on its way when the ban ended.
RefusedOnlyWhenBanned ==
  [][\A p \in Rpcs : rpc[p] # "refused" /\ rpc'[p] = "refused" => banned \/ lifted <= Timeout]_vars

\* "a ban ends a live session within a minute" (bans.go): one minute after it no
\* stream of a known player is open, nx-baas having answered every request.  The
\* code does NOT have this: the bound is 100 s, as in BanBites (see the README).
Minute == 2 * SweepEvery
EndsWithinMinute ==
  banned /\ since > Minute => \A s \in Streams : rpc[s] \in Ongoing => sweep[s] = NoLease
=============================================================================
