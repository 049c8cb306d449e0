--------------------------- MODULE BanGateProofs ---------------------------
(***************************************************************************)
(* BanBites and RefusedOnlyWhenBanned for every set of RPCs, all four      *)
(* times and any number of bans.  Both rest on a budget of time: each      *)
(* answer that still lets the account in bounds how long ago the ban was.  *)
(***************************************************************************)
EXTENDS BanGate, TLAPS

\* The budgets: how long after a ban an "active" answer leaves nx-baas, how long
\* after it one reaches the gate, until when the gate trusts it, and until when
\* a stream let in by it waits for its check.
Answered == BaasTTL
Received == Answered + Timeout
Trusted  == Received + ActiveTTL
Checked  == Trusted + SweepEvery

\* An "active" answer nx-baas keeps for baas more units is that much younger
\* than its TTL, and was given before the ban.
BaasRunsOut == banned /\ baas # NoLease => since + baas <= Answered

\* The same of the answer the gate keeps.
ActiveRunsOut == banned /\ active # NoLease => since + active <= Trusted

\* An answer on its way is no older than its request; a request that failed
\* stopped the count of since.
AnswersOnTheWay == \A p \in Rpcs :
  /\ banned /\ reply[p] = "active" => since <= Answered + age[p]
  /\ reply[p] = "failed" => since <= age[p]
  /\ reply[p] = "banned" => banned \/ lifted <= age[p]

\* A call of the account is open only in the unit it was let in.
CallsPass == \A c \in Calls \cap Named : banned /\ rpc[c] = "open" => since <= Trusted

\* An open stream that is checked at all is checked within the budget, and one
\* being checked counts down to its next check meanwhile.
StreamsAreChecked == \A s \in Streams :
  /\ banned /\ rpc[s] = "open" /\ sweep[s] # NoLease => since + sweep[s] <= Checked
  /\ rpc[s] = "sweeping" => sweep[s] = SweepEvery - age[s]
  /\ banned /\ rpc[s] = "sweeping" => since <= Checked + age[s]

IInv ==
  /\ TypeOK
  /\ BaasRunsOut
  /\ ActiveRunsOut
  /\ AnswersOnTheWay
  /\ CallsPass
  /\ StreamsAreChecked

-----------------------------------------------------------------------------
USE GateAssumption DEF NoLease, Limit, Later, Received, Answered, Trusted, Checked

\* The times are numbers and a request is shorter than the wait for a sweep.
LEMMA Times ==
  /\ ActiveTTL \in Nat /\ SweepEvery \in Nat /\ Timeout \in Nat
  /\ BaasTTL \in Nat /\ MaxTurns \in Nat
  /\ Timeout < SweepEvery
  OBVIOUS

\* Nothing is asked and nothing is trusted at the start.
LEMMA InitStep == ASSUME Init PROVE IInv
  <1> USE Times DEF Init
  <1>1. TypeOK
    <2>1. \A p \in Rpcs : (reply[p] # "none") = Asking(p)
      BY DEF Asking
    <2>2. \A s \in Streams : sweep[s] = NoLease
      OBVIOUS
    <2>3. rpc \in [Rpcs -> {"closed", "refused", "asking", "open", "sweeping"}]
      OBVIOUS
    <2>4. reply \in [Rpcs -> {"none", "sent", "active", "banned", "failed"}]
      OBVIOUS
    <2>5. age \in [Rpcs -> 0 .. Timeout]
      OBVIOUS
    <2>6. sweep \in [Streams -> NoLease .. SweepEvery]
      OBVIOUS
    <2>7. since \in 0 .. Later /\ turns \in 0 .. MaxTurns /\ lifted \in 0 .. Timeout + 1
      OBVIOUS
    <2>8. baas \in NoLease .. BaasTTL /\ active \in NoLease .. ActiveTTL
      OBVIOUS
    <2> QED  BY <2>1, <2>2, <2>3, <2>4, <2>5, <2>6, <2>7, <2>8 DEF TypeOK
  <1>2. BaasRunsOut /\ ActiveRunsOut  BY DEF BaasRunsOut, ActiveRunsOut
  <1>3. AnswersOnTheWay  BY DEF AnswersOnTheWay
  <1>4. CallsPass  BY DEF CallsPass, Rpcs
  <1>5. StreamsAreChecked  BY DEF StreamsAreChecked, Rpcs
  <1> QED  BY <1>1, <1>2, <1>3, <1>4, <1>5 DEF IInv

\* A ban starts every budget anew; the end of one is remembered by lifted.
LEMMA TurnStep == ASSUME IInv, Turn PROVE IInv'
  <1> USE Times DEF IInv, Turn, gate
  <1>1. TypeOK'  BY DEF TypeOK, Asking
  <1>2. BaasRunsOut' /\ ActiveRunsOut'  BY DEF BaasRunsOut, ActiveRunsOut, TypeOK
  <1>3. AnswersOnTheWay'  BY DEF AnswersOnTheWay, TypeOK
  <1>4. CallsPass'  BY DEF CallsPass
  <1>5. StreamsAreChecked'  BY DEF StreamsAreChecked, TypeOK, Rpcs
  <1> QED  BY <1>1, <1>2, <1>3, <1>4, <1>5 DEF IInv

\* nx-baas answers: from its cache, within its own budget, or from the core.
LEMMA AnswerStep == ASSUME IInv, NEW p \in Rpcs, Answer(p) PROVE IInv'
  <1> USE Times DEF IInv, Answer, gate, MayHold, MayRunOut
  <1>1. TypeOK'  BY DEF TypeOK, Asking
  <1>2. BaasRunsOut' /\ ActiveRunsOut'  BY DEF BaasRunsOut, ActiveRunsOut, TypeOK
  <1>3. AnswersOnTheWay'  BY DEF AnswersOnTheWay, BaasRunsOut, TypeOK
  <1>4. CallsPass'  BY DEF CallsPass
  <1>5. StreamsAreChecked'  BY DEF StreamsAreChecked
  <1> QED  BY <1>1, <1>2, <1>3, <1>4, <1>5 DEF IInv

\* A request that fails starts every budget anew.
LEMMA FailStep == ASSUME IInv, NEW p \in Rpcs, Fail(p) PROVE IInv'
  <1> USE Times DEF IInv, Fail, gate
  <1>1. TypeOK'  BY DEF TypeOK, Asking
  <1>2. BaasRunsOut' /\ ActiveRunsOut'  BY DEF BaasRunsOut, ActiveRunsOut, TypeOK
  <1>3. AnswersOnTheWay'  BY DEF AnswersOnTheWay, TypeOK
  <1>4. CallsPass'  BY DEF CallsPass
  <1>5. StreamsAreChecked'  BY DEF StreamsAreChecked, TypeOK, Rpcs
  <1> QED  BY <1>1, <1>2, <1>3, <1>4, <1>5 DEF IInv

\* An RPC starts: a cached answer lets it in within the budget of that answer, or
\* nx-baas is asked, or its player is not known.
LEMMA StartStep == ASSUME IInv, NEW p \in Rpcs, Start(p) PROVE IInv'
  <1> USE Times DEF IInv, Start, core, Check, Ticking, MayHold, MayRunOut
  <1>1. TypeOK'  BY DEF TypeOK, Asking, Ongoing, Rpcs
  <1>2. BaasRunsOut' /\ ActiveRunsOut'  BY DEF BaasRunsOut, ActiveRunsOut
  <1>3. AnswersOnTheWay'  BY DEF AnswersOnTheWay, TypeOK
  <1>4. CallsPass'  BY DEF CallsPass, ActiveRunsOut, Resolved, TypeOK
  <1>5. StreamsAreChecked'  BY DEF StreamsAreChecked, ActiveRunsOut, TypeOK, Rpcs
  <1> QED  BY <1>1, <1>2, <1>3, <1>4, <1>5 DEF IInv

\* The ticker of a stream fires: the cached answer carries it another period, or
\* nx-baas is asked.
LEMMA SweepStep == ASSUME IInv, NEW s \in Streams, Sweep(s) PROVE IInv'
  <1> USE Times DEF IInv, Sweep, core, Check, MayHold, MayRunOut
  <1>1. TypeOK'  BY DEF TypeOK, Asking, Ongoing, Rpcs
  <1>2. BaasRunsOut' /\ ActiveRunsOut'  BY DEF BaasRunsOut, ActiveRunsOut
  <1>3. AnswersOnTheWay'  BY DEF AnswersOnTheWay, TypeOK, Rpcs
  <1>4. CallsPass'  BY DEF CallsPass, TypeOK, Rpcs
  <1>5. StreamsAreChecked'  BY DEF StreamsAreChecked, ActiveRunsOut, TypeOK, Rpcs
  <1> QED  BY <1>1, <1>2, <1>3, <1>4, <1>5 DEF IInv

\* The answer is there: "active" is trusted within the budget of its way here,
\* "banned" ends the RPC, a failure lets it in, younger than its request.
LEMMA FinishStep == ASSUME IInv, NEW p \in Rpcs, Finish(p) PROVE IInv'
  <1> USE Times DEF IInv, Finish, core, Ticking, Refuses, Asking
  <1>1. TypeOK'  BY DEF TypeOK, Ongoing, Rpcs
  <1>2. BaasRunsOut' /\ ActiveRunsOut'
    BY DEF BaasRunsOut, ActiveRunsOut, AnswersOnTheWay, TypeOK
  <1>3. AnswersOnTheWay'  BY DEF AnswersOnTheWay, TypeOK
  <1>4. CallsPass'  BY DEF CallsPass, AnswersOnTheWay, TypeOK, Rpcs
  <1>5. StreamsAreChecked'  BY DEF StreamsAreChecked, AnswersOnTheWay, TypeOK, Rpcs
  <1> QED  BY <1>1, <1>2, <1>3, <1>4, <1>5 DEF IInv

\* An RPC ends.
LEMMA CloseStep == ASSUME IInv, NEW p \in Rpcs, Close(p) PROVE IInv'
  <1> USE Times DEF IInv, Close, core, gate, Ticking
  <1>1. TypeOK'  BY DEF TypeOK, Asking, Ongoing, Rpcs
  <1>2. BaasRunsOut' /\ ActiveRunsOut'  BY DEF BaasRunsOut, ActiveRunsOut
  <1>3. AnswersOnTheWay'  BY DEF AnswersOnTheWay
  <1>4. CallsPass'  BY DEF CallsPass, TypeOK, Rpcs
  <1>5. StreamsAreChecked'  BY DEF StreamsAreChecked, TypeOK, Rpcs
  <1> QED  BY <1>1, <1>2, <1>3, <1>4, <1>5 DEF IInv

\* A token is issued.
LEMMA RememberStep == ASSUME IInv, Remember PROVE IInv'
  <1> USE DEF IInv, Remember, core
  <1>1. TypeOK'  BY DEF TypeOK, Asking
  <1> QED  BY <1>1 DEF BaasRunsOut, ActiveRunsOut, AnswersOnTheWay, CallsPass, StreamsAreChecked

\* The process starts again and trusts nothing.
LEMMA RestartStep == ASSUME IInv, Restart PROVE IInv'
  <1> USE Times DEF IInv, Restart, core
  <1>1. TypeOK'
    <2>1. \A p \in Rpcs : (reply'[p] # "none") = Asking(p)'
      BY DEF Asking
    <2>2. \A s \in Streams : sweep'[s] = NoLease
      OBVIOUS
    <2>3. rpc' \in [Rpcs -> {"closed", "refused", "asking", "open", "sweeping"}]
      OBVIOUS
    <2>4. reply' \in [Rpcs -> {"none", "sent", "active", "banned", "failed"}]
      OBVIOUS
    <2>5. age' \in [Rpcs -> 0 .. Timeout]
      OBVIOUS
    <2>6. sweep' \in [Streams -> NoLease .. SweepEvery]
      OBVIOUS
    <2>7. since' \in 0 .. Later /\ turns' \in 0 .. MaxTurns /\ lifted' \in 0 .. Timeout + 1
      BY DEF TypeOK
    <2>8. baas' \in NoLease .. BaasTTL /\ active' \in NoLease .. ActiveTTL
      BY DEF TypeOK
    <2> QED  BY <2>1, <2>2, <2>3, <2>4, <2>5, <2>6, <2>7, <2>8 DEF TypeOK
  <1>2. BaasRunsOut' /\ ActiveRunsOut'  BY DEF BaasRunsOut, ActiveRunsOut
  <1>3. AnswersOnTheWay'  BY DEF AnswersOnTheWay
  <1>4. CallsPass'  BY DEF CallsPass, Rpcs
  <1>5. StreamsAreChecked'  BY DEF StreamsAreChecked, Rpcs
  <1> QED  BY <1>1, <1>2, <1>3, <1>4, <1>5 DEF IInv

\* A unit passes: every budget shrinks as the ban ages, and no call, due sweep or
\* overdue request is open while it does.
LEMMA TickStep == ASSUME IInv, Tick PROVE IInv'
  <1> USE Times DEF IInv, Tick, Step
  <1>1. TypeOK'  BY DEF TypeOK, Asking, Ongoing, Rpcs
  <1>2. BaasRunsOut' /\ ActiveRunsOut'  BY DEF BaasRunsOut, ActiveRunsOut, TypeOK
  <1>3. AnswersOnTheWay'  BY DEF AnswersOnTheWay, TypeOK
  <1>4. CallsPass'  BY DEF CallsPass
  <1>5. StreamsAreChecked'  BY DEF StreamsAreChecked, TypeOK, Rpcs, Asking, Ongoing
  <1> QED  BY <1>1, <1>2, <1>3, <1>4, <1>5 DEF IInv

\* The budgets hold in every state the gate reaches.
THEOREM Invariance == Spec => []IInv
  <1>1. Init => IInv
    BY InitStep
  <1>2. IInv /\ [Next]_vars => IInv'
    <2> SUFFICES ASSUME IInv, [Next]_vars  PROVE IInv'
      OBVIOUS
    <2>1. CASE UNCHANGED vars
      BY <2>1 DEF vars, core, gate, IInv, TypeOK, BaasRunsOut, ActiveRunsOut, AnswersOnTheWay,
                  CallsPass, StreamsAreChecked, Asking
    <2>2. CASE Next
      BY <2>2, TurnStep, RememberStep, RestartStep, TickStep, StartStep, AnswerStep, FailStep,
         FinishStep, CloseStep, SweepStep DEF Next
    <2> QED  BY <2>1, <2>2
  <1> QED  BY <1>1, <1>2, PTL DEF Spec

\* Every value stays within its type, a request is under way exactly while an
\* RPC asks, and only a stream that is served has a ticker.
THEOREM TypeCorrect == Spec => []TypeOK
  <1>1. IInv => TypeOK  BY DEF IInv
  <1> QED  BY <1>1, Invariance, PTL

\* A ban bites (bans.go): Limit after it, nx-baas having answered meanwhile, no
\* cached answer is left, no call and no stream of a known player is served.
THEOREM BanEnforced == Spec => []BanBites
  <1>1. IInv => BanBites
    <2> SUFFICES ASSUME IInv, banned, since > Limit
                 PROVE  /\ active = NoLease
                        /\ \A c \in Calls \cap Named : rpc[c] # "open"
                        /\ \A s \in Streams : rpc[s] \in Ongoing => sweep[s] = NoLease
      BY DEF BanBites
    <2> USE Times DEF IInv, TypeOK
    <2>1. active = NoLease
      BY DEF ActiveRunsOut
    <2>2. \A c \in Calls \cap Named : rpc[c] # "open"
      BY DEF CallsPass
    <2>3. \A s \in Streams : rpc[s] \in Ongoing => sweep[s] = NoLease
      BY DEF StreamsAreChecked, Ongoing, Rpcs
    <2> QED  BY <2>1, <2>2, <2>3
  <1> QED  BY <1>1, Invariance, PTL

\* Nobody is refused for an outage, or for a ban that ended longer ago than a
\* request takes (bans.go: "banned" is never cached).
THEOREM RefusalsJustified == Spec => RefusedOnlyWhenBanned
  <1>1. IInv /\ [Next]_vars =>
          [\A p \in Rpcs : rpc[p] # "refused" /\ rpc'[p] = "refused"
             => banned \/ lifted <= Timeout]_vars
    <2> SUFFICES ASSUME IInv, Next, NEW p \in Rpcs, rpc[p] # "refused", rpc'[p] = "refused"
                 PROVE  banned \/ lifted <= Timeout
      OBVIOUS
    <2>1. reply[p] = "banned"
      <3> USE DEF IInv, TypeOK
      <3>1. ~Turn /\ ~Remember /\ ~Tick  BY DEF Turn, Remember, Tick
      <3>2. ~Restart  BY DEF Restart
      <3>3. \A q \in Rpcs : ~Start(q) /\ ~Answer(q) /\ ~Fail(q) /\ ~Close(q)
        BY DEF Start, Check, Answer, Fail, Close
      <3>4. \A s \in Streams : ~Sweep(s)  BY DEF Sweep, Check, Rpcs
      <3>5. PICK q \in Rpcs : Finish(q)  BY <3>1, <3>2, <3>3, <3>4 DEF Next
      <3> QED  BY <3>5 DEF Finish, Refuses
    <2>2. banned \/ lifted <= age[p]
      BY <2>1 DEF IInv, AnswersOnTheWay
    <2> QED  BY <2>2, Times DEF IInv, TypeOK
  <1> QED  BY <1>1, Invariance, PTL DEF Spec, RefusedOnlyWhenBanned
=============================================================================
