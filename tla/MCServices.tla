------------------------------ MODULE MCServices ------------------------------
(* The services that share no state with each other: user-generated documents,*)
(* hydro, rewards, federation.  A behaviour here is one of them, chosen at    *)
(* the start; only the one of rewards is fair.                                *)
EXTENDS Federation, TLC

CONSTANTS Players, Paths, UserOf, Nobody, UgcMaxOps, UgcMaxPerOwner, NoStore, MaxFailures    \* UGCStore
CONSTANTS Names, Watchers, Targets, MaxPerOwner, WatchCap, Failures, MaxVersion     \* Hydro
CONSTANTS Sessions, NoPair, MinLooks, MaxRestarts                                   \* Rewards
CONSTANTS a, b, a1, s1, h, r1, r2, r3, r4, n1, n2, n3, c1, c2

VARIABLES
  part,
  docs, aliases, dsn, pg, stored, failures,
  contents, rev, rows, late, used, version, read, channel,
  members, ended, known, since, emitted, counted, todo, marking, marked, forgetting, restarts, events, looks

Ugc == INSTANCE UGCStore
Hyd == INSTANCE Hydro
Rew == INSTANCE Rewards

MCUserOf          == a1 :> a @@ s1 :> Nobody
MCTargets         == [w \in Watchers |-> Names]
MCOrder           == <<h, r1, r2, r3, r4>>
MCFallback        == r1 :> <<r2, r3>> @@ r2 :> <<r4>> @@ r3 :> <<h>> @@ r4 :> <<r2>> @@ h :> <<>>
MCRegionOfCountry == c1 :> r1 @@ c2 :> r2 @@ NoCountry :> NoRegion
MCCountryRoutes   == c2 :> <<r2, r3>>
MCNamed           == "east" :> {r1, r2} @@ "west" :> {h, r4}
MCNodes           == <<n1, n2, n3>>
MCNodeRegion      == n1 :> r3 @@ n2 :> r4 @@ n3 :> r4
MCServes          == [n \in {n1, n2, n3} |-> {"turn", "stun"}]
MCCountryOf       == [u \in Hosts |-> c1]
MCKey             == [r \in Rooms |-> 1]

ASSUME ServicesAssumption ==
  Ugc!UGCStoreAssumption /\ Hyd!HydroAssumption /\ Rew!RewardsAssumption

hydroVars      == <<contents, rev, rows, late, used, version, read, channel>>
rewardsVars    == <<members, ended, known, since, emitted, counted, todo, marking, marked, forgetting,
                    restarts, events, looks>>
ugcVars        == <<docs, aliases, dsn, pg, stored, failures>>

MCInit ==
  /\ part \in {"ugc", "hydro", "rewards", "federation"}
  /\ Init /\ Ugc!Init /\ Hyd!Init /\ Rew!Init
  /\ IF part = "federation" THEN n3 \in nodes /\ n2 \in nodes ELSE nodes = {} /\ testers = {}

MCNext ==
  /\ \/ part = "ugc"        /\ Ugc!Next /\ UNCHANGED <<vars, hydroVars, rewardsVars>>
     \/ part = "hydro"      /\ Hyd!Next /\ UNCHANGED <<vars, ugcVars, rewardsVars>>
     \/ part = "rewards"    /\ Rew!Next /\ UNCHANGED <<vars, ugcVars, hydroVars>>
     \/ part = "federation" /\ Next     /\ UNCHANGED <<ugcVars, hydroVars, rewardsVars>>
  /\ UNCHANGED part

MCSpec == MCInit /\ [][MCNext]_<<part, vars, ugcVars, hydroVars, rewardsVars>> /\ Rew!Fairness

\* The type invariants of the four modules.
TypesOK == TypeOK /\ Ugc!TypeOK /\ Hyd!TypeOK /\ Rew!TypeOK

\* See UGCStore.
CommitsImplemented == Ugc!CommitsImplemented

\* See Hydro.
EtagGuards == Hyd!EtagGuards

\* See Hydro; the code does NOT have this.
ChangeTold == Hyd!ChangeTold

\* See Rewards.
ReportedOnce   == Rew!ReportedOnce
\* See Rewards.
ReportEarned   == Rew!ReportEarned
\* See Rewards.
SharedReported == Rew!SharedReported
=============================================================================
