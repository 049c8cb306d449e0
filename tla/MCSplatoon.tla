------------------------------ MODULE MCSplatoon ------------------------------
(* Two players, one of them erased.  The stores meet only in the eraser and   *)
(* the restart; the lobby, the referee and the rotation meet nothing: a       *)
(* behaviour here is calls to one of them, whichever it is.                   *)
EXTENDS SplatStores, Integers, TLC

CONSTANTS LobbyNames, Listeners, TokenOf, Calls, QueueCap, LastMs, MaxSeq   \* Lobby
CONSTANTS Consoles, Me                                                      \* Referee
CONSTANTS VsPeriod, CoopPeriod, SeasonPeriod, Day, GenerateHours, RefreshAhead,
          MinAhead, OperatorFiles, Missing, Unreadable, Down, Epoch, MaxTime,
          MaxEdits                                                          \* Rotation
CONSTANTS a, b, a1, b1, c1, l1, l2

VARIABLES
  part,
  cursor, calls, stream, queue, seen,
  verdict, wrote, expects, pushes, reader, last, out, overtaken, told,
  now, disk, current, checked, refused, edits

Lob == INSTANCE Lobby
Ref == INSTANCE Referee
Rot == INSTANCE Rotation

MCUserOf       == a1 :> a @@ b1 :> b @@ c1 :> NoUser
MCAttributesOf == a :> a1 @@ b :> b1
\* By hand: a whole file, one whose shifts end before its versus windows do, one with
\* versus windows that overlap, and one without any.
MCFile(vs, coop, n) ==
  [vs |-> vs, coop |-> <<coop>>, season |-> <<[start |-> 0, end |-> 80]>>,
   league |-> <<[start |-> 0, end |-> 80]>>, seed |-> -n]
MCOperatorFiles ==
  LET versus == <<[start |-> 30, end |-> 35], [start |-> 35, end |-> 40]>>
      long   == [start |-> 28, end |-> 48]
  IN {MCFile(versus, long, 1), MCFile(versus, [start |-> 28, end |-> 34], 2),
      MCFile(<<[start |-> 30, end |-> 36], versus[2]>>, long, 3), MCFile(<<>>, long, 4)}
MCTokenOf      == l1 :> a @@ l2 :> b

ASSUME LobbyAssumption    == Lob!LobbyAssumption
ASSUME RefereeAssumption  == Ref!RefereeAssumption
ASSUME RotationAssumption == Rot!RotationAssumption

lobbyVars    == <<cursor, calls, stream, queue, seen>>
refereeVars  == <<verdict, wrote, expects, pushes, reader, last, out, overtaken, told>>
rotationVars == <<now, disk, current, checked, refused, edits>>

\* Files from before the move to Postgres are there for the store that is called.
MCInit ==
  /\ Init /\ Lob!Init /\ Ref!Init /\ Rot!Init
  /\ part \in {"saves", "fests", "docs", "lobby", "referee", "rotation"}
  /\ part # "saves" => \A u \in Players : file[u] = NoSave
  /\ part # "fests" => entriesFile = NoFile
  /\ part \in {"lobby", "referee", "rotation"} => ~pg
  /\ part # "rotation" => disk = Missing

Stores ==
  \/ part = "saves" /\ \E u \in Players : SaveCall(u)
  \/ part = "fests" /\ (Refresh \/ \E u \in Players : FestCall(u))
  \/ part = "docs" /\ \E u \in Players : DocsCall(u)
  \/ part \in {"saves", "fests", "docs"} /\ (EraseBegins \/ EraseSave \/ EraseEntry \/ EraseDocs \/ Restart)

MCNext ==
  /\ \/ Stores /\ UNCHANGED <<lobbyVars, refereeVars, rotationVars>>
     \/ part = "lobby" /\ Lob!Next /\ UNCHANGED <<vars, refereeVars, rotationVars>>
     \/ part = "referee" /\ Ref!Next /\ UNCHANGED <<vars, lobbyVars, rotationVars>>
     \/ part = "rotation" /\ Rot!Next /\ UNCHANGED <<vars, lobbyVars, refereeVars>>
  /\ UNCHANGED part

MCSpec == MCInit /\ [][MCNext]_<<part, vars, lobbyVars, refereeVars, rotationVars>> /\ Lob!Fairness /\ Ref!Fairness

\* The type invariants of the stores, the lobby, the referee and the rotation.
TypesOK == TypeOK /\ Lob!TypeOK /\ Ref!TypeOK /\ Rot!TypeOK

\* See Lobby.
SameOrder    == Lob!SameOrder
\* See Lobby.
LoginReturns == Lob!LoginReturns
\* See Lobby.
CursorsClimb == Lob!CursorsClimb
\* See Referee.
BattleStarts == Ref!BattleStarts
\* See Referee; the code does NOT have this.
BattleAlwaysStarts == Ref!BattleAlwaysStarts
\* See Rotation.
ServesPresent == Rot!ServesPresent
\* See Rotation; the code does NOT have this.
SetIDChanges == Rot!SetIDChanges
=============================================================================
