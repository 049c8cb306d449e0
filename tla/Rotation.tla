------------------------------- MODULE Rotation -------------------------------
(***************************************************************************)
(* Splatoon 3's stage rotation (rotation/rotation.go, generate.go, the     *)
(* keeper of title.go, schedule.go).  A file holds the windows of four     *)
(* kinds of schedule; the keeper looks at it every hour, renews it before  *)
(* it runs out and swaps what the Schedule service answers from.  The      *)
(* operator may put another file in its place at any time, the process may *)
(* stop for long, and the file may be impossible to write.                 *)
(*                                                                         *)
(* A unit of time is an hour.  Stages and rules are one number, the        *)
(* `seed`; a file with entries that lack something is as one with windows  *)
(* out of order: Validate refuses both.                                    *)
(***************************************************************************)
EXTENDS Integers, Sequences

CONSTANTS
  VsPeriod, CoopPeriod, SeasonPeriod, Day,
  GenerateHours,   \* how far a generated file reaches: 30 days
  RefreshAhead,    \* it is renewed when it ends within this: 7 days
  MinAhead,        \* no file that ends within this is served: 2 hours
  OperatorFiles,   \* files made by hand
  Missing, Unreadable, Down,
  Epoch,           \* the clock starts here
  MaxTime,         \* bound on the clock
  MaxEdits         \* bound on the operator's edits

Kinds  == {"vs", "coop", "season", "league"}
Window == [start : Int, end : Int]

\* The keeper looks every hour; a generated file is whole versus windows and reaches
\* past the renewal, its season past the rest (checked in MCSplatoon).
RotationAssumption ==
  /\ {VsPeriod, CoopPeriod, SeasonPeriod, Day, GenerateHours, RefreshAhead, MinAhead} \subseteq Nat \ {0}
  /\ 2 <= MinAhead /\ MinAhead <= RefreshAhead /\ VsPeriod + RefreshAhead <= GenerateHours
  /\ GenerateHours % VsPeriod = 0
  /\ GenerateHours + VsPeriod + Day <= SeasonPeriod \div 2
  /\ Epoch \in Nat /\ SeasonPeriod <= Epoch /\ MaxTime \in Nat /\ Epoch <= MaxTime /\ MaxEdits \in Nat
  /\ \A f \in OperatorFiles : f.seed < 0 /\ \A k \in Kinds : f[k] \in Seq(Window)

VARIABLES
  now,
  disk,      \* the file, Missing or Unreadable
  current,   \* what is served, Down when the process is
  checked,   \* the keeper has looked in this hour
  refused,   \* its last look was at a file of the operator's that it cannot serve
  edits
vars == <<now, disk, current, checked, refused, edits>>

Init ==
  /\ now = Epoch /\ disk \in OperatorFiles \union {Missing, Unreadable}
  /\ current = Down /\ checked = FALSE /\ refused = FALSE /\ edits = 0

-----------------------------------------------------------------------------
(* Files                                                                   *)

Truncate(t, period) == (t \div period) * period
Periods(hours, period) == (hours + period - 1) \div period

Grid(start, period, n) ==
  [i \in 1 .. n |-> [start |-> start + (i - 1) * period, end |-> start + i * period]]

Generate(at) ==
  LET start  == Truncate(at, VsPeriod)
      season == Truncate(at - SeasonPeriod \div 2, Day)
  IN [vs     |-> Grid(start, VsPeriod, Periods(GenerateHours, VsPeriod)),
      coop   |-> Grid(Truncate(at, CoopPeriod), CoopPeriod, Periods(GenerateHours + CoopPeriod, CoopPeriod)),
      season |-> Grid(season, SeasonPeriod, 1),
      league |-> Grid(start, GenerateHours, 1),
      seed   |-> at]

VsEnd(f) == IF f.vs = <<>> THEN 0 ELSE f.vs[Len(f.vs)].end

\* checkWindows, and Covers is covers.
InOrder(ws) ==
  \A i \in DOMAIN ws : ws[i].start < ws[i].end /\ (i > 1 => ws[i - 1].end <= ws[i].start)
Contains(w, at) == w.start <= at /\ at < w.end
Covers(ws, at)  == \E i \in DOMAIN ws : Contains(ws[i], at)

\* Validate.
Valid(f, at) ==
  /\ \A k \in Kinds : f[k] # <<>> /\ InOrder(f[k]) /\ Covers(f[k], at)
  /\ VsEnd(f) - at >= MinAhead

-----------------------------------------------------------------------------
(* The keeper                                                              *)

\* mutant: a file is renewed when it is over
StaleWhenOver(f) == VsEnd(f) <= now

Stale(f) == VsEnd(f) - now < RefreshAhead

\* Keep and keepRotation.  A file that cannot be written is served from memory.
Keep ==
  \/ /\ disk # Unreadable /\ (disk # Missing => Stale(disk))
     /\ LET f == Generate(now) IN
        IF Valid(f, now) THEN current' = f /\ disk' \in {f, disk} ELSE UNCHANGED <<current, disk>>
     /\ refused' = FALSE
  \/ /\ disk # Missing /\ (disk # Unreadable => ~Stale(disk))
     /\ IF disk # Unreadable /\ Valid(disk, now)
        THEN current' = disk /\ refused' = FALSE
        ELSE current' = current /\ refused' = (disk \in OperatorFiles \union {Unreadable})
     /\ UNCHANGED disk

\* run; a process that finds no rotation it can serve does not start.
Start == current = Down /\ Keep /\ checked' = (current' # Down) /\ UNCHANGED <<now, edits>>

Check == current # Down /\ ~checked /\ Keep /\ checked' = TRUE /\ UNCHANGED <<now, edits>>

Stop ==
  /\ current # Down
  /\ current' = Down /\ checked' = FALSE /\ refused' = FALSE
  /\ UNCHANGED <<now, disk, edits>>

\* While the process runs, its ticker fires in every hour.
Hour ==
  /\ now < MaxTime /\ (current # Down => checked)
  /\ now' = now + 1 /\ checked' = FALSE
  /\ UNCHANGED <<disk, current, refused, edits>>

\* External: the operator's hand.
Edit ==
  /\ edits < MaxEdits
  /\ disk' \in OperatorFiles \union {Missing, Unreadable}
  /\ edits' = edits + 1
  /\ UNCHANGED <<now, current, checked, refused>>

Next == Start \/ Check \/ Stop \/ Hour \/ Edit
Spec == Init /\ [][Next]_vars

-----------------------------------------------------------------------------
(* The Schedule service                                                    *)

Entries(ws)             == {ws[i] : i \in DOMAIN ws}
Select(ws, from, to)    == {w \in Entries(ws) : w.start < to /\ w.end > from}

\* A console asks with the present time and for the default span.
SelectVs     == Select(current.vs, now - VsPeriod, now + Day)
SelectCoop   == Select(current.coop, now, now + 3 * Day)
SelectSeason == Select(current.season, now, now + Day)
ParamsTime   == IF Covers(current.vs, now)
                THEN (CHOOSE w \in Entries(current.vs) : Contains(w, now)).start
                ELSE now
SetID == current.vs[1].start

-----------------------------------------------------------------------------
(* Properties                                                              *)

TypeOK ==
  /\ now \in Epoch .. MaxTime /\ edits \in 0 .. MaxEdits
  /\ checked \in BOOLEAN /\ refused \in BOOLEAN
  /\ disk \in OperatorFiles \union {Missing, Unreadable} \union {Generate(t) : t \in Epoch .. now}
  /\ current \in OperatorFiles \union {Down} \union {Generate(t) : t \in Epoch .. now}

\* Every kind without gaps, and none that ends before the versus windows.
Whole(f) ==
  \A k \in Kinds :
    /\ \A i \in 2 .. Len(f[k]) : f[k][i].start = f[k][i - 1].end
    /\ f[k][Len(f[k])].end >= VsEnd(f)

\* "A running server never serves a rotation that runs out" (Keep), and all
\* kinds describe one present (schedule.go): every answer has a window that is
\* on now, and the parameters carry the time of the versus window in the same
\* answer.  Not promised: while the file is one of the operator's that is refused
\* (what was served before stays), or serves but has gaps or kinds that end early.
ServesPresent ==
  current # Down /\ ~refused /\ (current \in OperatorFiles => Whole(current)) =>
    /\ \A shown \in {SelectVs, SelectCoop, SelectSeason} : \E w \in shown : Contains(w, now)
    /\ \E w \in SelectVs : w.start = ParamsTime /\ Contains(w, now)

\* "It is the same for every kind in one file ... and changes when it is
\* renewed" (SetID).  The code does NOT have this: a file that cannot be written
\* is made anew every hour, and two of one versus window have one id (see the README).
SetIDChanges ==
  [][current # Down /\ current' \notin {Down, current} => SetID' # SetID]_vars
=============================================================================
