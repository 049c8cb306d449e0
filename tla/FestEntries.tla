----------------------------- MODULE FestEntries -----------------------------
(***************************************************************************)
(* The team choices of a Splatfest (festfile.go, fest.go): one map in      *)
(* memory, read at its first use, written whole to Postgres or to a file   *)
(* at every choice.  A call does all it does under one mutex.              *)
(*                                                                         *)
(* One fest.  `running' stands for the operator's file and the clock: the  *)
(* fest is defined and not closed, which either may change at any time.    *)
(***************************************************************************)
EXTENDS Naturals

CONSTANTS
  Players, Teams,
  NoTeam,     \* a player without an entry
  NoFile,     \* no row, no file
  Failures    \* what may fail: "get" (the read or the import), "put"

VARIABLES
  pg,         \* whether the entries are in Postgres (see CloudSave)
  running,    \* whether the fest takes entries
  loaded,     \* whether this process has read the entries
  ent,        \* player -> team, in memory
  entriesRow, entriesFile,   \* the map as stored
  answered    \* history: player -> the teams it was told it entered for

vars == <<running, loaded, ent, entriesRow, entriesFile, answered>>

Nobody  == [u \in Players |-> NoTeam]
Entries == [Players -> {NoTeam} \union Teams]

Init ==
  /\ running = FALSE /\ loaded = FALSE
  /\ ent = Nobody /\ entriesRow = NoFile
  /\ entriesFile \in {NoFile} \union {[Nobody EXCEPT ![u] = t] : u \in Players, t \in Teams}
  /\ answered = [u \in Players |->
       IF entriesFile = NoFile \/ entriesFile[u] = NoTeam THEN {} ELSE {entriesFile[u]}]

OrNobody(m) == IF m = NoFile THEN Nobody ELSE m

\* init, once in a process: the row, else the file, which becomes the row.
\* A read that fails leaves nobody entered, and is not tried again.
Opened ==
  LET row == IF pg /\ entriesRow = NoFile THEN entriesFile ELSE entriesRow IN
  IF loaded THEN {[ent |-> ent, row |-> entriesRow]}
  ELSE {[ent |-> OrNobody(IF pg THEN row ELSE entriesFile), row |-> row]}
       \union IF pg /\ "get" \in Failures THEN {[ent |-> Nobody, row |-> entriesRow]} ELSE {}

\* saveLocked: what is stored afterwards, and whether it says so.  A failed
\* write to Postgres may have been done; the file is renamed into place.
Saved(m, row) ==
  LET done == IF pg THEN [row |-> m, file |-> entriesFile, ok |-> TRUE]
                    ELSE [row |-> row, file |-> m, ok |-> TRUE]
      lost == [row |-> row, file |-> entriesFile, ok |-> FALSE] IN
  {done} \union IF "put" \in Failures
                THEN {lost} \union IF pg THEN {[done EXCEPT !.ok = FALSE]} ELSE {} ELSE {}

Store(s) == entriesRow' = s.row /\ entriesFile' = s.file

Tell(u, t) == answered' = [answered EXCEPT ![u] = @ \union {t}]

GetFestEntry(u) == \E o \in Opened :
  /\ loaded' = TRUE /\ ent' = o.ent /\ entriesRow' = o.row
  /\ IF o.ent[u] # NoTeam THEN Tell(u, o.ent[u]) ELSE UNCHANGED answered
  /\ UNCHANGED <<running, entriesFile>>

\* mutant: a choice that could not be stored stays in memory
CreateEntryUnsaved(u, t) == \E o \in Opened :
  /\ running /\ loaded' = TRUE
  /\ IF o.ent[u] # NoTeam
     THEN Tell(u, o.ent[u]) /\ ent' = o.ent /\ entriesRow' = o.row /\ UNCHANGED entriesFile
     ELSE \E s \in Saved([o.ent EXCEPT ![u] = t], o.row) :
            /\ Store(s) /\ ent' = [o.ent EXCEPT ![u] = t]
            /\ IF s.ok THEN Tell(u, t) ELSE UNCHANGED answered
  /\ UNCHANGED running

\* CreateFestEntry and enter: the first choice stays; one that could not be
\* stored is taken back.
CreateFestEntry(u, t) == \E o \in Opened :
  /\ running /\ loaded' = TRUE
  /\ IF o.ent[u] # NoTeam
     THEN Tell(u, o.ent[u]) /\ ent' = o.ent /\ entriesRow' = o.row /\ UNCHANGED entriesFile
     ELSE \E s \in Saved([o.ent EXCEPT ![u] = t], o.row) :
            /\ Store(s)
            /\ IF s.ok THEN Tell(u, t) /\ ent' = [o.ent EXCEPT ![u] = t]
                       ELSE UNCHANGED answered /\ ent' = o.ent
  /\ UNCHANGED running

CallsOf(u) == GetFestEntry(u) \/ \E t \in Teams : CreateFestEntry(u, t)

\* refresh: the operator's file came, went or changed, or the clock moved on.
Refresh == running' = ~running /\ UNCHANGED <<loaded, ent, entriesRow, entriesFile, answered>>

\* festStore.eraseUsers; ok is its answer.
EraseEntry(u, ok) == \E o \in Opened :
  /\ loaded' = TRUE /\ ent' = [o.ent EXCEPT ![u] = NoTeam]
  /\ IF o.ent[u] = NoTeam
     THEN ok /\ entriesRow' = o.row /\ UNCHANGED entriesFile
     ELSE \E s \in Saved([o.ent EXCEPT ![u] = NoTeam], o.row) : Store(s) /\ ok = s.ok
  /\ answered' = [answered EXCEPT ![u] = {}]
  /\ UNCHANGED running

Restart ==
  /\ loaded' = FALSE /\ ent' = Nobody
  /\ UNCHANGED <<running, entriesRow, entriesFile, answered>>

Next ==
  \/ \E u \in Players : CallsOf(u) \/ \E ok \in BOOLEAN : EraseEntry(u, ok)
  \/ Refresh \/ Restart
Spec == Init /\ [][Next /\ UNCHANGED pg]_<<vars, pg>>

-----------------------------------------------------------------------------
(* Properties                                                              *)

TypeOK ==
  /\ running \in BOOLEAN /\ loaded \in BOOLEAN /\ ent \in Entries
  /\ entriesRow = NoFile \/ entriesRow \in Entries
  /\ entriesFile = NoFile \/ entriesFile \in Entries
  /\ answered \in [Players -> SUBSET Teams]

\* "One team per player and fest, first choice wins" (festfile.go): whatever
\* fails and whenever the process starts again, a player is never told of two.
FirstChoiceWins ==
  \A u \in Players : \A s, t \in answered[u] : s = t
=============================================================================
