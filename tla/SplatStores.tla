----------------------------- MODULE SplatStores -----------------------------
(***************************************************************************)
(* What Splatoon 3 keeps of a player (save records, fest entries, user     *)
(* documents), the eraser that goes through it (erase.go) and the restart  *)
(* of the process they share.  Each store has a mutex of its own, so calls *)
(* and the eraser's steps come in any order.  The eraser stops at the      *)
(* first error and is then asked again from the start.                     *)
(***************************************************************************)
EXTENDS Naturals, FiniteSets, Sequences

CONSTANTS
  Players, Writes, Teams, Paths, UserOf, AttributesOf,
  Erased,               \* the player whose account is erased
  NoSave, NoTeam, NoUser, NoFile,
  Failures, UgcMaxOps, UgcMaxDocs, MaxWrites,
  MaxErasures           \* bound: runs of the eraser

ASSUME SplatStoresAssumption ==
  /\ Erased \in Players /\ MaxErasures \in Nat
  /\ NoSave \notin Players \union Writes /\ \A rec \in SUBSET Writes : rec # NoSave
  /\ NoUser \notin Players
  /\ NoTeam \notin Teams
  /\ NoFile \notin [Players -> {NoTeam} \union Teams] /\ NoFile \notin [Paths -> Nat]
  /\ Failures \subseteq {"open", "get", "put", "delete", "remove"}
  /\ UserOf \in [Paths -> {NoUser} \union Players]
  /\ AttributesOf \in [Players -> Paths] /\ \A u \in Players : UserOf[AttributesOf[u]] = u
  /\ UgcMaxOps \in Nat /\ UgcMaxDocs \in Nat /\ MaxWrites \in Nat

VARIABLES
  dsn, pg, row, file, job, acked,
  running, loaded, ent, entriesRow, entriesFile, answered,
  docs, docsRow, docsFile, writes, answer,
  eraser,      \* the step the eraser is at
  erasures,    \* bound: its runs
  quiet,       \* history: no call of the player since the run began
  left,        \* history: what the file holds that the run could not remove
  gone         \* history: a run was answered OK and no call of the player came
               \* since it began: "no", "yes", or "restarted" when a restart came after

Saves  == INSTANCE CloudSave
Fests  == INSTANCE FestEntries
UgcDocs == INSTANCE UserDocuments

savesVars == <<row, file, job, acked>>
festVars  == <<running, loaded, ent, entriesRow, entriesFile, answered>>
docsVars  == <<docs, docsRow, docsFile, writes, answer>>
eraseVars == <<eraser, erasures, quiet, left, gone>>
vars      == <<dsn, pg, savesVars, festVars, docsVars, eraseVars>>

Init ==
  /\ Saves!Init /\ Fests!Init /\ UgcDocs!Init
  /\ eraser = "idle" /\ erasures = 0 /\ quiet = FALSE /\ left = NoSave /\ gone = "no"

\* A call of the player itself may bring back what the eraser removes.
Called(u) ==
  /\ quiet' = (quiet /\ u # Erased)
  /\ gone' = IF u = Erased THEN "no" ELSE gone
  /\ UNCHANGED <<eraser, erasures, left>>

SaveCall(u) == Saves!CallsOf(u) /\ Called(u) /\ UNCHANGED <<dsn, pg, festVars, docsVars>>
FestCall(u) == Fests!CallsOf(u) /\ Called(u) /\ UNCHANGED <<dsn, pg, savesVars, docsVars>>
DocsCall(u) == UgcDocs!CallsOf(u) /\ Called(u) /\ UNCHANGED <<dsn, pg, savesVars, festVars>>
Refresh     == Fests!Refresh /\ UNCHANGED <<dsn, pg, savesVars, docsVars, eraseVars>>

-----------------------------------------------------------------------------
(* eraseUsers, and the request that runs it                                *)

EraseBegins ==
  /\ eraser = "idle" /\ erasures < MaxErasures
  /\ eraser' = "row" /\ erasures' = erasures + 1
  /\ quiet' = (job.player # Erased) /\ left' = NoSave /\ gone' = "no"
  /\ UNCHANGED <<dsn, pg, savesVars, festVars, docsVars>>

Step(from, to) == eraser = from /\ eraser' = to /\ UNCHANGED <<dsn, pg, erasures, quiet>>

EraseSave == \E ok \in BOOLEAN :
  /\ \/ Step("row", IF ok THEN "file" ELSE "idle") /\ Saves!EraseRow(Erased, ok) /\ UNCHANGED left
     \/ /\ Step("file", "fests") /\ Saves!EraseFile(Erased, ok)
        /\ left' = IF ok THEN NoSave ELSE file[Erased]
  /\ UNCHANGED <<festVars, docsVars, gone>>

EraseEntry == \E ok \in BOOLEAN :
  /\ Step("fests", IF ok THEN "docs" ELSE "idle") /\ Fests!EraseEntry(Erased, ok)
  /\ UNCHANGED <<savesVars, docsVars, left, gone>>

\* The last step, and the answer: OK.
EraseDocs ==
  /\ Step("docs", "idle") /\ UgcDocs!EraseDocs(Erased)
  /\ gone' = IF quiet THEN "yes" ELSE "no"
  /\ UNCHANGED <<savesVars, festVars, left>>

Restart ==
  /\ Saves!Restart /\ Fests!Restart /\ UgcDocs!Restart
  /\ eraser' = "idle" /\ quiet' = FALSE
  /\ gone' = IF gone = "no" THEN "no" ELSE "restarted"
  /\ UNCHANGED <<erasures, left>>

Next ==
  \/ \E u \in Players : SaveCall(u) \/ FestCall(u) \/ DocsCall(u)
  \/ Refresh \/ EraseBegins \/ EraseSave \/ EraseEntry \/ EraseDocs \/ Restart
Spec == Init /\ [][Next]_vars

-----------------------------------------------------------------------------
(* Properties                                                              *)

TypeOK ==
  /\ Saves!TypeOK /\ Fests!TypeOK /\ UgcDocs!TypeOK
  /\ eraser \in {"idle", "row", "file", "fests", "docs"} /\ erasures \in 0 .. MaxErasures
  /\ quiet \in BOOLEAN /\ left \in {NoSave} \union Saves!Saves /\ gone \in {"no", "yes", "restarted"}

\* See CloudSave.
ProgressKept    == Saves!ProgressKept
\* See FestEntries.
FirstChoiceWins == Fests!FirstChoiceWins
\* See UserDocuments.
AllOrNothing    == UgcDocs!AllOrNothing

Entry == IF loaded THEN ent ELSE Fests!OrNobody(IF pg /\ entriesRow # NoFile THEN entriesRow ELSE entriesFile)

\* The save is gone too, unless its file could not be removed: the eraser drops
\* that error.
NothingServed ==
  /\ Saves!Served(Erased) = left
  /\ Entry[Erased] = NoTeam
  /\ \A p \in Paths : UserOf[p] = Erased => docs[p] = UgcDocs!NoDoc

\* After an erasure that was answered OK the process serves nothing of the
\* player, whatever other players and earlier, failed runs did meanwhile, but a
\* save whose file that run could not remove.
ErasedNotServed == gone = "yes" => NothingServed

\* "Erased: cloud save, fest entries, user documents" (deploy.md): nothing of
\* the player comes back, not by a restart either.
ErasedStaysErased == gone # "no" => NothingServed

\* Nothing is served whatever fails ("a file left behind would be imported again",
\* erase.go).  The code does NOT have this: a file that could not be removed stays.
ErasedWhateverFails == gone = "yes" => Saves!Served(Erased) = NoSave
=============================================================================
