------------------------------ MODULE CloudSave ------------------------------
(***************************************************************************)
(* Splatoon 3's save records (cloudsave.go): one record for each player,   *)
(* in Postgres when the process opened it at its start, else in a file.    *)
(* A file from before the move to Postgres is imported once and stays.     *)
(*                                                                         *)
(* Every handler holds the store's mutex from its load to its store; the   *)
(* eraser deletes the row without it, so load and store are two steps.     *)
(* A record is the set of the partial saves merged into it.  Tags, names   *)
(* and update_time, which a write only compares for the log, are left out. *)
(***************************************************************************)
EXTENDS Naturals

CONSTANTS
  Players,
  Writes,     \* partial saves, each with a key of its own
  NoSave,     \* no record
  Failures    \* what may fail: "open", "get" (a read or an import), "put",
              \* "delete" (of rows), "remove" (of a file)

Saves == SUBSET Writes

VARIABLES
  dsn,     \* whether a database is configured
  pg,      \* whether this process opened it (blob.Default)
  row,     \* player -> its record in Postgres
  file,    \* player -> its record in the save directory
  job,     \* the handler that holds the mutex and is about to store
  acked    \* history: player -> the writes answered OK that nobody deleted

vars == <<dsn, pg, row, file, job, acked>>

NoJob  == [player |-> NoSave, write |-> NoSave, data |-> NoSave]
Served(u) == IF pg /\ row[u] # NoSave THEN row[u] ELSE file[u]

\* The state a process starts in: what earlier ones left.
Init ==
  /\ dsn \in BOOLEAN /\ pg = dsn
  /\ row = [u \in Players |-> NoSave]
  /\ file \in [Players -> {NoSave, {}}]
  /\ job = NoJob
  /\ acked = [u \in Players |-> {}]

\* load: the row, else the file, which goes into Postgres on the way.
Load(u, rec) ==
  /\ rec = Served(u)
  /\ row' = IF pg THEN [row EXCEPT ![u] = rec] ELSE row

LoadFails == pg /\ "get" \in Failures /\ UNCHANGED row

GetSaveRecord(u) ==
  /\ job = NoJob
  /\ LoadFails \/ \E rec \in {NoSave} \union Saves : Load(u, rec)
  /\ UNCHANGED <<dsn, pg, file, job, acked>>

Storing(u, w, data) == job' = [player |-> u, write |-> w, data |-> data]

\* CreateSaveRecord: a load that fails is no record either.
CreateSaveRecord(u, w) ==
  /\ job = NoJob
  /\ \/ LoadFails /\ Storing(u, w, {w})
     \/ \E rec \in Saves : Load(u, rec) /\ UNCHANGED job
     \/ Load(u, NoSave) /\ Storing(u, w, {w})
  /\ UNCHANGED <<dsn, pg, file, acked>>

\* mutant: the partial save replaces the record
WriteReplaces(u, w) ==
  /\ job = NoJob
  /\ \/ LoadFails /\ UNCHANGED job
     \/ Load(u, NoSave) /\ UNCHANGED job
     \/ \E rec \in Saves : Load(u, rec) /\ Storing(u, w, {w})
  /\ UNCHANGED <<dsn, pg, file, acked>>

\* WriteSaveRecord merges; ChangeUserName sets the key "UserName" likewise.
WriteSaveRecord(u, w) ==
  /\ job = NoJob
  /\ \/ LoadFails /\ UNCHANGED job
     \/ Load(u, NoSave) /\ UNCHANGED job
     \/ \E rec \in Saves : Load(u, rec) /\ Storing(u, w, rec \union {w})
  /\ UNCHANGED <<dsn, pg, file, acked>>

Stored ==
  LET u == job.player IN
  IF pg THEN row' = [row EXCEPT ![u] = job.data] /\ UNCHANGED file
        ELSE file' = [file EXCEPT ![u] = job.data] /\ UNCHANGED row

\* store, and the answer.  A failed write to Postgres may have been done.
Store ==
  /\ job # NoJob
  /\ \/ Stored /\ acked' = [acked EXCEPT ![job.player] = @ \union {job.write}]
     \/ "put" \in Failures /\ (UNCHANGED <<row, file>> \/ (pg /\ Stored)) /\ UNCHANGED acked
  /\ job' = NoJob
  /\ UNCHANGED <<dsn, pg>>

\* DeleteSaveRecord removes the file, whatever the record is kept in, or says
\* that it could not.
DeleteSaveRecord(u) ==
  /\ job = NoJob
  /\ \/ /\ file' = [file EXCEPT ![u] = NoSave]
        /\ acked' = [acked EXCEPT ![u] = {}]
     \/ "remove" \in Failures /\ UNCHANGED <<file, acked>>
  /\ UNCHANGED <<dsn, pg, row, job>>

CallsOf(u) ==
  \/ GetSaveRecord(u) \/ DeleteSaveRecord(u)
  \/ \E w \in Writes : CreateSaveRecord(u, w) \/ WriteSaveRecord(u, w)
  \/ job.player = u /\ Store

-----------------------------------------------------------------------------
(* The eraser's two steps, and a restart                                   *)

\* DeleteKeys, without the mutex; ok is its answer.
EraseRow(u, ok) ==
  /\ \/ ok /\ row' = IF pg THEN [row EXCEPT ![u] = NoSave] ELSE row
     \/ ~ok /\ pg /\ "delete" \in Failures /\ row' \in {row, [row EXCEPT ![u] = NoSave]}
  /\ acked' = [acked EXCEPT ![u] = {}]
  /\ UNCHANGED <<dsn, pg, file, job>>

\* mutant: only the record in use is removed
EraseFileUnlessPg(u, ok) ==
  /\ job = NoJob /\ (ok \/ "remove" \in Failures)
  /\ file' = IF pg \/ ~ok THEN file ELSE [file EXCEPT ![u] = NoSave]
  /\ acked' = [acked EXCEPT ![u] = {}]
  /\ UNCHANGED <<dsn, pg, row, job>>

\* The legacy file, under the mutex.  An error of the removal (~ok) is dropped: the
\* eraser goes on, and the file stays.
EraseFile(u, ok) ==
  /\ job = NoJob /\ (ok \/ "remove" \in Failures)
  /\ file' = IF ok THEN [file EXCEPT ![u] = NoSave] ELSE file
  /\ acked' = [acked EXCEPT ![u] = {}]
  /\ UNCHANGED <<dsn, pg, row, job>>

\* importAll: files without a row, all of them at every start but those that
\* fail, which the next load imports.
Imported(r, f) ==
  {[u \in Players |-> IF r[u] = NoSave /\ u \notin failed THEN f[u] ELSE r[u]] :
     failed \in IF "get" \in Failures THEN SUBSET Players ELSE {{}}}

\* The process dies, perhaps after the write it was at, and starts again:
\* with Postgres, or with the files when it cannot be reached.
Restart ==
  /\ pg' \in {dsn} \union (IF "open" \in Failures THEN {FALSE} ELSE {})
  /\ \E u \in Players \union {NoSave} :
       LET done == u # NoSave /\ job.player = u
           r == IF done /\ pg THEN [row EXCEPT ![u] = job.data] ELSE row IN
       /\ file' = IF done /\ ~pg THEN [file EXCEPT ![u] = job.data] ELSE file
       /\ row' \in IF pg' THEN Imported(r, file) ELSE {r}
  /\ job' = NoJob
  /\ UNCHANGED <<dsn, acked>>

Next == (\E u \in Players : CallsOf(u) \/ \E ok \in BOOLEAN : EraseRow(u, ok) \/ EraseFile(u, ok)) \/ Restart
Spec == Init /\ [][Next]_vars

-----------------------------------------------------------------------------
(* Properties                                                              *)

TypeOK ==
  /\ dsn \in BOOLEAN /\ pg \in {dsn, FALSE}
  /\ row \in [Players -> {NoSave} \union Saves] /\ file \in [Players -> {NoSave} \union Saves]
  /\ acked \in [Players -> Saves]
  /\ job = NoJob \/ job \in [player : Players, write : Writes, data : Saves]

\* "Refusing it blind could lose a player's progress" (WriteSaveRecord): a
\* write answered OK stays in the record the player is served, over restarts,
\* failed writes and the erasure of others, until a deletion.
ProgressKept == \A u \in Players : acked[u] # {} => Served(u) # NoSave /\ acked[u] \subseteq Served(u)
=============================================================================
