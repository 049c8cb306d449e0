---------------------------- MODULE SplatoonProofs ----------------------------
(***************************************************************************)
(* Theorems about the stores of Splatoon 3 and their eraser, its lobby and *)
(* its rotation, each for its own specification and for every value of its *)
(* constants.                                                              *)
(***************************************************************************)
EXTENDS MCSplatoon, WellFoundedInduction, TLAPS

-----------------------------------------------------------------------------
(* Save records                                                            *)

\* The database is there at every start and can be read: without it a handler
\* takes a record for missing, and what is in the file is served again.
Readable == Failures \cap {"open", "get"} = {}

\* The record a handler is about to store has all that was acknowledged.
JobKeeps == job # Saves!NoJob => acked[job.player] \subseteq job.data /\ job.write \in job.data

SavesInv == Saves!TypeOK /\ pg = dsn /\ ProgressKept /\ JobKeeps

-----------------------------------------------------------------------------
(* Fest entries                                                            *)

\* The entries a process reads from a row and a file.
FestStored(r, f) == Fests!OrNobody(IF pg /\ r # NoFile THEN r ELSE f)

StoredEntry(u) == FestStored(entriesRow, entriesFile)[u]

\* Whoever was told of a team is entered for it, and what is entered in memory
\* is stored.
FestInv ==
  /\ Fests!TypeOK
  /\ \A u \in Players : answered[u] \subseteq {IF loaded THEN ent[u] ELSE StoredEntry(u)}
  /\ \A u \in Players : loaded /\ ent[u] # NoTeam => StoredEntry(u) = ent[u]

-----------------------------------------------------------------------------
(* The eraser                                                              *)

\* What is gone after each step of a run in which the player did not call, and
\* after the run while it still does not.
RowGone  == job.player # Erased /\ (pg => row[Erased] = NoSave)
FileGone == RowGone /\ file[Erased] = left
FestGone == FileGone /\ loaded /\ ent[Erased] = NoTeam
DocsGone == FestGone /\ \A p \in Paths : UserOf[p] = Erased => docs[p] = UgcDocs!NoDoc

EraseInv ==
  /\ quiet /\ eraser # "idle" => job.player # Erased
  /\ quiet /\ eraser \in {"file", "fests", "docs"} => RowGone
  /\ quiet /\ eraser \in {"fests", "docs"} => FileGone
  /\ quiet /\ eraser = "docs" => FestGone
  /\ gone = "yes" => eraser = "idle" /\ DocsGone

-----------------------------------------------------------------------------
(* A commit's operations                                                   *)

\* Every set of numbers that is not empty has a least one.
LEMMA LeastNumber ==
  ASSUME NEW T \in SUBSET Nat, T # {}
  PROVE  \E n \in T : \A m \in T : n <= m
  <1>1. PICK n \in T : \A m \in T : <<m, n>> \notin OpToRel(<, Nat)
    BY NatLessThanWellFounded, WFMin
  <1>2. \A m \in T : ~ (m < n)
    BY <1>1, Zenon DEF OpToRel
  <1> QED  BY <1>2

\* The operations of a player's commit, applied one after the other, leave what
\* stands under other players' names alone.
LEMMA StagedKeeps ==
  ASSUME SplatStoresAssumption, UgcDocs!TypeOK, writes < MaxWrites, NEW u \in Players,
         NEW ops \in Seq(UgcDocs!Operations)
  PROVE  /\ UgcDocs!Staged(u, ops).docs \in UgcDocs!Maps
         /\ \A p \in Paths : UserOf[p] \notin {NoUser, u} => UgcDocs!Staged(u, ops).docs[p] = docs[p]
  <1> DEFINE N == Len(ops)
             base == [ok |-> TRUE, docs |-> docs]
             Next1(g, i) == IF i = 0 THEN base ELSE UgcDocs!Applied(u, ops[i], g[i - 1])
             Run(g, m) == g = [i \in 0 .. m |-> Next1(g, i)]
             Good(st) == /\ st \in [ok : BOOLEAN, docs : UgcDocs!Maps]
                         /\ \A p \in Paths : UserOf[p] \notin {NoUser, u} => st.docs[p] = docs[p]
  <1>0. N \in Nat /\ \A i \in 1 .. N : ops[i] \in UgcDocs!Operations
    OBVIOUS
  <1>1. Good(base)
    BY DEF UgcDocs!TypeOK
  <1>2. ASSUME NEW st, Good(st), NEW op \in UgcDocs!Operations
        PROVE  Good(UgcDocs!Applied(u, op, st))
    <2> DEFINE d == [st.docs EXCEPT ![op.path] = IF op.set THEN writes + 1 ELSE UgcDocs!NoDoc]
    <2>1. writes + 1 \in UgcDocs!Times
      BY SplatStoresAssumption DEF UgcDocs!TypeOK, UgcDocs!Times, SplatStoresAssumption
    <2>2. op.path \in Paths /\ op.set \in BOOLEAN
      BY DEF UgcDocs!Operations
    <2>3. d \in UgcDocs!Maps
      BY <1>2, <2>1, <2>2 DEF UgcDocs!Maps, UgcDocs!NoDoc
    <2>4. UserOf[op.path] \in {NoUser, u} =>
            \A p \in Paths : UserOf[p] \notin {NoUser, u} => d[p] = docs[p]
      BY <1>2, <2>2 DEF UgcDocs!Maps
    <2> HIDE DEF d
    <2>5. \/ UgcDocs!Applied(u, op, st) = [st EXCEPT !.ok = FALSE]
          \/ UserOf[op.path] \in {NoUser, u} /\ UgcDocs!Applied(u, op, st) = [st EXCEPT !.docs = d]
      BY DEF UgcDocs!Applied, UgcDocs!MayWrite, d
    <2> QED  BY <1>2, <2>3, <2>4, <2>5
  <1> HIDE DEF base, Good
  <1>3. \A m \in 0 .. N : \E g : Run(g, m)
    <2> SUFFICES ASSUME {m \in 0 .. N : ~ \E g : Run(g, m)} # {} PROVE FALSE
      OBVIOUS
    <2>1. PICK m \in 0 .. N : (~ \E g : Run(g, m)) /\ \A k \in 0 .. m - 1 : \E g : Run(g, k)
      <3> DEFINE T == {k \in 0 .. N : ~ \E g : Run(g, k)}
      <3>1. T \in SUBSET Nat /\ T # {}
        BY <1>0
      <3>2. PICK least \in T : \A k \in T : least <= k
        BY <3>1, LeastNumber
      <3>3. \A k \in 0 .. least - 1 : k \in 0 .. N /\ k \notin T
        BY <1>0, <3>2
      <3> QED  BY <3>2, <3>3
    <2>2. CASE m = 0
      <3>1. Run([i \in 0 .. 0 |-> base], 0)
        OBVIOUS
      <3> QED  BY <2>1, <2>2, <3>1
    <2>3. CASE m # 0
      <3>0. m - 1 \in 0 .. m - 1
        BY <1>0, <2>3
      <3>1. PICK g : Run(g, m - 1)
        BY <2>1, <3>0
      <3> DEFINE h == [i \in 0 .. m |-> IF i = m THEN UgcDocs!Applied(u, ops[m], g[m - 1]) ELSE g[i]]
      <3>2. ASSUME NEW i \in 0 .. m PROVE h[i] = Next1(h, i)
        <4>1. CASE i = m
          BY <1>0, <2>3, <4>1
        <4>2. CASE i # m
          <5>1. i \in 0 .. m - 1 /\ h[i] = g[i] /\ (i # 0 => i - 1 \in 0 .. m - 1 /\ h[i - 1] = g[i - 1])
            BY <1>0, <4>2
          <5>2. g[i] = Next1(g, i)
            BY <3>1, <5>1
          <5> QED  BY <5>1, <5>2
        <4> QED  BY <4>1, <4>2
      <3>3. Run(h, m)
        BY <3>2
      <3> QED  BY <2>1, <3>3
    <2> QED  BY <2>2, <2>3
  <1>4. ASSUME NEW g, Run(g, N) PROVE Good(g[N])
    <2> DEFINE T == {i \in 0 .. N : ~ Good(g[i])}
    <2>1. SUFFICES ASSUME T # {} PROVE FALSE
      BY <1>0
    <2>0. T \in SUBSET Nat
      BY <1>0
    <2>2. PICK i \in T : \A k \in T : i <= k
      BY <2>0, <2>1, LeastNumber
    <2>3. g[i] = Next1(g, i)
      BY <1>4
    <2>4. CASE i = 0
      BY <1>1, <2>2, <2>3, <2>4
    <2>5. CASE i # 0
      <3>1. i - 1 \in 0 .. N /\ i - 1 \notin T /\ i \in 1 .. N
        BY <1>0, <2>2, <2>5
      <3> QED  BY <1>0, <1>2, <2>2, <2>3, <2>5, <3>1
    <2> QED  BY <2>4, <2>5
  <1> DEFINE after[i \in 0 .. Len(ops)] ==
               IF i = 0 THEN [ok |-> TRUE, docs |-> docs] ELSE UgcDocs!Applied(u, ops[i], after[i - 1])
  <1>5. UgcDocs!Staged(u, ops) = after[N]
    BY DEF UgcDocs!Staged
  <1>6. Run(after, N)
    <2>1. PICK g : Run(g, N)
      BY <1>0, <1>3
    <2> QED  BY <2>1 DEF base
  <1> HIDE DEF after, Run, N
  <1>7. Good(after[N])
    BY <1>4, <1>6
  <1> QED  BY <1>5, <1>7 DEF Good

-----------------------------------------------------------------------------
(* Save records: progress is kept                                          *)

\* A record is never taken for none, nor the name of a handler's player.
LEMMA NoSaveApart ==
  ASSUME SplatStoresAssumption
  PROVE  /\ \A rec \in Saves!Saves : rec # NoSave
         /\ \A u \in Players : u # NoSave
         /\ \A j \in [player : Players, write : Writes, data : Saves!Saves] : j # Saves!NoJob
  BY DEF SplatStoresAssumption, Saves!Saves, Saves!NoJob

\* A load, done or failed, changes nothing of what is served.
LEMMA LoadServesTheSame ==
  ASSUME SplatStoresAssumption, Saves!TypeOK, NEW u \in Players, UNCHANGED <<pg, file>>,
         \/ Saves!LoadFails
         \/ \E rec \in {NoSave} \cup Saves!Saves : Saves!Load(u, rec)
  PROVE  /\ row' \in [Players -> {NoSave} \cup Saves!Saves]
         /\ \A v \in Players : Saves!Served(v)' = Saves!Served(v)
  <1>1. row' = row \/ (pg /\ row' = [row EXCEPT ![u] = Saves!Served(u)])
    BY DEF Saves!LoadFails, Saves!Load
  <1>2. Saves!Served(u) \in {NoSave} \cup Saves!Saves
    BY DEF Saves!Served, Saves!TypeOK
  <1>3. row' \in [Players -> {NoSave} \cup Saves!Saves]
    BY <1>1, <1>2 DEF Saves!TypeOK
  <1>4. ASSUME NEW v \in Players PROVE Saves!Served(v)' = Saves!Served(v)
    BY <1>1 DEF Saves!Served, Saves!TypeOK
  <1> QED  BY <1>3, <1>4

\* A read, and the handlers that load before they store: what they will store
\* has what the player was served.
LEMMA LoadingSteps ==
  ASSUME SplatStoresAssumption, Readable, SavesInv, NEW u \in Players,
         \/ Saves!GetSaveRecord(u)
         \/ \E w \in Writes : Saves!CreateSaveRecord(u, w) \/ Saves!WriteSaveRecord(u, w)
  PROVE  SavesInv'
  <1> USE DEF SavesInv
  <1>1. job = Saves!NoJob /\ UNCHANGED <<dsn, pg, file, acked>>
    BY DEF Saves!GetSaveRecord, Saves!CreateSaveRecord, Saves!WriteSaveRecord
  <1>2. /\ \/ Saves!LoadFails
           \/ \E rec \in {NoSave} \cup Saves!Saves : Saves!Load(u, rec)
        /\ \/ job' = job
           \/ \E w \in Writes : Saves!Load(u, NoSave) /\ Saves!Storing(u, w, {w})
           \/ \E w \in Writes, rec \in Saves!Saves : Saves!Load(u, rec) /\ Saves!Storing(u, w, rec \cup {w})
    BY DEF Saves!GetSaveRecord, Saves!CreateSaveRecord, Saves!WriteSaveRecord, Saves!LoadFails, Readable
  <1>3. /\ row' \in [Players -> {NoSave} \cup Saves!Saves]
        /\ \A v \in Players : Saves!Served(v)' = Saves!Served(v)
    BY <1>1, <1>2, LoadServesTheSame
  <1>4. \/ job' = job
        \/ \E w \in Writes, data \in Saves!Saves :
             /\ job' = [player |-> u, write |-> w, data |-> data]
             /\ acked[u] \subseteq data /\ w \in data
    <2> DEFINE Storing(w, data) == /\ job' = [player |-> u, write |-> w, data |-> data]
                                   /\ acked[u] \subseteq data /\ w \in data
    <2>1. ASSUME NEW w \in Writes, Saves!Load(u, NoSave), Saves!Storing(u, w, {w})
          PROVE  Storing(w, {w}) /\ {w} \in Saves!Saves
      BY <2>1 DEF Saves!Load, Saves!Storing, ProgressKept, Saves!ProgressKept, Saves!Saves
    <2>2. ASSUME NEW w \in Writes, NEW rec \in Saves!Saves, Saves!Load(u, rec),
                 Saves!Storing(u, w, rec \cup {w})
          PROVE  Storing(w, rec \cup {w}) /\ rec \cup {w} \in Saves!Saves
      BY <2>2 DEF Saves!Load, Saves!Storing, ProgressKept, Saves!ProgressKept, Saves!Saves
    <2> HIDE DEF Storing
    <2>3. job' = job \/ \E w \in Writes, data \in Saves!Saves : Storing(w, data)
      BY <1>2, <2>1, <2>2
    <2> QED  BY <2>3 DEF Storing
  <1>5. Saves!TypeOK'
    <2>1. job' = Saves!NoJob \/ job' \in [player : Players, write : Writes, data : Saves!Saves]
      BY <1>1, <1>4
    <2> QED  BY <1>1, <1>3, <2>1 DEF Saves!TypeOK, Saves!NoJob
  <1>6. ProgressKept'
    BY <1>1, <1>3 DEF ProgressKept, Saves!ProgressKept
  <1>7. JobKeeps'
    <2>1. CASE job' = job
      BY <1>1, <2>1 DEF JobKeeps, Saves!NoJob
    <2>2. ASSUME NEW w \in Writes, NEW data \in Saves!Saves,
                 job' = [player |-> u, write |-> w, data |-> data], acked[u] \subseteq data, w \in data
          PROVE  JobKeeps'
      BY <1>1, <2>2 DEF JobKeeps
    <2> QED  BY <1>4, <2>1, <2>2
  <1> QED  BY <1>1, <1>5, <1>6, <1>7

\* The record of a handler, where it is stored, is what the player is served.
LEMMA StoreStep ==
  ASSUME SplatStoresAssumption, SavesInv, Saves!Store
  PROVE  SavesInv'
  <1> USE DEF SavesInv
  <1> DEFINE u == job.player
  <1>1. /\ job \in [player : Players, write : Writes, data : Saves!Saves]
        /\ u \in Players /\ job.data \in Saves!Saves /\ job.write \in Writes
        /\ acked[u] \subseteq job.data /\ job.write \in job.data
    BY DEF Saves!Store, Saves!TypeOK, JobKeeps
  <1>2. job' = Saves!NoJob /\ UNCHANGED <<dsn, pg>>
    BY DEF Saves!Store
  <1>3. /\ \/ acked' = [acked EXCEPT ![u] = @ \cup {job.write}] /\ Saves!Stored
           \/ acked' = acked /\ (Saves!Stored \/ UNCHANGED <<row, file>>)
    BY DEF Saves!Store
  <1> HIDE DEF u
  <1>4. Saves!Stored => /\ row' = (IF pg THEN [row EXCEPT ![u] = job.data] ELSE row)
                        /\ file' = (IF pg THEN file ELSE [file EXCEPT ![u] = job.data])
    BY DEF Saves!Stored, u
  <1>5. Saves!TypeOK'
    <2>1. row' \in [Players -> {NoSave} \cup Saves!Saves] /\ file' \in [Players -> {NoSave} \cup Saves!Saves]
      BY <1>1, <1>3, <1>4 DEF Saves!TypeOK
    <2>2. acked' \in [Players -> Saves!Saves]
      BY <1>1, <1>3 DEF Saves!TypeOK, Saves!Saves
    <2> QED  BY <1>2, <2>1, <2>2 DEF Saves!TypeOK, Saves!NoJob
  <1>6. ProgressKept'
    <2> SUFFICES ASSUME NEW v \in Players, acked'[v] # {}
                 PROVE  Saves!Served(v)' # NoSave /\ acked'[v] \subseteq Saves!Served(v)'
      BY DEF ProgressKept, Saves!ProgressKept
    <2>1. ~ pg => \A x \in Players : row'[x] = row[x]
      BY <1>3, <1>4
    <2>2. CASE v # u \/ UNCHANGED <<row, file>>
      <3>1. row'[v] = row[v] /\ file'[v] = file[v]
        BY <1>1, <1>3, <1>4, <2>2 DEF Saves!TypeOK
      <3>2. CASE acked'[v] = acked[v]
        BY <1>2, <3>1, <3>2 DEF ProgressKept, Saves!ProgressKept, Saves!Served
      <3>3. CASE v = u /\ Saves!Stored
        BY <1>1, <1>2, <1>3, <1>4, <3>3, NoSaveApart DEF Saves!Served, Saves!TypeOK
      <3> QED  BY <1>1, <1>3, <2>2, <3>2, <3>3 DEF Saves!TypeOK
    <2>3. CASE v = u /\ Saves!Stored
      <3>1. Saves!Served(v)' = job.data
        BY <1>1, <1>2, <1>4, <2>3, NoSaveApart DEF Saves!Served, Saves!TypeOK
      <3>2. acked'[v] \subseteq acked[v] \cup {job.write}
        BY <1>1, <1>3, <2>3 DEF Saves!TypeOK
      <3> QED  BY <1>1, <2>3, <3>1, <3>2, NoSaveApart
    <2> QED  BY <1>3, <2>2, <2>3
  <1>7. JobKeeps'
    BY <1>2 DEF JobKeeps, Saves!NoJob
  <1> QED  BY <1>2, <1>5, <1>6, <1>7

\* Whatever removes a record of a player takes back what was acknowledged to it.
LEMMA DeletingSteps ==
  ASSUME SplatStoresAssumption, SavesInv, NEW u \in Players,
         \/ Saves!DeleteSaveRecord(u)
         \/ \E ok \in BOOLEAN : Saves!EraseRow(u, ok) \/ Saves!EraseFile(u, ok)
  PROVE  SavesInv'
  <1> USE DEF SavesInv
  <1>0. CASE Saves!DeleteSaveRecord(u) /\ UNCHANGED <<file, acked>>
    BY <1>0 DEF Saves!DeleteSaveRecord, Saves!TypeOK, Saves!NoJob, Saves!Served, ProgressKept, Saves!ProgressKept, JobKeeps
  <1> SUFFICES ASSUME ~(Saves!DeleteSaveRecord(u) /\ UNCHANGED <<file, acked>>) PROVE SavesInv'
    BY <1>0
  <1>1. /\ acked' = [acked EXCEPT ![u] = {}] /\ UNCHANGED <<dsn, pg, job>>
        /\ row' = row \/ row' = [row EXCEPT ![u] = NoSave]
        /\ file' = file \/ file' = [file EXCEPT ![u] = NoSave]
    BY DEF Saves!DeleteSaveRecord, Saves!EraseFile, Saves!EraseRow
  <1>2. Saves!TypeOK'
    <2>1. acked' \in [Players -> Saves!Saves]
      BY <1>1 DEF Saves!TypeOK, Saves!Saves
    <2> QED  BY <1>1, <2>1 DEF Saves!TypeOK, Saves!NoJob
  <1>3. ProgressKept'
    BY <1>1 DEF ProgressKept, Saves!ProgressKept, Saves!Served, Saves!TypeOK
  <1>4. JobKeeps'
    BY <1>1 DEF JobKeeps, Saves!TypeOK, Saves!NoJob
  <1> QED  BY <1>1, <1>2, <1>3, <1>4

\* A restart serves what was served, or the record a handler was storing.
LEMMA SavesRestartStep ==
  ASSUME SplatStoresAssumption, Readable, SavesInv, Saves!Restart
  PROVE  SavesInv'
  <1> USE DEF SavesInv
  <1>1. pg' = pg /\ dsn' = dsn /\ acked' = acked /\ job' = Saves!NoJob
    BY DEF Saves!Restart, Readable
  <1>2. PICK u \in Players \cup {NoSave} :
          LET done == u # NoSave /\ job.player = u
              r == IF done /\ pg THEN [row EXCEPT ![u] = job.data] ELSE row IN
          /\ file' = IF done /\ ~pg THEN [file EXCEPT ![u] = job.data] ELSE file
          /\ row' \in IF pg' THEN Saves!Imported(r, file) ELSE {r}
    BY DEF Saves!Restart
  <1> DEFINE done == u # NoSave /\ job.player = u
             r == IF done /\ pg THEN [row EXCEPT ![u] = job.data] ELSE row
  <1>3. done => /\ u \in Players /\ job.data \in Saves!Saves /\ acked[u] \subseteq job.data
    BY DEF Saves!TypeOK, JobKeeps, Saves!NoJob
  <1>4. /\ r \in [Players -> {NoSave} \cup Saves!Saves]
        /\ file' \in [Players -> {NoSave} \cup Saves!Saves]
    BY <1>2, <1>3 DEF Saves!TypeOK
  <1>5. /\ pg => row' = [v \in Players |-> IF r[v] = NoSave THEN file[v] ELSE r[v]] /\ file' = file
        /\ ~pg => row' = row
    BY <1>1, <1>2 DEF Saves!Imported, Readable
  <1>6. Saves!TypeOK'
    <2>1. row' \in [Players -> {NoSave} \cup Saves!Saves]
      BY <1>4, <1>5 DEF Saves!TypeOK
    <2> QED  BY <1>1, <1>4, <2>1 DEF Saves!TypeOK, Saves!NoJob
  <1>7. ProgressKept'
    <2> SUFFICES ASSUME NEW v \in Players, acked[v] # {}
                 PROVE  Saves!Served(v)' # NoSave /\ acked[v] \subseteq Saves!Served(v)'
      BY <1>1 DEF ProgressKept, Saves!ProgressKept
    <2>1. Saves!Served(v) # NoSave /\ acked[v] \subseteq Saves!Served(v)
      BY DEF ProgressKept, Saves!ProgressKept
    <2>2. CASE done /\ v = u
      <3>1. Saves!Served(v)' = job.data
        BY <1>1, <1>2, <1>3, <1>5, <2>2, NoSaveApart DEF Saves!Served, Saves!TypeOK
      <3> QED  BY <1>3, <2>2, <3>1, NoSaveApart
    <2>3. CASE ~ (done /\ v = u)
      <3>1. r[v] = row[v] /\ file'[v] = file[v]
        BY <1>2, <1>3, <2>3 DEF Saves!TypeOK
      <3>2. Saves!Served(v)' = Saves!Served(v)
        BY <1>1, <1>5, <3>1 DEF Saves!Served
      <3> QED  BY <2>1, <3>2
    <2> QED  BY <2>2, <2>3
  <1>8. JobKeeps'
    BY <1>1 DEF JobKeeps, Saves!NoJob
  <1> QED  BY <1>1, <1>6, <1>7, <1>8

\* cloudsave.go: what was acknowledged is served, while the database can be read.
THEOREM SavesInvariance == ASSUME Readable PROVE Spec => []SavesInv
  <1>1. Init => SavesInv
    <2> SUFFICES ASSUME Init PROVE SavesInv
      OBVIOUS
    <2> USE DEF Init, Saves!Init
    <2>1. Saves!TypeOK
      BY DEF Saves!TypeOK, Saves!Saves
    <2>2. ProgressKept /\ JobKeeps
      BY DEF ProgressKept, Saves!ProgressKept, JobKeeps
    <2> QED  BY <2>1, <2>2 DEF SavesInv
  <1>2. SavesInv /\ [Next]_vars => SavesInv'
    <2> SUFFICES ASSUME SavesInv, [Next]_vars PROVE SavesInv'
      OBVIOUS
    <2>1. ASSUME UNCHANGED <<dsn, pg, savesVars>> PROVE SavesInv'
      BY <2>1 DEF savesVars, SavesInv, Saves!TypeOK, ProgressKept, Saves!ProgressKept, Saves!Served,
                  JobKeeps, Saves!NoJob
    <2>2. ASSUME NEW u \in Players, SaveCall(u) PROVE SavesInv'
      <3>1. \/ Saves!GetSaveRecord(u) \/ Saves!DeleteSaveRecord(u)
            \/ \E w \in Writes : Saves!CreateSaveRecord(u, w) \/ Saves!WriteSaveRecord(u, w)
            \/ Saves!Store
        BY <2>2 DEF SaveCall, Saves!CallsOf
      <3> QED  BY <3>1, SplatStoresAssumption, LoadingSteps, StoreStep, DeletingSteps
    <2>3. CASE EraseSave
      BY <2>3, SplatStoresAssumption, DeletingSteps DEF EraseSave, SplatStoresAssumption
    <2>4. CASE Restart
      BY <2>4, SplatStoresAssumption, SavesRestartStep DEF Restart
    <2> QED
      BY <2>1, <2>2, <2>3, <2>4 DEF Next, FestCall, DocsCall, Refresh, EraseBegins, EraseEntry, EraseDocs,
                                    Step, vars
  <1> QED  BY <1>1, <1>2, PTL DEF Spec

\* ProgressKept (cloudsave.go, WriteSaveRecord): a write answered OK stays in
\* the record that is served, over restarts, failed writes and the erasure of
\* others, until a deletion, as long as the database can be read.
THEOREM ProgressIsKept == ASSUME Readable PROVE Spec => []ProgressKept
  <1>1. SavesInv => ProgressKept
    BY DEF SavesInv
  <1> QED  BY <1>1, SavesInvariance, PTL

-----------------------------------------------------------------------------
(* Fest entries: the first choice wins                                     *)

\* A player is told of teams, not of having none.
LEMMA ToldOfTeams ==
  ASSUME SplatStoresAssumption, FestInv, NEW u \in Players, NEW e, answered[u] \subseteq {e}, e = NoTeam
  PROVE  answered[u] = {}
  BY DEF SplatStoresAssumption, FestInv, Fests!TypeOK

\* What a call finds when it has the mutex: everybody's entry as it was told, and
\* stored.
LEMMA OpenedStores ==
  ASSUME SplatStoresAssumption, Readable, FestInv, NEW o \in Fests!Opened
  PROVE  /\ o.ent \in Fests!Entries /\ (o.row = NoFile \/ o.row \in Fests!Entries)
         /\ \A u \in Players : answered[u] \subseteq {o.ent[u]}
         /\ \A u \in Players : o.ent[u] # NoTeam => FestStored(o.row, entriesFile)[u] = o.ent[u]
  <1> USE DEF FestInv, StoredEntry
  <1>1. Fests!Nobody \in Fests!Entries /\ NoFile \notin Fests!Entries
    BY DEF Fests!Nobody, Fests!Entries, SplatStoresAssumption
  <1>2. CASE loaded
    <2>1. o = [ent |-> ent, row |-> entriesRow]
      BY <1>2 DEF Fests!Opened
    <2> QED  BY <1>2, <2>1 DEF Fests!TypeOK
  <1>3. CASE ~ loaded
    <2> DEFINE r == IF pg /\ entriesRow = NoFile THEN entriesFile ELSE entriesRow
    <2>1. o = [ent |-> Fests!OrNobody(IF pg THEN r ELSE entriesFile), row |-> r]
      BY <1>3 DEF Fests!Opened, Readable
    <2>2. o.row = r /\ o.ent = FestStored(entriesRow, entriesFile)
      BY <2>1 DEF FestStored
    <2>3. FestStored(r, entriesFile) = o.ent
      BY <2>2 DEF FestStored
    <2>4. o.ent \in Fests!Entries
      BY <1>1, <2>2 DEF FestStored, Fests!OrNobody, Fests!TypeOK
    <2> QED  BY <1>3, <2>2, <2>3, <2>4 DEF Fests!TypeOK
  <1> QED  BY <1>2, <1>3

\* A map that is saved is what a new process reads, unless the write failed and
\* was not done.
LEMMA SavedStores ==
  ASSUME SplatStoresAssumption, Fests!TypeOK, NEW m \in Fests!Entries, NEW r,
         r = NoFile \/ r \in Fests!Entries, NEW s \in Fests!Saved(m, r)
  PROVE  /\ s.row = NoFile \/ s.row \in Fests!Entries
         /\ s.file = NoFile \/ s.file \in Fests!Entries
         /\ \/ FestStored(s.row, s.file) = m
            \/ ~ s.ok /\ FestStored(s.row, s.file) = FestStored(r, entriesFile)
  <1>1. m # NoFile
    BY DEF Fests!Entries, SplatStoresAssumption
  <1> DEFINE done == IF pg THEN [row |-> m, file |-> entriesFile, ok |-> TRUE]
                           ELSE [row |-> r, file |-> m, ok |-> TRUE]
  <1>2. \/ s = done
        \/ s = [row |-> r, file |-> entriesFile, ok |-> FALSE]
        \/ pg /\ s = [row |-> m, file |-> entriesFile, ok |-> FALSE]
    BY DEF Fests!Saved
  <1>3. CASE s = done
    BY <1>1, <1>3 DEF FestStored, Fests!OrNobody, Fests!TypeOK
  <1>4. CASE s = [row |-> r, file |-> entriesFile, ok |-> FALSE]
    BY <1>4 DEF Fests!TypeOK
  <1>5. CASE pg /\ s = [row |-> m, file |-> entriesFile, ok |-> FALSE]
    BY <1>1, <1>5 DEF FestStored, Fests!OrNobody, Fests!TypeOK
  <1> QED  BY <1>2, <1>3, <1>4, <1>5

\* What a call must leave behind.
LEMMA FestKept ==
  ASSUME SplatStoresAssumption, Fests!TypeOK, pg' = pg, loaded' = TRUE, running' \in BOOLEAN,
         ent' \in Fests!Entries, answered' \in [Players -> SUBSET Teams],
         entriesRow' = NoFile \/ entriesRow' \in Fests!Entries,
         entriesFile' = NoFile \/ entriesFile' \in Fests!Entries,
         \A v \in Players : answered'[v] \subseteq {ent'[v]},
         \A v \in Players : ent'[v] # NoTeam => FestStored(entriesRow', entriesFile')[v] = ent'[v]
  PROVE  FestInv'
  BY DEF FestInv, Fests!TypeOK, StoredEntry, FestStored

\* A call that only looks tells a player of its entry.
LEMMA LookStep ==
  ASSUME SplatStoresAssumption, Readable, FestInv, pg' = pg, NEW u \in Players, NEW o \in Fests!Opened,
         loaded' = TRUE, ent' = o.ent, entriesRow' = o.row, UNCHANGED <<running, entriesFile>>,
         \/ answered' = answered
         \/ answered' = [answered EXCEPT ![u] = @ \cup {o.ent[u]}] /\ o.ent[u] # NoTeam
  PROVE  FestInv'
  <1>1. /\ o.ent \in Fests!Entries /\ (o.row = NoFile \/ o.row \in Fests!Entries)
        /\ \A v \in Players : answered[v] \subseteq {o.ent[v]}
        /\ \A v \in Players : o.ent[v] # NoTeam => FestStored(o.row, entriesFile)[v] = o.ent[v]
    BY OpenedStores
  <1>2. answered' \in [Players -> SUBSET Teams] /\ \A v \in Players : answered'[v] \subseteq {o.ent[v]}
    BY <1>1 DEF FestInv, Fests!TypeOK, Fests!Entries
  <1> QED  BY <1>1, <1>2, FestKept DEF FestInv, Fests!TypeOK

\* A choice is made once: what was chosen is told again, and one that could not
\* be stored was told to nobody.
LEMMA ChooseStep ==
  ASSUME SplatStoresAssumption, Readable, FestInv, pg' = pg, NEW u \in Players, NEW t \in Teams,
         Fests!CreateFestEntry(u, t)
  PROVE  FestInv'
  <1>1. PICK o \in Fests!Opened :
          /\ running /\ loaded' = TRUE
          /\ IF o.ent[u] # NoTeam
             THEN Fests!Tell(u, o.ent[u]) /\ ent' = o.ent /\ entriesRow' = o.row /\ UNCHANGED entriesFile
             ELSE \E s \in Fests!Saved([o.ent EXCEPT ![u] = t], o.row) :
                    /\ Fests!Store(s)
                    /\ IF s.ok THEN Fests!Tell(u, t) /\ ent' = [o.ent EXCEPT ![u] = t]
                               ELSE UNCHANGED answered /\ ent' = o.ent
          /\ UNCHANGED running
    BY DEF Fests!CreateFestEntry
  <1>2. CASE o.ent[u] # NoTeam
    BY <1>1, <1>2, LookStep DEF Fests!Tell
  <1>3. CASE o.ent[u] = NoTeam
    <2> DEFINE m == [o.ent EXCEPT ![u] = t]
    <2>1. /\ o.ent \in Fests!Entries /\ (o.row = NoFile \/ o.row \in Fests!Entries)
          /\ \A v \in Players : answered[v] \subseteq {o.ent[v]}
          /\ \A v \in Players : o.ent[v] # NoTeam => FestStored(o.row, entriesFile)[v] = o.ent[v]
      BY OpenedStores
    <2>2. m \in Fests!Entries /\ \A v \in Players : m[v] = IF v = u THEN t ELSE o.ent[v]
      BY <2>1 DEF Fests!Entries
    <2> HIDE DEF m
    <2>3. PICK s \in Fests!Saved(m, o.row) :
            /\ entriesRow' = s.row /\ entriesFile' = s.file
            /\ IF s.ok THEN answered' = [answered EXCEPT ![u] = @ \cup {t}] /\ ent' = m
                       ELSE answered' = answered /\ ent' = o.ent
      BY <1>1, <1>3 DEF Fests!Store, Fests!Tell, m
    <2>4. /\ s.row = NoFile \/ s.row \in Fests!Entries
          /\ s.file = NoFile \/ s.file \in Fests!Entries
          /\ \/ FestStored(s.row, s.file) = m
             \/ ~ s.ok /\ FestStored(s.row, s.file) = FestStored(o.row, entriesFile)
      BY <2>1, <2>2, SavedStores DEF FestInv
    <2>5. answered[u] = {}
      BY <1>3, <2>1, ToldOfTeams
    <2>6. answered' \in [Players -> SUBSET Teams] /\ \A v \in Players : answered'[v] \subseteq {ent'[v]}
      BY <2>1, <2>2, <2>3, <2>5 DEF FestInv, Fests!TypeOK
    <2>7. \A v \in Players : ent'[v] # NoTeam => FestStored(entriesRow', entriesFile')[v] = ent'[v]
      BY <1>3, <2>1, <2>2, <2>3, <2>4
    <2> QED  BY <1>1, <2>1, <2>2, <2>3, <2>4, <2>6, <2>7, FestKept DEF FestInv, Fests!TypeOK
  <1> QED  BY <1>2, <1>3

\* The eraser: the player is told of nothing any more, the others as before.
LEMMA EraseEntryStep ==
  ASSUME SplatStoresAssumption, Readable, FestInv, pg' = pg, NEW u \in Players, NEW ok \in BOOLEAN,
         Fests!EraseEntry(u, ok)
  PROVE  FestInv'
  <1>1. PICK o \in Fests!Opened :
          /\ loaded' = TRUE /\ ent' = [o.ent EXCEPT ![u] = NoTeam]
          /\ IF o.ent[u] = NoTeam
             THEN ok /\ entriesRow' = o.row /\ UNCHANGED entriesFile
             ELSE \E s \in Fests!Saved([o.ent EXCEPT ![u] = NoTeam], o.row) : Fests!Store(s) /\ ok = s.ok
          /\ answered' = [answered EXCEPT ![u] = {}]
          /\ UNCHANGED running
    BY DEF Fests!EraseEntry
  <1> DEFINE m == [o.ent EXCEPT ![u] = NoTeam]
  <1>2. /\ o.ent \in Fests!Entries /\ (o.row = NoFile \/ o.row \in Fests!Entries)
        /\ \A v \in Players : answered[v] \subseteq {o.ent[v]}
        /\ \A v \in Players : o.ent[v] # NoTeam => FestStored(o.row, entriesFile)[v] = o.ent[v]
    BY OpenedStores
  <1>3. m \in Fests!Entries /\ \A v \in Players : m[v] = IF v = u THEN NoTeam ELSE o.ent[v]
    BY <1>2 DEF Fests!Entries
  <1> HIDE DEF m
  <1>4. ent' = m
    BY <1>1 DEF m
  <1>5. /\ entriesRow' = NoFile \/ entriesRow' \in Fests!Entries
        /\ entriesFile' = NoFile \/ entriesFile' \in Fests!Entries
        /\ \/ FestStored(entriesRow', entriesFile') = m
           \/ FestStored(entriesRow', entriesFile') = FestStored(o.row, entriesFile)
    <2>1. CASE o.ent[u] = NoTeam
      BY <1>1, <1>2, <2>1 DEF FestInv, Fests!TypeOK
    <2>2. CASE o.ent[u] # NoTeam
      <3>1. PICK s \in Fests!Saved(m, o.row) : entriesRow' = s.row /\ entriesFile' = s.file
        BY <1>1, <2>2 DEF Fests!Store, m
      <3> QED  BY <1>2, <1>3, <3>1, SavedStores DEF FestInv
    <2> QED  BY <2>1, <2>2
  <1>6. answered' \in [Players -> SUBSET Teams] /\ \A v \in Players : answered'[v] \subseteq {m[v]}
    BY <1>1, <1>2, <1>3 DEF FestInv, Fests!TypeOK
  <1>7. \A v \in Players : m[v] # NoTeam => FestStored(entriesRow', entriesFile')[v] = m[v]
    BY <1>2, <1>3, <1>5
  <1> QED  BY <1>1, <1>3, <1>4, <1>5, <1>6, <1>7, FestKept DEF FestInv, Fests!TypeOK

\* A new process reads what was stored.
LEMMA FestRestartStep ==
  ASSUME SplatStoresAssumption, FestInv, pg' = pg, Fests!Restart
  PROVE  FestInv'
  <1> USE DEF FestInv, Fests!Restart
  <1>1. Fests!TypeOK'
    BY DEF Fests!TypeOK, Fests!Nobody, Fests!Entries
  <1>2. ASSUME NEW u \in Players PROVE answered[u] \subseteq {StoredEntry(u)}
    <2>1. CASE loaded /\ ent[u] = NoTeam
      BY <2>1, ToldOfTeams
    <2> QED  BY <2>1
  <1> QED  BY <1>1, <1>2 DEF StoredEntry, FestStored

\* festfile.go: nobody is told of a team that is not its stored entry, while the
\* database can be read.
THEOREM FestInvariance == ASSUME Readable PROVE Spec => []FestInv
  <1>1. Init => FestInv
    <2> SUFFICES ASSUME Init PROVE FestInv
      OBVIOUS
    <2> USE DEF Init, Fests!Init
    <2>1. Fests!Nobody \in Fests!Entries /\ NoFile \notin Fests!Entries
      BY SplatStoresAssumption DEF Fests!Nobody, Fests!Entries, SplatStoresAssumption
    <2>2. entriesFile = NoFile \/ entriesFile \in Fests!Entries
      BY <2>1 DEF Fests!Entries
    <2>3. /\ answered \in [Players -> SUBSET Teams]
          /\ \A u \in Players : answered[u] \subseteq {StoredEntry(u)}
      <3>1. ASSUME NEW u \in Players PROVE answered[u] \subseteq Teams \cap {StoredEntry(u)}
        <4>1. answered[u] = IF entriesFile = NoFile \/ entriesFile[u] = NoTeam THEN {} ELSE {entriesFile[u]}
          OBVIOUS
        <4>2. entriesFile # NoFile => entriesFile \in Fests!Entries /\ StoredEntry(u) = entriesFile[u]
          BY <2>2 DEF StoredEntry, FestStored, Fests!OrNobody
        <4> QED  BY <4>1, <4>2 DEF Fests!Entries
      <3> QED  BY <3>1
    <2>4. Fests!TypeOK
      BY <2>1, <2>2, <2>3 DEF Fests!TypeOK
    <2> QED  BY <2>3, <2>4 DEF FestInv
  <1>2. SavesInv /\ FestInv /\ [Next]_vars => FestInv'
    <2> SUFFICES ASSUME SavesInv, FestInv, [Next]_vars PROVE FestInv'
      OBVIOUS
    <2>1. pg' = pg
      BY DEF Next, SaveCall, FestCall, DocsCall, Refresh, EraseBegins, EraseSave, EraseEntry, EraseDocs, Step,
             Restart, Saves!Restart, Readable, SavesInv, vars
    <2>2. ASSUME UNCHANGED <<pg, festVars>> PROVE FestInv'
      BY <2>2 DEF festVars, FestInv, Fests!TypeOK, StoredEntry, FestStored
    <2>3. ASSUME NEW u \in Players, FestCall(u) PROVE FestInv'
      <3>1. CASE Fests!GetFestEntry(u)
        <4>1. PICK o \in Fests!Opened :
                /\ loaded' = TRUE /\ ent' = o.ent /\ entriesRow' = o.row
                /\ IF o.ent[u] # NoTeam THEN Fests!Tell(u, o.ent[u]) ELSE UNCHANGED answered
                /\ UNCHANGED <<running, entriesFile>>
          BY <3>1 DEF Fests!GetFestEntry
        <4> QED  BY <2>1, <4>1, SplatStoresAssumption, LookStep DEF Fests!Tell
      <3>2. ASSUME NEW t \in Teams, Fests!CreateFestEntry(u, t) PROVE FestInv'
        BY <2>1, <3>2, SplatStoresAssumption, ChooseStep
      <3> QED  BY <2>3, <3>1, <3>2 DEF FestCall, Fests!CallsOf
    <2>4. CASE EraseEntry
      BY <2>1, <2>4, SplatStoresAssumption, EraseEntryStep DEF EraseEntry, SplatStoresAssumption
    <2>5. CASE Refresh
      BY <2>5 DEF Refresh, Fests!Refresh, FestInv, Fests!TypeOK, StoredEntry, FestStored
    <2>6. CASE Restart
      BY <2>1, <2>6, SplatStoresAssumption, FestRestartStep DEF Restart
    <2> QED
      BY <2>1, <2>2, <2>3, <2>4, <2>5, <2>6 DEF Next, SaveCall, DocsCall, EraseBegins, EraseSave, EraseDocs,
                                                Step, vars
  <1> QED  BY <1>1, <1>2, SavesInvariance, PTL DEF Spec

\* FirstChoiceWins (festfile.go, enter): nobody is ever told of two teams,
\* whatever fails to be written and whenever the process starts again.
THEOREM FirstChoiceStays == ASSUME Readable PROVE Spec => []FirstChoiceWins
  <1>1. FestInv => FirstChoiceWins
    BY DEF FestInv, FirstChoiceWins, Fests!FirstChoiceWins
  <1> QED  BY <1>1, FestInvariance, PTL

-----------------------------------------------------------------------------
(* The types of the stores, whatever fails                                 *)

\* What a load leaves has the records' type.
LEMMA LoadTyped ==
  ASSUME Saves!TypeOK, NEW u \in Players,
         \/ Saves!LoadFails
         \/ \E rec \in {NoSave} \cup Saves!Saves : Saves!Load(u, rec)
  PROVE  row' \in [Players -> {NoSave} \cup Saves!Saves]
  BY DEF Saves!TypeOK, Saves!LoadFails, Saves!Load

\* Calls, erasures and restarts keep the type of the save records.
LEMMA SavesTyped ==
  ASSUME SplatStoresAssumption, Saves!TypeOK,
         \/ \E u \in Players : \/ Saves!CallsOf(u)
                               \/ \E ok \in BOOLEAN : Saves!EraseRow(u, ok) \/ Saves!EraseFile(u, ok)
         \/ Saves!Restart
  PROVE  Saves!TypeOK'
  <1> DEFINE Recs == {NoSave} \cup Saves!Saves
             Jobs == {Saves!NoJob} \cup [player : Players, write : Writes, data : Saves!Saves]
  <1>0. /\ dsn \in BOOLEAN /\ pg \in {dsn, FALSE} /\ job \in Jobs /\ acked \in [Players -> Saves!Saves]
        /\ row \in [Players -> Recs] /\ file \in [Players -> Recs]
    BY DEF Saves!TypeOK
  <1> DEFINE Kept == /\ dsn' = dsn /\ pg' \in {dsn, FALSE} /\ job' \in Jobs
                     /\ acked' \in [Players -> Saves!Saves]
                     /\ row' \in [Players -> Recs] /\ file' \in [Players -> Recs]
  <1>1. Kept => Saves!TypeOK'
    BY <1>0 DEF Saves!TypeOK, Saves!NoJob
  <1>2. ASSUME NEW u \in Players,
               \/ Saves!GetSaveRecord(u)
               \/ \E w \in Writes : Saves!CreateSaveRecord(u, w) \/ Saves!WriteSaveRecord(u, w)
        PROVE  Kept
    <2>1. /\ UNCHANGED <<dsn, pg, file, acked>>
          /\ \/ Saves!LoadFails
             \/ \E rec \in Recs : Saves!Load(u, rec)
      BY <1>2 DEF Saves!GetSaveRecord, Saves!CreateSaveRecord, Saves!WriteSaveRecord
    <2>2. row' \in [Players -> Recs]
      BY <2>1, LoadTyped
    <2>3. job' = job \/ \E w \in Writes, data \in SUBSET Writes : Saves!Storing(u, w, data)
      BY <1>2 DEF Saves!GetSaveRecord, Saves!CreateSaveRecord, Saves!WriteSaveRecord, Saves!Saves
    <2>4. job' \in Jobs
      BY <1>0, <2>3 DEF Saves!Storing, Saves!Saves
    <2> QED  BY <1>0, <2>1, <2>2, <2>4
  <1>3. ASSUME Saves!Store PROVE Kept
    <2>1. /\ job' = Saves!NoJob /\ UNCHANGED <<dsn, pg>>
          /\ job \in [player : Players, write : Writes, data : Saves!Saves]
          /\ acked' \in {acked, [acked EXCEPT ![job.player] = @ \cup {job.write}]}
          /\ row' \in {row, [row EXCEPT ![job.player] = job.data]}
          /\ file' \in {file, [file EXCEPT ![job.player] = job.data]}
      BY <1>0, <1>3 DEF Saves!Store, Saves!Stored
    <2>2. acked' \in [Players -> Saves!Saves]
      BY <1>0, <2>1 DEF Saves!Saves
    <2> QED  BY <1>0, <2>1, <2>2
  <1>4. ASSUME NEW u \in Players,
               \/ Saves!DeleteSaveRecord(u)
               \/ \E ok \in BOOLEAN : Saves!EraseRow(u, ok) \/ Saves!EraseFile(u, ok)
        PROVE  Kept
    <2>1. /\ acked' \in {acked, [acked EXCEPT ![u] = {}]} /\ UNCHANGED <<dsn, pg, job>>
          /\ row' \in {row, [row EXCEPT ![u] = NoSave]} /\ file' \in {file, [file EXCEPT ![u] = NoSave]}
      BY <1>4 DEF Saves!DeleteSaveRecord, Saves!EraseFile, Saves!EraseRow
    <2>2. acked' \in [Players -> Saves!Saves]
      BY <1>0, <2>1 DEF Saves!Saves
    <2>3. row' \in [Players -> Recs] /\ file' \in [Players -> Recs]
      BY <1>0, <2>1
    <2>4. dsn' = dsn /\ pg' \in {dsn, FALSE} /\ job' \in Jobs
      BY <1>0, <2>1
    <2> QED  BY <2>2, <2>3, <2>4
  <1>5. ASSUME Saves!Restart PROVE Kept
    <2>1. pg' \in {dsn, FALSE} /\ job' = Saves!NoJob /\ UNCHANGED <<dsn, acked>>
      BY <1>5 DEF Saves!Restart
    <2>2. PICK u \in Players \cup {NoSave} :
            LET done == u # NoSave /\ job.player = u
                r == IF done /\ pg THEN [row EXCEPT ![u] = job.data] ELSE row IN
            /\ file' = IF done /\ ~pg THEN [file EXCEPT ![u] = job.data] ELSE file
            /\ row' \in IF pg' THEN Saves!Imported(r, file) ELSE {r}
      BY <1>5 DEF Saves!Restart
    <2> DEFINE done == u # NoSave /\ job.player = u
               r == IF done /\ pg THEN [row EXCEPT ![u] = job.data] ELSE row
    <2>3. done => u \in Players /\ job.data \in Recs
      BY <1>0 DEF Saves!NoJob
    <2>4. r \in [Players -> Recs] /\ file' \in [Players -> Recs]
      BY <1>0, <2>2, <2>3
    <2>5. row' = r \/ \E failed \in SUBSET Players :
            row' = [v \in Players |-> IF r[v] = NoSave /\ v \notin failed THEN file[v] ELSE r[v]]
      BY <2>2 DEF Saves!Imported
    <2> HIDE DEF r
    <2>6. row' \in [Players -> Recs]
      BY <1>0, <2>4, <2>5
    <2> QED  BY <2>1, <1>0, <2>4, <2>6
  <1> HIDE DEF Kept
  <1> QED  BY <1>1, <1>2, <1>3, <1>4, <1>5 DEF Saves!CallsOf

\* What is read and what is written has the type of the entries.
LEMMA FestsTyped ==
  ASSUME SplatStoresAssumption, Fests!TypeOK,
         \/ \E u \in Players : Fests!CallsOf(u) \/ \E ok \in BOOLEAN : Fests!EraseEntry(u, ok)
         \/ Fests!Refresh \/ Fests!Restart
  PROVE  Fests!TypeOK'
  <1> DEFINE Files == {NoFile} \cup Fests!Entries
  <1>0. /\ running \in BOOLEAN /\ loaded \in BOOLEAN /\ ent \in Fests!Entries
        /\ entriesRow \in Files /\ entriesFile \in Files /\ answered \in [Players -> SUBSET Teams]
        /\ Fests!Nobody \in Fests!Entries
    BY DEF Fests!TypeOK, Fests!Nobody, Fests!Entries
  <1>1. ASSUME NEW o \in Fests!Opened PROVE o.ent \in Fests!Entries /\ o.row \in Files
    <2>1. \/ o = [ent |-> ent, row |-> entriesRow]
          \/ \E m, r \in Files : o = [ent |-> Fests!OrNobody(m), row |-> r]
          \/ o = [ent |-> Fests!Nobody, row |-> entriesRow]
      BY <1>0 DEF Fests!Opened
    <2> QED  BY <1>0, <2>1 DEF Fests!OrNobody
  <1>2. ASSUME NEW m \in Fests!Entries, NEW r \in Files, NEW s \in Fests!Saved(m, r)
        PROVE  s.row \in Files /\ s.file \in Files
    BY <1>0, <1>2, SavedStores
  <1>3. ASSUME NEW o \in Fests!Opened, NEW u \in Players, NEW t \in Teams \cup {NoTeam}
        PROVE  [o.ent EXCEPT ![u] = t] \in Fests!Entries
    BY <1>1 DEF Fests!Entries
  <1>4. ASSUME NEW u \in Players, Fests!GetFestEntry(u) PROVE Fests!TypeOK'
    <2>1. PICK o \in Fests!Opened :
            /\ loaded' = TRUE /\ ent' = o.ent /\ entriesRow' = o.row
            /\ IF o.ent[u] # NoTeam THEN Fests!Tell(u, o.ent[u]) ELSE UNCHANGED answered
            /\ UNCHANGED <<running, entriesFile>>
      BY <1>4 DEF Fests!GetFestEntry
    <2>2. o.ent[u] \in Teams \cup {NoTeam}
      BY <1>1 DEF Fests!Entries
    <2>3. answered' \in [Players -> SUBSET Teams]
      BY <1>0, <2>1, <2>2 DEF Fests!Tell
    <2> QED  BY <1>0, <1>1, <2>1, <2>3 DEF Fests!TypeOK
  <1>5. ASSUME NEW u \in Players, NEW t \in Teams, Fests!CreateFestEntry(u, t) PROVE Fests!TypeOK'
    <2>1. PICK o \in Fests!Opened :
            /\ running /\ loaded' = TRUE
            /\ IF o.ent[u] # NoTeam
               THEN Fests!Tell(u, o.ent[u]) /\ ent' = o.ent /\ entriesRow' = o.row /\ UNCHANGED entriesFile
               ELSE \E s \in Fests!Saved([o.ent EXCEPT ![u] = t], o.row) :
                      /\ Fests!Store(s)
                      /\ IF s.ok THEN Fests!Tell(u, t) /\ ent' = [o.ent EXCEPT ![u] = t]
                                 ELSE UNCHANGED answered /\ ent' = o.ent
            /\ UNCHANGED running
      BY <1>5 DEF Fests!CreateFestEntry
    <2>2. o.ent[u] \in Teams \cup {NoTeam}
      BY <1>1 DEF Fests!Entries
    <2>3. answered' \in [Players -> SUBSET Teams]
      BY <1>0, <2>1, <2>2 DEF Fests!Tell
    <2>4. ent' \in Fests!Entries
      BY <1>1, <1>3, <2>1
    <2>5. entriesRow' \in Files /\ entriesFile' \in Files
      BY <1>0, <1>1, <1>2, <1>3, <2>1 DEF Fests!Store
    <2> QED  BY <1>0, <2>1, <2>3, <2>4, <2>5 DEF Fests!TypeOK
  <1>6. ASSUME NEW u \in Players, NEW ok \in BOOLEAN, Fests!EraseEntry(u, ok) PROVE Fests!TypeOK'
    <2>1. PICK o \in Fests!Opened :
            /\ loaded' = TRUE /\ ent' = [o.ent EXCEPT ![u] = NoTeam]
            /\ IF o.ent[u] = NoTeam
               THEN ok /\ entriesRow' = o.row /\ UNCHANGED entriesFile
               ELSE \E s \in Fests!Saved([o.ent EXCEPT ![u] = NoTeam], o.row) : Fests!Store(s) /\ ok = s.ok
            /\ answered' = [answered EXCEPT ![u] = {}]
            /\ UNCHANGED running
      BY <1>6 DEF Fests!EraseEntry
    <2>2. ent' \in Fests!Entries
      BY <1>3, <2>1
    <2>3. entriesRow' \in Files /\ entriesFile' \in Files
      BY <1>0, <1>1, <1>2, <1>3, <2>1 DEF Fests!Store
    <2>4. answered' \in [Players -> SUBSET Teams]
      BY <1>0, <2>1
    <2> QED  BY <1>0, <2>1, <2>2, <2>3, <2>4 DEF Fests!TypeOK
  <1>7. ASSUME Fests!Refresh \/ Fests!Restart PROVE Fests!TypeOK'
    BY <1>0, <1>7 DEF Fests!TypeOK, Fests!Refresh, Fests!Restart
  <1> QED  BY <1>4, <1>5, <1>6, <1>7 DEF Fests!CallsOf

\* So do the documents, in memory and as they are stored.
LEMMA DocsTyped ==
  ASSUME SplatStoresAssumption, UgcDocs!TypeOK,
         \/ \E u \in Players : UgcDocs!CallsOf(u) \/ UgcDocs!EraseDocs(u)
         \/ UgcDocs!Restart
  PROVE  UgcDocs!TypeOK'
  <1> DEFINE Files == {NoFile} \cup UgcDocs!Maps
  <1>0. /\ docs \in UgcDocs!Maps /\ writes \in Nat /\ docsRow \in Files /\ docsFile \in Files
        /\ UgcDocs!NoDocs \in UgcDocs!Maps
    BY DEF UgcDocs!TypeOK, UgcDocs!NoDocs, UgcDocs!Maps
  <1> DEFINE Kept == docs' \in UgcDocs!Maps /\ writes' \in Nat /\ docsRow' \in Files /\ docsFile' \in Files
  <1>1. Kept => UgcDocs!TypeOK'
    BY DEF UgcDocs!TypeOK, UgcDocs!Maps, UgcDocs!Times
  <1>2. ASSUME NEW m \in UgcDocs!Maps, UgcDocs!Saved(m) PROVE docsRow' \in Files /\ docsFile' \in Files
    BY <1>0, <1>2 DEF UgcDocs!Saved
  <1>3. ASSUME NEW u \in Players, UgcDocs!InitializeAttributes(u) PROVE Kept
    <2>1. writes + 1 \in UgcDocs!Times
      BY <1>0, <1>3, SplatStoresAssumption DEF UgcDocs!InitializeAttributes, UgcDocs!Times, SplatStoresAssumption
    <2>2. docs' \in UgcDocs!Maps
      BY <1>0, <1>3, <2>1 DEF UgcDocs!InitializeAttributes, UgcDocs!Maps
    <2> QED  BY <1>0, <1>2, <1>3, <2>2 DEF UgcDocs!InitializeAttributes
  <1>4. ASSUME NEW u \in Players, NEW ops \in Seq(UgcDocs!Operations), UgcDocs!CommitDocuments(u, ops)
        PROVE  Kept
    <2>1. UgcDocs!Staged(u, ops).docs \in UgcDocs!Maps
      BY <1>4, StagedKeeps DEF UgcDocs!CommitDocuments
    <2>2. docs' \in UgcDocs!Maps
      BY <1>0, <1>4, <2>1 DEF UgcDocs!CommitDocuments
    <2> QED  BY <1>0, <1>2, <1>4, <2>2 DEF UgcDocs!CommitDocuments
  <1>5. ASSUME NEW u \in Players, UgcDocs!EraseDocs(u) PROVE Kept
    <2>1. docs' \in UgcDocs!Maps
      BY <1>0, <1>5 DEF UgcDocs!EraseDocs, UgcDocs!Maps
    <2> QED  BY <1>0, <1>2, <1>5, <2>1 DEF UgcDocs!EraseDocs
  <1>6. ASSUME UgcDocs!Restart PROVE Kept
    BY <1>0, <1>6 DEF UgcDocs!Restart, UgcDocs!OrNoDocs
  <1>7. ASSUME NEW n \in 0 .. UgcMaxOps PROVE [1 .. n -> UgcDocs!Operations] \subseteq Seq(UgcDocs!Operations)
    BY <1>7, SplatStoresAssumption DEF SplatStoresAssumption
  <1> HIDE DEF Kept
  <1> QED  BY <1>1, <1>3, <1>4, <1>5, <1>6, <1>7 DEF UgcDocs!CallsOf

\* The three stores keep their types whatever fails and whoever is erased.
THEOREM TypeCorrect == Spec => []TypeOK
  <1>1. Init => TypeOK
    <2> SUFFICES ASSUME Init PROVE TypeOK
      OBVIOUS
    <2> USE SplatStoresAssumption DEF Init, SplatStoresAssumption
    <2>1. Saves!TypeOK
      BY DEF Saves!Init, Saves!TypeOK, Saves!Saves
    <2>2. Fests!TypeOK
      <3>1. Fests!Nobody \in Fests!Entries /\ NoFile \notin Fests!Entries
        BY DEF Fests!Nobody, Fests!Entries
      <3>2. entriesFile = NoFile \/ entriesFile \in Fests!Entries
        BY <3>1 DEF Fests!Init, Fests!Entries
      <3>3. ASSUME NEW u \in Players
            PROVE  (IF entriesFile = NoFile \/ entriesFile[u] = NoTeam THEN {} ELSE {entriesFile[u]}) \subseteq Teams
        BY <3>2 DEF Fests!Entries
      <3>4. answered \in [Players -> SUBSET Teams]
        BY <3>3 DEF Fests!Init
      <3> QED  BY <3>1, <3>2, <3>4 DEF Fests!Init, Fests!TypeOK
    <2>3. UgcDocs!TypeOK
      BY DEF UgcDocs!Init, UgcDocs!TypeOK, UgcDocs!NoDocs, UgcDocs!Maps
    <2>4. eraser = "idle" /\ erasures = 0 /\ quiet = FALSE /\ left = NoSave /\ gone = "no" /\ 0 \in 0 .. MaxErasures
      OBVIOUS
    <2> QED  BY <2>1, <2>2, <2>3, <2>4, Zenon DEF TypeOK
  <1>2. TypeOK /\ [Next]_vars => TypeOK'
    <2> SUFFICES ASSUME TypeOK, [Next]_vars PROVE TypeOK'
      OBVIOUS
    <2> USE DEF TypeOK
    <2>0. Erased \in Players /\ MaxErasures \in Nat
      BY SplatStoresAssumption DEF SplatStoresAssumption
    <2>1. /\ eraser' \in {"idle", "row", "file", "fests", "docs"} /\ erasures' \in 0 .. MaxErasures
          /\ gone' \in {"no", "yes", "restarted"}
      BY <2>0 DEF Next, SaveCall, FestCall, DocsCall, Called, Refresh, EraseBegins, EraseSave, EraseEntry, EraseDocs,
                  Step, Restart, vars, eraseVars
    <2>5. quiet' \in BOOLEAN
      <3>1. \/ quiet' = quiet \/ quiet' = FALSE \/ quiet' = (job.player # Erased)
            \/ \E u \in Players : quiet' = (quiet /\ u # Erased)
        BY Zenon DEF Next, SaveCall, FestCall, DocsCall, Called, Refresh, EraseBegins, EraseSave, EraseEntry,
                    EraseDocs, Step, Restart, vars, eraseVars
      <3> QED  BY <3>1, Zenon
    <2>2. Saves!TypeOK'
      <3>1. \/ UNCHANGED <<dsn, pg, savesVars>>
            \/ \E u \in Players : \/ Saves!CallsOf(u)
                                  \/ \E ok \in BOOLEAN : Saves!EraseRow(u, ok) \/ Saves!EraseFile(u, ok)
            \/ Saves!Restart
        BY <2>0 DEF Next, SaveCall, FestCall, DocsCall, Refresh, EraseBegins, EraseSave, EraseEntry, EraseDocs,
                    Step, Restart, vars
      <3>2. CASE UNCHANGED <<dsn, pg, savesVars>>
        BY <3>2 DEF savesVars, Saves!TypeOK, Saves!NoJob
      <3> QED  BY <3>1, <3>2, SavesTyped, SplatStoresAssumption
    <2>3. Fests!TypeOK'
      <3>1. \/ UNCHANGED festVars
            \/ \E u \in Players : Fests!CallsOf(u) \/ \E ok \in BOOLEAN : Fests!EraseEntry(u, ok)
            \/ Fests!Refresh \/ Fests!Restart
        BY <2>0 DEF Next, SaveCall, FestCall, DocsCall, Refresh, EraseBegins, EraseSave, EraseEntry, EraseDocs,
                    Restart, vars
      <3>2. CASE UNCHANGED festVars
        BY <3>2 DEF festVars, Fests!TypeOK
      <3> QED  BY <3>1, <3>2, FestsTyped, SplatStoresAssumption
    <2>4. UgcDocs!TypeOK'
      <3>1. \/ UNCHANGED docsVars
            \/ \E u \in Players : UgcDocs!CallsOf(u) \/ UgcDocs!EraseDocs(u)
            \/ UgcDocs!Restart
        BY <2>0 DEF Next, SaveCall, FestCall, DocsCall, Refresh, EraseBegins, EraseSave, EraseEntry, EraseDocs,
                    Restart, vars
      <3>2. CASE UNCHANGED docsVars
        BY <3>2 DEF docsVars, UgcDocs!TypeOK
      <3> QED  BY <3>1, <3>2, DocsTyped, SplatStoresAssumption
    <2>6. left' \in {NoSave} \cup Saves!Saves
      <3>1. left' \in {left, NoSave, file[Erased]}
        BY Zenon DEF Next, SaveCall, FestCall, DocsCall, Called, Refresh, EraseBegins, EraseSave, EraseEntry,
                    EraseDocs, Restart, vars, eraseVars
      <3> QED  BY <2>0, <3>1 DEF Saves!TypeOK
    <2> QED  BY <2>1, <2>2, <2>3, <2>4, <2>5, <2>6
  <1> QED  BY <1>1, <1>2, PTL DEF Spec

-----------------------------------------------------------------------------
(* The eraser: nothing of the player is served                             *)

\* A handler works on its own player's record only.
LEMMA SavesOfOthers ==
  ASSUME SplatStoresAssumption, Saves!TypeOK, NEW u \in Players, u # Erased, Saves!CallsOf(u)
  PROVE  /\ pg' = pg /\ row'[Erased] = row[Erased] /\ file'[Erased] = file[Erased]
         /\ job.player # Erased => job'.player # Erased
  <1>0. Erased \in Players /\ NoSave # Erased
    BY DEF SplatStoresAssumption
  <1>1. CASE \/ Saves!GetSaveRecord(u)
             \/ \E w \in Writes : Saves!CreateSaveRecord(u, w) \/ Saves!WriteSaveRecord(u, w)
    <2>1. /\ pg' = pg /\ file' = file
          /\ row' = row \/ \E rec \in {NoSave} \cup Saves!Saves : row' = [row EXCEPT ![u] = rec]
          /\ job' = job \/ job'.player = u
      BY <1>1 DEF Saves!GetSaveRecord, Saves!CreateSaveRecord, Saves!WriteSaveRecord, Saves!LoadFails,
                  Saves!Load, Saves!Storing
    <2> QED  BY <1>0, <2>1 DEF Saves!TypeOK
  <1>2. CASE Saves!DeleteSaveRecord(u)
    BY <1>0, <1>2 DEF Saves!DeleteSaveRecord, Saves!TypeOK
  <1>3. CASE job.player = u /\ Saves!Store
    <2>1. /\ pg' = pg /\ job'.player = NoSave
          /\ row' = row \/ row' = [row EXCEPT ![u] = job.data]
          /\ file' = file \/ file' = [file EXCEPT ![u] = job.data]
      BY <1>3 DEF Saves!Store, Saves!Stored, Saves!NoJob
    <2> QED  BY <1>0, <2>1 DEF Saves!TypeOK
  <1> QED  BY <1>1, <1>2, <1>3 DEF Saves!CallsOf

\* Once the entries were read, a choice changes the entry of who makes it only.
LEMMA FestsOfOthers ==
  ASSUME SplatStoresAssumption, Fests!TypeOK, NEW u \in Players, u # Erased, Fests!CallsOf(u), loaded
  PROVE  loaded' /\ ent'[Erased] = ent[Erased]
  <1>0. Erased \in Players /\ ent \in [Players -> {NoTeam} \cup Teams]
    BY DEF SplatStoresAssumption, Fests!TypeOK, Fests!Entries
  <1>1. \A o \in Fests!Opened : o.ent = ent
    BY DEF Fests!Opened
  <1>2. CASE Fests!GetFestEntry(u)
    BY <1>1, <1>2 DEF Fests!GetFestEntry
  <1>3. ASSUME NEW t \in Teams, Fests!CreateFestEntry(u, t) PROVE loaded' /\ ent'[Erased] = ent[Erased]
    <2>1. loaded' /\ (ent' = ent \/ ent' = [ent EXCEPT ![u] = t])
      BY <1>1, <1>3 DEF Fests!CreateFestEntry
    <2> QED  BY <1>0, <2>1
  <1> QED  BY <1>2, <1>3 DEF Fests!CallsOf

\* Nobody else writes under the player's name.
LEMMA DocsOfOthers ==
  ASSUME SplatStoresAssumption, UgcDocs!TypeOK, NEW u \in Players, u # Erased, UgcDocs!CallsOf(u),
         NEW p \in Paths, UserOf[p] = Erased
  PROVE  docs'[p] = docs[p]
  <1>0. Erased # NoUser /\ docs \in UgcDocs!Maps
    BY DEF SplatStoresAssumption, UgcDocs!TypeOK
  <1>1. CASE UgcDocs!InitializeAttributes(u)
    <2>1. UserOf[AttributesOf[u]] = u
      BY DEF SplatStoresAssumption
    <2> QED  BY <1>0, <1>1, <2>1 DEF UgcDocs!InitializeAttributes, UgcDocs!Maps
  <1>2. ASSUME NEW n \in 0 .. UgcMaxOps, NEW ops \in [1 .. n -> UgcDocs!Operations],
               UgcDocs!CommitDocuments(u, ops)
        PROVE  docs'[p] = docs[p]
    <2>1. ops \in Seq(UgcDocs!Operations)
      BY DEF SplatStoresAssumption
    <2>2. UgcDocs!Staged(u, ops).docs[p] = docs[p]
      BY <1>0, <1>2, <2>1, StagedKeeps DEF UgcDocs!CommitDocuments
    <2> QED  BY <1>2, <2>2 DEF UgcDocs!CommitDocuments
  <1> QED  BY <1>1, <1>2 DEF UgcDocs!CallsOf

\* What is gone stays gone while only others call.
LEMMA GoneStays ==
  ASSUME SplatStoresAssumption, TypeOK, NEW u \in Players, u # Erased,
         SaveCall(u) \/ FestCall(u) \/ DocsCall(u), left' = left
  PROVE  /\ job.player # Erased => job'.player # Erased
         /\ RowGone => RowGone'
         /\ FileGone => FileGone'
         /\ FestGone => FestGone'
         /\ DocsGone => DocsGone'
  <1> USE DEF TypeOK, RowGone, FileGone, FestGone, DocsGone
  <1>1. CASE SaveCall(u)
    BY <1>1, SavesOfOthers DEF SaveCall, festVars, docsVars, UgcDocs!NoDoc
  <1>2. CASE FestCall(u)
    BY <1>2, FestsOfOthers DEF FestCall, savesVars, docsVars, UgcDocs!NoDoc
  <1>3. CASE DocsCall(u)
    BY <1>3, DocsOfOthers DEF DocsCall, savesVars, festVars, UgcDocs!NoDoc
  <1> QED  BY <1>1, <1>2, <1>3

\* The eraser's steps, each of which removes what the next state has gone.
LEMMA EraserSteps ==
  ASSUME SplatStoresAssumption, TypeOK, EraseInv, EraseSave \/ EraseEntry \/ EraseDocs
  PROVE  EraseInv'
  <1> USE DEF TypeOK, EraseInv, RowGone, FileGone, FestGone, DocsGone
  <1>0. Erased \in Players /\ gone # "yes"
    BY DEF SplatStoresAssumption, EraseSave, EraseEntry, EraseDocs, Step
  <1>1. ASSUME NEW ok \in BOOLEAN, Step("row", IF ok THEN "file" ELSE "idle"), Saves!EraseRow(Erased, ok),
               UNCHANGED <<festVars, docsVars, left, gone>>
        PROVE  EraseInv'
    BY <1>0, <1>1 DEF Step, Saves!EraseRow, Saves!TypeOK
  <1>2. ASSUME NEW ok \in BOOLEAN, Step("file", "fests"), Saves!EraseFile(Erased, ok),
               left' = IF ok THEN NoSave ELSE file[Erased], UNCHANGED <<festVars, docsVars, gone>>
        PROVE  EraseInv'
    BY <1>0, <1>2 DEF Step, Saves!EraseFile, Saves!TypeOK
  <1>3. CASE EraseEntry
    <2>1. PICK ok \in BOOLEAN : /\ Step("fests", IF ok THEN "docs" ELSE "idle") /\ Fests!EraseEntry(Erased, ok)
                                /\ UNCHANGED <<savesVars, docsVars, left, gone>>
      BY <1>3 DEF EraseEntry
    <2>2. loaded' = TRUE /\ ent'[Erased] = NoTeam
      <3>1. PICK o \in Fests!Opened : loaded' = TRUE /\ ent' = [o.ent EXCEPT ![Erased] = NoTeam]
        BY <2>1 DEF Fests!EraseEntry
      <3>2. Fests!TypeOK'
        BY <1>0, <2>1, FestsTyped
      <3>3. ent' \in [Players -> {NoTeam} \cup Teams]
        BY <3>2 DEF Fests!TypeOK, Fests!Entries
      <3> QED  BY <1>0, <3>1, <3>3
    <2> QED  BY <1>0, <2>1, <2>2 DEF Step, savesVars
  <1>4. CASE EraseDocs
    BY <1>0, <1>4 DEF EraseDocs, Step, UgcDocs!EraseDocs, savesVars, festVars, UgcDocs!NoDoc
  <1> QED  BY <1>1, <1>2, <1>3, <1>4 DEF EraseSave

\* erase.go: what a run has removed stays away while the player does not call.
THEOREM EraseInvariance == Spec => []EraseInv
  <1>1. Init => EraseInv
    BY DEF Init, EraseInv
  <1>2. TypeOK /\ EraseInv /\ [Next]_vars => EraseInv'
    <2> SUFFICES ASSUME TypeOK, EraseInv, [Next]_vars PROVE EraseInv'
      OBVIOUS
    <2>1. ASSUME UNCHANGED <<pg, savesVars, ent, loaded, docs>>, UNCHANGED <<eraser, quiet, left, gone>> PROVE EraseInv'
      BY <2>1 DEF EraseInv, RowGone, FileGone, FestGone, DocsGone, savesVars, UgcDocs!NoDoc
    <2>2. ASSUME NEW u \in Players, SaveCall(u) \/ FestCall(u) \/ DocsCall(u) PROVE EraseInv'
      <3>1. Called(u)
        BY <2>2 DEF SaveCall, FestCall, DocsCall
      <3>2. CASE u = Erased
        BY <3>1, <3>2 DEF Called, EraseInv
      <3>3. CASE u # Erased
        BY <2>2, <3>1, <3>3, GoneStays, SplatStoresAssumption DEF Called, EraseInv
      <3> QED  BY <3>2, <3>3
    <2>3. CASE Refresh
      BY <2>1, <2>3 DEF Refresh, Fests!Refresh, savesVars, docsVars, eraseVars
    <2>4. CASE EraseBegins
      BY <2>4 DEF EraseBegins, EraseInv, savesVars
    <2>5. CASE EraseSave \/ EraseEntry \/ EraseDocs
      BY <2>5, EraserSteps, SplatStoresAssumption
    <2>6. CASE Restart
      BY <2>6 DEF Restart, EraseInv
    <2>7. CASE UNCHANGED vars
      BY <2>1, <2>7 DEF vars, savesVars, festVars, docsVars, eraseVars
    <2> QED  BY <2>2, <2>3, <2>4, <2>5, <2>6, <2>7 DEF Next
  <1> QED  BY <1>1, <1>2, TypeCorrect, PTL DEF Spec

\* ErasedNotServed (erase.go): after an erasure that was answered OK nothing of
\* the player is served by this process, whatever failed and whatever the calls
\* of others did between its steps, but a save whose file that run could not remove.
THEOREM ErasedIsGone == Spec => []ErasedNotServed
  <1>1. EraseInv => ErasedNotServed
    BY DEF EraseInv, RowGone, FileGone, FestGone, DocsGone, ErasedNotServed, NothingServed, Saves!Served, Entry
  <1> QED  BY <1>1, EraseInvariance, PTL

-----------------------------------------------------------------------------
(* The lobby: two consoles get the same messages in one order              *)

Stamps == Nat \X Nat

\* A call that has taken its cursor and has not delivered; a cursor in a queue.
Busy(p)        == calls[p] # Lob!Idle
Waiting(c, qs) == \E l \in Listeners : \E k \in 1 .. Len(qs[l]) : qs[l][k] = c

\* A cursor is taken by one call, which puts it into the queues at once: none
\* that a call still holds is in a queue, or with another call, or to come.
LobbyInv ==
  /\ cursor \in Stamps
  /\ calls \in [Calls -> [cursor : Stamps, users : SUBSET Players, lobbies : SUBSET LobbyNames]]
  /\ queue \in [Listeners -> Seq(Stamps)]
  /\ \A p \in Calls : Busy(p) => ~ Lob!Older(cursor, calls[p].cursor) /\ ~ Waiting(calls[p].cursor, queue)
  /\ \A l \in Listeners : \A k \in 1 .. Len(queue[l]) : ~ Lob!Older(cursor, queue[l][k])
  /\ \A p, q \in Calls : p # q /\ Busy(p) /\ Busy(q) => calls[p].cursor # calls[q].cursor
  /\ SameOrder

\* A new cursor is newer than every one before it, whatever the clock shows.
LEMMA CursorNewer ==
  ASSUME cursor \in Stamps, LastMs \in Nat, Lob!TakeCursor
  PROVE  /\ cursor' \in Stamps /\ Lob!Older(cursor, cursor')
         /\ \A c \in Stamps : ~ Lob!Older(cursor, c) => ~ Lob!Older(cursor', c) /\ c # cursor'
  BY DEF Stamps, Lob!TakeCursor, Lob!NextCursor, Lob!Older

\* A cursor taken and queues left as they are, or shorter at the front, or empty.
LEMMA QueuesOnlyShrink ==
  ASSUME LobbyInv, queue' \in [Listeners -> Seq(Stamps)],
         \A l \in Listeners : queue'[l] \in {queue[l], <<>>} \/ (queue[l] # <<>> /\ queue'[l] = Tail(queue[l]))
  PROVE  /\ \A l \in Listeners : \A k \in 1 .. Len(queue'[l]) :
              \E i \in 1 .. Len(queue[l]) : queue'[l][k] = queue[l][i]
         /\ SameOrder'
  <1> USE DEF LobbyInv
  <1>1. ASSUME NEW l \in Listeners
        PROVE  \E d \in {0, 1} : \A k \in 1 .. Len(queue'[l]) :
                 k + d \in 1 .. Len(queue[l]) /\ queue'[l][k] = queue[l][k + d]
    <2>0. queue[l] \in Seq(Stamps) /\ queue'[l] \in Seq(Stamps)
      OBVIOUS
    <2>1. CASE queue'[l] = queue[l]
      <3>1. \A k \in 1 .. Len(queue'[l]) : k + 0 \in 1 .. Len(queue[l]) /\ queue'[l][k] = queue[l][k + 0]
        BY <2>0, <2>1
      <3> QED  BY <3>1
    <2>2. CASE queue'[l] = <<>>
      <3>1. \A k \in 1 .. Len(queue'[l]) : k + 0 \in 1 .. Len(queue[l]) /\ queue'[l][k] = queue[l][k + 0]
        BY <2>0, <2>2
      <3> QED  BY <3>1
    <2>3. CASE queue[l] # <<>> /\ queue'[l] = Tail(queue[l])
      <3>1. \A k \in 1 .. Len(queue'[l]) : k + 1 \in 1 .. Len(queue[l]) /\ queue'[l][k] = queue[l][k + 1]
        BY <2>0, <2>3
      <3> QED  BY <3>1
    <2> QED  BY <2>1, <2>2, <2>3
  <1>2. ASSUME NEW l \in Listeners, NEW r \in Listeners,
               NEW i \in 1 .. Len(queue'[l]), NEW j \in 1 .. Len(queue'[l]),
               NEW k \in 1 .. Len(queue'[r]), NEW n \in 1 .. Len(queue'[r]),
               i < j, queue'[l][i] = queue'[r][n], queue'[l][j] = queue'[r][k]
        PROVE  n < k
    <2>1. PICK d \in {0, 1} : \A x \in 1 .. Len(queue'[l]) :
            x + d \in 1 .. Len(queue[l]) /\ queue'[l][x] = queue[l][x + d]
      BY <1>1
    <2>2. PICK e \in {0, 1} : \A x \in 1 .. Len(queue'[r]) :
            x + e \in 1 .. Len(queue[r]) /\ queue'[r][x] = queue[r][x + e]
      BY <1>1
    <2>3. {i, j, k, n, d, e} \subseteq Int /\ i + d < j + d
      BY <1>2
    <2>4. PICK i1 \in 1 .. Len(queue[l]), j1 \in 1 .. Len(queue[l]),
               k1 \in 1 .. Len(queue[r]), n1 \in 1 .. Len(queue[r]) :
            /\ i1 = i + d /\ j1 = j + d /\ k1 = k + e /\ n1 = n + e
            /\ queue[l][i1] = queue[r][n1] /\ queue[l][j1] = queue[r][k1]
      <3>1. /\ i + d \in 1 .. Len(queue[l]) /\ j + d \in 1 .. Len(queue[l])
            /\ queue'[l][i] = queue[l][i + d] /\ queue'[l][j] = queue[l][j + d]
        BY <2>1
      <3>2. /\ k + e \in 1 .. Len(queue[r]) /\ n + e \in 1 .. Len(queue[r])
            /\ queue'[r][k] = queue[r][k + e] /\ queue'[r][n] = queue[r][n + e]
        BY <2>2
      <3> QED  BY <1>2, <3>1, <3>2
    <2>5. i1 < j1
      BY <2>3, <2>4
    <2>6. i1 < j1 /\ queue[l][i1] = queue[r][n1] => queue[l][j1] # queue[r][k1] \/ n1 < k1
      BY Zenon DEF SameOrder, Lob!SameOrder
    <2>7. n1 < k1
      BY <2>4, <2>5, <2>6
    <2> QED  BY <2>3, <2>4, <2>7
  <1>3. SameOrder'
    <2> SUFFICES ASSUME NEW l \in Listeners, NEW r \in Listeners,
                        NEW i \in 1 .. Len(queue'[l]), NEW j \in 1 .. Len(queue'[l]),
                        NEW k \in 1 .. Len(queue'[r]), NEW n \in 1 .. Len(queue'[r]),
                        i < j, queue'[l][i] = queue'[r][n]
                 PROVE  queue'[l][j] # queue'[r][k] \/ n < k
      BY ZenonT(60) DEF SameOrder, Lob!SameOrder
    <2>1. queue'[l][j] = queue'[r][k] => n < k
      BY <1>2, Zenon
    <2> QED  BY <2>1, Zenon
  <1>4. ASSUME NEW l \in Listeners, NEW k \in 1 .. Len(queue'[l])
        PROVE  \E i \in 1 .. Len(queue[l]) : queue'[l][k] = queue[l][i]
    BY <1>1
  <1> QED  BY <1>3, <1>4

\* Taking a cursor, and streams that come, go and send.
LEMMA StreamSteps ==
  ASSUME Lob!LobbyAssumption, LobbyInv,
         \E l \in Listeners : \/ \E name \in LobbyNames : Lob!Listen(l, name)
                              \/ Lob!KeepAlive(l) \/ Lob!Send(l) \/ Lob!HangUp(l)
  PROVE  LobbyInv'
  <1> USE DEF LobbyInv
  <1>1. calls' = calls
    BY DEF Lob!Listen, Lob!KeepAlive, Lob!Send, Lob!HangUp
  <1>2. /\ cursor' \in Stamps
        /\ \A c \in Stamps : ~ Lob!Older(cursor, c) => ~ Lob!Older(cursor', c)
    <2>1. cursor' = cursor \/ Lob!TakeCursor
      BY DEF Lob!Listen, Lob!KeepAlive, Lob!Send, Lob!HangUp
    <2> QED  BY <2>1, CursorNewer DEF Lob!LobbyAssumption
  <1>3. /\ queue' \in [Listeners -> Seq(Stamps)]
        /\ \A l \in Listeners : queue'[l] \in {queue[l], <<>>} \/ (queue[l] # <<>> /\ queue'[l] = Tail(queue[l]))
    <2>1. PICK l \in Listeners : \/ queue' = queue
                                 \/ queue' = [queue EXCEPT ![l] = <<>>]
                                 \/ queue[l] # <<>> /\ queue' = [queue EXCEPT ![l] = Tail(@)]
      BY DEF Lob!Listen, Lob!KeepAlive, Lob!Send, Lob!HangUp
    <2>2. queue[l] \in Seq(Stamps) /\ (queue[l] # <<>> => Tail(queue[l]) \in Seq(Stamps)) /\ <<>> \in Seq(Stamps)
      OBVIOUS
    <2>3. PICK q \in Seq(Stamps) :
            /\ queue' = [queue EXCEPT ![l] = q]
            /\ q \in {queue[l], <<>>} \/ (queue[l] # <<>> /\ q = Tail(queue[l]))
      BY <2>1, <2>2
    <2>4. \A m \in Listeners : queue'[m] = IF m = l THEN q ELSE queue[m]
      BY <2>3
    <2>5. queue' \in [Listeners -> Seq(Stamps)]
      BY <2>3
    <2> QED  BY <2>3, <2>4, <2>5
  <1>4. /\ \A l \in Listeners : \A k \in 1 .. Len(queue'[l]) :
             \E i \in 1 .. Len(queue[l]) : queue'[l][k] = queue[l][i]
        /\ SameOrder'
    BY <1>3, QueuesOnlyShrink
  <1>5. ASSUME NEW c, Waiting(c, queue') PROVE Waiting(c, queue)
    <2>1. PICK l \in Listeners : \E k \in 1 .. Len(queue'[l]) : queue'[l][k] = c
      BY <1>5, Zenon DEF Waiting
    <2>2. PICK k \in 1 .. Len(queue'[l]) : queue'[l][k] = c
      BY <2>1
    <2>3. PICK i \in 1 .. Len(queue[l]) : queue[l][i] = c
      BY <1>4, <2>2, Zenon
    <2> QED  BY <2>3, Zenon DEF Waiting
  <1>6. \A p \in Calls : Busy(p)' => ~ Lob!Older(cursor', calls'[p].cursor) /\ ~ Waiting(calls'[p].cursor, queue')
    BY <1>1, <1>2, <1>5 DEF Busy, Lob!Idle, Lob!NoCursor
  <1>7. \A l \in Listeners : \A k \in 1 .. Len(queue'[l]) : ~ Lob!Older(cursor', queue'[l][k])
    <2>1. \A l \in Listeners : \A i \in 1 .. Len(queue[l]) : queue[l][i] \in Stamps
      OBVIOUS
    <2> QED  BY <1>2, <1>4, <2>1
  <1> QED  BY <1>1, <1>2, <1>3, <1>4, <1>6, <1>7 DEF Busy, Lob!Idle, Lob!NoCursor, Waiting

\* A call that builds its message.
LEMMA BuildStep ==
  ASSUME Lob!LobbyAssumption, LobbyInv, NEW p \in Calls, NEW to \in SUBSET Players,
         NEW names \in SUBSET LobbyNames, Lob!Build(p, to, names)
  PROVE  LobbyInv'
  <1> USE DEF LobbyInv
  <1>1. /\ cursor' \in Stamps /\ Lob!Older(cursor, cursor')
        /\ \A c \in Stamps : ~ Lob!Older(cursor, c) => ~ Lob!Older(cursor', c) /\ c # cursor'
    BY CursorNewer DEF Lob!LobbyAssumption, Lob!Build
  <1>2. queue' = queue /\ calls' = [calls EXCEPT ![p] = [cursor |-> cursor', users |-> to, lobbies |-> names]]
    BY DEF Lob!Build
  <1>3. calls' \in [Calls -> [cursor : Stamps, users : SUBSET Players, lobbies : SUBSET LobbyNames]]
    BY <1>1, <1>2
  <1>4. /\ calls'[p].cursor = cursor'
        /\ \A q \in Calls : q # p => calls'[q] = calls[q]
    BY <1>2
  <1>5. ~ Lob!Older(cursor', cursor')
    BY <1>1 DEF Lob!Older, Stamps
  <1>6. ~ Waiting(cursor', queue') /\ \A c : Waiting(c, queue') = Waiting(c, queue)
    BY <1>1, <1>2 DEF Waiting
  <1>7. \A q \in Calls : Busy(q)' => ~ Lob!Older(cursor', calls'[q].cursor) /\ ~ Waiting(calls'[q].cursor, queue')
    BY <1>1, <1>4, <1>5, <1>6 DEF Busy, Lob!Idle, Lob!NoCursor
  <1>8. \A q, r \in Calls : q # r /\ Busy(q)' /\ Busy(r)' => calls'[q].cursor # calls'[r].cursor
    <2>1. ASSUME NEW q \in Calls, q # p, Busy(q)'
          PROVE  Busy(q) /\ calls'[q].cursor = calls[q].cursor /\ calls[q].cursor # cursor'
      <3>1. calls'[q] = calls[q] /\ Busy(q)
        BY <1>4, <2>1 DEF Busy
      <3>2. calls[q].cursor \in Stamps /\ ~ Lob!Older(cursor, calls[q].cursor)
        BY <3>1
      <3> QED  BY <1>1, <3>1, <3>2
    <2> QED  BY <1>4, <2>1
  <1>9. SameOrder' /\ \A l \in Listeners : \A k \in 1 .. Len(queue'[l]) : ~ Lob!Older(cursor', queue'[l][k])
    BY <1>1, <1>2 DEF SameOrder, Lob!SameOrder
  <1> QED  BY <1>1, <1>2, <1>3, <1>7, <1>8, <1>9

\* A message goes to the end of every queue it is for, under one lock.
LEMMA DeliverStep ==
  ASSUME Lob!LobbyAssumption, LobbyInv, NEW p \in Calls, Lob!Deliver(p)
  PROVE  LobbyInv'
  <1> USE DEF LobbyInv
  <1> DEFINE c == calls[p].cursor
             To == {l \in Listeners : Lob!Matches(calls[p], l) /\ Len(queue[l]) < QueueCap}
  <1>1. /\ cursor' = cursor /\ calls' = [calls EXCEPT ![p] = Lob!Idle]
        /\ queue' = [l \in Listeners |-> IF l \in To THEN Append(queue[l], c) ELSE queue[l]]
        /\ Busy(p)
    BY DEF Lob!Deliver, Busy
  <1>2. c \in Stamps /\ ~ Waiting(c, queue) /\ ~ Lob!Older(cursor, c)
    BY <1>1
  <1> HIDE DEF To, c
  <1>3. queue' \in [Listeners -> Seq(Stamps)]
    BY <1>1, <1>2
  <1>4. ASSUME NEW l \in Listeners, NEW k \in 1 .. Len(queue'[l])
        PROVE  \/ k \in 1 .. Len(queue[l]) /\ queue'[l][k] = queue[l][k]
               \/ k = Len(queue'[l]) /\ queue'[l][k] = c
    BY <1>1, <1>2
  <1>5. \A l \in Listeners : \A k \in 1 .. Len(queue[l]) : queue[l][k] # c
    BY <1>2 DEF Waiting
  <1>6. SameOrder'
    <2> SUFFICES ASSUME NEW l \in Listeners, NEW r \in Listeners,
                        NEW i \in 1 .. Len(queue'[l]), NEW j \in 1 .. Len(queue'[l]),
                        NEW k \in 1 .. Len(queue'[r]), NEW n \in 1 .. Len(queue'[r]),
                        i < j, queue'[l][i] = queue'[r][n], queue'[l][j] = queue'[r][k]
                 PROVE  n < k
      BY DEF SameOrder, Lob!SameOrder
    <2>0. {i, j, k, n} \subseteq Int /\ i < j /\ j <= Len(queue'[l]) /\ n <= Len(queue'[r])
      BY <1>3
    <2>1. i \in 1 .. Len(queue[l]) /\ queue'[l][i] = queue[l][i]
      BY <1>4, <2>0
    <2>2. n \in 1 .. Len(queue[r]) /\ queue'[r][n] = queue[r][n]
      <3>1. queue'[r][n] # c
        BY <1>5, <2>1
      <3> QED  BY <1>4, <3>1
    <2>3. CASE queue'[l][j] = c
      <3>1. n # k
        BY <1>5, <2>2, <2>3
      <3>2. k = Len(queue'[r])
        <4>1. k \in 1 .. Len(queue[r]) => queue[r][k] # c
          BY <1>5
        <4> QED  BY <1>4, <2>3, <4>1
      <3> QED  BY <2>0, <3>1, <3>2
    <2>4. CASE queue'[l][j] # c
      <3>1. /\ j \in 1 .. Len(queue[l]) /\ queue'[l][j] = queue[l][j]
            /\ k \in 1 .. Len(queue[r]) /\ queue'[r][k] = queue[r][k]
        BY <1>4, <2>4
      <3>2. queue[l][i] = queue[r][n] /\ queue[l][j] = queue[r][k]
        BY <2>1, <2>2, <3>1
      <3> QED  BY <2>0, <2>1, <2>2, <3>1, <3>2, Zenon DEF SameOrder, Lob!SameOrder
    <2> QED  BY <2>3, <2>4
  <1>7. \A l \in Listeners : \A k \in 1 .. Len(queue'[l]) : ~ Lob!Older(cursor', queue'[l][k])
    BY <1>1, <1>2, <1>4
  <1>8. \A d : Waiting(d, queue') => Waiting(d, queue) \/ d = c
    BY <1>4 DEF Waiting
  <1>9. /\ ~ Busy(p)' /\ \A q \in Calls : q # p => calls'[q] = calls[q]
        /\ calls' \in [Calls -> [cursor : Stamps, users : SUBSET Players, lobbies : SUBSET LobbyNames]]
    BY <1>1 DEF Busy, Lob!Idle, Lob!NoCursor, Stamps
  <1>10. \A q \in Calls : Busy(q)' => q # p /\ Busy(q) /\ calls'[q] = calls[q] /\ calls[q].cursor # c
    BY <1>1, <1>9 DEF Busy, Lob!Idle, Lob!NoCursor, c
  <1> QED  BY <1>1, <1>3, <1>6, <1>7, <1>8, <1>9, <1>10

\* lobby.go: the cursors are told apart and the queues agree.
THEOREM LobbyInvariance == ASSUME Lob!LobbyAssumption PROVE Lob!Spec => []LobbyInv
  <1>1. Lob!Init => LobbyInv
    BY DEF Lob!Init, LobbyInv, Busy, Lob!Idle, Lob!NoCursor, Stamps, SameOrder, Lob!SameOrder
  <1>2. LobbyInv /\ [Lob!Next]_(Lob!vars) => LobbyInv'
    <2> SUFFICES ASSUME LobbyInv, [Lob!Next]_(Lob!vars) PROVE LobbyInv'
      OBVIOUS
    <2>1. ASSUME NEW p \in Calls, Lob!SendMessage(p) \/ Lob!SendLobbyMessage(p) PROVE LobbyInv'
      BY <2>1, BuildStep DEF Lob!SendMessage, Lob!SendLobbyMessage
    <2>2. ASSUME NEW p \in Calls, Lob!Deliver(p) PROVE LobbyInv'
      BY <2>2, DeliverStep
    <2>3. ASSUME NEW l \in Listeners,
                 \/ \E name \in LobbyNames : Lob!Listen(l, name)
                 \/ Lob!KeepAlive(l) \/ Lob!Send(l) \/ Lob!HangUp(l)
          PROVE  LobbyInv'
      BY <2>3, StreamSteps
    <2>4. CASE UNCHANGED Lob!vars
      BY <2>4 DEF Lob!vars, LobbyInv, Busy, Waiting, Lob!Idle, Lob!NoCursor, SameOrder, Lob!SameOrder
    <2> QED  BY <2>1, <2>2, <2>3, <2>4 DEF Lob!Next
  <1> QED  BY <1>1, <1>2, PTL DEF Lob!Spec

\* SameOrder (lobby.go, deliver): consoles that wait for the same messages get
\* them in one order, whatever the clock and whichever call comes first.
THEOREM OneOrder == ASSUME Lob!LobbyAssumption PROVE Lob!Spec => []SameOrder
  <1>1. LobbyInv => SameOrder
    BY DEF LobbyInv
  <1> QED  BY <1>1, LobbyInvariance, PTL

-----------------------------------------------------------------------------
(* The rotation: what is served describes the present                      *)

\* A file that has every kind of window at the present, in order, and versus
\* windows for some hours to come.
Describes(f, hours) ==
  /\ \A k \in Rot!Kinds : f[k] # <<>> /\ Rot!InOrder(f[k]) /\ Rot!Covers(f[k], now)
  /\ Rot!VsEnd(f) - now >= hours

\* What is served was found fit at the keeper's last look, and an hour has at
\* most gone since.
RotationInv ==
  /\ Rot!TypeOK
  /\ current # Down /\ ~ refused /\ (current \in OperatorFiles => Rot!Whole(current)) =>
       Describes(current, IF checked THEN MinAhead ELSE MinAhead - 1)

\* A time is at or after the boundary it is truncated to, and before the next.
LEMMA Truncated ==
  ASSUME NEW t \in Int, NEW period \in Nat \ {0}
  PROVE  /\ Rot!Truncate(t, period) \in Int
         /\ Rot!Truncate(t, period) <= t /\ t < Rot!Truncate(t, period) + period
  BY DEF Rot!Truncate

\* So many periods last the hours, and exactly where the hours are periods.
LEMMA PeriodsLast ==
  ASSUME NEW hours \in Nat \ {0}, NEW period \in Nat \ {0}
  PROVE  /\ Rot!Periods(hours, period) \in Nat \ {0}
         /\ Rot!Periods(hours, period) * period \in Int /\ hours <= Rot!Periods(hours, period) * period
         /\ hours % period = 0 => Rot!Periods(hours, period) * period = hours
  <1> DEFINE n == (hours + period - 1) \div period
             m == hours \div period
  <1>1. n \in Int /\ n * period <= hours + period - 1 /\ hours + period - 1 < n * period + period
    OBVIOUS
  <1>2. n * period \in Int /\ hours <= n * period /\ 0 * period < n * period
    BY <1>1
  <1>3. 0 < n
    BY <1>1, <1>2
  <1>4. ASSUME hours % period = 0 PROVE n * period = hours
    <2>1. m \in Int /\ hours = m * period
      BY <1>4
    <2>2. m * period <= n * period /\ n * period < (m + 1) * period
      BY <1>1, <1>2, <2>1
    <2>3. n < m + 1 /\ ~ (n < m)
      <3>1. n < m => n * period < m * period
        BY <1>1, <2>1
      <3> QED  BY <1>1, <2>1, <2>2, <3>1
    <2> QED  BY <1>1, <2>1, <2>3
  <1> QED  BY <1>1, <1>2, <1>3, <1>4 DEF Rot!Periods

\* n windows in order, without gaps, between two times.
Gapless(ws, n, from, to) ==
  /\ ws \in Seq(Rot!Window) /\ Len(ws) = n /\ ws # <<>> /\ Rot!InOrder(ws)
  /\ \A i \in 2 .. n : ws[i].start = ws[i - 1].end
  /\ ws[n].end = to
  /\ \A at \in Int : from <= at /\ at < to => Rot!Covers(ws, at)

\* A grid of windows: in order, without gaps, from its start to its last end.
LEMMA GridIsWhole ==
  ASSUME NEW start \in Int, NEW period \in Nat \ {0}, NEW n \in Nat \ {0}
  PROVE  Gapless(Rot!Grid(start, period, n), n, start, start + n * period)
  <1> DEFINE ws == Rot!Grid(start, period, n)
  <1>1. ws = [i \in 1 .. n |-> [start |-> start + (i - 1) * period, end |-> start + i * period]]
    BY DEF Rot!Grid
  <1> HIDE DEF ws
  <1>2. ASSUME NEW i \in 1 .. n
        PROVE  /\ i \in Int /\ (i - 1) * period \in Int /\ i * period \in Int
               /\ i * period = (i - 1) * period + period
               /\ ws[i].start = start + (i - 1) * period /\ ws[i].end = start + i * period
               /\ ws[i] \in Rot!Window
    <2>1. i \in Int /\ (i - 1) * period \in Int /\ i * period \in Int /\ i * period = (i - 1) * period + period
      OBVIOUS
    <2> QED  BY <1>1, <2>1 DEF Rot!Window
  <1>3. ws \in Seq(Rot!Window) /\ Len(ws) = n /\ DOMAIN ws = 1 .. n
    <2>1. ws \in [1 .. n -> Rot!Window]
      BY <1>1, <1>2
    <2> QED  BY <2>1
  <1>4. \A i \in 2 .. n : i - 1 \in 1 .. n /\ i \in 1 .. n /\ ws[i].start = ws[i - 1].end
    BY <1>2
  <1>5. Rot!InOrder(ws)
    <2> SUFFICES ASSUME NEW i \in 1 .. n
                 PROVE  ws[i].start < ws[i].end /\ (i > 1 => ws[i - 1].end <= ws[i].start)
      BY <1>3 DEF Rot!InOrder
    <2>1. ws[i].start < ws[i].end
      BY <1>2
    <2>2. i > 1 => i \in 2 .. n /\ ws[i].start \in Int
      BY <1>2
    <2> QED  BY <1>4, <2>1, <2>2
  <1>6. ASSUME NEW at \in Int, start <= at, at < start + n * period PROVE Rot!Covers(ws, at)
    <2> DEFINE q == (at - start) \div period
    <2>1. q \in Int /\ q * period \in Int /\ q * period <= at - start /\ at - start < q * period + period
      OBVIOUS
    <2>2. q * period < n * period /\ 0 * period < (q + 1) * period
      BY <1>6, <2>1
    <2> HIDE DEF q
    <2>3. q < n /\ 0 < q + 1
      BY <2>1, <2>2
    <2>4. q + 1 \in 1 .. n /\ (q + 1) - 1 = q /\ (q + 1) * period = q * period + period
      BY <2>1, <2>3
    <2>5. ws[q + 1].start = start + q * period /\ ws[q + 1].end = start + (q * period + period)
      BY <1>2, <2>4
    <2>6. Rot!Contains(ws[q + 1], at)
      BY <2>1, <2>5 DEF Rot!Contains
    <2> QED  BY <1>3, <2>4, <2>6 DEF Rot!Covers
  <1>7. ws # <<>> /\ n \in 1 .. n
    BY <1>3
  <1>8. ws[n].end = start + n * period
    BY <1>2, <1>7
  <1> QED  BY <1>3, <1>4, <1>5, <1>6, <1>7, <1>8 DEF ws, Gapless

\* Windows of a kind that begin by t and reach as far as the versus windows.
Reaches(ws, t, until) ==
  /\ ws \in Seq(Rot!Window) /\ ws # <<>> /\ Rot!InOrder(ws)
  /\ \A i \in 2 .. Len(ws) : ws[i].start = ws[i - 1].end
  /\ ws[Len(ws)].end >= until
  /\ \A at \in Int : t <= at /\ at < until => Rot!Covers(ws, at)

\* A grid does where its start and its end do.
LEMMA GridReaches ==
  ASSUME NEW start \in Int, NEW period \in Nat \ {0}, NEW n \in Nat \ {0}, NEW t \in Int, NEW until \in Int,
         start <= t, until <= start + n * period
  PROVE  Reaches(Rot!Grid(start, period, n), t, until)
  <1>1. start + n * period \in Int
    OBVIOUS
  <1>2. \A at \in Int : t <= at /\ at < until => start <= at /\ at < start + n * period
    BY <1>1
  <1> DEFINE ws == Rot!Grid(start, period, n)
  <1>3. Gapless(ws, n, start, start + n * period)
    BY GridIsWhole
  <1> HIDE DEF ws
  <1>4. ws[n].end >= until
    BY <1>1, <1>3 DEF Gapless
  <1>5. Reaches(ws, t, until)
    BY <1>2, <1>3, <1>4 DEF Gapless, Reaches
  <1> QED  BY <1>5 DEF ws

\* A generated file has every kind from its time on until its versus windows end,
\* and those reach past the next renewal.
LEMMA GeneratedReaches ==
  ASSUME Rot!RotationAssumption, NEW t \in Int
  PROVE  /\ Rot!VsEnd(Rot!Generate(t)) \in Int /\ t + RefreshAhead < Rot!VsEnd(Rot!Generate(t))
         /\ \A k \in Rot!Kinds : Reaches(Rot!Generate(t)[k], t, Rot!VsEnd(Rot!Generate(t)))
  <1> DEFINE f == Rot!Generate(t)
             start == Rot!Truncate(t, VsPeriod)
             shift == Rot!Truncate(t, CoopPeriod)
             half == SeasonPeriod \div 2
             season == Rot!Truncate(t - half, Day)
             rounds == Rot!Periods(GenerateHours, VsPeriod)
             shifts == Rot!Periods(GenerateHours + CoopPeriod, CoopPeriod)
             one == 1
             until == start + GenerateHours
  <1>0. /\ {VsPeriod, CoopPeriod, SeasonPeriod, Day, GenerateHours, RefreshAhead, MinAhead} \subseteq Nat \ {0}
        /\ VsPeriod + RefreshAhead <= GenerateHours /\ GenerateHours % VsPeriod = 0
        /\ GenerateHours + VsPeriod + Day <= half
    BY DEF Rot!RotationAssumption
  <1>1. start \in Int /\ start <= t /\ t < start + VsPeriod
    BY <1>0, Truncated
  <1>2. shift \in Int /\ shift <= t /\ t < shift + CoopPeriod
    BY <1>0, Truncated
  <1>3. half \in Nat /\ half + half <= SeasonPeriod
    BY <1>0
  <1>4. season \in Int /\ season <= t - half /\ t - half < season + Day
    <2>1. t - half \in Int
      BY <1>3
    <2> HIDE DEF half
    <2> QED  BY <1>0, <2>1, Truncated
  <1>5. rounds \in Nat \ {0} /\ rounds * VsPeriod = GenerateHours
    BY <1>0, PeriodsLast
  <1>6. shifts \in Nat \ {0} /\ shifts * CoopPeriod \in Int /\ GenerateHours + CoopPeriod <= shifts * CoopPeriod
    <2>1. GenerateHours + CoopPeriod \in Nat \ {0}
      BY <1>0
    <2> QED  BY <1>0, <2>1, PeriodsLast
  <1>7. /\ f.vs = Rot!Grid(start, VsPeriod, rounds) /\ f.coop = Rot!Grid(shift, CoopPeriod, shifts)
        /\ f.season = Rot!Grid(season, SeasonPeriod, one) /\ f.league = Rot!Grid(start, GenerateHours, one)
    BY DEF Rot!Generate
  <1>8. one \in Nat \ {0} /\ one * SeasonPeriod = SeasonPeriod /\ one * GenerateHours = GenerateHours
    BY <1>0
  <1> HIDE DEF f, start, shift, half, season, rounds, shifts, one
  <1>9. until \in Int /\ t + RefreshAhead < until
    BY <1>0, <1>1
  <1>10. Rot!VsEnd(f) = until
    <2> DEFINE ws == Rot!Grid(start, VsPeriod, rounds)
    <2>0. VsPeriod \in Nat \ {0}
      BY <1>0
    <2>1. Gapless(ws, rounds, start, start + rounds * VsPeriod)
      BY <2>0, <1>1, <1>5, GridIsWhole
    <2>2. ws # <<>> /\ Len(ws) = rounds /\ ws[rounds].end = start + rounds * VsPeriod
      BY <2>1 DEF Gapless
    <2> QED  BY <1>5, <1>7, <2>2 DEF Rot!VsEnd
  <1>11. Reaches(f.vs, t, until)
    <2>1. until <= start + rounds * VsPeriod /\ VsPeriod \in Nat \ {0}
      BY <1>0, <1>5, <1>9
    <2> HIDE DEF until
    <2>2. Reaches(Rot!Grid(start, VsPeriod, rounds), t, until)
      BY <1>1, <1>5, <1>9, <2>1, GridReaches
    <2> QED  BY <1>7, <2>2
  <1>12. Reaches(f.coop, t, until)
    <2>1. until <= shift + shifts * CoopPeriod /\ CoopPeriod \in Nat \ {0}
      BY <1>0, <1>1, <1>2, <1>6
    <2> HIDE DEF until
    <2>2. Reaches(Rot!Grid(shift, CoopPeriod, shifts), t, until)
      BY <1>2, <1>6, <1>9, <2>1, GridReaches
    <2> QED  BY <1>7, <2>2
  <1>13. Reaches(f.season, t, until)
    <2>1. until <= season + one * SeasonPeriod /\ season <= t /\ SeasonPeriod \in Nat \ {0}
      BY <1>0, <1>1, <1>3, <1>4, <1>9, <1>8
    <2> HIDE DEF until
    <2>2. Reaches(Rot!Grid(season, SeasonPeriod, one), t, until)
      BY <1>4, <1>8, <1>9, <2>1, GridReaches
    <2> QED  BY <1>7, <2>2
  <1>14. Reaches(f.league, t, until)
    <2>1. until <= start + one * GenerateHours /\ GenerateHours \in Nat \ {0}
      BY <1>0, <1>1, <1>8
    <2> HIDE DEF until
    <2>2. Reaches(Rot!Grid(start, GenerateHours, one), t, until)
      BY <1>1, <1>8, <1>9, <2>1, GridReaches
    <2> QED  BY <1>7, <2>2
  <1> HIDE DEF until
  <1> QED  BY <1>9, <1>10, <1>11, <1>12, <1>13, <1>14 DEF f, Rot!Kinds

\* A generated file is fit to be served from its time on until it is renewed.
LEMMA GeneratedValid ==
  ASSUME Rot!RotationAssumption, NEW t \in Int, NEW at \in Int, t <= at,
         at = t \/ Rot!VsEnd(Rot!Generate(t)) - at >= RefreshAhead
  PROVE  Rot!Valid(Rot!Generate(t), at)
  <1> DEFINE f == Rot!Generate(t)
  <1>0. RefreshAhead \in Nat /\ MinAhead \in Nat /\ 0 < MinAhead /\ MinAhead <= RefreshAhead
    BY DEF Rot!RotationAssumption
  <1>1. /\ Rot!VsEnd(f) \in Int /\ t + RefreshAhead < Rot!VsEnd(f)
        /\ \A k \in Rot!Kinds : Reaches(f[k], t, Rot!VsEnd(f))
    BY GeneratedReaches
  <1> HIDE DEF f
  <1>2. Rot!VsEnd(f) - at >= MinAhead /\ at < Rot!VsEnd(f)
    BY <1>0, <1>1 DEF f
  <1>3. Rot!Valid(f, at)
    BY <1>1, <1>2 DEF Rot!Valid, Reaches
  <1> QED  BY <1>3 DEF f

\* The files that can be there or be served.
Files == OperatorFiles \cup {Rot!Generate(t) : t \in Epoch .. now}

\* A sequence of windows has a beginning and an end at each place.
LEMMA WindowsTyped ==
  ASSUME NEW ws \in Seq(Rot!Window)
  PROVE  /\ Len(ws) \in Nat /\ DOMAIN ws = 1 .. Len(ws)
         /\ \A i \in 1 .. Len(ws) : ws[i].start \in Int /\ ws[i].end \in Int
  <1>1. Len(ws) \in Nat /\ DOMAIN ws = 1 .. Len(ws) /\ \A i \in 1 .. Len(ws) : ws[i] \in Rot!Window
    OBVIOUS
  <1> QED  BY <1>1 DEF Rot!Window

\* Their windows are windows; a generated one is whole.
LEMMA FilesTyped ==
  ASSUME Rot!RotationAssumption, Rot!TypeOK, NEW f \in Files
  PROVE  /\ \A k \in Rot!Kinds : f[k] \in Seq(Rot!Window)
         /\ Rot!VsEnd(f) \in Int
         /\ f \notin OperatorFiles => Rot!Whole(f)
  <1>1. CASE f \in OperatorFiles
    <2>1. \A k \in Rot!Kinds : f[k] \in Seq(Rot!Window)
      BY <1>1 DEF Rot!RotationAssumption
    <2>2. f.vs \in Seq(Rot!Window)
      BY <2>1 DEF Rot!Kinds
    <2>3. f.vs # <<>> => Len(f.vs) \in 1 .. Len(f.vs)
      BY <2>2
    <2>4. Rot!VsEnd(f) \in Int
      BY <2>2, <2>3, WindowsTyped DEF Rot!VsEnd
    <2> QED  BY <1>1, <2>1, <2>4
  <1>2. CASE f \notin OperatorFiles
    <2>1. PICK t \in Epoch .. now : f = Rot!Generate(t)
      BY <1>2 DEF Files
    <2>2. t \in Int
      BY DEF Rot!RotationAssumption, Rot!TypeOK
    <2> QED  BY <2>1, <2>2, GeneratedReaches DEF Reaches, Rot!Whole
  <1> QED  BY <1>1, <1>2

\* Where a file is whole it has the present an hour longer.
LEMMA HourLater ==
  ASSUME Rot!RotationAssumption, Rot!TypeOK, NEW f \in Files, f \in OperatorFiles => Rot!Whole(f),
         Describes(f, MinAhead)
  PROVE  /\ \A k \in Rot!Kinds : Rot!Covers(f[k], now + 1)
         /\ Rot!VsEnd(f) - (now + 1) >= MinAhead - 1
  <1>0. now \in Nat /\ MinAhead \in Nat /\ 2 <= MinAhead /\ Epoch \in Nat
    BY DEF Rot!RotationAssumption, Rot!TypeOK
  <1>1. (\A k \in Rot!Kinds : f[k] \in Seq(Rot!Window)) /\ Rot!VsEnd(f) \in Int /\ Rot!Whole(f)
    BY FilesTyped
  <1>2. Rot!VsEnd(f) - now >= MinAhead
    BY DEF Describes
  <1>3. ASSUME NEW k \in Rot!Kinds PROVE Rot!Covers(f[k], now + 1)
    <2> DEFINE ws == f[k]
    <2>1. /\ ws \in Seq(Rot!Window) /\ ws # <<>> /\ Rot!InOrder(ws) /\ Rot!Covers(ws, now)
          /\ \A i \in 2 .. Len(ws) : ws[i].start = ws[i - 1].end
          /\ ws[Len(ws)].end >= Rot!VsEnd(f)
      BY <1>1 DEF Describes, Rot!Whole
    <2>6. SUFFICES Rot!Covers(ws, now + 1)
      OBVIOUS
    <2> HIDE DEF ws
    <2>2. PICK i \in 1 .. Len(ws) : ws[i].start <= now /\ now < ws[i].end
      BY <2>1 DEF Rot!Covers, Rot!Contains
    <2>3. /\ i \in Int /\ Len(ws) \in Nat /\ i <= Len(ws) /\ DOMAIN ws = 1 .. Len(ws)
          /\ \A j \in 1 .. Len(ws) : ws[j].start \in Int /\ ws[j].end \in Int
      BY <2>1, WindowsTyped
    <2>4. CASE now + 1 < ws[i].end
      <3>1. Rot!Contains(ws[i], now + 1)
        BY <1>0, <2>2, <2>3, <2>4 DEF Rot!Contains
      <3> QED  BY <2>3, <3>1 DEF Rot!Covers
    <2>5. CASE ~ (now + 1 < ws[i].end)
      <3>1. ws[i].end = now + 1
        BY <1>0, <2>2, <2>3, <2>5
      <3>2. ws[Len(ws)].end \in Int /\ Len(ws) \in 1 .. Len(ws)
        BY <2>1, <2>3
      <3>3. i # Len(ws)
        BY <1>0, <1>1, <1>2, <2>1, <3>1, <3>2
      <3>4. i + 1 \in 2 .. Len(ws) /\ i + 1 \in 1 .. Len(ws) /\ (i + 1) - 1 = i
        BY <2>2, <2>3, <3>3
      <3>5. ws[i + 1].start = now + 1
        BY <2>1, <3>1, <3>4
      <3>6. now + 1 < ws[i + 1].end
        BY <2>1, <3>4, <3>5 DEF Rot!InOrder
      <3>7. Rot!Contains(ws[i + 1], now + 1)
        BY <1>0, <3>5, <3>6 DEF Rot!Contains
      <3> QED  BY <2>3, <3>4, <3>7 DEF Rot!Covers
    <2> QED  BY <2>4, <2>5
  <1> QED  BY <1>0, <1>1, <1>2, <1>3

\* A look of the keeper ends with a file that is fit to be served, or with one of
\* the operator's that it refuses.
LEMMA KeeperLooks ==
  ASSUME Rot!RotationAssumption, Rot!TypeOK, Rot!Keep
  PROVE  /\ refused' \in BOOLEAN
         /\ disk' \in Files \cup {Missing, Unreadable} /\ current' \in Files \cup {Down}
         /\ refused' \/ Describes(current', MinAhead)
  <1>a. Epoch \in Nat /\ {RefreshAhead, MinAhead} \subseteq Nat /\ MaxTime \in Nat
    BY DEF Rot!RotationAssumption
  <1>b. now \in Int /\ now \in Epoch .. now
    BY <1>a DEF Rot!TypeOK
  <1>c. disk \in Files \cup {Missing, Unreadable} /\ current \in Files \cup {Down}
    BY DEF Rot!TypeOK, Files
  <1>0. /\ now \in Int /\ now \in Epoch .. now /\ disk \in Files \cup {Missing, Unreadable}
        /\ current \in Files \cup {Down} /\ Epoch \in Nat
        /\ {RefreshAhead, MinAhead} \subseteq Nat
    BY <1>a, <1>b, <1>c
  <1>1. CASE /\ disk # Unreadable /\ (disk # Missing => Rot!Stale(disk))
             /\ LET f == Rot!Generate(now) IN
                IF Rot!Valid(f, now) THEN current' = f /\ disk' \in {f, disk} ELSE UNCHANGED <<current, disk>>
             /\ refused' = FALSE
    <2>1. Rot!Valid(Rot!Generate(now), now)
      BY <1>0, GeneratedValid
    <2>2. current' = Rot!Generate(now) /\ disk' \in {Rot!Generate(now), disk}
      BY <1>1, <2>1
    <2>3. Rot!Generate(now) \in Files
      BY <1>0 DEF Files
    <2>4. Describes(current', MinAhead)
      BY <2>1, <2>2 DEF Describes, Rot!Valid
    <2> QED  BY <1>0, <1>1, <2>2, <2>3, <2>4
  <1>2. CASE /\ disk # Missing /\ (disk # Unreadable => ~ Rot!Stale(disk))
             /\ IF disk # Unreadable /\ Rot!Valid(disk, now)
                THEN current' = disk /\ refused' = FALSE
                ELSE current' = current /\ refused' = (disk \in OperatorFiles \cup {Unreadable})
             /\ UNCHANGED disk
    <2>1. CASE disk # Unreadable /\ Rot!Valid(disk, now)
      <3>1. current' = disk /\ refused' = FALSE /\ disk' = disk
        BY <1>2, <2>1
      <3>2. Describes(current', MinAhead)
        BY <2>1, <3>1 DEF Describes, Rot!Valid
      <3> QED  BY <1>0, <1>2, <2>1, <3>1, <3>2
    <2>2. CASE ~ (disk # Unreadable /\ Rot!Valid(disk, now))
      <3>1. current' = current /\ disk' = disk /\ refused' = (disk \in OperatorFiles \cup {Unreadable})
        BY <1>2, <2>2
      <3>2. disk \in OperatorFiles \cup {Unreadable}
        <4>1. SUFFICES ASSUME disk \notin OperatorFiles, disk # Unreadable PROVE FALSE
          OBVIOUS
        <4>2. PICK t \in Epoch .. now : disk = Rot!Generate(t)
          BY <1>0, <1>2, <4>1 DEF Files
        <4>3. t \in Int /\ t <= now
          BY <1>0
        <4>4. Rot!VsEnd(disk) - now >= RefreshAhead
          <5>1. Rot!VsEnd(disk) \in Int
            BY <4>2, <4>3, GeneratedReaches
          <5> QED  BY <1>0, <1>2, <4>1, <5>1 DEF Rot!Stale
        <4>5. Rot!Valid(disk, now)
          BY <1>0, <4>2, <4>3, <4>4, GeneratedValid
        <4> QED  BY <2>2, <4>1, <4>5
      <3> QED  BY <1>0, <3>1, <3>2
    <2> QED  BY <2>1, <2>2
  <1> QED  BY <1>1, <1>2 DEF Rot!Keep

\* keeper: what is served is fit, or was an hour ago.
THEOREM RotationInvariance == ASSUME Rot!RotationAssumption PROVE Rot!Spec => []RotationInv
  <1>1. Rot!Init => RotationInv
    <2> SUFFICES ASSUME Rot!Init PROVE RotationInv
      OBVIOUS
    <2>1. Epoch \in Epoch .. MaxTime /\ 0 \in 0 .. MaxEdits
      BY DEF Rot!RotationAssumption
    <2> QED  BY <2>1 DEF Rot!Init, RotationInv, Rot!TypeOK
  <1>2. RotationInv /\ [Rot!Next]_(Rot!vars) => RotationInv'
    <2> SUFFICES ASSUME RotationInv, [Rot!Next]_(Rot!vars) PROVE RotationInv'
      OBVIOUS
    <2> USE DEF RotationInv
    <2>0. /\ now \in Epoch .. MaxTime /\ edits \in 0 .. MaxEdits /\ checked \in BOOLEAN /\ refused \in BOOLEAN
          /\ disk \in Files \cup {Missing, Unreadable} /\ current \in Files \cup {Down}
          /\ {now, Epoch, MaxTime, MaxEdits} \subseteq Nat
      BY DEF Rot!TypeOK, Files, Rot!RotationAssumption
    <2>1. CASE Rot!Keep /\ checked' \in BOOLEAN /\ (current' # Down => checked' = TRUE) /\ UNCHANGED <<now, edits>>
      <3>1. /\ refused' \in BOOLEAN
            /\ disk' \in Files \cup {Missing, Unreadable} /\ current' \in Files \cup {Down}
            /\ refused' \/ Describes(current', MinAhead)
        BY <2>1, KeeperLooks
      <3>2. Rot!TypeOK'
        BY <2>0, <2>1, <3>1 DEF Rot!TypeOK, Files
      <3>3. Describes(current', MinAhead) => Describes(current, MinAhead)'
        BY <2>1 DEF Describes, Rot!InOrder, Rot!Covers, Rot!Contains, Rot!VsEnd, Rot!Kinds
      <3> QED  BY <2>1, <3>1, <3>2, <3>3
    <2>2. CASE Rot!Stop
      BY <2>0, <2>2 DEF Rot!Stop, Rot!TypeOK
    <2>3. CASE Rot!Hour
      <3>1. /\ now' = now + 1 /\ checked' = FALSE /\ UNCHANGED <<disk, current, refused, edits>>
            /\ now + 1 \in Epoch .. MaxTime /\ (current # Down => checked)
        BY <2>0, <2>3 DEF Rot!Hour
      <3>2. Rot!TypeOK'
        <4>1. Epoch .. now \subseteq Epoch .. now + 1
          BY <2>0
        <4>2. {Rot!Generate(t) : t \in Epoch .. now} \subseteq {Rot!Generate(t) : t \in Epoch .. now + 1}
          BY <4>1
        <4> QED  BY <2>0, <3>1, <4>2 DEF Rot!TypeOK, Files
      <3>3. ASSUME current' # Down, ~ refused', current' \in OperatorFiles => Rot!Whole(current')
            PROVE  Describes(current, MinAhead - 1)'
        <4>1. current \in Files /\ (current \in OperatorFiles => Rot!Whole(current)) /\ Describes(current, MinAhead)
          BY <2>0, <3>1, <3>3
        <4>2. /\ \A k \in Rot!Kinds : Rot!Covers(current[k], now + 1)
              /\ Rot!VsEnd(current) - (now + 1) >= MinAhead - 1
          BY <4>1, HourLater
        <4> QED  BY <3>1, <4>1, <4>2 DEF Describes, Rot!InOrder, Rot!Covers, Rot!Contains, Rot!VsEnd, Rot!Kinds
      <3> QED  BY <3>1, <3>2, <3>3
    <2>4. CASE Rot!Edit
      <3>1. /\ disk' \in OperatorFiles \cup {Missing, Unreadable} /\ edits' \in 0 .. MaxEdits
            /\ UNCHANGED <<now, current, checked, refused>>
        BY <2>0, <2>4 DEF Rot!Edit
      <3>2. Rot!TypeOK'
        BY <2>0, <3>1 DEF Rot!TypeOK, Files
      <3>3. Describes(current, IF checked THEN MinAhead ELSE MinAhead - 1)'
              <=> Describes(current, IF checked THEN MinAhead ELSE MinAhead - 1)
        BY <3>1 DEF Describes, Rot!InOrder, Rot!Covers, Rot!Contains, Rot!VsEnd, Rot!Kinds
      <3>4. Rot!Whole(current)' <=> Rot!Whole(current)
        BY <3>1 DEF Rot!Whole, Rot!Kinds
      <3> QED  BY <3>1, <3>2, <3>3, <3>4
    <2>5. CASE UNCHANGED Rot!vars
      BY <2>5 DEF Rot!vars, Rot!TypeOK, Describes, Rot!InOrder, Rot!Covers, Rot!Contains, Rot!VsEnd, Rot!Kinds,
                  Rot!Whole
    <2>6. Rot!Start \/ Rot!Check => <2>1!1
      BY DEF Rot!Start, Rot!Check
    <2> QED  BY <2>1, <2>2, <2>3, <2>4, <2>5, <2>6 DEF Rot!Next
  <1> QED  BY <1>1, <1>2, PTL DEF Rot!Spec

\* ServesPresent (generate.go, Keep): every answer of the Schedule service has a
\* window that is on now, whatever the operator puts in the file's place, however
\* long the process was stopped, and though the file cannot be written.
THEOREM PresentServed == ASSUME Rot!RotationAssumption PROVE Rot!Spec => []ServesPresent
  <1>1. RotationInv => ServesPresent
    <2> SUFFICES ASSUME RotationInv, current # Down, ~ refused, current \in OperatorFiles => Rot!Whole(current)
                 PROVE  /\ \A shown \in {Rot!SelectVs, Rot!SelectCoop, Rot!SelectSeason} :
                             \E w \in shown : Rot!Contains(w, now)
                        /\ \E w \in Rot!SelectVs : w.start = Rot!ParamsTime /\ Rot!Contains(w, now)
      BY DEF ServesPresent, Rot!ServesPresent
    <2>0. now \in Nat /\ {VsPeriod, Day} \subseteq Nat \ {0} /\ Rot!TypeOK /\ current \in Files
      BY DEF RotationInv, Rot!TypeOK, Rot!RotationAssumption, Files
    <2>1. Rot!Covers(current.vs, now) /\ Rot!Covers(current.coop, now) /\ Rot!Covers(current.season, now)
      BY DEF RotationInv, Describes, Rot!Kinds
    <2>2. /\ current.vs \in Seq(Rot!Window) /\ current.coop \in Seq(Rot!Window)
          /\ current.season \in Seq(Rot!Window)
      BY <2>0, FilesTyped DEF Rot!Kinds
    <2>3. ASSUME NEW ws \in Seq(Rot!Window), NEW from \in Int, NEW to \in Int, from <= now, now < to,
                 NEW w \in Rot!Entries(ws), Rot!Contains(w, now)
          PROVE  w \in Rot!Select(ws, from, to)
      <3>1. w.start \in Int /\ w.end \in Int
        BY WindowsTyped DEF Rot!Entries
      <3> QED  BY <2>0, <2>3, <3>1 DEF Rot!Select, Rot!Contains
    <2>4. /\ now - VsPeriod <= now /\ now < now + Day /\ now < now + 3 * Day /\ now <= now
          /\ now - VsPeriod \in Int /\ now + Day \in Int /\ now + 3 * Day \in Int /\ now \in Int
      BY <2>0
    <2>5. ASSUME NEW ws \in Seq(Rot!Window), Rot!Covers(ws, now)
          PROVE  \E w \in Rot!Entries(ws) : Rot!Contains(w, now)
      BY <2>5 DEF Rot!Covers, Rot!Entries
    <2>6. /\ \E w \in Rot!SelectCoop : Rot!Contains(w, now)
          /\ \E w \in Rot!SelectSeason : Rot!Contains(w, now)
      BY <2>1, <2>2, <2>3, <2>4, <2>5 DEF Rot!SelectCoop, Rot!SelectSeason
    <2>7. \E w \in Rot!SelectVs : w.start = Rot!ParamsTime /\ Rot!Contains(w, now)
      <3> DEFINE on == CHOOSE w \in Rot!Entries(current.vs) : Rot!Contains(w, now)
      <3>1. on \in Rot!Entries(current.vs) /\ Rot!Contains(on, now)
        BY <2>1, <2>2, <2>5
      <3>2. Rot!ParamsTime = on.start
        BY <2>1 DEF Rot!ParamsTime
      <3> HIDE DEF on
      <3>3. on \in Rot!SelectVs
        BY <2>2, <2>3, <2>4, <3>1 DEF Rot!SelectVs
      <3> QED  BY <3>1, <3>2, <3>3
    <2> QED  BY <2>6, <2>7
  <1> QED  BY <1>1, RotationInvariance, PTL
=============================================================================
