---------------------------- MODULE UserDocuments ----------------------------
(***************************************************************************)
(* Splatoon 3's user documents (ugcstore.go, gamerecord.go): one map in    *)
(* memory, read at the start and written whole after every commit.  A call *)
(* does all it does under one mutex.                                       *)
(*                                                                         *)
(* A document is its update time, the number of the call that wrote it;    *)
(* field masks, transforms of a field and sizes are left out.              *)
(***************************************************************************)
EXTENDS Naturals, FiniteSets, Sequences

CONSTANTS
  Players, Paths,
  UserOf,        \* path -> the player its "users/<id>" segment names, or NoUser
  AttributesOf,  \* player -> the path of its initial attributes
  NoUser, NoFile,
  Failures,      \* what may fail: "get" (the read or the import), "put"
  UgcMaxOps,     \* write operations in a commit: 100
  UgcMaxDocs,    \* documents in the store: 200000
  MaxWrites      \* bound: calls that write

NoDoc == 0
Times == 1 .. MaxWrites

VARIABLES
  pg,         \* whether the documents are in Postgres (see CloudSave)
  docs,       \* path -> document, in memory
  docsRow, docsFile,   \* the map as stored
  writes,     \* calls so far, the clock of the update times
  answer      \* history: how the last commit was answered, and whether docs changed in it

vars == <<docs, docsRow, docsFile, writes, answer>>

NoDocs == [p \in Paths |-> NoDoc]
Maps   == [Paths -> Times \union {NoDoc}]
Preconditions == [on : {"any", "exists", "absent"}, at : {NoDoc}] \union [on : {"time"}, at : Times]
Operations    == [set : BOOLEAN, path : Paths, pre : Preconditions]

OrNoDocs(m)  == IF m = NoFile THEN NoDocs ELSE m
Number(m)    == Cardinality({p \in Paths : m[p] # NoDoc})

Init ==
  /\ docs = NoDocs /\ docsRow = NoFile /\ docsFile = NoFile
  /\ writes = 0 /\ answer = [ok |-> TRUE, changed |-> FALSE]

MayWrite(u, p) == UserOf[p] \in {NoUser, u}

Holds(pre, d) ==
  \/ pre.on = "any"
  \/ pre.on = "exists" /\ d # NoDoc
  \/ pre.on = "absent" /\ d = NoDoc
  \/ pre.on = "time" /\ d = pre.at

\* The operations applied to a copy, one after the other, until one is refused.
Applied(u, op, st) ==
  IF st.ok /\ MayWrite(u, op.path) /\ Holds(op.pre, st.docs[op.path])
  THEN [st EXCEPT !.docs[op.path] = IF op.set THEN writes + 1 ELSE NoDoc]
  ELSE [st EXCEPT !.ok = FALSE]

Staged(u, ops) ==
  LET after[i \in 0 .. Len(ops)] ==
        IF i = 0 THEN [ok |-> TRUE, docs |-> docs] ELSE Applied(u, ops[i], after[i - 1])
  IN after[Len(ops)]

\* save: a failure is only logged.
Saved(m) ==
  \/ docsRow' = (IF pg THEN m ELSE docsRow) /\ docsFile' = (IF pg THEN docsFile ELSE m)
  \/ "put" \in Failures /\ UNCHANGED <<docsRow, docsFile>>

\* CommitDocuments: what passed is put in place before the store's size is looked at.
CommitDocuments(u, ops) ==
  LET st == Staged(u, ops) IN
  /\ writes < MaxWrites /\ Len(ops) <= UgcMaxOps
  /\ writes' = writes + 1
  /\ docs' = IF st.ok THEN st.docs ELSE docs
  /\ answer' = [ok |-> st.ok /\ Number(st.docs) <= UgcMaxDocs, changed |-> docs' # docs]
  /\ IF answer'.ok THEN Saved(docs') ELSE UNCHANGED <<docsRow, docsFile>>

\* InitializeAttributes and put: the server's own document, without a check.
InitializeAttributes(u) ==
  /\ writes < MaxWrites
  /\ writes' = writes + 1
  /\ docs' = [docs EXCEPT ![AttributesOf[u]] = writes + 1]
  /\ Saved(docs')
  /\ UNCHANGED answer

CallsOf(u) ==
  \/ InitializeAttributes(u)
  \/ \E n \in 0 .. UgcMaxOps : \E ops \in [1 .. n -> Operations] : CommitDocuments(u, ops)

\* ugcStore.eraseUsers: documents elsewhere have no owner and stay.
EraseDocs(u) ==
  /\ docs' = [p \in Paths |-> IF UserOf[p] = u THEN NoDoc ELSE docs[p]]
  /\ IF docs' # docs THEN Saved(docs') ELSE UNCHANGED <<docsRow, docsFile>>
  /\ UNCHANGED <<writes, answer>>

\* newUGCStore at the next start: a row that cannot be read is an empty store,
\* a file that cannot be imported is served all the same.
Restart ==
  LET import == pg' /\ docsRow = NoFile IN
  /\ \/ /\ docs' = OrNoDocs(IF pg' /\ ~import THEN docsRow ELSE docsFile)
        /\ docsRow' = IF import THEN docsFile ELSE docsRow
     \/ pg' /\ "get" \in Failures /\ docs' = NoDocs /\ UNCHANGED docsRow
     \/ import /\ "get" \in Failures /\ docs' = OrNoDocs(docsFile) /\ UNCHANGED docsRow
  /\ UNCHANGED <<docsFile, writes, answer>>

Next == (\E u \in Players : CallsOf(u) \/ EraseDocs(u)) \/ Restart
Spec == Init /\ [][Next /\ UNCHANGED pg]_<<vars, pg>>

-----------------------------------------------------------------------------
(* Properties                                                              *)

TypeOK ==
  /\ docs \in Maps /\ writes \in Nat
  /\ docsRow = NoFile \/ docsRow \in Maps
  /\ docsFile = NoFile \/ docsFile \in Maps

\* "A commit is all or nothing" (CommitDocuments): one that is answered with
\* an error changed nothing.  The code does NOT have this: the limit of the store
\* is looked at last (see the README).
AllOrNothing == answer.ok \/ ~answer.changed
=============================================================================
