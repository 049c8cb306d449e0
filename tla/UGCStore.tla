------------------------------- MODULE UGCStore -------------------------------
(***************************************************************************)
(* The store of user-generated documents and their short codes             *)
(* (ugcstore.go, erase.go).  Every call does what it does under one mutex  *)
(* and writes the whole store before it answers, to Postgres when the      *)
(* process opened it at its start, else to the file; a write that fails is *)
(* only logged.  A process that cannot read the store starts empty, and    *)
(* its next write replaces what was there.                                 *)
(*                                                                         *)
(* A document is who owns it: its fields, times and sizes                  *)
(* are left out, and an operation refused for one of them is one whose     *)
(* precondition is "never".                                                *)
(***************************************************************************)
EXTENDS Naturals, Sequences, FiniteSets

CONSTANTS
  Players, Paths,
  UserOf,          \* path -> the player an id in it names, or Nobody
  Nobody,
  UgcMaxOps,       \* write operations per commit: 50
  UgcMaxPerOwner,  \* documents one player may own: 500
  NoStore,         \* nothing was written there yet
  MaxFailures      \* bound: writes and reads of the store, and openings of Postgres, that fail

\* Checked in MCServices.
UGCStoreAssumption ==
  /\ IsFiniteSet(Paths) /\ Nobody \notin Players
  /\ UserOf \in [Paths -> Players \union {Nobody}]
  /\ UgcMaxOps \in Nat /\ UgcMaxPerOwner \in Nat /\ MaxFailures \in Nat
  /\ NoStore \notin [docs : [Paths -> Players \union {Nobody}], aliases : [Paths -> Players \union {Nobody}]]

VARIABLES
  docs,      \* path -> owner of the document, or Nobody
  aliases,   \* path -> who made its short code, or Nobody
  dsn,       \* whether a database is configured
  pg,        \* whether this process opened it (blob.Default)
  stored,    \* place, the row in Postgres or the file -> docs and aliases as written there last
  failures

vars == <<docs, aliases, dsn, pg, stored, failures>>

Place == IF pg THEN "row" ELSE "file"
Empty == [p \in Paths |-> Nobody]

Maps == [Paths -> Players \union {Nobody}]
Preconditions == {"any", "exists", "absent", "never"}
Operations    == [set : BOOLEAN, path : Paths, pre : Preconditions]   \* update or transform, delete

Init ==
  /\ docs = Empty /\ aliases = Empty
  /\ dsn \in BOOLEAN /\ pg = dsn
  /\ stored = [at \in {"row", "file"} |-> NoStore]
  /\ failures = 0

\* save.
Save ==
  /\ \/ stored' = [stored EXCEPT ![Place] = [docs |-> docs', aliases |-> aliases']] /\ UNCHANGED failures
     \/ failures < MaxFailures /\ failures' = failures + 1 /\ UNCHANGED stored
  /\ UNCHANGED <<dsn, pg>>

MayWrite(u, p, own) == UserOf[p] \in {u, Nobody} /\ own \in {u, Nobody}

Holds(pre, own) ==
  \/ pre = "any"
  \/ pre = "exists" /\ own # Nobody
  \/ pre = "absent" /\ own = Nobody

-----------------------------------------------------------------------------
(* CommitDocuments                                                         *)

\* Staged entries lie over the documents, path by path.
Get(staged, p) == IF p \in DOMAIN staged THEN staged[p] ELSE docs[p]
Over(staged, p, own) == [q \in DOMAIN staged \union {p} |-> IF q = p THEN own ELSE staged[q]]

\* One operation over those before it.
Applied(u, op, st) ==
  LET old == Get(st.staged, op.path) IN
  IF st.ok /\ MayWrite(u, op.path, old) /\ Holds(op.pre, old)
  THEN [st EXCEPT !.staged = Over(st.staged, op.path,
         IF ~op.set THEN Nobody ELSE IF old = Nobody THEN u ELSE old)]
  ELSE [st EXCEPT !.ok = FALSE]

\* The operations one after the other, until one is refused.
Staged(u, ops) ==
  LET after[i \in 0 .. Len(ops)] ==
        IF i = 0 THEN [ok |-> TRUE, staged |-> [p \in {} |-> Nobody]] ELSE Applied(u, ops[i], after[i - 1])
  IN after[Len(ops)]

\* mutant: a document that is staged again is not counted
OwnedUnstaged(u, staged) ==
  Cardinality({p \in Paths \ DOMAIN staged : docs[p] = u})

\* Counted once, on the outcome.
Owned(u, staged) ==
  Cardinality({p \in Paths \ DOMAIN staged : docs[p] = u})
  + Cardinality({p \in DOMAIN staged : staged[p] = u})

CommitDocuments(u, ops) ==
  LET st == Staged(u, ops) IN
  /\ Len(ops) <= UgcMaxOps
  /\ st.ok /\ Owned(u, st.staged) <= UgcMaxPerOwner
  /\ docs' = [p \in Paths |-> Get(st.staged, p)]
  /\ UNCHANGED aliases
  /\ Save

-----------------------------------------------------------------------------
(* Short codes, erasure, restart                                           *)

\* CreateDocumentShortAlias: one code per document, made by its owner.
CreateDocumentShortAlias(u, p) ==
  /\ docs[p] = u /\ aliases[p] = Nobody
  /\ aliases' = [aliases EXCEPT ![p] = u]
  /\ UNCHANGED docs
  /\ Save

\* eraseUsers: what the player owns or is named by, its codes, and every
\* code whose document is gone.  Saved only when something went.
EraseUsers(u) ==
  /\ docs' = [p \in Paths |-> IF u \in {docs[p], UserOf[p]} THEN Nobody ELSE docs[p]]
  /\ aliases' = [p \in Paths |->
       IF aliases[p] = u \/ docs'[p] = Nobody THEN Nobody ELSE aliases[p]]
  /\ IF docs' # docs \/ aliases' # aliases THEN Save ELSE UNCHANGED <<dsn, pg, stored, failures>>

\* load: the row, else the file, which is imported on the way.  Nothing is read
\* when there is no store or an error comes, of the import too, which may be done.
Load(readable) ==
  LET from == IF stored["row"] = NoStore THEN "file" ELSE Place'
      read == stored[from]
      imported == [stored EXCEPT ![Place'] = read]
  IN IF readable /\ read # NoStore
     THEN docs' = read.docs /\ aliases' = read.aliases /\ stored' = imported
     ELSE docs' = Empty /\ aliases' = Empty /\ stored' \in {stored, imported}

\* The next process: with Postgres, or with the file when it cannot be reached.
Restart == \E opened, readable \in BOOLEAN :
  /\ (opened \/ dsn) /\ pg' = (dsn /\ opened)
  /\ Load(readable)
  /\ failures' = failures + (IF opened THEN 0 ELSE 1) + (IF readable THEN 0 ELSE 1)
  /\ failures' <= MaxFailures
  /\ UNCHANGED dsn

Next ==
  \/ \E u \in Players :
       \/ \E n \in 0 .. UgcMaxOps : \E ops \in [1 .. n -> Operations] : CommitDocuments(u, ops)
       \/ \E p \in Paths : CreateDocumentShortAlias(u, p)
       \/ EraseUsers(u)
  \/ Restart
Spec == Init /\ [][Next]_vars

-----------------------------------------------------------------------------
(* Properties                                                              *)

TypeOK ==
  /\ docs \in Maps /\ aliases \in Maps /\ failures \in 0 .. MaxFailures
  /\ dsn \in BOOLEAN /\ pg \in {dsn, FALSE}
  /\ stored \in [{"row", "file"} -> {NoStore} \union [docs : Maps, aliases : Maps]]

\* What is written somewhere.
Written == {stored[at].docs : at \in {q \in {"row", "file"} : stored[q] # NoStore}}

Promise == INSTANCE OwnedDocuments WITH
  owner <- docs, stored <- Written, MaxPerOwner <- UgcMaxPerOwner

\* "A document belongs to its first writer, and only the owner may change or
\* delete it" (ugcstore.go): commits of several operations that see each
\* other, codes, erasure, failed writes and restarts that read the row, the file or
\* nothing implement OwnedDocuments, which says what a restart may lose.
CommitsImplemented == Promise!Spec

\* A code outlives its document and answers for the one that takes its place:
\* no property, see the README.
=============================================================================
