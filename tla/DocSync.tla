------------------------------ MODULE DocSync ------------------------------
(***************************************************************************)
(* The documents of one farm and the streams that watch them (gamesync.go).*)
(* Each player has a member document, docs/__pgn/All/__pus/<uss>, that its *)
(* console writes and that every stream of the farm watches through the    *)
(* collection.  A change reaches a stream in two ways: deliver starts a    *)
(* goroutine for it, and every few seconds the stream's own poll reads the *)
(* whole collection again.  Both go through push, which compares with the  *)
(* last delivered content under one lock and sends under another.          *)
(*                                                                         *)
(* Which farm a stream and a write belong to does not change here, and the *)
(* mailboxes (__stu), whose writes are sent even when nothing changed, are *)
(* left out.  Contents are told apart by the number of the write.          *)
(***************************************************************************)
EXTENDS Integers, FiniteSets

CONSTANTS
  Members,    \* the players that come and go, and their member documents
  Watchers,   \* streams of players that stay
  Nobody,     \* the console's placeholder ids, upcsid 0
  MaxChanges  \* bound: changes made to documents

ASSUME DocSyncAssumption ==
  /\ MaxChanges \in Nat
  /\ Members \cap Watchers = {} /\ Nobody \notin Members \cup Watchers

VARIABLES
  present,  \* the members with a gamesync session
  departed, \* the members whose stream has ended
  store,    \* member document -> number of the write it holds, 0 for none
  writer,   \* members whose console has a write under way that found its session
  changes,  \* changes made so far
  reader,   \* watcher -> what reads documents for it: the listing, then the poll
  pushes,   \* watcher -> goroutines deliver started that have not compared yet
  out,      \* watcher -> pushes that compared and have yet to send
  last,     \* watcher -> document -> content last compared
  view,     \* watcher -> document -> what the console was told last
  seen      \* history: the changes each console was told of

docs  == <<present, departed, store, writer, changes>>
vars  == <<docs, reader, pushes, out, last, view, seen>>

-----------------------------------------------------------------------------
Changes == 0 .. MaxChanges
\* Whose session ids a member document carries: v 0 is the synthesised one.
Content == [v : Changes, ids : Members \cup Watchers \cup {Nobody}]
Gone    == [v |-> 0, ids |-> Nobody]   \* no document

Push == [n : Changes, doc : Members, kind : {"EXIST", "UPDATED", "DELETED"}, content : Content]

Off    == [pc |-> "off"]
Idle   == [pc |-> "idle"]
Reader == [pc : {"next", "store", "push", "sending"}, kind : {"EXIST", "UPDATED"},
           todo : SUBSET Members, doc : Members \cup {Nobody},
           who : Members \cup Watchers \cup {Nobody}, val : Changes]

Watching(w) == reader[w] # Off /\ ~(reader[w] # Idle /\ reader[w].kind = "EXIST")

\* collectionDocs: the players present, and what was written.
Listed == {d \in Members : d \in present \/ store[d] # 0}

\* deliver: a goroutine for each stream that watches.
Delivered(p) == [w \in Watchers |-> IF Watching(w) THEN pushes[w] \cup {p} ELSE pushes[w]]

\* mutant: what the console wrote goes out as it is
OverlaidRaw(v, d) == [v |-> v, ids |-> Nobody]

\* withStation: the ids are the player's own while its session is there, and
\* what the console wrote afterwards.
Overlaid(v, d) == [v |-> v, ids |-> IF d \in present \cup Watchers THEN d ELSE Nobody]

-----------------------------------------------------------------------------
Init ==
  /\ present = {} /\ departed = {} /\ writer = {} /\ changes = 0
  /\ store  = [d \in Members |-> 0]
  /\ reader = [w \in Watchers |-> Off]
  /\ pushes = [w \in Watchers |-> {}]
  /\ out    = [w \in Watchers |-> {}]
  /\ last   = [w \in Watchers |-> [d \in Members |-> Gone]]
  /\ view   = [w \in Watchers |-> [d \in Members |-> Gone]]
  /\ seen   = [w \in Watchers |-> {}]

IssueToken(d) ==
  /\ d \notin present \cup departed
  /\ present' = present \cup {d}
  /\ UNCHANGED <<departed, store, writer, changes, reader, pushes, out, last, view, seen>>

\* apply, its first lookup: a write belongs to the farm of the caller's session.
FindSession(d) ==
  /\ d \in present /\ d \notin writer
  /\ writer' = writer \cup {d}
  /\ UNCHANGED <<present, departed, store, changes, reader, pushes, out, last, view, seen>>

\* apply: the document is written or deleted and delivered under the mutex.
Apply(d, kind) ==
  LET n == changes + 1 IN
  /\ d \in writer /\ changes < MaxChanges
  /\ changes' = n
  /\ writer' = writer \ {d}
  /\ store' = [store EXCEPT ![d] = IF kind = "DELETED" THEN 0 ELSE n]
  /\ pushes' = Delivered([n |-> n, doc |-> d, kind |-> kind,
                          content |-> IF kind = "DELETED" THEN Gone ELSE Overlaid(n, d)])
  /\ UNCHANGED <<present, departed, reader, out, last, view, seen>>

\* KeepUserSession of a member ends: the session goes, its document goes, and
\* the others are told that the station is gone.
StreamEnds(d) ==
  /\ d \in present /\ changes < MaxChanges
  /\ changes' = changes + 1
  /\ present' = present \ {d} /\ departed' = departed \cup {d}
  /\ store' = [store EXCEPT ![d] = 0]
  /\ pushes' = Delivered([n |-> changes + 1, doc |-> d, kind |-> "DELETED", content |-> Gone])
  /\ UNCHANGED <<writer, reader, out, last, view, seen>>

-----------------------------------------------------------------------------
(* push *)

\* mutants: what was compared is not remembered; deletions are compared too,
\* and never found new
CompareForgets(w, p, kept) ==
  IF p.kind = "UPDATED" /\ last[w][p.doc] = p.content
    THEN UNCHANGED last /\ out' = [out EXCEPT ![w] = kept]
    ELSE UNCHANGED last /\ out' = [out EXCEPT ![w] = kept \cup {p}]
CompareUpdatesOnly(w, p, kept) ==
  IF p.kind = "DELETED" \/ last[w][p.doc] = p.content
    THEN UNCHANGED last /\ out' = [out EXCEPT ![w] = kept]
    ELSE /\ last' = [last EXCEPT ![w][p.doc] = p.content]
         /\ out' = [out EXCEPT ![w] = kept \cup {p}]

\* lastMu: an update that changes nothing is not sent; kept is what else waits
\* to be sent.
Compare(w, p, kept) ==
  IF p.kind = "UPDATED" /\ last[w][p.doc] = p.content
    THEN UNCHANGED last /\ out' = [out EXCEPT ![w] = kept]
    ELSE /\ last' = [last EXCEPT ![w][p.doc] = p.content]
         /\ out' = [out EXCEPT ![w] = kept \cup {p}]

PushCompares(w, p) ==
  /\ p \in pushes[w]
  /\ pushes' = [pushes EXCEPT ![w] = @ \ {p}]
  /\ Compare(w, p, out[w])
  /\ UNCHANGED <<docs, reader, view, seen>>

\* sendMu: the sends of a stream, one at a time and in any order.
PushSends(w, p) ==
  /\ p \in out[w]
  /\ out' = [out EXCEPT ![w] = @ \ {p}]
  /\ view' = [view EXCEPT ![w][p.doc] = p.content]
  /\ seen' = [seen EXCEPT ![w] = @ \cup {IF p.kind = "DELETED" THEN p.n ELSE p.content.v}]
  /\ reader' = IF p.n = 0 THEN [reader EXCEPT ![w].pc = "next"] ELSE reader
  /\ UNCHANGED <<docs, pushes, last>>

-----------------------------------------------------------------------------
(* The listing of a target and the poll of a stream read the same way. *)

ReadAll(w, kind) ==
  reader' = [reader EXCEPT ![w] = [pc |-> "next", kind |-> kind, todo |-> Listed,
                                   doc |-> Nobody, who |-> Nobody, val |-> 0]]

\* update_target: the collection is listed; the target counts once it is.
UpdateTarget(w) ==
  /\ reader[w] = Off
  /\ ReadAll(w, "EXIST")
  /\ UNCHANGED <<docs, pushes, out, last, view, seen>>

Poll(w) ==
  /\ reader[w] = Idle
  /\ ReadAll(w, "UPDATED")
  /\ UNCHANGED <<docs, pushes, out, last, view, seen>>

\* fields, first section: the session the name ends with, else the stream's own.
ReadSession(w, d) ==
  /\ reader[w].pc = "next" /\ d \in reader[w].todo
  /\ reader' = [reader EXCEPT ![w].pc = "store", ![w].todo = @ \ {d}, ![w].doc = d,
                              ![w].who = IF d \in present THEN d ELSE w]
  /\ UNCHANGED <<docs, pushes, out, last, view, seen>>

\* Second section: what was written.
ReadStore(w) ==
  /\ reader[w].pc = "store"
  /\ reader' = [reader EXCEPT ![w].pc = "push", ![w].val = store[reader[w].doc]]
  /\ UNCHANGED <<docs, pushes, out, last, view, seen>>

\* Third section: the ids, and the comparison in push.  The loop waits for its
\* own send.
ReadPush(w) ==
  LET r == reader[w]
      p == [n |-> 0, doc |-> r.doc, kind |-> r.kind,
            content |-> IF r.val = 0 THEN [v |-> 0, ids |-> r.who] ELSE Overlaid(r.val, r.who)]
  IN
  /\ r.pc = "push"
  /\ Compare(w, p, out[w])
  /\ reader' = [reader EXCEPT ![w].pc = IF out'[w] = out[w] THEN "next" ELSE "sending"]
  /\ UNCHANGED <<docs, pushes, view, seen>>

ReadDone(w) ==
  /\ reader[w].pc = "next" /\ reader[w].todo = {}
  /\ reader' = [reader EXCEPT ![w] = Idle]
  /\ UNCHANGED <<docs, pushes, out, last, view, seen>>

Read(w) == Poll(w) \/ (\E d \in Members : ReadSession(w, d)) \/ ReadStore(w) \/ ReadPush(w) \/ ReadDone(w)

Next ==
  \/ \E d \in Members : IssueToken(d) \/ FindSession(d) \/ StreamEnds(d)
  \/ \E d \in Members, kind \in {"UPDATED", "DELETED"} : Apply(d, kind)
  \/ \E w \in Watchers : UpdateTarget(w) \/ Read(w)
  \/ \E w \in Watchers : \E p \in pushes[w] : PushCompares(w, p)
  \/ \E w \in Watchers : \E p \in out[w] : PushSends(w, p)

\* Goroutines run and the poll ticks.
Fairness ==
  \A w \in Watchers :
    /\ WF_vars(Read(w))
    /\ WF_vars(\E p \in pushes[w] : PushCompares(w, p))
    /\ WF_vars(\E p \in out[w] : PushSends(w, p))

Spec == Init /\ [][Next]_vars /\ Fairness

-----------------------------------------------------------------------------
(* Properties *)

TypeOK ==
  /\ present \in SUBSET Members /\ departed \in SUBSET Members /\ writer \in SUBSET Members
  /\ store \in [Members -> Changes] /\ changes \in Changes
  /\ reader \in [Watchers -> Reader \cup {Off, Idle}]
  /\ pushes \in [Watchers -> SUBSET Push] /\ out \in [Watchers -> SUBSET Push]
  /\ last \in [Watchers -> [Members -> Content]]
  /\ view \in [Watchers -> [Members -> Content]]
  /\ seen \in [Watchers -> SUBSET Changes]

\* Every change delivered to a stream reaches its console, though an update is
\* not sent when the poll has just sent the same content (deliver, "once, to
\* every stream of the farm that watches it").
EveryChangeTold ==
  \A w \in Watchers : \A n \in 1 .. MaxChanges :
    (\E p \in pushes[w] : p.n = n) ~> n \in seen[w]

\* Once the farm is at rest nothing more is sent: polls do not push unchanged
\* documents again (the feedback loop of the comment on watcher.push).
Quiets == <>[](\A w \in Watchers : pushes[w] = {} /\ out[w] = {})

\* "push delivers one document to this stream if (and only if) its content
\* changed since the last delivery on that target" (gamesync.go:53-54): in the
\* end a console has the content of every document that is there.  Two sends
\* may overtake each other after they compared, and the poll then finds nothing
\* changed.
ViewsConverge ==
  \A w \in Watchers : \A d \in Members :
    <>[](d \in present /\ store[d] # 0 /\ Watching(w)) =>
      []<>(view[w][d].v = store[d])

\* "so a peer never sees the console's placeholder ids, not even for one push"
\* (gamesync.go:341-343), of a player whose session lasts, whichever sections the
\* reads and writes of others fall between.  Once the stream of the player ended,
\* a write that had found its session is still delivered with the placeholders.
NoPlaceholder ==
  \A w \in Watchers, d \in Members \ departed : view[w][d] # Gone => view[w][d].ids # Nobody
=============================================================================
