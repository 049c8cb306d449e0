---------------------------- MODULE DocSyncProofs ----------------------------
(***************************************************************************)
(* Theorems about DocSync, for every farm, every set of streams and every  *)
(* number of changes.                                                      *)
(***************************************************************************)
EXTENDS DocSync, TLAPS

\* A console that writes, of a player that did not leave, has its session.
WritersPresent ==
  /\ present \cap departed = {}
  /\ writer \subseteq present \cup departed

\* Whom a read under way speaks for: the player of the document, found with its
\* session, or the stream itself.
ReadsSpeakFor ==
  \A w \in Watchers : reader[w].pc \in {"store", "push"} =>
    /\ reader[w].doc \in Members
    /\ reader[w].who \in {reader[w].doc, w}
    /\ reader[w].who \in Members => reader[w].who \in present \cup departed

\* A content that is there carries the ids of a session.
Named(content) == content = Gone \/ content.ids # Nobody

\* Every content on its way, or shown, of a player that did not leave has ids.
AllNamed ==
  \A w \in Watchers :
    /\ \A p \in pushes[w] \cup out[w] : p.doc \notin departed => Named(p.content)
    /\ \A d \in Members \ departed : Named(view[w][d])

\* The poll waits for its own send, and nothing else counts as its send.
OwnSend ==
  \A w \in Watchers :
    /\ \A p \in pushes[w] : p.n # 0
    /\ \A p \in out[w] : p.n = 0 => reader[w].pc = "sending"
    /\ \A p, q \in out[w] : p.n = 0 /\ q.n = 0 => p = q

IInv == TypeOK /\ WritersPresent /\ ReadsSpeakFor /\ AllNamed /\ OwnSend

\* A content compared in push is remembered, and waits to be sent or not.
LEMMA CompareAdds ==
  ASSUME TypeOK, NEW w \in Watchers, NEW p \in Push, Compare(w, p, out[w])
  PROVE  /\ last' \in [Watchers -> [Members -> Content]]
         /\ out' \in [Watchers -> SUBSET Push]
         /\ out' = out \/ out' = [out EXCEPT ![w] = @ \cup {p}]
  <1>1. p.doc \in Members /\ p.content \in Content
    BY DEF Push
  <1> DEFINE row == [last[w] EXCEPT ![p.doc] = p.content]
  <1>2. last' = last \/ last' = [last EXCEPT ![w] = row]
    BY DEF Compare
  <1>3. last' \in [Watchers -> [Members -> Content]]
    <2>1. row \in [Members -> Content]
      BY <1>1 DEF TypeOK
    <2> HIDE DEF row
    <2> QED  BY <1>2, <2>1 DEF TypeOK
  <1>4. out' = out \/ out' = [out EXCEPT ![w] = @ \cup {p}]
    BY DEF Compare, TypeOK
  <1>5. out' \in [Watchers -> SUBSET Push]
    BY <1>4 DEF TypeOK
  <1> QED  BY <1>3, <1>4, <1>5

\* What deliver starts is one more push for some of the streams.
LEMMA DeliveredAdds ==
  ASSUME TypeOK, NEW p \in Push, pushes' = Delivered(p)
  PROVE  /\ pushes' \in [Watchers -> SUBSET Push]
         /\ \A w \in Watchers : pushes'[w] \subseteq pushes[w] \cup {p}
  BY DEF Delivered, TypeOK

\* A session begins or a console begins to write.
LEMMA SessionSteps ==
  ASSUME IInv, NEW d \in Members, IssueToken(d) \/ FindSession(d)
  PROVE  IInv'
  <1> USE DEF IInv
  <1>1. /\ UNCHANGED <<departed, store, changes, reader, pushes, out, last, view, seen>>
        /\ \/ d \notin present \cup departed /\ present' = present \cup {d} /\ writer' = writer
           \/ d \in present /\ writer' = writer \cup {d} /\ present' = present
    BY DEF IssueToken, FindSession
  <1>2. TypeOK'
    BY <1>1 DEF TypeOK
  <1>3. WritersPresent' /\ ReadsSpeakFor'
    BY <1>1 DEF WritersPresent, ReadsSpeakFor
  <1>4. AllNamed' /\ OwnSend'
    BY <1>1 DEF AllNamed, OwnSend
  <1> QED  BY <1>2, <1>3, <1>4

\* A document is written or deleted: a player that did not leave writes with
\* its session there, so its ids are put over what the console wrote.
LEMMA ApplyStep ==
  ASSUME IInv, NEW d \in Members, NEW kind \in {"UPDATED", "DELETED"}, Apply(d, kind)
  PROVE  IInv'
  <1> USE DEF IInv
  <1> DEFINE n == changes + 1
             p == [n |-> n, doc |-> d, kind |-> kind,
                   content |-> IF kind = "DELETED" THEN Gone ELSE Overlaid(n, d)]
  <1>1. n \in Changes /\ n # 0
    BY DocSyncAssumption DEF Apply, TypeOK, Changes
  <1>2. Gone \in Content /\ Overlaid(n, d) \in Content
    BY <1>1, DocSyncAssumption DEF Gone, Content, Overlaid, Changes
  <1>3. p \in Push /\ p.n = n /\ p.doc = d
    BY <1>1, <1>2 DEF Push
  <1>4. d \notin departed => Named(p.content)
    BY DocSyncAssumption DEF Apply, WritersPresent, Named, Overlaid
  <1>5. /\ changes' = n /\ writer' = writer \ {d} /\ pushes' = Delivered(p)
        /\ UNCHANGED <<present, departed, reader, out, last, view, seen>>
        /\ store' = [store EXCEPT ![d] = IF kind = "DELETED" THEN 0 ELSE n]
    BY DEF Apply
  <1> HIDE DEF n, p
  <1>6. /\ pushes' \in [Watchers -> SUBSET Push]
        /\ \A w \in Watchers : pushes'[w] \subseteq pushes[w] \cup {p}
    BY <1>3, <1>5, DeliveredAdds
  <1>7. TypeOK'
    <2>1. store' \in [Members -> Changes]
      BY <1>1, <1>5, DocSyncAssumption DEF TypeOK, Changes
    <2> QED  BY <1>1, <1>5, <1>6, <2>1 DEF TypeOK
  <1>8. WritersPresent' /\ ReadsSpeakFor'
    BY <1>5 DEF WritersPresent, ReadsSpeakFor
  <1>9. AllNamed' /\ OwnSend'
    BY <1>1, <1>3, <1>4, <1>5, <1>6 DEF AllNamed, OwnSend
  <1> QED  BY <1>7, <1>8, <1>9

\* A stream ends: its player has left.
LEMMA StreamEndsStep ==
  ASSUME IInv, NEW d \in Members, StreamEnds(d)
  PROVE  IInv'
  <1> USE DEF IInv
  <1> DEFINE n == changes + 1
             p == [n |-> n, doc |-> d, kind |-> "DELETED", content |-> Gone]
  <1>1. n \in Changes /\ n # 0
    BY DocSyncAssumption DEF StreamEnds, TypeOK, Changes
  <1>2. Gone \in Content
    BY DocSyncAssumption DEF Gone, Content, Changes
  <1>3. p \in Push /\ p.n = n /\ p.content = Gone
    BY <1>1, <1>2 DEF Push
  <1>4. /\ changes' = n /\ pushes' = Delivered(p)
        /\ d \in present /\ present' = present \ {d} /\ departed' = departed \cup {d}
        /\ store' = [store EXCEPT ![d] = 0]
        /\ UNCHANGED <<writer, reader, out, last, view, seen>>
    BY DEF StreamEnds
  <1> HIDE DEF n, p
  <1>5. /\ pushes' \in [Watchers -> SUBSET Push]
        /\ \A w \in Watchers : pushes'[w] \subseteq pushes[w] \cup {p}
    BY <1>3, <1>4, DeliveredAdds
  <1>6. TypeOK'
    <2>1. store' \in [Members -> Changes]
      BY <1>4, DocSyncAssumption DEF TypeOK, Changes
    <2> QED  BY <1>1, <1>4, <1>5, <2>1 DEF TypeOK
  <1>7. WritersPresent' /\ ReadsSpeakFor'
    BY <1>4 DEF WritersPresent, ReadsSpeakFor
  <1>8. AllNamed' /\ OwnSend'
    BY <1>1, <1>3, <1>4, <1>5 DEF AllNamed, OwnSend, Named
  <1> QED  BY <1>6, <1>7, <1>8

\* A push compares: it is one of those to be sent, or it is done.
LEMMA PushComparesStep ==
  ASSUME IInv, NEW w \in Watchers, NEW p \in pushes[w], PushCompares(w, p)
  PROVE  IInv'
  <1> USE DEF IInv
  <1>1. p \in Push
    BY DEF TypeOK
  <1>2. /\ pushes' = [pushes EXCEPT ![w] = @ \ {p}]
        /\ UNCHANGED <<docs, reader, view, seen>>
    BY DEF PushCompares
  <1>3. /\ last' \in [Watchers -> [Members -> Content]] /\ out' \in [Watchers -> SUBSET Push]
        /\ out' = out \/ out' = [out EXCEPT ![w] = @ \cup {p}]
    BY <1>1, CompareAdds DEF PushCompares
  <1>4. TypeOK'
    BY <1>1, <1>2, <1>3 DEF TypeOK, docs
  <1>5. WritersPresent' /\ ReadsSpeakFor'
    BY <1>2 DEF WritersPresent, ReadsSpeakFor, docs
  <1>6. \A v \in Watchers : /\ pushes'[v] \subseteq pushes[v]
                            /\ out'[v] \subseteq out[v] \cup (IF v = w THEN {p} ELSE {})
    BY <1>2, <1>3 DEF TypeOK
  <1>7. AllNamed'
    BY <1>2, <1>6 DEF AllNamed, docs
  <1>8. OwnSend'
    BY <1>2, <1>6 DEF OwnSend
  <1> QED  BY <1>4, <1>5, <1>7, <1>8

\* A push is sent: the console has its content.
LEMMA PushSendsStep ==
  ASSUME IInv, NEW w \in Watchers, NEW p \in out[w], PushSends(w, p)
  PROVE  IInv'
  <1> USE DEF IInv
  <1>1. /\ p \in Push /\ p.doc \in Members /\ p.content \in Content /\ p.n \in Changes
        /\ p.content.v \in Changes
    BY DEF TypeOK, Push, Content
  <1>2. /\ out' = [out EXCEPT ![w] = @ \ {p}]
        /\ view' = [view EXCEPT ![w][p.doc] = p.content]
        /\ seen' = [seen EXCEPT ![w] = @ \cup {IF p.kind = "DELETED" THEN p.n ELSE p.content.v}]
        /\ reader' = IF p.n = 0 THEN [reader EXCEPT ![w].pc = "next"] ELSE reader
        /\ UNCHANGED <<docs, pushes, last>>
    BY DEF PushSends
  <1>3. /\ reader' \in [Watchers -> Reader \cup {Off, Idle}]
        /\ \A v \in Watchers : \/ reader'[v] = reader[v]
                               \/ v = w /\ p.n = 0 /\ reader'[w].pc = "next"
    <2>1. CASE p.n # 0
      BY <1>2, <2>1 DEF TypeOK
    <2>2. CASE p.n = 0
      <3>1. reader[w].pc = "sending" /\ reader[w] \in Reader
        BY <2>2 DEF OwnSend, TypeOK, Off, Idle
      <3>2. [reader[w] EXCEPT !.pc = "next"] \in Reader /\ [reader[w] EXCEPT !.pc = "next"].pc = "next"
        BY <3>1 DEF Reader
      <3> QED  BY <1>2, <2>2, <3>2 DEF TypeOK
    <2> QED  BY <2>1, <2>2
  <1>4. TypeOK'
    <2>1. view' \in [Watchers -> [Members -> Content]]
      <3> DEFINE row == [view[w] EXCEPT ![p.doc] = p.content]
      <3>1. view' = [view EXCEPT ![w] = row]
        BY <1>2
      <3>2. row \in [Members -> Content]
        BY <1>1 DEF TypeOK
      <3> HIDE DEF row
      <3> QED  BY <3>1, <3>2 DEF TypeOK
    <2>2. seen' \in [Watchers -> SUBSET Changes]
      BY <1>1, <1>2 DEF TypeOK
    <2>3. out' \in [Watchers -> SUBSET Push]
      BY <1>2 DEF TypeOK
    <2> QED  BY <1>2, <1>3, <2>1, <2>2, <2>3 DEF TypeOK, docs
  <1>5. WritersPresent' /\ ReadsSpeakFor'
    BY <1>2, <1>3 DEF WritersPresent, ReadsSpeakFor, docs
  <1>6. AllNamed'
    <2>1. ASSUME NEW v \in Watchers, NEW d \in Members \ departed PROVE Named(view'[v][d])
      <3>1. \/ view'[v][d] = view[v][d]
            \/ d = p.doc /\ view'[v][d] = p.content
        BY <1>1, <1>2 DEF TypeOK
      <3> QED  BY <3>1 DEF AllNamed
    <2>2. \A v \in Watchers : out'[v] \subseteq out[v] /\ pushes'[v] = pushes[v]
      BY <1>2 DEF TypeOK
    <2> QED  BY <1>2, <2>1, <2>2 DEF AllNamed, docs
  <1>7. OwnSend'
    BY <1>2, <1>3 DEF OwnSend, TypeOK
  <1> QED  BY <1>4, <1>5, <1>6, <1>7

\* The listing and the poll begin, and end.
LEMMA ReadBoundStep ==
  ASSUME IInv, NEW w \in Watchers, UpdateTarget(w) \/ Poll(w) \/ ReadDone(w)
  PROVE  IInv'
  <1> USE DEF IInv
  <1>1. /\ UNCHANGED <<docs, pushes, out, last, view, seen>>
        /\ reader[w].pc # "sending"
        /\ \E r \in Reader \cup {Idle} : r.pc \in {"next", "idle"} /\ reader' = [reader EXCEPT ![w] = r]
    <2>1. CASE ReadDone(w)
      BY <2>1 DEF ReadDone, Idle
    <2>2. ASSUME NEW kind \in {"EXIST", "UPDATED"}, ReadAll(w, kind)
          PROVE  \E r \in Reader : r.pc = "next" /\ reader' = [reader EXCEPT ![w] = r]
      <3> DEFINE r == [pc |-> "next", kind |-> kind, todo |-> Listed, doc |-> Nobody, who |-> Nobody, val |-> 0]
      <3>1. r \in Reader
        BY DocSyncAssumption DEF Reader, Listed, Changes
      <3> QED  BY <2>2, <3>1 DEF ReadAll
    <2>3. CASE UpdateTarget(w) \/ Poll(w)
      BY <2>2, <2>3 DEF UpdateTarget, Poll, Off, Idle
    <2> QED  BY <2>1, <2>3
  <1>2. PICK r \in Reader \cup {Idle} : r.pc \in {"next", "idle"} /\ reader' = [reader EXCEPT ![w] = r]
    BY <1>1
  <1>3. \A v \in Watchers : reader'[v] = IF v = w THEN r ELSE reader[v]
    BY <1>2 DEF TypeOK
  <1>4. TypeOK'
    BY <1>1, <1>2 DEF TypeOK, docs
  <1>5. WritersPresent' /\ ReadsSpeakFor' /\ AllNamed' /\ OwnSend'
    BY <1>1, <1>2, <1>3 DEF WritersPresent, ReadsSpeakFor, AllNamed, OwnSend, docs
  <1> QED  BY <1>4, <1>5

\* A read finds the session of a document, or stands in with the stream's own.
LEMMA ReadSessionStep ==
  ASSUME IInv, NEW w \in Watchers, NEW d \in Members, ReadSession(w, d)
  PROVE  IInv'
  <1> USE DEF IInv
  <1> DEFINE old == reader[w]
             new == [old EXCEPT !.pc = "store", !.todo = @ \ {d}, !.doc = d,
                                !.who = IF d \in present THEN d ELSE w]
  <1>1. old.pc = "next" /\ old \in Reader
    <2>1. old.pc = "next" /\ old \in Reader \cup {Off, Idle}
      BY DEF ReadSession, TypeOK
    <2> HIDE DEF old
    <2> QED  BY <2>1 DEF Off, Idle
  <1>2. /\ new \in Reader /\ new.pc = "store" /\ new.doc = d
        /\ new.who = IF d \in present THEN d ELSE w
    BY <1>1 DEF Reader
  <1>3. /\ reader' = [reader EXCEPT ![w] = new]
        /\ UNCHANGED <<docs, pushes, out, last, view, seen>>
    BY DEF ReadSession
  <1> HIDE DEF old, new
  <1>4. \A v \in Watchers : reader'[v] = IF v = w THEN new ELSE reader[v]
    BY <1>3 DEF TypeOK
  <1>5. TypeOK'
    BY <1>2, <1>3 DEF TypeOK, docs
  <1>6. ReadsSpeakFor'
    BY <1>2, <1>3, <1>4, DocSyncAssumption DEF ReadsSpeakFor, docs
  <1>7. WritersPresent' /\ AllNamed' /\ OwnSend'
    BY <1>1, <1>2, <1>3, <1>4 DEF WritersPresent, AllNamed, OwnSend, docs, old
  <1> QED  BY <1>5, <1>6, <1>7

\* A read takes what was written.
LEMMA ReadStoreStep ==
  ASSUME IInv, NEW w \in Watchers, ReadStore(w)
  PROVE  IInv'
  <1> USE DEF IInv
  <1> DEFINE old == reader[w]
             new == [old EXCEPT !.pc = "push", !.val = store[old.doc]]
  <1>1. old.pc = "store" /\ old \in Reader /\ old.doc \in Members
    <2>1. old.pc = "store" /\ old \in Reader \cup {Off, Idle}
      BY DEF ReadStore, TypeOK
    <2>2. old.pc = "store" => old.doc \in Members
      BY <2>1 DEF ReadsSpeakFor
    <2> HIDE DEF old
    <2> QED  BY <2>1, <2>2 DEF Off, Idle
  <1>2. new \in Reader /\ new.pc = "push" /\ new.doc = old.doc /\ new.who = old.who
    BY <1>1 DEF Reader, TypeOK
  <1>3. /\ reader' = [reader EXCEPT ![w] = new]
        /\ UNCHANGED <<docs, pushes, out, last, view, seen>>
    BY DEF ReadStore
  <1> HIDE DEF new
  <1>4. \A v \in Watchers : reader'[v] = IF v = w THEN new ELSE reader[v]
    BY <1>3 DEF TypeOK
  <1>5. TypeOK'
    BY <1>2, <1>3 DEF TypeOK, docs
  <1>6. ReadsSpeakFor'
    BY <1>1, <1>2, <1>3, <1>4 DEF ReadsSpeakFor, docs
  <1>7. WritersPresent' /\ AllNamed' /\ OwnSend'
    BY <1>1, <1>2, <1>3, <1>4 DEF WritersPresent, AllNamed, OwnSend, docs
  <1> QED  BY <1>5, <1>6, <1>7

\* A read compares what it composed: the ids are those of a session, unless the
\* player has left.
LEMMA ReadPushStep ==
  ASSUME IInv, NEW w \in Watchers, ReadPush(w)
  PROVE  IInv'
  <1> USE DEF IInv
  <1> DEFINE r == reader[w]
             content == IF r.val = 0 THEN [v |-> 0, ids |-> r.who] ELSE Overlaid(r.val, r.who)
             p == [n |-> 0, doc |-> r.doc, kind |-> r.kind, content |-> content]
             new == [r EXCEPT !.pc = IF out'[w] = out[w] THEN "next" ELSE "sending"]
  <1>1. /\ r.pc = "push" /\ r \in Reader /\ r.doc \in Members /\ r.who \in {r.doc, w}
        /\ r.who \in Members => r.who \in present \cup departed
    BY DEF ReadPush, TypeOK, Off, Idle, ReadsSpeakFor
  <1>2. /\ content \in Content
        /\ r.doc \notin departed => content.ids # Nobody
    BY <1>1, DocSyncAssumption DEF Content, Overlaid, Reader, Changes
  <1>3. /\ Compare(w, p, out[w])
        /\ reader' = [reader EXCEPT ![w] = new]
        /\ UNCHANGED <<docs, pushes, view, seen>>
    BY DEF ReadPush
  <1>4. /\ new \in Reader
        /\ new.pc = IF out'[w] = out[w] THEN "next" ELSE "sending"
    BY <1>1 DEF Reader
  <1> HIDE DEF content, new
  <1>5. /\ p \in Push /\ p.n = 0
        /\ p.doc \notin departed => Named(p.content)
    BY <1>1, <1>2, DocSyncAssumption DEF Push, Named, Reader, Changes
  <1> HIDE DEF p
  <1>6. /\ last' \in [Watchers -> [Members -> Content]] /\ out' \in [Watchers -> SUBSET Push]
        /\ out' = out \/ out' = [out EXCEPT ![w] = @ \cup {p}]
    BY <1>3, <1>5, CompareAdds
  <1>7. \A v \in Watchers : reader'[v] = IF v = w THEN new ELSE reader[v]
    BY <1>3 DEF TypeOK
  <1>8. TypeOK'
    BY <1>3, <1>4, <1>5, <1>6 DEF TypeOK, docs
  <1>9. WritersPresent' /\ ReadsSpeakFor'
    BY <1>3, <1>4, <1>7 DEF WritersPresent, ReadsSpeakFor, docs
  <1>10. \A v \in Watchers : 
          \/ out'[v] = out[v]
          \/ v = w /\ out'[w] = out[w] \cup {p} /\ out'[w] # out[w]
    BY <1>6 DEF TypeOK
  <1>11. AllNamed'
    BY <1>3, <1>5, <1>10 DEF AllNamed, docs
  <1>12. OwnSend'
    BY <1>1, <1>3, <1>4, <1>5, <1>7, <1>10 DEF OwnSend
  <1> QED  BY <1>8, <1>9, <1>11, <1>12

\* gamesync.go, push and fields: what is on its way to a console has ids, unless
\* its player has left.
THEOREM Invariance == Spec => []IInv
  <1>1. Init => IInv
    <2> SUFFICES ASSUME Init PROVE IInv
      OBVIOUS
    <2>1. Gone \in Content /\ 0 \in Changes
      BY DocSyncAssumption DEF Gone, Content, Changes
    <2>2. TypeOK
      BY <2>1 DEF Init, TypeOK
    <2>3. WritersPresent /\ ReadsSpeakFor /\ AllNamed /\ OwnSend
      BY DEF Init, WritersPresent, ReadsSpeakFor, AllNamed, OwnSend, Named, Off
    <2> QED  BY <2>2, <2>3 DEF IInv
  <1>2. IInv /\ [Next]_vars => IInv'
    <2> SUFFICES ASSUME IInv, [Next]_vars PROVE IInv'
      OBVIOUS
    <2>1. ASSUME NEW d \in Members, IssueToken(d) \/ FindSession(d) \/ StreamEnds(d) PROVE IInv'
      BY <2>1, SessionSteps, StreamEndsStep
    <2>2. ASSUME NEW d \in Members, NEW kind \in {"UPDATED", "DELETED"}, Apply(d, kind) PROVE IInv'
      BY <2>2, ApplyStep
    <2>3. ASSUME NEW w \in Watchers, UpdateTarget(w) \/ Read(w) PROVE IInv'
      BY <2>3, ReadBoundStep, ReadSessionStep, ReadStoreStep, ReadPushStep DEF Read
    <2>4. ASSUME NEW w \in Watchers, NEW p \in pushes[w], PushCompares(w, p) PROVE IInv'
      BY <2>4, PushComparesStep
    <2>5. ASSUME NEW w \in Watchers, NEW p \in out[w], PushSends(w, p) PROVE IInv'
      BY <2>5, PushSendsStep
    <2>6. CASE UNCHANGED vars
      BY <2>6 DEF vars, docs, IInv, TypeOK, WritersPresent, ReadsSpeakFor, AllNamed, OwnSend
    <2> QED  BY <2>1, <2>2, <2>3, <2>4, <2>5, <2>6 DEF Next
  <1> QED  BY <1>1, <1>2, PTL DEF Spec

\* The type invariant of DocSync.
THEOREM TypeCorrect == Spec => []TypeOK
  <1>1. IInv => TypeOK
    BY DEF IInv
  <1> QED  BY <1>1, Invariance, PTL

\* NoPlaceholder (gamesync.go, withStation): no console sees the placeholder ids
\* of a player whose session lasts, whichever sections of the reads and the
\* writes fall between each other.  Of a player who departed it says nothing: a
\* write that had found the session is then delivered with the placeholders.
THEOREM PlaceholdersNeverSeen == Spec => []NoPlaceholder
  <1>1. IInv => NoPlaceholder
    BY DEF IInv, AllNamed, Named, NoPlaceholder
  <1> QED  BY <1>1, Invariance, PTL
=============================================================================
