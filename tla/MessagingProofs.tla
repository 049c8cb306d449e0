--------------------------- MODULE MessagingProofs ---------------------------
(***************************************************************************)
(* Messaging, proved for all players, streams, lists of receivers and      *)
(* bounds: the store and the queues, what waits for its ack, and what an   *)
(* ack ends, while the process may die between any two writes.             *)
(***************************************************************************)
EXTENDS Messaging, FiniteSetTheorems, WellFoundedInduction, TLAPS

-----------------------------------------------------------------------------
(* What holds at every step *)

\* The items queued; those that a handler's writes will store, and delete; and
\* those that the store holds or will be given.
AllOf(b)   == UNION {Of(u, b[u]) : u \in Users}
All        == AllOf(box)
PutsOf(ws) == UNION {ws[i].recs : i \in {k \in 1 .. Len(ws) : ws[k].op = "put"}}
DelsOf(ws) == UNION {ws[i].recs : i \in {k \in 1 .. Len(ws) : ws[k].op = "del"}}
Stored     == db \cup PutsOf(writes)

\* x is the ack of the message y.
Answers(x, y) ==
  /\ x.item.kind = "ack" /\ y.item.kind = "msg"
  /\ x.item.from = y.user /\ x.item.ends = y.item.seq

\* What the store holds, once the writes are done, is what is queued.
StoreCatchesUp ==
  /\ All = Stored \ DelsOf(writes)
  /\ PutsOf(writes) \cap DelsOf(writes) = {}

\* Numbers are given once, and an ack has a later one than its message.
Numbered ==
  /\ \A r \in Stored : r.item.seq <= seq
  /\ \A x, y \in Stored : x.item.seq = y.item.seq => x = y
  /\ \A r \in Stored : r.item.kind = "ack" => r.item.ends < r.item.seq

\* What waits for its ack is queued.
OwedQueued == {r \in owed : r.item.need} \subseteq All

\* No ack is queued, or stored, with its message; one that is still to be stored
\* is stored after the message was deleted; and no message is stored after its ack.
AcksApart ==
  /\ \A x, y \in All : ~ Answers(x, y)
  /\ \A x, y \in db : ~ Answers(x, y)
  /\ \A x \in Stored, y \in PutsOf(writes) : ~ Answers(x, y)
  /\ \A i \in 1 .. Len(writes) : writes[i].op = "put" =>
       \A x \in writes[i].recs, y \in db :
         Answers(x, y) => \E j \in 1 .. i - 1 : writes[j].op = "del" /\ y \in writes[j].recs

MailInv == TypeOK /\ StoreCatchesUp /\ Numbered /\ OwedQueued /\ AcksApart

-----------------------------------------------------------------------------
(* Numbers and sequences                                                   *)

\* Every set of numbers that is not empty has a least one.
LEMMA LeastNumber ==
  ASSUME NEW T \in SUBSET Nat, T # {}
  PROVE  \E n \in T : \A m \in T : n <= m
  <1>1. PICK n \in T : \A m \in T : <<m, n>> \notin OpToRel(<, Nat)
    BY NatLessThanWellFounded, WFMin
  <1>2. \A m \in T : ~ (m < n)
    BY <1>1, Zenon DEF OpToRel
  <1> QED  BY <1>2

\* The elements of a sequence.
In(x, s) == \E k \in 1 .. Len(s) : s[k] = x

\* The elements of two sequences one after the other.
LEMMA InBoth ==
  ASSUME NEW S, NEW s \in Seq(S), NEW t \in Seq(S)
  PROVE  s \o t \in Seq(S) /\ \A x : In(x, s \o t) <=> In(x, s) \/ In(x, t)
  <1>1. Len(s) \in Nat /\ Len(t) \in Nat /\ s \o t \in Seq(S) /\ Len(s \o t) = Len(s) + Len(t)
    OBVIOUS
  <1>2. ASSUME NEW k \in 1 .. Len(s) PROVE k \in 1 .. Len(s \o t) /\ (s \o t)[k] = s[k]
    BY <1>1
  <1>3. ASSUME NEW k \in 1 .. Len(t)
        PROVE  Len(s) + k \in 1 .. Len(s \o t) /\ (s \o t)[Len(s) + k] = t[k]
    BY <1>1
  <1>4. ASSUME NEW k \in 1 .. Len(s \o t), k \notin 1 .. Len(s)
        PROVE  k - Len(s) \in 1 .. Len(t) /\ (s \o t)[k] = t[k - Len(s)]
    BY <1>1, <1>4
  <1>5. ASSUME NEW x, In(x, s \o t) PROVE In(x, s) \/ In(x, t)
    <2>1. PICK k \in 1 .. Len(s \o t) : (s \o t)[k] = x
      BY <1>5 DEF In
    <2>2. CASE k \in 1 .. Len(s)
      BY <1>2, <2>1, <2>2 DEF In
    <2>3. CASE k \notin 1 .. Len(s)
      BY <1>4, <2>1, <2>3 DEF In
    <2> QED  BY <2>2, <2>3
  <1>6. ASSUME NEW x, In(x, s) \/ In(x, t) PROVE In(x, s \o t)
    <2>1. CASE In(x, s)
      <3>1. PICK k \in 1 .. Len(s) : s[k] = x
        BY <2>1 DEF In
      <3> QED  BY <1>2, <3>1 DEF In
    <2>2. CASE In(x, t)
      <3>1. PICK k \in 1 .. Len(t) : t[k] = x
        BY <2>2 DEF In
      <3> QED  BY <1>3, <3>1 DEF In
    <2> QED  BY <1>6, <2>1, <2>2
  <1> QED  BY <1>1, <1>5, <1>6

-----------------------------------------------------------------------------
(* Mailboxes and writes *)

\* The queued items with their owners are records.
LEMMA AllRecords ==
  ASSUME NEW b \in [Users -> SUBSET Item]
  PROVE  \A r : r \in AllOf(b) <=> r \in Record /\ r.item \in b[r.user]
  BY DEF AllOf, Of, Record

\* The records that writes store and delete.
LEMMA WritesOf ==
  ASSUME NEW ws \in Seq(Write)
  PROVE  /\ PutsOf(ws) \in SUBSET Record /\ DelsOf(ws) \in SUBSET Record
         /\ \A r : r \in PutsOf(ws) <=> \E w \in Write : In(w, ws) /\ w.op = "put" /\ r \in w.recs
         /\ \A r : r \in DelsOf(ws) <=> \E w \in Write : In(w, ws) /\ w.op = "del" /\ r \in w.recs
  <1>1. \A i \in 1 .. Len(ws) : ws[i] \in Write
    OBVIOUS
  <1>2. \A w \in Write : w.recs \in SUBSET Record
    BY DEF Write
  <1>3. \A r : r \in PutsOf(ws) <=> \E w \in Write : In(w, ws) /\ w.op = "put" /\ r \in w.recs
    BY <1>1 DEF PutsOf, In
  <1>4. \A r : r \in DelsOf(ws) <=> \E w \in Write : In(w, ws) /\ w.op = "del" /\ r \in w.recs
    BY <1>1 DEF DelsOf, In
  <1> QED  BY <1>2, <1>3, <1>4

\* No writes store and delete nothing.
LEMMA NoWrites == PutsOf(<<>>) = {} /\ DelsOf(<<>>) = {}
  BY DEF PutsOf, DelsOf

\* One write.
LEMMA OneWrite ==
  ASSUME NEW w \in Write
  PROVE  /\ <<w>> \in Seq(Write)
         /\ PutsOf(<<w>>) = IF w.op = "put" THEN w.recs ELSE {}
         /\ DelsOf(<<w>>) = IF w.op = "del" THEN w.recs ELSE {}
  <1>1. <<w>> \in Seq(Write) /\ \A x : In(x, <<w>>) <=> x = w
    BY DEF In
  <1> DEFINE ws == <<w>>
  <1>2. ws \in Seq(Write) /\ \A x : In(x, ws) <=> x = w
    BY <1>1
  <1> HIDE DEF ws
  <1>a. \A r : r \in PutsOf(ws) <=> w.op = "put" /\ r \in w.recs
    <2>1. \A r : r \in PutsOf(ws) <=> \E v \in Write : In(v, ws) /\ v.op = "put" /\ r \in v.recs
      BY <1>2, WritesOf
    <2>2. ASSUME NEW r
          PROVE  (\E v \in Write : In(v, ws) /\ v.op = "put" /\ r \in v.recs) <=> w.op = "put" /\ r \in w.recs
      BY <1>2
    <2> QED  BY <2>1, <2>2
  <1>b. \A r : r \in DelsOf(ws) <=> w.op = "del" /\ r \in w.recs
    <2>1. \A r : r \in DelsOf(ws) <=> \E v \in Write : In(v, ws) /\ v.op = "del" /\ r \in v.recs
      BY <1>2, WritesOf
    <2>2. ASSUME NEW r
          PROVE  (\E v \in Write : In(v, ws) /\ v.op = "del" /\ r \in v.recs) <=> w.op = "del" /\ r \in w.recs
      BY <1>2
    <2> QED  BY <2>1, <2>2
  <1>3. w.recs \in SUBSET Record
    BY DEF Write
  <1> QED  BY <1>2, <1>3, <1>a, <1>b DEF ws

\* Writes one after the other.
LEMMA WritesJoin ==
  ASSUME NEW s \in Seq(Write), NEW t \in Seq(Write)
  PROVE  /\ s \o t \in Seq(Write)
         /\ PutsOf(s \o t) = PutsOf(s) \cup PutsOf(t)
         /\ DelsOf(s \o t) = DelsOf(s) \cup DelsOf(t)
  <1>1. s \o t \in Seq(Write) /\ \A x : In(x, s \o t) <=> In(x, s) \/ In(x, t)
    BY InBoth
  <1> QED  BY <1>1, WritesOf

\* The three kinds of writes.
LEMMA KindsOfWrites ==
  ASSUME NEW recs \in SUBSET Record, NEW n \in Nat
  PROVE  /\ Put(recs) \in Seq(Write) /\ PutsOf(Put(recs)) = recs /\ DelsOf(Put(recs)) = {}
         /\ Count(n) \in Seq(Write) /\ PutsOf(Count(n)) = {} /\ DelsOf(Count(n)) = {}
         /\ Del(recs) \in Seq(Write) /\ PutsOf(Del(recs)) = {} /\ DelsOf(Del(recs)) = recs
  <1>1. /\ [op |-> "put", recs |-> recs, n |-> 0] \in Write
        /\ [op |-> "count", recs |-> {}, n |-> n] \in Write
        /\ [op |-> "del", recs |-> recs, n |-> 0] \in Write
    BY DEF Write
  <1>2. <<>> \in Seq(Write)
    OBVIOUS
  <1> QED  BY <1>1, <1>2, OneWrite, NoWrites DEF Put, Count, Del

\* What enqueue writes: its item in, what it trims out.
LEMMA EnqueueWrites ==
  ASSUME NEW u \in Users, NEW items \in SUBSET Item, NEW q \in Item
  PROVE  /\ QueueWrites(u, items, q) \in Seq(Write)
         /\ PutsOf(QueueWrites(u, items, q)) = Of(u, {q})
         /\ DelsOf(QueueWrites(u, items, q)) = Of(u, Trimmed(items, q))
  <1>1. Of(u, {q}) \in SUBSET Record /\ Of(u, Trimmed(items, q)) \in SUBSET Record /\ q.seq \in Nat
    BY DEF Of, Trimmed, Record, Item
  <1> DEFINE w1 == Put(Of(u, {q}))
             w2 == Count(q.seq)
             w3 == Del(Of(u, Trimmed(items, q)))
  <1>2. /\ w1 \in Seq(Write) /\ PutsOf(w1) = Of(u, {q}) /\ DelsOf(w1) = {}
        /\ w2 \in Seq(Write) /\ PutsOf(w2) = {} /\ DelsOf(w2) = {}
        /\ w3 \in Seq(Write) /\ PutsOf(w3) = {} /\ DelsOf(w3) = Of(u, Trimmed(items, q))
    BY <1>1, KindsOfWrites
  <1> HIDE DEF w1, w2, w3
  <1>3. /\ w1 \o w2 \in Seq(Write) /\ PutsOf(w1 \o w2) = PutsOf(w1) \cup PutsOf(w2)
        /\ DelsOf(w1 \o w2) = DelsOf(w1) \cup DelsOf(w2)
    BY <1>2, WritesJoin, Zenon
  <1> DEFINE w12 == w1 \o w2
  <1> HIDE DEF w12
  <1>a. w12 \in Seq(Write) /\ PutsOf(w12) = Of(u, {q}) /\ DelsOf(w12) = {}
    BY <1>2, <1>3 DEF w12
  <1>b. /\ w12 \o w3 \in Seq(Write) /\ PutsOf(w12 \o w3) = PutsOf(w12) \cup PutsOf(w3)
        /\ DelsOf(w12 \o w3) = DelsOf(w12) \cup DelsOf(w3)
    BY <1>2, <1>a, WritesJoin, Zenon
  <1> DEFINE w123 == w12 \o w3
  <1> HIDE DEF w123
  <1>4. w123 \in Seq(Write) /\ PutsOf(w123) = Of(u, {q}) /\ DelsOf(w123) = Of(u, Trimmed(items, q))
    BY <1>2, <1>a, <1>b DEF w123
  <1>5. QueueWrites(u, items, q) = w123
    BY Zenon DEF QueueWrites, w1, w2, w3, w12, w123
  <1> QED  BY <1>4, <1>5

\* An item newer than all others is not trimmed.
LEMMA NewestStays ==
  ASSUME MessagingAssumption, NEW items \in SUBSET Item, NEW q \in Item, \A p \in items : p.seq < q.seq
  PROVE  q \in Newest(items \cup {q}) /\ q \notin Trimmed(items, q)
  <1>1. {p \in items \cup {q} : p.seq > q.seq} = {}
    <2>1. q.seq \in Int /\ \A p \in items : p.seq \in Int /\ p.seq < q.seq
      BY DEF Item
    <2>2. \A p \in items \cup {q} : ~ (p.seq > q.seq)
      BY <2>1
    <2> QED  BY <2>2, Zenon
  <1>2. Cardinality({p \in items \cup {q} : p.seq > q.seq}) < MaxQueued
    <2>1. Cardinality({}) = 0 /\ 0 < MaxQueued
      BY FS_EmptySet DEF MessagingAssumption
    <2> QED  BY <1>1, <2>1
  <1> QED  BY <1>2 DEF Newest, Trimmed

\* Of items there are, one is the oldest.
LEMMA OldestIsThere ==
  ASSUME NEW items \in SUBSET Item, items # {}
  PROVE  Oldest(items) \in items
  <1> DEFINE T == {q.seq : q \in items}
  <1>1. T \in SUBSET Nat /\ T # {}
    BY DEF Item
  <1>2. PICK n \in T : \A m \in T : n <= m
    BY <1>1, LeastNumber
  <1>3. \E q \in items : \A p \in items : q.seq <= p.seq
    <2>1. PICK q \in items : q.seq = n
      BY <1>2
    <2>2. \A p \in items : p.seq \in T
      OBVIOUS
    <2> HIDE DEF T
    <2> QED  BY <1>2, <2>1, <2>2
  <1> QED  BY <1>3 DEF Oldest

-----------------------------------------------------------------------------
(* Types *)

\* A stream that is there has what an open one has.
LEMMA OpenStream ==
  ASSUME TypeOK, NEW s \in Streams, IsOpen(s)
  PROVE  stream[s] \in Open /\ stream[s].user \in Users
  BY DEF TypeOK, IsOpen, Open

\* Waking streams keeps their types.
LEMMA WokenTyped ==
  ASSUME TypeOK, NEW us
  PROVE  Woken(us) \in [Streams -> Open \cup {Closed}]
  <1> SUFFICES ASSUME NEW s \in Streams
               PROVE  (IF IsOpen(s) /\ stream[s].reg /\ stream[s].user \in us
                         THEN [stream[s] EXCEPT !.wake = TRUE] ELSE stream[s]) \in Open \cup {Closed}
    BY DEF Woken
  <1>1. IsOpen(s) => [stream[s] EXCEPT !.wake = TRUE] \in Open
    BY OpenStream DEF Open
  <1>2. stream[s] \in Open \cup {Closed}
    BY DEF TypeOK
  <1> QED  BY <1>1, <1>2

-----------------------------------------------------------------------------
(* A handler that changes the queues *)

\* With no write left the store holds what is queued.
LEMMA FreeStore ==
  ASSUME MailInv, writes = <<>>
  PROVE  All = db /\ Stored = db
  BY NoWrites DEF MailInv, StoreCatchesUp, Stored

\* No item queued is as new as the next.
LEMMA QueuedOlder ==
  ASSUME MailInv, NEW v \in Users, NEW p \in box[v]
  PROVE  p.seq < seq + 1
  <1>1. [user |-> v, item |-> p] \in All
    BY DEF All, AllOf, Of
  <1>2. p.seq <= seq
    BY <1>1 DEF MailInv, StoreCatchesUp, Numbered
  <1>3. p.seq \in Int /\ seq \in Int
    BY DEF MailInv, TypeOK, Item
  <1> QED  BY <1>2, <1>3

\* A handler that queues new items and drops others, of which those it owes no
\* more include all that need an ack, and leaves the writes for both.
LEMMA HandlerStep ==
  ASSUME MailInv, writes = <<>>,
         NEW new \in SUBSET Record, NEW gone \in SUBSET Record, NEW ended \in SUBSET gone,
         new \cap gone = {},
         All' = (All \cup new) \ gone, PutsOf(writes') = new, DelsOf(writes') = gone, db' = db,
         owed' \subseteq (owed \cup new) \ ended, \A r \in gone \ ended : ~ r.item.need,
         seq' \in Nat, seq <= seq', \A r \in new : r.item.seq <= seq',
         \A x \in new, y \in All \cup new : x.item.seq = y.item.seq => x = y,
         \A r \in new : r.item.kind = "ack" => r.item.ends < r.item.seq,
         \A x \in All \cup new, y \in new : ~ Answers(x, y),
         \A x \in new, y \in All \ gone : ~ Answers(x, y),
         \A i \in 1 .. Len(writes') : writes'[i].op = "put" =>
           \A x \in writes'[i].recs, y \in All :
             Answers(x, y) => \E j \in 1 .. i - 1 : writes'[j].op = "del" /\ y \in writes'[j].recs
  PROVE  StoreCatchesUp' /\ Numbered' /\ OwedQueued' /\ AcksApart'
  <1>1. All = db /\ Stored = db /\ Stored' = db \cup new
    BY FreeStore DEF Stored
  <1>2. StoreCatchesUp'
    BY <1>1 DEF StoreCatchesUp
  <1>3. db \in SUBSET Record /\ seq \in Nat
    BY DEF MailInv, TypeOK
  <1>4. Numbered'
    <2>1. \A r \in Stored' : r.item.seq <= seq'
      <3>1. \A r \in db : r.item.seq \in Nat /\ r.item.seq <= seq
        BY <1>1, <1>3 DEF MailInv, Numbered, Record, Item
      <3> QED  BY <1>1, <1>3, <3>1
    <2>2. \A x, y \in Stored' : x.item.seq = y.item.seq => x = y
      <3>1. \A x, y \in db : x.item.seq = y.item.seq => x = y
        BY <1>1 DEF MailInv, Numbered
      <3> QED  BY <1>1, <3>1
    <2>3. \A r \in Stored' : r.item.kind = "ack" => r.item.ends < r.item.seq
      BY <1>1 DEF MailInv, Numbered
    <2> QED  BY <2>1, <2>2, <2>3 DEF Numbered
  <1>5. OwedQueued'
    BY DEF MailInv, OwedQueued
  <1>6. AcksApart'
    <2>1. \A x, y \in All : ~ Answers(x, y)
      BY DEF MailInv, AcksApart
    <2>2. \A x, y \in All' : ~ Answers(x, y)
      BY <2>1
    <2> QED  BY <1>1, <2>1, <2>2 DEF AcksApart
  <1> QED  BY <1>2, <1>4, <1>5, <1>6

\* A handler that only drops items.
LEMMA DropStep ==
  ASSUME MailInv, writes = <<>>, NEW gone \in SUBSET Record, NEW ended \in SUBSET gone,
         All' = All \ gone, writes' = Del(gone), UNCHANGED <<db, seq>>,
         owed' = owed \ ended, \A r \in gone \ ended : ~ r.item.need
  PROVE  StoreCatchesUp' /\ Numbered' /\ OwedQueued' /\ AcksApart'
  <1>1. PutsOf(writes') = {} /\ DelsOf(writes') = gone
    BY KindsOfWrites
  <1>2. \A i \in 1 .. Len(writes') : writes'[i].op # "put"
    BY DEF Del
  <1>3. seq \in Nat
    BY DEF MailInv, TypeOK
  <1> DEFINE new == {}
  <1>5. /\ new \in SUBSET Record /\ new \cap gone = {} /\ All' = (All \cup new) \ gone
        /\ PutsOf(writes') = new /\ owed' \subseteq (owed \cup new) \ ended
    BY <1>1
  <1>6. /\ \A r \in new : r.item.seq <= seq'
        /\ \A x \in new, y \in All \cup new : x.item.seq = y.item.seq => x = y
        /\ \A r \in new : r.item.kind = "ack" => r.item.ends < r.item.seq
        /\ \A x \in All \cup new, y \in new : ~ Answers(x, y)
        /\ \A x \in new, y \in All \ gone : ~ Answers(x, y)
    OBVIOUS
  <1>7. \A i \in 1 .. Len(writes') : writes'[i].op = "put" =>
          \A x \in writes'[i].recs, y \in All :
            Answers(x, y) => \E j \in 1 .. i - 1 : writes'[j].op = "del" /\ y \in writes'[j].recs
    BY <1>2
  <1>8. seq' \in Nat /\ seq <= seq' /\ db' = db /\ PutsOf(writes') = new /\ DelsOf(writes') = gone
    BY <1>1, <1>3, <1>5
  <1> HIDE DEF new
  <1> QED  BY <1>5, <1>6, <1>7, <1>8, HandlerStep, ZenonT(40)

-----------------------------------------------------------------------------
(* Every action keeps it *)

\* Enqueue: the message is new, so it is not acked yet.
LEMMA EnqueueKeeps ==
  ASSUME MessagingAssumption, MailInv, Enqueue
  PROVE  MailInv'
  <1> DEFINE j    == Head(todo)
             u    == j.user
             q    == [seq |-> seq + 1, kind |-> "msg", from |-> j.from, req |-> j.req,
                      need |-> j.need, ends |-> 0]
             trim == Trimmed(box[u], q)
             rq   == [user |-> u, item |-> q]
             gone == Of(u, trim)
  <1>1. /\ writes = <<>> /\ todo # <<>> /\ todo' = Tail(todo) /\ seq' = seq + 1
        /\ box' = [box EXCEPT ![u] = Queued(@, q)]
        /\ writes' = QueueWrites(u, box[u], q)
        /\ stream' = Woken({u})
        /\ owed' = (owed \cup Of(u, {q})) \ gone
        /\ UNCHANGED <<db, dbSeq, expired, requests, token>>
    BY Zenon DEF Enqueue
  <1>2. /\ seq \in Nat /\ todo \in Seq(Sent) /\ box \in [Users -> SUBSET Item]
        /\ owed \in SUBSET Record
    BY DEF MailInv, TypeOK
  <1>3. j \in Sent /\ todo' \in Seq(Sent)
    BY <1>1, <1>2
  <1> HIDE DEF j
  <1>4. q \in Item /\ u \in Users /\ q.seq = seq + 1 /\ q.kind = "msg"
    BY <1>2, <1>3 DEF Sent, Item
  <1> HIDE DEF q, u
  <1>5. \A v \in Users : \A p \in box[v] : p.seq < q.seq
    BY <1>4, QueuedOlder
  <1>6. /\ q \notin trim /\ trim \in SUBSET Item /\ Queued(box[u], q) = (box[u] \cup {q}) \ trim
        /\ box[u] \in SUBSET Item
    <2>1. box[u] \in SUBSET Item /\ \A p \in box[u] : p.seq < q.seq
      BY <1>2, <1>4, <1>5
    <2>2. q \notin trim
      BY <1>4, <2>1, NewestStays
    <2> QED  BY <1>4, <2>1, <2>2 DEF Trimmed, Queued, Newest
  <1>7. writes' \in Seq(Write) /\ PutsOf(writes') = Of(u, {q}) /\ DelsOf(writes') = gone
    BY <1>1, <1>4, <1>6, EnqueueWrites
  <1> HIDE DEF trim
  <1>8. /\ rq \in Record /\ gone \in SUBSET Record /\ rq \notin gone /\ Of(u, {q}) = {rq}
        /\ \A r \in Record : r \in gone <=> r.user = u /\ r.item \in trim
        /\ \A r \in Record : r = rq <=> r.user = u /\ r.item = q
    <2>1. rq \in Record /\ gone \in SUBSET Record /\ Of(u, {q}) = {rq}
      BY <1>4, <1>6 DEF Of, Record
    <2>2. ASSUME NEW r \in Record
          PROVE  (r \in gone <=> r.user = u /\ r.item \in trim) /\ (r = rq <=> r.user = u /\ r.item = q)
      <3>1. r = [user |-> r.user, item |-> r.item]
        BY DEF Record
      <3>2. r \in gone <=> \E p \in trim : r = [user |-> u, item |-> p]
        BY DEF Of
      <3> QED  BY <3>1, <3>2
    <2>3. rq \notin gone
      BY <1>6, <2>1, <2>2
    <2> QED  BY <2>1, <2>2, <2>3
  <1>9. /\ box' \in [Users -> SUBSET Item] /\ box'[u] = (box[u] \cup {q}) \ trim
        /\ \A v \in Users : v # u => box'[v] = box[v]
    BY <1>1, <1>2, <1>4, <1>6
  <1>a. rq.item = q
    OBVIOUS
  <1> HIDE DEF gone, rq
  <1>10. All' = (All \cup {rq}) \ gone
    <2>1. /\ \A r : r \in All <=> r \in Record /\ r.item \in box[r.user]
          /\ \A r : r \in All' <=> r \in Record /\ r.item \in box'[r.user]
      BY <1>2, <1>9, AllRecords DEF All
    <2>2. ASSUME NEW r \in Record
          PROVE  r.item \in box'[r.user] <=> (r.item \in box[r.user] \/ r = rq) /\ r \notin gone
      <3>1. r.user \in Users
        BY DEF Record
      <3> QED  BY <1>8, <1>9, <3>1
    <2> QED  BY <1>8, <2>1, <2>2
  <1>11. All = db /\ Stored = db
    BY <1>1, FreeStore
  <1>12. \A y \in All : /\ y \in Record /\ y.item.seq \in Nat /\ y.item.seq <= seq
                        /\ (y.item.kind = "ack" => y.item.ends \in Nat /\ y.item.ends < y.item.seq)
    BY <1>11 DEF MailInv, TypeOK, Numbered, Record, Item
  <1>13. rq.item.seq = seq + 1 /\ rq.item.kind = "msg"
    BY <1>4, <1>a
  <1>14. StoreCatchesUp' /\ Numbered' /\ OwedQueued' /\ AcksApart'
    <2> DEFINE new == {rq}
    <2>1. /\ \A r \in new : r.item.seq <= seq'
          /\ \A x \in new, y \in All \cup new : x.item.seq = y.item.seq => x = y
      <3>1. \A y \in All : y.item.seq # seq + 1
        BY <1>2, <1>12
      <3> QED  BY <1>1, <1>2, <1>13, <3>1
    <2>2. \A r \in new : r.item.kind = "ack" => r.item.ends < r.item.seq
      BY <1>13
    <2>3. \A x \in All \cup new, y \in new : ~ Answers(x, y)
      <3> SUFFICES ASSUME NEW x \in All \cup new, NEW y \in new, Answers(x, y) PROVE FALSE
        OBVIOUS
      <3>1. x \in All /\ x.item.kind = "ack" /\ x.item.ends = seq + 1
        BY <1>13 DEF Answers
      <3> QED  BY <1>2, <1>12, <3>1
    <2>4. \A x \in new : \A y : ~ Answers(x, y)
      BY <1>13 DEF Answers
    <2>5. \A x \in new, y \in All \ gone : ~ Answers(x, y)
      BY <2>4
    <2>6. \A i \in 1 .. Len(writes') : writes'[i].op = "put" =>
            \A x \in writes'[i].recs, y \in All :
              Answers(x, y) => \E k \in 1 .. i - 1 : writes'[k].op = "del" /\ y \in writes'[k].recs
      <3>1. ASSUME NEW i \in 1 .. Len(writes'), writes'[i].op = "put", NEW x \in writes'[i].recs
            PROVE  x \in new
        <4>1. x \in PutsOf(writes')
          BY <3>1 DEF PutsOf
        <4> QED  BY <1>7, <1>8, <4>1
      <3> QED  BY <2>4, <3>1
    <2>7. seq' \in Nat /\ seq <= seq' /\ db' = db
      BY <1>1, <1>2
    <2>8. /\ new \in SUBSET Record /\ new \cap gone = {} /\ All' = (All \cup new) \ gone
          /\ PutsOf(writes') = new /\ DelsOf(writes') = gone
          /\ owed' \subseteq (owed \cup new) \ gone /\ gone \in SUBSET gone
          /\ \A r \in gone \ gone : ~ r.item.need
      BY <1>1, <1>7, <1>8, <1>10
    <2> HIDE DEF new
    <2> QED  BY <1>1, <1>8, <2>1, <2>2, <2>3, <2>5, <2>6, <2>7, <2>8, HandlerStep, ZenonT(40)
  <1>15. TypeOK'
    <2>1. owed' \in SUBSET Record
      BY <1>1, <1>2, <1>8
    <2>2. stream' \in [Streams -> Open \cup {Closed}]
      BY <1>1, WokenTyped DEF MailInv
    <2>3. /\ seq' \in Nat /\ dbSeq' \in Nat /\ expired' \in Nat /\ requests' \in 0 .. MaxRequests
          /\ db' \in SUBSET Record /\ token' \in [Users -> [msg : Nat, ack : Nat]]
      BY <1>1 DEF MailInv, TypeOK
    <2> QED  BY <1>3, <1>7, <1>9, <2>1, <2>2, <2>3 DEF TypeOK
  <1> QED  BY <1>14, <1>15 DEF MailInv

\* SendAck: the message goes first, and the ack comes after it.
LEMMA SendAckKeeps ==
  ASSUME MessagingAssumption, MailInv, NEW u \in Users, NEW req \in Ids, NEW senders,
         SendAck(u, req, senders)
  PROVE  MailInv'
  <1> DEFINE q    == Oldest(Holding(u, req, senders))
             a    == [seq |-> seq + 1, kind |-> "ack", from |-> u, req |-> req, need |-> FALSE,
                      ends |-> q.seq]
             left == [box EXCEPT ![u] = @ \ {q}]
             trim == Trimmed(left[q.from], a)
             rq   == [user |-> u, item |-> q]
             ra   == [user |-> q.from, item |-> a]
             out  == Of(q.from, trim)
             gone == {rq} \cup out
  <1>1. /\ Free /\ Holding(u, req, senders) # {} /\ seq' = seq + 1
        /\ box' = [left EXCEPT ![q.from] = Queued(@, a)]
        /\ writes' = Del(Of(u, {q})) \o QueueWrites(q.from, left[q.from], a)
        /\ stream' = Woken({q.from})
        /\ owed' = (owed \ Of(u, {q})) \ out
        /\ UNCHANGED <<todo, db, dbSeq, expired, requests, token>>
    BY Zenon DEF SendAck
  <1>b. writes = <<>>
    BY <1>1 DEF Free
  <1>2. seq \in Nat /\ box \in [Users -> SUBSET Item] /\ owed \in SUBSET Record
    BY DEF MailInv, TypeOK
  <1>3. q \in box[u] /\ q.kind = "msg"
    <2>1. Holding(u, req, senders) \in SUBSET Item
      BY <1>2 DEF Holding
    <2>2. q \in Holding(u, req, senders)
      BY <1>1, <2>1, OldestIsThere
    <2> QED  BY <2>2 DEF Holding
  <1> HIDE DEF q
  <1>4. q \in Item /\ q.from \in Users /\ a \in Item /\ a # q
    BY <1>2, <1>3 DEF Item
  <1>5. /\ left \in [Users -> SUBSET Item] /\ left[u] = box[u] \ {q}
        /\ \A v \in Users : v # u => left[v] = box[v]
    BY <1>2
  <1>6. /\ a.seq = seq + 1 /\ a.kind = "ack" /\ a.from = u /\ a.ends = q.seq
        /\ \A v \in Users : \A p \in box[v] : p.seq < a.seq
    BY QueuedOlder
  <1> HIDE DEF a, left
  <1>7. a \notin trim /\ trim \in SUBSET Item /\ Queued(left[q.from], a) = (left[q.from] \cup {a}) \ trim
    <2>1. left[q.from] \in SUBSET Item /\ \A p \in left[q.from] : p.seq < a.seq
      BY <1>4, <1>5, <1>6
    <2>2. a \notin trim
      BY <1>4, <2>1, NewestStays
    <2> QED  BY <1>4, <2>1, <2>2 DEF Trimmed, Queued, Newest
  <1>8. /\ box' \in [Users -> SUBSET Item]
        /\ box'[q.from] = (left[q.from] \cup {a}) \ trim
        /\ \A v \in Users : v # q.from => box'[v] = left[v]
    BY <1>1, <1>4, <1>5, <1>7
  <1> HIDE DEF trim
  <1>9. rq \in Record /\ ra \in Record /\ out \in SUBSET Record /\ rq # ra /\ ra \notin out
    <2>1. rq \in Record /\ ra \in Record /\ rq # ra
      BY <1>4 DEF Record
    <2>2. out \in SUBSET Record
      BY <1>4, <1>7 DEF Record, Of
    <2>3. ra \notin out
      BY <1>7 DEF Of
    <2> QED  BY <2>1, <2>2, <2>3
  <1>10. All' = (All \cup {ra}) \ gone
    <2>1. /\ \A r : r \in All <=> r \in Record /\ r.item \in box[r.user]
          /\ \A r : r \in All' <=> r \in Record /\ r.item \in box'[r.user]
      BY <1>2, <1>8, AllRecords DEF All
    <2>2. ASSUME NEW r \in Record
          PROVE  r.item \in box'[r.user] <=> (r.item \in box[r.user] \/ r = ra) /\ r \notin gone
      <3>1. r.user \in Users /\ r = [user |-> r.user, item |-> r.item]
        BY DEF Record
      <3>2. /\ r = ra <=> r.user = q.from /\ r.item = a
            /\ r = rq <=> r.user = u /\ r.item = q
            /\ r \in out <=> r.user = q.from /\ r.item \in trim
        <4>1. r \in out <=> r.user = q.from /\ r.item \in trim
          BY <3>1 DEF Of
        <4>2. ra.user = q.from /\ ra.item = a /\ rq.user = u /\ rq.item = q
          OBVIOUS
        <4> QED  BY <3>1, <4>1, <4>2
      <3>3. r.item \in left[r.user] <=> r.item \in box[r.user] /\ r # rq
        BY <1>5, <3>1, <3>2
      <3>4. r.item \in box'[r.user] <=> (r.item \in left[r.user] \/ r = ra) /\ r \notin out
        BY <1>7, <1>8, <3>1, <3>2
      <3> QED  BY <1>9, <3>3, <3>4
    <2>3. ra \in Record
      BY <1>9
    <2> HIDE DEF ra, gone
    <2> QED  BY <2>1, <2>2, <2>3
  <1>11. /\ writes' \in Seq(Write) /\ PutsOf(writes') = {ra} /\ DelsOf(writes') = gone
         /\ Len(writes') \in Nat \ {0} /\ writes'[1].op = "del" /\ writes'[1].recs = {rq}
    <2> DEFINE w1 == [op |-> "del", recs |-> {rq}, n |-> 0]
               d  == <<w1>>
               qw == QueueWrites(q.from, left[q.from], a)
    <2>1. Of(u, {q}) = {rq} /\ Of(q.from, {a}) = {ra}
      BY DEF Of
    <2>2. d \in Seq(Write) /\ PutsOf(d) = {} /\ DelsOf(d) = {rq}
      <3>1. w1 \in Write
        BY <1>9 DEF Write
      <3> QED  BY <3>1, OneWrite
    <2>3. writes' = d \o qw
      BY <1>1, <2>1 DEF Del
    <2>4. qw \in Seq(Write) /\ PutsOf(qw) = {ra} /\ DelsOf(qw) = out
      <3>1. left[q.from] \in SUBSET Item
        BY <1>4, <1>5
      <3>2. /\ qw \in Seq(Write) /\ PutsOf(qw) = Of(q.from, {a})
            /\ DelsOf(qw) = Of(q.from, Trimmed(left[q.from], a))
        BY <1>4, <3>1, EnqueueWrites, Zenon
      <3> HIDE DEF qw, ra
      <3> QED  BY <2>1, <3>2 DEF trim
    <2> HIDE DEF qw
    <2>5. Len(d \o qw) \in Nat \ {0} /\ (d \o qw)[1] = w1
      BY <2>4
    <2> HIDE DEF d
    <2>6. /\ d \o qw \in Seq(Write) /\ PutsOf(d \o qw) = PutsOf(d) \cup PutsOf(qw)
          /\ DelsOf(d \o qw) = DelsOf(d) \cup DelsOf(qw)
      BY <2>2, <2>4, WritesJoin, Zenon
    <2> DEFINE dq == d \o qw
    <2>7. /\ writes' = dq /\ dq \in Seq(Write) /\ PutsOf(dq) = PutsOf(d) \cup PutsOf(qw)
          /\ DelsOf(dq) = DelsOf(d) \cup DelsOf(qw) /\ Len(dq) \in Nat \ {0} /\ dq[1] = w1
      BY <2>3, <2>5, <2>6, Zenon
    <2> HIDE DEF dq
    <2> QED  BY <2>2, <2>4, <2>7
  <1>12. owed' \subseteq (owed \cup {ra}) \ gone
    <2>1. Of(u, {q}) = {rq}
      BY DEF Of
    <2> QED  BY <1>1, <2>1
  <1>13. All = db /\ Stored = db
    BY <1>b, FreeStore
  <1>14. ASSUME NEW y \in All, Answers(ra, y) PROVE y = rq
    <2>1. y.item.seq = q.seq
      BY <1>6, <1>14 DEF Answers
    <2>2. rq \in All
      BY <1>2, <1>3, <1>9, AllRecords DEF All
    <2>3. rq.item.seq = q.seq
      OBVIOUS
    <2> QED  BY <1>13, <2>1, <2>2, <2>3 DEF MailInv, Numbered
  <1>15. \A y : ~ Answers(y, ra)
    BY <1>6 DEF Answers
  <1>c. /\ \A y \in All : y.item.seq \in Nat /\ y.item.seq <= seq
        /\ q.seq \in Nat /\ q.seq <= seq
    <2>1. \A y \in All : y.item.seq \in Nat /\ y.item.seq <= seq
      BY <1>13 DEF MailInv, TypeOK, Numbered, Record, Item
    <2>2. q.seq \in Nat /\ q.seq < seq + 1
      BY <1>3, <1>4, QueuedOlder DEF Item
    <2> QED  BY <1>2, <2>1, <2>2
  <1>16. /\ {ra} \in SUBSET Record /\ gone \in SUBSET Record /\ gone \in SUBSET gone
         /\ {ra} \cap gone = {} /\ rq \in gone /\ ra.item.kind = "ack"
         /\ ra.item.seq = seq + 1 /\ ra.item.ends = q.seq
    BY <1>6, <1>9
  <1> HIDE DEF ra, rq, gone, out
  <1>17. StoreCatchesUp' /\ Numbered' /\ OwedQueued' /\ AcksApart'
    <2> DEFINE new == {ra}
    <2>1. /\ \A r \in gone \ gone : ~ r.item.need
          /\ \A x \in All \cup new, y \in new : ~ Answers(x, y)
          /\ \A x \in new, y \in All \ gone : ~ Answers(x, y)
      BY <1>14, <1>15, <1>16
    <2>5. /\ \A r \in new : r.item.seq <= seq'
          /\ \A r \in new : r.item.kind = "ack" => r.item.ends < r.item.seq
          /\ \A x \in new, y \in All \cup new : x.item.seq = y.item.seq => x = y
      <3>1. \A y \in All : y.item.seq # seq + 1
        BY <1>2, <1>c
      <3>2. q.seq < seq + 1
        BY <1>2, <1>c
      <3> QED  BY <1>1, <1>2, <1>16, <3>1, <3>2
    <2>2. \A i \in 1 .. Len(writes') : writes'[i].op = "put" =>
            \A x \in writes'[i].recs, y \in All :
              Answers(x, y) => \E j \in 1 .. i - 1 : writes'[j].op = "del" /\ y \in writes'[j].recs
      <3> SUFFICES ASSUME NEW i \in 1 .. Len(writes'), writes'[i].op = "put",
                          NEW x \in writes'[i].recs, NEW y \in All, Answers(x, y)
                   PROVE  1 \in 1 .. i - 1 /\ writes'[1].op = "del" /\ y \in writes'[1].recs
        OBVIOUS
      <3>1. x \in PutsOf(writes')
        BY DEF PutsOf
      <3>2. x = ra
        BY <1>11, <3>1
      <3>3. y = rq
        BY <1>14, <3>2
      <3>4. i # 1
        BY <1>11
      <3> QED  BY <1>11, <3>3, <3>4
    <2>3. seq' \in Nat /\ seq <= seq' /\ db' = db
      BY <1>1, <1>2
    <2>4. /\ new \in SUBSET Record /\ new \cap gone = {} /\ All' = (All \cup new) \ gone
          /\ PutsOf(writes') = new /\ DelsOf(writes') = gone
          /\ owed' \subseteq (owed \cup new) \ gone
      BY <1>10, <1>11, <1>12, <1>16
    <2> HIDE DEF new
    <2> QED  BY <1>b, <1>16, <2>1, <2>2, <2>3, <2>4, <2>5, HandlerStep, ZenonT(40)
  <1>18. TypeOK'
    <2>1. owed' \in SUBSET Record /\ todo' \in Seq(Sent)
      BY <1>1, <1>2 DEF MailInv, TypeOK
    <2>2. stream' \in [Streams -> Open \cup {Closed}]
      BY <1>1, WokenTyped DEF MailInv
    <2>3. /\ seq' \in Nat /\ dbSeq' \in Nat /\ expired' \in Nat /\ requests' \in 0 .. MaxRequests
          /\ db' \in SUBSET Record /\ token' \in [Users -> [msg : Nat, ack : Nat]]
      BY <1>1 DEF MailInv, TypeOK
    <2>4. box' \in [Users -> SUBSET Item] /\ writes' \in Seq(Write)
      BY <1>8, <1>11
    <2> QED  BY <2>1, <2>2, <2>3, <2>4 DEF TypeOK
  <1> QED  BY <1>17, <1>18 DEF MailInv

\* Del leaves one deletion at most.
LEMMA DelTyped ==
  ASSUME NEW recs \in SUBSET Record
  PROVE  Del(recs) \in Seq(Write)
  BY KindsOfWrites

\* Poll: what it drops is too old, or needs no ack.
LEMMA PollKeeps ==
  ASSUME MailInv, NEW s \in Streams, Poll(s)
  PROVE  MailInv'
  <1> DEFINE u    == stream[s].user
             old  == {q \in box[u] : q.seq <= expired}
             out  == {q \in box[u] \ old : After(s, q)}
             once == {q \in out : ~q.need}
             gone == Of(u, old \cup once)
  <1>1. /\ IsOpen(s) /\ Free /\ box' = [box EXCEPT ![u] = @ \ (old \cup once)]
        /\ stream' = [stream EXCEPT ![s].pc = "send", ![s].out = out]
        /\ writes' = Del(gone) /\ owed' = owed \ Of(u, old)
        /\ UNCHANGED <<seq, todo, db, dbSeq, expired, requests, token>>
    BY Zenon DEF Poll
  <1>2. /\ box \in [Users -> SUBSET Item] /\ stream[s] \in Open /\ u \in Users
        /\ stream \in [Streams -> Open \cup {Closed}] /\ owed \in SUBSET Record /\ writes = <<>>
    BY <1>1, OpenStream DEF MailInv, TypeOK, Free
  <1>3. out \in SUBSET Item /\ old \cup once \in SUBSET Item /\ \A q \in (old \cup once) \ old : ~ q.need
    BY <1>2
  <1> HIDE DEF out, once, old, u
  <1>4. /\ gone \in SUBSET Record /\ Of(u, old) \in SUBSET gone /\ \A r \in gone \ Of(u, old) : ~ r.item.need
        /\ \A r \in Record : r \in gone <=> r.user = u /\ r.item \in old \cup once
    BY <1>2, <1>3 DEF Of, Record
  <1>5. box' \in [Users -> SUBSET Item]
    BY <1>1, <1>2
  <1>6. All' = All \ gone
    <2>1. /\ \A r : r \in All <=> r \in Record /\ r.item \in box[r.user]
          /\ \A r : r \in All' <=> r \in Record /\ r.item \in box'[r.user]
      BY <1>2, <1>5, AllRecords DEF All
    <2>2. ASSUME NEW r \in Record
          PROVE  r.item \in box'[r.user] <=> r.item \in box[r.user] /\ r \notin gone
      <3>1. r.user \in Users
        BY DEF Record
      <3> QED  BY <1>1, <1>2, <1>4, <3>1
    <2> QED  BY <2>1, <2>2
  <1> HIDE DEF gone
  <1>7. StoreCatchesUp' /\ Numbered' /\ OwedQueued' /\ AcksApart'
    <2>1. UNCHANGED <<db, seq>>
      BY <1>1
    <2> QED  BY <1>1, <1>2, <1>4, <1>6, <2>1, DropStep, Zenon
  <1>8. stream' \in [Streams -> Open \cup {Closed}]
    <2>1. [stream[s] EXCEPT !.pc = "send", !.out = out] \in Open
      BY <1>2, <1>3 DEF Open
    <2>2. stream' = [stream EXCEPT ![s] = [stream[s] EXCEPT !.pc = "send", !.out = out]]
      BY <1>1, <1>2
    <2> QED  BY <1>2, <2>1, <2>2
  <1>9. writes' \in Seq(Write) /\ owed' \in SUBSET Record
    BY <1>1, <1>2, <1>4, DelTyped
  <1> QED  BY <1>1, <1>5, <1>7, <1>8, <1>9 DEF MailInv, TypeOK

\* EraseUser drops the items of the player, and those that the player sent.
LEMMA EraseUserKeeps ==
  ASSUME MailInv, NEW u \in Erasable, EraseUser(u)
  PROVE  MailInv'
  <1> DEFINE Mine(v) == {q \in box[v] : v = u \/ q.from = u}
             gone    == UNION {Of(v, Mine(v)) : v \in Users}
  <1>1. /\ Free /\ box' = [v \in Users |-> box[v] \ Mine(v)]
        /\ writes' = Del(gone) /\ owed' = owed \ gone
        /\ stream' = [s \in Streams |-> IF IsOpen(s) /\ stream[s].user = u
                                          THEN [stream[s] EXCEPT !.reg = FALSE] ELSE stream[s]]
        /\ UNCHANGED <<seq, todo, db, dbSeq, expired, requests, token>>
    BY Zenon DEF EraseUser
  <1>2. box \in [Users -> SUBSET Item] /\ owed \in SUBSET Record /\ writes = <<>>
    BY <1>1 DEF MailInv, TypeOK, Free
  <1>3. \A v \in Users : Mine(v) \in SUBSET Item
    BY <1>2
  <1> HIDE DEF Mine
  <1>4. gone \in SUBSET Record /\ \A r \in Record : r \in gone <=> r.item \in Mine(r.user)
    BY <1>3 DEF Of, Record
  <1> HIDE DEF gone
  <1>5. box' \in [Users -> SUBSET Item]
    BY <1>1, <1>2
  <1>6. All' = All \ gone
    <2>1. /\ \A r : r \in All <=> r \in Record /\ r.item \in box[r.user]
          /\ \A r : r \in All' <=> r \in Record /\ r.item \in box'[r.user]
      BY <1>2, <1>5, AllRecords DEF All
    <2>2. ASSUME NEW r \in Record
          PROVE  r.item \in box'[r.user] <=> r.item \in box[r.user] /\ r \notin gone
      <3>1. r.user \in Users
        BY DEF Record
      <3> QED  BY <1>1, <1>4, <3>1
    <2> QED  BY <2>1, <2>2
  <1>7. StoreCatchesUp' /\ Numbered' /\ OwedQueued' /\ AcksApart'
    <2>1. UNCHANGED <<db, seq>> /\ gone \in SUBSET gone /\ \A r \in gone \ gone : ~ r.item.need
      BY <1>1
    <2> QED  BY <1>1, <1>2, <1>4, <1>6, <2>1, DropStep, Zenon
  <1>8. stream' \in [Streams -> Open \cup {Closed}]
    <2> SUFFICES ASSUME NEW s \in Streams
                 PROVE  (IF IsOpen(s) /\ stream[s].user = u
                           THEN [stream[s] EXCEPT !.reg = FALSE] ELSE stream[s]) \in Open \cup {Closed}
      BY <1>1
    <2>1. IsOpen(s) => [stream[s] EXCEPT !.reg = FALSE] \in Open
      BY OpenStream DEF Open, MailInv
    <2>2. stream[s] \in Open \cup {Closed}
      BY DEF MailInv, TypeOK
    <2> QED  BY <2>1, <2>2
  <1>9. writes' \in Seq(Write) /\ owed' \in SUBSET Record
    BY <1>1, <1>2, <1>4, DelTyped
  <1> QED  BY <1>1, <1>5, <1>7, <1>8, <1>9 DEF MailInv, TypeOK

\* Restart: what the store held is what is queued, without what grew too old.
LEMMA RestartKeeps ==
  ASSUME MailInv, Restart
  PROVE  MailInv'
  <1> DEFINE live == {r \in db : r.item.seq > expired}
             lost == UNION {w.recs : w \in {x \in ToSet(writes) : x.op = "put"}}
  <1>1. /\ todo' = <<>> /\ writes' = <<>> /\ stream' = [s \in Streams |-> Closed]
        /\ box' = [u \in Users |-> {r.item : r \in {x \in live : x.user = u}}]
        /\ seq' \in {dbSeq} \cup {r.item.seq : r \in live}
        /\ \A r \in live : seq' >= r.item.seq
        /\ db' = live /\ owed' = (owed \ (db \ live)) \ lost
        /\ UNCHANGED <<dbSeq, expired, requests, token>>
    BY Zenon DEF Restart, Load
  <1>2. /\ db \in SUBSET Record /\ live \in SUBSET db /\ owed \in SUBSET Record
        /\ dbSeq \in Nat /\ writes \in Seq(Write)
    BY DEF MailInv, TypeOK
  <1>3. lost = PutsOf(writes) /\ lost \in SUBSET Record
    <2>1. ToSet(writes) = {writes[i] : i \in 1 .. Len(writes)}
      BY <1>2 DEF ToSet
    <2>2. lost = PutsOf(writes)
      BY <2>1 DEF PutsOf
    <2> QED  BY <1>2, <2>2, WritesOf
  <1> HIDE DEF live, lost
  <1>4. seq' \in Nat /\ \A r \in live : r.item.seq <= seq'
    <2>1. \A r \in live : r.item.seq \in Nat
      BY <1>2 DEF Record, Item
    <2>2. seq' \in Nat
      BY <1>1, <1>2, <2>1
    <2> QED  BY <1>1, <2>1, <2>2
  <1>5. box' \in [Users -> SUBSET Item]
    BY <1>1, <1>2 DEF Record
  <1>6. All' = live
    <2>1. \A r : r \in All' <=> r \in Record /\ r.item \in box'[r.user]
      BY <1>5, AllRecords DEF All
    <2>2. ASSUME NEW r \in Record PROVE r.item \in box'[r.user] <=> r \in live
      <3>1. r.user \in Users /\ r = [user |-> r.user, item |-> r.item]
        BY DEF Record
      <3>2. ASSUME NEW x \in live, x.user = r.user, x.item = r.item PROVE x = r
        <4>1. x = [user |-> x.user, item |-> x.item]
          BY <1>2 DEF Record
        <4> QED  BY <3>1, <3>2, <4>1
      <3>3. box'[r.user] = {x.item : x \in {y \in live : y.user = r.user}}
        BY <1>1, <3>1
      <3> QED  BY <3>2, <3>3
    <2> QED  BY <1>2, <2>1, <2>2
  <1>7. PutsOf(writes') = {} /\ DelsOf(writes') = {} /\ Stored' = live
    BY <1>1, NoWrites DEF Stored
  <1>8. StoreCatchesUp'
    BY <1>6, <1>7 DEF StoreCatchesUp
  <1>9. Numbered'
    <2>1. Stored' \subseteq Stored
      BY <1>2, <1>7 DEF Stored
    <2> QED  BY <1>4, <1>7, <2>1 DEF MailInv, Numbered
  <1>10. OwedQueued'
    <2>1. All \subseteq db \cup lost
      BY <1>3 DEF MailInv, StoreCatchesUp, Stored
    <2> QED  BY <1>1, <1>6, <2>1 DEF MailInv, OwedQueued
  <1>11. AcksApart'
    BY <1>1, <1>2, <1>6, <1>7 DEF MailInv, AcksApart
  <1>12. TypeOK'
    <2>1. owed' \in SUBSET Record /\ db' \in SUBSET Record
      BY <1>1, <1>2
    <2>2. todo' \in Seq(Sent) /\ writes' \in Seq(Write) /\ stream' \in [Streams -> Open \cup {Closed}]
      BY <1>1
    <2> QED  BY <1>1, <1>4, <1>5, <2>1, <2>2 DEF MailInv, TypeOK
  <1> QED  BY <1>8, <1>9, <1>10, <1>11, <1>12 DEF MailInv

\* A step that leaves the queues, the store and the writes alone.
LEMMA QuietStep ==
  ASSUME MailInv, UNCHANGED <<seq, box, db, dbSeq, writes, owed>>,
         todo' \in Seq(Sent), requests' \in 0 .. MaxRequests, stream' \in [Streams -> Open \cup {Closed}],
         token' \in [Users -> [msg : Nat, ack : Nat]], expired' \in Nat
  PROVE  MailInv'
  <1>1. All' = All /\ Stored' = Stored
    BY DEF All, Stored
  <1>2. StoreCatchesUp' /\ Numbered' /\ OwedQueued' /\ AcksApart'
    BY <1>1 DEF MailInv, StoreCatchesUp, Numbered, OwedQueued, AcksApart
  <1>3. TypeOK'
    BY DEF MailInv, TypeOK
  <1> QED  BY <1>2, <1>3 DEF MailInv

\* SendMessage says only what there is to enqueue.
LEMMA SendMessageKeeps ==
  ASSUME MessagingAssumption, MailInv, NEW u \in Users, NEW to \in Receivers, NEW req \in Ids,
         NEW need \in BOOLEAN, SendMessage(u, to, req, need)
  PROVE  MailInv'
  <1>1. /\ requests < MaxRequests /\ requests' = requests + 1
        /\ todo' = [i \in DOMAIN to |-> [user |-> to[i], from |-> u, req |-> req, need |-> need]]
        /\ UNCHANGED <<seq, box, writes, db, dbSeq, stream, expired, token, owed>>
    BY Zenon DEF SendMessage
  <1>2. to \in Seq(Users) /\ MaxRequests \in Nat
    BY DEF MessagingAssumption
  <1>3. \A i \in DOMAIN to : [user |-> to[i], from |-> u, req |-> req, need |-> need] \in Sent
    BY <1>2 DEF Sent
  <1>4. todo' \in Seq(Sent)
    <2>1. DOMAIN to = 1 .. Len(to) /\ Len(to) \in Nat
      BY <1>2
    <2> QED  BY <1>1, <1>3, <2>1
  <1>5. requests' \in 0 .. MaxRequests
    BY <1>1, <1>2 DEF MailInv, TypeOK
  <1>6. /\ stream' \in [Streams -> Open \cup {Closed}]
        /\ token' \in [Users -> [msg : Nat, ack : Nat]] /\ expired' \in Nat
    BY <1>1 DEF MailInv, TypeOK
  <1> QED  BY <1>1, <1>4, <1>5, <1>6, QuietStep

\* The steps of a stream outside the mutex, and the passing of time.
LEMMA StreamStepKeeps ==
  ASSUME MailInv,
         \/ \E s \in Streams, u \in Users, resume \in BOOLEAN : RecvMessage(s, u, resume)
         \/ \E s \in Streams : Send(s) \/ Wake(s) \/ Beat(s) \/ HangUp(s)
         \/ Age
  PROVE  MailInv'
  <1>1. /\ TypeOK /\ stream \in [Streams -> Open \cup {Closed}]
        /\ token \in [Users -> [msg : Nat, ack : Nat]] /\ expired \in Nat
        /\ todo \in Seq(Sent) /\ requests \in 0 .. MaxRequests
    BY DEF MailInv, TypeOK
  <1>2. ASSUME NEW s \in Streams, NEW u \in Users, NEW resume \in BOOLEAN, RecvMessage(s, u, resume)
        PROVE  MailInv'
    <2> DEFINE new == [pc |-> "poll", user |-> u, out |-> {}, wake |-> FALSE, reg |-> TRUE,
                       msg |-> IF resume THEN token[u].msg ELSE 0,
                       ack |-> IF resume THEN token[u].ack ELSE 0]
    <2>1. stream' = [stream EXCEPT ![s] = new] /\ UNCHANGED <<mail, db, dbSeq, expired, history>>
      BY <1>2, Zenon DEF RecvMessage
    <2>2. new \in Open
      BY <1>1 DEF Open
    <2> HIDE DEF new
    <2>3. stream' \in [Streams -> Open \cup {Closed}]
      BY <1>1, <2>1, <2>2
    <2> QED  BY <1>1, <2>1, <2>3, QuietStep DEF mail, history
  <1>3. ASSUME NEW s \in Streams, Send(s) PROVE MailInv'
    <2> DEFINE q == Oldest(stream[s].out)
               u == stream[s].user
    <2>1. /\ IsOpen(s) /\ stream[s].out # {}
          /\ \/ /\ stream' = [stream EXCEPT ![s].out = @ \ {q}, ![s].msg = q.seq]
                /\ token' = [token EXCEPT ![u].msg = q.seq]
             \/ /\ stream' = [stream EXCEPT ![s].out = @ \ {q}, ![s].ack = q.seq]
                /\ token' = [token EXCEPT ![u].ack = q.seq]
          /\ UNCHANGED <<mail, db, dbSeq, expired, requests, owed>>
      BY <1>3, Zenon DEF Send
    <2>2. stream[s] \in Open /\ u \in Users
      BY <1>1, <2>1, OpenStream
    <2>3. q \in Item
      <3>1. stream[s].out \in SUBSET Item
        BY <2>2 DEF Open
      <3> QED  BY <2>1, <3>1, OldestIsThere
    <2> HIDE DEF q, u
    <2>4. q.seq \in Nat /\ token[u] \in [msg : Nat, ack : Nat]
      BY <1>1, <2>2, <2>3 DEF Item
    <2>5. /\ [stream[s] EXCEPT !.out = @ \ {q}, !.msg = q.seq] \in Open
          /\ [stream[s] EXCEPT !.out = @ \ {q}, !.ack = q.seq] \in Open
      BY <2>2, <2>4 DEF Open
    <2>6. stream' \in [Streams -> Open \cup {Closed}]
      <3>1. \E sent \in Open : stream' = [stream EXCEPT ![s] = sent]
        BY <1>1, <2>1, <2>5
      <3> QED  BY <1>1, <3>1
    <2>7. /\ [token[u] EXCEPT !.msg = q.seq] \in [msg : Nat, ack : Nat]
          /\ [token[u] EXCEPT !.ack = q.seq] \in [msg : Nat, ack : Nat]
      BY <2>4
    <2>8. token' \in [Users -> [msg : Nat, ack : Nat]]
      BY <1>1, <2>1, <2>7
    <2> QED  BY <1>1, <2>1, <2>6, <2>8, QuietStep DEF mail
  <1>4. ASSUME NEW s \in Streams, Wake(s) \/ Beat(s) \/ HangUp(s) PROVE MailInv'
    <2>1. IsOpen(s) /\ UNCHANGED <<mail, db, dbSeq, expired, history>>
      BY <1>4 DEF Wake, Beat, HangUp, Waiting
    <2>2. stream[s] \in Open
      BY <1>1, <2>1, OpenStream
    <2>3. /\ [stream[s] EXCEPT !.pc = "poll", !.wake = FALSE] \in Open
          /\ [stream[s] EXCEPT !.pc = "poll"] \in Open
      BY <2>2 DEF Open
    <2>4. stream' \in [Streams -> Open \cup {Closed}]
      <3>1. CASE Wake(s)
        <4>1. stream' = [stream EXCEPT ![s] = [stream[s] EXCEPT !.pc = "poll", !.wake = FALSE]]
          BY <1>1, <3>1 DEF Wake
        <4> QED  BY <1>1, <2>3, <4>1
      <3>2. CASE Beat(s)
        <4>1. stream' = [stream EXCEPT ![s] = [stream[s] EXCEPT !.pc = "poll"]]
          BY <1>1, <3>2 DEF Beat
        <4> QED  BY <1>1, <2>3, <4>1
      <3>3. CASE HangUp(s)
        BY <1>1, <3>3 DEF HangUp
      <3> QED  BY <1>4, <3>1, <3>2, <3>3
    <2> QED  BY <1>1, <2>1, <2>4, QuietStep DEF mail, history
  <1>5. CASE Age
    BY <1>1, <1>5, QuietStep DEF Age, mail, history
  <1> QED  BY <1>2, <1>3, <1>4, <1>5

\* The first of the writes, and those after it.
LEMMA FirstWrite ==
  ASSUME NEW ws \in Seq(Write), ws # <<>>
  PROVE  /\ Head(ws) \in Write /\ Tail(ws) \in Seq(Write) /\ Len(ws) \in Nat \ {0} /\ ws[1] = Head(ws)
         /\ Len(Tail(ws)) = Len(ws) - 1 /\ \A i \in 1 .. Len(Tail(ws)) : Tail(ws)[i] = ws[i + 1]
         /\ PutsOf(ws) = PutsOf(Tail(ws)) \cup (IF Head(ws).op = "put" THEN Head(ws).recs ELSE {})
         /\ DelsOf(ws) = DelsOf(Tail(ws)) \cup (IF Head(ws).op = "del" THEN Head(ws).recs ELSE {})
  <1>1. /\ Head(ws) \in Write /\ Tail(ws) \in Seq(Write) /\ Len(ws) \in Nat \ {0} /\ ws[1] = Head(ws)
        /\ Len(Tail(ws)) = Len(ws) - 1 /\ \A i \in 1 .. Len(Tail(ws)) : Tail(ws)[i] = ws[i + 1]
    OBVIOUS
  <1> DEFINE h == Head(ws)
             t == Tail(ws)
  <1>2. \A x : In(x, ws) <=> x = h \/ In(x, t)
    <2>1. ASSUME NEW k \in 1 .. Len(ws) PROVE ws[k] = h \/ (k - 1 \in 1 .. Len(t) /\ t[k - 1] = ws[k])
      BY <1>1
    <2>2. ASSUME NEW k \in 1 .. Len(t) PROVE k + 1 \in 1 .. Len(ws) /\ ws[k + 1] = t[k]
      BY <1>1
    <2>3. 1 \in 1 .. Len(ws) /\ ws[1] = h
      BY <1>1
    <2> HIDE DEF h, t
    <2> QED  BY <2>1, <2>2, <2>3 DEF In
  <1>3. h \in Write /\ t \in Seq(Write)
    BY <1>1
  <1> HIDE DEF h, t
  <1>4. PutsOf(ws) = PutsOf(t) \cup (IF h.op = "put" THEN h.recs ELSE {})
    <2>1. /\ \A r : r \in PutsOf(ws) <=> \E w \in Write : In(w, ws) /\ w.op = "put" /\ r \in w.recs
          /\ \A r : r \in PutsOf(t) <=> \E w \in Write : In(w, t) /\ w.op = "put" /\ r \in w.recs
      BY <1>3, WritesOf
    <2> QED  BY <1>2, <1>3, <2>1
  <1>5. DelsOf(ws) = DelsOf(t) \cup (IF h.op = "del" THEN h.recs ELSE {})
    <2>1. /\ \A r : r \in DelsOf(ws) <=> \E w \in Write : In(w, ws) /\ w.op = "del" /\ r \in w.recs
          /\ \A r : r \in DelsOf(t) <=> \E w \in Write : In(w, t) /\ w.op = "del" /\ r \in w.recs
      BY <1>3, WritesOf
    <2> QED  BY <1>2, <1>3, <2>1
  <1> QED  BY <1>1, <1>4, <1>5 DEF h, t

\* Persist: what the store holds and is still to be given, and to lose.
LEMMA PersistDoes ==
  ASSUME MailInv, Persist
  PROVE  /\ writes # <<>> /\ writes' \in Seq(Write) /\ db' \in SUBSET Record /\ dbSeq' \in Nat
         /\ PutsOf(writes') \subseteq PutsOf(writes)
         /\ \/ /\ Head(writes).op = "put" /\ db' = db \cup Head(writes).recs /\ writes' = Tail(writes)
               /\ DelsOf(writes') = DelsOf(writes)
               /\ PutsOf(writes) = PutsOf(writes') \cup Head(writes).recs
            \/ /\ Head(writes).op = "count" /\ db' = db /\ writes' = Tail(writes)
               /\ DelsOf(writes') = DelsOf(writes) /\ PutsOf(writes') = PutsOf(writes)
            \/ \E r \in DelsOf(writes) :
                 /\ Head(writes).op = "del" /\ db' = db \ {r}
                 /\ DelsOf(writes') \subseteq DelsOf(writes) /\ DelsOf(writes) \subseteq DelsOf(writes') \cup {r}
                 /\ PutsOf(writes') = PutsOf(writes)
                 /\ \/ Head(writes).recs = {r} /\ writes' = Tail(writes)
                    \/ /\ Len(writes') = Len(writes)
                       /\ \A i \in 1 .. Len(writes) :
                            /\ writes'[i].op = writes[i].op
                            /\ writes'[i].recs = IF i = 1 THEN writes[1].recs \ {r} ELSE writes[i].recs
  <1> DEFINE h == Head(writes)
             t == Tail(writes)
  <1>1. writes # <<>> /\ writes \in Seq(Write) /\ db \in SUBSET Record /\ dbSeq \in Nat
    BY DEF Persist, MailInv, TypeOK
  <1>2. /\ h \in Write /\ t \in Seq(Write) /\ Len(writes) \in Nat \ {0} /\ writes[1] = h
        /\ Len(t) = Len(writes) - 1 /\ \A i \in 1 .. Len(t) : t[i] = writes[i + 1]
        /\ PutsOf(writes) = PutsOf(t) \cup (IF h.op = "put" THEN h.recs ELSE {})
        /\ DelsOf(writes) = DelsOf(t) \cup (IF h.op = "del" THEN h.recs ELSE {})
    BY <1>1, FirstWrite, Zenon
  <1>3. h.recs \in SUBSET Record /\ h.n \in Nat
    BY <1>2 DEF Write
  <1>4. \/ h.op = "put" /\ db' = db \cup h.recs /\ writes' = t /\ UNCHANGED dbSeq
        \/ h.op = "count" /\ dbSeq' = h.n /\ writes' = t /\ UNCHANGED db
        \/ /\ h.op = "del"
           /\ \E r \in h.recs :
                /\ db' = db \ {r}
                /\ writes' = IF h.recs = {r} THEN t ELSE [writes EXCEPT ![1].recs = @ \ {r}]
           /\ UNCHANGED dbSeq
    BY Zenon DEF Persist
  <1> HIDE DEF h, t
  <1>5. CASE h.op = "put" /\ db' = db \cup h.recs /\ writes' = t /\ UNCHANGED dbSeq
    BY <1>1, <1>2, <1>3, <1>5 DEF h, t
  <1>6. CASE h.op = "count" /\ dbSeq' = h.n /\ writes' = t /\ UNCHANGED db
    BY <1>1, <1>2, <1>3, <1>6 DEF h, t
  <1>7. ASSUME h.op = "del", dbSeq' = dbSeq, NEW r \in h.recs, db' = db \ {r},
               writes' = IF h.recs = {r} THEN t ELSE [writes EXCEPT ![1].recs = @ \ {r}]
        PROVE  /\ writes' \in Seq(Write)
               /\ DelsOf(writes') \subseteq DelsOf(writes) /\ DelsOf(writes) \subseteq DelsOf(writes') \cup {r}
               /\ PutsOf(writes') = PutsOf(writes)
               /\ \/ h.recs = {r} /\ writes' = t
                  \/ /\ Len(writes') = Len(writes)
                     /\ \A i \in 1 .. Len(writes) :
                          /\ writes'[i].op = writes[i].op
                          /\ writes'[i].recs = IF i = 1 THEN writes[1].recs \ {r} ELSE writes[i].recs
    <2>1. CASE h.recs = {r}
      BY <1>2, <1>7, <2>1
    <2>2. CASE h.recs # {r}
      <3> DEFINE g  == [h EXCEPT !.recs = @ \ {r}]
                 ws == [writes EXCEPT ![1] = g]
      <3>1. writes' = ws
        BY <1>1, <1>2, <1>7, <2>2
      <3>2. g \in Write /\ g.op = "del" /\ g.recs = h.recs \ {r}
        BY <1>2, <1>3, <1>7 DEF Write
      <3> HIDE DEF g
      <3>3. /\ ws \in Seq(Write) /\ Len(ws) = Len(writes) /\ ws[1] = g
            /\ \A i \in 1 .. Len(writes) : i # 1 => ws[i] = writes[i]
        BY <1>1, <1>2, <3>2
      <3> HIDE DEF ws
      <3>4. ws # <<>>
        BY <1>2, <3>3
      <3>5. Head(ws) = g /\ Tail(ws) = t
        <4>1. Head(ws) = g
          BY <3>3, <3>4
        <4>2. Tail(ws) \in Seq(Write) /\ Len(Tail(ws)) = Len(t) /\ \A i \in 1 .. Len(t) : Tail(ws)[i] = ws[i + 1]
          BY <1>2, <3>3, <3>4, FirstWrite
        <4>3. \A i \in 1 .. Len(t) : Tail(ws)[i] = t[i]
          <5>1. \A i \in 1 .. Len(t) : i + 1 \in 1 .. Len(writes) /\ i + 1 # 1
            BY <1>2
          <5> QED  BY <1>2, <3>3, <4>2, <5>1
        <4>4. Tail(ws) = t
          BY <1>2, <4>2, <4>3
        <4> QED  BY <4>1, <4>4
      <3>6. /\ PutsOf(ws) = PutsOf(t) \cup (IF g.op = "put" THEN g.recs ELSE {})
            /\ DelsOf(ws) = DelsOf(t) \cup (IF g.op = "del" THEN g.recs ELSE {})
        BY <3>3, <3>4, <3>5, FirstWrite
      <3>7. /\ DelsOf(ws) \subseteq DelsOf(writes) /\ DelsOf(writes) \subseteq DelsOf(ws) \cup {r}
            /\ PutsOf(ws) = PutsOf(writes)
        BY <1>2, <1>7, <3>2, <3>6
      <3>8. \A i \in 1 .. Len(writes) :
              ws[i].op = writes[i].op /\ ws[i].recs = IF i = 1 THEN writes[1].recs \ {r} ELSE writes[i].recs
        BY <1>2, <1>7, <3>2, <3>3
      <3> QED  BY <3>1, <3>3, <3>7, <3>8
    <2> QED  BY <2>1, <2>2
  <1>8. ASSUME h.op = "del", dbSeq' = dbSeq, NEW r \in h.recs, db' = db \ {r},
               writes' = IF h.recs = {r} THEN t ELSE [writes EXCEPT ![1].recs = @ \ {r}]
        PROVE  db' \in SUBSET Record /\ dbSeq' \in Nat /\ r \in DelsOf(writes)
    BY <1>1, <1>2, <1>8
  <1>9. CASE /\ h.op = "del"
             /\ \E r \in h.recs :
                  /\ db' = db \ {r}
                  /\ writes' = IF h.recs = {r} THEN t ELSE [writes EXCEPT ![1].recs = @ \ {r}]
             /\ UNCHANGED dbSeq
    <2>1. PICK r \in h.recs : /\ db' = db \ {r}
                              /\ writes' = IF h.recs = {r} THEN t ELSE [writes EXCEPT ![1].recs = @ \ {r}]
      BY <1>9
    <2> DEFINE one == [writes EXCEPT ![1].recs = @ \ {r}]
    <2>2. /\ writes' \in Seq(Write)
          /\ DelsOf(writes') \subseteq DelsOf(writes) /\ DelsOf(writes) \subseteq DelsOf(writes') \cup {r}
          /\ PutsOf(writes') = PutsOf(writes)
          /\ \/ h.recs = {r} /\ writes' = t
             \/ /\ Len(writes') = Len(writes)
                /\ \A i \in 1 .. Len(writes) :
                     /\ writes'[i].op = writes[i].op
                     /\ writes'[i].recs = IF i = 1 THEN writes[1].recs \ {r} ELSE writes[i].recs
      BY <1>7, <1>9, <2>1
    <2>3. db' \in SUBSET Record /\ dbSeq' \in Nat /\ r \in DelsOf(writes)
      BY <1>8, <1>9, <2>1
    <2> QED  BY <1>1, <1>9, <2>1, <2>2, <2>3, Zenon DEF h, t
  <1> QED  BY <1>4, <1>5, <1>6, <1>9

\* Persist: a write moves what is stored closer to what is queued, and the ack
\* of a message reaches the store after the message has left it.
LEMMA PersistKeeps ==
  ASSUME MailInv, Persist
  PROVE  MailInv'
  <1> DEFINE h == Head(writes)
             t == Tail(writes)
             Cleared(r) ==
               /\ h.op = "del" /\ db' = db \ {r}
               /\ DelsOf(writes') \subseteq DelsOf(writes) /\ DelsOf(writes) \subseteq DelsOf(writes') \cup {r}
               /\ PutsOf(writes') = PutsOf(writes)
               /\ \/ h.recs = {r} /\ writes' = t
                  \/ /\ Len(writes') = Len(writes)
                     /\ \A i \in 1 .. Len(writes) :
                          /\ writes'[i].op = writes[i].op
                          /\ writes'[i].recs = IF i = 1 THEN writes[1].recs \ {r} ELSE writes[i].recs
             Kept   == /\ h.op = "put" /\ db' = db \cup h.recs /\ writes' = t
                       /\ DelsOf(writes') = DelsOf(writes) /\ PutsOf(writes) = PutsOf(writes') \cup h.recs
             Marked == /\ h.op = "count" /\ db' = db /\ writes' = t
                       /\ DelsOf(writes') = DelsOf(writes) /\ PutsOf(writes') = PutsOf(writes)
  <1>1. /\ writes # <<>> /\ writes' \in Seq(Write) /\ db' \in SUBSET Record /\ dbSeq' \in Nat
        /\ PutsOf(writes') \subseteq PutsOf(writes)
        /\ Kept \/ Marked \/ \E r \in DelsOf(writes) : Cleared(r)
    BY PersistDoes, Zenon
  <1>2. UNCHANGED <<seq, box, todo, stream, expired, requests, token, owed>>
    BY DEF Persist, history
  <1>3. /\ writes \in Seq(Write) /\ t \in Seq(Write) /\ Len(writes) \in Nat \ {0} /\ writes[1] = h
        /\ Len(t) = Len(writes) - 1 /\ \A i \in 1 .. Len(t) : t[i] = writes[i + 1]
    <2>1. writes \in Seq(Write)
      BY DEF MailInv, TypeOK
    <2> QED  BY <1>1, <2>1, FirstWrite
  <1> HIDE DEF h, t
  <1>4. TypeOK'
    BY <1>1, <1>2 DEF MailInv, TypeOK
  <1>5. All' = All /\ Stored' \subseteq Stored
    <2>1. All' = All
      BY <1>2 DEF All
    <2>2. CASE Kept
      BY <2>1, <2>2 DEF Stored
    <2>3. CASE Marked
      BY <2>1, <2>3 DEF Stored
    <2>4. CASE \E r \in DelsOf(writes) : Cleared(r)
      BY <2>1, <2>4 DEF Stored
    <2> QED  BY <1>1, <2>1, <2>2, <2>3, <2>4
  <1>6. StoreCatchesUp'
    <2>1. All = Stored \ DelsOf(writes) /\ PutsOf(writes) \cap DelsOf(writes) = {}
      BY DEF MailInv, StoreCatchesUp
    <2>2. CASE Kept
      <3>1. Stored' = Stored
        BY <2>2 DEF Stored
      <3> QED  BY <1>1, <1>5, <2>1, <2>2, <3>1 DEF StoreCatchesUp
    <2>3. CASE Marked
      <3>1. Stored' = Stored
        BY <2>3 DEF Stored
      <3> QED  BY <1>1, <1>5, <2>1, <2>3, <3>1 DEF StoreCatchesUp
    <2>4. ASSUME NEW r \in DelsOf(writes), Cleared(r) PROVE StoreCatchesUp'
      <3>1. Stored' = Stored \ {r}
        BY <2>1, <2>4 DEF Stored
      <3>2. All = Stored' \ DelsOf(writes')
        BY <2>1, <2>4, <3>1
      <3> QED  BY <1>5, <2>1, <2>4, <3>2 DEF StoreCatchesUp
    <2> QED  BY <1>1, <2>2, <2>3, <2>4
  <1>7. Numbered' /\ OwedQueued'
    BY <1>2, <1>5 DEF MailInv, Numbered, OwedQueued
  <1>8. AcksApart'
    <2>1. /\ \A x, y \in All : ~ Answers(x, y)
          /\ \A x, y \in db : ~ Answers(x, y)
          /\ \A x \in Stored, y \in PutsOf(writes) : ~ Answers(x, y)
      BY DEF MailInv, AcksApart
    <2>2. ASSUME NEW i \in 1 .. Len(writes), writes[i].op = "put",
                 NEW x \in writes[i].recs, NEW y \in db, Answers(x, y)
          PROVE  \E j \in 1 .. i - 1 : writes[j].op = "del" /\ y \in writes[j].recs
      BY <2>2 DEF MailInv, AcksApart
    <2>3. \A x, y \in db' : ~ Answers(x, y)
      <3>1. CASE Kept
        <4> SUFFICES ASSUME NEW x \in db', NEW y \in db', Answers(x, y) PROVE FALSE
          OBVIOUS
        <4>1. x \in Stored /\ y \notin PutsOf(writes)
          BY <2>1, <3>1 DEF Stored
        <4>2. y \in db /\ x \in h.recs
          BY <2>1, <3>1, <4>1
        <4>3. 1 \in 1 .. Len(writes) /\ writes[1].op = "put" /\ x \in writes[1].recs
          BY <1>3, <3>1, <4>2
        <4>4. \E j \in 1 .. 1 - 1 : writes[j].op = "del" /\ y \in writes[j].recs
          BY <2>2, <4>2, <4>3
        <4> QED  BY <4>4
      <3>2. CASE Marked \/ \E r \in DelsOf(writes) : Cleared(r)
        BY <2>1, <3>2
      <3> QED  BY <1>1, <3>1, <3>2
    <2>4. \A x \in Stored', y \in PutsOf(writes') : ~ Answers(x, y)
      BY <1>1, <1>5, <2>1
    <2>5. ASSUME NEW i \in 1 .. Len(writes'), writes'[i].op = "put",
                 NEW x \in writes'[i].recs, NEW y \in db', Answers(x, y)
          PROVE  \E j \in 1 .. i - 1 : writes'[j].op = "del" /\ y \in writes'[j].recs
      <3>0. i \in Int /\ Len(writes') \in Int
        BY <1>1
      <3>1. ASSUME writes' = t, y \in db, h.op # "del" \/ y \notin h.recs
            PROVE  \E j \in 1 .. i - 1 : writes'[j].op = "del" /\ y \in writes'[j].recs
        <4>1. i + 1 \in 1 .. Len(writes) /\ writes'[i] = writes[i + 1]
          BY <1>3, <3>0, <3>1
        <4>2. PICK j \in 1 .. (i + 1) - 1 : writes[j].op = "del" /\ y \in writes[j].recs
          BY <2>2, <2>5, <3>1, <4>1
        <4>3. j # 1
          BY <1>3, <3>1, <4>2
        <4>4. j - 1 \in 1 .. i - 1 /\ writes'[j - 1] = writes[j]
          BY <1>3, <3>0, <3>1, <4>3
        <4> QED  BY <4>2, <4>4
      <3>2. CASE Kept
        <4>1. x \in PutsOf(writes')
          BY <2>5 DEF PutsOf
        <4>2. x \in Stored /\ y \notin PutsOf(writes)
          BY <1>1, <2>1, <2>5, <4>1 DEF Stored
        <4>3. y \in db
          BY <3>2, <4>2
        <4> QED  BY <3>1, <3>2, <4>3
      <3>3. CASE Marked
        BY <3>1, <3>3
      <3>4. ASSUME NEW r \in DelsOf(writes), Cleared(r)
            PROVE  \E j \in 1 .. i - 1 : writes'[j].op = "del" /\ y \in writes'[j].recs
        <4>1. y \in db /\ y # r
          BY <3>4
        <4>2. CASE h.recs = {r} /\ writes' = t
          BY <3>1, <4>1, <4>2
        <4>3. CASE /\ Len(writes') = Len(writes)
                   /\ \A k \in 1 .. Len(writes) :
                        /\ writes'[k].op = writes[k].op
                        /\ writes'[k].recs = IF k = 1 THEN writes[1].recs \ {r} ELSE writes[k].recs
          <5>1. i \in 1 .. Len(writes) /\ writes[i].op = "put" /\ i # 1
            BY <1>3, <2>5, <3>4, <4>3
          <5>2. x \in writes[i].recs
            BY <2>5, <4>3, <5>1
          <5>3. PICK j \in 1 .. i - 1 : writes[j].op = "del" /\ y \in writes[j].recs
            BY <2>2, <2>5, <4>1, <5>1, <5>2
          <5>4. j \in 1 .. Len(writes)
            BY <1>3, <3>0, <5>1
          <5>5. writes'[j].op = "del" /\ y \in writes'[j].recs
            BY <4>1, <4>3, <5>3, <5>4
          <5> QED  BY <5>3, <5>5
        <4> QED  BY <3>4, <4>2, <4>3
      <3> QED  BY <1>1, <3>2, <3>3, <3>4
    <2>6. \A x, y \in All' : ~ Answers(x, y)
      BY <1>5, <2>1
    <2> QED  BY <2>3, <2>4, <2>5, <2>6 DEF AcksApart
  <1> QED  BY <1>4, <1>6, <1>7, <1>8 DEF MailInv

-----------------------------------------------------------------------------
(* Theorems *)

\* At the start nothing is queued, stored or owed.
LEMMA InitMail ==
  ASSUME MessagingAssumption, Init
  PROVE  MailInv
  <1>1. All = {} /\ Stored = {} /\ PutsOf(writes) = {} /\ DelsOf(writes) = {}
    BY NoWrites DEF Init, All, AllOf, Of, Stored
  <1>2. TypeOK
    BY DEF Init, TypeOK, MessagingAssumption
  <1> QED  BY <1>1, <1>2 DEF MailInv, StoreCatchesUp, Numbered, OwedQueued, AcksApart, Init

\* Every step keeps the invariant.
LEMMA NextMail ==
  ASSUME MessagingAssumption, MailInv, [Next]_vars
  PROVE  MailInv'
  <1>1. CASE UNCHANGED vars
    BY <1>1, QuietStep DEF vars, mail, history, MailInv, TypeOK
  <1>2. ASSUME NEW u \in Users, NEW to \in Receivers, NEW req \in Ids, NEW need \in BOOLEAN,
               SendMessage(u, to, req, need)
        PROVE  MailInv'
    BY <1>2, SendMessageKeeps
  <1>9. CASE Enqueue
    BY <1>9, EnqueueKeeps
  <1>3. ASSUME NEW u \in Users, NEW req \in Ids, NEW senders, SendAck(u, req, senders)
        PROVE  MailInv'
    BY <1>3, SendAckKeeps
  <1>4. ASSUME NEW s \in Streams, Poll(s) PROVE MailInv'
    BY <1>4, PollKeeps
  <1>5. ASSUME NEW u \in Erasable, EraseUser(u) PROVE MailInv'
    BY <1>5, EraseUserKeeps
  <1>6. CASE Persist
    BY <1>6, PersistKeeps
  <1>7. CASE Restart
    BY <1>7, RestartKeeps
  <1>8. CASE \/ \E s \in Streams, u \in Users, resume \in BOOLEAN : RecvMessage(s, u, resume)
             \/ \E s \in Streams : Send(s) \/ Wake(s) \/ Beat(s) \/ HangUp(s)
             \/ Age
    BY <1>8, StreamStepKeeps
  <1> QED  BY <1>1, <1>2, <1>3, <1>4, <1>5, <1>6, <1>7, <1>8, <1>9, Zenon DEF Next

\* The invariant holds in every state of every run of messaging.go, whatever
\* the number of players, streams and messages.
THEOREM Invariance == Spec => []MailInv
  <1>1. Init => MailInv
    BY InitMail, MessagingAssumption
  <1>2. MailInv /\ [Next]_vars => MailInv'
    BY NextMail, MessagingAssumption
  <1> QED  BY <1>1, <1>2, PTL DEF Spec

\* Every variable keeps its type.
THEOREM TypeCorrect == Spec => []TypeOK
  <1>1. MailInv => TypeOK
    BY DEF MailInv
  <1> QED  BY <1>1, Invariance, PTL

\* With the mutex free the database holds what is queued and no more.
THEOREM StoreIsQueue == Spec => []StoreAgrees
  <1>1. MailInv => StoreAgrees
    BY FreeStore DEF StoreAgrees, All, AllOf, Free
  <1> QED  BY <1>1, Invariance, PTL

\* A message that asks for an ack, and was stored, stays queued until it is
\* acked, too old, trimmed or erased.
THEOREM OwedStays == Spec => []NeedAckKept
  <1>1. ASSUME MailInv, NEW r \in owed, r.item.need
        PROVE  r.item \in box[r.user]
    <2>1. box \in [Users -> SUBSET Item] /\ r \in All
      BY <1>1 DEF MailInv, TypeOK, OwedQueued
    <2> QED  BY <2>1, AllRecords DEF All
  <1>2. MailInv => NeedAckKept
    BY <1>1 DEF NeedAckKept
  <1> QED  BY <1>2, Invariance, PTL

\* No ack is queued while the message it ended is queued too; another copy of
\* it, sent with the same id, may be.
THEOREM AckIsFinal == Spec => []AckEndsMessage
  <1>1. ASSUME MailInv, NEW u \in Users, NEW v \in Users, NEW a \in box[u], NEW q \in box[v],
               a.kind = "ack", a.from = v, q.kind = "msg", q.seq = a.ends
        PROVE  FALSE
    <2> DEFINE x == [user |-> u, item |-> a]
               y == [user |-> v, item |-> q]
    <2>1. x \in All /\ y \in All
      BY DEF All, AllOf, Of
    <2>2. Answers(x, y)
      BY <1>1 DEF Answers
    <2> QED  BY <1>1, <2>1, <2>2, Zenon DEF MailInv, AcksApart
  <1>2. MailInv => AckEndsMessage
    BY <1>1 DEF AckEndsMessage
  <1> QED  BY <1>2, Invariance, PTL
=============================================================================
