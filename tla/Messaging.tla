------------------------------ MODULE Messaging ------------------------------
(***************************************************************************)
(* Player-to-player messages with optional acks (messaging.go): one        *)
(* mailbox per player, RecvMessage streams that take from it, and the      *)
(* write-through copy of every queued item in Postgres.                    *)
(*                                                                         *)
(* Everything is under one mutex, m.mu, that a handler holds through its   *)
(* database writes.  Memory changes at once, since nobody else sees it     *)
(* before the mutex is free; the writes are left in `writes`, are done one *)
(* at a time, and the process may die between any two.  A write that fails *)
(* while the process lives on (it is only logged) is not modelled.         *)
(*                                                                         *)
(* A mailbox is a set: its order is that of the sequence numbers, which    *)
(* grow as items are appended, and load sorts by them.                     *)
(*                                                                         *)
(* The id of a message is the console's, so two sends may carry the same;  *)
(* the uuid4 of a message without one is an id not used before.  Nor are   *)
(* the receivers of a message distinct.                                    *)
(***************************************************************************)
EXTENDS Integers, Sequences, FiniteSets, SequencesExt

CONSTANTS
  Users,      \* players
  Streams,    \* RecvMessage streams
  Friends,    \* who may address whom: friends, and players in one session
  Receivers,  \* the lists of receivers a message is sent to
  Ids,        \* message_request_id
  Erasable,   \* the players whose account may be erased
  MaxQueued,  \* msgMaxQueued
  Opens,       \* bound: which streams a player opens
  MaxRequests, \* bound: messages ever sent
  MaxAged      \* bound: items that grow too old

ASSUME MessagingAssumption ==
  /\ Friends \subseteq Users \X Users /\ Erasable \subseteq Users
  /\ Receivers \subseteq Seq(Users) /\ Opens \subseteq Streams \X Users
  /\ MaxQueued \in Nat \ {0} /\ MaxRequests \in Nat /\ MaxAged \in Nat

VARIABLES
  seq,      \* the last sequence number given, the resume token of its item
  box,      \* player -> its queued items
  db,       \* npln.blobs, kind "msg": the items stored, each with its owner
  dbSeq,    \* npln.blobs, kind "msgseq": the counter stored
  todo,     \* what the handler that holds the mutex has yet to enqueue
  writes,   \* the database writes it has to do before that
  stream,   \* RecvMessage calls
  expired,  \* items up to this number are older than msgMaxAge
  requests, \* history: messages sent so far
  token,    \* player -> the resume tokens its console received last
  owed      \* history: messages stored and not acked, expired, trimmed or erased

mail    == <<seq, box, todo, writes>>
history == <<requests, token, owed>>
vars    == <<mail, db, dbSeq, stream, expired, history>>

-----------------------------------------------------------------------------
\* A message, or the ack that answers it; from is who it comes from.  History:
\* ends is the number of the message that an ack took from a queue.
Item   == [seq : Nat, kind : {"msg", "ack"}, from : Users, req : Ids, need : BOOLEAN,
           ends : Nat]
Record == [user : Users, item : Item]
Sent   == [user : Users, from : Users, req : Ids, need : BOOLEAN]

Write == [op : {"put", "count", "del"}, recs : SUBSET Record, n : Nat]
Closed == [pc |-> "closed"]
Open   == [pc : {"poll", "send"}, user : Users, msg : Nat, ack : Nat,
           out : SUBSET Item, wake : BOOLEAN, reg : BOOLEAN]

Of(u, items)  == {[user |-> u, item |-> q] : q \in items}
Free          == todo = <<>> /\ writes = <<>>   \* m.mu is free
IsOpen(s)     == stream[s] # Closed
Newest(items) == {q \in items : Cardinality({p \in items : p.seq > q.seq}) < MaxQueued}
Oldest(items) == CHOOSE q \in items : \A p \in items : q.seq <= p.seq

Put(recs) == <<[op |-> "put", recs |-> recs, n |-> 0]>>
Count(n)  == <<[op |-> "count", recs |-> {}, n |-> n]>>
Del(recs) == IF recs = {} THEN <<>> ELSE <<[op |-> "del", recs |-> recs, n |-> 0]>>

\* enqueue: what it leaves in the mailbox, what it trims, and its writes.
Queued(items, q)  == Newest(items \cup {q})
Trimmed(items, q) == (items \cup {q}) \ Newest(items \cup {q})
QueueWrites(u, items, q) == Put(Of(u, {q})) \o Count(q.seq) \o Del(Of(u, Trimmed(items, q)))

\* mutant: nobody is woken
WokenNobody(us) == stream
\* The streams of these players find something in their wake channel, unless
\* the mailbox they registered it with is gone.
Woken(us) ==
  [s \in Streams |-> IF IsOpen(s) /\ stream[s].reg /\ stream[s].user \in us
                       THEN [stream[s] EXCEPT !.wake = TRUE] ELSE stream[s]]

-----------------------------------------------------------------------------
Init ==
  /\ seq = 0 /\ dbSeq = 0 /\ db = {} /\ todo = <<>> /\ writes = <<>>
  /\ box = [u \in Users |-> {}]
  /\ stream = [s \in Streams |-> Closed]
  /\ expired = 0 /\ requests = 0
  /\ token = [u \in Users |-> [msg |-> 0, ack |-> 0]]
  /\ owed = {}

\* The handler takes the mutex, with a message for each receiver on its list.
SendMessage(u, to, req, need) ==
  /\ Free /\ requests < MaxRequests
  /\ \A i \in DOMAIN to : to[i] = u \/ <<u, to[i]>> \in Friends
  /\ todo' = [i \in DOMAIN to |-> [user |-> to[i], from |-> u, req |-> req, need |-> need]]
  /\ requests' = requests + 1
  /\ UNCHANGED <<seq, box, writes, db, dbSeq, stream, expired, token, owed>>

\* One receiver after the other, each with the writes of its item.
Enqueue ==
  LET j == Head(todo)
      q == [seq |-> seq + 1, kind |-> "msg", from |-> j.from, req |-> j.req, need |-> j.need,
            ends |-> 0]
  IN
  /\ writes = <<>> /\ todo # <<>>
  /\ todo' = Tail(todo)
  /\ seq' = seq + 1
  /\ box' = [box EXCEPT ![j.user] = Queued(@, q)]
  /\ writes' = QueueWrites(j.user, box[j.user], q)
  /\ stream' = Woken({j.user})
  /\ owed' = (owed \cup Of(j.user, {q})) \ Of(j.user, Trimmed(box[j.user], q))
  /\ UNCHANGED <<db, dbSeq, expired, requests, token>>

\* What an ack for req is for, when it names the sender or leaves it open.
Holding(u, req, senders) ==
  {q \in box[u] : q.kind = "msg" /\ q.need /\ q.req = req /\ q.from \in senders}

\* mutant: the ack is queued, then the message dropped
SendAckFirst(u, req, senders) ==
  LET q    == Oldest(Holding(u, req, senders))
      a    == [seq |-> seq + 1, kind |-> "ack", from |-> u, req |-> req, need |-> FALSE,
               ends |-> q.seq]
      left == [box EXCEPT ![u] = @ \ {q}]
  IN
  /\ Free /\ Holding(u, req, senders) # {}
  /\ seq' = seq + 1
  /\ box' = [left EXCEPT ![q.from] = Queued(@, a)]
  /\ writes' = QueueWrites(q.from, left[q.from], a) \o Del(Of(u, {q}))
  /\ stream' = Woken({q.from})
  /\ owed' = (owed \ Of(u, {q})) \ Of(q.from, Trimmed(left[q.from], a))
  /\ UNCHANGED <<todo, db, dbSeq, expired, requests, token>>

\* The oldest message the ack is for leaves the queue of the player who acks it,
\* then the ack is queued for its sender; another copy with that id stays.  An
\* ack for a message not held changes nothing, and a list of acks is one after
\* the other.
SendAck(u, req, senders) ==
  LET q    == Oldest(Holding(u, req, senders))
      a    == [seq |-> seq + 1, kind |-> "ack", from |-> u, req |-> req, need |-> FALSE,
               ends |-> q.seq]
      left == [box EXCEPT ![u] = @ \ {q}]
  IN
  /\ Free /\ Holding(u, req, senders) # {}
  /\ seq' = seq + 1
  /\ box' = [left EXCEPT ![q.from] = Queued(@, a)]
  /\ writes' = Del(Of(u, {q})) \o QueueWrites(q.from, left[q.from], a)
  /\ stream' = Woken({q.from})
  /\ owed' = (owed \ Of(u, {q})) \ Of(q.from, Trimmed(left[q.from], a))
  /\ UNCHANGED <<todo, db, dbSeq, expired, requests, token>>

-----------------------------------------------------------------------------
(* RecvMessage *)

\* A stream opens with the tokens its console holds, or with none.
RecvMessage(s, u, resume) ==
  /\ ~IsOpen(s) /\ Free /\ <<s, u>> \in Opens
  /\ stream' = [stream EXCEPT ![s] =
       [pc |-> "poll", user |-> u, out |-> {}, wake |-> FALSE, reg |-> TRUE,
        msg |-> IF resume THEN token[u].msg ELSE 0,
        ack |-> IF resume THEN token[u].ack ELSE 0]]
  /\ UNCHANGED <<mail, db, dbSeq, expired, history>>

After(s, q) == q.seq > IF q.kind = "msg" THEN stream[s].msg ELSE stream[s].ack

\* mutants: every item goes once taken; the items taken stay in the store
PollDropsAll(s) ==
  LET u == stream[s].user
      old  == {q \in box[u] : q.seq <= expired}
      out  == {q \in box[u] \ old : After(s, q)}
  IN
  /\ IsOpen(s) /\ stream[s].pc = "poll" /\ Free
  /\ stream' = [stream EXCEPT ![s].pc = "send", ![s].out = out]
  /\ box' = [box EXCEPT ![u] = @ \ (old \cup out)]
  /\ writes' = Del(Of(u, old \cup out))
  /\ owed' = owed \ Of(u, old)
  /\ UNCHANGED <<seq, todo, db, dbSeq, expired, requests, token>>
PollKeepsRecords(s) ==
  LET u == stream[s].user
      old  == {q \in box[u] : q.seq <= expired}
      out  == {q \in box[u] \ old : After(s, q)}
      once == {q \in out : ~q.need}
  IN
  /\ IsOpen(s) /\ stream[s].pc = "poll" /\ Free
  /\ stream' = [stream EXCEPT ![s].pc = "send", ![s].out = out]
  /\ box' = [box EXCEPT ![u] = @ \ (old \cup once)]
  /\ writes' = Del(Of(u, old))
  /\ owed' = owed \ Of(u, old)
  /\ UNCHANGED <<seq, todo, db, dbSeq, expired, requests, token>>

\* pending: what the stream will send; expired items go, and so does every item
\* taken that needs no ack.
Poll(s) ==
  LET u == stream[s].user
      old  == {q \in box[u] : q.seq <= expired}
      out  == {q \in box[u] \ old : After(s, q)}
      once == {q \in out : ~q.need}
  IN
  /\ IsOpen(s) /\ stream[s].pc = "poll" /\ Free
  /\ stream' = [stream EXCEPT ![s].pc = "send", ![s].out = out]
  /\ box' = [box EXCEPT ![u] = @ \ (old \cup once)]
  /\ writes' = Del(Of(u, old \cup once))
  /\ owed' = owed \ Of(u, old)
  /\ UNCHANGED <<seq, todo, db, dbSeq, expired, requests, token>>

\* One item goes out, outside the mutex.
Send(s) ==
  LET q == Oldest(stream[s].out)
      u == stream[s].user
  IN
  /\ IsOpen(s) /\ stream[s].pc = "send" /\ stream[s].out # {}
  /\ IF q.kind = "msg"
       THEN /\ stream' = [stream EXCEPT ![s].out = @ \ {q}, ![s].msg = q.seq]
            /\ token' = [token EXCEPT ![u].msg = q.seq]
       ELSE /\ stream' = [stream EXCEPT ![s].out = @ \ {q}, ![s].ack = q.seq]
            /\ token' = [token EXCEPT ![u].ack = q.seq]
  /\ UNCHANGED <<mail, db, dbSeq, expired, requests, owed>>

Waiting(s) == IsOpen(s) /\ stream[s].pc = "send" /\ stream[s].out = {}

Wake(s) ==
  /\ Waiting(s) /\ stream[s].wake
  /\ stream' = [stream EXCEPT ![s].pc = "poll", ![s].wake = FALSE]
  /\ UNCHANGED <<mail, db, dbSeq, expired, history>>

\* The keep-alive went out; the loop looks at the mailbox again.
Beat(s) ==
  /\ Waiting(s)
  /\ stream' = [stream EXCEPT ![s].pc = "poll"]
  /\ UNCHANGED <<mail, db, dbSeq, expired, history>>

\* A send fails or the console hangs up; what was still to be sent is gone.
HangUp(s) ==
  /\ IsOpen(s) /\ stream[s].pc = "send" /\ Free
  /\ stream' = [stream EXCEPT ![s] = Closed]
  /\ UNCHANGED <<mail, db, dbSeq, expired, history>>

-----------------------------------------------------------------------------
(* The store *)

\* The first write still to do; deletions of one handler in any order.
Persist ==
  LET w == Head(writes) IN
  /\ writes # <<>>
  /\ \/ w.op = "put" /\ db' = db \cup w.recs /\ writes' = Tail(writes) /\ UNCHANGED dbSeq
     \/ w.op = "count" /\ dbSeq' = w.n /\ writes' = Tail(writes) /\ UNCHANGED db
     \/ /\ w.op = "del"
        /\ \E r \in w.recs :
             /\ db' = db \ {r}
             /\ writes' = IF w.recs = {r} THEN Tail(writes)
                                          ELSE [writes EXCEPT ![1].recs = @ \ {r}]
        /\ UNCHANGED dbSeq
  /\ UNCHANGED <<seq, box, todo, stream, expired, history>>

\* load: the items that have not expired, and a counter no lower than theirs.
Load ==
  LET live == {r \in db : r.item.seq > expired} IN
  /\ box' = [u \in Users |-> {r.item : r \in {x \in live : x.user = u}}]
  /\ seq' \in {dbSeq} \cup {r.item.seq : r \in live}
  /\ seq' >= dbSeq /\ \A r \in live : seq' >= r.item.seq
  /\ db' = live
  /\ owed' = (owed \ (db \ live)) \ UNION {w.recs : w \in {x \in ToSet(writes) : x.op = "put"}}

\* The process dies, with its streams and what its handler had left to do, and
\* is back.
Restart ==
  /\ todo' = <<>> /\ writes' = <<>>
  /\ stream' = [s \in Streams |-> Closed]
  /\ Load
  /\ UNCHANGED <<dbSeq, expired, requests, token>>

\* Ten minutes pass for one more item.
Age ==
  /\ Free /\ expired < seq /\ expired < MaxAged
  /\ expired' = expired + 1
  /\ UNCHANGED <<mail, db, dbSeq, stream, history>>

\* eraseUsers: the player's mailbox, wake channels included, and every item the
\* player sent.
EraseUser(u) ==
  LET Mine(v) == {q \in box[v] : v = u \/ q.from = u}
      gone    == UNION {Of(v, Mine(v)) : v \in Users}
  IN
  /\ Free
  /\ box' = [v \in Users |-> box[v] \ Mine(v)]
  /\ writes' = Del(gone)
  /\ stream' = [s \in Streams |-> IF IsOpen(s) /\ stream[s].user = u
                                    THEN [stream[s] EXCEPT !.reg = FALSE] ELSE stream[s]]
  /\ owed' = owed \ gone
  /\ UNCHANGED <<seq, todo, db, dbSeq, expired, requests, token>>

-----------------------------------------------------------------------------
Next ==
  \/ \E u \in Users, to \in Receivers, req \in Ids, need \in BOOLEAN :
       SendMessage(u, to, req, need)
  \/ Enqueue
  \/ \E u \in Users, req \in Ids, senders \in {Users} \cup {{v} : v \in Users} :
       SendAck(u, req, senders)
  \/ \E s \in Streams, u \in Users, resume \in BOOLEAN : RecvMessage(s, u, resume)
  \/ \E s \in Streams : Poll(s) \/ Send(s) \/ Wake(s) \/ Beat(s) \/ HangUp(s)
  \/ Persist
  \/ Restart
  \/ Age
  \/ \E u \in Erasable : EraseUser(u)

\* A handler that holds the mutex finishes; a stream goes on when it can.  Beat
\* is left out on purpose: a message does not wait for the next keep-alive.
Fairness ==
  /\ WF_vars(Enqueue) /\ WF_vars(Persist)
  /\ \A s \in Streams : SF_vars(Poll(s)) /\ WF_vars(Send(s)) /\ WF_vars(Wake(s))

Spec == Init /\ [][Next]_vars /\ Fairness

-----------------------------------------------------------------------------
(* Properties *)

TypeOK ==
  /\ seq \in Nat /\ dbSeq \in Nat /\ expired \in Nat /\ requests \in 0 .. MaxRequests
  /\ box \in [Users -> SUBSET Item]
  /\ db \in SUBSET Record
  /\ todo \in Seq(Sent)
  /\ writes \in Seq(Write)
  /\ stream \in [Streams -> Open \cup {Closed}]
  /\ token \in [Users -> [msg : Nat, ack : Nat]]
  /\ owed \in SUBSET Record

\* Whenever the mutex is free the database holds what is queued and no more, so
\* a restart brings back every item that waits and none that was delivered,
\* acked, trimmed or erased (messaging.go:16-19).
StoreAgrees == Free => db = UNION {Of(u, box[u]) : u \in Users}

\* A need_ack message stays queued until its receiver acks it, through hang-ups,
\* resumed streams and restarts (messaging.go:13-14); age, the bound and erasure
\* alone end it otherwise.
NeedAckKept == \A r \in owed : r.item.need => r.item \in box[r.user]

\* A message is acked once: while its ack is on the way the message is not in
\* its receiver's queue any more, even after a restart in the middle of SendAck.
\* Another copy, sent again with the same id or to a player listed twice, may be.
AckEndsMessage ==
  \A u, v \in Users : \A a \in box[u], q \in box[v] :
    a.kind = "ack" /\ a.from = v => ~(q.kind = "msg" /\ q.seq = a.ends)

\* "each drops the message from the caller's queue" (messaging.go:324-325): once
\* acked, no copy of it is left.  The code does NOT have this: of two copies with
\* one id, the first found goes (see the README).
AckEndsCopies ==
  \A u, v \in Users : \A a \in box[u], q \in box[v] :
    a.kind = "ack" /\ a.from = v => ~(q.kind = "msg" /\ q.from = u /\ q.req = a.req)

\* The stream s has something to take from its mailbox.
Owes(s) ==
  /\ IsOpen(s) /\ stream[s].reg
  /\ \E q \in box[stream[s].user] : q.seq > expired /\ After(s, q)

\* No wake-up is lost: what is queued for a player is taken by the stream it
\* holds open without waiting for the next keep-alive (enqueue against select).
WakesDeliver == \A s \in Streams : Owes(s) ~> ~Owes(s)

\* "a restart ... never reuses a resume token" (messaging.go:18-19): the counter
\* is never behind a token some console holds.  The code does NOT have this: two
\* deaths around the write of the counter break it (see the README).
TokensNeverReused == \A u \in Users : token[u].msg <= seq /\ token[u].ack <= seq
=============================================================================
