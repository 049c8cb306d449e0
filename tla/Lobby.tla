-------------------------------- MODULE Lobby --------------------------------
(***************************************************************************)
(* Splatoon 3's lobby messages (lobby.go).  A console holds a RecvMessage  *)
(* stream; a message goes into the queue of every stream that listens for  *)
(* it at that moment, and the stream's loop sends its queue and a          *)
(* keep-alive every 20 seconds.  Every payload carries a cursor from one   *)
(* counter, and the console drops what is older than the last it saw.      *)
(*                                                                         *)
(* A call takes the cursor before it takes the lock of the listeners, and  *)
(* a keep-alive takes one while messages wait in the queue: these are the  *)
(* steps here.  A restart closes every stream and call at once.            *)
(***************************************************************************)
EXTENDS Naturals, Sequences, FiniteSets

CONSTANTS
  Players,
  LobbyNames,   \* the lobbies a request may name, the empty name included
  Listeners,    \* RecvMessage streams
  TokenOf,       \* the player whose token a stream carries
  Calls,        \* SendMessage and SendLobbyMessage calls in progress
  QueueCap,     \* length of a listener's channel: 64
  LastMs,       \* bound: the clock shows 1 .. LastMs
  MaxSeq        \* bound: cursors within a millisecond, the streams' first ones aside

\* Checked in MCSplatoon.
LobbyAssumption ==
  /\ TokenOf \in [Listeners -> Players] /\ IsFiniteSet(Listeners)
  /\ QueueCap \in Nat \ {0} /\ LastMs \in Nat \ {0} /\ MaxSeq \in Nat

Cursors   == (0 .. LastMs) \X (0 .. MaxSeq + Cardinality(Listeners))  \* milliseconds, number
NoCursor  == <<0, 0>>
Messages  == [cursor : Cursors, users : SUBSET Players, lobbies : SUBSET LobbyNames]

VARIABLES
  cursor,    \* the last cursor handed out
  calls,     \* call -> the message it is about to deliver, none when idle
  stream,    \* listener -> [pc, lobby]
  queue,     \* listener -> the messages not sent yet (l.ch), by their cursors
  seen       \* listener -> the last cursor sent on its stream

vars == <<cursor, calls, stream, queue, seen>>

Idle      == [cursor |-> NoCursor, users |-> {}, lobbies |-> {}]
Closed    == [pc |-> "closed", lobby |-> CHOOSE b \in LobbyNames : TRUE]
Older(c, d) == c[1] < d[1] \/ (c[1] = d[1] /\ c[2] < d[2])

Init ==
  /\ cursor = NoCursor
  /\ calls = [p \in Calls |-> Idle]
  /\ stream = [l \in Listeners |-> Closed]
  /\ queue = [l \in Listeners |-> <<>>]
  /\ seen = [l \in Listeners |-> NoCursor]

\* nextCursor: the clock's milliseconds when they moved on, else the next
\* number.  The clock may have been set back.
NextCursor(now) ==
  IF now > cursor[1] THEN <<now, 0>> ELSE <<cursor[1], cursor[2] + 1>>

TakeCursor == \E now \in 1 .. LastMs : cursor' = NextCursor(now)
Bounded    == cursor[2] < MaxSeq

-----------------------------------------------------------------------------
(* SendMessage, SendLobbyMessage                                           *)

\* The message is built, its cursor taken, before the lock.
Build(p, to, in) ==
  /\ calls[p] = Idle /\ Bounded
  /\ TakeCursor
  /\ calls' = [calls EXCEPT ![p] = [cursor |-> cursor', users |-> to, lobbies |-> in]]
  /\ UNCHANGED <<stream, queue, seen>>

SendMessage(p)      == \E to \in SUBSET Players \ {{}} : Build(p, to, {})
SendLobbyMessage(p) == \E b \in LobbyNames : Build(p, {}, {b})

Matches(m, l) ==
  /\ stream[l].pc # "closed"
  /\ TokenOf[l] \in m.users \/ stream[l].lobby \in m.lobbies

\* mutant: the lock is given back between two receivers
DeliverApart(p) == \E l \in Listeners :
  LET m == calls[p]
      rest == {TokenOf[k] : k \in {j \in Listeners \ {l} : Matches(m, j)}} IN
  /\ m # Idle /\ Matches(m, l)
  /\ queue' = IF Len(queue[l]) < QueueCap THEN [queue EXCEPT ![l] = Append(@, m.cursor)] ELSE queue
  /\ calls' = [calls EXCEPT ![p] =
       IF rest = {} THEN Idle ELSE [m EXCEPT !.users = rest, !.lobbies = {}]]
  /\ UNCHANGED <<cursor, stream, seen>>

\* deliver: every stream that matches, under one lock; a full queue drops it.
Deliver(p) ==
  LET m == calls[p] IN
  /\ m # Idle
  /\ queue' = [l \in Listeners |->
                 IF Matches(m, l) /\ Len(queue[l]) < QueueCap
                 THEN Append(queue[l], m.cursor) ELSE queue[l]]
  /\ calls' = [calls EXCEPT ![p] = Idle]
  /\ UNCHANGED <<cursor, stream, seen>>

-----------------------------------------------------------------------------
(* RecvMessage                                                             *)

\* listen: registered from here on, with a queue of its own.
Listen(l, b) ==
  /\ stream[l].pc = "closed" /\ Bounded
  /\ stream' = [stream EXCEPT ![l] = [pc |-> "opening", lobby |-> b]]
  /\ queue' = [queue EXCEPT ![l] = <<>>]
  /\ seen' = [seen EXCEPT ![l] = NoCursor]
  /\ UNCHANGED <<cursor, calls>>

\* The keep-alive that opens the stream, and the one of the ticker.
KeepAlive(l) ==
  /\ stream[l].pc = "opening" \/ (stream[l].pc = "open" /\ Bounded)
  /\ TakeCursor
  /\ stream' = [stream EXCEPT ![l].pc = "open"]
  /\ seen' = [seen EXCEPT ![l] = cursor']
  /\ UNCHANGED <<calls, queue>>

\* mutant: the newest message is sent and the others are passed over
SendNewest(l) ==
  /\ stream[l].pc = "open" /\ queue[l] # <<>>
  /\ seen' = [seen EXCEPT ![l] = queue[l][Len(queue[l])]]
  /\ queue' = [queue EXCEPT ![l] = <<>>]
  /\ UNCHANGED <<cursor, calls, stream>>

\* case m := <-l.ch.
Send(l) ==
  /\ stream[l].pc = "open" /\ queue[l] # <<>>
  /\ seen' = [seen EXCEPT ![l] = Head(queue[l])]
  /\ queue' = [queue EXCEPT ![l] = Tail(@)]
  /\ UNCHANGED <<cursor, calls, stream>>

\* The client hangs up or a send fails: unlisten.
HangUp(l) ==
  /\ stream[l].pc # "closed"
  /\ stream' = [stream EXCEPT ![l] = Closed]
  /\ queue' = [queue EXCEPT ![l] = <<>>]
  /\ UNCHANGED <<cursor, calls, seen>>

Next ==
  \/ \E p \in Calls : SendMessage(p) \/ SendLobbyMessage(p) \/ Deliver(p)
  \/ \E l \in Listeners :
       \/ \E b \in LobbyNames : Listen(l, b)
       \/ KeepAlive(l) \/ Send(l) \/ HangUp(l)

\* A stream's goroutine runs while it has something to send.
Fairness == \A l \in Listeners : WF_vars(KeepAlive(l)) /\ WF_vars(Send(l))
Spec == Init /\ [][Next]_vars /\ Fairness

-----------------------------------------------------------------------------
(* Properties                                                              *)

TypeOK ==
  /\ cursor \in Cursors
  /\ calls \in [Calls -> Messages]
  /\ stream \in [Listeners -> [pc : {"closed", "opening", "open"}, lobby : LobbyNames]]
  /\ queue \in [Listeners -> Seq(Cursors)] /\ seen \in [Listeners -> Cursors]
  /\ \A l \in Listeners : Len(queue[l]) <= QueueCap

\* Two consoles that wait for the same two messages get them in one order.
SameOrder ==
  \A l, r \in Listeners :
    \A i, j \in 1 .. Len(queue[l]) : \A k, n \in 1 .. Len(queue[r]) :
      i < j /\ queue[l][i] = queue[r][n] => queue[l][j] # queue[r][k] \/ n < k

\* The game stays on its loading screen until its own "NplnLogin" message
\* comes back: a message in a stream's queue is sent, or the stream closes.
LoginReturns ==
  \A l \in Listeners : \A c \in (1 .. LastMs) \X (0 .. MaxSeq) :     \* those of messages
    (\E k \in 1 .. Len(queue[l]) : queue[l][k] = c) ~> (seen[l] = c \/ stream[l].pc = "closed")

\* "Every delivery carries a strictly increasing cursor" (lobby.go, package
\* comment): the console drops what comes with an older one.
CursorsClimb ==
  [][\A l \in Listeners : seen'[l] \in {seen[l], NoCursor} \/ Older(seen[l], seen'[l])]_vars
=============================================================================
