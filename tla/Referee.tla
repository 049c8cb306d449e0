------------------------------- MODULE Referee -------------------------------
(***************************************************************************)
(* The verdict of a Splatoon 3 battle (referee.go) and one console that    *)
(* waits for it.  Each console of the battle writes a request, a profile   *)
(* once it saw the request accepted, and a report at the end; the server   *)
(* answers all of them in one document, which reaches a console as any     *)
(* document does (gamesync.go; see DocSync): a goroutine for each change   *)
(* and the poll, compared with what was sent last and then sent.  One lock  *)
(* is released before the other is taken (push), so a send may overtake one *)
(* that was compared before it, and the console then misses a status.       *)
(*                                                                         *)
(* The consoles are those of the comment on top of referee.go.  Me watches *)
(* before it writes.  Contexts and results are left out: two verdicts with *)
(* one status are the same, so the second is not sent, the harder case.    *)
(***************************************************************************)
EXTENDS SequencesExt

CONSTANTS
  Consoles,
  Me         \* the console whose stream is modelled

\* Checked in MCSplatoon.
RefereeAssumption == Me \in Consoles

VARIABLES
  verdict,    \* the document: its status, "none" when there is none
  wrote,      \* console -> what it wrote last
  expects,    \* the status Me waits for; another one it ignores
  pushes,     \* status -> goroutines deliver started with it that have not compared yet
  reader,     \* the listing, then the poll
  last,       \* what was compared last
  out,        \* what waits to be sent, in the order it was compared
  overtaken,  \* history: a send went before one compared earlier
  told        \* history: Me was sent that the battle is decided

console == <<verdict, wrote>>
sent    == <<overtaken, told>>
vars    == <<verdict, wrote, expects, pushes, reader, last, out, sent>>

Verdicts == {"none", "accepted", "kickoff", "decided"}
Off      == [pc |-> "off", kind |-> "EXIST", val |-> "none"]
Idle     == [Off EXCEPT !.pc = "idle"]
Watching == reader.pc = "idle" \/ reader.kind = "UPDATED"

Init ==
  /\ verdict = "none" /\ wrote = [c \in Consoles |-> "nothing"]
  /\ expects = "accepted"
  /\ pushes = [v \in Verdicts |-> 0] /\ reader = Off /\ last = "none" /\ out = <<>>
  /\ overtaken = FALSE /\ told = FALSE

-----------------------------------------------------------------------------
(* apply, publishVerdict                                                   *)

\* The verdict is stored and delivered.
Publish(v) ==
  /\ verdict' = v
  /\ pushes' = IF Watching THEN [pushes EXCEPT ![v] = @ + 1] ELSE pushes

\* mutant: the verdict of an earlier request keeps its status
RequestKeepsStatus(c) ==
  /\ wrote[c] = "nothing" /\ (c = Me => Watching)
  /\ wrote' = [wrote EXCEPT ![c] = "request"]
  /\ Publish(IF verdict = "none" THEN "accepted" ELSE verdict)
  /\ UNCHANGED <<expects, reader, last, out, sent>>

\* refereeVerdict for a request: accepted, whatever it was before.
Request(c) ==
  /\ wrote[c] = "nothing" /\ (c = Me => Watching)
  /\ wrote' = [wrote EXCEPT ![c] = "request"]
  /\ Publish("accepted")
  /\ UNCHANGED <<expects, reader, last, out, sent>>

\* refereeKickoff: only an accepted verdict is moved on.
Profile(c) ==
  /\ wrote[c] = "request" /\ (c = Me => expects # "accepted")
  /\ wrote' = [wrote EXCEPT ![c] = "profile"]
  /\ IF verdict = "accepted" THEN Publish("kickoff")
                             ELSE UNCHANGED <<verdict, pushes>>
  /\ UNCHANGED <<expects, reader, last, out, sent>>

\* refereeVerdict for a report: decided.  A battle takes minutes: nobody reports
\* before Me has started.
Report(c) ==
  /\ wrote[c] = "profile" /\ expects \in {"decided", "nothing"}
  /\ wrote' = [wrote EXCEPT ![c] = "report"]
  /\ Publish("decided")
  /\ UNCHANGED <<expects, reader, last, out, sent>>

-----------------------------------------------------------------------------
(* The stream of Me: push, the listing, the poll                           *)

\* An update like the last one is not sent.
Compare(v, kind, own) ==
  /\ last' = v
  /\ out' = IF kind = "UPDATED" /\ last = v THEN out ELSE Append(out, [v |-> v, own |-> own])

PushCompares(v) ==
  /\ pushes[v] > 0 /\ pushes' = [pushes EXCEPT ![v] = @ - 1]
  /\ Compare(v, "UPDATED", FALSE)
  /\ UNCHANGED <<console, expects, reader, sent>>

\* A send, in whatever order the senders get sendMu, and what the console makes of it.
PushSends(i) ==
  LET p == out[i] IN
  /\ out' = RemoveAt(out, i)
  /\ overtaken' = (overtaken \/ i # 1) /\ told' = (told \/ p.v = "decided")
  /\ expects' = IF p.v # expects THEN expects
                ELSE CASE expects = "accepted" -> "kickoff"
                       [] expects = "kickoff"  -> "decided"
                       [] expects = "decided"  -> "nothing"
  /\ reader' = IF p.own THEN Idle ELSE reader
  /\ UNCHANGED <<console, pushes, last>>

\* The collection is read, once to be listed and then at every poll; the
\* document comes with it when there is one.
Reads(from, kind) ==
  /\ reader.pc = from
  /\ reader' = IF verdict = "none" THEN Idle
                                 ELSE [pc |-> "read", kind |-> kind, val |-> verdict]
  /\ UNCHANGED <<console, expects, pushes, last, out, sent>>

Watch == Reads("off", "EXIST")
Poll  == verdict # "none" /\ Reads("idle", "UPDATED")

\* The loop waits for its own send.
ReadPush ==
  /\ reader.pc = "read"
  /\ Compare(reader.val, reader.kind, TRUE)
  /\ reader' = IF out' = out THEN Idle ELSE [reader EXCEPT !.pc = "sending", !.val = "none"]
  /\ UNCHANGED <<console, expects, pushes, sent>>

Next ==
  \/ \E c \in Consoles : Request(c) \/ Profile(c) \/ Report(c)
  \/ \E v \in Verdicts : PushCompares(v)
  \/ \E i \in DOMAIN out : PushSends(i)
  \/ Watch \/ Poll \/ ReadPush

\* Goroutines run, the poll ticks, and Me goes on when it may.
Fairness ==
  /\ WF_vars(Poll \/ ReadPush) /\ WF_vars(Profile(Me))
  /\ WF_vars(\E v \in Verdicts : PushCompares(v))
  /\ WF_vars(\E i \in DOMAIN out : PushSends(i))

Spec == Init /\ [][Next]_vars /\ Fairness

-----------------------------------------------------------------------------
(* Properties                                                              *)

TypeOK ==
  /\ verdict \in Verdicts
  /\ wrote \in [Consoles -> {"nothing", "request", "profile", "report"}]
  /\ expects \in {"accepted", "kickoff", "decided", "nothing"}
  /\ pushes \in [Verdicts -> Nat] /\ last \in Verdicts
  /\ reader \in [pc : {"off", "read", "sending", "idle"}, kind : {"EXIST", "UPDATED"}, val : Verdicts]
  /\ out \in Seq([v : Verdicts, own : BOOLEAN])
  /\ overtaken \in BOOLEAN /\ told \in BOOLEAN

\* "With no verdict the 'players are getting ready' countdown ends in a
\* communication error" (referee.go): a console that asks is told that the battle
\* starts, and one that reports that it is decided, however late the others ask.
\* The exception is a send that overtook an earlier one (push releases lastMu
\* before it takes sendMu): the console then ignores the one it does not expect yet.
\* The outcome is sent to it even so.
BattleStarts ==
  /\ wrote[Me] # "nothing" ~> expects \in {"decided", "nothing"} \/ overtaken
  /\ wrote[Me] = "report" ~> expects = "nothing" \/ overtaken
  /\ wrote[Me] = "report" ~> told

\* The same without the exception.  The code does NOT have this.
BattleAlwaysStarts == wrote[Me] # "nothing" ~> expects \in {"decided", "nothing"}
=============================================================================
