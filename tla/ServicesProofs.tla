---------------------------- MODULE ServicesProofs ----------------------------
(***************************************************************************)
(* Theorems about the services that MCServices runs side by side, each for *)
(* its own specification and for every value of its constants.             *)
(***************************************************************************)
EXTENDS MCServices, FiniteSetTheorems, WellFoundedInduction, TLAPS

-----------------------------------------------------------------------------
(* Hydro                                                                   *)

\* Revisions only grow while the process and its rows last, and a name that was
\* never handed out was never read.
Counted ==
  /\ \A n \in Names : rev[n] <= version /\ rows[n].etag <= version
  /\ \A n \in Names \ used : rows[n] = Hyd!Gone
  /\ \A p \in Players, n \in Names \ used : read[p][n] = Hyd!NotRead

\* A content in memory is the one in the database, and its etag its revision: a
\* change whose row fails to be written is what breaks this.
RowFollows ==
  \A n \in Names : Hyd!Exists(n) => rows[n] = contents[n] /\ rev[n] = contents[n].etag

\* What anybody read of a content that the database still has is not newer than
\* its row, and is the row where it has the row's etag.  The row of a deletion
\* that failed is one a restart brings back.
ReadsFollow ==
  \A p \in Players, n \in Names :
    rows[n] # Hyd!Gone /\ read[p][n] # Hyd!NotRead =>
      /\ read[p][n].etag <= rows[n].etag
      /\ read[p][n].etag = rows[n].etag => read[p][n].version = rows[n].version

HydroInv == Hyd!TypeOK /\ Counted /\ RowFollows /\ ReadsFollow

\* The database takes every put, and what the constants are.
HydroPremise == Hyd!HydroAssumption /\ "put" \notin Failures

\* A content with another etag and another number.
Stamp(c, e, v) == [c EXCEPT !.etag = e, !.version = v]

\* It is a content with that etag and that number.
LEMMA Stamped ==
  ASSUME NEW c \in Hyd!Content, NEW e \in 0 .. MaxVersion, NEW v \in 0 .. MaxVersion
  PROVE  Stamp(c, e, v) \in Hyd!Content /\ Stamp(c, e, v).etag = e /\ Stamp(c, e, v).version = v
  <1> DEFINE d == [c EXCEPT !.etag = e]
  <1>1. d \in Hyd!Content /\ d.etag = e
    BY DEF Hyd!Content
  <1> HIDE DEF d
  <1>2. [d EXCEPT !.version = v] \in Hyd!Content
    BY <1>1 DEF Hyd!Content
  <1>3. [d EXCEPT !.version = v].version = v /\ [d EXCEPT !.version = v].etag = e
    BY <1>1 DEF Hyd!Content
  <1> QED  BY <1>2, <1>3 DEF d, Stamp

\* A change that leaves a content: its etag passes all that was ever read of the
\* name, and the row has it.
LEMMA ContentPut ==
  ASSUME HydroPremise, HydroInv, NEW n \in Names, NEW c \in Hyd!Content, c # Hyd!Gone,
         Hyd!Exists(n) \/ n \notin used,
         Hyd!Changed(n, c), used' = used \cup {n}, UNCHANGED <<late, read>>
  PROVE  HydroInv'
  <1> USE DEF HydroPremise, HydroInv
  <1> DEFINE new == Stamp(c, rev[n] + 1, version + 1)
  <1>1. /\ version < MaxVersion /\ version' = version + 1
        /\ rev' = [rev EXCEPT ![n] = @ + 1]
        /\ contents' = [contents EXCEPT ![n] = new]
    BY DEF Hyd!Changed, Stamp
  <1>2. /\ rev[n] \in 0 .. MaxVersion /\ version \in 0 .. MaxVersion /\ rev[n] <= version
        /\ MaxVersion \in Nat
    BY DEF Hyd!TypeOK, Counted, Hyd!HydroAssumption
  <1>3. /\ new \in Hyd!Content /\ new.etag = rev[n] + 1 /\ new.version = version + 1
        /\ new # Hyd!Gone
    <2>1. rev[n] + 1 \in 0 .. MaxVersion /\ version + 1 \in 1 .. MaxVersion
      BY <1>1, <1>2
    <2>2. rev[n] + 1 \in 0 .. MaxVersion /\ version + 1 \in 0 .. MaxVersion
      BY <2>1
    <2>3. new \in Hyd!Content /\ new.etag = rev[n] + 1 /\ new.version = version + 1
      BY <2>2, Stamped
    <2> HIDE DEF new
    <2>4. new # Hyd!Gone
      BY <2>1, <2>3 DEF Hyd!Gone
    <2> QED  BY <2>3, <2>4
  <1>4. contents'[n] = new
    BY <1>1 DEF Hyd!TypeOK
  <1>5. rows' = [rows EXCEPT ![n] = new]
    BY <1>3, <1>4 DEF Hyd!Changed, Hyd!Store
  <1> HIDE DEF new
  <1>6. Hyd!TypeOK'
    <2>1. contents' \in [Names -> Hyd!Content] /\ rows' \in [Names -> Hyd!Content]
      BY <1>1, <1>3, <1>5 DEF Hyd!TypeOK
    <2>2. rev' \in [Names -> 0 .. MaxVersion] /\ version' \in 0 .. MaxVersion
      BY <1>1, <1>2 DEF Hyd!TypeOK
    <2>3. channel' \in [Watchers -> {Hyd!Closed} \cup Seq(Names)]
      BY DEF Hyd!Changed, Hyd!TypeOK
    <2>4. late' \subseteq used' /\ used' \subseteq Names
      BY DEF Hyd!TypeOK
    <2> QED  BY <2>1, <2>2, <2>3, <2>4 DEF Hyd!TypeOK
  <1>7. Counted'
    <2>1. ASSUME NEW m \in Names PROVE rev'[m] <= version' /\ rows'[m].etag <= version'
      <3>1. rev[m] \in Nat /\ rev[m] <= version /\ rows[m].etag <= version /\ rows[m].etag \in Nat
        BY DEF Counted, Hyd!TypeOK, Hyd!Content
      <3>2. rev'[m] = (IF m = n THEN rev[n] + 1 ELSE rev[m]) /\ rows'[m] = (IF m = n THEN new ELSE rows[m])
        BY <1>1, <1>5 DEF Hyd!TypeOK
      <3> QED  BY <1>1, <1>2, <1>3, <3>1, <3>2
    <2>2. \A m \in Names \ used' : rows'[m] = Hyd!Gone
      BY <1>5 DEF Counted, Hyd!TypeOK
    <2> QED  BY <2>1, <2>2 DEF Counted
  <1>8. RowFollows'
    BY <1>1, <1>2, <1>3, <1>4, <1>5 DEF RowFollows, Hyd!TypeOK, Hyd!Exists
  <1>9. ReadsFollow'
    <2> SUFFICES ASSUME NEW p \in Players, NEW m \in Names,
                        rows'[m] # Hyd!Gone, read[p][m] # Hyd!NotRead
                 PROVE  /\ read[p][m].etag <= rows'[m].etag
                        /\ read[p][m].etag = rows'[m].etag => read[p][m].version = rows'[m].version
      BY DEF ReadsFollow
    <2>1. CASE m # n
      BY <1>5, <2>1 DEF ReadsFollow, Hyd!TypeOK
    <2>2. CASE m = n
      <3>1. Hyd!Exists(n)
        BY <2>2 DEF Counted
      <3>2. rows[n] = contents[n] /\ rev[n] = rows[n].etag /\ rows[n] # Hyd!Gone
        BY <3>1 DEF RowFollows, Hyd!Exists
      <3>3. read[p][n].etag <= rev[n] /\ read[p][n].etag \in Nat
        BY <2>2, <3>2 DEF ReadsFollow, Hyd!TypeOK
      <3> QED  BY <1>2, <1>3, <1>5, <2>2, <3>3 DEF Hyd!TypeOK
    <2> QED  BY <2>1, <2>2
  <1> QED  BY <1>6, <1>7, <1>8, <1>9

\* A content goes, with its row or without: the row keeps the etag the readers
\* know, and the revision passes it.
LEMMA ContentGone ==
  ASSUME HydroPremise, HydroInv, NEW n \in Names, n \in used,
         contents' = [contents EXCEPT ![n] = Hyd!Gone],
         rows' \in {rows, [rows EXCEPT ![n] = Hyd!Gone]},
         rev' \in [Names -> 0 .. MaxVersion], \A m \in Names \ {n} : rev'[m] = rev[m],
         version' \in 0 .. MaxVersion, version <= version', rev'[n] <= version',
         channel' \in [Watchers -> {Hyd!Closed} \cup Seq(Names)],
         UNCHANGED <<late, used, read>>
  PROVE  HydroInv'
  <1> USE DEF HydroPremise, HydroInv
  <1>0. Hyd!Gone \in Hyd!Content
    BY DEF Hyd!Gone, Hyd!Content, Hyd!HydroAssumption
  <1>1. \A m \in Names : /\ contents'[m] = IF m = n THEN Hyd!Gone ELSE contents[m]
                         /\ rows'[m] \in {rows[m], Hyd!Gone}
                         /\ m # n => rows'[m] = rows[m]
    BY DEF Hyd!TypeOK
  <1>2. Hyd!TypeOK'
    BY <1>0 DEF Hyd!TypeOK
  <1>3. Counted'
    <2>1. ASSUME NEW m \in Names PROVE rev'[m] <= version' /\ rows'[m].etag <= version'
      <3>1. /\ rev[m] \in Nat /\ rev[m] <= version /\ rows[m].etag <= version /\ rows[m].etag \in Nat
            /\ version \in Nat /\ version' \in Nat
        BY DEF Counted, Hyd!TypeOK, Hyd!Content
      <3>2. rows'[m].etag = rows[m].etag \/ rows'[m].etag = 0
        BY <1>1 DEF Hyd!Gone
      <3> QED  BY <3>1, <3>2
    <2>2. \A m \in Names \ used : rows'[m] = Hyd!Gone
      BY <1>1 DEF Counted
    <2> QED  BY <2>1, <2>2 DEF Counted
  <1>4. RowFollows'
    BY <1>1 DEF RowFollows, Hyd!Exists
  <1>5. ReadsFollow'
    BY <1>1 DEF ReadsFollow
  <1> QED  BY <1>2, <1>3, <1>4, <1>5

\* An expired content goes when it is looked up.
LEMMA DroppedStep ==
  ASSUME HydroPremise, HydroInv, NEW n \in Names, Hyd!Dropped(n), UNCHANGED <<late, used, read>>
  PROVE  HydroInv'
  <1>1. /\ n \in used
        /\ contents' = [contents EXCEPT ![n] = Hyd!Gone]
        /\ UNCHANGED <<rev, version, channel>>
    BY DEF Hyd!Dropped, HydroInv, Hyd!TypeOK
  <1>2. rows' \in {rows, [rows EXCEPT ![n] = Hyd!Gone]}
    BY <1>1 DEF Hyd!Dropped, Hyd!Store, HydroInv, Hyd!TypeOK
  <1>3. /\ rev' \in [Names -> 0 .. MaxVersion] /\ \A m \in Names \ {n} : rev'[m] = rev[m]
        /\ version' \in 0 .. MaxVersion /\ version <= version' /\ rev'[n] <= version'
        /\ channel' \in [Watchers -> {Hyd!Closed} \cup Seq(Names)]
    BY <1>1 DEF HydroPremise, Hyd!HydroAssumption, HydroInv, Hyd!TypeOK, Counted
  <1> QED  BY <1>1, <1>2, <1>3, ContentGone

\* A content is made under a name nobody used.
LEMMA CreateContentStep ==
  ASSUME HydroPremise, HydroInv, NEW p \in Players, NEW n \in Names, NEW shared \in BOOLEAN,
         Hyd!CreateContent(p, n, shared)
  PROVE  HydroInv'
  <1> DEFINE c == [owner |-> p, shared |-> shared, etag |-> 0, version |-> 0]
  <1>1. c \in Hyd!Content /\ c # Hyd!Gone
    BY DEF Hyd!Content, Hyd!Gone, HydroPremise, Hyd!HydroAssumption
  <1>2. Hyd!Changed(n, c) /\ n \notin used /\ used' = used \cup {n} /\ UNCHANGED <<late, read>>
    BY DEF Hyd!CreateContent
  <1> HIDE DEF c
  <1> QED  BY <1>1, <1>2, ContentPut

\* A reader takes what is there, or finds it expired.
LEMMA GetContentStep ==
  ASSUME HydroPremise, HydroInv, NEW p \in Players, NEW n \in Names, Hyd!GetContent(p, n)
  PROVE  HydroInv'
  <1>1. CASE Hyd!Dropped(n) /\ UNCHANGED <<late, used, read>>
    BY <1>1, DroppedStep
  <1>2. CASE /\ Hyd!Live(n)
             /\ read' = [read EXCEPT ![p][n] = [etag |-> contents[n].etag, version |-> contents[n].version]]
             /\ UNCHANGED <<contents, rev, rows, late, used, version, channel>>
    <2> USE DEF HydroInv
    <2> DEFINE new == [etag |-> contents[n].etag, version |-> contents[n].version]
    <2>1. /\ rows[n] = contents[n] /\ n \in used
      BY <1>2 DEF RowFollows, Hyd!Live, Hyd!Exists, Counted
    <2>2. new \in [etag : 0 .. MaxVersion, version : 0 .. MaxVersion]
      BY DEF Hyd!TypeOK, Hyd!Content
    <2>3. new.etag = rows[n].etag /\ new.version = rows[n].version
      BY <2>1
    <2> HIDE DEF new
    <2>4. \A q \in Players, m \in Names : read'[q][m] = IF q = p /\ m = n THEN new ELSE read[q][m]
      BY <1>2 DEF Hyd!TypeOK, new
    <2>5. Hyd!TypeOK'
      BY <1>2, <2>2 DEF Hyd!TypeOK, new
    <2>6. Counted'
      BY <1>2, <2>1, <2>4 DEF Counted
    <2>7. RowFollows'
      BY <1>2 DEF RowFollows, Hyd!Exists
    <2>8. rows[n].etag \in Nat
      BY DEF Hyd!TypeOK, Hyd!Content
    <2>9. ReadsFollow'
      BY <1>2, <2>3, <2>4, <2>8 DEF ReadsFollow
    <2> QED  BY <2>5, <2>6, <2>7, <2>9
  <1> QED  BY <1>1, <1>2 DEF Hyd!GetContent

\* A content that is there is changed, or found expired.
LEMMA TransformContentStep ==
  ASSUME HydroPremise, HydroInv, NEW p \in Players, NEW n \in Names, NEW etag,
         Hyd!TransformContent(p, n, etag)
  PROVE  HydroInv'
  <1>1. CASE Hyd!Dropped(n) /\ UNCHANGED <<late, used, read>>
    BY <1>1, DroppedStep
  <1>2. CASE Hyd!MayChange(p, n, etag) /\ Hyd!Changed(n, contents[n]) /\ UNCHANGED <<late, used, read>>
    <2>1. Hyd!Exists(n) /\ contents[n] # Hyd!Gone /\ contents[n] \in Hyd!Content
      BY <1>2 DEF Hyd!MayChange, Hyd!Live, Hyd!Exists, HydroInv, Hyd!TypeOK
    <2>2. n \in used
      BY <2>1 DEF HydroInv, Counted, RowFollows
    <2>3. used' = used \cup {n}
      BY <1>2, <2>2
    <2> QED  BY <1>2, <2>1, <2>3, ContentPut
  <1> QED  BY <1>1, <1>2 DEF Hyd!TransformContent

\* The owner deletes a content, or it is found expired.
LEMMA DeleteContentStep ==
  ASSUME HydroPremise, HydroInv, NEW p \in Players, NEW n \in Names, NEW etag,
         Hyd!DeleteContent(p, n, etag)
  PROVE  HydroInv'
  <1>1. CASE Hyd!Dropped(n) /\ UNCHANGED <<late, used, read>>
    BY <1>1, DroppedStep
  <1>2. CASE Hyd!MayChange(p, n, etag) /\ Hyd!Changed(n, Hyd!Gone) /\ UNCHANGED <<late, used, read>>
    <2> USE DEF HydroPremise, HydroInv
    <2>1. n \in used
      BY <1>2 DEF Hyd!MayChange, Hyd!Live, Hyd!Exists, Counted, RowFollows
    <2>2. /\ version < MaxVersion /\ version' = version + 1
          /\ rev' = [rev EXCEPT ![n] = @ + 1]
          /\ contents' = [contents EXCEPT ![n] = Hyd!Gone]
          /\ UNCHANGED <<late, used, read>>
      BY <1>2 DEF Hyd!Changed
    <2>3. rows' \in {rows, [rows EXCEPT ![n] = Hyd!Gone]}
      BY <1>2, <2>2 DEF Hyd!Changed, Hyd!Store, Hyd!TypeOK
    <2>4. /\ rev[n] \in 0 .. MaxVersion /\ version \in 0 .. MaxVersion /\ rev[n] <= version
          /\ MaxVersion \in Nat
      BY DEF Hyd!TypeOK, Counted, Hyd!HydroAssumption
    <2>5. /\ rev' \in [Names -> 0 .. MaxVersion] /\ \A m \in Names \ {n} : rev'[m] = rev[m]
          /\ rev'[n] = rev[n] + 1
      BY <2>2, <2>4 DEF Hyd!TypeOK
    <2>6. version' \in 0 .. MaxVersion /\ version <= version' /\ rev'[n] <= version'
      BY <2>2, <2>4, <2>5
    <2>7. channel' \in [Watchers -> {Hyd!Closed} \cup Seq(Names)]
      BY <1>2 DEF Hyd!Changed, Hyd!TypeOK
    <2> QED  BY <2>1, <2>2, <2>3, <2>5, <2>6, <2>7, ContentGone
  <1> QED  BY <1>1, <1>2 DEF Hyd!DeleteContent

\* The eraser: what is gone from memory is out of every promise, and a row that
\* stays is as the readers know it.
LEMMA EraseUserStep ==
  ASSUME HydroPremise, HydroInv, NEW p \in Players, Hyd!EraseUser(p)
  PROVE  HydroInv'
  <1> USE DEF HydroPremise, HydroInv
  <1>0. /\ Hyd!Gone \in Hyd!Content /\ Hyd!Gone.etag = 0 /\ MaxVersion \in Nat
        /\ version \in 0 .. MaxVersion
    BY DEF Hyd!Gone, Hyd!Content, Hyd!HydroAssumption, Hyd!TypeOK
  <1>1. /\ contents' \in [Names -> Hyd!Content] /\ rows' \in [Names -> Hyd!Content]
        /\ rev' \in [Names -> 0 .. MaxVersion]
        /\ UNCHANGED <<late, used, version, read, channel>>
    BY <1>0 DEF Hyd!EraseUser, Hyd!TypeOK
  <1>2. \A m \in Names :
          \/ contents'[m] = Hyd!Gone /\ rows'[m] \in {rows[m], Hyd!Gone} /\ rev'[m] = 0
          \/ contents'[m] = contents[m] /\ rows'[m] = rows[m] /\ rev'[m] = rev[m]
    BY DEF Hyd!EraseUser
  <1>3. Hyd!TypeOK'
    BY <1>1 DEF Hyd!TypeOK
  <1>4. Counted'
    <2>1. ASSUME NEW m \in Names PROVE rev'[m] <= version' /\ rows'[m].etag <= version'
      <3>1. rev[m] <= version /\ rows[m].etag <= version
        BY DEF Counted
      <3>2. rev'[m] = rev[m] \/ rev'[m] = 0
        BY <1>2
      <3>3. rows'[m].etag = rows[m].etag \/ rows'[m].etag = 0
        BY <1>0, <1>2
      <3> QED  BY <1>0, <1>1, <3>1, <3>2, <3>3
    <2>2. \A m \in Names \ used : rows'[m] = Hyd!Gone
      BY <1>2 DEF Counted
    <2> QED  BY <1>1, <2>1, <2>2 DEF Counted
  <1>5. RowFollows'
    BY <1>2 DEF RowFollows, Hyd!Exists
  <1>6. ReadsFollow'
    BY <1>1, <1>2 DEF ReadsFollow
  <1> QED  BY <1>3, <1>4, <1>5, <1>6

\* A new process has every row, and counts on from its etag.
LEMMA HydroRestartStep ==
  ASSUME HydroPremise, HydroInv, Hyd!Restart
  PROVE  HydroInv'
  <1> USE DEF HydroInv
  <1>1. PICK lost \in SUBSET Names :
          /\ contents' = [n \in Names |-> IF n \in lost THEN Hyd!Gone ELSE rows[n]]
          /\ rev' = [n \in Names |-> IF n \in lost THEN 0 ELSE Hyd!Loaded[n]]
          /\ channel' = [w \in Watchers |-> Hyd!Closed] /\ UNCHANGED <<rows, late, used, version, read>>
    BY DEF Hyd!Restart
  <1>0. \A n \in Names : Hyd!Loaded[n] = rows[n].etag
    BY DEF Hyd!Loaded
  <1> USE <1>0
  <1>2. Hyd!TypeOK'
    <2>0. Hyd!Gone \in Hyd!Content /\ 0 \in 0 .. MaxVersion
      BY DEF HydroPremise, Hyd!Gone, Hyd!Content, Hyd!HydroAssumption
    <2>1. rev' \in [Names -> 0 .. MaxVersion] /\ contents' \in [Names -> Hyd!Content]
      BY <1>1, <2>0 DEF Hyd!TypeOK, Hyd!Content
    <2> QED  BY <1>1, <2>1 DEF Hyd!TypeOK
  <1>3. Counted'
    BY <1>1 DEF Counted, Hyd!TypeOK
  <1>4. RowFollows'
    BY <1>1 DEF RowFollows, Hyd!Exists
  <1>5. ReadsFollow'
    BY <1>1 DEF ReadsFollow
  <1> QED  BY <1>2, <1>3, <1>4, <1>5

\* The steps that touch neither a content nor its row.
LEMMA QuietStep ==
  ASSUME HydroPremise, HydroInv,
         \/ \E n \in Names : Hyd!Pass(n)
         \/ \E w \in Watchers : Hyd!TrackContent(w) \/ Hyd!Notice(w) \/ Hyd!HangUp(w)
         \/ UNCHANGED Hyd!vars
  PROVE  HydroInv'
  <1> USE DEF HydroInv
  <1>1. UNCHANGED <<contents, rev, rows, used, version, read>>
    BY DEF Hyd!Pass, Hyd!TrackContent, Hyd!Notice, Hyd!HangUp, Hyd!vars
  <1>2. late' \subseteq used'
    BY DEF Hyd!TypeOK, Hyd!Pass, Hyd!TrackContent, Hyd!Notice, Hyd!HangUp, Hyd!vars
  <1>3. channel' \in [Watchers -> {Hyd!Closed} \cup Seq(Names)]
    <2>1. ASSUME NEW n \in Names, Hyd!Pass(n) PROVE channel' = channel
      BY <2>1 DEF Hyd!Pass
    <2>2. ASSUME NEW w \in Watchers, Hyd!TrackContent(w) \/ Hyd!HangUp(w)
          PROVE  channel' \in [Watchers -> {Hyd!Closed} \cup Seq(Names)]
      <3>1. channel \in [Watchers -> {Hyd!Closed} \cup Seq(Names)]
        BY DEF Hyd!TypeOK
      <3>2. <<>> \in Seq(Names)
        OBVIOUS
      <3>3. channel' = [channel EXCEPT ![w] = <<>>] \/ channel' = [channel EXCEPT ![w] = Hyd!Closed]
        BY <2>2 DEF Hyd!TrackContent, Hyd!HangUp
      <3> QED  BY <3>1, <3>2, <3>3
    <2>3. ASSUME NEW w \in Watchers, Hyd!Notice(w)
          PROVE  channel' \in [Watchers -> {Hyd!Closed} \cup Seq(Names)]
      <3>1. channel[w] \in Seq(Names) /\ channel[w] # <<>>
        BY <2>3 DEF Hyd!Notice, Hyd!TypeOK
      <3>2. Tail(channel[w]) \in Seq(Names)
        BY <3>1
      <3> QED  BY <2>3, <3>2 DEF Hyd!Notice, Hyd!TypeOK
    <2> QED  BY <2>1, <2>2, <2>3 DEF Hyd!TypeOK, Hyd!vars
  <1>4. Hyd!TypeOK'
    BY <1>1, <1>2, <1>3 DEF Hyd!TypeOK
  <1>5. Counted' /\ RowFollows' /\ ReadsFollow'
    BY <1>1 DEF Counted, RowFollows, ReadsFollow, Hyd!Exists
  <1> QED  BY <1>4, <1>5

\* hydro.go, while the database takes every put: what a player read stays older
\* than the row, or is the row.
THEOREM HydroInvariance == ASSUME HydroPremise PROVE Hyd!Spec => []HydroInv
  <1>1. ASSUME Hyd!Init PROVE HydroInv
    <2>1. \A n \in Names : contents[n] = Hyd!Gone /\ rows[n] = Hyd!Gone /\ rev[n] = 0
      BY <1>1 DEF Hyd!Init
    <2>2. \A p \in Players, n \in Names : read[p][n] = Hyd!NotRead
      BY <1>1 DEF Hyd!Init
    <2>3. Hyd!TypeOK
      <3>0. MaxVersion \in Nat /\ 0 \in 0 .. MaxVersion
        BY DEF HydroPremise, Hyd!HydroAssumption
      <3>5. Hyd!Gone \in Hyd!Content
        BY <3>0 DEF Hyd!Gone, Hyd!Content
      <3>1. Hyd!NotRead \in [etag : 0 .. MaxVersion, version : 0 .. MaxVersion]
        BY <3>0 DEF Hyd!NotRead
      <3>2. contents \in [Names -> Hyd!Content] /\ rows \in [Names -> Hyd!Content]
        BY <1>1, <3>5 DEF Hyd!Init
      <3>3. read \in [Players -> [Names -> [etag : 0 .. MaxVersion, version : 0 .. MaxVersion]]]
        BY <1>1, <3>1 DEF Hyd!Init
      <3>4. /\ rev \in [Names -> 0 .. MaxVersion] /\ late \subseteq used /\ used \subseteq Names
            /\ version \in 0 .. MaxVersion /\ channel \in [Watchers -> {Hyd!Closed} \cup Seq(Names)]
        BY <1>1, <3>0 DEF Hyd!Init
      <3> QED  BY <3>2, <3>3, <3>4 DEF Hyd!TypeOK
    <2>4. Counted
      BY <1>1, <2>1, <2>2 DEF Hyd!Init, Counted, Hyd!Gone
    <2> QED  BY <2>1, <2>3, <2>4 DEF HydroInv, RowFollows, ReadsFollow, Hyd!Exists
  <1>2. ASSUME HydroInv, [Hyd!Next]_(Hyd!vars) PROVE HydroInv'
    <2>1. ASSUME NEW p \in Players, NEW n \in Names,
                 \/ \E shared \in BOOLEAN : Hyd!CreateContent(p, n, shared)
                 \/ Hyd!GetContent(p, n)
                 \/ \E etag \in {0, read[p][n].etag} :
                      Hyd!TransformContent(p, n, etag) \/ Hyd!DeleteContent(p, n, etag)
          PROVE  HydroInv'
      BY <1>2, <2>1, CreateContentStep, GetContentStep, TransformContentStep, DeleteContentStep
    <2>2. ASSUME \/ \E n \in Names : Hyd!Pass(n)
                 \/ \E w \in Watchers : Hyd!TrackContent(w) \/ Hyd!Notice(w) \/ Hyd!HangUp(w)
                 \/ UNCHANGED Hyd!vars
          PROVE  HydroInv'
      BY <1>2, <2>2, QuietStep
    <2>3. ASSUME NEW p \in Players, Hyd!EraseUser(p) PROVE HydroInv'
      BY <1>2, <2>3, EraseUserStep
    <2>4. CASE Hyd!Restart
      BY <1>2, <2>4, HydroRestartStep
    <2> QED  BY <1>2, <2>1, <2>2, <2>3, <2>4 DEF Hyd!Next
  <1> QED  BY <1>1, <1>2, PTL DEF Hyd!Spec

\* EtagGuards (hydro.go, change): an etag that still matches is the etag of the
\* content that was read, over changes, expiries, deletions and restarts, as
\* long as no put fails.
THEOREM EtagsGuard == ASSUME HydroPremise PROVE Hyd!Spec => []EtagGuards
  <1>1. ASSUME HydroInv PROVE EtagGuards
    BY <1>1 DEF HydroInv, RowFollows, ReadsFollow, EtagGuards, Hyd!EtagGuards, Hyd!Live, Hyd!Exists
  <1> QED  BY <1>1, HydroInvariance, PTL
-----------------------------------------------------------------------------
(* Rewards                                                                 *)

\* A session of an earlier process has nobody in it, and a pair that was
\* reported is on record or can never be seen again.
Recorded ==
  /\ \A g \in ended : members[g] = {}
  /\ \A k \in Rew!Pairs :
       /\ events[k] <= 1
       /\ events[k] = 1 => k \in counted \/ k[1] \in ended
       /\ k \in todo => events[k] = 0

\* The history of looks is as long as the minimum asks.
LooksBounded == Len(looks) <= MinLooks + 1

\* The time a pair has is the number of unbroken looks that saw it ...
TimeEarned ==
  \A k \in DOMAIN since : since[k] < Len(looks) /\ \A i \in 1 .. since[k] + 1 : k \in looks[i]

\* ... and what is due was seen at all of them.
DueEarned ==
  \A k \in todo : Len(looks) = MinLooks + 1 /\ \A i \in 1 .. MinLooks + 1 : k \in looks[i]

RewInv == Rew!TypeOK /\ Recorded /\ LooksBounded /\ TimeEarned /\ DueEarned

\* A look before the old ones, of which the newest MinLooks stay.
LooksAfter(seen, old) ==
  SubSeq(<<seen>> \o old, 1, IF Len(old) > MinLooks THEN MinLooks + 1 ELSE Len(old) + 1)

\* The newest look comes first, and the oldest goes when there are enough.
LEMMA LooksShift ==
  ASSUME Rew!RewardsAssumption, NEW old \in Seq(SUBSET Rew!Pairs), Len(old) <= MinLooks + 1,
         NEW seen \in SUBSET Rew!Pairs
  PROVE  /\ LooksAfter(seen, old) \in Seq(SUBSET Rew!Pairs)
         /\ Len(LooksAfter(seen, old)) = IF Len(old) > MinLooks THEN MinLooks + 1 ELSE Len(old) + 1
         /\ LooksAfter(seen, old)[1] = seen
         /\ \A i \in 2 .. Len(LooksAfter(seen, old)) : LooksAfter(seen, old)[i] = old[i - 1]
  <1> DEFINE new == LooksAfter(seen, old)
             all == <<seen>> \o old
             n == IF Len(old) > MinLooks THEN MinLooks + 1 ELSE Len(old) + 1
  <1>1. MinLooks \in Nat /\ Len(old) \in Nat
    BY DEF Rew!RewardsAssumption
  <1>2. /\ all \in Seq(SUBSET Rew!Pairs) /\ Len(all) = Len(old) + 1
        /\ all[1] = seen /\ \A i \in 2 .. Len(all) : all[i] = old[i - 1]
    OBVIOUS
  <1>3. n \in 1 .. Len(old) + 1
    BY <1>1
  <1> HIDE DEF new, all, n
  <1>4. new = SubSeq(all, 1, n)
    BY DEF new, all, n, LooksAfter
  <1>5. new \in Seq(SUBSET Rew!Pairs) /\ Len(new) = n /\ \A i \in 1 .. n : new[i] = all[i]
    BY <1>1, <1>2, <1>3, <1>4
  <1> QED  BY <1>1, <1>2, <1>3, <1>5 DEF new, n

\* A look: the pairs seen lengthen their time by it, and those that reach the
\* minimum are due.
LEMMA TickStep ==
  ASSUME Rew!RewardsAssumption, RewInv, Rew!Tick
  PROVE  RewInv'
  <1> USE DEF RewInv
  <1>1. Rew!Seen \subseteq Rew!Pairs /\ \A k \in Rew!Seen : members[k[1]] # {}
    BY DEF Rew!Seen
  <1>2. /\ since' = Rew!SinceNow(Rew!Seen)
        /\ todo' = {k \in Rew!Seen \ (emitted \cup counted) : since'[k] = MinLooks}
        /\ emitted' = (emitted \cup todo') \cap Rew!Seen
        /\ UNCHANGED <<members, ended, known, counted, marking, marked, forgetting, restarts, events>>
    BY DEF Rew!Tick, Rew!Due
  <1>3. /\ looks' \in Seq(SUBSET Rew!Pairs)
        /\ Len(looks') = IF Len(looks) > MinLooks THEN MinLooks + 1 ELSE Len(looks) + 1
        /\ looks'[1] = Rew!Seen
        /\ \A i \in 2 .. Len(looks') : looks'[i] = looks[i - 1]
    <2>1. looks \in Seq(SUBSET Rew!Pairs) /\ Len(looks) <= MinLooks + 1 /\ Rew!Seen \in SUBSET Rew!Pairs
      BY <1>1 DEF Rew!TypeOK, LooksBounded
    <2>2. looks' = LooksAfter(Rew!Seen, looks)
      BY DEF Rew!Tick, LooksAfter
    <2> QED  BY ONLY Rew!RewardsAssumption, <2>1, <2>2, LooksShift
  <1>4. MinLooks \in Nat \ {0} /\ Len(looks) \in Nat /\ Len(looks) <= MinLooks + 1
    BY DEF Rew!RewardsAssumption, Rew!TypeOK, LooksBounded
  <1>5. DOMAIN since' = Rew!Seen
    BY <1>2 DEF Rew!SinceNow
  <1>6. ASSUME NEW k \in Rew!Seen
        PROVE  /\ since'[k] \in 0 .. MinLooks
               /\ since'[k] < Len(looks') /\ \A i \in 1 .. since'[k] + 1 : k \in looks'[i]
    <2>1. CASE k \notin DOMAIN since
      <3>1. since'[k] = 0
        BY <1>2, <2>1 DEF Rew!SinceNow
      <3> QED  BY <1>3, <1>4, <3>1
    <2>2. CASE k \in DOMAIN since
      <3>1. since[k] \in 0 .. MinLooks /\ since[k] < Len(looks) /\ \A i \in 1 .. since[k] + 1 : k \in looks[i]
        BY <2>2 DEF TimeEarned, Rew!TypeOK
      <3>2. since'[k] = IF since[k] < MinLooks THEN since[k] + 1 ELSE MinLooks
        BY <1>2, <2>2 DEF Rew!SinceNow
      <3>3. since'[k] \in 0 .. MinLooks /\ since'[k] <= since[k] + 1 /\ since'[k] < Len(looks')
        BY <1>3, <1>4, <3>1, <3>2
      <3>4. ASSUME NEW i \in 1 .. since'[k] + 1 PROVE k \in looks'[i]
        <4>1. CASE i = 1
          BY <1>3, <4>1
        <4>2. CASE i # 1
          <5>1. i \in 2 .. Len(looks') /\ i - 1 \in 1 .. since[k] + 1
            BY <1>3, <1>4, <3>1, <3>3, <4>2
          <5> QED  BY <1>3, <3>1, <5>1
        <4> QED  BY <4>1, <4>2
      <3> QED  BY <3>3, <3>4
    <2> QED  BY <2>1, <2>2
  <1>7. Rew!TypeOK'
    <2>1. DOMAIN since' \subseteq Rew!Pairs /\ \A k \in DOMAIN since' : since'[k] \in 0 .. MinLooks
      BY <1>1, <1>5, <1>6
    <2>2. emitted' \subseteq Rew!Pairs /\ todo' \subseteq emitted'
      BY <1>1, <1>2
    <2> QED  BY <1>2, <1>3, <2>1, <2>2 DEF Rew!TypeOK
  <1>8. Recorded'
    <2> SUFFICES ASSUME NEW k \in Rew!Pairs PROVE k \in todo' => events[k] = 0
      BY <1>2 DEF Recorded
    <2>1. k \in todo' => k \notin counted /\ k[1] \notin ended
      BY <1>1, <1>2 DEF Recorded
    <2>2. events[k] \in Nat /\ events[k] <= 1
      BY DEF Rew!TypeOK, Recorded
    <2> QED  BY <2>1, <2>2 DEF Recorded
  <1>9. LooksBounded'
    BY <1>3, <1>4 DEF LooksBounded
  <1>10. TimeEarned'
    BY <1>5, <1>6 DEF TimeEarned
  <1>11. DueEarned'
    <2> SUFFICES ASSUME NEW k \in todo'
                 PROVE  Len(looks') = MinLooks + 1 /\ \A i \in 1 .. MinLooks + 1 : k \in looks'[i]
      BY DEF DueEarned
    <2>1. k \in Rew!Seen /\ since'[k] = MinLooks
      BY <1>2
    <2> QED  BY <1>3, <1>4, <1>6, <2>1
  <1> QED  BY <1>7, <1>8, <1>9, <1>10, <1>11

\* The end of one pair of the look: it is on record when its event was sent.
LEMMA ReportStep ==
  ASSUME RewInv, NEW k \in Rew!Pairs, Rew!Report(k)
  PROVE  RewInv'
  <1> USE DEF RewInv, Rew!Report
  <1>1. events[k] = 0 /\ k \in emitted
    BY DEF Recorded, Rew!TypeOK
  <1>2. /\ todo' = todo \ {k}
        /\ \/ events' = [events EXCEPT ![k] = 1] /\ counted' = counted \cup {k} /\ marking' = k /\ emitted' = emitted
           \/ UNCHANGED <<events, counted, marking>> /\ emitted' = emitted \ {k}
        /\ UNCHANGED <<members, ended, known, since, marked, forgetting, restarts, looks>>
    BY <1>1 DEF Rew!Retry
  <1>3. Rew!TypeOK'
    BY <1>2 DEF Rew!TypeOK
  <1>4. Recorded'
    BY <1>2 DEF Recorded, Rew!TypeOK
  <1>5. LooksBounded' /\ TimeEarned' /\ DueEarned'
    BY <1>2 DEF LooksBounded, TimeEarned, DueEarned
  <1> QED  BY <1>3, <1>4, <1>5

\* The process ends: the sessions of what was counted end with it.
LEMMA RewRestartStep ==
  ASSUME Rew!RewardsAssumption, RewInv, Rew!Restart
  PROVE  RewInv'
  <1> USE DEF RewInv, Rew!Restart, Rew!NoClock
  <1>1. Rew!TypeOK'
    <2>1. members' \in [Sessions -> SUBSET Players]
      OBVIOUS
    <2>2. ended' \subseteq Sessions
      BY DEF Rew!TypeOK, Rew!Pairs
    <2>3. restarts' \in 0 .. MaxRestarts
      BY DEF Rew!TypeOK, Rew!RewardsAssumption
    <2>4. DOMAIN since' = {}
      OBVIOUS
    <2>5. /\ known' \subseteq Players /\ emitted' \subseteq Rew!Pairs /\ counted' \subseteq Rew!Pairs
          /\ todo' \subseteq emitted' /\ marking' \in {NoPair} \cup Rew!Pairs /\ marked' \subseteq Rew!Pairs
          /\ events' \in [Rew!Pairs -> Nat] /\ looks' \in Seq(SUBSET Rew!Pairs)
      BY DEF Rew!TypeOK
    <2> QED  BY <2>1, <2>2, <2>3, <2>4, <2>5 DEF Rew!TypeOK
  <1>2. Recorded'
    <2>1. \A g \in ended' : members'[g] = {}
      BY <1>1 DEF Rew!TypeOK
    <2>2. \A k \in Rew!Pairs : events'[k] = 1 => k[1] \in ended'
      BY DEF Recorded
    <2> QED  BY <2>1, <2>2 DEF Recorded
  <1>3. LooksBounded' /\ TimeEarned' /\ DueEarned'
    BY DEF LooksBounded, TimeEarned, DueEarned, Rew!RewardsAssumption
  <1> QED  BY <1>1, <1>2, <1>3

\* The players and the store come and go beside the clock; nobody joins what
\* has ended.
LEMMA PlayersStep ==
  ASSUME RewInv,
         \/ \E g \in Sessions, u \in Players : Rew!Join(g, u) \/ Rew!Leave(g, u)
         \/ \E u \in Players : Rew!Learn(u) \/ Rew!Erase(u)
         \/ Rew!Mark \/ Rew!Forget \/ UNCHANGED Rew!vars
  PROVE  RewInv'
  <1> USE DEF RewInv
  <1>1. /\ UNCHANGED <<ended, since, emitted, counted, todo, restarts, events, looks>>
        /\ marking' \in {marking, NoPair}
    BY DEF Rew!Join, Rew!Leave, Rew!Learn, Rew!Erase, Rew!Mark, Rew!Forget, Rew!vars, Rew!clock
  <1>2. members' \in [Sessions -> SUBSET Players] /\ \A g \in ended : members'[g] = {}
    BY DEF Rew!TypeOK, Recorded, Rew!Join, Rew!Leave, Rew!Learn, Rew!Erase, Rew!Mark, Rew!Forget, Rew!vars
  <1>3. known' \subseteq Players
    BY DEF Rew!TypeOK, Rew!Join, Rew!Leave, Rew!Learn, Rew!Erase, Rew!Mark, Rew!Forget, Rew!vars
  <1>4. marked' \subseteq Rew!Pairs /\ forgetting' \in {NoPair} \cup SUBSET Rew!Pairs
    BY DEF Rew!TypeOK, Rew!Join, Rew!Leave, Rew!Learn, Rew!Erase, Rew!Mark, Rew!Forget, Rew!vars
  <1>5. Rew!TypeOK'
    BY <1>1, <1>2, <1>3, <1>4 DEF Rew!TypeOK
  <1>6. Recorded'
    BY <1>1, <1>2 DEF Recorded
  <1>7. LooksBounded' /\ TimeEarned' /\ DueEarned'
    BY <1>1 DEF LooksBounded, TimeEarned, DueEarned
  <1> QED  BY <1>5, <1>6, <1>7

\* rewards.go and counted.go: what is on record, and what the looks saw.
THEOREM RewardsInvariance == ASSUME Rew!RewardsAssumption PROVE Rew!Spec => []RewInv
  <1>1. ASSUME Rew!Init PROVE RewInv
    <2> USE <1>1 DEF Rew!Init
    <2>1. Rew!TypeOK
      BY DEF Rew!TypeOK, Rew!RewardsAssumption
    <2>2. Recorded /\ LooksBounded /\ TimeEarned /\ DueEarned
      BY DEF Recorded, LooksBounded, TimeEarned, DueEarned, Rew!RewardsAssumption
    <2> QED  BY <2>1, <2>2 DEF RewInv
  <1>2. ASSUME RewInv, [Rew!Next]_(Rew!vars) PROVE RewInv'
    <2>1. CASE \/ \E g \in Sessions, u \in Players : Rew!Join(g, u) \/ Rew!Leave(g, u)
               \/ \E u \in Players : Rew!Learn(u) \/ Rew!Erase(u)
               \/ Rew!Mark \/ Rew!Forget \/ UNCHANGED Rew!vars
      BY <1>2, <2>1, PlayersStep
    <2>2. CASE Rew!Tick
      BY <1>2, <2>2, TickStep
    <2>3. CASE Rew!Restart
      BY <1>2, <2>3, RewRestartStep
    <2>4. ASSUME NEW k \in Rew!Pairs, Rew!Report(k) PROVE RewInv'
      BY <1>2, <2>4, ReportStep
    <2> QED  BY <1>2, <2>1, <2>2, <2>3, <2>4 DEF Rew!Next
  <1> QED  BY <1>1, <1>2, PTL DEF Rew!Spec

\* ReportedOnce (rewards.go): one event per session and player, whatever was
\* retried, forgotten or restarted.
THEOREM OneEvent == ASSUME Rew!RewardsAssumption PROVE Rew!Spec => []ReportedOnce
  <1>1. ASSUME RewInv PROVE ReportedOnce
    BY <1>1 DEF RewInv, Recorded, ReportedOnce, Rew!ReportedOnce
  <1> QED  BY <1>1, RewardsInvariance, PTL

\* ReportEarned (rewards.go, tick): who is reported was in every look of the
\* minimum time.
THEOREM EventsEarned == ASSUME Rew!RewardsAssumption PROVE Rew!Spec => ReportEarned
  <1> DEFINE Earned(k) == Len(looks) = MinLooks + 1 /\ \A i \in 1 .. MinLooks + 1 : k \in looks[i]
             Step == \A k \in Rew!Pairs : events'[k] > events[k] => Earned(k)
  <1>1. ASSUME RewInv, [Rew!Next]_(Rew!vars) PROVE [Step]_(Rew!vars)
    <2>1. ASSUME NEW k \in Rew!Pairs, events'[k] > events[k] PROVE Earned(k)
      <3>1. events[k] \in Nat
        BY <1>1 DEF RewInv, Rew!TypeOK
      <3>2. events' # events
        BY <2>1, <3>1
      <3>3. PICK j \in Rew!Pairs : Rew!Report(j)
        BY <1>1, <3>2 DEF Rew!Next, Rew!vars, Rew!Join, Rew!Leave, Rew!Learn, Rew!Erase, Rew!Tick, Rew!Mark,
                          Rew!Forget, Rew!Restart
      <3>4. k \in todo
        BY <1>1, <2>1, <3>1, <3>3 DEF Rew!Report, RewInv, Rew!TypeOK
      <3> QED  BY <1>1, <3>4 DEF RewInv, DueEarned
    <2> QED  BY <2>1
  <1> QED  BY <1>1, RewardsInvariance, PTL DEF Rew!Spec, ReportEarned, Rew!ReportEarned

-----------------------------------------------------------------------------
(* Functions of the steps done so far                                      *)

\* Every set of numbers that is not empty has a least one.
LEMMA LeastNumber ==
  ASSUME NEW T \in SUBSET Nat, T # {}
  PROVE  \E n \in T : \A m \in T : n <= m
  <1>1. PICK n \in T : \A m \in T : <<m, n>> \notin OpToRel(<, Nat)
    BY NatLessThanWellFounded, WFMin
  <1>2. \A m \in T : ~ (m < n)
    BY <1>1, Zenon DEF OpToRel
  <1> QED  BY <1>2

\* What holds at the start and is kept by every step holds after each.
LEMMA UpTo ==
  ASSUME NEW n \in Nat, NEW G, 0 \in G, \A i \in 1 .. n : i - 1 \in G => i \in G
  PROVE  \A i \in 0 .. n : i \in G
  <1> DEFINE T == {i \in 0 .. n : i \notin G}
  <1>1. SUFFICES ASSUME T # {} PROVE FALSE
    OBVIOUS
  <1>2. T \in SUBSET Nat
    OBVIOUS
  <1>3. PICK i \in T : \A m \in T : i <= m
    BY <1>1, <1>2, LeastNumber
  <1>4. i \in 1 .. n /\ i - 1 \in 0 .. n /\ ~ (i <= i - 1)
    BY <1>3
  <1>5. i - 1 \notin T
    BY <1>3, <1>4
  <1> QED  BY <1>3, <1>4, <1>5

\* What starts in a set and does not leave it in any step is in it after each.
LEMMA StepsStay ==
  ASSUME NEW n \in Nat, NEW S, NEW g, g[0] \in S, \A i \in 1 .. n : g[i - 1] \in S => g[i] \in S
  PROVE  \A i \in 0 .. n : g[i] \in S
  <1> DEFINE G == {i \in 0 .. n : g[i] \in S}
  <1>1. 0 \in G /\ \A i \in 1 .. n : i - 1 \in G => i \in G
    OBVIOUS
  <1>2. \A i \in 0 .. n : i \in G
    <2> HIDE DEF G
    <2> QED  BY <1>1, UpTo
  <1> QED  BY <1>2

\* What there is after each of n steps.
Runs(g, n, F, base) == g = [i \in 0 .. n |-> IF i = 0 THEN base ELSE F[i][g[i - 1]]]

\* The steps of a function can be done one after the other.
LEMMA StepsExist ==
  ASSUME NEW n \in Nat, NEW F, NEW start
  PROVE  \E g : Runs(g, n, F, start)
  <1> DEFINE Does(g, m) == g = [i \in 0 .. m |-> IF i = 0 THEN start ELSE F[i][g[i - 1]]]
             T == {m \in Nat : ~ \E g : Does(g, m)}
  <1>1. SUFFICES ASSUME T # {} PROVE FALSE
    BY DEF Runs
  <1>2. T \in SUBSET Nat
    OBVIOUS
  <1>3. PICK m \in T : \A k \in T : m <= k
    <2> HIDE DEF T
    <2> QED  BY <1>1, <1>2, LeastNumber
  <1>4. CASE m = 0
    <2>1. Does([i \in 0 .. 0 |-> start], 0)
      OBVIOUS
    <2> QED  BY <1>3, <1>4, <2>1
  <1>5. CASE m # 0
    <2>0. m \in Nat
      BY <1>3
    <2>1. m - 1 \in Nat /\ m - 1 \notin T
      <3> HIDE DEF T
      <3> QED  BY <1>3, <1>5, <2>0
    <2>2. PICK g : Does(g, m - 1)
      BY <2>1
    <2> DEFINE more == [i \in 0 .. m |-> IF i = m THEN F[m][g[m - 1]] ELSE g[i]]
    <2>3. ASSUME NEW i \in 0 .. m PROVE more[i] = IF i = 0 THEN start ELSE F[i][more[i - 1]]
      <3>1. CASE i = m
        BY <1>3, <1>5, <3>1
      <3>2. CASE i # m
        <4>1. i \in 0 .. m - 1 /\ more[i] = g[i] /\ (i # 0 => i - 1 \in 0 .. m - 1 /\ more[i - 1] = g[i - 1])
          BY <1>3, <3>2
        <4>2. g[i] = IF i = 0 THEN start ELSE F[i][g[i - 1]]
          BY <2>2, <4>1
        <4> QED  BY <4>1, <4>2
      <3> QED  BY <3>1, <3>2
    <2>4. Does(more, m)
      BY <2>3
    <2> QED  BY <1>3, <2>4
  <1> QED  BY <1>4, <1>5 DEF Runs

-----------------------------------------------------------------------------
(* Routing: regions by their distance                                      *)

\* The first n of a list.
Firsts(s, n) == {s[k] : k \in 1 .. n}

\* The start, and the fallbacks of some regions.
From(start, some) == Range(start) \union UNION {Range(Fallback[r]) : r \in some}

\* One turn of Chain's loop.
Turn(i, st) ==
  IF i > Len(st.queue) \/ st.queue[i] \in Range(st.out) THEN st
  ELSE [queue |-> st.queue \o Fallback[st.queue[i]], out |-> Append(st.out, st.queue[i])]

Walks == [queue : Seq(Regions), out : Seq(Regions)]

Longest == Max({Len(Fallback[r]) : r \in Regions})

\* There are finitely many regions, and a longest list of fallbacks.
LEMMA RegionsFinite ==
  IsFiniteSet(Regions) /\ Far \in Nat /\ Regions # {}
  <1>1. Order \in Seq(Regions) /\ Len(Order) \in Nat
    BY RoutingAssumption
  <1>2. Order \in [1 .. Len(Order) -> Regions]
    BY <1>1
  <1>3. \A r \in Regions : \E i \in 1 .. Len(Order) : Order[i] = r
    BY <1>2 DEF Regions, Range
  <1>4. IsFiniteSet(1 .. Len(Order)) /\ Order \in Surjection(1 .. Len(Order), Regions)
    <2>1. Order \in Surjection(1 .. Len(Order), Regions)
      BY <1>2, <1>3 DEF Surjection
    <2>2. 1 \in Int /\ Len(Order) \in Int
      BY <1>1
    <2> HIDE DEF Regions
    <2> QED  BY <2>1, <2>2, FS_Interval
  <1>5. IsFiniteSet(Regions)
    BY <1>4, FS_Surjection
  <1>6. Home \in Regions
    BY RoutingAssumption
  <1> QED  BY <1>5, <1>6, FS_CardinalityType DEF Far

\* Some number bounds the fallbacks of every region.
LEMMA LongestBounds ==
  Longest \in Nat /\ \A r \in Regions : Len(Fallback[r]) <= Longest
  <1> DEFINE F == [r \in Regions |-> Len(Fallback[r])]
             L == {F[r] : r \in Regions}
             N == Len(Order)
             G == [i \in 1 .. N |-> F[Order[i]]]
             Bounded == {k \in 0 .. N : \E m \in Nat : \A i \in 1 .. k : G[i] <= m}
             Bounds == {m \in Nat : \A x \in L : x <= m}
  <1>1. Order \in Seq(Regions) /\ Fallback \in [Regions -> Seq(Regions)] /\ Regions # {}
    BY RegionsFinite, RoutingAssumption
  <1>2. N \in Nat /\ Order \in [1 .. N -> Regions]
    BY <1>1
  <1>3. \A r \in Regions : \E i \in 1 .. N : Order[i] = r
    BY <1>2 DEF Regions, Range
  <1>4. F \in [Regions -> Nat]
    <2>1. ASSUME NEW r \in Regions PROVE Len(Fallback[r]) \in Nat
      <3>1. Fallback[r] \in Seq(Regions)
        BY <1>1
      <3> QED  BY <3>1
    <2> QED  BY <2>1
  <1>0. Longest = Max(L) /\ \A r \in Regions : F[r] = Len(Fallback[r])
    <2>1. {Len(Fallback[r]) : r \in Regions} = L
      OBVIOUS
    <2> HIDE DEF L
    <2> QED  BY <2>1 DEF Longest
  <1> HIDE DEF F, N
  <1>5. G \in [1 .. N -> Nat] /\ L \in SUBSET Nat /\ L # {} /\ \A x \in L : \E i \in 1 .. N : x = G[i]
    BY <1>1, <1>2, <1>3, <1>4
  <1> HIDE DEF G, L
  <1>6. \A k \in 0 .. N : k \in Bounded
    <2>1. 0 \in Bounded
      BY <1>2
    <2>2. ASSUME NEW k \in 1 .. N, k - 1 \in Bounded PROVE k \in Bounded
      <3>1. PICK m \in Nat : \A i \in 1 .. k - 1 : G[i] <= m
        BY <2>2
      <3>2. G[k] \in Nat /\ m + G[k] \in Nat /\ \A i \in 1 .. k : G[i] \in Nat /\ (i \in 1 .. k - 1 \/ i = k)
        BY <1>2, <1>5
      <3> DEFINE top == m + G[k]
      <3>3. ASSUME NEW i \in 1 .. k PROVE G[i] <= top
        <4>1. CASE i = k
          BY <3>2, <4>1
        <4>2. CASE i # k
          <5>1. i \in 1 .. k - 1 /\ G[i] \in Nat /\ G[k] \in Nat
            BY <1>2, <3>2, <4>2
          <5>2. G[i] <= m
            BY <3>1, <5>1
          <5> QED  BY <5>1, <5>2
        <4> QED  BY <4>1, <4>2
      <3>4. top \in Nat /\ k \in 0 .. N
        BY <1>2, <3>2
      <3> HIDE DEF top
      <3> QED  BY <3>3, <3>4
    <2> HIDE DEF Bounded
    <2> QED  BY <1>2, <2>1, <2>2, UpTo
  <1>7. PICK m \in Bounds : \A k \in Bounds : m <= k
    <2>1. Bounds \in SUBSET Nat /\ Bounds # {}
      <3>0. N \in Bounded
        <4> HIDE DEF Bounded
        <4> QED  BY <1>2, <1>6
      <3>1. PICK m \in Nat : \A i \in 1 .. N : G[i] <= m
        BY <3>0
      <3>2. \A x \in L : x <= m
        BY <1>5, <3>1
      <3> QED  BY <3>2
    <2> HIDE DEF Bounds
    <2> QED  BY <2>1, LeastNumber
  <1>8. m \in Nat /\ \A x \in L : x \in Nat /\ x <= m
    BY <1>5, <1>7
  <1>9. m \in L
    <2>1. SUFFICES ASSUME m \notin L PROVE FALSE
      OBVIOUS
    <2>2. PICK x \in L : x \in Nat
      BY <1>5
    <2>3. m - 1 \in Nat /\ \A y \in L : y <= m - 1
      BY <1>8, <2>1, <2>2
    <2>4. m - 1 \in Bounds /\ ~ (m <= m - 1)
      BY <1>8, <2>3
    <2> HIDE DEF Bounds
    <2> QED  BY <1>7, <2>4
  <1>10. Longest \in L /\ \A x \in L : Longest >= x
    <2>1. \E y \in L : \A x \in L : y >= x
      BY <1>8, <1>9
    <2> QED  BY <1>0, <2>1 DEF Max
  <1>11. \A r \in Regions : F[r] \in L
    BY DEF L
  <1>12. Longest \in Nat /\ \A r \in Regions : F[r] <= Longest
    <2>1. Longest \in Nat
      BY <1>5, <1>10
    <2> QED  BY <1>4, <1>10, <1>11, <2>1
  <1> QED  BY <1>0, <1>12

\* A list without repeats is no longer than its elements are many.
LEMMA DistinctBounded ==
  ASSUME NEW out \in Seq(Regions),
         \A j, k \in 1 .. Len(out) : out[j] = out[k] => j = k
  PROVE  Len(out) <= Far
  <1> DEFINE N == Len(out)
  <1>1. N \in Nat /\ out \in [1 .. N -> Regions] /\ Far \in Nat /\ IsFiniteSet(Regions)
    BY RegionsFinite
  <1>2. IsFiniteSet(1 .. N) /\ Cardinality(1 .. N) = N
    <2> HIDE DEF N
    <2>0. N \in Nat
      BY <1>1
    <2>1. 1 \in Int /\ N \in Int /\ (1 > N <=> N = 0)
      BY <2>0
    <2>2. IsFiniteSet(1 .. N) /\ Cardinality(1 .. N) = IF 1 > N THEN 0 ELSE N - 1 + 1
      BY <2>1, FS_Interval
    <2> QED  BY <1>1, <2>1, <2>2
  <1>3. out \in Injection(1 .. N, Regions)
    BY <1>1 DEF Injection, IsInjective
  <1>4. Cardinality(1 .. N) <= Cardinality(Regions)
    BY <1>1, <1>3, FS_Injection
  <1> QED  BY <1>2, <1>4 DEF Far

\* What Chain keeps after i turns.  A region is listed once; the first elements
\* of the queue are the first of the list, for every turn done; the fallbacks of
\* the first regions of the list follow the start in the queue; a region comes
\* from the start or an earlier one.
Walked(start, i, st) ==
  /\ st \in Walks
  /\ \A j, k \in 1 .. Len(st.out) : st.out[j] = st.out[k] => j = k
  /\ \A p \in 0 .. Len(st.queue) : p <= i => \E n \in 0 .. Len(st.out) : Firsts(st.queue, p) = Firsts(st.out, n)
  /\ i <= Len(st.queue) => Firsts(st.queue, i) = Range(st.out)
  /\ \A j \in 0 .. Len(st.out) : \E p \in 0 .. Len(st.queue) :
       Firsts(st.queue, p) = From(start, Firsts(st.out, j))
  /\ Range(st.queue) = From(start, Range(st.out))
  /\ \A k \in 1 .. Len(st.out) : st.out[k] \in From(start, Firsts(st.out, k - 1))
  /\ Len(st.queue) <= Len(start) + Len(st.out) * Longest

\* Lists grow at their end.
LEMMA FirstsGrow ==
  ASSUME NEW S, NEW s \in Seq(S), NEW t \in Seq(S)
  PROVE  /\ Range(s) = Firsts(s, Len(s)) /\ Firsts(s, 0) = {}
         /\ \A n \in 1 .. Len(s) : Firsts(s, n) = Firsts(s, n - 1) \union {s[n]}
         /\ \A n \in 0 .. Len(s) : Firsts(s \o t, n) = Firsts(s, n) /\ Firsts(s, n) \subseteq Range(s)
         /\ Range(s \o t) = Range(s) \union Range(t)
         /\ \A x \in S : /\ \A n \in 0 .. Len(s) : Firsts(Append(s, x), n) = Firsts(s, n)
                         /\ Range(Append(s, x)) = Range(s) \union {x}
  <1>1. Range(s) = Firsts(s, Len(s)) /\ Firsts(s, 0) = {}
    BY DEF Range, Firsts
  <1>2. ASSUME NEW n \in 1 .. Len(s) PROVE Firsts(s, n) = Firsts(s, n - 1) \union {s[n]}
    BY DEF Firsts
  <1>3. ASSUME NEW n \in 0 .. Len(s) PROVE Firsts(s \o t, n) = Firsts(s, n) /\ Firsts(s, n) \subseteq Range(s)
    <2>1. \A k \in 1 .. n : (s \o t)[k] = s[k] /\ k \in DOMAIN s
      OBVIOUS
    <2> QED  BY <2>1 DEF Firsts, Range
  <1>4. Range(s \o t) = Range(s) \union Range(t)
    <2> DEFINE st == s \o t
               m  == Len(s)
               n  == Len(t)
    <2>1. DOMAIN st = 1 .. m + n /\ DOMAIN s = 1 .. m /\ DOMAIN t = 1 .. n /\ m \in Nat /\ n \in Nat
      OBVIOUS
    <2>2. \A k \in 1 .. m : st[k] = s[k]
      OBVIOUS
    <2>3. \A k \in 1 .. n : st[m + k] = t[k]
      OBVIOUS
    <2> HIDE DEF st, m, n
    <2>4. \A k \in 1 .. m + n : k \in 1 .. m \/ (k - m \in 1 .. n /\ k = m + (k - m))
      BY <2>1
    <2>5. (\A k \in 1 .. m : k \in 1 .. m + n) /\ (\A k \in 1 .. n : m + k \in 1 .. m + n)
      BY <2>1
    <2>6. ASSUME NEW x \in Range(st) PROVE x \in Range(s) \union Range(t)
      <3>1. PICK k \in 1 .. m + n : x = st[k]
        BY <2>1 DEF Range
      <3>2. k \in 1 .. m \/ \E j \in 1 .. n : k = m + j
        BY <2>4
      <3> QED  BY <2>1, <2>2, <2>3, <3>1, <3>2 DEF Range
    <2>7. Range(s) \subseteq Range(st)
      BY <2>1, <2>2, <2>5 DEF Range
    <2>8. Range(t) \subseteq Range(st)
      BY <2>1, <2>3, <2>5 DEF Range
    <2> QED  BY <2>6, <2>7, <2>8 DEF st
  <1>5. ASSUME NEW x \in S PROVE /\ \A n \in 0 .. Len(s) : Firsts(Append(s, x), n) = Firsts(s, n)
                                 /\ Range(Append(s, x)) = Range(s) \union {x}
    <2> DEFINE sx == Append(s, x)
               m  == Len(s)
    <2>1. DOMAIN sx = 1 .. m + 1 /\ DOMAIN s = 1 .. m /\ m \in Nat /\ sx[m + 1] = x
      OBVIOUS
    <2>2. \A k \in 1 .. m : sx[k] = s[k]
      OBVIOUS
    <2> HIDE DEF sx, m
    <2>3. \A n \in 0 .. m : Firsts(sx, n) = Firsts(s, n)
      BY <2>1, <2>2 DEF Firsts
    <2>4. \A k \in 1 .. m + 1 : k \in 1 .. m \/ k = m + 1
      BY <2>1
    <2>5. m + 1 \in 1 .. m + 1 /\ \A k \in 1 .. m : k \in 1 .. m + 1
      BY <2>1
    <2>6. Range(sx) = Range(s) \union {x}
      BY <2>1, <2>2, <2>4, <2>5 DEF Range
    <2> QED  BY <2>3, <2>6 DEF sx, m
  <1> QED  BY <1>1, <1>2, <1>3, <1>4, <1>5

\* One turn more.
LEMMA WalkedTurn ==
  ASSUME NEW start \in Seq(Regions), NEW i \in Nat \ {0}, NEW st, Walked(start, i - 1, st)
  PROVE  Walked(start, i, Turn(i, st))
  <1> DEFINE q == st.queue
             o == st.out
             c == q[i]
             F == Fallback[c]
             q2 == q \o F
             o2 == Append(o, c)
             next == [queue |-> q2, out |-> o2]
  <1>1. q \in Seq(Regions) /\ o \in Seq(Regions) /\ Len(q) \in Nat /\ Len(o) \in Nat
    BY DEF Walked, Walks
  <1>2. CASE i > Len(q)
    <2>1. Turn(i, st) = st
      BY <1>2 DEF Turn
    <2>2. \A p \in 0 .. Len(q) : p <= i - 1
      BY <1>1, <1>2
    <2>3. ~ (i <= Len(q))
      BY <1>1, <1>2
    <2> QED  BY <2>1, <2>2, <2>3 DEF Walked
  <1>3. i <= Len(q) => /\ i \in 1 .. Len(q) /\ i - 1 \in 0 .. Len(q) /\ i - 1 <= Len(q) /\ c \in Regions
                       /\ Firsts(q, i) = Range(o) \union {c}
    <2> SUFFICES ASSUME i <= Len(q) PROVE /\ i \in 1 .. Len(q) /\ i - 1 \in 0 .. Len(q) /\ c \in Regions
                                          /\ i - 1 <= Len(q) /\ Firsts(q, i) = Range(o) \union {c}
      OBVIOUS
    <2>1. i \in 1 .. Len(q) /\ i - 1 \in 0 .. Len(q) /\ i - 1 <= Len(q)
      BY <1>1
    <2>2. c \in Regions
      BY <1>1, <2>1
    <2>3. Firsts(q, i) = Firsts(q, i - 1) \union {c}
      BY <1>1, <2>1, FirstsGrow
    <2>4. Firsts(q, i - 1) = Range(o)
      BY <2>1 DEF Walked
    <2> QED  BY <2>1, <2>2, <2>3, <2>4
  <1>4. Firsts(o, Len(o)) = Range(o)
    BY <1>1, FirstsGrow
  <1>5. CASE i <= Len(q) /\ c \in Range(o)
    <2>1. Turn(i, st) = st
      BY <1>5 DEF Turn
    <2>2. Firsts(q, i) = Range(o)
      BY <1>3, <1>5
    <2>3. \A p \in 0 .. Len(q) : p <= i => p <= i - 1 \/ p = i
      BY <1>1
    <2>4. \A p \in 0 .. Len(q) : p <= i => \E n \in 0 .. Len(o) : Firsts(q, p) = Firsts(o, n)
      <3>1. Len(o) \in 0 .. Len(o)
        BY <1>1
      <3>2. \A p \in 0 .. Len(q) : p <= i - 1 => \E n \in 0 .. Len(o) : Firsts(q, p) = Firsts(o, n)
        BY DEF Walked
      <3> QED  BY <1>4, <2>2, <2>3, <3>1, <3>2
    <2> QED  BY <2>1, <2>2, <2>4 DEF Walked
  <1>6. CASE i <= Len(q) /\ c \notin Range(o)
    <2>1. Turn(i, st) = next
      <3>1. ~ (i > Len(q))
        BY <1>1, <1>6
      <3> QED  BY <1>6, <3>1 DEF Turn
    <2>2. /\ F \in Seq(Regions) /\ Len(F) \in Nat /\ Len(F) <= Longest /\ Longest \in Nat /\ c \in Regions
          /\ i \in 1 .. Len(q) /\ i - 1 \in 0 .. Len(q)
      <3>1. c \in Regions /\ i \in 1 .. Len(q) /\ i - 1 \in 0 .. Len(q)
        BY <1>3, <1>6
      <3>2. F \in Seq(Regions)
        BY <3>1, RoutingAssumption
      <3>3. Len(F) <= Longest /\ Longest \in Nat
        BY <3>1, LongestBounds
      <3> QED  BY <3>1, <3>2, <3>3
    <2>3. /\ q2 \in Seq(Regions) /\ o2 \in Seq(Regions) /\ Len(q2) = Len(q) + Len(F) /\ Len(o2) = Len(o) + 1
          /\ o2[Len(o) + 1] = c /\ \A k \in 1 .. Len(o) : o2[k] = o[k]
      BY <1>1, <2>2
    <2>4. /\ \A n \in 0 .. Len(q) : Firsts(q2, n) = Firsts(q, n)
          /\ Range(q2) = Range(q) \union Range(F)
      BY <1>1, <2>2, FirstsGrow
    <2>5. /\ \A n \in 0 .. Len(o) : Firsts(o2, n) = Firsts(o, n)
          /\ Range(o2) = Range(o) \union {c}
      BY <1>1, <2>2, FirstsGrow
    <2>6. Firsts(q2, Len(q2)) = Range(q2) /\ Firsts(o2, Len(o2)) = Range(o2)
      BY <2>3, FirstsGrow
    <2>7. Firsts(q2, i) = Range(o2)
      BY <1>3, <1>6, <2>2, <2>4, <2>5
    <2>8. Range(q2) = From(start, Range(o2))
      <3>1. Range(q) = From(start, Range(o))
        BY DEF Walked
      <3> QED  BY <2>4, <2>5, <3>1 DEF From
    <2>9. c \in From(start, Firsts(o2, Len(o)))
      <3>1. Range(q) = From(start, Range(o))
        BY DEF Walked
      <3>3. c \in Range(q)
        <4> HIDE DEF q, c, F
        <4>1. DOMAIN q = 1 .. Len(q)
          BY <1>1
        <4> QED  BY <2>2, <4>1 DEF Range, c
      <3>2. Len(o) \in 0 .. Len(o)
        BY <1>1
      <3> QED  BY <1>4, <2>5, <3>1, <3>2, <3>3
    <2>0. /\ \A j, k \in 1 .. Len(o) : o[j] = o[k] => j = k
          /\ \A p \in 0 .. Len(q) : p <= i - 1 => \E n \in 0 .. Len(o) : Firsts(q, p) = Firsts(o, n)
          /\ \A j \in 0 .. Len(o) : \E p \in 0 .. Len(q) : Firsts(q, p) = From(start, Firsts(o, j))
          /\ \A k \in 1 .. Len(o) : o[k] \in From(start, Firsts(o, k - 1))
          /\ Len(q) <= Len(start) + Len(o) * Longest
      BY DEF Walked
    <2> DEFINE lq == Len(q)
               lo == Len(o)
               lq2 == Len(q2)
               lo2 == Len(o2)
    <2>10. /\ \A n \in 0 .. lq : n \in 0 .. lq2
           /\ \A n \in 0 .. lo : n \in 0 .. lo2
           /\ \A k \in 1 .. lo2 : k \in 1 .. lo \/ k = lo + 1
           /\ \A k \in 0 .. lo2 : k \in 0 .. lo \/ k = lo2
           /\ \A k \in 1 .. lo : k - 1 \in 0 .. lo
           /\ lq2 \in 0 .. lq2 /\ lo2 \in 0 .. lo2 /\ lo + 1 - 1 = lo
      <3> DEFINE lf == Len(F)
      <3>1. lq \in Nat /\ lo \in Nat /\ lf \in Nat /\ lq2 = lq + lf /\ lo2 = lo + 1
        BY <1>1, <2>2, <2>3
      <3> HIDE DEF lf, lq, lo, lq2, lo2
      <3> QED  BY <3>1
    <2>11. \A p \in 0 .. lq2 : p <= i => p = i \/ (p \in 0 .. lq /\ p <= i - 1)
      <3>1. lq \in Nat /\ i \in 1 .. lq
        BY <1>1, <2>2
      <3>2. lq2 \in Nat
        <4>1. q2 \in Seq(Regions)
          BY <2>3
        <4> HIDE DEF q2
        <4> QED  BY <4>1
      <3> HIDE DEF lq, lq2
      <3> QED  BY <3>1, <3>2
    <2>12. \A k \in 1 .. lo : o[k] # c
      <3>1. DOMAIN o = 1 .. lo /\ c \notin Range(o)
        BY <1>1, <1>6
      <3> HIDE DEF o, c, lo
      <3> QED  BY <3>1 DEF Range
    <2> HIDE DEF q, o, c, F, q2, o2
    <2>13. \A j, k \in 1 .. lo2 : o2[j] = o2[k] => j = k
      <3> HIDE DEF lo, lo2
      <3>1. \A k \in 1 .. lo : o2[k] = o[k] /\ o2[k] # c
        BY <2>3, <2>12 DEF lo
      <3>2. o2[lo + 1] = c /\ \A j, k \in 1 .. lo : o[j] = o[k] => j = k
        BY <2>0, <2>3 DEF lo
      <3> QED  BY <2>10, <3>1, <3>2
    <2>14. \A p \in 0 .. lq2 : p <= i => \E n \in 0 .. lo2 : Firsts(q2, p) = Firsts(o2, n)
      <3> SUFFICES ASSUME NEW p \in 0 .. lq2, p <= i PROVE \E n \in 0 .. lo2 : Firsts(q2, p) = Firsts(o2, n)
        OBVIOUS
      <3>1. CASE p = i
        BY <2>6, <2>7, <2>10, <3>1
      <3>2. CASE p \in 0 .. lq /\ p <= i - 1
        <4>1. PICK n \in 0 .. lo : Firsts(q, p) = Firsts(o, n)
          BY <2>0, <3>2
        <4>2. Firsts(q2, p) = Firsts(q, p) /\ Firsts(o2, n) = Firsts(o, n) /\ n \in 0 .. lo2
          BY <2>4, <2>5, <2>10, <3>2
        <4> QED  BY <4>1, <4>2
      <3> QED  BY <2>11, <3>1, <3>2
    <2>15. \A j \in 0 .. lo2 : \E p \in 0 .. lq2 : Firsts(q2, p) = From(start, Firsts(o2, j))
      <3> SUFFICES ASSUME NEW j \in 0 .. lo2 PROVE \E p \in 0 .. lq2 : Firsts(q2, p) = From(start, Firsts(o2, j))
        OBVIOUS
      <3>1. CASE j = lo2
        BY <2>6, <2>8, <2>10, <3>1
      <3>2. CASE j \in 0 .. lo
        <4>1. PICK p \in 0 .. lq : Firsts(q, p) = From(start, Firsts(o, j))
          BY <2>0, <3>2
        <4>2. Firsts(q2, p) = Firsts(q, p) /\ Firsts(o2, j) = Firsts(o, j) /\ p \in 0 .. lq2
          BY <2>4, <2>5, <2>10, <3>2
        <4> QED  BY <4>1, <4>2
      <3> QED  BY <2>10, <3>1, <3>2
    <2>16. \A k \in 1 .. lo2 : o2[k] \in From(start, Firsts(o2, k - 1))
      <3> SUFFICES ASSUME NEW k \in 1 .. lo2 PROVE o2[k] \in From(start, Firsts(o2, k - 1))
        OBVIOUS
      <3>1. CASE k = lo + 1
        BY <2>3, <2>9, <2>10, <3>1
      <3>2. CASE k \in 1 .. lo
        <4>1. o2[k] = o[k] /\ o[k] \in From(start, Firsts(o, k - 1))
          BY <2>0, <2>3, <3>2
        <4>2. Firsts(o2, k - 1) = Firsts(o, k - 1)
          BY <2>5, <2>10, <3>2
        <4> QED  BY <4>1, <4>2
      <3> QED  BY <2>10, <3>1, <3>2
    <2>17. lq2 <= Len(start) + lo2 * Longest
      <3> DEFINE ls == Len(start)
                 lf == Len(F)
      <3>1. ls \in Nat /\ lo \in Nat /\ lf \in Nat /\ lq \in Nat /\ Longest \in Nat /\ lf <= Longest
        BY <1>1, <2>2
      <3>2. lq2 = lq + lf /\ lo2 = lo + 1 /\ lq <= ls + lo * Longest
        BY <2>0, <2>3
      <3> HIDE DEF ls, lf, lq, lo, lq2, lo2
      <3>3. (lo + 1) * Longest = lo * Longest + Longest /\ lo * Longest \in Nat
        BY <3>1
      <3> DEFINE prod == lo * Longest
      <3>4. prod \in Nat /\ lo2 * Longest = prod + Longest /\ lq <= ls + prod
        BY <3>2, <3>3
      <3> HIDE DEF prod
      <3>5. lq2 <= ls + (prod + Longest)
        BY <3>1, <3>2, <3>4
      <3> QED  BY <3>4, <3>5 DEF ls
    <2>18. next \in Walks /\ next.queue = q2 /\ next.out = o2
      BY <2>3 DEF Walks
    <2> HIDE DEF next
    <2> QED  BY <2>1, <2>7, <2>8, <2>13, <2>14, <2>15, <2>16, <2>17, <2>18 DEF Walked
  <1> QED  BY <1>1, <1>2, <1>5, <1>6

\* What the walk over the regions leaves: the fallbacks of the first regions of
\* the list, with the start, are themselves the first of the list.
Layered(start, c) ==
  /\ c \in Seq(Regions) /\ Len(c) <= Far
  /\ \A j, k \in 1 .. Len(c) : c[j] = c[k] => j = k
  /\ \A j \in 0 .. Len(c) : \E n \in 0 .. Len(c) : Firsts(c, n) = From(start, Firsts(c, j))
  /\ \A k \in 1 .. Len(c) : c[k] \in From(start, Firsts(c, k - 1))

\* The walk has turns enough.
LEMMA ChainLayers ==
  ASSUME NEW start \in Seq(Regions)
  PROVE  Layered(start, Chain(start))
  <1> DEFINE T     == Turns(start)
             first == [queue |-> start, out |-> <<>>]
             F     == [i \in 1 .. T |-> [st \in Walks |-> Turn(i, st)]]
  <1>1. T = Len(start) + Far * Longest /\ T \in Nat /\ Far \in Nat /\ Longest \in Nat /\ Len(start) \in Nat
    <2>1. T = Len(start) + Far * Longest
      BY DEF Turns, Far, Longest
    <2>2. Far \in Nat /\ Longest \in Nat /\ Len(start) \in Nat
      BY RegionsFinite, LongestBounds
    <2> HIDE DEF T
    <2>3. Far * Longest \in Nat
      BY <2>2
    <2> QED  BY <2>1, <2>2, <2>3
  <1>0. T \in Nat
    BY <1>1
  <1>3. Walked(start, 0, first)
    <2> DEFINE none == <<>>
    <2>1. none \in Seq(Regions) /\ Len(none) = 0 /\ Len(start) \in Nat /\ Range(none) = {}
      BY DEF Range
    <2>2. first \in Walks /\ first.queue = start /\ first.out = none
      BY <2>1 DEF Walks
    <2>3. Range(start) = Firsts(start, Len(start)) /\ Firsts(start, 0) = {} /\ Firsts(none, 0) = {}
      BY FirstsGrow DEF Firsts
    <2>4. From(start, {}) = Range(start)
      BY DEF From
    <2>5. 0 * Longest = 0 /\ Len(start) + 0 = Len(start) /\ 0 \in 0 .. 0 /\ Len(start) \in 0 .. Len(start) /\ Len(start) <= Len(start)
      BY <1>1, <2>1
    <2> HIDE DEF none, first
    <2> DEFINE ls == Len(start)
               ln == Len(none)
    <2>9. ls \in Nat /\ ln = 0 /\ ls \in 0 .. ls
      BY <2>1, <2>5
    <2> HIDE DEF ls, ln
    <2>10. \A p \in 0 .. ls : p <= 0 => p = 0
      BY <2>9
    <2>6. \A p \in 0 .. ls : p <= 0 => \E n \in 0 .. ln : Firsts(start, p) = Firsts(none, n)
      BY <2>3, <2>5, <2>9, <2>10
    <2>7. \A j \in 0 .. ln : \E p \in 0 .. ls : Firsts(start, p) = From(start, Firsts(none, j))
      <3>1. \A j \in 0 .. ln : j = 0
        BY <2>9
      <3>2. Firsts(start, ls) = From(start, Firsts(none, 0))
        BY <2>3, <2>4 DEF ls
      <3> QED  BY <2>9, <3>1, <3>2
    <2>8. \A j \in 1 .. Len(none) : FALSE
      BY <2>1
    <2>11. 0 <= Len(start) => Firsts(start, 0) = Range(none)
      BY <2>1, <2>3
    <2>12. Len(start) <= Len(start) + Len(none) * Longest
      BY <2>1, <2>5
    <2>13. Range(start) = From(start, Range(none))
      BY <2>1, <2>4
    <2>14. /\ \A j, k \in 1 .. Len(none) : none[j] = none[k] => j = k
           /\ \A k \in 1 .. Len(none) : none[k] \in From(start, Firsts(none, k - 1))
      BY <2>8
    <2> QED  BY <2>2, <2>6, <2>7, <2>11, <2>12, <2>13, <2>14, Zenon DEF Walked, ls, ln
  <1> HIDE DEF T, first
  <1>4. \A i \in 1 .. T, st \in Walks : F[i][st] = Turn(i, st)
    OBVIOUS
  <1> HIDE DEF F
  <1>5. \A i \in 1 .. T : \A st : Walked(start, i - 1, st) => Walked(start, i, Turn(i, st))
    <2> SUFFICES ASSUME NEW i \in 1 .. T, NEW st, Walked(start, i - 1, st) PROVE Walked(start, i, Turn(i, st))
      OBVIOUS
    <2>1. i \in Nat \ {0}
      BY <1>0
    <2> QED  BY <2>1, WalkedTurn
  <1>6. \A i, st : Walked(start, i, st) => st \in Walks
    BY DEF Walked
  <1>7. PICK g : Runs(g, T, F, first)
    BY <1>0, StepsExist
  <1>8. g = [i \in 0 .. T |-> IF i = 0 THEN first ELSE Turn(i, g[i - 1])]
    <2>1. /\ g = [i \in 0 .. T |-> IF i = 0 THEN first ELSE F[i][g[i - 1]]]
          /\ \A i \in 1 .. T : i \in 0 .. T /\ i - 1 \in 0 .. T /\ i # 0
      BY <1>0, <1>7 DEF Runs
    <2>2. g[0] = first /\ \A i \in 1 .. T : g[i] = F[i][g[i - 1]]
      BY <1>0, <2>1
    <2> DEFINE G == {i \in 0 .. T : Walked(start, i, g[i])}
    <2>3. 0 \in G
      BY <1>0, <1>3, <2>2
    <2>4. \A i \in 1 .. T : i - 1 \in G => i \in G
      BY <1>4, <1>5, <1>6, <2>1, <2>2
    <2>5. \A i \in 0 .. T : i \in G
      <3> HIDE DEF G
      <3> QED  BY <1>0, <2>3, <2>4, UpTo
    <2>6. \A i \in 0 .. T : g[i] \in Walks
      BY <1>6, <2>5
    <2>7. \A i \in 0 .. T : g[i] = IF i = 0 THEN first ELSE Turn(i, g[i - 1])
      BY <1>0, <1>4, <2>1, <2>2, <2>6
    <2> QED  BY <2>1, <2>7
  <1> DEFINE after[i \in 0 .. Turns(start)] ==
               IF i = 0 THEN [queue |-> start, out |-> <<>>]
               ELSE LET st == after[i - 1] IN
                    IF i > Len(st.queue) \/ st.queue[i] \in Range(st.out) THEN st
                    ELSE [queue |-> st.queue \o Fallback[st.queue[i]], out |-> Append(st.out, st.queue[i])]
  <1>2. Chain(start) = after[T].out
    BY DEF Chain, T
  <1>9. after = [i \in 0 .. T |-> IF i = 0 THEN first ELSE Turn(i, after[i - 1])]
    BY <1>8 DEF T, first, Turn
  <1> HIDE DEF after
  <1>10. Walked(start, T, after[T])
    <2> DEFINE G == {i \in 0 .. T : Walked(start, i, after[i])}
    <2>1. after[0] = first /\ \A i \in 1 .. T : after[i] = Turn(i, after[i - 1]) /\ i - 1 \in 0 .. T /\ i \in 0 .. T
      <3>1. 0 \in 0 .. T /\ \A i \in 1 .. T : i \in 0 .. T /\ i - 1 \in 0 .. T /\ i # 0
        BY <1>0
      <3> QED  BY <1>9, <3>1
    <2>2. 0 \in G
      BY <1>0, <1>3, <2>1
    <2>3. \A i \in 1 .. T : i - 1 \in G => i \in G
      BY <1>5, <2>1
    <2>4. \A i \in 0 .. T : i \in G
      <3> HIDE DEF G
      <3> QED  BY <1>0, <2>2, <2>3, UpTo
    <2>5. T \in 0 .. T
      BY <1>0
    <2> QED  BY <2>4, <2>5
  <1> DEFINE q == after[T].queue
             o == after[T].out
             lq == Len(q)
             lo == Len(o)
  <1>11. /\ q \in Seq(Regions) /\ o \in Seq(Regions) /\ lq \in Nat /\ lo \in Nat
         /\ \A j, k \in 1 .. lo : o[j] = o[k] => j = k
         /\ \A p \in 0 .. lq : p <= T => \E n \in 0 .. lo : Firsts(q, p) = Firsts(o, n)
         /\ \A j \in 0 .. lo : \E p \in 0 .. lq : Firsts(q, p) = From(start, Firsts(o, j))
         /\ \A k \in 1 .. lo : o[k] \in From(start, Firsts(o, k - 1))
         /\ lq <= Len(start) + lo * Longest
    BY <1>10 DEF Walked, Walks
  <1> HIDE DEF q, o
  <1>12. lo <= Far
    BY <1>11, DistinctBounded
  <1>13. lq <= T
    <2> DEFINE more == Far - lo
               ls   == Len(start)
    <2> HIDE DEF lo, lq
    <2>1. more \in Nat /\ Far = lo + more
      BY <1>1, <1>11, <1>12
    <2> HIDE DEF more
    <2>2. (lo + more) * Longest = lo * Longest + more * Longest /\ lo * Longest \in Nat /\ more * Longest \in Nat
      BY <1>1, <1>11, <2>1
    <2> DEFINE x == lo * Longest
               y == more * Longest
    <2>3. x \in Nat /\ y \in Nat /\ T = ls + (x + y) /\ lq <= ls + x /\ ls \in Nat /\ lq \in Nat
      BY <1>1, <1>11, <2>1, <2>2
    <2> HIDE DEF x, y, ls
    <2> QED  BY <2>3
  <1>14. \A p \in 0 .. lq : p <= T
    <2> HIDE DEF lq
    <2> QED  BY <1>1, <1>11, <1>13
  <1>15. \A j \in 0 .. lo : \E n \in 0 .. lo : Firsts(o, n) = From(start, Firsts(o, j))
    <2> HIDE DEF lo, lq
    <2> QED  BY <1>11, <1>14, Zenon
  <1>16. Chain(start) = o
    BY <1>2 DEF o
  <1> QED  BY <1>11, <1>12, <1>15, <1>16 DEF Layered

\* The regions n fallbacks away are the first of the walk, one more at least for
\* every fallback, until there are no more.
LEMMA WithinLayers ==
  ASSUME NEW start \in Seq(Regions), NEW c, Layered(start, c), NEW n \in 0 .. Far
  PROVE  \E k \in 0 .. Len(c) : Within(start)[n] = Firsts(c, k) /\ (k = Len(c) \/ n <= k)
  <1> DEFINE R       == SUBSET Regions
             Next1(s) == s \union UNION {Range(Fallback[r]) : r \in s}
             F       == [i \in 1 .. Far |-> [s \in R |-> Next1(s)]]
             first   == Range(start)
             lc      == Len(c)
  <1>1. Far \in Nat /\ c \in Seq(Regions) /\ lc \in Nat /\ DOMAIN c = 1 .. lc /\ DOMAIN start = 1 .. Len(start)
    BY RegionsFinite DEF Layered
  <1>0. Far \in Nat
    BY <1>1
  <1>3. first \in R
    BY DEF Range
  <1>4. \A s \in R : Next1(s) \in R
    <2> SUFFICES ASSUME NEW s \in R, NEW r \in s PROVE Range(Fallback[r]) \in R
      OBVIOUS
    <2>1. Fallback[r] \in Seq(Regions)
      BY RoutingAssumption
    <2> QED  BY <2>1 DEF Range
  <1> HIDE DEF R, Next1, first
  <1>5. \A i \in 1 .. Far, s \in R : F[i][s] = Next1(s)
    OBVIOUS
  <1> HIDE DEF F
  <1>6. PICK g : Runs(g, Far, F, first)
    BY <1>0, StepsExist
  <1>7. g = [i \in 0 .. Far |-> IF i = 0 THEN first ELSE Next1(g[i - 1])]
    <2>1. /\ g = [i \in 0 .. Far |-> IF i = 0 THEN first ELSE F[i][g[i - 1]]]
          /\ \A i \in 1 .. Far : i \in 0 .. Far /\ i - 1 \in 0 .. Far /\ i # 0
      BY <1>0, <1>6 DEF Runs
    <2>2. g[0] = first /\ \A i \in 1 .. Far : g[i] = F[i][g[i - 1]]
      BY <1>0, <2>1
    <2> DEFINE G == {i \in 0 .. Far : g[i] \in R}
    <2>3. 0 \in G /\ \A i \in 1 .. Far : i - 1 \in G => i \in G
      BY <1>0, <1>3, <1>4, <1>5, <2>1, <2>2
    <2>4. \A i \in 0 .. Far : i \in G
      <3> HIDE DEF G
      <3> QED  BY <1>0, <2>3, UpTo
    <2>5. \A i \in 0 .. Far : g[i] = IF i = 0 THEN first ELSE Next1(g[i - 1])
      BY <1>0, <1>5, <2>1, <2>2, <2>4
    <2> QED  BY <2>1, <2>5
  <1> DEFINE within[m \in 0 .. Far] ==
               IF m = 0 THEN Range(start)
               ELSE within[m - 1] \union UNION {Range(Fallback[r]) : r \in within[m - 1]}
  <1>2. Within(start) = within
    BY DEF Within
  <1>8. within = [m \in 0 .. Far |-> IF m = 0 THEN first ELSE Next1(within[m - 1])]
    BY <1>7 DEF first, Next1
  <1> HIDE DEF within
  <1>9. within[0] = first /\ \A m \in 1 .. Far : within[m] = Next1(within[m - 1]) /\ m - 1 \in 0 .. Far /\ m \in 0 .. Far
    <2>1. 0 \in 0 .. Far /\ \A m \in 1 .. Far : m \in 0 .. Far /\ m - 1 \in 0 .. Far /\ m # 0
      BY <1>0
    <2> QED  BY <1>8, <2>1
  <1> DEFINE Good(m) == /\ first \subseteq within[m]
                        /\ \E k \in 0 .. lc : within[m] = Firsts(c, k) /\ (k = lc \/ m <= k)
             G == {m \in 0 .. Far : Good(m)}
  <1>10. /\ \A j, k \in 1 .. lc : c[j] = c[k] => j = k
         /\ \A j \in 0 .. lc : \E k \in 0 .. lc : Firsts(c, k) = From(start, Firsts(c, j))
         /\ \A k \in 1 .. lc : c[k] \in From(start, Firsts(c, k - 1))
    BY DEF Layered
  <1> HIDE DEF lc
  <1>11. Good(0)
    <2>1. PICK k \in 0 .. lc : Firsts(c, k) = From(start, Firsts(c, 0))
      BY <1>1, <1>10
    <2>2. From(start, Firsts(c, 0)) = first
      BY DEF From, Firsts, first
    <2> QED  BY <1>1, <1>9, <2>1, <2>2
  <1>12. ASSUME NEW m \in 1 .. Far, Good(m - 1) PROVE Good(m)
    <2>1. PICK k \in 0 .. lc : within[m - 1] = Firsts(c, k) /\ (k = lc \/ m - 1 <= k)
      BY <1>12
    <2>2. PICK j \in 0 .. lc : Firsts(c, j) = From(start, Firsts(c, k))
      BY <1>10
    <2>3. within[m] = Firsts(c, k) \union Firsts(c, j) /\ first \subseteq within[m]
      BY <1>9, <1>12, <2>1, <2>2 DEF Next1, From, first
    <2>4. k # lc => k + 1 <= j
      <3> SUFFICES ASSUME k # lc PROVE k + 1 <= j
        OBVIOUS
      <3>1. k + 1 \in 1 .. lc /\ (k + 1) - 1 = k
        BY <1>1
      <3>2. c[k + 1] \in Firsts(c, j)
        BY <1>10, <2>2, <3>1
      <3>3. PICK i \in 1 .. j : c[k + 1] = c[i]
        BY <3>2 DEF Firsts
      <3>4. i \in 1 .. lc
        BY <1>1
      <3>5. i = k + 1
        BY <1>10, <3>1, <3>3, <3>4
      <3> QED  BY <3>5
    <2>5. CASE k <= j
      <3>1. Firsts(c, k) \subseteq Firsts(c, j)
        <4>1. \A i \in 1 .. k : i \in 1 .. j
          BY <2>5
        <4> QED  BY <4>1 DEF Firsts
      <3>2. j = lc \/ m <= j
        BY <1>1, <2>1, <2>4, <2>5
      <3> QED  BY <2>3, <3>1, <3>2
    <2>6. CASE ~ (k <= j)
      <3>1. k = lc
        BY <2>4, <2>6
      <3>2. Firsts(c, j) \subseteq Firsts(c, k)
        <4>1. \A i \in 1 .. j : i \in 1 .. k
          BY <2>6
        <4> QED  BY <4>1 DEF Firsts
      <3> QED  BY <2>3, <3>1, <3>2
    <2> QED  BY <2>5, <2>6
  <1>13. \A m \in 0 .. Far : m \in G
    <2>1. 0 \in G /\ \A m \in 1 .. Far : m - 1 \in G => m \in G
      <3> HIDE DEF Good
      <3> QED  BY <1>1, <1>9, <1>11, <1>12
    <2> HIDE DEF G
    <2> QED  BY <1>1, <2>1, UpTo
  <1> QED  BY <1>2, <1>13 DEF lc

\* The first of some regions in an order that has one of them.
LEMMA FirstOf ==
  ASSUME NEW order \in Seq(Regions), NEW these, Range(order) \cap these # {}
  PROVE  First(order, these) \in Regions
  <1> DEFINE N == Len(order)
             T == {i \in 1 .. N : order[i] \in these}
             P(i) == order[i] \in these /\ \A j \in 1 .. i - 1 : order[j] \notin these
             at == CHOOSE i \in DOMAIN order : P(i)
  <1>1. N \in Nat /\ DOMAIN order = 1 .. N /\ \A i \in 1 .. N : order[i] \in Regions
    OBVIOUS
  <1>2. T # {}
    BY <1>1 DEF Range
  <1>3. PICK i \in T : \A j \in T : i <= j
    <2>1. T \in SUBSET Nat
      BY <1>1
    <2> HIDE DEF T
    <2> QED  BY <1>2, <2>1, LeastNumber
  <1> HIDE DEF N
  <1>4. i \in DOMAIN order /\ P(i)
    <2>1. \A j \in 1 .. i - 1 : j \in 1 .. N /\ ~ (i <= j)
      BY <1>1, <1>3
    <2> QED  BY <1>1, <1>3, <2>1
  <1>5. at \in DOMAIN order
    <2> HIDE DEF P
    <2> QED  BY <1>4
  <1>6. First(order, these) = order[at]
    BY DEF First
  <1> HIDE DEF at
  <1> QED  BY <1>1, <1>5, <1>6

\* The walk starts at regions.
LEMMA StartOf ==
  ASSUME NEW req, req.country \in Countries
  PROVE  Start(req) \in Seq(Regions)
  <1> DEFINE cands == RegionsForToken(req.token)
             route == CountryRoute(req.country)
  <1>1. route \in Seq(Regions)
    <2>1. CASE req.country \in DOMAIN CountryRoutes
      BY <2>1, RoutingAssumption DEF CountryRoute
    <2>2. CASE req.country \notin DOMAIN CountryRoutes
      <3>1. RegionOfCountry[req.country] \in Regions \union {NoRegion}
        BY RoutingAssumption
      <3> QED  BY <2>2, <3>1 DEF CountryRoute
    <2> QED  BY <2>1, <2>2
  <1>2. Order \in Seq(Regions) /\ Range(Order) = Regions /\ cands \subseteq Regions
    BY RoutingAssumption DEF Regions, RegionsForToken
  <1>3. Start(req) = IF req.token = NoToken THEN route ELSE IF cands = {} THEN <<>>
                     ELSE <<First(IF Range(route) \cap cands # {} THEN route ELSE Order, cands)>>
    BY DEF Start
  <1> HIDE DEF cands, route
  <1>4. cands # {} => First(IF Range(route) \cap cands # {} THEN route ELSE Order, cands) \in Regions
    <2>1. Range(route) \cap cands # {} => First(route, cands) \in Regions
      BY <1>1, FirstOf
    <2>2. cands # {} => First(Order, cands) \in Regions
      BY <1>2, FirstOf
    <2> QED  BY <2>1, <2>2
  <1> QED  BY <1>1, <1>3, <1>4

\* Nodes in order are the nodes there are.
LEMMA InOrderOf ==
  ASSUME NEW some \in SUBSET NodeSet
  PROVE  InOrder(some) \in Seq(some) /\ (some # {} => InOrder(some) # <<>>)
  <1> DEFINE N       == Len(Nodes)
             S       == Seq(some)
             none    == <<>>
             Do(i, s) == IF Nodes[i] \in some THEN Append(s, Nodes[i]) ELSE s
             F       == [i \in 1 .. N |-> [s \in S |-> Do(i, s)]]
  <1>1. N \in Nat
    BY RoutingAssumption
  <1>2. none \in S
    OBVIOUS
  <1>3. \A i \in 1 .. N, s \in S : Do(i, s) \in S /\ (Nodes[i] \in some \/ s # none => Do(i, s) # none)
    OBVIOUS
  <1>11. some # {} => \E i \in 1 .. N : Nodes[i] \in some
    <2>1. DOMAIN Nodes = 1 .. N
      BY RoutingAssumption
    <2> HIDE DEF N
    <2> QED  BY <2>1 DEF NodeSet, Range
  <1> DEFINE upTo[i \in 0 .. Len(Nodes)] ==
               IF i = 0 THEN <<>>
               ELSE IF Nodes[i] \in some THEN Append(upTo[i - 1], Nodes[i]) ELSE upTo[i - 1]
  <1>4. InOrder(some) = upTo[N]
    BY DEF InOrder
  <1> HIDE DEF N, S, none, Do
  <1>5. \A i \in 1 .. N : \A s \in S : F[i][s] = Do(i, s)
    OBVIOUS
  <1> HIDE DEF F
  <1>6. PICK g : Runs(g, N, F, none)
    BY <1>1, StepsExist
  <1>7. g = [i \in 0 .. N |-> IF i = 0 THEN none ELSE Do(i, g[i - 1])]
    <2>1. /\ g = [i \in 0 .. N |-> IF i = 0 THEN none ELSE F[i][g[i - 1]]]
          /\ \A i \in 1 .. N : i \in 0 .. N /\ i - 1 \in 0 .. N /\ i # 0
      BY <1>1, <1>6 DEF Runs
    <2>2. g[0] = none /\ \A i \in 1 .. N : g[i] = F[i][g[i - 1]]
      BY <1>1, <2>1
    <2> DEFINE G == {i \in 0 .. N : g[i] \in S}
    <2>3. 0 \in G /\ \A i \in 1 .. N : i - 1 \in G => i \in G
      BY <1>1, <1>2, <1>3, <1>5, <2>1, <2>2
    <2>4. \A i \in 0 .. N : i \in G
      <3> HIDE DEF G
      <3> QED  BY <1>1, <2>3, UpTo
    <2>5. \A i \in 0 .. N : g[i] = IF i = 0 THEN none ELSE Do(i, g[i - 1])
      BY <1>1, <1>5, <2>1, <2>2, <2>4
    <2> QED  BY <2>1, <2>5
  <1>8. upTo = [i \in 0 .. N |-> IF i = 0 THEN none ELSE Do(i, upTo[i - 1])]
    BY <1>7 DEF N, none, Do
  <1> HIDE DEF upTo
  <1> DEFINE G == {i \in 0 .. N : upTo[i] \in S /\ \A k \in 1 .. i : Nodes[k] \in some => upTo[i] # none}
  <1>9. 0 \in G /\ \A i \in 1 .. N : i - 1 \in G => i \in G
    <2>1. upTo[0] = none /\ 0 \in 0 .. N
      BY <1>1, <1>8
    <2>2. ASSUME NEW i \in 1 .. N, i - 1 \in G PROVE i \in G
      <3>1. upTo[i] = Do(i, upTo[i - 1]) /\ i \in 0 .. N
        BY <1>1, <1>8
      <3>2. upTo[i - 1] \in S /\ \A k \in 1 .. i - 1 : Nodes[k] \in some => upTo[i - 1] # none
        BY <2>2
      <3>3. \A k \in 1 .. i : k = i \/ k \in 1 .. i - 1
        BY <1>1
      <3> QED  BY <1>3, <3>1, <3>2, <3>3
    <2> QED  BY <1>2, <2>1, <2>2
  <1>10. \A i \in 0 .. N : i \in G
    <2> HIDE DEF G
    <2> QED  BY <1>1, <1>9, UpTo
  <1>12. N \in 0 .. N
    BY <1>1
  <1> QED  BY <1>4, <1>10, <1>11, <1>12 DEF S, none

\* The walk answers with the nearest region there is for the caller.
LEMMA PlacedOf ==
  ASSUME NEW tab \in SUBSET NodeSet, NEW req, req.country \in Countries, req.key \in Nat
  PROVE  Nearest(tab, req, Resolve(tab, req))
  <1> DEFINE start == Start(req)
             c     == Chain(start)
             lc    == Len(c)
             w     == Within(start)
             here(r) == {n \in tab : NodeRegion[n] = r /\ req.service \in Serves[n]}
             pool(r) == IF req.tester /\ here(r) \cap TestNodes # {} THEN here(r) \cap TestNodes
                        ELSE here(r) \ TestNodes
             Usable(r) == r # Home /\ \E n \in tab :
               NodeRegion[n] = r /\ req.service \in Serves[n] /\ (n \in TestNodes => req.tester)
             At(i) == Eligible(tab, c[i], req.service, req.tester)
             Stops == {i \in 1 .. lc : c[i] = Home \/ At(i) # <<>>}
             stop  == CHOOSE i \in Stops : \A j \in Stops : i <= j
             node  == At(stop)[1 + (req.key % Len(At(stop)))]
             res   == IF Stops = {} \/ c[stop] = Home THEN AtHome
                      ELSE [region |-> c[stop], node |-> node,
                            via |-> IF stop > Len(start) THEN "fallback"
                                    ELSE IF req.token # NoToken THEN "explicit" ELSE "country"]
  <1>1. start \in Seq(Regions)
    BY StartOf
  <1>2. Resolve(tab, req) = res
    BY DEF Resolve
  <1>3. Nearest(tab, req, res) =
          IF res.node = NoNode
          THEN \A n \in 0 .. Far : (\E r \in w[n] : Usable(r)) => Home \in w[n]
          ELSE /\ Usable(res.region) /\ NodeRegion[res.node] = res.region /\ res.node \in tab
               /\ res.node \in TestNodes => req.tester
               /\ \E n \in 0 .. Far :
                    /\ res.region \in w[n]
                    /\ n > 0 => \A r \in w[n - 1] : r # Home /\ ~Usable(r)
    <2> HIDE DEF res
    <2> QED  BY DEF Nearest
  <1>4. \A i : At(i) = InOrder(pool(c[i]))
    BY DEF Eligible
  <1> HIDE DEF start, c, w, At
  <1>5. Layered(start, c) /\ c \in Seq(Regions) /\ lc \in Nat /\ lc <= Far /\ Far \in Nat
    BY <1>1, ChainLayers, RegionsFinite DEF c, Layered
  <1>6. \A n \in 0 .. Far : \E k \in 0 .. lc : w[n] = Firsts(c, k) /\ (k = lc \/ n <= k)
    BY <1>1, <1>5, WithinLayers DEF w
  <1>7. \A r : pool(r) \in SUBSET NodeSet /\ pool(r) \subseteq here(r) /\ \A n \in pool(r) : n \in TestNodes => req.tester
    OBVIOUS
  <1>8. \A r : Usable(r) => pool(r) # {}
    OBVIOUS
  <1>9. \A r : r # Home /\ pool(r) # {} => Usable(r)
    BY <1>7
  <1> HIDE DEF pool
  <1>10. \A i : At(i) \in Seq(pool(c[i])) /\ (pool(c[i]) # {} => At(i) # <<>>)
    <2> SUFFICES ASSUME NEW i PROVE At(i) \in Seq(pool(c[i])) /\ (pool(c[i]) # {} => At(i) # <<>>)
      OBVIOUS
    <2> DEFINE some == pool(c[i])
    <2>1. some \in SUBSET NodeSet /\ At(i) = InOrder(some)
      BY <1>4, <1>7
    <2> HIDE DEF some
    <2>2. At(i) \in Seq(some) /\ (some # {} => At(i) # <<>>)
      BY <2>1, InOrderOf
    <2> QED  BY <2>2 DEF some
  <1>11. \A i : At(i) # <<>> => /\ Len(At(i)) \in Nat \ {0}
                                /\ \A k \in 1 .. Len(At(i)) : At(i)[k] \in pool(c[i])
    BY <1>10
  <1>12. \A i : At(i) # <<>> => pool(c[i]) # {}
    <2> SUFFICES ASSUME NEW i, At(i) # <<>> PROVE pool(c[i]) # {}
      OBVIOUS
    <2>1. 1 \in 1 .. Len(At(i))
      BY <1>11
    <2> QED  BY <1>11, <2>1
  <1>13. \A i \in 1 .. lc : Usable(c[i]) => i \in Stops
    BY <1>8, <1>10
  <1>14. \A i \in Stops : i \in 1 .. lc /\ (c[i] = Home \/ Usable(c[i]))
    BY <1>9, <1>12
  <1>15. Stops # {} => stop \in Stops /\ \A j \in Stops : stop <= j
    <2> SUFFICES ASSUME Stops # {} PROVE stop \in Stops /\ \A j \in Stops : stop <= j
      OBVIOUS
    <2>1. Stops \in SUBSET Nat
      BY <1>5
    <2> HIDE DEF Stops
    <2>2. \E i \in Stops : \A j \in Stops : i <= j
      BY <2>1, LeastNumber
    <2> QED  BY <2>2
  <1>16. \A i \in Stops : c[i] # Home => At(i) # <<>>
    OBVIOUS
  <1>17. \A n \in 0 .. Far : \A r \in w[n] : \E k \in 0 .. lc : \E i \in 1 .. k : w[n] = Firsts(c, k) /\ r = c[i] /\ i \in 1 .. lc
    <2> SUFFICES ASSUME NEW n \in 0 .. Far, NEW r \in w[n]
                 PROVE  \E k \in 0 .. lc : \E i \in 1 .. k : w[n] = Firsts(c, k) /\ r = c[i] /\ i \in 1 .. lc
      OBVIOUS
    <2>1. PICK k \in 0 .. lc : w[n] = Firsts(c, k)
      BY <1>6
    <2>2. PICK i \in 1 .. k : r = c[i]
      BY <2>1 DEF Firsts
    <2>3. i \in 1 .. lc
      <3> HIDE DEF lc
      <3> QED  BY <1>5
    <2> QED  BY <2>1, <2>2, <2>3
  <1>18. CASE Stops = {} \/ c[stop] = Home
    <2>1. res.node = NoNode
      BY <1>18 DEF AtHome
    <2>2. ASSUME NEW n \in 0 .. Far, NEW r \in w[n], Usable(r) PROVE Home \in w[n]
      <3>6. PICK k \in 0 .. lc : \E i \in 1 .. k : w[n] = Firsts(c, k) /\ r = c[i] /\ i \in 1 .. lc
        BY <1>17
      <3>1. PICK i \in 1 .. k : w[n] = Firsts(c, k) /\ r = c[i] /\ i \in 1 .. lc
        BY <3>6
      <3>2. i \in Stops
        BY <1>13, <2>2, <3>1
      <3> HIDE DEF Stops
      <3>3. c[stop] = Home /\ stop \in Stops /\ stop <= i
        BY <1>15, <1>18, <3>2
      <3>4. stop \in 1 .. lc
        BY <1>14, <3>3
      <3> HIDE DEF stop
      <3>5. stop \in 1 .. k
        BY <3>3, <3>4
      <3> QED  BY <3>1, <3>3, <3>5 DEF Firsts
    <2> HIDE DEF res, Usable
    <2> QED  BY <1>2, <1>3, <2>1, <2>2
  <1>19. CASE Stops # {} /\ c[stop] # Home
    <2>1. res.region = c[stop] /\ res.node = node
      BY <1>19
    <2>2. stop \in Stops /\ stop \in 1 .. lc /\ At(stop) # <<>> /\ Usable(c[stop])
      <3> HIDE DEF stop
      <3> QED  BY <1>14, <1>15, <1>16, <1>19
    <2> HIDE DEF res, Stops, stop
    <2>3. node \in pool(c[stop])
      <3> DEFINE len == Len(At(stop))
      <3>1. len \in Nat \ {0} /\ \A k \in 1 .. len : At(stop)[k] \in pool(c[stop])
        BY <1>11, <2>2
      <3> HIDE DEF len
      <3>2. 1 + (req.key % len) \in 1 .. len
        BY <3>1
      <3> QED  BY <3>1, <3>2 DEF len
    <2> HIDE DEF node
    <2>4. node \in tab /\ node \in NodeSet /\ NodeRegion[node] = c[stop] /\ (node \in TestNodes => req.tester)
      BY <1>7, <2>3
    <2>5. node # NoNode
      BY <2>4, RoutingAssumption
    <2> DEFINE D == {n \in 0 .. Far : c[stop] \in w[n]}
    <2>6. D # {} /\ D \in SUBSET Nat
      <3>1. PICK k \in 0 .. lc : w[Far] = Firsts(c, k) /\ (k = lc \/ Far <= k)
        BY <1>5, <1>6
      <3>2. k = lc /\ Far \in 0 .. Far
        BY <1>5, <3>1
      <3>3. c[stop] \in w[Far]
        BY <2>2, <3>1, <3>2 DEF Firsts
      <3> QED  BY <1>5, <3>2, <3>3
    <2>7. PICK n \in D : \A m \in D : n <= m
      <3> HIDE DEF D
      <3> QED  BY <2>6, LeastNumber
    <2>8. ASSUME n > 0, NEW r \in w[n - 1] PROVE r # Home /\ ~Usable(r)
      <3>1. n - 1 \in 0 .. Far /\ ~ (n <= n - 1) /\ n - 1 \notin D
        BY <1>5, <2>7, <2>8
      <3>2. c[stop] \notin w[n - 1]
        BY <3>1
      <3>7. PICK k \in 0 .. lc : \E i \in 1 .. k : w[n - 1] = Firsts(c, k) /\ r = c[i] /\ i \in 1 .. lc
        BY <1>17, <2>8, <3>1
      <3>3. PICK i \in 1 .. k : w[n - 1] = Firsts(c, k) /\ r = c[i] /\ i \in 1 .. lc
        BY <3>7
      <3>4. stop \notin 1 .. k
        BY <3>2, <3>3 DEF Firsts
      <3>5. ~ (stop <= i)
        <4> HIDE DEF lc
        <4> QED  BY <1>5, <2>2, <3>3, <3>4
      <3>6. i \notin Stops
        BY <1>15, <1>19, <3>5
      <3> QED  BY <1>13, <3>3, <3>6 DEF Stops
    <2>9. n \in 0 .. Far /\ c[stop] \in w[n]
      BY <2>7
    <2> HIDE DEF D, Usable
    <2> QED  BY <1>2, <1>3, <2>1, <2>2, <2>4, <2>5, <2>8, <2>9
  <1> QED  BY <1>18, <1>19

-----------------------------------------------------------------------------
(* Federation                                                              *)

\* A flag says that its player is a tester only when the core said so.
Called ==
  /\ \A u \in Hosts :
       /\ player[u].tester => u \in told
       /\ lookup[u] # NoAnswer /\ lookup[u].tester => u \in told
       /\ cached[u] # NoAnswer /\ cached[u].tester => u \in told
  /\ \A r \in Rooms : host[r].tester => host[r].uid \in told

FederationInv == TypeOK /\ Called

\* Only a tester's session is given a test node.
LEMMA TestNodeOf ==
  ASSUME RoutingAssumption, FederationAssumption, TypeOK, NEW r \in Rooms, TurnOf(r).node \in TestNodes
  PROVE  host[r].tester
  <1> SUFFICES ASSUME ~ host[r].tester PROVE FALSE
    OBVIOUS
  <1> DEFINE req   == Request(r)
             chain == Chain(Start(req))
             here(i) == {n \in table : NodeRegion[n] = chain[i] /\ req.service \in Serves[n]}
             At(i) == Eligible(table, chain[i], req.service, req.tester)
             Stops == {i \in 1 .. Len(chain) : chain[i] = Home \/ At(i) # <<>>}
             stop  == CHOOSE i \in Stops : \A j \in Stops : i <= j
  <1>1. NoNode \notin TestNodes /\ AtHome.node = NoNode
    BY DEF RoutingAssumption, AtHome
  <1>2. table # NoTable /\ table \in SUBSET NodeSet
    BY <1>1 DEF TurnOf, TypeOK
  <1>3. req.tester = host[r].tester /\ req.key = Key[r] /\ req.key \in Nat
    BY DEF Request, FederationAssumption
  <1> HIDE DEF req, chain
  <1>4. \A i : At(i) = InOrder(here(i) \ TestNodes)
    BY <1>3 DEF Eligible
  <1>5. \A i : At(i) \in Seq(here(i) \ TestNodes)
    <2>1. \A i : here(i) \ TestNodes \in SUBSET NodeSet
      BY <1>2
    <2> HIDE DEF here, At
    <2> SUFFICES ASSUME NEW i PROVE At(i) \in Seq(here(i) \ TestNodes)
      OBVIOUS
    <2>2. InOrder(here(i) \ TestNodes) \in Seq(here(i) \ TestNodes)
      BY <2>1, InOrderOf
    <2> QED  BY <1>4, <2>2
  <1> HIDE DEF At, here
  <1> DEFINE res == IF Stops = {} \/ chain[stop] = Home THEN AtHome
                    ELSE [region |-> chain[stop], node |-> At(stop)[1 + (req.key % Len(At(stop)))],
                          via |-> IF stop > Len(Start(req)) THEN "fallback"
                                  ELSE IF req.token # NoToken THEN "explicit" ELSE "country"]
  <1>6. TurnOf(r) = res
    BY <1>2 DEF TurnOf, Resolve, req, chain, At
  <1>7. Stops # {} /\ chain[stop] # Home /\ res.node = At(stop)[1 + (req.key % Len(At(stop)))]
    BY <1>1, <1>6, Zenon
  <1>8. stop \in Stops
    <2>1. Stops \in SUBSET Nat
      OBVIOUS
    <2>2. \E i \in Stops : \A j \in Stops : i <= j
      <3> HIDE DEF Stops
      <3> QED  BY <1>7, <2>1, LeastNumber
    <2> HIDE DEF Stops
    <2> QED  BY <2>2
  <1>9. At(stop) # <<>>
    BY <1>7, <1>8
  <1> HIDE DEF stop, Stops
  <1>10. At(stop)[1 + (req.key % Len(At(stop)))] \in here(stop) \ TestNodes
    <2>1. At(stop) \in Seq(here(stop) \ TestNodes) /\ Len(At(stop)) \in Nat \ {0}
      BY <1>5, <1>9
    <2>2. req.key % Len(At(stop)) \in 0 .. Len(At(stop)) - 1
      BY <1>3, <2>1
    <2>3. 1 + (req.key % Len(At(stop))) \in 1 .. Len(At(stop))
      BY <2>1, <2>2
    <2> QED  BY <2>1, <2>3
  <1> HIDE DEF res
  <1> QED  BY <1>6, <1>7, <1>10

\* Logins, the lookups they start, and the sessions created meanwhile.
LEMMA FederationStep ==
  ASSUME FederationAssumption, FederationInv, [Next]_vars
  PROVE  FederationInv'
  <1> DEFINE Flags == /\ UNCHANGED <<player, lookup, cached, told, host>>
  <1>1. /\ nodes \subseteq NodeSet /\ testers \subseteq Hosts /\ moves \in 0 .. MaxMoves
        /\ table = NoTable \/ table \subseteq NodeSet
        /\ fetch \in [Fetchers -> [pc : {"idle", "asked", "answered"}, got : {NoTable} \union SUBSET NodeSet]]
        /\ player \in [Hosts -> [known : BOOLEAN, tester : BOOLEAN]]
        /\ lookup \in [Hosts -> Answers \union {NoAnswer}] /\ cached \in [Hosts -> Answers \union {NoAnswer}]
        /\ host \in [Rooms -> [uid : Hosts \union {NoHost}, tester : BOOLEAN]]
        /\ told \subseteq Hosts /\ aged \in BOOLEAN /\ inflight \in BOOLEAN
    BY DEF FederationInv, TypeOK
  <1>2. ASSUME NEW u \in Hosts, RememberPlayer(u) PROVE FederationInv'
    <2>1. /\ player' = [player EXCEPT ![u].known = TRUE] /\ UNCHANGED <<core, tableVars, host>>
          /\ \E answer \in Answers :
               /\ lookup' = [lookup EXCEPT ![u] = answer]
               /\ \/ cached[u] # NoAnswer /\ answer = cached[u] /\ UNCHANGED <<cached, told>>
                  \/ /\ cached' = [cached EXCEPT ![u] = answer]
                     /\ told' = IF answer.tester THEN told \union {u} ELSE told
                  \/ answer.tester = FALSE /\ UNCHANGED <<cached, told>>
      <3>1. /\ player' = [player EXCEPT ![u].known = TRUE] /\ UNCHANGED <<core, tableVars, host>>
            /\ \A c \in BOOLEAN : [tester |-> c] \in Answers /\ [tester |-> c].tester = c
        BY <1>2 DEF RememberPlayer, Answers
      <3>2. CASE cached[u] # NoAnswer
        <4>1. cached[u] \in Answers /\ lookup' = [lookup EXCEPT ![u] = cached[u]] /\ UNCHANGED <<cached, told>>
          BY <1>1, <1>2, <3>2 DEF RememberPlayer
        <4> QED  BY <3>1, <3>2, <4>1
      <3>3. CASE cached[u] = NoAnswer
        <4> DEFINE answer == [tester |-> u \in testers]
        <4>1. \/ /\ lookup' = [lookup EXCEPT ![u] = answer] /\ cached' = [cached EXCEPT ![u] = answer]
                 /\ told' = IF answer.tester THEN told \union {u} ELSE told
              \/ lookup' = [lookup EXCEPT ![u] = [tester |-> FALSE]] /\ UNCHANGED <<cached, told>>
          BY <1>2, <3>3 DEF RememberPlayer
        <4>2. answer \in Answers
          BY DEF Answers
        <4> HIDE DEF answer
        <4> QED  BY <3>1, <4>1, <4>2
      <3> QED  BY <3>1, <3>2, <3>3
    <2>0. PICK answer \in Answers :
            /\ lookup' = [lookup EXCEPT ![u] = answer]
            /\ \/ cached[u] # NoAnswer /\ answer = cached[u] /\ UNCHANGED <<cached, told>>
               \/ /\ cached' = [cached EXCEPT ![u] = answer]
                  /\ told' = IF answer.tester THEN told \union {u} ELSE told
               \/ answer.tester = FALSE /\ UNCHANGED <<cached, told>>
      BY <2>1
    <2>2. /\ player' \in [Hosts -> [known : BOOLEAN, tester : BOOLEAN]]
          /\ lookup' \in [Hosts -> Answers \union {NoAnswer}] /\ cached' \in [Hosts -> Answers \union {NoAnswer}]
          /\ told' \subseteq Hosts /\ told \subseteq told'
      <3>1. player' \in [Hosts -> [known : BOOLEAN, tester : BOOLEAN]]
        <4>1. /\ player \in [Hosts -> [known : BOOLEAN, tester : BOOLEAN]]
              /\ player' = [player EXCEPT ![u].known = TRUE]
          BY <1>1, <2>1
        <4> QED  BY <4>1
      <3>2. lookup' \in [Hosts -> Answers \union {NoAnswer}] /\ cached' \in [Hosts -> Answers \union {NoAnswer}]
        BY <1>1, <2>0
      <3>3. told' \subseteq Hosts /\ told \subseteq told'
        BY <1>1, <2>0
      <3> QED  BY <3>1, <3>2, <3>3
    <2>3. TypeOK'
      BY <1>1, <2>1, <2>2 DEF TypeOK, core, tableVars
    <2>4. ASSUME NEW v \in Hosts
          PROVE  /\ player'[v].tester => v \in told'
                 /\ lookup'[v] # NoAnswer /\ lookup'[v].tester => v \in told'
                 /\ cached'[v] # NoAnswer /\ cached'[v].tester => v \in told'
      <3>0. /\ player[v].tester => v \in told
            /\ lookup[v] # NoAnswer /\ lookup[v].tester => v \in told
            /\ cached[v] # NoAnswer /\ cached[v].tester => v \in told
        BY DEF FederationInv, Called
      <3>1. player'[v].tester = player[v].tester
        BY <1>1, <2>1
      <3>3. cached[u] # NoAnswer /\ cached[u].tester => u \in told
        BY DEF FederationInv, Called
      <3>2. /\ lookup'[v] # NoAnswer /\ lookup'[v].tester => v \in told'
            /\ cached'[v] # NoAnswer /\ cached'[v].tester => v \in told'
        <4>1. answer.tester => u \in told'
          BY <2>0, <3>3
        <4>2. lookup'[v] = IF v = u THEN answer ELSE lookup[v]
          BY <1>1, <2>0
        <4>3. cached'[v] = cached[v] \/ (cached'[v] = answer /\ v = u)
          BY <1>1, <2>0
        <4> QED  BY <2>2, <3>0, <4>1, <4>2, <4>3
      <3> QED  BY <2>2, <3>0, <3>1, <3>2
    <2> QED  BY <2>1, <2>2, <2>3, <2>4 DEF FederationInv, Called
  <1>3. ASSUME NEW u \in Hosts, Looked(u) PROVE FederationInv'
    <2>1. /\ lookup[u] # NoAnswer /\ lookup' = [lookup EXCEPT ![u] = NoAnswer]
          /\ player' = [player EXCEPT ![u] = [known |-> TRUE, tester |-> lookup[u].tester]]
          /\ UNCHANGED <<core, tableVars, cached, told, host>>
      BY <1>3 DEF Looked
    <2>2. /\ player' \in [Hosts -> [known : BOOLEAN, tester : BOOLEAN]]
          /\ lookup' \in [Hosts -> Answers \union {NoAnswer}]
      BY <1>1, <2>1 DEF Answers
    <2>3. TypeOK'
      BY <1>1, <2>1, <2>2 DEF TypeOK, core, tableVars
    <2>4. ASSUME NEW v \in Hosts
          PROVE  /\ player'[v].tester => v \in told'
                 /\ lookup'[v] # NoAnswer /\ lookup'[v].tester => v \in told'
      BY <1>1, <2>1 DEF FederationInv, Called
    <2> QED  BY <2>1, <2>3, <2>4 DEF FederationInv, Called
  <1>4. ASSUME NEW u \in Hosts, Uncache(u) PROVE FederationInv'
    <2>1. /\ cached' = [cached EXCEPT ![u] = NoAnswer]
          /\ UNCHANGED <<core, tableVars, player, lookup, told, host>>
      BY <1>4 DEF Uncache
    <2>2. TypeOK'
      BY <1>1, <2>1 DEF TypeOK, core, tableVars
    <2>3. \A v \in Hosts : cached'[v] # NoAnswer => cached'[v] = cached[v]
      BY <1>1, <2>1
    <2> QED  BY <2>1, <2>2, <2>3 DEF FederationInv, Called
  <1>5. ASSUME NEW r \in Rooms, NEW u \in Hosts, Create(r, u) PROVE FederationInv'
    <2>1. /\ host' = [host EXCEPT ![r] = [uid |-> u, tester |-> player[u].tester]]
          /\ UNCHANGED <<core, tableVars, loginVars>>
      BY <1>5 DEF Create
    <2>2. TypeOK'
      BY <1>1, <2>1 DEF TypeOK, core, tableVars, loginVars
    <2>3. \A q \in Rooms : host'[q].tester => host'[q].uid \in told
      BY <1>1, <2>1 DEF FederationInv, Called
    <2> QED  BY <2>1, <2>2, <2>3 DEF FederationInv, Called, loginVars
  <1>6. ASSUME Flags, nodes' \subseteq NodeSet, testers' \subseteq Hosts, moves' \in 0 .. MaxMoves,
               table' = NoTable \/ table' \subseteq NodeSet,
               fetch' \in [Fetchers -> [pc : {"idle", "asked", "answered"}, got : {NoTable} \union SUBSET NodeSet]],
               aged' \in BOOLEAN, inflight' \in BOOLEAN
        PROVE  FederationInv'
    <2>1. TypeOK'
      BY <1>1, <1>6 DEF TypeOK
    <2> QED  BY <1>6, <2>1 DEF FederationInv, Called
  <1>7. CASE Move
    BY <1>1, <1>6, <1>7 DEF Move, SymDiff, tableVars, loginVars, FederationAssumption
  <1>8. ASSUME NEW f \in Fetchers, Answered(f) \/ Refresh(f) PROVE FederationInv'
    <2> DEFINE Carried == [pc : {"idle", "asked", "answered"}, got : {NoTable} \union SUBSET NodeSet]
    <2>0. Idle \in Carried /\ [pc |-> "answered", got |-> nodes] \in Carried /\ fetch[f] \in Carried
      BY <1>1 DEF Idle
    <2>1. CASE Answered(f)
      <3>1. Flags /\ UNCHANGED <<core, table, aged>> /\ inflight' \in {inflight, FALSE}
            /\ \E c \in Carried : fetch' = [fetch EXCEPT ![f] = c]
        BY <2>0, <2>1 DEF Answered, loginVars
      <3>2. fetch' \in [Fetchers -> Carried]
        BY <1>1, <3>1
      <3> QED  BY <1>1, <1>6, <3>1, <3>2 DEF core
    <2>2. CASE Refresh(f)
      <3>1. Flags /\ UNCHANGED core /\ inflight' = FALSE /\ aged' = FALSE /\ table' = fetch[f].got
            /\ fetch' = [fetch EXCEPT ![f] = Idle]
        BY <2>2 DEF Refresh, loginVars
      <3>2. fetch' \in [Fetchers -> Carried] /\ (table' = NoTable \/ table' \subseteq NodeSet)
        BY <1>1, <2>0, <3>1
      <3> QED  BY <1>1, <1>6, <3>1, <3>2 DEF core
    <2> QED  BY <1>8, <2>1, <2>2
  <1>9. CASE Age \/ Table
    <2> DEFINE Carried == [pc : {"idle", "asked", "answered"}, got : {NoTable} \union SUBSET NodeSet]
    <2>1. Asked \in Carried
      BY DEF Asked
    <2>2. Flags /\ UNCHANGED <<core, table>> /\ aged' \in BOOLEAN /\ inflight' \in BOOLEAN
          /\ (fetch' = fetch \/ \E f \in Fetchers : fetch' = [fetch EXCEPT ![f] = Asked])
      BY <1>1, <1>9 DEF Age, Table, loginVars
    <2>3. fetch' \in [Fetchers -> Carried]
      BY <1>1, <2>1, <2>2
    <2> QED  BY <1>1, <1>6, <2>2, <2>3 DEF core
  <1>10. CASE UNCHANGED vars
    BY <1>1, <1>6, <1>10 DEF vars, core, tableVars, loginVars
  <1> QED  BY <1>2, <1>3, <1>4, <1>5, <1>7, <1>8, <1>9, <1>10, Zenon DEF Next

\* The inductive invariant of Federation.
THEOREM FederationInvariance == Spec => []FederationInv
  <1>1. Init => FederationInv
    <2> SUFFICES ASSUME Init PROVE FederationInv
      OBVIOUS
    <2>1. TypeOK
      <3>1. /\ nodes \subseteq NodeSet /\ testers \subseteq Hosts /\ moves \in 0 .. MaxMoves
            /\ table = NoTable /\ aged \in BOOLEAN /\ inflight \in BOOLEAN /\ told \subseteq Hosts
        <4>1. MaxMoves \in Nat
          BY FederationAssumption DEF FederationAssumption
        <4>2. moves = 0 /\ nodes \in SUBSET NodeSet /\ testers \in SUBSET Hosts /\ told = {}
          BY DEF Init
        <4>3. table = NoTable /\ aged \in BOOLEAN /\ inflight \in BOOLEAN
          BY Zenon DEF Init
        <4>4. moves \in 0 .. MaxMoves
          BY <4>1, <4>2
        <4> QED  BY <4>2, <4>3, <4>4, Zenon
      <3>2. fetch \in [Fetchers -> [pc : {"idle", "asked", "answered"}, got : {NoTable} \union SUBSET NodeSet]]
        BY DEF Init, Idle, Asked
      <3>3. /\ player \in [Hosts -> [known : BOOLEAN, tester : BOOLEAN]]
            /\ lookup \in [Hosts -> Answers \union {NoAnswer}] /\ cached \in [Hosts -> Answers \union {NoAnswer}]
            /\ host \in [Rooms -> [uid : Hosts \union {NoHost}, tester : BOOLEAN]]
        BY DEF Init, NoRoom
      <3> QED  BY <3>1, <3>2, <3>3 DEF TypeOK
    <2>2. Called
      BY DEF Init, Called, NoRoom
    <2> QED  BY <2>1, <2>2 DEF FederationInv
  <1>2. FederationInv /\ [Next]_vars => FederationInv'
    BY FederationAssumption, FederationStep
  <1> QED  BY <1>1, <1>2, PTL DEF Spec

\* TestersOnly (routing.go, federation.go): whatever the core, the cache and the
\* lookups did in between, a session at a test node has a host that the core
\* called a tester.
THEOREM TestersAlone == Spec => []TestersOnly
  <1>1. FederationInv => TestersOnly
    BY RoutingAssumption, FederationAssumption, TestNodeOf DEF FederationInv, Called, TestersOnly
  <1> QED  BY <1>1, FederationInvariance, PTL

\* "A region with no node walks its fallback chain, and every chain ends at
\* home": whatever the regions, their fallbacks and the cached table, the answer
\* to a request is the nearest region there is for the caller.
THEOREM NearestAnswered == Spec => []PlacedNearest
  <1>1. FederationInv => PlacedNearest
    <2> SUFFICES ASSUME FederationInv, table # NoTable, NEW c \in Countries, NEW t \in Tokens \union {NoToken},
                        NEW tester \in BOOLEAN
                 PROVE  LET req == [token |-> t, country |-> c, tester |-> tester, service |-> "turn", key |-> 1] IN
                        Nearest(table, req, Resolve(table, req))
      BY DEF PlacedNearest
    <2> DEFINE req == [token |-> t, country |-> c, tester |-> tester, service |-> "turn", key |-> 1]
    <2>1. table \in SUBSET NodeSet
      BY DEF FederationInv, TypeOK
    <2>2. req.country \in Countries /\ req.key \in Nat
      OBVIOUS
    <2> HIDE DEF req
    <2>3. Nearest(table, req, Resolve(table, req))
      BY <2>1, <2>2, PlacedOf
    <2> QED  BY <2>3 DEF req
  <1> QED  BY <1>1, FederationInvariance, PTL

-----------------------------------------------------------------------------
(* UGCStore implements OwnedDocuments                                      *)

\* Both modules count as this one does.
LEMMA SameCardinality ==
  \A D : /\ Ugc!Cardinality(D) = Cardinality(D) /\ Ugc!Promise!Cardinality(D) = Cardinality(D)
         /\ Ugc!IsFiniteSet(D) <=> IsFiniteSet(D)
  <1>1. ASSUME NEW D PROVE Ugc!Promise!Cardinality(D) = Cardinality(D)
    BY DEF Ugc!Promise!Cardinality, Cardinality
  <1>2. ASSUME NEW D PROVE Ugc!Cardinality(D) = Cardinality(D)
    BY DEF Ugc!Cardinality, Cardinality
  <1>3. ASSUME NEW D PROVE Ugc!IsFiniteSet(D) <=> IsFiniteSet(D)
    BY DEF Ugc!IsFiniteSet, IsFiniteSet
  <1> QED  BY <1>1, <1>2, <1>3

\* The promise holds of what is served and of what a restart may bring back.
UgcInv ==
  /\ Ugc!TypeOK
  /\ Ugc!Promise!Within(docs) /\ \A m \in Ugc!Written : Ugc!Promise!Within(m)

Recs == [docs : Ugc!Maps, aliases : Ugc!Maps]

\* A call writes nothing but what the process then has.
LEMMA SaveKeeps ==
  ASSUME Ugc!TypeOK, Ugc!Save \/ UNCHANGED <<dsn, pg, stored, failures>>
  PROVE  Ugc!Promise!Kept
  <1> DEFINE now == [docs |-> docs', aliases |-> aliases']
  <1>1. stored \in [{"row", "file"} -> {NoStore} \cup Recs] /\ now.docs = docs'
    BY DEF Ugc!TypeOK, Recs
  <1>2. stored' = stored \/ \E at \in {"row", "file"} : stored' = [stored EXCEPT ![at] = now]
    BY DEF Ugc!Save, Ugc!Place
  <1> HIDE DEF now
  <1>3. \A q \in {"row", "file"} : stored'[q] = stored[q] \/ stored'[q] = now
    BY <1>1, <1>2
  <1>4. Ugc!Written' \subseteq Ugc!Written \cup {docs'}
    BY <1>1, <1>3 DEF Ugc!Written
  <1> QED  BY <1>4 DEF Ugc!Promise!Kept

\* What a player's operations may stage: its own documents and those of nobody.
StagedBy(u) ==
  {st \in [ok : BOOLEAN, staged : UNION {[D -> {u, Nobody}] : D \in SUBSET Paths}] :
     \A p \in DOMAIN st.staged : UserOf[p] \in {u, Nobody} /\ docs[p] \in {u, Nobody}}

\* One operation stages no other documents.
LEMMA AppliedStages ==
  ASSUME Ugc!TypeOK, NEW u \in Players, NEW op \in Ugc!Operations, NEW st \in StagedBy(u)
  PROVE  Ugc!Applied(u, op, st) \in StagedBy(u)
  <1> DEFINE p   == op.path
             own == Ugc!Get(st.staged, p)
             new == IF ~op.set THEN Nobody ELSE IF own = Nobody THEN u ELSE own
             lay == Ugc!Over(st.staged, p, new)
  <1>1. /\ p \in Paths /\ st \in [ok : BOOLEAN, staged : UNION {[D -> {u, Nobody}] : D \in SUBSET Paths}]
        /\ \A q \in DOMAIN st.staged : UserOf[q] \in {u, Nobody} /\ docs[q] \in {u, Nobody}
    BY DEF Ugc!Operations, StagedBy
  <1>2. PICK D \in SUBSET Paths : st.staged \in [D -> {u, Nobody}]
    BY <1>1
  <1>3. CASE st.ok /\ Ugc!MayWrite(u, p, own) /\ Ugc!Holds(op.pre, own)
    <2>1. UserOf[p] \in {u, Nobody} /\ own \in {u, Nobody} /\ new \in {u, Nobody}
      BY <1>3 DEF Ugc!MayWrite
    <2>2. p \notin D => docs[p] \in {u, Nobody}
      BY <1>2, <2>1 DEF Ugc!Get
    <2>3. Ugc!Applied(u, op, st) = [st EXCEPT !.staged = lay]
      BY <1>3, Zenon DEF Ugc!Applied
    <2> HIDE DEF own, new
    <2>4. D \union {p} \in SUBSET Paths /\ lay \in [D \union {p} -> {u, Nobody}]
      BY <1>1, <1>2, <2>1 DEF Ugc!Over
    <2>5. \A q \in D \union {p} : UserOf[q] \in {u, Nobody} /\ docs[q] \in {u, Nobody}
      BY <1>1, <1>2, <2>1, <2>2
    <2> HIDE DEF lay, p
    <2>6. /\ [st EXCEPT !.staged = lay] \in [ok : BOOLEAN, staged : UNION {[E -> {u, Nobody}] : E \in SUBSET Paths}]
          /\ [st EXCEPT !.staged = lay].staged = lay /\ DOMAIN lay = D \union {p}
      BY <1>1, <2>4
    <2> QED  BY <2>3, <2>5, <2>6 DEF StagedBy
  <1>4. CASE ~ (st.ok /\ Ugc!MayWrite(u, p, own) /\ Ugc!Holds(op.pre, own))
    <2>1. Ugc!Applied(u, op, st) = [st EXCEPT !.ok = FALSE]
      BY <1>4, Zenon DEF Ugc!Applied
    <2> QED  BY <1>1, <2>1 DEF StagedBy
  <1> QED  BY <1>3, <1>4

\* Nor do many.
LEMMA StagedStages ==
  ASSUME Ugc!TypeOK, NEW u \in Players, NEW n \in Nat, NEW ops \in [1 .. n -> Ugc!Operations]
  PROVE  Ugc!Staged(u, ops) \in StagedBy(u)
  <1> DEFINE S     == StagedBy(u)
             begin == [ok |-> TRUE, staged |-> [p \in {} |-> Nobody]]
             Do(i, st) == Ugc!Applied(u, ops[i], st)
             F     == [i \in 1 .. n |-> [st \in S |-> Do(i, st)]]
  <1>1. begin \in S
    <2>1. [p \in {} |-> Nobody] \in [{} -> {u, Nobody}] /\ {} \in SUBSET Paths
      OBVIOUS
    <2> QED  BY <2>1 DEF StagedBy
  <1>2. \A i \in 1 .. n, st \in S : Do(i, st) \in S
    BY AppliedStages
  <1>3. Len(ops) = n
    OBVIOUS
  <1> DEFINE after[i \in 0 .. Len(ops)] ==
        IF i = 0 THEN [ok |-> TRUE, staged |-> [p \in {} |-> Nobody]] ELSE Ugc!Applied(u, ops[i], after[i - 1])
  <1>4. Ugc!Staged(u, ops) = after[Len(ops)]
    BY DEF Ugc!Staged
  <1> HIDE DEF S, begin, Do
  <1>5. \A i \in 1 .. n : \A st \in S : F[i][st] = Do(i, st)
    OBVIOUS
  <1> HIDE DEF F
  <1>6. PICK g : Runs(g, n, F, begin)
    BY StepsExist
  <1>7. g = [i \in 0 .. n |-> IF i = 0 THEN begin ELSE Do(i, g[i - 1])]
    <2>1. /\ g = [i \in 0 .. n |-> IF i = 0 THEN begin ELSE F[i][g[i - 1]]]
          /\ \A i \in 1 .. n : i \in 0 .. n /\ i - 1 \in 0 .. n /\ i # 0
      BY <1>6 DEF Runs
    <2>2. g[0] = begin /\ \A i \in 1 .. n : g[i] = F[i][g[i - 1]]
      BY <2>1
    <2>3. \A i \in 1 .. n : g[i - 1] \in S => g[i] \in S
      BY <1>2, <1>5, <2>2
    <2>4. \A i \in 0 .. n : g[i] \in S
      BY <1>1, <2>2, <2>3, StepsStay
    <2>5. \A i \in 0 .. n : g[i] = IF i = 0 THEN begin ELSE Do(i, g[i - 1])
      BY <1>5, <2>1, <2>2, <2>4
    <2> QED  BY <2>1, <2>5
  <1>8. after = [i \in 0 .. n |-> IF i = 0 THEN begin ELSE Do(i, after[i - 1])]
    BY <1>3, <1>7 DEF Do, begin
  <1> HIDE DEF after
  <1>9. after[0] \in S /\ \A i \in 1 .. n : after[i - 1] \in S => after[i] \in S
    BY <1>1, <1>2, <1>8
  <1>10. \A i \in 0 .. n : after[i] \in S
    BY <1>9, StepsStay
  <1> QED  BY <1>3, <1>4, <1>10 DEF S

\* A commit that is not refused is one step of the promise.
LEMMA CommitStep ==
  ASSUME Ugc!UGCStoreAssumption, UgcInv, NEW u \in Players, NEW n \in Nat,
         NEW ops \in [1 .. n -> Ugc!Operations], Ugc!CommitDocuments(u, ops)
  PROVE  Ugc!Promise!Commit(u) /\ docs' \in Ugc!Maps
  <1> DEFINE st  == Ugc!Staged(u, ops)
             lay == st.staged
  <1>1. /\ Ugc!Owned(u, lay) <= UgcMaxPerOwner /\ docs' = [p \in Paths |-> Ugc!Get(lay, p)] /\ Ugc!Save
        /\ aliases' = aliases
    BY Zenon DEF Ugc!CommitDocuments
  <1>2. st \in StagedBy(u) /\ docs \in Ugc!Maps
    BY StagedStages DEF UgcInv, Ugc!TypeOK
  <1> HIDE DEF st
  <1>3. PICK D \in SUBSET Paths : lay \in [D -> {u, Nobody}]
    BY <1>2 DEF StagedBy
  <1>4. \A p \in D : UserOf[p] \in {u, Nobody} /\ docs[p] \in {u, Nobody}
    BY <1>2, <1>3 DEF StagedBy
  <1> HIDE DEF lay
  <1>5. \A p \in Paths : docs'[p] = IF p \in D THEN lay[p] ELSE docs[p]
    BY <1>1, <1>3 DEF Ugc!Get
  <1>6. docs' \in Ugc!Maps
    BY <1>1, <1>2, <1>3, <1>5 DEF Ugc!Maps
  <1>7. \A p \in Paths : docs'[p] # docs[p] => {docs[p], docs'[p]} = {u, Nobody} /\ UserOf[p] \in {u, Nobody}
    BY <1>3, <1>4, <1>5
  <1>8. Ugc!Promise!Within(docs')
    <2> SUFFICES ASSUME NEW v \in Players PROVE Cardinality(Ugc!Promise!Owns(docs', v)) <= UgcMaxPerOwner
      BY SameCardinality DEF Ugc!Promise!Within
    <2>1. CASE v = u
      <3> DEFINE old == {p \in Paths \ DOMAIN lay : docs[p] = u}
                 put == {p \in DOMAIN lay : lay[p] = u}
      <3>1. DOMAIN lay = D
        BY <1>3
      <3>2. Ugc!Promise!Owns(docs', u) = old \union put /\ old \cap put = {}
        BY <1>3, <1>5, <3>1 DEF Ugc!Promise!Owns
      <3>3. IsFiniteSet(old) /\ IsFiniteSet(put)
        <4>1. IsFiniteSet(Paths) /\ old \in SUBSET Paths /\ put \in SUBSET Paths
          BY <3>1, SameCardinality DEF Ugc!UGCStoreAssumption
        <4> QED  BY <4>1, FS_Subset
      <3>4. Ugc!Owned(u, lay) = Cardinality(old) + Cardinality(put)
        BY SameCardinality DEF Ugc!Owned
      <3> HIDE DEF old, put
      <3>5. Cardinality(old \union put) = Cardinality(old) + Cardinality(put)
        <4>1. /\ Cardinality(old \union put) = Cardinality(old) + Cardinality(put) - Cardinality(old \cap put)
              /\ Cardinality(old) \in Nat /\ Cardinality(put) \in Nat
          BY <3>3, FS_Union, FS_CardinalityType
        <4>2. Cardinality(old \cap put) = 0
          BY <3>2, FS_EmptySet
        <4> QED  BY <4>1, <4>2
      <3> QED  BY <1>1, <2>1, <3>2, <3>4, <3>5
    <2>2. CASE v # u
      <3>1. v # Nobody
        BY DEF Ugc!UGCStoreAssumption
      <3>2. \A p \in Paths : docs'[p] = v <=> docs[p] = v
        BY <1>3, <1>4, <1>5, <2>2, <3>1
      <3>3. Ugc!Promise!Owns(docs', v) = Ugc!Promise!Owns(docs, v)
        BY <3>2 DEF Ugc!Promise!Owns
      <3> QED  BY <3>3, SameCardinality DEF UgcInv, Ugc!Promise!Within
    <2> QED  BY <2>1, <2>2
  <1>9. Ugc!Promise!Kept
    BY <1>1, SaveKeeps DEF UgcInv
  <1>10. docs' \in Ugc!Promise!Maps
    BY <1>6 DEF Ugc!Maps, Ugc!Promise!Maps
  <1> QED  BY <1>6, <1>7, <1>8, <1>9, <1>10 DEF Ugc!Promise!Commit

\* Fewer documents are not too many.
LEMMA FewerWithin ==
  ASSUME Ugc!UGCStoreAssumption, NEW m, NEW less, Ugc!Promise!Within(m),
         \A v \in Players : Ugc!Promise!Owns(less, v) \subseteq Ugc!Promise!Owns(m, v)
  PROVE  Ugc!Promise!Within(less)
  <1> SUFFICES ASSUME NEW v \in Players PROVE Cardinality(Ugc!Promise!Owns(less, v)) <= UgcMaxPerOwner
    BY SameCardinality DEF Ugc!Promise!Within
  <1> DEFINE had == Ugc!Promise!Owns(m, v)
             has == Ugc!Promise!Owns(less, v)
  <1>1. IsFiniteSet(had)
    <2>1. IsFiniteSet(Paths) /\ had \in SUBSET Paths
      BY SameCardinality DEF Ugc!UGCStoreAssumption, Ugc!Promise!Owns
    <2> QED  BY <2>1, FS_Subset
  <1>2. has \subseteq had /\ Cardinality(had) <= UgcMaxPerOwner
    BY SameCardinality DEF Ugc!Promise!Within
  <1> HIDE DEF had, has
  <1>3. IsFiniteSet(has) /\ Cardinality(has) <= Cardinality(had)
    BY <1>1, <1>2, FS_Subset
  <1>4. Cardinality(has) \in Nat /\ Cardinality(had) \in Nat /\ UgcMaxPerOwner \in Nat
    BY <1>1, <1>3, FS_CardinalityType DEF Ugc!UGCStoreAssumption
  <1>5. Cardinality(has) <= UgcMaxPerOwner
    BY <1>2, <1>3, <1>4
  <1> QED  BY <1>5 DEF has

\* Nothing is not too much.
LEMMA NothingWithin ==
  ASSUME Ugc!UGCStoreAssumption
  PROVE  Ugc!Promise!Within(Ugc!Empty)
  <1>1. \A v \in Players : Ugc!Promise!Owns(Ugc!Empty, v) = {}
    BY DEF Ugc!Empty, Ugc!Promise!Owns, Ugc!UGCStoreAssumption
  <1>2. Cardinality({}) = 0 /\ 0 <= UgcMaxPerOwner
    BY FS_EmptySet DEF Ugc!UGCStoreAssumption
  <1> QED  BY <1>1, <1>2, SameCardinality DEF Ugc!Promise!Within

\* Each step of the store is a step of the promise, and keeps the invariant.
LEMMA UgcStep ==
  ASSUME Ugc!UGCStoreAssumption, UgcInv, [Ugc!Next]_(Ugc!vars)
  PROVE  UgcInv' /\ [Ugc!Promise!Next]_(Ugc!Promise!vars)
  <1>1. /\ docs \in Ugc!Maps /\ aliases \in Ugc!Maps /\ failures \in 0 .. MaxFailures
        /\ dsn \in BOOLEAN /\ pg \in {dsn, FALSE} /\ MaxFailures \in Nat
        /\ stored \in [{"row", "file"} -> {NoStore} \cup Recs]
        /\ Ugc!Promise!Within(docs) /\ \A m \in Ugc!Written : Ugc!Promise!Within(m)
    BY DEF UgcInv, Ugc!TypeOK, Ugc!UGCStoreAssumption, Recs
  <1>2. ASSUME docs' \in Ugc!Maps, aliases' \in Ugc!Maps, Ugc!Promise!Within(docs'),
               Ugc!Save \/ UNCHANGED <<dsn, pg, stored, failures>>
        PROVE  UgcInv' /\ Ugc!Promise!Kept
    <2>1. Ugc!Promise!Kept
      BY <1>2, SaveKeeps DEF UgcInv
    <2>2. \A m \in Ugc!Written' : Ugc!Promise!Within(m)
      BY <1>1, <1>2, <2>1 DEF Ugc!Promise!Kept
    <2>3. [docs |-> docs', aliases |-> aliases'] \in Recs
      BY <1>2 DEF Recs
    <2>4. /\ stored' = stored \/ stored' = [stored EXCEPT ![Ugc!Place] = [docs |-> docs', aliases |-> aliases']]
          /\ failures' \in 0 .. MaxFailures /\ UNCHANGED <<dsn, pg>>
      BY <1>1, <1>2 DEF Ugc!Save
    <2>5. stored' \in [{"row", "file"} -> {NoStore} \cup Recs]
      BY <1>1, <2>3, <2>4
    <2>6. Ugc!TypeOK'
      BY <1>1, <1>2, <2>4, <2>5 DEF Ugc!TypeOK, Recs
    <2> QED  BY <1>2, <2>1, <2>2, <2>6 DEF UgcInv
  <1>3. ASSUME NEW u \in Players, NEW n \in 0 .. UgcMaxOps, NEW ops \in [1 .. n -> Ugc!Operations],
               Ugc!CommitDocuments(u, ops)
        PROVE  UgcInv' /\ Ugc!Promise!Commit(u)
    <2>1. Ugc!Promise!Commit(u) /\ docs' \in Ugc!Maps
      <3>1. n \in Nat
        BY DEF Ugc!UGCStoreAssumption
      <3> QED  BY <1>3, <3>1, CommitStep
    <2>2. aliases' = aliases /\ Ugc!Save
      BY <1>3, Zenon DEF Ugc!CommitDocuments
    <2>3. Ugc!Promise!Within(docs')
      BY <2>1 DEF Ugc!Promise!Commit
    <2> QED  BY <1>1, <1>2, <2>1, <2>2, <2>3
  <1>4. ASSUME NEW u \in Players, NEW p \in Paths, Ugc!CreateDocumentShortAlias(u, p)
        PROVE  UgcInv' /\ Ugc!Promise!Commit(u)
    <2>1. docs' = docs /\ aliases' \in Ugc!Maps /\ Ugc!Save
      BY <1>1, <1>4 DEF Ugc!CreateDocumentShortAlias, Ugc!Maps
    <2>2. Ugc!Promise!Within(docs')
      BY <1>1, <2>1
    <2>3. UgcInv' /\ Ugc!Promise!Kept
      BY <1>1, <1>2, <2>1, <2>2
    <2>4. docs' \in Ugc!Promise!Maps
      BY <1>1, <2>1 DEF Ugc!Maps, Ugc!Promise!Maps
    <2> QED  BY <2>1, <2>2, <2>3, <2>4 DEF Ugc!Promise!Commit
  <1>5. ASSUME NEW u \in Players, Ugc!EraseUsers(u)
        PROVE  UgcInv' /\ Ugc!Promise!Erase(u)
    <2>1. /\ docs' = [p \in Paths |-> IF u \in {docs[p], UserOf[p]} THEN Nobody ELSE docs[p]]
          /\ aliases' = [p \in Paths |->
               IF aliases[p] = u \/ docs'[p] = Nobody THEN Nobody ELSE aliases[p]]
          /\ Ugc!Save \/ UNCHANGED <<dsn, pg, stored, failures>>
      BY <1>5 DEF Ugc!EraseUsers
    <2>2. docs' \in Ugc!Maps /\ aliases' \in Ugc!Maps
      BY <1>1, <2>1 DEF Ugc!Maps
    <2>3. \A v \in Players : Ugc!Promise!Owns(docs', v) \subseteq Ugc!Promise!Owns(docs, v)
      BY <2>1 DEF Ugc!Promise!Owns, Ugc!UGCStoreAssumption
    <2>4. Ugc!Promise!Within(docs')
      BY <1>1, <2>3, FewerWithin
    <2>5. UgcInv' /\ Ugc!Promise!Kept
      BY <1>2, <2>1, <2>2, <2>4
    <2> QED  BY <2>1, <2>5 DEF Ugc!Promise!Erase
  <1>6. CASE Ugc!Restart
    <2>1. PICK opened \in BOOLEAN, readable \in BOOLEAN :
            /\ pg' = (dsn /\ opened) /\ Ugc!Load(readable) /\ UNCHANGED dsn
            /\ failures' = failures + (IF opened THEN 0 ELSE 1) + (IF readable THEN 0 ELSE 1)
            /\ failures' <= MaxFailures
      BY <1>6 DEF Ugc!Restart
    <2>2. PICK from \in {"row", "file"}, at \in {"row", "file"} :
            /\ stored' = stored \/ stored' = [stored EXCEPT ![at] = stored[from]]
            /\ \/ stored[from] # NoStore /\ docs' = stored[from].docs /\ aliases' = stored[from].aliases
               \/ docs' = Ugc!Empty /\ aliases' = Ugc!Empty
      BY <2>1 DEF Ugc!Load, Ugc!Place
    <2>3. \A q \in {"row", "file"} : stored'[q] = stored[q] \/ stored'[q] = stored[from]
      BY <1>1, <2>2
    <2>4. Ugc!Written' \subseteq Ugc!Written /\ docs' \in Ugc!Written \cup {Ugc!Empty}
      BY <1>1, <2>2, <2>3 DEF Ugc!Written
    <2>5. Ugc!Empty \in Ugc!Maps /\ Ugc!Promise!Within(Ugc!Empty)
      BY NothingWithin DEF Ugc!Empty, Ugc!Maps
    <2>6. Ugc!TypeOK'
      <3>1. docs' \in Ugc!Maps /\ aliases' \in Ugc!Maps
        BY <1>1, <2>2, <2>5 DEF Recs
      <3>2. stored' \in [{"row", "file"} -> {NoStore} \cup Recs]
        BY <1>1, <2>2
      <3>3. failures' \in 0 .. MaxFailures
        <4>1. \E c, d \in {0, 1} : failures' = failures + c + d /\ failures' <= MaxFailures
          BY <2>1
        <4> QED  BY <1>1, <4>1
      <3>4. dsn' \in BOOLEAN /\ pg' \in {dsn', FALSE}
        BY <1>1, <2>1, Zenon
      <3> QED  BY <3>1, <3>2, <3>3, <3>4 DEF Ugc!TypeOK, Recs
    <2>7. UgcInv'
      BY <1>1, <2>4, <2>5, <2>6 DEF UgcInv
    <2>8. Ugc!Promise!Restart
      BY <2>4 DEF Ugc!Promise!Restart, Ugc!Promise!Empty, Ugc!Empty
    <2> QED  BY <2>7, <2>8 DEF Ugc!Promise!Next
  <1>7. CASE UNCHANGED Ugc!vars
    <2>1. UNCHANGED <<docs, aliases, dsn, pg, stored, failures>>
      BY <1>7 DEF Ugc!vars
    <2>2. UgcInv'
      BY <1>1, <1>2, <2>1
    <2> QED  BY <2>1, <2>2 DEF Ugc!Promise!vars, Ugc!Written
  <1>8. ASSUME NEW u \in Players, Ugc!Promise!Commit(u) \/ Ugc!Promise!Erase(u) PROVE Ugc!Promise!Next
    BY <1>8 DEF Ugc!Promise!Next
  <1> QED  BY <1>3, <1>4, <1>5, <1>6, <1>7, <1>8 DEF Ugc!Next

\* The store never holds more documents of a player than the limit, nor does
\* what a restart brings back.
THEOREM UgcInvariance == ASSUME Ugc!UGCStoreAssumption PROVE Ugc!Spec => []UgcInv
  <1>1. Ugc!Init => UgcInv
    <2> SUFFICES ASSUME Ugc!Init PROVE UgcInv
      OBVIOUS
    <2>1. Ugc!TypeOK /\ Ugc!Written = {}
      BY DEF Ugc!Init, Ugc!TypeOK, Ugc!Empty, Ugc!Maps, Ugc!Written, Ugc!UGCStoreAssumption
    <2>2. Ugc!Promise!Within(docs)
      BY NothingWithin DEF Ugc!Init
    <2> QED  BY <2>1, <2>2 DEF UgcInv
  <1>2. UgcInv /\ [Ugc!Next]_(Ugc!vars) => UgcInv'
    BY UgcStep
  <1> QED  BY <1>1, <1>2, PTL DEF Ugc!Spec

\* CommitsImplemented (ugcstore.go): whatever commits hold, a document belongs to
\* its first writer and only the owner changes it; codes, erasure and failed writes
\* do nothing else, and a restart goes back to what is written in Postgres or in the
\* file, or to nothing when that cannot be read: documents may be forgotten then.
THEOREM DocumentsRefined == ASSUME Ugc!UGCStoreAssumption PROVE Ugc!Spec => CommitsImplemented
  <1>1. Ugc!Init => Ugc!Promise!Init
    BY DEF Ugc!Init, Ugc!Promise!Init, Ugc!Written, Ugc!Empty, Ugc!Promise!Empty
  <1>2. UgcInv /\ [Ugc!Next]_(Ugc!vars) => [Ugc!Promise!Next]_(Ugc!Promise!vars)
    BY UgcStep
  <1> QED  BY <1>1, <1>2, UgcInvariance, PTL DEF Ugc!Spec, Ugc!Promise!Spec, CommitsImplemented, Ugc!CommitsImplemented
=============================================================================
