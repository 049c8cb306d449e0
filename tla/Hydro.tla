--------------------------------- MODULE Hydro ---------------------------------
(***************************************************************************)
(* The small contents players keep on the server (hydro.go), their etags   *)
(* and the streams that track them.  A content's etag is its revision,     *)
(* counted in memory, written with it to the database and read back by the *)
(* next process.  Every request works under one mutex; a batch is that     *)
(* many requests.  Names are fresh, so a name is used once.                *)
(***************************************************************************)
EXTENDS Naturals, Sequences, FiniteSets

CONSTANTS
  Players, Names,
  Nobody,         \* model value
  Watchers,       \* TrackContent streams
  Targets,        \* stream -> the names it tracks
  MaxPerOwner,    \* contents one player may own: 200
  WatchCap,       \* length of a stream's channel: 16
  Failures,       \* what may fail in the database: "put", "delete", "get" (the load)
  MaxVersion      \* bound: changes of contents

\* Checked in MCServices.
HydroAssumption ==
  /\ IsFiniteSet(Names) /\ Nobody \notin Players
  /\ Targets \in [Watchers -> SUBSET Names]
  /\ Failures \subseteq {"put", "delete", "get"}
  /\ MaxPerOwner \in Nat /\ WatchCap \in Nat \ {0} /\ MaxVersion \in Nat

VARIABLES
  contents,   \* name -> [owner, shared, etag, version], owner Nobody when there is none
  rev,        \* name -> revision
  rows,       \* name -> the content as the database has it
  late,       \* names whose expire time has passed
  used,       \* names handed out
  version,    \* history: number of the last change, the identity of what a player read
  read,       \* player -> name -> what it read last: [etag, version]
  channel     \* stream -> the names told and not looked at, Closed when there is none

vars == <<contents, rev, rows, late, used, version, read, channel>>

Gone      == [owner |-> Nobody, shared |-> FALSE, etag |-> 0, version |-> 0]
Content   == [owner : Players \union {Nobody}, shared : BOOLEAN, etag : 0 .. MaxVersion, version : 0 .. MaxVersion]
Closed    == <<"closed">>
NotRead   == [etag |-> 0, version |-> 0]
Exists(n) == contents[n] # Gone
Live(n)   == Exists(n) /\ n \notin late

Init ==
  /\ contents = [n \in Names |-> Gone] /\ rows = contents
  /\ rev = [n \in Names |-> 0]
  /\ late = {} /\ used = {} /\ version = 0
  /\ read = [p \in Players |-> [n \in Names |-> NotRead]]
  /\ channel = [w \in Watchers |-> Closed]

\* store: the row follows the content, unless the database fails.
Store(n) ==
  \/ rows' = [rows EXCEPT ![n] = contents'[n]]
  \/ (IF contents'[n] = Gone THEN "delete" ELSE "put") \in Failures /\ UNCHANGED rows

\* changed: the revision, the row, and every stream whose channel has room.
Changed(n, c) ==
  /\ version < MaxVersion
  /\ version' = version + 1
  /\ rev' = [rev EXCEPT ![n] = @ + 1]
  /\ contents' = [contents EXCEPT ![n] =
       IF c = Gone THEN Gone ELSE [c EXCEPT !.etag = rev[n] + 1, !.version = version + 1]]
  /\ Store(n)
  /\ channel' = [w \in Watchers |->
       IF channel[w] # Closed /\ Len(channel[w]) < WatchCap THEN Append(channel[w], n) ELSE channel[w]]

Owned(p) == Cardinality({n \in Names : contents[n].owner = p})

\* live: an expired content goes when it is looked up; its revision stays and
\* no stream is told.
Dropped(n) ==
  /\ Exists(n) /\ n \in late
  /\ contents' = [contents EXCEPT ![n] = Gone]
  /\ Store(n)
  /\ UNCHANGED <<rev, version, channel>>

CreateContent(p, n, shared) ==
  /\ n \notin used /\ Owned(p) < MaxPerOwner
  /\ used' = used \union {n}
  /\ Changed(n, [owner |-> p, shared |-> shared, etag |-> 0, version |-> 0])
  /\ UNCHANGED <<late, read>>

\* GetContent and SearchContent.
GetContent(p, n) ==
  \/ /\ Live(n)
     /\ read' = [read EXCEPT ![p][n] = [etag |-> contents[n].etag, version |-> contents[n].version]]
     /\ UNCHANGED <<contents, rev, rows, late, used, version, channel>>
  \/ Dropped(n) /\ UNCHANGED <<late, used, read>>

MayChange(p, n, etag) ==
  /\ Live(n)
  /\ contents[n].owner = p \/ contents[n].shared
  /\ etag \in {0, contents[n].etag}       \* 0: no etag was sent

\* TransformContent, one element of BulkTransformContent.
TransformContent(p, n, etag) ==
  \/ MayChange(p, n, etag) /\ Changed(n, contents[n]) /\ UNCHANGED <<late, used, read>>
  \/ Dropped(n) /\ UNCHANGED <<late, used, read>>

\* DeleteContent, one element of a batch: the owner's alone.
DeleteContent(p, n, etag) ==
  \/ /\ contents[n].owner = p /\ MayChange(p, n, etag)
     /\ Changed(n, Gone) /\ UNCHANGED <<late, used, read>>
  \/ Dropped(n) /\ UNCHANGED <<late, used, read>>

\* The expire time of a content passes.
Pass(n) ==
  /\ n \in used \ late
  /\ late' = late \union {n}
  /\ UNCHANGED <<contents, rev, rows, used, version, read, channel>>

\* The eraser: what the player owns, its revisions and rows; no stream is told.
EraseUser(p) ==
  LET gone == {n \in Names : contents[n].owner = p} IN
  /\ gone # {}
  /\ contents' = [n \in Names |-> IF n \in gone THEN Gone ELSE contents[n]]
  /\ rev' = [n \in Names |-> IF n \in gone THEN 0 ELSE rev[n]]
  /\ \E failed \in SUBSET gone :
       /\ "delete" \in Failures \/ failed = {}
       /\ rows' = [n \in Names |-> IF n \in gone \ failed THEN Gone ELSE rows[n]]
  /\ UNCHANGED <<late, used, version, read, channel>>

-----------------------------------------------------------------------------
(* TrackContent, restart                                                   *)

TrackContent(w) ==
  /\ channel[w] = Closed
  /\ channel' = [channel EXCEPT ![w] = <<>>]
  /\ UNCHANGED <<contents, rev, rows, late, used, version, read>>

\* The stream's loop takes a name and tells its client when it is a target.
Notice(w) ==
  /\ channel[w] \notin {Closed, <<>>}
  /\ channel' = [channel EXCEPT ![w] = Tail(@)]
  /\ UNCHANGED <<contents, rev, rows, late, used, version, read>>

HangUp(w) ==
  /\ channel[w] # Closed
  /\ channel' = [channel EXCEPT ![w] = Closed]
  /\ UNCHANGED <<contents, rev, rows, late, used, version, read>>

\* mutant: revisions are counted from zero in every process
LoadedAfresh == [n \in Names |-> 0]

\* load: the etag of a content is its revision.
Loaded == [n \in Names |-> rows[n].etag]

\* The next process has the contents it could read, their rows stay all the same:
\* a list that fails is only logged, a row that cannot be parsed is skipped.
Restart == \E lost \in SUBSET Names :
  /\ "get" \in Failures \/ lost = {}
  /\ contents' = [n \in Names |-> IF n \in lost THEN Gone ELSE rows[n]]
  /\ rev' = [n \in Names |-> IF n \in lost THEN 0 ELSE Loaded[n]]
  /\ channel' = [w \in Watchers |-> Closed]
  /\ UNCHANGED <<rows, late, used, version, read>>

Next ==
  \/ \E p \in Players, n \in Names :
       \/ \E shared \in BOOLEAN : CreateContent(p, n, shared)
       \/ GetContent(p, n)
       \/ \E etag \in {0, read[p][n].etag} : TransformContent(p, n, etag) \/ DeleteContent(p, n, etag)
  \/ \E n \in Names : Pass(n)
  \/ \E p \in Players : EraseUser(p)
  \/ \E w \in Watchers : TrackContent(w) \/ Notice(w) \/ HangUp(w)
  \/ Restart
Spec == Init /\ [][Next]_vars

-----------------------------------------------------------------------------
(* Properties                                                              *)

TypeOK ==
  /\ contents \in [Names -> Content] /\ rows \in [Names -> Content]
  /\ rev \in [Names -> 0 .. MaxVersion]
  /\ late \subseteq used /\ used \subseteq Names
  /\ version \in 0 .. MaxVersion
  /\ read \in [Players -> [Names -> [etag : 0 .. MaxVersion, version : 0 .. MaxVersion]]]
  /\ channel \in [Watchers -> {Closed} \union Seq(Names)]

\* "An etag, when sent, must match" (hydro.go): the etag a player has read
\* lets it change a content only while the content is the one it read, over
\* the restarts of the server too.
EtagGuards ==
  \A p \in Players, n \in Names :
    Live(n) /\ read[p][n] # NotRead /\ contents[n].etag = read[p][n].etag
      => contents[n].version = read[p][n].version

\* "TrackContent reports, as an empty message, each change to a tracked
\* content" (hydro.go, package comment).  The code does NOT have this: a full
\* channel, an expiry and an erasure tell nobody (see the README).
ChangeTold ==
  [][\A w \in Watchers : \A n \in Targets[w] :
       channel[w] # Closed /\ channel'[w] # Closed /\ contents'[n] # contents[n]
         => \E i \in 1 .. Len(channel'[w]) : channel'[w][i] = n]_vars
=============================================================================
