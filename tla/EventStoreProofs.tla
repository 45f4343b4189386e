--------------------------- MODULE EventStoreProofs ---------------------------
(***************************************************************************)
(* Proofs about EventStore, for every set of engines, inputs, identities   *)
(* and paths.                                                              *)
(***************************************************************************)
EXTENDS EventStore, WellFoundedInduction, TLAPS

-----------------------------------------------------------------------------
(* Types of the operators the model is built from.                         *)

(* One table at a time: what may be written into it.                       *)
LEMMA LocationUpdate ==
  ASSUME NEW pr \in Projection, NEW known \in SUBSET Identities, NEW i \in Identities,
         NEW rows \in [Paths -> LocationRow \cup {None}]
  PROVE  [pr EXCEPT !.artifact = known, !.location[i] = rows] \in Projection
BY DEF Projection

(* The same for a pending download and its edge.                           *)
LEMMA EdgeUpdate ==
  ASSUME NEW pr \in Projection, NEW known \in SUBSET Identities, NEW edges \in SUBSET EdgeRow,
         NEW d \in DownloadIds, NEW row \in PendingRow \cup {None}
  PROVE  [pr EXCEPT !.artifact = known, !.edge = edges, !.pending[d] = row] \in Projection
BY DEF Projection

(* The same for a task.                                                    *)
LEMMA TaskUpdate ==
  ASSUME NEW pr \in Projection, NEW t \in Tasks, NEW row \in TaskRow
  PROVE  [pr EXCEPT !.task[t] = row] \in Projection
BY DEF Projection

(* A file event leaves the tables well formed.                             *)
LEMMA UpsertArtifactLocationType ==
  ASSUME NEW pr \in Projection, NEW ev \in FileEvent
  PROVE  UpsertArtifactLocation(pr, ev) \in Projection
<1>1. DeleteLocation(pr, ev) \in Projection
  BY DEF DeleteLocation, Projection, FileEvent, LocationRow, FileChange
<1>2. MoveLocation(pr, ev) \in Projection
  <2> DEFINE known == pr.artifact \cup {ev.identity}
             old == pr.location[ev.identity]
             rows == [p \in Paths |->
               IF p = ev.path
               THEN [at |-> ev.at, active |-> TRUE, change |-> ev.change, src |-> ev.id]
               ELSE IF old[p] = None THEN None ELSE [old[p] EXCEPT !.active = FALSE]]
  <2>1. ev.identity \in Identities /\ known \in SUBSET Identities /\ old \in [Paths -> LocationRow \cup {None}]
    BY DEF Projection, FileEvent
  <2>2. [at |-> ev.at, active |-> TRUE, change |-> ev.change, src |-> ev.id] \in LocationRow
    BY DEF FileEvent, LocationRow
  <2>3. ASSUME NEW p \in Paths, old[p] # None
        PROVE  [old[p] EXCEPT !.active = FALSE] \in LocationRow
    <3>1. old[p] \in LocationRow
      BY <2>1, <2>3
    <3>2. QED BY <3>1 DEF LocationRow
  <2>4. MoveLocation(pr, ev) =
          [pr EXCEPT !.artifact = known, !.location[ev.identity] = rows]
    BY DEF MoveLocation
  <2> HIDE DEF old
  <2>5. rows \in [Paths -> LocationRow \cup {None}]
    BY <2>2, <2>3
  <2> HIDE DEF rows, known
  <2>6. [pr EXCEPT !.artifact = known, !.location[ev.identity] = rows] \in Projection
    BY <2>1, <2>5, LocationUpdate
  <2>7. QED BY <2>4, <2>6
<1>3. QED BY <1>1, <1>2 DEF UpsertArtifactLocation

(* A download event does.                                                  *)
LEMMA StorePendingDownloadType ==
  ASSUME NEW pr \in Projection, NEW ev \in DownloadEvent
  PROVE  StorePendingDownload(pr, ev) \in Projection
BY DEF StorePendingDownload, Projection, DownloadEvent, PendingRow

(* A derived match does.                                                   *)
LEMMA AddObservedDownloadEdgeType ==
  ASSUME NEW pr \in Projection, NEW ev \in MatchEvent
  PROVE  AddObservedDownloadEdge(pr, ev) \in Projection
<1> DEFINE known == pr.artifact \cup {ev.identity}
           edges ==
             IF \E x \in pr.edge : x.identity = ev.identity /\ x.url = ev.url
             THEN pr.edge
             ELSE pr.edge \cup {[identity |-> ev.identity, url |-> ev.url,
                     downloadEvent |-> ev.downloadEvent, fileEvent |-> ev.fileEvent]}
           old == pr.pending[ev.download]
           row == IF old = None THEN None ELSE [old EXCEPT !.matched = TRUE]
<1>1. known \in SUBSET Identities /\ ev.download \in DownloadIds
  BY DEF MatchEvent, Projection
<1>2. edges \in SUBSET EdgeRow
  BY DEF Projection, MatchEvent, EdgeRow
<1>3. row \in PendingRow \cup {None}
  <2>1. old \in PendingRow \cup {None}
    BY <1>1 DEF Projection
  <2>2. QED BY <2>1 DEF PendingRow
<1>4. AddObservedDownloadEdge(pr, ev) =
        [pr EXCEPT !.artifact = known, !.edge = edges, !.pending[ev.download] = row]
  BY DEF AddObservedDownloadEdge
<1> HIDE DEF known, edges, row
<1>5. [pr EXCEPT !.artifact = known, !.edge = edges, !.pending[ev.download] = row] \in Projection
  BY <1>1, <1>2, <1>3, EdgeUpdate
<1>6. QED BY <1>4, <1>5

(* A gap does.                                                             *)
LEMMA RecordCollectorGapType ==
  ASSUME NEW pr \in Projection, NEW ev \in GapEvent
  PROVE  RecordCollectorGap(pr, ev) \in Projection
<1>1. Append(pr.gap, ev.last) \in Seq(Sequence)
  BY DEF Projection, GapEvent
<1>2. RecordCollectorGap(pr, ev) = [pr EXCEPT !.gap = Append(pr.gap, ev.last)]
  BY DEF RecordCollectorGap
<1>3. QED BY <1>1, <1>2 DEF Projection

(* A started task does.                                                    *)
LEMMA UpsertTaskType ==
  ASSUME NEW pr \in Projection, NEW ev \in TaskEvent
  PROVE  UpsertTask(pr, ev) \in Projection
<1> DEFINE old == pr.task[ev.task]
           row == IF old = None THEN [name |-> ev.name, started |-> ev.at]
                  ELSE [old EXCEPT !.name = ev.name]
<1>1. ev.task \in Tasks
  BY DEF TaskEvent
<1>2. row \in TaskRow
  <2>1. old \in TaskRow \cup {None}
    BY <1>1 DEF Projection
  <2>2. QED BY <2>1 DEF TaskRow, TaskEvent
<1>3. UpsertTask(pr, ev) = [pr EXCEPT !.task[ev.task] = row]
  BY DEF UpsertTask
<1> HIDE DEF row
<1>4. QED BY <1>1, <1>2, <1>3, TaskUpdate

(* So the projection of any v1 event is well formed.                       *)
LEMMA ProjectType ==
  ASSUME NEW pr \in Projection, NEW ev \in InputEvent \cup MatchEvent
  PROVE  Project(pr, ev) \in Projection
<1>1. CASE ev \in FileEvent
  BY <1>1, UpsertArtifactLocationType DEF Project, FileEvent
<1>2. CASE ev \in DownloadEvent
  BY <1>2, StorePendingDownloadType DEF Project, DownloadEvent
<1>3. CASE ev \in GapEvent
  BY <1>3, RecordCollectorGapType DEF Project, GapEvent
<1>4. CASE ev \in TaskEvent
  BY <1>4, UpsertTaskType DEF Project, TaskEvent
<1>5. CASE ev \in ContentEvent
  BY <1>5 DEF Project, ContentEvent
<1>6. CASE ev \in MatchEvent
  BY <1>6, AddObservedDownloadEdgeType DEF Project, MatchEvent
<1>7. QED BY <1>1, <1>2, <1>3, <1>4, <1>5, <1>6 DEF InputEvent

(* The checkpoint rows stay well formed.                                   *)
LEMMA UpsertCheckpointType ==
  ASSUME NEW cp \in [Sources -> CheckpointRow \cup {None}], NEW s \in Sources,
         NEW n \in Sequence, NEW g \in BOOLEAN
  PROVE  UpsertCheckpoint(cp, s, n, g) \in [Sources -> CheckpointRow \cup {None}]
BY DEF UpsertCheckpoint, CheckpointRow, Sequence, Larger

-----------------------------------------------------------------------------
(* The first step of ingest and of ingest_v2, and the second of ingest,    *)
(* either leave the log or append one event.                               *)

(* What is stored after an append.                                         *)
LEMMA StoredAppend ==
  ASSUME log \in Seq(Event), NEW ev \in Event, log' = Append(log, ev)
  PROVE  /\ Stored' = Stored \cup {ev}
         /\ log' \in Seq(Event)
BY DEF Stored

(* A candidate read from a joined row has the columns it should.           *)
LEMMA CandidateType ==
  ASSUME NEW pr \in Projection, NEW row \in JoinedRow, row \in JoinedTo(pr, row.download)
  PROVE  Candidate(pr, row) \in CandidateRow
<1>1. /\ pr.pending[row.download] # None
      /\ pr.location[row.identity][row.path] # None
  BY DEF JoinedTo
<1>2. /\ pr.pending[row.download] \in PendingRow
      /\ pr.location[row.identity][row.path] \in LocationRow
  BY <1>1 DEF Projection, JoinedRow
<1>3. QED
  BY <1>2 DEF Candidate, CandidateRow, JoinedRow, PendingRow, LocationRow, TextLater

(* TypeOK is inductive.                                                    *)
LEMMA TypeStep == TypeOK /\ [Next]_vars => TypeOK'
<1> SUFFICES ASSUME TypeOK, [Next]_vars
             PROVE  TypeOK'
  OBVIOUS
<1>1. ASSUME NEW e \in Engines, NEW ev \in Inputs, Ingest(e, ev)
      PROVE  TypeOK'
  <2>1. ev \in InputEvent /\ ev \in Event
    BY InputsAssumption DEF Event
  <2>2. ev.source \in Sources /\ ev.seq \in Sequence
    BY <2>1 DEF InputEvent, FileEvent, DownloadEvent, GapEvent, TaskEvent, ContentEvent
  <2>3. checkpoint' \in [Sources -> CheckpointRow \cup {None}]
    BY <1>1, <2>2, UpsertCheckpointType DEF Ingest, AppendWithProjection, TypeOK
  <2>4. log' \in Seq(Event) /\ projection' \in Projection
    BY <1>1, <2>1, ProjectType, StoredAppend DEF Ingest, AppendWithProjection, TypeOK
  <2>5. MatchPath(ev) # None => ev.path \in Paths
    BY <2>1 DEF MatchPath, InputEvent, FileEvent, DownloadEvent, GapEvent, TaskEvent, ContentEvent
  <2>6. engine' \in [Engines -> EngineState]
    BY <1>1, <2>5 DEF Ingest, TypeOK, EngineState
  <2>7. interrupted' \in SUBSET Paths /\ contended' \in SUBSET DownloadIds
    BY <1>1 DEF Ingest, TypeOK
  <2>8. QED BY <2>3, <2>4, <2>6, <2>7 DEF TypeOK
<1>2. ASSUME NEW e \in Engines, FindNothing(e) \/ TooFarApart(e)
      PROVE  TypeOK'
  BY <1>2 DEF FindNothing, TooFarApart, Settle, TypeOK, EngineState
<1>3. ASSUME NEW e \in Engines, FindRow(e)
      PROVE  TypeOK'
  <2>1. engine[e] \in [phase : {"match"}, path : Paths]
    BY <1>3 DEF FindRow, TypeOK, EngineState, Idle
  <2>2. PICK row \in NewestJoined(projection, engine[e].path) :
          /\ engine' = [engine EXCEPT ![e] =
                          [phase |-> "check", path |-> @.path,
                           candidate |-> Candidate(projection, row)]]
          /\ contended' = contended \cup {d \in {row.download} : \E o \in Engines : Carries(o, d)}
    BY <1>3 DEF FindRow
  <2>3. row \in JoinedRow /\ row \in JoinedTo(projection, row.download)
    BY DEF NewestJoined, Joined
  <2>4. Candidate(projection, row) \in CandidateRow
    BY <2>3, CandidateType DEF TypeOK
  <2>5. row.download \in DownloadIds
    BY <2>3 DEF JoinedRow
  <2>6. engine' \in [Engines -> EngineState]
    BY <2>1, <2>2, <2>4 DEF TypeOK, EngineState
  <2>7. contended' \in SUBSET DownloadIds
    BY <2>2, <2>5 DEF TypeOK
  <2>8. QED BY <1>3, <2>6, <2>7 DEF FindRow, TypeOK
<1>10. ASSUME NEW e \in Engines, FindMatch(e)
       PROVE  TypeOK'
  <2>1. engine[e].path \in Paths /\ engine[e].candidate \in CandidateRow
    BY <1>10 DEF FindMatch, TypeOK, EngineState, Idle
  <2>2. engine' \in [Engines -> EngineState]
    BY <1>10, <2>1 DEF FindMatch, TypeOK, EngineState
  <2>3. QED BY <1>10, <2>2 DEF FindMatch, TypeOK
<1>4. ASSUME NEW e \in Engines, NEW id \in DerivedIds, AppendMatch(e, id)
      PROVE  TypeOK'
  <2> DEFINE c == engine[e].candidate
             ev == [type |-> "DownloadMatched", id |-> id, at |-> c.at, download |-> c.download,
                    identity |-> c.identity, url |-> c.url,
                    downloadEvent |-> c.downloadEvent, fileEvent |-> c.fileEvent]
  <2>1. engine[e] \in [phase : {"check", "derive"}, path : Paths, candidate : CandidateRow]
    BY <1>4 DEF AppendMatch, TypeOK, EngineState, Idle
  <2>2. ev \in MatchEvent
    BY <2>1 DEF MatchEvent, CandidateRow
  <2>3. log' = Append(log, ev) /\ projection' = Project(projection, ev)
    BY <1>4 DEF AppendMatch
  <2> HIDE DEF ev
  <2>4. log' \in Seq(Event) /\ projection' \in Projection
    BY <2>2, <2>3, ProjectType, StoredAppend DEF TypeOK, Event
  <2>5. /\ engine' \in [Engines -> EngineState] /\ interrupted' \in SUBSET Paths
        /\ contended' \in SUBSET DownloadIds
    BY <1>4 DEF AppendMatch, Settle, TypeOK, EngineState
  <2>6. QED BY <1>4, <2>4, <2>5 DEF AppendMatch, TypeOK
<1>5. ASSUME NEW e \in Engines, NEW ev \in InputsV2, IngestV2(e, ev)
      PROVE  TypeOK'
  <2>1. ev \in EventV2 /\ ev \in Event
    BY InputsAssumption DEF Event
  <2>2. ev.source \in Sources /\ ev.seq \in Sequence /\ ev.gap \in BOOLEAN
    BY <2>1 DEF EventV2
  <2>3. checkpoint' \in [Sources -> CheckpointRow \cup {None}] /\ log' \in Seq(Event)
    BY <1>5, <2>1, <2>2, UpsertCheckpointType, StoredAppend DEF IngestV2, AppendRawV2, TypeOK
  <2>4. QED BY <1>5, <2>3 DEF IngestV2, AppendRawV2, TypeOK
<1>6. ASSUME NEW e \in Engines, NEW s \in Sources, NEW n \in ReconciledAt,
             MarkCollectorReconciled(e, s, n)
      PROVE  TypeOK'
  BY <1>6, BoundsAssumption DEF MarkCollectorReconciled, TypeOK, CheckpointRow, Larger
<1>7. ASSUME NEW e \in Engines, FindFails(e) \/ Crash(e)
      PROVE  TypeOK'
  <2>1. NoCase[engine[e].path] \in Paths
    BY <1>7, PathsAssumption DEF FindFails, Crash, TypeOK, EngineState, Idle
  <2>2. QED BY <1>7, <2>1 DEF FindFails, Crash, TypeOK, EngineState
<1>8. CASE UNCHANGED vars
  BY <1>8 DEF vars, TypeOK
<1>9. QED BY <1>1, <1>2, <1>3, <1>4, <1>5, <1>6, <1>7, <1>8, <1>10 DEF Next

(* The initial tables are empty and well formed.                           *)
LEMMA TypeInit == Init => TypeOK
BY DEF Init, TypeOK, EmptyProjection, Projection, EngineState

(* The tables of ContextEngine's repository keep their shape, whatever is  *)
(* ingested, redelivered or interrupted, by any number of processes.       *)
THEOREM TypeCorrect == Spec => []TypeOK
BY TypeInit, TypeStep, PTL DEF Spec

-----------------------------------------------------------------------------
(* What one projected event does to each table.                            *)

(* A row is active after a file event only if it was and stays untouched,  *)
(* or is the row the event itself wrote.                                   *)
LEMMA FileRows ==
  ASSUME NEW pr \in Projection, NEW ev \in FileEvent, NEW i \in Identities, NEW p \in Paths,
         UpsertArtifactLocation(pr, ev).location[i][p] # None,
         UpsertArtifactLocation(pr, ev).location[i][p].active
  PROVE  \/ /\ UpsertArtifactLocation(pr, ev).location[i][p] = pr.location[i][p]
            /\ ev.change = "Deleted" \/ i # ev.identity
         \/ /\ i = ev.identity /\ p = ev.path /\ ev.change # "Deleted"
            /\ UpsertArtifactLocation(pr, ev).location[i][p].src = ev.id
            /\ UpsertArtifactLocation(pr, ev).location[i][p].at = ev.at
<1>1. CASE ev.change = "Deleted"
  <2>1. pr.location \in [Identities -> [Paths -> LocationRow \cup {None}]]
    BY DEF Projection
  <2>2. QED BY <1>1, <2>1 DEF UpsertArtifactLocation, DeleteLocation, Projection, FileEvent
<1>2. CASE ev.change # "Deleted"
  <2>1. UpsertArtifactLocation(pr, ev).location =
          [pr.location EXCEPT ![ev.identity] =
             [q \in Paths |->
                IF q = ev.path
                THEN [at |-> ev.at, active |-> TRUE, change |-> ev.change, src |-> ev.id]
                ELSE IF pr.location[ev.identity][q] = None THEN None
                ELSE [pr.location[ev.identity][q] EXCEPT !.active = FALSE]]]
    BY <1>2 DEF UpsertArtifactLocation, MoveLocation, Projection, FileEvent
  <2>2. pr.location \in [Identities -> [Paths -> LocationRow \cup {None}]]
    BY DEF Projection
  <2>3. CASE i # ev.identity
    BY <2>1, <2>2, <2>3
  <2>4. CASE i = ev.identity /\ p = ev.path
    BY <1>2, <2>1, <2>2, <2>4
  <2>5. CASE i = ev.identity /\ p # ev.path
    <3>1. \/ pr.location[i][p] = None
          \/ pr.location[i][p] \in LocationRow
      BY <2>2
    <3>2. UpsertArtifactLocation(pr, ev).location[i][p] =
            IF pr.location[i][p] = None THEN None
            ELSE [pr.location[i][p] EXCEPT !.active = FALSE]
      BY <2>1, <2>2, <2>5
    <3>3. QED BY <3>1, <3>2 DEF LocationRow
  <2>6. QED BY <2>3, <2>4, <2>5
<1>3. QED BY <1>1, <1>2

(* A file event touches no other table that correlation reads.             *)
LEMMA FileFrame ==
  ASSUME NEW pr \in Projection, NEW ev \in FileEvent
  PROVE  /\ UpsertArtifactLocation(pr, ev).pending = pr.pending
         /\ UpsertArtifactLocation(pr, ev).edge = pr.edge
BY DEF UpsertArtifactLocation, DeleteLocation, MoveLocation, Projection

(* Gaps, tasks and content touch none of them.                             *)
LEMMA OtherFrame ==
  ASSUME NEW pr \in Projection, NEW ev \in GapEvent \cup TaskEvent \cup ContentEvent
  PROVE  /\ Project(pr, ev).location = pr.location
         /\ Project(pr, ev).pending = pr.pending
         /\ Project(pr, ev).edge = pr.edge
<1>1. CASE ev \in GapEvent
  BY <1>1 DEF Project, RecordCollectorGap, Projection, GapEvent
<1>2. CASE ev \in TaskEvent
  BY <1>2 DEF Project, UpsertTask, Projection, TaskEvent
<1>3. CASE ev \in ContentEvent
  BY <1>3 DEF Project, ContentEvent
<1>4. QED BY <1>1, <1>2, <1>3

(* A download writes its own pending row, unmatched.                       *)
LEMMA DownloadEffect ==
  ASSUME NEW pr \in Projection, NEW ev \in DownloadEvent
  PROVE  /\ StorePendingDownload(pr, ev).location = pr.location
         /\ StorePendingDownload(pr, ev).edge = pr.edge
         /\ StorePendingDownload(pr, ev).pending =
              [pr.pending EXCEPT ![ev.download] =
                 [url |-> ev.url, path |-> ev.path, at |-> ev.at, src |-> ev.id, matched |-> FALSE]]
BY DEF StorePendingDownload, Projection, DownloadEvent

(* A match adds at most its own edge, finds one of its artifact and URL    *)
(* there, and changes nothing but the mark of its own pending row.         *)
LEMMA MatchEffect ==
  ASSUME NEW pr \in Projection, NEW ev \in MatchEvent
  PROVE  /\ AddObservedDownloadEdge(pr, ev).location = pr.location
         /\ pr.edge \subseteq AddObservedDownloadEdge(pr, ev).edge
         /\ AddObservedDownloadEdge(pr, ev).edge \subseteq
              pr.edge \cup {[identity |-> ev.identity, url |-> ev.url,
                             downloadEvent |-> ev.downloadEvent, fileEvent |-> ev.fileEvent]}
         /\ \E x \in AddObservedDownloadEdge(pr, ev).edge : x.url = ev.url
         /\ AddObservedDownloadEdge(pr, ev).pending =
              [pr.pending EXCEPT ![ev.download] =
                 IF pr.pending[ev.download] = None THEN None
                 ELSE [pr.pending[ev.download] EXCEPT !.matched = TRUE]]
<1> DEFINE own == [identity |-> ev.identity, url |-> ev.url,
                   downloadEvent |-> ev.downloadEvent, fileEvent |-> ev.fileEvent]
<1>1. AddObservedDownloadEdge(pr, ev).location = pr.location
  BY DEF AddObservedDownloadEdge, Projection
<1>2. AddObservedDownloadEdge(pr, ev).edge =
        IF \E x \in pr.edge : x.identity = ev.identity /\ x.url = ev.url
        THEN pr.edge ELSE pr.edge \cup {own}
  BY DEF AddObservedDownloadEdge, Projection
<1>3. AddObservedDownloadEdge(pr, ev).pending =
        [pr.pending EXCEPT ![ev.download] =
           IF pr.pending[ev.download] = None THEN None
           ELSE [pr.pending[ev.download] EXCEPT !.matched = TRUE]]
  BY DEF AddObservedDownloadEdge, Projection, MatchEvent
<1>4. own.url = ev.url
  OBVIOUS
<1> HIDE DEF own
<1>5. \E x \in AddObservedDownloadEdge(pr, ev).edge : x.url = ev.url
  BY <1>2, <1>4
<1>6. /\ pr.edge \subseteq AddObservedDownloadEdge(pr, ev).edge
      /\ AddObservedDownloadEdge(pr, ev).edge \subseteq pr.edge \cup {own}
  BY <1>2
<1>7. QED BY <1>1, <1>3, <1>5, <1>6 DEF own

-----------------------------------------------------------------------------
(* The shapes of a step, as the log and the tables see it.                 *)
KeepsLog == UNCHANGED <<log, projection>>

AppendsInput ==
  \E ev \in Inputs :
    /\ ev.id \notin StoredIds
    /\ log' = Append(log, ev)
    /\ projection' = Project(projection, ev)

AppendsMatch ==
  \E e \in Engines, ev \in MatchEvent :
    /\ engine[e].phase = "derive"
    /\ engine[e].candidate =
         [download |-> ev.download, identity |-> ev.identity, url |-> ev.url,
          downloadEvent |-> ev.downloadEvent, fileEvent |-> ev.fileEvent, at |-> ev.at]
    /\ ev.id \notin StoredIds
    /\ log' = Append(log, ev)
    /\ projection' = Project(projection, ev)

AppendsV2 ==
  \E ev \in InputsV2 :
    /\ ev.id \notin StoredIds
    /\ log' = Append(log, ev)
    /\ UNCHANGED projection

(* Every step has one of them.                                             *)
LEMMA StepShape ==
  ASSUME TypeOK, [Next]_vars
  PROVE  KeepsLog \/ AppendsInput \/ AppendsMatch \/ AppendsV2
<1>1. ASSUME NEW e \in Engines, NEW ev \in Inputs, Ingest(e, ev)
      PROVE  KeepsLog \/ AppendsInput
  BY <1>1 DEF Ingest, AppendWithProjection, KeepsLog, AppendsInput
<1>2. ASSUME NEW e \in Engines,
             \/ FindNothing(e) \/ FindRow(e) \/ TooFarApart(e)
             \/ FindMatch(e) \/ FindFails(e) \/ Crash(e)
      PROVE  KeepsLog
  BY <1>2 DEF FindNothing, FindRow, TooFarApart, FindMatch, FindFails, Crash, KeepsLog
<1>3. ASSUME NEW e \in Engines, NEW id \in DerivedIds, AppendMatch(e, id)
      PROVE  AppendsMatch
  <2> DEFINE c == engine[e].candidate
             ev == [type |-> "DownloadMatched", id |-> id, at |-> c.at, download |-> c.download,
                    identity |-> c.identity, url |-> c.url,
                    downloadEvent |-> c.downloadEvent, fileEvent |-> c.fileEvent]
  <2>1. engine[e] \in [phase : {"check", "derive"}, path : Paths, candidate : CandidateRow]
    BY <1>3 DEF AppendMatch, TypeOK, EngineState, Idle
  <2>2. ev \in MatchEvent
    BY <2>1 DEF MatchEvent, CandidateRow
  <2>3. c = [download |-> ev.download, identity |-> ev.identity, url |-> ev.url,
             downloadEvent |-> ev.downloadEvent, fileEvent |-> ev.fileEvent, at |-> ev.at]
    BY <2>1 DEF CandidateRow
  <2>4. /\ engine[e].phase = "derive"
        /\ ev.id \notin StoredIds
        /\ log' = Append(log, ev)
        /\ projection' = Project(projection, ev)
    BY <1>3 DEF AppendMatch
  <2> HIDE DEF ev
  <2>5. QED BY <2>2, <2>3, <2>4 DEF AppendsMatch
<1>4. ASSUME NEW e \in Engines, NEW ev \in InputsV2, IngestV2(e, ev)
      PROVE  KeepsLog \/ AppendsV2
  BY <1>4 DEF IngestV2, AppendRawV2, KeepsLog, AppendsV2
<1>5. ASSUME NEW e \in Engines, NEW s \in Sources, NEW n \in ReconciledAt,
             MarkCollectorReconciled(e, s, n)
      PROVE  KeepsLog
  BY <1>5 DEF MarkCollectorReconciled, KeepsLog
<1>6. CASE UNCHANGED vars
  BY <1>6 DEF vars, KeepsLog
<1>7. QED BY <1>1, <1>2, <1>3, <1>4, <1>5, <1>6 DEF Next

-----------------------------------------------------------------------------
(* The event of an appending step, and what is stored after it.            *)
LEMMA InputFacts ==
  ASSUME TypeOK, NEW ev \in Inputs, log' = Append(log, ev)
  PROVE  /\ ev \in InputEvent
         /\ ev \in Event
         /\ Stored' = Stored \cup {ev}
<1>1. ev \in InputEvent /\ ev \in Event
  BY InputsAssumption DEF Event
<1>2. QED BY <1>1, StoredAppend DEF TypeOK

(* The same for a derived event.                                           *)
LEMMA MatchFacts ==
  ASSUME TypeOK, NEW ev \in MatchEvent, log' = Append(log, ev)
  PROVE  Stored' = Stored \cup {ev}
BY StoredAppend DEF TypeOK, Event

(* The same for a v2 event.                                                *)
LEMMA V2Facts ==
  ASSUME TypeOK, NEW ev \in InputsV2, log' = Append(log, ev)
  PROVE  ev \in EventV2 /\ Stored' = Stored \cup {ev}
<1>1. ev \in EventV2 /\ ev \in Event
  BY InputsAssumption DEF Event
<1>2. QED BY <1>1, StoredAppend DEF TypeOK

(* Nothing stored is ever lost.                                            *)
LEMMA StoredGrows ==
  ASSUME TypeOK, [Next]_vars
  PROVE  Stored \subseteq Stored'
<1>1. CASE KeepsLog
  BY <1>1 DEF KeepsLog, Stored
<1>2. CASE AppendsInput
  BY <1>2, InputFacts DEF AppendsInput
<1>3. CASE AppendsMatch
  BY <1>3, MatchFacts DEF AppendsMatch
<1>4. CASE AppendsV2
  BY <1>4, V2Facts DEF AppendsV2
<1>5. QED BY <1>1, <1>2, <1>3, <1>4, StepShape

-----------------------------------------------------------------------------
(* UniqueIds is inductive over TypeOK: an id is appended only when it is   *)
(* not stored.                                                             *)
LEMMA UniqueIdsStep ==
  ASSUME TypeOK, UniqueIds, [Next]_vars
  PROVE  UniqueIds'
<1>1. ASSUME NEW ev, ev.id \notin StoredIds, log' = Append(log, ev)
      PROVE  UniqueIds'
  <2>1. \A i \in DOMAIN log : log[i].id # ev.id
    BY <1>1 DEF StoredIds, Stored
  <2>2. log \in Seq(Event)
    BY DEF TypeOK
  <2>3. /\ DOMAIN log' = 1 .. Len(log) + 1
        /\ DOMAIN log = 1 .. Len(log)
        /\ \A i \in DOMAIN log : log'[i] = log[i]
        /\ log'[Len(log) + 1] = ev
        /\ Len(log) \in Nat
    BY <1>1, <2>2
  <2>4. QED BY <2>1, <2>3 DEF UniqueIds
<1>2. CASE KeepsLog
  BY <1>2 DEF KeepsLog, UniqueIds
<1>3. QED
  BY <1>1, <1>2, StepShape DEF AppendsInput, AppendsMatch, AppendsV2

(* Which events touch which table, seen from a step.                       *)
LEMMA LocationCases ==
  ASSUME TypeOK, [Next]_vars
  PROVE  \/ projection'.location = projection.location
         \/ \E ev \in FileEvent :
              ev \in Stored' /\ projection' = UpsertArtifactLocation(projection, ev)
<1>1. CASE KeepsLog \/ AppendsV2
  BY <1>1 DEF KeepsLog, AppendsV2
<1>2. CASE AppendsMatch
  <2>1. PICK ev \in MatchEvent : projection' = Project(projection, ev)
    BY <1>2 DEF AppendsMatch
  <2>2. projection' = AddObservedDownloadEdge(projection, ev)
    BY <2>1 DEF Project, MatchEvent
  <2>3. QED BY <2>2, MatchEffect DEF TypeOK
<1>3. CASE AppendsInput
  <2>1. PICK ev \in Inputs : log' = Append(log, ev) /\ projection' = Project(projection, ev)
    BY <1>3 DEF AppendsInput
  <2>2. ev \in InputEvent /\ ev \in Stored'
    BY <2>1, InputFacts
  <2>3. CASE ev \in FileEvent
    BY <2>1, <2>2, <2>3 DEF Project, FileEvent
  <2>4. CASE ev \in DownloadEvent
    <3>1. projection' = StorePendingDownload(projection, ev)
      BY <2>1, <2>4 DEF Project, DownloadEvent
    <3>2. QED BY <2>4, <3>1, DownloadEffect DEF TypeOK
  <2>5. CASE ev \in GapEvent \cup TaskEvent \cup ContentEvent
    BY <2>1, <2>5, OtherFrame DEF TypeOK
  <2>6. QED BY <2>2, <2>3, <2>4, <2>5 DEF InputEvent
<1>4. QED BY <1>1, <1>2, <1>3, StepShape

(* The pending downloads and the edges change together.                    *)
LEMMA PendingCases ==
  ASSUME TypeOK, [Next]_vars
  PROVE  \/ UNCHANGED <<projection.pending, projection.edge>>
         \/ \E ev \in DownloadEvent :
              /\ ev \in Inputs
              /\ ev.id \notin StoredIds
              /\ ev \in Stored'
              /\ projection' = StorePendingDownload(projection, ev)
         \/ \E e \in Engines, ev \in MatchEvent :
              /\ engine[e].phase = "derive"
              /\ engine[e].candidate =
                   [download |-> ev.download, identity |-> ev.identity, url |-> ev.url,
                    downloadEvent |-> ev.downloadEvent, fileEvent |-> ev.fileEvent, at |-> ev.at]
              /\ projection' = AddObservedDownloadEdge(projection, ev)
<1>1. CASE KeepsLog \/ AppendsV2
  BY <1>1 DEF KeepsLog, AppendsV2
<1>2. CASE AppendsMatch
  <2>1. PICK e \in Engines, ev \in MatchEvent :
          /\ engine[e].phase = "derive"
          /\ engine[e].candidate =
               [download |-> ev.download, identity |-> ev.identity, url |-> ev.url,
                downloadEvent |-> ev.downloadEvent, fileEvent |-> ev.fileEvent, at |-> ev.at]
          /\ projection' = Project(projection, ev)
    BY <1>2 DEF AppendsMatch
  <2>2. projection' = AddObservedDownloadEdge(projection, ev)
    BY <2>1 DEF Project, MatchEvent
  <2>3. QED BY <2>1, <2>2
<1>3. CASE AppendsInput
  <2>1. PICK ev \in Inputs : /\ ev.id \notin StoredIds
                             /\ log' = Append(log, ev)
                             /\ projection' = Project(projection, ev)
    BY <1>3 DEF AppendsInput
  <2>2. ev \in InputEvent /\ ev \in Stored'
    BY <2>1, InputFacts
  <2>3. CASE ev \in FileEvent
    <3>1. projection' = UpsertArtifactLocation(projection, ev)
      BY <2>1, <2>3 DEF Project, FileEvent
    <3>2. QED BY <2>3, <3>1, FileFrame DEF TypeOK
  <2>4. CASE ev \in DownloadEvent
    <3>1. projection' = StorePendingDownload(projection, ev)
      BY <2>1, <2>4 DEF Project, DownloadEvent
    <3>2. QED BY <2>1, <2>2, <2>4, <3>1
  <2>5. CASE ev \in GapEvent \cup TaskEvent \cup ContentEvent
    BY <2>1, <2>5, OtherFrame DEF TypeOK
  <2>6. QED BY <2>2, <2>3, <2>4, <2>5 DEF InputEvent
<1>4. QED BY <1>1, <1>2, <1>3, StepShape

(* OneActiveLocation is inductive over TypeOK: only a file event touches   *)
(* locations, and one that opens a row closes the others of its artifact.  *)
LEMMA OneActiveLocationStep ==
  ASSUME TypeOK, OneActiveLocation, [Next]_vars
  PROVE  OneActiveLocation'
<1>1. CASE projection'.location = projection.location
  BY <1>1 DEF OneActiveLocation
<1>2. ASSUME NEW ev \in FileEvent, projection' = UpsertArtifactLocation(projection, ev)
      PROVE  OneActiveLocation'
  <2>1. projection \in Projection
    BY DEF TypeOK
  <2>2. SUFFICES ASSUME NEW i \in Identities, NEW p \in Paths, NEW q \in Paths,
                        projection'.location[i][p] # None,
                        projection'.location[i][p].active,
                        projection'.location[i][q] # None,
                        projection'.location[i][q].active
                 PROVE  p = q
    BY DEF OneActiveLocation
  <2>3. \/ /\ projection'.location[i][p] = projection.location[i][p]
           /\ ev.change = "Deleted" \/ i # ev.identity
        \/ i = ev.identity /\ p = ev.path /\ ev.change # "Deleted"
    BY <1>2, <2>1, <2>2, FileRows
  <2>4. \/ /\ projection'.location[i][q] = projection.location[i][q]
           /\ ev.change = "Deleted" \/ i # ev.identity
        \/ i = ev.identity /\ q = ev.path /\ ev.change # "Deleted"
    BY <1>2, <2>1, <2>2, FileRows
  <2>5. QED BY <2>2, <2>3, <2>4 DEF OneActiveLocation
<1>3. QED BY <1>1, <1>2, LocationCases

(* An active row always has the observation that opened it.                *)
LEMMA LocationsWitnessedStep ==
  ASSUME TypeOK, LocationsWitnessed, [Next]_vars
  PROVE  LocationsWitnessed'
<1>1. Stored \subseteq Stored'
  BY StoredGrows
<1>2. CASE projection'.location = projection.location
  BY <1>1, <1>2 DEF LocationsWitnessed
<1>3. CASE \E ev \in FileEvent :
             ev \in Stored' /\ projection' = UpsertArtifactLocation(projection, ev)
  <2>1. PICK ev \in FileEvent :
          ev \in Stored' /\ projection' = UpsertArtifactLocation(projection, ev)
    BY <1>3
  <2>2. SUFFICES ASSUME NEW i \in Identities, NEW p \in Paths,
                        projection'.location[i][p] # None,
                        projection'.location[i][p].active
                 PROVE  \E f \in Stored' :
                          /\ f.type = "FileObserved"
                          /\ f.change # "Deleted"
                          /\ f.id = projection'.location[i][p].src
                          /\ f.identity = i
                          /\ f.path = p
                          /\ f.at = projection'.location[i][p].at
    BY DEF LocationsWitnessed
  <2>3. \/ projection'.location[i][p] = projection.location[i][p]
        \/ /\ i = ev.identity /\ p = ev.path /\ ev.change # "Deleted"
           /\ projection'.location[i][p].src = ev.id
           /\ projection'.location[i][p].at = ev.at
    BY <2>1, <2>2, FileRows DEF TypeOK
  <2>4. CASE projection'.location[i][p] = projection.location[i][p]
    BY <1>1, <2>2, <2>4 DEF LocationsWitnessed
  <2>5. CASE /\ i = ev.identity /\ p = ev.path /\ ev.change # "Deleted"
             /\ projection'.location[i][p].src = ev.id
             /\ projection'.location[i][p].at = ev.at
    <3>1. ev.type = "FileObserved"
      BY DEF FileEvent
    <3>2. QED BY <2>1, <2>5, <3>1
  <2>6. QED BY <2>3, <2>4, <2>5
<1>4. QED BY <1>2, <1>3, LocationCases

(* A known download keeps its URL, path, time and event: a further event   *)
(* of it has the same id and is a duplicate (DownloadsAssumption), and a   *)
(* match only sets the mark.                                               *)
LEMMA PendingKept ==
  ASSUME TypeOK, PendingWitnessed, [Next]_vars,
         NEW d \in DownloadIds, projection.pending[d] # None
  PROVE  /\ projection'.pending[d] # None
         /\ projection'.pending[d].url = projection.pending[d].url
         /\ projection'.pending[d].path = projection.pending[d].path
         /\ projection'.pending[d].at = projection.pending[d].at
         /\ projection'.pending[d].src = projection.pending[d].src
<1> DEFINE old == projection.pending[d]
<1>1. projection.pending \in [DownloadIds -> PendingRow \cup {None}] /\ old \in PendingRow
  BY DEF TypeOK, Projection
<1>2. CASE UNCHANGED <<projection.pending, projection.edge>>
  BY <1>2
<1>3. ASSUME NEW ev \in DownloadEvent, ev \in Inputs, ev.id \notin StoredIds,
             projection' = StorePendingDownload(projection, ev)
      PROVE  projection'.pending[d] = old
  <2>1. PICK r \in Stored \cap Inputs : r.type = "BrowserDownloadObserved" /\ r.download = d
    BY DEF PendingWitnessed
  <2>2. ev.type = "BrowserDownloadObserved" /\ r.id \in StoredIds
    BY DEF DownloadEvent, StoredIds
  <2>3. ev.download # d
    BY <1>3, <2>1, <2>2, DownloadsAssumption
  <2>4. QED BY <1>1, <1>3, <2>3, DownloadEffect DEF TypeOK
<1>4. ASSUME NEW ev \in MatchEvent, projection' = AddObservedDownloadEdge(projection, ev)
      PROVE  projection'.pending[d] = old \/ projection'.pending[d] = [old EXCEPT !.matched = TRUE]
  <2>1. projection'.pending =
          [projection.pending EXCEPT ![ev.download] =
             IF projection.pending[ev.download] = None THEN None
             ELSE [projection.pending[ev.download] EXCEPT !.matched = TRUE]]
    BY <1>4, MatchEffect DEF TypeOK
  <2>2. CASE ev.download = d
    BY <1>1, <2>1, <2>2
  <2>3. CASE ev.download # d
    BY <1>1, <2>1, <2>3
  <2>4. QED BY <2>2, <2>3
<1>5. /\ [old EXCEPT !.matched = TRUE] \in PendingRow
      /\ [old EXCEPT !.matched = TRUE].url = old.url
      /\ [old EXCEPT !.matched = TRUE].path = old.path
      /\ [old EXCEPT !.matched = TRUE].at = old.at
      /\ [old EXCEPT !.matched = TRUE].src = old.src
  BY <1>1 DEF PendingRow
<1>6. None \notin PendingRow
  BY NoneAssumption DEF PendingRow
<1>7. QED BY <1>1, <1>2, <1>3, <1>4, <1>5, <1>6, PendingCases

(* A pending row always has the download event it came from.               *)
LEMMA PendingWitnessedStep ==
  ASSUME TypeOK, PendingWitnessed, [Next]_vars
  PROVE  PendingWitnessed'
<1>1. Stored \subseteq Stored'
  BY StoredGrows
<1>2. SUFFICES ASSUME NEW d \in DownloadIds, projection'.pending[d] # None
               PROVE  \E r \in Stored' \cap Inputs :
                        /\ r.type = "BrowserDownloadObserved"
                        /\ r.download = d
                        /\ r.id = projection'.pending[d].src
                        /\ r.url = projection'.pending[d].url
                        /\ r.path = projection'.pending[d].path
                        /\ r.at = projection'.pending[d].at
  BY DEF PendingWitnessed
<1>3. CASE projection.pending[d] # None
  BY <1>1, <1>3, PendingKept DEF PendingWitnessed
<1>4. CASE projection.pending[d] = None
  <2>1. projection.pending \in [DownloadIds -> PendingRow \cup {None}]
    BY DEF TypeOK, Projection
  <2>2. ASSUME NEW ev \in MatchEvent, projection' = AddObservedDownloadEdge(projection, ev)
        PROVE  projection'.pending[d] = None
    BY <1>4, <2>1, <2>2, MatchEffect DEF TypeOK
  <2>3. PICK ev \in DownloadEvent :
          /\ ev \in Inputs
          /\ ev \in Stored'
          /\ projection' = StorePendingDownload(projection, ev)
    BY <1>2, <1>4, <2>2, PendingCases
  <2>4. projection'.pending =
          [projection.pending EXCEPT ![ev.download] =
             [url |-> ev.url, path |-> ev.path, at |-> ev.at, src |-> ev.id, matched |-> FALSE]]
    BY <2>3, DownloadEffect DEF TypeOK
  <2>5. d = ev.download
    BY <1>2, <1>4, <2>1, <2>4
  <2>6. ev.type = "BrowserDownloadObserved"
    BY DEF DownloadEvent
  <2>7. QED BY <2>1, <2>3, <2>4, <2>5, <2>6
<1>5. QED BY <1>3, <1>4

(* What a step does to the position of one engine.                         *)
LEMMA EngineCases ==
  ASSUME TypeOK, [Next]_vars, NEW e \in Engines
  PROVE  \/ engine'[e] = engine[e]
         \/ FindRow(e)
         \/ FindMatch(e)
         \/ engine'[e].phase \notin {"check", "derive"}
<1>1. ASSUME NEW x \in Engines, NEW st, engine' = [engine EXCEPT ![x] = st]
      PROVE  engine'[e] = engine[e] \/ (x = e /\ engine'[e] = st)
  BY <1>1 DEF TypeOK
<1>2. Idle.phase \notin {"check", "derive"}
  BY DEF Idle
<1>3. ASSUME NEW x \in Engines, NEW ev \in Inputs, Ingest(x, ev)
      PROVE  engine'[e] = engine[e] \/ engine'[e].phase \notin {"check", "derive"}
  <2> DEFINE st == IF MatchPath(ev) = None THEN Idle ELSE [phase |-> "match", path |-> ev.path]
  <2>1. engine' = [engine EXCEPT ![x] = st]
    BY <1>3 DEF Ingest
  <2>2. st.phase \notin {"check", "derive"}
    BY <1>2
  <2> HIDE DEF st
  <2>3. QED BY <1>1, <2>1, <2>2
<1>4. ASSUME NEW x \in Engines, FindRow(x)
      PROVE  engine'[e] = engine[e] \/ FindRow(e)
  <2>1. PICK st : engine' = [engine EXCEPT ![x] = st]
    BY <1>4 DEF FindRow
  <2>2. QED BY <1>1, <1>4, <2>1
<1>5. ASSUME NEW x \in Engines, FindMatch(x)
      PROVE  engine'[e] = engine[e] \/ FindMatch(e)
  <2>1. PICK st : engine' = [engine EXCEPT ![x] = st]
    BY <1>5 DEF FindMatch
  <2>2. QED BY <1>1, <1>5, <2>1
<1>6. ASSUME NEW x \in Engines,
             \/ FindNothing(x) \/ TooFarApart(x) \/ FindFails(x) \/ Crash(x)
             \/ \E id \in DerivedIds : AppendMatch(x, id)
      PROVE  engine'[e] = engine[e] \/ engine'[e].phase \notin {"check", "derive"}
  <2>1. engine' = [engine EXCEPT ![x] = Idle]
    BY <1>6 DEF FindNothing, TooFarApart, FindFails, Crash, AppendMatch, Settle
  <2>2. QED BY <1>1, <1>2, <2>1
<1>7. ASSUME NEW x \in Engines,
             \/ \E ev \in InputsV2 : IngestV2(x, ev)
             \/ \E s \in Sources, n \in ReconciledAt : MarkCollectorReconciled(x, s, n)
      PROVE  engine'[e] = engine[e]
  BY <1>7 DEF IngestV2, AppendRawV2, MarkCollectorReconciled
<1>8. CASE UNCHANGED vars
  BY <1>8 DEF vars
<1>9. QED BY <1>3, <1>4, <1>5, <1>6, <1>7, <1>8 DEF Next

(* A row of the join is witnessed by the two events it was written from.   *)
LEMMA RowWitnessed ==
  ASSUME Witnessed, NEW row \in JoinedRow, row \in JoinedTo(projection, row.download)
  PROVE  \E d, f \in Stored : Cites(d, f, Candidate(projection, row))
<1> DEFINE pd == projection.pending[row.download]
           loc == projection.location[row.identity][row.path]
<1>1. pd # None /\ loc # None /\ loc.active /\ NoCase[row.path] = NoCase[pd.path]
  BY DEF JoinedTo
<1>2. PICK d \in Stored :
        /\ d.type = "BrowserDownloadObserved"
        /\ d.id = pd.src /\ d.url = pd.url /\ d.path = pd.path /\ d.at = pd.at
  BY <1>1 DEF Witnessed, PendingWitnessed, JoinedRow
<1>3. PICK f \in Stored :
        /\ f.type = "FileObserved" /\ f.change # "Deleted"
        /\ f.id = loc.src /\ f.identity = row.identity /\ f.path = row.path /\ f.at = loc.at
  BY <1>1 DEF Witnessed, LocationsWitnessed, JoinedRow
<1>4. Cites(d, f, Candidate(projection, row))
  BY <1>1, <1>2, <1>3 DEF Cites, Candidate
<1>5. QED BY <1>2, <1>3, <1>4

(* What FindRow leaves behind.                                             *)
LEMMA FindRowResult ==
  ASSUME TypeOK, NEW e \in Engines, FindRow(e)
  PROVE  \E row \in JoinedRow :
           /\ row \in Joined(projection, engine[e].path)
           /\ row \in JoinedTo(projection, row.download)
           /\ engine'[e].phase = "check"
           /\ engine'[e].path = engine[e].path
           /\ engine'[e].candidate = Candidate(projection, row)
           /\ \A o \in Engines : o = e \/ engine'[o] = engine[o]
           /\ \A o \in Engines : Carries(o, row.download) => row.download \in contended'
           /\ projection' = projection
<1>1. PICK row \in NewestJoined(projection, engine[e].path) :
        /\ engine' = [engine EXCEPT ![e] =
                        [phase |-> "check", path |-> @.path,
                         candidate |-> Candidate(projection, row)]]
        /\ contended' = contended \cup {d \in {row.download} : \E o \in Engines : Carries(o, d)}
  BY DEF FindRow
<1>2. /\ row \in JoinedRow /\ row \in JoinedTo(projection, row.download)
      /\ row \in Joined(projection, engine[e].path)
  BY DEF NewestJoined, Joined
<1>3. \A o \in Engines : Carries(o, row.download) => row.download \in contended'
  BY <1>1
<1>4. QED BY <1>1, <1>2, <1>3 DEF TypeOK, FindRow

(* What FindMatch leaves behind.                                           *)
LEMMA FindMatchResult ==
  ASSUME TypeOK, NEW e \in Engines, FindMatch(e)
  PROVE  /\ engine[e].phase = "check"
         /\ engine'[e].phase = "derive"
         /\ engine'[e].candidate = engine[e].candidate
         /\ projection' = projection
BY DEF TypeOK, FindMatch

(* A candidate cites stored events when it is read, and goes on doing so   *)
(* until its event is committed.                                           *)
LEMMA CandidatesWitnessedStep ==
  ASSUME TypeOK, Witnessed, [Next]_vars
  PROVE  CandidatesWitnessed'
<1>1. Stored \subseteq Stored'
  BY StoredGrows
<1>2. ASSUME NEW e \in Engines, engine[e].phase \in {"check", "derive"},
             engine'[e].candidate = engine[e].candidate
      PROVE  /\ \E d, f \in Stored' : Cites(d, f, engine'[e].candidate)
             /\ projection'.pending[engine'[e].candidate.download] # None
             /\ projection'.pending[engine'[e].candidate.download].url = engine'[e].candidate.url
  <2>1. engine[e].candidate.download \in DownloadIds
    BY <1>2 DEF TypeOK, EngineState, Idle, CandidateRow
  <2>2. /\ \E d, f \in Stored : Cites(d, f, engine[e].candidate)
        /\ projection.pending[engine[e].candidate.download] # None
        /\ projection.pending[engine[e].candidate.download].url = engine[e].candidate.url
    BY <1>2 DEF Witnessed, CandidatesWitnessed
  <2>3. QED BY <1>1, <1>2, <2>1, <2>2, PendingKept DEF Witnessed
<1>3. ASSUME NEW e \in Engines, FindRow(e)
      PROVE  /\ \E d, f \in Stored' : Cites(d, f, engine'[e].candidate)
             /\ projection'.pending[engine'[e].candidate.download] # None
             /\ projection'.pending[engine'[e].candidate.download].url = engine'[e].candidate.url
  <2>1. PICK row \in JoinedRow :
          /\ row \in JoinedTo(projection, row.download)
          /\ engine'[e].candidate = Candidate(projection, row)
          /\ projection' = projection
    BY <1>3, FindRowResult
  <2>2. \E d, f \in Stored : Cites(d, f, Candidate(projection, row))
    BY <2>1, RowWitnessed
  <2>3. /\ Candidate(projection, row).download = row.download
        /\ Candidate(projection, row).url = projection.pending[row.download].url
    BY DEF Candidate
  <2>4. projection.pending[row.download] # None
    BY <2>1 DEF JoinedTo
  <2>5. QED BY <1>1, <2>1, <2>2, <2>3, <2>4
<1>4. SUFFICES ASSUME NEW e \in Engines, engine'[e].phase \in {"check", "derive"}
               PROVE  /\ \E d, f \in Stored' : Cites(d, f, engine'[e].candidate)
                      /\ projection'.pending[engine'[e].candidate.download] # None
                      /\ projection'.pending[engine'[e].candidate.download].url
                           = engine'[e].candidate.url
  BY DEF CandidatesWitnessed
<1>5. CASE engine'[e] = engine[e]
  BY <1>2, <1>4, <1>5
<1>6. CASE FindMatch(e)
  BY <1>2, <1>6, FindMatchResult
<1>7. QED BY <1>3, <1>4, <1>5, <1>6, EngineCases

(* An edge is only added from a candidate, which cites its events.         *)
LEMMA EdgesCitedStep ==
  ASSUME TypeOK, CandidatesWitnessed, EdgesCited, [Next]_vars
  PROVE  EdgesCited'
<1>1. Stored \subseteq Stored'
  BY StoredGrows
<1>2. ASSUME projection'.edge = projection.edge
      PROVE  EdgesCited'
  BY <1>1, <1>2 DEF EdgesCited
<1>3. ASSUME NEW ev \in DownloadEvent, projection' = StorePendingDownload(projection, ev)
      PROVE  EdgesCited'
  BY <1>2, <1>3, DownloadEffect DEF TypeOK
<1>4. ASSUME NEW e \in Engines, NEW ev \in MatchEvent,
             engine[e].phase = "derive",
             engine[e].candidate =
               [download |-> ev.download, identity |-> ev.identity, url |-> ev.url,
                downloadEvent |-> ev.downloadEvent, fileEvent |-> ev.fileEvent, at |-> ev.at],
             projection' = AddObservedDownloadEdge(projection, ev)
      PROVE  EdgesCited'
  <2> DEFINE own == [identity |-> ev.identity, url |-> ev.url,
                     downloadEvent |-> ev.downloadEvent, fileEvent |-> ev.fileEvent]
  <2>1. PICK d, f \in Stored : Cites(d, f, engine[e].candidate)
    BY <1>4 DEF CandidatesWitnessed
  <2>2. Cites(d, f, own)
    BY <1>4, <2>1 DEF Cites
  <2>3. projection'.edge \subseteq projection.edge \cup {own}
    BY <1>4, MatchEffect DEF TypeOK
  <2> HIDE DEF own
  <2>4. SUFFICES ASSUME NEW x \in projection'.edge
                 PROVE  \E dd, ff \in Stored' : Cites(dd, ff, x)
    BY DEF EdgesCited
  <2>5. CASE x = own
    BY <1>1, <2>1, <2>2, <2>5
  <2>6. CASE x \in projection.edge
    BY <1>1, <2>6 DEF EdgesCited
  <2>7. QED BY <2>3, <2>5, <2>6
<1>5. QED BY <1>2, <1>3, <1>4, PendingCases

(* A pending row is marked by the step that adds its edge, and its URL is  *)
(* still the candidate's.                                                  *)
LEMMA MatchedHasEdgeStep ==
  ASSUME TypeOK, Witnessed, MatchedHasEdge, [Next]_vars
  PROVE  MatchedHasEdge'
<1>1. projection.pending \in [DownloadIds -> PendingRow \cup {None}]
  BY DEF TypeOK, Projection
<1>2. CASE UNCHANGED <<projection.pending, projection.edge>>
  BY <1>2 DEF MatchedHasEdge
<1>3. ASSUME NEW ev \in DownloadEvent, projection' = StorePendingDownload(projection, ev)
      PROVE  MatchedHasEdge'
  <2> DEFINE row == [url |-> ev.url, path |-> ev.path, at |-> ev.at, src |-> ev.id, matched |-> FALSE]
  <2>1. /\ projection'.pending = [projection.pending EXCEPT ![ev.download] = row]
        /\ projection'.edge = projection.edge
    BY <1>3, DownloadEffect DEF TypeOK
  <2>2. ~row.matched
    OBVIOUS
  <2> HIDE DEF row
  <2>3. QED BY <1>1, <2>1, <2>2 DEF MatchedHasEdge
<1>4. ASSUME NEW e \in Engines, NEW ev \in MatchEvent,
             engine[e].phase = "derive",
             engine[e].candidate =
               [download |-> ev.download, identity |-> ev.identity, url |-> ev.url,
                downloadEvent |-> ev.downloadEvent, fileEvent |-> ev.fileEvent, at |-> ev.at],
             projection' = AddObservedDownloadEdge(projection, ev)
      PROVE  MatchedHasEdge'
  <2>1. ev.download \in DownloadIds
    BY DEF MatchEvent
  <2>2. engine[e].candidate.download = ev.download /\ engine[e].candidate.url = ev.url
    BY <1>4
  <2>3. /\ projection.pending[ev.download] # None
        /\ projection.pending[ev.download].url = ev.url
    BY <1>4, <2>2 DEF Witnessed, CandidatesWitnessed
  <2>4. /\ projection.edge \subseteq projection'.edge
        /\ \E x \in projection'.edge : x.url = ev.url
        /\ projection'.pending =
             [projection.pending EXCEPT ![ev.download] =
                IF projection.pending[ev.download] = None THEN None
                ELSE [projection.pending[ev.download] EXCEPT !.matched = TRUE]]
    BY <1>4, MatchEffect DEF TypeOK
  <2>5. projection'.pending[ev.download].url = ev.url
    BY <2>1, <2>3, PendingKept DEF Witnessed
  <2>6. SUFFICES ASSUME NEW d \in DownloadIds,
                        projection'.pending[d] # None, projection'.pending[d].matched
                 PROVE  \E x \in projection'.edge : x.url = projection'.pending[d].url
    BY DEF MatchedHasEdge
  <2>7. CASE d = ev.download
    BY <2>4, <2>5, <2>7
  <2>8. CASE d # ev.download
    <3>1. projection'.pending[d] = projection.pending[d]
      BY <1>1, <2>4, <2>8
    <3>2. QED BY <2>4, <2>6, <3>1 DEF MatchedHasEdge
  <2>9. QED BY <2>7, <2>8
<1>5. QED BY <1>2, <1>3, <1>4, PendingCases

-----------------------------------------------------------------------------
(* A checkpoint row never disappears and its sequence never goes back.     *)
LEMMA UpsertCheckpointMonotone ==
  ASSUME NEW cp \in [Sources -> CheckpointRow \cup {None}], NEW s \in Sources,
         NEW n \in Sequence, NEW g \in BOOLEAN
  PROVE  /\ \A t \in Sources : cp[t] # None
              => /\ UpsertCheckpoint(cp, s, n, g)[t] # None
                 /\ cp[t].last <= UpsertCheckpoint(cp, s, n, g)[t].last
         /\ n # None => /\ UpsertCheckpoint(cp, s, n, g)[s] # None
                        /\ n <= UpsertCheckpoint(cp, s, n, g)[s].last
<1>1. None \notin CheckpointRow
  BY NoneAssumption DEF CheckpointRow
<1>2. CASE n = None
  <2>1. ASSUME NEW t \in Sources, cp[t] # None PROVE cp[t].last <= cp[t].last
    BY <2>1 DEF CheckpointRow
  <2>2. QED BY <1>2, <2>1 DEF UpsertCheckpoint
<1>3. CASE n # None
  <2> DEFINE row == IF cp[s] = None THEN [last |-> n, required |-> g]
                    ELSE [last |-> Larger(cp[s].last, n), required |-> cp[s].required \/ g]
  <2>1. n \in Nat
    BY <1>3 DEF Sequence
  <2>2. UpsertCheckpoint(cp, s, n, g) = [cp EXCEPT ![s] = row]
    BY <1>3 DEF UpsertCheckpoint
  <2>3. /\ row \in CheckpointRow
        /\ n <= row.last
        /\ cp[s] # None => cp[s].last <= row.last
    BY <2>1 DEF CheckpointRow, Larger
  <2>4. ASSUME NEW t \in Sources, cp[t] # None PROVE cp[t].last <= cp[t].last
    BY <2>4 DEF CheckpointRow
  <2> HIDE DEF row
  <2>5. QED BY <1>1, <2>2, <2>3, <2>4
<1>4. QED BY <1>2, <1>3

(* CheckpointCoversLog is inductive over TypeOK: the transaction that      *)
(* stores an event also moves its source's checkpoint at least that far.   *)
LEMMA CheckpointCoversLogStep ==
  ASSUME TypeOK, CheckpointCoversLog, [Next]_vars
  PROVE  CheckpointCoversLog'
<1> DEFINE Kept == \A t \in Sources : checkpoint[t] # None
                     => checkpoint'[t] # None /\ checkpoint[t].last <= checkpoint'[t].last
<1>1. \A r \in Stored : r.type # "DownloadMatched" /\ r.seq # None
          => r.source \in Sources /\ r.seq \in Nat
  <2>1. Stored \subseteq Event
    BY DEF Stored, TypeOK
  <2>2. QED BY <2>1 DEF Event, InputEvent, FileEvent, DownloadEvent, GapEvent, TaskEvent,
                        ContentEvent, MatchEvent, EventV2, Sequence
<1>2. checkpoint \in [Sources -> CheckpointRow \cup {None}]
      /\ checkpoint' \in [Sources -> CheckpointRow \cup {None}]
  BY TypeStep DEF TypeOK
<1>3. ASSUME Kept
      PROVE  \A r \in Stored : r.type # "DownloadMatched" /\ r.seq # None
               => checkpoint'[r.source] # None /\ r.seq <= checkpoint'[r.source].last
  <2>1. SUFFICES ASSUME NEW r \in Stored, r.type # "DownloadMatched", r.seq # None
                 PROVE  checkpoint'[r.source] # None /\ r.seq <= checkpoint'[r.source].last
    OBVIOUS
  <2>2. checkpoint[r.source] # None /\ r.seq <= checkpoint[r.source].last
    BY <2>1 DEF CheckpointCoversLog
  <2>3. r.source \in Sources /\ r.seq \in Nat
    BY <1>1, <2>1
  <2>4. checkpoint'[r.source] # None /\ checkpoint[r.source].last <= checkpoint'[r.source].last
    BY <1>3, <2>2, <2>3
  <2>5. checkpoint[r.source].last \in Nat /\ checkpoint'[r.source].last \in Nat
    BY <1>2, <2>2, <2>3, <2>4 DEF CheckpointRow
  <2>6. QED BY <2>2, <2>3, <2>4, <2>5
<1>4. ASSUME Kept, Stored' = Stored
      PROVE  CheckpointCoversLog'
  BY <1>3, <1>4 DEF CheckpointCoversLog
<1>5. ASSUME UNCHANGED checkpoint
      PROVE  Kept
  BY <1>2, <1>5 DEF CheckpointRow
<1>6. ASSUME NEW e \in Engines, NEW ev \in Inputs, Ingest(e, ev)
      PROVE  CheckpointCoversLog'
  <2>1. ev \in InputEvent
    BY InputsAssumption
  <2>2. ev.source \in Sources /\ ev.seq \in Sequence
    BY <2>1 DEF InputEvent, FileEvent, DownloadEvent, GapEvent, TaskEvent, ContentEvent
  <2>3. PICK g \in BOOLEAN : checkpoint' = UpsertCheckpoint(checkpoint, ev.source, ev.seq, g)
    BY <1>6 DEF Ingest, AppendWithProjection
  <2>4. Kept /\ (ev.seq # None => /\ checkpoint'[ev.source] # None
                                  /\ ev.seq <= checkpoint'[ev.source].last)
    BY <1>2, <2>2, <2>3, UpsertCheckpointMonotone
  <2>5. CASE UNCHANGED log
    <3>1. Stored' = Stored
      BY <2>5 DEF Stored
    <3>2. QED BY <1>4, <2>4, <3>1
  <2>6. CASE log' = Append(log, ev)
    <3>1. Stored' = Stored \cup {ev}
      BY <2>6, InputFacts
    <3>2. QED BY <1>3, <2>4, <3>1 DEF CheckpointCoversLog
  <2>7. QED BY <1>6, <2>5, <2>6 DEF Ingest, AppendWithProjection
<1>7. ASSUME NEW e \in Engines,
             \/ FindNothing(e) \/ FindRow(e) \/ TooFarApart(e)
             \/ FindMatch(e) \/ FindFails(e) \/ Crash(e)
      PROVE  CheckpointCoversLog'
  BY <1>4, <1>5, <1>7 DEF FindNothing, FindRow, TooFarApart, FindMatch, FindFails, Crash, Stored
<1>8. ASSUME NEW e \in Engines, NEW id \in DerivedIds, AppendMatch(e, id)
      PROVE  CheckpointCoversLog'
  <2>1. UNCHANGED checkpoint
    BY <1>8 DEF AppendMatch
  <2>2. PICK ev : log' = Append(log, ev) /\ ev \in MatchEvent
    <3>1. engine[e] \in [phase : {"derive"}, path : Paths, candidate : CandidateRow]
      BY <1>8 DEF AppendMatch, TypeOK, EngineState, Idle
    <3>2. [type |-> "DownloadMatched", id |-> id, at |-> engine[e].candidate.at,
           download |-> engine[e].candidate.download, identity |-> engine[e].candidate.identity,
           url |-> engine[e].candidate.url, downloadEvent |-> engine[e].candidate.downloadEvent,
           fileEvent |-> engine[e].candidate.fileEvent] \in MatchEvent
      BY <3>1 DEF MatchEvent, CandidateRow
    <3>3. QED BY <1>8, <3>2 DEF AppendMatch
  <2>3. Stored' = Stored \cup {ev} /\ ev.type = "DownloadMatched"
    BY <2>2, MatchFacts DEF MatchEvent
  <2>4. QED BY <1>3, <1>5, <2>1, <2>3 DEF CheckpointCoversLog
<1>9. ASSUME NEW e \in Engines, NEW ev \in InputsV2, IngestV2(e, ev)
      PROVE  CheckpointCoversLog'
  <2>1. CASE UNCHANGED <<log, checkpoint>>
    BY <1>4, <1>5, <2>1 DEF Stored
  <2>2. CASE /\ log' = Append(log, ev)
             /\ checkpoint' = UpsertCheckpoint(checkpoint, ev.source, ev.seq, ev.gap)
    <3>1. ev \in EventV2 /\ Stored' = Stored \cup {ev}
      BY <2>2, V2Facts
    <3>2. ev.source \in Sources /\ ev.seq \in Sequence /\ ev.gap \in BOOLEAN
      BY <3>1 DEF EventV2
    <3>3. Kept /\ (ev.seq # None => /\ checkpoint'[ev.source] # None
                                    /\ ev.seq <= checkpoint'[ev.source].last)
      BY <1>2, <2>2, <3>2, UpsertCheckpointMonotone
    <3>4. QED BY <1>3, <3>1, <3>3 DEF CheckpointCoversLog
  <2>3. QED BY <1>9, <2>1, <2>2 DEF IngestV2, AppendRawV2
<1>10. ASSUME NEW e \in Engines, NEW s \in Sources, NEW n \in ReconciledAt,
              MarkCollectorReconciled(e, s, n)
       PROVE  CheckpointCoversLog'
  <2>1. n \in Nat /\ None \notin CheckpointRow
    BY BoundsAssumption, NoneAssumption DEF CheckpointRow
  <2>2. Kept
    <3> DEFINE row == IF checkpoint[s] = None THEN [last |-> n, required |-> FALSE]
                      ELSE [last |-> Larger(checkpoint[s].last, n), required |-> FALSE]
    <3>1. checkpoint' = [checkpoint EXCEPT ![s] = row]
      BY <1>10 DEF MarkCollectorReconciled
    <3>2. row \in CheckpointRow /\ (checkpoint[s] # None => checkpoint[s].last <= row.last)
      BY <1>2, <2>1 DEF CheckpointRow, Larger
    <3>3. ASSUME NEW t \in Sources, checkpoint[t] # None
          PROVE  checkpoint[t].last <= checkpoint[t].last
      BY <1>2, <3>3 DEF CheckpointRow
    <3> HIDE DEF row
    <3>4. QED BY <1>2, <2>1, <3>1, <3>2, <3>3
  <2>3. Stored' = Stored
    BY <1>10 DEF MarkCollectorReconciled, Stored
  <2>4. QED BY <1>4, <2>2, <2>3
<1>11. CASE UNCHANGED vars
  BY <1>4, <1>5, <1>11 DEF vars, Stored
<1>12. QED BY <1>6, <1>7, <1>8, <1>9, <1>10, <1>11 DEF Next

-----------------------------------------------------------------------------
(* The inductive invariant.  Edges cite evidence because candidates do,    *)
(* candidates because the rows they are read from do; a marked download    *)
(* has its edge because its row cannot change under a candidate.           *)
Inductive ==
  /\ TypeOK
  /\ UniqueIds
  /\ OneActiveLocation
  /\ Witnessed
  /\ EdgesCited
  /\ MatchedHasEdge
  /\ CheckpointCoversLog

(* It holds of the empty store.                                            *)
LEMMA InductiveInit == Init => Inductive
<1> SUFFICES ASSUME Init PROVE Inductive
  OBVIOUS
<1>1. TypeOK
  BY TypeInit
<1>2. /\ projection.location = [i \in Identities |-> [p \in Paths |-> None]]
      /\ projection.pending = [d \in DownloadIds |-> None]
      /\ projection.edge = {}
  BY DEF Init, EmptyProjection
<1>3. \A e \in Engines : engine[e].phase \notin {"check", "derive"}
  BY DEF Init, Idle
<1>4. Stored = {} /\ DOMAIN log = {}
  BY DEF Init, Stored
<1>5. Witnessed
  BY <1>2, <1>3 DEF Witnessed, LocationsWitnessed, PendingWitnessed, CandidatesWitnessed
<1>6. UniqueIds /\ CheckpointCoversLog
  BY <1>4 DEF UniqueIds, CheckpointCoversLog
<1>7. OneActiveLocation /\ EdgesCited /\ MatchedHasEdge
  BY <1>2 DEF OneActiveLocation, EdgesCited, MatchedHasEdge
<1>8. QED BY <1>1, <1>5, <1>6, <1>7 DEF Inductive

(* Every step keeps it.                                                    *)
LEMMA InductiveStep == Inductive /\ [Next]_vars => Inductive'
<1> SUFFICES ASSUME Inductive, [Next]_vars PROVE Inductive'
  OBVIOUS
<1>1. TypeOK'
  BY TypeStep DEF Inductive
<1>2. UniqueIds'
  BY UniqueIdsStep DEF Inductive
<1>3. OneActiveLocation'
  BY OneActiveLocationStep DEF Inductive
<1>4. Witnessed'
  BY LocationsWitnessedStep, PendingWitnessedStep, CandidatesWitnessedStep DEF Inductive, Witnessed
<1>5. EdgesCited'
  BY EdgesCitedStep DEF Inductive, Witnessed
<1>6. MatchedHasEdge'
  BY MatchedHasEdgeStep DEF Inductive
<1>7. CheckpointCoversLog'
  BY CheckpointCoversLogStep DEF Inductive
<1>8. QED BY <1>1, <1>2, <1>3, <1>4, <1>5, <1>6, <1>7 DEF Inductive

(* So it holds always.                                                     *)
LEMMA InductiveAlways == Spec => []Inductive
BY InductiveInit, InductiveStep, PTL DEF Spec

(* INSERT OR IGNORE keeps event ids unique for any number of processes and *)
(* redeliveries.                                                           *)
THEOREM IdsUnique == Spec => []UniqueIds
<1>1. Inductive => UniqueIds
  BY DEF Inductive
<1>2. QED BY <1>1, InductiveAlways, PTL

(* The partial index one_active_location_per_artifact can never abort a    *)
(* transaction of apply_command.                                           *)
THEOREM ActiveLocationUnique == Spec => []OneActiveLocation
<1>1. Inductive => OneActiveLocation
  BY DEF Inductive
<1>2. QED BY <1>1, InductiveAlways, PTL

(* Whatever commits between the two queries of find_download_match and the *)
(* derived event, and wherever a process dies, an edge cites stored events *)
(* of its URL, its file and one path.                                      *)
THEOREM EdgesAlwaysCited == Spec => []EdgesCited
<1>1. Inductive => EdgesCited
  BY DEF Inductive
<1>2. QED BY <1>1, InductiveAlways, PTL

(* The rows that find_download_match joins and the candidates an engine    *)
(* carries across its two transactions always have their stored events.    *)
THEOREM RowsAlwaysWitnessed == Spec => []Witnessed
<1>1. Inductive => Witnessed
  BY DEF Inductive
<1>2. QED BY <1>1, InductiveAlways, PTL

(* No download is marked as matched without its edge, also when two        *)
(* processes derive matches at once.                                       *)
THEOREM MatchedAlwaysHasEdge == Spec => []MatchedHasEdge
<1>1. Inductive => MatchedHasEdge
  BY DEF Inductive
<1>2. QED BY <1>1, InductiveAlways, PTL

(* collector_checkpoint is never behind the stored events of its source,   *)
(* in whatever order v1 and v2 events and reconciliations arrive.          *)
THEOREM CheckpointAlwaysCovers == Spec => []CheckpointCoversLog
<1>1. Inductive => CheckpointCoversLog
  BY DEF Inductive
<1>2. QED BY <1>1, InductiveAlways, PTL

(* A step leaves log and tables alone, or appends exactly one event.       *)
LEMMA ImmutableStep ==
  ASSUME TypeOK, [Next]_vars
  PROVE  /\ Len(log) <= Len(log')
         /\ \A i \in DOMAIN log : log'[i] = log[i]
         /\ log' = log => projection' = projection
<1>1. log \in Seq(Event)
  BY DEF TypeOK
<1>2. ASSUME NEW ev, log' = Append(log, ev)
      PROVE  /\ Len(log) <= Len(log')
             /\ \A i \in DOMAIN log : log'[i] = log[i]
             /\ log' # log
  BY <1>1, <1>2
<1>3. CASE KeepsLog
  BY <1>1, <1>3 DEF KeepsLog
<1>4. QED BY <1>2, <1>3, StepShape DEF AppendsInput, AppendsMatch, AppendsV2

(* ADR 0002: raw events are immutable, and only a newly stored event       *)
(* changes what was projected.                                             *)
THEOREM RawEventsStay == Spec => RawEventsImmutable
<1>1. TypeOK /\ [Next]_vars =>
        [ /\ Len(log) <= Len(log')
          /\ \A i \in DOMAIN log : log'[i] = log[i]
          /\ log' = log => projection' = projection ]_vars
  BY ImmutableStep
<1>2. QED BY <1>1, TypeCorrect, PTL DEF Spec, RawEventsImmutable

-----------------------------------------------------------------------------
(* The row of a checkpoint stays, its sequence does not go back, and its   *)
(* flag is cleared by mark_collector_reconciled alone.                     *)
CheckpointKept ==
  \A s \in Sources : checkpoint[s] # None =>
    /\ checkpoint'[s] # None
    /\ checkpoint[s].last <= checkpoint'[s].last
    /\ checkpoint[s].required /\ ~checkpoint'[s].required
         => \E e \in Engines, n \in ReconciledAt : MarkCollectorReconciled(e, s, n)

(* The transaction that stores a numbered gap sets the flag of its source. *)
GapFlags ==
  \A i \in DOMAIN log' \ DOMAIN log :
    log'[i].type = "CollectorGap" /\ log'[i].seq # None
      => checkpoint'[log'[i].source] # None /\ checkpoint'[log'[i].source].required

(* Whatever arrives late, twice or from another process, a checkpoint only *)
(* goes forward, and a gap that was stored keeps its source flagged until  *)
(* a reconciliation of that very source (upsert_checkpoint takes the       *)
(* larger number and the disjunction of the flags).                        *)
CheckpointForward == [][CheckpointKept /\ GapFlags]_vars

LEMMA UpsertCheckpointFlags ==
  ASSUME NEW cp \in [Sources -> CheckpointRow \cup {None}], NEW s \in Sources,
         NEW n \in Sequence, NEW g \in BOOLEAN
  PROVE  /\ \A t \in Sources : cp[t] # None /\ cp[t].required
              => UpsertCheckpoint(cp, s, n, g)[t].required
         /\ n # None /\ g => UpsertCheckpoint(cp, s, n, g)[s].required
<1>1. CASE n = None
  BY <1>1 DEF UpsertCheckpoint
<1>2. CASE n # None
  <2> DEFINE row == IF cp[s] = None THEN [last |-> n, required |-> g]
                    ELSE [last |-> Larger(cp[s].last, n), required |-> cp[s].required \/ g]
  <2>1. UpsertCheckpoint(cp, s, n, g) = [cp EXCEPT ![s] = row]
    BY <1>2 DEF UpsertCheckpoint
  <2>2. (cp[s] # None /\ cp[s].required => row.required) /\ (g => row.required)
    OBVIOUS
  <2> HIDE DEF row
  <2>3. QED BY <2>1, <2>2
<1>3. QED BY <1>1, <1>2

LEMMA CheckpointForwardStep ==
  ASSUME TypeOK, Next
  PROVE  CheckpointKept /\ GapFlags
<1>1. checkpoint \in [Sources -> CheckpointRow \cup {None}] /\ None \notin CheckpointRow
  BY NoneAssumption DEF TypeOK, CheckpointRow
<1>2. ASSUME UNCHANGED checkpoint PROVE CheckpointKept
  BY <1>1, <1>2 DEF CheckpointKept, CheckpointRow
<1>3. ASSUME UNCHANGED log PROVE GapFlags
  BY <1>3 DEF GapFlags
<1>4. ASSUME NEW s \in Sources, NEW n \in Sequence, NEW g \in BOOLEAN,
             checkpoint' = UpsertCheckpoint(checkpoint, s, n, g)
      PROVE  /\ CheckpointKept
             /\ n # None /\ g => checkpoint'[s] # None /\ checkpoint'[s].required
  BY <1>1, <1>4, UpsertCheckpointMonotone, UpsertCheckpointFlags DEF CheckpointKept
<1>5. ASSUME NEW ev, log' = Append(log, ev),
             ev.type = "CollectorGap" /\ ev.seq # None
               => checkpoint'[ev.source] # None /\ checkpoint'[ev.source].required
      PROVE  GapFlags
  <2>1. SUFFICES ASSUME NEW i \in DOMAIN log' \ DOMAIN log PROVE log'[i] = ev
    BY <1>5 DEF GapFlags
  <2>2. Len(log) \in Nat /\ DOMAIN log = 1 .. Len(log)
    BY DEF TypeOK
  <2>3. DOMAIN log' = 1 .. Len(log) + 1 /\ log'[Len(log) + 1] = ev
    BY <1>5 DEF TypeOK
  <2>4. QED BY <2>1, <2>2, <2>3
<1>6. ASSUME NEW e \in Engines, NEW ev \in Inputs, Ingest(e, ev)
      PROVE  CheckpointKept /\ GapFlags
  <2>1. ev.source \in Sources /\ ev.seq \in Sequence
    BY InputsAssumption
       DEF InputEvent, FileEvent, DownloadEvent, GapEvent, TaskEvent, ContentEvent
  <2>2. checkpoint' = UpsertCheckpoint(checkpoint, ev.source, ev.seq, ev.type = "CollectorGap")
    BY <1>6 DEF Ingest, AppendWithProjection
  <2>3. CASE UNCHANGED log
    BY <1>3, <1>4, <2>1, <2>2, <2>3
  <2>4. CASE log' = Append(log, ev)
    BY <1>4, <1>5, <2>1, <2>2, <2>4
  <2>5. QED BY <1>6, <2>3, <2>4 DEF Ingest, AppendWithProjection
<1>7. ASSUME NEW e \in Engines,
             \/ FindNothing(e) \/ FindRow(e) \/ TooFarApart(e)
             \/ FindMatch(e) \/ FindFails(e) \/ Crash(e)
      PROVE  CheckpointKept /\ GapFlags
  BY <1>2, <1>3, <1>7 DEF FindNothing, FindRow, TooFarApart, FindMatch, FindFails, Crash
<1>8. ASSUME NEW e \in Engines, NEW id \in DerivedIds, AppendMatch(e, id)
      PROVE  CheckpointKept /\ GapFlags
  <2>1. PICK ev : log' = Append(log, ev) /\ ev.type = "DownloadMatched"
    BY <1>8 DEF AppendMatch
  <2>2. QED BY <1>2, <1>5, <1>8, <2>1 DEF AppendMatch
<1>9. ASSUME NEW e \in Engines, NEW ev \in InputsV2, IngestV2(e, ev)
      PROVE  CheckpointKept /\ GapFlags
  <2>1. CASE UNCHANGED <<log, checkpoint>>
    BY <1>2, <1>3, <2>1
  <2>2. CASE /\ log' = Append(log, ev)
             /\ checkpoint' = UpsertCheckpoint(checkpoint, ev.source, ev.seq, ev.gap)
    <3>1. /\ ev.source \in Sources /\ ev.seq \in Sequence /\ ev.gap \in BOOLEAN
          /\ ev.type # "CollectorGap"
      BY InputsAssumption DEF EventV2
    <3>2. QED BY <1>4, <1>5, <2>2, <3>1
  <2>3. QED BY <1>9, <2>1, <2>2 DEF IngestV2, AppendRawV2
<1>10. ASSUME NEW e \in Engines, NEW s \in Sources, NEW n \in ReconciledAt,
              MarkCollectorReconciled(e, s, n)
       PROVE  CheckpointKept /\ GapFlags
  <2> DEFINE row == IF checkpoint[s] = None THEN [last |-> n, required |-> FALSE]
                    ELSE [last |-> Larger(checkpoint[s].last, n), required |-> FALSE]
  <2>1. n \in Nat
    BY BoundsAssumption
  <2>2. checkpoint' = [checkpoint EXCEPT ![s] = row]
    BY <1>10 DEF MarkCollectorReconciled
  <2>3. row \in CheckpointRow /\ (checkpoint[s] # None => checkpoint[s].last <= row.last)
    BY <1>1, <2>1 DEF CheckpointRow, Larger
  <2>4. ASSUME NEW t \in Sources, checkpoint[t] # None
        PROVE  checkpoint[t].last <= checkpoint[t].last
    BY <1>1, <2>4 DEF CheckpointRow
  <2> HIDE DEF row
  <2>5. \A t \in Sources : checkpoint[t] # None
           => checkpoint'[t] # None /\ checkpoint[t].last <= checkpoint'[t].last
    BY <1>1, <2>2, <2>3, <2>4
  <2>6. \A t \in Sources : t # s => checkpoint'[t] = checkpoint[t]
    BY <1>1, <2>2
  <2>7. CheckpointKept
    BY <1>10, <2>5, <2>6 DEF CheckpointKept
  <2>8. QED BY <1>3, <1>10, <2>7 DEF MarkCollectorReconciled
<1>11. QED BY <1>6, <1>7, <1>8, <1>9, <1>10 DEF Next

(* The checkpoints go forward only, with any number of processes and in    *)
(* any order of arrival.                                                   *)
THEOREM CheckpointGoesForward == Spec => CheckpointForward
<1>1. TypeOK /\ [Next]_vars => [CheckpointKept /\ GapFlags]_vars
  BY CheckpointForwardStep
<1>2. QED BY <1>1, TypeCorrect, PTL DEF Spec, CheckpointForward

-----------------------------------------------------------------------------
(* The tables after each event of a replay.                                *)
Replays(tables, rows) ==
  tables = [n \in 0 .. Len(rows) |->
              IF n = 0 THEN EmptyProjection ELSE Project(tables[n - 1], rows[n])]

(* Some replay of the log ends in the tables.  Unlike Rebuildable this is   *)
(* inductive by itself: a replay is continued by the event that a step     *)
(* appends.                                                                *)
Rebuilt == \E tables : Replays(tables, log) /\ tables[Len(log)] = projection

LEMMA ReplaysPointwise ==
  ASSUME NEW rows, Len(rows) \in Nat, NEW tables, Replays(tables, rows)
  PROVE  /\ tables[0] = EmptyProjection
         /\ \A n \in 1 .. Len(rows) : tables[n] = Project(tables[n - 1], rows[n])
<1> DEFINE F == [n \in 0 .. Len(rows) |->
              IF n = 0 THEN EmptyProjection ELSE Project(tables[n - 1], rows[n])]
<1>1. tables = F
  BY DEF Replays
<1>2. F[0] = EmptyProjection
  OBVIOUS
<1>3. \A n \in 1 .. Len(rows) : F[n] = Project(tables[n - 1], rows[n])
  OBVIOUS
<1> HIDE DEF F
<1>4. QED
  BY <1>1, <1>2, <1>3

(* Two replays of the same events end alike: they do not differ for a      *)
(* first time.                                                             *)
LEMMA ReplayUnique ==
  ASSUME NEW rows, Len(rows) \in Nat, NEW g, NEW h, Replays(g, rows), Replays(h, rows)
  PROVE  g[Len(rows)] = h[Len(rows)]
<1> DEFINE Differ == {n \in Nat : n <= Len(rows) /\ g[n] # h[n]}
<1>1. SUFFICES ASSUME Differ # {} PROVE FALSE
  BY DEF Differ
<1>2. PICK n \in Differ : \A m \in Differ : ~(<<m, n>> \in OpToRel(<, Nat))
  BY <1>1, WFMin, NatLessThanWellFounded
<1>3. \A m \in Differ : ~(m < n)
  BY <1>2 DEF OpToRel
<1>4. n # 0
  BY ReplaysPointwise
<1>5. n \in 1 .. Len(rows) /\ n - 1 \in Nat /\ n - 1 < n
  BY <1>4
<1>6. g[n - 1] = h[n - 1]
  BY <1>3, <1>5
<1>7. g[n] = h[n]
  BY <1>5, <1>6, ReplaysPointwise
<1>8. QED
  BY <1>7

(* So Replay, which takes any of them, is what every replay ends in.       *)
LEMMA ReplayIs ==
  ASSUME NEW rows, Len(rows) \in Nat, NEW h, Replays(h, rows)
  PROVE  Replay(rows) = h[Len(rows)]
<1> DEFINE f == CHOOSE g : g = [n \in 0 .. Len(rows) |->
              IF n = 0 THEN EmptyProjection ELSE Project(g[n - 1], rows[n])]
<1>1. Replay(rows) = f[Len(rows)]
  BY DEF Replay
<1>2. Replays(f, rows)
  BY DEF Replays
<1>3. QED
  BY <1>1, <1>2, ReplayUnique

(* One more event continues a replay.                                      *)
LEMMA ReplayAppend ==
  ASSUME NEW rows \in Seq(Event), NEW ev, NEW h, Replays(h, rows)
  PROVE  \E g : /\ Replays(g, Append(rows, ev))
               /\ g[Len(Append(rows, ev))] = Project(h[Len(rows)], ev)
<1> DEFINE more == Append(rows, ev)
           last == Project(h[Len(rows)], ev)
           g == [n \in 0 .. Len(more) |-> IF n <= Len(rows) THEN h[n] ELSE last]
<1>1. /\ Len(rows) \in Nat /\ Len(more) = Len(rows) + 1
      /\ \A n \in 1 .. Len(rows) : more[n] = rows[n]
      /\ more[Len(rows) + 1] = ev
  OBVIOUS
<1> HIDE DEF more
<1>2. /\ h[0] = EmptyProjection
      /\ \A n \in 1 .. Len(rows) : h[n] = Project(h[n - 1], rows[n])
  BY <1>1, ReplaysPointwise
<1> HIDE DEF last
<1>3. /\ \A n \in 0 .. Len(rows) : g[n] = h[n]
      /\ g[Len(rows) + 1] = last
  BY <1>1
<1>4. ASSUME NEW n \in 0 .. Len(more)
      PROVE  g[n] = IF n = 0 THEN EmptyProjection ELSE Project(g[n - 1], more[n])
  <2>1. CASE n = 0
    BY <1>1, <1>2, <1>3, <2>1
  <2>2. CASE n \in 1 .. Len(rows)
    <3>1. g[n] = h[n] /\ g[n - 1] = h[n - 1] /\ more[n] = rows[n]
      BY <1>1, <1>3, <2>2
    <3>2. QED
      BY <1>2, <2>2, <3>1
  <2>3. CASE n = Len(rows) + 1
    <3>1. g[n] = last /\ g[n - 1] = h[Len(rows)] /\ more[n] = ev
      BY <1>1, <1>3, <2>3
    <3>2. QED
      BY <1>1, <2>3, <3>1 DEF last
  <2>4. QED
    BY <1>1, <2>1, <2>2, <2>3
<1>5. g = [n \in 0 .. Len(more) |->
             IF n = 0 THEN EmptyProjection ELSE Project(g[n - 1], more[n])]
  <2> DEFINE k == [n \in 0 .. Len(more) |->
                     IF n = 0 THEN EmptyProjection ELSE Project(g[n - 1], more[n])]
  <2>1. \A n \in 0 .. Len(more) : k[n] = g[n]
    BY <1>4, Zenon
  <2>2. DOMAIN k = 0 .. Len(more) /\ DOMAIN g = 0 .. Len(more)
    OBVIOUS
  <2>3. k = [n \in 0 .. Len(more) |-> k[n]] /\ g = [n \in 0 .. Len(more) |-> g[n]]
    OBVIOUS
  <2> HIDE DEF k, g
  <2>4. k = g
    BY <2>1, <2>3
  <2>5. QED
    BY <2>4, Zenon DEF k
<1>6. Replays(g, more)
  <2> HIDE DEF g
  <2>1. QED
    BY <1>5, Zenon DEF Replays
<1>7. g[Len(more)] = last
  BY <1>1, <1>3
<1> HIDE DEF g
<1>8. QED
  BY <1>6, <1>7 DEF more, last

LEMMA RebuiltStep ==
  ASSUME TypeOK, Rebuilt, [Next]_vars
  PROVE  Rebuilt'
<1>1. PICK h : Replays(h, log) /\ h[Len(log)] = projection
  BY DEF Rebuilt
<1>2. ASSUME NEW ev, log' = Append(log, ev), projection' = Project(projection, ev)
      PROVE  Rebuilt'
  <2>1. \E g : Replays(g, log') /\ g[Len(log')] = projection'
    BY <1>1, <1>2, ReplayAppend DEF TypeOK
  <2>2. QED
    BY <2>1 DEF Rebuilt, Replays
<1>3. CASE KeepsLog
  BY <1>1, <1>3 DEF KeepsLog, Rebuilt, Replays
<1>4. CASE AppendsInput
  BY <1>2, <1>4 DEF AppendsInput
<1>5. CASE AppendsMatch
  BY <1>2, <1>5 DEF AppendsMatch
<1>6. CASE AppendsV2
  <2>1. PICK ev \in InputsV2 : log' = Append(log, ev) /\ projection' = projection
    BY <1>6 DEF AppendsV2
  <2>2. ev.type = "V2"
    BY InputsAssumption DEF EventV2
  <2>3. Project(projection, ev) = projection
    BY <2>2 DEF Project
  <2>4. QED
    BY <1>2, <2>1, <2>3
<1>7. QED
  BY <1>3, <1>4, <1>5, <1>6, StepShape

LEMMA RebuiltInit == Init => Rebuilt
<1>1. SUFFICES ASSUME Init PROVE Rebuilt
  OBVIOUS
<1> DEFINE h == [n \in 0 .. 0 |-> EmptyProjection]
<1>2. Len(log) = 0 /\ projection = EmptyProjection
  BY <1>1 DEF Init
<1>3. Replays(h, log) /\ h[Len(log)] = projection
  BY <1>2 DEF Replays
<1>4. QED
  BY <1>3 DEF Rebuilt

(* docs/foundation-architecture.md: the relations can be rebuilt from the  *)
(* events.  Whatever was redelivered, by however many processes, and       *)
(* wherever one was cut short, replaying the log gives the tables.         *)
THEOREM TablesRebuildable == Spec => []Rebuildable
<1>1. TypeOK /\ Rebuilt => Rebuildable
  BY ReplayIs DEF TypeOK, Rebuilt, Rebuildable
<1>2. QED
  BY <1>1, RebuiltInit, RebuiltStep, TypeCorrect, PTL DEF Spec
=============================================================================
