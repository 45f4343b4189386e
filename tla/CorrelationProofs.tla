--------------------------- MODULE CorrelationProofs ---------------------------
(***************************************************************************)
(* Proofs about the correlation of downloads and files in EventStore, for  *)
(* every set of processes, inputs, identities, paths and downloads: a pair *)
(* is matched in either order of arrival, a download event is matched at   *)
(* most once unless two processes carried it at once, and every edge has   *)
(* an observation behind it that passed the tolerance test.                *)
(***************************************************************************)
EXTENDS EventStoreProofs

-----------------------------------------------------------------------------
(* The invariants.                                                         *)

IsDownload(r) == r.type = "BrowserDownloadObserved"

(* Every stored download has its row.                                      *)
PendingComplete ==
  \A r \in Stored :
    IsDownload(r) =>
      LET row == projection.pending[r.download]
      IN r \in Inputs /\ row # None /\ row.src = r.id /\ row.path = r.path /\ row.at = r.at

(* What an engine carries towards its second transaction is a download at  *)
(* the path it works on.                                                   *)
Carried ==
  \A e \in Engines :
    engine[e].phase \in {"check", "derive"} =>
      LET c == engine[e].candidate
          row == projection.pending[c.download]
      IN /\ row # None /\ row.src = c.downloadEvent
         /\ NoCase[row.path] = NoCase[engine[e].path]

(* Only one engine carries a download that is not contended, and nobody    *)
(* has matched it.                                                         *)
Sole ==
  \A e, o \in Engines, d \in DownloadIds :
    Carries(e, d) /\ Carries(o, d) => e = o \/ d \in contended

Unmatched ==
  \A e \in Engines, d \in DownloadIds :
    Carries(e, d) => ~projection.pending[d].matched \/ d \in contended

(* Every stored match has marked its download.                             *)
Marked ==
  \A i \in DOMAIN log :
    log[i].type = "DownloadMatched" =>
      LET row == projection.pending[log[i].download]
      IN row # None /\ row.matched /\ row.src = log[i].downloadEvent

Correlation == PendingComplete /\ Carried /\ Marked

(* A download and a file that belong together, and no other at the path.   *)
Pair(d, i, p) ==
  /\ d \in Stored /\ IsDownload(d)
  /\ DownloadsAt(NoCase[p]) = {d}
  /\ \A f \in FilesAt(NoCase[p]) : f.identity = i
  /\ projection.location[i][p] # None
  /\ projection.location[i][p].active
  /\ WholeSeconds(d.at, projection.location[i][p].at) <= Tolerance

(* No engine works on the path and none was cut short there.               *)
Settled(p) ==
  /\ NoCase[p] \notin interrupted
  /\ \A e \in Engines : engine[e] = Idle \/ NoCase[engine[e].path] # NoCase[p]

-----------------------------------------------------------------------------
(* Pending rows: complete, and a mark stays.                               *)

(* Only v1 inputs are downloads.                                           *)
LEMMA DownloadShape ==
  /\ \A r \in Inputs : IsDownload(r) => r \in DownloadEvent /\ r.download \in DownloadIds
  /\ \A r \in MatchEvent \cup EventV2 : ~IsDownload(r)
  /\ \A r \in MatchEvent \cup EventV2 : r.type # "FileObserved"
<1>1. \A r \in Inputs : IsDownload(r) => r \in DownloadEvent
  BY InputsAssumption
  DEF InputEvent, FileEvent, GapEvent, TaskEvent, ContentEvent, IsDownload
<1>2. QED
  BY <1>1 DEF DownloadEvent, MatchEvent, EventV2, IsDownload

LEMMA MarkKept ==
  ASSUME TypeOK, PendingWitnessed, [Next]_vars, NEW d \in DownloadIds,
         projection.pending[d] # None, projection.pending[d].matched
  PROVE  projection'.pending[d].matched
<1> DEFINE old == projection.pending[d]
<1>1. projection.pending \in [DownloadIds -> PendingRow \cup {None}] /\ old \in PendingRow
  BY DEF TypeOK, Projection
<1>2. CASE UNCHANGED <<projection.pending, projection.edge>>
  BY <1>2
<1>3. ASSUME NEW ev \in DownloadEvent, ev \in Inputs, ev.id \notin StoredIds,
             projection' = StorePendingDownload(projection, ev)
      PROVE  projection'.pending[d].matched
  <2>1. PICK r \in Stored \cap Inputs : r.type = "BrowserDownloadObserved" /\ r.download = d
    BY DEF PendingWitnessed
  <2>2. ev.type = "BrowserDownloadObserved" /\ r.id \in StoredIds
    BY DEF DownloadEvent, StoredIds
  <2>3. ev.download # d
    BY <1>3, <2>1, <2>2, DownloadsAssumption
  <2>4. QED
    BY <1>1, <1>3, <2>3, DownloadEffect DEF TypeOK
<1>4. ASSUME NEW ev \in MatchEvent, projection' = AddObservedDownloadEdge(projection, ev)
      PROVE  projection'.pending[d].matched
  <2>1. projection'.pending =
          [projection.pending EXCEPT ![ev.download] =
             IF projection.pending[ev.download] = None THEN None
             ELSE [projection.pending[ev.download] EXCEPT !.matched = TRUE]]
    BY <1>4, MatchEffect DEF TypeOK
  <2>2. [old EXCEPT !.matched = TRUE].matched
    BY <1>1 DEF PendingRow
  <2>3. projection'.pending[d] = old \/ projection'.pending[d] = [old EXCEPT !.matched = TRUE]
    BY <1>1, <2>1
  <2>4. QED
    BY <2>2, <2>3
<1>5. QED
  BY <1>2, <1>3, <1>4, PendingCases

(* A match marks its download.                                             *)
LEMMA MatchMarks ==
  ASSUME TypeOK, NEW ev \in MatchEvent, projection.pending[ev.download] # None,
         projection' = Project(projection, ev)
  PROVE  /\ projection'.pending[ev.download] # None
         /\ projection'.pending[ev.download].matched
         /\ projection'.pending[ev.download].src = projection.pending[ev.download].src
<1> DEFINE old == projection.pending[ev.download]
<1>1. ev.download \in DownloadIds
  BY DEF MatchEvent
<1>2. projection.pending \in [DownloadIds -> PendingRow \cup {None}] /\ old \in PendingRow
  BY <1>1 DEF TypeOK, Projection
<1>3. projection' = AddObservedDownloadEdge(projection, ev)
  BY DEF Project, MatchEvent
<1>4. projection'.pending[ev.download] = [old EXCEPT !.matched = TRUE]
  <2>1. projection'.pending =
          [projection.pending EXCEPT ![ev.download] =
             IF projection.pending[ev.download] = None THEN None
             ELSE [projection.pending[ev.download] EXCEPT !.matched = TRUE]]
    BY <1>3, MatchEffect DEF TypeOK
  <2>2. QED
    BY <1>1, <1>2, <2>1
<1>5. /\ [old EXCEPT !.matched = TRUE] \in PendingRow
      /\ [old EXCEPT !.matched = TRUE].matched
      /\ [old EXCEPT !.matched = TRUE].src = old.src
  BY <1>2 DEF PendingRow
<1>6. None \notin PendingRow
  BY NoneAssumption DEF PendingRow
<1>7. QED
  BY <1>4, <1>5, <1>6

LEMMA PendingCompleteStep ==
  ASSUME TypeOK, PendingWitnessed, PendingComplete, [Next]_vars
  PROVE  PendingComplete'
<1>1. SUFFICES ASSUME NEW r \in Stored', IsDownload(r)
               PROVE  /\ r \in Inputs /\ projection'.pending[r.download] # None
                      /\ projection'.pending[r.download].src = r.id
                      /\ projection'.pending[r.download].path = r.path
                      /\ projection'.pending[r.download].at = r.at
  BY DEF PendingComplete
<1>2. CASE r \in Stored
  <2>1. /\ r \in Inputs /\ projection.pending[r.download] # None
        /\ projection.pending[r.download].src = r.id
        /\ projection.pending[r.download].path = r.path
        /\ projection.pending[r.download].at = r.at
    BY <1>1, <1>2 DEF PendingComplete
  <2>2. r.download \in DownloadIds
    BY <1>1, <2>1, DownloadShape
  <2>3. QED
    BY <2>1, <2>2, PendingKept
<1>3. CASE r \notin Stored
  <2>1. r \notin MatchEvent \cup EventV2
    BY <1>1, DownloadShape
  <2>2. AppendsInput
    BY <1>3, <2>1, StepShape, MatchFacts, V2Facts DEF KeepsLog, Stored, AppendsMatch, AppendsV2
  <2>3. PICK ev \in Inputs : log' = Append(log, ev) /\ projection' = Project(projection, ev)
    BY <2>2 DEF AppendsInput
  <2>4. r = ev
    BY <1>3, <2>3, InputFacts
  <2>5. r \in DownloadEvent /\ r.download \in DownloadIds
    BY <1>1, <2>4, DownloadShape
  <2>6. projection' = StorePendingDownload(projection, r)
    BY <2>3, <2>4, <2>5 DEF Project, DownloadEvent
  <2>7. projection.pending \in [DownloadIds -> PendingRow \cup {None}]
    BY DEF TypeOK, Projection
  <2>8. projection'.pending[r.download] =
          [url |-> r.url, path |-> r.path, at |-> r.at, src |-> r.id, matched |-> FALSE]
    BY <2>5, <2>6, <2>7, DownloadEffect DEF TypeOK
  <2>9. projection'.pending[r.download] \in PendingRow
    BY <2>5, <2>8 DEF PendingRow, DownloadEvent
  <2>10. projection'.pending[r.download] # None
    BY <2>9, NoneAssumption DEF PendingRow
  <2>11. QED
    BY <2>4, <2>8, <2>10
<1>4. QED
  BY <1>2, <1>3

-----------------------------------------------------------------------------
(* What the first query finds, and that it stays found.                    *)
LEMMA CarriedStep ==
  ASSUME TypeOK, PendingWitnessed, Carried, [Next]_vars
  PROVE  Carried'
<1>1. SUFFICES ASSUME NEW e \in Engines, engine'[e].phase \in {"check", "derive"}
               PROVE  /\ projection'.pending[engine'[e].candidate.download] # None
                      /\ projection'.pending[engine'[e].candidate.download].src
                           = engine'[e].candidate.downloadEvent
                      /\ NoCase[projection'.pending[engine'[e].candidate.download].path]
                           = NoCase[engine'[e].path]
  BY DEF Carried
<1>2. CASE engine'[e] = engine[e]
  <2> DEFINE x == engine[e].candidate.download
  <2>1. /\ projection.pending[x] # None
        /\ projection.pending[x].src = engine[e].candidate.downloadEvent
        /\ NoCase[projection.pending[x].path] = NoCase[engine[e].path]
    BY <1>1, <1>2 DEF Carried
  <2>2. x \in DownloadIds
    <3>1. engine[e] \in EngineState /\ engine[e].phase \in {"check", "derive"}
      BY <1>1, <1>2 DEF TypeOK
    <3>2. engine[e].candidate \in CandidateRow
      BY <3>1 DEF EngineState, Idle
    <3>3. QED
      BY <3>2 DEF CandidateRow
  <2>3. /\ projection'.pending[x] # None
        /\ projection'.pending[x].src = projection.pending[x].src
        /\ projection'.pending[x].path = projection.pending[x].path
    BY <2>1, <2>2, PendingKept
  <2>4. QED
    BY <1>1, <1>2, <2>1, <2>3
<1>3. CASE FindRow(e)
  <2>1. PICK row \in JoinedRow :
          /\ row \in Joined(projection, engine[e].path)
          /\ engine'[e].path = engine[e].path
          /\ engine'[e].candidate = Candidate(projection, row)
          /\ projection' = projection
    BY <1>3, FindRowResult
  <2>2. /\ projection.pending[row.download] # None
        /\ NoCase[projection.pending[row.download].path] = NoCase[engine[e].path]
    BY <2>1 DEF Joined, JoinedTo
  <2>3. /\ engine'[e].candidate.download = row.download
        /\ engine'[e].candidate.downloadEvent = projection.pending[row.download].src
    BY <2>1 DEF Candidate
  <2>4. QED
    BY <2>1, <2>2, <2>3
<1>4. CASE FindMatch(e)
  <2>1. /\ engine[e].phase = "check" /\ engine'[e].candidate = engine[e].candidate
        /\ engine'[e].path = engine[e].path /\ projection' = projection
        /\ engine'[e].phase = "derive"
    BY <1>4 DEF FindMatch, TypeOK
  <2>2. QED
    BY <2>1 DEF Carried
<1>5. QED
  BY <1>1, <1>2, <1>3, <1>4, EngineCases

-----------------------------------------------------------------------------
(* Contention.                                                             *)

(* A download stays contended, and FindRow is the only step by which an    *)
(* engine comes to carry one.                                              *)
LEMMA ContendedGrows ==
  ASSUME [Next]_vars
  PROVE  contended \subseteq contended'
BY DEF Next, vars, Ingest, FindNothing, FindRow, TooFarApart, FindMatch, FindFails, AppendMatch,
       Settle, IngestV2, MarkCollectorReconciled, Crash

LEMMA CarriesStep ==
  ASSUME TypeOK, [Next]_vars, NEW e \in Engines, NEW d, Carries(e, d)'
  PROVE  Carries(e, d) \/ FindRow(e)
<1>1. CASE engine'[e] = engine[e]
  BY <1>1 DEF Carries
<1>2. CASE FindMatch(e)
  BY <1>2, FindMatchResult DEF Carries
<1>3. QED
  BY <1>1, <1>2, EngineCases DEF Carries

LEMMA SoleStep ==
  ASSUME TypeOK, Sole, [Next]_vars
  PROVE  Sole'
<1>1. ASSUME NEW e \in Engines, NEW o \in Engines, NEW d \in DownloadIds, o # e,
             FindRow(e), Carries(e, d)', Carries(o, d)'
      PROVE  d \in contended'
  <2>1. PICK row \in JoinedRow :
          /\ engine'[e].candidate = Candidate(projection, row)
          /\ engine'[o] = engine[o]
          /\ Carries(o, row.download) => row.download \in contended'
    BY <1>1, FindRowResult
  <2>2. row.download = d
    BY <1>1, <2>1 DEF Carries, Candidate
  <2>3. Carries(o, d)
    BY <1>1, <2>1 DEF Carries
  <2>4. QED
    BY <2>1, <2>2, <2>3
<1>2. SUFFICES ASSUME NEW e \in Engines, NEW o \in Engines, NEW d \in DownloadIds, o # e,
                      Carries(e, d)', Carries(o, d)'
               PROVE  d \in contended'
  BY DEF Sole
<1>3. CASE Carries(e, d) /\ Carries(o, d)
  BY <1>2, <1>3, ContendedGrows DEF Sole
<1>4. QED
  BY <1>1, <1>2, <1>3, CarriesStep

(* The mark is set by the engine that carries the match and lays it down.  *)
LEMMA MarkedByCarrier ==
  ASSUME TypeOK, PendingWitnessed, [Next]_vars, NEW d \in DownloadIds,
         projection.pending[d] # None, ~projection.pending[d].matched,
         projection'.pending[d].matched
  PROVE  \E o \in Engines : Carries(o, d) /\ ~Carries(o, d)'
<1> DEFINE old == projection.pending[d]
<1>1. projection.pending \in [DownloadIds -> PendingRow \cup {None}] /\ old \in PendingRow
  BY DEF TypeOK, Projection
<1>2. projection' # projection
  OBVIOUS
<1>3. ASSUME NEW e \in Engines, NEW ev \in Inputs, Ingest(e, ev)
      PROVE  FALSE
  <2>1. ev.id \notin StoredIds /\ projection' = Project(projection, ev)
    BY <1>2, <1>3 DEF Ingest, AppendWithProjection
  <2>2. CASE ev \in DownloadEvent
    <3>1. projection' = StorePendingDownload(projection, ev) /\ ev.type = "BrowserDownloadObserved"
      BY <2>1, <2>2 DEF Project, DownloadEvent
    <3>2. PICK r \in Stored \cap Inputs : r.type = "BrowserDownloadObserved" /\ r.download = d
      BY DEF PendingWitnessed
    <3>3. ev.download # d
      BY <2>1, <3>1, <3>2, DownloadsAssumption DEF StoredIds
    <3>4. QED
      BY <1>1, <2>2, <3>1, <3>3, DownloadEffect DEF TypeOK
  <2>3. CASE ev \in FileEvent
    <3>1. projection' = UpsertArtifactLocation(projection, ev)
      BY <2>1, <2>3 DEF Project, FileEvent
    <3>2. QED
      BY <2>3, <3>1, FileFrame DEF TypeOK
  <2>4. CASE ev \in GapEvent \cup TaskEvent \cup ContentEvent
    BY <2>1, <2>4, OtherFrame DEF TypeOK
  <2>5. QED
    BY <2>2, <2>3, <2>4, InputsAssumption DEF InputEvent
<1>4. ASSUME NEW e \in Engines, NEW id \in DerivedIds, AppendMatch(e, id)
      PROVE  Carries(e, d) /\ ~Carries(e, d)'
  <2> DEFINE c == engine[e].candidate
             ev == [type |-> "DownloadMatched", id |-> id, at |-> c.at, download |-> c.download,
                    identity |-> c.identity, url |-> c.url,
                    downloadEvent |-> c.downloadEvent, fileEvent |-> c.fileEvent]
  <2>1. engine[e].phase = "derive" /\ c \in CandidateRow
    BY <1>4 DEF AppendMatch, TypeOK, EngineState, Idle
  <2>2. ev \in MatchEvent /\ ev.download = c.download /\ ev.type = "DownloadMatched"
    BY <2>1 DEF MatchEvent, CandidateRow
  <2>3. projection' = Project(projection, ev) /\ engine' = [engine EXCEPT ![e] = Idle]
    BY <1>4 DEF AppendMatch, Settle
  <2> HIDE DEF ev
  <2>4. projection' = AddObservedDownloadEdge(projection, ev)
    BY <2>2, <2>3 DEF Project
  <2>5. projection'.pending =
          [projection.pending EXCEPT ![ev.download] =
             IF projection.pending[ev.download] = None THEN None
             ELSE [projection.pending[ev.download] EXCEPT !.matched = TRUE]]
    BY <2>2, <2>4, MatchEffect DEF TypeOK
  <2>6. ev.download = d
    BY <1>1, <2>5
  <2>7. engine'[e].phase \notin {"check", "derive"}
    BY <2>3 DEF TypeOK, Idle
  <2>8. QED
    BY <2>1, <2>2, <2>6, <2>7 DEF Carries
<1>5. ASSUME NEW e \in Engines,
             \/ FindNothing(e) \/ FindRow(e) \/ TooFarApart(e)
             \/ FindMatch(e) \/ FindFails(e) \/ Crash(e)
             \/ \E ev \in InputsV2 : IngestV2(e, ev)
             \/ \E s \in Sources, n \in ReconciledAt : MarkCollectorReconciled(e, s, n)
      PROVE  FALSE
  BY <1>2, <1>5 DEF FindNothing, FindRow, TooFarApart, FindMatch, FindFails, Crash, IngestV2,
                    MarkCollectorReconciled
<1>6. QED
  BY <1>2, <1>3, <1>4, <1>5 DEF Next, vars

LEMMA UnmatchedStep ==
  ASSUME TypeOK, PendingWitnessed, Carried, Sole, Unmatched, [Next]_vars
  PROVE  Unmatched'
<1>1. SUFFICES ASSUME NEW e \in Engines, NEW d \in DownloadIds, Carries(e, d)',
                      d \notin contended'
               PROVE  ~projection'.pending[d].matched
  BY DEF Unmatched
<1>2. d \notin contended
  BY <1>1, ContendedGrows
<1>3. CASE Carries(e, d)
  <2>1. projection.pending[d] # None /\ ~projection.pending[d].matched
    BY <1>2, <1>3 DEF Unmatched, Carried, Carries
  <2>2. \A o \in Engines : Carries(o, d) => o = e
    BY <1>2, <1>3 DEF Sole
  <2>3. QED
    BY <1>1, <2>1, <2>2, MarkedByCarrier
<1>4. CASE FindRow(e)
  <2>1. PICK row \in JoinedRow :
          /\ row \in Joined(projection, engine[e].path)
          /\ engine'[e].candidate = Candidate(projection, row)
          /\ projection' = projection
    BY <1>4, FindRowResult
  <2>2. row.download = d
    BY <1>1, <2>1 DEF Carries, Candidate
  <2>3. QED
    BY <2>1, <2>2 DEF Joined
<1>5. QED
  BY <1>1, <1>3, <1>4, CarriesStep

-----------------------------------------------------------------------------
(* At most one match per download event.                                   *)

(* The log only grows, by one event at a time.                             *)
LEMMA LogGrows ==
  ASSUME TypeOK, [Next]_vars, NEW i \in DOMAIN log'
  PROVE  \/ i \in DOMAIN log /\ log'[i] = log[i]
         \/ /\ i \notin DOMAIN log /\ DOMAIN log' = DOMAIN log \cup {i}
            /\ \A j \in DOMAIN log : log'[j] = log[j]
            /\ log'[i].type = "DownloadMatched" =>
                 \E e \in Engines, ev \in MatchEvent :
                   /\ log'[i] = ev
                   /\ engine[e].phase = "derive"
                   /\ engine[e].candidate.download = ev.download
                   /\ engine[e].candidate.downloadEvent = ev.downloadEvent
                   /\ projection' = Project(projection, ev)
<1>1. log \in Seq(Event)
  BY DEF TypeOK
<1>2. ASSUME NEW ev, log' = Append(log, ev)
      PROVE  \/ i \in DOMAIN log /\ log'[i] = log[i]
             \/ /\ i \notin DOMAIN log /\ DOMAIN log' = DOMAIN log \cup {i} /\ log'[i] = ev
                /\ \A j \in DOMAIN log : log'[j] = log[j]
  BY <1>1, <1>2
<1>3. CASE KeepsLog
  BY <1>3 DEF KeepsLog
<1>4. CASE AppendsInput
  <2>1. PICK ev \in Inputs : log' = Append(log, ev)
    BY <1>4 DEF AppendsInput
  <2>2. ev.type # "DownloadMatched"
    BY InputsAssumption
    DEF InputEvent, FileEvent, DownloadEvent, GapEvent, TaskEvent, ContentEvent
  <2>3. QED
    BY <1>2, <2>1, <2>2
<1>5. CASE AppendsV2
  <2>1. PICK ev \in InputsV2 : log' = Append(log, ev)
    BY <1>5 DEF AppendsV2
  <2>2. ev.type # "DownloadMatched"
    BY InputsAssumption DEF EventV2
  <2>3. QED
    BY <1>2, <2>1, <2>2
<1>6. CASE AppendsMatch
  <2>1. PICK e \in Engines, ev \in MatchEvent :
          /\ engine[e].phase = "derive"
          /\ engine[e].candidate =
               [download |-> ev.download, identity |-> ev.identity, url |-> ev.url,
                downloadEvent |-> ev.downloadEvent, fileEvent |-> ev.fileEvent, at |-> ev.at]
          /\ log' = Append(log, ev)
          /\ projection' = Project(projection, ev)
    BY <1>6 DEF AppendsMatch
  <2>2. /\ engine[e].candidate.download = ev.download
        /\ engine[e].candidate.downloadEvent = ev.downloadEvent
    BY <2>1
  <2>3. QED
    BY <1>2, <2>1, <2>2
<1>7. QED
  BY <1>3, <1>4, <1>5, <1>6, StepShape

(* What stands in the log as a match names a known download.               *)
LEMMA MatchStored ==
  ASSUME TypeOK, NEW i \in DOMAIN log, log[i].type = "DownloadMatched"
  PROVE  log[i] \in MatchEvent /\ log[i].download \in DownloadIds
<1>1. log[i] \in Event
  BY DEF TypeOK
<1>2. log[i] \in MatchEvent
  BY <1>1 DEF Event, InputEvent, FileEvent, DownloadEvent, GapEvent, TaskEvent, ContentEvent,
              EventV2
<1>3. QED
  BY <1>2 DEF MatchEvent

LEMMA MarkedStep ==
  ASSUME TypeOK, PendingWitnessed, Carried, Marked, [Next]_vars
  PROVE  Marked'
<1>1. SUFFICES ASSUME NEW i \in DOMAIN log', log'[i].type = "DownloadMatched"
               PROVE  /\ projection'.pending[log'[i].download] # None
                      /\ projection'.pending[log'[i].download].matched
                      /\ projection'.pending[log'[i].download].src = log'[i].downloadEvent
  BY DEF Marked
<1>2. CASE i \in DOMAIN log /\ log'[i] = log[i]
  <2>1. /\ projection.pending[log[i].download] # None
        /\ projection.pending[log[i].download].matched
        /\ projection.pending[log[i].download].src = log[i].downloadEvent
    BY <1>1, <1>2 DEF Marked
  <2>2. log[i].download \in DownloadIds
    BY <1>1, <1>2, MatchStored
  <2>3. QED
    BY <1>2, <2>1, <2>2, PendingKept, MarkKept
<1>3. ASSUME NEW e \in Engines, NEW ev \in MatchEvent,
             log'[i] = ev, engine[e].phase = "derive",
             engine[e].candidate.download = ev.download,
             engine[e].candidate.downloadEvent = ev.downloadEvent,
             projection' = Project(projection, ev)
      PROVE  /\ projection'.pending[ev.download] # None
             /\ projection'.pending[ev.download].matched
             /\ projection'.pending[ev.download].src = ev.downloadEvent
  <2>1. /\ projection.pending[ev.download] # None
        /\ projection.pending[ev.download].src = ev.downloadEvent
    BY <1>3 DEF Carried
  <2>2. QED
    BY <1>3, <2>1, MatchMarks
<1>4. CASE ~(i \in DOMAIN log /\ log'[i] = log[i])
  <2>1. PICK e \in Engines, ev \in MatchEvent :
          /\ log'[i] = ev /\ engine[e].phase = "derive"
          /\ engine[e].candidate.download = ev.download
          /\ engine[e].candidate.downloadEvent = ev.downloadEvent
          /\ projection' = Project(projection, ev)
    BY <1>1, <1>4, LogGrows
  <2>2. /\ projection'.pending[ev.download] # None
        /\ projection'.pending[ev.download].matched
        /\ projection'.pending[ev.download].src = ev.downloadEvent
    BY <1>3, <2>1
  <2>3. QED
    BY <2>1, <2>2
<1>5. QED
  BY <1>2, <1>4

(* No two downloads have the same event.                                   *)
LEMMA SourceUnique ==
  ASSUME TypeOK, UniqueIds, PendingWitnessed, NEW d \in DownloadIds, NEW c \in DownloadIds,
         projection.pending[d] # None, projection.pending[c] # None,
         projection.pending[d].src = projection.pending[c].src
  PROVE  d = c
<1>1. PICK r \in Stored : r.download = d /\ r.id = projection.pending[d].src
  BY DEF PendingWitnessed
<1>2. PICK s \in Stored : s.download = c /\ s.id = projection.pending[c].src
  BY DEF PendingWitnessed
<1>3. r = s
  BY <1>1, <1>2 DEF UniqueIds, Stored
<1>4. QED
  BY <1>1, <1>2, <1>3

LEMMA OneMatchStep ==
  ASSUME TypeOK, UniqueIds, PendingWitnessed, Carried, Unmatched, Marked,
         OneMatchPerDownloadEvent, [Next]_vars
  PROVE  OneMatchPerDownloadEvent'
<1>1. ASSUME NEW i \in DOMAIN log', NEW j \in DOMAIN log,
             i \notin DOMAIN log, log'[j] = log[j],
             log'[i].type = "DownloadMatched", log[j].type = "DownloadMatched",
             log'[i].downloadEvent = log[j].downloadEvent
      PROVE  log'[i].download \in contended' /\ log[j].download \in contended'
  <2>1. PICK e \in Engines, ev \in MatchEvent :
          /\ log'[i] = ev /\ engine[e].phase = "derive"
          /\ engine[e].candidate.download = ev.download
          /\ engine[e].candidate.downloadEvent = ev.downloadEvent
    BY <1>1, LogGrows
  <2>2. ev.download \in DownloadIds /\ log[j].download \in DownloadIds
    BY <1>1, MatchStored DEF MatchEvent
  <2>3. /\ projection.pending[ev.download] # None
        /\ ~projection.pending[ev.download].matched \/ ev.download \in contended
        /\ projection.pending[ev.download].src = ev.downloadEvent
    BY <2>1, <2>2 DEF Carried, Unmatched, Carries
  <2>4. /\ projection.pending[log[j].download] # None
        /\ projection.pending[log[j].download].matched
        /\ projection.pending[log[j].download].src = log[j].downloadEvent
    BY <1>1 DEF Marked
  <2>5. ev.download = log[j].download
    BY <1>1, <2>1, <2>2, <2>3, <2>4, SourceUnique
  <2>6. QED
    BY <2>1, <2>3, <2>4, <2>5, ContendedGrows
<1>2. SUFFICES ASSUME NEW i \in DOMAIN log', NEW j \in DOMAIN log',
                      log'[i].type = "DownloadMatched", log'[j].type = "DownloadMatched",
                      log'[i].downloadEvent = log'[j].downloadEvent
               PROVE  i = j \/ log'[i].download \in contended'
  BY DEF OneMatchPerDownloadEvent
<1>3. CASE i \in DOMAIN log /\ log'[i] = log[i] /\ j \in DOMAIN log /\ log'[j] = log[j]
  BY <1>2, <1>3, ContendedGrows DEF OneMatchPerDownloadEvent
<1>4. CASE i \notin DOMAIN log /\ DOMAIN log' = DOMAIN log \cup {i}
  <2>1. j = i \/ (j \in DOMAIN log /\ log'[j] = log[j])
    BY <1>4, LogGrows
  <2>2. QED
    BY <1>1, <1>2, <1>4, <2>1
<1>5. CASE j \notin DOMAIN log /\ DOMAIN log' = DOMAIN log \cup {j}
  <2>1. i = j \/ (i \in DOMAIN log /\ log'[i] = log[i])
    BY <1>5, LogGrows
  <2>2. QED
    BY <1>1, <1>2, <1>5, <2>1
<1>6. QED
  BY <1>3, <1>4, <1>5, LogGrows

-----------------------------------------------------------------------------
(* The tolerance test.                                                     *)

(* What a candidate that passed it, and an edge made of it, rests on.      *)
Supported(events, x) ==
  \E d, f, g \in events :
    /\ Cites(d, f, x)
    /\ g.type = "FileObserved"
    /\ g.change # "Deleted"
    /\ NoCase[g.path] = NoCase[d.path]
    /\ Apart(d.at, g.at) < 2 * (Tolerance + 1)

DerivesSupported ==
  \A e \in Engines : engine[e].phase = "derive" => Supported(Stored, engine[e].candidate)

LEMMA WithinASecond ==
  ASSUME NEW t \in Nat, NEW u \in Nat, WholeSeconds(t, u) <= Tolerance
  PROVE  Apart(t, u) < 2 * (Tolerance + 1)
<1>1. Apart(t, u) \in Nat /\ Tolerance \in Nat
  BY BoundsAssumption DEF Apart
<1>2. Apart(t, u) \div 2 <= Tolerance
  BY DEF WholeSeconds
<1>3. QED
  BY <1>1, <1>2

LEMMA SupportedKept ==
  ASSUME TypeOK, [Next]_vars, NEW x, Supported(Stored, x)
  PROVE  Supported(Stored', x)
<1>1. Stored \subseteq Stored'
  BY StoredGrows
<1>2. QED
  BY <1>1 DEF Supported

(* The row of the second query, whichever it is, is an observation at the  *)
(* path of the download the candidate cites.                               *)
LEMMA PassedTest ==
  ASSUME TypeOK, UniqueIds, Witnessed, Carried, NEW e \in Engines, FindMatch(e)
  PROVE  Supported(Stored, engine[e].candidate)
<1> DEFINE c == engine[e].candidate
           pd == projection.pending[c.download]
<1>1. engine[e].phase = "check" /\ c.download \in DownloadIds
  BY DEF FindMatch, TypeOK, EngineState, Idle, CandidateRow
<1>2. PICK row \in ReadAgain(e) : InTolerance(projection, row)
  BY DEF FindMatch
<1> DEFINE loc == projection.location[row.identity][row.path]
<1>3. /\ row \in JoinedRow /\ row.download = c.download /\ pd # None /\ loc # None
      /\ loc.active /\ NoCase[row.path] = NoCase[pd.path]
  BY DEF ReadAgain, JoinedTo
<1>4. PICK d \in Stored : d.id = pd.src /\ d.path = pd.path /\ d.at = pd.at
  BY <1>1, <1>3 DEF Witnessed, PendingWitnessed
<1>5. PICK g \in Stored :
        /\ g.type = "FileObserved" /\ g.change # "Deleted"
        /\ g.path = row.path /\ g.at = loc.at
  BY <1>3 DEF Witnessed, LocationsWitnessed, JoinedRow
<1>6. PICK b, f \in Stored : Cites(b, f, c)
  BY <1>1 DEF Witnessed, CandidatesWitnessed
<1>7. b = d
  <2>1. b.id = d.id
    BY <1>1, <1>4, <1>6 DEF Carried, Cites
  <2>2. QED
    BY <2>1 DEF UniqueIds, Stored
<1>8. pd.at \in Nat /\ loc.at \in Nat
  <2>1. pd \in PendingRow
    BY <1>1, <1>3 DEF TypeOK, Projection
  <2>2. loc \in LocationRow
    BY <1>3 DEF TypeOK, Projection, JoinedRow
  <2>3. QED
    BY <2>1, <2>2 DEF PendingRow, LocationRow, Time
<1>9. Apart(d.at, g.at) < 2 * (Tolerance + 1)
  BY <1>2, <1>3, <1>4, <1>5, <1>8, WithinASecond DEF InTolerance
<1>10. QED
  BY <1>3, <1>4, <1>5, <1>6, <1>7, <1>9 DEF Supported

LEMMA DerivesSupportedStep ==
  ASSUME TypeOK, UniqueIds, Witnessed, Carried, DerivesSupported, [Next]_vars
  PROVE  DerivesSupported'
<1>1. SUFFICES ASSUME NEW e \in Engines, engine'[e].phase = "derive"
               PROVE  Supported(Stored', engine'[e].candidate)
  BY DEF DerivesSupported, Supported
<1>2. CASE engine'[e] = engine[e]
  BY <1>1, <1>2, SupportedKept DEF DerivesSupported
<1>3. CASE FindRow(e)
  BY <1>1, <1>3, FindRowResult
<1>4. CASE FindMatch(e)
  BY <1>4, PassedTest, SupportedKept, FindMatchResult
<1>5. QED
  BY <1>1, <1>2, <1>3, <1>4, EngineCases

LEMMA EdgesSupportedStep ==
  ASSUME TypeOK, DerivesSupported, EdgesSupported, [Next]_vars
  PROVE  EdgesSupported'
<1>1. \A x \in projection.edge : Supported(Stored', x)
  BY SupportedKept DEF EdgesSupported, Supported
<1>2. ASSUME \A x \in projection'.edge : Supported(Stored', x)
      PROVE  EdgesSupported'
  BY <1>2 DEF EdgesSupported, Supported
<1>3. CASE projection'.edge = projection.edge
  BY <1>1, <1>2, <1>3
<1>4. ASSUME NEW ev \in DownloadEvent, projection' = StorePendingDownload(projection, ev)
      PROVE  EdgesSupported'
  BY <1>3, <1>4, DownloadEffect DEF TypeOK
<1>5. ASSUME NEW e \in Engines, NEW ev \in MatchEvent,
             engine[e].phase = "derive",
             engine[e].candidate =
               [download |-> ev.download, identity |-> ev.identity, url |-> ev.url,
                downloadEvent |-> ev.downloadEvent, fileEvent |-> ev.fileEvent, at |-> ev.at],
             projection' = AddObservedDownloadEdge(projection, ev)
      PROVE  EdgesSupported'
  <2> DEFINE own == [identity |-> ev.identity, url |-> ev.url,
                     downloadEvent |-> ev.downloadEvent, fileEvent |-> ev.fileEvent]
  <2>1. Supported(Stored', engine[e].candidate)
    BY <1>5, SupportedKept DEF DerivesSupported
  <2>2. \A d, f : Cites(d, f, engine[e].candidate) => Cites(d, f, own)
    BY <1>5 DEF Cites
  <2>3. Supported(Stored', own)
    BY <2>1, <2>2 DEF Supported
  <2>4. projection'.edge \subseteq projection.edge \cup {own}
    BY <1>5, MatchEffect DEF TypeOK
  <2> HIDE DEF own
  <2>5. QED
    BY <1>1, <1>2, <2>3, <2>4
<1>6. QED
  BY <1>3, <1>4, <1>5, PendingCases

-----------------------------------------------------------------------------
(* A pair is matched in either order of arrival.                           *)

LEMMA EitherOrderIs ==
  /\ EitherOrderMatched <=>
       \A d \in Stored, i \in Identities, p \in Paths :
         Pair(d, i, p) /\ Settled(p) => projection.pending[d.download].matched
  /\ EitherOrderMatched' <=>
       \A d \in Stored', i \in Identities, p \in Paths :
         Pair(d, i, p)' /\ Settled(p)' => projection'.pending[d.download].matched
BY DEF EitherOrderMatched, Pair, Settled, IsDownload

(* The download at the path of a pair is the pair's.                       *)
LEMMA SoleDownload ==
  ASSUME PendingWitnessed, NEW d, NEW i \in Identities, NEW p \in Paths, Pair(d, i, p),
         NEW x \in DownloadIds, projection.pending[x] # None,
         NoCase[projection.pending[x].path] = NoCase[p]
  PROVE  x = d.download /\ projection.pending[x].at = d.at
<1>1. PICK r \in Stored :
        /\ IsDownload(r) /\ r.download = x
        /\ r.path = projection.pending[x].path /\ r.at = projection.pending[x].at
  BY DEF PendingWitnessed, IsDownload
<1>2. r \in DownloadsAt(NoCase[p])
  BY <1>1 DEF DownloadsAt, IsDownload
<1>3. r = d
  BY <1>2 DEF Pair
<1>4. QED
  BY <1>1, <1>3

(* So is the joined row, and it is within the tolerance.                   *)
LEMMA SoleRow ==
  ASSUME Witnessed, OneActiveLocation, NEW d, NEW i \in Identities, NEW p \in Paths,
         Pair(d, i, p), NEW row \in JoinedRow, row \in JoinedTo(projection, row.download),
         NoCase[projection.pending[row.download].path] = NoCase[p]
  PROVE  InTolerance(projection, row)
<1> DEFINE loc == projection.location[row.identity][row.path]
<1>1. /\ row.download \in DownloadIds /\ row.identity \in Identities /\ row.path \in Paths
      /\ projection.pending[row.download] # None
      /\ loc # None /\ loc.active
      /\ NoCase[row.path] = NoCase[projection.pending[row.download].path]
  BY DEF JoinedRow, JoinedTo
<1>2. row.download = d.download /\ projection.pending[row.download].at = d.at
  BY <1>1, SoleDownload DEF Witnessed
<1>3. PICK f \in Stored : f.type = "FileObserved" /\ f.identity = row.identity /\ f.path = row.path
  BY <1>1 DEF Witnessed, LocationsWitnessed
<1>4. f \in FilesAt(NoCase[p])
  BY <1>1, <1>3 DEF FilesAt
<1>5. row.identity = i
  BY <1>3, <1>4 DEF Pair
<1>6. row.path = p
  BY <1>1, <1>5 DEF OneActiveLocation, Pair
<1>7. QED
  BY <1>2, <1>5, <1>6 DEF InTolerance, Pair

(* A pair whose download is unmatched is found by the first query.         *)
LEMMA PairJoined ==
  ASSUME TypeOK, PendingComplete, NEW d, NEW i \in Identities, NEW p \in Paths, Pair(d, i, p),
         NEW q \in Paths, NoCase[q] = NoCase[p],
         Joined(projection, q) = {}
  PROVE  projection.pending[d.download].matched
<1> DEFINE row == [download |-> d.download, identity |-> i, path |-> p]
<1>1. /\ d \in Stored /\ IsDownload(d) /\ d \in DownloadsAt(NoCase[p])
      /\ projection.location[i][p] # None /\ projection.location[i][p].active
  BY DEF Pair
<1>2. /\ d \in Inputs /\ projection.pending[d.download] # None
      /\ projection.pending[d.download].path = d.path
  BY <1>1 DEF PendingComplete
<1>3. d.download \in DownloadIds /\ NoCase[d.path] = NoCase[p]
  BY <1>1, <1>2, DownloadShape DEF DownloadsAt
<1>4. /\ row \in JoinedRow /\ row.download = d.download
      /\ row.identity = i /\ row.path = p
  BY <1>3 DEF JoinedRow
<1> HIDE DEF row
<1>5. row \in JoinedTo(projection, d.download)
  BY <1>1, <1>2, <1>3, <1>4 DEF JoinedTo
<1>6. ~projection.pending[d.download].matched => row \in Joined(projection, q)
  BY <1>2, <1>3, <1>4, <1>5 DEF Joined
<1>7. QED
  BY <1>6

(* Once matched, always.                                                   *)
LEMMA PairStaysMatched ==
  ASSUME TypeOK, PendingWitnessed, PendingComplete, [Next]_vars,
         NEW d, NEW i, NEW p, Pair(d, i, p),
         projection.pending[d.download].matched
  PROVE  projection'.pending[d.download].matched
<1>1. d \in Inputs /\ IsDownload(d) /\ projection.pending[d.download] # None
  BY DEF Pair, PendingComplete
<1>2. d.download \in DownloadIds
  BY <1>1, DownloadShape
<1>3. QED
  BY <1>1, <1>2, MarkKept

(* A step that stores nothing about the path leaves its pair.              *)
LEMMA PairWas ==
  ASSUME NEW d, NEW i, NEW p, Pair(d, i, p)', NEW ev, Stored' \subseteq Stored \cup {ev},
         Stored \subseteq Stored',
         projection'.location[i][p] = projection.location[i][p],
         IsDownload(ev) => NoCase[ev.path] # NoCase[p]
  PROVE  Pair(d, i, p)
<1>1. DownloadsAt(NoCase[p])' = {d}
  BY DEF Pair
<1>2. /\ DownloadsAt(NoCase[p])' = DownloadsAt(NoCase[p])
      /\ FilesAt(NoCase[p]) \subseteq FilesAt(NoCase[p])'
  BY DEF DownloadsAt, FilesAt, IsDownload
<1>3. d \in Stored
  BY <1>1, <1>2 DEF DownloadsAt
<1>4. QED
  BY <1>1, <1>2, <1>3 DEF Pair

(* An engine that leaves another path leaves this one settled.             *)
LEMMA SettledWas ==
  ASSUME TypeOK, NEW e \in Engines, NEW p \in Paths, Settled(p)',
         \A x \in Engines \ {e} : engine'[x] = engine[x],
         engine[e] = Idle \/ NoCase[engine[e].path] # NoCase[p],
         NoCase[p] \in interrupted => NoCase[p] \in interrupted'
  PROVE  Settled(p)
<1>1. \A x \in Engines \ {e} : engine[x] = Idle \/ NoCase[engine[x].path] # NoCase[p]
  BY DEF Settled
<1>2. QED
  BY <1>1 DEF Settled

LEMMA EitherOrderStep ==
  ASSUME Inductive, Correlation, EitherOrderMatched, [Next]_vars
  PROVE  EitherOrderMatched'
<1>1. SUFFICES ASSUME NEW d \in Stored', NEW i \in Identities, NEW p \in Paths,
                      Pair(d, i, p)', Settled(p)'
               PROVE  projection'.pending[d.download].matched
  BY EitherOrderIs
<1>2. /\ TypeOK /\ Witnessed /\ PendingWitnessed /\ OneActiveLocation
      /\ PendingComplete /\ Carried /\ Stored \subseteq Stored'
  BY StoredGrows DEF Inductive, Witnessed, Correlation
<1>3. ASSUME Pair(d, i, p), Settled(p)
      PROVE  projection'.pending[d.download].matched
  <2>1. d \in Stored
    BY <1>3 DEF Pair
  <2>2. projection.pending[d.download].matched
    BY <1>3, <2>1, EitherOrderIs
  <2>3. QED
    BY <1>2, <1>3, <2>2, PairStaysMatched
<1>4. ASSUME KeepsLog
      PROVE  Pair(d, i, p)
  <2>1. Stored' = Stored /\ projection' = projection
    BY <1>4 DEF KeepsLog, Stored
  <2>2. QED
    BY <1>1, <2>1 DEF Pair, DownloadsAt, FilesAt
<1>5. ASSUME NEW e \in Engines, NEW st, engine' = [engine EXCEPT ![e] = st]
      PROVE  /\ engine'[e] = st
             /\ \A x \in Engines \ {e} : engine'[x] = engine[x]
  BY <1>2, <1>5 DEF TypeOK
<1>6. ASSUME NEW e \in Engines, Settle(e), NoCase[engine[e].path] # NoCase[p]
      PROVE  Settled(p)
  <2>1. /\ \A x \in Engines \ {e} : engine'[x] = engine[x]
        /\ interrupted' = interrupted \ {NoCase[engine[e].path]}
    BY <1>5, <1>6 DEF Settle
  <2>2. QED
    BY <1>1, <1>2, <1>6, <2>1, SettledWas
<1>7. ASSUME NEW e \in Engines, FindNothing(e)
      PROVE  projection'.pending[d.download].matched
  <2>1. /\ Settle(e) /\ KeepsLog /\ engine[e].phase = "match"
        /\ Joined(projection, engine[e].path) = {}
    BY <1>7 DEF FindNothing, KeepsLog
  <2>2. engine[e].path \in Paths
    BY <1>2, <2>1 DEF TypeOK, EngineState, Idle
  <2>3. CASE NoCase[engine[e].path] = NoCase[p]
    <3>1. projection.pending[d.download].matched
      BY <1>2, <1>4, <2>1, <2>2, <2>3, PairJoined
    <3>2. QED
      BY <2>1, <3>1 DEF KeepsLog
  <2>4. QED
    BY <1>3, <1>4, <1>6, <2>1, <2>3
<1>8. ASSUME NEW e \in Engines, TooFarApart(e)
      PROVE  projection'.pending[d.download].matched
  <2>1. Settle(e) /\ KeepsLog /\ engine[e].phase = "check"
    BY <1>8 DEF TooFarApart, KeepsLog
  <2>2. CASE NoCase[engine[e].path] = NoCase[p]
    <3> DEFINE x == engine[e].candidate.download
    <3>1. NoCase[projection.pending[x].path] = NoCase[p]
      BY <1>2, <2>1, <2>2 DEF Carried
    <3>2. PICK row \in ReadAgain(e) : ~InTolerance(projection, row)
      BY <1>8 DEF TooFarApart
    <3>3. row \in JoinedTo(projection, x)
      BY <3>2 DEF ReadAgain
    <3>4. row \in JoinedRow /\ row.download = x
      BY <3>3 DEF JoinedTo
    <3>5. QED
      BY <1>2, <1>4, <2>1, <3>1, <3>2, <3>3, <3>4, SoleRow
  <2>3. QED
    BY <1>3, <1>4, <1>6, <2>1, <2>2
<1>9. ASSUME NEW e \in Engines, FindRow(e) \/ FindMatch(e)
      PROVE  projection'.pending[d.download].matched
  <2>1. /\ KeepsLog /\ engine[e].phase \in {"match", "check"} /\ UNCHANGED interrupted
        /\ \E st : engine' = [engine EXCEPT ![e] = st]
    BY <1>9 DEF FindRow, FindMatch, KeepsLog
  <2>2. \A x \in Engines \ {e} : engine'[x] = engine[x]
    BY <1>5, <2>1
  <2>3. engine'[e].path = engine[e].path /\ engine'[e].phase \in {"check", "derive"}
    BY <1>2, <1>9 DEF FindRow, FindMatch, TypeOK
  <2>4. engine'[e] # Idle
    BY <2>3 DEF Idle
  <2>5. NoCase[engine[e].path] # NoCase[p]
    BY <1>1, <2>3, <2>4 DEF Settled
  <2>6. QED
    BY <1>1, <1>2, <1>3, <1>4, <2>1, <2>2, <2>5, SettledWas
<1>10. ASSUME NEW e \in Engines, FindFails(e) \/ Crash(e)
       PROVE  projection'.pending[d.download].matched
  <2>1. /\ KeepsLog /\ interrupted' = interrupted \cup {NoCase[engine[e].path]}
        /\ engine' = [engine EXCEPT ![e] = Idle]
    BY <1>10 DEF FindFails, Crash, KeepsLog
  <2>2. \A x \in Engines \ {e} : engine'[x] = engine[x]
    BY <1>5, <2>1
  <2>3. NoCase[engine[e].path] # NoCase[p]
    BY <1>1, <2>1 DEF Settled
  <2>4. QED
    BY <1>1, <1>2, <1>3, <1>4, <2>1, <2>2, <2>3, SettledWas
<1>11. ASSUME NEW e \in Engines, NEW ev \in Inputs, Ingest(e, ev)
       PROVE  projection'.pending[d.download].matched
  <2> DEFINE st == IF MatchPath(ev) = None THEN Idle ELSE [phase |-> "match", path |-> ev.path]
  <2>1. /\ engine[e] = Idle /\ UNCHANGED interrupted /\ engine' = [engine EXCEPT ![e] = st]
        /\ \/ KeepsLog
           \/ log' = Append(log, ev) /\ projection' = Project(projection, ev)
    BY <1>11 DEF Ingest, AppendWithProjection, KeepsLog
  <2>2. /\ engine'[e] = st /\ \A x \in Engines \ {e} : engine'[x] = engine[x]
    <3>1. engine' = [engine EXCEPT ![e] = st]
      BY <2>1
    <3> HIDE DEF st
    <3>2. QED
      BY <1>5, <3>1
  <2>3. Settled(p)
    BY <1>1, <1>2, <2>1, <2>2, SettledWas
  <2>4. MatchPath(ev) = None \/ NoCase[ev.path] # NoCase[p]
    <3>1. [phase |-> "match", path |-> ev.path] # Idle
      BY DEF Idle
    <3>2. QED
      BY <1>1, <2>2, <3>1 DEF Settled
  <2>5. CASE log' = Append(log, ev) /\ projection' = Project(projection, ev)
    <3>1. ev \in InputEvent /\ Stored' = Stored \cup {ev}
      BY <1>2, <2>5, InputFacts
    <3>2. CASE ev \in FileEvent
      <4>1. ~IsDownload(ev) /\ projection' = UpsertArtifactLocation(projection, ev)
        BY <2>5, <3>2 DEF IsDownload, Project, FileEvent
      <4>2. projection'.location[i][p] # None /\ projection'.location[i][p].active
        BY <1>1 DEF Pair
      <4>3. ev.change # "Deleted" => MatchPath(ev) # None
        BY <3>2, NoneAssumption DEF MatchPath, FileEvent
      <4>4. projection'.location[i][p] = projection.location[i][p]
        BY <1>2, <2>4, <3>2, <4>1, <4>2, <4>3, FileRows DEF TypeOK
      <4>5. QED
        BY <1>1, <1>3, <2>3, <3>1, <4>1, <4>4, PairWas
    <3>3. CASE ev \in DownloadEvent
      <4>1. projection' = StorePendingDownload(projection, ev)
        BY <2>5, <3>3 DEF Project, DownloadEvent
      <4>2. projection'.location[i][p] = projection.location[i][p]
        BY <1>2, <3>3, <4>1, DownloadEffect DEF TypeOK
      <4>3. MatchPath(ev) # None
        BY <3>3, NoneAssumption DEF MatchPath, DownloadEvent
      <4>4. QED
        BY <1>1, <1>3, <2>3, <2>4, <3>1, <4>2, <4>3, PairWas
    <3>4. CASE ev \in GapEvent \cup TaskEvent \cup ContentEvent
      <4>1. projection'.location[i][p] = projection.location[i][p]
        BY <1>2, <2>5, <3>4, OtherFrame DEF TypeOK
      <4>2. ~IsDownload(ev)
        BY <3>4 DEF IsDownload, GapEvent, TaskEvent, ContentEvent
      <4>3. QED
        BY <1>1, <1>3, <2>3, <3>1, <4>1, <4>2, PairWas
    <3>5. QED
      BY <3>1, <3>2, <3>3, <3>4 DEF InputEvent
  <2>6. QED
    BY <1>3, <1>4, <2>1, <2>3, <2>5
<1>12. ASSUME NEW e \in Engines, NEW ev \in InputsV2, IngestV2(e, ev)
       PROVE  projection'.pending[d.download].matched
  <2>1. UNCHANGED <<projection, engine, interrupted>> /\ (log' = log \/ log' = Append(log, ev))
    BY <1>12 DEF IngestV2, AppendRawV2
  <2>2. Settled(p)
    BY <1>1, <2>1 DEF Settled
  <2>3. ev \in EventV2 /\ ~IsDownload(ev)
    BY InputsAssumption, DownloadShape
  <2>4. Stored' \subseteq Stored \cup {ev}
    BY <1>2, <2>1, V2Facts DEF Stored
  <2>5. QED
    BY <1>1, <1>2, <1>3, <2>1, <2>2, <2>3, <2>4, PairWas
<1>13. ASSUME NEW e \in Engines, NEW id \in DerivedIds, AppendMatch(e, id)
       PROVE  projection'.pending[d.download].matched
  <2> DEFINE c == engine[e].candidate
             ev == [type |-> "DownloadMatched", id |-> id, at |-> c.at, download |-> c.download,
                    identity |-> c.identity, url |-> c.url,
                    downloadEvent |-> c.downloadEvent, fileEvent |-> c.fileEvent]
  <2>1. engine[e].phase = "derive" /\ c \in CandidateRow
    BY <1>2, <1>13 DEF AppendMatch, TypeOK, EngineState, Idle
  <2>2. ev \in MatchEvent /\ ev.download = c.download
    BY <2>1 DEF MatchEvent, CandidateRow
  <2>3. log' = Append(log, ev) /\ projection' = Project(projection, ev) /\ Settle(e)
    BY <1>13 DEF AppendMatch
  <2> HIDE DEF ev
  <2>4. Stored' = Stored \cup {ev} /\ ~IsDownload(ev)
    BY <1>2, <2>2, <2>3, MatchFacts, DownloadShape
  <2>5. projection'.location = projection.location
    <3>1. projection' = AddObservedDownloadEdge(projection, ev)
      BY <2>2, <2>3 DEF Project, MatchEvent
    <3>2. QED
      BY <1>2, <2>2, <3>1, MatchEffect DEF TypeOK
  <2>6. Pair(d, i, p)
    BY <1>1, <2>4, <2>5, PairWas
  <2>7. CASE NoCase[engine[e].path] = NoCase[p]
    <3>1. /\ projection.pending[c.download] # None /\ c.download \in DownloadIds
          /\ NoCase[projection.pending[c.download].path] = NoCase[p]
      BY <1>2, <2>1, <2>7 DEF Carried, CandidateRow
    <3>2. c.download = d.download
      BY <1>2, <2>6, <3>1, SoleDownload
    <3>3. QED
      BY <1>2, <2>2, <2>3, <3>1, <3>2, MatchMarks
  <2>8. QED
    BY <1>3, <1>6, <2>3, <2>6, <2>7
<1>14. CASE \/ UNCHANGED vars
            \/ \E e \in Engines, s \in Sources, n \in ReconciledAt :
                 MarkCollectorReconciled(e, s, n)
  <2>1. KeepsLog /\ UNCHANGED <<engine, interrupted>>
    BY <1>14 DEF MarkCollectorReconciled, vars, KeepsLog
  <2>2. Settled(p)
    BY <1>1, <2>1 DEF Settled
  <2>3. QED
    BY <1>3, <1>4, <2>1, <2>2
<1>15. QED
  BY <1>7, <1>8, <1>9, <1>10, <1>11, <1>12, <1>13, <1>14 DEF Next

-----------------------------------------------------------------------------
LEMMA CorrelationInductive ==
  /\ Init => Correlation /\ EitherOrderMatched
  /\ Inductive /\ Correlation /\ EitherOrderMatched /\ [Next]_vars
       => Correlation' /\ EitherOrderMatched'
<1>1. ASSUME Init
      PROVE  Correlation /\ EitherOrderMatched
  <2>1. \A e \in Engines : engine[e].phase \notin {"check", "derive"}
    BY <1>1 DEF Init, Idle
  <2>2. DOMAIN log = {} /\ Stored = {}
    BY <1>1 DEF Init, Stored
  <2>3. Correlation
    BY <2>1, <2>2 DEF Correlation, PendingComplete, Carried, Marked
  <2>4. QED
    BY <2>2, <2>3 DEF EitherOrderMatched
<1>2. ASSUME Inductive, Correlation, EitherOrderMatched, [Next]_vars
      PROVE  Correlation' /\ EitherOrderMatched'
  <2>1. TypeOK /\ PendingWitnessed
    BY <1>2 DEF Inductive, Witnessed
  <2>2. Correlation'
    BY <1>2, <2>1, PendingCompleteStep, CarriedStep, MarkedStep DEF Correlation
  <2>3. QED
    BY <1>2, <2>2, EitherOrderStep
<1>3. QED
  BY <1>1, <1>2

(* A download and its file are matched in either order of arrival, once    *)
(* the correlation of their path has run to its end, whichever processes   *)
(* stored and correlated them and however their steps interleave.          *)
THEOREM MatchedInEitherOrder == Spec => []EitherOrderMatched
BY CorrelationInductive, InductiveAlways, PTL DEF Spec

(* The correlator never derives two matches from one download event,       *)
(* however often either event is redelivered and wherever a process was    *)
(* cut short, unless two processes carried a match of that download from   *)
(* find_download_match to the commit at the same time.                     *)
THEOREM MatchedOnce == Spec => []OneMatchPerDownloadEvent
<1>1. Init => Sole /\ Unmatched /\ OneMatchPerDownloadEvent
  BY DEF Init, Idle, Sole, Unmatched, Carries, OneMatchPerDownloadEvent
<1>2. /\ Inductive /\ Correlation /\ Sole /\ Unmatched
      /\ OneMatchPerDownloadEvent /\ [Next]_vars
      => Sole' /\ Unmatched' /\ OneMatchPerDownloadEvent'
  BY SoleStep, UnmatchedStep, OneMatchStep DEF Inductive, Witnessed, Correlation
<1>3. QED
  BY <1>1, <1>2, CorrelationInductive, InductiveAlways, PTL DEF Spec

(* Behind every edge there is, with any number of processes and whichever  *)
(* rows the unordered second query returns, a stored observation at the    *)
(* path of its download less than a second over the tolerance away: all    *)
(* that find_download_match's test guarantees.                             *)
THEOREM EdgesAlwaysSupported == Spec => []EdgesSupported
<1>1. Init => DerivesSupported /\ EdgesSupported
  BY DEF Init, Idle, DerivesSupported, EdgesSupported, EmptyProjection
<1>2. Inductive /\ Correlation /\ DerivesSupported /\ EdgesSupported /\ [Next]_vars
      => DerivesSupported' /\ EdgesSupported'
  BY DerivesSupportedStep, EdgesSupportedStep DEF Inductive, Witnessed, Correlation
<1>3. QED
  BY <1>1, <1>2, CorrelationInductive, InductiveAlways, PTL DEF Spec
=============================================================================
