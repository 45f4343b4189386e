----------------------------- MODULE EventStore -----------------------------
(***************************************************************************)
(* The ingest boundary of the context agent: ContextEngine of crates/core  *)
(* over SqliteRepository of crates/storage-sqlite.  One variable per       *)
(* durable piece (the raw event log, the tables projected from it, the     *)
(* collector checkpoints) and the volatile position of every engine        *)
(* between two of its transactions.                                        *)
(*                                                                         *)
(* An engine is one process that has opened the database.  `ingest' is not *)
(* one transaction: it commits the event, then reads a download match in   *)
(* two queries, then commits a derived event.  A process can die, or       *)
(* another can commit, between any two of these.  A transaction is atomic, *)
(* a failed one and an envelope rejected for its version leave no trace.   *)
(***************************************************************************)
EXTENDS Naturals, Sequences

CONSTANTS
  Engines,      \* processes that have opened the database
  Inputs,       \* v1 envelopes the sources deliver, each any number of times
  InputsV2,     \* v2 envelopes
  EventIds,     \* UUIDs chosen by the sources
  DerivedIds,   \* UUIDs drawn by the download correlator
  Sources,      \* pairs (source, scope_id), the key of collector_checkpoint
  Identities,   \* file identities (provider, namespace, opaque id)
  Paths,        \* spellings of absolute paths
  NoCase,       \* NoCase[p]: the spelling that stands for p under NOCASE
  DownloadIds,
  Urls,
  Tasks,
  Names,
  ReconciledAt, \* sequences a collector reports with mark_collector_reconciled
  Tolerance,    \* find_download_match's tolerance_seconds (180 in the code)
  None          \* SQL NULL, and a row that is absent

FileChange == {"Created", "Modified", "Renamed", "Deleted"}

Sequence == Nat \cup {None}
Ids == EventIds \cup DerivedIds

(* Time is counted in half seconds: enough to tell a whole second from a   *)
(* fraction of one, which is what the stored text and the tolerance test   *)
(* treat differently.                                                      *)
Time == Nat

FileEvent ==
  [type : {"FileObserved"}, id : EventIds, source : Sources, seq : Sequence, at : Time,
   identity : Identities, path : Paths, change : FileChange]
DownloadEvent ==
  [type : {"BrowserDownloadObserved"}, id : EventIds, source : Sources, seq : Sequence,
   at : Time, download : DownloadIds, url : Urls, path : Paths]
GapEvent ==
  [type : {"CollectorGap"}, id : EventIds, source : Sources, seq : Sequence, at : Time,
   last : Sequence]
TaskEvent ==
  [type : {"TaskStarted"}, id : EventIds, source : Sources, seq : Sequence, at : Time,
   task : Tasks, name : Names]
ContentEvent ==
  [type : {"ContentObserved"}, id : EventIds, source : Sources, seq : Sequence, at : Time]
MatchEvent ==
  [type : {"DownloadMatched"}, id : DerivedIds, at : Time, download : DownloadIds,
   identity : Identities, url : Urls, downloadEvent : EventIds, fileEvent : EventIds]
EventV2 ==
  [type : {"V2"}, id : EventIds, source : Sources, seq : Sequence, at : Time, gap : BOOLEAN]

InputEvent == FileEvent \cup DownloadEvent \cup GapEvent \cup TaskEvent \cup ContentEvent
Event == InputEvent \cup MatchEvent \cup EventV2

(* Left out: a client that submits a DownloadMatched of its own through    *)
(* the API (Request::SubmitEvent takes any payload).  The store records    *)
(* that edge without a check; it is the client's word, and what is said    *)
(* here of edges is said of those the correlator derived.                  *)
ASSUME InputsAssumption == Inputs \subseteq InputEvent /\ InputsV2 \subseteq EventV2
ASSUME IdsAssumption == EventIds \cap DerivedIds = {}
(* The native host, the only source of downloads, uses the download id as  *)
(* the event id (request_from_browser).                                    *)
ASSUME DownloadsAssumption ==
  \A a, b \in Inputs :
    /\ a.type = "BrowserDownloadObserved"
    /\ b.type = "BrowserDownloadObserved"
    /\ a.download = b.download
    => a.id = b.id
ASSUME PathsAssumption == NoCase \in [Paths -> Paths]
ASSUME BoundsAssumption == Tolerance \in Nat /\ ReconciledAt \subseteq Nat
ASSUME NoneAssumption ==
  /\ None \notin Nat
  /\ None \notin Paths
  /\ None \notin [last : Nat, required : BOOLEAN]
  /\ None \notin [at : Time, active : BOOLEAN, change : FileChange, src : EventIds]
  /\ None \notin [url : Urls, path : Paths, at : Time, src : EventIds, matched : BOOLEAN]
  /\ None \notin [name : Names, started : Time]

VARIABLES
  log,          \* raw_event, in insertion order
  projection,   \* artifact, location, pending_download, edge, collector_gap, task
  checkpoint,   \* collector_checkpoint, per source
  engine,       \* where each engine stands between two transactions
  interrupted,  \* history: paths whose correlation was cut short
  contended     \* history: downloads two engines carried a match of at once

vars == <<log, projection, checkpoint, engine, interrupted, contended>>

Stored == {log[i] : i \in DOMAIN log}
StoredIds == {r.id : r \in Stored}

-----------------------------------------------------------------------------
(* Conversions.                                                            *)

(* RFC 3339 text drops a zero fraction, and "Z" sorts after ".": as text a *)
(* whole second follows the half second after it.                          *)
TextKey(t) == IF t % 2 = 0 THEN t + 1 ELSE t - 1

TextLater(t, u) == IF TextKey(t) >= TextKey(u) THEN t ELSE u

Apart(t, u) == IF t >= u THEN t - u ELSE u - t

(* Duration::whole_seconds().abs() truncates towards zero.                 *)
WholeSeconds(t, u) == Apart(t, u) \div 2

Larger(m, n) == IF m >= n THEN m ELSE n

-----------------------------------------------------------------------------
(* The projection: what project_event and apply_command do for one event.  *)

EmptyProjection ==
  [artifact |-> {},
   location |-> [i \in Identities |-> [p \in Paths |-> None]],
   pending  |-> [d \in DownloadIds |-> None],
   edge     |-> {},
   gap      |-> <<>>,
   task     |-> [t \in Tasks |-> None]]

(* Mutant: the deletion reports itself but leaves the row open.            *)
DeleteLocation_StaysActive(pr, ev) ==
  IF ev.identity \in pr.artifact /\ pr.location[ev.identity][ev.path] # None
  THEN [pr EXCEPT !.location[ev.identity][ev.path] =
          [at |-> ev.at, active |-> TRUE, change |-> ev.change, src |-> ev.id]]
  ELSE pr

(* A deletion only closes the row of this identity at exactly this         *)
(* spelling of the path; it creates neither artifact nor row.              *)
DeleteLocation(pr, ev) ==
  IF ev.identity \in pr.artifact /\ pr.location[ev.identity][ev.path] # None
  THEN [pr EXCEPT !.location[ev.identity][ev.path] =
          [at |-> ev.at, active |-> FALSE, change |-> ev.change, src |-> ev.id]]
  ELSE pr

(* Mutant: the artifact's earlier locations stay open.                     *)
MoveLocation_KeepsOld(pr, ev) ==
  [pr EXCEPT
     !.artifact = @ \cup {ev.identity},
     !.location[ev.identity][ev.path] =
       [at |-> ev.at, active |-> TRUE, change |-> ev.change, src |-> ev.id]]

(* Any other change moves the artifact: every other row is closed first.   *)
MoveLocation(pr, ev) ==
  [pr EXCEPT
     !.artifact = @ \cup {ev.identity},
     !.location[ev.identity] =
       [p \in Paths |->
          IF p = ev.path
          THEN [at |-> ev.at, active |-> TRUE, change |-> ev.change, src |-> ev.id]
          ELSE IF @[p] = None THEN None ELSE [@[p] EXCEPT !.active = FALSE]]]

UpsertArtifactLocation(pr, ev) ==
  IF ev.change = "Deleted" THEN DeleteLocation(pr, ev) ELSE MoveLocation(pr, ev)

(* INSERT OR REPLACE: a new event for a known download would forget the    *)
(* match; DownloadsAssumption is what keeps that from happening.           *)
StorePendingDownload(pr, ev) ==
  [pr EXCEPT !.pending[ev.download] =
     [url |-> ev.url, path |-> ev.path, at |-> ev.at, src |-> ev.id, matched |-> FALSE]]

(* Mutant: UNIQUE without the object value.                                *)
AddObservedDownloadEdge_OnePerArtifact(pr, ev) ==
  [pr EXCEPT
     !.artifact = @ \cup {ev.identity},
     !.edge =
       IF \E x \in @ : x.identity = ev.identity
       THEN @
       ELSE @ \cup {[identity |-> ev.identity, url |-> ev.url,
                     downloadEvent |-> ev.downloadEvent, fileEvent |-> ev.fileEvent]},
     !.pending[ev.download] = IF @ = None THEN None ELSE [@ EXCEPT !.matched = TRUE]]

(* Mutant: matched_at is not written.                                      *)
AddObservedDownloadEdge_StaysPending(pr, ev) ==
  [pr EXCEPT
     !.artifact = @ \cup {ev.identity},
     !.edge =
       IF \E x \in @ : x.identity = ev.identity /\ x.url = ev.url
       THEN @
       ELSE @ \cup {[identity |-> ev.identity, url |-> ev.url,
                     downloadEvent |-> ev.downloadEvent, fileEvent |-> ev.fileEvent]}]

(* INSERT OR IGNORE under UNIQUE(artifact, predicate, object, status).     *)
AddObservedDownloadEdge(pr, ev) ==
  [pr EXCEPT
     !.artifact = @ \cup {ev.identity},
     !.edge =
       IF \E x \in @ : x.identity = ev.identity /\ x.url = ev.url
       THEN @
       ELSE @ \cup {[identity |-> ev.identity, url |-> ev.url,
                     downloadEvent |-> ev.downloadEvent, fileEvent |-> ev.fileEvent]},
     !.pending[ev.download] = IF @ = None THEN None ELSE [@ EXCEPT !.matched = TRUE]]

RecordCollectorGap(pr, ev) == [pr EXCEPT !.gap = Append(@, ev.last)]

UpsertTask(pr, ev) ==
  [pr EXCEPT !.task[ev.task] =
     IF @ = None THEN [name |-> ev.name, started |-> ev.at] ELSE [@ EXCEPT !.name = ev.name]]

Project(pr, ev) ==
  CASE ev.type = "FileObserved"            -> UpsertArtifactLocation(pr, ev)
    [] ev.type = "BrowserDownloadObserved" -> StorePendingDownload(pr, ev)
    [] ev.type = "DownloadMatched"         -> AddObservedDownloadEdge(pr, ev)
    [] ev.type = "CollectorGap"            -> RecordCollectorGap(pr, ev)
    [] ev.type = "TaskStarted"             -> UpsertTask(pr, ev)
    [] OTHER                               -> pr

(* Mutant: the latest sequence instead of the largest.                     *)
UpsertCheckpoint_Latest(cp, source, seq, gap) ==
  IF seq = None THEN cp
  ELSE [cp EXCEPT ![source] =
          IF @ = None THEN [last |-> seq, required |-> gap]
          ELSE [last |-> seq, required |-> @.required \/ gap]]

(* The row of a source after an event with a sequence.                     *)
UpsertCheckpoint(cp, source, seq, gap) ==
  IF seq = None THEN cp
  ELSE [cp EXCEPT ![source] =
          IF @ = None THEN [last |-> seq, required |-> gap]
          ELSE [last |-> Larger(@.last, seq), required |-> @.required \/ gap]]

-----------------------------------------------------------------------------
JoinedRow == [download : DownloadIds, identity : Identities, path : Paths]

(* The active locations spelled like a download's path up to case: the     *)
(* join of both queries of find_download_match.                            *)
JoinedTo(pr, d) ==
  {row \in JoinedRow :
     /\ row.download = d
     /\ pr.pending[d] # None
     /\ pr.location[row.identity][row.path] # None
     /\ pr.location[row.identity][row.path].active
     /\ NoCase[row.path] = NoCase[pr.pending[d].path]}

(* Mutant: the join forgets the path.                                      *)
Joined_AnyPath(pr, path) ==
  {row \in JoinedRow :
     /\ pr.pending[row.download] # None
     /\ ~pr.pending[row.download].matched
     /\ NoCase[pr.pending[row.download].path] = NoCase[path]
     /\ pr.location[row.identity][row.path] # None
     /\ pr.location[row.identity][row.path].active}

(* The first query: the unmatched downloads of a path, so joined.          *)
Joined(pr, path) ==
  {row \in JoinedRow :
     /\ row \in JoinedTo(pr, row.download)
     /\ ~pr.pending[row.download].matched
     /\ NoCase[pr.pending[row.download].path] = NoCase[path]}

(* The rows ORDER BY pd.observed_at DESC LIMIT 1 may return: the order     *)
(* among joined rows of equal text time is the query planner's.            *)
NewestJoined(pr, path) ==
  {row \in Joined(pr, path) :
     \A other \in Joined(pr, path) :
        TextKey(pr.pending[other.download].at) <= TextKey(pr.pending[row.download].at)}

(* Mutant: the tolerance test is off by one second.                        *)
InTolerance_OffByOne(pr, row) ==
  WholeSeconds(pr.pending[row.download].at, pr.location[row.identity][row.path].at) <= Tolerance + 1

InTolerance(pr, row) ==
  WholeSeconds(pr.pending[row.download].at, pr.location[row.identity][row.path].at) <= Tolerance

(* Mutant: two columns of the row are read in the wrong order.             *)
Candidate_SwappedColumns(pr, row) ==
  [download |-> row.download, identity |-> row.identity, url |-> row.download,
   downloadEvent |-> pr.pending[row.download].src,
   fileEvent |-> pr.location[row.identity][row.path].src,
   at |-> TextLater(pr.pending[row.download].at, pr.location[row.identity][row.path].at)]

Candidate(pr, row) ==
  [download |-> row.download, identity |-> row.identity, url |-> pr.pending[row.download].url,
   downloadEvent |-> pr.pending[row.download].src,
   fileEvent |-> pr.location[row.identity][row.path].src,
   at |-> TextLater(pr.pending[row.download].at, pr.location[row.identity][row.path].at)]

(* Mutant: only file events look for a match.                              *)
MatchPath_FilesOnly(ev) ==
  IF ev.type = "FileObserved" /\ ev.change # "Deleted" THEN ev.path ELSE None

(* Only a download and a file that is not gone are correlated.             *)
MatchPath(ev) ==
  IF \/ ev.type = "FileObserved" /\ ev.change # "Deleted"
     \/ ev.type = "BrowserDownloadObserved"
  THEN ev.path ELSE None

-----------------------------------------------------------------------------
Idle == [phase |-> "idle"]

Init ==
  /\ log = <<>>
  /\ projection = EmptyProjection
  /\ checkpoint = [s \in Sources |-> None]
  /\ engine = [e \in Engines |-> Idle]
  /\ interrupted = {}
  /\ contended = {}

(* Mutant: INSERT instead of INSERT OR IGNORE, without the primary key.    *)
AppendWithProjection_NoKey(ev) ==
  /\ checkpoint' = UpsertCheckpoint(checkpoint, ev.source, ev.seq, ev.type = "CollectorGap")
  /\ log' = Append(log, ev)
  /\ projection' = Project(projection, ev)

(* Mutant: the duplicate is not told apart before the commands run.        *)
AppendWithProjection_ProjectsAgain(ev) ==
  /\ checkpoint' = UpsertCheckpoint(checkpoint, ev.source, ev.seq, ev.type = "CollectorGap")
  /\ projection' = Project(projection, ev)
  /\ log' = IF ev.id \in StoredIds THEN log ELSE Append(log, ev)

(* Mutant: INSERT OR REPLACE.                                              *)
AppendWithProjection_Replaces(ev) ==
  /\ checkpoint' = UpsertCheckpoint(checkpoint, ev.source, ev.seq, ev.type = "CollectorGap")
  /\ \/ /\ ev.id \in StoredIds
        /\ log' = [i \in DOMAIN log |-> IF log[i].id = ev.id THEN ev ELSE log[i]]
        /\ UNCHANGED projection
     \/ /\ ev.id \notin StoredIds
        /\ log' = Append(log, ev)
        /\ projection' = Project(projection, ev)

(* One transaction: INSERT OR IGNORE the raw event, move the checkpoint    *)
(* (for a duplicate too), project a new event.                             *)
AppendWithProjection(ev) ==
  /\ checkpoint' = UpsertCheckpoint(checkpoint, ev.source, ev.seq, ev.type = "CollectorGap")
  /\ \/ /\ ev.id \in StoredIds
        /\ UNCHANGED <<log, projection>>
     \/ /\ ev.id \notin StoredIds
        /\ log' = Append(log, ev)
        /\ projection' = Project(projection, ev)

(* ContextEngine::ingest up to its first commit.  A duplicate goes on to   *)
(* the match as well.                                                      *)
Ingest(e, ev) ==
  /\ engine[e] = Idle
  /\ AppendWithProjection(ev)
  /\ engine' = [engine EXCEPT ![e] =
                  IF MatchPath(ev) = None THEN Idle
                  ELSE [phase |-> "match", path |-> ev.path]]
  /\ UNCHANGED <<interrupted, contended>>

(* The correlation of this path ran to its end.                            *)
Settle(e) ==
  /\ engine' = [engine EXCEPT ![e] = Idle]
  /\ interrupted' = interrupted \ {NoCase[engine[e].path]}
  /\ UNCHANGED contended

(* The first query of find_download_match.                                 *)
FindNothing(e) ==
  /\ engine[e].phase = "match"
  /\ Joined(projection, engine[e].path) = {}
  /\ Settle(e)
  /\ UNCHANGED <<log, projection, checkpoint>>

Carries(e, d) ==
  engine[e].phase \in {"check", "derive"} /\ engine[e].candidate.download = d

FindRow(e) ==
  /\ engine[e].phase = "match"
  /\ \E row \in NewestJoined(projection, engine[e].path) :
       /\ engine' = [engine EXCEPT ![e] =
                       [phase |-> "check", path |-> @.path,
                        candidate |-> Candidate(projection, row)]]
       /\ contended' = contended \cup {d \in {row.download} : \E o \in Engines : Carries(o, d)}
  /\ UNCHANGED <<log, projection, checkpoint, interrupted>>

(* The second query names only the download and orders nothing: the times  *)
(* it reads are those of any file joined to it, the one the first query    *)
(* picked or another.                                                      *)
ReadAgain(e) == JoinedTo(projection, engine[e].candidate.download)

TooFarApart(e) ==
  /\ engine[e].phase = "check"
  /\ \E row \in ReadAgain(e) : ~InTolerance(projection, row)
  /\ Settle(e)
  /\ UNCHANGED <<log, projection, checkpoint>>

FindMatch(e) ==
  /\ engine[e].phase = "check"
  /\ \E row \in ReadAgain(e) : InTolerance(projection, row)
  /\ engine' = [engine EXCEPT ![e] =
                  [phase |-> "derive", path |-> @.path, candidate |-> @.candidate]]
  /\ UNCHANGED <<log, projection, checkpoint, interrupted, contended>>

(* No row any more: query_row fails, and ingest with it.                   *)
FindFails(e) ==
  /\ engine[e].phase = "check"
  /\ ReadAgain(e) = {}
  /\ engine' = [engine EXCEPT ![e] = Idle]
  /\ interrupted' = interrupted \cup {NoCase[engine[e].path]}
  /\ UNCHANGED <<log, projection, checkpoint, contended>>

(* The second transaction of ingest: the derived event has no sequence, so *)
(* the checkpoints do not move.                                            *)
AppendMatch(e, id) ==
  LET c == engine[e].candidate
      ev == [type |-> "DownloadMatched", id |-> id, at |-> c.at, download |-> c.download,
             identity |-> c.identity, url |-> c.url,
             downloadEvent |-> c.downloadEvent, fileEvent |-> c.fileEvent]
  IN /\ engine[e].phase = "derive"
     /\ id \notin StoredIds
     /\ log' = Append(log, ev)
     /\ projection' = Project(projection, ev)
     /\ Settle(e)
     /\ UNCHANGED checkpoint

(* append_raw_v2: nothing is projected, and a duplicate returns before the *)
(* checkpoint moves.                                                       *)
AppendRawV2(ev) ==
  \/ /\ ev.id \in StoredIds
     /\ UNCHANGED <<log, checkpoint>>
  \/ /\ ev.id \notin StoredIds
     /\ log' = Append(log, ev)
     /\ checkpoint' = UpsertCheckpoint(checkpoint, ev.source, ev.seq, ev.gap)

(* ContextEngine::ingest_v2: one transaction and no correlation.           *)
IngestV2(e, ev) ==
  /\ engine[e] = Idle
  /\ AppendRawV2(ev)
  /\ UNCHANGED <<projection, engine, interrupted, contended>>

MarkCollectorReconciled(e, s, n) ==
  /\ engine[e] = Idle
  /\ checkpoint' = [checkpoint EXCEPT ![s] =
       IF @ = None THEN [last |-> n, required |-> FALSE]
       ELSE [last |-> Larger(@.last, n), required |-> FALSE]]
  /\ UNCHANGED <<log, projection, engine, interrupted, contended>>

(* The process dies between two transactions and is started again.         *)
Crash(e) ==
  /\ engine[e] # Idle
  /\ engine' = [engine EXCEPT ![e] = Idle]
  /\ interrupted' = interrupted \cup {NoCase[engine[e].path]}
  /\ UNCHANGED <<log, projection, checkpoint, contended>>

Next ==
  \E e \in Engines :
    \/ \E ev \in Inputs : Ingest(e, ev)
    \/ FindNothing(e)
    \/ FindRow(e)
    \/ TooFarApart(e)
    \/ FindMatch(e)
    \/ FindFails(e)
    \/ \E id \in DerivedIds : AppendMatch(e, id)
    \/ \E ev \in InputsV2 : IngestV2(e, ev)
    \/ \E s \in Sources, n \in ReconciledAt : MarkCollectorReconciled(e, s, n)
    \/ Crash(e)

Spec == Init /\ [][Next]_vars

-----------------------------------------------------------------------------
LocationRow == [at : Time, active : BOOLEAN, change : FileChange, src : EventIds]
PendingRow == [url : Urls, path : Paths, at : Time, src : EventIds, matched : BOOLEAN]
EdgeRow == [identity : Identities, url : Urls, downloadEvent : EventIds, fileEvent : EventIds]
CheckpointRow == [last : Nat, required : BOOLEAN]
TaskRow == [name : Names, started : Time]
CandidateRow ==
  [download : DownloadIds, identity : Identities, url : Urls,
   downloadEvent : EventIds, fileEvent : EventIds, at : Time]

Projection ==
  [artifact : SUBSET Identities,
   location : [Identities -> [Paths -> LocationRow \cup {None}]],
   pending  : [DownloadIds -> PendingRow \cup {None}],
   edge     : SUBSET EdgeRow,
   gap      : Seq(Sequence),
   task     : [Tasks -> TaskRow \cup {None}]]

EngineState ==
  {Idle} \cup [phase : {"match"}, path : Paths]
         \cup [phase : {"check", "derive"}, path : Paths, candidate : CandidateRow]

(* Every variable keeps the shape of its tables.                           *)
TypeOK ==
  /\ log \in Seq(Event)
  /\ projection \in Projection
  /\ checkpoint \in [Sources -> CheckpointRow \cup {None}]
  /\ engine \in [Engines -> EngineState]
  /\ interrupted \in SUBSET Paths
  /\ contended \in SUBSET DownloadIds

(* No event id is stored twice, whatever is redelivered, by whichever      *)
(* process, with whatever content (INSERT OR IGNORE in both appends).      *)
UniqueIds == \A i, j \in DOMAIN log : log[i].id = log[j].id => i = j

(* An artifact is active in at most one place.  The partial unique index   *)
(* one_active_location_per_artifact would otherwise abort the transaction  *)
(* of a perfectly good file event.                                         *)
OneActiveLocation ==
  \A i \in Identities, p, q \in Paths :
    /\ projection.location[i][p] # None
    /\ projection.location[i][p].active
    /\ projection.location[i][q] # None
    /\ projection.location[i][q].active
    => p = q

(* What a "downloaded_from" edge must cite: a stored download of that URL  *)
(* and a stored, not deleted, observation of that file, at one path up to  *)
(* case.                                                                   *)
Cites(d, f, x) ==
  /\ d.type = "BrowserDownloadObserved"
  /\ f.type = "FileObserved"
  /\ f.change # "Deleted"
  /\ d.id = x.downloadEvent
  /\ f.id = x.fileEvent
  /\ d.url = x.url
  /\ f.identity = x.identity
  /\ NoCase[d.path] = NoCase[f.path]

(* Every edge cites evidence that is in the log, even when the rows the    *)
(* match was read from changed before the edge was committed, and with any *)
(* number of processes at work.                                            *)
EdgesCited ==
  \A x \in projection.edge : \E d, f \in Stored : Cites(d, f, x)

(* What the tolerance test is worth: the edge cites a stored download and  *)
(* a stored observation at its path, and some stored observation at that   *)
(* path, if not the one cited, is less than a second over the tolerance    *)
(* from the download.  It holds for any number of processes, whichever     *)
(* rows the two queries of find_download_match return and whatever changes *)
(* between them and the commit.                                            *)
EdgesSupported ==
  \A x \in projection.edge :
    \E d, f, g \in Stored :
      /\ Cites(d, f, x)
      /\ g.type = "FileObserved"
      /\ g.change # "Deleted"
      /\ NoCase[g.path] = NoCase[d.path]
      /\ Apart(d.at, g.at) < 2 * (Tolerance + 1)

(* The evidence text of the derived event, crates/core/src/lib.rs: "exact  *)
(* final path with observed events within 180 seconds", of the events the  *)
(* edge cites.                                                             *)
CitedWithinTolerance ==
  \A x \in projection.edge :
    \E d, f \in Stored : Cites(d, f, x) /\ Apart(d.at, f.at) <= 2 * Tolerance

(* What the rows of the tables, and a candidate an engine still carries,   *)
(* are evidence of: an active location is what a stored observation of     *)
(* that very file, path and time said, a pending download is its stored    *)
(* event, and the candidate read by find_download_match keeps citing       *)
(* stored events whatever happens to the rows it was read from before its  *)
(* derived event is committed.                                             *)
LocationsWitnessed ==
  \A i \in Identities, p \in Paths :
    LET row == projection.location[i][p]
    IN row # None /\ row.active
         => \E f \in Stored :
              /\ f.type = "FileObserved"
              /\ f.change # "Deleted"
              /\ f.id = row.src
              /\ f.identity = i
              /\ f.path = p
              /\ f.at = row.at

PendingWitnessed ==
  \A d \in DownloadIds :
    LET row == projection.pending[d]
    IN row # None
         => \E r \in Stored \cap Inputs :
              /\ r.type = "BrowserDownloadObserved"
              /\ r.download = d
              /\ r.id = row.src
              /\ r.url = row.url
              /\ r.path = row.path
              /\ r.at = row.at

CandidatesWitnessed ==
  \A e \in Engines :
    engine[e].phase \in {"check", "derive"}
      => LET c == engine[e].candidate
         IN /\ \E d, f \in Stored : Cites(d, f, c)
            /\ projection.pending[c.download] # None
            /\ projection.pending[c.download].url = c.url

Witnessed == LocationsWitnessed /\ PendingWitnessed /\ CandidatesWitnessed

(* A download marked as matched has its edge: matched_at and the edge are  *)
(* written by one transaction, and IGNORE only drops an edge for the same  *)
(* artifact and URL.                                                       *)
MatchedHasEdge ==
  \A d \in DownloadIds :
    projection.pending[d] # None /\ projection.pending[d].matched
      => \E x \in projection.edge : x.url = projection.pending[d].url

(* The checkpoint of a source is never behind a stored event of it, in     *)
(* whatever order its events arrive: a restarted collector continues after *)
(* last_sequence and so reuses no sequence (CollectorState::open).         *)
CheckpointCoversLog ==
  \A r \in Stored :
    r.type # "DownloadMatched" /\ r.seq # None
      => checkpoint[r.source] # None /\ r.seq <= checkpoint[r.source].last

(* No two matches are derived from one download event, however often       *)
(* either event is redelivered and wherever a process dies, unless two     *)
(* processes carried a match of that download at once: matched_at is read  *)
(* by the first query and written by the second transaction.               *)
OneMatchPerDownloadEvent ==
  \A i, j \in DOMAIN log :
    /\ log[i].type = "DownloadMatched"
    /\ log[j].type = "DownloadMatched"
    /\ log[i].downloadEvent = log[j].downloadEvent
    => i = j \/ log[i].download \in contended

(* The stored events that mention a path, up to case.                      *)
DownloadsAt(p) ==
  {r \in Stored : r.type = "BrowserDownloadObserved" /\ NoCase[r.path] = p}
FilesAt(p) == {r \in Stored : r.type = "FileObserved" /\ NoCase[r.path] = p}

(* A download and its file are correlated in either order of arrival: once *)
(* no engine works on a path and no crash has cut its correlation short, a *)
(* path with one download and one file identity that is there within the   *)
(* tolerance has its match.  A redelivery after a crash repairs it.        *)
EitherOrderMatched ==
  \A d \in Stored, i \in Identities, p \in Paths :
    /\ d.type = "BrowserDownloadObserved"
    /\ DownloadsAt(NoCase[p]) = {d}
    /\ \A f \in FilesAt(NoCase[p]) : f.identity = i
    /\ projection.location[i][p] # None
    /\ projection.location[i][p].active
    /\ WholeSeconds(d.at, projection.location[i][p].at) <= Tolerance
    /\ NoCase[p] \notin interrupted
    /\ \A e \in Engines : engine[e] = Idle \/ NoCase[engine[e].path] # NoCase[p]
    => projection.pending[d.download].matched

(* What a replay of stored events leaves in empty tables.                  *)
Replay(rows) ==
  LET tables[n \in 0 .. Len(rows)] ==
        IF n = 0 THEN EmptyProjection ELSE Project(tables[n - 1], rows[n])
  IN tables[Len(rows)]

(* docs/foundation-architecture.md: the relations can be rebuilt from the  *)
(* events.  The tables are always what replaying the log in insertion      *)
(* order produces, whatever was redelivered in between.                    *)
Rebuildable == projection = Replay(log)

(* ADR 0002, "raw events are immutable": a step only ever adds to the end  *)
(* of the log, and a redelivery under a stored id, identical or not,       *)
(* changes neither the log nor what was projected from it.                 *)
RawEventsImmutable ==
  [][ /\ Len(log) <= Len(log')
      /\ \A i \in DOMAIN log : log'[i] = log[i]
      /\ log' = log => projection' = projection ]_vars
=============================================================================
