---------------------------- MODULE MCEventStore ----------------------------
(***************************************************************************)
(* Small instances of EventStore.  The inputs are chosen so that every     *)
(* table is written and the awkward cases happen: one path in two          *)
(* spellings, two files at one path, a rename, a deletion, two downloads   *)
(* to one path (one of them out of tolerance), a gap redelivered under its *)
(* old id with a higher sequence, sequences that arrive out of order.      *)
(***************************************************************************)
EXTENDS EventStore, SequencesExt

CONSTANTS fileA, fileB, watcher, browser

MCEventIds == {"f1", "f2", "f3", "f4", "d1", "d2", "g1", "t1", "t2", "c1", "v1", "v2"}
MCSources == {watcher, browser}
MCIdentities == {fileA, fileB}
MCPaths == {"C:/x", "c:/X", "C:/y"}
MCNoCase == ("C:/x" :> "C:/x") @@ ("c:/X" :> "C:/x") @@ ("C:/y" :> "C:/y")
MCDownloadIds == {"D1", "D2"}
MCUrls == {"u1", "u2"}

File(id, seq, at, identity, path, change) ==
  [type |-> "FileObserved", id |-> id, source |-> watcher, seq |-> seq, at |-> at,
   identity |-> identity, path |-> path, change |-> change]
Download(id, seq, at, download, url, path) ==
  [type |-> "BrowserDownloadObserved", id |-> id, source |-> browser, seq |-> seq, at |-> at,
   download |-> download, url |-> url, path |-> path]
Gap(id, source, seq) ==
  [type |-> "CollectorGap", id |-> id, source |-> source, seq |-> seq, at |-> 0, last |-> seq]
Task(id, at, name) ==
  [type |-> "TaskStarted", id |-> id, source |-> watcher, seq |-> None, at |-> at,
   task |-> "T", name |-> name]
Content(id, seq) ==
  [type |-> "ContentObserved", id |-> id, source |-> watcher, seq |-> seq, at |-> 0]
V2(id, seq, gap) ==
  [type |-> "V2", id |-> id, source |-> browser, seq |-> seq, at |-> 0, gap |-> gap]

(* Processes and drawn UUIDs are interchangeable.                          *)
Interchangeable == Permutations(Engines) \cup Permutations(DerivedIds)

(* Correlation: files and downloads on one path.                           *)
CorrelationInputs ==
  {File("f1", 1, 4, fileA, "C:/x", "Created"),
   File("f2", 2, 9, fileA, "C:/y", "Renamed"),
   File("f3", 3, 9, fileB, "c:/X", "Modified"),
   File("f4", 4, 10, fileA, "C:/x", "Deleted"),
   Download("d1", 1, 7, "D1", "u1", "c:/X"),
   Download("d2", 2, 8, "D2", "u2", "C:/x")}

(* Checkpoints: gaps, tasks, content and v2 events, out of order.          *)
CheckpointInputs ==
  {Gap("g1", browser, 2), Gap("g1", browser, 6), Task("t1", 1, "n1"), Task("t2", 2, "n2"),
   Content("c1", 2), File("f1", 1, 4, fileA, "C:/x", "Created")}
CheckpointInputsV2 == {V2("v1", 3, FALSE), V2("v2", 1, TRUE)}

(* Three workloads in one instance.  A log is not continued once it mixes  *)
(* them: the search is their state spaces side by side, not the product.   *)
(* A correlating log holds any MaxCorrelated of its inputs, with the       *)
(* matches derived from them and both processes at work.                   *)
MaxCorrelated == 4
StoreInputs == CorrelationInputs \cup CheckpointInputs
Workload(ids) == \E i \in DOMAIN log : log[i].id \in ids
Correlating == Workload({"f2", "f3", "f4", "d1", "d2"})
Planning == Workload({"t1", "t2"})
Checkpointing ==
  \/ Workload({"g1", "c1", "v1", "v2"})
  \/ \E s \in Sources : checkpoint[s] # None /\ checkpoint[s].last \in ReconciledAt
OneAtWork == \A e, o \in Engines : engine[e] # Idle /\ engine[o] # Idle => e = o
OneWorkload ==
  /\ ~(Correlating /\ Checkpointing)
  /\ ~(Planning /\ (Correlating \/ Checkpointing))
  /\ Correlating => Cardinality({r \in Stored : r.id \notin DerivedIds}) <= MaxCorrelated
  /\ Planning \/ Checkpointing => OneAtWork

(* Whole seconds only: two files at one path in two spellings, one of them *)
(* within the tolerance of the download.                                   *)
SpellingInputs ==
  {File("f1", 1, 4, fileA, "C:/x", "Created"),
   File("f3", 3, 8, fileB, "c:/X", "Modified"),
   Download("d1", 1, 8, "D1", "u1", "c:/X")}
=============================================================================
