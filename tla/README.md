# Context Layer: specifications, model checking and proofs

TLA+ models of the Context Layer agent (`src/`), the TLC runs that check them on
small instances, and TLAPS proofs of their safety properties for all instances: ingest
and correlation, schema migration, the browser outbox and its refinement of
`Delivery`, the collector, the timeline, Screenpipe and the runtime. `PROJECT.json`
maps every definition to the lines it models and lists the runs, mutants,
findings, hazards and theorems.

## 1. The system

`context-agent` is one process around one SQLite database. Collectors produce
events; the agent appends them to an immutable log and projects them into
tables in the same transaction; clients read the log through a local API.

| Component | State it keeps | Operations | Hard behaviour | What makes it correct |
|---|---|---|---|---|
| Ingest core, `crates/core/src/lib.rs` | none of its own | `ingest`, `ingest_v2` | two commits and two reads per ingest; crash or another process in between | provenance edges rest on stored events; a match happens in either order of arrival, once |
| SQLite repository, `crates/storage-sqlite` | `raw_event`, `artifact`, `location`, `pending_download`, `edge`, `collector_gap`, `task`, `collector_checkpoint` | `append_with_projection`, `append_raw_v2`, `find_download_match`, `mark_collector_reconciled`, queries | redelivery, also with other content; out-of-order sequences; text comparison of times | events immutable and unique; tables rebuildable; one active location; checkpoint not behind the log |
| Browser extension, `apps/browser-extension` | `chrome.storage.local`: outbox, download ids, gap, last sequence, last page | enqueue a download, a page, a blur; flush; retry alarm | worker stopped at any await; lost answers; full outbox | in order, once, all in the end; no loss without a mark |
| Native host, `apps/context-native-host` | none | one message in, one request to the agent, one answer | killed with its message under way | idempotent at the agent |
| Directory collector, `collector.rs`, `platform-windows` | root, sequence; kernel change buffer; the store's active locations and flag | startup and gap reconciliation, batches | files move during the scan; overflow; unreadable paths; crash half way | at rest with a clear flag the store has the files where the disk has them |
| Timeline retrieval, `core/src/retrieval.rs`, `storage-sqlite/src/retrieval.rs`, `read_capability.rs` | policy, read once | `query_timeline` in batches, wire mapping | events committed between batches and pages; three bounds that end a scan | no repetition, nothing falls between two pages, nothing beyond the grant, termination |
| Screenpipe adapter, `screenpipe-adapter`, `screenpipe_capture.rs`, `runtime.rs` | cursor (volatile, restored from the newest event) | two searches per poll, one frame at a time, commit hand-shake | out-of-order times, failures in a batch, timeout against late commit, restart | each frame once, none skipped, content before reference |
| Schema migration, `storage-sqlite/src/lib.rs` | `user_version`, tables, columns, indexes, trigger | `open`: one transaction per version, backfill of `observed_key` | crash between two versions; two processes migrating; a writer of an earlier release | the number tells the schema; every event has its key; an interrupted migration can be completed |
| Content vault, `crates/content-vault` | blobs by digest | `put_bytes`, `read_verified_bytes` | an unsynced rename, a damaged or replaced file, an existing file that is trusted | a read gives the bytes of the digest or an error |
| Content access, `core/src/content_access.rs`, `content_read.rs` | none | authorize one reference of one event, read it | the order of the checks over rows that may not decode | nothing beyond the grant; what is not granted cannot be told from what is not there |
| Runtime, `runtime.rs` | the event channel, the cancellation flag | one consumer, five producer threads | an error in one branch ends all; hand-shakes without timeout; cancellation | clients are answered or disconnected, a cancelled agent stops, an agent that runs listens |
| Clipboard and activity samplers, `clipboard.rs`, `clipboard_capture.rs`, `personal.rs` | last sequence number, last window, last idle bucket | poll and send | the clipboard changes while it is read; seen is noted before it is stored | an agent that stays up records the last change |
| Local IPC, `crates/local-ipc` | the pipe's name, one connection | bind, accept, frames | clients that stay silent or leave; another server on the name | as for the runtime |
| Contracts, CLI | – | types, commands | – | – |

Interaction: all producer threads (watcher, samplers, Screenpipe, IPC) send to
one channel and the event loop is the only one that touches the repository; the
Screenpipe and IPC threads wait for an answer per message. The native host is a
process per message. CLI commands (`--watch-once`, `--serve-once`,
`--collector-health`, ...) open the same database file beside a running agent,
so that more than one engine can work on it.

## 2. Modules

| Module | Models | Composes / used by |
|---|---|---|
| `EventStore` | core + repository, any number of processes | – |
| `EventStoreProofs` | its theorems | extends `EventStore`, TLAPS |
| `CorrelationProofs` | theorems about matching | extends `EventStoreProofs` |
| `MCEventStore` | three workloads | extends `EventStore` |
| `Delivery` | abstract: what the outbox promises | instantiated by `BrowserOutbox` |
| `BrowserOutbox` | extension + native host + the agent's idempotent ingest | refines `Delivery` |
| `Collector`, `MCCollector` | disk, kernel buffer, watcher thread, event loop, reconciliation, the store's active locations | relies on `OneActiveLocation` |
| `Timeline`, `MCTimeline` | a client's paging, the bounded scan, the wire mapping, concurrent inserts | – |
| `Screenpipe`, `MCScreenpipe` | the service, the sampler thread, the event loop's branch, vault and log, restarts | – |
| `BrowserOutboxProofs`, `CollectorProofs`, `TimelineProofs`, `ScreenpipeProofs`, `RuntimeProofs` | the theorems of each | extend the module each is named after, and TLAPS |
| `Migration`, `MCMigration` | `open` and `migrate` by several processes on one file | gives `EventStore` and `Timeline` their database |
| `MigrationProofs` | its theorems | extends `Migration`, TLAPS |
| `ContentRead` | vault, authorization and the read of one text, as operators | extended by `Runtime` |
| `Runtime`, `MCRuntime` | event loop, clipboard and activity threads, failing watcher, API thread and pipe, clients, cancellation, crashes | composes the above; watcher batches are in `Collector`, frames in `Screenpipe`, queries in `Timeline` |

### EventStore

| TLA+ | Code |
|---|---|
| `log`, `projection`, `checkpoint` | the tables; a row that is absent is `None` |
| `engine[e]` | where a process stands within `ingest`: `idle`, `match` (before the first query), `check` (before the second), `derive` (before the second transaction) |
| `interrupted` | history: paths whose correlation was cut short and not repeated |
| `contended` | history: downloads of which two processes carried a match at the same time |
| `Ingest`, `FindNothing`, `FindRow`, `TooFarApart`, `FindMatch`, `FindFails`, `AppendMatch` | `ContextEngine::ingest`, step by step |
| `IngestV2`, `MarkCollectorReconciled`, `Crash` | `ingest_v2`, `mark_collector_reconciled`, death of a process |

Abstractions. A transaction is one step; a failed transaction and an envelope of
an unknown version leave no trace and are not steps. Time is counted in half
seconds, which is enough to tell a whole second from a fraction: the stored RFC
3339 text drops a zero fraction, so `…00Z` sorts after `…00.5Z` (`TextKey`), and
`whole_seconds` truncates, so that 180.5 s pass a tolerance of 180
(`WholeSeconds`). `LIMIT 1` among equal keys may return any row. The second query names only the
download and has neither order nor limit: it may return any file joined to the
download, the one the first query chose or another (`ReadAgain`). Paths are
compared with `NOCASE` in the join and exactly as the key of a location, as in
the code. The scope of a location is not kept.

`DownloadsAssumption` (two download events of one download have one event id) is
what the native host guarantees. Without it `INSERT OR REPLACE` of a pending
download together with a candidate from before the replacement could mark a
download as matched that has no edge.

`Inputs` has no `DownloadMatched`: a client may submit one through the API
(`SubmitEvent` takes any payload), and the store records its edge without a check.
That edge is the client's word; what is said of edges here is said of those that the
correlator derived.

### BrowserOutbox and Delivery

All operations of the worker run on one promise chain, so an enqueue is one step
up to its `saveState`, followed by a flush whose awaits are steps: `SendGap`,
`SendQueued`, `Acknowledged`, `FlushFailed`, `FlushDone`. `Stop` may happen at any
of them; `wire` holds messages whose worker may be gone (`live = FALSE`) and
which are stored late or never (`Submit`, `Lose`). Storage survives. The
refinement maps `issued` to `lastSequence`, `held` to the queued numbers that the
agent has not stored, and `delivered` to the stored numbers in log order.

### Collector

The disk changes at any time (`Create`, `Write`, `Rename`, `Remove`, `SetAccess`); the
kernel records changes once the handle has been read and drops everything on
overflow. `ListDirectory` lists one directory, `InspectEntry` looks at one entry of it
(the entry's kind is that of the listing, the identity is read now), `Compare` takes the differences,
`ApplyInsert` and `ApplyDelete` are one transaction each, `FinishReconcile`
records gaps or clears the flag. Differences are applied in any order where the
code sorts them by path.

`Folders` are directories that come, go and move in the scope. The watcher asks for
records of directories and `ingest_change` stores them like those of files, while a scan
reports files only. So a folder that was made while the collector watched has an active
location, which the next scan closes, and one made while nobody watched has none: the
store has a folder where it is or not at all (`Agrees`), and of files alone it can be
said that the store is the disk. `QuietStartup` says whether the disk is still between
the start of the startup scan and the first read of the watcher; see finding 2.

### Timeline

`QueryTimeline`, then per batch `QueryRawTimeline` (one SELECT), `Decode` row by
row, `BatchDone`; then `Respond` or `OversizedEntry`. `Insert` commits an event of
any age in between. `promised` is history: what a client could have seen when it
began. The references of an entry are their positions in the envelope. Sizes on the
wire are units: one for an entry, one per reference, one for a payload.

### Screenpipe

`BeginPoll` takes the time and starts the first search, `SearchAccessibility` ends it and
starts the second, `SearchOcr` ends that one. A search is a series of pages by offset: it
returns all that was discoverable when it began and any part of what came in meanwhile
(`Pages`). With more than `MAX_RESULTS_PER_SOURCE` rows it fails (`TooMany`), and since the
window starts at the cursor it goes on failing until the cursor moves; at exactly that
many rows the model lets it succeed, by the total that the service states, and the code
fails if the service states none. `end_time` is the beginning of the poll and keeps out
nothing that was discoverable then. `SendFrame`,
`TakeObservation`, `PutText`, `PutPicture`, `IngestFrame`, `Committed` are the path of
one frame through two threads, `ObservationFails`, `CommitFailed`, `CommitTimesOut`,
`RequestFails` its failures, `Restart` a crash. The frames in `broken` have a body that is
no PNG: `event_from_frame` refuses them each time, so that they hold up all later ones.
`horizon` is history: the start of the window of the last poll without a cursor, which is
the one that stored the first frame. As long as nothing is stored every poll looks back
five minutes from itself; a frame that an earlier one found and failed to commit may have
left that window, and the cursor then passes it. The documentation promises the latest
five minutes, so the properties leave such a frame out. The service is external: it publishes frames in
order of their numbers, with times that may run backwards by at most
`CURSOR_OVERLAP` (`OverlapAssumption`). `Steady` says whether nothing is published
while a poll searches; see finding 3.

### Migration

| TLA+ | Code |
|---|---|
| `version`, `schema` | `PRAGMA user_version`; the objects that exist, by name |
| `rows` | stored events with the two columns that migrations add |
| `pc[p]`, `seen[p]` | how far a process is in `open`; the local `version` of `migrate` |
| `Open`, `Migrate`, `MigrateFails`, `Opened` | the check of the number, one `if version == n` block, an error, `Ok(())` |
| `EarlierRelease`, `Crash` | a writer of version 1, 2 or 3 (`Releases`) that does not know the columns added since; the end of a process |

`alone` is chosen at the start: whether a process is only started while no other
one is migrating. The sort key is the instant, `Local - Offset`, where the old index
compared the clock reading as it was written. A step fails when one of its
statements would (`Succeeds`) or when another process may hold the lock. A location that
a writer of version 1 adds after the migration has the column's default, the empty scope
(`Unscoped`): no scan of a scope reads it back.

### ContentRead and Runtime

| TLA+ | Code |
|---|---|
| `log`, `vault` | `raw_event`; what the file of each digest holds: its bytes, others, none, no regular file |
| `receiving`, `queue`, `hand` | the loop past its check for cancellation; the channel; the clipboard event between the vault and `ingest_v2` |
| `clip`, `noted` | `last_sequence` and the number being read; `last_foreground`, `last_idle_bucket` |
| `ipc`, `pipe`, `conn`, `response` | where `spawn_ipc` stands; who owns the name; the connection; the channel back |
| `HandlePersonal`, `HandleClipboard`/`IngestClipboard`, `HandleApi`, `LoopFails`, `LoopStops`, `CaptureFails` | the branches of `event_loop`, its `?` and its `break` |
| `ClipboardSequence`, `ClipboardSnapshot`, `ClipboardFails`, `PersonalSample` | one poll of a sampler |
| `Accept`, `ReadFrame`, `WriteFrame`, `Rebind`, `AcceptFails` | `spawn_ipc` with the calls of `local-ipc` |
| `Start`, `Cancel`, `Crash`, `Damage`, `OtherServer` | `run`, Ctrl-C, death of the process or loss of power, the file system, `--serve-once` |

The end of the process (`Exit`) takes channel, threads and connection with it.
A content stands for its bytes and their digest. A row that does not decode has a
`fault`, which says at which of the checks of `authorize_reference` it shows. After a
loss of power any file of the vault whose rename was not synced may be gone;
`faulted` is history: contents whose file was lost or replaced from outside and that
have not been captured since. `answer` is the last answer a client got together with
the policy it was given under. Clients are external: nothing makes one send, and one
that stays silent holds the API thread as long as it likes, as in the code; a frame that
is malformed or too large is answered by closing the connection (`malformed`). `Garbled`
is a text of odd byte length on the clipboard: reading it fails at every poll, and it is
never recorded.

## 3. Runs

| Run | Question | Result |
|---|---|---|
| `store` | two processes interleaving the steps of `ingest`: files and downloads of one path in two spellings, every order, redelivery, crashes; gaps, tasks, content, v1 and v2, out of order and redelivered with other content, reconciliations | holds: `TypeOK`, `UniqueIds`, `OneActiveLocation`, `EdgesCited`, `EdgesSupported`, `Witnessed`, `MatchedHasEdge`, `OneMatchPerDownloadEvent`, `EitherOrderMatched`, `Rebuildable`, `CheckpointCoversLog`, `RawEventsImmutable` |
| `store_evidence` | are the events an edge cites within the tolerance, as its evidence text says? | violated, finding 5 |
| `migration` | files of any version, three processes, crashes, earlier releases that keep writing | holds: `VersionTellsSchema` and `Opens` when migrations do not overlap, `KeysComplete` always |
| `migration_race` | does the version only go forward when they do? | violated, finding 4 |
| `outbox` | the extension with stops, failures, lost answers, late orphans, a full outbox | holds: `TypeOK`, `NoSilentLoss`, `LastPageIsNewest`, refinement of `Delivery`, `GapReported` |
| `outbox_gap` | is every loss covered by a gap event? | violated, finding 1 |
| `collector` | files and a folder that move during scans, overflow, unreadable paths, a crash; quiet startup | holds: `TypeOK`, `RestMeansConverged`, `RightLocationsStay`, `Converges` |
| `collector_startup` | the same without the quiet startup | violated, finding 2 |
| `timeline` | a client pages under either profile while events are committed | holds: `TypeOK`, `Descending`, `Complete`, `WithinGrant`, `FailsForCause`, `Terminates` |
| `screenpipe` | failures that pass and that last, timeouts, a crash, times running backwards; steady polls | holds: `TypeOK`, `EachFrameOnce`, `NoFrameSkipped`, `RefsInVault`, `Captured` |
| `screenpipe_race` | the same with rows appearing while a poll searches | violated, finding 3 |
| `runtime` | the whole agent with samplers, clients, cancellation, failures, crashes and damage | holds: `TypeOK`, `AnswersTrue`, `CapturedIsReadable`, `CatchesUp`, `Responds` |

Every property of a passing run has a mutant in `PROJECT.json`: a plausible slip in
the code under which TLC finds the property violated.

### Bounds and why they are enough

- EventStore: six inputs on one path in two spellings plus a second path, two
  identities, two downloads of which one is out of tolerance, tolerance 1 s,
  two drawn UUIDs; the violations the properties are about need two or three
  events. `store` has three workloads (correlation, planning, checkpoints); the
  constraint `OneWorkload` keeps a behaviour within one of them, since their inputs
  touch different tables, and a correlating one within four of its inputs
  (`MaxCorrelated`), with the matches derived from them (409,562 states). Two processes are
  enough for one to act between any two steps of the other; in the other two workloads,
  where an ingest is one transaction, one is at work at a time. Inputs can be delivered any
  number of times. Engines and drawn UUIDs are symmetric.
- BrowserOutbox: capacity 2, four observations: the outbox fills, drops twice into
  one gap and drains. One download and one page suffice, since a message is told
  by its number; the page alternates between focused and blurred.
- Collector: two files and a folder, three paths in two directories, buffer of two records,
  four changes, one crash: a rename fits, a rename and a write overflow, two
  files can trade places during a scan (916,650 states).
- Timeline: eight records with three equal times, batches of 2, scans of 3, pages
  of up to 3, budget 3: every bound is hit alone and together with others.
- Screenpipe: three frames, overlap 2, one restart; the second frame is older than
  the first, has a text that is too long and may have a body that is no PNG; the third has
  no text. A search may return two rows and there are three OCR rows: whether they fit
  depends on the row that stored the first frame.
- Migration: a file event and two others written at different distances from UTC, by
  the current release or one of versions 1 to 3,
  three processes, two crashes, every start version and one that is too new. A
  process may try again after a failure, so that three suffice for one to overtake
  another and for a third to find what they left.
- Runtime: every behaviour has one of six budgets of copies, changes of window or
  idleness, requests and faults (`MCBudgets`): two copies and a fault, a copy and two
  faults, a copy and a request, two requests and a fault, two changes and a fault, a
  change and two faults. A fault is a failed store or vault, a failed sample, a failed
  watcher or accept, a cancellation, a crash with any set of lost files, a damaged
  file or another server on the name. Larger mixed budgets (two copies with a request
  and a fault) reach millions of states and no new kind of step. The three contents
  are within the limit of a read, above it, and above the limit of the clipboard; a copy
  may also be no text or `Garbled`.

`CHECK_DEADLOCK FALSE` is set where the model may stop: a finished client
(`Timeline`), a still disk (`Collector`), a sampler that gave up (`Screenpipe`), a file
that every process has open (`Migration`), an agent that is down or idle (`Runtime`).

### Fairness

- BrowserOutbox: weak for `Start`, `RetryAlarm`, `FlushDone` (the browser wakes its
  worker and alarms fire), strong for `SendGap`, `SendQueued`, `SubmitLive`,
  `Acknowledged`: host and agent, tried every minute, are not cut off every time. A
  worker that is killed within a flush has no alarm; it is `Start`, the next
  browser event, that resumes it.
- Collector: weak for the agent as a whole and for the watcher thread.
- Timeline: weak for the agent; nothing is assumed of inserts.
- Screenpipe: weak for steps inside the process, strong for those that can fail
  and are tried again (requests, vault writes, ingest). Two failures that last are in the
  model and named in `Captured`: a frame whose body is no PNG, and searches that have too many
  results for good (`Crowded`). Others are assumed away: a service that stays down or
  refuses the key, a picture request that always ends in an error, a vault or a database
  that cannot be written. Each would hold up all later frames, as the code retries the
  same frame.
- Migration: weak for every process that has begun to open the file.
- Runtime: weak for the loop, the two samplers and the API thread, which poll or block
  on a channel in loops of their own; the API thread's part includes that a client
  which sent a request reads the answer or goes, since `write_frame` flushes. No fairness
  is assumed of starts, further requests, faults or the other server; that faults do not go
  on for ever is what their budget says, with the one exception of a `Garbled` text, which
  fails at every poll and which `CatchesUp` leaves out.

### Findings

1. A gap that grows after its acknowledgement was lost is resent under its old id
   and taken for a duplicate; no gap event covers the newer loss, only the
   checkpoint does (`NoSilentLoss` still holds).
2. The startup scan ends and clears the flag before the watcher is armed; a change
   in between is lost until the next gap or restart.
3. A frame that appears while a poll searches, too late for the search that would return it,
   together with a later one that the second search returns, is passed by the cursor and never imported.
4. `migrate` reads the version outside its transactions. Of two processes that open an
   old file at once, the slower one repeats a step whose statements all say
   `IF NOT EXISTS` and sets the number back; its next step fails, and so does every later
   open. `VersionTellsSchema` and `Opens` hold when migrations do not overlap.
5. An edge may cite a file event that is not within the 180 seconds of its evidence
   text: the tolerance is tested on the row of a second query, which may be another file at
   another spelling of the path, and on whole seconds. `EdgesSupported` is what the test
   is worth: some stored observation at the path is less than a second over the tolerance.

The lines and the documentation they disagree with are in `PROJECT.json`.

Observed without a document that says otherwise: a gap recorded for an unreadable
path is followed by no scan until another gap or a restart; a client that connects
and stays silent keeps every other client out; an agent whose pipe name is taken
between two connections ends (`Rebind`), which `Responds` counts as correct; a frame whose
body is no PNG, or more rows in the window than a search may return, stops the import for
good; a location that an agent of version 1 writes into a migrated file is in no scope; a
folder that is there when the collector starts has no location, one made later has. A
read is refused or answered by the first reference with the digest; `AnswersTrue` accepts
any reference of the event that the grant covers, and so does not say that it is the first.

## 4. Proofs

### EventStoreProofs

`EventStoreProofs` proves for every set of engines, inputs, identities, paths and
downloads, from the named assumptions of `EventStore`:

| Theorem | States |
|---|---|
| `TypeCorrect` | `[]TypeOK` |
| `IdsUnique` | `[]UniqueIds` |
| `ActiveLocationUnique` | `[]OneActiveLocation` |
| `RowsAlwaysWitnessed` | `[]Witnessed` |
| `EdgesAlwaysCited` | `[]EdgesCited` |
| `MatchedAlwaysHasEdge` | `[]MatchedHasEdge` (uses `DownloadsAssumption`) |
| `CheckpointAlwaysCovers` | `[]CheckpointCoversLog` |
| `RawEventsStay` | `RawEventsImmutable` |
| `TablesRebuildable` | `[]Rebuildable` |
| `CheckpointGoesForward` | no step removes a checkpoint or takes its sequence back; a numbered gap flags its source, and only a reconciliation of that source clears the flag |

Argument. None of `EdgesCited` and `MatchedHasEdge` is inductive: an edge is
written from a candidate that an engine read earlier, from rows that were written
earlier still. `Witnessed` closes the chain: an active location and a pending
download say what some stored event said, and a candidate keeps citing stored
events whatever happens to its rows, because the log only grows. `Inductive` is the
conjunction of `TypeOK`, `UniqueIds`, `OneActiveLocation`, `Witnessed`, `EdgesCited`,
`MatchedHasEdge` and `CheckpointCoversLog`; each conjunct is a run's invariant.
`StepShape` reduces a step to four shapes (an input, a match or a v2 event is
appended, or log and tables stay), `LocationCases`, `PendingCases` and `EngineCases`
say what a step can do to one row or one engine, and each conjunct has a lemma
that it is preserved. `PendingKept` is where `DownloadsAssumption` enters: a
pending row keeps its URL once it is there.

`Rebuildable` says that the one replay of the log ends in the tables. Since what a recursive
function computes cannot be proved by induction here, the proof goes through a relation:
`Replays(tables, rows)` says that a function is a fixed point of the replay. That some replay
of the log ends in the tables (`Rebuilt`) is inductive by itself, because every step either
appends an event and projects it, or leaves log and tables alone. Two replays of one log are
equal: otherwise there is a least position at which they differ (the least element of a set
of naturals), and the one before decides it. `Replay` is a replay, so it ends in the tables.

### MigrationProofs

`MigrationProofs` proves for every set of processes and events and any number of
crashes, from the named assumptions of `Migration`:

| Theorem | States |
|---|---|
| `KeysAlwaysComplete` | `[]KeysComplete`, overlapping migrations included |
| `VersionAlwaysTells` | `[]VersionTellsSchema` |
| `ForwardWhenAlone` | no step takes the version back while migrations do not overlap |
| `OpenedAlwaysFindsSchema` | whoever has opened the file finds all of the schema there, overlap or not |
| `LocationsAlwaysScoped` | once there is a `location.scope_id`, every location has the scope of its event, overlap or not, assuming that no release of version 1 still writes |

`KeysComplete` needs three more facts to be inductive (`KeyInvariant`): the trigger is
there whenever the column is, so that no earlier release writes past the backfill;
before the column exists no row has a key, so that the backfill misses none; and
who works on the file as one of version 4, or finds that number in it, is right
about the column. The last one survives the race of finding 4, since the column is never
dropped. `VersionTellsSchema` needs that without overlap at most one process
migrates and the number it has read is still the one in the file (`OneMigrates`).

The last two say what is left when migrations do overlap and the version goes back:
neither the number in the file nor the one a process has read ever says more than the file
holds (`NoNumberTooLarge`), since a step commits with its number and nothing but the old
index over `observed_at` is ever dropped; a number that is too small makes a process repeat
statements that do nothing the second time, or fail. Nor does a location miss its scope: the
column comes with the UPDATE that fills it, in one transaction that cannot succeed again,
and whoever writes a location afterwards knows the column, unless it is of version 1.

### CorrelationProofs

For every set of inputs, identities, paths and downloads:

| Theorem | States |
|---|---|
| `MatchedInEitherOrder` | `[]EitherOrderMatched`, for any number of engines |
| `MatchedOnce` | `[]OneMatchPerDownloadEvent`, for any number of engines |
| `EdgesAlwaysSupported` | `[]EdgesSupported`, for any number of engines |

`Correlation` adds to `Inductive`: every stored download has its row
(`PendingComplete`); the candidate that an engine carries to its second transaction is a
download at the path of the engine (`Carried`); every stored match has marked its download
(`Marked`). A pair with no other file or download at its path
is in the join as soon as both are stored (`PairJoined`). With several engines a candidate
can be stale, but an engine is at work on the path from the transaction that stored the
second of the pair until it matches, finds nothing or is cut short, and what the last engine
to leave the path decides on is read in that very step (`EitherOrderStep`); so the other
engines may come and go.

For `MatchedOnce` a candidate must be unmatched (`Unmatched`). Nothing but another engine
with the same download can mark it between the first query and the second transaction, and
two engines that carry one download are what `contended` records (`Sole`). For
`EdgesAlwaysSupported` the step past the tolerance test has seen a row within it; what that
row says is in the log (`Witnessed`), which only grows, so that the observation is still
there when the edge is committed, whatever became of the row.

### BrowserOutboxProofs

For every set of downloads and pages, every capacity and any number of observations,
stops and failures:

| Theorem | States |
|---|---|
| `TypeCorrect` | `[]TypeOK` |
| `NothingLostSilently` | `[]NoSilentLoss` |
| `LastPageReported` | `[]LastPageIsNewest` |
| `DeliversInOrder` | `Spec => D!SafeSpec`: the safety part of `ImplementsDelivery` |
| `ArrivesInOrder` | the observations in the agent's log are in the order of their numbers |
| `OutboxKeepsItsBound` | the outbox holds at most `Capacity` messages, and an observation is given up only when it is full |

`SentInv` says what storage, wire and log know of each other: identifiers and numbers have
been given out (`Numbered`) and belong to one message (`OneMessage`); a remembered download
id belongs to one download, whose message is still queued (`OneDownload`); nothing that was
sent or stored is younger than anything queued, and a message that was sent leaves the queue
only when it is stored (`OldestFirst`); an answer is for the message that the flush waits
for (`Awaited`). With it, a message that leaves the queue has been stored or is counted by a
gap, and a gap leaves storage only once the checkpoint is flagged. The refinement needs
`Counted`: for every n up to the number of observations in the log there is an n-th one, so
that `delivered` is well defined and a new one comes at its end. Every step then is a step
of `Delivery` or leaves `issued`, `held` and `delivered` as they are; storing a message
delivers it, also when the worker that sent it is gone. `ArrivesInOrder` is the same order
seen from the log alone: by `OldestFirst` a message that is stored for the first time is
younger than all that are stored.

### CollectorProofs

For any files, paths and directories, any buffer and any number of changes and crashes:

| Theorem | States |
|---|---|
| `TypeCorrect` | `[]TypeOK` |
| `RestConverged` | `[]RestMeansConverged`, assuming `QuietStartup` |
| `RightLocationsKept` | `RightLocationsStay`, assuming `QuietStartup` |

A record travels from the kernel's buffer through the queue to the batch that is
ingested. The proof sees these as lanes of one road; `Track` is what lies behind its
last gap, since a gap causes a scan that makes up for all before it. `Road`: the last
record of the track about a file says where the file is now, and a file leaves a path
only after the record before has it there. `Promises`: while no gap is ahead and the flag is clear, applying
the track to the store gives the disk (`Follows`); during a scan the same holds of what has
been read so far (`Scanned`), and after it of the differences that are left to apply
(`Compared`). At rest the road is empty, and the promise is that store and disk agree; of a
folder, which a scan may close in the store at any time, only that it is not elsewhere. `collector_startup` shows that `QuietStartup` cannot be dropped.

### TimelineProofs

For any records, queries, policies and bounds above zero:

| Theorem | States |
|---|---|
| `TypeCorrect` | `[]TypeOK` |
| `PagesDescend` | `[]Descending` |
| `ReadingIsComplete` | `[]Complete` |
| `ShownWithinGrant` | `[]WithinGrant` |
| `FailuresHaveCause` | `[]FailsForCause` |
| `PagesMoveOn` | a page that is not the last one moves the client's cursor strictly on (an action property) |

The cursor of a scan is a frontier in the keyset order. `Phases`: the client waits while
the agent scans, and the scan keeps its budget. `Sources`: what is on a page is the entry of a stored
row that the policy admits. `Order`: whatever was shown has been passed by the cursor, so
an event that is inserted behind it cannot repeat one, and one inserted before it
is never shown. `Owed`: what the client was promised has been seen, is listed on the page in
the making, or lies ahead of the cursor; in that case it is in the batch or behind
all of the batch, so that no bound that ends a batch, a page or a scan lets it fall
between two pages. `Onward`: within a request the frontier starts at the client's cursor and
has moved on by the time a page with a `next_cursor` leaves, also a page without entries;
this is the safety half of `Terminates`.

### ScreenpipeProofs

For every set of rows the service may ever return, every overlap and any number of
restarts:

| Theorem | States |
|---|---|
| `TypeCorrect` | `[]TypeOK` |
| `FramesStoredOnce` | `[]EachFrameOnce` |
| `ReferencesResolve` | `[]RefsInVault` |
| `NoneSkipped` | `[]NoFrameSkipped`, assuming `Steady`: of the frames in the window of the poll that stored the first one, or later |
| `CursorAlwaysStored` | the cursor is that of a stored frame |
| `CursorNeverBack` | no step takes the cursor back, restarts included (an action property) |

Event ids are fresh, so that nothing in the store prevents a frame from being
stored twice: it is the order of the numbers. `Ascending`: the log is in the
order of the numbers; `Handover`: the cursor is the newest stored frame, or that frame is the one
whose commit the sampler has yet to learn of; `Batch`: what is left of a batch is
ahead of both. The two theorems about the cursor follow from these: a commit moves it to a
frame of the batch, and a restart to the newest frame of the log. `Staged` carries the vault's content from the put to the reference.
`NoneSkipped` adds that a poll without changes in between reads every frame that is due
(`Looked`, `InOrder`) and that log, channel and batch pass none of them. `OverlapAssumption`
is what makes the second poll look back far enough; `screenpipe_race` shows that `Steady`
cannot be dropped.

### RuntimeProofs

For any contents, requests, policies and budgets of copies, faults and requests:

| Theorem | States |
|---|---|
| `TypeCorrect` | `[]TypeOK` |
| `AnswersAreTrue` | `[]AnswersTrue` |
| `CapturedReadable` | `[]CapturedIsReadable` |
| `IdsStayDistinct` | no two stored events have the same id |
| `HiddenTellsNothing` | two stores that look the same under a policy answer every read the same |

`Dialogue`: the API thread has at most one request with the loop, the one of its
connection, and the answer that waits to be written is true of it; it survives the
steps between answer and write because the log only grows and ids stay unique
(`Distinct`). `Captured` follows a text from the clipboard through channel and hand to the
log (`Texts`, `Channel`, `InHand`, `InLog`): at each stage it is what was copied under its
number, and from the vault onwards its file holds it unless it was hit from outside
(`Files`). `IdsAssumption` (UUIDs of the agent and of clients do not coincide) and
`CaptureAssumption` (personal scope and plain text are known) are all it takes of the
constants beyond their types.

`HiddenTellsNothing` compares two stores, which no run can do: they have the same events
visible to the policy and the same files behind those references of theirs that the grant
covers, and differ in anything else. `ReadTextContent` then has the same outcome, and the
same text, for every request. It needs the ids to be distinct in each store, which
`IdsStayDistinct` says they are.

### How the invariants were found, and what is only model-checked

Every inductive invariant was first checked by TLC as an invariant of the passing run of
its module (the larger ones on 242,116 to 2,715,136 states), and then proved. An
assumption on a constant is named in the module that declares it and evaluated by
TLC on every run; `QuietStartup`, `Steady` and `1 \notin Releases` are hypotheses of the theorems
that need them, and a violation run shows for the first two that they are needed.

Only model-checked, since liveness under fairness is out of the prover's reach:
`Opens`, `Converges`, `Captured` of `Screenpipe`, `CatchesUp`, `Responds`, `Terminates`,
`GapReported` and the fairness part of `ImplementsDelivery`. Every invariant and action
property of a passing run is stated by a theorem.

Some theorems state what no run checks: `CheckpointGoesForward`, `OpenedAlwaysFindsSchema`,
`LocationsAlwaysScoped`, `CursorAlwaysStored`, `CursorNeverBack`, `PagesMoveOn`,
`IdsStayDistinct`, `HiddenTellsNothing`, `ArrivesInOrder`, `OutboxKeepsItsBound`. Their
properties are defined beside the proofs.

## 5. Not modelled

- Lengths and bytes of frames, the pipe's security descriptor, Win32 calls, parsing of
  the watcher's buffer, the host's field validation, serialization, SHA-256 collisions.
- In `Migration`: a stored time that does not parse or whose UTC year is out of range,
  which makes the backfill fail every time; a lock held by an earlier release beyond
  SQLite's busy timeout.
- In `Runtime`: `max_batches`, the vault's temporary files (nobody else uses their
  names), the loss of unpaired surrogates in `from_utf16_lossy`, a thread that polls once
  more after the cancellation, and a second process that stores events.
- In `EventStore`: a `DownloadMatched` that a client submits itself.
- In `Collector`: hard links, what moves together with its folder (it gets no records
  of its own), files whose identity cannot be resolved, sequence numbers.
- In `Screenpipe`: lost files of the vault (a loss of power is in `Runtime`'s `Crash`, a
  `Restart` here is the end of the process only), a service that restarts its numbering,
  rows that do not parse. The
  code refuses to go on while all numbers are at most the cursor's and skips without
  notice once they pass it, so there is no property that holds.
- In `BrowserOutbox`: a message that the host refuses every time, which would need the
  host's validation field by field.

## 6. Plan

Done, in order of importance: `EventStore` and its proofs, `BrowserOutbox` with
`Delivery`, `Collector`, `Timeline`, `Screenpipe`, `Migration` and its proofs, `ContentRead`
and `Runtime`; then the proofs of every invariant and action property that a run checks, of
the safety part of the refinement, and of what checkpoints, cursors and versions never do.

Next: `Collector` keeps the active locations of one scope as a function of the file, which
rests on `OneActiveLocation` of `EventStore`; a refinement between the two would make that
a theorem. Which hypothesis weaker than `QuietStartup` the watcher would have to establish
for `RestConverged`.
