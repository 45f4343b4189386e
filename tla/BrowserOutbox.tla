---------------------------- MODULE BrowserOutbox ----------------------------
(***************************************************************************)
(* The browser extension's durable outbox (apps/browser-extension), the    *)
(* native host that carries one message per process, and the agent's       *)
(* idempotent ingest at the other end.                                     *)
(*                                                                         *)
(* Everything the worker does runs on one promise chain (runExclusive), so *)
(* the interleavings are those of the worker with the host and the agent,  *)
(* and with the browser, which may stop the worker at any await.  Storage  *)
(* survives, memory does not.  A flush keeps its copy of the state equal   *)
(* to storage: it saves after every change and nobody else writes.         *)
(* An operation whose worker stops before its first save never happened.   *)
(***************************************************************************)
EXTENDS Naturals, Sequences, FiniteSets

CONSTANTS
  Keys,         \* browser download ids
  Pages,        \* tab, window, URL, title and pin state of a page
  Capacity,     \* MAX_OUTBOX_MESSAGES (256 in the code)
  MaxSequence,  \* bound: observations made
  None

ASSUME CapacityAssumption == Capacity \in Nat
ASSUME MaxSequenceAssumption == MaxSequence \in Nat

VARIABLES
  storage,     \* chrome.storage.local under STATE_KEY
  fresh,       \* crypto.randomUUID: the next identifier never used
  worker,      \* "stopped", "idle", "flush" or "await"
  sent,        \* the message the flush awaits an answer to, or None
  answered,    \* whether that message was accepted
  alarm,       \* the retry alarm is set
  wire,        \* messages in a host process or at the agent's pipe
  log,         \* the agent's raw events from this source, in order
  checkpoint   \* the agent's checkpoint of this source

workerVars == <<worker, sent, answered, alarm>>
agentVars == <<log, checkpoint>>
vars == <<storage, fresh, worker, sent, answered, alarm, wire, log, checkpoint>>

Page == [page : Pages, focused : BOOLEAN]
DownloadMessage == [kind : {"download"}, id : Nat, seq : Nat, body : Keys]
PageMessage == [kind : {"page"}, id : Nat, seq : Nat, body : Page]
GapMessage == [kind : {"gap"}, id : Nat, seq : Nat]
Message == DownloadMessage \cup PageMessage \cup GapMessage

ASSUME NoneAssumption == None \notin Nat \cup Page \cup Message

Storage ==
  [outbox       : SUBSET (DownloadMessage \cup PageMessage),
   downloadIds  : [Keys -> Nat \cup {None}],
   gap          : GapMessage \cup {None},
   lastSequence : Nat,
   lastPage     : Page \cup {None}]

EmptyState ==
  [outbox |-> {}, downloadIds |-> [k \in Keys |-> None], gap |-> None,
   lastSequence |-> 0, lastPage |-> None]

NotGap(m) == m.kind # "gap"
LogIds == {log[i].id : i \in DOMAIN log}
Observations == {i \in DOMAIN log : NotGap(log[i])}
LogSequences == {log[i].seq : i \in Observations}
QueuedSequences == {m.seq : m \in storage.outbox}

Init ==
  /\ storage = EmptyState
  /\ fresh = 0
  /\ worker = "flush"
  /\ sent = None
  /\ answered = FALSE
  /\ alarm = FALSE
  /\ wire = {}
  /\ log = <<>>
  /\ checkpoint = [last |-> 0, required |-> FALSE]

-----------------------------------------------------------------------------
(* Operations of the worker on its state.  Each loads, changes and saves   *)
(* the state in one go and then flushes, unless it returns early.          *)

(* A new gap takes an identifier; a gap not yet acknowledged keeps its own *)
(* and only its sequence moves.                                            *)
NoteGap(st, id) ==
  IF st.gap = None
  THEN [st EXCEPT !.gap = [kind |-> "gap", id |-> id, seq |-> st.lastSequence]]
  ELSE [st EXCEPT !.gap.seq = st.lastSequence]

Full(st) == Cardinality(st.outbox) >= Capacity

Stamp(st) == [st EXCEPT !.lastSequence = @ + 1]

Begin == worker = "idle" /\ worker' = "flush" /\ UNCHANGED <<sent, answered, alarm>>

(* chrome.downloads.onCreated: the identifier is fixed before the download *)
(* completes.                                                              *)
StableDownloadId(k) ==
  /\ worker = "idle"
  /\ storage.downloadIds[k] = None
  /\ storage' = [storage EXCEPT !.downloadIds[k] = fresh]
  /\ fresh' = fresh + 1
  /\ UNCHANGED <<workerVars, wire, agentVars>>

(* The identifier a completed download goes by.                            *)
DownloadId(k) == IF storage.downloadIds[k] = None THEN fresh ELSE storage.downloadIds[k]

(* A download completed: one that is already queued is only flushed ...    *)
FlushCompleted(k) ==
  /\ Begin
  /\ \E m \in storage.outbox : m.id = DownloadId(k)
  /\ UNCHANGED <<storage, fresh, wire, agentVars>>

(* ... a new one is queued ...                                             *)
EnqueueCompleted(k) ==
  LET stamped == Stamp(storage)
      m == [kind |-> "download", id |-> DownloadId(k), seq |-> stamped.lastSequence, body |-> k]
  IN /\ Begin
     /\ storage.lastSequence < MaxSequence
     /\ \A q \in storage.outbox : q.id # DownloadId(k)
     /\ ~Full(storage)
     /\ storage' = [stamped EXCEPT !.outbox = @ \cup {m}, !.downloadIds[k] = m.id]
     /\ fresh' = IF storage.downloadIds[k] = None THEN fresh + 1 ELSE fresh
     /\ UNCHANGED <<wire, agentVars>>

(* ... or, when the outbox is full, becomes part of the gap.  Nobody has   *)
(* seen the identifier it would have had.                                  *)
DropCompleted(k) ==
  /\ Begin
  /\ storage.lastSequence < MaxSequence
  /\ \A q \in storage.outbox : q.id # DownloadId(k)
  /\ Full(storage)
  /\ storage' = [NoteGap(Stamp(storage), fresh) EXCEPT !.downloadIds[k] = None]
  /\ fresh' = fresh + 1
  /\ UNCHANGED <<wire, agentVars>>

(* Mutant: the focus of the last page is not remembered.                   *)
PageSeen_NoFocus(st, pg) ==
  LET stamped == [Stamp(st) EXCEPT !.lastPage = [page |-> pg.page]]
  IN IF Full(st) THEN NoteGap(stamped, fresh)
     ELSE [stamped EXCEPT !.outbox = @ \cup
             {[kind |-> "page", id |-> fresh, seq |-> stamped.lastSequence, body |-> pg]}]

(* The state after the page the user sees is queued or becomes part of the *)
(* gap; either way it is the last page seen.                               *)
PageSeen(st, pg) ==
  LET stamped == [Stamp(st) EXCEPT !.lastPage = pg]
  IN IF Full(st) THEN NoteGap(stamped, fresh)
     ELSE [stamped EXCEPT !.outbox = @ \cup
             {[kind |-> "page", id |-> fresh, seq |-> stamped.lastSequence, body |-> pg]}]

(* A tab was activated or updated, or a window focused; a repeated         *)
(* signature returns before anything is saved.                             *)
EnqueueActivePage(p) ==
  /\ Begin
  /\ storage.lastSequence < MaxSequence
  /\ storage.lastPage # [page |-> p, focused |-> TRUE]
  /\ storage' = PageSeen(storage, [page |-> p, focused |-> TRUE])
  /\ fresh' = fresh + 1
  /\ UNCHANGED <<wire, agentVars>>

(* Mutant: the blurred page is queued but not remembered.                  *)
EnqueueWindowBlurred_Forgets ==
  /\ Begin
  /\ storage.lastSequence < MaxSequence
  /\ storage.lastPage # None
  /\ storage.lastPage.focused
  /\ storage' = [PageSeen(storage, [storage.lastPage EXCEPT !.focused = FALSE])
                   EXCEPT !.lastPage = storage.lastPage]
  /\ fresh' = fresh + 1
  /\ UNCHANGED <<wire, agentVars>>

EnqueueWindowBlurred ==
  /\ Begin
  /\ storage.lastSequence < MaxSequence
  /\ storage.lastPage # None
  /\ storage.lastPage.focused
  /\ storage' = PageSeen(storage, [storage.lastPage EXCEPT !.focused = FALSE])
  /\ fresh' = fresh + 1
  /\ UNCHANGED <<wire, agentVars>>

-----------------------------------------------------------------------------
(* flushState: the gap first, then the queue in order of sequence, one     *)
(* answer awaited at a time; any failure ends the flush and sets the alarm.*)

Send(m) ==
  /\ worker = "flush"
  /\ worker' = "await"
  /\ sent' = m
  /\ answered' = FALSE
  /\ wire' = wire \cup {[msg |-> m, live |-> TRUE]}
  /\ UNCHANGED <<storage, fresh, alarm, agentVars>>

SendGap == storage.gap # None /\ Send(storage.gap)

(* Mutant: the queue is sent in no particular order.                       *)
SendQueued_Unsorted ==
  /\ storage.gap = None
  /\ \E m \in storage.outbox : Send(m)

SendQueued ==
  /\ storage.gap = None
  /\ \E m \in storage.outbox : (\A n \in storage.outbox : m.seq <= n.seq) /\ Send(m)

(* Everything is acknowledged: chrome.alarms.clear.                        *)
FlushDone ==
  /\ worker = "flush"
  /\ storage.gap = None
  /\ storage.outbox = {}
  /\ worker' = "idle"
  /\ alarm' = FALSE
  /\ UNCHANGED <<storage, fresh, sent, answered, wire, agentVars>>

(* event_accepted: what was sent leaves the state, which is saved.         *)
Acknowledged ==
  /\ worker = "await"
  /\ answered
  /\ storage' =
       CASE sent.kind = "gap"  -> [storage EXCEPT !.gap = None]
         [] sent.kind = "page" -> [storage EXCEPT !.outbox = @ \ {sent}]
         [] OTHER -> [storage EXCEPT !.outbox = @ \ {sent}, !.downloadIds[sent.body] = None]
  /\ worker' = "flush"
  /\ sent' = None
  /\ answered' = FALSE
  /\ UNCHANGED <<fresh, alarm, wire, agentVars>>

(* What is still under way has lost the worker that would hear the answer. *)
Orphaned == {[msg |-> w.msg, live |-> FALSE] : w \in wire}

(* Mutant: the failure is swallowed without a retry.                       *)
FlushFailed_NoAlarm ==
  /\ worker = "await"
  /\ worker' = "idle"
  /\ sent' = None
  /\ answered' = FALSE
  /\ wire' = Orphaned
  /\ UNCHANGED <<storage, fresh, alarm, agentVars>>

(* The host or the agent is not there, refuses, or its answer is lost,     *)
(* whether or not the message was or will be stored.                       *)
FlushFailed ==
  /\ worker = "await"
  /\ worker' = "idle"
  /\ sent' = None
  /\ answered' = FALSE
  /\ alarm' = TRUE
  /\ wire' = Orphaned
  /\ UNCHANGED <<storage, fresh, agentVars>>

RetryAlarm ==
  /\ worker = "idle"
  /\ alarm
  /\ worker' = "flush"
  /\ alarm' = FALSE
  /\ UNCHANGED <<storage, fresh, sent, answered, wire, agentVars>>

(* The browser stops the worker at an await ...                            *)
Stop ==
  /\ worker # "stopped"
  /\ worker' = "stopped"
  /\ sent' = None
  /\ answered' = FALSE
  /\ wire' = Orphaned
  /\ UNCHANGED <<storage, fresh, alarm, agentVars>>

(* ... and loads it again for the next event or alarm; loading flushes.    *)
Start ==
  /\ worker = "stopped"
  /\ worker' = "flush"
  /\ alarm' = FALSE
  /\ UNCHANGED <<storage, fresh, sent, answered, wire, agentVars>>

-----------------------------------------------------------------------------
(* The host hands a message to the agent, which ingests it: a known        *)
(* identifier leaves the log as it is; the checkpoint moves for every      *)
(* sequence, a duplicate page (a v2 event) excepted.                       *)

(* request_from_browser: pages become v2 events, downloads and gaps v1     *)
(* events, under the identifier and sequence the extension gave them.      *)
SubmittedAsV2(m) == m.kind = "page"

(* Mutant: the agent's v1 ingest returns early for a duplicate.            *)
Checkpointed_NotDuplicates(m) ==
  IF m.id \in LogIds THEN checkpoint
  ELSE [last |-> IF m.seq >= checkpoint.last THEN m.seq ELSE checkpoint.last,
        required |-> checkpoint.required \/ m.kind = "gap"]

Checkpointed(m) ==
  IF SubmittedAsV2(m) /\ m.id \in LogIds THEN checkpoint
  ELSE [last |-> IF m.seq >= checkpoint.last THEN m.seq ELSE checkpoint.last,
        required |-> checkpoint.required \/ m.kind = "gap"]

Submit(w) ==
  /\ log' = IF w.msg.id \in LogIds THEN log ELSE Append(log, w.msg)
  /\ checkpoint' = Checkpointed(w.msg)
  /\ wire' = wire \ {w}
  /\ answered' = (answered \/ w.live)
  /\ UNCHANGED <<storage, fresh, worker, sent, alarm>>

(* A host whose worker no longer listens exits without reaching the agent. *)
Lose(w) ==
  /\ ~w.live
  /\ wire' = wire \ {w}
  /\ UNCHANGED <<storage, fresh, workerVars, agentVars>>

Next ==
  \/ \E k \in Keys : StableDownloadId(k) \/ FlushCompleted(k) \/ EnqueueCompleted(k) \/ DropCompleted(k)
  \/ \E p \in Pages : EnqueueActivePage(p)
  \/ EnqueueWindowBlurred
  \/ SendGap
  \/ SendQueued
  \/ FlushDone
  \/ Acknowledged
  \/ FlushFailed
  \/ RetryAlarm
  \/ Stop
  \/ Start
  \/ \E w \in wire : Submit(w) \/ Lose(w)

(* A live connection reaches the agent.                                    *)
SubmitLive == \E w \in wire : w.live /\ Submit(w)

(* The browser wakes the worker and its alarms fire; the worker, the host  *)
(* and the agent, tried again and again, are not cut off every time.       *)
Fairness ==
  /\ WF_vars(Start)
  /\ WF_vars(RetryAlarm)
  /\ WF_vars(FlushDone)
  /\ SF_vars(SendGap)
  /\ SF_vars(SendQueued)
  /\ SF_vars(SubmitLive)
  /\ SF_vars(Acknowledged)

Spec == Init /\ [][Next]_vars
FairSpec == Spec /\ Fairness

-----------------------------------------------------------------------------
(* Every variable keeps its shape.                                         *)
TypeOK ==
  /\ storage \in Storage
  /\ fresh \in Nat
  /\ worker \in {"stopped", "idle", "flush", "await"}
  /\ sent \in Message \cup {None}
  /\ answered \in BOOLEAN
  /\ alarm \in BOOLEAN
  /\ wire \in SUBSET [msg : Message, live : BOOLEAN]
  /\ log \in Seq(Message)
  /\ checkpoint \in [last : Nat, required : BOOLEAN]

(* No silent loss: every sequence number given out belongs to a message    *)
(* that is queued or stored, or lies within a gap that is still to be      *)
(* reported or that the agent's checkpoint is flagged for, whatever was    *)
(* lost, answered late or cut off (noteGap, flushState, and the v1         *)
(* checkpoint update for duplicates).                                      *)
NoSilentLoss ==
  \A n \in 1..storage.lastSequence :
    \/ n \in QueuedSequences
    \/ n \in LogSequences
    \/ storage.gap # None /\ n <= storage.gap.seq
    \/ checkpoint.required /\ n <= checkpoint.last

(* threat-model.md and the extension's README: a full outbox "produces an  *)
(* explicit collector gap instead of silent loss", "capacity loss is       *)
(* reported as an explicit collector-gap event".  Every number that is     *)
(* neither queued nor stored is covered by a gap still to be reported or   *)
(* by a gap event in the agent's log.                                      *)
GapEventsCoverLoss ==
  \A n \in 1..storage.lastSequence :
    \/ n \in QueuedSequences
    \/ n \in LogSequences
    \/ storage.gap # None /\ n <= storage.gap.seq
    \/ \E i \in DOMAIN log : ~NotGap(log[i]) /\ n <= log[i].seq

(* The page the extension believes it reported last, and so will not       *)
(* report again, is the newest page queued or stored, unless a gap was     *)
(* noted.                                                                  *)
PageMessages == {m \in storage.outbox : m.kind = "page"}
                  \cup {log[i] : i \in {j \in DOMAIN log : log[j].kind = "page"}}
LastPageIsNewest ==
  \/ storage.gap # None
  \/ checkpoint.required
  \/ \A m \in PageMessages :
       (\A n \in PageMessages : n.seq <= m.seq) => m.body = storage.lastPage

(* The sequence numbers of the stored observations, in order of arrival:   *)
(* the nth member of a set of positions has n members up to it.            *)
Nth(S, n) == CHOOSE j \in {i \in S : Cardinality({h \in S : h <= i}) = n} : TRUE
DeliveredSequences ==
  [n \in 1..Cardinality(Observations) |-> log[Nth(Observations, n)].seq]

D == INSTANCE Delivery WITH
       issued <- storage.lastSequence,
       held <- QueuedSequences \ LogSequences,
       delivered <- DeliveredSequences

(* The outbox, the host and the agent implement Delivery: in order, each   *)
(* once, and everything held in the end, through stops, failures, lost     *)
(* answers and late arrivals.                                              *)
ImplementsDelivery == D!Spec

(* A noted gap reaches the agent in the end.                               *)
GapReported == storage.gap # None ~> storage.gap = None
=============================================================================
