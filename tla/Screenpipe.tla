------------------------------ MODULE Screenpipe ------------------------------
(***************************************************************************)
(* The Screenpipe adapter: a sampler thread (spawn_screenpipe) polls the   *)
(* local Screenpipe service (fetch_frames_since), hands one frame at a     *)
(* time to the agent's event loop and waits for its commit; the event loop *)
(* puts the frame's text and picture into the content vault and ingests a  *)
(* v2 event that refers to them (event_from_frame).                        *)
(*                                                                         *)
(* Every event gets a new UUID, so the store cannot tell a frame delivered *)
(* twice: only the cursor keeps frames from being stored again.  It lives  *)
(* in the thread and, after a restart, is read back from the newest stored *)
(* event.                                                                  *)
(*                                                                         *)
(* The service is external: it makes frames discoverable in order of their *)
(* numbers, the accessibility and OCR rows of a frame independently.  What *)
(* it returns was captured before, so the end_time of a search, the moment *)
(* the poll began, keeps out nothing that was discoverable at that moment. *)
(***************************************************************************)
EXTENDS Naturals, Sequences, FiniteSets

CONSTANTS
  Rows,        \* rows the search may ever return: frame, source, time, text
  Texts,
  NoText,      \* the empty text
  TooLong,     \* texts over MAX_SCREEN_TEXT_BYTES
  Starts,      \* instants five minutes before a poll (INITIAL_BACKFILL)
  Overlap,     \* CURSOR_OVERLAP
  MaxResults,  \* MAX_RESULTS_PER_SOURCE
  Breakable,   \* frames whose body may turn out to be no PNG
  MaxCrashes,  \* bound: deaths of the process
  Steady,      \* whether nothing is published while a poll searches
  None

Row == [id : Nat, source : {"accessibility", "ocr"}, at : Nat, text : Texts \cup {NoText}]
Frame == [id : Nat, at : Nat, text : Texts \cup {NoText}]

ASSUME RowsAssumption ==
  Rows \subseteq Row /\ \A r, s \in Rows : r.id = s.id /\ r.source = s.source => r = s
(* Capture times follow the frame numbers, up to the overlap.              *)
ASSUME OverlapAssumption ==
  Overlap \in Nat /\ \A r, s \in Rows : r.id < s.id => r.at <= s.at + Overlap
ASSUME StartsAssumption == Starts \subseteq Nat
ASSUME TextsAssumption == NoText \notin Texts /\ TooLong \subseteq Texts
ASSUME BoundsAssumption == MaxCrashes \in Nat /\ MaxResults \in Nat /\ Steady \in BOOLEAN
ASSUME NoneAssumption ==
  None \notin [id : Nat, at : Nat] \cup [frame : Frame, picture : BOOLEAN]

VARIABLES
  published,  \* rows the service returns
  broken,     \* frames that can never be imported: their body is no PNG
  cursor,     \* the thread's ScreenpipeCursor
  sampler,    \* "poll", "accessibility", "ocr", "frames", "await" or "stopped"
  start,      \* start_time of this poll
  before,     \* rows discoverable when the search under way began
  rows,       \* rows the first search of this poll returned
  frames,     \* frames of this poll still to be sent
  awaited,    \* next_cursor: what the commit awaited moves the cursor to
  channel,    \* the observation sent to the event loop, or None
  stage,      \* the event loop: "idle", "text", "picture" or "ingest"
  commit,     \* what was sent back: "none", "ok" or "failed"
  vault,      \* contents stored by digest
  log,        \* raw events of screenpipe.local
  horizon,    \* history: start_time of the last poll without a cursor, the
              \* one that stored the first frame
  crashes

samplerVars == <<cursor, sampler, start, before, rows, frames, awaited, horizon>>
loopVars == <<channel, stage, commit, vault, log>>
vars == <<published, broken, cursor, sampler, start, before, rows, frames, awaited, channel,
          stage, commit, vault, log, horizon, crashes>>

Stored == {log[i] : i \in DOMAIN log}
Discoverable == {r.id : r \in published}

-----------------------------------------------------------------------------
(* fetch_frames_since.                                                     *)

(* Mutant: the cursor keeps all of the frame.                              *)
CursorAt_WholeFrame(c) == c

(* ScreenpipeCursor::from_frame, and the same of a stored event.           *)
CursorAt(c) == [id |-> c.id, at |-> c.at]

(* Mutant: polling resumes right at the cursor's time.                     *)
StartTimes_NoOverlap == IF cursor = None THEN Starts ELSE {cursor.at}

StartTimes ==
  IF cursor = None THEN Starts
  ELSE {IF cursor.at >= Overlap THEN cursor.at - Overlap ELSE 0}

Search(source, from, among) == {r \in among : r.source = source /\ r.at >= from}

(* What search_text_source can return: page after page by offset, so what  *)
(* was discoverable when it began is all there (a row that comes in only   *)
(* moves others to later pages), and what came in meanwhile may be.        *)
Pages(source) ==
  {found \in SUBSET Search(source, start, published) :
     Search(source, start, before) \subseteq found}

(* TooManyResults.  At the limit itself a search still ends, by the total  *)
(* the service states.                                                     *)
TooMany(found) == Cardinality(found) > MaxResults

(* Mutant: an older frame with a newer time is enough.                     *)
CursorReset_NewerIdsIgnored(found) ==
  /\ cursor # None
  /\ \E r \in found : r.at > cursor.at /\ r.id <= cursor.id

(* The service appears to count from the beginning again.                  *)
CursorReset(found) ==
  /\ cursor # None
  /\ \E r \in found : r.at > cursor.at /\ r.id <= cursor.id
  /\ \A r \in found : r.id <= cursor.id

(* merge_candidate: accessibility text if there is any, else OCR text; the *)
(* later time.                                                             *)
Merge(found, id) ==
  LET ofFrame == {r \in found : r.id = id}
      preferred == {r \in ofFrame : r.text # NoText
                      /\ \A s \in ofFrame : s.text # NoText => r.source = "accessibility" \/ s = r}
      latest == CHOOSE r \in ofFrame : \A s \in ofFrame : s.at <= r.at
  IN [id |-> id, at |-> latest.at,
      text |-> IF preferred = {} THEN NoText ELSE (CHOOSE r \in preferred : TRUE).text]

Frames(found) ==
  {Merge(found, r.id) : r \in {s \in found : cursor = None \/ s.id > cursor.id}}

-----------------------------------------------------------------------------
Init ==
  /\ published = {}
  /\ broken \in SUBSET Breakable
  /\ cursor = None
  /\ sampler = "poll"
  /\ start = 0
  /\ before = {}
  /\ rows = {}
  /\ frames = {}
  /\ awaited = None
  /\ channel = None
  /\ stage = "idle"
  /\ commit = "none"
  /\ vault = {}
  /\ log = <<>>
  /\ horizon = 0
  /\ crashes = 0

(* The service makes a row discoverable, frames in order.                  *)
Publish(r) ==
  /\ r \notin published
  /\ \A s \in Rows : s.id < r.id => s.id \in Discoverable
  /\ Steady => sampler \notin {"accessibility", "ocr"}
  /\ published' = published \cup {r}
  /\ UNCHANGED <<broken, samplerVars, loopVars, crashes>>

(* A poll: the accessibility rows, then the OCR rows.                      *)
BeginPoll ==
  /\ sampler = "poll"
  /\ \E from \in StartTimes :
       /\ start' = from
       /\ cursor = None => from >= horizon
       /\ horizon' = IF cursor = None THEN from ELSE horizon
  /\ before' = published
  /\ sampler' = "accessibility"
  /\ UNCHANGED <<published, broken, cursor, rows, frames, awaited, loopVars, crashes>>

(* The first search ends and the second begins.                            *)
SearchAccessibility ==
  /\ sampler = "accessibility"
  /\ rows' \in Pages("accessibility")
  /\ ~TooMany(rows')
  /\ before' = published
  /\ sampler' = "ocr"
  /\ UNCHANGED <<published, broken, cursor, start, frames, awaited, horizon, loopVars, crashes>>

(* The second search ends: an apparent reset fails the poll, otherwise the *)
(* rows are merged into frames.                                            *)
SearchOcr ==
  /\ sampler = "ocr"
  /\ \E ocr \in Pages("ocr") :
       /\ ~TooMany(ocr)
       /\ \/ /\ CursorReset(rows \cup ocr)
             /\ sampler' = "poll"
             /\ UNCHANGED frames
          \/ /\ ~CursorReset(rows \cup ocr)
             /\ sampler' = "frames"
             /\ frames' = Frames(rows \cup ocr)
  /\ rows' = {}
  /\ before' = {}
  /\ UNCHANGED <<published, broken, cursor, start, awaited, horizon, loopVars, crashes>>

(* A request of the poll fails, or a search has too many results: the rest *)
(* of the poll is given up for a while.                                    *)
RequestFails ==
  /\ sampler \in {"accessibility", "ocr", "frames"}
  /\ sampler = "frames" => frames # {}
  /\ sampler' = "poll"
  /\ before' = {}
  /\ rows' = {}
  /\ frames' = {}
  /\ UNCHANGED <<published, broken, cursor, start, awaited, horizon, loopVars, crashes>>

PollDone ==
  /\ sampler = "frames"
  /\ frames = {}
  /\ sampler' = "poll"
  /\ UNCHANGED <<published, broken, cursor, start, before, rows, frames, awaited, horizon,
                 loopVars, crashes>>

(* fetch_frame_png and the send: the body is there, or it is missing or    *)
(* too large, and the frame goes without a picture.                        *)
SendFrame ==
  /\ sampler = "frames"
  /\ \E f \in frames, picture \in BOOLEAN :
       /\ \A g \in frames : f.id <= g.id
       /\ f.id \in broken => picture
       /\ channel' = [frame |-> f, picture |-> picture]
       /\ frames' = frames \ {f}
       /\ awaited' = CursorAt(f)
  /\ sampler' = "await"
  /\ commit' = "none"
  /\ UNCHANGED <<published, broken, cursor, start, before, rows, stage, vault, log,
                 horizon, crashes>>

-----------------------------------------------------------------------------
(* The event loop: RuntimeEvent::Screenpipe.                               *)

TextOf(f) == <<"text", f.text>>
PictureOf(f) == <<"picture", f.id>>
Retained(f) == f.text # NoText /\ f.text \notin TooLong

TakeObservation ==
  /\ stage = "idle"
  /\ channel # None
  /\ stage' = "text"
  /\ UNCHANGED <<published, broken, samplerVars, channel, commit, vault, log, crashes>>

(* The frame's text; an empty or oversized one is left out.                *)
PutText ==
  /\ stage = "text"
  /\ stage' = "picture"
  /\ vault' = IF Retained(channel.frame) THEN vault \cup {TextOf(channel.frame)} ELSE vault
  /\ UNCHANGED <<published, broken, samplerVars, channel, commit, log, crashes>>

(* Mutant: the picture is written behind the event.                        *)
PutPicture_Later ==
  /\ stage = "picture"
  /\ channel.picture => channel.frame.id \notin broken
  /\ stage' = "ingest"
  /\ UNCHANGED <<published, broken, samplerVars, channel, commit, vault, log, crashes>>

(* The body must be a PNG, or the frame fails here each time it is sent.   *)
PutPicture ==
  /\ stage = "picture"
  /\ channel.picture => channel.frame.id \notin broken
  /\ stage' = "ingest"
  /\ vault' = IF channel.picture THEN vault \cup {PictureOf(channel.frame)} ELSE vault
  /\ UNCHANGED <<published, broken, samplerVars, channel, commit, log, crashes>>

Refs(o) ==
  (IF Retained(o.frame) THEN {TextOf(o.frame)} ELSE {})
    \cup (IF o.picture THEN {PictureOf(o.frame)} ELSE {})

(* ingest_v2 and the answer; a thread that gave up does not hear it.       *)
IngestFrame ==
  /\ stage = "ingest"
  /\ log' = Append(log, [id |-> channel.frame.id, at |-> channel.frame.at, refs |-> Refs(channel)])
  /\ stage' = "idle"
  /\ channel' = None
  /\ commit' = "ok"
  /\ UNCHANGED <<published, broken, samplerVars, vault, crashes>>

(* The vault, the PNG check or the store fails; what is in the vault stays.*)
ObservationFails ==
  /\ stage \in {"text", "picture", "ingest"}
  /\ stage' = "idle"
  /\ channel' = None
  /\ commit' = "failed"
  /\ UNCHANGED <<published, broken, samplerVars, vault, log, crashes>>

-----------------------------------------------------------------------------
(* The thread hears of the commit and moves its cursor.                    *)
Committed ==
  /\ sampler = "await"
  /\ commit = "ok"
  /\ cursor' = awaited
  /\ sampler' = "frames"
  /\ awaited' = None
  /\ commit' = "none"
  /\ UNCHANGED <<published, broken, start, before, rows, frames, channel, stage, vault,
                 log, horizon, crashes>>

(* batch_failed: what is left of the batch is polled again.                *)
CommitFailed ==
  /\ sampler = "await"
  /\ commit = "failed"
  /\ sampler' = "poll"
  /\ frames' = {}
  /\ commit' = "none"
  /\ awaited' = None
  /\ UNCHANGED <<published, broken, cursor, start, before, rows, channel, stage, vault,
                 log, horizon, crashes>>

(* Mutant: a commit that takes too long is tried again.                    *)
CommitTimesOut_Retries ==
  /\ sampler = "await"
  /\ sampler' = "poll"
  /\ frames' = {}
  /\ commit' = "none"
  /\ awaited' = None
  /\ UNCHANGED <<published, broken, cursor, start, before, rows, channel, stage, vault,
                 log, horizon, crashes>>

(* recv_timeout: the thread ends, for the rest of the process.  The event  *)
(* loop may still be about to store the frame.                             *)
CommitTimesOut ==
  /\ sampler = "await"
  /\ commit = "none"
  /\ sampler' = "stopped"
  /\ frames' = {}
  /\ awaited' = None
  /\ UNCHANGED <<published, broken, cursor, start, before, rows, horizon, loopVars, crashes>>

(* The agent dies and is started again: screenpipe_runtime_config reads    *)
(* the cursor from the stored event with the largest source_sequence.      *)
Newest(events) == CHOOSE e \in events : \A o \in events : o.id <= e.id

Restart ==
  /\ crashes < MaxCrashes
  /\ crashes' = crashes + 1
  /\ cursor' = IF log = <<>> THEN None ELSE CursorAt(Newest(Stored))
  /\ sampler' = "poll"
  /\ before' = {}
  /\ rows' = {}
  /\ frames' = {}
  /\ awaited' = None
  /\ channel' = None
  /\ stage' = "idle"
  /\ commit' = "none"
  /\ UNCHANGED <<published, broken, start, vault, log, horizon>>

Next ==
  \/ \E r \in Rows : Publish(r)
  \/ BeginPoll
  \/ SearchAccessibility
  \/ SearchOcr
  \/ RequestFails
  \/ PollDone
  \/ SendFrame
  \/ TakeObservation
  \/ PutText
  \/ PutPicture
  \/ IngestFrame
  \/ ObservationFails
  \/ Committed
  \/ CommitFailed
  \/ CommitTimesOut
  \/ Restart

(* The thread and the event loop keep going; requests and writes that are  *)
(* tried again and again do not fail every time, unless they have to: a    *)
(* search with too many results and a body that is no PNG always fail.     *)
Fairness ==
  /\ WF_vars(BeginPoll)
  /\ SF_vars(SearchAccessibility)
  /\ SF_vars(SearchOcr)
  /\ WF_vars(PollDone)
  /\ SF_vars(SendFrame)
  /\ WF_vars(TakeObservation)
  /\ SF_vars(PutText)
  /\ SF_vars(PutPicture)
  /\ SF_vars(IngestFrame)
  /\ WF_vars(Committed)
  /\ WF_vars(CommitFailed)

Spec == Init /\ [][Next]_vars
FairSpec == Spec /\ Fairness

-----------------------------------------------------------------------------
Content == {<<"text", t>> : t \in Texts} \cup {<<"picture", n>> : n \in {r.id : r \in Rows}}

(* Every variable keeps its shape.                                         *)
TypeOK ==
  /\ published \in SUBSET Rows
  /\ broken \in SUBSET Breakable
  /\ cursor \in [id : Nat, at : Nat] \cup {None}
  /\ sampler \in {"poll", "accessibility", "ocr", "frames", "await", "stopped"}
  /\ start \in Nat
  /\ before \in SUBSET Rows
  /\ rows \in SUBSET Rows
  /\ frames \in SUBSET Frame
  /\ awaited \in [id : Nat, at : Nat] \cup {None}
  /\ channel \in [frame : Frame, picture : BOOLEAN] \cup {None}
  /\ stage \in {"idle", "text", "picture", "ingest"}
  /\ commit \in {"none", "ok", "failed"}
  /\ vault \in SUBSET Content
  /\ log \in Seq([id : Nat, at : Nat, refs : SUBSET Content])
  /\ horizon \in Nat
  /\ crashes \in 0..MaxCrashes

(* No frame is stored twice, although every event has a new UUID: not      *)
(* after a failed commit, not when the commit comes after the thread gave  *)
(* up on it, not when the agent dies between the commit and the cursor.    *)
EachFrameOnce == \A i, j \in DOMAIN log : log[i].id = log[j].id => i = j

(* The README: the adapter imports the "latest five minutes" of frames     *)
(* "discoverable through Screenpipe's official Search API", then new ones. *)
(* The cursor never passes a discoverable frame that is not stored, unless *)
(* the frame is older than the five minutes before the poll that stored    *)
(* the first frame (an earlier poll may have found it and failed): not     *)
(* when a frame fails in the middle of a batch, not when capture times run *)
(* backwards by as much as the overlap.                                    *)
NoFrameSkipped ==
  cursor # None =>
    \A n \in Discoverable :
      n <= cursor.id /\ (\A r \in Rows : r.id = n => r.at >= horizon)
        => \E e \in Stored : e.id = n

(* What a stored event refers to is in the vault, wherever the agent died  *)
(* or failed in between (event_from_frame, then ingest_v2).                *)
RefsInVault == \A e \in Stored : e.refs \subseteq vault

(* The search of a poll that starts here fails with too many results.      *)
Crowded ==
  \E source \in {"accessibility", "ocr"}, from \in StartTimes :
    TooMany(Search(source, from, published))

(* A discoverable frame is stored in the end, unless it is older than the  *)
(* window of the first poll that stored one, a frame that is no PNG stands *)
(* before it, the thread has given up on a commit, or so much is in the    *)
(* window of every further poll that its searches fail for good: failures  *)
(* that pass are retried, and an apparent reset of the service's numbering *)
(* passes with the next new frame, or concerns only what is stored.        *)
Captured ==
  \/ \A n \in {r.id : r \in Rows} :
       n \in Discoverable
         ~> \/ \E e \in Stored : e.id = n
            \/ \E r \in Rows : r.id = n /\ r.at < horizon
            \/ \E m \in broken : m <= n
            \/ sampler = "stopped"
  \/ <>[]Crowded
=============================================================================
