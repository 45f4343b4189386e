------------------------------- MODULE Runtime -------------------------------
(***************************************************************************)
(* The running agent: the event loop of runtime.rs, which alone writes to  *)
(* the store and the vault, and the threads that feed its channel: the     *)
(* clipboard and personal activity samplers, the watcher and the thread of *)
(* the local API with its named pipe.  The process may be cancelled, fail  *)
(* or be killed at any point and be started again.                         *)
(*                                                                         *)
(* The store is the sequence of its raw events here; EventStore has its    *)
(* tables.  Batches of the watcher are in Collector, Screenpipe's thread   *)
(* in Screenpipe, timeline queries in Timeline.                            *)
(***************************************************************************)
EXTENDS ContentRead

CONSTANTS
  NonText,      \* a clipboard without CF_UNICODETEXT
  Garbled,      \* a CF_UNICODETEXT that can never be read: an odd byte length
  Oversized,    \* texts over MAX_CLIPBOARD_RAW_UTF16_BYTES
  Requests,     \* what clients send
  Policies,     \* read environments the agent may be started in
  Found,        \* rows of earlier days
  InVault,      \* contents of earlier days
  Budgets       \* budget: how much may happen in one behaviour

(* What is on the clipboard and never becomes an event.                    *)
Unrecorded == {NonText, Garbled}

ASSUME OversizedAssumption ==
  Oversized \subseteq Contents \ NotUtf8 /\ Unrecorded \cap Contents = {}

Budget == [copies : Nat, changes : Nat, requests : Nat, faults : Nat]

ASSUME BudgetsAssumption == Budgets \subseteq Budget
ASSUME PoliciesAssumption == Policies \subseteq Policy /\ InVault \subseteq Contents

VARIABLES
  log,        \* raw_event, in order of insertion
  vault,      \* files of the content vault
  policy,     \* ENVIRONMENT_POLICY, read from the environment at the first use
  agent,      \* "running" or "down"
  cancelled,  \* WatchCancellation
  receiving,  \* the loop has passed its check for cancellation
  queue,      \* the channel of RuntimeEvent
  hand,       \* the clipboard event whose content is in the vault
  copied,     \* external: what was on the clipboard, by sequence number
  clip,       \* the clipboard thread: sequence being read, last_sequence
  world,      \* external: the foreground window and the idle bucket
  noted,      \* the personal thread: last_foreground, last_idle_bucket
  ipc,        \* the API thread
  pipe,       \* who owns the pipe's name
  conn,       \* the one connection: its client's request and how far it is
  response,   \* the channel back to the API thread
  answer,     \* the last answer a client got
  faulted,    \* history: contents whose file was hit from outside
  budget      \* what is left of copies, changes, requests and faults

storage == <<log, vault, faulted>>
process == <<agent, cancelled, policy>>
loop == <<receiving, queue, hand>>
samplers == <<clip, noted>>
user == <<copied, world>>
api == <<ipc, pipe, conn, response, answer>>
vars == <<storage, process, loop, samplers, user, api, budget>>

Signals == {"foreground", "idle"}

EventId == [source : {"clipboard", "foreground", "idle", "api"}, n : Nat]

(* `at': the clipboard sequence or the sampled value in the payload.       *)
Row ==
  [id : EventId, scope : Scopes, sensitivity : Rank, refs : Seq(ContentRef),
   fault : Faults, at : Nat]

Request ==
  [op : {"handshake", "unsupported"}] \cup [op : {"submit"}, row : Row]
    \cup [op : {"read"}, token : BOOLEAN, id : EventId, sha256 : Contents \cup {None}]

ASSUME RequestsAssumption == Requests \subseteq Request /\ Found \in Seq(Row)

(* Event ids are UUIDs: the ones the agent makes are its own, and no two   *)
(* events of earlier days have the same.                                   *)
ASSUME IdsAssumption ==
  /\ \A request \in Requests : request.op = "submit" => request.row.id.source = "api"
  /\ \A i \in DOMAIN Found : Found[i].id.source = "api"
  /\ \A i, j \in DOMAIN Found : Found[i].id = Found[j].id => i = j

(* How far the client of a connection is.                                  *)
Phases == {"silent", "sent", "malformed", "gone"}

ASSUME NoneAssumption ==
  /\ None \notin [request : Requests, phase : Phases]
  /\ None \notin {"sensitivity", "envelope", "mismatch"}

ClipboardMediaType == "text/plain; charset=utf-8"

ASSUME CaptureAssumption ==
  "scope.personal" \in Scopes /\ ClipboardMediaType \in PlainText

Rows == {log[i] : i \in DOMAIN log}

Spend(what) == budget[what] > 0 /\ budget' = [budget EXCEPT ![what] = @ - 1]

Fault == Spend("faults")

(***************************************************************************)
(* The event loop                                                          *)
(***************************************************************************)
Idle == [seq |-> 0, last |-> 0]
Unnoted == [s \in Signals |-> None]

(* run returns: the process exits with its threads and its connection.     *)
Exit ==
  /\ agent' = "down"
  /\ receiving' = TRUE
  /\ policy' = None
  /\ queue' = <<>>
  /\ hand' = None
  /\ clip' = Idle
  /\ noted' = Unnoted
  /\ ipc' = "done"
  /\ pipe' = IF pipe = "agent" THEN "free" ELSE pipe
  /\ conn' = None
  /\ response' = None

Received(type) ==
  agent = "running" /\ receiving /\ hand = None /\ queue # <<>> /\ Head(queue).type = type

(* The next round begins with the check for cancellation: a request that   *)
(* arrives while the loop waits lets it handle one more event.             *)
NextRound == receiving' = ~cancelled

(* break at the top of the loop, or on WatchOutcome::Cancelled.            *)
LoopStops ==
  /\ agent = "running" /\ cancelled /\ hand = None
  /\ Exit
  /\ UNCHANGED <<storage, cancelled, user, answer, budget>>

(* A watcher that failed, Fatal of the API thread.                         *)
LoopFails ==
  /\ Received("Fatal")
  /\ Exit
  /\ UNCHANGED <<storage, cancelled, user, answer, budget>>

(* ingest_v2 of an event with a new UUID.                                  *)
IngestV2(row) == log' = Append(log, [row EXCEPT !.id.n = Len(log) + 1])

HandlePersonal ==
  /\ Received("Personal")
  /\ IngestV2(Head(queue).row)
  /\ queue' = Tail(queue)
  /\ NextRound
  /\ UNCHANGED <<vault, faulted, process, hand, samplers, user, api, budget>>

ClipboardRef(c) ==
  [sha256 |-> c, media |-> ClipboardMediaType, length |-> Length[c],
   compressed |-> FALSE, local |-> TRUE, class |-> SensitiveRef]

ClipboardRow(seq, refs) ==
  [id |-> [source |-> "clipboard", n |-> 0], scope |-> "scope.personal",
   sensitivity |-> Sensitive, refs |-> refs, fault |-> None, at |-> seq]

(* event_from_snapshot: the content goes to the vault first.               *)
HandleClipboard ==
  LET seen == Head(queue) IN
  /\ Received("Clipboard")
  /\ queue' = Tail(queue)
  /\ IF seen.content \in Oversized
     THEN /\ hand' = ClipboardRow(seen.seq, <<>>)
          /\ UNCHANGED <<vault, faulted>>
     ELSE /\ hand' = ClipboardRow(seen.seq, <<ClipboardRef(seen.content)>>)
          /\ vault' = PutBytes(vault, seen.content)
          /\ faulted' = {c \in faulted : c # seen.content \/ vault[c] # Missing}
  /\ UNCHANGED <<log, process, receiving, samplers, user, api, budget>>

IngestClipboard ==
  /\ agent = "running" /\ hand # None
  /\ IngestV2(hand)
  /\ hand' = None
  /\ NextRound
  /\ UNCHANGED <<vault, faulted, process, queue, samplers, user, api, budget>>

(* Mutant: the loop logs the error and goes on.                            *)
CaptureFails_GoesOn ==
  /\ Fault
  /\ Received("Personal") \/ Received("Clipboard")
  /\ queue' = Tail(queue)
  /\ NextRound
  /\ UNCHANGED <<storage, process, hand, samplers, user, api>>

(* The vault or the store fails for an observation: `?' ends the agent.    *)
CaptureFails ==
  /\ Fault
  /\ Received("Personal") \/ Received("Clipboard") \/ (agent = "running" /\ hand # None)
  /\ Exit
  /\ UNCHANGED <<storage, cancelled, user, answer>>

Known(row) == \E r \in Rows : r.id = row.id

(* handle_request; a read is given the bytes that the file holds.          *)
Reply(request, pol) ==
  LET code == CASE request.op = "unsupported" -> "unsupported_protocol"
                [] request.op = "handshake" -> "ready"
                [] request.op = "submit" -> "accepted"
                [] request.op = "read" -> ReadTextContent(Rows, vault, pol, request)
  IN [code |-> code, text |-> IF code = "text" THEN vault[request.sha256] ELSE None]

(* Mutant: no answer to a request of another protocol version.             *)
HandleApi_Drops ==
  LET request == Head(queue).request IN
  /\ Received("Api")
  /\ queue' = Tail(queue)
  /\ policy' \in IF request.op = "read" /\ policy = None THEN Policies ELSE {policy}
  /\ response' = IF request.op = "unsupported" THEN None ELSE Reply(request, policy')
  /\ IF request.op = "submit" /\ ~Known(request.row)
     THEN log' = Append(log, request.row)
     ELSE UNCHANGED log
  /\ NextRound
  /\ UNCHANGED <<vault, faulted, agent, cancelled, hand, samplers, user, ipc, pipe,
                 conn, answer, budget>>

HandleApi ==
  LET request == Head(queue).request IN
  /\ Received("Api")
  /\ queue' = Tail(queue)
  /\ policy' \in IF request.op = "read" /\ policy = None THEN Policies ELSE {policy}
  /\ response' = Reply(request, policy')
  /\ IF request.op = "submit" /\ ~Known(request.row)
     THEN log' = Append(log, request.row)
     ELSE UNCHANGED log
  /\ NextRound
  /\ UNCHANGED <<vault, faulted, agent, cancelled, hand, samplers, user, ipc, pipe,
                 conn, answer, budget>>

(* SubmitEvent when the store fails: an answer, not the end.               *)
SubmitFails ==
  /\ Fault
  /\ Received("Api") /\ Head(queue).request.op = "submit"
  /\ queue' = Tail(queue)
  /\ response' = [code |-> "ingest_failed", text |-> None]
  /\ NextRound
  /\ UNCHANGED <<storage, process, hand, samplers, user, ipc, pipe, conn, answer>>

(***************************************************************************)
(* The clipboard thread                                                    *)
(***************************************************************************)
Sampling == agent = "running" /\ ~cancelled

Send(message) == queue' = Append(queue, message)

(* GetClipboardSequenceNumber differs from last_sequence.                  *)
ClipboardSequence ==
  /\ Sampling
  /\ clip.seq = 0 /\ Len(copied) # clip.last
  /\ clip' = [clip EXCEPT !.seq = Len(copied)]
  /\ UNCHANGED <<storage, process, loop, noted, user, api, budget>>

(* Mutant: no second look at the sequence number.                          *)
ClipboardSnapshot_Unstable ==
  LET content == copied[Len(copied)] IN
  /\ agent = "running" /\ clip.seq # 0
  /\ clip' = [seq |-> 0, last |-> clip.seq]
  /\ IF content \in Unrecorded
     THEN UNCHANGED queue
     ELSE Send([type |-> "Clipboard", seq |-> clip.seq, content |-> content])
  /\ UNCHANGED <<storage, process, receiving, hand, noted, user, api, budget>>

(* The clipboard is open from the read of its content to the second look   *)
(* at its sequence number; one that changed before is read again later,    *)
(* and so is, each time in vain, one that cannot be read.                  *)
ClipboardSnapshot ==
  LET content == copied[Len(copied)] IN
  /\ agent = "running" /\ clip.seq # 0
  /\ IF Len(copied) # clip.seq \/ content = Garbled
     THEN clip' = [clip EXCEPT !.seq = 0] /\ UNCHANGED queue
     ELSE /\ clip' = [seq |-> 0, last |-> clip.seq]
          /\ IF content = NonText
             THEN UNCHANGED queue
             ELSE Send([type |-> "Clipboard", seq |-> clip.seq, content |-> content])
  /\ UNCHANGED <<storage, process, receiving, hand, noted, user, api, budget>>

(* Another program holds the clipboard, or its memory cannot be locked.    *)
ClipboardFails ==
  /\ Fault
  /\ agent = "running" /\ clip.seq # 0
  /\ clip' = [clip EXCEPT !.seq = 0]
  /\ UNCHANGED <<storage, process, loop, noted, user, api>>

(***************************************************************************)
(* The personal activity thread                                            *)
(***************************************************************************)
PersonalRow(s) ==
  [id |-> [source |-> s, n |-> 0], scope |-> "scope.personal",
   sensitivity |-> IF s = "foreground" THEN Sensitive ELSE Metadata,
   refs |-> <<>>, fault |-> None, at |-> world[s]]

(* observe_foreground, observe_idle: an event if the value is a new one.   *)
Observe(s, readable) ==
  IF s \in readable /\ noted[s] # world[s]
  THEN <<[type |-> "Personal", row |-> PersonalRow(s)]>>
  ELSE <<>>

(* One poll of which the signals in `readable' could be sampled.           *)
Poll(readable) ==
  /\ Sampling
  /\ \E s \in readable : noted[s] # world[s]
  /\ noted' = [s \in Signals |-> IF s \in readable THEN world[s] ELSE noted[s]]
  /\ queue' = queue \o Observe("foreground", readable) \o Observe("idle", readable)

PersonalSample ==
  /\ \/ Poll(Signals) /\ UNCHANGED budget
     \/ Fault /\ \E s \in Signals : Poll({s})
  /\ UNCHANGED <<storage, process, receiving, hand, clip, user, api>>

(* read_next of the watcher fails; its outcome is the thread's last event. *)
WatcherFails ==
  /\ Fault
  /\ Sampling
  /\ Send([type |-> "Fatal"])
  /\ UNCHANGED <<storage, process, receiving, hand, samplers, user, api>>

(***************************************************************************)
(* The API thread: one instance of the pipe, one connection at a time      *)
(***************************************************************************)
(* A client opens the pipe and accept returns.                             *)
Accept(request) ==
  /\ Spend("requests")
  /\ agent = "running" /\ ipc = "listening"
  /\ ipc' = "reading"
  /\ conn' = [request |-> request, phase |-> "silent"]
  /\ UNCHANGED <<storage, process, loop, samplers, user, pipe, response, answer>>

AcceptFails ==
  /\ Fault
  /\ agent = "running" /\ ipc = "listening"
  /\ Send([type |-> "Fatal"])
  /\ ipc' = "done"
  /\ pipe' = "free"
  /\ UNCHANGED <<storage, process, receiving, hand, samplers, user, conn, response,
                 answer>>

(* External: the client writes its frame, or something that is none, or    *)
(* goes away.                                                              *)
ClientWrites ==
  /\ conn # None /\ conn.phase = "silent"
  /\ \E phase \in {"sent", "malformed"} : conn' = [conn EXCEPT !.phase = phase]
  /\ UNCHANGED <<storage, process, loop, samplers, user, ipc, pipe, response,
                 answer, budget>>

ClientLeaves ==
  /\ conn # None /\ conn.phase \in {"silent", "sent", "malformed"}
  /\ conn' = [conn EXCEPT !.phase = "gone"]
  /\ UNCHANGED <<storage, process, loop, samplers, user, ipc, pipe, response,
                 answer, budget>>

(* Mutant: the connection of a client that left is not dropped.            *)
ReadFrame_Leaks ==
  /\ ipc = "reading" /\ conn.phase # "silent"
  /\ \/ /\ conn.phase = "sent"
        /\ Send([type |-> "Api", request |-> conn.request])
        /\ ipc' = "waiting"
        /\ UNCHANGED <<conn, pipe>>
     \/ /\ conn.phase \in {"malformed", "gone"}
        /\ ipc' = "unbound"
        /\ UNCHANGED <<queue, conn, pipe>>
  /\ UNCHANGED <<storage, process, receiving, hand, samplers, user, response, answer,
                 budget>>

(* read_frame, and the request goes to the loop.  A frame that does not    *)
(* arrive whole, is too long or is no request closes the connection.       *)
ReadFrame ==
  /\ ipc = "reading" /\ conn.phase # "silent"
  /\ \/ /\ conn.phase = "sent"
        /\ Send([type |-> "Api", request |-> conn.request])
        /\ ipc' = "waiting"
        /\ UNCHANGED <<pipe, conn>>
     \/ /\ conn.phase \in {"malformed", "gone"}
        /\ ipc' = "unbound"
        /\ conn' = None
        /\ pipe' = "free"
        /\ UNCHANGED queue
  /\ UNCHANGED <<storage, process, receiving, hand, samplers, user, response,
                 answer, budget>>

(* write_frame flushes: the client has read the answer, or has gone,       *)
(* before the pipe is disconnected.                                        *)
WriteFrame ==
  /\ ipc = "waiting" /\ response # None
  /\ answer' = IF conn.phase = "gone" THEN answer
               ELSE [request |-> conn.request, policy |-> policy, reply |-> response]
  /\ ipc' = IF cancelled THEN "done" ELSE "unbound"
  /\ conn' = None
  /\ pipe' = "free"
  /\ response' = None
  /\ UNCHANGED <<storage, process, loop, samplers, user, budget>>

(* bind_current_user as the first instance, and the top of the loop.       *)
Rebind ==
  /\ ipc = "unbound"
  /\ IF pipe = "free"
     THEN /\ ipc' = IF cancelled THEN "done" ELSE "listening"
          /\ pipe' = IF cancelled THEN "free" ELSE "agent"
          /\ UNCHANGED queue
     ELSE /\ Send([type |-> "Fatal"])
          /\ ipc' = "done"
          /\ UNCHANGED pipe
  /\ UNCHANGED <<storage, process, receiving, hand, samplers, user, conn, response,
                 answer, budget>>

(***************************************************************************)
(* The process and its surroundings                                        *)
(***************************************************************************)
Init ==
  /\ log = Found
  /\ vault = [c \in Contents |-> IF c \in InVault THEN c ELSE Missing]
  /\ policy = None
  /\ agent = "down" /\ cancelled = FALSE
  /\ queue = <<>> /\ hand = None /\ receiving = TRUE
  /\ copied = <<>> /\ clip = Idle
  /\ world = [s \in Signals |-> 0] /\ noted = Unnoted
  /\ ipc = "done" /\ pipe = "free" /\ conn = None
  /\ response = None /\ answer = None
  /\ faulted = {}
  /\ budget \in Budgets

(* run: the pipe's name is free, or there is no agent.                     *)
Start ==
  /\ agent = "down" /\ pipe = "free"
  /\ agent' = "running"
  /\ cancelled' = FALSE
  /\ ipc' = "listening"
  /\ pipe' = "agent"
  /\ UNCHANGED <<storage, policy, loop, samplers, user, conn, response, answer,
                 budget>>

(* Ctrl-C.                                                                 *)
Cancel ==
  /\ Fault
  /\ agent = "running" /\ ~cancelled
  /\ cancelled' = TRUE
  /\ UNCHANGED <<storage, agent, policy, loop, samplers, user, api>>

(* External: the process is killed, or the machine loses power.  Renamed   *)
(* files are not synced with their directory and may be gone afterwards,   *)
(* while the events that cite them are committed.                          *)
Crash ==
  /\ Fault
  /\ agent = "running"
  /\ Exit
  /\ \E lost \in SUBSET {c \in Contents : vault[c] = c} :
       /\ vault' = [c \in Contents |-> IF c \in lost THEN Missing ELSE vault[c]]
       /\ faulted' = faulted \cup lost
  /\ UNCHANGED <<log, cancelled, user, answer>>

(* External: a file of the vault is overwritten or replaced.               *)
Damage ==
  /\ Fault
  /\ \E c \in Contents, other \in Contents \cup {NotRegular} :
       /\ vault[c] = c /\ other # c
       /\ vault' = [vault EXCEPT ![c] = other]
       /\ faulted' = faulted \cup {c}
  /\ UNCHANGED <<log, process, loop, samplers, user, api>>

(* --serve-once, or a second agent, takes the name between two connections *)
(* and gives it back.                                                      *)
OtherServer ==
  /\ \/ pipe = "free" /\ Fault /\ pipe' = "other"
     \/ pipe = "other" /\ pipe' = "free" /\ UNCHANGED budget
  /\ UNCHANGED <<storage, process, loop, samplers, user, ipc, conn, response,
                 answer>>

(* External: the user copies something, changes windows, stops typing.     *)
Copy(content) ==
  /\ Spend("copies")
  /\ copied' = Append(copied, content)
  /\ UNCHANGED <<storage, process, loop, samplers, world, api>>

Act(s) ==
  /\ Spend("changes")
  /\ world' = [world EXCEPT ![s] = 1 - @]
  /\ UNCHANGED <<storage, process, loop, samplers, copied, api>>

EventLoop ==
  \/ LoopStops \/ LoopFails
  \/ HandlePersonal
  \/ HandleClipboard \/ IngestClipboard
  \/ HandleApi

Api == ReadFrame \/ WriteFrame \/ Rebind

Next ==
  \/ EventLoop \/ CaptureFails \/ SubmitFails
  \/ ClipboardSequence \/ ClipboardSnapshot \/ ClipboardFails
  \/ PersonalSample
  \/ WatcherFails
  \/ Api \/ AcceptFails
  \/ ClientWrites \/ ClientLeaves
  \/ Start \/ Cancel \/ Crash \/ Damage \/ OtherServer
  \/ \E request \in Requests : Accept(request)
  \/ \E content \in (Contents \ NotUtf8) \cup Unrecorded : Copy(content)
  \/ \E s \in Signals : Act(s)

Spec == Init /\ [][Next]_vars

(* The loop and the threads of a running process are scheduled, and a      *)
(* client that has sent its request reads the answer or goes.  Nothing     *)
(* makes a client write, a user start the agent or another server leave.   *)
FairSpec ==
  /\ Spec
  /\ WF_vars(EventLoop)
  /\ WF_vars(ClipboardSequence) /\ WF_vars(ClipboardSnapshot)
  /\ WF_vars(PersonalSample)
  /\ WF_vars(Api)

(***************************************************************************)
(* Properties                                                              *)
(***************************************************************************)
Message ==
  [type : {"Fatal"}] \cup [type : {"Personal"}, row : Row]
    \cup [type : {"Clipboard"}, seq : Nat, content : Contents]
    \cup [type : {"Api"}, request : Requests]

Codes ==
  {"ready", "accepted", "ingest_failed", "unsupported_protocol", "text", "content_not_authorized",
   "read_configuration_invalid", "content_type_not_supported", "content_too_large",
   "content_unavailable"}

ReplyType == [code : Codes, text : Contents \cup {None}]

(* Every variable keeps its type, and the connection, the API thread and   *)
(* the owner of the pipe's name go together.                               *)
TypeOK ==
  /\ log \in Seq(Row)
  /\ vault \in Vault
  /\ policy \in Policies \cup {None}
  /\ agent \in {"running", "down"} /\ {cancelled, receiving} \subseteq BOOLEAN
  /\ queue \in Seq(Message)
  /\ hand \in Row \cup {None}
  /\ copied \in Seq(Contents \cup Unrecorded)
  /\ clip \in [seq : 0 .. Len(copied), last : 0 .. Len(copied)]
  /\ world \in [Signals -> 0 .. 1] /\ noted \in [Signals -> {None, 0, 1}]
  /\ ipc \in {"listening", "reading", "waiting", "unbound", "done"}
  /\ pipe \in {"free", "agent", "other"}
  /\ conn \in [request : Requests, phase : Phases] \cup {None}
  /\ response \in ReplyType \cup {None}
  /\ answer \in [request : Requests, policy : Policies \cup {None}, reply : ReplyType]
                 \cup {None}
  /\ (conn # None) = (ipc \in {"reading", "waiting"})
  /\ ipc \in {"listening", "reading", "waiting"} => pipe = "agent"

(* What the policy lets a token see of the stored rows, by their columns.  *)
Shown(rows, pol, id) ==
  \E row \in rows : row.id = id /\ row.scope \in pol.scopes
                   /\ (row.fault = "sensitivity" \/ row.sensitivity <= pol.sensitivity)

(* What an answer says of the stored rows.                                 *)
ReplyTrue(rows, request, pol, reply) ==
  /\ reply.code = "accepted" => \E row \in rows : row.id = request.row.id
  /\ reply.code = "text" =>
       /\ reply.text = request.sha256
       /\ request.token /\ pol.text /\ Shown(rows, pol, request.id)
       /\ \E row \in rows : row.id = request.id /\ row.fault = None
            /\ \E i \in Carried(row, request.sha256) :
                 row.refs[i].class <= pol.retrieval /\ row.refs[i].length = Length[reply.text]
  /\ request.op = "read" /\ pol.mode = "valid" /\ ~Shown(rows, pol, request.id)
       => reply.code = "content_not_authorized"

(* An answer is true of what is stored, also when the agent died right     *)
(* after it.  docs/event-bound-content-read.md: a text is the one whose    *)
(* digest the event carries, within the grant; and for events that are     *)
(* unknown, of another scope or over the grant, decodable or not, the      *)
(* answer is always the same.                                              *)
AnswersTrue ==
  answer # None => ReplyTrue(Rows, answer.request, answer.policy, answer.reply)

(* The n-th clipboard event holds what the clipboard held under number n,  *)
(* and a reader with the sensitive profile gets exactly that back, unless  *)
(* it is over the limit or its file was hit from outside and not captured  *)
(* since.                                                                  *)
CapturedIsReadable ==
  \A row \in {r \in Rows : r.id.source = "clipboard"} :
    LET c == copied[row.at]
        read == [token |-> TRUE, id |-> row.id, sha256 |-> c]
        code == ReadTextContent(Rows, vault, SensitiveProfile({"scope.personal"}), read)
    IN /\ c \notin Unrecorded
       /\ c \in Oversized => row.refs = <<>>
       /\ c \notin Oversized =>
            IF Length[c] > MaxTextBytes THEN code = "content_too_large"
            ELSE c \notin faulted => code = "text" /\ vault[c] = c

Latest(s, value) ==
  \E i \in DOMAIN log :
    /\ log[i].id.source = s /\ log[i].at = value
    /\ \A j \in DOMAIN log : j > i => log[j].id.source # s

(* The newest events of the samplers describe the world as it is, as far   *)
(* as the clipboard holds a text that can be read.                         *)
Recorded ==
  /\ \/ copied = <<>>
     \/ copied[Len(copied)] \in Unrecorded
     \/ Latest("clipboard", Len(copied))
  /\ \A s \in Signals : Latest(s, world[s])

(* The samplers remember an observation as noted before the loop has       *)
(* stored it.  An agent that stays up still records every last change: a   *)
(* failure in between ends the process, and a new one starts afresh.       *)
CatchesUp == <>[](agent = "running") => <>[]Recorded

(* A client that has written a request, or what is none, is answered or    *)
(* disconnected, whatever ends the loop that holds the other end of its    *)
(* channel; a cancelled agent stops although its API thread may sit in     *)
(* accept; and no agent goes on without listening, whoever took the pipe's *)
(* name.                                                                   *)
Responds ==
  /\ (conn # None /\ conn.phase \in {"sent", "malformed"}) ~> (conn = None \/ conn.phase = "gone")
  /\ (agent = "running" /\ cancelled) ~> (agent = "down")
  /\ (agent = "running" /\ ipc \in {"unbound", "done"})
       ~> (agent = "down" \/ ipc = "listening")
=============================================================================
