---------------------------- MODULE RuntimeProofs ----------------------------
(***************************************************************************)
(* Proofs about Runtime and ContentRead for any contents, requests,        *)
(* policies and budgets: an answer that a client got is true, and what was *)
(* captured can be read.                                                   *)
(***************************************************************************)
EXTENDS Runtime, WellFoundedInduction, TLAPS

-----------------------------------------------------------------------------
(* The invariants.                                                         *)

(* What a queue holds for the API: nothing, or one message, with request.  *)
Silent(q) == \A i \in DOMAIN q : q[i].type # "Api"

Asks(q, request) ==
  /\ \A i \in DOMAIN q : q[i].type = "Api" => q[i].request = request
  /\ \A i, j \in DOMAIN q : q[i].type = "Api" /\ q[j].type = "Api" => i = j

(* The API thread has at most one request with the loop, the one of its    *)
(* connection, and an answer that waits to be written is true of it.       *)
Dialogue ==
  /\ ~Silent(queue) => ipc = "waiting" /\ response = None /\ Asks(queue, conn.request)
  /\ response # None => ipc = "waiting" /\ ReplyTrue(Rows, conn.request, policy, response)

(* No two events have the same id.                                         *)
Distinct ==
  /\ \A i \in DOMAIN log : log[i].id.source # "api" => log[i].id.n = i
  /\ \A i, j \in DOMAIN log : log[i].id = log[j].id => i = j

(* The event of what was on the clipboard under its number.                *)
OfClipboard(copies, row) ==
  LET c == copies[row.at] IN
  /\ row.at \in DOMAIN copies /\ c \notin Unrecorded
  /\ row.id.source = "clipboard" /\ row.scope = "scope.personal"
  /\ row.sensitivity = Sensitive /\ row.fault = None
  /\ row.refs = IF c \in Oversized THEN <<>> ELSE <<ClipboardRef(c)>>

(* Its text is in the vault, or was taken from it.                         *)
Kept(files, hit, copies, row) ==
  LET c == copies[row.at] IN c \notin Oversized /\ c \notin hit => files[c] = c

(* What the samplers sent.                                                 *)
Sent(copies, message) ==
  /\ message.type = "Clipboard" =>
       message.seq \in DOMAIN copies /\ message.content = copies[message.seq]
       /\ message.content \notin Unrecorded
  /\ message.type = "Personal" => message.row.id.source \in Signals

Texts == copied \in Seq((Contents \ NotUtf8) \cup Unrecorded)
Files == \A c \in Contents \ faulted : vault[c] \in {c, Missing}
Channel == \A i \in DOMAIN queue : Sent(copied, queue[i])
InHand == hand # None => OfClipboard(copied, hand) /\ Kept(vault, faulted, copied, hand)
InLog ==
  \A i \in DOMAIN log :
    log[i].id.source = "clipboard" =>
      OfClipboard(copied, log[i]) /\ Kept(vault, faulted, copied, log[i])

(* A capture is on its way from the clipboard to the log.                  *)
Captured == Texts /\ Files /\ Channel /\ InHand /\ InLog

-----------------------------------------------------------------------------
(* Types, by the variables that change together.                           *)

StoreType == log \in Seq(Row) /\ vault \in Vault

ProcessType ==
  /\ policy \in Policies \cup {None}
  /\ agent \in {"running", "down"} /\ cancelled \in BOOLEAN /\ receiving \in BOOLEAN

QueueType == queue \in Seq(Message) /\ hand \in Row \cup {None}

SamplerType ==
  /\ copied \in Seq(Contents \cup Unrecorded)
  /\ clip \in [seq : 0 .. Len(copied), last : 0 .. Len(copied)]
  /\ world \in [Signals -> 0 .. 1] /\ noted \in [Signals -> {None, 0, 1}]

Conn == [request : Requests, phase : Phases]
Answer == [request : Requests, policy : Policies \cup {None}, reply : ReplyType]

ApiType ==
  /\ ipc \in {"listening", "reading", "waiting", "unbound", "done"}
  /\ pipe \in {"free", "agent", "other"}
  /\ conn \in Conn \cup {None}
  /\ response \in ReplyType \cup {None}
  /\ answer \in Answer \cup {None}
  /\ conn # None <=> ipc \in {"reading", "waiting"}
  /\ ipc \in {"listening", "reading", "waiting"} => pipe = "agent"

LEMMA TypeParts ==
  /\ TypeOK <=> StoreType /\ ProcessType /\ QueueType /\ SamplerType /\ ApiType
  /\ TypeOK' <=> StoreType' /\ ProcessType' /\ QueueType' /\ SamplerType' /\ ApiType'
<1>1. TypeOK <=> StoreType /\ ProcessType /\ QueueType /\ SamplerType /\ ApiType
  BY DEF TypeOK, StoreType, ProcessType, QueueType, SamplerType, ApiType, Conn, Answer
<1>2. TypeOK' <=> StoreType' /\ ProcessType' /\ QueueType' /\ SamplerType' /\ ApiType'
  BY DEF TypeOK, StoreType, ProcessType, QueueType, SamplerType, ApiType, Conn, Answer
<1>3. QED
  BY <1>1, <1>2

(* Exit returns every variable of the process to where Start expects it.   *)
LEMMA ExitTypes ==
  ASSUME TypeOK, Exit
  PROVE  /\ QueueType'
         /\ UNCHANGED <<copied, world>> => SamplerType'
         /\ UNCHANGED answer => ApiType'
         /\ UNCHANGED cancelled => ProcessType'
<1>0. ProcessType /\ SamplerType /\ ApiType
  BY TypeParts
<1>1. <<>> \in Seq(Message)
  OBVIOUS
<1>2. QueueType'
  BY <1>1, Zenon DEF Exit, QueueType
<1>3. UNCHANGED <<copied, world>> => SamplerType'
  BY <1>0 DEF Exit, SamplerType, Idle, Unnoted
<1>4. UNCHANGED answer => ApiType'
  BY <1>0 DEF Exit, ApiType
<1>5. UNCHANGED cancelled => ProcessType'
  BY <1>0 DEF Exit, ProcessType
<1>6. QED
  BY <1>2, <1>3, <1>4, <1>5

LEMMA ExitSteps ==
  ASSUME TypeOK, LoopStops \/ LoopFails \/ CaptureFails \/ Crash
  PROVE  TypeOK'
<1>1. Exit /\ UNCHANGED <<log, cancelled, copied, world, answer>>
  BY DEF LoopStops, LoopFails, CaptureFails, Crash, storage, user
<1>2. vault' \in Vault
  <2>1. CASE Crash
    BY <2>1 DEF Crash, TypeOK, Vault
  <2>2. CASE ~Crash
    BY <2>2 DEF LoopStops, LoopFails, CaptureFails, storage, TypeOK
  <2>3. QED
    BY <2>1, <2>2
<1>3. StoreType'
  BY <1>1, <1>2 DEF StoreType, TypeOK
<1>4. QED
  BY <1>1, <1>3, ExitTypes, TypeParts

LEMMA SameTypes ==
  ASSUME TypeOK
  PROVE  /\ UNCHANGED <<log, vault>> => StoreType'
         /\ UNCHANGED <<policy, agent, cancelled, receiving>> => ProcessType'
         /\ UNCHANGED <<queue, hand>> => QueueType'
         /\ UNCHANGED <<copied, clip, world, noted>> => SamplerType'
         /\ UNCHANGED <<ipc, pipe, conn, response, answer>> => ApiType'
BY DEF TypeOK, StoreType, ProcessType, QueueType, SamplerType, ApiType, Conn, Answer

LEMMA SendTypes ==
  ASSUME TypeOK, NEW message \in Message, Send(message), UNCHANGED hand
  PROVE  QueueType'
<1>1. queue \in Seq(Message) /\ Append(queue, message) \in Seq(Message)
  BY DEF TypeOK
<1>2. QED
  BY <1>1 DEF Send, QueueType, TypeOK

LEMMA TakenTypes ==
  ASSUME TypeOK, queue # <<>>
  PROVE  /\ Head(queue) \in Message /\ Tail(queue) \in Seq(Message)
         /\ Head(queue).type = "Personal" => Head(queue).row \in Row
         /\ Head(queue).type = "Clipboard" =>
              Head(queue).seq \in Nat /\ Head(queue).content \in Contents
         /\ Head(queue).type = "Api" => Head(queue).request \in Requests
<1>1. queue \in Seq(Message)
  BY DEF TypeOK
<1>2. Head(queue) \in Message /\ Tail(queue) \in Seq(Message)
  BY <1>1
<1>3. QED
  BY <1>2 DEF Message

LEMMA NextRoundType ==
  ASSUME TypeOK, NextRound
  PROVE  receiving' \in BOOLEAN
BY DEF NextRound

(* An event with an id of its own.                                         *)
LEMMA IngestTypes ==
  ASSUME TypeOK, NEW row \in Row, IngestV2(row)
  PROVE  log' \in Seq(Row)
<1>1. log \in Seq(Row) /\ Len(log) + 1 \in Nat
  BY DEF TypeOK
<1>2. [row EXCEPT !.id.n = Len(log) + 1] \in Row
  BY <1>1 DEF Row, EventId
<1>3. QED
  BY <1>1, <1>2 DEF IngestV2

LEMMA ClipboardRowType ==
  ASSUME NEW seq \in Nat, NEW c \in Contents
  PROVE  /\ ClipboardRow(seq, <<>>) \in Row
         /\ ClipboardRow(seq, <<ClipboardRef(c)>>) \in Row
<1>1. ClipboardRef(c) \in ContentRef
  BY LengthAssumption, NotUtf8Assumption, CaptureAssumption
  DEF ClipboardRef, ContentRef, SensitiveRef, Rank
<1>2. <<>> \in Seq(ContentRef) /\ <<ClipboardRef(c)>> \in Seq(ContentRef)
  BY <1>1
<1>3. ASSUME NEW refs \in Seq(ContentRef)
      PROVE  ClipboardRow(seq, refs) \in Row
  BY CaptureAssumption DEF ClipboardRow, Row, EventId, Sensitive, Rank, Faults
<1>4. QED
  BY <1>2, <1>3

LEMMA LoopTypes ==
  ASSUME TypeOK, HandlePersonal \/ HandleClipboard \/ IngestClipboard
  PROVE  TypeOK'
<1>1. CASE HandlePersonal
  <2>1. queue # <<>> /\ Head(queue).type = "Personal"
    BY <1>1 DEF HandlePersonal, Received
  <2>2. log' \in Seq(Row) /\ queue' \in Seq(Message)
    BY <1>1, <2>1, TakenTypes, IngestTypes DEF HandlePersonal
  <2>3. StoreType' /\ QueueType'
    BY <1>1, <2>2 DEF HandlePersonal, StoreType, QueueType, TypeOK
  <2>4. ProcessType'
    BY <1>1, NextRoundType DEF HandlePersonal, process, ProcessType, TypeOK
  <2>5. SamplerType' /\ ApiType'
    BY <1>1, SameTypes DEF HandlePersonal, samplers, user, api
  <2>6. QED
    BY <2>3, <2>4, <2>5, TypeParts
<1>2. CASE HandleClipboard
  <2>1. queue # <<>> /\ Head(queue).type = "Clipboard"
    BY <1>2 DEF HandleClipboard, Received
  <2>2. hand' \in Row /\ queue' \in Seq(Message)
    BY <1>2, <2>1, TakenTypes, ClipboardRowType DEF HandleClipboard
  <2>3. vault' \in Vault
    BY <1>2, <2>1, TakenTypes DEF HandleClipboard, PutBytes, Vault, TypeOK
  <2>4. StoreType' /\ QueueType'
    BY <1>2, <2>2, <2>3 DEF HandleClipboard, StoreType, QueueType, TypeOK
  <2>5. ProcessType' /\ SamplerType' /\ ApiType'
    BY <1>2, SameTypes DEF HandleClipboard, process, samplers, user, api
  <2>6. QED
    BY <2>4, <2>5, TypeParts
<1>3. CASE IngestClipboard
  <2>1. hand \in Row
    BY <1>3 DEF IngestClipboard, TypeOK
  <2>2. log' \in Seq(Row)
    BY <1>3, <2>1, IngestTypes DEF IngestClipboard
  <2>3. StoreType' /\ QueueType'
    BY <1>3, <2>2 DEF IngestClipboard, StoreType, QueueType, TypeOK
  <2>4. ProcessType'
    BY <1>3, NextRoundType DEF IngestClipboard, process, ProcessType, TypeOK
  <2>5. SamplerType' /\ ApiType'
    BY <1>3, SameTypes DEF IngestClipboard, samplers, user, api
  <2>6. QED
    BY <2>3, <2>4, <2>5, TypeParts
<1>4. QED
  BY <1>1, <1>2, <1>3

-----------------------------------------------------------------------------
(* What a read answers.                                                    *)

LEMMA Least ==
  ASSUME NEW S \in SUBSET Nat, S # {}
  PROVE  \E i \in S : \A j \in S : i <= j
<1>1. PICK i \in S : \A j \in S : ~(<<j, i>> \in OpToRel(<, Nat))
  BY WFMin, NatLessThanWellFounded
<1>2. \A j \in S : ~(j < i)
  BY <1>1 DEF OpToRel
<1>3. QED
  BY <1>2

(* The first reference with a digest has that digest.                      *)
LEMMA FirstRefCarried ==
  ASSUME NEW row, row.refs \in Seq(ContentRef), NEW sha, Carried(row, sha) # {}
  PROVE  \E i \in Carried(row, sha) :
           FirstRef(row, sha) = row.refs[i] /\ \A j \in Carried(row, sha) : i <= j
<1>1. Carried(row, sha) \subseteq Nat
  BY DEF Carried
<1>2. \E i \in Carried(row, sha) : \A j \in Carried(row, sha) : i <= j
  BY <1>1, Least
<1>3. QED
  BY <1>2 DEF FirstRef

(* The row that raw_event_by_id returns.                                   *)
Stored(rows, id) == CHOOSE row \in rows : row.id = id

LEMMA Granted ==
  ASSUME NEW rows, NEW id, NEW sha, NEW pol,
         AuthorizeReference(rows, id, sha, pol) = "granted"
  PROVE  /\ Stored(rows, id) \in rows /\ Stored(rows, id).id = id
         /\ Stored(rows, id).scope \in pol.scopes
         /\ Stored(rows, id).fault = None
         /\ ~(Stored(rows, id).sensitivity > pol.sensitivity)
         /\ Carried(Stored(rows, id), sha) # {}
         /\ ~(FirstRef(Stored(rows, id), sha).class > pol.retrieval)
<1>1. \E row \in rows : row.id = id
  BY DEF AuthorizeReference
<1>2. Stored(rows, id) \in rows /\ Stored(rows, id).id = id
  BY <1>1 DEF Stored
<1>3. QED
  BY <1>1, <1>2 DEF AuthorizeReference, Stored

LEMMA NotDenied ==
  ASSUME NEW rows, NEW id, NEW sha, NEW pol,
         AuthorizeReference(rows, id, sha, pol) # "denied"
  PROVE  \E row \in rows :
           /\ row.id = id /\ row.scope \in pol.scopes
           /\ row.fault = "sensitivity" \/ ~(row.sensitivity > pol.sensitivity)
<1>1. \E row \in rows : row.id = id
  BY DEF AuthorizeReference
<1>2. Stored(rows, id) \in rows /\ Stored(rows, id).id = id
  BY <1>1 DEF Stored
<1>3. /\ Stored(rows, id).scope \in pol.scopes
      /\ \/ Stored(rows, id).fault = "sensitivity"
         \/ ~(Stored(rows, id).sensitivity > pol.sensitivity)
  BY <1>1 DEF AuthorizeReference, Stored
<1>4. QED
  BY <1>2, <1>3

LEMMA Authorized ==
  ASSUME NEW rows, NEW id, NEW sha, NEW pol
  PROVE  AuthorizeReference(rows, id, sha, pol) \in {"denied", "failed", "granted"}
BY DEF AuthorizeReference

LEMMA ReadReferencedCodes ==
  ASSUME NEW v, NEW ref
  PROVE  ReadReferenced(v, ref) \in
           {"content_not_authorized", "content_type_not_supported", "content_too_large",
            "content_unavailable", "text"}
BY DEF ReadReferenced

(* Every way through read_text_content ends in one of its codes.           *)
LEMMA ReadCodes ==
  ASSUME NEW rows, NEW v, NEW pol, NEW request
  PROVE  ReadTextContent(rows, v, pol, request) \in
           {"read_configuration_invalid", "content_not_authorized", "content_unavailable",
            "content_type_not_supported", "content_too_large", "text"}
<1> DEFINE a == AuthorizeReference(rows, request.id, request.sha256, pol)
<1>1. a \in {"denied", "failed", "granted"}
  BY Authorized
<1> DEFINE ref == FirstRef(CHOOSE row \in rows : row.id = request.id, request.sha256)
<1>2. ReadReferenced(v, ref) \in
        {"content_not_authorized", "content_type_not_supported", "content_too_large",
         "content_unavailable", "text"}
  BY ReadReferencedCodes
<1>3. QED
  BY <1>1, <1>2 DEF ReadTextContent

(* A text is what the vault has under the digest, read whole and verified. *)
LEMMA TextIsVerified ==
  ASSUME NEW v, NEW ref, ReadReferenced(v, ref) = "text"
  PROVE  /\ v[ref.sha256] = ref.sha256 /\ v[ref.sha256] \notin {Missing, NotRegular}
         /\ Length[v[ref.sha256]] = ref.length
<1>1. ReadVerifiedBytes(v, ref.sha256) \notin {"too_large", "failed"}
  BY DEF ReadReferenced
<1>2. v[ref.sha256] = ref.sha256 /\ v[ref.sha256] \notin {Missing, NotRegular}
  BY <1>1 DEF ReadVerifiedBytes
<1>3. Length[v[ref.sha256]] = ref.length
  BY DEF ReadReferenced
<1>4. QED
  BY <1>2, <1>3

LEMMA TextIsGranted ==
  ASSUME NEW rows, NEW v, NEW pol, NEW request,
         ReadTextContent(rows, v, pol, request) = "text"
  PROVE  /\ pol.mode \notin {"invalid", "none"} /\ request.token /\ pol.text
         /\ request.sha256 \in Contents
         /\ AuthorizeReference(rows, request.id, request.sha256, pol) = "granted"
         /\ ReadReferenced(v, FirstRef(Stored(rows, request.id), request.sha256)) = "text"
<1>1. /\ pol.mode \notin {"invalid", "none"} /\ request.token /\ pol.text
      /\ request.sha256 \in Contents
  BY DEF ReadTextContent
<1>2. AuthorizeReference(rows, request.id, request.sha256, pol) = "granted"
  BY <1>1, Authorized DEF ReadTextContent
<1>3. QED
  BY <1>1, <1>2 DEF ReadTextContent, Stored

LEMMA RowTypes ==
  ASSUME StoreType
  PROVE  Rows \subseteq Row
BY DEF StoreType, Rows

LEMMA PolicyTypes ==
  ASSUME NEW pol \in Policies
  PROVE  pol \in Policy /\ pol.sensitivity \in Nat /\ pol.retrieval \in Nat
BY PoliciesAssumption DEF Policy, Rank

(* docs/event-bound-content-read.md, for one read of the store.            *)
LEMMA ReadIsTrue ==
  ASSUME StoreType, NEW request \in Requests, request.op = "read", NEW pol \in Policies
  PROVE  ReplyTrue(Rows, request, pol, Reply(request, pol))
<1> DEFINE code == ReadTextContent(Rows, vault, pol, request)
           row == Stored(Rows, request.id)
           ref == FirstRef(row, request.sha256)
<1>0. /\ Reply(request, pol).code = code
      /\ Reply(request, pol).text = IF code = "text" THEN vault[request.sha256] ELSE None
  BY DEF Reply
<1>1. code # "accepted"
  BY ReadCodes
<1>2. ASSUME code = "text"
      PROVE  /\ vault[request.sha256] = request.sha256
             /\ request.token /\ pol.text /\ Shown(Rows, pol, request.id)
             /\ row \in Rows /\ row.id = request.id /\ row.fault = None
             /\ \E i \in Carried(row, request.sha256) :
                  /\ row.refs[i].class <= pol.retrieval
                  /\ row.refs[i].length = Length[vault[request.sha256]]
  <2>1. /\ request.token /\ pol.text
        /\ AuthorizeReference(Rows, request.id, request.sha256, pol) = "granted"
        /\ ReadReferenced(vault, ref) = "text"
    BY <1>2, TextIsGranted
  <2>2. /\ row \in Rows /\ row.id = request.id
        /\ row.scope \in pol.scopes /\ row.fault = None
        /\ ~(row.sensitivity > pol.sensitivity)
        /\ Carried(row, request.sha256) # {}
        /\ ~(ref.class > pol.retrieval)
    BY <2>1, Granted
  <2>3. row \in Row
    BY <2>2, RowTypes
  <2>4. row.refs \in Seq(ContentRef) /\ row.sensitivity \in Nat
    BY <2>3 DEF Row, Rank
  <2> HIDE DEF row
  <2>5. PICK i \in Carried(row, request.sha256) : ref = row.refs[i]
    BY <2>2, <2>4, FirstRefCarried
  <2>6. ref \in ContentRef /\ ref.sha256 = request.sha256
    BY <2>4, <2>5 DEF Carried
  <2>7. ref.class \in Nat
    BY <2>6 DEF ContentRef, Rank
  <2> HIDE DEF ref
  <2>8. vault[request.sha256] = request.sha256 /\ Length[vault[request.sha256]] = ref.length
    BY <2>1, <2>6, TextIsVerified
  <2>9. ref.class <= pol.retrieval /\ row.sensitivity <= pol.sensitivity
    BY <2>2, <2>4, <2>7, PolicyTypes
  <2>10. Shown(Rows, pol, request.id)
    BY <2>2, <2>9 DEF Shown
  <2>11. QED
    BY <2>1, <2>2, <2>5, <2>8, <2>9, <2>10
<1>3. ASSUME pol.mode = "valid", ~Shown(Rows, pol, request.id)
      PROVE  code = "content_not_authorized"
  <2>1. AuthorizeReference(Rows, request.id, request.sha256, pol) = "denied"
    <3>1. SUFFICES ASSUME AuthorizeReference(Rows, request.id, request.sha256, pol) # "denied"
                   PROVE  Shown(Rows, pol, request.id)
      BY <1>3
    <3>2. PICK r \in Rows :
            /\ r.id = request.id /\ r.scope \in pol.scopes
            /\ r.fault = "sensitivity" \/ ~(r.sensitivity > pol.sensitivity)
      BY <3>1, NotDenied
    <3>3. r.sensitivity \in Nat
      BY RowTypes DEF Row, Rank
    <3>4. r.fault = "sensitivity" \/ r.sensitivity <= pol.sensitivity
      BY <3>2, <3>3, PolicyTypes
    <3>5. QED
      BY <3>2, <3>4 DEF Shown
  <2>2. QED
    BY <1>3, <2>1 DEF ReadTextContent
<1> HIDE DEF code
<1>4. QED
  BY <1>0, <1>1, <1>2, <1>3 DEF ReplyTrue

LEMMA OtherReplies ==
  ASSUME NEW request \in Requests, NEW pol
  PROVE  /\ request.op = "handshake" => Reply(request, pol) = [code |-> "ready", text |-> None]
         /\ request.op = "unsupported" =>
              Reply(request, pol) = [code |-> "unsupported_protocol", text |-> None]
         /\ request.op = "submit" => Reply(request, pol) = [code |-> "accepted", text |-> None]
         /\ request.op \in {"handshake", "unsupported", "submit", "read"}
<1>1. request.op \in {"handshake", "unsupported", "submit", "read"}
  BY RequestsAssumption DEF Request
<1>2. QED
  BY <1>1 DEF Reply

LEMMA ReplyTypes ==
  ASSUME StoreType, NEW request \in Requests, NEW pol,
         request.op = "read" => pol \in Policies
  PROVE  Reply(request, pol) \in ReplyType
<1>1. CASE request.op = "read"
  <2> DEFINE code == ReadTextContent(Rows, vault, pol, request)
  <2>1. Reply(request, pol) =
          [code |-> code, text |-> IF code = "text" THEN vault[request.sha256] ELSE None]
    BY <1>1 DEF Reply
  <2>2. code \in Codes
    BY ReadCodes DEF Codes
  <2>3. code = "text" => vault[request.sha256] \in Contents
    <3>1. ASSUME code = "text"
          PROVE  vault[request.sha256] \in Contents
      <4>1. ReplyTrue(Rows, request, pol, Reply(request, pol))
        BY <1>1, ReadIsTrue
      <4>2. Reply(request, pol).code = "text"
            /\ Reply(request, pol).text = vault[request.sha256]
        BY <2>1, <3>1
      <4>3. vault[request.sha256] = request.sha256
        BY <4>1, <4>2 DEF ReplyTrue
      <4>4. request.sha256 \in Contents
        BY <3>1, TextIsGranted
      <4>5. QED
        BY <4>3, <4>4
    <3>2. QED
      BY <3>1
  <2> HIDE DEF code
  <2>4. QED
    BY <2>1, <2>2, <2>3 DEF ReplyType
<1>2. CASE request.op # "read"
  BY <1>2, OtherReplies DEF ReplyType, Codes
<1>3. QED
  BY <1>1, <1>2

-----------------------------------------------------------------------------
(* Types of the remaining steps.                                           *)

LEMMA HandleApiTypes ==
  ASSUME TypeOK, HandleApi
  PROVE  TypeOK' /\ Head(queue).request \in Requests
         /\ (Head(queue).request.op = "read" => policy' \in Policies)
<1> DEFINE request == Head(queue).request
<1>1. queue # <<>> /\ Head(queue).type = "Api"
  BY DEF HandleApi, Received
<1>2. request \in Requests /\ Tail(queue) \in Seq(Message)
  BY <1>1, TakenTypes
<1>3. policy' \in Policies \cup {None} /\ (request.op = "read" => policy' \in Policies)
  BY DEF HandleApi, TypeOK
<1>4. StoreType
  BY TypeParts
<1>5. Reply(request, policy') \in ReplyType
  BY <1>2, <1>3, <1>4, ReplyTypes
<1>6. log' \in Seq(Row)
  <2>1. request.op = "submit" => request.row \in Row
    BY <1>2, RequestsAssumption DEF Request
  <2>2. log \in Seq(Row)
    BY DEF TypeOK
  <2>3. request.op = "submit" => Append(log, request.row) \in Seq(Row)
    BY <2>1, <2>2
  <2>4. QED
    BY <2>2, <2>3 DEF HandleApi
<1> HIDE DEF request
<1>7. response' = Reply(request, policy') /\ queue' = Tail(queue)
  BY DEF HandleApi, request
<1>8. StoreType' /\ QueueType'
  BY <1>2, <1>6, <1>7 DEF HandleApi, StoreType, QueueType, TypeOK
<1>9. ProcessType'
  BY <1>3, NextRoundType DEF HandleApi, ProcessType, TypeOK
<1>10. ApiType'
  BY <1>5, <1>7 DEF HandleApi, ApiType, TypeOK, Conn, Answer
<1>11. SamplerType'
  BY SameTypes DEF HandleApi, samplers, user
<1>12. QED
  BY <1>2, <1>3, <1>8, <1>9, <1>10, <1>11, TypeParts DEF request

LEMMA SubmitFailsTypes ==
  ASSUME TypeOK, SubmitFails
  PROVE  TypeOK'
<1>1. queue' \in Seq(Message)
  BY TakenTypes DEF SubmitFails, Received
<1>2. response' \in ReplyType
  BY DEF SubmitFails, ReplyType, Codes
<1>3. QueueType'
  BY <1>1 DEF SubmitFails, QueueType, TypeOK
<1>4. ApiType'
  BY <1>2 DEF SubmitFails, ApiType, TypeOK, Conn, Answer
<1>5. ProcessType'
  BY NextRoundType DEF SubmitFails, process, ProcessType, TypeOK
<1>6. StoreType' /\ SamplerType'
  BY SameTypes DEF SubmitFails, storage, samplers, user
<1>7. QED
  BY <1>3, <1>4, <1>5, <1>6, TypeParts

LEMMA CopiedTypes ==
  ASSUME TypeOK
  PROVE  /\ Len(copied) \in Nat
         /\ clip.seq \in 0 .. Len(copied) /\ clip.last \in 0 .. Len(copied)
         /\ \A i \in 1 .. Len(copied) : copied[i] \in Contents \cup Unrecorded
BY DEF TypeOK

LEMMA ClipboardTypes ==
  ASSUME TypeOK, ClipboardSequence \/ ClipboardSnapshot \/ ClipboardFails
  PROVE  TypeOK'
<1>0. StoreType' /\ ProcessType' /\ ApiType'
  BY SameTypes DEF ClipboardSequence, ClipboardSnapshot, ClipboardFails, storage, process,
                   loop, api
<1>1. clip \in [seq : 0 .. Len(copied), last : 0 .. Len(copied)] /\ Len(copied) \in Nat
  BY DEF TypeOK
<1>2. clip' \in [seq : 0 .. Len(copied), last : 0 .. Len(copied)]
  BY <1>1 DEF ClipboardSequence, ClipboardSnapshot, ClipboardFails
<1>3. UNCHANGED <<copied, world, noted>>
  BY DEF ClipboardSequence, ClipboardSnapshot, ClipboardFails, user
<1>4. SamplerType'
  BY <1>2, <1>3 DEF SamplerType, TypeOK
<1>5. QueueType'
  <2>1. CASE UNCHANGED <<queue, hand>>
    BY <2>1, SameTypes
  <2>2. CASE ~UNCHANGED <<queue, hand>>
    <3> DEFINE c == copied[Len(copied)]
               message == [type |-> "Clipboard", seq |-> clip.seq, content |-> c]
    <3>1. ClipboardSnapshot /\ Len(copied) = clip.seq /\ c \notin Unrecorded /\ clip.seq # 0
          /\ Send(message) /\ UNCHANGED hand
      BY <2>2 DEF ClipboardSequence, ClipboardSnapshot, ClipboardFails, loop,
             Unrecorded
    <3>2. c \in Contents
      BY <1>1, <3>1, CopiedTypes
    <3>3. message \in Message
      BY <1>1, <3>1, <3>2 DEF Message
    <3> HIDE DEF message
    <3>4. QED
      BY <3>1, <3>3, SendTypes
  <2>3. QED
    BY <2>1, <2>2
<1>6. QED
  BY <1>0, <1>4, <1>5, TypeParts

LEMMA ObserveTypes ==
  ASSUME TypeOK, NEW s \in Signals, NEW readable
  PROVE  Observe(s, readable) \in Seq(Message)
<1>1. PersonalRow(s) \in Row
  <2>1. <<>> \in Seq(ContentRef) /\ world[s] \in Nat
    BY DEF TypeOK
  <2>2. QED
    BY <2>1, CaptureAssumption
    DEF PersonalRow, Row, EventId, Signals, Sensitive, Metadata, Rank, Faults
<1>2. [type |-> "Personal", row |-> PersonalRow(s)] \in Message
  BY <1>1 DEF Message
<1>3. <<>> \in Seq(Message) /\ <<[type |-> "Personal", row |-> PersonalRow(s)]>> \in Seq(Message)
  BY <1>2
<1>4. QED
  BY <1>3 DEF Observe

LEMMA PersonalTypes ==
  ASSUME TypeOK, PersonalSample
  PROVE  TypeOK'
<1>1. PICK readable \in SUBSET Signals : Poll(readable)
  BY DEF PersonalSample
<1>2. noted' \in [Signals -> {None, 0, 1}]
  BY <1>1 DEF Poll, TypeOK
<1>3. queue' \in Seq(Message)
  <2>1. /\ Observe("foreground", readable) \in Seq(Message)
        /\ Observe("idle", readable) \in Seq(Message)
    BY ObserveTypes DEF Signals
  <2>2. queue \in Seq(Message)
    BY DEF TypeOK
  <2>3. queue \o Observe("foreground", readable) \in Seq(Message)
    BY <2>1, <2>2
  <2>4. (queue \o Observe("foreground", readable)) \o Observe("idle", readable) \in Seq(Message)
    BY <2>1, <2>3
  <2>5. QED
    BY <1>1, <2>4 DEF Poll
<1>4. QueueType'
  BY <1>3 DEF PersonalSample, QueueType, TypeOK
<1>5. SamplerType'
  BY <1>2 DEF PersonalSample, user, SamplerType, TypeOK
<1>6. StoreType' /\ ProcessType' /\ ApiType'
  BY SameTypes DEF PersonalSample, storage, process, api
<1>7. QED
  BY <1>4, <1>5, <1>6, TypeParts

LEMMA ApiTypes ==
  ASSUME TypeOK,
         ReadFrame \/ WriteFrame \/ Rebind \/ AcceptFails \/ ClientWrites \/ ClientLeaves
           \/ WatcherFails \/ \E request \in Requests : Accept(request)
  PROVE  TypeOK'
<1>0. StoreType' /\ ProcessType' /\ SamplerType'
  BY SameTypes DEF ReadFrame, WriteFrame, Rebind, AcceptFails, ClientWrites, ClientLeaves,
                   WatcherFails, Accept, storage, process, loop, samplers, user
<1>f. [type |-> "Fatal"] \in Message
  BY DEF Message
<1>a. ApiType
  BY TypeParts
<1>1. QueueType'
  <2>1. CASE UNCHANGED <<queue, hand>>
    BY <2>1, SameTypes
  <2>2. CASE ReadFrame /\ ~UNCHANGED <<queue, hand>>
    <3>1. conn.phase = "sent" /\ conn # None /\ UNCHANGED hand
          /\ Send([type |-> "Api", request |-> conn.request])
      BY <2>2, <1>a DEF ReadFrame, ApiType
    <3>2. conn.request \in Requests
      BY <1>a, <3>1 DEF ApiType, Conn
    <3>3. [type |-> "Api", request |-> conn.request] \in Message
      BY <3>2 DEF Message
    <3>4. QED
      BY <3>1, <3>3, SendTypes
  <2>3. CASE Rebind \/ AcceptFails \/ WatcherFails
    <3>1. UNCHANGED hand
      BY <2>3 DEF Rebind, AcceptFails, WatcherFails
    <3>2. Send([type |-> "Fatal"]) \/ UNCHANGED queue
      BY <2>3 DEF Rebind, AcceptFails, WatcherFails
    <3>3. QED
      BY <1>f, <2>1, <3>1, <3>2, SendTypes
  <2>4. CASE WriteFrame \/ ClientWrites \/ ClientLeaves \/ \E request \in Requests : Accept(request)
    BY <2>1, <2>4 DEF WriteFrame, ClientWrites, ClientLeaves, Accept, loop
  <2>5. QED
    BY <2>1, <2>2, <2>3, <2>4
<1>2. ApiType'
  <2>1. CASE ReadFrame
    BY <1>a, <2>1 DEF ReadFrame, ApiType
  <2>2. CASE WriteFrame
    <3>1. conn \in Conn /\ response \in ReplyType
      BY <1>a, <2>2 DEF WriteFrame, ApiType
    <3>2. [request |-> conn.request, policy |-> policy, reply |-> response] \in Answer
      BY <3>1 DEF Conn, Answer, TypeOK
    <3>3. answer' \in Answer \cup {None}
      BY <1>a, <2>2, <3>2 DEF WriteFrame, ApiType
    <3>4. QED
      BY <2>2, <3>3 DEF WriteFrame, ApiType
  <2>3. CASE Rebind \/ AcceptFails \/ WatcherFails
    BY <1>a, <2>3 DEF Rebind, AcceptFails, WatcherFails, ApiType, api
  <2>4. CASE ClientWrites \/ ClientLeaves
    <3>1. conn \in Conn
      BY <1>a, <2>4 DEF ClientWrites, ClientLeaves, ApiType
    <3>2. conn' \in Conn
      BY <2>4, <3>1 DEF ClientWrites, ClientLeaves, Conn, Phases
    <3>3. conn' # None
      BY <3>2, NoneAssumption DEF Conn
    <3>4. QED
      BY <1>a, <2>4, <3>1, <3>2, <3>3 DEF ClientWrites, ClientLeaves, ApiType
  <2>5. ASSUME NEW request \in Requests, Accept(request)
        PROVE  ApiType'
    <3>1. conn' \in Conn
      BY <2>5 DEF Accept, Conn, Phases
    <3>2. conn' # None
      BY <3>1, NoneAssumption DEF Conn
    <3>3. QED
      BY <1>a, <2>5, <3>1, <3>2 DEF Accept, ApiType
  <2>6. QED
    BY <2>1, <2>2, <2>3, <2>4, <2>5
<1>3. QED
  BY <1>0, <1>1, <1>2, TypeParts

LEMMA OutsideTypes ==
  ASSUME TypeOK,
         Start \/ Cancel \/ Damage \/ OtherServer \/ (\E s \in Signals : Act(s))
           \/ \E content \in (Contents \ NotUtf8) \cup Unrecorded : Copy(content)
  PROVE  TypeOK'
<1>a. ApiType
  BY TypeParts
<1>1. CASE Start
  <2>1. ProcessType' /\ ApiType'
    BY <1>1, <1>a DEF Start, ProcessType, ApiType, TypeOK, loop
  <2>2. StoreType' /\ QueueType' /\ SamplerType'
    BY <1>1, SameTypes DEF Start, storage, loop, samplers, user
  <2>3. QED
    BY <2>1, <2>2, TypeParts
<1>2. CASE Cancel
  <2>1. ProcessType'
    BY <1>2 DEF Cancel, ProcessType, TypeOK, loop
  <2>2. StoreType' /\ QueueType' /\ SamplerType' /\ ApiType'
    BY <1>2, SameTypes DEF Cancel, storage, loop, samplers, user, api
  <2>3. QED
    BY <2>1, <2>2, TypeParts
<1>3. CASE Damage
  <2>1. StoreType'
    BY <1>3 DEF Damage, StoreType, Vault, TypeOK
  <2>2. ProcessType' /\ QueueType' /\ SamplerType' /\ ApiType'
    BY <1>3, SameTypes DEF Damage, process, loop, samplers, user, api
  <2>3. QED
    BY <2>1, <2>2, TypeParts
<1>4. CASE OtherServer
  <2>1. ApiType'
    BY <1>4, <1>a DEF OtherServer, ApiType
  <2>2. StoreType' /\ ProcessType' /\ QueueType' /\ SamplerType'
    BY <1>4, SameTypes DEF OtherServer, storage, process, loop, samplers, user
  <2>3. QED
    BY <2>1, <2>2, TypeParts
<1>5. ASSUME NEW s \in Signals, Act(s)
      PROVE  TypeOK'
  <2>1. world' \in [Signals -> 0 .. 1]
    BY <1>5 DEF Act, TypeOK
  <2>2. SamplerType'
    BY <1>5, <2>1 DEF Act, samplers, SamplerType, TypeOK
  <2>3. StoreType' /\ ProcessType' /\ QueueType' /\ ApiType'
    BY <1>5, SameTypes DEF Act, storage, process, loop, api
  <2>4. QED
    BY <2>2, <2>3, TypeParts
<1>6. ASSUME NEW content \in (Contents \ NotUtf8) \cup Unrecorded, Copy(content)
      PROVE  TypeOK'
  <2>1. copied \in Seq(Contents \cup Unrecorded) /\ content \in Contents \cup Unrecorded
        /\ copied' = Append(copied, content)
    BY <1>6 DEF Copy, TypeOK
  <2>2. copied' \in Seq(Contents \cup Unrecorded) /\ Len(copied') = Len(copied) + 1
        /\ Len(copied) \in Nat
    BY <2>1
  <2>3. clip' \in [seq : 0 .. Len(copied'), last : 0 .. Len(copied')]
    BY <1>6, <2>2 DEF Copy, samplers, TypeOK
  <2>4. SamplerType'
    BY <1>6, <2>2, <2>3 DEF Copy, samplers, SamplerType, TypeOK
  <2>5. StoreType' /\ ProcessType' /\ QueueType' /\ ApiType'
    BY <1>6, SameTypes DEF Copy, storage, process, loop, api
  <2>6. QED
    BY <2>4, <2>5, TypeParts
<1>7. QED
  BY <1>1, <1>2, <1>3, <1>4, <1>5, <1>6

(* Every variable keeps its type, and the connection, the API thread and   *)
(* the owner of the pipe's name go together.                               *)
THEOREM TypeCorrect == Spec => []TypeOK
<1>1. Init => TypeOK
  <2>0. <<>> \in Seq(Message) /\ <<>> \in Seq(Contents \cup Unrecorded)
    OBVIOUS
  <2>1. Init => StoreType /\ ProcessType
    BY RequestsAssumption, PoliciesAssumption DEF Init, StoreType, ProcessType, Vault
  <2>2. Init => queue \in Seq(Message) /\ copied \in Seq(Contents \cup Unrecorded)
                /\ Len(copied) = 0
    BY <2>0 DEF Init
  <2>3. Init => QueueType /\ SamplerType
    BY <2>2 DEF Init, QueueType, SamplerType, Idle, Unnoted
  <2>4. Init => ApiType
    BY DEF Init, ApiType
  <2>5. QED
    BY <2>1, <2>3, <2>4, TypeParts
<1>2. TypeOK /\ [Next]_vars => TypeOK'
  <2>1. TypeOK /\ UNCHANGED vars => TypeOK'
    BY SameTypes, TypeParts DEF vars, storage, process, loop, samplers, user, api
  <2>2. QED
    BY <2>1, ExitSteps, LoopTypes, HandleApiTypes, SubmitFailsTypes, ClipboardTypes,
       PersonalTypes, ApiTypes, OutsideTypes DEF Next, EventLoop, Api
<1>3. QED
  BY <1>1, <1>2, PTL DEF Spec

-----------------------------------------------------------------------------
(* Answers are true.                                                       *)

LEMMA Appended ==
  ASSUME NEW q \in Seq(Message), NEW message \in Message
  PROVE  /\ message.type # "Api" =>
              /\ Silent(q) => Silent(Append(q, message))
              /\ ~Silent(Append(q, message)) => ~Silent(q)
              /\ \A request : Asks(q, request) => Asks(Append(q, message), request)
         /\ message.type = "Api" /\ Silent(q) => Asks(Append(q, message), message.request)
<1> DEFINE p == Append(q, message)
<1>1. /\ DOMAIN p = 1 .. Len(q) + 1 /\ DOMAIN q = 1 .. Len(q) /\ Len(q) \in Nat
      /\ p[Len(q) + 1] = message /\ \A i \in 1 .. Len(q) : p[i] = q[i]
  OBVIOUS
<1> HIDE DEF p
<1>2. \A i \in DOMAIN p :
        (i \in DOMAIN q /\ p[i] = q[i]) \/ (i = Len(q) + 1 /\ p[i] = message)
  BY <1>1
<1>3. QED
  BY <1>1, <1>2 DEF Silent, Asks, p

LEMMA Taken ==
  ASSUME NEW q \in Seq(Message), q # <<>>
  PROVE  /\ Silent(q) => Silent(Tail(q))
         /\ \A request : Asks(q, request) =>
              /\ Asks(Tail(q), request)
              /\ Head(q).type = "Api" => Silent(Tail(q)) /\ Head(q).request = request
<1> DEFINE p == Tail(q)
<1>1. /\ DOMAIN p = 1 .. Len(q) - 1 /\ DOMAIN q = 1 .. Len(q) /\ Len(q) \in Nat
      /\ Head(q) = q[1] /\ Len(q) >= 1 /\ \A i \in DOMAIN p : p[i] = q[i + 1]
  OBVIOUS
<1> HIDE DEF p
<1>2. \A i \in DOMAIN p : i + 1 \in DOMAIN q /\ p[i] = q[i + 1] /\ i + 1 # 1
  BY <1>1
<1>3. 1 \in DOMAIN q /\ \A i, j \in DOMAIN p : i + 1 = j + 1 => i = j
  BY <1>1
<1>4. Silent(q) => Silent(p)
  BY <1>2 DEF Silent
<1>5. ASSUME NEW request, Asks(q, request)
      PROVE  /\ Asks(p, request)
             /\ Head(q).type = "Api" => Silent(p) /\ Head(q).request = request
  BY <1>1, <1>2, <1>3, <1>5 DEF Silent, Asks
<1>6. QED
  BY <1>4, <1>5 DEF p

(* From q to p no message for the API came.                                *)
Calm(q, p) ==
  /\ Silent(q) => Silent(p)
  /\ \A request : Asks(q, request) => Asks(p, request)

(* What an answer says stays true while the log grows.                     *)
LEMMA StaysTrue ==
  ASSUME NEW rows, NEW more, rows \subseteq more, NEW request, NEW pol, NEW reply,
         ReplyTrue(rows, request, pol, reply)
  PROVE  ReplyTrue(more, request, pol, reply)
<1>1. \A id : Shown(rows, pol, id) => Shown(more, pol, id)
  BY DEF Shown
<1>2. QED
  BY <1>1 DEF ReplyTrue

LEMMA DialogueKept ==
  ASSUME Dialogue, Calm(queue, queue'), Rows \subseteq Rows', UNCHANGED response,
         \/ ipc # "waiting"
         \/ UNCHANGED <<ipc, policy>> /\ conn'.request = conn.request
  PROVE  Dialogue'
<1>1. CASE ipc # "waiting"
  <2>1. Silent(queue) /\ response = None
    BY <1>1 DEF Dialogue
  <2>2. Silent(queue')
    BY <2>1 DEF Calm
  <2>3. QED
    BY <2>1, <2>2 DEF Dialogue
<1>2. CASE UNCHANGED <<ipc, policy>> /\ conn'.request = conn.request
  <2>1. ~Silent(queue') =>
          ipc' = "waiting" /\ response' = None /\ Asks(queue', conn'.request)
    BY <1>2 DEF Dialogue, Calm
  <2>2. response' # None => ReplyTrue(Rows', conn'.request, policy', response')
    BY <1>2, StaysTrue DEF Dialogue
  <2>3. response' # None => ipc' = "waiting"
    BY <1>2 DEF Dialogue
  <2>4. QED
    BY <2>1, <2>2, <2>3 DEF Dialogue
<1>3. QED
  BY <1>1, <1>2

LEMMA AnswersKept ==
  ASSUME AnswersTrue, Rows \subseteq Rows', UNCHANGED answer
  PROVE  AnswersTrue'
BY StaysTrue DEF AnswersTrue

(* The log only grows.                                                     *)
LEMMA LogGrows ==
  ASSUME TypeOK, UNCHANGED log \/ \E row \in Row : log' = Append(log, row)
  PROVE  Rows \subseteq Rows'
<1>0. log \in Seq(Row)
  BY DEF TypeOK
<1>1. CASE UNCHANGED log
  BY <1>1 DEF Rows
<1>2. ASSUME NEW row \in Row, log' = Append(log, row)
      PROVE  Rows \subseteq Rows'
  <2>1. \A i \in DOMAIN log : i \in DOMAIN log' /\ log'[i] = log[i]
    BY <1>0, <1>2
  <2>2. QED
    BY <2>1 DEF Rows
<1>3. QED
  BY <1>1, <1>2

LEMMA IngestGrows ==
  ASSUME TypeOK, NEW row \in Row, IngestV2(row)
  PROVE  \E r \in Row : log' = Append(log, r)
<1>1. Len(log) + 1 \in Nat
  BY DEF TypeOK
<1>2. [row EXCEPT !.id.n = Len(log) + 1] \in Row
  BY <1>1 DEF Row, EventId
<1>3. QED
  BY <1>2 DEF IngestV2

LEMMA DialogueStays ==
  ASSUME TypeOK, Dialogue, AnswersTrue, UNCHANGED vars
  PROVE  Dialogue' /\ AnswersTrue'
BY DEF vars, storage, process, loop, samplers, user, api, Dialogue, AnswersTrue, Rows

LEMMA CalmSteps ==
  ASSUME TypeOK
  PROVE  /\ UNCHANGED queue => Calm(queue, queue')
         /\ queue # <<>> /\ queue' = Tail(queue) => Calm(queue, queue')
         /\ \A message \in Message : message.type # "Api" /\ Send(message) => Calm(queue, queue')
<1>0. queue \in Seq(Message)
  BY DEF TypeOK
<1>1. UNCHANGED queue => Calm(queue, queue')
  BY DEF Calm
<1>2. queue # <<>> /\ queue' = Tail(queue) => Calm(queue, queue')
  BY <1>0, Taken DEF Calm
<1>3. ASSUME NEW message \in Message, message.type # "Api", Send(message)
      PROVE  Calm(queue, queue')
  BY <1>0, <1>3, Appended DEF Calm, Send
<1>4. QED
  BY <1>1, <1>2, <1>3

(* One poll adds no message for the API.                                   *)
LEMMA CalmPoll ==
  ASSUME TypeOK, PersonalSample
  PROVE  Calm(queue, queue')
<1>1. PICK readable \in SUBSET Signals : Poll(readable)
  BY DEF PersonalSample
<1>2. ASSUME NEW q \in Seq(Message), NEW s \in Signals
      PROVE  /\ q \o Observe(s, readable) \in Seq(Message)
             /\ Calm(q, q \o Observe(s, readable))
  <2> DEFINE message == [type |-> "Personal", row |-> PersonalRow(s)]
  <2>1. CASE Observe(s, readable) = <<>>
    <3>1. q \o Observe(s, readable) = q
      BY <2>1
    <3>2. QED
      BY <3>1 DEF Calm
  <2>2. CASE Observe(s, readable) = <<message>>
    <3>1. Observe(s, readable) \in Seq(Message)
      BY ObserveTypes
    <3>2. message \in Message /\ message.type # "Api"
      <4>1. message = Observe(s, readable)[1] /\ 1 \in DOMAIN Observe(s, readable)
        BY <2>2
      <4>2. message \in Message
        BY <3>1, <4>1
      <4>3. QED
        BY <4>2
    <3> HIDE DEF message
    <3>3. q \o Observe(s, readable) = Append(q, message)
      BY <2>2
    <3>4. QED
      BY <3>2, <3>3, Appended DEF Calm
  <2>3. QED
    BY <2>1, <2>2 DEF Observe
<1>3. queue \in Seq(Message) /\ {"foreground", "idle"} \subseteq Signals
  BY DEF TypeOK, Signals
<1>4. /\ queue \o Observe("foreground", readable) \in Seq(Message)
      /\ Calm(queue, queue \o Observe("foreground", readable))
  BY <1>2, <1>3
<1>5. Calm(queue \o Observe("foreground", readable),
           (queue \o Observe("foreground", readable)) \o Observe("idle", readable))
  BY <1>2, <1>3, <1>4
<1>6. queue' = (queue \o Observe("foreground", readable)) \o Observe("idle", readable)
  BY <1>1 DEF Poll
<1>7. QED
  BY <1>4, <1>5, <1>6 DEF Calm

(* The steps in which the loop and the API thread do not meet.             *)
LEMMA ApartDialogue ==
  ASSUME TypeOK, Dialogue, AnswersTrue,
         \/ HandlePersonal \/ HandleClipboard \/ IngestClipboard
         \/ ClipboardSequence \/ ClipboardSnapshot \/ ClipboardFails \/ PersonalSample
         \/ WatcherFails \/ Cancel \/ Damage \/ OtherServer
         \/ (\E s \in Signals : Act(s))
         \/ \E content \in (Contents \ NotUtf8) \cup Unrecorded : Copy(content)
  PROVE  Dialogue' /\ AnswersTrue'
<1>1. UNCHANGED <<ipc, policy, conn, response, answer>>
  BY DEF HandlePersonal, HandleClipboard, IngestClipboard, ClipboardSequence,
         ClipboardSnapshot, ClipboardFails, PersonalSample, WatcherFails, Cancel, Damage,
         OtherServer, Act, Copy, process, api
<1>2. Rows \subseteq Rows'
  <2>1. CASE HandlePersonal
    <3>1. Head(queue).row \in Row
      BY <2>1, TakenTypes DEF HandlePersonal, Received
    <3>2. QED
      BY <2>1, <3>1, IngestGrows, LogGrows DEF HandlePersonal
  <2>2. CASE IngestClipboard
    BY <2>2, IngestGrows, LogGrows DEF IngestClipboard, TypeOK
  <2>3. CASE ~HandlePersonal /\ ~IngestClipboard
    <3>1. UNCHANGED log
      BY <2>3 DEF HandleClipboard, ClipboardSequence, ClipboardSnapshot, ClipboardFails,
                  PersonalSample, WatcherFails, Cancel, Damage, OtherServer, Act, Copy, storage
    <3>2. QED
      BY <3>1, LogGrows
  <2>4. QED
    BY <2>1, <2>2, <2>3
<1>3. Calm(queue, queue')
  <2>1. CASE HandlePersonal \/ HandleClipboard
    BY <2>1, CalmSteps DEF HandlePersonal, HandleClipboard, Received
  <2>2. CASE ClipboardSnapshot
    <3> DEFINE c == copied[Len(copied)]
               message == [type |-> "Clipboard", seq |-> clip.seq, content |-> c]
    <3>1. UNCHANGED queue \/ (Send(message) /\ c \notin Unrecorded /\ clip.seq # 0
                               /\ Len(copied) = clip.seq)
      BY <2>2 DEF ClipboardSnapshot, Unrecorded
    <3>2. c \notin Unrecorded /\ clip.seq # 0 /\ Len(copied) = clip.seq =>
            c \in Contents /\ clip.seq \in Nat
      BY CopiedTypes
    <3>3. c \notin Unrecorded /\ clip.seq # 0 /\ Len(copied) = clip.seq => message \in Message
      BY <3>2 DEF Message
    <3>4. message.type # "Api"
      OBVIOUS
    <3> HIDE DEF message
    <3>5. QED
      BY <3>1, <3>3, <3>4, CalmSteps
  <2>3. CASE PersonalSample
    BY <2>3, CalmPoll
  <2>4. CASE WatcherFails
    <3>1. [type |-> "Fatal"] \in Message /\ [type |-> "Fatal"].type # "Api"
      BY DEF Message
    <3>2. QED
      BY <2>4, <3>1, CalmSteps DEF WatcherFails
  <2>5. CASE ~(HandlePersonal \/ HandleClipboard \/ ClipboardSnapshot \/ PersonalSample
               \/ WatcherFails)
    <3>1. UNCHANGED queue
      BY <2>5 DEF IngestClipboard, ClipboardSequence, ClipboardFails, Cancel, Damage,
                  OtherServer, Act, Copy, loop
    <3>2. QED
      BY <3>1, CalmSteps
  <2>6. QED
    BY <2>1, <2>2, <2>3, <2>4, <2>5
<1>4. QED
  BY <1>1, <1>2, <1>3, DialogueKept, AnswersKept

(* The process ends with its threads and its connection.                   *)
LEMMA ExitDialogue ==
  ASSUME TypeOK, AnswersTrue, LoopStops \/ LoopFails \/ CaptureFails \/ Crash
  PROVE  Dialogue' /\ AnswersTrue'
<1>1. queue' = <<>> /\ response' = None /\ UNCHANGED <<log, answer>>
  BY DEF LoopStops, LoopFails, CaptureFails, Crash, Exit, storage
<1>2. Silent(queue')
  BY <1>1 DEF Silent
<1>3. QED
  BY <1>1, <1>2, LogGrows, AnswersKept DEF Dialogue

(* The API thread where it has no request with the loop, and the client.   *)
LEMMA IdleDialogue ==
  ASSUME TypeOK, Dialogue, AnswersTrue,
         Rebind \/ AcceptFails \/ Start \/ ClientWrites \/ ClientLeaves
           \/ \E request \in Requests : Accept(request)
  PROVE  Dialogue' /\ AnswersTrue'
<1>1. UNCHANGED <<log, policy, response, answer>>
  BY DEF Rebind, AcceptFails, Start, ClientWrites, ClientLeaves, Accept, storage, process
<1>2. ipc # "waiting" \/ (UNCHANGED ipc /\ conn'.request = conn.request)
  <2>1. CASE ClientWrites \/ ClientLeaves
    <3>1. conn \in Conn /\ UNCHANGED ipc
      BY <2>1 DEF ClientWrites, ClientLeaves, TypeOK, Conn
    <3>2. QED
      BY <2>1, <3>1 DEF ClientWrites, ClientLeaves, Conn
  <2>2. CASE ~(ClientWrites \/ ClientLeaves)
    BY <2>2 DEF Rebind, AcceptFails, Start, Accept, TypeOK
  <2>3. QED
    BY <2>1, <2>2
<1>3. Calm(queue, queue')
  <2>1. UNCHANGED queue \/ Send([type |-> "Fatal"])
    BY DEF Rebind, AcceptFails, Start, ClientWrites, ClientLeaves, Accept, loop
  <2>2. [type |-> "Fatal"] \in Message /\ [type |-> "Fatal"].type # "Api"
    BY DEF Message
  <2>3. QED
    BY <2>1, <2>2, CalmSteps
<1>4. QED
  BY <1>1, <1>2, <1>3, LogGrows, DialogueKept, AnswersKept

LEMMA ReadFrameDialogue ==
  ASSUME TypeOK, Dialogue, AnswersTrue, ReadFrame
  PROVE  Dialogue' /\ AnswersTrue'
<1>1. UNCHANGED <<log, response, answer, policy>> /\ ipc = "reading"
  BY DEF ReadFrame, storage, process
<1>2. AnswersTrue'
  BY <1>1, LogGrows, AnswersKept
<1>3. Silent(queue) /\ response = None
  BY <1>1 DEF Dialogue
<1>4. CASE conn.phase = "sent"
  <2> DEFINE message == [type |-> "Api", request |-> conn.request]
  <2>1. UNCHANGED conn /\ Send(message) /\ ipc' = "waiting"
    BY <1>4 DEF ReadFrame
  <2>2. conn \in Conn /\ queue \in Seq(Message)
    BY <1>1 DEF TypeOK, Conn
  <2>3. message \in Message
    BY <2>2 DEF Message, Conn
  <2>4. message.type = "Api" /\ message.request = conn.request
    OBVIOUS
  <2> HIDE DEF message
  <2>5. Asks(queue', conn.request)
    BY <1>3, <2>1, <2>2, <2>3, <2>4, Appended DEF Send
  <2>6. QED
    BY <1>1, <1>2, <1>3, <2>1, <2>5 DEF Dialogue
<1>5. CASE conn.phase # "sent"
  <2>1. UNCHANGED queue
    BY <1>5 DEF ReadFrame
  <2>2. QED
    BY <1>1, <1>2, <1>3, <2>1 DEF Dialogue
<1>6. QED
  BY <1>4, <1>5

LEMMA WriteFrameDialogue ==
  ASSUME TypeOK, Dialogue, AnswersTrue, WriteFrame
  PROVE  Dialogue' /\ AnswersTrue'
<1>1. UNCHANGED <<log, queue, policy>> /\ response # None /\ response' = None
  BY DEF WriteFrame, storage, process, loop
<1>2. Silent(queue) /\ ReplyTrue(Rows, conn.request, policy, response)
  BY <1>1 DEF Dialogue
<1>3. Dialogue'
  BY <1>1, <1>2 DEF Dialogue
<1>4. Rows' = Rows
  BY <1>1 DEF Rows
<1>5. CASE conn.phase = "gone"
  BY <1>4, <1>5, <1>3, AnswersKept DEF WriteFrame
<1>6. CASE conn.phase # "gone"
  <2>1. answer' = [request |-> conn.request, policy |-> policy, reply |-> response]
    BY <1>6 DEF WriteFrame
  <2>2. answer'.request = conn.request /\ answer'.policy = policy /\ answer'.reply = response
    BY <2>1
  <2>3. ReplyTrue(Rows', answer'.request, answer'.policy, answer'.reply)
    BY <1>2, <1>4, <2>2
  <2>4. QED
    BY <1>3, <2>3 DEF AnswersTrue
<1>7. QED
  BY <1>5, <1>6

(* The loop takes the request of the connection and answers it: the reply  *)
(* is true of the rows as they are now, with the submitted one.            *)
LEMMA HandleDialogue ==
  ASSUME TypeOK, Dialogue, AnswersTrue, HandleApi \/ SubmitFails
  PROVE  Dialogue' /\ AnswersTrue'
<1> DEFINE request == Head(queue).request
<1>1. /\ queue # <<>> /\ Head(queue).type = "Api" /\ queue' = Tail(queue)
      /\ UNCHANGED <<ipc, conn, answer>>
  BY DEF HandleApi, SubmitFails, Received
<1>2. queue \in Seq(Message) /\ request \in Requests
  BY <1>1, TakenTypes DEF TypeOK
<1>3. ~Silent(queue)
  <2>1. 1 \in DOMAIN queue /\ queue[1] = Head(queue)
    BY <1>1, <1>2
  <2>2. QED
    BY <1>1, <2>1 DEF Silent
<1>4. ipc = "waiting" /\ Asks(queue, conn.request)
  BY <1>3 DEF Dialogue
<1>5. Silent(queue') /\ request = conn.request
  BY <1>1, <1>2, <1>4, Taken
<1> HIDE DEF request
<1>6. Rows \subseteq Rows' /\ (HandleApi /\ request.op = "read" => UNCHANGED log)
  <2>1. request.op = "submit" => request.row \in Row
    BY <1>2, RequestsAssumption DEF Request
  <2>2. UNCHANGED log \/ (request.op = "submit" /\ log' = Append(log, request.row))
    BY DEF HandleApi, SubmitFails, storage, request
  <2>3. QED
    BY <2>1, <2>2, LogGrows
<1>7. ReplyTrue(Rows', request, policy', response')
  <2>1. CASE SubmitFails
    <3>1. response' = [code |-> "ingest_failed", text |-> None] /\ request.op = "submit"
      BY <2>1 DEF SubmitFails, request
    <3>2. QED
      BY <3>1 DEF ReplyTrue
  <2>2. CASE HandleApi
    <3>1. response' = Reply(request, policy')
      BY <2>2 DEF HandleApi, request
    <3>2. CASE request.op = "read"
      <4>1. policy' \in Policies /\ StoreType
        BY <2>2, <3>2, HandleApiTypes, TypeParts DEF request
      <4>2. ReplyTrue(Rows, request, policy', Reply(request, policy'))
        BY <1>2, <3>2, <4>1, ReadIsTrue
      <4>3. QED
        BY <1>6, <3>1, <4>2, StaysTrue
    <3>3. CASE request.op = "submit"
      <4>1. response' = [code |-> "accepted", text |-> None]
        BY <1>2, <3>1, <3>3, OtherReplies
      <4>2. \E row \in Rows' : row.id = request.row.id
        <5>1. CASE Known(request.row)
          BY <1>6, <5>1 DEF Known
        <5>2. CASE ~Known(request.row)
          <6>1. log' = Append(log, request.row) /\ log \in Seq(Row)
            BY <2>2, <3>3, <5>2 DEF HandleApi, request, TypeOK
          <6>2. Len(log) + 1 \in DOMAIN log' /\ log'[Len(log) + 1] = request.row
            BY <6>1
          <6>3. QED
            BY <6>2 DEF Rows
        <5>3. QED
          BY <5>1, <5>2
      <4>3. QED
        BY <3>3, <4>1, <4>2 DEF ReplyTrue
    <3>4. CASE request.op \in {"handshake", "unsupported"}
      <4>1. response'.code \in {"ready", "unsupported_protocol"}
        BY <1>2, <3>1, <3>4, OtherReplies
      <4>2. QED
        BY <3>4, <4>1 DEF ReplyTrue
    <3>5. QED
      BY <1>2, <3>2, <3>3, <3>4, OtherReplies
  <2>3. QED
    BY <2>1, <2>2
<1>8. Dialogue'
  BY <1>1, <1>4, <1>5, <1>7 DEF Dialogue
<1>9. QED
  BY <1>1, <1>6, <1>8, AnswersKept

(* An answer is true of what is stored, also when the agent died right     *)
(* after it: an accepted event is in the log, a text is the one whose      *)
(* digest the event carries and the policy in force grants, and what the   *)
(* policy does not show is refused alike.                                  *)
THEOREM AnswersAreTrue == Spec => []AnswersTrue
<1>1. Init => Dialogue /\ AnswersTrue
  BY DEF Init, Dialogue, AnswersTrue, Silent
<1>2. TypeOK /\ Dialogue /\ AnswersTrue /\ [Next]_vars => Dialogue' /\ AnswersTrue'
  BY DialogueStays, ExitDialogue, ApartDialogue, IdleDialogue, ReadFrameDialogue,
     WriteFrameDialogue, HandleDialogue DEF Next, EventLoop, Api
<1>3. QED
  BY <1>1, <1>2, TypeCorrect, PTL DEF Spec

-----------------------------------------------------------------------------
(* What was captured can be read.                                          *)

(* What a step may do to the files and to the clipboard's history.         *)
FilesKept ==
  \A c \in Contents \ faulted' :
    vault'[c] = c \/ (c \notin faulted /\ vault'[c] = vault[c])

CopiesKept ==
  \A i \in DOMAIN copied : i \in DOMAIN copied' /\ copied'[i] = copied[i]

LEMMA FilesStep ==
  ASSUME TypeOK, Files, Next \/ UNCHANGED vars
  PROVE  FilesKept
<1>1. CASE UNCHANGED <<vault, faulted>>
  BY <1>1 DEF FilesKept
<1>2. CASE HandleClipboard
  <2> DEFINE content == Head(queue).content
  <2>1. CASE content \in Oversized
    BY <1>1, <1>2, <2>1 DEF HandleClipboard
  <2>2. CASE content \notin Oversized
    <3>1. /\ vault' = PutBytes(vault, content)
          /\ faulted' = {c \in faulted : c # content \/ vault[c] # Missing}
      BY <1>2, <2>2 DEF HandleClipboard
    <3>2. vault \in Vault
      BY DEF TypeOK
    <3> HIDE DEF content
    <3>3. ASSUME NEW c \in Contents, c \notin faulted'
          PROVE  vault'[c] = c \/ (c \notin faulted /\ vault'[c] = vault[c])
      <4>1. vault'[c] = IF c = content /\ vault[c] = Missing THEN c ELSE vault[c]
        BY <3>1, <3>2 DEF PutBytes, Vault
      <4>2. c \in faulted => c = content /\ vault[c] = Missing
        BY <3>1, <3>3
      <4>3. QED
        BY <4>1, <4>2
    <3>4. QED
      BY <3>3 DEF FilesKept
  <2>3. QED
    BY <2>1, <2>2
<1>3. CASE Crash
  BY <1>3 DEF Crash, FilesKept
<1>4. CASE Damage
  <2>1. PICK d \in Contents, other \in Contents \cup {NotRegular} :
          vault' = [vault EXCEPT ![d] = other] /\ faulted' = faulted \cup {d}
    BY <1>4 DEF Damage
  <2>2. vault \in Vault
    BY DEF TypeOK
  <2>3. QED
    BY <2>1, <2>2 DEF FilesKept, Vault
<1>5. CASE ~(HandleClipboard \/ Crash \/ Damage)
  <2>1. UNCHANGED <<vault, faulted>>
    BY <1>5 DEF Next, EventLoop, Api, vars, LoopStops, LoopFails, HandlePersonal,
       IngestClipboard, HandleApi, CaptureFails, SubmitFails, ClipboardSequence,
       ClipboardSnapshot, ClipboardFails, PersonalSample, WatcherFails, ReadFrame, WriteFrame,
       Rebind, AcceptFails, ClientWrites, ClientLeaves, Start, Cancel, OtherServer, Accept,
       Copy, Act, storage
  <2>2. QED
    BY <1>1, <2>1
<1>6. QED
  BY <1>2, <1>3, <1>4, <1>5

LEMMA FilesMove ==
  ASSUME Files, FilesKept
  PROVE  Files'
BY DEF Files, FilesKept

LEMMA CopiesStep ==
  ASSUME Texts, Next \/ UNCHANGED vars
  PROVE  CopiesKept /\ Texts'
<1>1. CASE UNCHANGED copied
  BY <1>1 DEF CopiesKept, Texts
<1>2. ASSUME NEW content \in (Contents \ NotUtf8) \cup Unrecorded, Copy(content)
      PROVE  CopiesKept /\ Texts'
  <2>1. copied' = Append(copied, content)
    BY <1>2 DEF Copy
  <2>2. QED
    BY <2>1 DEF CopiesKept, Texts
<1>3. CASE ~\E content \in (Contents \ NotUtf8) \cup Unrecorded : Copy(content)
  <2>1. UNCHANGED copied
    BY <1>3 DEF Next, EventLoop, Api, vars, LoopStops, LoopFails, HandlePersonal,
       HandleClipboard, IngestClipboard, HandleApi, CaptureFails, SubmitFails,
       ClipboardSequence, ClipboardSnapshot, ClipboardFails, PersonalSample, WatcherFails,
       ReadFrame, WriteFrame, Rebind, AcceptFails, ClientWrites, ClientLeaves, Start, Cancel,
       Crash, Damage, OtherServer, Accept, Act, user
  <2>2. QED
    BY <1>1, <2>1
<1>4. QED
  BY <1>2, <1>3

(* An event of the clipboard stays one, whatever happens to the vault.     *)
LEMMA RowKept ==
  ASSUME Texts, FilesKept, CopiesKept, NEW row,
         OfClipboard(copied, row), Kept(vault, faulted, copied, row)
  PROVE  OfClipboard(copied', row) /\ Kept(vault', faulted', copied', row)
<1>1. row.at \in DOMAIN copied /\ copied[row.at] \notin Unrecorded
  BY DEF OfClipboard
<1>2. copied[row.at] \in Contents
  BY <1>1 DEF Texts
<1>3. row.at \in DOMAIN copied' /\ copied'[row.at] = copied[row.at]
  BY <1>1 DEF CopiesKept
<1>4. OfClipboard(copied', row)
  BY <1>3 DEF OfClipboard
<1>5. Kept(vault', faulted', copied', row)
  BY <1>2, <1>3 DEF Kept, FilesKept
<1>6. QED
  BY <1>4, <1>5

LEMMA SentKept ==
  ASSUME CopiesKept, NEW message, Sent(copied, message)
  PROVE  Sent(copied', message)
BY DEF Sent, CopiesKept

(* The log with one row more.                                              *)
LEMMA InLogMoves ==
  ASSUME TypeOK, Texts, FilesKept, CopiesKept, InLog,
         \/ UNCHANGED log
         \/ \E row \in Row :
              /\ log' = Append(log, row)
              /\ row.id.source = "clipboard" =>
                   OfClipboard(copied, row) /\ Kept(vault, faulted, copied, row)
  PROVE  InLog'
<1>0. log \in Seq(Row)
  BY DEF TypeOK
<1>1. CASE UNCHANGED log
  BY <1>1, RowKept DEF InLog
<1>2. ASSUME NEW row \in Row, log' = Append(log, row),
             row.id.source = "clipboard" =>
               OfClipboard(copied, row) /\ Kept(vault, faulted, copied, row)
      PROVE  InLog'
  <2>1. ASSUME NEW i \in DOMAIN log', log'[i].id.source = "clipboard"
        PROVE  OfClipboard(copied', log'[i]) /\ Kept(vault', faulted', copied', log'[i])
    <3>1. (i \in DOMAIN log /\ log'[i] = log[i]) \/ log'[i] = row
      BY <1>0, <1>2
    <3>2. OfClipboard(copied, log'[i]) /\ Kept(vault, faulted, copied, log'[i])
      BY <1>2, <2>1, <3>1 DEF InLog
    <3>3. QED
      BY <3>2, RowKept
  <2>2. QED
    BY <2>1 DEF InLog
<1>3. QED
  BY <1>1, <1>2

(* The log with one id more.                                               *)
LEMMA DistinctMoves ==
  ASSUME TypeOK, Distinct, NEW row \in Row, log' = Append(log, row),
         \/ row.id.source # "api" /\ row.id.n = Len(log) + 1
         \/ row.id.source = "api" /\ ~Known(row)
  PROVE  Distinct'
<1>0. log \in Seq(Row) /\ Len(log) \in Nat
  BY DEF TypeOK
<1>1. /\ DOMAIN log' = 1 .. Len(log) + 1 /\ DOMAIN log = 1 .. Len(log)
      /\ log'[Len(log) + 1] = row /\ \A i \in 1 .. Len(log) : log'[i] = log[i]
  BY <1>0
<1>2. \A i \in 1 .. Len(log) : log[i].id # row.id
  <2>1. CASE row.id.source # "api" /\ row.id.n = Len(log) + 1
    BY <1>0, <1>1, <2>1 DEF Distinct
  <2>2. CASE ~Known(row)
    BY <1>1, <2>2 DEF Known, Rows
  <2>3. QED
    BY <2>1, <2>2
<1>3. ASSUME NEW i \in DOMAIN log', log'[i].id.source # "api"
      PROVE  log'[i].id.n = i
  BY <1>0, <1>1, <1>3 DEF Distinct
<1>4. ASSUME NEW i \in DOMAIN log', NEW j \in DOMAIN log', log'[i].id = log'[j].id
      PROVE  i = j
  <2>1. \A k \in DOMAIN log' : k \in 1 .. Len(log) \/ k = Len(log) + 1
    BY <1>0, <1>1
  <2>2. QED
    BY <1>1, <1>2, <1>4, <2>1 DEF Distinct
<1>5. QED
  BY <1>3, <1>4 DEF Distinct

(* ingest_v2 changes nothing of an event but its id.                       *)
LEMMA Ingested ==
  ASSUME TypeOK, NEW row \in Row, IngestV2(row)
  PROVE  \E r \in Row :
           /\ log' = Append(log, r)
           /\ r.id.source = row.id.source /\ r.id.n = Len(log) + 1
           /\ r.at = row.at /\ r.scope = row.scope /\ r.sensitivity = row.sensitivity
           /\ r.fault = row.fault /\ r.refs = row.refs
<1> DEFINE r == [row EXCEPT !.id.n = Len(log) + 1]
<1>1. Len(log) + 1 \in Nat
  BY DEF TypeOK
<1>2. r \in Row
  BY <1>1 DEF Row, EventId
<1>3. /\ r.id.source = row.id.source /\ r.id.n = Len(log) + 1
      /\ r.at = row.at /\ r.scope = row.scope /\ r.sensitivity = row.sensitivity
      /\ r.fault = row.fault /\ r.refs = row.refs
  BY DEF Row, EventId
<1>4. log' = Append(log, r)
  BY DEF IngestV2
<1> HIDE DEF r
<1>5. QED
  BY <1>2, <1>3, <1>4

(* Every step that writes to the log.                                      *)
LEMMA LogStep ==
  ASSUME TypeOK, Captured, Distinct, Next \/ UNCHANGED vars
  PROVE  InLog' /\ Distinct'
<1>0. FilesKept /\ CopiesKept /\ Texts /\ InLog
  BY FilesStep, CopiesStep DEF Captured
<1>1. CASE UNCHANGED log
  <2>1. InLog'
    BY <1>0, <1>1, InLogMoves
  <2>2. Distinct'
    BY <1>1 DEF Distinct
  <2>3. QED
    BY <2>1, <2>2
<1>2. CASE HandlePersonal
  <2> DEFINE row == Head(queue).row
  <2>1. queue # <<>> /\ Head(queue).type = "Personal" /\ queue \in Seq(Message)
    BY <1>2 DEF HandlePersonal, Received, TypeOK
  <2>2. row \in Row /\ IngestV2(row)
    BY <1>2, <2>1, TakenTypes DEF HandlePersonal
  <2>3. row.id.source \in Signals
    <3>1. 1 \in DOMAIN queue /\ queue[1] = Head(queue)
      BY <2>1
    <3>2. QED
      BY <2>1, <3>1 DEF Captured, Channel, Sent
  <2> HIDE DEF row
  <2>4. PICK r \in Row :
          log' = Append(log, r) /\ r.id.source = row.id.source /\ r.id.n = Len(log) + 1
    BY <2>2, Ingested
  <2>5. r.id.source # "api" /\ r.id.source # "clipboard"
    BY <2>3, <2>4 DEF Signals
  <2>6. QED
    BY <1>0, <2>4, <2>5, InLogMoves, DistinctMoves
<1>3. CASE IngestClipboard
  <2>1. hand # None /\ hand \in Row /\ IngestV2(hand)
    BY <1>3 DEF IngestClipboard, TypeOK
  <2>2. PICK r \in Row :
          /\ log' = Append(log, r)
          /\ r.id.source = hand.id.source /\ r.id.n = Len(log) + 1
          /\ r.at = hand.at /\ r.scope = hand.scope /\ r.sensitivity = hand.sensitivity
          /\ r.fault = hand.fault /\ r.refs = hand.refs
    BY <2>1, Ingested
  <2>3. OfClipboard(copied, hand) /\ Kept(vault, faulted, copied, hand)
    BY <2>1 DEF Captured, InHand
  <2>4. OfClipboard(copied, r) /\ Kept(vault, faulted, copied, r)
    BY <2>2, <2>3 DEF OfClipboard, Kept
  <2>5. r.id.source # "api"
    BY <2>4 DEF OfClipboard
  <2>6. QED
    BY <1>0, <2>2, <2>4, <2>5, InLogMoves, DistinctMoves
<1>4. CASE HandleApi /\ ~UNCHANGED log
  <2> DEFINE request == Head(queue).request
  <2>1. request \in Requests
    BY <1>4, HandleApiTypes
  <2>2. request.op = "submit" /\ ~Known(request.row) /\ log' = Append(log, request.row)
    BY <1>4 DEF HandleApi
  <2> HIDE DEF request
  <2>3. request.row \in Row /\ request.row.id.source = "api"
    BY <2>1, <2>2, RequestsAssumption, IdsAssumption DEF Request
  <2>4. QED
    BY <1>0, <2>2, <2>3, InLogMoves, DistinctMoves
<1>5. CASE ~(HandlePersonal \/ IngestClipboard \/ HandleApi)
  <2>1. UNCHANGED log
    BY <1>5 DEF Next, EventLoop, Api, vars, LoopStops, LoopFails, HandleClipboard,
       CaptureFails, SubmitFails, ClipboardSequence, ClipboardSnapshot, ClipboardFails,
       PersonalSample, WatcherFails, ReadFrame, WriteFrame, Rebind, AcceptFails,
       ClientWrites, ClientLeaves, Start, Cancel, Crash, Damage, OtherServer, Accept, Copy,
       Act, storage
  <2>2. QED
    BY <1>1, <2>1
<1>6. QED
  BY <1>1, <1>2, <1>3, <1>4, <1>5

(* The content goes to the vault before its event is in the loop's hand.   *)
LEMMA HandStep ==
  ASSUME TypeOK, Captured, Next \/ UNCHANGED vars
  PROVE  InHand'
<1>0. FilesKept /\ CopiesKept /\ Texts /\ InHand /\ Files
  BY FilesStep, CopiesStep DEF Captured
<1>1. CASE UNCHANGED hand
  BY <1>0, <1>1, RowKept DEF InHand
<1>2. CASE hand' = None
  BY <1>2 DEF InHand
<1>3. CASE HandleClipboard
  <2> DEFINE seen == Head(queue)
             c == seen.content
  <2>1. seen.type = "Clipboard" /\ queue # <<>> /\ queue \in Seq(Message)
    BY <1>3 DEF HandleClipboard, Received, TypeOK
  <2>2. seen.seq \in DOMAIN copied /\ c = copied[seen.seq] /\ c \notin Unrecorded
    <3>1. 1 \in DOMAIN queue /\ queue[1] = seen
      BY <2>1
    <3>2. QED
      BY <2>1, <3>1 DEF Captured, Channel, Sent
  <2>3. c \in Contents
    BY <2>1, TakenTypes
  <2>4. hand' = ClipboardRow(seen.seq, IF c \in Oversized THEN <<>> ELSE <<ClipboardRef(c)>>)
    BY <1>3 DEF HandleClipboard
  <2>5. UNCHANGED copied
    BY <1>3 DEF HandleClipboard, user
  <2>6. c \notin Oversized /\ c \notin faulted' => vault'[c] = c
    <3>1. SUFFICES ASSUME c \notin Oversized, c \notin faulted'
                   PROVE  vault'[c] = c
      OBVIOUS
    <3>2. /\ vault' = PutBytes(vault, c)
          /\ faulted' = {d \in faulted : d # c \/ vault[d] # Missing}
      BY <1>3, <3>1 DEF HandleClipboard
    <3>3. vault \in Vault
      BY DEF TypeOK
    <3> HIDE DEF c
    <3>4. vault'[c] = IF vault[c] = Missing THEN c ELSE vault[c]
      BY <2>3, <3>2, <3>3 DEF PutBytes, Vault
    <3>5. vault[c] = Missing \/ c \notin faulted
      BY <3>1, <3>2
    <3>6. QED
      BY <1>0, <2>3, <3>4, <3>5 DEF Files
  <2> HIDE DEF c
  <2>7. /\ hand'.at = seen.seq /\ hand'.id.source = "clipboard"
        /\ hand'.scope = "scope.personal" /\ hand'.sensitivity = Sensitive
        /\ hand'.fault = None
        /\ hand'.refs = IF c \in Oversized THEN <<>> ELSE <<ClipboardRef(c)>>
    BY <2>4 DEF ClipboardRow
  <2>8. OfClipboard(copied', hand')
    BY <2>2, <2>5, <2>7 DEF OfClipboard
  <2>9. Kept(vault', faulted', copied', hand')
    BY <2>2, <2>5, <2>6, <2>7 DEF Kept
  <2>10. QED
    BY <2>8, <2>9 DEF InHand
<1>4. CASE ~HandleClipboard
  <2>1. UNCHANGED hand \/ hand' = None
    BY <1>4 DEF Next, EventLoop, Api, vars, LoopStops, LoopFails, HandlePersonal,
       IngestClipboard, HandleApi, CaptureFails, SubmitFails, ClipboardSequence,
       ClipboardSnapshot, ClipboardFails, PersonalSample, WatcherFails, ReadFrame, WriteFrame,
       Rebind, AcceptFails, ClientWrites, ClientLeaves, Start, Cancel, Crash, Damage,
       OtherServer, Accept, Copy, Act, Exit, loop
  <2>2. QED
    BY <1>1, <1>2, <2>1
<1>5. QED
  BY <1>3, <1>4

(* The channel with one message more or less.                              *)
LEMMA ChannelMoves ==
  ASSUME TypeOK, CopiesKept, Channel,
         \/ UNCHANGED queue \/ queue' = <<>>
         \/ queue # <<>> /\ queue' = Tail(queue)
         \/ \E message : Send(message) /\ Sent(copied, message)
  PROVE  Channel'
<1>0. queue \in Seq(Message)
  BY DEF TypeOK
<1>1. ASSUME NEW i \in DOMAIN queue'
      PROVE  Sent(copied, queue'[i])
  <2>1. CASE UNCHANGED queue
    BY <1>1, <2>1 DEF Channel
  <2>2. CASE queue' = <<>>
    BY <1>1, <2>2
  <2>3. CASE queue # <<>> /\ queue' = Tail(queue)
    <3>1. i + 1 \in DOMAIN queue /\ queue'[i] = queue[i + 1]
      BY <1>0, <1>1, <2>3
    <3>2. QED
      BY <3>1 DEF Channel
  <2>4. ASSUME NEW message, Send(message), Sent(copied, message)
        PROVE  Sent(copied, queue'[i])
    <3>1. (i \in DOMAIN queue /\ queue'[i] = queue[i]) \/ queue'[i] = message
      BY <1>0, <1>1, <2>4 DEF Send
    <3>2. QED
      BY <2>4, <3>1 DEF Channel
  <2>5. QED
    BY <2>1, <2>2, <2>3, <2>4
<1>2. \A i \in DOMAIN queue' : Sent(copied', queue'[i])
  BY <1>1, SentKept
<1>3. QED
  BY <1>2 DEF Channel

LEMMA ChannelPoll ==
  ASSUME TypeOK, Channel, PersonalSample
  PROVE  Channel'
<1>1. PICK readable \in SUBSET Signals : Poll(readable)
  BY DEF PersonalSample
<1>2. UNCHANGED copied
  BY DEF PersonalSample, user
<1> DEFINE first == Observe("foreground", readable)
           second == Observe("idle", readable)
<1>3. ASSUME NEW s \in Signals
      PROVE  \A i \in DOMAIN Observe(s, readable) : Sent(copied, Observe(s, readable)[i])
  <2> DEFINE message == [type |-> "Personal", row |-> PersonalRow(s)]
  <2>1. Observe(s, readable) = <<>> \/ Observe(s, readable) = <<message>>
    BY DEF Observe
  <2>2. Sent(copied, message)
    BY DEF Sent, PersonalRow
  <2> HIDE DEF message
  <2>3. QED
    BY <2>1, <2>2
<1>4. /\ queue \in Seq(Message) /\ first \in Seq(Message) /\ second \in Seq(Message)
      /\ \A i \in DOMAIN first : Sent(copied, first[i])
      /\ \A i \in DOMAIN second : Sent(copied, second[i])
  BY <1>3, ObserveTypes DEF TypeOK, Signals
<1>5. queue' = (queue \o first) \o second
  BY <1>1 DEF Poll
<1> HIDE DEF first, second
<1>6. ASSUME NEW q \in Seq(Message), NEW r \in Seq(Message),
             \A i \in DOMAIN q : Sent(copied, q[i]), \A i \in DOMAIN r : Sent(copied, r[i])
      PROVE  q \o r \in Seq(Message) /\ \A i \in DOMAIN (q \o r) : Sent(copied, (q \o r)[i])
  <2>1. q \o r \in Seq(Message)
    OBVIOUS
  <2>2. ASSUME NEW i \in DOMAIN (q \o r)
        PROVE  \/ i \in DOMAIN q /\ (q \o r)[i] = q[i]
               \/ i - Len(q) \in DOMAIN r /\ (q \o r)[i] = r[i - Len(q)]
    BY <2>2
  <2>3. QED
    BY <1>6, <2>1, <2>2
<1>7. /\ queue \o first \in Seq(Message)
      /\ \A i \in DOMAIN (queue \o first) : Sent(copied, (queue \o first)[i])
  BY <1>4, <1>6 DEF Channel
<1>8. \A i \in DOMAIN ((queue \o first) \o second) :
        Sent(copied, ((queue \o first) \o second)[i])
  BY <1>4, <1>6, <1>7
<1>9. QED
  BY <1>2, <1>5, <1>8 DEF Channel

(* The clipboard was open from the read of its content to the second look  *)
(* at its number: the message has the content of its number.               *)
LEMMA ChannelStep ==
  ASSUME TypeOK, Captured, Next \/ UNCHANGED vars
  PROVE  Channel'
<1>0. CopiesKept /\ Channel
  BY CopiesStep DEF Captured
<1>1. CASE PersonalSample
  BY <1>0, <1>1, ChannelPoll
<1>2. CASE ClipboardSnapshot
  <2> DEFINE c == copied[Len(copied)]
             message == [type |-> "Clipboard", seq |-> clip.seq, content |-> c]
  <2>1. \/ UNCHANGED queue
        \/ Send(message) /\ Len(copied) = clip.seq /\ clip.seq # 0 /\ c \notin Unrecorded
    BY <1>2 DEF ClipboardSnapshot, Unrecorded
  <2>2. Len(copied) = clip.seq /\ clip.seq # 0 => clip.seq \in DOMAIN copied
    BY DEF TypeOK
  <2>3. Len(copied) = clip.seq /\ clip.seq # 0 /\ c \notin Unrecorded => Sent(copied, message)
    BY <2>2 DEF Sent
  <2> HIDE DEF message
  <2>4. QED
    BY <1>0, <2>1, <2>3, ChannelMoves
<1>3. CASE ReadFrame
  <2> DEFINE message == [type |-> "Api", request |-> conn.request]
  <2>1. UNCHANGED queue \/ Send(message)
    BY <1>3 DEF ReadFrame
  <2>2. Sent(copied, message)
    BY DEF Sent
  <2> HIDE DEF message
  <2>3. QED
    BY <1>0, <2>1, <2>2, ChannelMoves
<1>4. CASE WatcherFails \/ AcceptFails \/ Rebind
  <2> DEFINE message == [type |-> "Fatal"]
  <2>1. UNCHANGED queue \/ Send(message)
    BY <1>4 DEF WatcherFails, AcceptFails, Rebind
  <2>2. Sent(copied, message)
    BY DEF Sent
  <2> HIDE DEF message
  <2>3. QED
    BY <1>0, <2>1, <2>2, ChannelMoves
<1>5. CASE LoopStops \/ LoopFails \/ CaptureFails \/ Crash
  <2>1. queue' = <<>>
    BY <1>5 DEF LoopStops, LoopFails, CaptureFails, Crash, Exit
  <2>2. QED
    BY <1>0, <2>1, ChannelMoves
<1>6. CASE HandlePersonal \/ HandleClipboard \/ HandleApi \/ SubmitFails
  <2>1. queue # <<>> /\ queue' = Tail(queue)
    BY <1>6 DEF HandlePersonal, HandleClipboard, HandleApi, SubmitFails, Received
  <2>2. QED
    BY <1>0, <2>1, ChannelMoves
<1>7. CASE UNCHANGED queue
  BY <1>0, <1>7, ChannelMoves
<1>8. QED
  BY <1>1, <1>2, <1>3, <1>4, <1>5, <1>6, <1>7
  DEF Next, EventLoop, Api, vars, IngestClipboard, ClipboardSequence, ClipboardFails,
      WriteFrame, ClientWrites, ClientLeaves, Start, Cancel, Damage, OtherServer, Accept,
      Copy, Act, loop

(* With ids that are distinct, the read of an event finds that event.      *)
LEMMA StoredIs ==
  ASSUME TypeOK, Distinct, NEW row \in Rows
  PROVE  (CHOOSE r \in Rows : r.id = row.id) = row
<1>1. \A r \in Rows : r.id = row.id => r = row
  BY DEF Rows, Distinct
<1>2. QED
  BY <1>1

LEMMA CapturedRead ==
  ASSUME TypeOK, Captured, Distinct, NEW row \in Rows, row.id.source = "clipboard",
         NEW c, c = copied[row.at], c \notin Oversized, NEW request,
         request.token, request.id = row.id, request.sha256 = c
  PROVE  ReadTextContent(Rows, vault, SensitiveProfile({"scope.personal"}), request) =
           ReadReferenced(vault, ClipboardRef(c))
<1> DEFINE pol == SensitiveProfile({"scope.personal"})
<1>1. OfClipboard(copied, row)
  BY DEF Captured, InLog, Rows
<1>2. /\ row.scope = "scope.personal" /\ row.sensitivity = 2 /\ row.fault = None
      /\ row.refs = <<ClipboardRef(c)>> /\ c \in Contents
  BY <1>1 DEF OfClipboard, Sensitive, Captured, Texts
<1>3. Carried(row, c) = {1}
  <2>1. ClipboardRef(c).sha256 = c
    BY DEF ClipboardRef
  <2>2. DOMAIN row.refs = {1} /\ row.refs[1] = ClipboardRef(c)
    BY <1>2
  <2>3. QED
    BY <2>1, <2>2 DEF Carried
<1>4. FirstRef(row, c) = ClipboardRef(c)
  <2>1. (CHOOSE i \in {1} : \A j \in {1} : i <= j) = 1
    OBVIOUS
  <2>2. QED
    BY <1>2, <1>3, <2>1 DEF FirstRef
<1>5. (CHOOSE r \in Rows : r.id = request.id) = row /\ \E r \in Rows : r.id = request.id
  BY StoredIs
<1>6. /\ pol.scopes = {"scope.personal"} /\ pol.sensitivity = 2 /\ pol.retrieval = 1
      /\ pol.mode = "valid" /\ pol.text
  BY DEF SensitiveProfile, Sensitive, SensitiveRef
<1>7. ClipboardRef(c).class = 1
  BY DEF ClipboardRef, SensitiveRef
<1> HIDE DEF pol
<1>8. AuthorizeReference(Rows, request.id, request.sha256, pol) = "granted"
  <2>1. None # "sensitivity"
    BY NoneAssumption
  <2>2. ~(row.sensitivity > pol.sensitivity) /\ ~(ClipboardRef(c).class > pol.retrieval)
    BY <1>2, <1>6, <1>7
  <2>3. row.scope \in pol.scopes /\ Carried(row, request.sha256) # {}
    BY <1>2, <1>3, <1>6
  <2>4. QED
    BY <1>2, <1>4, <1>5, <2>1, <2>2, <2>3 DEF AuthorizeReference
<1>9. QED
  BY <1>2, <1>4, <1>5, <1>6, <1>8 DEF ReadTextContent, pol

LEMMA ReadBack ==
  ASSUME NEW v, NEW c \in Contents
  PROVE  /\ Length[c] > MaxTextBytes => ReadReferenced(v, ClipboardRef(c)) = "content_too_large"
         /\ ~(Length[c] > MaxTextBytes) /\ v[c] = c /\ c \notin NotUtf8 =>
              ReadReferenced(v, ClipboardRef(c)) = "text"
<1> DEFINE ref == ClipboardRef(c)
<1>1. /\ ref.class = 1 /\ ref.local /\ ~ref.compressed /\ ref.media \in PlainText
      /\ ref.length = Length[c] /\ ref.sha256 = c
  BY CaptureAssumption DEF ClipboardRef, SensitiveRef
<1> HIDE DEF ref
<1>2. Supported(ref) /\ ref.class # SecretRef
  BY <1>1 DEF Supported, SecretRef
<1>3. Length[c] > MaxTextBytes => ReadReferenced(v, ref) = "content_too_large"
  BY <1>1, <1>2 DEF ReadReferenced
<1>4. ASSUME ~(Length[c] > MaxTextBytes), v[c] = c, c \notin NotUtf8
      PROVE  ReadReferenced(v, ref) = "text"
  <2>1. ReadVerifiedBytes(v, ref.sha256) = "ok"
    BY <1>1, <1>4, MissingAssumption DEF ReadVerifiedBytes
  <2>2. QED
    BY <1>1, <1>2, <1>4, <2>1 DEF ReadReferenced
<1>5. QED
  BY <1>3, <1>4 DEF ref

LEMMA CapturedImplies ==
  ASSUME TypeOK, Captured, Distinct
  PROVE  CapturedIsReadable
<1>1. SUFFICES ASSUME NEW row \in Rows, row.id.source = "clipboard"
               PROVE  LET c == copied[row.at]
                          read == [token |-> TRUE, id |-> row.id, sha256 |-> c]
                          code == ReadTextContent(Rows, vault,
                                    SensitiveProfile({"scope.personal"}), read)
                      IN /\ c \notin Unrecorded
                         /\ c \in Oversized => row.refs = <<>>
                         /\ c \notin Oversized =>
                              IF Length[c] > MaxTextBytes THEN code = "content_too_large"
                              ELSE c \notin faulted => code = "text" /\ vault[c] = c
  BY DEF CapturedIsReadable
<1> DEFINE c == copied[row.at]
           read == [token |-> TRUE, id |-> row.id, sha256 |-> c]
           code == ReadTextContent(Rows, vault, SensitiveProfile({"scope.personal"}), read)
<1>2. OfClipboard(copied, row) /\ Kept(vault, faulted, copied, row)
  BY <1>1 DEF Captured, InLog, Rows
<1>3. c \notin Unrecorded /\ (c \in Oversized => row.refs = <<>>)
  BY <1>2 DEF OfClipboard
<1>4. c \in Contents \ NotUtf8
  BY <1>2 DEF OfClipboard, Captured, Texts
<1>5. c \notin Oversized /\ c \notin faulted => vault[c] = c
  BY <1>2 DEF Kept
<1>6. read.token /\ read.id = row.id /\ read.sha256 = c
  OBVIOUS
<1> HIDE DEF read
<1>7. c \notin Oversized => code = ReadReferenced(vault, ClipboardRef(c))
  BY <1>1, <1>6, CapturedRead
<1> HIDE DEF c, code
<1>8. /\ c \notin Unrecorded
      /\ c \in Oversized => row.refs = <<>>
      /\ c \notin Oversized =>
           IF Length[c] > MaxTextBytes THEN code = "content_too_large"
           ELSE c \notin faulted => code = "text" /\ vault[c] = c
  BY <1>3, <1>4, <1>5, <1>7, ReadBack
<1>9. QED
  BY <1>8 DEF c, code, read

LEMMA CapturedHolds == Spec => [](TypeOK /\ Captured /\ Distinct)
<1>1. Init => Captured /\ Distinct
  <2>1. Init => Texts
    <3>1. <<>> \in Seq((Contents \ NotUtf8) \cup Unrecorded)
      OBVIOUS
    <3>2. QED
      BY <3>1 DEF Init, Texts
  <2>2. Init => Files /\ Channel /\ InHand
    BY DEF Init, Files, Channel, InHand
  <2>3. Init => InLog /\ Distinct
    BY IdsAssumption DEF Init, InLog, Distinct
  <2>4. QED
    BY <2>1, <2>2, <2>3 DEF Captured
<1>2. TypeOK /\ Captured /\ Distinct /\ [Next]_vars => Captured' /\ Distinct'
  <2>1. SUFFICES ASSUME TypeOK, Captured, Distinct, Next \/ UNCHANGED vars
                 PROVE  Captured' /\ Distinct'
    OBVIOUS
  <2>2. Texts' /\ Files'
    BY <2>1, FilesStep, FilesMove, CopiesStep DEF Captured
  <2>3. QED
    BY <2>1, <2>2, ChannelStep, HandStep, LogStep DEF Captured
<1>3. QED
  BY <1>1, <1>2, TypeCorrect, PTL DEF Spec

(* The event of a copied text holds what was on the clipboard under its    *)
(* number, and a reader with the sensitive profile gets exactly that back, *)
(* unless it is over the limit or its file was hit from outside: the       *)
(* content is in the vault before the event is in the log.                 *)
THEOREM CapturedReadable == Spec => []CapturedIsReadable
<1>1. TypeOK /\ Captured /\ Distinct => CapturedIsReadable
  BY CapturedImplies
<1>2. QED
  BY <1>1, CapturedHolds, PTL

-----------------------------------------------------------------------------
(* What a reader cannot learn.                                             *)

(* No two stored events have the same id, whoever made them: the read by   *)
(* id (raw_event_by_id) has one answer.                                    *)
THEOREM IdsStayDistinct == Spec => []Distinct
<1>1. QED
  BY CapturedHolds, PTL

(* The rows a policy lets a token see, by their columns, and the files     *)
(* that they cite with a class within the grant.                           *)
Sees(pol, row) ==
  /\ row.scope \in pol.scopes
  /\ row.fault = "sensitivity" \/ ~(row.sensitivity > pol.sensitivity)

CitedWithin(pol, row) ==
  {row.refs[i].sha256 : i \in {k \in DOMAIN row.refs : ~(row.refs[k].class > pol.retrieval)}}

UniqueIds(rows) == \A row, other \in rows : row.id = other.id => row = other

(* Two stores that look the same under a policy.                           *)
AlikeFor(pol, rows, files, rows2, files2) ==
  /\ {row \in rows : Sees(pol, row)} = {row \in rows2 : Sees(pol, row)}
  /\ \A row \in rows : Sees(pol, row) => \A c \in CitedWithin(pol, row) : files[c] = files2[c]

(* An event that is not seen is refused like one that does not exist.      *)
LEMMA UnseenDenied ==
  ASSUME NEW rows, UniqueIds(rows), NEW id, NEW sha, NEW pol,
         \A row \in rows : row.id = id => ~Sees(pol, row)
  PROVE  AuthorizeReference(rows, id, sha, pol) = "denied"
<1>1. SUFFICES ASSUME AuthorizeReference(rows, id, sha, pol) # "denied" PROVE FALSE
  OBVIOUS
<1>2. PICK row \in rows :
        /\ row.id = id /\ row.scope \in pol.scopes
        /\ row.fault = "sensitivity" \/ ~(row.sensitivity > pol.sensitivity)
  BY <1>1, NotDenied
<1>3. QED
  BY <1>2 DEF Sees

(* One that is seen decides by itself.                                     *)
LEMMA SeenDecides ==
  ASSUME NEW rows, UniqueIds(rows), NEW rows2, UniqueIds(rows2), NEW sha, NEW pol,
         NEW row \in rows, row \in rows2
  PROVE  /\ Stored(rows, row.id) = row /\ Stored(rows2, row.id) = row
         /\ AuthorizeReference(rows, row.id, sha, pol) =
              AuthorizeReference(rows2, row.id, sha, pol)
<1>1. Stored(rows, row.id) = row /\ Stored(rows2, row.id) = row
  BY DEF Stored, UniqueIds
<1>2. QED
  BY <1>1 DEF AuthorizeReference, Stored

(* The answer depends on the file of the reference alone.                  *)
LEMMA ReadsOneFile ==
  ASSUME NEW files, NEW files2, NEW ref, files[ref.sha256] = files2[ref.sha256]
  PROVE  ReadReferenced(files, ref) = ReadReferenced(files2, ref)
BY DEF ReadReferenced, ReadVerifiedBytes

(* read_text_content tells a token nothing but what its policy shows: with *)
(* two stores that have the same visible events, and the same files behind *)
(* the references of theirs that the grant covers, every request has the   *)
(* same answer, and the same text if it is one.  Whether a hidden event    *)
(* exists, decodes or carries a digest, and whether an uncited file is     *)
(* there, cannot be told (docs/event-bound-content-read.md).               *)
THEOREM HiddenTellsNothing ==
  ASSUME NEW rows \in SUBSET Row, UniqueIds(rows), NEW rows2 \in SUBSET Row, UniqueIds(rows2),
         NEW files, NEW files2, NEW pol, AlikeFor(pol, rows, files, rows2, files2),
         NEW request
  PROVE  /\ ReadTextContent(rows, files, pol, request) =
              ReadTextContent(rows2, files2, pol, request)
         /\ ReadTextContent(rows, files, pol, request) = "text" =>
              files[request.sha256] = files2[request.sha256]
<1> DEFINE sha == request.sha256
           a == AuthorizeReference(rows, request.id, sha, pol)
           a2 == AuthorizeReference(rows2, request.id, sha, pol)
           ref == FirstRef(Stored(rows, request.id), sha)
           ref2 == FirstRef(Stored(rows2, request.id), sha)
<1>1. /\ a = a2
      /\ a = "granted" => ref = ref2 /\ ref.sha256 = sha /\ files[sha] = files2[sha]
  <2>1. CASE \A row \in rows : row.id = request.id => ~Sees(pol, row)
    <3>1. \A row \in rows2 : row.id = request.id => ~Sees(pol, row)
      BY <2>1 DEF AlikeFor
    <3>2. QED
      BY <2>1, <3>1, UnseenDenied
  <2>2. ASSUME NEW row \in rows, row.id = request.id, Sees(pol, row)
        PROVE  /\ a = a2
               /\ a = "granted" => ref = ref2 /\ ref.sha256 = sha /\ files[sha] = files2[sha]
    <3>1. row \in rows2
      BY <2>2 DEF AlikeFor
    <3>2. Stored(rows, request.id) = row /\ Stored(rows2, request.id) = row /\ a = a2
      BY <2>2, <3>1, SeenDecides
    <3>3. ASSUME a = "granted" PROVE ref.sha256 = sha /\ files[sha] = files2[sha]
      <4>1. Carried(row, sha) # {} /\ ~(FirstRef(row, sha).class > pol.retrieval)
        BY <3>2, <3>3, Granted
      <4>2. row.refs \in Seq(ContentRef)
        BY DEF Row
      <4>3. PICK i \in Carried(row, sha) : FirstRef(row, sha) = row.refs[i]
        BY <4>1, <4>2, FirstRefCarried
      <4>4. i \in DOMAIN row.refs /\ row.refs[i].sha256 = sha
        BY <4>3 DEF Carried
      <4>5. sha \in CitedWithin(pol, row)
        BY <4>1, <4>3, <4>4 DEF CitedWithin
      <4>6. QED
        BY <2>2, <3>2, <4>3, <4>4, <4>5 DEF AlikeFor
    <3>4. QED
      BY <3>2, <3>3
  <2>3. QED
    BY <2>1, <2>2
<1>2. a \in {"denied", "failed", "granted"}
  BY Authorized
<1>3. a = "granted" => ReadReferenced(files, ref) = ReadReferenced(files2, ref2)
  BY <1>1, ReadsOneFile
<1>4. ReadTextContent(rows, files, pol, request) = ReadTextContent(rows2, files2, pol, request)
  BY <1>1, <1>2, <1>3 DEF ReadTextContent, Stored
<1>5. ReadTextContent(rows, files, pol, request) = "text" => a = "granted"
  BY TextIsGranted
<1>6. QED
  BY <1>1, <1>4, <1>5
=============================================================================
