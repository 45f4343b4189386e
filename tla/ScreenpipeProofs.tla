--------------------------- MODULE ScreenpipeProofs ---------------------------
(***************************************************************************)
(* Proofs about Screenpipe, for every set of rows the service may ever     *)
(* return, every overlap and any number of restarts.                       *)
(***************************************************************************)
EXTENDS Screenpipe, TLAPS

Cursor == [id : Nat, at : Nat]
Event == [id : Nat, at : Nat, refs : SUBSET Content]

(* A frame carries the number and the time of a row.                       *)
OfRow(f) == \E r \in Rows : r.id = f.id /\ r.at = f.at

-----------------------------------------------------------------------------
(* The inductive invariant.                                                *)

(* What frames and observations are made of.                               *)
FromRows ==
  /\ \A f \in frames : OfRow(f)
  /\ channel # None => OfRow(channel.frame)
  /\ \A i \in DOMAIN log : OfRow(log[i])

(* Where the agent is with an observation.                                 *)
Staged ==
  /\ stage # "idle" => channel # None
  /\ stage \in {"picture", "ingest"} /\ Retained(channel.frame) => TextOf(channel.frame) \in vault
  /\ stage = "ingest" => Refs(channel) \subseteq vault

(* Frames are stored in the order of their numbers.                        *)
Ascending == \A i, j \in DOMAIN log : i < j => log[i].id < log[j].id

(* The cursor is at a stored event, and every stored event is at or before *)
(* it.                                                                     *)
AtNewest(c) ==
  /\ c = None => log = <<>>
  /\ c # None => /\ \E i \in DOMAIN log : log[i].id = c.id /\ log[i].at = c.at
                 /\ \A i \in DOMAIN log : log[i].id <= c.id

Ahead(n) == \A i \in DOMAIN log : log[i].id < n

(* Whose turn it is.                                                       *)
Handover ==
  /\ sampler \in {"poll", "accessibility", "ocr", "frames"} => channel = None /\ AtNewest(cursor)
  /\ sampler = "await" =>
       /\ awaited # None
       /\ commit = "none" => channel # None
       /\ channel # None => commit = "none" /\ awaited = CursorAt(channel.frame)
       /\ IF commit = "ok" THEN AtNewest(awaited) ELSE AtNewest(cursor)
  /\ channel # None => Ahead(channel.frame.id)
  /\ cursor # None => \E i \in DOMAIN log : log[i].id = cursor.id /\ log[i].at = cursor.at

(* What is left of a batch comes after what was sent of it.                *)
Batch ==
  /\ \A f, g \in frames : f.id = g.id => f = g
  /\ sampler = "frames" => \A f \in frames : cursor = None \/ f.id > cursor.id
  /\ sampler = "await" => \A f \in frames : f.id > awaited.id
  /\ sampler \notin {"frames", "await"} => frames = {}

(* The frames a poll is bound to find.                                     *)
Due == {n \in Discoverable : \A r \in Rows : r.id = n => r.at >= horizon}
IsStored(n) == \E i \in DOMAIN log : log[i].id = n

(* Rows become discoverable in the order of their numbers, and nothing is  *)
(* stored that is not discoverable.                                        *)
InOrder ==
  /\ \A r \in published, s \in Rows : s.id < r.id => s.id \in Discoverable
  /\ \A f \in frames : f.id \in Discoverable
  /\ channel # None => channel.frame.id \in Discoverable
  /\ \A i \in DOMAIN log : log[i].id \in Discoverable

(* Both searches of a poll look from the same instant at the same rows.    *)
Looked ==
  /\ sampler \in {"accessibility", "ocr"} =>
       /\ before = published
       /\ cursor = None => start = horizon
       /\ cursor # None => start = (IF cursor.at >= Overlap THEN cursor.at - Overlap ELSE 0)
  /\ sampler = "ocr" => rows = Search("accessibility", start, published)

(* Nothing due is passed over, wherever the frame before it has got.       *)
LogPassesNone == \A i \in DOMAIN log, n \in Due : n < log[i].id => IsStored(n)
ChannelPassesNone == channel # None => \A n \in Due : n < channel.frame.id => IsStored(n)
BatchPassesNone ==
  \A f \in frames, n \in Due :
    n < f.id => \/ IsStored(n)
                \/ \E g \in frames : g.id = n
                \/ sampler = "await" /\ awaited.id = n /\ commit # "ok"

SkipInv == InOrder /\ Looked /\ LogPassesNone /\ ChannelPassesNone /\ BatchPassesNone

-----------------------------------------------------------------------------
(* The operators.                                                          *)

(* merge_candidate finds the later of the at most two rows of a frame.     *)
LEMMA MergeShape ==
  ASSUME NEW found \in SUBSET Rows, NEW r \in found
  PROVE  /\ Merge(found, r.id) \in Frame
         /\ Merge(found, r.id).id = r.id
         /\ OfRow(Merge(found, r.id))
<1> DEFINE ofFrame == {s \in found : s.id = r.id}
           preferred == {s \in ofFrame : s.text # NoText
                          /\ \A t \in ofFrame : t.text # NoText => s.source = "accessibility" \/ t = s}
           latest == CHOOSE s \in ofFrame : \A t \in ofFrame : t.at <= s.at
           text == IF preferred = {} THEN NoText ELSE (CHOOSE s \in preferred : TRUE).text
<1>1. \A s \in ofFrame : s \in Row /\ s \in Rows /\ s.id = r.id
  BY RowsAssumption
<1>2. \E s \in ofFrame : \A t \in ofFrame : t.at <= s.at
  <2>1. r \in ofFrame
    OBVIOUS
  <2>2. CASE \A t \in ofFrame : t.at <= r.at
    BY <2>1, <2>2
  <2>3. CASE \E s \in ofFrame : ~(s.at <= r.at)
    <3>1. PICK s \in ofFrame : ~(s.at <= r.at)
      BY <2>3
    <3>2. \A t \in ofFrame : t = r \/ t = s
      BY <1>1, <2>1, <3>1, RowsAssumption DEF Row
    <3>3. r.at \in Nat /\ s.at \in Nat
      BY <1>1, <2>1 DEF Row
    <3>4. QED BY <3>1, <3>2, <3>3
  <2>4. QED BY <2>2, <2>3
<1>3. latest \in ofFrame
  BY <1>2
<1>4. text \in Texts \cup {NoText}
  <2>1. CASE preferred = {}
    BY <2>1
  <2>2. CASE preferred # {}
    <3>1. (CHOOSE s \in preferred : TRUE) \in preferred
      BY <2>2
    <3>2. (CHOOSE s \in preferred : TRUE) \in Row
      BY <1>1, <3>1
    <3> HIDE DEF preferred
    <3>3. QED BY <2>2, <3>2 DEF Row
  <2>3. QED BY <2>1, <2>2
<1>5. Merge(found, r.id) = [id |-> r.id, at |-> latest.at, text |-> text]
  BY DEF Merge
<1>6. latest \in Row /\ latest \in Rows /\ latest.id = r.id /\ r.id \in Nat
  BY <1>1, <1>3, RowsAssumption DEF Row
<1> HIDE DEF latest, text
<1>7. QED BY <1>4, <1>5, <1>6 DEF Row, Frame, OfRow

(* A batch has a frame for each new row, no two of the same number.        *)
LEMMA FramesShape ==
  ASSUME NEW found \in SUBSET Rows
  PROVE  /\ Frames(found) \in SUBSET Frame
         /\ \A f \in Frames(found) : OfRow(f) /\ (cursor = None \/ f.id > cursor.id)
         /\ \A f, g \in Frames(found) : f.id = g.id => f = g
         /\ \A r \in found : cursor = None \/ r.id > cursor.id
              => \E f \in Frames(found) : f.id = r.id
<1>1. \A f \in Frames(found) :
        \E r \in found : f = Merge(found, r.id) /\ (cursor = None \/ r.id > cursor.id)
  BY DEF Frames
<1>2. \A r \in found : cursor = None \/ r.id > cursor.id => Merge(found, r.id) \in Frames(found)
  BY DEF Frames
<1>3. \A r \in found : /\ Merge(found, r.id) \in Frame
                       /\ Merge(found, r.id).id = r.id
                       /\ OfRow(Merge(found, r.id))
  BY MergeShape
<1>4. \A f, g \in Frames(found) : f.id = g.id => f = g
  BY <1>1, <1>3
<1>5. \A f \in Frames(found) : f \in Frame /\ OfRow(f) /\ (cursor = None \/ f.id > cursor.id)
  BY <1>1, <1>3
<1>6. \A r \in found : cursor = None \/ r.id > cursor.id => \E f \in Frames(found) : f.id = r.id
  BY <1>2, <1>3
<1>7. QED BY <1>4, <1>5, <1>6

(* Where a search starts is an instant.                                    *)
LEMMA StartTimesType ==
  ASSUME TypeOK
  PROVE  StartTimes \subseteq Nat
<1>1. CASE cursor = None
  BY <1>1, StartsAssumption DEF StartTimes
<1>2. CASE cursor # None
  <2>1. cursor.at \in Nat
    BY <1>2 DEF TypeOK
  <2>2. (IF cursor.at >= Overlap THEN cursor.at - Overlap ELSE 0) \in Nat
    BY <2>1, OverlapAssumption
  <2>3. QED BY <1>2, <2>2 DEF StartTimes
<1>3. QED BY <1>1, <1>2

(* What an event refers to.                                                *)
LEMMA RefsType ==
  ASSUME NEW o \in [frame : Frame, picture : BOOLEAN], OfRow(o.frame)
  PROVE  /\ Retained(o.frame) => TextOf(o.frame) \in Content
         /\ PictureOf(o.frame) \in Content
         /\ Refs(o) \in SUBSET Content
<1>1. Retained(o.frame) => TextOf(o.frame) \in Content
  BY DEF Frame, Retained, TextOf, Content
<1>2. PictureOf(o.frame) \in Content
  BY DEF OfRow, PictureOf, Content
<1>3. QED BY <1>1, <1>2 DEF Refs

(* An event of the log has a number.                                       *)
LEMMA LogShape ==
  ASSUME TypeOK
  PROVE  /\ log \in Seq(Event)
         /\ \A i \in DOMAIN log : i \in Nat /\ log[i] \in Event /\ log[i].id \in Nat
<1>1. log \in Seq(Event)
  BY DEF TypeOK, Event
<1>2. \A i \in DOMAIN log : i \in Nat /\ log[i] \in Event
  BY <1>1
<1>3. \A e \in Event : e.id \in Nat
  BY DEF Event
<1>4. QED BY <1>1, <1>2, <1>3

(* Appending leaves the events before alone.                               *)
LEMMA AppendShape ==
  ASSUME NEW e \in Event, log \in Seq(Event), log' = Append(log, e)
  PROVE  /\ log' \in Seq(Event)
         /\ DOMAIN log' = DOMAIN log \cup {Len(log) + 1}
         /\ \A i \in DOMAIN log : log'[i] = log[i] /\ i < Len(log) + 1
         /\ log'[Len(log) + 1] = e
         /\ Len(log) \in Nat
OBVIOUS

(* The last event of an ascending log is the newest.                       *)
LEMMA NewestShape ==
  ASSUME log \in Seq(Event), Ascending, log # <<>>
  PROVE  /\ Newest(Stored) = log[Len(log)]
         /\ Len(log) \in DOMAIN log
         /\ \A i \in DOMAIN log : log[i].id <= log[Len(log)].id
<1>1. Len(log) \in DOMAIN log /\ \A i \in DOMAIN log : log[i] \in Event /\ i \in Nat /\ i <= Len(log)
  OBVIOUS
<1>2. \A i \in DOMAIN log : i = Len(log) \/ log[i].id < log[Len(log)].id
  BY <1>1 DEF Ascending
<1>3. \A i \in DOMAIN log : log[i].id <= log[Len(log)].id
  BY <1>1, <1>2 DEF Event
<1>4. \A e \in Stored : (\A o \in Stored : o.id <= e.id) => e = log[Len(log)]
  BY <1>1, <1>2 DEF Stored, Event
<1>5. \A o \in Stored : o.id <= log[Len(log)].id
  BY <1>3 DEF Stored
<1>6. log[Len(log)] \in Stored
  BY <1>1 DEF Stored
<1>7. Newest(Stored) = log[Len(log)]
  BY <1>4, <1>5, <1>6 DEF Newest
<1>8. QED BY <1>1, <1>3, <1>7

(* The cursor a restart reads back from the log.                           *)
LEMMA RestartCursor ==
  ASSUME TypeOK, Ascending, Restart
  PROVE  cursor' \in Cursor \cup {None} /\ AtNewest(cursor')
<1>1. log \in Seq(Event)
  BY DEF TypeOK, Event
<1>2. CASE log = <<>>
  BY <1>2 DEF Restart, AtNewest
<1>3. CASE log # <<>>
  <2>1. cursor' = CursorAt(log[Len(log)])
    BY <1>1, <1>3, NewestShape DEF Restart
  <2>2. Len(log) \in DOMAIN log /\ log[Len(log)] \in Event
    BY <1>1, <1>3, NewestShape
  <2>3. cursor' \in Cursor /\ cursor'.id = log[Len(log)].id /\ cursor'.at = log[Len(log)].at
    BY <2>1, <2>2 DEF CursorAt, Cursor, Event
  <2>4. cursor' # None
    BY <2>3, NoneAssumption DEF Cursor
  <2>5. QED BY <1>1, <1>3, <2>2, <2>3, <2>4, NewestShape DEF AtNewest
<1>4. QED BY <1>2, <1>3

-----------------------------------------------------------------------------
(* Types and what frames are made of.                                      *)

Made == TypeOK /\ FromRows /\ (stage # "idle" => channel # None)

(* The second search gives rows of the service, and the poll fails or goes *)
(* on with the frames of both.                                             *)
LEMMA SearchOcrShape ==
  ASSUME TypeOK, SearchOcr
  PROVE  \E ocr \in SUBSET Rows :
           /\ Search("ocr", start, before) \subseteq ocr
           /\ ocr \subseteq published
           /\ \/ sampler' = "poll" /\ frames' = frames
              \/ sampler' = "frames" /\ frames' = Frames(rows \cup ocr)
<1>1. PICK ocr \in Pages("ocr") :
        \/ sampler' = "poll" /\ frames' = frames
        \/ sampler' = "frames" /\ frames' = Frames(rows \cup ocr)
  BY DEF SearchOcr
<1>2. ocr \in SUBSET Rows /\ Search("ocr", start, before) \subseteq ocr /\ ocr \subseteq published
  BY DEF Pages, Search, TypeOK
<1>3. QED BY <1>1, <1>2

LEMMA MadeInit == Init => Made
BY BoundsAssumption DEF Init, Made, TypeOK, FromRows

LEMMA MadeStep ==
  ASSUME Made, Ascending, [Next]_vars
  PROVE  Made'
<1> USE DEF Made
<1>1. ASSUME NEW r \in Rows, Publish(r)
      PROVE  Made'
  BY <1>1 DEF Publish, samplerVars, loopVars, TypeOK, FromRows
<1>2. CASE BeginPoll
  <2>1. start' \in Nat /\ horizon' \in Nat
    BY <1>2, StartTimesType DEF BeginPoll, TypeOK
  <2>2. QED BY <1>2, <2>1 DEF BeginPoll, loopVars, TypeOK, FromRows
<1>2a. CASE SearchAccessibility
  <2>1. rows' \in SUBSET Rows
    BY <1>2a DEF SearchAccessibility, Pages, Search, TypeOK
  <2>2. QED BY <1>2a, <2>1 DEF SearchAccessibility, loopVars, TypeOK, FromRows
<1>3. CASE SearchOcr
  <2>1. PICK ocr \in SUBSET Rows :
          \/ sampler' = "poll" /\ frames' = frames
          \/ sampler' = "frames" /\ frames' = Frames(rows \cup ocr)
    BY <1>3, SearchOcrShape
  <2>2. rows \cup ocr \in SUBSET Rows
    BY DEF TypeOK
  <2>3. Frames(rows \cup ocr) \in SUBSET Frame /\ \A f \in Frames(rows \cup ocr) : OfRow(f)
    BY <2>2, FramesShape
  <2>4. sampler' \in {"poll", "frames"} /\ frames' \in SUBSET Frame /\ \A f \in frames' : OfRow(f)
    BY <2>1, <2>3 DEF TypeOK, FromRows
  <2>5. rows' = {} /\ before' = {}
        /\ UNCHANGED <<published, broken, cursor, start, awaited, horizon, loopVars, crashes>>
    BY <1>3 DEF SearchOcr
  <2>6. QED BY <2>4, <2>5 DEF loopVars, TypeOK, FromRows
<1>4. CASE RequestFails
  BY <1>4 DEF RequestFails, loopVars, TypeOK, FromRows
<1>5. CASE PollDone
  BY <1>5 DEF PollDone, loopVars, TypeOK, FromRows
<1>6. CASE SendFrame
  <2>1. PICK f \in frames, picture \in BOOLEAN :
          /\ channel' = [frame |-> f, picture |-> picture]
          /\ frames' = frames \ {f}
          /\ awaited' = CursorAt(f)
    BY <1>6 DEF SendFrame
  <2>2. f \in Frame /\ OfRow(f)
    BY DEF TypeOK, FromRows
  <2>3. channel' \in [frame : Frame, picture : BOOLEAN] /\ OfRow(channel'.frame)
    BY <2>1, <2>2
  <2>4. channel' # None
    BY <2>3, NoneAssumption
  <2>5. awaited' \in Cursor
    BY <2>1, <2>2 DEF CursorAt, Cursor, Frame
  <2>6. frames' \in SUBSET Frame /\ \A g \in frames' : OfRow(g)
    BY <2>1 DEF TypeOK, FromRows
  <2>7. QED BY <1>6, <2>3, <2>4, <2>5, <2>6 DEF SendFrame, Cursor, TypeOK, FromRows
<1>7. CASE TakeObservation
  BY <1>7 DEF TakeObservation, samplerVars, TypeOK, FromRows
<1>8. CASE PutText
  <2>1. channel \in [frame : Frame, picture : BOOLEAN] /\ OfRow(channel.frame)
    BY <1>8 DEF PutText, TypeOK, FromRows
  <2>2. vault' \in SUBSET Content
    BY <1>8, <2>1, RefsType DEF PutText, TypeOK
  <2>3. QED BY <1>8, <2>2 DEF PutText, samplerVars, TypeOK, FromRows
<1>9. CASE PutPicture
  <2>1. channel \in [frame : Frame, picture : BOOLEAN] /\ OfRow(channel.frame)
    BY <1>9 DEF PutPicture, TypeOK, FromRows
  <2>2. vault' \in SUBSET Content
    BY <1>9, <2>1, RefsType DEF PutPicture, TypeOK
  <2>3. QED BY <1>9, <2>2 DEF PutPicture, samplerVars, TypeOK, FromRows
<1>10. CASE IngestFrame
  <2> DEFINE e == [id |-> channel.frame.id, at |-> channel.frame.at, refs |-> Refs(channel)]
  <2>1. channel \in [frame : Frame, picture : BOOLEAN] /\ OfRow(channel.frame)
    BY <1>10 DEF IngestFrame, TypeOK, FromRows
  <2>2. e \in Event /\ OfRow(e)
    BY <2>1, RefsType DEF Event, Frame, OfRow
  <2>3. log' = Append(log, e) /\ log \in Seq(Event)
    BY <1>10 DEF IngestFrame, TypeOK, Event
  <2> HIDE DEF e
  <2>4. log' \in Seq(Event) /\ \A i \in DOMAIN log' : OfRow(log'[i])
    BY <2>2, <2>3, AppendShape DEF FromRows
  <2>5. QED BY <1>10, <2>4 DEF IngestFrame, samplerVars, Event, TypeOK, FromRows
<1>11. CASE ObservationFails
  BY <1>11 DEF ObservationFails, samplerVars, TypeOK, FromRows
<1>12. CASE Committed
  BY <1>12 DEF Committed, TypeOK, FromRows
<1>13. CASE CommitFailed
  BY <1>13 DEF CommitFailed, TypeOK, FromRows
<1>14. CASE CommitTimesOut
  BY <1>14 DEF CommitTimesOut, loopVars, TypeOK, FromRows
<1>15. CASE Restart
  <2>1. cursor' \in Cursor \cup {None}
    BY <1>15, RestartCursor
  <2>2. QED BY <1>15, <2>1, BoundsAssumption DEF Restart, Cursor, TypeOK, FromRows
<1>16. CASE UNCHANGED vars
  BY <1>16 DEF vars, TypeOK, FromRows
<1>17. QED
  BY <1>1, <1>2, <1>2a, <1>3, <1>4, <1>5, <1>6, <1>7, <1>8, <1>9, <1>10, <1>11, <1>12, <1>13, <1>14,
     <1>15, <1>16 DEF Next

-----------------------------------------------------------------------------
(* References.                                                             *)

RefsInv == RefsInVault /\ Staged

LEMMA RefsInit == Init => RefsInv
BY DEF Init, RefsInv, RefsInVault, Staged, Stored

(* The vault only grows, and the log by an event whose references were put *)
(* there in the two stages before.                                         *)
LEMMA RefsStep ==
  ASSUME Made, Handover, RefsInv, [Next]_vars
  PROVE  RefsInv'
<1> USE DEF RefsInv
<1>1. ASSUME UNCHANGED loopVars
      PROVE  RefsInv'
  BY <1>1 DEF loopVars, RefsInVault, Stored, Staged, Retained, TextOf, Refs
<1>2. ASSUME UNCHANGED <<channel, stage, vault, log>>
      PROVE  RefsInv'
  BY <1>2 DEF loopVars, RefsInVault, Stored, Staged, Retained, TextOf, Refs
<1>3. ASSUME stage' = "idle", UNCHANGED <<vault, log>>
      PROVE  RefsInv'
  BY <1>3 DEF RefsInVault, Stored, Staged
<1>4. CASE SendFrame
  <2>1. stage = "idle"
    BY <1>4 DEF SendFrame, Handover, Staged
  <2>2. QED BY <1>3, <1>4, <2>1 DEF SendFrame
<1>5. CASE TakeObservation
  BY <1>5 DEF TakeObservation, RefsInVault, Stored, Staged
<1>6. CASE PutText
  <2>1. stage = "text" /\ stage' = "picture" /\ vault \subseteq vault'
    BY <1>6 DEF PutText
  <2>2. Retained(channel.frame) => TextOf(channel.frame) \in vault'
    BY <1>6 DEF PutText
  <2>3. UNCHANGED <<channel, log>>
    BY <1>6 DEF PutText
  <2>4. RefsInVault'
    BY <2>1, <2>3 DEF RefsInVault, Stored
  <2>5. QED BY <2>1, <2>2, <2>3, <2>4 DEF Staged, Retained, TextOf
<1>7. CASE PutPicture
  <2>1. stage = "picture" /\ stage' = "ingest" /\ vault \subseteq vault'
    BY <1>7 DEF PutPicture
  <2>2. Retained(channel.frame) => TextOf(channel.frame) \in vault'
    BY <2>1 DEF Staged
  <2>3. channel.picture => PictureOf(channel.frame) \in vault'
    BY <1>7 DEF PutPicture
  <2>4. UNCHANGED <<channel, log>>
    BY <1>7 DEF PutPicture
  <2>5. Refs(channel) \subseteq vault'
    BY <2>2, <2>3 DEF Refs
  <2>6. RefsInVault'
    BY <2>1, <2>4 DEF RefsInVault, Stored
  <2>7. stage' = "ingest" /\ channel' = channel /\ channel # None
    BY <2>1, <2>4 DEF Staged
  <2>8. Refs(channel') \subseteq vault' /\ (Retained(channel'.frame) => TextOf(channel'.frame) \in vault')
    BY <2>2, <2>5, <2>7
  <2>9. QED BY <2>6, <2>7, <2>8 DEF Staged
<1>8. CASE IngestFrame
  <2> DEFINE e == [id |-> channel.frame.id, at |-> channel.frame.at, refs |-> Refs(channel)]
  <2>1. e \in Event
    BY <1>8, RefsType DEF IngestFrame, Made, TypeOK, FromRows, Frame, Event
  <2>2. log' = Append(log, e) /\ log \in Seq(Event) /\ e.refs \subseteq vault
    BY <1>8 DEF IngestFrame, Made, TypeOK, Event, Staged
  <2> HIDE DEF e
  <2>3. Stored' \subseteq Stored \cup {e}
    BY <2>1, <2>2, AppendShape DEF Stored
  <2>4. QED BY <1>8, <2>2, <2>3 DEF IngestFrame, RefsInVault, Staged
<1>9. CASE ObservationFails
  BY <1>3, <1>9 DEF ObservationFails
<1>10. CASE Restart
  BY <1>3, <1>10 DEF Restart
<1>11. CASE Committed \/ CommitFailed
  BY <1>2, <1>11 DEF Committed, CommitFailed
<1>12. CASE \/ CommitTimesOut \/ PollDone \/ RequestFails
            \/ SearchOcr \/ SearchAccessibility \/ BeginPoll
  BY <1>1, <1>12
     DEF CommitTimesOut, PollDone, RequestFails, SearchOcr, SearchAccessibility, BeginPoll
<1>13. ASSUME NEW r \in Rows, Publish(r)
       PROVE  RefsInv'
  BY <1>1, <1>13 DEF Publish
<1>14. CASE UNCHANGED vars
  BY <1>1, <1>14 DEF vars, loopVars
<1>15. QED
  BY <1>4, <1>5, <1>6, <1>7, <1>8, <1>9, <1>10, <1>11, <1>12, <1>13, <1>14 DEF Next

-----------------------------------------------------------------------------
(* Order.                                                                  *)

OrderInv == Ascending /\ Handover /\ Batch

LEMMA OrderInit == Init => OrderInv
BY DEF Init, OrderInv, Ascending, Handover, Batch, AtNewest

LEMMA OrderStep ==
  ASSUME Made, OrderInv, [Next]_vars
  PROVE  OrderInv'
<1> USE DEF OrderInv
<1>1. ASSUME UNCHANGED <<samplerVars, channel, commit, log>>
      PROVE  OrderInv'
  BY <1>1 DEF samplerVars, Ascending, Handover, Batch, AtNewest, Ahead, CursorAt
<1>2. CASE BeginPoll \/ SearchAccessibility
  BY <1>2
     DEF BeginPoll, SearchAccessibility, loopVars, Ascending, Handover, Batch, AtNewest
<1>3. CASE SearchOcr
  <2>1. PICK found \in SUBSET Rows :
          \/ sampler' = "poll" /\ frames' = frames
          \/ sampler' = "frames" /\ frames' = Frames(found)
    <3>1. PICK ocr \in SUBSET Rows :
            \/ sampler' = "poll" /\ frames' = frames
            \/ sampler' = "frames" /\ frames' = Frames(rows \cup ocr)
      BY <1>3, SearchOcrShape DEF Made
    <3>2. rows \cup ocr \in SUBSET Rows
      BY DEF Made, TypeOK
    <3>3. QED BY <3>1, <3>2
  <2>3. sampler = "ocr" /\ UNCHANGED <<cursor, channel, log>>
    BY <1>3 DEF SearchOcr, loopVars
  <2>2. \/ sampler' = "poll" /\ frames' = {}
        \/ sampler' = "frames" /\ frames' = Frames(found)
    BY <2>1, <2>3 DEF Batch
  <2>4. Batch'
    BY <2>1, <2>2, <2>3, FramesShape DEF Batch
  <2>5. QED BY <2>2, <2>3, <2>4 DEF Ascending, Handover, AtNewest
<1>4. CASE RequestFails \/ PollDone
  BY <1>4 DEF RequestFails, PollDone, loopVars, Ascending, Handover, Batch, AtNewest
<1>5. CASE SendFrame
  <2>1. PICK f \in frames, picture \in BOOLEAN :
          /\ \A g \in frames : f.id <= g.id
          /\ channel' = [frame |-> f, picture |-> picture]
          /\ frames' = frames \ {f}
          /\ awaited' = CursorAt(f)
    BY <1>5 DEF SendFrame
  <2>2. /\ sampler = "frames" /\ sampler' = "await" /\ commit' = "none"
        /\ UNCHANGED <<cursor, log>>
    BY <1>5 DEF SendFrame
  <2>3. f \in Frame /\ channel' # None /\ channel'.frame = f
    BY <2>1, NoneAssumption DEF Made, TypeOK
  <2>4. awaited'.id = f.id /\ awaited' # None /\ awaited' = CursorAt(channel'.frame)
    BY <2>1, <2>3, NoneAssumption DEF CursorAt, Frame
  <2>5. AtNewest(cursor) /\ (cursor # None => f.id > cursor.id)
    BY <2>2 DEF Handover, Batch
  <2>6. Ahead(f.id)
    <3>1. CASE cursor = None
      BY <2>5, <3>1 DEF AtNewest, Ahead
    <3>2. CASE cursor # None
      <4>1. f.id \in Nat /\ cursor.id \in Nat /\ \A i \in DOMAIN log : log[i].id \in Nat
        BY <2>3, <3>2, LogShape DEF Made, TypeOK, Frame
      <4>2. QED BY <2>5, <3>2, <4>1 DEF AtNewest, Ahead
    <3>3. QED BY <3>1, <3>2
  <2>7. \A g \in frames' : g.id > f.id
    <3>1. \A g \in frames : g.id \in Nat
      BY DEF Made, TypeOK, Frame
    <3>2. QED BY <2>1, <3>1 DEF Batch
  <2>8. Batch'
    BY <2>1, <2>2, <2>4, <2>7 DEF Batch
  <2>9. Handover'
    BY <2>2, <2>3, <2>4, <2>5, <2>6 DEF Handover, AtNewest, Ahead
  <2>10. QED BY <2>2, <2>8, <2>9 DEF Ascending
<1>6. CASE TakeObservation \/ PutText \/ PutPicture
  BY <1>1, <1>6 DEF TakeObservation, PutText, PutPicture
<1>7. CASE IngestFrame
  <2> DEFINE e == [id |-> channel.frame.id, at |-> channel.frame.at, refs |-> Refs(channel)]
  <2>1. channel # None /\ channel.frame \in Frame
    BY <1>7 DEF IngestFrame, Made, TypeOK
  <2>2. e \in Event /\ e.id = channel.frame.id /\ e.at = channel.frame.at
    BY <1>7, <2>1, RefsType DEF Made, TypeOK, FromRows, Frame, Event
  <2>3. log' = Append(log, e) /\ log \in Seq(Event)
    BY <1>7 DEF IngestFrame, Made, TypeOK, Event
  <2> HIDE DEF e
  <2>4. /\ DOMAIN log' = DOMAIN log \cup {Len(log) + 1}
        /\ \A i \in DOMAIN log : log'[i] = log[i] /\ i < Len(log) + 1 /\ i \in Nat
        /\ log'[Len(log) + 1] = e /\ Len(log) \in Nat
    BY <2>2, <2>3, AppendShape
  <2>5. \A i \in DOMAIN log : log[i].id < e.id /\ log[i].id \in Nat /\ e.id \in Nat
    BY <2>1, <2>2, LogShape DEF Made, Handover, Ahead, Frame
  <2>6. Ascending'
    BY <2>4, <2>5 DEF Ascending
  <2>7. channel' = None /\ commit' = "ok" /\ UNCHANGED samplerVars
    BY <1>7 DEF IngestFrame
  <2>8. Batch'
    BY <2>7 DEF Batch, samplerVars
  <2>9. sampler \in {"await", "stopped"}
    BY <2>1 DEF Handover, Made, TypeOK
  <2>10. sampler = "await" => AtNewest(awaited)'
    <3>1. SUFFICES ASSUME sampler = "await"
                   PROVE  AtNewest(awaited)'
      OBVIOUS
    <3>2. awaited # None /\ awaited.id = e.id /\ awaited.at = e.at
      BY <2>1, <2>2, <3>1 DEF Handover, CursorAt
    <3>3. awaited' = awaited /\ e.id \in Nat
      BY <2>2, <2>7 DEF samplerVars, Event
    <3>4. QED BY <2>4, <2>5, <3>2, <3>3 DEF AtNewest
  <2>11. cursor # None => \E i \in DOMAIN log' : log'[i].id = cursor.id /\ log'[i].at = cursor.at
    BY <2>4 DEF Handover
  <2>12. Handover'
    BY <2>7, <2>9, <2>10, <2>11 DEF Handover, samplerVars
  <2>13. QED BY <2>6, <2>8, <2>12
<1>8. CASE ObservationFails
  <2>1. channel # None /\ channel' = None /\ commit' = "failed" /\ UNCHANGED <<samplerVars, log>>
    BY <1>8 DEF ObservationFails, Made
  <2>2. sampler \in {"await", "stopped"}
    BY <2>1 DEF Handover, Made, TypeOK
  <2>3. QED BY <2>1, <2>2 DEF samplerVars, Ascending, Handover, Batch, AtNewest
<1>9. CASE Committed
  <2>1. /\ sampler = "await" /\ commit = "ok" /\ cursor' = awaited /\ sampler' = "frames"
        /\ UNCHANGED <<frames, channel, log>>
    BY <1>9 DEF Committed
  <2>2. channel = None /\ awaited # None /\ AtNewest(awaited)
    BY <2>1 DEF Handover
  <2>3. QED BY <2>1, <2>2 DEF Ascending, Handover, Batch, AtNewest
<1>10. CASE CommitFailed
  <2>1. /\ sampler = "await" /\ commit = "failed" /\ sampler' = "poll" /\ frames' = {}
        /\ UNCHANGED <<cursor, channel, log>>
    BY <1>10 DEF CommitFailed
  <2>2. channel = None /\ AtNewest(cursor)
    BY <2>1 DEF Handover
  <2>3. QED BY <2>1, <2>2 DEF Ascending, Handover, Batch, AtNewest
<1>11. CASE CommitTimesOut
  BY <1>11 DEF CommitTimesOut, loopVars, Ascending, Handover, Batch, Ahead
<1>12. CASE Restart
  <2>1. AtNewest(cursor')
    BY <1>12, RestartCursor DEF Made
  <2>2. sampler' = "poll" /\ frames' = {} /\ channel' = None /\ log' = log
    BY <1>12 DEF Restart
  <2>3. QED BY <2>1, <2>2 DEF Ascending, Handover, Batch, AtNewest
<1>13. ASSUME NEW r \in Rows, Publish(r)
       PROVE  OrderInv'
  BY <1>1, <1>13 DEF Publish, loopVars
<1>14. CASE UNCHANGED vars
  BY <1>1, <1>14 DEF vars, samplerVars
<1>15. QED
  BY <1>2, <1>3, <1>4, <1>5, <1>6, <1>7, <1>8, <1>9, <1>10, <1>11, <1>12, <1>13, <1>14 DEF Next

-----------------------------------------------------------------------------
(* The theorems.                                                           *)

OnceInv == Made /\ RefsInv /\ OrderInv

LEMMA OnceInvHolds == Spec => []OnceInv
<1>1. Init => OnceInv
  BY MadeInit, RefsInit, OrderInit DEF OnceInv
<1>2. OnceInv /\ [Next]_vars => OnceInv'
  BY MadeStep, RefsStep, OrderStep DEF OnceInv, OrderInv
<1>3. QED BY <1>1, <1>2, PTL DEF Spec

(* Every variable keeps its shape.                                         *)
THEOREM TypeCorrect == Spec => []TypeOK
<1>1. OnceInv => TypeOK
  BY DEF OnceInv, Made
<1>2. QED BY <1>1, OnceInvHolds, PTL

(* No frame is stored twice: the log is ascending, so a number occurs in   *)
(* one place of it.                                                        *)
THEOREM FramesStoredOnce == Spec => []EachFrameOnce
<1>1. OnceInv => EachFrameOnce
  <2>1. SUFFICES ASSUME OnceInv, NEW i \in DOMAIN log, NEW j \in DOMAIN log, log[i].id = log[j].id
                 PROVE  i = j
    BY DEF EachFrameOnce
  <2>2. i \in Nat /\ j \in Nat /\ log[i].id \in Nat
    BY <2>1, LogShape DEF OnceInv, Made
  <2>3. QED BY <2>1, <2>2 DEF OnceInv, OrderInv, Ascending
<1>2. QED BY <1>1, OnceInvHolds, PTL

(* What a stored event refers to is in the vault.                          *)
THEOREM ReferencesResolve == Spec => []RefsInVault
<1>1. OnceInv => RefsInVault
  BY DEF OnceInv, RefsInv
<1>2. QED BY <1>1, OnceInvHolds, PTL

(* The cursor is always that of a stored event, so a frame that was not    *)
(* committed is never taken for done: not when the agent dies between the  *)
(* search and the store, not when the thread gives up on a commit.         *)
CursorOfStored == cursor # None => \E e \in Stored : CursorAt(e) = cursor

(* Once there is a cursor it stays, and it never moves back: not with a    *)
(* commit, and not when the agent is started again and reads it from the   *)
(* store, where a frame may be that the thread never heard of.             *)
CursorForward == [][cursor # None => cursor' # None /\ cursor.id <= cursor'.id]_vars

(* The sampler's cursor is that of a stored frame, through timeouts,       *)
(* retries and restarts (CursorOfStored).                                  *)
THEOREM CursorAlwaysStored == Spec => []CursorOfStored
<1>1. OnceInv => CursorOfStored
  <2>1. SUFFICES ASSUME OnceInv, cursor # None
                 PROVE  \E e \in Stored : CursorAt(e) = cursor
    BY DEF CursorOfStored
  <2>2. PICK i \in DOMAIN log : log[i].id = cursor.id /\ log[i].at = cursor.at
    BY <2>1 DEF OnceInv, OrderInv, Handover
  <2>3. cursor \in [id : Nat, at : Nat]
    BY <2>1 DEF OnceInv, Made, TypeOK
  <2>4. CursorAt(log[i]) = cursor
    BY <2>2, <2>3 DEF CursorAt
  <2>5. QED BY <2>4 DEF Stored
<1>2. QED BY <1>1, OnceInvHolds, PTL

(* The cursor only goes forward, restarts of the agent included            *)
(* (CursorForward).                                                        *)
THEOREM CursorNeverBack == Spec => CursorForward
<1>1. OnceInv /\ [Next]_vars => [cursor # None => cursor' # None /\ cursor.id <= cursor'.id]_vars
  <2> SUFFICES ASSUME OnceInv, Next, cursor # None
               PROVE  cursor' # None /\ cursor.id <= cursor'.id
    OBVIOUS
  <2>1. PICK i \in DOMAIN log : log[i].id = cursor.id
    BY DEF OnceInv, OrderInv, Handover
  <2>2. cursor.id \in Nat
    BY DEF OnceInv, Made, TypeOK
  <2>3. ASSUME NEW c, AtNewest(c) PROVE c # None /\ cursor.id <= c.id
    BY <2>1, <2>3, LogShape DEF AtNewest, OnceInv, Made
  <2>4. CASE Committed
    <3>1. AtNewest(awaited) /\ cursor' = awaited
      BY <2>4 DEF Committed, OnceInv, OrderInv, Handover
    <3>2. QED BY <2>3, <3>1
  <2>5. CASE Restart
    <3>1. AtNewest(cursor')
      BY <2>5, RestartCursor DEF OnceInv, Made, OrderInv
    <3>2. QED BY <2>3, <3>1
  <2>6. CASE cursor' = cursor
    BY <2>2, <2>6
  <2>7. ASSUME NEW r \in Rows, Publish(r) PROVE cursor' = cursor
    BY <2>7 DEF Publish, samplerVars
  <2>8. BeginPoll \/ SearchAccessibility \/ SearchOcr \/ RequestFails \/ PollDone \/ SendFrame
          => cursor' = cursor
    BY DEF BeginPoll, SearchAccessibility, SearchOcr, RequestFails, PollDone, SendFrame
  <2>9. TakeObservation \/ PutText \/ PutPicture \/ IngestFrame \/ ObservationFails
          => cursor' = cursor
    BY DEF TakeObservation, PutText, PutPicture, IngestFrame, ObservationFails, samplerVars
  <2>10. CommitFailed \/ CommitTimesOut => cursor' = cursor
    BY DEF CommitFailed, CommitTimesOut
  <2>11. QED BY <2>4, <2>5, <2>6, <2>7, <2>8, <2>9, <2>10 DEF Next
<1>2. QED BY <1>1, OnceInvHolds, PTL DEF Spec, CursorForward

-----------------------------------------------------------------------------
(* No frame is passed over, when nothing is published while a poll         *)
(* searches.                                                               *)

LEMMA NumberTypes ==
  ASSUME Made
  PROVE  /\ \A r \in Rows : r.id \in Nat /\ r.at \in Nat
         /\ Discoverable \subseteq Nat
         /\ Due \subseteq Discoverable
         /\ \A f \in frames : f.id \in Nat
         /\ \A i \in DOMAIN log : log[i].id \in Nat
<1>1. \A r \in Rows : r.id \in Nat /\ r.at \in Nat
  BY RowsAssumption DEF Row
<1>2. Discoverable \subseteq Nat
  BY <1>1 DEF Discoverable, Made, TypeOK
<1>3. QED BY <1>1, <1>2, LogShape DEF Due, Made, TypeOK, Frame

(* The two searches find every due frame beyond the cursor: its capture    *)
(* time is behind the cursor's by the overlap at most.                     *)
LEMMA SearchesFindDue ==
  ASSUME Made, OrderInv, Looked, sampler = "ocr",
         NEW n \in Due, cursor = None \/ n > cursor.id
  PROVE  \E r \in rows \cup Search("ocr", start, before) : r.id = n
<1>1. PICK r \in published : r.id = n
  BY DEF Due, Discoverable
<1>2. r \in Rows /\ r \in Row /\ r.at >= horizon
  BY <1>1, RowsAssumption DEF Due, Made, TypeOK
<1>3. r.at >= start
  <2>1. CASE cursor = None
    BY <1>2, <2>1 DEF Looked
  <2>2. CASE cursor # None
    <3>1. PICK i \in DOMAIN log : log[i].id = cursor.id /\ log[i].at = cursor.at
      BY <2>2 DEF OrderInv, Handover
    <3>2. PICK s \in Rows : s.id = cursor.id /\ s.at = cursor.at
      BY <3>1 DEF Made, FromRows, OfRow
    <3>3. s.id \in Nat /\ s.at \in Nat /\ r.id \in Nat /\ r.at \in Nat
      BY <1>2, NumberTypes
    <3>4. s.at <= r.at + Overlap
      BY <1>1, <1>2, <2>2, <3>2, <3>3, OverlapAssumption
    <3>5. start = IF s.at >= Overlap THEN s.at - Overlap ELSE 0
      BY <2>2, <3>2 DEF Looked
    <3>6. QED BY <3>3, <3>4, <3>5, OverlapAssumption
  <2>3. QED BY <2>1, <2>2
<1>4. r \in Search("accessibility", start, published) \/ r \in Search("ocr", start, before)
  BY <1>1, <1>2, <1>3 DEF Search, Row, Looked
<1>5. QED BY <1>1, <1>4 DEF Looked

LEMMA SkipInit == Init => SkipInv
BY DEF Init, SkipInv, InOrder, Looked, LogPassesNone, ChannelPassesNone, BatchPassesNone

LEMMA SkipStep ==
  ASSUME Steady, Made, OrderInv, SkipInv, [Next]_vars
  PROVE  SkipInv'
<1> USE DEF SkipInv
<1>1. ASSUME UNCHANGED <<published, samplerVars, channel, commit, log>>
      PROVE  SkipInv'
  <2>1. UNCHANGED <<Discoverable, Due>>
    BY <1>1 DEF samplerVars, Discoverable, Due
  <2>2. QED
    BY <1>1, <2>1 DEF samplerVars, InOrder, Looked, Search, LogPassesNone, ChannelPassesNone,
                      BatchPassesNone, IsStored
<1>2. ASSUME frames' = {}, channel' = channel \/ channel' = None,
             sampler' \notin {"accessibility", "ocr"},
             UNCHANGED <<published, log, horizon>>
      PROVE  SkipInv'
  <2>1. UNCHANGED <<Discoverable, Due>>
    BY <1>2 DEF Discoverable, Due
  <2>2. QED
    BY <1>2, <2>1 DEF InOrder, Looked, LogPassesNone, ChannelPassesNone, BatchPassesNone, IsStored
<1>3. ASSUME NEW r \in Rows, Publish(r)
      PROVE  SkipInv'
  <2>1. /\ published' = published \cup {r} /\ UNCHANGED <<samplerVars, loopVars>>
        /\ \A s \in Rows : s.id < r.id => s.id \in Discoverable
        /\ sampler \notin {"accessibility", "ocr"}
    BY <1>3 DEF Publish
  <2>2. Discoverable' = Discoverable \cup {r.id}
    BY <2>1 DEF Discoverable
  <2>3. InOrder'
    BY <2>1, <2>2 DEF InOrder, samplerVars, loopVars
  <2>4. \A n \in Due', m \in Discoverable : n < m => n \in Due
    <3>1. SUFFICES ASSUME NEW n \in Due', NEW m \in Discoverable, n < m
                   PROVE  n \in Due
      OBVIOUS
    <3>2. n \in Discoverable'
      BY DEF Due
    <3>3. n \in Discoverable
      BY <2>2, <3>1, <3>2 DEF InOrder, Discoverable
    <3>4. QED BY <2>1, <3>3 DEF Due, samplerVars
  <2>5. Looked'
    BY <2>1 DEF Looked, samplerVars
  <2>6. LogPassesNone' /\ ChannelPassesNone'
    BY <2>1, <2>4 DEF InOrder, LogPassesNone, ChannelPassesNone, IsStored, loopVars
  <2>7. BatchPassesNone'
    BY <2>1, <2>4 DEF InOrder, BatchPassesNone, IsStored, samplerVars, loopVars
  <2>8. QED BY <2>3, <2>5, <2>6, <2>7
<1>4. CASE BeginPoll
  <2>1. /\ sampler = "poll" /\ sampler' = "accessibility" /\ before' = published
        /\ UNCHANGED <<published, cursor, frames, awaited, channel, log>>
    BY <1>4 DEF BeginPoll, loopVars
  <2>2. frames = {} /\ channel = None /\ (cursor = None => log = <<>>)
    BY <2>1 DEF OrderInv, Batch, Handover, AtNewest
  <2>3. cursor # None => horizon' = horizon
    BY <1>4 DEF BeginPoll
  <2>4. LogPassesNone'
    <3>1. CASE cursor = None
      BY <2>1, <2>2, <3>1 DEF LogPassesNone
    <3>2. CASE cursor # None
      <4>1. Due' = Due
        BY <2>1, <2>3, <3>2 DEF Due, Discoverable
      <4>2. QED BY <2>1, <4>1 DEF LogPassesNone, IsStored
    <3>3. QED BY <3>1, <3>2
  <2>5. PICK from \in StartTimes :
          /\ start' = from
          /\ horizon' = IF cursor = None THEN from ELSE horizon
    BY <1>4 DEF BeginPoll
  <2>6. Looked'
    BY <2>1, <2>5 DEF Looked, StartTimes
  <2>7. InOrder'
    BY <2>1 DEF InOrder, Discoverable
  <2>8. QED BY <2>1, <2>2, <2>4, <2>6, <2>7 DEF ChannelPassesNone, BatchPassesNone
<1>4a. CASE SearchAccessibility
  <2>1. /\ sampler = "accessibility" /\ sampler' = "ocr" /\ before' = published
        /\ rows' \in Pages("accessibility")
        /\ UNCHANGED <<published, cursor, start, frames, awaited, horizon, channel, commit, log>>
    BY <1>4a DEF SearchAccessibility, loopVars
  <2>2. rows' = Search("accessibility", start, published)
    BY <2>1 DEF Pages, Looked
  <2>3. Looked'
    BY <2>1, <2>2 DEF Looked, Search
  <2>4. UNCHANGED <<Discoverable, Due>>
    BY <2>1 DEF Discoverable, Due
  <2>5. QED
    BY <2>1, <2>3, <2>4 DEF InOrder, LogPassesNone, ChannelPassesNone, BatchPassesNone, IsStored
<1>5. CASE SearchOcr
  <2>0. PICK ocr \in SUBSET Rows :
          /\ Search("ocr", start, before) \subseteq ocr
          /\ ocr \subseteq published
          /\ \/ sampler' = "poll" /\ frames' = frames
             \/ sampler' = "frames" /\ frames' = Frames(rows \cup ocr)
    BY <1>5, SearchOcrShape DEF Made
  <2> DEFINE found == rows \cup ocr
  <2>1. found \in SUBSET Rows
    BY DEF Made, TypeOK
  <2>6. sampler = "ocr" /\ UNCHANGED <<published, cursor, channel, log, horizon>>
    BY <1>5 DEF SearchOcr, loopVars
  <2>2. /\ sampler = "ocr" /\ UNCHANGED <<published, cursor, channel, log, horizon>>
        /\ \/ sampler' = "poll" /\ frames' = {}
           \/ sampler' = "frames" /\ frames' = Frames(found)
    BY <2>0, <2>6 DEF OrderInv, Batch
  <2>3. CASE sampler' = "poll" /\ frames' = {}
    BY <1>2, <2>2, <2>3
  <2>4. CASE sampler' = "frames" /\ frames' = Frames(found)
    <3>1. UNCHANGED <<Discoverable, Due>>
      BY <2>2 DEF Discoverable, Due
    <3>2. found \subseteq published
      BY <2>0, <2>2 DEF Looked, Search
    <3>3. \A n \in Due : cursor = None \/ n > cursor.id => \E r \in found : r.id = n
      BY <2>0, <2>2, SearchesFindDue
    <3> HIDE DEF found
    <3>4. \A n \in Due : cursor = None \/ n > cursor.id => \E g \in frames' : g.id = n
      BY <2>1, <2>4, <3>3, FramesShape
    <3>5. \A f \in frames' : f.id \in Discoverable
      <4>1. \A f \in Frames(found) : \E r \in found : f.id = r.id
        BY <2>1, MergeShape DEF Frames
      <4>2. QED BY <2>4, <3>2, <4>1 DEF Discoverable
    <3>6. \A n \in Due : cursor # None /\ ~(n > cursor.id) => IsStored(n)
      <4>1. SUFFICES ASSUME NEW n \in Due, cursor # None, ~(n > cursor.id)
                     PROVE  IsStored(n)
        OBVIOUS
      <4>2. PICK i \in DOMAIN log : log[i].id = cursor.id
        BY <4>1 DEF OrderInv, Handover
      <4>3. n \in Nat /\ log[i].id \in Nat
        BY NumberTypes
      <4>4. n = log[i].id \/ n < log[i].id
        BY <4>1, <4>2, <4>3
      <4>5. QED BY <4>4 DEF LogPassesNone, IsStored
    <3>7. BatchPassesNone'
      BY <2>2, <3>1, <3>4, <3>6 DEF BatchPassesNone, IsStored
    <3>8. QED
      BY <2>2, <2>4, <3>1, <3>5, <3>7 DEF InOrder, Looked, LogPassesNone, ChannelPassesNone, IsStored
  <2>5. QED BY <2>2, <2>3, <2>4
<1>6. CASE RequestFails \/ CommitTimesOut \/ CommitFailed \/ Restart
  BY <1>2, <1>6 DEF RequestFails, CommitTimesOut, CommitFailed, Restart, loopVars
<1>7. CASE PollDone
  BY <1>2, <1>7 DEF PollDone, loopVars
<1>8. CASE SendFrame
  <2>1. PICK f \in frames, picture \in BOOLEAN :
          /\ \A g \in frames : f.id <= g.id
          /\ channel' = [frame |-> f, picture |-> picture]
          /\ frames' = frames \ {f}
          /\ awaited' = CursorAt(f)
    BY <1>8 DEF SendFrame
  <2>2. /\ sampler = "frames" /\ sampler' = "await" /\ commit' = "none"
        /\ UNCHANGED <<published, log, horizon>>
    BY <1>8 DEF SendFrame
  <2>3. UNCHANGED <<Discoverable, Due>>
    BY <2>2 DEF Discoverable, Due
  <2>4. channel'.frame = f /\ awaited'.id = f.id
    BY <2>1 DEF CursorAt
  <2>5. \A g \in frames, n \in Due : n < g.id => IsStored(n) \/ \E h \in frames : h.id = n
    BY <2>2 DEF BatchPassesNone
  <2>6. \A n \in Due : n < f.id => IsStored(n)
    <3>1. \A h \in frames : h.id \in Nat /\ f.id \in Nat
      BY NumberTypes
    <3>2. QED BY <2>1, <2>5, <3>1
  <2>7. BatchPassesNone'
    BY <2>1, <2>2, <2>3, <2>4, <2>5 DEF BatchPassesNone, IsStored
  <2>8. ChannelPassesNone' /\ LogPassesNone'
    BY <2>2, <2>3, <2>4, <2>6 DEF ChannelPassesNone, LogPassesNone, IsStored
  <2>9. InOrder'
    BY <2>1, <2>2, <2>3, <2>4 DEF InOrder
  <2>10. QED BY <2>2, <2>7, <2>8, <2>9 DEF Looked
<1>9. CASE TakeObservation \/ PutText \/ PutPicture
  BY <1>1, <1>9 DEF TakeObservation, PutText, PutPicture
<1>10. CASE IngestFrame
  <2> DEFINE e == [id |-> channel.frame.id, at |-> channel.frame.at, refs |-> Refs(channel)]
  <2>1. channel # None /\ channel.frame \in Frame
    BY <1>10 DEF IngestFrame, Made, TypeOK
  <2>2. e \in Event /\ e.id = channel.frame.id
    BY <2>1, RefsType DEF Made, TypeOK, FromRows, Frame, Event
  <2>3. log' = Append(log, e) /\ log \in Seq(Event)
    BY <1>10 DEF IngestFrame, Made, TypeOK, Event
  <2> HIDE DEF e
  <2>4. /\ DOMAIN log' = DOMAIN log \cup {Len(log) + 1}
        /\ \A i \in DOMAIN log : log'[i] = log[i]
        /\ log'[Len(log) + 1] = e
    BY <2>2, <2>3, AppendShape
  <2>5. channel' = None /\ UNCHANGED <<published, samplerVars>>
    BY <1>10 DEF IngestFrame
  <2>6. UNCHANGED <<Discoverable, Due>>
    BY <2>5 DEF Discoverable, Due, samplerVars
  <2>7. \A n : IsStored(n) \/ n = channel.frame.id => IsStored(n)'
    BY <2>2, <2>4 DEF IsStored
  <2>8. \A n \in Due : sampler = "await" /\ awaited.id = n => n = channel.frame.id
    BY <2>1 DEF OrderInv, Handover, CursorAt
  <2>9. BatchPassesNone'
    BY <2>5, <2>6, <2>7, <2>8 DEF BatchPassesNone, samplerVars
  <2>10. LogPassesNone'
    BY <2>1, <2>2, <2>4, <2>6, <2>7 DEF LogPassesNone, ChannelPassesNone
  <2>11. InOrder'
    BY <2>1, <2>2, <2>4, <2>5, <2>6 DEF InOrder, samplerVars
  <2>12. Looked'
    BY <2>5 DEF Looked, Search, samplerVars
  <2>13. QED BY <2>5, <2>9, <2>10, <2>11, <2>12 DEF ChannelPassesNone
<1>11. CASE ObservationFails
  <2>1. /\ channel' = None /\ commit' = "failed" /\ UNCHANGED <<published, samplerVars, log>>
    BY <1>11 DEF ObservationFails
  <2>2. UNCHANGED <<Discoverable, Due>>
    BY <2>1 DEF Discoverable, Due, samplerVars
  <2>3. QED
    BY <2>1, <2>2 DEF samplerVars, InOrder, Looked, Search, LogPassesNone, ChannelPassesNone,
                      BatchPassesNone, IsStored
<1>12. CASE Committed
  <2>1. /\ sampler = "await" /\ commit = "ok" /\ sampler' = "frames"
        /\ UNCHANGED <<published, frames, channel, log, horizon>>
    BY <1>12 DEF Committed
  <2>2. UNCHANGED <<Discoverable, Due>>
    BY <2>1 DEF Discoverable, Due
  <2>3. QED
    BY <2>1, <2>2 DEF InOrder, Looked, LogPassesNone, ChannelPassesNone, BatchPassesNone, IsStored
<1>13. CASE UNCHANGED vars
  BY <1>1, <1>13 DEF vars, samplerVars
<1>14. QED
  BY <1>3, <1>4, <1>4a, <1>5, <1>6, <1>7, <1>8, <1>9, <1>10, <1>11, <1>12, <1>13
     DEF Next

(* The cursor passes no discoverable frame that is not stored, provided    *)
(* the service publishes nothing while a poll searches, except frames      *)
(* older than the window of the poll that stored the first frame: the      *)
(* cursor is at a stored event, and the log has no gap below one.          *)
THEOREM NoneSkipped ==
  ASSUME Steady
  PROVE  Spec => []NoFrameSkipped
<1>1. Init => SkipInv
  BY SkipInit
<1>2. OnceInv /\ SkipInv /\ [Next]_vars => SkipInv'
  BY SkipStep DEF OnceInv
<1>3. OnceInv /\ SkipInv => NoFrameSkipped
  <2>1. SUFFICES ASSUME OnceInv, SkipInv, cursor # None, NEW n \in Discoverable, n <= cursor.id,
                        \A r \in Rows : r.id = n => r.at >= horizon
                 PROVE  \E e \in Stored : e.id = n
    BY DEF NoFrameSkipped
  <2>2. n \in Due
    BY <2>1 DEF Due
  <2>3. PICK i \in DOMAIN log : log[i].id = cursor.id
    BY <2>1 DEF OnceInv, OrderInv, Handover
  <2>4. n \in Nat /\ log[i].id \in Nat
    BY <2>1, NumberTypes DEF OnceInv
  <2>5. n = log[i].id \/ n < log[i].id
    BY <2>1, <2>3, <2>4
  <2>6. IsStored(n)
    BY <2>1, <2>2, <2>5 DEF SkipInv, LogPassesNone, IsStored
  <2>7. QED BY <2>6 DEF IsStored, Stored
<1>4. QED BY <1>1, <1>2, <1>3, OnceInvHolds, PTL DEF Spec
=============================================================================
