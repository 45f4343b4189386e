-------------------------- MODULE BrowserOutboxProofs --------------------------
(***************************************************************************)
(* Proofs about BrowserOutbox, for every set of downloads and pages, every *)
(* capacity and every number of observations, stops and failures.          *)
(***************************************************************************)
EXTENDS BrowserOutbox, FiniteSetTheorems, TLAPS

-----------------------------------------------------------------------------
(* The inductive invariant.                                                *)

Logged == {log[i] : i \in DOMAIN log}
Carried == {w.msg : w \in wire}
Known == storage.outbox \cup Carried \cup Logged

(* Identifiers and sequence numbers have been given out.                   *)
Numbered ==
  /\ \A m \in Known : m.id < fresh /\ (NotGap(m) => m.seq \in 1..storage.lastSequence)
  /\ storage.gap # None => storage.gap.id < fresh

(* An identifier and a sequence number belong to one message.              *)
OneMessage ==
  /\ \A m, n \in Known : NotGap(m) /\ m.id = n.id => m = n
  /\ \A m, n \in Known : NotGap(m) /\ NotGap(n) /\ m.seq = n.seq => m = n
  /\ storage.gap # None => \A m \in Known : NotGap(m) => m.id # storage.gap.id

(* A download's identifier is unused, or on a message in the outbox.       *)
OneDownload ==
  \A k \in Keys :
    LET x == storage.downloadIds[k]
    IN x # None =>
         /\ x < fresh
         /\ \A j \in Keys : storage.downloadIds[j] = x => j = k
         /\ \A m \in Known : m.id = x => m \in storage.outbox /\ m.kind = "download" /\ m.body = k
         /\ storage.gap # None => storage.gap.id # x

(* What was ever sent comes before what is in the outbox, and leaves it    *)
(* only when it is stored.                                                 *)
OldestFirst ==
  /\ \A m \in Carried \cup Logged : NotGap(m) => \A q \in storage.outbox : m.seq <= q.seq
  /\ \A m \in Carried : NotGap(m) => m \in storage.outbox \cup Logged

(* An answer is for the message awaited.                                   *)
Awaited ==
  /\ \A w \in wire : w.live => worker = "await" /\ w.msg = sent
  /\ worker = "await" =>
       /\ sent # None
       /\ NotGap(sent) => sent \in storage.outbox
       /\ ~NotGap(sent) => sent = storage.gap
       /\ answered => IF NotGap(sent) THEN sent \in Logged
                      ELSE checkpoint.required /\ sent.seq <= checkpoint.last
  /\ answered => worker = "await" /\ \A w \in wire : ~w.live

SentInv == Numbered /\ OneMessage /\ OneDownload /\ OldestFirst /\ Awaited

-----------------------------------------------------------------------------
(* Messages and stored states.                                             *)

Queueable == DownloadMessage \cup PageMessage

LEMMA MessageShape ==
  ASSUME NEW m \in Message
  PROVE  /\ m.id \in Nat /\ m.seq \in Nat /\ m # None
         /\ m.kind \in {"download", "page", "gap"}
         /\ m.kind = "download" => m \in DownloadMessage /\ m.body \in Keys
         /\ m.kind = "page" => m \in PageMessage /\ m.body \in Page
         /\ m.kind = "gap" <=> ~NotGap(m)
         /\ NotGap(m) => m \in Queueable
         /\ ~NotGap(m) => m \in GapMessage
BY NoneAssumption DEF Message, DownloadMessage, PageMessage, GapMessage, Queueable, NotGap

LEMMA QueueableShape ==
  /\ Queueable \subseteq Message
  /\ GapMessage \subseteq Message
  /\ \A m \in Queueable : NotGap(m)
  /\ \A m \in GapMessage : ~NotGap(m)
BY DEF Message, DownloadMessage, PageMessage, GapMessage, Queueable, NotGap

LEMMA StorageShape ==
  ASSUME NEW st \in Storage
  PROVE  /\ st.outbox \in SUBSET Queueable
         /\ st.downloadIds \in [Keys -> Nat \cup {None}]
         /\ st.gap \in GapMessage \cup {None}
         /\ st.lastSequence \in Nat
         /\ st.lastPage \in Page \cup {None}
BY DEF Storage, Queueable

LEMMA StampShape ==
  ASSUME NEW st \in Storage
  PROVE  /\ Stamp(st) \in Storage
         /\ Stamp(st).lastSequence = st.lastSequence + 1
         /\ Stamp(st).outbox = st.outbox
         /\ Stamp(st).gap = st.gap
         /\ Stamp(st).downloadIds = st.downloadIds
         /\ Stamp(st).lastPage = st.lastPage
BY DEF Stamp, Storage

(* A noted gap reaches up to the last sequence number.                     *)
LEMMA NoteGapShape ==
  ASSUME NEW st \in Storage, NEW id \in Nat
  PROVE  /\ NoteGap(st, id) \in Storage
         /\ NoteGap(st, id).gap \in GapMessage
         /\ NoteGap(st, id).gap # None
         /\ NoteGap(st, id).gap.seq = st.lastSequence
         /\ NoteGap(st, id).gap.id = IF st.gap = None THEN id ELSE st.gap.id
         /\ NoteGap(st, id).lastSequence = st.lastSequence
         /\ NoteGap(st, id).outbox = st.outbox
         /\ NoteGap(st, id).downloadIds = st.downloadIds
         /\ NoteGap(st, id).lastPage = st.lastPage
<1> DEFINE g == IF st.gap = None THEN [kind |-> "gap", id |-> id, seq |-> st.lastSequence]
                ELSE [st.gap EXCEPT !.seq = st.lastSequence]
<1>1. g \in GapMessage /\ g.seq = st.lastSequence /\ g.id = (IF st.gap = None THEN id ELSE st.gap.id)
  BY DEF Storage, GapMessage
<1>2. NoteGap(st, id) = [st EXCEPT !.gap = g]
  BY DEF NoteGap
<1>3. g # None
  BY <1>1, NoneAssumption DEF Message
<1> HIDE DEF g
<1>4. QED BY <1>1, <1>2, <1>3 DEF Storage

(* Queueing puts one message into the outbox.                              *)
LEMMA QueueShape ==
  ASSUME NEW st \in Storage, NEW m \in Queueable
  PROVE  /\ [st EXCEPT !.outbox = @ \cup {m}] \in Storage
         /\ [st EXCEPT !.outbox = @ \cup {m}].outbox = st.outbox \cup {m}
         /\ [st EXCEPT !.outbox = @ \cup {m}].lastSequence = st.lastSequence
         /\ [st EXCEPT !.outbox = @ \cup {m}].gap = st.gap
         /\ [st EXCEPT !.outbox = @ \cup {m}].downloadIds = st.downloadIds
         /\ [st EXCEPT !.outbox = @ \cup {m}].lastPage = st.lastPage
BY DEF Storage, Queueable

LEMMA DownloadIdShape ==
  ASSUME NEW st \in Storage, NEW k \in Keys, NEW x \in Nat \cup {None}
  PROVE  /\ [st EXCEPT !.downloadIds[k] = x] \in Storage
         /\ [st EXCEPT !.downloadIds[k] = x].outbox = st.outbox
         /\ [st EXCEPT !.downloadIds[k] = x].lastSequence = st.lastSequence
         /\ [st EXCEPT !.downloadIds[k] = x].gap = st.gap
         /\ [st EXCEPT !.downloadIds[k] = x].downloadIds = [st.downloadIds EXCEPT ![k] = x]
         /\ [st EXCEPT !.downloadIds[k] = x].lastPage = st.lastPage
BY DEF Storage

LEMMA LastPageShape ==
  ASSUME NEW st \in Storage, NEW pg \in Page
  PROVE  /\ [st EXCEPT !.lastPage = pg] \in Storage
         /\ [st EXCEPT !.lastPage = pg].outbox = st.outbox
         /\ [st EXCEPT !.lastPage = pg].lastSequence = st.lastSequence
         /\ [st EXCEPT !.lastPage = pg].gap = st.gap
         /\ [st EXCEPT !.lastPage = pg].downloadIds = st.downloadIds
         /\ [st EXCEPT !.lastPage = pg].lastPage = pg
BY DEF Storage

-----------------------------------------------------------------------------
(* The two things an observation does.                                     *)

Observes ==
  /\ worker = "idle" /\ worker' = "flush"
  /\ UNCHANGED <<sent, answered, alarm, wire, log, checkpoint>>
  /\ storage' \in Storage
  /\ storage'.lastSequence = storage.lastSequence + 1
  /\ fresh' \in Nat /\ fresh <= fresh'

(* It is queued under an identifier nobody has seen ...                    *)
Enqueues(m) ==
  /\ Observes
  /\ ~Full(storage)
  /\ m \in Queueable
  /\ m.seq = storage.lastSequence + 1
  /\ m.id < fresh'
  /\ \A q \in Known : q.id # m.id
  /\ storage.gap # None => storage.gap.id # m.id
  /\ storage'.outbox = storage.outbox \cup {m}
  /\ storage'.gap = storage.gap
  /\ \A k \in Keys :
       \/ storage'.downloadIds[k] = storage.downloadIds[k] /\ storage.downloadIds[k] # m.id
       \/ storage'.downloadIds[k] = m.id /\ m.kind = "download" /\ m.body = k

(* ... or it extends the gap.                                              *)
Drops ==
  /\ Observes
  /\ Full(storage)
  /\ storage'.outbox = storage.outbox
  /\ storage'.gap # None
  /\ storage'.gap.seq = storage'.lastSequence
  /\ storage'.gap.id < fresh'
  /\ \A m \in Known : NotGap(m) => m.id # storage'.gap.id
  /\ \A k \in Keys :
       \/ storage'.downloadIds[k] = None
       \/ /\ storage'.downloadIds[k] = storage.downloadIds[k]
          /\ storage.downloadIds[k] # storage'.gap.id

(* A new gap takes a new identifier, a standing one keeps its own.         *)
GapIdUnused(id) ==
  /\ id < fresh + 1
  /\ \A m \in Known : NotGap(m) => m.id # id
  /\ \A k \in Keys : storage.downloadIds[k] # None => storage.downloadIds[k] # id

LEMMA GapIdIsUnused ==
  ASSUME TypeOK, SentInv
  PROVE  GapIdUnused(IF storage.gap = None THEN fresh ELSE storage.gap.id)
<1>1. fresh \in Nat
  BY DEF TypeOK
<1>2. CASE storage.gap = None
  BY <1>1, <1>2 DEF GapIdUnused, SentInv, Numbered, OneDownload
<1>3. CASE storage.gap # None
  <2>1. storage.gap \in GapMessage
    BY <1>3, StorageShape DEF TypeOK
  <2>2. storage.gap.id \in Nat
    BY <2>1 DEF GapMessage
  <2>3. QED BY <1>1, <1>3, <2>2 DEF GapIdUnused, SentInv, Numbered, OneMessage, OneDownload
<1>4. QED BY <1>2, <1>3

LEMMA EnqueueCompletedShape ==
  ASSUME TypeOK, SentInv, NEW k \in Keys, EnqueueCompleted(k)
  PROVE  \E m : Enqueues(m) /\ m.kind = "download" /\ storage'.lastPage = storage.lastPage
<1> DEFINE x == DownloadId(k)
           m == [kind |-> "download", id |-> x, seq |-> storage.lastSequence + 1, body |-> k]
           queued == [Stamp(storage) EXCEPT !.outbox = @ \cup {m}]
<1>1. storage \in Storage /\ fresh \in Nat
  BY DEF TypeOK
<1>2. storage.downloadIds \in [Keys -> Nat \cup {None}] /\ storage.lastSequence \in Nat
  BY <1>1, StorageShape
<1>3. x \in Nat
  BY <1>1, <1>2 DEF DownloadId
<1>4. m \in Queueable /\ m.id = x /\ m.seq = storage.lastSequence + 1 /\ m.kind = "download" /\ m.body = k
  BY <1>2, <1>3 DEF Queueable, DownloadMessage
<1>5. storage' = [queued EXCEPT !.downloadIds[k] = x]
  BY <1>1, StampShape DEF EnqueueCompleted
<1> HIDE DEF m, x
<1>6. queued \in Storage /\ queued.outbox = storage.outbox \cup {m}
      /\ queued.lastSequence = storage.lastSequence + 1 /\ queued.gap = storage.gap
      /\ queued.downloadIds = storage.downloadIds /\ queued.lastPage = storage.lastPage
  BY <1>1, <1>4, StampShape, QueueShape
<1> HIDE DEF queued
<1>7. storage' \in Storage /\ storage'.outbox = storage.outbox \cup {m}
      /\ storage'.lastSequence = storage.lastSequence + 1 /\ storage'.gap = storage.gap
      /\ storage'.downloadIds = [storage.downloadIds EXCEPT ![k] = x]
      /\ storage'.lastPage = storage.lastPage
  BY <1>3, <1>5, <1>6, DownloadIdShape
<1>8. fresh' = (IF storage.downloadIds[k] = None THEN fresh + 1 ELSE fresh)
      /\ (\A q \in storage.outbox : q.id # x) /\ ~Full(storage)
      /\ worker = "idle" /\ worker' = "flush"
      /\ UNCHANGED <<sent, answered, alarm, wire, log, checkpoint>>
  BY DEF EnqueueCompleted, Begin, agentVars, x
<1>9. x = IF storage.downloadIds[k] = None THEN fresh ELSE storage.downloadIds[k]
  BY DEF x, DownloadId
<1>10. x < fresh' /\ fresh' \in Nat /\ fresh <= fresh'
  BY <1>1, <1>2, <1>8, <1>9 DEF SentInv, OneDownload
<1>11. (\A q \in Known : q.id # x) /\ (storage.gap # None => storage.gap.id # x)
  <2>1. CASE storage.downloadIds[k] = None
    <3>1. x = fresh
      BY <1>9, <2>1
    <3>2. QED BY <1>1, <3>1 DEF SentInv, Numbered
  <2>2. CASE storage.downloadIds[k] # None
    BY <1>8, <1>9, <2>2 DEF SentInv, OneDownload
  <2>3. QED BY <2>1, <2>2
<1>12. \A j \in Keys : j # k => storage.downloadIds[j] # x
  <2>1. CASE storage.downloadIds[k] = None
    <3>1. x = fresh
      BY <1>9, <2>1
    <3>2. fresh # None /\ ~(fresh < fresh)
      BY <1>1, NoneAssumption
    <3>3. QED BY <3>1, <3>2 DEF SentInv, OneDownload
  <2>2. CASE storage.downloadIds[k] # None
    BY <1>9, <2>2 DEF SentInv, OneDownload
  <2>3. QED BY <2>1, <2>2
<1>13. \A j \in Keys :
         \/ storage'.downloadIds[j] = storage.downloadIds[j] /\ storage.downloadIds[j] # m.id
         \/ storage'.downloadIds[j] = m.id /\ m.kind = "download" /\ m.body = j
  BY <1>2, <1>4, <1>7, <1>12
<1>14. Observes
  BY <1>7, <1>8, <1>10 DEF Observes
<1>15. Enqueues(m)
  BY <1>4, <1>7, <1>8, <1>10, <1>11, <1>13, <1>14 DEF Enqueues
<1>16. QED BY <1>4, <1>7, <1>15

LEMMA DropCompletedShape ==
  ASSUME TypeOK, SentInv, NEW k \in Keys, DropCompleted(k)
  PROVE  Drops /\ storage'.lastPage = storage.lastPage
<1> DEFINE noted == NoteGap(Stamp(storage), fresh)
<1>1. storage \in Storage /\ fresh \in Nat
  BY DEF TypeOK
<1>2. storage.downloadIds \in [Keys -> Nat \cup {None}] /\ storage.lastSequence \in Nat
  BY <1>1, StorageShape
<1>3. noted \in Storage /\ noted.gap # None /\ noted.gap.seq = storage.lastSequence + 1
      /\ noted.gap.id = (IF storage.gap = None THEN fresh ELSE storage.gap.id)
      /\ noted.lastSequence = storage.lastSequence + 1 /\ noted.outbox = storage.outbox
      /\ noted.downloadIds = storage.downloadIds /\ noted.lastPage = storage.lastPage
  BY <1>1, StampShape, NoteGapShape
<1>4. storage' = [noted EXCEPT !.downloadIds[k] = None] /\ fresh' = fresh + 1 /\ Full(storage)
      /\ worker = "idle" /\ worker' = "flush"
      /\ UNCHANGED <<sent, answered, alarm, wire, log, checkpoint>>
  BY DEF DropCompleted, Begin, agentVars
<1> HIDE DEF noted
<1>5. storage' \in Storage /\ storage'.outbox = storage.outbox
      /\ storage'.lastSequence = storage.lastSequence + 1 /\ storage'.gap = noted.gap
      /\ storage'.downloadIds = [storage.downloadIds EXCEPT ![k] = None]
      /\ storage'.lastPage = storage.lastPage
  BY <1>3, <1>4, DownloadIdShape
<1>6. Observes
  BY <1>1, <1>4, <1>5 DEF Observes
<1>7. GapIdUnused(storage'.gap.id)
  BY <1>1, <1>3, <1>5, GapIdIsUnused
<1>8. \A j \in Keys :
        \/ storage'.downloadIds[j] = None
        \/ storage'.downloadIds[j] = storage.downloadIds[j] /\ storage.downloadIds[j] # storage'.gap.id
  BY <1>2, <1>5, <1>7 DEF GapIdUnused
<1>9. QED BY <1>3, <1>4, <1>5, <1>6, <1>7, <1>8 DEF Drops, GapIdUnused

(* A page is queued or becomes part of the gap, and is remembered.         *)
LEMMA PageSeenShape ==
  ASSUME TypeOK, SentInv, NEW pg \in Page, Begin,
         storage' = PageSeen(storage, pg), fresh' = fresh + 1, UNCHANGED <<wire, agentVars>>
  PROVE  /\ storage'.lastPage = pg
         /\ \/ Drops
            \/ \E m : Enqueues(m) /\ m.kind = "page" /\ m.body = pg
<1> DEFINE stamped == [Stamp(storage) EXCEPT !.lastPage = pg]
           m == [kind |-> "page", id |-> fresh, seq |-> storage.lastSequence + 1, body |-> pg]
           noted == NoteGap(stamped, fresh)
           queued == [stamped EXCEPT !.outbox = @ \cup {m}]
<1>1. storage \in Storage /\ fresh \in Nat
  BY DEF TypeOK
<1>2. storage.downloadIds \in [Keys -> Nat \cup {None}] /\ storage.lastSequence \in Nat
  BY <1>1, StorageShape
<1>3. stamped \in Storage /\ stamped.outbox = storage.outbox
      /\ stamped.lastSequence = storage.lastSequence + 1 /\ stamped.gap = storage.gap
      /\ stamped.downloadIds = storage.downloadIds /\ stamped.lastPage = pg
  BY <1>1, StampShape, LastPageShape
<1>4. m \in Queueable /\ m.id = fresh /\ m.seq = storage.lastSequence + 1 /\ m.kind = "page" /\ m.body = pg
  BY <1>1, <1>2 DEF Queueable, PageMessage
<1>5. storage' = IF Full(storage) THEN noted ELSE queued
  BY <1>3 DEF PageSeen
<1>6. fresh' = fresh + 1 /\ worker = "idle" /\ worker' = "flush"
      /\ UNCHANGED <<sent, answered, alarm, wire, log, checkpoint>>
  BY DEF Begin, agentVars
<1> HIDE DEF stamped, m
<1>7. CASE Full(storage)
  <2>1. noted \in Storage /\ noted.gap # None /\ noted.gap.seq = storage.lastSequence + 1
        /\ noted.gap.id = (IF storage.gap = None THEN fresh ELSE storage.gap.id)
        /\ noted.lastSequence = storage.lastSequence + 1 /\ noted.outbox = storage.outbox
        /\ noted.downloadIds = storage.downloadIds /\ noted.lastPage = pg
    BY <1>1, <1>3, NoteGapShape
  <2>2. storage' = noted
    BY <1>5, <1>7
  <2> HIDE DEF noted
  <2>3. Observes
    BY <1>1, <1>6, <2>1, <2>2 DEF Observes
  <2>4. GapIdUnused(storage'.gap.id)
    BY <1>1, <2>1, <2>2, <1>6, GapIdIsUnused
  <2>5. Drops
    BY <1>2, <1>6, <1>7, <2>1, <2>2, <2>3, <2>4 DEF Drops, GapIdUnused
  <2>6. QED BY <2>1, <2>2, <2>5
<1>8. CASE ~Full(storage)
  <2>1. queued \in Storage /\ queued.outbox = storage.outbox \cup {m}
        /\ queued.lastSequence = storage.lastSequence + 1 /\ queued.gap = storage.gap
        /\ queued.downloadIds = storage.downloadIds /\ queued.lastPage = pg
    BY <1>3, <1>4, QueueShape
  <2>2. storage' = queued
    BY <1>5, <1>8
  <2> HIDE DEF queued
  <2>3. Observes
    BY <1>1, <1>6, <2>1, <2>2 DEF Observes
  <2>4. (\A q \in Known : q.id # fresh) /\ (storage.gap # None => storage.gap.id # fresh)
    BY <1>1 DEF SentInv, Numbered
  <2>5. \A j \in Keys : storage.downloadIds[j] # fresh
    <3>1. fresh # None /\ ~(fresh < fresh)
      BY <1>1, NoneAssumption
    <3>2. QED BY <3>1 DEF SentInv, OneDownload
  <2>6. Enqueues(m)
    BY <1>1, <1>4, <1>6, <1>8, <2>1, <2>2, <2>3, <2>4, <2>5 DEF Enqueues
  <2>7. QED BY <1>4, <2>1, <2>2, <2>6
<1>9. QED BY <1>7, <1>8

-----------------------------------------------------------------------------
(* Both keep what the invariant says of messages.                          *)

LEMMA KnownShape ==
  ASSUME TypeOK
  PROVE  /\ Known \subseteq Message
         /\ storage.outbox \subseteq Queueable
         /\ Logged \subseteq Message /\ Carried \subseteq Message
<1>1. storage.outbox \subseteq Queueable
  BY StorageShape DEF TypeOK
<1>2. Carried \subseteq Message
  BY DEF TypeOK, Carried
<1>3. Logged \subseteq Message
  BY DEF TypeOK, Logged
<1>4. QED BY <1>1, <1>2, <1>3, QueueableShape DEF Known

LEMMA EnqueuesKeeps ==
  ASSUME TypeOK, SentInv, NEW m, Enqueues(m)
  PROVE  TypeOK' /\ SentInv'
<1> USE DEF SentInv
<1>1. TypeOK'
  BY DEF Enqueues, Observes, TypeOK
<1>2. storage \in Storage /\ storage.lastSequence \in Nat /\ fresh \in Nat /\ fresh' \in Nat
      /\ m \in Message /\ NotGap(m) /\ m.id \in Nat /\ m.seq \in Nat
      /\ (storage.gap # None => storage.gap.id \in Nat)
      /\ (\A q \in Known : q.id \in Nat /\ q.seq \in Nat)
  <2>1. storage \in Storage /\ storage.lastSequence \in Nat /\ fresh \in Nat
    BY StorageShape DEF TypeOK
  <2>2. m \in Message /\ NotGap(m)
    BY QueueableShape DEF Enqueues
  <2>3. storage.gap # None => storage.gap.id \in Nat
    BY <2>1, StorageShape DEF GapMessage
  <2>4. QED BY <2>1, <2>2, <2>3, KnownShape, MessageShape DEF Enqueues, Observes
<1>3. /\ Logged' = Logged /\ Carried' = Carried /\ Known' = Known \cup {m}
      /\ storage'.outbox = storage.outbox \cup {m} /\ storage'.gap = storage.gap
      /\ m.seq = storage.lastSequence + 1 /\ storage'.lastSequence = storage.lastSequence + 1
      /\ m.id < fresh' /\ fresh <= fresh' /\ (\A q \in Known : q.id # m.id)
      /\ (storage.gap # None => storage.gap.id # m.id)
  BY DEF Enqueues, Observes, Logged, Carried, Known
<1>4. Numbered'
  BY <1>2, <1>3 DEF Numbered
<1>5. OneMessage'
  <2>1. \A q \in Known : NotGap(q) => q.seq # m.seq
    BY <1>2, <1>3 DEF Numbered
  <2>2. QED BY <1>3, <2>1 DEF OneMessage
<1>6. OneDownload'
  <2>1. SUFFICES ASSUME NEW k \in Keys, storage'.downloadIds[k] # None
                 PROVE  LET x == storage'.downloadIds[k]
                        IN /\ x < fresh'
                           /\ \A j \in Keys : storage'.downloadIds[j] = x => j = k
                           /\ \A n \in Known' : n.id = x =>
                                n \in storage'.outbox /\ n.kind = "download" /\ n.body = k
                           /\ storage'.gap # None => storage'.gap.id # x
    BY DEF OneDownload
  <2>2. \A j \in Keys :
          \/ storage'.downloadIds[j] = storage.downloadIds[j] /\ storage.downloadIds[j] # m.id
          \/ storage'.downloadIds[j] = m.id /\ m.kind = "download" /\ m.body = j
    BY DEF Enqueues
  <2>3. CASE storage'.downloadIds[k] = storage.downloadIds[k] /\ storage.downloadIds[k] # m.id
    <3>1. storage.downloadIds[k] \in Nat
      BY <1>2, <2>1, <2>3, StorageShape
    <3>2. QED BY <1>2, <1>3, <2>1, <2>2, <2>3, <3>1 DEF OneDownload
  <2>4. CASE storage'.downloadIds[k] = m.id /\ m.kind = "download" /\ m.body = k
    BY <1>3, <2>2, <2>4
  <2>5. QED BY <2>2, <2>3, <2>4
<1>7. OldestFirst'
  <2>1. \A q \in Carried \cup Logged : NotGap(q) => q.seq <= m.seq
    BY <1>2, <1>3 DEF Numbered, Known
  <2>2. QED BY <1>3, <2>1 DEF OldestFirst
<1>8. Awaited'
  BY DEF Awaited, Enqueues, Observes
<1>9. QED BY <1>1, <1>4, <1>5, <1>6, <1>7, <1>8

LEMMA DropsKeeps ==
  ASSUME TypeOK, SentInv, Drops
  PROVE  TypeOK' /\ SentInv'
<1> USE DEF SentInv
<1>1. TypeOK'
  BY DEF Drops, Observes, TypeOK
<1>2. storage \in Storage /\ storage.lastSequence \in Nat /\ fresh \in Nat /\ fresh' \in Nat
      /\ (\A q \in Known : q.id \in Nat /\ q.seq \in Nat)
  BY StorageShape, KnownShape, MessageShape DEF TypeOK, Drops, Observes
<1>3. /\ Logged' = Logged /\ Carried' = Carried /\ Known' = Known
      /\ storage'.outbox = storage.outbox /\ storage'.gap # None
      /\ storage'.lastSequence = storage.lastSequence + 1 /\ fresh <= fresh'
      /\ storage'.gap.id < fresh' /\ (\A q \in Known : NotGap(q) => q.id # storage'.gap.id)
  BY DEF Drops, Observes, Logged, Carried, Known
<1>4. Numbered'
  BY <1>2, <1>3 DEF Numbered
<1>5. OneMessage'
  BY <1>3 DEF OneMessage
<1>6. OneDownload'
  <2>1. \A k \in Keys : storage'.downloadIds[k] # None =>
          /\ storage'.downloadIds[k] = storage.downloadIds[k]
          /\ storage.downloadIds[k] # storage'.gap.id
          /\ storage.downloadIds[k] \in Nat
    BY <1>2, StorageShape DEF Drops
  <2>2. QED BY <1>2, <1>3, <2>1 DEF OneDownload
<1>7. OldestFirst'
  BY <1>3 DEF OldestFirst
<1>8. Awaited'
  BY DEF Awaited, Drops, Observes
<1>9. QED BY <1>1, <1>4, <1>5, <1>6, <1>7, <1>8

-----------------------------------------------------------------------------
(* The steps of the flush, the host and the agent.                         *)

(* What only moves the worker between awaits keeps the messages.           *)
LEMMA MessagesKeep ==
  ASSUME TypeOK, SentInv, UNCHANGED <<storage, log>>, fresh' = fresh, Carried' \subseteq Carried
  PROVE  Numbered' /\ OneMessage' /\ OneDownload' /\ OldestFirst'
<1> USE DEF SentInv
<1>1. Logged' = Logged /\ Known' \subseteq Known
  BY DEF Logged, Known
<1>2. QED BY <1>1 DEF Numbered, OneMessage, OneDownload, OldestFirst

LEMMA OrphanedShape ==
  ASSUME TypeOK, wire' = Orphaned
  PROVE  /\ wire' \in SUBSET [msg : Message, live : BOOLEAN]
         /\ Carried' \subseteq Carried
         /\ \A w \in wire' : ~w.live
<1>1. \A w \in wire : w \in [msg : Message, live : BOOLEAN]
  BY DEF TypeOK
<1>2. \A v \in wire' : \E w \in wire : v = [msg |-> w.msg, live |-> FALSE]
  BY DEF Orphaned
<1>3. \A w \in wire : w.msg \in Message /\ w.msg \in Carried
  BY <1>1 DEF Carried
<1>4. ASSUME NEW v \in wire'
      PROVE  v \in [msg : Message, live : BOOLEAN] /\ v.live = FALSE /\ v.msg \in Carried
  <2>1. PICK w \in wire : v = [msg |-> w.msg, live |-> FALSE]
    BY <1>2
  <2>2. v.msg = w.msg
    BY <2>1
  <2>3. v.live = FALSE
    BY <2>1
  <2>4. v \in [msg : Message, live : BOOLEAN]
    BY <1>3, <2>1
  <2>5. QED BY <1>3, <2>2, <2>3, <2>4
<1>5. QED BY <1>4 DEF Carried

LEMMA SendShape ==
  ASSUME TypeOK, SentInv, NEW m \in Message, Send(m),
         \/ NotGap(m) /\ m \in storage.outbox /\ \A q \in storage.outbox : m.seq <= q.seq
         \/ ~NotGap(m) /\ m = storage.gap /\ storage.gap # None
  PROVE  TypeOK' /\ SentInv'
<1> USE DEF SentInv
<1> DEFINE w0 == [msg |-> m, live |-> TRUE]
<1>1. /\ wire' = wire \cup {w0} /\ sent' = m /\ answered' = FALSE /\ worker = "flush" /\ worker' = "await"
      /\ UNCHANGED <<storage, fresh, alarm, log, checkpoint>>
  BY DEF Send, agentVars
<1>2. TypeOK'
  <2>1. w0 \in [msg : Message, live : BOOLEAN]
    OBVIOUS
  <2> HIDE DEF w0
  <2>2. QED BY <1>1, <2>1 DEF TypeOK
<1>3. Carried' = Carried \cup {m} /\ Logged' = Logged
  <2>1. w0.msg = m
    OBVIOUS
  <2> HIDE DEF w0
  <2>2. QED BY <1>1, <2>1 DEF Carried, Logged
<1>4. Known' = Known \cup {m}
  BY <1>1, <1>3 DEF Known
<1>5. Awaited'
  BY <1>1, MessageShape DEF Awaited
<1>6. CASE NotGap(m)
  <2>1. Known' = Known /\ m \in storage.outbox
    BY <1>4, <1>6 DEF Known
  <2>2. Numbered' /\ OneMessage' /\ OneDownload'
    BY <1>1, <2>1 DEF Numbered, OneMessage, OneDownload
  <2>3. OldestFirst'
    BY <1>1, <1>3, <1>6 DEF OldestFirst
  <2>4. QED BY <1>2, <1>5, <2>2, <2>3
<1>7. CASE ~NotGap(m)
  <2>1. m = storage.gap /\ storage.gap # None
    BY <1>7
  <2>2. Numbered' /\ OneMessage'
    BY <1>1, <1>4, <1>7, <2>1 DEF Numbered, OneMessage
  <2>3. OneDownload'
    BY <1>1, <1>4, <2>1 DEF OneDownload
  <2>4. OldestFirst'
    BY <1>1, <1>3, <1>7 DEF OldestFirst
  <2>5. QED BY <1>2, <1>5, <2>2, <2>3, <2>4
<1>8. QED BY <1>6, <1>7

(* What was acknowledged is in the log, or its gap is on the checkpoint.   *)
LEMMA AcknowledgedShape ==
  ASSUME TypeOK, SentInv, Acknowledged
  PROVE  /\ storage' \in Storage
         /\ storage'.lastSequence = storage.lastSequence
         /\ storage'.lastPage = storage.lastPage
         /\ \/ /\ NotGap(sent) /\ sent \in storage.outbox /\ sent \in Logged
               /\ storage'.outbox = storage.outbox \ {sent}
               /\ storage'.gap = storage.gap
            \/ /\ ~NotGap(sent) /\ storage.gap = sent /\ storage'.gap = None
               /\ checkpoint.required /\ storage.gap.seq <= checkpoint.last
               /\ storage'.outbox = storage.outbox
         /\ \A k \in Keys :
              \/ storage'.downloadIds[k] = None
              \/ /\ storage'.downloadIds[k] = storage.downloadIds[k]
                 /\ sent.kind = "download" => sent.body # k
<1> USE DEF SentInv
<1>1. worker = "await" /\ answered /\ sent # None /\ sent \in Message /\ storage \in Storage
  BY DEF Acknowledged, Awaited, TypeOK
<1>2. CASE sent.kind = "gap"
  <2>1. storage' = [storage EXCEPT !.gap = None]
    BY <1>2 DEF Acknowledged
  <2>2. ~NotGap(sent) /\ sent = storage.gap /\ checkpoint.required /\ sent.seq <= checkpoint.last
    BY <1>1, <1>2 DEF Awaited, NotGap
  <2>3. QED BY <1>1, <1>2, <2>1, <2>2 DEF Storage
<1>3. CASE sent.kind = "page"
  <2>1. storage' = [storage EXCEPT !.outbox = @ \ {sent}]
    BY <1>3 DEF Acknowledged
  <2>2. NotGap(sent) /\ sent \in storage.outbox /\ sent \in Logged
    BY <1>1, <1>3 DEF Awaited, NotGap
  <2>3. QED BY <1>1, <1>3, <2>1, <2>2 DEF Storage
<1>4. CASE sent.kind = "download"
  <2> DEFINE popped == [storage EXCEPT !.outbox = @ \ {sent}]
  <2>1. storage' = [popped EXCEPT !.downloadIds[sent.body] = None]
    BY <1>4 DEF Acknowledged
  <2>2. NotGap(sent) /\ sent \in storage.outbox /\ sent \in Logged /\ sent.body \in Keys
    BY <1>1, <1>4, MessageShape DEF Awaited, NotGap
  <2>3. popped \in Storage /\ popped.outbox = storage.outbox \ {sent} /\ popped.gap = storage.gap
        /\ popped.lastSequence = storage.lastSequence /\ popped.lastPage = storage.lastPage
        /\ popped.downloadIds = storage.downloadIds
    BY <1>1 DEF Storage
  <2> HIDE DEF popped
  <2>4. storage' \in Storage /\ storage'.outbox = popped.outbox /\ storage'.gap = popped.gap
        /\ storage'.lastSequence = popped.lastSequence /\ storage'.lastPage = popped.lastPage
        /\ storage'.downloadIds = [popped.downloadIds EXCEPT ![sent.body] = None]
    BY <2>1, <2>2, <2>3, DownloadIdShape
  <2>5. popped.downloadIds \in [Keys -> Nat \cup {None}]
    BY <2>3, StorageShape
  <2>6. QED BY <2>2, <2>3, <2>4, <2>5
<1>5. QED BY <1>1, <1>2, <1>3, <1>4, MessageShape

LEMMA AcknowledgedKeeps ==
  ASSUME TypeOK, SentInv, Acknowledged
  PROVE  TypeOK' /\ SentInv'
<1> USE DEF SentInv
<1>1. /\ worker' = "flush" /\ sent' = None /\ answered' = FALSE
      /\ UNCHANGED <<fresh, alarm, wire, log, checkpoint>>
      /\ worker = "await" /\ answered
  BY DEF Acknowledged, agentVars
<1>2. storage' \in Storage
  BY AcknowledgedShape
<1>3. TypeOK'
  BY <1>1, <1>2 DEF TypeOK
<1>4. Logged' = Logged /\ Carried' = Carried
  BY <1>1 DEF Logged, Carried
<1>5. storage'.outbox \subseteq storage.outbox
  BY AcknowledgedShape
<1>6. storage'.gap = None \/ storage'.gap = storage.gap
  BY AcknowledgedShape
<1>7. Known' \subseteq Known
  BY <1>4, <1>5 DEF Known
<1>8. Numbered' /\ OneMessage'
  BY <1>1, <1>6, <1>7, AcknowledgedShape DEF Numbered, OneMessage
<1>9. OneDownload'
  <2>1. \A k \in Keys : storage'.downloadIds[k] # None =>
          /\ storage'.downloadIds[k] = storage.downloadIds[k]
          /\ sent.kind = "download" => sent.body # k
    BY AcknowledgedShape
  <2>2. \A m \in storage.outbox : m = sent \/ m \in storage'.outbox
    BY AcknowledgedShape
  <2>3. QED BY <1>1, <1>6, <1>7, <2>1, <2>2 DEF OneDownload
<1>10. OldestFirst'
  <2>1. \A m \in storage.outbox \cup Logged : m \in storage'.outbox \cup Logged
    BY AcknowledgedShape
  <2>2. QED BY <1>4, <1>5, <2>1 DEF OldestFirst
<1>11. Awaited'
  <2>1. \A w \in wire : ~w.live
    BY <1>1 DEF Awaited
  <2>2. QED BY <1>1, <2>1 DEF Awaited
<1>12. QED BY <1>3, <1>8, <1>9, <1>10, <1>11

(* The agent stores a message once, and its checkpoint never falls back.   *)
LEMMA SubmitShape ==
  ASSUME TypeOK, NEW w \in wire, Submit(w)
  PROVE  /\ w.msg \in Message /\ w.msg \in Carried
         /\ log' \in Seq(Message)
         /\ w.msg.id \in LogIds => log' = log
         /\ w.msg.id \notin LogIds => log' = Append(log, w.msg)
         /\ w.msg.id \notin LogIds => w.msg \notin Logged
         /\ Logged \subseteq Logged' /\ Logged' \subseteq Logged \cup {w.msg}
         /\ w.msg.id \notin LogIds => w.msg \in Logged'
         /\ Carried' \subseteq Carried
         /\ wire' = wire \ {w}
         /\ UNCHANGED <<storage, fresh, worker, sent, alarm>>
<1>1. w.msg \in Message /\ w.msg \in Carried
  BY DEF TypeOK, Carried
<1>2. wire' = wire \ {w} /\ UNCHANGED <<storage, fresh, worker, sent, alarm>>
  BY DEF Submit
<1>3. Carried' \subseteq Carried
  BY <1>2 DEF Carried
<1>4. CASE w.msg.id \in LogIds
  <2>1. log' = log
    BY <1>4 DEF Submit
  <2>2. QED BY <1>1, <1>2, <1>3, <1>4, <2>1 DEF TypeOK, Logged
<1>5. CASE w.msg.id \notin LogIds
  <2>1. log' = Append(log, w.msg) /\ log \in Seq(Message)
    BY <1>5 DEF Submit, TypeOK
  <2>2. log' \in Seq(Message) /\ DOMAIN log' = DOMAIN log \cup {Len(log) + 1}
        /\ log'[Len(log) + 1] = w.msg /\ (\A i \in DOMAIN log : log'[i] = log[i])
    BY <1>1, <2>1
  <2>3. w.msg \notin Logged
    BY <1>5 DEF Logged, LogIds
  <2>4. Logged' = Logged \cup {w.msg}
    BY <2>2 DEF Logged
  <2>5. QED BY <1>1, <1>2, <1>3, <1>5, <2>1, <2>2, <2>3, <2>4
<1>6. QED BY <1>4, <1>5

LEMMA CheckpointShape ==
  ASSUME TypeOK, NEW m \in Message
  PROVE  /\ Checkpointed(m) \in [last : Nat, required : BOOLEAN]
         /\ Checkpointed(m).last >= checkpoint.last
         /\ checkpoint.required => Checkpointed(m).required
         /\ ~NotGap(m) => Checkpointed(m).required /\ Checkpointed(m).last >= m.seq
<1> DEFINE last == IF m.seq >= checkpoint.last THEN m.seq ELSE checkpoint.last
           required == checkpoint.required \/ m.kind = "gap"
<1>1. checkpoint \in [last : Nat, required : BOOLEAN] /\ m.seq \in Nat
  BY MessageShape DEF TypeOK
<1>2. checkpoint.last \in Nat /\ checkpoint.required \in BOOLEAN
  BY <1>1
<1>3. last \in Nat /\ last >= checkpoint.last /\ last >= m.seq
  BY <1>1, <1>2
<1>4. required \in BOOLEAN /\ (checkpoint.required => required) /\ (~NotGap(m) => required)
  BY <1>2, MessageShape
<1>5. Checkpointed(m) = IF SubmittedAsV2(m) /\ m.id \in LogIds THEN checkpoint
                        ELSE [last |-> last, required |-> required]
  BY DEF Checkpointed
<1> HIDE DEF last, required
<1>6. CASE SubmittedAsV2(m) /\ m.id \in LogIds
  <2>1. NotGap(m)
    BY <1>6 DEF SubmittedAsV2, NotGap
  <2>2. Checkpointed(m) = checkpoint
    BY <1>5, <1>6
  <2>3. QED BY <1>1, <1>2, <2>1, <2>2
<1>7. CASE ~(SubmittedAsV2(m) /\ m.id \in LogIds)
  <2>1. Checkpointed(m) = [last |-> last, required |-> required]
    BY <1>5, <1>7
  <2>2. Checkpointed(m).last = last
    BY <2>1
  <2>3. Checkpointed(m).required = required
    BY <2>1
  <2>4. Checkpointed(m) \in [last : Nat, required : BOOLEAN]
    BY <1>3, <1>4, <2>1
  <2>5. Checkpointed(m).required \in BOOLEAN /\ (checkpoint.required => Checkpointed(m).required)
        /\ (~NotGap(m) => Checkpointed(m).required)
    BY <1>4, <2>3, Zenon
  <2>6. QED BY <1>3, <2>2, <2>4, <2>5
<1>8. QED BY <1>6, <1>7

LEMMA SubmitKeeps ==
  ASSUME TypeOK, SentInv, NEW w \in wire, Submit(w)
  PROVE  TypeOK' /\ SentInv'
<1> USE DEF SentInv
<1>1. w.msg \in Message /\ w.msg \in Carried
  BY SubmitShape
<1>2. checkpoint' = Checkpointed(w.msg) /\ answered' = (answered \/ w.live)
  BY DEF Submit
<1>3. checkpoint' \in [last : Nat, required : BOOLEAN] /\ checkpoint'.last >= checkpoint.last
      /\ (checkpoint.required => checkpoint'.required)
      /\ (~NotGap(w.msg) => checkpoint'.required /\ checkpoint'.last >= w.msg.seq)
  BY <1>1, <1>2, CheckpointShape
<1>4. UNCHANGED <<storage, fresh, worker, sent, alarm>> /\ wire' = wire \ {w} /\ log' \in Seq(Message)
  BY SubmitShape
<1>5. TypeOK'
  BY <1>2, <1>3, <1>4 DEF TypeOK
<1>6. Carried' \subseteq Carried /\ Logged \subseteq Logged' /\ Logged' \subseteq Logged \cup Carried
  BY <1>1, SubmitShape
<1>7. Known' \subseteq Known
  BY <1>4, <1>6 DEF Known
<1>8. Numbered' /\ OneMessage'
  BY <1>4, <1>7 DEF Numbered, OneMessage
<1>9. OneDownload'
  BY <1>4, <1>7 DEF OneDownload
<1>10. OldestFirst'
  <2>1. Carried' \cup Logged' \subseteq Carried \cup Logged
    BY <1>6
  <2>2. storage.outbox \cup Logged \subseteq storage'.outbox \cup Logged'
    BY <1>4, <1>6
  <2>3. QED BY <1>4, <1>6, <2>1, <2>2 DEF OldestFirst
<1>11. NotGap(w.msg) => w.msg \in Logged'
  <2>1. CASE w.msg.id \notin LogIds
    BY <2>1, SubmitShape
  <2>2. CASE w.msg.id \in LogIds
    <3>1. PICK i \in DOMAIN log : log[i].id = w.msg.id
      BY <2>2 DEF LogIds
    <3>2. log[i] \in Logged /\ log[i] \in Known /\ w.msg \in Known
      BY <1>1 DEF Logged, Known
    <3>3. QED BY <1>6, <3>1, <3>2 DEF OneMessage
  <2>3. QED BY <2>1, <2>2
<1>12. Awaited'
  <2>1. \A v \in wire' : v.live => worker = "await" /\ v.msg = sent
    BY <1>4 DEF Awaited
  <2>2. CASE w.live
    <3>1. worker = "await" /\ w.msg = sent /\ sent # None /\ worker' = "await" /\ sent' = sent
      BY <1>4, <2>2 DEF Awaited
    <3>2. \A v \in wire' : ~v.live
      <4>1. SUFFICES ASSUME NEW v \in wire', v.live
                     PROVE  FALSE
        OBVIOUS
      <4>2. v \in wire /\ v # w /\ v.msg = w.msg
        BY <1>4, <2>1, <3>1, <4>1
      <4>3. v.live \in BOOLEAN /\ w.live \in BOOLEAN
        BY <4>2 DEF TypeOK
      <4>4. v.live = w.live
        BY <2>2, <4>1, <4>3, Zenon
      <4>5. v = [msg |-> v.msg, live |-> v.live] /\ w = [msg |-> w.msg, live |-> w.live]
        BY <4>2 DEF TypeOK
      <4>6. QED BY <4>2, <4>4, <4>5
    <3>3. CASE NotGap(sent)
      <4>1. sent \in storage.outbox /\ sent \in Logged'
        BY <1>11, <3>1, <3>3 DEF Awaited
      <4>2. QED BY <1>4, <3>1, <3>2, <3>3, <4>1 DEF Awaited
    <3>4. CASE ~NotGap(sent)
      <4>1. sent = storage.gap /\ checkpoint'.required /\ sent.seq <= checkpoint'.last
        <5>1. sent = storage.gap
          BY <3>1, <3>4 DEF Awaited
        <5>2. checkpoint'.required /\ checkpoint'.last >= sent.seq
          BY <1>3, <3>1, <3>4
        <5>3. checkpoint'.last \in Nat /\ sent.seq \in Nat
          BY <1>1, <1>3, <3>1, MessageShape
        <5>4. QED BY <5>1, <5>2, <5>3
      <4>2. QED BY <1>4, <3>1, <3>2, <3>4, <4>1 DEF Awaited
    <3>5. QED BY <3>3, <3>4
  <2>3. CASE ~w.live
    <3>1. answered' => answered
      BY <1>2, <2>3, Zenon
    <3>2. CASE answered
      <4>1. worker = "await" /\ \A v \in wire : ~v.live
        BY <3>2 DEF Awaited
      <4>2. NotGap(sent) => sent \in Logged'
        BY <1>6, <3>2, <4>1 DEF Awaited
      <4>3. ~NotGap(sent) => checkpoint'.required /\ sent.seq <= checkpoint'.last
        <5>1. SUFFICES ASSUME ~NotGap(sent)
                       PROVE  checkpoint'.required /\ sent.seq <= checkpoint'.last
          OBVIOUS
        <5>2. checkpoint.required /\ sent.seq <= checkpoint.last
          BY <3>2, <4>1, <5>1 DEF Awaited
        <5>3. checkpoint.last \in Nat /\ checkpoint'.last \in Nat /\ sent.seq \in Nat
          BY <1>3, <4>1, MessageShape DEF TypeOK, Awaited
        <5>4. QED BY <1>3, <5>2, <5>3
      <4>4. QED BY <1>4, <4>1, <4>2, <4>3 DEF Awaited
    <3>3. CASE ~answered
      BY <1>4, <2>1, <3>1, <3>3 DEF Awaited
    <3>4. QED BY <3>2, <3>3
  <2>4. QED BY <2>2, <2>3
<1>13. QED BY <1>5, <1>8, <1>9, <1>10, <1>12

LEMMA StableDownloadIdKeeps ==
  ASSUME TypeOK, SentInv, NEW k \in Keys, StableDownloadId(k)
  PROVE  TypeOK' /\ SentInv'
<1> USE DEF SentInv
<1>1. storage \in Storage /\ fresh \in Nat
  BY DEF TypeOK
<1>2. storage' = [storage EXCEPT !.downloadIds[k] = fresh] /\ fresh' = fresh + 1
      /\ UNCHANGED <<worker, sent, answered, alarm, wire, log, checkpoint>>
  BY DEF StableDownloadId, workerVars, agentVars
<1>3. storage' \in Storage /\ storage'.outbox = storage.outbox /\ storage'.gap = storage.gap
      /\ storage'.lastSequence = storage.lastSequence
      /\ storage'.downloadIds = [storage.downloadIds EXCEPT ![k] = fresh]
  BY <1>1, <1>2, DownloadIdShape
<1>4. TypeOK'
  BY <1>1, <1>2, <1>3 DEF TypeOK
<1>5. Logged' = Logged /\ Carried' = Carried /\ Known' = Known
  BY <1>2, <1>3 DEF Logged, Carried, Known
<1>6. (\A m \in Known : m.id \in Nat) /\ (storage.gap # None => storage.gap.id \in Nat)
      /\ storage.downloadIds \in [Keys -> Nat \cup {None}]
  BY <1>1, KnownShape, MessageShape, StorageShape, QueueableShape
<1>7. Numbered' /\ OneMessage' /\ OldestFirst' /\ Awaited'
  <2>1. Numbered'
    BY <1>1, <1>2, <1>3, <1>5, <1>6 DEF Numbered
  <2>2. OneMessage' /\ OldestFirst'
    BY <1>3, <1>5 DEF OneMessage, OldestFirst
  <2>3. Awaited'
    BY <1>2, <1>3, <1>5 DEF Awaited
  <2>4. QED BY <2>1, <2>2, <2>3
<1>8. OneDownload'
  <2>1. SUFFICES ASSUME NEW j \in Keys, storage'.downloadIds[j] # None
                 PROVE  LET x == storage'.downloadIds[j]
                        IN /\ x < fresh'
                           /\ \A i \in Keys : storage'.downloadIds[i] = x => i = j
                           /\ \A n \in Known' : n.id = x =>
                                n \in storage'.outbox /\ n.kind = "download" /\ n.body = j
                           /\ storage'.gap # None => storage'.gap.id # x
    BY DEF OneDownload
  <2>2. \A i \in Keys : storage.downloadIds[i] # fresh
    <3>1. fresh # None /\ ~(fresh < fresh)
      BY <1>1, NoneAssumption
    <3>2. QED BY <3>1 DEF OneDownload
  <2>3. CASE j = k
    BY <1>1, <1>2, <1>3, <1>5, <1>6, <2>2, <2>3 DEF Numbered
  <2>4. CASE j # k
    <3>1. storage'.downloadIds[j] = storage.downloadIds[j] /\ storage.downloadIds[j] \in Nat
      BY <1>3, <1>6, <2>1, <2>4
    <3>2. \A i \in Keys : storage'.downloadIds[i] = storage.downloadIds[j] => i = j
      BY <1>3, <1>6, <2>1, <2>2, <2>4, <3>1 DEF OneDownload
    <3>3. QED BY <1>1, <1>2, <1>3, <1>5, <2>1, <3>1, <3>2 DEF OneDownload
  <2>5. QED BY <2>3, <2>4
<1>9. QED BY <1>4, <1>7, <1>8

-----------------------------------------------------------------------------
(* The invariant is inductive.                                             *)

SafeInv == TypeOK /\ SentInv

LEMMA SafeInit == Init => SafeInv
<1>1. SUFFICES ASSUME Init
               PROVE  SafeInv
  OBVIOUS
<1>2. storage \in Storage /\ storage.outbox = {} /\ storage.gap = None /\ storage.lastSequence = 0
      /\ storage.downloadIds = [k \in Keys |-> None] /\ storage.lastPage = None
  BY <1>1 DEF Init, EmptyState, Storage
<1>3. TypeOK
  <2>1. [last |-> 0, required |-> FALSE] \in [last : Nat, required : BOOLEAN]
    OBVIOUS
  <2>2. checkpoint \in [last : Nat, required : BOOLEAN]
    BY <1>1, <2>1, Zenon DEF Init
  <2>3. answered \in BOOLEAN /\ alarm \in BOOLEAN
    BY <1>1, Zenon DEF Init
  <2>4. fresh \in Nat /\ log \in Seq(Message) /\ wire = {} /\ sent = None /\ worker = "flush"
    BY <1>1 DEF Init
  <2>5. QED BY <1>2, <2>2, <2>3, <2>4 DEF TypeOK
<1>4. Known = {} /\ Carried = {} /\ Logged = {}
  BY <1>1, <1>2 DEF Init, Known, Carried, Logged
<1>5. Numbered /\ OneMessage /\ OneDownload /\ OldestFirst
  BY <1>2, <1>4 DEF Numbered, OneMessage, OneDownload, OldestFirst
<1>6. Awaited
  BY <1>1 DEF Init, Awaited
<1>7. QED BY <1>3, <1>5, <1>6 DEF SafeInv, SentInv

(* What the worker and the page events do.                                 *)
LEMMA PageActionShape ==
  ASSUME TypeOK, SentInv, (\E p \in Pages : EnqueueActivePage(p)) \/ EnqueueWindowBlurred
  PROVE  \/ Drops
         \/ \E m : Enqueues(m) /\ m.kind = "page" /\ m.body = storage'.lastPage
<1>1. ASSUME NEW p \in Pages, EnqueueActivePage(p)
      PROVE  \/ Drops
             \/ \E m : Enqueues(m) /\ m.kind = "page" /\ m.body = storage'.lastPage
  <2>1. [page |-> p, focused |-> TRUE] \in Page
    BY DEF Page
  <2>2. QED BY <1>1, <2>1, PageSeenShape DEF EnqueueActivePage
<1>2. CASE EnqueueWindowBlurred
  <2>1. storage.lastPage \in Page
    BY <1>2, StorageShape DEF EnqueueWindowBlurred, TypeOK
  <2>2. [storage.lastPage EXCEPT !.focused = FALSE] \in Page
    BY <2>1 DEF Page
  <2>3. QED BY <1>2, <2>2, PageSeenShape DEF EnqueueWindowBlurred
<1>3. QED BY <1>1, <1>2

(* Steps that touch neither the stored state nor the agent.                *)
LEMMA WorkerKeeps ==
  ASSUME TypeOK, SentInv, UNCHANGED <<storage, fresh, log, checkpoint>>,
         worker' \in {"stopped", "idle", "flush"}, alarm' \in BOOLEAN,
         \/ wire' = Orphaned /\ sent' = None /\ answered' = FALSE
         \/ UNCHANGED <<wire, sent, answered>> /\ worker # "await"
  PROVE  TypeOK' /\ SentInv'
<1>1. CASE wire' = Orphaned /\ sent' = None /\ answered' = FALSE
  <2>1. /\ wire' \in SUBSET [msg : Message, live : BOOLEAN]
        /\ Carried' \subseteq Carried
        /\ \A w \in wire' : ~w.live
    BY <1>1, OrphanedShape
  <2>2. TypeOK'
    BY <1>1, <2>1 DEF TypeOK
  <2>3. Awaited'
    BY <1>1, <2>1 DEF Awaited
  <2>4. QED BY <2>1, <2>2, <2>3, MessagesKeep DEF SentInv
<1>2. CASE UNCHANGED <<wire, sent, answered>> /\ worker # "await"
  <2>1. TypeOK'
    BY <1>2 DEF TypeOK
  <2>2. Carried' = Carried
    BY <1>2 DEF Carried
  <2>3. Awaited'
    BY <1>2 DEF Awaited, SentInv
  <2>4. QED BY <2>1, <2>2, <2>3, MessagesKeep DEF SentInv
<1>3. QED BY <1>1, <1>2

LEMMA SafeStep ==
  ASSUME TypeOK, SentInv, [Next]_vars
  PROVE  TypeOK' /\ SentInv'
<1>1. ASSUME NEW k \in Keys, StableDownloadId(k)
      PROVE  TypeOK' /\ SentInv'
  BY <1>1, StableDownloadIdKeeps
<1>2. ASSUME NEW k \in Keys, FlushCompleted(k)
      PROVE  TypeOK' /\ SentInv'
  BY <1>2, WorkerKeeps DEF FlushCompleted, Begin, agentVars, TypeOK
<1>3. ASSUME NEW k \in Keys, EnqueueCompleted(k)
      PROVE  TypeOK' /\ SentInv'
  BY <1>3, EnqueueCompletedShape, EnqueuesKeeps
<1>4. ASSUME NEW k \in Keys, DropCompleted(k)
      PROVE  TypeOK' /\ SentInv'
  BY <1>4, DropCompletedShape, DropsKeeps
<1>5. CASE (\E p \in Pages : EnqueueActivePage(p)) \/ EnqueueWindowBlurred
  BY <1>5, PageActionShape, EnqueuesKeeps, DropsKeeps
<1>6. CASE SendGap
  <2>1. storage.gap \in GapMessage /\ storage.gap # None
    BY <1>6, StorageShape DEF SendGap, TypeOK
  <2>2. QED BY <1>6, <2>1, QueueableShape, SendShape DEF SendGap
<1>7. CASE SendQueued
  <2>1. PICK m \in storage.outbox : (\A n \in storage.outbox : m.seq <= n.seq) /\ Send(m)
    BY <1>7 DEF SendQueued
  <2>2. m \in Message /\ NotGap(m)
    BY KnownShape, QueueableShape
  <2>3. QED BY <2>1, <2>2, SendShape
<1>8. CASE FlushDone
  BY <1>8, WorkerKeeps DEF FlushDone, agentVars
<1>9. CASE Acknowledged
  BY <1>9, AcknowledgedKeeps
<1>10. CASE FlushFailed \/ Stop
  BY <1>10, WorkerKeeps DEF FlushFailed, Stop, agentVars, TypeOK
<1>11. CASE RetryAlarm \/ Start
  BY <1>11, WorkerKeeps DEF RetryAlarm, Start, agentVars
<1>12. ASSUME NEW w \in wire, Submit(w)
       PROVE  TypeOK' /\ SentInv'
  BY <1>12, SubmitKeeps
<1>13. ASSUME NEW w \in wire, Lose(w)
       PROVE  TypeOK' /\ SentInv'
  <2>1. wire' = wire \ {w} /\ UNCHANGED <<storage, fresh, worker, sent, answered, alarm, log, checkpoint>>
    BY <1>13 DEF Lose, workerVars, agentVars
  <2>2. TypeOK'
    BY <2>1 DEF TypeOK
  <2>3. Carried' \subseteq Carried /\ Logged' = Logged
    BY <2>1 DEF Carried, Logged
  <2>4. Awaited'
    BY <2>1, <2>3 DEF Awaited, SentInv
  <2>5. QED BY <2>1, <2>2, <2>3, <2>4, MessagesKeep DEF SentInv
<1>14. CASE UNCHANGED vars
  <2>1. TypeOK'
    BY <1>14 DEF vars, TypeOK
  <2>2. Carried' = Carried /\ Logged' = Logged
    BY <1>14 DEF vars, Carried, Logged
  <2>3. Awaited'
    BY <1>14, <2>2 DEF vars, Awaited, SentInv
  <2>4. QED BY <1>14, <2>1, <2>2, <2>3, MessagesKeep DEF vars, SentInv
<1>15. QED
  BY <1>1, <1>2, <1>3, <1>4, <1>5, <1>6, <1>7, <1>8, <1>9, <1>10, <1>11, <1>12, <1>13, <1>14 DEF Next

LEMMA SafeInvHolds == Spec => []SafeInv
<1>1. SafeInv /\ [Next]_vars => SafeInv'
  BY SafeStep DEF SafeInv
<1>2. QED BY <1>1, SafeInit, PTL DEF Spec

(* Every variable keeps its shape.                                         *)
THEOREM TypeCorrect == Spec => []TypeOK
<1>1. SafeInv => TypeOK
  BY DEF SafeInv
<1>2. QED BY <1>1, SafeInvHolds, PTL

-----------------------------------------------------------------------------
(* No silent loss, and the last page.                                      *)

(* What a step can do to the messages: an observation is queued or         *)
(* dropped, an answer is taken, the agent gets a message, or none of it.   *)
Quiet ==
  /\ storage'.outbox = storage.outbox /\ storage'.gap = storage.gap
  /\ storage'.lastSequence = storage.lastSequence /\ storage'.lastPage = storage.lastPage
  /\ UNCHANGED <<log, checkpoint>>

LEMMA StepKinds ==
  ASSUME TypeOK, SentInv, [Next]_vars
  PROVE  \/ \E m : /\ Enqueues(m)
                   /\ \/ m.kind = "download" /\ storage'.lastPage = storage.lastPage
                      \/ m.kind = "page" /\ m.body = storage'.lastPage
         \/ Drops
         \/ Acknowledged
         \/ \E w \in wire : Submit(w)
         \/ Quiet
<1>1. ASSUME NEW k \in Keys, StableDownloadId(k)
      PROVE  Quiet
  <2>1. storage \in Storage /\ fresh \in Nat
    BY DEF TypeOK
  <2>2. storage' = [storage EXCEPT !.downloadIds[k] = fresh] /\ UNCHANGED <<log, checkpoint>>
    BY <1>1 DEF StableDownloadId, agentVars
  <2>3. QED BY <2>1, <2>2, DownloadIdShape DEF Quiet
<1>2. ASSUME NEW k \in Keys, FlushCompleted(k)
      PROVE  Quiet
  BY <1>2 DEF FlushCompleted, agentVars, Quiet
<1>3. ASSUME NEW k \in Keys, EnqueueCompleted(k)
      PROVE  \E m : Enqueues(m) /\ m.kind = "download" /\ storage'.lastPage = storage.lastPage
  BY <1>3, EnqueueCompletedShape
<1>4. ASSUME NEW k \in Keys, DropCompleted(k)
      PROVE  Drops
  BY <1>4, DropCompletedShape
<1>5. ASSUME (\E p \in Pages : EnqueueActivePage(p)) \/ EnqueueWindowBlurred
      PROVE  Drops \/ \E m : Enqueues(m) /\ m.kind = "page" /\ m.body = storage'.lastPage
  BY <1>5, PageActionShape
<1>6. CASE SendGap \/ SendQueued
  BY <1>6 DEF SendGap, SendQueued, Send, agentVars, Quiet
<1>7. CASE FlushDone \/ FlushFailed \/ Stop \/ RetryAlarm \/ Start
  BY <1>7 DEF FlushDone, FlushFailed, Stop, RetryAlarm, Start, agentVars, Quiet
<1>8. ASSUME NEW w \in wire, Lose(w)
      PROVE  Quiet
  BY <1>8 DEF Lose, agentVars, Quiet
<1>9. CASE UNCHANGED vars
  BY <1>9 DEF vars, Quiet
<1>10. QED BY <1>1, <1>2, <1>3, <1>4, <1>5, <1>6, <1>7, <1>8, <1>9 DEF Next

(* Covered numbers: queued, stored, within a gap noted or reported.        *)
Covered(n) ==
  \/ n \in QueuedSequences
  \/ n \in LogSequences
  \/ storage.gap # None /\ n <= storage.gap.seq
  \/ checkpoint.required /\ n <= checkpoint.last

LEMMA LogSequencesShape ==
  /\ LogSequences = {m.seq : m \in {l \in Logged : NotGap(l)}}
  /\ LogSequences' = {m.seq : m \in {l \in Logged' : NotGap(l)}}
BY DEF LogSequences, Observations, Logged

LEMMA LossStep ==
  ASSUME TypeOK, SentInv, NoSilentLoss, [Next]_vars
  PROVE  NoSilentLoss'
<1>1. storage \in Storage /\ storage.lastSequence \in Nat
  BY StorageShape DEF TypeOK
<1>2. \A n \in 1..storage.lastSequence : Covered(n)
  BY DEF NoSilentLoss, Covered
<1>3. SUFFICES ASSUME NEW n \in 1..storage'.lastSequence
               PROVE  Covered(n)'
  BY DEF NoSilentLoss, Covered
<1>4. ASSUME NEW m, Enqueues(m)
      PROVE  Covered(n)'
  <2>1. /\ storage'.outbox = storage.outbox \cup {m} /\ m.seq = storage.lastSequence + 1
        /\ storage'.lastSequence = storage.lastSequence + 1 /\ storage'.gap = storage.gap
        /\ log' = log /\ checkpoint' = checkpoint
    BY <1>4 DEF Enqueues, Observes
  <2>2. CASE n = m.seq
    BY <2>1, <2>2 DEF Covered, QueuedSequences
  <2>3. CASE n # m.seq
    <3>1. n \in 1..storage.lastSequence
      BY <1>1, <2>1, <2>3
    <3>2. QED BY <1>2, <2>1, <3>1 DEF Covered, QueuedSequences, LogSequences, Observations
  <2>4. QED BY <2>2, <2>3
<1>5. CASE Drops
  BY <1>5 DEF Drops, Covered
<1>6. CASE Acknowledged
  <2>1. storage'.lastSequence = storage.lastSequence
    BY <1>6, AcknowledgedShape
  <2>2. Covered(n)
    BY <1>2, <2>1
  <2>3. log' = log /\ checkpoint' = checkpoint
    BY <1>6 DEF Acknowledged, agentVars
  <2>4. LogSequences' = LogSequences
    BY <2>3 DEF LogSequences, Observations
  <2>5. CASE NotGap(sent) /\ sent \in Logged /\ storage'.outbox = storage.outbox \ {sent}
             /\ storage'.gap = storage.gap
    <3>1. sent.seq \in LogSequences
      BY <2>5, LogSequencesShape
    <3>2. n \in QueuedSequences => n \in QueuedSequences' \/ n = sent.seq
      BY <2>5 DEF QueuedSequences
    <3>3. QED BY <2>2, <2>3, <2>4, <2>5, <3>1, <3>2 DEF Covered
  <2>6. CASE ~NotGap(sent) /\ checkpoint.required /\ storage.gap.seq <= checkpoint.last
             /\ storage.gap = sent /\ storage'.outbox = storage.outbox
    <3>1. sent \in GapMessage
      <4>1. sent \in Message
        BY <1>6 DEF SentInv, Awaited, Acknowledged, TypeOK
      <4>2. QED BY <2>6, <4>1, MessageShape
    <3>2. storage.gap.seq \in Nat /\ checkpoint.last \in Nat /\ n \in Nat
      BY <1>1, <2>1, <2>6, <3>1 DEF GapMessage, TypeOK
    <3>3. QED BY <2>2, <2>3, <2>4, <2>6, <3>2 DEF Covered, QueuedSequences
  <2>7. QED BY <1>6, <2>5, <2>6, AcknowledgedShape
<1>7. ASSUME NEW w \in wire, Submit(w)
      PROVE  Covered(n)'
  <2>1. w.msg \in Message /\ storage' = storage /\ Logged \subseteq Logged'
    BY <1>7, SubmitShape
  <2>2. LogSequences \subseteq LogSequences'
    BY <2>1, LogSequencesShape
  <2>3. checkpoint' = Checkpointed(w.msg)
    BY <1>7 DEF Submit
  <2>4. checkpoint' \in [last : Nat, required : BOOLEAN] /\ checkpoint'.last >= checkpoint.last
        /\ (checkpoint.required => checkpoint'.required)
    BY <2>1, <2>3, CheckpointShape
  <2>5. checkpoint.last \in Nat /\ checkpoint'.last \in Nat /\ n \in Nat /\ Covered(n)
    BY <1>1, <1>2, <2>1, <2>4 DEF TypeOK
  <2>6. QED BY <2>1, <2>2, <2>4, <2>5 DEF Covered, QueuedSequences
<1>8. CASE Quiet
  BY <1>2, <1>8 DEF Quiet, Covered, QueuedSequences, LogSequences, Observations
<1>9. QED BY <1>4, <1>5, <1>6, <1>7, <1>8, StepKinds

(* No observation is lost silently: its number is queued, stored, or       *)
(* within a gap that is noted or that the checkpoint is flagged for.       *)
THEOREM NothingLostSilently == Spec => []NoSilentLoss
<1>1. Init => NoSilentLoss
  BY DEF Init, EmptyState, NoSilentLoss
<1>2. SafeInv /\ NoSilentLoss /\ [Next]_vars => NoSilentLoss'
  BY LossStep DEF SafeInv
<1>3. QED BY <1>1, <1>2, SafeInvHolds, PTL DEF Spec

LEMMA PageMessagesShape ==
  /\ PageMessages = {m \in storage.outbox \cup Logged : m.kind = "page"}
  /\ PageMessages' = {m \in storage'.outbox \cup Logged' : m.kind = "page"}
BY DEF PageMessages, Logged

LEMMA PageStep ==
  ASSUME TypeOK, SentInv, LastPageIsNewest, [Next]_vars
  PROVE  LastPageIsNewest'
<1>1. ASSUME NEW m, Enqueues(m), m.kind = "download", storage'.lastPage = storage.lastPage
      PROVE  LastPageIsNewest'
  <2>1. /\ storage'.outbox = storage.outbox \cup {m} /\ Logged' = Logged
        /\ storage'.gap = storage.gap /\ checkpoint' = checkpoint
    BY <1>1 DEF Enqueues, Observes, Logged
  <2>2. PageMessages' = PageMessages
    BY <1>1, <2>1, PageMessagesShape
  <2>3. QED BY <1>1, <2>1, <2>2 DEF LastPageIsNewest
<1>2. ASSUME NEW m, Enqueues(m), m.kind = "page", m.body = storage'.lastPage
      PROVE  LastPageIsNewest'
  <2>1. /\ storage'.outbox = storage.outbox \cup {m} /\ Logged' = Logged
        /\ m.seq = storage.lastSequence + 1
    BY <1>2 DEF Enqueues, Observes, Logged
  <2>2. PageMessages' = PageMessages \cup {m}
    BY <1>2, <2>1, PageMessagesShape
  <2>3. \A n \in PageMessages : n.seq \in 1..storage.lastSequence
    BY PageMessagesShape DEF SentInv, Numbered, Known, NotGap
  <2>4. storage.lastSequence \in Nat
    BY StorageShape DEF TypeOK
  <2>5. \A n \in PageMessages : ~(m.seq <= n.seq)
    BY <2>1, <2>3, <2>4
  <2>6. QED BY <1>2, <2>2, <2>5 DEF LastPageIsNewest
<1>3. CASE Drops
  BY <1>3 DEF Drops, LastPageIsNewest
<1>4. CASE Acknowledged
  <2>1. checkpoint' = checkpoint /\ Logged' = Logged
    BY <1>4 DEF Acknowledged, agentVars, Logged
  <2>2. storage'.lastPage = storage.lastPage
    BY <1>4, AcknowledgedShape
  <2>3. CASE NotGap(sent) /\ sent \in storage.outbox /\ sent \in Logged
             /\ storage'.outbox = storage.outbox \ {sent} /\ storage'.gap = storage.gap
    <3>1. PageMessages' = PageMessages
      BY <2>1, <2>3, PageMessagesShape
    <3>2. QED BY <2>1, <2>2, <2>3, <3>1 DEF LastPageIsNewest
  <2>4. CASE checkpoint.required
    BY <2>1, <2>4 DEF LastPageIsNewest
  <2>5. QED BY <1>4, <2>3, <2>4, AcknowledgedShape
<1>5. ASSUME NEW w \in wire, Submit(w)
      PROVE  LastPageIsNewest'
  <2>1. /\ storage' = storage /\ w.msg \in Message /\ w.msg \in Carried
        /\ Logged \subseteq Logged' /\ Logged' \subseteq Logged \cup {w.msg}
    BY <1>5, SubmitShape
  <2>2. w.msg.kind = "page" => w.msg \in storage.outbox \cup Logged
    BY <2>1 DEF SentInv, OldestFirst, NotGap
  <2>3. PageMessages' = PageMessages
    BY <2>1, <2>2, PageMessagesShape
  <2>4. checkpoint.required => checkpoint'.required
    BY <1>5, <2>1, CheckpointShape DEF Submit
  <2>5. QED BY <2>1, <2>3, <2>4 DEF LastPageIsNewest
<1>6. CASE Quiet
  BY <1>6, PageMessagesShape DEF Quiet, Logged, LastPageIsNewest
<1>7. QED BY <1>1, <1>2, <1>3, <1>4, <1>5, <1>6, StepKinds

(* The page that will not be reported again is the newest one reported,    *)
(* unless a gap was noted.                                                 *)
THEOREM LastPageReported == Spec => []LastPageIsNewest
<1>1. Init => LastPageIsNewest
  BY DEF Init, EmptyState, LastPageIsNewest, PageMessages
<1>2. SafeInv /\ LastPageIsNewest /\ [Next]_vars => LastPageIsNewest'
  BY PageStep DEF SafeInv
<1>3. QED BY <1>1, <1>2, SafeInvHolds, PTL DEF Spec

-----------------------------------------------------------------------------
(* The safety part of the refinement.                                      *)

(* Every position up to the number of stored observations is taken.        *)
Count(S, i) == Cardinality({h \in S : h <= i})
Counted ==
  \A n \in 1..Cardinality(Observations) : \E i \in Observations : Count(Observations, i) = n

LEMMA NthShape ==
  ASSUME NEW S, NEW n, \E i \in S : Count(S, i) = n
  PROVE  Nth(S, n) \in S
BY DEF Nth, Count

LEMMA ObservationsShape ==
  ASSUME TypeOK
  PROVE  /\ IsFiniteSet(Observations) /\ Cardinality(Observations) \in Nat
         /\ Observations \subseteq DOMAIN log /\ DOMAIN log = 1..Len(log) /\ Len(log) \in Nat
<1>1. DOMAIN log = 1..Len(log) /\ Len(log) \in Nat
  BY DEF TypeOK
<1>2. Observations \in SUBSET (1..Len(log))
  BY <1>1 DEF Observations
<1>3. IsFiniteSet(1..Len(log))
  BY <1>1, FS_Interval
<1>4. IsFiniteSet(Observations)
  BY <1>2, <1>3, FS_Subset
<1>5. QED BY <1>1, <1>2, <1>4, FS_CardinalityType

(* Storing one more observation.                                           *)
LEMMA CountAppended ==
  ASSUME NEW S, IsFiniteSet(S), NEW last \in Nat, S \subseteq 1..last,
         \A n \in 1..Cardinality(S) : \E i \in S : Count(S, i) = n
  PROVE  LET T == S \cup {last + 1}
         IN /\ Cardinality(T) = Cardinality(S) + 1
            /\ \A i \in S : Count(T, i) = Count(S, i)
            /\ Count(T, last + 1) = Cardinality(S) + 1
            /\ \A n \in 1..Cardinality(S) : Nth(T, n) = Nth(S, n)
            /\ Nth(T, Cardinality(S) + 1) = last + 1
<1> DEFINE T == S \cup {last + 1}
<1>1. Cardinality(S) \in Nat /\ last + 1 \notin S
  BY FS_CardinalityType
<1>2. Cardinality(T) = Cardinality(S) + 1 /\ IsFiniteSet(T)
  BY <1>1, FS_AddElement
<1>3. \A i \in S : {h \in T : h <= i} = {h \in S : h <= i}
  OBVIOUS
<1>4. {h \in T : h <= last + 1} = T
  <2>1. \A h \in T : h <= last + 1
    OBVIOUS
  <2> HIDE DEF T
  <2>2. QED BY <2>1
<1>5. (\A i \in S : Count(T, i) = Count(S, i)) /\ Count(T, last + 1) = Cardinality(S) + 1
  BY <1>2, <1>3, <1>4 DEF Count
<1>6. \A i \in S : Count(S, i) \in Nat /\ Count(S, i) <= Cardinality(S)
  <2>1. SUFFICES ASSUME NEW i \in S
                 PROVE  Count(S, i) \in Nat /\ Count(S, i) <= Cardinality(S)
    OBVIOUS
  <2>2. {h \in S : h <= i} \in SUBSET S
    OBVIOUS
  <2>3. QED BY <2>2, FS_Subset, FS_CardinalityType DEF Count
<1>7. \A n \in 1..Cardinality(S) : {i \in T : Count(T, i) = n} = {i \in S : Count(S, i) = n}
  <2>1. SUFFICES ASSUME NEW n \in 1..Cardinality(S), NEW i
                 PROVE  i \in T /\ Count(T, i) = n <=> i \in S /\ Count(S, i) = n
    OBVIOUS
  <2>2. n # Cardinality(S) + 1
    BY <1>1
  <2>3. QED BY <1>5, <2>2
<1>8. {i \in T : Count(T, i) = Cardinality(S) + 1} = {last + 1}
  <2>1. SUFFICES ASSUME NEW i
                 PROVE  i \in T /\ Count(T, i) = Cardinality(S) + 1 <=> i = last + 1
    OBVIOUS
  <2>2. i \in S => Count(S, i) # Cardinality(S) + 1
    BY <1>1, <1>6
  <2>3. QED BY <1>5, <2>2
<1>9. \A n : Nth(T, n) = CHOOSE j \in {i \in T : Count(T, i) = n} : TRUE
  BY DEF Nth, Count
<1>10. \A n : Nth(S, n) = CHOOSE j \in {i \in S : Count(S, i) = n} : TRUE
  BY DEF Nth, Count
<1> HIDE DEF T
<1>11. \A n \in 1..Cardinality(S) : Nth(T, n) = Nth(S, n)
  <2>1. SUFFICES ASSUME NEW n \in 1..Cardinality(S)
                 PROVE  Nth(T, n) = Nth(S, n)
    OBVIOUS
  <2> DEFINE A == {i \in T : Count(T, i) = n}
             B == {i \in S : Count(S, i) = n}
  <2>2. A = B
    BY <1>7
  <2>3. Nth(T, n) = (CHOOSE j \in A : TRUE) /\ Nth(S, n) = (CHOOSE j \in B : TRUE)
    BY <1>9, <1>10
  <2> HIDE DEF A, B
  <2>4. QED BY <2>2, <2>3
<1>12. Nth(T, Cardinality(S) + 1) = last + 1
  BY <1>8, <1>9
<1>13. QED BY <1>2, <1>5, <1>11, <1>12 DEF T

LEMMA CountedStep ==
  ASSUME TypeOK, Counted, NEW m \in Message, log' = Append(log, m)
  PROVE  /\ Counted'
         /\ LogSequences' = IF NotGap(m) THEN LogSequences \cup {m.seq} ELSE LogSequences
         /\ DeliveredSequences' = IF NotGap(m) THEN Append(DeliveredSequences, m.seq)
                                  ELSE DeliveredSequences
<1> DEFINE P == Observations
           L == Len(log)
           c == Cardinality(P)
<1>1. log \in Seq(Message)
  BY DEF TypeOK
<1>2. IsFiniteSet(P) /\ c \in Nat /\ P \subseteq DOMAIN log /\ DOMAIN log = 1..L /\ L \in Nat
  BY ObservationsShape
<1>3. /\ DOMAIN log' = DOMAIN log \cup {L + 1}
      /\ \A i \in DOMAIN log : log'[i] = log[i]
      /\ log'[L + 1] = m /\ L + 1 \notin DOMAIN log
  BY <1>1
<1>4. Observations' = IF NotGap(m) THEN P \cup {L + 1} ELSE P
  BY <1>3 DEF Observations, NotGap
<1>5. \A i \in P : log'[i] = log[i]
  BY <1>2, <1>3
<1>6. \A n \in 1..c : Nth(P, n) \in P
  BY NthShape DEF Counted
<1>7. DeliveredSequences = [n \in 1..c |-> log[Nth(P, n)].seq]
  BY DEF DeliveredSequences
<1>8. DeliveredSequences' = [n \in 1..Cardinality(Observations') |-> log'[Nth(Observations', n)].seq]
  BY DEF DeliveredSequences
<1>9. CASE ~NotGap(m)
  <2>1. Observations' = P
    BY <1>4, <1>9
  <2>2. Counted'
    BY <2>1 DEF Counted
  <2>3. LogSequences' = LogSequences
    BY <1>5, <2>1 DEF LogSequences
  <2>4. DeliveredSequences' = DeliveredSequences
    BY <1>5, <1>6, <1>7, <1>8, <2>1
  <2>5. QED BY <1>9, <2>2, <2>3, <2>4
<1>10. CASE NotGap(m)
  <2> DEFINE T == P \cup {L + 1}
  <2>1. Observations' = T
    BY <1>4, <1>10
  <2>2. /\ Cardinality(T) = c + 1
        /\ \A i \in P : Count(T, i) = Count(P, i)
        /\ Count(T, L + 1) = c + 1
        /\ \A n \in 1..c : Nth(T, n) = Nth(P, n)
        /\ Nth(T, c + 1) = L + 1
    BY <1>2, CountAppended DEF Counted
  <2>3. Counted'
    <3>1. \A n \in 1..c + 1 : \E i \in T : Count(T, i) = n
      <4>1. SUFFICES ASSUME NEW n \in 1..c + 1
                     PROVE  \E i \in T : Count(T, i) = n
        OBVIOUS
      <4>2. CASE n = c + 1
        BY <2>2, <4>2
      <4>3. CASE n # c + 1
        <5>1. n \in 1..c
          BY <1>2, <4>3
        <5>2. PICK i \in P : Count(P, i) = n
          BY <5>1 DEF Counted
        <5>3. QED BY <2>2, <5>2
      <4>4. QED BY <4>2, <4>3
    <3> HIDE DEF T, c
    <3>2. QED BY <2>1, <2>2, <3>1 DEF Counted
  <2>4. LogSequences' = LogSequences \cup {m.seq}
    <3>1. LogSequences' = {log'[i].seq : i \in T}
      BY <2>1 DEF LogSequences
    <3>2. LogSequences = {log'[i].seq : i \in P}
      BY <1>5 DEF LogSequences
    <3>3. QED BY <1>3, <3>1, <3>2
  <2>5. DeliveredSequences' = Append(DeliveredSequences, m.seq)
    <3>1. DeliveredSequences' = [n \in 1..c + 1 |-> log'[Nth(T, n)].seq]
      BY <1>8, <2>1, <2>2
    <3>2. log'[Nth(T, c + 1)].seq = m.seq
      BY <1>3, <2>2
    <3>3. \A n \in 1..c : log'[Nth(T, n)].seq = log[Nth(P, n)].seq
      BY <1>5, <1>6, <2>2
    <3>4. \A n \in 1..c : log[Nth(P, n)].seq \in Nat
      <4>1. \A i \in DOMAIN log : log[i].seq \in Nat
        BY <1>1, MessageShape
      <4>2. QED BY <1>2, <1>6, <4>1
    <3>5. DeliveredSequences \in Seq(Nat) /\ Len(DeliveredSequences) = c
      BY <1>2, <1>7, <3>4
    <3>6. m.seq \in Nat
      BY MessageShape
    <3> DEFINE A == Append(DeliveredSequences, m.seq)
    <3> HIDE DEF T, c, P, L
    <3>7. /\ A = [n \in 1..c + 1 |-> A[n]] /\ A[c + 1] = m.seq
          /\ \A n \in 1..c : A[n] = DeliveredSequences[n]
      BY <1>2, <3>5, <3>6
    <3>8. \A n \in 1..c : DeliveredSequences[n] = log[Nth(P, n)].seq
      BY <1>7
    <3> HIDE DEF A
    <3>9. \A n \in 1..c + 1 : A[n] = log'[Nth(T, n)].seq
      <4>1. \A n \in 1..c + 1 : n \in 1..c \/ n = c + 1
        BY <1>2
      <4>2. QED BY <3>2, <3>3, <3>7, <3>8, <4>1
    <3>10. QED BY <3>1, <3>7, <3>9 DEF A
  <2>6. QED BY <1>10, <2>3, <2>4, <2>5
<1>11. QED BY <1>9, <1>10

Held == QueuedSequences \ LogSequences

LEMMA QuietRefines ==
  ASSUME log' = log
  PROVE  /\ LogSequences' = LogSequences /\ DeliveredSequences' = DeliveredSequences
         /\ Counted => Counted'
BY DEF LogSequences, DeliveredSequences, Observations, Counted

(* A step of the outbox, the host or the agent is a step of Delivery, or   *)
(* changes nothing there.                                                  *)
LEMMA RefinementStep ==
  ASSUME TypeOK, SentInv, Counted, [Next]_vars
  PROVE  Counted' /\ [D!Next]_(D!deliveryVars)
<1>1. storage \in Storage /\ storage.lastSequence \in Nat
  BY StorageShape DEF TypeOK
<1>2. LogSequences \subseteq 1..storage.lastSequence
  BY LogSequencesShape DEF SentInv, Numbered, Known
<1>3. ASSUME NEW m, Enqueues(m)
      PROVE  Counted' /\ D!Accept
  <2>1. /\ storage'.outbox = storage.outbox \cup {m} /\ m.seq = storage.lastSequence + 1
        /\ storage'.lastSequence = storage.lastSequence + 1 /\ log' = log
    BY <1>3 DEF Enqueues, Observes
  <2>2. QueuedSequences' = QueuedSequences \cup {storage.lastSequence + 1}
    BY <2>1 DEF QueuedSequences
  <2>3. storage.lastSequence + 1 \notin LogSequences
    BY <1>1, <1>2
  <2>4. Held' = Held \cup {storage.lastSequence + 1}
    BY <2>1, <2>2, <2>3, QuietRefines DEF Held
  <2>5. QED BY <2>1, <2>4, QuietRefines DEF D!Accept, Held
<1>4. ASSUME Drops
      PROVE  Counted' /\ D!Refuse
  <2>1. storage'.outbox = storage.outbox /\ log' = log
        /\ storage'.lastSequence = storage.lastSequence + 1
    BY <1>4 DEF Drops, Observes
  <2>2. QueuedSequences' = QueuedSequences
    BY <2>1 DEF QueuedSequences
  <2>3. QED BY <2>1, <2>2, QuietRefines DEF D!Refuse
<1>5. ASSUME Acknowledged
      PROVE  Counted' /\ UNCHANGED D!deliveryVars
  <2>1. log' = log /\ storage'.lastSequence = storage.lastSequence
    BY <1>5, AcknowledgedShape DEF Acknowledged, agentVars
  <2>2. Held' = Held
    <3>1. CASE NotGap(sent) /\ sent \in storage.outbox /\ sent \in Logged
               /\ storage'.outbox = storage.outbox \ {sent}
      <4>1. sent.seq \in LogSequences
        BY <3>1, LogSequencesShape
      <4>2. QueuedSequences' \subseteq QueuedSequences /\ QueuedSequences \subseteq QueuedSequences' \cup {sent.seq}
        BY <3>1 DEF QueuedSequences
      <4>3. QED BY <2>1, <4>1, <4>2, QuietRefines DEF Held
    <3>2. CASE storage'.outbox = storage.outbox
      BY <2>1, <3>2, QuietRefines DEF Held, QueuedSequences
    <3>3. QED BY <1>5, <3>1, <3>2, AcknowledgedShape
  <2>3. QED BY <2>1, <2>2, QuietRefines DEF D!deliveryVars, Held
<1>6. ASSUME NEW w \in wire, Submit(w)
      PROVE  Counted' /\ [D!Next]_(D!deliveryVars)
  <2>1. w.msg \in Message /\ w.msg \in Carried /\ storage' = storage
    BY <1>6, SubmitShape
  <2>2. QueuedSequences' = QueuedSequences
    BY <2>1 DEF QueuedSequences
  <2>3. CASE log' = log
    BY <2>1, <2>2, <2>3, QuietRefines DEF D!deliveryVars
  <2>4. CASE w.msg.id \notin LogIds /\ ~NotGap(w.msg)
    <3>1. log' = Append(log, w.msg)
      BY <1>6, <2>4, SubmitShape
    <3>2. Counted' /\ LogSequences' = LogSequences /\ DeliveredSequences' = DeliveredSequences
      BY <2>1, <2>4, <3>1, CountedStep
    <3>3. QED BY <2>1, <2>2, <3>2 DEF D!deliveryVars
  <2>5. CASE w.msg.id \notin LogIds /\ NotGap(w.msg)
    <3>1. log' = Append(log, w.msg) /\ w.msg \notin Logged
      BY <1>6, <2>5, SubmitShape
    <3>2. Counted' /\ LogSequences' = LogSequences \cup {w.msg.seq}
          /\ DeliveredSequences' = Append(DeliveredSequences, w.msg.seq)
      BY <2>1, <2>5, <3>1, CountedStep
    <3>3. w.msg \in storage.outbox /\ \A q \in storage.outbox : w.msg.seq <= q.seq
      BY <2>1, <2>5, <3>1 DEF SentInv, OldestFirst
    <3>4. w.msg.seq \notin LogSequences
      <4>1. SUFFICES ASSUME NEW l \in Logged, NotGap(l), l.seq = w.msg.seq
                     PROVE  FALSE
        BY LogSequencesShape
      <4>2. l = w.msg
        BY <2>1, <2>5, <4>1 DEF SentInv, OneMessage, Known
      <4>3. QED BY <3>1, <4>1, <4>2
    <3>5. w.msg.seq \in Held /\ \A n \in Held : w.msg.seq <= n
      BY <3>3, <3>4 DEF Held, QueuedSequences
    <3>6. Held' = Held \ {w.msg.seq}
      BY <2>2, <3>2 DEF Held
    <3>7. D!Deliver
      BY <2>1, <3>2, <3>5, <3>6 DEF D!Deliver, Held
    <3>8. QED BY <3>2, <3>7 DEF D!Next
  <2>6. QED BY <1>6, <2>3, <2>4, <2>5, SubmitShape
<1>7. ASSUME Quiet
      PROVE  Counted' /\ UNCHANGED D!deliveryVars
  <2>1. log' = log /\ storage'.outbox = storage.outbox /\ storage'.lastSequence = storage.lastSequence
    BY <1>7 DEF Quiet
  <2>2. QueuedSequences' = QueuedSequences
    BY <2>1 DEF QueuedSequences
  <2>3. QED BY <2>1, <2>2, QuietRefines DEF D!deliveryVars
<1>8. QED BY <1>3, <1>4, <1>5, <1>6, <1>7, StepKinds DEF D!Next

LEMMA RefinementInit == Init => Counted /\ D!Init
<1>1. SUFFICES ASSUME Init
               PROVE  Counted /\ D!Init
  OBVIOUS
<1>2. Observations = {} /\ LogSequences = {}
  BY <1>1 DEF Init, Observations, LogSequences
<1>3. Cardinality(Observations) = 0
  BY <1>2, FS_EmptySet
<1>4. DeliveredSequences = <<>> /\ Counted
  BY <1>3 DEF DeliveredSequences, Counted
<1>5. storage.lastSequence = 0 /\ QueuedSequences = {}
  BY <1>1 DEF Init, EmptyState, QueuedSequences
<1>6. QED BY <1>2, <1>4, <1>5 DEF D!Init

(* The outbox, the host and the agent deliver in order and each once: the  *)
(* safety part of Delivery, through stops, failures, lost answers and late *)
(* arrivals.                                                               *)
THEOREM DeliversInOrder == Spec => D!SafeSpec
<1>1. Init => Counted /\ D!Init
  BY RefinementInit
<1>2. SafeInv /\ Counted /\ [Next]_vars => Counted' /\ [D!Next]_(D!deliveryVars)
  BY RefinementStep DEF SafeInv
<1>3. QED BY <1>1, <1>2, SafeInvHolds, PTL DEF Spec, D!SafeSpec

-----------------------------------------------------------------------------
(* The order of the log and the bound of the outbox.                       *)

(* The agent's log has the observations in the order the extension made    *)
(* them, each number once, however often a message was sent again and      *)
(* however late an orphaned host handed one over.                          *)
StoredInOrder == \A i, j \in Observations : i < j => log[i].seq < log[j].seq

(* An observation comes after all that are stored.                         *)
LEMMA ArrivesLast ==
  ASSUME TypeOK, SentInv, NEW w \in wire, Submit(w), NotGap(w.msg), w.msg.id \notin LogIds,
         NEW i \in Observations
  PROVE  log[i].seq < w.msg.seq
<1>1. w.msg \in Message /\ w.msg \in Carried /\ w.msg \notin Logged
  BY SubmitShape
<1>2. log[i] \in Logged /\ NotGap(log[i]) /\ log[i] \in Message
  BY DEF Observations, Logged, TypeOK
<1>3. log[i].seq \in Nat /\ w.msg.seq \in Nat
  BY <1>1, <1>2, MessageShape
<1>4. w.msg \in storage.outbox
  BY <1>1 DEF SentInv, OldestFirst
<1>5. log[i].seq <= w.msg.seq
  BY <1>2, <1>4 DEF SentInv, OldestFirst
<1>6. log[i].seq # w.msg.seq
  BY <1>1, <1>2 DEF SentInv, OneMessage, Known
<1>7. QED BY <1>3, <1>5, <1>6

LEMMA StoredStep ==
  ASSUME TypeOK, SentInv, StoredInOrder, [Next]_vars
  PROVE  StoredInOrder'
<1>1. CASE log' = log
  BY <1>1 DEF StoredInOrder, Observations
<1>2. ASSUME NEW w \in wire, Submit(w), log' # log
      PROVE  StoredInOrder'
  <2>1. w.msg.id \notin LogIds /\ log' = Append(log, w.msg) /\ w.msg \in Message
    BY <1>2, SubmitShape
  <2>2. /\ log \in Seq(Message) /\ DOMAIN log' = DOMAIN log \cup {Len(log) + 1}
        /\ log'[Len(log) + 1] = w.msg /\ \A i \in DOMAIN log : log'[i] = log[i]
    BY <2>1 DEF TypeOK
  <2>3. \A i \in DOMAIN log : i \in Nat /\ i < Len(log) + 1 /\ Len(log) \in Nat
    BY <2>2
  <2>4. SUFFICES ASSUME NEW i \in Observations', NEW j \in Observations', i < j
                 PROVE  log'[i].seq < log'[j].seq
    BY DEF StoredInOrder
  <2>5. i \in DOMAIN log' /\ j \in DOMAIN log' /\ NotGap(log'[i]) /\ NotGap(log'[j])
    BY DEF Observations
  <2>6. i \in DOMAIN log
    BY <2>2, <2>3, <2>4, <2>5
  <2>7. i \in Observations /\ log'[i] = log[i]
    BY <2>2, <2>5, <2>6 DEF Observations
  <2>8. CASE j = Len(log) + 1
    BY <1>2, <2>1, <2>2, <2>5, <2>7, <2>8, ArrivesLast
  <2>9. CASE j \in DOMAIN log
    <3>1. j \in Observations /\ log'[j] = log[j]
      BY <2>2, <2>5, <2>9 DEF Observations
    <3>2. QED BY <2>4, <2>7, <3>1 DEF StoredInOrder
  <2>10. QED BY <2>2, <2>5, <2>8, <2>9
<1>3. log' = log \/ \E w \in wire : Submit(w)
  BY StepKinds DEF Enqueues, Drops, Observes, Acknowledged, agentVars, Quiet
<1>4. QED BY <1>1, <1>2, <1>3

(* Observations reach the agent's log in the order they were made: the     *)
(* outbox is flushed from its oldest message, and one that was sent stays  *)
(* there until it is answered (StoredInOrder).                             *)
THEOREM ArrivesInOrder == Spec => []StoredInOrder
<1>1. Init => StoredInOrder
  BY DEF Init, StoredInOrder, Observations
<1>2. SafeInv /\ StoredInOrder /\ [Next]_vars => StoredInOrder'
  BY StoredStep DEF SafeInv
<1>3. QED BY <1>1, <1>2, SafeInvHolds, PTL DEF Spec

(* The outbox never holds more than MAX_OUTBOX_MESSAGES.                   *)
OutboxBounded == IsFiniteSet(storage.outbox) /\ Cardinality(storage.outbox) <= Capacity

(* An observation is made without being queued only when the outbox holds  *)
(* as many messages as it may: no number is given up early.                *)
GivesUpOnlyWhenFull ==
  [][storage'.lastSequence # storage.lastSequence /\ storage'.outbox = storage.outbox
       => Cardinality(storage.outbox) = Capacity]_vars

(* A message that leaves makes no outbox larger.                           *)
LEMMA SmallerOutbox ==
  ASSUME NEW S, IsFiniteSet(S), NEW x
  PROVE  /\ IsFiniteSet(S \ {x})
         /\ Cardinality(S \ {x}) <= Cardinality(S)
         /\ Cardinality(S \ {x}) \in Nat
<1>1. S \ {x} \in SUBSET S
  OBVIOUS
<1>2. IsFiniteSet(S \ {x}) /\ Cardinality(S \ {x}) <= Cardinality(S)
  BY <1>1, FS_Subset
<1>3. QED BY <1>2, FS_CardinalityType

LEMMA BoundedStep ==
  ASSUME TypeOK, SentInv, OutboxBounded, [Next]_vars
  PROVE  /\ OutboxBounded'
         /\ storage'.lastSequence # storage.lastSequence /\ storage'.outbox = storage.outbox
              => Cardinality(storage.outbox) = Capacity
<1>1. /\ IsFiniteSet(storage.outbox) /\ Cardinality(storage.outbox) <= Capacity
      /\ Cardinality(storage.outbox) \in Nat /\ Capacity \in Nat
      /\ storage.lastSequence \in Nat
  BY FS_CardinalityType, CapacityAssumption, StorageShape DEF OutboxBounded, TypeOK
<1>2. ASSUME NEW m, Enqueues(m)
      PROVE  OutboxBounded' /\ storage'.outbox # storage.outbox
  <2>1. storage'.outbox = storage.outbox \cup {m} /\ ~Full(storage)
    BY <1>2 DEF Enqueues
  <2>2. Cardinality(storage.outbox) < Capacity
    BY <1>1, <2>1 DEF Full
  <2>3. m \notin storage.outbox
    BY <1>2 DEF Enqueues, Known
  <2>4. OutboxBounded'
    <3>1. /\ IsFiniteSet(storage.outbox \cup {m})
          /\ Cardinality(storage.outbox \cup {m}) = Cardinality(storage.outbox) + 1
      BY <1>1, <2>3, FS_AddElement
    <3>2. QED BY <1>1, <2>1, <2>2, <3>1 DEF OutboxBounded
  <2>5. QED BY <2>1, <2>3, <2>4
<1>3. CASE Drops
  <2>1. storage'.outbox = storage.outbox /\ Full(storage)
    BY <1>3 DEF Drops
  <2>2. QED BY <1>1, <2>1 DEF OutboxBounded, Full
<1>4. CASE Acknowledged
  <2>1. \/ storage'.outbox = storage.outbox
        \/ storage'.outbox = storage.outbox \ {sent}
    BY <1>4, AcknowledgedShape
  <2>2. storage'.lastSequence = storage.lastSequence
    BY <1>4, AcknowledgedShape
  <2>3. OutboxBounded'
    <3>1. /\ IsFiniteSet(storage.outbox \ {sent})
          /\ Cardinality(storage.outbox \ {sent}) <= Cardinality(storage.outbox)
          /\ Cardinality(storage.outbox \ {sent}) \in Nat
      BY <1>1, SmallerOutbox
    <3>2. CASE storage'.outbox = storage.outbox
      BY <1>1, <3>2 DEF OutboxBounded
    <3>3. CASE storage'.outbox = storage.outbox \ {sent}
      BY <1>1, <3>1, <3>3 DEF OutboxBounded
    <3>4. QED BY <2>1, <3>2, <3>3
  <2>4. QED BY <2>2, <2>3
<1>5. CASE Quiet \/ \E w \in wire : Submit(w)
  BY <1>1, <1>5, SubmitShape DEF Quiet, OutboxBounded
<1>6. QED BY <1>2, <1>3, <1>4, <1>5, StepKinds

(* enqueue keeps the outbox within MAX_OUTBOX_MESSAGES and gives up an     *)
(* observation only when it is full, through stops and failed flushes.     *)
THEOREM OutboxKeepsItsBound == Spec => []OutboxBounded /\ GivesUpOnlyWhenFull
<1>1. Init => OutboxBounded
  BY FS_EmptySet, CapacityAssumption DEF Init, EmptyState, OutboxBounded
<1>2. SafeInv /\ OutboxBounded /\ [Next]_vars
        => /\ OutboxBounded'
           /\ [storage'.lastSequence # storage.lastSequence /\ storage'.outbox = storage.outbox
                 => Cardinality(storage.outbox) = Capacity]_vars
  BY BoundedStep DEF SafeInv
<1>3. QED BY <1>1, <1>2, SafeInvHolds, PTL DEF Spec, GivesUpOnlyWhenFull
=============================================================================
