---------------------------- MODULE TimelineProofs ----------------------------
(***************************************************************************)
(* Proofs about Timeline for any records, queries, policies and bounds:    *)
(* the pages a client gets are in order, within its grant and complete.    *)
(***************************************************************************)
EXTENDS Timeline, FiniteSetTheorems, FunctionTheorems, TLAPS

-----------------------------------------------------------------------------
(* The invariants.  The scan's cursor is a frontier in the keyset order:   *)
(* what is on a page is not behind it, what is left to read lies behind.   *)

Upto(a, b) == Newer(a, b) \/ (a.at = b.at /\ a.id = b.id)

Passed(e, cursor) == cursor # None /\ Upto(e, cursor)
Ahead(r, cursor) == cursor = None \/ Newer(cursor, r)

Active == scan # NoScan

(* The client waits while the agent scans, and the scan keeps its budget.  *)
Phases ==
  /\ IsFiniteSet(raw)
  /\ Active <=> client.phase = "wait"
  /\ client.phase = "idle" => received = <<>>
  /\ client.phase # "idle" => client.query \in Queries
  /\ Active =>
       /\ IsFiniteSet(scan.page)
       /\ scan.phase = "read" => scan.scanned < MaxScan
       /\ scan.phase = "decode" => scan.scanned + Cardinality(scan.page) <= MaxScan

(* Entries come from rows in the range that the grant shows.               *)
OfRow(e, r) == InScope(r, client.query) /\ Visible(r) /\ e = Entry(r)

Sources ==
  Active =>
    /\ \A r \in scan.page : r \in raw /\ InScope(r, client.query)
    /\ \A j \in DOMAIN scan.entries : \E r \in raw : OfRow(scan.entries[j], r)

(* Everything shown or about to be shown has been passed, in order.        *)
Order ==
  /\ client.phase \in {"ask", "wait"} =>
       \A i \in DOMAIN received : Passed(received[i], client.before)
  /\ Active =>
       /\ \A i, j \in DOMAIN scan.entries : i < j => Newer(scan.entries[i], scan.entries[j])
       /\ \A i \in DOMAIN received, j \in DOMAIN scan.entries :
            Newer(received[i], scan.entries[j])
       /\ \A i \in DOMAIN received : Passed(received[i], scan.cursor)
       /\ \A j \in DOMAIN scan.entries : Passed(scan.entries[j], scan.cursor)
       /\ \A r \in scan.page : Ahead(r, scan.cursor)
       /\ scan.phase = "wire" => scan.next \in {None, scan.cursor}

Seen(r) == \E i \in DOMAIN received : received[i].id = r.id
Listed(r) ==
  \E j \in DOMAIN scan.entries : scan.entries[j].id = r.id /\ scan.entries[j].at = r.at

(* What was promised has been shown, is on the page in the making or lies  *)
(* ahead of the frontier, and then in the batch or behind all of it.       *)
Owed ==
  /\ client.phase # "idle" =>
       \A r \in promised : r \in raw /\ InScope(r, client.query) /\ Visible(r)
  /\ client.phase = "ask" => \A r \in promised : Seen(r) \/ Ahead(r, client.before)
  /\ Active =>
       \A r \in promised :
         /\ Seen(r) \/ Listed(r) \/ Ahead(r, scan.cursor)
         /\ Ahead(r, scan.cursor) =>
              /\ scan.phase = "decode" =>
                   r \in scan.page \/ (scan.more /\ \A p \in scan.page : Newer(p, r))
              /\ scan.phase = "batch" => scan.more /\ scan.cursor # None
              /\ scan.phase = "wire" => scan.next # None

-----------------------------------------------------------------------------
(* The keyset order.                                                       *)

Point(a) == a.at \in Nat /\ a.id \in Nat

LEMMA NewerFacts ==
  ASSUME NEW a, NEW b, NEW c, Point(a), Point(b), Point(c)
  PROVE  /\ ~Newer(a, a)
         /\ Newer(a, b) /\ Newer(b, c) => Newer(a, c)
         /\ Upto(a, b) /\ Newer(b, c) => Newer(a, c)
         /\ Upto(a, b) /\ Upto(b, c) => Upto(a, c)
         /\ Newer(a, b) /\ Upto(b, c) => Newer(a, c)
         /\ Newer(a, b) => ~Newer(b, a)
         /\ a.id # b.id => Newer(a, b) \/ Newer(b, a)
BY DEF Point, Newer, Upto

LEMMA RecordPoints ==
  ASSUME NEW r \in Records
  PROVE  Point(r) /\ Point(CursorOf(r)) /\ CursorOf(r).at = r.at /\ CursorOf(r).id = r.id
         /\ CursorOf(r) \in [at : Nat, id : Nat] /\ CursorOf(r) # None
<1>1. r \in Record
  BY RecordsAssumption
<1>2. r.at \in Nat /\ r.id \in Nat
  BY <1>1 DEF Record
<1>3. CursorOf(r) \in [at : Nat, id : Nat] /\ CursorOf(r).at = r.at /\ CursorOf(r).id = r.id
  BY <1>2 DEF CursorOf
<1>4. CursorOf(r) # None
  BY <1>3, NoneAssumption
<1>5. QED
  BY <1>2, <1>3, <1>4 DEF Point

(* Two records are never at the same place.                                *)
LEMMA Total ==
  ASSUME NEW r \in Records, NEW s \in Records, r # s
  PROVE  Newer(r, s) \/ Newer(s, r)
<1>1. r.id # s.id
  BY RecordsAssumption
<1>2. QED
  BY <1>1, RecordPoints, NewerFacts

(* A cursor at a record stands for the record.                             *)
LEMMA CursorStands ==
  ASSUME NEW r \in Records, NEW a, Point(a)
  PROVE  /\ Newer(CursorOf(r), a) <=> Newer(r, a)
         /\ Newer(a, CursorOf(r)) <=> Newer(a, r)
         /\ Upto(r, CursorOf(r))
BY RecordPoints DEF Newer, Upto

-----------------------------------------------------------------------------
(* ORDER BY ... LIMIT n.                                                   *)

Above(rows, r) == {s \in rows : Newer(s, r)}

LEMMA AboveGrows ==
  ASSUME NEW rows \in SUBSET Records, IsFiniteSet(rows), NEW r \in rows, NEW s \in rows,
         Newer(s, r)
  PROVE  /\ Cardinality(Above(rows, s)) \in Nat /\ Cardinality(Above(rows, r)) \in Nat
         /\ Cardinality(Above(rows, s)) < Cardinality(Above(rows, r))
<1>1. Above(rows, s) \in SUBSET Above(rows, r)
  <2>1. ASSUME NEW t \in rows, Newer(t, s)
        PROVE  Newer(t, r)
    BY <2>1, RecordPoints, NewerFacts
  <2>2. QED
    BY <2>1 DEF Above
<1>2. s \in Above(rows, r) /\ s \notin Above(rows, s)
  BY RecordPoints, NewerFacts DEF Above
<1>3. Above(rows, r) \in SUBSET rows
  BY DEF Above
<1>4. IsFiniteSet(Above(rows, r)) /\ IsFiniteSet(Above(rows, s))
  BY <1>1, <1>3, FS_Subset
<1>5. /\ Cardinality(Above(rows, s)) <= Cardinality(Above(rows, r))
      /\ Cardinality(Above(rows, s)) # Cardinality(Above(rows, r))
  BY <1>1, <1>2, <1>4, FS_Subset
<1>6. Cardinality(Above(rows, s)) \in Nat /\ Cardinality(Above(rows, r)) \in Nat
  BY <1>4, FS_CardinalityType
<1>7. QED
  BY <1>5, <1>6

LEMMA NewestIs ==
  ASSUME NEW rows, NEW n
  PROVE  Newest(rows, n) = {r \in rows : Cardinality(Above(rows, r)) < n}
BY DEF Newest, Above

(* What LIMIT leaves out is older than all it returns.                     *)
LEMMA NewestFirst ==
  ASSUME NEW rows \in SUBSET Records, IsFiniteSet(rows), NEW n \in Nat,
         NEW p \in Newest(rows, n), NEW r \in rows, r \notin Newest(rows, n)
  PROVE  Newer(p, r)
<1>1. /\ p \in rows /\ Cardinality(Above(rows, p)) < n
      /\ ~(Cardinality(Above(rows, r)) < n)
  BY NewestIs
<1>2. ASSUME Newer(r, p)
      PROVE  FALSE
  <2>1. /\ Cardinality(Above(rows, r)) \in Nat /\ Cardinality(Above(rows, p)) \in Nat
        /\ Cardinality(Above(rows, r)) < Cardinality(Above(rows, p))
    BY <1>1, <1>2, AboveGrows
  <2>2. QED
    BY <1>1, <2>1
<1>3. p # r
  OBVIOUS
<1>4. QED
  BY <1>1, <1>2, <1>3, Total

(* has_more is false: the batch is all there is.                           *)
LEMMA NewestAll ==
  ASSUME NEW rows \in SUBSET Records, IsFiniteSet(rows), NEW n \in Nat,
         ~(Cardinality(rows) > n)
  PROVE  Newest(rows, n) = rows
<1>1. ASSUME NEW r \in rows
      PROVE  Cardinality(Above(rows, r)) < n
  <2>1. Above(rows, r) \in SUBSET rows /\ r \notin Above(rows, r)
    BY RecordPoints, NewerFacts DEF Above
  <2>2. /\ Cardinality(Above(rows, r)) <= Cardinality(rows)
        /\ Cardinality(Above(rows, r)) # Cardinality(rows)
        /\ IsFiniteSet(Above(rows, r))
    BY <2>1, FS_Subset
  <2>3. Cardinality(Above(rows, r)) \in Nat /\ Cardinality(rows) \in Nat
    BY <2>2, FS_CardinalityType
  <2>4. QED
    BY <2>2, <2>3
<1>2. QED
  BY <1>1, NewestIs

(* The batch is no longer than LIMIT: its rows have different ranks.       *)
LEMMA NewestBounded ==
  ASSUME NEW rows \in SUBSET Records, IsFiniteSet(rows), NEW n \in Nat
  PROVE  IsFiniteSet(Newest(rows, n)) /\ Cardinality(Newest(rows, n)) <= n
<1> DEFINE batch == Newest(rows, n)
           rank == [r \in batch |-> Cardinality(Above(rows, r))]
<1>0. batch \in SUBSET rows /\ \A r \in batch : Cardinality(Above(rows, r)) < n
  BY NewestIs
<1>1. \A r \in batch : Cardinality(Above(rows, r)) \in Nat
  <2>1. ASSUME NEW r \in batch
        PROVE  Cardinality(Above(rows, r)) \in Nat
    <3>1. Above(rows, r) \in SUBSET rows
      BY DEF Above
    <3>2. QED
      BY <3>1, FS_Subset, FS_CardinalityType
  <2>2. QED
    BY <2>1
<1> HIDE DEF batch
<1>2. rank \in [batch -> 0 .. n - 1]
  BY <1>0, <1>1
<1>3. ASSUME NEW r \in batch, NEW s \in batch, rank[r] = rank[s]
      PROVE  r = s
  <2>1. SUFFICES ASSUME r # s
                 PROVE  FALSE
    OBVIOUS
  <2>2. Newer(r, s) \/ Newer(s, r)
    BY <1>0, <2>1, Total
  <2>3. Cardinality(Above(rows, r)) = Cardinality(Above(rows, s))
    BY <1>3
  <2>4. QED
    BY <1>0, <1>1, <2>2, <2>3, AboveGrows
<1> HIDE DEF rank
<1>4. rank \in Injection(batch, 0 .. n - 1)
  BY <1>2, <1>3, Fun_IsInj
<1>5. IsFiniteSet(0 .. n - 1) /\ Cardinality(0 .. n - 1) = n
  BY FS_Interval
<1>6. QED
  BY <1>4, <1>5, FS_Injection DEF batch

-----------------------------------------------------------------------------
(* Types.                                                                  *)

Client ==
  [phase : {"idle", "ask", "wait", "done", "failed"}, query : Queries \cup {None},
   before : Cursors]

Scan ==
  [phase : {"read", "decode", "batch", "wire"}, page : SUBSET Records, more : BOOLEAN,
   entries : Seq(Entries), scanned : 0..MaxScan, cursor : Cursors, next : Cursors]

LEMMA TypeParts ==
  /\ TypeOK <=> /\ policy \in Policies /\ raw \in SUBSET Records /\ client \in Client
                /\ received \in Seq(WireEntries) /\ promised \in SUBSET Records
                /\ scan \in {NoScan} \cup Scan
  /\ TypeOK' <=> /\ policy' \in Policies /\ raw' \in SUBSET Records /\ client' \in Client
                 /\ received' \in Seq(WireEntries) /\ promised' \in SUBSET Records
                 /\ scan' \in {NoScan} \cup Scan
BY DEF TypeOK, Client, Scan

LEMMA ScanFields ==
  ASSUME TypeOK, scan.phase # "none"
  PROVE  /\ scan \in Scan /\ Active
         /\ scan.page \in SUBSET Records /\ scan.more \in BOOLEAN
         /\ scan.entries \in Seq(Entries) /\ scan.scanned \in Nat
         /\ scan.cursor \in Cursors /\ scan.next \in Cursors
BY TypeParts DEF Scan, NoScan, Active

LEMMA ActiveIs ==
  ASSUME TypeOK
  PROVE  Active <=> scan.phase # "none"
BY TypeParts DEF Scan, NoScan, Active

LEMMA EntryType ==
  ASSUME NEW r \in Records, policy \in Policies
  PROVE  /\ Entry(r) \in Entries /\ Entry(r).at = r.at /\ Entry(r).id = r.id
         /\ Entry(r).refs = FilterRefs(r.refs)
         /\ Entry(r).payload => policy.grant.payload /\ FilterRefs(r.refs) = DOMAIN r.refs
<1>1. r \in Record
  BY RecordsAssumption
<1>2. r.id \in Nat /\ r.at \in Nat /\ r.bulky \in BOOLEAN /\ r.refs \in Seq(Rank)
  BY <1>1 DEF Record
<1>3. FilterRefs(r.refs) \in SUBSET Nat
  BY <1>2 DEF FilterRefs
<1>4. policy.grant.payload \in BOOLEAN
  BY PoliciesAssumption DEF Grant
<1>5. /\ Entry(r).id = r.id /\ Entry(r).at = r.at /\ Entry(r).refs = FilterRefs(r.refs)
      /\ Entry(r).payload = (policy.grant.payload /\ FilterRefs(r.refs) = DOMAIN r.refs)
  BY DEF Entry
<1>6. (policy.grant.payload /\ FilterRefs(r.refs) = DOMAIN r.refs) \in BOOLEAN
  OBVIOUS
<1>7. Entry(r) \in Entries
  BY <1>2, <1>3, <1>6, Zenon DEF Entry, Entries
<1>8. QED
  BY <1>5, <1>7

LEMMA WireEntryType ==
  ASSUME NEW e \in Entries
  PROVE  /\ WireEntry(e) \in WireEntries /\ WireEntry(e).at = e.at /\ WireEntry(e).id = e.id
         /\ WireEntry(e).refs \in SUBSET e.refs
         /\ WireEntry(e).payload => e.payload /\ WireEntry(e).refs = e.refs
         /\ Point(e) /\ Point(WireEntry(e))
<1> DEFINE kept == {k \in e.refs : Cardinality({j \in e.refs : j < k}) < MaxRefs}
           payload == e.payload /\ kept = e.refs /\ ~e.bulky
<1>1. e.id \in Nat /\ e.at \in Nat /\ e.refs \in SUBSET Nat
  BY DEF Entries
<1>2. kept \in SUBSET e.refs
  OBVIOUS
<1>3. WireEntry(e) = [id |-> e.id, at |-> e.at, refs |-> kept, payload |-> payload]
  BY DEF WireEntry
<1> HIDE DEF kept
<1>4. payload \in BOOLEAN /\ (payload => e.payload /\ kept = e.refs)
  OBVIOUS
<1>5. kept \in SUBSET Nat
  BY <1>1, <1>2
<1> HIDE DEF payload
<1>6. /\ WireEntry(e) \in WireEntries /\ WireEntry(e).at = e.at /\ WireEntry(e).id = e.id
      /\ WireEntry(e).refs = kept /\ WireEntry(e).payload = payload
  BY <1>1, <1>3, <1>4, <1>5 DEF WireEntries
<1>7. Point(e) /\ Point(WireEntry(e))
  BY <1>1, <1>6 DEF Point
<1>8. QED
  BY <1>2, <1>4, <1>6, <1>7

LEMMA WireType ==
  ASSUME scan.entries \in Seq(Entries)
  PROVE  /\ Wire \in Seq(WireEntries) /\ Len(Wire) = Len(scan.entries)
         /\ DOMAIN Wire = DOMAIN scan.entries
         /\ \A i \in DOMAIN scan.entries : Wire[i] = WireEntry(scan.entries[i])
         /\ Wire = <<>> <=> scan.entries = <<>>
<1>1. Len(scan.entries) \in Nat /\ DOMAIN scan.entries = 1 .. Len(scan.entries)
  OBVIOUS
<1>2. \A i \in DOMAIN scan.entries : WireEntry(scan.entries[i]) \in WireEntries
  <2>1. \A i \in DOMAIN scan.entries : scan.entries[i] \in Entries
    OBVIOUS
  <2>2. QED
    BY <2>1, WireEntryType
<1>3. Wire \in [1 .. Len(scan.entries) -> WireEntries]
  BY <1>1, <1>2 DEF Wire
<1>4. Wire \in Seq(WireEntries) /\ Len(Wire) = Len(scan.entries)
  BY <1>1, <1>3
<1>5. QED
  BY <1>1, <1>4 DEF Wire

(* One row of a batch, and what it makes of the scan.                      *)
LEMMA DecodeFields ==
  ASSUME TypeOK, NEW r \in Records, Decode(r)
  PROVE  /\ scan.phase = "decode" /\ scan \in Scan /\ r \in scan.page
         /\ \A s \in scan.page \ {r} : Newer(r, s)
         /\ UNCHANGED <<policy, raw, client, received, promised>>
         /\ scan'.cursor = CursorOf(r) /\ scan'.more = scan.more
         /\ scan'.scanned = scan.scanned + 1
         /\ scan'.entries = IF Visible(r) THEN Append(scan.entries, Entry(r))
                            ELSE scan.entries
         /\ \/ /\ scan'.phase = "wire" /\ scan'.page = {}
               /\ scan'.next = IF scan.page \ {r} # {} \/ scan.more THEN CursorOf(r) ELSE None
            \/ /\ scan'.page = scan.page \ {r} /\ scan'.next = scan.next
               /\ scan'.phase = IF scan.page \ {r} = {} THEN "batch" ELSE "decode"
         /\ DOMAIN scan' = DOMAIN scan
<1>1. scan.phase = "decode" /\ r \in scan.page /\ \A s \in scan.page \ {r} : Newer(r, s)
  BY DEF Decode, IsHead
<1>2. scan \in Scan
  BY <1>1, ScanFields
<1> DEFINE entries == IF Visible(r) THEN Append(scan.entries, Entry(r)) ELSE scan.entries
           full == Len(entries) = Limit
           rest == scan.page \ {r}
<1>3. scan' = [scan EXCEPT
          !.page = IF full THEN {} ELSE rest,
          !.entries = entries,
          !.scanned = @ + 1,
          !.cursor = CursorOf(r),
          !.next = IF full THEN IF rest # {} \/ scan.more THEN CursorOf(r) ELSE None ELSE @,
          !.phase = IF full THEN "wire" ELSE IF rest = {} THEN "batch" ELSE "decode"]
  BY DEF Decode
<1>4. UNCHANGED <<policy, raw, client, received, promised>>
  BY DEF Decode
<1> HIDE DEF entries, full, rest
<1>5. /\ scan'.page = IF full THEN {} ELSE rest
      /\ scan'.entries = entries
      /\ scan'.scanned = scan.scanned + 1
      /\ scan'.cursor = CursorOf(r) /\ scan'.more = scan.more
      /\ scan'.next = IF full THEN IF rest # {} \/ scan.more THEN CursorOf(r) ELSE None
                      ELSE scan.next
      /\ scan'.phase = IF full THEN "wire" ELSE IF rest = {} THEN "batch" ELSE "decode"
      /\ DOMAIN scan' = DOMAIN scan
  BY <1>2, <1>3 DEF Scan
<1>6. QED
  BY <1>1, <1>2, <1>4, <1>5 DEF entries, rest

(* One batch of raw rows.                                                  *)
LEMMA BatchFields ==
  ASSUME TypeOK, Phases, QueryRawTimeline
  PROVE  \E n \in Nat, rows \in SUBSET Records :
           /\ rows = Matching(client.query, scan.cursor)
           /\ n <= MaxScan - scan.scanned /\ IsFiniteSet(rows)
           /\ scan.phase = "read" /\ scan \in Scan
           /\ UNCHANGED <<policy, raw, client, received, promised>>
           /\ scan'.page = Newest(rows, n) /\ scan'.more = (Cardinality(rows) > n)
           /\ scan'.phase = IF rows = {} THEN "wire" ELSE "decode"
           /\ scan'.next = IF rows = {} THEN None ELSE scan.next
           /\ scan'.cursor = scan.cursor /\ scan'.entries = scan.entries
           /\ scan'.scanned = scan.scanned
           /\ scan' \in Scan
<1>1. scan.phase = "read"
  BY DEF QueryRawTimeline
<1>2. scan \in Scan /\ Active /\ scan.scanned \in Nat /\ scan.scanned < MaxScan
  BY <1>1, ScanFields DEF Phases
<1> DEFINE n == IF RawBatch <= MaxScan - scan.scanned THEN RawBatch ELSE MaxScan - scan.scanned
           rows == Matching(client.query, scan.cursor)
<1>3. n \in Nat /\ n <= MaxScan - scan.scanned
  BY <1>2, LimitsAssumption
<1>4. rows \in SUBSET raw
  BY DEF Matching
<1>5. rows \in SUBSET Records /\ IsFiniteSet(rows)
  BY <1>4, FS_Subset, TypeParts DEF Phases
<1>6. /\ scan' = [scan EXCEPT
            !.phase = IF rows = {} THEN "wire" ELSE "decode",
            !.page = Newest(rows, n),
            !.more = Cardinality(rows) > n,
            !.next = IF rows = {} THEN None ELSE @]
      /\ UNCHANGED <<policy, raw, client, received, promised>>
  BY DEF QueryRawTimeline
<1> HIDE DEF n, rows
<1>7. Newest(rows, n) \in SUBSET Records /\ (Cardinality(rows) > n) \in BOOLEAN
  BY <1>5 DEF Newest
<1>8. /\ scan'.page = Newest(rows, n) /\ scan'.more = (Cardinality(rows) > n)
      /\ scan'.phase = IF rows = {} THEN "wire" ELSE "decode"
      /\ scan'.next = IF rows = {} THEN None ELSE scan.next
      /\ scan'.cursor = scan.cursor /\ scan'.entries = scan.entries
      /\ scan'.scanned = scan.scanned
  BY <1>2, <1>6 DEF Scan
<1>9. scan' \in Scan
  <2> DEFINE more == Cardinality(rows) > n
             page == Newest(rows, n)
  <2>1. more \in BOOLEAN /\ page \in SUBSET Records /\ None \in Cursors
    BY <1>7 DEF Cursors
  <2>2. scan' = [scan EXCEPT
            !.phase = IF rows = {} THEN "wire" ELSE "decode", !.page = page,
            !.more = more, !.next = IF rows = {} THEN None ELSE @]
    BY <1>6
  <2> HIDE DEF more, page
  <2>3. QED
    BY <1>2, <2>1, <2>2 DEF Scan
<1>10. QED
  BY <1>1, <1>2, <1>3, <1>5, <1>6, <1>8, <1>9 DEF rows

(* The end of a batch.                                                     *)
LEMMA BatchDoneFields ==
  ASSUME TypeOK, BatchDone
  PROVE  /\ scan.phase = "batch" /\ scan \in Scan /\ scan' \in Scan
         /\ UNCHANGED <<policy, raw, client, received, promised>>
         /\ scan'.page = scan.page /\ scan'.more = scan.more
         /\ scan'.entries = scan.entries /\ scan'.cursor = scan.cursor
         /\ scan'.scanned = scan.scanned
         /\ scan'.phase = IF scan.more /\ scan.scanned < MaxScan THEN "read" ELSE "wire"
         /\ scan'.next = IF scan.more \/ scan.scanned >= MaxScan THEN scan.cursor ELSE None
<1>1. scan.phase = "batch" /\ UNCHANGED <<policy, raw, client, received, promised>>
  BY DEF BatchDone
<1>2. scan \in Scan
  BY <1>1, ScanFields
<1> DEFINE phase == IF scan.more /\ scan.scanned < MaxScan THEN "read" ELSE "wire"
           next == IF scan.more \/ scan.scanned >= MaxScan THEN scan.cursor ELSE None
<1>3. scan' = [scan EXCEPT !.phase = phase, !.next = next]
  BY DEF BatchDone
<1>4. phase \in {"read", "wire"} /\ next \in Cursors
  BY <1>2 DEF Scan, Cursors
<1> HIDE DEF phase, next
<1>5. /\ scan' \in Scan
      /\ scan'.page = scan.page /\ scan'.more = scan.more
      /\ scan'.entries = scan.entries /\ scan'.cursor = scan.cursor
      /\ scan'.scanned = scan.scanned /\ scan'.phase = phase /\ scan'.next = next
  BY <1>2, <1>3, <1>4 DEF Scan
<1>6. QED
  BY <1>1, <1>2, <1>5 DEF phase, next

(* The page that reaches the client has the first n of the entries.        *)
Sends(n) ==
  LET next == IF n < Len(scan.entries) THEN CursorOf(scan.entries[n]) ELSE scan.next IN
  /\ n \in 0 .. Len(scan.entries) /\ (n > 0 \/ scan.entries = <<>>)
  /\ client'.query = client.query /\ client'.before = next
  /\ client'.phase = IF next = None THEN "done" ELSE "ask"
  /\ received' \in Seq(WireEntries)
  /\ \A i \in DOMAIN received : i \in DOMAIN received' /\ received'[i] = received[i]
  /\ \A j \in 1 .. n :
       /\ Len(received) + j \in DOMAIN received'
       /\ received'[Len(received) + j] = WireEntry(scan.entries[j])
  /\ \A i \in DOMAIN received' : i \notin DOMAIN received =>
       \E j \in 1 .. n : i = Len(received) + j

LEMMA Joined ==
  ASSUME NEW a \in Seq(WireEntries), NEW b \in Seq(WireEntries)
  PROVE  /\ a \o b \in Seq(WireEntries) /\ Len(a) \in Nat /\ DOMAIN a = 1 .. Len(a)
         /\ DOMAIN (a \o b) = 1 .. (Len(a) + Len(b))
         /\ \A i \in 1 .. Len(a) : (a \o b)[i] = a[i]
         /\ \A j \in 1 .. Len(b) : (a \o b)[Len(a) + j] = b[j]
<1>1. /\ a \o b \in Seq(WireEntries) /\ Len(a) \in Nat /\ Len(b) \in Nat /\ DOMAIN a = 1 .. Len(a)
      /\ DOMAIN (a \o b) = 1 .. (Len(a) + Len(b))
  OBVIOUS
<1>2. \A i \in 1 .. Len(a) : (a \o b)[i] = a[i]
  OBVIOUS
<1>3. ASSUME NEW j \in 1 .. Len(b)
      PROVE  (a \o b)[Len(a) + j] = b[j]
  BY <1>1
<1>4. QED
  BY <1>1, <1>2, <1>3

LEMMA RespondFields ==
  ASSUME TypeOK, Respond
  PROVE  /\ scan.phase = "wire" /\ scan \in Scan /\ client' \in Client /\ scan' = NoScan
         /\ UNCHANGED <<policy, raw, promised>>
         /\ \E n \in Nat : Sends(n)
<1>1. scan.phase = "wire" /\ scan' = NoScan /\ UNCHANGED <<policy, raw, promised>>
  BY DEF Respond
<1>2. /\ scan \in Scan /\ scan.entries \in Seq(Entries) /\ scan.next \in Cursors
      /\ client \in Client /\ received \in Seq(WireEntries)
  BY <1>1, ScanFields, TypeParts
<1>3. PICK n \in Fitting :
        /\ n > 0 \/ Wire = <<>>
        /\ received' = received \o SubSeq(Wire, 1, n)
        /\ client' = [client EXCEPT
             !.phase = IF NextCursor(n) = None THEN "done" ELSE "ask",
             !.before = NextCursor(n)]
  BY DEF Respond
<1>4. /\ n \in 0 .. Len(scan.entries) /\ n \in Nat /\ Len(scan.entries) \in Nat
      /\ Wire \in Seq(WireEntries) /\ Len(Wire) = Len(scan.entries)
      /\ \A i \in 1 .. Len(scan.entries) : Wire[i] = WireEntry(scan.entries[i])
      /\ n > 0 \/ scan.entries = <<>>
  BY <1>2, <1>3, WireType DEF Fitting
<1> DEFINE next == IF n < Len(scan.entries) THEN CursorOf(scan.entries[n]) ELSE scan.next
<1>5. NextCursor(n) = next /\ next \in Cursors
  <2>1. CASE n < Len(scan.entries)
    <3>1. n \in 1 .. Len(scan.entries)
      BY <1>2, <1>4, <2>1
    <3>2. Wire[n] = WireEntry(scan.entries[n]) /\ scan.entries[n] \in Entries
      BY <1>2, <1>4, <3>1
    <3>3. /\ Wire[n].at = scan.entries[n].at /\ Wire[n].id = scan.entries[n].id
          /\ Point(scan.entries[n])
      BY <3>2, WireEntryType
    <3>4. QED
      BY <1>4, <2>1, <3>3 DEF NextCursor, CursorOf, Cursors, Point
  <2>2. CASE ~(n < Len(scan.entries))
    BY <1>2, <1>4, <2>2 DEF NextCursor
  <2>3. QED
    BY <2>1, <2>2
<1>6. client' = [client EXCEPT !.phase = IF next = None THEN "done" ELSE "ask", !.before = next]
  BY <1>3, <1>5
<1> HIDE DEF next
<1>7. /\ client' \in Client /\ client'.query = client.query /\ client'.before = next
      /\ client'.phase = IF next = None THEN "done" ELSE "ask"
  BY <1>2, <1>5, <1>6 DEF Client
<1> DEFINE sent == SubSeq(Wire, 1, n)
<1>8. /\ sent \in Seq(WireEntries) /\ Len(sent) = n
      /\ \A j \in 1 .. n : sent[j] = Wire[j]
  BY <1>4
<1>9. received' = received \o sent
  BY <1>3
<1> HIDE DEF sent
<1>10. /\ received' \in Seq(WireEntries) /\ Len(received) \in Nat
       /\ DOMAIN received' = 1 .. (Len(received) + n) /\ DOMAIN received = 1 .. Len(received)
       /\ \A i \in 1 .. Len(received) : received'[i] = received[i]
       /\ \A j \in 1 .. n : received'[Len(received) + j] = sent[j]
  <2>1. received \in Seq(WireEntries) /\ sent \in Seq(WireEntries)
    BY <1>2, <1>8
  <2>2. /\ received \o sent \in Seq(WireEntries) /\ Len(received) \in Nat
        /\ DOMAIN received = 1 .. Len(received)
        /\ DOMAIN (received \o sent) = 1 .. (Len(received) + Len(sent))
        /\ \A i \in 1 .. Len(received) : (received \o sent)[i] = received[i]
        /\ \A j \in 1 .. Len(sent) : (received \o sent)[Len(received) + j] = sent[j]
    BY <2>1, Joined
  <2>3. QED
    BY <1>8, <1>9, <2>2, Zenon
<1>11. \A i \in DOMAIN received : i \in DOMAIN received' /\ received'[i] = received[i]
  BY <1>4, <1>10
<1>12. \A j \in 1 .. n :
         /\ Len(received) + j \in DOMAIN received'
         /\ received'[Len(received) + j] = WireEntry(scan.entries[j])
  BY <1>4, <1>8, <1>10
<1>13. \A i \in DOMAIN received' : i \notin DOMAIN received =>
         \E j \in 1 .. n : i = Len(received) + j
  <2>1. ASSUME NEW i \in DOMAIN received', i \notin DOMAIN received
        PROVE  i - Len(received) \in 1 .. n /\ i = Len(received) + (i - Len(received))
    BY <1>4, <1>10, <2>1
  <2>2. QED
    BY <2>1
<1>14. Sends(n)
  BY <1>4, <1>7, <1>10, <1>11, <1>12, <1>13 DEF Sends, next
<1>15. QED
  BY <1>1, <1>2, <1>4, <1>7, <1>14

LEMMA QueryFields ==
  ASSUME TypeOK, QueryTimeline
  PROVE  /\ client.phase = "ask" /\ ValidQuery(client.query)
         /\ client' \in Client /\ client'.phase = "wait"
         /\ client'.query = client.query /\ client'.before = client.before
         /\ UNCHANGED <<policy, raw, received, promised>>
         /\ scan' \in Scan /\ scan'.phase = "read" /\ scan'.page = {}
         /\ scan'.entries = <<>> /\ scan'.scanned = 0 /\ scan'.cursor = client.before
<1>1. /\ client.phase = "ask" /\ ValidQuery(client.query)
      /\ client' = [client EXCEPT !.phase = "wait"]
      /\ scan' = [phase |-> "read", page |-> {}, more |-> FALSE, entries |-> <<>>,
                  scanned |-> 0, cursor |-> client.before, next |-> None]
      /\ UNCHANGED <<policy, raw, received, promised>>
  BY DEF QueryTimeline
<1>2. client \in Client
  BY TypeParts
<1>3. <<>> \in Seq(Entries) /\ 0 \in 0..MaxScan /\ None \in Cursors /\ client.before \in Cursors
  BY <1>2, LimitsAssumption DEF Client, Cursors
<1>4. scan' \in Scan
  BY <1>1, <1>3, Zenon DEF Scan
<1>5. /\ client' \in Client /\ client'.phase = "wait"
      /\ client'.query = client.query /\ client'.before = client.before
  BY <1>1, <1>2 DEF Client
<1>6. QED
  BY <1>1, <1>4, <1>5

LEMMA FailFields ==
  ASSUME TypeOK, Fail
  PROVE  /\ client' \in Client /\ client'.phase = "failed" /\ client'.query = client.query
         /\ scan' = NoScan /\ UNCHANGED <<policy, raw, received, promised>>
<1>1. client \in Client
  BY TypeParts
<1>2. QED
  BY <1>1 DEF Fail, Client

-----------------------------------------------------------------------------
(* Types and phases are kept.                                              *)

LEMMA ScanIs ==
  ASSUME NEW s \in Scan
  PROVE  s # NoScan /\ s.phase # "none"
BY DEF Scan, NoScan

LEMMA DecodeTypes ==
  ASSUME TypeOK, Phases, NEW r \in Records, Decode(r)
  PROVE  TypeOK' /\ Phases' /\ Active'
<1>1. /\ scan.phase = "decode" /\ scan \in Scan /\ r \in scan.page
      /\ UNCHANGED <<policy, raw, client, received, promised>>
      /\ scan'.cursor = CursorOf(r) /\ scan'.more = scan.more
      /\ scan'.scanned = scan.scanned + 1
      /\ scan'.entries = IF Visible(r) THEN Append(scan.entries, Entry(r)) ELSE scan.entries
      /\ DOMAIN scan' = DOMAIN scan
  BY DecodeFields
<1>2. Active /\ IsFiniteSet(scan.page) /\ scan.scanned + Cardinality(scan.page) <= MaxScan
  BY <1>1, ScanIs DEF Phases, Active
<1>3. /\ IsFiniteSet(scan.page \ {r})
      /\ Cardinality(scan.page \ {r}) = Cardinality(scan.page) - 1
      /\ Cardinality(scan.page \ {r}) \in Nat /\ Cardinality(scan.page) \in Nat
  BY <1>1, <1>2, FS_RemoveElement, FS_CardinalityType
<1>4. /\ scan.scanned \in Nat /\ scan'.scanned \in 0..MaxScan
      /\ scan'.scanned + Cardinality(scan.page \ {r}) <= MaxScan
  BY <1>1, <1>2, <1>3, LimitsAssumption DEF Scan
<1>5. scan'.entries \in Seq(Entries)
  <2>1. scan.entries \in Seq(Entries) /\ Entry(r) \in Entries
    BY <1>1, EntryType, TypeParts DEF Scan
  <2>2. Append(scan.entries, Entry(r)) \in Seq(Entries)
    BY <2>1
  <2>3. QED
    BY <1>1, <2>1, <2>2
<1>6. /\ scan'.phase \in {"decode", "batch", "wire"} /\ scan'.page \in SUBSET Records
      /\ scan'.next \in Cursors /\ scan'.cursor \in Cursors /\ scan'.more \in BOOLEAN
      /\ IsFiniteSet(scan'.page)
      /\ scan'.phase = "decode" => scan'.page = scan.page \ {r}
  <2>1. CursorOf(r) \in Cursors /\ None \in Cursors
    BY RecordPoints DEF Cursors
  <2>2. scan.page \in SUBSET Records /\ scan.next \in Cursors /\ scan.more \in BOOLEAN
    BY <1>1 DEF Scan
  <2>3. \/ /\ scan'.phase = "wire" /\ scan'.page = {}
           /\ scan'.next = IF scan.page \ {r} # {} \/ scan.more THEN CursorOf(r) ELSE None
        \/ /\ scan'.page = scan.page \ {r} /\ scan'.next = scan.next
           /\ scan'.phase = IF scan.page \ {r} = {} THEN "batch" ELSE "decode"
    BY DecodeFields
  <2>4. CASE scan'.phase = "wire" /\ scan'.page = {}
           /\ scan'.next = IF scan.page \ {r} # {} \/ scan.more THEN CursorOf(r) ELSE None
    BY <1>1, <2>1, <2>2, <2>4, FS_EmptySet
  <2>5. CASE scan'.page = scan.page \ {r} /\ scan'.next = scan.next
           /\ scan'.phase = IF scan.page \ {r} = {} THEN "batch" ELSE "decode"
    BY <1>1, <1>3, <2>1, <2>2, <2>5
  <2>6. QED
    BY <2>3, <2>4, <2>5
<1>7. scan' \in Scan
  <2>1. scan' = [scan EXCEPT !.phase = scan'.phase, !.page = scan'.page,
                   !.entries = scan'.entries, !.scanned = scan'.scanned,
                   !.cursor = scan'.cursor, !.next = scan'.next]
    <3> DEFINE entries == IF Visible(r) THEN Append(scan.entries, Entry(r)) ELSE scan.entries
               full == Len(entries) = Limit
               rest == scan.page \ {r}
    <3>1. scan' = [scan EXCEPT
              !.page = IF full THEN {} ELSE rest,
              !.entries = entries,
              !.scanned = @ + 1,
              !.cursor = CursorOf(r),
              !.next = IF full THEN IF rest # {} \/ scan.more THEN CursorOf(r) ELSE None ELSE @,
              !.phase = IF full THEN "wire" ELSE IF rest = {} THEN "batch" ELSE "decode"]
      BY DEF Decode
    <3> HIDE DEF entries, full, rest
    <3>2. QED
      BY <1>1, <3>1 DEF Scan
  <2>2. QED
    BY <1>1, <1>4, <1>5, <1>6, <2>1 DEF Scan
<1>8. Active'
  BY <1>7, ScanIs DEF Active
<1>9. TypeOK'
  BY <1>1, <1>7, TypeParts
<1>10. Phases'
  BY <1>1, <1>2, <1>4, <1>6, <1>8 DEF Phases
<1>11. QED
  BY <1>8, <1>9, <1>10

LEMMA BatchTypes ==
  ASSUME TypeOK, Phases, QueryRawTimeline
  PROVE  TypeOK' /\ Phases' /\ Active'
<1>1. PICK n \in Nat, rows \in SUBSET Records :
        /\ n <= MaxScan - scan.scanned /\ IsFiniteSet(rows)
        /\ scan.phase = "read" /\ scan \in Scan
        /\ UNCHANGED <<policy, raw, client, received, promised>>
        /\ scan'.page = Newest(rows, n)
        /\ scan'.phase = IF rows = {} THEN "wire" ELSE "decode"
        /\ scan'.scanned = scan.scanned
        /\ scan' \in Scan
  BY BatchFields
<1>2. Active /\ Active'
  BY <1>1, ScanIs DEF Active
<1>3. IsFiniteSet(scan'.page) /\ Cardinality(scan'.page) <= n /\ Cardinality(scan'.page) \in Nat
  BY <1>1, NewestBounded, FS_CardinalityType
<1>4. scan'.scanned + Cardinality(scan'.page) <= MaxScan /\ scan'.phase # "read"
  <2>1. scan.scanned \in Nat /\ MaxScan \in Nat
    BY <1>1, LimitsAssumption DEF Scan
  <2>2. QED
    BY <1>1, <1>3, <2>1
<1>5. TypeOK'
  BY <1>1, TypeParts
<1>6. Phases'
  BY <1>1, <1>2, <1>3, <1>4 DEF Phases
<1>7. QED
  BY <1>2, <1>5, <1>6

LEMMA BatchDoneTypes ==
  ASSUME TypeOK, Phases, BatchDone
  PROVE  TypeOK' /\ Phases' /\ Active'
<1>1. /\ scan.phase = "batch" /\ scan \in Scan /\ scan' \in Scan
      /\ UNCHANGED <<policy, raw, client, received, promised>>
      /\ scan'.page = scan.page /\ scan'.scanned = scan.scanned
      /\ scan'.phase = IF scan.more /\ scan.scanned < MaxScan THEN "read" ELSE "wire"
  BY BatchDoneFields
<1>2. Active /\ Active'
  BY <1>1, ScanIs DEF Active
<1>3. TypeOK'
  BY <1>1, TypeParts
<1>4. Phases'
  BY <1>1, <1>2 DEF Phases
<1>5. QED
  BY <1>2, <1>3, <1>4

LEMMA RespondTypes ==
  ASSUME TypeOK, Phases, Respond
  PROVE  TypeOK' /\ Phases' /\ ~Active'
<1>1. /\ scan.phase = "wire" /\ scan \in Scan /\ client' \in Client /\ scan' = NoScan
      /\ UNCHANGED <<policy, raw, promised>>
  BY RespondFields
<1>2. PICK n \in Nat : Sends(n)
  BY RespondFields
<1>3. /\ received' \in Seq(WireEntries) /\ client'.query = client.query
      /\ client'.phase \in {"ask", "done"}
  BY <1>2 DEF Sends
<1>4. Active /\ ~Active'
  BY <1>1, ScanIs DEF Active
<1>5. client.query \in Queries
  BY <1>4 DEF Phases
<1>6. TypeOK'
  BY <1>1, <1>3, TypeParts
<1>7. Phases'
  BY <1>1, <1>3, <1>4, <1>5 DEF Phases
<1>8. QED
  BY <1>4, <1>6, <1>7

LEMMA OtherTypes ==
  ASSUME TypeOK, Phases
  PROVE  /\ QueryTimeline => TypeOK' /\ Phases' /\ Active'
         /\ client.phase \in {"ask", "wait"} /\ Fail => TypeOK' /\ Phases' /\ ~Active'
         /\ (\E r \in Records : Insert(r)) => TypeOK' /\ Phases'
         /\ (\E q \in Queries : Begin(q)) => TypeOK' /\ Phases' /\ ~Active'
         /\ UNCHANGED vars => TypeOK' /\ Phases'
<1>1. ASSUME QueryTimeline
      PROVE  TypeOK' /\ Phases' /\ Active'
  <2>1. /\ client.phase = "ask" /\ client' \in Client /\ client'.phase = "wait"
        /\ client'.query = client.query
        /\ UNCHANGED <<policy, raw, received, promised>>
        /\ scan' \in Scan /\ scan'.phase = "read" /\ scan'.page = {} /\ scan'.scanned = 0
    BY <1>1, QueryFields
  <2>2. Active' /\ TypeOK'
    BY <2>1, ScanIs, TypeParts DEF Active
  <2>3. IsFiniteSet(scan'.page) /\ scan'.scanned < MaxScan
    BY <2>1, FS_EmptySet, LimitsAssumption
  <2>4. Phases'
    BY <2>1, <2>2, <2>3 DEF Phases
  <2>5. QED
    BY <2>2, <2>4
<1>2. ASSUME client.phase \in {"ask", "wait"}, Fail
      PROVE  TypeOK' /\ Phases' /\ ~Active'
  <2>1. /\ client' \in Client /\ client'.phase = "failed" /\ client'.query = client.query
        /\ scan' = NoScan /\ UNCHANGED <<policy, raw, received, promised>>
    BY <1>2, FailFields
  <2>2. QED
    BY <1>2, <2>1, TypeParts DEF Phases, Active
<1>3. ASSUME NEW r \in Records, Insert(r)
      PROVE  TypeOK' /\ Phases'
  <2>1. raw' = raw \cup {r} /\ UNCHANGED <<policy, client, received, promised, scan>>
    BY <1>3 DEF Insert
  <2>2. IsFiniteSet(raw')
    BY <2>1, FS_AddElement DEF Phases
  <2>3. TypeOK'
    BY <2>1, TypeParts
  <2>4. Phases'
    BY <2>1, <2>2 DEF Phases, Active
  <2>5. QED
    BY <2>3, <2>4
<1>4. ASSUME NEW q \in Queries, Begin(q)
      PROVE  TypeOK' /\ Phases' /\ ~Active'
  <2>1. /\ client.phase = "idle" /\ client' = [phase |-> "ask", query |-> q, before |-> None]
        /\ promised' \in SUBSET raw /\ UNCHANGED <<policy, raw, received, scan>>
    BY <1>4 DEF Begin
  <2>2. client' \in Client /\ client'.phase = "ask" /\ client'.query = q
    BY <2>1 DEF Client, Cursors
  <2>3. TypeOK'
    BY <2>1, <2>2, TypeParts
  <2>4. ~Active
    BY <2>1 DEF Phases
  <2>5. QED
    BY <2>1, <2>2, <2>3, <2>4 DEF Phases, Active
<1>5. ASSUME UNCHANGED vars
      PROVE  TypeOK' /\ Phases'
  BY <1>5, TypeParts DEF vars, Phases, Active
<1>6. QED
  BY <1>1, <1>2, <1>3, <1>4, <1>5

(* Every failure is the end of a request.                                  *)
LEMMA Failures ==
  ASSUME TypeOK, Phases, RefuseQuery \/ DecodeFails \/ OversizedEntry
  PROVE  client.phase \in {"ask", "wait"} /\ Fail
<1>1. CASE RefuseQuery
  BY <1>1 DEF RefuseQuery
<1>2. CASE DecodeFails \/ OversizedEntry
  <2>1. scan.phase # "none" /\ Fail
    BY <1>2 DEF DecodeFails, OversizedEntry
  <2>2. QED
    BY <2>1, ActiveIs DEF Phases
<1>3. QED
  BY <1>1, <1>2

LEMMA InitPhases == Init => TypeOK /\ Phases
<1>1. ASSUME Init
      PROVE  TypeOK /\ Phases
  <2>1. <<>> \in Seq(WireEntries) /\ IsFiniteSet({})
    BY FS_EmptySet
  <2>2. client \in Client /\ client.phase = "idle"
    BY <1>1 DEF Init, Client, Cursors
  <2>3. received \in Seq(WireEntries) /\ received = <<>>
    BY <1>1, <2>1, Zenon DEF Init
  <2>4. TypeOK
    BY <1>1, <2>2, <2>3, TypeParts DEF Init
  <2>5. QED
    BY <1>1, <2>1, <2>2, <2>3, <2>4 DEF Init, Phases, Active
<1>2. QED
  BY <1>1

LEMMA StepPhases == TypeOK /\ Phases /\ [Next]_vars => TypeOK' /\ Phases'
BY DecodeTypes, BatchTypes, BatchDoneTypes, RespondTypes, OtherTypes, Failures
DEF Next, Agent

(* Every variable keeps its shape: no batch exceeds what is left of the    *)
(* scan budget of its request.                                             *)
THEOREM TypeCorrect == Spec => []TypeOK
<1>1. QED
  BY InitPhases, StepPhases, PTL DEF Spec

-----------------------------------------------------------------------------
(* What is shown is within the grant, and failures have a cause.           *)

LEMMA SamePolicy ==
  ASSUME UNCHANGED policy, NEW r
  PROVE  Entry(r)' = Entry(r) /\ (Visible(r)' <=> Visible(r))
         /\ FilterRefs(r.refs)' = FilterRefs(r.refs)
BY DEF Entry, Visible, FilterRefs

(* The policy and the query stay, and rows are only added.                 *)
LEMMA Lasting ==
  ASSUME TypeOK, Phases, Next \/ UNCHANGED vars
  PROVE  /\ UNCHANGED policy /\ raw \subseteq raw'
         /\ client.phase # "idle" => client'.query = client.query /\ UNCHANGED promised
<1>1. ASSUME NEW r \in Records, Decode(r)
      PROVE  UNCHANGED <<policy, raw, client, promised>>
  BY <1>1 DEF Decode
<1>2. CASE QueryRawTimeline \/ BatchDone
  BY <1>2 DEF QueryRawTimeline, BatchDone
<1>3. CASE Respond
  <2>1. client'.query = client.query /\ UNCHANGED <<policy, raw, promised>>
    BY <1>3, RespondFields DEF Sends
  <2>2. QED
    BY <2>1
<1>4. CASE QueryTimeline
  BY <1>4, QueryFields
<1>5. CASE Fail
  BY <1>5, FailFields
<1>6. CASE (\E r \in Records : Insert(r)) \/ (\E q \in Queries : Begin(q)) \/ UNCHANGED vars
  BY <1>6 DEF Insert, Begin, vars
<1>7. QED
  BY <1>1, <1>2, <1>3, <1>4, <1>5, <1>6, Failures DEF Next, Agent

LEMMA SourcesInactive ==
  ASSUME ~Active'
  PROVE  Sources'
BY DEF Sources

LEMMA SourcesStep ==
  ASSUME TypeOK, Phases, Sources, Next \/ UNCHANGED vars
  PROVE  Sources'
<1>0. UNCHANGED policy /\ raw \subseteq raw'
      /\ (client.phase # "idle" => client'.query = client.query)
  BY Lasting
<1>1. ASSUME Active, client'.query = client.query, NEW entries,
             scan'.entries = entries,
             \A r \in scan'.page : r \in raw /\ InScope(r, client.query),
             \A j \in DOMAIN entries : \E r \in raw : OfRow(entries[j], r)
      PROVE  Sources'
  <2>1. \A r \in scan'.page : r \in raw' /\ InScope(r, client'.query)
    BY <1>0, <1>1
  <2>2. ASSUME NEW j \in DOMAIN scan'.entries
        PROVE  \E r \in raw' :
                 InScope(r, client'.query) /\ Visible(r)' /\ scan'.entries[j] = Entry(r)'
    <3>1. PICK r \in raw : OfRow(entries[j], r)
      BY <1>1, <2>2
    <3>2. r \in raw' /\ InScope(r, client'.query) /\ Visible(r) /\ scan'.entries[j] = Entry(r)
      BY <1>0, <1>1, <3>1 DEF OfRow
    <3>3. QED
      BY <1>0, <3>2, SamePolicy
  <2>3. QED
    BY <2>1, <2>2 DEF Sources, OfRow
<1>2. CASE Active /\ UNCHANGED <<client, scan>>
  BY <1>1, <1>2 DEF Sources
<1>3. ASSUME NEW r \in Records, Decode(r)
      PROVE  Sources'
  <2>1. /\ scan.phase = "decode" /\ scan \in Scan /\ r \in scan.page /\ UNCHANGED client
        /\ scan'.entries = IF Visible(r) THEN Append(scan.entries, Entry(r)) ELSE scan.entries
        /\ scan'.page \in SUBSET scan.page
    BY <1>3, DecodeFields
  <2>2. Active /\ scan.entries \in Seq(Entries)
    BY <2>1, ScanIs DEF Active, Scan
  <2>3. r \in raw /\ InScope(r, client.query)
    BY <2>1, <2>2 DEF Sources
  <2>4. ASSUME NEW j \in DOMAIN scan'.entries
        PROVE  \E s \in raw : OfRow(scan'.entries[j], s)
    <3>1. CASE j \in DOMAIN scan.entries /\ scan'.entries[j] = scan.entries[j]
      BY <2>2, <3>1 DEF Sources
    <3>2. CASE Visible(r) /\ scan'.entries[j] = Entry(r)
      BY <2>3, <3>2 DEF OfRow
    <3>3. QED
      BY <2>1, <2>2, <2>4, <3>1, <3>2
  <2>5. \A s \in scan'.page : s \in raw /\ InScope(s, client.query)
    BY <2>1, <2>2 DEF Sources
  <2>6. QED
    BY <1>1, <2>1, <2>2, <2>4, <2>5
<1>4. CASE QueryRawTimeline
  <2>1. PICK n \in Nat, rows \in SUBSET Records :
          /\ rows = Matching(client.query, scan.cursor)
          /\ scan.phase = "read" /\ UNCHANGED client
          /\ scan'.page = Newest(rows, n) /\ scan'.entries = scan.entries
    BY <1>4, BatchFields
  <2>2. Active
    BY <2>1, ActiveIs
  <2>3. \A r \in scan'.page : r \in raw /\ InScope(r, client.query)
    BY <2>1 DEF Newest, Matching
  <2>4. QED
    BY <1>1, <2>1, <2>2, <2>3 DEF Sources
<1>5. CASE BatchDone
  <2>1. Active /\ UNCHANGED client /\ scan'.page = scan.page /\ scan'.entries = scan.entries
    BY <1>5, BatchDoneFields, ActiveIs
  <2>2. QED
    BY <1>1, <2>1 DEF Sources
<1>6. CASE QueryTimeline
  <2>1. scan'.page = {} /\ scan'.entries = <<>>
    BY <1>6, QueryFields
  <2>2. QED
    BY <2>1 DEF Sources
<1>7. CASE Respond \/ RefuseQuery \/ DecodeFails \/ OversizedEntry
           \/ \E q \in Queries : Begin(q)
  BY <1>7, RespondTypes, OtherTypes, Failures, SourcesInactive
<1>8. CASE (\E r \in Records : Insert(r)) \/ UNCHANGED vars
  <2>1. UNCHANGED <<client, scan>>
    BY <1>8 DEF Insert, vars
  <2>2. CASE Active
    BY <1>2, <2>1, <2>2
  <2>3. CASE ~Active
    BY <2>1, <2>3, SourcesInactive DEF Active
  <2>4. QED
    BY <2>2, <2>3
<1>9. QED
  BY <1>3, <1>4, <1>5, <1>6, <1>7, <1>8 DEF Next, Agent

(* What the client may get of an event.                                    *)
Allowed(w, r) ==
  /\ r.id = w.id
  /\ InScope(r, client.query)
  /\ Visible(r)
  /\ \A k \in w.refs : k \in DOMAIN r.refs /\ r.refs[k] <= policy.grant.retrieval
  /\ w.payload => policy.grant.payload /\ w.refs = DOMAIN r.refs

LEMMA WithinIs ==
  /\ WithinGrant <=> \A i \in DOMAIN received : \E r \in raw : Allowed(received[i], r)
  /\ WithinGrant' <=> \A i \in DOMAIN received' : \E r \in raw' : Allowed(received[i], r)'
BY DEF WithinGrant, Allowed

LEMMA AllowedLasts ==
  ASSUME UNCHANGED policy, client'.query = client.query, NEW w, NEW r, Allowed(w, r)
  PROVE  Allowed(w, r)'
BY DEF Allowed, Visible

LEMMA EntryAllowed ==
  ASSUME policy \in Policies, NEW r \in Records, NEW e \in Entries, OfRow(e, r)
  PROVE  Allowed(WireEntry(e), r)
<1>1. /\ e.id = r.id /\ e.refs = FilterRefs(r.refs) /\ InScope(r, client.query) /\ Visible(r)
      /\ e.payload => policy.grant.payload /\ FilterRefs(r.refs) = DOMAIN r.refs
  BY EntryType DEF OfRow
<1>2. /\ WireEntry(e).id = e.id /\ WireEntry(e).refs \in SUBSET e.refs
      /\ WireEntry(e).payload => e.payload /\ WireEntry(e).refs = e.refs
  BY WireEntryType
<1>3. \A k \in FilterRefs(r.refs) : k \in DOMAIN r.refs /\ r.refs[k] <= policy.grant.retrieval
  BY DEF FilterRefs
<1>4. QED
  BY <1>1, <1>2, <1>3 DEF Allowed

LEMMA WithinStep ==
  ASSUME TypeOK, Phases, Sources, WithinGrant, Next \/ UNCHANGED vars
  PROVE  WithinGrant'
<1>0. UNCHANGED policy /\ raw \subseteq raw'
      /\ (client.phase # "idle" => client'.query = client.query)
  BY Lasting
<1>1. CASE client.phase = "idle"
  <2>1. ~Active /\ received = <<>>
    BY <1>1 DEF Phases
  <2>2. scan.phase = "none"
    BY <2>1, ActiveIs
  <2>3. UNCHANGED received
    BY <1>1, <2>2 DEF Next, Agent, vars, Insert, Begin, RefuseQuery, QueryTimeline,
       QueryRawTimeline, DecodeFails, Decode, BatchDone, OversizedEntry, Respond
  <2>4. QED
    BY <2>1, <2>3 DEF WithinGrant
<1>2. CASE client.phase # "idle" /\ UNCHANGED received
  <2>1. ASSUME NEW i \in DOMAIN received', NEW w, w = received'[i]
        PROVE  \E r \in raw' : Allowed(w, r)'
    <3>1. PICK r \in raw : Allowed(w, r)
      BY <1>2, <2>1, WithinIs
    <3>2. QED
      BY <1>0, <1>2, <3>1, AllowedLasts
  <2>2. QED
    BY <2>1, WithinIs DEF Allowed
<1>3. CASE client.phase # "idle" /\ Respond
  <2>1. scan \in Scan /\ Active /\ policy \in Policies /\ raw \in SUBSET Records
        /\ client'.query = client.query
    BY <1>0, <1>3, RespondFields, ScanIs, TypeParts DEF Active
  <2>2. PICK n \in Nat : Sends(n)
    BY <1>3, RespondFields
  <2>3. ASSUME NEW i \in DOMAIN received', NEW w, w = received'[i]
        PROVE  \E r \in raw' : Allowed(w, r)'
    <3>1. CASE i \in DOMAIN received
      <4>1. w = received[i]
        BY <2>2, <2>3, <3>1 DEF Sends
      <4>2. PICK r \in raw : Allowed(w, r)
        BY <3>1, <4>1, WithinIs
      <4>3. QED
        BY <1>0, <2>1, <4>2, AllowedLasts
    <3>2. CASE i \notin DOMAIN received
      <4>1. PICK j \in 1 .. n : w = WireEntry(scan.entries[j]) /\ j \in DOMAIN scan.entries
        <5>1. scan.entries \in Seq(Entries)
          BY <2>1 DEF Scan
        <5>2. PICK j \in 1 .. n : i = Len(received) + j
          BY <2>2, <2>3, <3>2 DEF Sends
        <5>3. w = WireEntry(scan.entries[j])
          BY <2>2, <2>3, <5>2 DEF Sends
        <5>4. j \in DOMAIN scan.entries
          BY <2>2, <5>1 DEF Sends
        <5>5. QED
          BY <5>3, <5>4
      <4>2. scan.entries[j] \in Entries
        BY <2>1, <4>1 DEF Scan
      <4>3. PICK r \in raw : OfRow(scan.entries[j], r)
        BY <2>1, <4>1 DEF Sources
      <4>4. Allowed(w, r)
        BY <2>1, <4>1, <4>2, <4>3, EntryAllowed
      <4>5. QED
        BY <1>0, <2>1, <4>4, AllowedLasts
    <3>3. QED
      BY <3>1, <3>2
  <2>4. QED
    BY <2>3, WithinIs DEF Allowed
<1>4. QED
  BY <1>1, <1>2, <1>3 DEF Next, Agent, vars, Insert, Begin, RefuseQuery, QueryTimeline,
     QueryRawTimeline, DecodeFails, Decode, BatchDone, OversizedEntry, Fail

(* A row that no page can show.                                            *)
Unfit(r) ==
  /\ InScope(r, client.query)
  /\ ~r.decodes \/ (Visible(r) /\ WireSize(WireEntry(Entry(r))) > WireBudget)

Cause == ~ValidQuery(client.query) \/ \E r \in raw : Unfit(r)

LEMMA CauseIs ==
  /\ FailsForCause <=> (client.phase = "failed" => Cause)
  /\ FailsForCause' <=> (client'.phase = "failed" => Cause')
BY DEF FailsForCause, Cause, Unfit

LEMMA CauseLasts ==
  ASSUME UNCHANGED policy, raw \subseteq raw', client'.query = client.query, Cause
  PROVE  Cause'
<1>1. CASE ~ValidQuery(client.query)
  BY <1>1 DEF Cause, ValidQuery
<1>2. ASSUME NEW r \in raw, Unfit(r)
      PROVE  Cause'
  <2>1. Entry(r)' = Entry(r) /\ (Visible(r)' <=> Visible(r))
    BY SamePolicy
  <2>2. WireSize(WireEntry(Entry(r)))' = WireSize(WireEntry(Entry(r)))
    BY <2>1 DEF WireSize, WireEntry
  <2>3. Unfit(r)'
    BY <1>2, <2>1, <2>2 DEF Unfit
  <2>4. QED
    BY <2>3 DEF Cause
<1>3. QED
  BY <1>1, <1>2 DEF Cause

LEMMA FailsStep ==
  ASSUME TypeOK, Phases, Sources, FailsForCause, Next \/ UNCHANGED vars
  PROVE  FailsForCause'
<1>0. UNCHANGED policy /\ raw \subseteq raw'
      /\ (client.phase # "idle" => client'.query = client.query)
  BY Lasting
<1>1. CASE RefuseQuery \/ DecodeFails \/ OversizedEntry
  <2>1. client.phase # "idle"
    BY <1>1, Failures
  <2>2. Cause
    <3>1. CASE RefuseQuery
      BY <3>1 DEF RefuseQuery, Cause
    <3>2. CASE DecodeFails
      <4>1. PICK r \in scan.page : ~r.decodes
        BY <3>2 DEF DecodeFails
      <4>2. Active
        BY <3>2, ActiveIs DEF DecodeFails
      <4>3. QED
        BY <4>1, <4>2 DEF Sources, Cause, Unfit
    <3>3. CASE OversizedEntry
      <4>1. scan.phase = "wire" /\ Wire # <<>> /\ WireSize(Wire[1]) > WireBudget
        BY <3>3 DEF OversizedEntry
      <4>2. Active /\ scan.entries \in Seq(Entries)
        BY <4>1, ActiveIs, ScanFields
      <4>3. scan.entries # <<>>
        BY <4>1, <4>2, WireType
      <4>4. 1 \in DOMAIN scan.entries
        BY <4>2, <4>3
      <4>5. Wire[1] = WireEntry(scan.entries[1])
        BY <4>2, <4>4, WireType
      <4>6. PICK r \in raw : OfRow(scan.entries[1], r)
        BY <4>2, <4>4 DEF Sources
      <4>7. WireSize(WireEntry(Entry(r))) > WireBudget
        BY <4>1, <4>5, <4>6 DEF OfRow
      <4>8. QED
        BY <4>6, <4>7 DEF OfRow, Cause, Unfit
    <3>4. QED
      BY <1>1, <3>1, <3>2, <3>3
  <2>3. QED
    BY <1>0, <2>1, <2>2, CauseLasts, CauseIs
<1>2. CASE client'.phase = "failed" /\ client.phase = "failed"
  BY <1>0, <1>2, CauseLasts, CauseIs
<1>3. CASE client'.phase # "failed"
  BY <1>3, CauseIs
<1>4. CASE Respond \/ QueryTimeline \/ \E q \in Queries : Begin(q)
  <2>1. client'.phase # "failed"
    BY <1>4, RespondFields, QueryFields DEF Sends, Begin
  <2>2. QED
    BY <1>3, <2>1
<1>5. QED
  BY <1>1, <1>2, <1>3, <1>4 DEF Next, Agent, vars, Insert, QueryRawTimeline, Decode, BatchDone

GrantInv == Sources /\ WithinGrant /\ FailsForCause

LEMMA GrantInductive ==
  /\ Init => GrantInv
  /\ TypeOK /\ Phases /\ GrantInv /\ [Next]_vars => GrantInv'
<1>1. ASSUME Init
      PROVE  GrantInv
  <2>1. scan = NoScan /\ received = <<>> /\ client.phase = "idle"
    BY <1>1 DEF Init
  <2>2. QED
    BY <2>1 DEF GrantInv, Sources, Active, WithinGrant, FailsForCause
<1>2. ASSUME TypeOK, Phases, GrantInv, [Next]_vars
      PROVE  GrantInv'
  BY <1>2, SourcesStep, WithinStep, FailsStep DEF GrantInv
<1>3. QED
  BY <1>1, <1>2

(* What a client gets is within its query and the grant of its token: an   *)
(* event of the scope and the range, references of the granted class, and  *)
(* a payload only with every reference of its event (decode_visible_entry, *)
(* map_wire_entry).                                                        *)
THEOREM ShownWithinGrant == Spec => []WithinGrant
<1>1. GrantInv => WithinGrant
  BY DEF GrantInv
<1>2. QED
  BY <1>1, InitPhases, StepPhases, GrantInductive, PTL DEF Spec

(* A request fails only for an invalid query or for a row in its range     *)
(* that does not decode or is over the page budget by itself.              *)
THEOREM FailuresHaveCause == Spec => []FailsForCause
<1>1. GrantInv => FailsForCause
  BY DEF GrantInv
<1>2. QED
  BY <1>1, InitPhases, StepPhases, GrantInductive, PTL DEF Spec

-----------------------------------------------------------------------------
(* Order.                                                                  *)

LEMMA Points ==
  ASSUME TypeOK
  PROVE  /\ \A i \in DOMAIN received : Point(received[i])
         /\ scan \in Scan => \A j \in DOMAIN scan.entries :
                             scan.entries[j] \in Entries /\ Point(scan.entries[j])
         /\ scan \in Scan /\ scan.cursor # None => Point(scan.cursor)
         /\ client.before # None => Point(client.before)
<1>1. \A i \in DOMAIN received : received[i] \in WireEntries
  BY TypeParts
<1>2. scan \in Scan => \A j \in DOMAIN scan.entries : scan.entries[j] \in Entries
  BY DEF Scan
<1>3. scan \in Scan => scan.cursor \in Cursors
  BY DEF Scan
<1>4. client.before \in Cursors
  BY TypeParts DEF Client
<1>5. \A w \in WireEntries : Point(w)
  BY DEF WireEntries, Point
<1>6. \A e \in Entries : Point(e)
  BY DEF Entries, Point
<1>7. \A c \in Cursors : c # None => Point(c)
  BY DEF Cursors, Point
<1>8. QED
  BY <1>1, <1>2, <1>3, <1>4, <1>5, <1>6, <1>7

(* On the wire an entry keeps its place.                                   *)
LEMMA WireStands ==
  ASSUME NEW e \in Entries, NEW a
  PROVE  /\ Newer(a, WireEntry(e)) <=> Newer(a, e)
         /\ Newer(WireEntry(e), a) <=> Newer(e, a)
         /\ Upto(WireEntry(e), a) <=> Upto(e, a)
         /\ CursorOf(e).at = e.at /\ CursorOf(e).id = e.id /\ CursorOf(e) # None
         /\ Upto(a, CursorOf(e)) <=> Upto(a, e)
         /\ Newer(CursorOf(e), a) <=> Newer(e, a)
<1>1. WireEntry(e).at = e.at /\ WireEntry(e).id = e.id /\ Point(e)
  BY WireEntryType
<1>2. CursorOf(e).at = e.at /\ CursorOf(e).id = e.id /\ CursorOf(e) \in [at : Nat, id : Nat]
  BY <1>1 DEF CursorOf, Point
<1>3. CursorOf(e) # None
  BY <1>2, NoneAssumption
<1>4. QED
  BY <1>1, <1>2, <1>3 DEF Newer, Upto

LEMMA DecodeOrder ==
  ASSUME TypeOK, Phases, Order, NEW r \in Records, Decode(r)
  PROVE  Order'
<1>1. /\ scan.phase = "decode" /\ scan \in Scan /\ r \in scan.page
      /\ \A s \in scan.page \ {r} : Newer(r, s)
      /\ UNCHANGED <<client, received, policy>>
      /\ scan'.cursor = CursorOf(r)
      /\ scan'.entries = IF Visible(r) THEN Append(scan.entries, Entry(r)) ELSE scan.entries
      /\ scan'.page \in SUBSET (scan.page \ {r})
      /\ scan'.phase = "wire" => scan'.next \in {None, CursorOf(r)}
  BY DecodeFields
<1>2. Active /\ scan.entries \in Seq(Entries) /\ scan.page \in SUBSET Records
  BY <1>1, ScanIs DEF Active, Scan
<1>3. Entry(r) \in Entries /\ Entry(r).at = r.at /\ Entry(r).id = r.id /\ Point(Entry(r))
  BY EntryType, WireEntryType, TypeParts
<1>4. Point(r) /\ Point(CursorOf(r)) /\ CursorOf(r) # None
  BY RecordPoints
<1>5. ASSUME NEW a, Point(a), Passed(a, scan.cursor)
      PROVE  Newer(a, r) /\ Newer(a, Entry(r)) /\ Passed(a, CursorOf(r))
  <2>1. scan.cursor # None /\ Upto(a, scan.cursor) /\ Newer(scan.cursor, r)
    BY <1>1, <1>2, <1>5 DEF Order, Passed, Ahead
  <2>2. Point(scan.cursor)
    BY <1>1, <2>1, Points
  <2>3. Newer(a, r)
    BY <1>4, <1>5, <2>1, <2>2, NewerFacts
  <2>4. QED
    BY <1>3, <1>4, <1>5, <2>3, CursorStands DEF Passed, Upto, Newer
<1>6. Passed(Entry(r), CursorOf(r))
  BY <1>3, <1>4, RecordPoints DEF Passed, Upto
<1>7. \A j \in DOMAIN scan'.entries :
        \/ j \in DOMAIN scan.entries /\ scan'.entries[j] = scan.entries[j]
        \/ j = Len(scan.entries) + 1 /\ scan'.entries[j] = Entry(r)
  BY <1>1, <1>2
<1>8. \A j \in DOMAIN scan.entries :
        j < Len(scan.entries) + 1 /\ ~(Len(scan.entries) + 1 < j) /\ j # Len(scan.entries) + 1
  BY <1>2
<1>9. /\ \A i \in DOMAIN received : Point(received[i]) /\ Passed(received[i], scan.cursor)
      /\ \A j \in DOMAIN scan.entries :
           Point(scan.entries[j]) /\ Passed(scan.entries[j], scan.cursor)
  BY <1>1, <1>2, Points DEF Order
<1>10. \A i, j \in DOMAIN scan'.entries : i < j => Newer(scan'.entries[i], scan'.entries[j])
  <2>1. ASSUME NEW i \in DOMAIN scan'.entries, NEW j \in DOMAIN scan'.entries, i < j
        PROVE  Newer(scan'.entries[i], scan'.entries[j])
    <3>1. i \in DOMAIN scan.entries /\ scan'.entries[i] = scan.entries[i]
      BY <1>2, <1>7, <1>8, <2>1
    <3>2. CASE j \in DOMAIN scan.entries /\ scan'.entries[j] = scan.entries[j]
      BY <1>2, <2>1, <3>1, <3>2 DEF Order
    <3>3. CASE scan'.entries[j] = Entry(r)
      BY <1>5, <1>9, <3>1, <3>3
    <3>4. QED
      BY <1>7, <3>2, <3>3
  <2>2. QED
    BY <2>1
<1>11. \A i \in DOMAIN received, j \in DOMAIN scan'.entries :
         Newer(received[i], scan'.entries[j])
  BY <1>2, <1>5, <1>7, <1>9 DEF Order
<1>12. \A i \in DOMAIN received : Passed(received[i], CursorOf(r))
  BY <1>5, <1>9
<1>13. \A j \in DOMAIN scan'.entries : Passed(scan'.entries[j], CursorOf(r))
  BY <1>5, <1>6, <1>7, <1>9
<1>14. \A s \in scan'.page : Ahead(s, CursorOf(r))
  BY <1>1, <1>2, CursorStands, RecordPoints DEF Ahead
<1>15. QED
  BY <1>1, <1>10, <1>11, <1>12, <1>13, <1>14 DEF Order

LEMMA RespondOrder ==
  ASSUME TypeOK, Phases, Order, Descending, Respond
  PROVE  Order' /\ Descending'
<1>1. scan.phase = "wire" /\ scan \in Scan /\ scan' = NoScan
  BY RespondFields
<1>2. PICK n \in Nat : Sends(n)
  BY RespondFields
<1>3. Active /\ scan.entries \in Seq(Entries) /\ received \in Seq(WireEntries)
  BY <1>1, ScanIs, TypeParts DEF Active, Scan
<1>4. \A j \in 1 .. n : j \in DOMAIN scan.entries /\ scan.entries[j] \in Entries
  BY <1>2, <1>3 DEF Sends
<1>5. \A i \in DOMAIN received' :
        \/ i \in DOMAIN received /\ received'[i] = received[i]
        \/ \E j \in 1 .. n : i = Len(received) + j /\ received'[i] = WireEntry(scan.entries[j])
  BY <1>2 DEF Sends
<1>6. Descending'
  <2>1. ASSUME NEW i \in DOMAIN received', NEW k \in DOMAIN received', i < k
        PROVE  Newer(received'[i], received'[k])
    <3>0. Len(received) \in Nat /\ \A l \in DOMAIN received : l \in Nat /\ l <= Len(received)
      BY <1>3
    <3>1. CASE k \in DOMAIN received /\ received'[k] = received[k]
      <4>1. i \in DOMAIN received /\ received'[i] = received[i]
        <5>1. ASSUME NEW j \in 1 .. n, i = Len(received) + j
              PROVE  FALSE
          BY <2>1, <3>0, <3>1, <5>1
        <5>2. QED
          BY <1>5, <5>1
      <4>2. QED
        BY <2>1, <3>1, <4>1 DEF Descending
    <3>2. ASSUME NEW l \in 1 .. n, k = Len(received) + l,
                 received'[k] = WireEntry(scan.entries[l])
          PROVE  Newer(received'[i], received'[k])
      <4>1. CASE i \in DOMAIN received /\ received'[i] = received[i]
        <5>1. Newer(received[i], scan.entries[l])
          BY <1>3, <1>4, <4>1 DEF Order
        <5>2. QED
          BY <1>4, <3>2, <4>1, <5>1, WireStands
      <4>2. ASSUME NEW j \in 1 .. n, i = Len(received) + j,
                   received'[i] = WireEntry(scan.entries[j])
            PROVE  Newer(received'[i], received'[k])
        <5>1. j < l
          BY <2>1, <3>0, <3>2, <4>2
        <5>2. Newer(scan.entries[j], scan.entries[l])
          BY <1>3, <1>4, <5>1 DEF Order
        <5>3. QED
          BY <1>4, <3>2, <4>2, <5>2, WireStands
      <4>3. QED
        BY <1>5, <4>1, <4>2
    <3>3. QED
      BY <1>5, <3>1, <3>2
  <2>2. QED
    BY <2>1 DEF Descending
<1>7. client'.phase = "ask" => \A i \in DOMAIN received' : Passed(received'[i], client'.before)
  <2>1. SUFFICES ASSUME client'.phase = "ask", NEW i \in DOMAIN received'
                 PROVE  Passed(received'[i], client'.before)
    OBVIOUS
  <2>2. CASE n < Len(scan.entries)
    <3>1. client'.before = CursorOf(scan.entries[n]) /\ n \in 1 .. n
      BY <1>2, <1>3, <2>2 DEF Sends
    <3>2. scan.entries[n] \in Entries /\ n \in DOMAIN scan.entries
      BY <1>4, <3>1
    <3>3. Upto(received'[i], scan.entries[n])
      <4>1. CASE i \in DOMAIN received /\ received'[i] = received[i]
        BY <1>3, <3>2, <4>1 DEF Order, Upto
      <4>2. ASSUME NEW j \in 1 .. n, received'[i] = WireEntry(scan.entries[j])
            PROVE  Upto(received'[i], scan.entries[n])
        <5>1. j = n \/ j < n
          OBVIOUS
        <5>2. Upto(scan.entries[j], scan.entries[n])
          BY <1>3, <1>4, <3>2, <5>1 DEF Order, Upto
        <5>3. QED
          BY <1>4, <4>2, <5>2, WireStands
      <4>3. QED
        BY <1>5, <4>1, <4>2
    <3>4. QED
      BY <3>1, <3>2, <3>3, WireStands DEF Passed
  <2>3. CASE ~(n < Len(scan.entries))
    <3>1. client'.before = scan.next /\ scan.next # None
      BY <1>2, <2>1, <2>3 DEF Sends
    <3>2. client'.before = scan.cursor
      BY <1>1, <1>3, <3>1 DEF Order
    <3>3. CASE i \in DOMAIN received /\ received'[i] = received[i]
      BY <1>3, <3>2, <3>3 DEF Order
    <3>4. ASSUME NEW j \in 1 .. n, received'[i] = WireEntry(scan.entries[j])
          PROVE  Passed(received'[i], client'.before)
      <4>1. Passed(scan.entries[j], scan.cursor)
        BY <1>3, <1>4 DEF Order
      <4>2. QED
        BY <1>4, <3>2, <3>4, <4>1, WireStands DEF Passed
    <3>5. QED
      BY <1>5, <3>3, <3>4
  <2>4. QED
    BY <2>2, <2>3
<1>8. ~Active' /\ client'.phase \in {"ask", "done"}
  BY <1>1, <1>2 DEF Active, Sends
<1>9. QED
  BY <1>6, <1>7, <1>8 DEF Order

LEMMA OrderStep ==
  ASSUME TypeOK, Phases, Order, Descending, Next \/ UNCHANGED vars
  PROVE  Order' /\ Descending'
<1>1. CASE UNCHANGED received
  <2>1. Descending'
    BY <1>1 DEF Descending
  <2>2. ASSUME NEW r \in Records, Decode(r)
        PROVE  Order'
    BY <2>2, DecodeOrder
  <2>3. CASE QueryRawTimeline
    <3>1. PICK n \in Nat, rows \in SUBSET Records :
            /\ rows = Matching(client.query, scan.cursor)
            /\ scan.phase = "read" /\ UNCHANGED client
            /\ scan'.page = Newest(rows, n)
            /\ scan'.phase = IF rows = {} THEN "wire" ELSE "decode"
            /\ scan'.next = IF rows = {} THEN None ELSE scan.next
            /\ scan'.cursor = scan.cursor /\ scan'.entries = scan.entries
      BY <2>3, BatchFields
    <3>2. Active
      BY <3>1, ActiveIs
    <3>3. \A r \in scan'.page : Ahead(r, scan.cursor)
      BY <3>1 DEF Newest, Matching, Ahead
    <3>4. scan'.phase = "wire" => scan'.next = None
      BY <3>1
    <3>5. QED
      BY <2>1, <1>1, <3>1, <3>2, <3>3, <3>4 DEF Order
  <2>4. CASE BatchDone
    <3>1. /\ scan.phase = "batch" /\ UNCHANGED client
          /\ scan'.page = scan.page /\ scan'.entries = scan.entries
          /\ scan'.cursor = scan.cursor /\ scan'.next \in {None, scan.cursor}
      BY <2>4, BatchDoneFields
    <3>2. Active
      BY <3>1, ActiveIs
    <3>3. QED
      BY <2>1, <1>1, <3>1, <3>2 DEF Order
  <2>5. CASE QueryTimeline
    <3>1. /\ client.phase = "ask" /\ client'.before = client.before /\ scan'.phase = "read"
          /\ scan'.page = {} /\ scan'.entries = <<>> /\ scan'.cursor = client.before
      BY <2>5, QueryFields
    <3>2. DOMAIN scan'.entries = {}
      BY <3>1
    <3>3. QED
      BY <2>1, <1>1, <3>1, <3>2 DEF Order
  <2>6. CASE RefuseQuery \/ DecodeFails \/ OversizedEntry
    <3>1. ~Active' /\ client'.phase = "failed"
      BY <2>6, Failures, OtherTypes, FailFields
    <3>2. QED
      BY <2>1, <3>1 DEF Order
  <2>7. CASE \E q \in Queries : Begin(q)
    <3>1. ~Active' /\ received = <<>>
      BY <2>7, OtherTypes DEF Begin, Phases
    <3>2. QED
      BY <2>1, <1>1, <3>1 DEF Order
  <2>8. CASE (\E r \in Records : Insert(r)) \/ UNCHANGED vars
    <3>1. UNCHANGED <<client, received, scan>>
      BY <2>8 DEF Insert, vars
    <3>2. QED
      BY <2>1, <3>1 DEF Order, Active
  <2>9. CASE Respond
    BY <2>9, RespondOrder
  <2>10. QED
    BY <2>1, <2>2, <2>3, <2>4, <2>5, <2>6, <2>7, <2>8, <2>9 DEF Next, Agent
<1>2. CASE Respond
  BY <1>2, RespondOrder
<1>3. QED
  BY <1>1, <1>2 DEF Next, Agent, vars, Insert, Begin, RefuseQuery, QueryTimeline,
     QueryRawTimeline, DecodeFails, Decode, BatchDone, OversizedEntry, Fail

LEMMA OrderInductive ==
  /\ Init => Order /\ Descending
  /\ TypeOK /\ Phases /\ Order /\ Descending /\ [Next]_vars => Order' /\ Descending'
<1>1. ASSUME Init
      PROVE  Order /\ Descending
  <2>1. scan = NoScan /\ received = <<>> /\ client.phase = "idle"
    BY <1>1 DEF Init
  <2>2. QED
    BY <2>1 DEF Order, Descending, Active
<1>2. QED
  BY <1>1, OrderStep

(* Across all pages the entries run strictly from newer to older, whatever *)
(* is committed between two batches or two pages, and with equal times: no *)
(* event is shown twice (the keyset of query_raw_timeline).                *)
THEOREM PagesDescend == Spec => []Descending
<1>1. QED
  BY InitPhases, StepPhases, OrderInductive, PTL DEF Spec

-----------------------------------------------------------------------------
(* Progress from page to page.                                             *)

(* Within a request the frontier starts at the client's cursor and moves   *)
(* on, so that whatever the page may end with lies beyond that cursor.     *)
Beyond(c) == c # None /\ Ahead(c, client.before)

Onward ==
  Active =>
    /\ scan.cursor = client.before \/ Beyond(scan.cursor)
    /\ scan.phase = "batch" => Beyond(scan.cursor)
    /\ scan.phase = "wire" /\ scan.next # None => Beyond(scan.next)
    /\ \A j \in DOMAIN scan.entries : Ahead(scan.entries[j], client.before)

(* A page that is not the last one moves the client's cursor strictly on   *)
(* in the keyset order: also a page without a visible entry, one that ends *)
(* with the scan budget and one cut to the wire budget.  The order has no  *)
(* infinite descent, so a client that follows next_cursor does not go      *)
(* round in circles.                                                       *)
CursorMovesOn ==
  [][client.phase = "wait" /\ client'.phase = "ask"
       => client'.before # None /\ Ahead(client'.before, client.before)]_vars

LEMMA DecodeOnward ==
  ASSUME TypeOK, Phases, Order, Onward, NEW r \in Records, Decode(r)
  PROVE  Onward'
<1>1. /\ scan.phase = "decode" /\ scan \in Scan /\ r \in scan.page
      /\ UNCHANGED <<client, received, policy>>
      /\ scan'.cursor = CursorOf(r)
      /\ scan'.entries = IF Visible(r) THEN Append(scan.entries, Entry(r)) ELSE scan.entries
      /\ scan'.phase = "wire" => scan'.next \in {None, CursorOf(r)}
  BY DecodeFields
<1>2. Active /\ scan.entries \in Seq(Entries)
  BY <1>1, ScanIs DEF Active, Scan
<1>3. Entry(r).at = r.at /\ Entry(r).id = r.id
  BY EntryType, TypeParts
<1>4. Point(r) /\ CursorOf(r) # None
  BY RecordPoints
<1>5. Ahead(r, client.before)
  <2>1. SUFFICES ASSUME client.before # None PROVE Newer(client.before, r)
    BY DEF Ahead
  <2>2. Ahead(r, scan.cursor) /\ (scan.cursor = client.before \/ Beyond(scan.cursor))
    BY <1>1, <1>2 DEF Order, Onward
  <2>3. Point(client.before) /\ (scan.cursor # None => Point(scan.cursor))
    BY <1>1, <2>1, Points
  <2>4. QED BY <1>4, <2>1, <2>2, <2>3, NewerFacts DEF Ahead, Beyond
<1>6. Ahead(CursorOf(r), client.before) /\ Ahead(Entry(r), client.before)
  <2>1. CASE client.before = None
    BY <2>1 DEF Ahead
  <2>2. CASE client.before # None
    <3>1. Point(client.before)
      BY <2>2, Points
    <3>2. QED BY <1>3, <1>5, <3>1, RecordPoints DEF Ahead, Newer
  <2>3. QED BY <2>1, <2>2
<1>7. \A j \in DOMAIN scan'.entries : Ahead(scan'.entries[j], client.before)
  <2>1. \A j \in DOMAIN scan'.entries :
          \/ j \in DOMAIN scan.entries /\ scan'.entries[j] = scan.entries[j]
          \/ scan'.entries[j] = Entry(r)
    BY <1>1, <1>2
  <2>2. QED BY <1>2, <1>6, <2>1 DEF Onward
<1>8. QED BY <1>1, <1>4, <1>6, <1>7 DEF Onward, Beyond, Ahead

(* What the client asks for next lies beyond what it asked for.            *)
LEMMA RespondMovesOn ==
  ASSUME TypeOK, Phases, Onward, Respond, client'.phase = "ask"
  PROVE  client'.before # None /\ Ahead(client'.before, client.before)
<1>1. scan.phase = "wire" /\ scan \in Scan
  BY RespondFields
<1>2. PICK n \in Nat : Sends(n)
  BY RespondFields
<1>3. Active /\ scan.entries \in Seq(Entries)
  BY <1>1, ScanIs DEF Active, Scan
<1>4. client'.before # None
  BY <1>2 DEF Sends
<1>5. CASE n < Len(scan.entries)
  <2>1. client'.before = CursorOf(scan.entries[n]) /\ n \in DOMAIN scan.entries
    BY <1>2, <1>3, <1>5 DEF Sends
  <2>2. scan.entries[n] \in Entries /\ Ahead(scan.entries[n], client.before)
    BY <1>3, <2>1 DEF Onward
  <2>3. client'.before.at = scan.entries[n].at /\ client'.before.id = scan.entries[n].id
    BY <2>1, <2>2, WireStands
  <2>4. QED BY <1>4, <2>2, <2>3 DEF Ahead, Newer
<1>6. CASE ~(n < Len(scan.entries))
  <2>1. client'.before = scan.next
    BY <1>2, <1>6 DEF Sends
  <2>2. QED BY <1>1, <1>3, <1>4, <2>1 DEF Onward, Beyond
<1>7. QED BY <1>5, <1>6

LEMMA OnwardStep ==
  ASSUME TypeOK, Phases, Order, Onward, Next \/ UNCHANGED vars
  PROVE  Onward'
<1>1. ASSUME NEW r \in Records, Decode(r) PROVE Onward'
  BY <1>1, DecodeOnward
<1>2. CASE QueryRawTimeline
  <2>1. /\ scan.phase = "read" /\ UNCHANGED client /\ scan'.phase \in {"wire", "decode"}
        /\ scan'.phase = "wire" => scan'.next = None
        /\ scan'.cursor = scan.cursor /\ scan'.entries = scan.entries
    BY <1>2, BatchFields
  <2>2. Active
    BY <2>1, ActiveIs
  <2>3. QED BY <2>1, <2>2 DEF Onward, Beyond, Ahead
<1>3. CASE BatchDone
  <2>1. /\ scan.phase = "batch" /\ UNCHANGED client /\ scan'.phase \in {"read", "wire"}
        /\ scan'.entries = scan.entries
        /\ scan'.cursor = scan.cursor /\ scan'.next \in {None, scan.cursor}
    BY <1>3, BatchDoneFields
  <2>2. Active
    BY <2>1, ActiveIs
  <2>3. QED BY <2>1, <2>2 DEF Onward, Beyond, Ahead
<1>4. CASE QueryTimeline
  <2>1. /\ client'.before = client.before /\ scan'.phase = "read"
        /\ scan'.entries = <<>> /\ scan'.cursor = client.before
    BY <1>4, QueryFields
  <2>2. DOMAIN scan'.entries = {}
    BY <2>1
  <2>3. QED BY <2>1, <2>2 DEF Onward
<1>5. CASE RefuseQuery \/ DecodeFails \/ OversizedEntry
  BY <1>5, Failures, OtherTypes DEF Onward
<1>6. CASE \E q \in Queries : Begin(q)
  BY <1>6, OtherTypes DEF Onward
<1>7. CASE (\E r \in Records : Insert(r)) \/ UNCHANGED vars
  <2>1. UNCHANGED <<client, scan>>
    BY <1>7 DEF Insert, vars
  <2>2. QED BY <2>1 DEF Onward, Beyond, Ahead, Active
<1>8. CASE Respond
  <2>1. scan' = NoScan
    BY <1>8, RespondFields
  <2>2. QED BY <2>1 DEF Onward, Active
<1>9. QED
  BY <1>1, <1>2, <1>3, <1>4, <1>5, <1>6, <1>7, <1>8 DEF Next, Agent

(* Every next_cursor lies strictly behind the cursor of the request it     *)
(* answers, whatever is committed while the agent scans (CursorMovesOn).   *)
THEOREM PagesMoveOn == Spec => CursorMovesOn
<1> DEFINE Inv == TypeOK /\ Phases /\ Order /\ Descending /\ Onward
<1>1. Init => Inv
  BY InitPhases, OrderInductive DEF Init, Onward, Active
<1>2. Inv /\ [Next]_vars => Inv'
  BY StepPhases, OrderInductive, OnwardStep
<1>3. Inv /\ [Next]_vars
        => [client.phase = "wait" /\ client'.phase = "ask"
              => client'.before # None /\ Ahead(client'.before, client.before)]_vars
  <2> SUFFICES ASSUME Inv, Next, client.phase = "wait", client'.phase = "ask"
               PROVE  client'.before # None /\ Ahead(client'.before, client.before)
    BY DEF vars
  <2>1. CASE Respond
    BY <2>1, RespondMovesOn
  <2>2. ASSUME NEW r \in Records, Decode(r) PROVE FALSE
    BY <2>2, DecodeFields
  <2>3. ~QueryRawTimeline /\ ~BatchDone
    BY DEF QueryRawTimeline, BatchDone
  <2>4. ~QueryTimeline
    BY QueryFields
  <2>5. ~(RefuseQuery \/ DecodeFails \/ OversizedEntry)
    BY Failures, FailFields
  <2>6. ~(\E q \in Queries : Begin(q)) /\ ~(\E r \in Records : Insert(r))
    BY DEF Begin, Insert
  <2>7. QED BY <2>1, <2>2, <2>3, <2>4, <2>5, <2>6 DEF Next, Agent
<1>4. QED BY <1>1, <1>2, <1>3, PTL DEF Spec, CursorMovesOn

-----------------------------------------------------------------------------
(* Completeness.                                                           *)

LEMMA DecodeOwed ==
  ASSUME TypeOK, Phases, Order, Owed, NEW r \in Records, Decode(r)
  PROVE  Owed'
<1>1. /\ scan.phase = "decode" /\ scan \in Scan /\ r \in scan.page
      /\ \A s \in scan.page \ {r} : Newer(r, s)
      /\ UNCHANGED <<policy, raw, client, received, promised>>
      /\ scan'.cursor = CursorOf(r) /\ scan'.more = scan.more
      /\ scan'.entries = IF Visible(r) THEN Append(scan.entries, Entry(r)) ELSE scan.entries
      /\ \/ /\ scan'.phase = "wire" /\ scan'.page = {}
            /\ scan'.next = IF scan.page \ {r} # {} \/ scan.more THEN CursorOf(r) ELSE None
         \/ /\ scan'.page = scan.page \ {r} /\ scan'.next = scan.next
            /\ scan'.phase = IF scan.page \ {r} = {} THEN "batch" ELSE "decode"
  BY DecodeFields
<1>2. /\ Active /\ scan.entries \in Seq(Entries) /\ scan.page \in SUBSET Records
      /\ client.phase = "wait" /\ promised \in SUBSET Records
  BY <1>1, ScanIs, TypeParts DEF Active, Scan, Phases
<1>3. Entry(r).at = r.at /\ Entry(r).id = r.id
  BY EntryType, TypeParts
<1>4. \A s \in promised : s \in raw /\ InScope(s, client.query) /\ Visible(s)
  BY <1>2 DEF Owed
<1>5. ASSUME NEW s \in promised, Listed(s)
      PROVE  Listed(s)'
  <2>1. PICK j \in DOMAIN scan.entries : scan.entries[j].id = s.id /\ scan.entries[j].at = s.at
    BY <1>5 DEF Listed
  <2>2. j \in DOMAIN scan'.entries /\ scan'.entries[j] = scan.entries[j]
    BY <1>1, <1>2
  <2>3. QED
    BY <2>1, <2>2 DEF Listed
<1>6. r \in promised => Listed(r)'
  <2>1. SUFFICES ASSUME r \in promised
                 PROVE  Listed(r)'
    OBVIOUS
  <2>2. scan'.entries = Append(scan.entries, Entry(r))
    BY <1>1, <1>4, <2>1
  <2>3. Len(scan.entries) + 1 \in DOMAIN scan'.entries
        /\ scan'.entries[Len(scan.entries) + 1] = Entry(r)
    BY <1>2, <2>2
  <2>4. QED
    BY <1>3, <2>3 DEF Listed
<1>7. ASSUME NEW s \in promised
      PROVE  /\ Seen(s)' \/ Listed(s)' \/ Ahead(s, CursorOf(r))
             /\ Ahead(s, CursorOf(r)) =>
                  s \in scan.page \ {r} \/ (scan.more /\ \A p \in scan.page : Newer(p, s))
  <2>0. Point(s) /\ Point(r) /\ Point(CursorOf(r)) /\ CursorOf(r) # None
    BY <1>2, RecordPoints
  <2>1. Ahead(s, CursorOf(r)) <=> Newer(r, s)
    BY <2>0, CursorStands DEF Ahead
  <2>2. Newer(r, s) => Ahead(s, scan.cursor)
    <3>1. scan.cursor = None \/ (Newer(scan.cursor, r) /\ Point(scan.cursor))
      BY <1>1, <1>2, Points DEF Order, Ahead
    <3>2. QED
      BY <2>0, <3>1, NewerFacts DEF Ahead
  <2>3. Ahead(s, scan.cursor) =>
          s \in scan.page \/ (scan.more /\ \A p \in scan.page : Newer(p, s))
    BY <1>1, <1>2 DEF Owed
  <2>4. ~Newer(r, r)
    BY <2>0, NewerFacts
  <2>5. Ahead(s, CursorOf(r)) =>
          s \in scan.page \ {r} \/ (scan.more /\ \A p \in scan.page : Newer(p, s))
    BY <2>1, <2>2, <2>3, <2>4
  <2>6. Seen(s) \/ Listed(s) \/ Ahead(s, scan.cursor)
    BY <1>2 DEF Owed
  <2>7. Seen(s) => Seen(s)'
    BY <1>1 DEF Seen
  <2>8. Ahead(s, scan.cursor) => Listed(s)' \/ Newer(r, s)
    BY <1>1, <1>6, <2>3
  <2>9. QED
    BY <1>5, <2>1, <2>5, <2>6, <2>7, <2>8
<1>8. ASSUME NEW s \in promised, Ahead(s, CursorOf(r))
      PROVE  /\ scan'.phase = "decode" =>
                  s \in scan'.page \/ (scan'.more /\ \A p \in scan'.page : Newer(p, s))
             /\ scan'.phase = "batch" => scan'.more /\ scan'.cursor # None
             /\ scan'.phase = "wire" => scan'.next # None
  <2>1. s \in scan.page \ {r} \/ (scan.more /\ \A p \in scan.page : Newer(p, s))
    BY <1>7, <1>8
  <2>2. CursorOf(r) # None
    BY RecordPoints
  <2>3. QED
    BY <1>1, <2>1, <2>2
<1>9. \A s \in promised : Visible(s)'
  BY <1>1, <1>4 DEF Visible
<1>10. \A s \in promised :
         /\ Seen(s)' \/ Listed(s)' \/ Ahead(s, scan'.cursor)
         /\ Ahead(s, scan'.cursor) =>
              /\ scan'.phase = "decode" =>
                   s \in scan'.page \/ (scan'.more /\ \A p \in scan'.page : Newer(p, s))
              /\ scan'.phase = "batch" => scan'.more /\ scan'.cursor # None
              /\ scan'.phase = "wire" => scan'.next # None
  BY <1>1, <1>7, <1>8
<1>11. QED
  BY <1>1, <1>2, <1>4, <1>9, <1>10 DEF Owed, Seen, Listed

(* A batch holds what is owed next, or all that is owed lies behind it.    *)
LEMMA BatchOwed ==
  ASSUME TypeOK, Phases, Owed, QueryRawTimeline
  PROVE  Owed'
<1>1. PICK n \in Nat, rows \in SUBSET Records :
        /\ rows = Matching(client.query, scan.cursor)
        /\ IsFiniteSet(rows) /\ scan.phase = "read" /\ scan \in Scan
        /\ UNCHANGED <<policy, raw, client, received, promised>>
        /\ scan'.page = Newest(rows, n) /\ scan'.more = (Cardinality(rows) > n)
        /\ scan'.phase = IF rows = {} THEN "wire" ELSE "decode"
        /\ scan'.cursor = scan.cursor /\ scan'.entries = scan.entries
  BY BatchFields
<1>2. Active /\ client.phase = "wait"
  BY <1>1, ScanIs DEF Active, Phases
<1>3. \A s \in promised :
        /\ s \in raw /\ InScope(s, client.query) /\ Visible(s)
        /\ Seen(s) \/ Listed(s) \/ Ahead(s, scan.cursor)
  BY <1>2 DEF Owed
<1>4. ASSUME NEW s \in promised, Ahead(s, scan.cursor)
      PROVE  /\ rows # {}
             /\ s \in scan'.page \/ (scan'.more /\ \A p \in scan'.page : Newer(p, s))
  <2>1. s \in rows
    BY <1>1, <1>3, <1>4 DEF Matching, Ahead
  <2>2. CASE s \notin Newest(rows, n)
    <3>1. Cardinality(rows) > n
      BY <1>1, <2>1, <2>2, NewestAll
    <3>2. \A p \in Newest(rows, n) : Newer(p, s)
      BY <1>1, <2>1, <2>2, NewestFirst
    <3>3. QED
      BY <1>1, <2>1, <3>1, <3>2
  <2>3. QED
    BY <1>1, <2>1, <2>2
<1>5. \A s \in promised : Visible(s)' /\ (Seen(s) => Seen(s)') /\ (Listed(s) => Listed(s)')
  BY <1>1, <1>3 DEF Visible, Seen, Listed
<1>6. \A s \in promised :
        /\ Seen(s)' \/ Listed(s)' \/ Ahead(s, scan'.cursor)
        /\ Ahead(s, scan'.cursor) =>
             /\ scan'.phase = "decode" =>
                  s \in scan'.page \/ (scan'.more /\ \A p \in scan'.page : Newer(p, s))
             /\ scan'.phase = "batch" => scan'.more /\ scan'.cursor # None
             /\ scan'.phase = "wire" => scan'.next # None
  BY <1>1, <1>3, <1>4, <1>5
<1>7. QED
  BY <1>1, <1>2, <1>3, <1>5, <1>6 DEF Owed, Seen, Listed

LEMMA BatchDoneOwed ==
  ASSUME TypeOK, Phases, Owed, BatchDone
  PROVE  Owed'
<1>1. /\ scan.phase = "batch" /\ scan \in Scan
      /\ UNCHANGED <<policy, raw, client, received, promised>>
      /\ scan'.entries = scan.entries /\ scan'.cursor = scan.cursor
      /\ scan'.phase \in {"read", "wire"}
      /\ scan'.next = IF scan.more \/ scan.scanned >= MaxScan THEN scan.cursor ELSE None
  BY BatchDoneFields
<1>2. Active /\ client.phase = "wait"
  BY <1>1, ScanIs DEF Active, Phases
<1>3. \A s \in promised :
        /\ s \in raw /\ InScope(s, client.query) /\ Visible(s)
        /\ Seen(s) \/ Listed(s) \/ Ahead(s, scan.cursor)
        /\ Ahead(s, scan.cursor) => scan.more /\ scan.cursor # None
  BY <1>1, <1>2 DEF Owed
<1>4. \A s \in promised : Visible(s)' /\ (Seen(s) => Seen(s)') /\ (Listed(s) => Listed(s)')
  BY <1>1, <1>3 DEF Visible, Seen, Listed
<1>5. \A s \in promised :
        /\ Seen(s)' \/ Listed(s)' \/ Ahead(s, scan'.cursor)
        /\ Ahead(s, scan'.cursor) =>
             scan'.phase \notin {"decode", "batch"} /\ scan'.next # None
  BY <1>1, <1>3, <1>4
<1>6. QED
  BY <1>1, <1>2, <1>3, <1>4, <1>5 DEF Owed, Seen, Listed

(* A page cut to the wire budget leaves the rest of it ahead of the cursor *)
(* it gives, and the last page leaves nothing.                             *)
LEMMA RespondOwed ==
  ASSUME TypeOK, Phases, Order, Owed, Respond
  PROVE  Owed' /\ Complete'
<1>1. /\ scan.phase = "wire" /\ scan \in Scan /\ scan' = NoScan
      /\ UNCHANGED <<policy, raw, promised>>
  BY RespondFields
<1>2. PICK n \in Nat : Sends(n)
  BY RespondFields
<1>3. /\ Active /\ client.phase = "wait" /\ scan.entries \in Seq(Entries)
      /\ promised \in SUBSET Records
  BY <1>1, ScanIs, TypeParts DEF Active, Phases, Scan
<1>4. \A s \in promised :
        /\ s \in raw /\ InScope(s, client.query) /\ Visible(s)
        /\ Seen(s) \/ Listed(s) \/ Ahead(s, scan.cursor)
        /\ Ahead(s, scan.cursor) => scan.next # None
  BY <1>1, <1>3 DEF Owed
<1>5. ASSUME NEW s \in promised, Seen(s)
      PROVE  Seen(s)'
  <2>1. PICK i \in DOMAIN received : received[i].id = s.id
    BY <1>5 DEF Seen
  <2>2. i \in DOMAIN received' /\ received'[i] = received[i]
    BY <1>2 DEF Sends
  <2>3. QED
    BY <2>1, <2>2 DEF Seen
<1>6. ASSUME NEW s \in promised, NEW j \in 1 .. n, scan.entries[j].id = s.id
      PROVE  Seen(s)'
  <2>1. /\ Len(received) + j \in DOMAIN received'
        /\ received'[Len(received) + j] = WireEntry(scan.entries[j])
    BY <1>2 DEF Sends
  <2>2. scan.entries[j] \in Entries
    BY <1>2, <1>3 DEF Sends
  <2>3. WireEntry(scan.entries[j]).id = s.id
    BY <1>6, <2>2, WireEntryType
  <2>4. QED
    BY <2>1, <2>3 DEF Seen
<1>7. ASSUME NEW s \in promised, ~Seen(s)'
      PROVE  client'.phase = "ask" /\ Ahead(s, client'.before)
  <2>0. Point(s)
    BY <1>3, RecordPoints
  <2>1. CASE n < Len(scan.entries)
    <3>1. n \in DOMAIN scan.entries /\ scan.entries[n] \in Entries
      BY <1>2, <1>3, <2>1 DEF Sends
    <3>2. CursorOf(scan.entries[n]) # None
      BY <3>1, WireStands
    <3>3. client'.before = CursorOf(scan.entries[n]) /\ client'.phase = "ask"
      BY <1>2, <2>1, <3>2 DEF Sends
    <3>4. Newer(scan.entries[n], s)
      <4>1. CASE Listed(s)
        <5>1. PICK j \in DOMAIN scan.entries :
                scan.entries[j].id = s.id /\ scan.entries[j].at = s.at
          BY <4>1 DEF Listed
        <5>2. ~(j \in 1 .. n)
          BY <1>6, <1>7, <5>1
        <5>3. n < j
          BY <1>3, <5>2
        <5>4. Newer(scan.entries[n], scan.entries[j])
          BY <1>3, <3>1, <5>3 DEF Order
        <5>5. QED
          BY <5>1, <5>4 DEF Newer
      <4>2. CASE Ahead(s, scan.cursor)
        <5>1. Passed(scan.entries[n], scan.cursor)
          BY <1>3, <3>1 DEF Order
        <5>2. /\ Upto(scan.entries[n], scan.cursor) /\ Newer(scan.cursor, s)
              /\ Point(scan.cursor) /\ Point(scan.entries[n])
          BY <1>1, <3>1, <4>2, <5>1, Points DEF Passed, Ahead
        <5>3. QED
          BY <2>0, <5>2, NewerFacts
      <4>3. QED
        BY <1>4, <1>5, <1>7, <4>1, <4>2
    <3>5. QED
      BY <3>1, <3>3, <3>4, WireStands DEF Ahead
  <2>2. CASE ~(n < Len(scan.entries))
    <3>1. ~Listed(s)
      <4>1. ASSUME NEW j \in DOMAIN scan.entries, scan.entries[j].id = s.id
            PROVE  FALSE
        <5>1. j \in 1 .. n
          BY <1>3, <2>2
        <5>2. QED
          BY <1>6, <1>7, <4>1, <5>1
      <4>2. QED
        BY <4>1 DEF Listed
    <3>2. Ahead(s, scan.cursor) /\ scan.next # None
      BY <1>4, <1>5, <1>7, <3>1
    <3>3. scan.next = scan.cursor
      BY <1>1, <1>3, <3>2 DEF Order
    <3>4. client'.before = scan.next /\ client'.phase = "ask"
      BY <1>2, <2>2, <3>2 DEF Sends
    <3>5. QED
      BY <3>2, <3>3, <3>4
  <2>3. QED
    BY <2>1, <2>2
<1>8. ~Active' /\ client'.query = client.query
  BY <1>1, <1>2 DEF Active, Sends
<1>9. \A s \in promised : Visible(s)'
  BY <1>1, <1>4 DEF Visible
<1>10. Owed'
  BY <1>1, <1>4, <1>7, <1>8, <1>9 DEF Owed, Seen
<1>11. Complete'
  BY <1>1, <1>7 DEF Complete, Seen
<1>12. QED
  BY <1>10, <1>11

LEMMA OwedStep ==
  ASSUME TypeOK, Phases, Order, Owed, Complete, Next \/ UNCHANGED vars
  PROVE  Owed' /\ Complete'
<1>1. ASSUME NEW r \in Records, Decode(r)
      PROVE  Owed' /\ Complete'
  <2>1. Owed'
    BY <1>1, DecodeOwed
  <2>2. scan.phase = "decode" /\ UNCHANGED client
    BY <1>1 DEF Decode
  <2>3. client'.phase = "wait"
    BY <2>2, ActiveIs DEF Phases
  <2>4. QED
    BY <2>1, <2>3 DEF Complete
<1>2. CASE QueryRawTimeline \/ BatchDone
  <2>1. Owed'
    BY <1>2, BatchOwed, BatchDoneOwed
  <2>2. scan.phase \in {"read", "batch"} /\ UNCHANGED client
    BY <1>2 DEF QueryRawTimeline, BatchDone
  <2>3. client'.phase = "wait"
    BY <2>2, ActiveIs DEF Phases
  <2>4. QED
    BY <2>1, <2>3 DEF Complete
<1>3. CASE Respond
  BY <1>3, RespondOwed
<1>4. CASE QueryTimeline
  <2>1. /\ client.phase = "ask" /\ client'.phase = "wait" /\ client'.query = client.query
        /\ UNCHANGED <<policy, raw, received, promised>>
        /\ scan'.phase = "read" /\ scan'.cursor = client.before
    BY <1>4, QueryFields
  <2>2. \A s \in promised :
          /\ s \in raw /\ InScope(s, client.query) /\ Visible(s)
          /\ Seen(s) \/ Ahead(s, client.before)
    BY <2>1 DEF Owed
  <2>3. \A s \in promised : Visible(s)' /\ (Seen(s) => Seen(s)')
    BY <2>1, <2>2 DEF Visible, Seen
  <2>4. \A s \in promised : Seen(s)' \/ Ahead(s, scan'.cursor)
    BY <2>1, <2>2, <2>3
  <2>5. QED
    BY <2>1, <2>2, <2>3, <2>4 DEF Owed, Complete, Seen
<1>5. CASE RefuseQuery \/ DecodeFails \/ OversizedEntry
  <2>1. client.phase \in {"ask", "wait"} /\ ~Active'
    BY <1>5, Failures, OtherTypes
  <2>2. /\ client'.phase = "failed" /\ client'.query = client.query
        /\ UNCHANGED <<policy, raw, received, promised>>
    BY <1>5, Failures, FailFields
  <2>3. \A s \in promised : s \in raw /\ InScope(s, client.query) /\ Visible(s)
    BY <2>1 DEF Owed
  <2>4. \A s \in promised : Visible(s)'
    BY <2>2, <2>3 DEF Visible
  <2>5. QED
    BY <2>1, <2>2, <2>3, <2>4 DEF Owed, Complete
<1>6. ASSUME NEW q \in Queries, Begin(q)
      PROVE  Owed' /\ Complete'
  <2>1. /\ client' = [phase |-> "ask", query |-> q, before |-> None]
        /\ promised' = {r \in raw : InScope(r, q) /\ Visible(r)}
        /\ UNCHANGED <<policy, raw, received>>
    BY <1>6 DEF Begin
  <2>2. client'.phase = "ask" /\ client'.query = q /\ client'.before = None /\ ~Active'
    BY <1>6, <2>1, OtherTypes
  <2>3. \A s \in promised' :
          s \in raw' /\ InScope(s, client'.query) /\ Visible(s)' /\ Ahead(s, client'.before)
    BY <2>1, <2>2 DEF Visible, Ahead
  <2>4. QED
    BY <2>2, <2>3 DEF Owed, Complete
<1>7. CASE (\E r \in Records : Insert(r)) \/ UNCHANGED vars
  <2>1. raw \subseteq raw' /\ UNCHANGED <<policy, client, received, promised, scan>>
    BY <1>7 DEF Insert, vars
  <2>2. \A s \in promised : Visible(s)' <=> Visible(s)
    BY <2>1 DEF Visible
  <2>3. Complete'
    BY <2>1 DEF Complete
  <2>4. Owed'
    BY <2>1, <2>2 DEF Owed, Seen, Listed, Active
  <2>5. QED
    BY <2>3, <2>4
<1>8. QED
  BY <1>1, <1>2, <1>3, <1>4, <1>5, <1>6, <1>7 DEF Next, Agent

LEMMA OwedInductive ==
  /\ Init => Owed /\ Complete
  /\ /\ TypeOK /\ Phases /\ Order /\ Owed /\ Complete
     /\ [Next]_vars
     => Owed' /\ Complete'
<1>1. ASSUME Init
      PROVE  Owed /\ Complete
  <2>1. scan = NoScan /\ client.phase = "idle"
    BY <1>1 DEF Init
  <2>2. QED
    BY <2>1 DEF Owed, Complete, Active
<1>2. QED
  BY <1>1, OwedStep

(* A client that follows the cursors to the end has seen every event it    *)
(* may see that was stored when it began: none falls between two batches,  *)
(* two pages, behind hidden events or off a page cut to the wire budget.   *)
THEOREM ReadingIsComplete == Spec => []Complete
<1>1. QED
  BY InitPhases, StepPhases, OrderInductive, OwedInductive, PTL DEF Spec
=============================================================================
