------------------------------- MODULE Timeline -------------------------------
(***************************************************************************)
(* Reading the timeline through the local API: a client that follows       *)
(* next_cursor from page to page (query_timeline_with_policy of the        *)
(* agent's read_capability.rs), the bounded scan of core/retrieval.rs over *)
(* the keyset query of storage-sqlite/retrieval.rs, and the byte budget of *)
(* a page on the wire.                                                     *)
(*                                                                         *)
(* The scan of one request is not one transaction: every batch of raw rows *)
(* is a SELECT of its own, and events of any age are committed before,     *)
(* between and after the requests (by collectors between two requests, by  *)
(* another process also within one).                                       *)
(***************************************************************************)
EXTENDS Naturals, Sequences, FiniteSets

CONSTANTS
  Records,       \* raw events that may ever be stored
  Scopes,
  Queries,       \* what clients ask for
  Policies,      \* configurations of the agent (ReadCapabilityPolicy)
  MaxPage,       \* MAX_LOCAL_PAGE_ENTRIES (20)
  RawBatch,      \* RAW_BATCH_SIZE (200)
  MaxScan,       \* MAX_RAW_SCAN_PER_QUERY (5000)
  MaxRefs,       \* MAX_WIRE_CONTENT_REFS (32)
  WireBudget,    \* MAX_WIRE_PAGE_BYTES (768 KiB), in units of WireSize
  None

(* Ranks of SensitivityClass and RetrievalClass.                           *)
Rank == 0..2

(* `decodes': the envelope parses and has a known version.                 *)
(* `bulky': its payload is over MAX_WIRE_PAYLOAD_BYTES.                    *)
Record ==
  [id : Nat, at : Nat, scope : Scopes, sensitivity : Rank, refs : Seq(Rank),
   decodes : BOOLEAN, bulky : BOOLEAN]

Query ==
  [token : BOOLEAN, scope : Scopes, start : Nat \cup {None}, end : Nat \cup {None}, limit : Nat]

Grant == [sensitivity : Rank, retrieval : Rank, payload : BOOLEAN]

ASSUME RecordsAssumption ==
  Records \subseteq Record /\ \A r, s \in Records : r.id = s.id => r = s
ASSUME QueriesAssumption == Queries \subseteq Query
ASSUME PoliciesAssumption == Policies \subseteq [scopes : SUBSET Scopes, grant : Grant]
ASSUME LimitsAssumption ==
  /\ MaxPage \in Nat \ {0}
  /\ RawBatch \in Nat \ {0}
  /\ MaxScan \in Nat \ {0}
  /\ MaxRefs \in Nat
  /\ WireBudget \in Nat
ASSUME NoneAssumption == None \notin Nat /\ None \notin [at : Nat, id : Nat] /\ None \notin Query

VARIABLES
  policy,     \* allowed scopes and grant of the token, read once per process
  raw,        \* raw_event: the records stored so far
  client,     \* the client's query, its cursor and how far it is
  received,   \* the entries of all pages it got, in order
  promised,   \* history: what was there for it to see when it began
  scan        \* the request the agent is working on

vars == <<policy, raw, client, received, promised, scan>>

-----------------------------------------------------------------------------
(* Keyset order: observed_key DESC, event_id DESC.                         *)

Newer(a, b) == a.at > b.at \/ (a.at = b.at /\ a.id > b.id)

CursorOf(r) == [at |-> r.at, id |-> r.id]

InScope(r, q) ==
  /\ r.scope = q.scope
  /\ q.start = None \/ r.at >= q.start
  /\ q.end = None \/ r.at < q.end

(* Mutant: the cursor compares times only, and not strictly.               *)
Matching_TimesOnly(q, cursor) ==
  {r \in raw : InScope(r, q) /\ (cursor = None \/ cursor.at >= r.at)}

(* The rows of query_raw_timeline before LIMIT.                            *)
Matching(q, cursor) ==
  {r \in raw : InScope(r, q) /\ (cursor = None \/ Newer(cursor, r))}

(* ORDER BY ... LIMIT n.                                                   *)
Newest(rows, n) == {r \in rows : Cardinality({s \in rows : Newer(s, r)}) < n}

-----------------------------------------------------------------------------
(* Policy: decode_visible_entry and map_wire_entry.                        *)

Visible(r) == r.sensitivity <= policy.grant.sensitivity

(* The references of an entry are their positions in the envelope.         *)
FilterRefs(refs) == {k \in DOMAIN refs : refs[k] <= policy.grant.retrieval}

(* Mutant: the payload comes with whatever references are visible.         *)
Entry_PayloadAnyway(r) ==
  [id |-> r.id, at |-> r.at, refs |-> FilterRefs(r.refs), payload |-> policy.grant.payload,
   bulky |-> r.bulky]

(* A payload is shown only with all of its references.                     *)
Entry(r) ==
  [id |-> r.id, at |-> r.at, refs |-> FilterRefs(r.refs),
   payload |-> policy.grant.payload /\ FilterRefs(r.refs) = DOMAIN r.refs,
   bulky |-> r.bulky]

(* What is left of an entry on the wire.                                   *)
WireEntry(entry) ==
  LET kept == {k \in entry.refs : Cardinality({j \in entry.refs : j < k}) < MaxRefs}
  IN [id |-> entry.id, at |-> entry.at, refs |-> kept,
      payload |-> entry.payload /\ kept = entry.refs /\ ~entry.bulky]

(* Bytes of a serialized entry: something for the entry itself, for each   *)
(* reference and for the payload.                                          *)
WireSize(e) == 1 + Cardinality(e.refs) + (IF e.payload THEN 1 ELSE 0)

-----------------------------------------------------------------------------
NoScan == [phase |-> "none"]

Init ==
  /\ policy \in Policies
  /\ raw = {}
  /\ client = [phase |-> "idle", query |-> None, before |-> None]
  /\ received = <<>>
  /\ promised = {}
  /\ scan = NoScan

(* Any collector, or another process, commits an event.                    *)
Insert(r) ==
  /\ r \notin raw
  /\ raw' = raw \cup {r}
  /\ UNCHANGED <<policy, client, received, promised, scan>>

(* The client starts to read.                                              *)
Begin(q) ==
  /\ client.phase = "idle"
  /\ client' = [phase |-> "ask", query |-> q, before |-> None]
  /\ promised' = {r \in raw : InScope(r, q) /\ Visible(r)}
  /\ UNCHANGED <<policy, raw, received, scan>>

Limit == client.query.limit

ValidQuery(q) ==
  /\ q.limit \in 1..MaxPage
  /\ q.token
  /\ q.scope \in policy.scopes
  /\ {q.start, q.end} \subseteq Nat => q.start < q.end

Fail ==
  /\ client' = [client EXCEPT !.phase = "failed"]
  /\ scan' = NoScan
  /\ UNCHANGED <<policy, raw, received, promised>>

RefuseQuery ==
  /\ client.phase = "ask"
  /\ ~ValidQuery(client.query)
  /\ Fail

(* query_timeline: the scan begins at the client's cursor.                 *)
QueryTimeline ==
  /\ client.phase = "ask"
  /\ ValidQuery(client.query)
  /\ client' = [client EXCEPT !.phase = "wait"]
  /\ scan' = [phase |-> "read", page |-> {}, more |-> FALSE, entries |-> <<>>,
              scanned |-> 0, cursor |-> client.before, next |-> None]
  /\ UNCHANGED <<policy, raw, received, promised>>

(* Mutant: the last batch is not cut to what is left of the scan budget.   *)
QueryRawTimeline_FullBatch ==
  LET rows == Matching(client.query, scan.cursor)
  IN /\ scan.phase = "read"
     /\ scan' = [scan EXCEPT
          !.phase = IF rows = {} THEN "wire" ELSE "decode",
          !.page = Newest(rows, RawBatch),
          !.more = Cardinality(rows) > RawBatch,
          !.next = IF rows = {} THEN None ELSE @]
     /\ UNCHANGED <<policy, raw, client, received, promised>>

(* One batch of raw rows; an empty one ends the scan.                      *)
QueryRawTimeline ==
  LET n == IF RawBatch <= MaxScan - scan.scanned THEN RawBatch ELSE MaxScan - scan.scanned
      rows == Matching(client.query, scan.cursor)
  IN /\ scan.phase = "read"
     /\ scan' = [scan EXCEPT
          !.phase = IF rows = {} THEN "wire" ELSE "decode",
          !.page = Newest(rows, n),
          !.more = Cardinality(rows) > n,
          !.next = IF rows = {} THEN None ELSE @]
     /\ UNCHANGED <<policy, raw, client, received, promised>>

(* The newest row of the batch not yet looked at.                          *)
IsHead(r) == r \in scan.page /\ \A s \in scan.page \ {r} : Newer(r, s)

(* A row that cannot be decoded fails the whole request.                   *)
DecodeFails ==
  /\ scan.phase = "decode"
  /\ \E r \in scan.page : IsHead(r) /\ ~r.decodes
  /\ Fail

(* Mutant: the cursor stays at the last entry that could be shown.         *)
Decode_VisibleCursor(r) ==
  /\ scan.phase = "decode"
  /\ IsHead(r)
  /\ r.decodes
  /\ LET entries == IF Visible(r) THEN Append(scan.entries, Entry(r)) ELSE scan.entries
         cursor == IF Visible(r) THEN CursorOf(r) ELSE scan.cursor
         full == Len(entries) = Limit
         rest == scan.page \ {r}
     IN scan' = [scan EXCEPT
          !.page = IF full THEN {} ELSE rest,
          !.entries = entries,
          !.scanned = @ + 1,
          !.cursor = cursor,
          !.next = IF full THEN IF rest # {} \/ scan.more THEN cursor ELSE None ELSE @,
          !.phase = IF full THEN "wire" ELSE IF rest = {} THEN "batch" ELSE "decode"]
  /\ UNCHANGED <<policy, raw, client, received, promised>>

(* One row: the raw cursor moves whether or not it is shown.  A full page  *)
(* ends the scan at once; rows of the batch not looked at mean more.       *)
Decode(r) ==
  /\ scan.phase = "decode"
  /\ IsHead(r)
  /\ r.decodes
  /\ LET entries == IF Visible(r) THEN Append(scan.entries, Entry(r)) ELSE scan.entries
         full == Len(entries) = Limit
         rest == scan.page \ {r}
     IN scan' = [scan EXCEPT
          !.page = IF full THEN {} ELSE rest,
          !.entries = entries,
          !.scanned = @ + 1,
          !.cursor = CursorOf(r),
          !.next = IF full THEN IF rest # {} \/ scan.more THEN CursorOf(r) ELSE None ELSE @,
          !.phase = IF full THEN "wire" ELSE IF rest = {} THEN "batch" ELSE "decode"]
  /\ UNCHANGED <<policy, raw, client, received, promised>>

(* The batch is used up: go on, unless there is no more or the scan budget *)
(* is spent, which leaves a cursor even when there is no more.             *)
BatchDone ==
  /\ scan.phase = "batch"
  /\ scan' = [scan EXCEPT
       !.phase = IF scan.more /\ scan.scanned < MaxScan THEN "read" ELSE "wire",
       !.next = IF scan.more \/ scan.scanned >= MaxScan THEN scan.cursor ELSE None]
  /\ UNCHANGED <<policy, raw, client, received, promised>>

-----------------------------------------------------------------------------
(* map_wire_page: as many entries as the budget holds.                     *)

Wire == [i \in DOMAIN scan.entries |-> WireEntry(scan.entries[i])]

(* Bytes of the first n entries.                                           *)
SizeUpTo[n \in Nat] == IF n = 0 THEN 0 ELSE SizeUpTo[n - 1] + WireSize(Wire[n])

Fitting == {n \in 0..Len(Wire) : SizeUpTo[n] <= WireBudget}

(* Mutant: a page over the budget fails instead of being cut.              *)
OversizedEntry_AnyPage ==
  /\ scan.phase = "wire"
  /\ Len(Wire) \notin Fitting
  /\ Fail

(* The first entry alone is over the budget.                               *)
OversizedEntry ==
  /\ scan.phase = "wire"
  /\ Wire # <<>> /\ WireSize(Wire[1]) > WireBudget
  /\ Fail

(* Mutant: a truncated page keeps the cursor of the full one.              *)
NextCursor_OfScan(n) == scan.next

(* A truncated page continues after the last entry it holds.               *)
NextCursor(n) == IF n < Len(Wire) THEN CursorOf(Wire[n]) ELSE scan.next

(* The page reaches the client, which asks for the next one if there is    *)
(* a cursor.                                                               *)
Respond ==
  /\ scan.phase = "wire"
  /\ \E n \in Fitting :
       /\ \A m \in Fitting : m <= n
       /\ n > 0 \/ Wire = <<>>
       /\ received' = received \o SubSeq(Wire, 1, n)
       /\ client' = [client EXCEPT
            !.phase = IF NextCursor(n) = None THEN "done" ELSE "ask",
            !.before = NextCursor(n)]
  /\ scan' = NoScan
  /\ UNCHANGED <<policy, raw, promised>>

Agent ==
  \/ RefuseQuery
  \/ QueryTimeline
  \/ QueryRawTimeline
  \/ DecodeFails
  \/ \E r \in Records : Decode(r)
  \/ BatchDone
  \/ OversizedEntry
  \/ Respond

Next ==
  \/ \E r \in Records : Insert(r)
  \/ \E q \in Queries : Begin(q)
  \/ Agent

(* The client keeps asking and the agent keeps answering.                  *)
Spec == Init /\ [][Next]_vars
FairSpec == Spec /\ WF_vars(Agent)

-----------------------------------------------------------------------------
Cursors == [at : Nat, id : Nat] \cup {None}
Entries == [id : Nat, at : Nat, refs : SUBSET Nat, payload : BOOLEAN, bulky : BOOLEAN]
WireEntries == [id : Nat, at : Nat, refs : SUBSET Nat, payload : BOOLEAN]

(* Every variable keeps its shape.                                         *)
TypeOK ==
  /\ policy \in Policies
  /\ raw \in SUBSET Records
  /\ client \in [phase : {"idle", "ask", "wait", "done", "failed"},
                 query : Queries \cup {None}, before : Cursors]
  /\ received \in Seq(WireEntries)
  /\ promised \in SUBSET Records
  /\ scan \in {NoScan} \cup
       [phase : {"read", "decode", "batch", "wire"}, page : SUBSET Records, more : BOOLEAN,
        entries : Seq(Entries), scanned : 0..MaxScan, cursor : Cursors, next : Cursors]

(* Across all pages the entries run strictly from newer to older, so that  *)
(* no event is shown twice or out of order, whatever is committed between  *)
(* two batches or two pages, and with equal times (keyset pagination of    *)
(* docs/retrieval-v1.md).                                                  *)
Descending ==
  \A i, j \in DOMAIN received : i < j => Newer(received[i], received[j])

(* A client that has reached the end has seen every event it may see that  *)
(* was stored when it began: none falls between two batches, between two   *)
(* pages, behind hidden events or off a page cut to the wire budget.       *)
Complete ==
  client.phase = "done" =>
    \A r \in promised : \E i \in DOMAIN received : received[i].id = r.id

(* What is shown is within the query and the grant: an event of the scope  *)
(* and the range, references of the granted class, and a payload only with *)
(* every reference of its event on the page (docs/retrieval-v1.md,         *)
(* "every referenced content object is visible under that grant").         *)
WithinGrant ==
  \A i \in DOMAIN received :
    \E r \in raw :
      /\ r.id = received[i].id
      /\ InScope(r, client.query)
      /\ Visible(r)
      /\ \A k \in received[i].refs :
           k \in DOMAIN r.refs /\ r.refs[k] <= policy.grant.retrieval
      /\ received[i].payload => policy.grant.payload /\ received[i].refs = DOMAIN r.refs

(* Reading fails only where it must: the query is refused as a whole, or   *)
(* some stored row in its range cannot be decoded or is over the budget    *)
(* all by itself.                                                          *)
FailsForCause ==
  client.phase = "failed" =>
    \/ ~ValidQuery(client.query)
    \/ \E r \in raw :
         /\ InScope(r, client.query)
         /\ ~r.decodes \/ (Visible(r) /\ WireSize(WireEntry(Entry(r))) > WireBudget)

(* Reading comes to an end: pages without a visible event, or cut short by *)
(* a bound, move the cursor all the same.                                  *)
Terminates == client.phase = "ask" ~> client.phase \in {"done", "failed"}
=============================================================================
