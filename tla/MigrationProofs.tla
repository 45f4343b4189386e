--------------------------- MODULE MigrationProofs ---------------------------
(***************************************************************************)
(* Proofs about Migration, for every set of processes, events and versions *)
(* of the file, and any number of crashes.                                 *)
(***************************************************************************)
EXTENDS Migration, TLAPS

-----------------------------------------------------------------------------
(* Types.                                                                  *)

Phases == {"closed", "migrating", "open", "failed"}

RowType == [key : Int \cup {None}, scope : {ScopeOf[e] : e \in Events} \cup {Unscoped, None}]

Typed ==
  /\ version \in 0 .. CURRENT_DATABASE_VERSION + 1
  /\ DOMAIN rows \in SUBSET Events
  /\ rows \in [DOMAIN rows -> RowType]
  /\ pc \in [Openers -> Phases]
  /\ seen \in [Openers -> 0 .. CURRENT_DATABASE_VERSION]

(* A sort key is an instant.                                               *)
LEMMA SortKeyType ==
  ASSUME NEW e \in Events
  PROVE  FormatSortKey(e) \in Int
BY TimesAssumption DEF FormatSortKey

(* A row of any version has its two columns.                               *)
LEMMA RowAtType ==
  ASSUME NEW e \in Events, NEW v \in Int
  PROVE  RowAt(v, e) \in RowType
BY SortKeyType DEF RowAt, RowType

(* The row an earlier release writes has no key.                           *)
LEMMA EarlierRow ==
  ASSUME NEW e \in Events, NEW v \in Releases, EarlierRelease(v, e)
  PROVE  \E row \in RowType :
           /\ Store(e, row) /\ row.key = None
           /\ v # 1 /\ e \in Files => row.scope = ScopeOf[e]
<1>1. v \in 1 .. 3
  BY ReleasesAssumption
<1>2. RowAt(v, e) \in RowType /\ RowAt(v, e).key = None
  BY <1>1, RowAtType DEF RowAt
<1>3. CASE v = 1 /\ e \in Files /\ "location.scope_id" \in schema
  <2>1. [RowAt(v, e) EXCEPT !.scope = Unscoped] \in RowType
    BY <1>2 DEF RowType
  <2>2. [RowAt(v, e) EXCEPT !.scope = Unscoped].key = None
    BY <1>2 DEF RowType
  <2>3. QED BY <1>3, <2>1, <2>2 DEF EarlierRelease
<1>4. CASE ~(v = 1 /\ e \in Files /\ "location.scope_id" \in schema)
  <2>1. Store(e, RowAt(v, e))
    BY <1>4 DEF EarlierRelease
  <2>2. v # 1 /\ e \in Files => RowAt(v, e).scope = ScopeOf[e]
    BY <1>1 DEF RowAt
  <2>3. QED BY <1>2, <2>1, <2>2
<1>5. QED BY <1>3, <1>4

(* What a step does to the columns of an event.                            *)
LEMMA RowsAfterShape ==
  ASSUME Typed, NEW step \in 1 .. 4
  PROVE  /\ DOMAIN RowsAfter(step) = DOMAIN rows
         /\ RowsAfter(step) \in [DOMAIN rows -> RowType]
         /\ \A e \in DOMAIN rows :
              RowsAfter(step)[e].key =
                IF step = 4 /\ rows[e].key = None THEN FormatSortKey(e) ELSE rows[e].key
<1>1. \A e \in DOMAIN rows : e \in Events /\ rows[e] \in RowType /\ FormatSortKey(e) \in Int
  BY SortKeyType DEF Typed
<1>2. CASE step = 2
  BY <1>1, <1>2 DEF RowsAfter, RowType
<1>3. CASE step = 4
  BY <1>1, <1>3 DEF RowsAfter, RowType
<1>4. CASE step \notin {2, 4}
  BY <1>1, <1>4 DEF RowsAfter
<1>5. QED BY <1>2, <1>3, <1>4

(* Storing a row keeps the others.                                         *)
LEMMA StoreShape ==
  ASSUME Typed, NEW e \in Events, NEW row \in RowType, Store(e, row)
  PROVE  /\ DOMAIN rows' = DOMAIN rows \cup {e}
         /\ DOMAIN rows' \in SUBSET Events
         /\ rows' \in [DOMAIN rows' -> RowType]
         /\ rows'[e] = row
         /\ \A x \in DOMAIN rows : x # e => rows'[x] = rows[x]
BY DEF Typed, Store

LEMMA TypedInit == Init => Typed
<1> SUFFICES ASSUME Init PROVE Typed
  OBVIOUS
<1>1. version \in 0 .. CURRENT_DATABASE_VERSION + 1 /\ version \in Int
  BY StartAssumption DEF Init, CURRENT_DATABASE_VERSION
<1>2. PICK stored \in SUBSET Events : rows = [e \in stored |-> RowAt(version, e)]
  BY DEF Init
<1>3. DOMAIN rows \in SUBSET Events /\ rows \in [DOMAIN rows -> RowType]
  BY <1>1, <1>2, RowAtType
<1>4. pc \in [Openers -> Phases] /\ seen \in [Openers -> 0 .. CURRENT_DATABASE_VERSION]
  BY DEF Init, Phases, CURRENT_DATABASE_VERSION
<1>5. QED BY <1>1, <1>3, <1>4 DEF Typed

LEMMA TypedStep == Typed /\ [Next]_vars => Typed'
<1> SUFFICES ASSUME Typed, [Next]_vars PROVE Typed'
  OBVIOUS
<1>1. ASSUME NEW p \in Openers, Open(p) PROVE Typed'
  BY <1>1 DEF Open, Typed, Phases, CURRENT_DATABASE_VERSION
<1>2. ASSUME NEW p \in Openers, Migrate(p) PROVE Typed'
  <2>1. seen[p] + 1 \in 1 .. 4 /\ seen[p] + 1 \in 0 .. CURRENT_DATABASE_VERSION
    BY <1>2 DEF Migrate, Typed, CURRENT_DATABASE_VERSION
  <2>2. DOMAIN rows' = DOMAIN rows /\ rows' \in [DOMAIN rows -> RowType]
    BY <1>2, <2>1, RowsAfterShape DEF Migrate
  <2>3. QED BY <1>2, <2>1, <2>2 DEF Migrate, Typed, CURRENT_DATABASE_VERSION
<1>3. ASSUME NEW p \in Openers, MigrateFails(p) \/ Opened(p) \/ Crash(p) PROVE Typed'
  BY <1>3 DEF MigrateFails, Opened, Crash, Typed, Phases
<1>4. ASSUME NEW p \in Openers, NEW e \in Events, Append(p, e) PROVE Typed'
  <2>1. RowAt(CURRENT_DATABASE_VERSION, e) \in RowType
    BY RowAtType DEF CURRENT_DATABASE_VERSION
  <2>2. QED BY <1>4, <2>1, StoreShape DEF Append, Typed
<1>5. ASSUME NEW v \in Releases, NEW e \in Events, EarlierRelease(v, e) PROVE Typed'
  BY <1>5, EarlierRow, StoreShape DEF EarlierRelease, Typed
<1>6. CASE UNCHANGED vars
  BY <1>6 DEF vars, Typed
<1>7. QED BY <1>1, <1>2, <1>3, <1>4, <1>5, <1>6 DEF Next

-----------------------------------------------------------------------------
(* The sort keys.  KeysComplete alone is not inductive: a writer of an     *)
(* earlier release has to be kept out by the trigger, which comes with the *)
(* column, and a process that takes the file for one of version 4 has to   *)
(* be right about the column.                                              *)

KeysRequired == ObservedKey \in schema => KeyRequired \in schema

NoKeysBefore == ObservedKey \notin schema => \A e \in DOMAIN rows : rows[e].key = None

Uses(p) == pc[p] = "open" \/ (pc[p] = "migrating" /\ seen[p] = CURRENT_DATABASE_VERSION)

UsersHaveKeys ==
  version >= CURRENT_DATABASE_VERSION \/ (\E p \in Openers : Uses(p)) => ObservedKey \in schema

KeyInvariant == Typed /\ KeysComplete /\ KeysRequired /\ NoKeysBefore /\ UsersHaveKeys

(* A step adds the column together with the trigger, or neither, and       *)
(* removes neither.                                                        *)
LEMMA SchemaAfterKeys ==
  ASSUME NEW step \in 1 .. 4
  PROVE  /\ ObservedKey \in SchemaAfter(step) <=> ObservedKey \in schema \/ step = 4
         /\ KeyRequired \in SchemaAfter(step) <=> KeyRequired \in schema \/ step = 4
BY DEF SchemaAfter, Tables, Scopes, TextCursor, ObservedKey, KeyCursor, KeyRequired

LEMMA KeyInit == Init => KeyInvariant
<1> SUFFICES ASSUME Init PROVE KeyInvariant
  OBVIOUS
<1>1. Typed
  BY TypedInit
<1>2. version \in 0 .. 5 /\ schema = SchemaOf(version)
  BY <1>1 DEF Init, Typed, CURRENT_DATABASE_VERSION
<1>3. /\ ObservedKey \in schema <=> version >= 4
      /\ ObservedKey \in schema => KeyRequired \in schema
  <2>1. ObservedKey \notin Tables \cup Scopes \cup {TextCursor}
    BY DEF ObservedKey, Tables, Scopes, TextCursor
  <2>2. CASE version \in {0, 1, 2, 3}
    BY <1>2, <2>1, <2>2 DEF SchemaOf
  <2>3. CASE version \in {4, 5}
    BY <1>2, <2>3 DEF SchemaOf
  <2>4. QED BY <1>2, <2>2, <2>3
<1>4. \A e \in DOMAIN rows : rows[e].key = IF version >= 4 THEN FormatSortKey(e) ELSE None
  BY DEF Init, RowAt
<1>5. \A p \in Openers : ~Uses(p)
  BY DEF Init, Uses
<1>6. QED
  BY <1>1, <1>3, <1>4, <1>5
  DEF KeyInvariant, KeysComplete, KeysRequired, NoKeysBefore, UsersHaveKeys, CURRENT_DATABASE_VERSION

LEMMA KeyStep == KeyInvariant /\ [Next]_vars => KeyInvariant'
<1> SUFFICES ASSUME KeyInvariant, [Next]_vars PROVE KeyInvariant'
  OBVIOUS
<1>t. Typed /\ Typed'
  BY TypedStep DEF KeyInvariant
<1> USE DEF KeyInvariant
<1>1. ASSUME NEW p \in Openers, Open(p) PROVE KeyInvariant'
  <2>1. UNCHANGED <<version, schema, rows>>
    BY <1>1 DEF Open
  <2>2. ASSUME NEW q \in Openers, Uses(q)' PROVE ObservedKey \in schema
    <3>1. CASE q # p
      BY <1>1, <1>t, <2>2, <3>1 DEF Open, Uses, UsersHaveKeys, Typed
    <3>2. CASE q = p
      BY <1>1, <1>t, <2>2, <3>2 DEF Open, Uses, UsersHaveKeys, Typed, CURRENT_DATABASE_VERSION
    <3>3. QED BY <3>1, <3>2
  <2>3. QED
    BY <1>t, <2>1, <2>2 DEF KeysComplete, KeysRequired, NoKeysBefore, UsersHaveKeys
<1>2. ASSUME NEW p \in Openers, Migrate(p) PROVE KeyInvariant'
  <2> DEFINE step == seen[p] + 1
  <2>1. step \in 1 .. 4 /\ version' = step
    BY <1>2, <1>t DEF Migrate, Typed, CURRENT_DATABASE_VERSION
  <2>2. schema' = SchemaAfter(step) /\ rows' = RowsAfter(step) /\ Succeeds(step)
    BY <1>2 DEF Migrate
  <2> HIDE DEF step
  <2>3. /\ ObservedKey \in schema' <=> ObservedKey \in schema \/ step = 4
        /\ KeyRequired \in schema' <=> KeyRequired \in schema \/ step = 4
    BY <2>1, <2>2, SchemaAfterKeys
  <2>4. step = 4 => ObservedKey \notin schema
    BY <2>2 DEF Succeeds
  <2>5. /\ DOMAIN rows' = DOMAIN rows
        /\ \A e \in DOMAIN rows :
             rows'[e].key =
               IF step = 4 /\ rows[e].key = None THEN FormatSortKey(e) ELSE rows[e].key
    BY <1>t, <2>1, <2>2, RowsAfterShape
  <2>6. KeysComplete' /\ NoKeysBefore'
    BY <2>3, <2>4, <2>5 DEF KeysComplete, NoKeysBefore, FormatSortKey
  <2>7. KeysRequired'
    BY <2>3 DEF KeysRequired
  <2>8. ASSUME NEW q \in Openers, Uses(q)' PROVE ObservedKey \in schema'
    <3>1. CASE q # p
      BY <1>2, <1>t, <2>3, <2>8, <3>1 DEF Migrate, Uses, UsersHaveKeys, Typed
    <3>2. CASE q = p
      <4>1. seen'[p] = step /\ pc'[p] = "migrating"
        BY <1>2, <1>t DEF Migrate, Typed, step
      <4>2. QED BY <2>3, <2>8, <3>2, <4>1 DEF Uses, CURRENT_DATABASE_VERSION
    <3>3. QED BY <3>1, <3>2
  <2>9. UsersHaveKeys'
    BY <2>1, <2>3, <2>8 DEF UsersHaveKeys, CURRENT_DATABASE_VERSION
  <2>10. QED BY <1>t, <2>6, <2>7, <2>9
<1>3. ASSUME NEW p \in Openers, MigrateFails(p) \/ Opened(p) \/ Crash(p) PROVE KeyInvariant'
  <2>1. UNCHANGED <<version, schema, rows, seen>>
    BY <1>3 DEF MigrateFails, Opened, Crash
  <2>2. ASSUME NEW q \in Openers, Uses(q)' PROVE Uses(q)
    BY <1>3, <1>t, <2>2 DEF MigrateFails, Opened, Crash, Uses, Typed
  <2>3. QED
    BY <1>t, <2>1, <2>2 DEF KeysComplete, KeysRequired, NoKeysBefore, UsersHaveKeys
<1>4. ASSUME NEW p \in Openers, NEW e \in Events, Append(p, e) PROVE KeyInvariant'
  <2>1. UNCHANGED <<version, schema, pc, seen>> /\ ObservedKey \in schema
    BY <1>4 DEF Append, UsersHaveKeys, Uses
  <2>2. RowAt(CURRENT_DATABASE_VERSION, e) \in RowType
    BY RowAtType DEF CURRENT_DATABASE_VERSION
  <2>3. RowAt(CURRENT_DATABASE_VERSION, e).key = FormatSortKey(e)
    BY DEF RowAt, CURRENT_DATABASE_VERSION
  <2>4. \A x \in DOMAIN rows' : rows'[x].key = FormatSortKey(x)
    BY <1>4, <1>t, <2>1, <2>2, <2>3, StoreShape DEF Append, KeysComplete
  <2>5. QED
    BY <1>t, <2>1, <2>4
    DEF KeysComplete, KeysRequired, NoKeysBefore, UsersHaveKeys, Uses, FormatSortKey
<1>5. ASSUME NEW v \in Releases, NEW e \in Events, EarlierRelease(v, e) PROVE KeyInvariant'
  <2>1. UNCHANGED <<version, schema, pc, seen>> /\ ObservedKey \notin schema
    BY <1>5 DEF EarlierRelease, KeysRequired
  <2>2. PICK row \in RowType : Store(e, row) /\ row.key = None
    BY <1>5, EarlierRow
  <2>3. \A x \in DOMAIN rows' : rows'[x].key = None
    BY <1>t, <2>1, <2>2, StoreShape DEF NoKeysBefore
  <2>4. QED
    BY <1>t, <2>1, <2>3 DEF KeysComplete, KeysRequired, NoKeysBefore, UsersHaveKeys, Uses
<1>6. CASE UNCHANGED vars
  BY <1>t, <1>6
  DEF vars, KeysComplete, KeysRequired, NoKeysBefore, UsersHaveKeys, Uses, FormatSortKey
<1>7. QED BY <1>1, <1>2, <1>3, <1>4, <1>5, <1>6 DEF Next

(* Once the file has the column observed_key every stored event has its    *)
(* sort key there: whoever migrates, wherever it is interrupted, and       *)
(* whatever an agent of an earlier release writes meanwhile.               *)
THEOREM KeysAlwaysComplete == Spec => []KeysComplete
<1>1. KeyInvariant => KeysComplete
  BY DEF KeyInvariant
<1>2. QED BY <1>1, KeyInit, KeyStep, PTL DEF Spec

-----------------------------------------------------------------------------
(* The version.  Without overlap the process that migrates has read the    *)
(* number that is still in the file.                                       *)

OneMigrates ==
  alone => /\ \A p \in Migrating : seen[p] = version
           /\ \A p, q \in Migrating : p = q

VersionInvariant == Typed /\ VersionTellsSchema /\ OneMigrates

(* The statements of a step make a schema of the next version of one of    *)
(* the version before.                                                     *)
LEMMA NextSchema ==
  ASSUME NEW v \in 0 .. 3, schema = SchemaOf(v)
  PROVE  SchemaAfter(v + 1) = SchemaOf(v + 1)
<1> USE DEF SchemaAfter, SchemaOf
<1>1. CASE v = 0 BY <1>1
<1>2. CASE v = 1 BY <1>2
<1>3. CASE v = 2 BY <1>3
<1>4. CASE v = 3
  <2>1. TextCursor \notin Tables \cup Scopes
    BY DEF TextCursor, Tables, Scopes
  <2>2. QED BY <1>4, <2>1
<1>5. QED BY <1>1, <1>2, <1>3, <1>4

LEMMA VersionInit == Init => VersionInvariant
BY TypedInit DEF Init, VersionInvariant, VersionTellsSchema, OneMigrates, Migrating

LEMMA VersionStep == VersionInvariant /\ [Next]_vars => VersionInvariant'
<1> SUFFICES ASSUME VersionInvariant, [Next]_vars PROVE VersionInvariant'
  OBVIOUS
<1>t. Typed /\ Typed'
  BY TypedStep DEF VersionInvariant
<1> USE DEF VersionInvariant
<1>1. ASSUME NEW p \in Openers, Open(p) PROVE VersionInvariant'
  BY <1>1, <1>t DEF Open, VersionTellsSchema, OneMigrates, Migrating, Typed
<1>2. ASSUME NEW p \in Openers, Migrate(p) PROVE VersionInvariant'
  <2>1. CASE ~alone
    BY <1>2, <1>t, <2>1 DEF Migrate, VersionTellsSchema, OneMigrates
  <2>2. CASE alone
    <3>1. seen[p] = version /\ version \in 0 .. 3 /\ schema = SchemaOf(version)
      BY <1>2, <1>t, <2>2
      DEF Migrate, VersionTellsSchema, OneMigrates, Migrating, Typed, CURRENT_DATABASE_VERSION
    <3>2. schema' = SchemaOf(version + 1) /\ version' = version + 1
      BY <1>2, <3>1, NextSchema DEF Migrate
    <3>3. \A q \in Openers : pc'[q] = "migrating" => q = p
      BY <1>2, <2>2 DEF Migrate, OneMigrates, Migrating
    <3>4. seen'[p] = version'
      BY <1>2, <1>t DEF Migrate, Typed
    <3>5. QED
      BY <1>t, <3>2, <3>3, <3>4 DEF VersionTellsSchema, OneMigrates, Migrating
  <2>3. QED BY <2>1, <2>2, <1>2 DEF Migrate
<1>3. ASSUME NEW p \in Openers, MigrateFails(p) \/ Opened(p) \/ Crash(p)
      PROVE  VersionInvariant'
  <2>1. UNCHANGED <<version, schema, seen, alone>>
    BY <1>3 DEF MigrateFails, Opened, Crash
  <2>2. \A q \in Openers : pc'[q] = "migrating" => pc[q] = "migrating"
    BY <1>3, <1>t DEF MigrateFails, Opened, Crash, Typed
  <2>3. QED BY <1>t, <2>1, <2>2 DEF VersionTellsSchema, OneMigrates, Migrating
<1>4. ASSUME NEW p \in Openers, NEW e \in Events, Append(p, e) PROVE VersionInvariant'
  BY <1>4, <1>t DEF Append, VersionTellsSchema, OneMigrates, Migrating
<1>5. ASSUME NEW v \in Releases, NEW e \in Events, EarlierRelease(v, e)
      PROVE  VersionInvariant'
  BY <1>5, <1>t DEF EarlierRelease, VersionTellsSchema, OneMigrates, Migrating
<1>6. CASE UNCHANGED vars
  BY <1>t, <1>6 DEF vars, VersionTellsSchema, OneMigrates, Migrating
<1>7. QED BY <1>1, <1>2, <1>3, <1>4, <1>5, <1>6 DEF Next

(* As long as processes migrate one at a time, user_version says exactly   *)
(* which statements have run on the file, wherever a process was cut       *)
(* short.                                                                  *)
THEOREM VersionAlwaysTells == Spec => []VersionTellsSchema
<1>1. VersionInvariant => VersionTellsSchema
  BY DEF VersionInvariant
<1>2. QED BY <1>1, VersionInit, VersionStep, PTL DEF Spec

(* Under the same condition no step takes the number back.  Without it one *)
(* can: ForwardOnly is violated.                                           *)
THEOREM ForwardWhenAlone == Spec => [][alone => version' >= version]_vars
<1>1. VersionInvariant /\ [Next]_vars => [alone => version' >= version]_vars
  <2> SUFFICES ASSUME VersionInvariant, Next, alone PROVE version' >= version
    BY DEF vars
  <2>1. version \in Int
    BY DEF VersionInvariant, Typed
  <2>2. ASSUME NEW p \in Openers, Migrate(p) PROVE version' >= version
    <3>1. seen[p] = version /\ version' = seen[p] + 1
      BY <2>2 DEF Migrate, VersionInvariant, OneMigrates, Migrating
    <3>2. QED BY <2>1, <3>1
  <2>3. ASSUME NEW p \in Openers, Open(p) \/ MigrateFails(p) \/ Opened(p) \/ Crash(p)
        PROVE  version' = version
    BY <2>3 DEF Open, MigrateFails, Opened, Crash
  <2>4. ASSUME NEW e \in Events,
               (\E v \in Releases : EarlierRelease(v, e)) \/ (\E p \in Openers : Append(p, e))
        PROVE  version' = version
    BY <2>4 DEF Append, EarlierRelease
  <2>5. QED BY <2>1, <2>2, <2>3, <2>4 DEF Next
<1>2. QED BY <1>1, VersionInit, VersionStep, PTL DEF Spec

-----------------------------------------------------------------------------
(* What a process that has opened the file finds there.  The number can be *)
(* too small when migrations overlap, never too large: a step adds what it *)
(* names to what the process found, and nothing but the old index is ever  *)
(* dropped.                                                                *)

Holds(v) == SchemaOf(v) \ {TextCursor} \subseteq schema

NoNumberTooLarge ==
  /\ Holds(version)
  /\ \A p \in Openers : pc[p] \in {"migrating", "open"} => Holds(seen[p])
  /\ \A p \in Openers : pc[p] = "open" => seen[p] = CURRENT_DATABASE_VERSION

OpenInvariant == Typed /\ NoNumberTooLarge

(* A step keeps every object but the old index, and makes a file that      *)
(* holds a version hold the next one.                                      *)
LEMMA StepAddsObjects ==
  ASSUME NEW v \in 0 .. 3
  PROVE  /\ schema \ {TextCursor} \subseteq SchemaAfter(v + 1)
         /\ Holds(v) => SchemaOf(v + 1) \ {TextCursor} \subseteq SchemaAfter(v + 1)
<1> USE DEF SchemaAfter, SchemaOf, Holds
<1>1. CASE v = 0 BY <1>1
<1>2. CASE v = 1 BY <1>2
<1>3. CASE v = 2 BY <1>3
<1>4. CASE v = 3 BY <1>4
<1>5. QED BY <1>1, <1>2, <1>3, <1>4

LEMMA OpenInit == Init => OpenInvariant
BY TypedInit DEF Init, OpenInvariant, NoNumberTooLarge, Holds

LEMMA OpenStep == OpenInvariant /\ [Next]_vars => OpenInvariant'
<1> SUFFICES ASSUME OpenInvariant, [Next]_vars PROVE OpenInvariant'
  OBVIOUS
<1>t. Typed /\ Typed' /\ NoNumberTooLarge
  BY TypedStep DEF OpenInvariant
<1>1. ASSUME NEW p \in Openers, Open(p) PROVE NoNumberTooLarge'
  BY <1>1, <1>t DEF Open, NoNumberTooLarge, Holds, Typed
<1>2. ASSUME NEW p \in Openers, Migrate(p) PROVE NoNumberTooLarge'
  <2>1. seen[p] \in 0 .. 3 /\ Holds(seen[p])
    BY <1>2, <1>t DEF Migrate, NoNumberTooLarge, Typed, CURRENT_DATABASE_VERSION
  <2>2. /\ schema \ {TextCursor} \subseteq schema'
        /\ SchemaOf(seen[p] + 1) \ {TextCursor} \subseteq schema'
    BY <1>2, <2>1, StepAddsObjects DEF Migrate, Holds
  <2>3. version' = seen[p] + 1 /\ pc' = pc /\ seen' = [seen EXCEPT ![p] = seen[p] + 1]
        /\ pc[p] = "migrating"
    BY <1>2 DEF Migrate
  <2>4. ASSUME NEW q \in Openers, pc'[q] \in {"migrating", "open"}
        PROVE  SchemaOf(seen'[q]) \ {TextCursor} \subseteq schema'
    <3>1. CASE q = p
      BY <1>t, <2>2, <2>3, <3>1 DEF Typed
    <3>2. CASE q # p
      <4>1. seen'[q] = seen[q] /\ Holds(seen[q])
        BY <1>t, <2>3, <2>4, <3>2 DEF NoNumberTooLarge, Typed
      <4>2. QED BY <2>2, <4>1 DEF Holds
    <3>3. QED BY <3>1, <3>2
  <2>5. ASSUME NEW q \in Openers, pc'[q] = "open" PROVE seen'[q] = CURRENT_DATABASE_VERSION
    BY <1>t, <2>3, <2>5 DEF NoNumberTooLarge, Typed
  <2>6. SchemaOf(version') \ {TextCursor} \subseteq schema'
    BY <2>2, <2>3
  <2>7. QED BY <2>4, <2>5, <2>6 DEF NoNumberTooLarge, Holds
<1>3. ASSUME NEW p \in Openers, MigrateFails(p) \/ Opened(p) \/ Crash(p)
      PROVE  NoNumberTooLarge'
  BY <1>3, <1>t DEF MigrateFails, Opened, Crash, NoNumberTooLarge, Holds, Typed
<1>4. ASSUME NEW e \in Events,
             (\E v \in Releases : EarlierRelease(v, e)) \/ (\E p \in Openers : Append(p, e))
      PROVE  NoNumberTooLarge'
  BY <1>4, <1>t DEF Append, EarlierRelease, NoNumberTooLarge, Holds
<1>5. CASE UNCHANGED vars
  BY <1>5, <1>t DEF vars, NoNumberTooLarge, Holds, OpenInvariant
<1>6. QED BY <1>t, <1>1, <1>2, <1>3, <1>4, <1>5 DEF Next, OpenInvariant

(* Whoever has opened the file, after however many migrations at the same  *)
(* time, cut short at whatever step, finds every table, column, index and  *)
(* trigger that the statements of this release name.                       *)
OpenedFindsSchema ==
  \A p \in Openers : pc[p] = "open" => SchemaOf(CURRENT_DATABASE_VERSION) \subseteq schema

(* open returns only on a file that has the whole schema of this release,  *)
(* for any number of processes, also while migrations overlap.             *)
THEOREM OpenedAlwaysFindsSchema == Spec => []OpenedFindsSchema
<1>1. OpenInvariant => OpenedFindsSchema
  <2>1. TextCursor \notin SchemaOf(CURRENT_DATABASE_VERSION)
    BY DEF CURRENT_DATABASE_VERSION, SchemaOf, TextCursor, Tables, Scopes, ObservedKey,
           KeyCursor, KeyRequired
  <2>2. QED BY <2>1 DEF OpenInvariant, NoNumberTooLarge, Holds, OpenedFindsSchema
<1>2. QED BY <1>1, OpenInit, OpenStep, PTL DEF Spec

-----------------------------------------------------------------------------
(* The scopes of the locations.                                            *)

(* Once the column location.scope_id exists, every location has the scope  *)
(* of the event that made it: the UPDATE of version 2 runs in the          *)
(* transaction that adds the column, and never again.                      *)
ScopesComplete ==
  "location.scope_id" \in schema => \A e \in DOMAIN rows \cap Files : rows[e].scope = ScopeOf[e]

(* What a step does to the scope of an event's location.                   *)
LEMMA RowsAfterScope ==
  ASSUME Typed, NEW step \in 1 .. 4, NEW e \in DOMAIN rows
  PROVE  RowsAfter(step)[e].scope =
           IF step = 2 THEN IF e \in Files THEN ScopeOf[e] ELSE None ELSE rows[e].scope
<1>1. rows[e] \in RowType
  BY DEF Typed
<1>2. QED BY <1>1 DEF RowsAfter, RowType

LEMMA ScopesStep ==
  ASSUME 1 \notin Releases, OpenInvariant, ScopesComplete, [Next]_vars
  PROVE  ScopesComplete'
<1>t. Typed
  BY DEF OpenInvariant
<1>1. ASSUME NEW p \in Openers, Migrate(p) PROVE ScopesComplete'
  <2> DEFINE step == seen[p] + 1
  <2>1. step \in 1 .. 4 /\ schema' = SchemaAfter(step) /\ rows' = RowsAfter(step)
    BY <1>1, <1>t DEF Migrate, Typed, CURRENT_DATABASE_VERSION
  <2> HIDE DEF step
  <2>2. "location.scope_id" \in schema' => "location.scope_id" \in schema \/ step = 2
    BY <2>1 DEF SchemaAfter, Tables, Scopes, TextCursor, ObservedKey, KeyCursor, KeyRequired
  <2>3. DOMAIN rows' = DOMAIN rows
    BY <1>t, <2>1, RowsAfterShape
  <2>4. QED BY <1>t, <2>1, <2>2, <2>3, RowsAfterScope DEF ScopesComplete
<1>2. ASSUME NEW p \in Openers, Open(p) \/ MigrateFails(p) \/ Opened(p) \/ Crash(p)
      PROVE  ScopesComplete'
  BY <1>2 DEF Open, MigrateFails, Opened, Crash, ScopesComplete
<1>3. ASSUME NEW p \in Openers, NEW e \in Events, Append(p, e) PROVE ScopesComplete'
  <2>1. RowAt(4, e) \in RowType /\ (e \in Files => RowAt(4, e).scope = ScopeOf[e])
    BY RowAtType DEF RowAt
  <2>2. QED BY <1>3, <1>t, <2>1, StoreShape DEF Append, ScopesComplete, CURRENT_DATABASE_VERSION
<1>4. ASSUME NEW v \in Releases, NEW e \in Events, EarlierRelease(v, e) PROVE ScopesComplete'
  <2>1. PICK row \in RowType : Store(e, row) /\ (e \in Files => row.scope = ScopeOf[e])
    BY <1>4, EarlierRow
  <2>2. QED BY <1>4, <1>t, <2>1, StoreShape DEF EarlierRelease, ScopesComplete
<1>5. CASE UNCHANGED vars
  BY <1>5 DEF vars, ScopesComplete
<1>6. QED BY <1>1, <1>2, <1>3, <1>4, <1>5 DEF Next

(* As long as no process of version 1 still has the file open, no location *)
(* is left without its scope, or with another one's, by migrations that    *)
(* overlap or are cut short while releases of versions 2 and 3 write: it   *)
(* is by its scope that a scan finds a location again.  One that a process *)
(* of version 1 writes after the column was added gets the default, and no *)
(* scan finds it.                                                          *)
THEOREM LocationsAlwaysScoped ==
  ASSUME 1 \notin Releases
  PROVE  Spec => []ScopesComplete
<1>1. Init => ScopesComplete
  <2> SUFFICES ASSUME Init PROVE ScopesComplete
    OBVIOUS
  <2>1. version \in 0 .. 5 /\ schema = SchemaOf(version)
    BY TypedInit DEF Init, Typed, CURRENT_DATABASE_VERSION
  <2>2. "location.scope_id" \in schema => version >= 2
    BY <2>1 DEF SchemaOf, Tables
  <2>3. QED BY <2>1, <2>2 DEF Init, RowAt, ScopesComplete
<1>2. QED BY <1>1, OpenInit, OpenStep, ScopesStep, PTL DEF Spec
=============================================================================
