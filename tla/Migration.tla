------------------------------ MODULE Migration ------------------------------
(***************************************************************************)
(* Opening the database: SqliteRepository::open, migrate and               *)
(* backfill_observed_keys.  The version is read outside a transaction;     *)
(* every schema step and its new user_version are one transaction, and     *)
(* each may be the last thing a process does.  Several processes open one  *)
(* file: the agent, a second agent, a command such as --serve-once.        *)
(*                                                                         *)
(* A transaction of SQLite is one step here.  It takes place at its        *)
(* commit, or the process meets a lock or a newer snapshot, gives up with  *)
(* an error and leaves nothing behind.                                     *)
(***************************************************************************)
EXTENDS Integers, FiniteSets

CONSTANTS
  Openers,       \* processes that open the file
  Events,        \* raw events
  Files,         \* the events that also made a row of location
  Local,         \* an event's observed_at as written, clock reading
  Offset,        \* and its distance from UTC
  ScopeOf,       \* the scope_id column of an event
  Unscoped,      \* the DEFAULT '' of the scope_id of a location
  Releases,      \* versions of earlier releases that still have the file open
  StartVersions, \* user_version of the file found at first
  MaxCrashes,
  None           \* SQL NULL, or a column that does not exist

ASSUME FilesAssumption == Files \subseteq Events /\ None \notin Int
ASSUME TimesAssumption == Local \in [Events -> Int] /\ Offset \in [Events -> Int]
ASSUME ScopesAssumption == \A e \in Events : ScopeOf[e] \notin {Unscoped, None}
ASSUME ReleasesAssumption == Releases \subseteq 1 .. 3

CURRENT_DATABASE_VERSION == 4

ASSUME StartAssumption ==
  StartVersions \subseteq 0 .. CURRENT_DATABASE_VERSION + 1 /\ MaxCrashes \in Nat

VARIABLES
  version,  \* PRAGMA user_version
  schema,   \* the tables, columns, indexes and triggers there are
  rows,     \* stored event -> its observed_key and its location's scope_id
  pc,       \* per process: closed, migrating, open or failed
  seen,     \* per process: the local variable version of migrate
  alone,    \* no process is started while another one is migrating
  crashes

vars == <<version, schema, rows, pc, seen, alone, crashes>>

(***************************************************************************)
(* The schema                                                              *)
(***************************************************************************)
Tables == {"raw_event", "task", "artifact", "location", "pending_download", "edge",
           "collector_gap"}
Scopes == {"location.scope_id", "collector_checkpoint"}
TextCursor == "raw_event_scope_observed_cursor"
ObservedKey == "raw_event.observed_key"
KeyCursor == "raw_event_scope_observed_key_cursor"
KeyRequired == "raw_event_observed_key_required"
Later == "objects of a newer version"

(* What a file of each version holds.                                      *)
SchemaOf(v) ==
  CASE v = 0 -> {}
    [] v = 1 -> Tables
    [] v = 2 -> Tables \cup Scopes
    [] v = 3 -> Tables \cup Scopes \cup {TextCursor}
    [] v = 4 -> Tables \cup Scopes \cup {ObservedKey, KeyCursor, KeyRequired}
    [] OTHER -> Tables \cup Scopes \cup {ObservedKey, KeyCursor, KeyRequired, Later}

(* The fixed-width UTC text: it sorts as the instant does.                 *)
FormatSortKey(e) == Local[e] - Offset[e]

(* The two columns that a migration adds, for an event stored at v.        *)
RowAt(v, e) ==
  [key   |-> IF v >= 4 THEN FormatSortKey(e) ELSE None,
   scope |-> IF v >= 2 /\ e \in Files THEN ScopeOf[e] ELSE None]

(***************************************************************************)
(* The statements of the four steps.  A CREATE ... IF NOT EXISTS of what   *)
(* is there does nothing; ALTER TABLE ... ADD COLUMN of a column that is   *)
(* there, and a plain CREATE TABLE of such a table, are errors.            *)
(***************************************************************************)
Succeeds(step) ==
  CASE step = 2 -> Scopes \cap schema = {}
    [] step = 4 -> ObservedKey \notin schema
    [] OTHER -> TRUE

(* Mutant: version 4 without the trigger.                                  *)
SchemaAfter_NoTrigger(step) ==
  CASE step = 1 -> schema \cup Tables
    [] step = 2 -> schema \cup Scopes
    [] step = 3 -> schema \cup {TextCursor}
    [] step = 4 -> (schema \ {TextCursor}) \cup {ObservedKey, KeyCursor}

(* Mutant: version 4 keeps the index over observed_at.                     *)
SchemaAfter_KeepsIndex(step) ==
  CASE step = 1 -> schema \cup Tables
    [] step = 2 -> schema \cup Scopes
    [] step = 3 -> schema \cup {TextCursor}
    [] step = 4 -> schema \cup {ObservedKey, KeyCursor, KeyRequired}

SchemaAfter(step) ==
  CASE step = 1 -> schema \cup Tables
    [] step = 2 -> schema \cup Scopes
    [] step = 3 -> schema \cup {TextCursor}
    [] step = 4 -> (schema \ {TextCursor}) \cup {ObservedKey, KeyCursor, KeyRequired}

(* UPDATE location of version 2; backfill_observed_keys of version 4.      *)
RowsAfter(step) ==
  [e \in DOMAIN rows |->
    CASE step = 2 -> [rows[e] EXCEPT !.scope = IF e \in Files THEN ScopeOf[e] ELSE None]
      [] step = 4 -> [rows[e] EXCEPT !.key = IF @ = None THEN FormatSortKey(e) ELSE @]
      [] OTHER -> rows[e]]

(***************************************************************************)
(* The processes                                                           *)
(***************************************************************************)
Init ==
  /\ version \in StartVersions
  /\ schema = SchemaOf(version)
  /\ \E stored \in SUBSET (IF version = 0 THEN {} ELSE Events) :
       rows = [e \in stored |-> RowAt(version, e)]
  /\ pc = [p \in Openers |-> "closed"]
  /\ seen = [p \in Openers |-> 0]
  /\ alone \in BOOLEAN
  /\ crashes = 0

Migrating == {p \in Openers : pc[p] = "migrating"}

(* Connection::open and the read of user_version.                          *)
Open(p) ==
  /\ pc[p] \in {"closed", "failed"}
  /\ alone => Migrating = {}
  /\ IF version > CURRENT_DATABASE_VERSION
     THEN /\ pc' = [pc EXCEPT ![p] = "failed"]
          /\ UNCHANGED seen
     ELSE /\ pc' = [pc EXCEPT ![p] = "migrating"]
          /\ seen' = [seen EXCEPT ![p] = version]
  /\ UNCHANGED <<version, schema, rows, alone, crashes>>

(* Mutant: the version is written after the schema was committed, and the  *)
(* process dies in between.                                                *)
Migrate_NotAtomic(p) ==
  LET step == seen[p] + 1 IN
  /\ pc[p] = "migrating"
  /\ seen[p] < CURRENT_DATABASE_VERSION
  /\ Succeeds(step)
  /\ schema' = SchemaAfter(step)
  /\ rows' = RowsAfter(step)
  /\ UNCHANGED alone
  /\ \/ /\ version' = step
        /\ seen' = [seen EXCEPT ![p] = step]
        /\ UNCHANGED <<pc, crashes>>
     \/ /\ crashes < MaxCrashes
        /\ crashes' = crashes + 1
        /\ pc' = [pc EXCEPT ![p] = "closed"]
        /\ UNCHANGED <<version, seen>>

(* One version: the statements, the backfill and the new user_version.     *)
Migrate(p) ==
  LET step == seen[p] + 1 IN
  /\ pc[p] = "migrating"
  /\ seen[p] < CURRENT_DATABASE_VERSION
  /\ Succeeds(step)
  /\ version' = step
  /\ schema' = SchemaAfter(step)
  /\ rows' = RowsAfter(step)
  /\ seen' = [seen EXCEPT ![p] = step]
  /\ UNCHANGED <<pc, alone, crashes>>

(* A statement is an error, or another process holds the lock or commits   *)
(* between the snapshot of the transaction and its first write.            *)
MigrateFails(p) ==
  /\ pc[p] = "migrating"
  /\ seen[p] < CURRENT_DATABASE_VERSION
  /\ ~Succeeds(seen[p] + 1) \/ \E q \in Openers \ {p} : pc[q] \in {"migrating", "open"}
  /\ pc' = [pc EXCEPT ![p] = "failed"]
  /\ UNCHANGED <<version, schema, rows, seen, alone, crashes>>

Opened(p) ==
  /\ pc[p] = "migrating"
  /\ seen[p] = CURRENT_DATABASE_VERSION
  /\ pc' = [pc EXCEPT ![p] = "open"]
  /\ UNCHANGED <<version, schema, rows, seen, alone, crashes>>

Store(e, row) == rows' = [x \in DOMAIN rows \cup {e} |-> IF x = e THEN row ELSE rows[x]]

(* append_with_projection writes the key with the event.                   *)
Append(p, e) ==
  /\ pc[p] = "open"
  /\ e \notin DOMAIN rows
  /\ Store(e, RowAt(CURRENT_DATABASE_VERSION, e))
  /\ UNCHANGED <<version, schema, pc, seen, alone, crashes>>

(* External: a process of an earlier release, of version v, that still has *)
(* the file open.  It does not know the column of the key and is refused   *)
(* once the trigger is there; one of version 1 does not know the column of *)
(* the scope either, and its locations get the default.                    *)
EarlierRelease(v, e) ==
  /\ "raw_event" \in schema
  /\ v >= 2 => Scopes \subseteq schema
  /\ KeyRequired \notin schema
  /\ e \in Events \ DOMAIN rows
  /\ Store(e, IF v = 1 /\ e \in Files /\ "location.scope_id" \in schema
              THEN [RowAt(v, e) EXCEPT !.scope = Unscoped]
              ELSE RowAt(v, e))
  /\ UNCHANGED <<version, schema, pc, seen, alone, crashes>>

(* The process ends; an uncommitted step is rolled back.                   *)
Crash(p) ==
  /\ pc[p] \in {"migrating", "open"}
  /\ crashes < MaxCrashes
  /\ crashes' = crashes + 1
  /\ pc' = [pc EXCEPT ![p] = "closed"]
  /\ UNCHANGED <<version, schema, rows, seen, alone>>

Next ==
  \/ \E p \in Openers :
       \/ Open(p)
       \/ Migrate(p)
       \/ MigrateFails(p)
       \/ Opened(p)
       \/ \E e \in Events : Append(p, e)
       \/ Crash(p)
  \/ \E v \in Releases, e \in Events : EarlierRelease(v, e)

Spec == Init /\ [][Next]_vars

(* A process that is started runs to the end of migrate.                   *)
FairSpec ==
  Spec /\ \A p \in Openers : WF_vars(Migrate(p) \/ MigrateFails(p) \/ Opened(p))

(***************************************************************************)
(* Properties                                                              *)
(***************************************************************************)
(* The version written in the file is the version of its schema, after a   *)
(* crash between any two steps too, as long as processes migrate one at a  *)
(* time: migrate decides by the number alone which statements to run.      *)
VersionTellsSchema == alone => schema = SchemaOf(version)

(* docs/sortable-timeline-time.md: version 4 "backfills observed_key for   *)
(* every existing raw event", "a trigger rejects future inserts that omit  *)
(* it".  Whoever migrates and whoever writes at the same time, once the    *)
(* timeline can ask for the key every event has it, and it is the instant. *)
KeysComplete ==
  ObservedKey \in schema => \A e \in DOMAIN rows : rows[e].key = FormatSortKey(e)

(* A process that began to migrate opens the file, whatever the version it *)
(* found and wherever an earlier attempt was cut short.                    *)
Opens ==
  \A p \in Openers : (alone /\ pc[p] = "migrating") ~> (pc[p] \in {"open", "closed"})

(* README: "forward-only, version-checked SQLite schema migration".        *)
ForwardOnly == [][version' >= version]_version
=============================================================================
