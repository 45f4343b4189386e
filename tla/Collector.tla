------------------------------ MODULE Collector ------------------------------
(***************************************************************************)
(* The directory collector (apps/context-agent/src/collector.rs, driven by *)
(* the event loop of runtime.rs) between the disk and the store: a change  *)
(* buffer in the kernel that may overflow, a watcher thread that turns it  *)
(* into batches, one consumer that ingests them, and the scan that         *)
(* reconciles the store with the disk at startup and after an overflow.    *)
(*                                                                         *)
(* Of the store it keeps what this collector writes and reads back: the    *)
(* active location of every file identity (EventStore's OneActiveLocation  *)
(* makes that a function) and reconciliation_required.  Sequence numbers   *)
(* are EventStore's concern (CheckpointCoversLog).  Every ingest is a      *)
(* transaction of its own, so the process may die between any two.         *)
(*                                                                         *)
(* The disk and the kernel's buffer are external: modelled from how        *)
(* watcher.rs and reconcile.rs use them.  A file has one path (no hard     *)
(* links).  The watcher asks for records of directories too, and           *)
(* ingest_change stores them like those of files, while a scan reports     *)
(* files only: Folders are the directories that come, go and are renamed   *)
(* in the scope, Dirs the ones that stay and hold the paths.  What moves   *)
(* with the folder it is in is left out.                                   *)
(***************************************************************************)
EXTENDS Naturals, Sequences

CONSTANTS
  Files,        \* file identities, those of folders among them
  Folders,      \* the identities that are directories
  Paths,
  Dirs,         \* directories of the scope
  DirOf,        \* DirOf[p]: the directory p is in
  BufferSize,   \* change records the kernel holds between two reads
  MaxChanges,   \* bound: changes to the disk and to what is readable
  MaxCrashes,   \* bound: deaths of the process
  QuietStartup, \* whether the disk is still from the startup scan to arming
  None

ASSUME FoldersAssumption == Folders \subseteq Files
ASSUME DirOfAssumption == DirOf \in [Paths -> Dirs]
ASSUME NonePathAssumption == None \notin Paths
ASSUME NamesAssumption == Paths \cap Dirs = {}
ASSUME BufferSizeAssumption == BufferSize \in Nat
ASSUME BoundsAssumption == MaxChanges \in Nat /\ MaxCrashes \in Nat
ASSUME QuietStartupAssumption == QuietStartup \in BOOLEAN

VARIABLES
  disk,       \* where each file is, or None
  denied,     \* directories that cannot be listed, files that cannot be opened
  armed,      \* the directory handle has an outstanding or earlier read
  buffer,     \* change records held by the kernel
  overflow,   \* the kernel dropped records since the last read
  queue,      \* batches sent by the watcher thread, not yet taken
  phase,      \* "down", "scan", "apply", "arm" or "loop"
  startup,    \* this reconciliation is the one at startup
  batch,      \* changes of the batch being ingested
  scan,       \* progress of a reconciliation
  active,     \* the store: the active location of each file, or None
  required,   \* the store: reconciliation_required
  changes,    \* changes made so far
  crashes     \* crashes so far

diskVars == <<disk, denied, changes>>
kernelVars == <<armed, buffer, overflow>>
storeVars == <<active, required>>
vars == <<disk, denied, armed, buffer, overflow, queue, phase, startup, batch, scan,
          active, required, changes, crashes>>

Present == {"Added", "Modified", "RenamedTo"}
Gone == {"Removed", "RenamedFrom"}
Change == [action : Present \cup Gone, file : Files, path : Paths]

NoScan ==
  [todo |-> {}, listed |-> {}, seen |-> {}, issues |-> {}, insert |-> {}, delete |-> {}]
NewScan == [NoScan EXCEPT !.todo = Dirs]

Init ==
  /\ disk = [f \in Files |-> None]
  /\ denied = {}
  /\ armed = FALSE
  /\ buffer = <<>>
  /\ overflow = FALSE
  /\ queue = <<>>
  /\ phase = "down"
  /\ startup = FALSE
  /\ batch = <<>>
  /\ scan = NoScan
  /\ active = [f \in Files |-> None]
  /\ required = FALSE
  /\ changes = 0
  /\ crashes = 0

-----------------------------------------------------------------------------
(* The disk.  The kernel records a change if the handle has been read at   *)
(* least once; when the records do not fit, it drops all it holds and the  *)
(* next read returns zero bytes.                                           *)

Free(p) == \A f \in Files : disk[f] # p

Record(records) ==
  IF ~armed THEN UNCHANGED <<buffer, overflow>>
  ELSE IF overflow \/ Len(buffer) + Len(records) > BufferSize
  THEN buffer' = <<>> /\ overflow' = TRUE
  ELSE buffer' = buffer \o records /\ UNCHANGED overflow

DiskMayChange ==
  /\ changes < MaxChanges
  /\ changes' = changes + 1
  /\ QuietStartup => armed \/ phase = "down"
  /\ UNCHANGED <<armed, queue, phase, startup, batch, scan, storeVars, crashes>>

Rec(action, f, p) == [action |-> action, file |-> f, path |-> p]

Create(f, p) ==
  /\ DiskMayChange
  /\ disk[f] = None
  /\ Free(p)
  /\ disk' = [disk EXCEPT ![f] = p]
  /\ Record(<<Rec("Added", f, p)>>)
  /\ UNCHANGED denied

Write(f) ==
  /\ DiskMayChange
  /\ disk[f] # None
  /\ Record(<<Rec("Modified", f, disk[f])>>)
  /\ UNCHANGED <<disk, denied>>

Rename(f, p) ==
  /\ DiskMayChange
  /\ disk[f] # None
  /\ Free(p)
  /\ disk' = [disk EXCEPT ![f] = p]
  /\ Record(<<Rec("RenamedFrom", f, disk[f]), Rec("RenamedTo", f, p)>>)
  /\ UNCHANGED denied

Remove(f) ==
  /\ DiskMayChange
  /\ disk[f] # None
  /\ disk' = [disk EXCEPT ![f] = None]
  /\ Record(<<Rec("Removed", f, disk[f])>>)
  /\ UNCHANGED denied

(* A directory or a file becomes unreadable, or readable again.            *)
SetAccess(x) ==
  /\ DiskMayChange
  /\ denied' = IF x \in denied THEN denied \ {x} ELSE denied \cup {x}
  /\ UNCHANGED <<disk, buffer, overflow>>

-----------------------------------------------------------------------------
(* Reconciliation: scan_scope, then the differences, then the flag.        *)

(* CollectorState::open and the first step of run.                         *)
Open ==
  /\ phase = "down"
  /\ phase' = "scan"
  /\ startup' = TRUE
  /\ scan' = NewScan
  /\ UNCHANGED <<diskVars, kernelVars, queue, batch, storeVars, crashes>>

(* scan_scope takes one directory at a time.  One that cannot be listed is *)
(* an issue; the rest of the scope goes on.                                *)
ListDirectory(d) ==
  /\ phase = "scan"
  /\ scan.listed = {}
  /\ d \in scan.todo
  /\ scan' =
       IF d \in denied
       THEN [scan EXCEPT !.todo = @ \ {d}, !.issues = @ \cup {d}]
       ELSE [scan EXCEPT !.todo = @ \ {d},
                         !.listed = {loc \in Files \X Paths :
                                       disk[loc[1]] = loc[2] /\ DirOf[loc[2]] = d}]
  /\ UNCHANGED <<diskVars, kernelVars, queue, phase, startup, batch, storeVars, crashes>>

At(p) == {f \in Files : disk[f] = p}

(* One entry of the listing, which says whether it is a folder.  What has  *)
(* gone meanwhile, cannot be opened or is not what was listed is an issue; *)
(* of a folder nothing is reported; a file is reported as what is there    *)
(* now.                                                                    *)
InspectEntry(loc) ==
  LET p == loc[2]
      sound ==
        /\ p \notin denied
        /\ At(p) # {}
        /\ \A f \in At(p) : f \in Folders <=> loc[1] \in Folders
  IN /\ phase = "scan"
     /\ loc \in scan.listed
     /\ scan' =
          IF sound
          THEN [scan EXCEPT !.listed = @ \ {loc},
                            !.seen = @ \cup ((At(p) \ Folders) \X {p})]
          ELSE [scan EXCEPT !.listed = @ \ {loc}, !.issues = @ \cup {p}]
     /\ UNCHANGED <<diskVars, kernelVars, queue, phase, startup, batch, storeVars, crashes>>

(* Mutant: only the unreadable path itself is spared, not what is below.   *)
UnderIssue_ExactPath(p) == p \in scan.issues

(* path_is_under_issue                                                     *)
UnderIssue(p) == p \in scan.issues \/ DirOf[p] \in scan.issues

ActiveLocations == {<<f, active[f]>> : f \in {g \in Files : active[g] # None}}

(* Mutant: what the scan did not find is left alone.                       *)
Compare_KeepsMissing ==
  /\ phase = "scan"
  /\ scan.todo = {}
  /\ scan.listed = {}
  /\ phase' = "apply"
  /\ scan' = [scan EXCEPT !.insert = scan.seen \ ActiveLocations]
  /\ UNCHANGED <<diskVars, kernelVars, queue, startup, batch, storeVars, crashes>>

(* The active locations are read once, after the scan; files found         *)
(* elsewhere are ingested, then locations not found are closed.            *)
Compare ==
  /\ phase = "scan"
  /\ scan.todo = {}
  /\ scan.listed = {}
  /\ phase' = "apply"
  /\ scan' = [scan EXCEPT
       !.insert = scan.seen \ ActiveLocations,
       !.delete = {loc \in ActiveLocations : loc \notin scan.seen /\ ~UnderIssue(loc[2])}]
  /\ UNCHANGED <<diskVars, kernelVars, queue, startup, batch, storeVars, crashes>>

(* Mutant: the directory of the change is taken for its path.              *)
Observed_Parent(f, p) == [active EXCEPT ![f] = DirOf[p]]

(* What one FileObserved event makes of the active locations.              *)
Observed(f, p) == [active EXCEPT ![f] = p]

(* A deletion closes only the location it names.                           *)
Deleted(f, p) == [active EXCEPT ![f] = IF @ = p THEN None ELSE @]

ApplyInsert(loc) ==
  /\ phase = "apply"
  /\ loc \in scan.insert
  /\ active' = Observed(loc[1], loc[2])
  /\ scan' = [scan EXCEPT !.insert = @ \ {loc}]
  /\ UNCHANGED <<diskVars, kernelVars, queue, phase, startup, batch, required, crashes>>

ApplyDelete(loc) ==
  /\ phase = "apply"
  /\ scan.insert = {}
  /\ loc \in scan.delete
  /\ active' = Deleted(loc[1], loc[2])
  /\ scan' = [scan EXCEPT !.delete = @ \ {loc}]
  /\ UNCHANGED <<diskVars, kernelVars, queue, phase, startup, batch, required, crashes>>

(* Every issue records a gap; a clean scan clears the flag.                *)
FinishReconcile ==
  /\ phase = "apply"
  /\ scan.insert = {}
  /\ scan.delete = {}
  /\ required' = (scan.issues # {})
  /\ phase' = IF startup THEN "arm" ELSE "loop"
  /\ startup' = FALSE
  /\ scan' = NoScan
  /\ UNCHANGED <<diskVars, kernelVars, queue, batch, active, crashes>>

(* DirectoryWatcher::open and the thread's first read_next.                *)
Arm ==
  /\ phase = "arm"
  /\ phase' = "loop"
  /\ armed' = TRUE
  /\ UNCHANGED <<diskVars, buffer, overflow, queue, startup, batch, scan, storeVars, crashes>>

-----------------------------------------------------------------------------
(* The watcher thread: read_next returns what the kernel holds.            *)
(* Mutant: zero bytes are taken for an empty batch.                        *)
ReadNext_ZeroIsEmpty ==
  /\ armed
  /\ overflow \/ buffer # <<>>
  /\ queue' = Append(queue, [gap |-> FALSE, changes |-> buffer])
  /\ buffer' = <<>>
  /\ overflow' = FALSE
  /\ UNCHANGED <<diskVars, armed, phase, startup, batch, scan, storeVars, crashes>>

ReadNext ==
  /\ armed
  /\ overflow \/ buffer # <<>>
  /\ queue' = Append(queue, [gap |-> overflow, changes |-> buffer])
  /\ buffer' = <<>>
  /\ overflow' = FALSE
  /\ UNCHANGED <<diskVars, armed, phase, startup, batch, scan, storeVars, crashes>>

(* The event loop takes a batch.  A gap is recorded before its changes and *)
(* followed by a reconciliation.                                           *)
TakeBatch ==
  /\ phase = "loop"
  /\ batch = <<>>
  /\ queue # <<>>
  /\ queue' = Tail(queue)
  /\ \/ /\ Head(queue).gap
        /\ required' = TRUE
        /\ phase' = "scan"
        /\ scan' = NewScan
        /\ UNCHANGED batch
     \/ /\ ~Head(queue).gap
        /\ batch' = Head(queue).changes
        /\ UNCHANGED <<required, phase, scan>>
  /\ UNCHANGED <<diskVars, kernelVars, startup, active, crashes>>

(* ingest_change, one transaction per change of the batch.                 *)
IngestChange ==
  LET c == Head(batch)
  IN /\ phase = "loop"
     /\ batch # <<>>
     /\ batch' = Tail(batch)
     /\ active' = IF c.action \in Gone THEN Deleted(c.file, c.path) ELSE Observed(c.file, c.path)
     /\ UNCHANGED <<diskVars, kernelVars, queue, phase, startup, scan, required, crashes>>

(* The process dies: the store stays, what was in memory or in the kernel  *)
(* for this handle is gone.                                                *)
Crash ==
  /\ phase # "down"
  /\ crashes < MaxCrashes
  /\ crashes' = crashes + 1
  /\ phase' = "down"
  /\ startup' = FALSE
  /\ armed' = FALSE
  /\ buffer' = <<>>
  /\ overflow' = FALSE
  /\ queue' = <<>>
  /\ batch' = <<>>
  /\ scan' = NoScan
  /\ UNCHANGED <<diskVars, storeVars>>

Environment ==
  \/ \E f \in Files, p \in Paths : Create(f, p) \/ Rename(f, p)
  \/ \E f \in Files : Write(f) \/ Remove(f)
  \/ \E x \in Dirs \cup Paths : SetAccess(x)
  \/ Crash

Reconcile ==
  \/ \E d \in Dirs : ListDirectory(d)
  \/ \E loc \in Files \X Paths : InspectEntry(loc)
  \/ Compare
  \/ \E loc \in Files \X Paths : ApplyInsert(loc) \/ ApplyDelete(loc)
  \/ FinishReconcile

Agent == Open \/ Reconcile \/ Arm \/ TakeBatch \/ IngestChange

Next == Environment \/ Agent \/ ReadNext

(* The agent is started again after it dies, its loop and its watcher      *)
(* thread keep running.                                                    *)
Fairness == WF_vars(Agent) /\ WF_vars(ReadNext)

Spec == Init /\ [][Next]_vars
FairSpec == Spec /\ Fairness

-----------------------------------------------------------------------------
(* Every variable keeps its shape.                                         *)
TypeOK ==
  /\ disk \in [Files -> Paths \cup {None}]
  /\ denied \in SUBSET (Dirs \cup Paths)
  /\ armed \in BOOLEAN
  /\ buffer \in Seq(Change)
  /\ overflow \in BOOLEAN
  /\ queue \in Seq([gap : BOOLEAN, changes : Seq(Change)])
  /\ phase \in {"down", "scan", "apply", "arm", "loop"}
  /\ startup \in BOOLEAN
  /\ batch \in Seq(Change)
  /\ scan \in [todo : SUBSET Dirs, listed : SUBSET (Files \X Paths),
               seen : SUBSET (Files \X Paths), issues : SUBSET (Dirs \cup Paths),
               insert : SUBSET (Files \X Paths), delete : SUBSET (Files \X Paths)]
  /\ active \in [Files -> Paths \cup {None}]
  /\ required \in BOOLEAN
  /\ changes \in Nat
  /\ crashes \in Nat

(* Nothing the disk did is still on its way to the store.                  *)
Quiescent ==
  /\ phase = "loop"
  /\ batch = <<>>
  /\ queue = <<>>
  /\ buffer = <<>>
  /\ ~overflow

(* The store has every file where it is on the disk.  A folder it has in   *)
(* its place or not at all: a record stores it, a scan closes it, and one  *)
(* made while nobody watched is never stored.                              *)
Agrees ==
  \A f \in Files : active[f] = disk[f] \/ (f \in Folders /\ active[f] = None)

(* ADR 0005, "Restart and buffer overflow converge through the same tested *)
(* path": a collector at rest whose flag is clear has the store agree with *)
(* the disk, whatever moved while it scanned, overflowed or was down.      *)
RestMeansConverged == Quiescent /\ ~required => Agrees

(* The changes of a file that are on their way.                            *)
InFlight(f) ==
  \/ overflow
  \/ \E i \in DOMAIN buffer : buffer[i].file = f
  \/ \E i \in DOMAIN batch : batch[i].file = f
  \/ \E i \in DOMAIN queue :
       queue[i].gap \/ \E j \in DOMAIN queue[i].changes : queue[i].changes[j].file = f

(* ADR 0005, "never marks paths below an unreadable subtree as deleted",   *)
(* and more: a location of a file that is right, with nothing on its way   *)
(* about that file, is not touched, not by a scan that could not look      *)
(* there and not by one that is finishing with what it saw earlier.        *)
RightLocationsStay ==
  [][ \A f \in Files \ Folders :
        active[f] = disk[f] /\ disk'[f] = disk[f] /\ ~InFlight(f)
          => active'[f] = active[f] ]_vars

(* Once the disk is still the store agrees with it, or the flag says that  *)
(* it may not.                                                             *)
Converges == <>[](Agrees \/ required)
=============================================================================
