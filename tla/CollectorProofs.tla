-------------------------- MODULE CollectorProofs --------------------------
(***************************************************************************)
(* Proofs about Collector for any files, paths and directories, any buffer *)
(* and any number of changes and crashes.                                  *)
(*                                                                         *)
(* A record of the kernel travels through the buffer, the queue and the    *)
(* batch.  Seen from the store these are lanes of one road: lane 0 is the  *)
(* batch being ingested, the lanes after it are the batches of the queue   *)
(* and the last one is the buffer.  What counts of the road is what lies   *)
(* behind its last gap (Track): the scan that the gap causes makes up for  *)
(* the rest.                                                               *)
(***************************************************************************)
EXTENDS Collector, TLAPS

Lanes == Len(queue) + 1

Lane(i) ==
  IF i = 0 THEN batch ELSE IF i <= Len(queue) THEN queue[i].changes ELSE buffer

Gap(i) == i # 0 /\ IF i <= Len(queue) THEN queue[i].gap ELSE overflow

(* No reconciliation is on its way.                                        *)
Gapless == \A k \in 0 .. Lanes : ~Gap(k)

Step == [lane : Nat, nth : Nat, change : Change]

(* The records that no later scan makes up for, with their places.         *)
Track ==
  {x \in Step :
     /\ x.lane <= Lanes
     /\ x.nth \in DOMAIN Lane(x.lane)
     /\ x.change = Lane(x.lane)[x.nth]
     /\ \A k \in x.lane .. Lanes : ~Gap(k)}

Before(x, y) == x.lane < y.lane \/ (x.lane = y.lane /\ x.nth < y.nth)

About(S, f) == {x \in S : x.change.file = f}

(* The last record about a file says where it is on the disk d.            *)
LastSays(S, d) ==
  \A x \in S :
    (\A y \in About(S, x.change.file) : ~Before(x, y)) =>
      d[x.change.file] = IF x.change.action \in Gone THEN None ELSE x.change.path

(* A file leaves a path only after it has been there.                      *)
Chained(S) ==
  \A x \in S : \A y \in About(S, x.change.file) :
    /\ Before(x, y)
    /\ y.change.action \in Gone
    /\ \A z \in About(S, x.change.file) : ~(Before(x, z) /\ Before(z, y))
    => x.change.action \in Present /\ x.change.path = y.change.path

(* A store that has f at v and then takes the records of S has f where the *)
(* disk d has it, or nowhere if f is a folder.                             *)
Resolves(S, d, f, v) ==
  /\ About(S, f) = {} => v = d[f] \/ (f \in Folders /\ v = None)
  /\ \A x \in About(S, f) :
       About(S, f) = {x} /\ x.change.action \in Gone => v \in {x.change.path, None}

(* Which phases go with which variables.                                   *)
Phases ==
  /\ ~armed => buffer = <<>> /\ ~overflow /\ queue = <<>>
  /\ armed => phase # "down"
  /\ phase = "loop" => armed
  /\ phase \in {"scan", "apply"} => startup \/ armed
  /\ phase # "loop" => batch = <<>>
  /\ overflow => buffer = <<>>
  /\ \A i \in DOMAIN queue : queue[i].gap => queue[i].changes = <<>>

Road == LastSays(Track, disk) /\ Chained(Track)

(* What the scan has seen is where a file is, or was when later changes    *)
(* were recorded; what it has not seen is still to be listed or inspected, *)
(* an issue or a folder.                                                   *)
Scanned ==
  phase = "scan" /\ Gapless =>
    /\ \A loc \in scan.seen : Resolves(Track, disk, loc[1], loc[2])
    /\ \A f \in Files :
         \/ About(Track, f) # {}
         \/ disk[f] = None
         \/ DirOf[disk[f]] \in scan.todo
         \/ \E loc \in scan.listed : loc[2] = disk[f]
         \/ f \in Folders
         \/ <<f, disk[f]>> \in scan.seen
         \/ UnderIssue(disk[f])

(* What is left to insert is right, what is left to delete is wrong, and a *)
(* scan without issues leaves nothing else to correct.                     *)
Compared ==
  phase = "apply" /\ Gapless =>
    /\ \A loc \in scan.insert : Resolves(Track, disk, loc[1], loc[2])
    /\ \A loc \in scan.delete :
         About(Track, loc[1]) # {} \/ disk[loc[1]] # loc[2] \/ loc[1] \in Folders
    /\ scan.issues = {} =>
         \A f \in Files :
           \/ \E loc \in scan.insert : loc[1] = f
           \/ Resolves(Track, disk, f, active[f])
           \/ <<f, active[f]>> \in scan.delete /\ Resolves(Track, disk, f, None)

(* The store and the records on their way amount to the disk.              *)
Follows ==
  phase \in {"arm", "loop"} /\ Gapless /\ ~required =>
    \A f \in Files : Resolves(Track, disk, f, active[f])

Promises == Scanned /\ Compared /\ Follows

IInv == Phases /\ Road /\ Promises

-----------------------------------------------------------------------------
(* Types.                                                                  *)

Batch == [gap : BOOLEAN, changes : Seq(Change)]

ScanType ==
  [todo : SUBSET Dirs, listed : SUBSET (Files \X Paths), seen : SUBSET (Files \X Paths),
   issues : SUBSET (Dirs \cup Paths),
   insert : SUBSET (Files \X Paths), delete : SUBSET (Files \X Paths)]

LEMMA RecType ==
  ASSUME NEW a \in Present \cup Gone, NEW f \in Files, NEW p \in Paths
  PROVE  Rec(a, f, p) \in Change
BY DEF Rec, Change

LEMMA RecordType ==
  ASSUME TypeOK, NEW r \in Seq(Change), Record(r)
  PROVE  buffer' \in Seq(Change) /\ overflow' \in BOOLEAN
<1>0. buffer \in Seq(Change) /\ overflow \in BOOLEAN /\ <<>> \in Seq(Change)
  BY DEF TypeOK
<1>1. buffer \o r \in Seq(Change)
  BY <1>0
<1>2. QED
  BY <1>0, <1>1, Zenon DEF Record

LEMMA ScanTypes ==
  /\ NoScan \in ScanType
  /\ NewScan \in ScanType
BY DEF NoScan, NewScan, ScanType

LEMMA EnvironmentType ==
  ASSUME TypeOK, Environment
  PROVE  TypeOK'
<1>1. ASSUME NEW f \in Files, NEW p \in Paths, Create(f, p)
      PROVE  TypeOK'
  <2>1. Rec("Added", f, p) \in Change
    BY RecType DEF Present
  <2>2. <<Rec("Added", f, p)>> \in Seq(Change)
    BY <2>1
  <2>3. buffer' \in Seq(Change) /\ overflow' \in BOOLEAN
    BY <1>1, <2>2, RecordType DEF Create
  <2>4. QED
    BY <1>1, <2>3 DEF Create, DiskMayChange, TypeOK, storeVars
<1>2. ASSUME NEW f \in Files, NEW p \in Paths, Rename(f, p)
      PROVE  TypeOK'
  <2>0. disk[f] \in Paths
    BY <1>2 DEF Rename, TypeOK
  <2>1. Rec("RenamedFrom", f, disk[f]) \in Change /\ Rec("RenamedTo", f, p) \in Change
    BY <2>0, RecType DEF Present, Gone
  <2>2. <<Rec("RenamedFrom", f, disk[f]), Rec("RenamedTo", f, p)>> \in Seq(Change)
    BY <2>1
  <2>3. buffer' \in Seq(Change) /\ overflow' \in BOOLEAN
    BY <1>2, <2>2, RecordType DEF Rename
  <2>4. QED
    BY <1>2, <2>3 DEF Rename, DiskMayChange, TypeOK, storeVars
<1>3. ASSUME NEW f \in Files, Write(f)
      PROVE  TypeOK'
  <2>0. disk[f] \in Paths
    BY <1>3 DEF Write, TypeOK
  <2>1. Rec("Modified", f, disk[f]) \in Change
    BY <2>0, RecType DEF Present
  <2>2. <<Rec("Modified", f, disk[f])>> \in Seq(Change)
    BY <2>1
  <2>3. buffer' \in Seq(Change) /\ overflow' \in BOOLEAN
    BY <1>3, <2>2, RecordType DEF Write
  <2>4. QED
    BY <1>3, <2>3 DEF Write, DiskMayChange, TypeOK, storeVars
<1>4. ASSUME NEW f \in Files, Remove(f)
      PROVE  TypeOK'
  <2>0. disk[f] \in Paths
    BY <1>4 DEF Remove, TypeOK
  <2>1. Rec("Removed", f, disk[f]) \in Change
    BY <2>0, RecType DEF Gone
  <2>2. <<Rec("Removed", f, disk[f])>> \in Seq(Change)
    BY <2>1
  <2>3. buffer' \in Seq(Change) /\ overflow' \in BOOLEAN
    BY <1>4, <2>2, RecordType DEF Remove
  <2>4. QED
    BY <1>4, <2>3 DEF Remove, DiskMayChange, TypeOK, storeVars
<1>5. ASSUME NEW x \in Dirs \cup Paths, SetAccess(x)
      PROVE  TypeOK'
  BY <1>5 DEF SetAccess, DiskMayChange, TypeOK, storeVars
<1>6. CASE Crash
  <2>1. /\ <<>> \in Seq(Change)
        /\ <<>> \in Seq(Batch)
    OBVIOUS
  <2>2. buffer' \in Seq(Change) /\ batch' \in Seq(Change) /\ queue' \in Seq(Batch)
    BY <1>6, <2>1, Zenon DEF Crash
  <2>3. crashes' \in Nat /\ scan' \in ScanType
    BY <1>6, ScanTypes, BoundsAssumption DEF Crash, TypeOK
  <2>4. UNCHANGED <<disk, denied, changes, active, required>>
    BY <1>6 DEF Crash, diskVars, storeVars
  <2>5. armed' = FALSE /\ overflow' = FALSE /\ startup' = FALSE /\ phase' = "down"
    BY <1>6 DEF Crash
  <2>6. QED
    BY <2>2, <2>3, <2>4, <2>5 DEF TypeOK, ScanType, Batch
<1>7. QED
  BY <1>1, <1>2, <1>3, <1>4, <1>5, <1>6 DEF Environment

LEMMA LookType ==
  ASSUME TypeOK
  PROVE  /\ \A d \in Dirs : ListDirectory(d) => scan' \in ScanType
         /\ \A loc \in Files \X Paths : InspectEntry(loc) => scan' \in ScanType
<1>1. scan \in ScanType
  BY DEF TypeOK, ScanType
<1>2. ASSUME NEW d \in Dirs, ListDirectory(d)
      PROVE  scan' \in ScanType
  BY <1>1, <1>2 DEF ListDirectory, ScanType
<1>3. ASSUME NEW loc \in Files \X Paths, InspectEntry(loc)
      PROVE  scan' \in ScanType
  <2>1. loc[2] \in Paths /\ (At(loc[2]) \ Folders) \X {loc[2]} \subseteq Files \X Paths
    BY DEF At
  <2>2. QED
    BY <1>1, <1>3, <2>1 DEF InspectEntry, ScanType
<1>4. QED
  BY <1>2, <1>3

LEMMA ActiveLocationsType ==
  ASSUME TypeOK
  PROVE  ActiveLocations \subseteq Files \X Paths
BY DEF ActiveLocations, TypeOK

LEMMA AgentType ==
  ASSUME TypeOK, Agent \/ ReadNext
  PROVE  TypeOK'
<1>1. CASE Open
  BY <1>1, ScanTypes DEF Open, TypeOK, ScanType, diskVars, kernelVars, storeVars
<1>2. ASSUME \/ \E d \in Dirs : ListDirectory(d)
             \/ \E loc \in Files \X Paths : InspectEntry(loc)
      PROVE  TypeOK'
  <2>1. scan' \in ScanType
    BY <1>2, LookType
  <2>2. UNCHANGED <<diskVars, kernelVars, queue, phase, startup, batch, storeVars, crashes>>
    BY <1>2 DEF ListDirectory, InspectEntry
  <2>3. QED
    BY <2>1, <2>2 DEF TypeOK, ScanType, diskVars, kernelVars, storeVars
<1>3. CASE Compare
  <2>1. scan' \in ScanType
    BY <1>3, ActiveLocationsType DEF Compare, TypeOK, ScanType
  <2>2. QED
    BY <1>3, <2>1 DEF Compare, TypeOK, ScanType, diskVars, kernelVars, storeVars
<1>4. ASSUME NEW loc \in Files \X Paths, ApplyInsert(loc)
      PROVE  TypeOK'
  <2>1. scan' \in ScanType
    BY <1>4 DEF ApplyInsert, TypeOK, ScanType
  <2>2. active' \in [Files -> Paths \cup {None}]
    BY <1>4 DEF ApplyInsert, Observed, TypeOK
  <2>3. QED
    BY <1>4, <2>1, <2>2 DEF ApplyInsert, TypeOK, ScanType, diskVars, kernelVars
<1>5. ASSUME NEW loc \in Files \X Paths, ApplyDelete(loc)
      PROVE  TypeOK'
  <2>1. scan' \in ScanType
    BY <1>5 DEF ApplyDelete, TypeOK, ScanType
  <2>2. active' \in [Files -> Paths \cup {None}]
    BY <1>5 DEF ApplyDelete, Deleted, TypeOK
  <2>3. QED
    BY <1>5, <2>1, <2>2 DEF ApplyDelete, TypeOK, ScanType, diskVars, kernelVars
<1>6. CASE FinishReconcile
  BY <1>6, ScanTypes DEF FinishReconcile, TypeOK, ScanType, diskVars, kernelVars
<1>7. CASE Arm
  BY <1>7 DEF Arm, TypeOK, diskVars, storeVars
<1>8. CASE TakeBatch
  <2>0. queue \in Seq(Batch) /\ queue # <<>>
    BY <1>8 DEF TakeBatch, TypeOK, Batch
  <2>1. Head(queue) \in Batch /\ Tail(queue) \in Seq(Batch)
    BY <2>0
  <2>2. Head(queue).changes \in Seq(Change)
    BY <2>1 DEF Batch
  <2>3. batch' \in Seq(Change) /\ required' \in BOOLEAN /\ phase' \in {"scan", "loop"}
    BY <1>8, <2>2 DEF TakeBatch, TypeOK
  <2>4. scan' \in ScanType
    BY <1>8, ScanTypes DEF TakeBatch, TypeOK, ScanType
  <2>5. QED
    BY <1>8, <2>1, <2>3, <2>4 DEF TakeBatch, TypeOK, ScanType, Batch, diskVars, kernelVars
<1>9. CASE IngestChange
  <2>1. Head(batch) \in Change /\ Tail(batch) \in Seq(Change)
    BY <1>9 DEF IngestChange, TypeOK
  <2>2. active' \in [Files -> Paths \cup {None}]
    BY <1>9, <2>1 DEF IngestChange, Change, Observed, Deleted, TypeOK
  <2>3. QED
    BY <1>9, <2>1, <2>2 DEF IngestChange, TypeOK, diskVars, kernelVars
<1>10. CASE ReadNext
  <2>1. /\ queue \in Seq(Batch)
        /\ <<>> \in Seq(Change)
        /\ [gap |-> overflow, changes |-> buffer] \in Batch
    BY DEF TypeOK, Batch
  <2>2. Append(queue, [gap |-> overflow, changes |-> buffer]) \in Seq(Batch)
    BY <2>1
  <2>3. queue' \in Seq(Batch) /\ buffer' \in Seq(Change) /\ overflow' = FALSE
    BY <1>10, <2>1, <2>2, Zenon DEF ReadNext
  <2>4. QED
    BY <1>10, <2>3 DEF ReadNext, TypeOK, Batch, diskVars, storeVars
<1>11. QED
  BY <1>1, <1>2, <1>3, <1>4, <1>5, <1>6, <1>7, <1>8, <1>9, <1>10 DEF Agent, Reconcile

(* Every variable of the collector keeps its shape: scans, batches and     *)
(* records carry only files, paths and directories of the scope.           *)
THEOREM TypeCorrect == Spec => []TypeOK
<1>1. Init => TypeOK
  <2>1. <<>> \in Seq(Change) /\ <<>> \in Seq(Batch)
    OBVIOUS
  <2>2. Init => buffer \in Seq(Change) /\ batch \in Seq(Change) /\ queue \in Seq(Batch)
    BY <2>1, Zenon DEF Init
  <2>3. Init => scan \in ScanType /\ changes \in Nat /\ crashes \in Nat
    BY ScanTypes DEF Init
  <2>4. Init => disk \in [Files -> Paths \cup {None}] /\ active \in [Files -> Paths \cup {None}]
    BY DEF Init
  <2>5. Init => /\ denied = {} /\ phase = "down"
                /\ armed = FALSE /\ overflow = FALSE /\ startup = FALSE /\ required = FALSE
    BY DEF Init
  <2>6. QED
    BY <2>2, <2>3, <2>4, <2>5 DEF TypeOK, ScanType, Batch
<1>2. TypeOK /\ [Next]_vars => TypeOK'
  <2>1. TypeOK /\ UNCHANGED vars => TypeOK'
    BY DEF vars, TypeOK
  <2>2. QED
    BY <2>1, EnvironmentType, AgentType DEF Next
<1>3. QED
  BY <1>1, <1>2, PTL DEF Spec

-----------------------------------------------------------------------------
(* What a record does to the promises about a set of records.              *)

LEMMA GoneOrPresent ==
  ASSUME NEW x \in Step
  PROVE  /\ x.change \in Change /\ x.change.file \in Files /\ x.change.path \in Paths
         /\ x.change.path # None
         /\ x.change.action \in Gone <=> x.change.action \notin Present
         /\ x.lane \in Nat /\ x.nth \in Nat
BY NonePathAssumption DEF Step, Change, Gone, Present

LEMMA BeforeOrder ==
  /\ \A x \in Step : ~Before(x, x)
  /\ \A x, y \in Step : Before(x, y) => ~Before(y, x)
BY DEF Before, Step

(* The file of the new last record is where that record says.              *)
LEMMA NewPresent ==
  ASSUME NEW S \in SUBSET Step, NEW d \in [Files -> Paths \cup {None}],
         LastSays(S, d), Chained(S),
         NEW x \in Step, \A y \in S : Before(y, x),
         x.change.action \in Present,
         NEW e \in [Files -> Paths \cup {None}],
         e = [d EXCEPT ![x.change.file] = x.change.path]
  PROVE  /\ LastSays(S \cup {x}, e)
         /\ Chained(S \cup {x})
         /\ \A f \in Files, v \in Paths \cup {None} :
              Resolves(S, d, f, v) => Resolves(S \cup {x}, e, f, v)
<1> DEFINE T == S \cup {x}
<1>0. x \notin S /\ T \subseteq Step
  BY BeforeOrder
<1>x. x.change.file \in Files /\ x.change.action \notin Gone /\ e[x.change.file] = x.change.path
  BY GoneOrPresent
<1>1. ASSUME NEW w \in T, \A y \in About(T, w.change.file) : ~Before(w, y)
      PROVE  e[w.change.file] = IF w.change.action \in Gone THEN None ELSE w.change.path
  <2>1. CASE w = x
    BY <2>1, <1>x
  <2>2. CASE w \in S
    <3>1. w.change.file # x.change.file
      BY <1>1, <2>2 DEF About
    <3>2. w.change.file \in Files /\ e[w.change.file] = d[w.change.file]
      BY <2>2, <3>1, GoneOrPresent
    <3>3. \A y \in About(S, w.change.file) : ~Before(w, y)
      BY <1>1 DEF About
    <3>4. QED
      BY <2>2, <3>2, <3>3 DEF LastSays
  <2>3. QED
    BY <2>1, <2>2
<1>2. ASSUME NEW w \in T, NEW y \in About(T, w.change.file),
             Before(w, y), y.change.action \in Gone,
             \A z \in About(T, w.change.file) : ~(Before(w, z) /\ Before(z, y))
      PROVE  w.change.action \in Present /\ w.change.path = y.change.path
  <2>1. y # x
    BY <1>2, <1>x
  <2>2. y \in S
    BY <2>1 DEF About
  <2>3. w # x
    BY <1>2, <2>2, BeforeOrder
  <2>4. w \in S /\ y \in About(S, w.change.file)
    BY <2>2, <2>3 DEF About
  <2>5. \A z \in About(S, w.change.file) : ~(Before(w, z) /\ Before(z, y))
    BY <1>2 DEF About
  <2>6. QED
    BY <1>2, <2>4, <2>5 DEF Chained
<1>3. ASSUME NEW f \in Files, NEW v \in Paths \cup {None}, Resolves(S, d, f, v)
      PROVE  Resolves(T, e, f, v)
  <2>1. CASE f = x.change.file
    <3>1. x \in About(T, f)
      BY <2>1 DEF About
    <3>2. QED
      BY <3>1, <1>x DEF Resolves
  <2>2. CASE f # x.change.file
    <3>1. About(T, f) = About(S, f) /\ e[f] = d[f]
      BY <2>2 DEF About
    <3>2. QED
      BY <1>3, <3>1 DEF Resolves
  <2>3. QED
    BY <2>1, <2>2
<1>4. LastSays(T, e)
  BY <1>1 DEF LastSays
<1>5. Chained(T)
  BY <1>2 DEF Chained
<1>6. QED
  BY <1>3, <1>4, <1>5

(* The file of the new last record has left the path where it was.         *)
LEMMA NewGone ==
  ASSUME NEW S \in SUBSET Step, NEW d \in [Files -> Paths \cup {None}],
         LastSays(S, d), Chained(S),
         NEW x \in Step, \A y \in S : Before(y, x),
         x.change.action \in Gone, d[x.change.file] = x.change.path,
         NEW e \in [Files -> Paths \cup {None}],
         e = [d EXCEPT ![x.change.file] = None]
  PROVE  /\ LastSays(S \cup {x}, e)
         /\ Chained(S \cup {x})
         /\ \A f \in Files, v \in Paths \cup {None} :
              Resolves(S, d, f, v) => Resolves(S \cup {x}, e, f, v)
<1> DEFINE T == S \cup {x}
<1>0. x \notin S /\ T \subseteq Step
  BY BeforeOrder
<1>x. x.change.file \in Files /\ x.change.path # None /\ e[x.change.file] = None
  BY GoneOrPresent
<1>1. ASSUME NEW w \in T, \A y \in About(T, w.change.file) : ~Before(w, y)
      PROVE  e[w.change.file] = IF w.change.action \in Gone THEN None ELSE w.change.path
  <2>1. CASE w = x
    BY <2>1, <1>x
  <2>2. CASE w \in S
    <3>1. w.change.file # x.change.file
      BY <1>1, <2>2 DEF About
    <3>2. w.change.file \in Files /\ e[w.change.file] = d[w.change.file]
      BY <2>2, <3>1, GoneOrPresent
    <3>3. \A y \in About(S, w.change.file) : ~Before(w, y)
      BY <1>1 DEF About
    <3>4. QED
      BY <2>2, <3>2, <3>3 DEF LastSays
  <2>3. QED
    BY <2>1, <2>2
<1>2. ASSUME NEW w \in T, NEW y \in About(T, w.change.file),
             Before(w, y), y.change.action \in Gone,
             \A z \in About(T, w.change.file) : ~(Before(w, z) /\ Before(z, y))
      PROVE  w.change.action \in Present /\ w.change.path = y.change.path
  <2>1. w # x
    BY <1>2, <1>0, BeforeOrder DEF About
  <2>2. w \in S
    BY <2>1
  <2>3. CASE y = x
    <3>1. w.change.file = x.change.file
      BY <2>3 DEF About
    <3>2. \A z \in About(S, w.change.file) : ~Before(w, z)
      BY <1>2, <2>3 DEF About
    <3>3. d[w.change.file] = IF w.change.action \in Gone THEN None ELSE w.change.path
      BY <2>2, <3>2 DEF LastSays
    <3>4. QED
      BY <2>2, <2>3, <3>1, <3>3, <1>x, GoneOrPresent
  <2>4. CASE y \in S
    <3>1. y \in About(S, w.change.file)
      BY <2>4 DEF About
    <3>2. \A z \in About(S, w.change.file) : ~(Before(w, z) /\ Before(z, y))
      BY <1>2 DEF About
    <3>3. QED
      BY <1>2, <2>2, <3>1, <3>2 DEF Chained
  <2>5. QED
    BY <2>3, <2>4 DEF About
<1>3. ASSUME NEW f \in Files, NEW v \in Paths \cup {None}, Resolves(S, d, f, v)
      PROVE  Resolves(T, e, f, v)
  <2>1. CASE f = x.change.file
    <3>1. x \in About(T, f)
      BY <2>1 DEF About
    <3>2. ASSUME NEW w \in About(T, f), About(T, f) = {w}
          PROVE  v \in {w.change.path, None}
      <4>1. w = x
        BY <3>1, <3>2
      <4>2. About(S, f) = {}
        BY <3>2, <4>1, <1>0 DEF About
      <4>3. QED
        BY <1>3, <2>1, <4>1, <4>2 DEF Resolves
    <3>3. QED
      BY <3>1, <3>2 DEF Resolves
  <2>2. CASE f # x.change.file
    <3>1. About(T, f) = About(S, f) /\ e[f] = d[f]
      BY <2>2 DEF About
    <3>2. QED
      BY <1>3, <3>1 DEF Resolves
  <2>3. QED
    BY <2>1, <2>2
<1>4. LastSays(T, e)
  BY <1>1 DEF LastSays
<1>5. Chained(T)
  BY <1>2 DEF Chained
<1>6. QED
  BY <1>3, <1>4, <1>5

(* What the store makes of one record.                                     *)
After(c, v) ==
  IF c.action \in Gone THEN (IF v = c.path THEN None ELSE v) ELSE c.path

(* The first record leaves the road for the store.                         *)
LEMMA FirstTaken ==
  ASSUME NEW S \in SUBSET Step, NEW d \in [Files -> Paths \cup {None}],
         LastSays(S, d), Chained(S),
         NEW x \in S, \A y \in S : y # x => Before(x, y)
  PROVE  /\ LastSays(S \ {x}, d)
         /\ Chained(S \ {x})
         /\ \A f \in Files, v \in Paths \cup {None} :
              Resolves(S, d, f, v) =>
                Resolves(S \ {x}, d, f, IF f = x.change.file THEN After(x.change, v) ELSE v)
<1> DEFINE T == S \ {x}
<1>x. x \in Step /\ x.change.file \in Files /\ x.change.path # None
  BY GoneOrPresent
<1>1. ASSUME NEW w \in T, \A y \in About(T, w.change.file) : ~Before(w, y)
      PROVE  d[w.change.file] = IF w.change.action \in Gone THEN None ELSE w.change.path
  <2>1. ~Before(w, x)
    BY BeforeOrder
  <2>2. \A y \in About(S, w.change.file) : ~Before(w, y)
    BY <1>1, <2>1 DEF About
  <2>3. QED
    BY <2>2 DEF LastSays
<1>2. ASSUME NEW w \in T, NEW y \in About(T, w.change.file),
             Before(w, y), y.change.action \in Gone,
             \A z \in About(T, w.change.file) : ~(Before(w, z) /\ Before(z, y))
      PROVE  w.change.action \in Present /\ w.change.path = y.change.path
  <2>1. ~Before(w, x)
    BY BeforeOrder
  <2>2. \A z \in About(S, w.change.file) : ~(Before(w, z) /\ Before(z, y))
    BY <1>2, <2>1 DEF About
  <2>3. y \in About(S, w.change.file)
    BY DEF About
  <2>4. QED
    BY <1>2, <2>2, <2>3 DEF Chained
<1>3. ASSUME NEW f \in Files, NEW v \in Paths \cup {None}, Resolves(S, d, f, v)
      PROVE  Resolves(T, d, f, IF f = x.change.file THEN After(x.change, v) ELSE v)
  <2>1. CASE f # x.change.file
    <3>1. About(T, f) = About(S, f)
      BY <2>1 DEF About
    <3>2. QED
      BY <1>3, <2>1, <3>1 DEF Resolves
  <2>2. CASE f = x.change.file
    <3>1. x \in About(S, f) /\ About(S, f) = About(T, f) \cup {x}
      BY <2>2 DEF About
    <3>2. ASSUME About(T, f) = {}
          PROVE  After(x.change, v) = d[f]
      <4>1. About(S, f) = {x}
        BY <3>1, <3>2
      <4>2. d[f] = IF x.change.action \in Gone THEN None ELSE x.change.path
        BY <2>2, <4>1, <1>x, BeforeOrder DEF LastSays
      <4>3. x.change.action \in Gone => v \in {x.change.path, None}
        BY <1>3, <3>1, <4>1 DEF Resolves
      <4>4. QED
        BY <4>2, <4>3 DEF After
    <3>3. ASSUME NEW w \in About(T, f), About(T, f) = {w}, w.change.action \in Gone
          PROVE  After(x.change, v) = w.change.path
      <4>1. w \in S /\ w \in About(S, x.change.file) /\ Before(x, w)
        BY <2>2 DEF About
      <4>2. \A z \in About(S, x.change.file) : ~(Before(x, z) /\ Before(z, w))
        BY <2>2, <3>1, <3>3, <1>x, BeforeOrder DEF About
      <4>3. x.change.action \in Present /\ x.change.path = w.change.path
        BY <3>3, <4>1, <4>2 DEF Chained
      <4>4. QED
        BY <4>3, <1>x, GoneOrPresent DEF After
    <3>4. QED
      BY <2>2, <3>2, <3>3 DEF Resolves
  <2>3. QED
    BY <2>1, <2>2
<1>4. LastSays(T, d)
  BY <1>1 DEF LastSays
<1>5. Chained(T)
  BY <1>2 DEF Chained
<1>6. QED
  BY <1>3, <1>4, <1>5

(* T holds the records of S in the order of S, at other places.            *)
Renumbers(m, S, T) ==
  /\ \A x \in S : m[x] \in T /\ m[x].change = x.change
  /\ \A t \in T : \E x \in S : m[x] = t
  /\ \A x, y \in S : Before(m[x], m[y]) <=> Before(x, y)
  /\ \A x, y \in S : m[x] = m[y] => x = y

(* Places do not matter, their order does.                                 *)
LEMMA Renumbered ==
  ASSUME NEW S \in SUBSET Step, NEW T \in SUBSET Step, NEW m, Renumbers(m, S, T),
         NEW d
  PROVE  /\ LastSays(S, d) => LastSays(T, d)
         /\ Chained(S) => Chained(T)
         /\ \A f, v : Resolves(S, d, f, v) => Resolves(T, d, f, v)
         /\ \A f : About(S, f) # {} => About(T, f) # {}
<1>m. \A f : \A x \in About(S, f) : m[x] \in About(T, f) /\ m[x].change = x.change
  BY DEF Renumbers, About
<1>n. \A f : \A t \in About(T, f) : \E x \in About(S, f) : m[x] = t
  BY DEF Renumbers, About
<1>1. ASSUME LastSays(S, d), NEW t \in T, \A y \in About(T, t.change.file) : ~Before(t, y)
      PROVE  d[t.change.file] = IF t.change.action \in Gone THEN None ELSE t.change.path
  <2>1. PICK x \in S : m[x] = t
    BY DEF Renumbers
  <2>2. t.change = x.change
    BY <2>1 DEF Renumbers
  <2>3. \A y \in About(S, x.change.file) : ~Before(x, y)
    <3>1. SUFFICES ASSUME NEW y \in About(S, x.change.file)
                   PROVE  ~Before(x, y)
      OBVIOUS
    <3>2. m[y] \in About(T, t.change.file) /\ y \in S
      BY <1>m, <2>2 DEF About
    <3>3. ~Before(m[x], m[y])
      BY <1>1, <2>1, <3>2
    <3>4. QED
      BY <3>2, <3>3 DEF Renumbers
  <2>4. QED
    BY <1>1, <2>2, <2>3 DEF LastSays
<1>2. ASSUME Chained(S), NEW t \in T, NEW u \in About(T, t.change.file),
             Before(t, u), u.change.action \in Gone,
             \A z \in About(T, t.change.file) : ~(Before(t, z) /\ Before(z, u))
      PROVE  t.change.action \in Present /\ t.change.path = u.change.path
  <2>1. PICK x \in S : m[x] = t
    BY DEF Renumbers
  <2>2. t.change = x.change
    BY <2>1 DEF Renumbers
  <2>3. PICK y \in About(S, x.change.file) : m[y] = u
    BY <1>n, <2>2
  <2>4. u.change = y.change /\ y \in S
    BY <1>m, <2>3 DEF About
  <2>5. \A z \in About(S, x.change.file) : ~(Before(x, z) /\ Before(z, y))
    <3>1. SUFFICES ASSUME NEW z \in About(S, x.change.file)
                   PROVE  ~(Before(x, z) /\ Before(z, y))
      OBVIOUS
    <3>2. m[z] \in About(T, t.change.file) /\ z \in S
      BY <1>m, <2>2 DEF About
    <3>3. ~(Before(m[x], m[z]) /\ Before(m[z], m[y]))
      BY <1>2, <2>1, <2>3, <3>2
    <3>4. QED
      BY <2>4, <3>2, <3>3 DEF Renumbers
  <2>6. Before(x, y)
    BY <1>2, <2>1, <2>3, <2>4 DEF Renumbers
  <2>7. QED
    BY <1>2, <2>2, <2>4, <2>5, <2>6 DEF Chained
<1>3. ASSUME NEW f, NEW v, Resolves(S, d, f, v)
      PROVE  Resolves(T, d, f, v)
  <2>1. About(T, f) = {} => About(S, f) = {}
    BY <1>m
  <2>2. ASSUME NEW t \in About(T, f), About(T, f) = {t}, t.change.action \in Gone
        PROVE  v \in {t.change.path, None}
    <3>1. PICK x \in About(S, f) : m[x] = t
      BY <1>n
    <3>2. About(S, f) = {x}
      <4>1. SUFFICES ASSUME NEW y \in About(S, f)
                     PROVE  y = x
        BY <3>1
      <4>2. m[y] = m[x] /\ x \in S /\ y \in S
        BY <1>m, <2>2, <3>1 DEF About
      <4>3. QED
        BY <4>2 DEF Renumbers
    <3>3. t.change = x.change
      BY <1>m, <3>1
    <3>4. QED
      BY <1>3, <2>2, <3>2, <3>3 DEF Resolves
  <2>3. QED
    BY <1>3, <2>1, <2>2 DEF Resolves
<1>4. ASSUME NEW f, About(S, f) # {}
      PROVE  About(T, f) # {}
  BY <1>4, <1>m
<1>5. LastSays(S, d) => LastSays(T, d)
  BY <1>1 DEF LastSays
<1>6. Chained(S) => Chained(T)
  BY <1>2 DEF Chained
<1>7. QED
  BY <1>3, <1>4, <1>5, <1>6

-----------------------------------------------------------------------------
(* What the steps do to the road.                                          *)

LEMMA RoadTypes ==
  ASSUME TypeOK
  PROVE  /\ queue \in Seq(Batch) /\ Len(queue) \in Nat /\ Lanes \in Nat
         /\ Lanes = Len(queue) + 1
         /\ \A i \in 0 .. Lanes : Lane(i) \in Seq(Change) /\ Gap(i) \in BOOLEAN
<1>1. queue \in Seq(Batch) /\ batch \in Seq(Change) /\ buffer \in Seq(Change)
  BY DEF TypeOK, Batch
<1>2. Len(queue) \in Nat /\ Lanes = Len(queue) + 1 /\ Lanes \in Nat
  BY <1>1 DEF Lanes
<1>3. \A i \in 1 .. Len(queue) : queue[i] \in Batch
  BY <1>1
<1>4. \A i \in 1 .. Len(queue) : queue[i].changes \in Seq(Change) /\ queue[i].gap \in BOOLEAN
  BY <1>3 DEF Batch
<1>5. \A i \in 0 .. Lanes : Lane(i) \in Seq(Change)
  BY <1>1, <1>2, <1>4 DEF Lane
<1>6. \A i \in 0 .. Lanes : Gap(i) \in BOOLEAN
  BY <1>2, <1>4 DEF Gap, TypeOK
<1>7. QED
  BY <1>1, <1>2, <1>5, <1>6

LEMMA TrackSteps == Track \in SUBSET Step /\ Track' \in SUBSET Step
BY DEF Track

LEMMA Unmoved ==
  ASSUME UNCHANGED <<buffer, overflow, queue, batch>>
  PROVE  Track' = Track /\ Gapless' = Gapless
<1>1. Lanes' = Lanes /\ \A i : Lane(i)' = Lane(i) /\ Gap(i)' = Gap(i)
  BY DEF Lanes, Lane, Gap
<1>2. QED
  BY <1>1 DEF Track, Gapless

(* An empty road.                                                          *)
LEMMA NothingMoves ==
  ASSUME buffer = <<>>, queue = <<>>, batch = <<>>
  PROVE  Track = {}
<1>1. \A i \in Nat : Lane(i) = <<>>
  BY DEF Lane
<1>2. DOMAIN <<>> = {}
  OBVIOUS
<1>3. QED
  BY <1>1, <1>2 DEF Track, Step

LEMMA NothingMovesAfter ==
  ASSUME buffer' = <<>>, queue' = <<>>, batch' = <<>>
  PROVE  Track' = {}
<1>1. \A i \in Nat : Lane(i)' = <<>>
  BY DEF Lane
<1>2. DOMAIN <<>> = {}
  OBVIOUS
<1>3. QED
  BY <1>1, <1>2 DEF Track, Step

(* read_next moves the buffer to the end of the queue: no record changes   *)
(* its lane, and the new buffer is a new last lane.                        *)
LEMMA ReadNextMoves ==
  ASSUME TypeOK, ReadNext
  PROVE  Track' = Track /\ (Gapless' <=> Gapless)
<1>0. /\ queue \in Seq(Batch) /\ Len(queue) \in Nat /\ Lanes = Len(queue) + 1
      /\ queue' = Append(queue, [gap |-> overflow, changes |-> buffer])
      /\ buffer' = <<>> /\ overflow' = FALSE /\ batch' = batch
  BY RoadTypes DEF ReadNext
<1>1. Len(queue') = Len(queue) + 1 /\ Lanes' = Lanes + 1 /\ Lanes \in Nat
  BY <1>0 DEF Lanes
<1>2. /\ \A i \in 1 .. Len(queue) : queue'[i] = queue[i]
      /\ queue'[Lanes] = [gap |-> overflow, changes |-> buffer]
  BY <1>0
<1>3. ASSUME NEW i \in 0 .. Lanes
      PROVE  Lane(i)' = Lane(i) /\ (Gap(i)' <=> Gap(i))
  BY <1>0, <1>1, <1>2 DEF Lane, Gap
<1>4. ASSUME NEW n \in Nat, n = Lanes + 1
      PROVE  Lane(n)' = <<>> /\ ~Gap(n)'
  BY <1>0, <1>1, <1>4 DEF Lane, Gap
<1>5. ASSUME NEW i \in 0 .. Lanes
      PROVE  (\A k \in i .. Lanes' : ~Gap(k)') <=> (\A k \in i .. Lanes : ~Gap(k))
  BY <1>1, <1>3, <1>4
<1>6. Gapless' <=> Gapless
  BY <1>1, <1>5 DEF Gapless
<1>7. ASSUME NEW x \in Step
      PROVE  x \in Track' <=> x \in Track
  <2>1. CASE x.lane <= Lanes
    <3>1. x.lane \in 0 .. Lanes
      BY <2>1, <1>1 DEF Step
    <3>2. QED
      BY <3>1, <1>1, <1>3, <1>5 DEF Track
  <2>2. CASE x.lane = Lanes + 1
    <3>1. Lane(x.lane)' = <<>> /\ DOMAIN <<>> = {}
      BY <2>2, <1>4 DEF Step
    <3>2. QED
      BY <2>2, <3>1, <1>1 DEF Track
  <2>3. CASE x.lane > Lanes + 1
    BY <2>3, <1>1 DEF Track, Step
  <2>4. QED
    BY <2>1, <2>2, <2>3, <1>1 DEF Step
<1>8. QED
  BY <1>6, <1>7, TrackSteps

(* A change is recorded at the end of the road.                            *)
LEMMA RecordMoves ==
  ASSUME TypeOK, NEW r \in Seq(Change), ~overflow, ~overflow', buffer' = buffer \o r,
         UNCHANGED <<queue, batch>>
  PROVE  /\ Gapless' <=> Gapless
         /\ Track' = Track \cup
              {x \in Step : /\ x.lane = Lanes
                            /\ x.nth \in Len(buffer) + 1 .. Len(buffer) + Len(r)
                            /\ x.change = r[x.nth - Len(buffer)]}
         /\ \A x \in Track : x.lane < Lanes \/ (x.lane = Lanes /\ x.nth <= Len(buffer))
<1>0. /\ Len(queue) \in Nat /\ Lanes = Len(queue) + 1 /\ Lanes' = Lanes /\ Lanes \in Nat
      /\ buffer \in Seq(Change) /\ Len(buffer) \in Nat /\ Len(r) \in Nat
  BY RoadTypes DEF Lanes, TypeOK
<1>1. ASSUME NEW i \in 0 .. Lanes
      PROVE  Gap(i)' <=> Gap(i)
  BY <1>0 DEF Gap
<1>2. ASSUME NEW i \in 0 .. Len(queue)
      PROVE  Lane(i)' = Lane(i)
  BY <1>0 DEF Lane
<1>3. Lane(Lanes)' = buffer \o r /\ Lane(Lanes) = buffer /\ ~Gap(Lanes) /\ ~Gap(Lanes)'
  BY <1>0 DEF Lane, Gap
<1>4. ASSUME NEW i \in 0 .. Lanes
      PROVE  (\A k \in i .. Lanes' : ~Gap(k)') <=> (\A k \in i .. Lanes : ~Gap(k))
  BY <1>0, <1>1
<1>5. Gapless' <=> Gapless
  BY <1>0, <1>4 DEF Gapless
<1> DEFINE New == {x \in Step : /\ x.lane = Lanes
                                /\ x.nth \in Len(buffer) + 1 .. Len(buffer) + Len(r)
                                /\ x.change = r[x.nth - Len(buffer)]}
<1>6. ASSUME NEW x \in Step
      PROVE  x \in Track' <=> x \in Track \/ x \in New
  <2>0. x.lane \in Nat /\ x.nth \in Nat
    BY DEF Step
  <2>1. CASE x.lane <= Len(queue)
    <3>1. x.lane \in 0 .. Len(queue) /\ x.lane \in 0 .. Lanes /\ x \notin New
      BY <2>0, <2>1, <1>0
    <3>2. QED
      BY <3>1, <1>0, <1>2, <1>4 DEF Track
  <2>2. CASE x.lane = Lanes
    <3>1. \A k \in x.lane .. Lanes : ~Gap(k) /\ ~Gap(k)'
      BY <2>2, <1>0, <1>3
    <3>2. x \in Track' <=> x.nth \in DOMAIN (buffer \o r) /\ x.change = (buffer \o r)[x.nth]
      BY <2>2, <3>1, <1>0, <1>3 DEF Track
    <3>3. x \in Track <=> x.nth \in DOMAIN buffer /\ x.change = buffer[x.nth]
      BY <2>2, <3>1, <1>0, <1>3 DEF Track
    <3>4. /\ DOMAIN buffer = 1 .. Len(buffer)
          /\ DOMAIN (buffer \o r) = 1 .. Len(buffer) + Len(r)
          /\ \A n \in 1 .. Len(buffer) : (buffer \o r)[n] = buffer[n]
          /\ \A n \in Len(buffer) + 1 .. Len(buffer) + Len(r) :
               (buffer \o r)[n] = r[n - Len(buffer)]
      BY <1>0
    <3>5. QED
      BY <2>0, <2>2, <3>2, <3>3, <3>4, <1>0
  <2>3. CASE x.lane > Lanes
    BY <2>0, <2>3, <1>0 DEF Track
  <2>4. QED
    BY <2>0, <2>1, <2>2, <2>3, <1>0
<1>7. ASSUME NEW x \in Track
      PROVE  x.lane < Lanes \/ (x.lane = Lanes /\ x.nth <= Len(buffer))
  <2>1. x.lane \in Nat /\ x.nth \in Nat /\ x.lane <= Lanes /\ x.nth \in DOMAIN Lane(x.lane)
    BY DEF Track, Step
  <2>2. x.lane = Lanes => x.nth \in 1 .. Len(buffer)
    BY <2>1, <1>0, <1>3
  <2>3. QED
    BY <2>1, <2>2, <1>0
<1>8. QED
  BY <1>5, <1>6, <1>7, TrackSteps

(* Taking a batch moves every lane one place towards the store.            *)
LEMMA TakeBatchMoves ==
  ASSUME TypeOK, Phases, TakeBatch
  PROVE  /\ Renumbers([x \in Track |-> [x EXCEPT !.lane = @ - 1]], Track, Track')
         /\ Gapless => Gapless'
         /\ ~Head(queue).gap /\ Gapless' => Gapless
<1>0. /\ queue \in Seq(Batch) /\ Len(queue) \in Nat /\ Lanes = Len(queue) + 1
      /\ queue # <<>> /\ queue' = Tail(queue) /\ batch = <<>>
      /\ buffer' = buffer /\ overflow' = overflow
  BY RoadTypes DEF TakeBatch, kernelVars
<1>1. /\ Len(queue) >= 1 /\ Head(queue) = queue[1]
      /\ Len(queue') = Len(queue) - 1 /\ Lanes' = Lanes - 1 /\ Lanes \in Nat /\ Lanes >= 2
      /\ \A i \in 1 .. Len(queue) - 1 : queue'[i] = queue[i + 1]
  BY <1>0 DEF Lanes
<1>2. Lane(0)' = queue[1].changes /\ Lane(1) = queue[1].changes
  <2>1. queue[1].gap => queue[1].changes = <<>>
    BY <1>0, <1>1 DEF Phases
  <2>2. batch' = queue[1].changes
    BY <2>1, <1>0, <1>1 DEF TakeBatch
  <2>3. QED
    BY <2>2, <1>1 DEF Lane
<1>3. ASSUME NEW i \in 0 .. Lanes - 1
      PROVE  Lane(i)' = Lane(i + 1)
  <2>1. CASE i = 0
    BY <2>1, <1>2
  <2>2. CASE i \in 1 .. Len(queue) - 1
    BY <2>2, <1>0, <1>1 DEF Lane
  <2>3. CASE i = Len(queue)
    BY <2>3, <1>0, <1>1 DEF Lane
  <2>4. QED
    BY <2>1, <2>2, <2>3, <1>0
<1>4. ASSUME NEW i \in 1 .. Lanes - 1
      PROVE  Gap(i)' <=> Gap(i + 1)
  <2>1. CASE i \in 1 .. Len(queue) - 1
    BY <2>1, <1>0, <1>1 DEF Gap
  <2>2. CASE i = Len(queue)
    BY <2>2, <1>0, <1>1 DEF Gap
  <2>3. QED
    BY <2>1, <2>2, <1>0
<1>5. ~Gap(0)' /\ ~Gap(0) /\ (Gap(1) <=> Head(queue).gap)
  BY <1>1 DEF Gap
<1>6. (\A k \in 1 .. Lanes' : ~Gap(k)') <=> (\A k \in 2 .. Lanes : ~Gap(k))
  <2>1. ASSUME \A k \in 1 .. Lanes' : ~Gap(k)', NEW k \in 2 .. Lanes
        PROVE  ~Gap(k)
    <3>1. k - 1 \in 1 .. Lanes - 1 /\ (k - 1) + 1 = k
      BY <1>1
    <3>2. ~Gap(k - 1)'
      BY <2>1, <3>1, <1>1
    <3>3. QED
      BY <3>1, <3>2, <1>4
  <2>2. ASSUME \A k \in 2 .. Lanes : ~Gap(k), NEW k \in 1 .. Lanes'
        PROVE  ~Gap(k)'
    BY <2>2, <1>1, <1>4
  <2>3. QED
    BY <2>1, <2>2
<1>7. Gapless => Gapless'
  BY <1>1, <1>5, <1>6 DEF Gapless
<1>8. ~Head(queue).gap /\ Gapless' => Gapless
  <2>1. Gapless' /\ ~Gap(1) => \A k \in 1 .. Lanes : ~Gap(k)
    BY <1>1, <1>6 DEF Gapless
  <2>2. QED
    BY <2>1, <1>1, <1>5 DEF Gapless
<1> DEFINE m == [x \in Track |-> [x EXCEPT !.lane = @ - 1]]
<1>9. ASSUME NEW i \in 0 .. Lanes - 1
      PROVE  (\A k \in i + 1 .. Lanes : ~Gap(k)) => (\A k \in i .. Lanes' : ~Gap(k)')
  <2>1. SUFFICES ASSUME \A k \in i + 1 .. Lanes : ~Gap(k), NEW k \in i .. Lanes'
                 PROVE  ~Gap(k)'
    OBVIOUS
  <2>2. CASE k = 0
    BY <2>2, <1>5
  <2>3. CASE k # 0
    BY <2>1, <2>3, <1>1, <1>4
  <2>4. QED
    BY <2>2, <2>3
<1>10. ASSUME NEW x \in Track
       PROVE  /\ x \in Step /\ x.lane \in 1 .. Lanes /\ x.nth \in Nat
              /\ m[x] = [lane |-> x.lane - 1, nth |-> x.nth, change |-> x.change]
              /\ m[x].lane = x.lane - 1 /\ m[x].nth = x.nth /\ m[x].change = x.change
              /\ m[x] \in Track'
  <2>1. /\ x \in Step /\ x.lane \in Nat /\ x.nth \in Nat /\ x.change \in Change
        /\ x.lane <= Lanes /\ x.nth \in DOMAIN Lane(x.lane)
        /\ x.change = Lane(x.lane)[x.nth] /\ \A k \in x.lane .. Lanes : ~Gap(k)
    BY DEF Track, Step
  <2>2. x.lane # 0
    BY <2>1, <1>0 DEF Lane
  <2>3. x.lane \in 1 .. Lanes /\ x.lane - 1 \in 0 .. Lanes - 1 /\ (x.lane - 1) + 1 = x.lane
    BY <2>1, <2>2, <1>1
  <2>4. m[x] = [lane |-> x.lane - 1, nth |-> x.nth, change |-> x.change]
    BY <2>1 DEF Step
  <2>5. m[x] \in Step /\ m[x].lane = x.lane - 1 /\ m[x].nth = x.nth /\ m[x].change = x.change
    BY <2>1, <2>3, <2>4 DEF Step
  <2>6. Lane(x.lane - 1)' = Lane(x.lane)
    BY <2>3, <1>3
  <2>7. \A k \in x.lane - 1 .. Lanes' : ~Gap(k)'
    BY <2>1, <2>3, <1>9
  <2>8. x.lane - 1 <= Lanes'
    BY <2>3, <1>1
  <2>9. m[x] \in Track'
    <3> HIDE DEF m
    <3> QED
      BY <2>1, <2>5, <2>6, <2>7, <2>8 DEF Track
  <2>10. QED
    <3> HIDE DEF m
    <3> QED
      BY <2>1, <2>3, <2>4, <2>5, <2>9
<1> HIDE DEF m
<1>11. ASSUME NEW t \in Track'
       PROVE  \E x \in Track : m[x] = t
  <2>1. /\ t \in Step /\ t.lane \in Nat /\ t.nth \in Nat /\ t.change \in Change
        /\ t.lane <= Lanes' /\ t.nth \in DOMAIN Lane(t.lane)'
        /\ t.change = Lane(t.lane)'[t.nth] /\ \A k \in t.lane .. Lanes' : ~Gap(k)'
    BY DEF Track, Step
  <2>2. t.lane \in 0 .. Lanes - 1 /\ t.lane + 1 \in 1 .. Lanes
    BY <2>1, <1>1
  <2>3. Lane(t.lane)' = Lane(t.lane + 1)
    BY <2>2, <1>3
  <2>4. ASSUME NEW k \in t.lane + 1 .. Lanes
        PROVE  ~Gap(k)
    <3>1. CASE k = 1
      <4>1. t.lane = 0 /\ Lane(0)' = queue[1].changes
        BY <2>2, <3>1, <1>2
      <4>2. queue[1].changes # <<>>
        BY <2>1, <4>1
      <4>3. QED
        BY <3>1, <4>2, <1>0, <1>1, <1>5 DEF Phases
    <3>2. CASE k # 1
      <4>1. k - 1 \in 1 .. Lanes - 1 /\ k - 1 \in t.lane .. Lanes' /\ (k - 1) + 1 = k
        BY <2>2, <3>2, <1>1
      <4>2. QED
        BY <2>1, <4>1, <1>4
    <3>3. QED
      BY <3>1, <3>2
  <2>5. DEFINE x == [lane |-> t.lane + 1, nth |-> t.nth, change |-> t.change]
  <2>6. x \in Step /\ x.lane = t.lane + 1 /\ x.nth = t.nth /\ x.change = t.change
    BY <2>1 DEF Step
  <2>7. x \in Track
    <3> HIDE DEF x
    <3> QED
      BY <2>1, <2>2, <2>3, <2>4, <2>6 DEF Track
  <2>8. m[x] = [lane |-> (t.lane + 1) - 1, nth |-> t.nth, change |-> t.change]
    BY <2>7, <1>10
  <2>9. t = [lane |-> t.lane, nth |-> t.nth, change |-> t.change]
    BY <2>1 DEF Step
  <2>10. m[x] = t
    BY <2>1, <2>8, <2>9
  <2>11. QED
    BY <2>7, <2>10
<1>12. ASSUME NEW x \in Track, NEW y \in Track
       PROVE  (Before(m[x], m[y]) <=> Before(x, y)) /\ (m[x] = m[y] => x = y)
  <2>1. /\ x = [lane |-> x.lane, nth |-> x.nth, change |-> x.change]
        /\ y = [lane |-> y.lane, nth |-> y.nth, change |-> y.change]
    BY <1>10 DEF Step
  <2>2. /\ m[x].lane = x.lane - 1 /\ m[x].nth = x.nth /\ m[x].change = x.change
        /\ m[y].lane = y.lane - 1 /\ m[y].nth = y.nth /\ m[y].change = y.change
    BY <1>10, Zenon
  <2>0. x.lane \in Nat /\ y.lane \in Nat
    BY TrackSteps DEF Step
  <2>3. m[x] = m[y] => x.lane = y.lane /\ x.nth = y.nth /\ x.change = y.change
    BY <2>0, <2>2
  <2>4. Before(m[x], m[y]) <=> Before(x, y)
    BY <2>0, <2>2 DEF Before
  <2>5. QED
    BY <2>1, <2>3, <2>4
<1>13. \A x \in Track : m[x].change = x.change
  BY <1>10
<1>14. Renumbers(m, Track, Track')
  BY <1>10, <1>11, <1>12, <1>13 DEF Renumbers
<1>15. QED
  BY <1>7, <1>8, <1>14 DEF m

FirstStep == [lane |-> 0, nth |-> 1, change |-> Head(batch)]

(* Ingesting a change takes the first record off the road.                 *)
LEMMA IngestMoves ==
  ASSUME TypeOK, IngestChange
  PROVE  /\ \E m : Renumbers(m, Track \ {FirstStep}, Track')
         /\ Gapless' <=> Gapless
         /\ Gapless => FirstStep \in Track
         /\ \A y \in Track : y # FirstStep => Before(FirstStep, y)
<1>0. /\ batch \in Seq(Change) /\ batch # <<>> /\ batch' = Tail(batch)
      /\ queue' = queue /\ buffer' = buffer /\ overflow' = overflow
      /\ Len(queue) \in Nat /\ Lanes = Len(queue) + 1 /\ Lanes \in Nat /\ Lanes' = Lanes
  BY RoadTypes DEF IngestChange, kernelVars, TypeOK, Lanes
<1>1. /\ Len(batch) \in Nat /\ Len(batch) >= 1 /\ Head(batch) = batch[1] /\ Head(batch) \in Change
      /\ DOMAIN batch = 1 .. Len(batch) /\ DOMAIN Tail(batch) = 1 .. Len(batch) - 1
      /\ \A i \in 1 .. Len(batch) - 1 : Tail(batch)[i] = batch[i + 1]
  BY <1>0
<1>2. Lane(0) = batch /\ Lane(0)' = Tail(batch)
  BY <1>0 DEF Lane
<1>3. ASSUME NEW i \in Nat, i # 0
      PROVE  Lane(i)' = Lane(i)
  BY <1>0, <1>3 DEF Lane
<1>4. ASSUME NEW i \in Nat
      PROVE  Gap(i)' <=> Gap(i)
  BY <1>0 DEF Gap
<1>5. ASSUME NEW i \in Nat
      PROVE  (\A k \in i .. Lanes' : ~Gap(k)') <=> (\A k \in i .. Lanes : ~Gap(k))
  BY <1>0, <1>4
<1>6. Gapless' <=> Gapless
  BY <1>0, <1>5 DEF Gapless
<1>7. /\ FirstStep \in Step /\ FirstStep.lane = 0 /\ FirstStep.nth = 1
      /\ FirstStep.change = batch[1]
  BY <1>1 DEF FirstStep, Step
<1>8. Gapless => FirstStep \in Track
  BY <1>0, <1>1, <1>2, <1>7 DEF Gapless, Track
<1>9. ASSUME NEW x \in Track
      PROVE  /\ x \in Step /\ x.lane \in Nat /\ x.nth \in Nat /\ x.change \in Change
             /\ x = [lane |-> x.lane, nth |-> x.nth, change |-> x.change]
             /\ x.lane = 0 => x.nth \in 1 .. Len(batch) /\ x.change = batch[x.nth]
             /\ x.lane = 0 /\ x.nth = 1 => x = FirstStep
  <2>1. /\ x \in Step /\ x.lane \in Nat /\ x.nth \in Nat /\ x.change \in Change
        /\ x = [lane |-> x.lane, nth |-> x.nth, change |-> x.change]
    BY DEF Track, Step
  <2>2. x.nth \in DOMAIN Lane(x.lane) /\ x.change = Lane(x.lane)[x.nth]
    BY DEF Track
  <2>3. x.lane = 0 => x.nth \in 1 .. Len(batch) /\ x.change = batch[x.nth]
    BY <2>2, <1>1, <1>2
  <2>4. x.lane = 0 /\ x.nth = 1 => x = FirstStep
    BY <2>1, <2>3, <1>1 DEF FirstStep
  <2>5. QED
    BY <2>1, <2>3, <2>4
<1>10. ASSUME NEW y \in Track, y # FirstStep
       PROVE  Before(FirstStep, y)
  BY <1>7, <1>9, <1>10 DEF Before
<1> DEFINE S == Track \ {FirstStep}
           m == [x \in S |-> IF x.lane = 0
                             THEN [lane |-> 0, nth |-> x.nth - 1, change |-> x.change]
                             ELSE x]
<1>11. ASSUME NEW x \in S
       PROVE  /\ m[x].lane = x.lane /\ m[x].change = x.change
              /\ m[x].nth = IF x.lane = 0 THEN x.nth - 1 ELSE x.nth
              /\ m[x] \in Track'
  <2>1. /\ x \in Track /\ x \in Step /\ x.lane \in Nat /\ x.nth \in Nat /\ x.change \in Change
        /\ x.lane <= Lanes /\ x.nth \in DOMAIN Lane(x.lane)
        /\ x.change = Lane(x.lane)[x.nth] /\ \A k \in x.lane .. Lanes : ~Gap(k)
    BY DEF Track, Step
  <2>2. \A k \in x.lane .. Lanes' : ~Gap(k)'
    BY <2>1, <1>5
  <2>3. CASE x.lane # 0
    <3>1. m[x] = x
      BY <2>3
    <3>2. x \in Track'
      BY <2>1, <2>2, <2>3, <1>0, <1>3 DEF Track
    <3>3. QED
      <4> HIDE DEF m
      <4> QED BY <2>3, <3>1, <3>2
  <2>4. CASE x.lane = 0
    <3>1. x.nth \in 2 .. Len(batch) /\ x.change = batch[x.nth]
      BY <2>1, <2>4, <1>1, <1>9
    <3>2. m[x] = [lane |-> 0, nth |-> x.nth - 1, change |-> x.change]
      BY <2>4
    <3>3. m[x] \in Step /\ m[x].lane = 0 /\ m[x].nth = x.nth - 1 /\ m[x].change = x.change
      BY <2>1, <3>1, <3>2 DEF Step
    <3>4. x.nth - 1 \in 1 .. Len(batch) - 1 /\ (x.nth - 1) + 1 = x.nth
      BY <3>1, <1>1
    <3>5. x.nth - 1 \in DOMAIN Tail(batch) /\ x.change = Tail(batch)[x.nth - 1]
      BY <3>1, <3>4, <1>1
    <3>6. m[x] \in Track'
      <4> HIDE DEF m
      <4> QED BY <2>2, <2>4, <3>3, <3>5, <1>0, <1>2 DEF Track
    <3>7. QED
      <4> HIDE DEF m
      <4> QED BY <2>4, <3>3, <3>6
  <2>5. QED
    BY <2>3, <2>4
<1>12. ASSUME NEW t \in Track'
       PROVE  \E x \in S : m[x] = t
  <2>1. /\ t \in Step /\ t.lane \in Nat /\ t.nth \in Nat /\ t.change \in Change
        /\ t = [lane |-> t.lane, nth |-> t.nth, change |-> t.change]
        /\ t.lane <= Lanes' /\ t.nth \in DOMAIN Lane(t.lane)'
        /\ t.change = Lane(t.lane)'[t.nth] /\ \A k \in t.lane .. Lanes' : ~Gap(k)'
    BY DEF Track, Step
  <2>2. \A k \in t.lane .. Lanes : ~Gap(k)
    BY <2>1, <1>5
  <2>3. CASE t.lane # 0
    <3>1. t \in Track
      BY <2>1, <2>2, <2>3, <1>0, <1>3 DEF Track
    <3>2. t \in S /\ m[t] = t
      BY <2>3, <3>1, <1>7
    <3>3. QED
      BY <3>2
  <2>4. CASE t.lane = 0
    <3>1. t.nth \in 1 .. Len(batch) - 1 /\ t.change = batch[t.nth + 1]
      BY <2>1, <2>4, <1>1, <1>2
    <3>2. DEFINE x == [lane |-> 0, nth |-> t.nth + 1, change |-> t.change]
    <3>3. x \in Step /\ x.lane = 0 /\ x.nth = t.nth + 1 /\ x.change = t.change
      BY <2>1 DEF Step
    <3>4. t.nth + 1 \in DOMAIN batch
      BY <3>1, <1>1
    <3>5. x \in Track
      <4> HIDE DEF x
      <4> QED BY <2>2, <2>4, <3>1, <3>3, <3>4, <1>0, <1>2 DEF Track
    <3>6. x # FirstStep
      <4> HIDE DEF x
      <4> QED BY <3>1, <3>3, <1>1, <1>7
    <3>7. x \in S
      BY <3>5, <3>6
    <3>8. m[x] = [lane |-> 0, nth |-> (t.nth + 1) - 1, change |-> t.change]
      BY <3>7, <3>3
    <3>9. m[x] = t
      BY <2>1, <2>4, <3>8
    <3>10. QED
      BY <3>7, <3>9
  <2>5. QED
    BY <2>3, <2>4
<1> HIDE DEF m
<1>13. ASSUME NEW x \in S, NEW y \in S
       PROVE  (Before(m[x], m[y]) <=> Before(x, y)) /\ (m[x] = m[y] => x = y)
  <2>1. /\ x.lane \in Nat /\ x.nth \in Nat /\ y.lane \in Nat /\ y.nth \in Nat
        /\ x = [lane |-> x.lane, nth |-> x.nth, change |-> x.change]
        /\ y = [lane |-> y.lane, nth |-> y.nth, change |-> y.change]
    BY <1>9
  <2>2. /\ m[x].lane = x.lane /\ m[x].change = x.change
        /\ m[x].nth = IF x.lane = 0 THEN x.nth - 1 ELSE x.nth
        /\ m[y].lane = y.lane /\ m[y].change = y.change
        /\ m[y].nth = IF y.lane = 0 THEN y.nth - 1 ELSE y.nth
    BY <1>11, Zenon
  <2>3. Before(m[x], m[y]) <=> Before(x, y)
    BY <2>1, <2>2 DEF Before
  <2>4. m[x] = m[y] => x.lane = y.lane /\ x.nth = y.nth /\ x.change = y.change
    BY <2>1, <2>2
  <2>5. QED
    BY <2>1, <2>3, <2>4
<1>14. Renumbers(m, S, Track')
  BY <1>11, <1>12, <1>13 DEF Renumbers
<1>15. QED
  BY <1>6, <1>8, <1>10, <1>14

(* A step after which the records make good what they made good before.    *)
Carries ==
  /\ Gapless' => Gapless
  /\ Gapless' =>
       \A f \in Files :
         /\ \A v \in Paths \cup {None} :
              Resolves(Track, disk, f, v) => Resolves(Track', disk', f, v)
         /\ About(Track', f) = {} => About(Track, f) = {} /\ disk'[f] = disk[f]

LEMMA NoRoad ==
  ASSUME Track' = {}
  PROVE  Road'
BY DEF Road, LastSays, Chained

LEMMA OverflowCarries ==
  ASSUME TypeOK, overflow', UNCHANGED queue
  PROVE  Road' /\ Carries
<1>0. Lanes \in Nat /\ Lanes' = Lanes /\ Lanes = Len(queue) + 1 /\ Len(queue) \in Nat
  BY RoadTypes DEF Lanes
<1>1. Gap(Lanes)'
  BY <1>0 DEF Gap
<1>2. ~Gapless'
  BY <1>0, <1>1 DEF Gapless
<1>3. Track' = {}
  <2>1. ASSUME NEW x \in Track'
        PROVE  FALSE
    <3>1. x.lane \in Nat /\ x.lane <= Lanes' /\ \A k \in x.lane .. Lanes' : ~Gap(k)'
      BY DEF Track, Step
    <3>2. Lanes' \in x.lane .. Lanes'
      BY <3>1, <1>0
    <3>3. QED
      BY <3>1, <3>2, <1>0, <1>1
  <2>2. QED
    BY <2>1
<1>4. QED
  BY <1>2, <1>3, NoRoad DEF Carries

(* The disk after a record.                                                *)
Says(d, c, e) ==
  \/ c.action \in Present /\ e = [d EXCEPT ![c.file] = c.path]
  \/ c.action \in Gone /\ d[c.file] = c.path /\ e = [d EXCEPT ![c.file] = None]

(* The records T on the way to the disk e make good what S made good on    *)
(* the way to d.                                                           *)
Extends(S, d, T, e) ==
  /\ LastSays(T, e) /\ Chained(T)
  /\ \A f \in Files :
       /\ \A v \in Paths \cup {None} : Resolves(S, d, f, v) => Resolves(T, e, f, v)
       /\ About(T, f) = {} => About(S, f) = {} /\ e[f] = d[f]

LEMMA NewRecord ==
  ASSUME NEW S \in SUBSET Step, NEW d \in [Files -> Paths \cup {None}],
         LastSays(S, d), Chained(S),
         NEW x \in Step, \A y \in S : Before(y, x),
         NEW e, Says(d, x.change, e)
  PROVE  Extends(S, d, S \cup {x}, e)
<1>1. e \in [Files -> Paths \cup {None}] /\ \A f \in Files : f # x.change.file => e[f] = d[f]
  BY GoneOrPresent DEF Says
<1>2. ASSUME NEW f \in Files, About(S \cup {x}, f) = {}
      PROVE  About(S, f) = {} /\ e[f] = d[f]
  BY <1>1, <1>2 DEF About
<1>3. CASE x.change.action \in Present
  <2>1. e = [d EXCEPT ![x.change.file] = x.change.path]
    BY <1>3, GoneOrPresent DEF Says
  <2>2. QED
    BY <1>1, <1>2, <1>3, <2>1, NewPresent DEF Extends
<1>4. CASE x.change.action \in Gone
  <2>1. d[x.change.file] = x.change.path /\ e = [d EXCEPT ![x.change.file] = None]
    BY <1>4, GoneOrPresent DEF Says
  <2>2. QED
    BY <1>1, <1>2, <1>4, <2>1, NewGone DEF Extends
<1>5. QED
  BY <1>3, <1>4 DEF Says

(* Creating, writing and removing leave one record.                        *)
LEMMA OneRecord ==
  ASSUME TypeOK, Road, armed, UNCHANGED <<queue, batch>>,
         NEW c \in Change, Record(<<c>>), Says(disk, c, disk')
  PROVE  Road' /\ Carries
<1>1. CASE overflow'
  BY <1>1, OverflowCarries
<1>2. CASE ~overflow'
  <2>1. ~overflow /\ buffer' = buffer \o <<c>> /\ <<c>> \in Seq(Change)
    BY <1>2 DEF Record
  <2>2. Lanes \in Nat /\ buffer \in Seq(Change) /\ Len(buffer) \in Nat
    BY RoadTypes DEF TypeOK
  <2> DEFINE x == [lane |-> Lanes, nth |-> Len(buffer) + 1, change |-> c]
  <2>3. x \in Step /\ x.lane = Lanes /\ x.nth = Len(buffer) + 1 /\ x.change = c
    BY <2>2 DEF Step
  <2>4. {y \in Step : /\ y.lane = Lanes
                       /\ y.nth \in Len(buffer) + 1 .. Len(buffer) + Len(<<c>>)
                       /\ y.change = <<c>>[y.nth - Len(buffer)]} = {x}
    BY <2>2, <2>3 DEF Step
  <2> HIDE DEF x
  <2>5. /\ Gapless' <=> Gapless
        /\ Track' = Track \cup {x}
        /\ \A y \in Track : y.lane < Lanes \/ (y.lane = Lanes /\ y.nth <= Len(buffer))
    BY <1>2, <2>1, <2>4, RecordMoves
  <2>6. \A y \in Track : Before(y, x)
    BY <2>2, <2>3, <2>5, TrackSteps DEF Before, Step
  <2>7. disk \in [Files -> Paths \cup {None}] /\ Track \in SUBSET Step
    BY TrackSteps DEF TypeOK
  <2>s. Says(disk, x.change, disk') /\ LastSays(Track, disk) /\ Chained(Track)
    BY <2>3 DEF Road
  <2>8. Extends(Track, disk, Track \cup {x}, disk')
    BY <2>3, <2>6, <2>7, <2>s, NewRecord
  <2>9. Extends(Track, disk, Track', disk')
    BY <2>5, <2>8
  <2>10. QED
    BY <2>5, <2>9 DEF Carries, Extends, Road
<1>3. QED
  BY <1>1, <1>2

(* A rename leaves two, and nothing comes between them.                    *)
LEMMA TwoRecords ==
  ASSUME TypeOK, Road, armed, UNCHANGED <<queue, batch>>,
         NEW b \in Change, NEW c \in Change, Record(<<b, c>>),
         NEW e \in [Files -> Paths \cup {None}], Says(disk, b, e), Says(e, c, disk')
  PROVE  Road' /\ Carries
<1>1. CASE overflow'
  BY <1>1, OverflowCarries
<1>2. CASE ~overflow'
  <2>1. ~overflow /\ buffer' = buffer \o <<b, c>> /\ <<b, c>> \in Seq(Change)
    BY <1>2 DEF Record
  <2>2. Lanes \in Nat /\ buffer \in Seq(Change) /\ Len(buffer) \in Nat
    BY RoadTypes DEF TypeOK
  <2> DEFINE x == [lane |-> Lanes, nth |-> Len(buffer) + 1, change |-> b]
             y == [lane |-> Lanes, nth |-> Len(buffer) + 2, change |-> c]
             S == Track \cup {x}
  <2>3. /\ x \in Step /\ x.lane = Lanes /\ x.nth = Len(buffer) + 1 /\ x.change = b
        /\ y \in Step /\ y.lane = Lanes /\ y.nth = Len(buffer) + 2 /\ y.change = c
    BY <2>2 DEF Step
  <2> DEFINE New == {z \in Step : /\ z.lane = Lanes
                                  /\ z.nth \in Len(buffer) + 1 .. Len(buffer) + Len(<<b, c>>)
                                  /\ z.change = <<b, c>>[z.nth - Len(buffer)]}
  <2>4. New = {x, y}
    <3>1. x \in New /\ y \in New
      BY <2>2, <2>3
    <3>2. ASSUME NEW z \in New
          PROVE  z = x \/ z = y
      <4>1. z = [lane |-> z.lane, nth |-> z.nth, change |-> z.change]
        BY DEF Step
      <4>2. z.nth = Len(buffer) + 1 \/ z.nth = Len(buffer) + 2
        BY <2>2
      <4>3. CASE z.nth = Len(buffer) + 1
        <5>1. z.lane = Lanes /\ z.change = b
          BY <2>2, <4>3
        <5>2. QED
          BY <4>1, <4>3, <5>1
      <4>4. CASE z.nth = Len(buffer) + 2
        <5>1. z.lane = Lanes /\ z.change = c
          BY <2>2, <4>4
        <5>2. QED
          BY <4>1, <4>4, <5>1
      <4>5. QED
        BY <4>2, <4>3, <4>4
    <3>3. QED
      BY <3>1, <3>2
  <2>5. /\ Gapless' <=> Gapless
        /\ Track' = Track \cup New
        /\ \A z \in Track : z.lane < Lanes \/ (z.lane = Lanes /\ z.nth <= Len(buffer))
    BY <1>2, <2>1, RecordMoves
  <2> HIDE DEF x, y, New
  <2>6. (\A z \in Track : Before(z, x)) /\ (\A z \in S : Before(z, y))
    BY <2>2, <2>3, <2>5, TrackSteps DEF Before, Step
  <2>7. disk \in [Files -> Paths \cup {None}] /\ Track \in SUBSET Step /\ S \in SUBSET Step
    BY <2>3, TrackSteps DEF TypeOK
  <2>s. /\ Says(disk, x.change, e) /\ Says(e, y.change, disk')
        /\ LastSays(Track, disk) /\ Chained(Track)
    BY <2>3 DEF Road
  <2>8. Extends(Track, disk, S, e)
    BY <2>3, <2>6, <2>7, <2>s, NewRecord
  <2> HIDE DEF S
  <2>t. LastSays(S, e) /\ Chained(S)
    BY <2>8 DEF Extends
  <2>9. Extends(S, e, S \cup {y}, disk')
    BY <2>3, <2>6, <2>7, <2>s, <2>t, NewRecord
  <2>10. Track' = S \cup {y}
    BY <2>4, <2>5 DEF S
  <2>11. Extends(Track, disk, Track', disk')
    BY <2>8, <2>9, <2>10 DEF Extends
  <2>12. QED
    BY <2>5, <2>11 DEF Carries, Extends, Road
<1>3. QED
  BY <1>1, <1>2

-----------------------------------------------------------------------------
(* The inductive invariant.                                                *)

LEMMA PhasesKept ==
  ASSUME TypeOK, Phases, [Next]_vars
  PROVE  Phases'
<1>1. ASSUME DiskMayChange, NEW r \in Seq(Change), Record(r) \/ UNCHANGED <<buffer, overflow>>
      PROVE  Phases'
  <2>1. UNCHANGED <<armed, queue, phase, startup, batch>>
    BY <1>1 DEF DiskMayChange
  <2>2. /\ ~armed => UNCHANGED <<buffer, overflow>>
        /\ overflow' => buffer' = <<>> \/ UNCHANGED <<buffer, overflow>>
    BY <1>1 DEF Record, TypeOK
  <2>3. QED
    BY <2>1, <2>2 DEF Phases, TypeOK
<1>2. CASE Environment
  <2>1. ASSUME NEW f \in Files, NEW p \in Paths,
               Create(f, p) \/ Rename(f, p) \/ Write(f) \/ Remove(f)
        PROVE  Phases'
    <3>0. disk[f] # None => disk[f] \in Paths
      BY DEF TypeOK
    <3>1. CASE Create(f, p)
      <4>1. <<Rec("Added", f, p)>> \in Seq(Change)
        BY RecType DEF Present
      <4>2. QED
        BY <3>1, <4>1, <1>1 DEF Create
    <3>2. CASE Rename(f, p)
      <4>1. <<Rec("RenamedFrom", f, disk[f]), Rec("RenamedTo", f, p)>> \in Seq(Change)
        BY <3>0, <3>2, RecType DEF Rename, Present, Gone
      <4>2. QED
        BY <3>2, <4>1, <1>1 DEF Rename
    <3>3. CASE Write(f)
      <4>1. <<Rec("Modified", f, disk[f])>> \in Seq(Change)
        BY <3>0, <3>3, RecType DEF Write, Present
      <4>2. QED
        BY <3>3, <4>1, <1>1 DEF Write
    <3>4. CASE Remove(f)
      <4>1. <<Rec("Removed", f, disk[f])>> \in Seq(Change)
        BY <3>0, <3>4, RecType DEF Remove, Gone
      <4>2. QED
        BY <3>4, <4>1, <1>1 DEF Remove
    <3>5. QED
      BY <2>1, <3>1, <3>2, <3>3, <3>4
  <2>2. ASSUME NEW f \in Files, Write(f) \/ Remove(f)
        PROVE  Phases'
    <3>1. disk[f] \in Paths
      BY <2>2 DEF Write, Remove, TypeOK
    <3>2. QED
      BY <2>1, <2>2, <3>1
  <2>3. ASSUME NEW x \in Dirs \cup Paths, SetAccess(x)
        PROVE  Phases'
    <3>1. <<>> \in Seq(Change)
      OBVIOUS
    <3>2. DiskMayChange /\ UNCHANGED <<buffer, overflow>>
      BY <2>3 DEF SetAccess
    <3>3. QED
      BY <1>1, <3>1, <3>2
  <2>4. CASE Crash
    BY <2>4 DEF Crash, Phases
  <2>5. QED
    BY <1>2, <2>1, <2>2, <2>3, <2>4 DEF Environment
<1>3. CASE ReadNext
  <2>1. /\ queue \in Seq(Batch)
        /\ queue' = Append(queue, [gap |-> overflow, changes |-> buffer])
        /\ overflow => buffer = <<>>
    BY <1>3 DEF ReadNext, TypeOK, Batch, Phases
  <2>2. \A i \in DOMAIN queue' : queue'[i].gap => queue'[i].changes = <<>>
    <3>1. ASSUME NEW i \in DOMAIN queue', queue'[i].gap
          PROVE  queue'[i].changes = <<>>
      <4>1. CASE i \in DOMAIN queue
        <5>1. queue'[i] = queue[i]
          BY <2>1, <4>1
        <5>2. QED
          BY <3>1, <4>1, <5>1 DEF Phases
      <4>2. CASE i = Len(queue) + 1
        <5>1. queue'[i] = [gap |-> overflow, changes |-> buffer]
          BY <2>1, <4>2
        <5>2. QED
          BY <2>1, <3>1, <5>1
      <4>3. QED
        BY <2>1, <4>1, <4>2
    <3>2. QED
      BY <3>1
  <2>3. armed /\ UNCHANGED <<armed, phase, startup, batch>> /\ buffer' = <<>>
    BY <1>3 DEF ReadNext
  <2>4. QED
    BY <2>2, <2>3 DEF Phases
<1>4. CASE TakeBatch
  <2>1. /\ queue \in Seq(Batch) /\ queue # <<>> /\ queue' = Tail(queue)
        /\ phase = "loop" /\ batch = <<>>
        /\ UNCHANGED <<armed, buffer, overflow>>
    BY <1>4 DEF TakeBatch, TypeOK, Batch, kernelVars
  <2>2. \A i \in DOMAIN queue' : i + 1 \in DOMAIN queue /\ queue'[i] = queue[i + 1]
    BY <2>1
  <2>3. \A i \in DOMAIN queue' : queue'[i].gap => queue'[i].changes = <<>>
    BY <2>2 DEF Phases
  <2>4. phase' # "loop" => batch' = <<>>
    BY <1>4, <2>1 DEF TakeBatch
  <2>5. phase' \in {"scan", "loop"} /\ armed
    BY <1>4, <2>1 DEF TakeBatch, Phases
  <2>6. QED
    BY <2>1, <2>3, <2>4, <2>5 DEF Phases
<1>5. CASE Open \/ Reconcile \/ Arm
  <2>1. UNCHANGED <<buffer, overflow, queue, batch>>
    BY <1>5 DEF Open, Reconcile, Arm, ListDirectory, InspectEntry, Compare, ApplyInsert,
                ApplyDelete,
                FinishReconcile, kernelVars
  <2>2. phase # "loop" /\ phase' # "down"
    BY <1>5 DEF Open, Reconcile, Arm, ListDirectory, InspectEntry, Compare, ApplyInsert,
                ApplyDelete,
                FinishReconcile
  <2>3. /\ armed => armed'
        /\ phase' = "loop" => armed'
        /\ phase' \in {"scan", "apply"} => startup' \/ armed'
    <3>1. CASE FinishReconcile
      BY <3>1 DEF FinishReconcile, Phases, kernelVars
    <3>2. CASE Arm \/ Open
      BY <3>2 DEF Arm, Open, kernelVars
    <3>3. CASE Reconcile /\ ~FinishReconcile
      <4>1. UNCHANGED <<armed, startup>> /\ {phase, phase'} \subseteq {"scan", "apply"}
        BY <3>3 DEF Reconcile, ListDirectory, InspectEntry, Compare, ApplyInsert, ApplyDelete,
                    kernelVars
      <4>2. QED
        BY <4>1 DEF Phases
    <3>4. QED
      BY <1>5, <3>1, <3>2, <3>3
  <2>4. QED
    BY <2>1, <2>2, <2>3 DEF Phases
<1>6. CASE IngestChange
  BY <1>6 DEF IngestChange, kernelVars, Phases
<1>7. CASE UNCHANGED vars
  BY <1>7 DEF vars, Phases
<1>8. QED
  BY <1>2, <1>3, <1>4, <1>5, <1>6, <1>7 DEF Next, Agent

(* The promises survive a step that leaves the scan and the store alone.   *)
LEMMA PromisesCarried ==
  ASSUME TypeOK, Promises, Carries, UNCHANGED <<phase, scan, active, required>>
  PROVE  Promises'
<1>1. \A loc \in Files \X Paths : loc[1] \in Files /\ loc[2] \in Paths
  OBVIOUS
<1>2. \A f \in Files : active[f] \in Paths \cup {None}
  BY DEF TypeOK
<1>3. scan.seen \subseteq Files \X Paths /\ scan.insert \subseteq Files \X Paths
      /\ scan.delete \subseteq Files \X Paths
  BY DEF TypeOK
<1>4. Scanned'
  <2>1. SUFFICES ASSUME phase = "scan", Gapless'
                 PROVE  /\ \A loc \in scan.seen : Resolves(Track', disk', loc[1], loc[2])
                        /\ \A f \in Files :
                             \/ About(Track', f) # {}
                             \/ disk'[f] = None
                             \/ DirOf[disk'[f]] \in scan.todo
                             \/ \E loc \in scan.listed : loc[2] = disk'[f]
                             \/ f \in Folders
                             \/ <<f, disk'[f]>> \in scan.seen
                             \/ UnderIssue(disk'[f])
    BY DEF Scanned, UnderIssue
  <2>2. /\ \A loc \in scan.seen : Resolves(Track, disk, loc[1], loc[2])
        /\ \A f \in Files :
             \/ About(Track, f) # {}
             \/ disk[f] = None
             \/ DirOf[disk[f]] \in scan.todo
             \/ \E loc \in scan.listed : loc[2] = disk[f]
             \/ f \in Folders
             \/ <<f, disk[f]>> \in scan.seen
             \/ UnderIssue(disk[f])
    BY <2>1 DEF Promises, Carries, Scanned
  <2>3. \A loc \in scan.seen : Resolves(Track', disk', loc[1], loc[2])
    BY <1>1, <1>3, <2>1, <2>2 DEF Carries
  <2>4. \A f \in Files : About(Track', f) = {} => About(Track, f) = {} /\ disk'[f] = disk[f]
    BY <2>1 DEF Carries
  <2>5. QED
    BY <2>2, <2>3, <2>4
<1>5. Compared'
  <2>1. SUFFICES ASSUME phase = "apply", Gapless'
                 PROVE  /\ \A loc \in scan.insert : Resolves(Track', disk', loc[1], loc[2])
                        /\ \A loc \in scan.delete :
                             About(Track', loc[1]) # {} \/ disk'[loc[1]] # loc[2]
                             \/ loc[1] \in Folders
                        /\ scan.issues = {} =>
                             \A f \in Files :
                               \/ \E loc \in scan.insert : loc[1] = f
                               \/ Resolves(Track', disk', f, active[f])
                               \/ /\ <<f, active[f]>> \in scan.delete
                                  /\ Resolves(Track', disk', f, None)
    BY DEF Compared
  <2>2. /\ \A loc \in scan.insert : Resolves(Track, disk, loc[1], loc[2])
        /\ \A loc \in scan.delete :
             About(Track, loc[1]) # {} \/ disk[loc[1]] # loc[2] \/ loc[1] \in Folders
        /\ scan.issues = {} =>
             \A f \in Files :
               \/ \E loc \in scan.insert : loc[1] = f
               \/ Resolves(Track, disk, f, active[f])
               \/ <<f, active[f]>> \in scan.delete /\ Resolves(Track, disk, f, None)
    BY <2>1 DEF Promises, Carries, Compared
  <2>3. \A loc \in scan.insert : Resolves(Track', disk', loc[1], loc[2])
    BY <1>1, <1>3, <2>1, <2>2 DEF Carries
  <2>4. \A f \in Files : /\ About(Track', f) = {} => About(Track, f) = {} /\ disk'[f] = disk[f]
                         /\ Resolves(Track, disk, f, active[f]) =>
                              Resolves(Track', disk', f, active[f])
                         /\ Resolves(Track, disk, f, None) => Resolves(Track', disk', f, None)
    BY <1>2, <2>1 DEF Carries
  <2>5. \A loc \in scan.delete :
          About(Track', loc[1]) # {} \/ disk'[loc[1]] # loc[2] \/ loc[1] \in Folders
    BY <1>1, <1>3, <2>2, <2>4
  <2>6. QED
    BY <2>2, <2>3, <2>4, <2>5
<1>6. Follows'
  BY <1>2 DEF Promises, Carries, Follows
<1>7. QED
  BY <1>4, <1>5, <1>6 DEF Promises

LEMMA StillCarries ==
  ASSUME Road, Track' = Track, Gapless' <=> Gapless, UNCHANGED disk
  PROVE  Road' /\ Carries
BY DEF Road, Carries

(* What the disk does is recorded, unless no one claims to know the disk.  *)
LEMMA DiskKeeps ==
  ASSUME QuietStartup, TypeOK, IInv, DiskMayChange, armed => Road' /\ Carries, Phases'
  PROVE  IInv'
<1>1. CASE armed
  BY <1>1, PromisesCarried DEF IInv, DiskMayChange, storeVars
<1>2. CASE ~armed
  <2>1. phase = "down" /\ phase' = "down"
    BY <1>2 DEF DiskMayChange
  <2>2. buffer' = <<>> /\ queue' = <<>> /\ batch' = <<>>
    BY <1>2, <2>1 DEF Phases, DiskMayChange
  <2>3. Road'
    BY <2>2, NothingMovesAfter, NoRoad
  <2>4. Promises'
    BY <2>1 DEF Promises, Scanned, Compared, Follows
  <2>5. QED
    BY <2>3, <2>4 DEF IInv
<1>3. QED
  BY <1>1, <1>2

LEMMA EnvironmentKeeps ==
  ASSUME QuietStartup, TypeOK, TypeOK', IInv, Environment
  PROVE  IInv'
<1>0. Phases'
  BY PhasesKept DEF IInv, Next
<1>1. ASSUME NEW f \in Files, NEW p \in Paths, Create(f, p)
      PROVE  IInv'
  <2> DEFINE c == Rec("Added", f, p)
  <2>1. c \in Change /\ c.action \in Present /\ c.file = f /\ c.path = p
    BY RecType DEF Present, Rec
  <2>2. Says(disk, c, disk')
    BY <1>1, <2>1 DEF Create, Says
  <2>3. DiskMayChange /\ Record(<<c>>) /\ UNCHANGED <<queue, batch>>
    BY <1>1 DEF Create, DiskMayChange
  <2> HIDE DEF c
  <2>4. armed => Road' /\ Carries
    BY <2>1, <2>2, <2>3, OneRecord DEF IInv
  <2>5. QED
    BY <1>0, <2>3, <2>4, DiskKeeps
<1>2. ASSUME NEW f \in Files, NEW p \in Paths, Rename(f, p)
      PROVE  IInv'
  <2> DEFINE b == Rec("RenamedFrom", f, disk[f])
             c == Rec("RenamedTo", f, p)
             e == [disk EXCEPT ![f] = None]
  <2>0. disk[f] \in Paths /\ disk \in [Files -> Paths \cup {None}]
    BY <1>2 DEF Rename, TypeOK
  <2>1. /\ b \in Change /\ b.action \in Gone /\ b.file = f /\ b.path = disk[f]
        /\ c \in Change /\ c.action \in Present /\ c.file = f /\ c.path = p
    BY <2>0, RecType DEF Present, Gone, Rec
  <2>2. e \in [Files -> Paths \cup {None}] /\ disk' = [e EXCEPT ![f] = p]
    BY <1>2, <2>0 DEF Rename
  <2>3. Says(disk, b, e) /\ Says(e, c, disk')
    BY <2>1, <2>2 DEF Says
  <2>4. DiskMayChange /\ Record(<<b, c>>) /\ UNCHANGED <<queue, batch>>
    BY <1>2 DEF Rename, DiskMayChange
  <2> HIDE DEF b, c, e
  <2>5. armed => Road' /\ Carries
    BY <2>1, <2>2, <2>3, <2>4, TwoRecords DEF IInv
  <2>6. QED
    BY <1>0, <2>4, <2>5, DiskKeeps
<1>3. ASSUME NEW f \in Files, Write(f)
      PROVE  IInv'
  <2> DEFINE c == Rec("Modified", f, disk[f])
  <2>0. disk[f] \in Paths /\ disk \in [Files -> Paths \cup {None}] /\ disk' = disk
    BY <1>3 DEF Write, TypeOK
  <2>1. c \in Change /\ c.action \in Present /\ c.file = f /\ c.path = disk[f]
    BY <2>0, RecType DEF Present, Rec
  <2>2. Says(disk, c, disk')
    BY <2>0, <2>1 DEF Says
  <2>3. DiskMayChange /\ Record(<<c>>) /\ UNCHANGED <<queue, batch>>
    BY <1>3 DEF Write, DiskMayChange
  <2> HIDE DEF c
  <2>4. armed => Road' /\ Carries
    BY <2>1, <2>2, <2>3, OneRecord DEF IInv
  <2>5. QED
    BY <1>0, <2>3, <2>4, DiskKeeps
<1>4. ASSUME NEW f \in Files, Remove(f)
      PROVE  IInv'
  <2> DEFINE c == Rec("Removed", f, disk[f])
  <2>0. disk[f] \in Paths /\ disk' = [disk EXCEPT ![f] = None]
    BY <1>4 DEF Remove, TypeOK
  <2>1. c \in Change /\ c.action \in Gone /\ c.file = f /\ c.path = disk[f]
    BY <2>0, RecType DEF Gone, Rec
  <2>2. Says(disk, c, disk')
    BY <2>0, <2>1 DEF Says
  <2>3. DiskMayChange /\ Record(<<c>>) /\ UNCHANGED <<queue, batch>>
    BY <1>4 DEF Remove, DiskMayChange
  <2> HIDE DEF c
  <2>4. armed => Road' /\ Carries
    BY <2>1, <2>2, <2>3, OneRecord DEF IInv
  <2>5. QED
    BY <1>0, <2>3, <2>4, DiskKeeps
<1>5. ASSUME NEW x \in Dirs \cup Paths, SetAccess(x)
      PROVE  IInv'
  <2>1. DiskMayChange /\ UNCHANGED <<disk, buffer, overflow, queue, batch>>
    BY <1>5 DEF SetAccess, DiskMayChange
  <2>2. Road' /\ Carries
    BY <2>1, Unmoved, StillCarries DEF IInv
  <2>3. QED
    BY <1>0, <2>1, <2>2, DiskKeeps
<1>6. CASE Crash
  <2>1. Road'
    BY <1>6, NothingMovesAfter, NoRoad DEF Crash
  <2>2. Promises'
    BY <1>6 DEF Crash, Promises, Scanned, Compared, Follows
  <2>3. QED
    BY <1>0, <2>1, <2>2 DEF IInv
<1>7. QED
  BY <1>1, <1>2, <1>3, <1>4, <1>5, <1>6 DEF Environment

(* A look at the disk is always right.                                     *)
LEMMA DiskResolves ==
  ASSUME TypeOK, Road, NEW f \in Files
  PROVE  Resolves(Track, disk, f, disk[f])
<1>1. ASSUME NEW x \in About(Track, f), About(Track, f) = {x}, x.change.action \in Gone
      PROVE  disk[f] = None
  <2>1. x \in Track /\ x \in Step /\ x.change.file = f
    BY TrackSteps DEF About
  <2>2. \A y \in About(Track, x.change.file) : ~Before(x, y)
    BY <1>1, <2>1, BeforeOrder
  <2>3. QED
    BY <1>1, <2>1, <2>2 DEF Road, LastSays
<1>2. QED
  BY <1>1 DEF Resolves

(* Once there is a record about a file, nothing at all will do, and for a  *)
(* folder it always does.                                                  *)
LEMMA NoneResolves ==
  ASSUME NEW f \in Files, About(Track, f) # {} \/ disk[f] = None \/ f \in Folders
  PROVE  Resolves(Track, disk, f, None)
BY DEF Resolves

(* A scan begins: every file is in a directory still to be listed.         *)
LEMMA ScanBegins ==
  ASSUME TypeOK', phase' = "scan", scan' = NewScan
  PROVE  Promises'
<1>1. scan'.seen = {} /\ scan'.todo = Dirs
  BY DEF NewScan, NoScan
<1>2. \A f \in Files : disk'[f] # None => DirOf[disk'[f]] \in Dirs
  BY DirOfAssumption DEF TypeOK
<1>3. QED
  BY <1>1, <1>2 DEF Promises, Scanned, Compared, Follows

(* What the scan still owes a file, and that one look at the disk keeps    *)
(* the promises if it keeps that.                                          *)
Owed(sc, f) ==
  \/ About(Track, f) # {}
  \/ disk[f] = None
  \/ DirOf[disk[f]] \in sc.todo
  \/ \E loc \in sc.listed : loc[2] = disk[f]
  \/ f \in Folders
  \/ <<f, disk[f]>> \in sc.seen
  \/ disk[f] \in sc.issues
  \/ DirOf[disk[f]] \in sc.issues

LEMMA LookKeeps ==
  ASSUME TypeOK, IInv, phase = "scan",
         UNCHANGED <<diskVars, kernelVars, queue, phase, batch>>,
         \A loc \in scan'.seen :
           loc \in scan.seen \/ (loc[1] \in Files /\ disk[loc[1]] = loc[2]),
         \A f \in Files : Owed(scan, f) => Owed(scan', f)
  PROVE  Promises'
<1>1. phase' = "scan" /\ disk' = disk /\ Track' = Track /\ Gapless' = Gapless
  BY Unmoved DEF diskVars, kernelVars
<1>2. SUFFICES ASSUME Gapless
               PROVE  /\ \A loc \in scan'.seen : Resolves(Track, disk, loc[1], loc[2])
                      /\ \A f \in Files : Owed(scan', f)
  BY <1>1 DEF Promises, Scanned, Compared, Follows, UnderIssue, Owed
<1>3. /\ \A loc \in scan.seen : Resolves(Track, disk, loc[1], loc[2])
      /\ \A f \in Files : Owed(scan, f)
  BY <1>2 DEF IInv, Promises, Scanned, UnderIssue, Owed
<1>4. ASSUME NEW loc \in scan'.seen
      PROVE  Resolves(Track, disk, loc[1], loc[2])
  BY <1>3, DiskResolves DEF IInv
<1>5. QED
  BY <1>3, <1>4

LEMMA ListDirectoryKeeps ==
  ASSUME TypeOK, IInv, NEW d \in Dirs, ListDirectory(d)
  PROVE  Promises'
<1>1. scan \in ScanType /\ \A f \in Files : disk[f] \in Paths \cup {None}
  BY DEF TypeOK, ScanType
<1>2. /\ scan'.todo = scan.todo \ {d} /\ scan'.seen = scan.seen /\ scan.listed = {}
      /\ d \in denied => scan'.issues = scan.issues \cup {d}
      /\ d \notin denied =>
           /\ scan'.issues = scan.issues
           /\ scan'.listed = {loc \in Files \X Paths : disk[loc[1]] = loc[2] /\ DirOf[loc[2]] = d}
  BY <1>1 DEF ListDirectory, ScanType
<1>3. ASSUME NEW f \in Files, Owed(scan, f)
      PROVE  Owed(scan', f)
  <2>1. CASE disk[f] # None /\ DirOf[disk[f]] = d /\ d \in denied
    BY <1>2, <2>1 DEF Owed
  <2>2. CASE disk[f] # None /\ DirOf[disk[f]] = d /\ d \notin denied
    <3>1. <<f, disk[f]>> \in scan'.listed /\ <<f, disk[f]>>[2] = disk[f]
      BY <1>1, <1>2, <2>2
    <3>2. QED
      BY <3>1 DEF Owed
  <2>3. CASE disk[f] = None \/ DirOf[disk[f]] # d
    BY <1>2, <1>3, <2>3 DEF Owed
  <2>4. QED
    BY <2>1, <2>2, <2>3
<1>4. /\ phase = "scan"
      /\ UNCHANGED <<diskVars, kernelVars, queue, phase, batch>>
  BY DEF ListDirectory
<1>5. QED
  BY <1>2, <1>3, <1>4, LookKeeps

LEMMA InspectEntryKeeps ==
  ASSUME TypeOK, IInv, NEW l \in Files \X Paths, InspectEntry(l)
  PROVE  Promises'
<1> DEFINE p == l[2]
           sound == /\ p \notin denied
                    /\ At(p) # {}
                    /\ \A f \in At(p) : f \in Folders <=> l[1] \in Folders
<1>1. scan \in ScanType
  BY DEF TypeOK, ScanType
<1>2. /\ phase = "scan"
      /\ UNCHANGED <<diskVars, kernelVars, queue, phase, batch>>
      /\ scan' = IF sound
                 THEN [scan EXCEPT !.listed = @ \ {l},
                                   !.seen = @ \cup ((At(p) \ Folders) \X {p})]
                 ELSE [scan EXCEPT !.listed = @ \ {l}, !.issues = @ \cup {p}]
  BY DEF InspectEntry
<1> HIDE DEF sound
<1>3. /\ scan'.todo = scan.todo /\ scan'.listed = scan.listed \ {l}
      /\ sound => /\ scan'.seen = scan.seen \cup ((At(p) \ Folders) \X {p})
                  /\ scan'.issues = scan.issues
      /\ ~sound => scan'.seen = scan.seen /\ scan'.issues = scan.issues \cup {p}
  BY <1>1, <1>2 DEF ScanType
<1>4. ASSUME NEW loc \in scan'.seen
      PROVE  loc \in scan.seen \/ (loc[1] \in Files /\ disk[loc[1]] = loc[2])
  BY <1>3 DEF At
<1>5. ASSUME NEW f \in Files, Owed(scan, f)
      PROVE  Owed(scan', f)
  <2>1. CASE disk[f] = p /\ f \notin Folders
    <3>1. f \in At(p) \ Folders
      BY <2>1 DEF At
    <3>2. CASE sound
      <4>1. <<f, p>> \in (At(p) \ Folders) \X {p}
        BY <3>1
      <4>2. QED
        BY <1>3, <2>1, <3>2, <4>1 DEF Owed
    <3>3. CASE ~sound
      BY <1>3, <2>1, <3>3 DEF Owed
    <3>4. QED
      BY <3>2, <3>3
  <2>2. CASE disk[f] # p \/ f \in Folders
    BY <1>3, <1>5, <2>2 DEF Owed
  <2>3. QED
    BY <2>1, <2>2
<1>6. QED
  BY <1>2, <1>4, <1>5, LookKeeps

LEMMA CompareKeeps ==
  ASSUME TypeOK, IInv, Compare
  PROVE  Promises'
<1>1. /\ phase = "scan" /\ phase' = "apply" /\ disk' = disk /\ active' = active
      /\ Track' = Track /\ Gapless' = Gapless /\ scan.todo = {} /\ scan.listed = {}
  BY Unmoved DEF Compare, diskVars, kernelVars, storeVars
<1>2. scan \in ScanType
  BY DEF TypeOK, ScanType
<1>3. /\ scan'.insert = scan.seen \ ActiveLocations
      /\ scan'.delete = {loc \in ActiveLocations : loc \notin scan.seen /\ ~UnderIssue(loc[2])}
      /\ scan'.issues = scan.issues
  BY <1>2 DEF Compare, ScanType
<1>4. SUFFICES ASSUME Gapless
               PROVE  /\ \A loc \in scan'.insert : Resolves(Track, disk, loc[1], loc[2])
                      /\ \A loc \in scan'.delete :
                           About(Track, loc[1]) # {} \/ disk[loc[1]] # loc[2] \/ loc[1] \in Folders
                      /\ scan'.issues = {} =>
                           \A f \in Files :
                             \/ \E loc \in scan'.insert : loc[1] = f
                             \/ Resolves(Track, disk, f, active[f])
                             \/ /\ <<f, active[f]>> \in scan'.delete
                                /\ Resolves(Track, disk, f, None)
  BY <1>1 DEF Promises, Scanned, Compared, Follows
<1>5. /\ \A loc \in scan.seen : Resolves(Track, disk, loc[1], loc[2])
      /\ \A f \in Files :
           \/ About(Track, f) # {}
           \/ disk[f] = None
           \/ f \in Folders
           \/ <<f, disk[f]>> \in scan.seen
           \/ UnderIssue(disk[f])
  BY <1>1, <1>4 DEF IInv, Promises, Scanned
<1>6. ASSUME NEW loc \in scan'.delete
      PROVE  About(Track, loc[1]) # {} \/ disk[loc[1]] # loc[2] \/ loc[1] \in Folders
  <2>1. PICK f \in Files : active[f] # None /\ loc = <<f, active[f]>>
    BY <1>3 DEF ActiveLocations
  <2>2. loc[1] = f /\ loc[2] = active[f]
    BY <2>1
  <2>3. ~UnderIssue(active[f]) /\ <<f, active[f]>> \notin scan.seen
    BY <1>3, <2>1, <2>2
  <2>4. QED
    BY <1>5, <2>1, <2>2, <2>3
<1>7. ASSUME scan.issues = {}, NEW f \in Files
      PROVE  \/ \E loc \in scan'.insert : loc[1] = f
             \/ Resolves(Track, disk, f, active[f])
             \/ <<f, active[f]>> \in scan'.delete /\ Resolves(Track, disk, f, None)
  <2>0. \A p : ~UnderIssue(p)
    BY <1>7 DEF UnderIssue
  <2>1. CASE <<f, active[f]>> \in scan.seen
    <3>1. <<f, active[f]>>[1] = f /\ <<f, active[f]>>[2] = active[f]
      OBVIOUS
    <3>2. QED
      BY <1>5, <2>1, <3>1
  <2>2. CASE <<f, active[f]>> \notin scan.seen /\ <<f, disk[f]>> \in scan.seen
    <3>1. <<f, disk[f]>> \notin ActiveLocations
      BY <2>2 DEF ActiveLocations
    <3>2. <<f, disk[f]>> \in scan'.insert /\ <<f, disk[f]>>[1] = f
      BY <1>3, <2>2, <3>1
    <3>3. QED
      BY <3>2
  <2>3. CASE <<f, active[f]>> \notin scan.seen /\ <<f, disk[f]>> \notin scan.seen
    <3>1. Resolves(Track, disk, f, None)
      BY <1>5, <2>0, <2>3, NoneResolves
    <3>2. active[f] # None => <<f, active[f]>> \in scan'.delete
      BY <1>3, <2>0, <2>3 DEF ActiveLocations
    <3>3. QED
      BY <3>1, <3>2
  <2>4. QED
    BY <2>1, <2>2, <2>3
<1>8. QED
  BY <1>3, <1>5, <1>6, <1>7

LEMMA ApplyInsertKeeps ==
  ASSUME TypeOK, IInv, NEW l \in Files \X Paths, ApplyInsert(l)
  PROVE  Promises'
<1>1. /\ phase = "apply" /\ phase' = "apply" /\ disk' = disk
      /\ Track' = Track /\ Gapless' = Gapless /\ l \in scan.insert
  BY Unmoved DEF ApplyInsert, diskVars, kernelVars
<1>2. scan \in ScanType /\ l[1] \in Files /\ active \in [Files -> Paths \cup {None}]
  BY DEF TypeOK, ScanType
<1>3. /\ scan'.insert = scan.insert \ {l}
      /\ scan'.delete = scan.delete
      /\ scan'.issues = scan.issues
      /\ active'[l[1]] = l[2]
      /\ \A f \in Files : f # l[1] => active'[f] = active[f]
  BY <1>2 DEF ApplyInsert, ScanType, Observed
<1>4. SUFFICES ASSUME Gapless
               PROVE  /\ \A loc \in scan'.insert : Resolves(Track, disk, loc[1], loc[2])
                      /\ \A loc \in scan'.delete :
                           About(Track, loc[1]) # {} \/ disk[loc[1]] # loc[2] \/ loc[1] \in Folders
                      /\ scan'.issues = {} =>
                           \A f \in Files :
                             \/ \E loc \in scan'.insert : loc[1] = f
                             \/ Resolves(Track, disk, f, active'[f])
                             \/ /\ <<f, active'[f]>> \in scan'.delete
                                /\ Resolves(Track, disk, f, None)
  BY <1>1 DEF Promises, Scanned, Compared, Follows
<1>5. /\ \A loc \in scan.insert : Resolves(Track, disk, loc[1], loc[2])
      /\ \A loc \in scan.delete :
           About(Track, loc[1]) # {} \/ disk[loc[1]] # loc[2] \/ loc[1] \in Folders
      /\ scan.issues = {} =>
           \A f \in Files :
             \/ \E loc \in scan.insert : loc[1] = f
             \/ Resolves(Track, disk, f, active[f])
             \/ <<f, active[f]>> \in scan.delete /\ Resolves(Track, disk, f, None)
  BY <1>1, <1>4 DEF IInv, Promises, Compared
<1>6. ASSUME scan.issues = {}, NEW f \in Files
      PROVE  \/ \E loc \in scan'.insert : loc[1] = f
             \/ Resolves(Track, disk, f, active'[f])
             \/ <<f, active'[f]>> \in scan'.delete /\ Resolves(Track, disk, f, None)
  <2>1. CASE f = l[1]
    BY <1>1, <1>3, <1>5, <2>1
  <2>2. CASE f # l[1]
    BY <1>3, <1>5, <1>6, <2>2
  <2>3. QED
    BY <2>1, <2>2
<1>7. QED
  BY <1>3, <1>5, <1>6

LEMMA ApplyDeleteKeeps ==
  ASSUME TypeOK, IInv, NEW l \in Files \X Paths, ApplyDelete(l)
  PROVE  Promises'
<1>1. /\ phase = "apply" /\ phase' = "apply" /\ disk' = disk /\ scan.insert = {}
      /\ Track' = Track /\ Gapless' = Gapless /\ l \in scan.delete
  BY Unmoved DEF ApplyDelete, diskVars, kernelVars
<1>2. /\ scan \in ScanType /\ l[1] \in Files /\ active \in [Files -> Paths \cup {None}]
      /\ l = <<l[1], l[2]>>
  BY DEF TypeOK, ScanType
<1>3. /\ scan'.insert = {}
      /\ scan'.delete = scan.delete \ {l}
      /\ scan'.issues = scan.issues
      /\ active'[l[1]] = IF active[l[1]] = l[2] THEN None ELSE active[l[1]]
      /\ \A f \in Files : f # l[1] => active'[f] = active[f]
  BY <1>1, <1>2 DEF ApplyDelete, ScanType, Deleted
<1>4. SUFFICES ASSUME Gapless
               PROVE  /\ \A loc \in scan'.delete :
                           About(Track, loc[1]) # {} \/ disk[loc[1]] # loc[2] \/ loc[1] \in Folders
                      /\ scan'.issues = {} =>
                           \A f \in Files :
                             \/ Resolves(Track, disk, f, active'[f])
                             \/ /\ <<f, active'[f]>> \in scan'.delete
                                /\ Resolves(Track, disk, f, None)
  BY <1>1, <1>3 DEF Promises, Scanned, Compared, Follows
<1>5. /\ \A loc \in scan.delete :
           About(Track, loc[1]) # {} \/ disk[loc[1]] # loc[2] \/ loc[1] \in Folders
      /\ scan.issues = {} =>
           \A f \in Files :
             \/ Resolves(Track, disk, f, active[f])
             \/ <<f, active[f]>> \in scan.delete /\ Resolves(Track, disk, f, None)
  BY <1>1, <1>4 DEF IInv, Promises, Compared
<1>6. ASSUME scan.issues = {}, NEW f \in Files
      PROVE  \/ Resolves(Track, disk, f, active'[f])
             \/ <<f, active'[f]>> \in scan'.delete /\ Resolves(Track, disk, f, None)
  <2>1. CASE f = l[1] /\ active[f] = l[2]
    <3>1. active'[f] = None
      BY <1>3, <2>1
    <3>2. CASE About(Track, f) # {}
      BY <3>1, <3>2, NoneResolves
    <3>5. CASE f \in Folders
      BY <3>1, <3>5, NoneResolves
    <3>3. CASE About(Track, f) = {} /\ f \notin Folders
      <4>1. disk[f] # active[f]
        BY <1>1, <1>5, <2>1, <3>3
      <4>2. ~Resolves(Track, disk, f, active[f])
        BY <3>3, <4>1 DEF Resolves
      <4>3. QED
        BY <1>5, <1>6, <3>1, <4>2
    <3>4. QED
      BY <3>2, <3>3, <3>5
  <2>2. CASE f # l[1] \/ active[f] # l[2]
    <3>1. active'[f] = active[f]
      BY <1>3, <2>2
    <3>2. <<f, active[f]>> # l
      BY <1>2, <2>2
    <3>3. QED
      BY <1>3, <1>5, <1>6, <3>1, <3>2
  <2>3. QED
    BY <2>1, <2>2
<1>7. QED
  BY <1>3, <1>5, <1>6

LEMMA TakeBatchKeeps ==
  ASSUME TypeOK, TypeOK', IInv, TakeBatch
  PROVE  Road' /\ Promises'
<1>0. disk' = disk /\ active' = active
  BY DEF TakeBatch, diskVars
<1>1. PICK m : Renumbers(m, Track, Track')
  BY TakeBatchMoves DEF IInv
<1>2. /\ LastSays(Track, disk) => LastSays(Track', disk)
      /\ Chained(Track) => Chained(Track')
      /\ \A f, v : Resolves(Track, disk, f, v) => Resolves(Track', disk, f, v)
  BY <1>1, TrackSteps, Renumbered
<1>3. Road'
  BY <1>0, <1>2 DEF IInv, Road
<1>4. CASE Head(queue).gap
  <2>1. phase' = "scan" /\ scan' = NewScan
    BY <1>4 DEF TakeBatch
  <2>2. QED
    BY <2>1, <1>3, ScanBegins
<1>5. CASE ~Head(queue).gap
  <2>1. phase = "loop" /\ phase' = "loop" /\ required' = required
    BY <1>5 DEF TakeBatch
  <2>2. Gapless' => Gapless
    BY <1>5, TakeBatchMoves DEF IInv
  <2>3. Follows'
    BY <2>1, <2>2, <1>0, <1>2 DEF IInv, Promises, Follows
  <2>4. QED
    BY <1>3, <2>1, <2>3 DEF Promises, Scanned, Compared
<1>6. QED
  BY <1>4, <1>5

LEMMA IngestKeeps ==
  ASSUME TypeOK, IInv, IngestChange
  PROVE  Road' /\ Promises'
<1> DEFINE S == Track \ {FirstStep}
           c == Head(batch)
<1>0. /\ disk' = disk /\ required' = required /\ phase' = "loop"
      /\ disk \in [Files -> Paths \cup {None}] /\ active \in [Files -> Paths \cup {None}]
      /\ Track \in SUBSET Step /\ S \in SUBSET Step
  BY TrackSteps DEF IngestChange, diskVars, TypeOK
<1>c. c \in Change
  BY DEF IngestChange, TypeOK
<1>1. c \in Change /\ c.file \in Files
  BY <1>c DEF Change
<1>2. \A f \in Files : active'[f] = IF f = c.file THEN After(c, active[f]) ELSE active[f]
  BY <1>0, <1>1 DEF IngestChange, Observed, Deleted, After
<1>3. PICK m : Renumbers(m, S, Track')
  BY IngestMoves
<1>4. /\ LastSays(S, disk) => LastSays(Track', disk)
      /\ Chained(S) => Chained(Track')
      /\ \A f, v : Resolves(S, disk, f, v) => Resolves(Track', disk, f, v)
  BY <1>0, <1>3, TrackSteps, Renumbered
<1>5. LastSays(Track, disk) /\ Chained(Track)
  BY DEF IInv, Road
<1>6. CASE FirstStep \in Track
  <2>0. FirstStep.change = c /\ \A y \in Track : y # FirstStep => Before(FirstStep, y)
    BY IngestMoves DEF FirstStep
  <2>1. /\ LastSays(S, disk)
        /\ Chained(S)
        /\ \A f \in Files, v \in Paths \cup {None} :
             Resolves(Track, disk, f, v) =>
               Resolves(S, disk, f, IF f = FirstStep.change.file
                                    THEN After(FirstStep.change, v) ELSE v)
    BY <1>0, <1>5, <1>6, <2>0, FirstTaken
  <2>2. \A f \in Files : Resolves(Track, disk, f, active[f]) =>
                           Resolves(S, disk, f, active'[f])
    BY <1>0, <1>2, <2>0, <2>1
  <2>3. Road'
    BY <1>0, <1>4, <2>1 DEF Road
  <2>4. Gapless' => Gapless
    BY IngestMoves
  <2>5. phase = "loop"
    BY DEF IngestChange
  <2>6. Follows'
    BY <1>0, <1>4, <2>2, <2>4, <2>5 DEF IInv, Promises, Follows
  <2>7. QED
    BY <1>0, <2>3, <2>6 DEF Promises, Scanned, Compared
<1>7. CASE FirstStep \notin Track
  <2>1. S = Track
    BY <1>7
  <2>2. Road'
    BY <1>0, <1>4, <1>5, <2>1 DEF Road
  <2>3. ~Gapless'
    BY <1>7, IngestMoves
  <2>4. QED
    BY <1>0, <2>2, <2>3 DEF Promises, Scanned, Compared, Follows
<1>8. QED
  BY <1>6, <1>7

LEMMA AgentKeeps ==
  ASSUME TypeOK, TypeOK', IInv, Agent \/ ReadNext
  PROVE  IInv'
<1>0. Phases'
  BY PhasesKept DEF IInv, Next
<1>1. CASE Open \/ Reconcile \/ Arm
  <2>1. UNCHANGED <<disk, buffer, overflow, queue, batch>>
    BY <1>1 DEF Open, Reconcile, Arm, ListDirectory, InspectEntry, Compare, ApplyInsert,
                ApplyDelete,
                FinishReconcile, kernelVars, diskVars
  <2>2. Track' = Track /\ Gapless' = Gapless /\ disk' = disk
    BY <2>1, Unmoved
  <2>3. Road'
    BY <2>2 DEF IInv, Road
  <2>4. CASE Open
    <3>1. Promises'
      BY <2>4, ScanBegins DEF Open
    <3>2. QED
      BY <1>0, <2>3, <3>1 DEF IInv
  <2>5. CASE FinishReconcile
    <3>1. /\ phase = "apply" /\ scan.insert = {} /\ scan.delete = {}
          /\ required' = (scan.issues # {}) /\ phase' \in {"arm", "loop"}
          /\ active' = active
      BY <2>5 DEF FinishReconcile
    <3>2. Follows'
      BY <2>2, <3>1 DEF IInv, Promises, Compared, Follows
    <3>3. QED
      BY <1>0, <2>3, <3>1, <3>2 DEF IInv, Promises, Scanned, Compared
  <2>6. CASE Arm
    <3>1. Follows'
      BY <2>2, <2>6 DEF Arm, storeVars, IInv, Promises, Follows
    <3>2. QED
      BY <1>0, <2>3, <2>6, <3>1 DEF Arm, IInv, Promises, Scanned, Compared
  <2>7. QED
    BY <1>0, <1>1, <2>3, <2>4, <2>5, <2>6, ListDirectoryKeeps, InspectEntryKeeps, CompareKeeps,
       ApplyInsertKeeps, ApplyDeleteKeeps DEF Reconcile, IInv
<1>2. CASE TakeBatch
  BY <1>0, <1>2, TakeBatchKeeps DEF IInv
<1>3. CASE IngestChange
  BY <1>0, <1>3, IngestKeeps DEF IInv
<1>4. CASE ReadNext
  <2>1. Track' = Track /\ (Gapless' <=> Gapless)
    BY <1>4, ReadNextMoves
  <2>2. UNCHANGED <<disk, phase, scan, active, required>>
    BY <1>4 DEF ReadNext, diskVars, storeVars
  <2>3. Road' /\ Carries
    BY <2>1, <2>2, StillCarries DEF IInv
  <2>4. QED
    BY <1>0, <2>2, <2>3, PromisesCarried DEF IInv
<1>5. QED
  BY <1>1, <1>2, <1>3, <1>4 DEF Agent

LEMMA Invariant ==
  ASSUME QuietStartup
  PROVE  Spec => [](TypeOK /\ IInv)
<1>1. Init => IInv
  <2>1. Init => Phases /\ Promises
    BY DEF Init, Phases, Promises, Scanned, Compared, Follows
  <2>2. Init => Track = {}
    BY NothingMoves DEF Init
  <2>3. Init => Road
    BY <2>2 DEF Road, LastSays, Chained
  <2>4. QED
    BY <2>1, <2>3 DEF IInv
<1>2. TypeOK /\ TypeOK' /\ IInv /\ [Next]_vars => IInv'
  <2>1. TypeOK /\ IInv /\ UNCHANGED vars => IInv'
    <3>1. SUFFICES ASSUME TypeOK, IInv, UNCHANGED vars
                   PROVE  IInv'
      OBVIOUS
    <3>2. Phases'
      BY <3>1, PhasesKept DEF IInv
    <3>3. Road' /\ Carries
      BY <3>1, Unmoved, StillCarries DEF vars, IInv
    <3>4. QED
      BY <3>1, <3>2, <3>3, PromisesCarried DEF vars, IInv
  <2>2. QED
    BY <2>1, EnvironmentKeeps, AgentKeeps DEF Next
<1>3. QED
  BY <1>1, <1>2, TypeCorrect, PTL DEF Spec

LEMMA NoRecords ==
  ASSUME TypeOK, ~overflow,
         \A i \in DOMAIN queue : ~queue[i].gap
  PROVE  Gapless
<1>1. /\ Len(queue) \in Nat /\ Lanes = Len(queue) + 1
      /\ DOMAIN queue = 1 .. Len(queue)
  BY RoadTypes
<1>2. ASSUME NEW k \in 0 .. Lanes
      PROVE  ~Gap(k)
  BY <1>1 DEF Gap
<1>3. QED
  BY <1>2 DEF Gapless

(* ADR 0005: a collector at rest whose flag is clear has every file where  *)
(* the disk has it, and every folder there or not at all, for every scope, *)
(* every buffer of the kernel and every number of changes, overflows and   *)
(* restarts, provided the disk is still from the startup scan to the first *)
(* read of the directory handle.                                           *)
THEOREM RestConverged ==
  ASSUME QuietStartup
  PROVE  Spec => []RestMeansConverged
<1>1. TypeOK /\ IInv => RestMeansConverged
  <2>1. SUFFICES ASSUME TypeOK, IInv, Quiescent, ~required
                 PROVE  Agrees
    BY DEF RestMeansConverged
  <2>2. Track = {}
    BY <2>1, NothingMoves DEF Quiescent
  <2>3. Gapless
    BY <2>1, NoRecords DEF Quiescent
  <2>4. QED
    BY <2>1, <2>2, <2>3 DEF IInv, Promises, Follows, Quiescent, Resolves, About, Agrees
<1>2. QED
  BY <1>1, Invariant, PTL

LEMMA NotInFlight ==
  ASSUME TypeOK, NEW f \in Files, ~InFlight(f)
  PROVE  Gapless /\ About(Track, f) = {}
<1>1. Gapless
  BY NoRecords DEF InFlight
<1>2. ASSUME NEW x \in Track, x.change.file = f
      PROVE  FALSE
  <2>1. /\ x.lane \in Nat /\ x.nth \in DOMAIN Lane(x.lane) /\ x.lane <= Lanes
        /\ x.change = Lane(x.lane)[x.nth]
    BY DEF Track, Step
  <2>2. Len(queue) \in Nat /\ DOMAIN queue = 1 .. Len(queue)
    BY RoadTypes
  <2>3. CASE x.lane = 0
    BY <1>2, <2>1, <2>3 DEF Lane, InFlight
  <2>4. CASE x.lane \in 1 .. Len(queue)
    <3>1. Lane(x.lane) = queue[x.lane].changes
      BY <2>2, <2>4 DEF Lane
    <3>2. QED
      BY <1>2, <2>1, <2>2, <2>4, <3>1 DEF InFlight
  <2>5. CASE x.lane > Len(queue)
    <3>1. Lane(x.lane) = buffer
      BY <2>1, <2>2, <2>5 DEF Lane
    <3>2. QED
      BY <1>2, <2>1, <3>1 DEF InFlight
  <2>6. QED
    BY <2>1, <2>2, <2>3, <2>4, <2>5
<1>3. QED
  BY <1>1, <1>2 DEF About

(* ADR 0005, "never marks paths below an unreadable subtree as deleted":   *)
(* no step touches a file's location that is right while nothing about it  *)
(* is on its way.                                                          *)
THEOREM RightLocationsKept ==
  ASSUME QuietStartup
  PROVE  Spec => RightLocationsStay
<1>1. TypeOK /\ IInv /\ [Next]_vars =>
        [\A f \in Files \ Folders :
           active[f] = disk[f] /\ disk'[f] = disk[f] /\ ~InFlight(f)
             => active'[f] = active[f]]_vars
  <2>1. SUFFICES ASSUME TypeOK, IInv, Next, NEW f \in Files \ Folders,
                        active[f] = disk[f], disk'[f] = disk[f], ~InFlight(f)
                 PROVE  active'[f] = active[f]
    OBVIOUS
  <2>2. Gapless /\ About(Track, f) = {} /\ active \in [Files -> Paths \cup {None}]
    BY <2>1, NotInFlight DEF TypeOK
  <2>3. ASSUME NEW l \in Files \X Paths, ApplyInsert(l)
        PROVE  active'[f] = active[f]
    <3>1. CASE l[1] = f
      <4>1. Resolves(Track, disk, f, l[2])
        BY <2>1, <2>2, <2>3, <3>1 DEF ApplyInsert, IInv, Promises, Compared
      <4>2. l[2] = disk[f]
        BY <2>2, <4>1 DEF Resolves
      <4>3. QED
        BY <2>1, <2>2, <2>3, <3>1, <4>2 DEF ApplyInsert, Observed
    <3>2. CASE l[1] # f
      BY <2>2, <2>3, <3>2 DEF ApplyInsert, Observed
    <3>3. QED
      BY <3>1, <3>2
  <2>4. ASSUME NEW l \in Files \X Paths, ApplyDelete(l)
        PROVE  active'[f] = active[f]
    <3>1. CASE l[1] = f
      <4>1. disk[f] # l[2]
        BY <2>1, <2>2, <2>4, <3>1 DEF ApplyDelete, IInv, Promises, Compared
      <4>2. QED
        BY <2>1, <2>2, <2>4, <3>1, <4>1 DEF ApplyDelete, Deleted
    <3>2. CASE l[1] # f
      BY <2>2, <2>4, <3>2 DEF ApplyDelete, Deleted
    <3>3. QED
      BY <3>1, <3>2
  <2>5. CASE IngestChange
    <3>1. batch \in Seq(Change) /\ batch # <<>>
      BY <2>1, <2>5 DEF IngestChange, TypeOK
    <3>2. Head(batch) = batch[1] /\ 1 \in DOMAIN batch
      BY <3>1
    <3>3. Head(batch).file # f
      BY <2>1, <3>2 DEF InFlight
    <3>4. QED
      BY <2>2, <2>5, <3>3 DEF IngestChange, Observed, Deleted
  <2>6. CASE Environment
    BY <2>6 DEF Environment, Create, Rename, Write, Remove, SetAccess, DiskMayChange, Crash,
                storeVars
  <2>7. CASE Open \/ Arm \/ TakeBatch \/ ReadNext \/ Compare \/ FinishReconcile
    BY <2>7 DEF Open, Arm, TakeBatch, ReadNext, Compare, FinishReconcile, storeVars
  <2>8. ASSUME NEW d \in Dirs, ListDirectory(d)
        PROVE  active'[f] = active[f]
    BY <2>8 DEF ListDirectory, storeVars
  <2>9. ASSUME NEW l \in Files \X Paths, InspectEntry(l)
        PROVE  active'[f] = active[f]
    BY <2>9 DEF InspectEntry, storeVars
  <2>10. CASE Reconcile
    BY <2>3, <2>4, <2>7, <2>8, <2>9, <2>10 DEF Reconcile
  <2>11. QED
    BY <2>1, <2>5, <2>6, <2>7, <2>10 DEF Next, Agent
<1>2. QED
  BY <1>1, Invariant, PTL DEF Spec, RightLocationsStay
=============================================================================
