--------------------------- MODULE SyncTreeProofs ---------------------------
(***************************************************************************)
(* What TLAPS proves of SyncTree for every tree of paths, every set of     *)
(* contents and ids, and every bound on operations and faults: types, and  *)
(* that objects sit at their path as long as nothing failed and no folder  *)
(* was trashed behind the index's back.                                    *)
(***************************************************************************)
EXTENDS SyncTree, FiniteSetTheorems, TLAPS

-----------------------------------------------------------------------------
(***************************************************************************)
(* The tree of paths.                                                      *)
(***************************************************************************)
LEMMA UpFacts ==
  ASSUME NEW n \in Node
  PROVE  /\ Ups[n] \subseteq Folders /\ Ups[n] \subseteq Node /\ n \notin Ups[n]
         /\ \A f \in Ups[n] : Ups[f] \subseteq Ups[n]
BY TreeAssumption

LEMMA ParentFacts ==
  ASSUME NEW n \in Node, Parent[n] # Root
  PROVE  /\ Parent[n] \in Folders /\ Parent[n] \in Node /\ Parent[n] \in Ups[n]
         /\ Ups[n] = {Parent[n]} \cup Ups[Parent[n]]
BY TreeAssumption

\* A child is deeper than its folder.
LEMMA ParentIsShallower ==
  ASSUME NEW n \in Node, Parent[n] # Root
  PROVE  Depth(Parent[n]) < Depth(n)
<1>1. /\ Parent[n] \in Node /\ Ups[n] = Ups[Parent[n]] \cup {Parent[n]}
      /\ Parent[n] \notin Ups[Parent[n]] /\ IsFiniteSet(Ups[Parent[n]])
  BY ParentFacts, TreeAssumption
<1>2. Cardinality(Ups[n]) = Cardinality(Ups[Parent[n]]) + 1
  BY <1>1, FS_AddElement
<1>3. Cardinality(Ups[Parent[n]]) \in Nat
  BY <1>1, FS_CardinalityType
<1> QED
  BY <1>2, <1>3 DEF Depth

LEMMA SubtreeFacts ==
  ASSUME NEW n \in Node, NEW m \in Node, Parent[m] # Root, Parent[m] \in Subtree(n)
  PROVE  m \in Subtree(n)
BY ParentFacts DEF Subtree

LEMMA RootFacts == Root \notin Node /\ RootId \notin ObjId /\ Folders \subseteq Node
BY ValueAssumption, TreeAssumption

LEMMA NothingFacts == Nothing.kind = "Skip" /\ Nothing.id = None
BY DEF Nothing

-----------------------------------------------------------------------------
(***************************************************************************)
(* The types and the tree's invariant, by part of the state.               *)
(***************************************************************************)
DriveOK ==
  /\ drive \in [ObjId -> Object \cup {None}]
  /\ ObjectsAreBelow
  /\ \A i \in ObjId : drive[i] # None => (drive[i].data = Dir <=> drive[i].at \in Folders)
LocalOK ==
  /\ local \in [Node -> Content \cup {Dir, None}]
  /\ LocalIsATree
  /\ \A n \in Node : local[n] # None => (local[n] = Dir <=> n \in Folders)
IndexOK ==
  /\ index \in [Node -> Row \cup {None}]
  /\ \A n \in Folders : index[n] # None => index[n].localHash = None /\ index[n].remoteMd5 = None
  /\ \A n \in Node : index[n] # None => IsObject(index[n].remoteId, n)
SnapshotsOK ==
  /\ pc \in {"idle", "listing", "comparing", "executing"}
  /\ scan \subseteq Node /\ ScanIsATree
  /\ listed \in [Node -> Seen \cup {None}]
  /\ \A n \in Node : listed[n] # None => SitsAt(listed[n].id, n)
  /\ remoteIds \in [Folders -> ObjId \cup {None}]
  /\ \A f \in Folders : remoteIds[f] # None => IsObject(remoteIds[f], f)
PlanOK ==
  /\ plan \in [Node -> [kind : Kinds, id : ObjId \cup {None}]]
  /\ \A n \in Node : plan[n].id # None => IsObject(plan[n].id, n)
  /\ PlansFit
PastOK ==
  /\ ops \in 0..MaxOps /\ faults \in 0..MaxFaults
  /\ heldLocal \in [Names -> SUBSET Content] /\ heldRemote \in [Names -> SUBSET Content]
  /\ dirty \subseteq Node \X {"local", "remote"} /\ folderTrashed \in BOOLEAN

BaseInv == DriveOK /\ LocalOK /\ IndexOK /\ SnapshotsOK /\ PlanOK /\ PastOK

LEMMA BaseInvIs == BaseInv <=> TreeTypeOK /\ TreeNamesInv
BY DEF BaseInv, DriveOK, LocalOK, IndexOK, SnapshotsOK, PlanOK, PastOK, TreeTypeOK,
   TreeNamesInv, KindsAreKept, NamesAreObjects

LEMMA ObjectIs ==
  ASSUME NEW at \in Node, NEW above \in SUBSET ObjId, NEW data \in Content \cup {Dir},
         NEW trashed \in BOOLEAN
  PROVE  [at |-> at, above |-> above, data |-> data, trashed |-> trashed] \in Object
BY DEF Object

\* An id of Drive, once taken, stays where it is: objects are trashed, never moved.
DriveKeeps ==
  \A i \in ObjId : drive[i] # None =>
    drive'[i] # None /\ drive'[i].at = drive[i].at /\ drive'[i].above = drive[i].above

LEMMA ObjectsStay ==
  ASSUME DriveKeeps, NEW i \in ObjId, NEW n
  PROVE  /\ IsObject(i, n) => IsObject(i, n)'
         /\ SitsAt(i, n) => SitsAt(i, n)'
BY DEF DriveKeeps, IsObject, SitsAt

LEMMA ValueFacts ==
  /\ None \notin Object /\ None \notin Row /\ None \notin Seen
  /\ None \notin Content /\ None # Dir /\ Dir \notin Content
BY ValueAssumption, RecordAssumption

-----------------------------------------------------------------------------
(***************************************************************************)
(* What a step may do to one part of the state.                            *)
(***************************************************************************)
LEMMA DriveSame == DriveOK /\ UNCHANGED drive => DriveOK' /\ DriveKeeps
BY DEF DriveOK, ObjectsAreBelow, DriveKeeps

\* An object's bytes are replaced.
LEMMA DriveEdited ==
  ASSUME DriveOK, NEW i \in ObjId, drive[i] # None, NEW v \in Content \cup {Dir},
         v = Dir <=> drive[i].at \in Folders,
         drive' = [drive EXCEPT ![i].data = v]
  PROVE  DriveOK' /\ DriveKeeps
<1>1. drive[i] \in Object
  BY DEF DriveOK
<1>2. /\ drive'[i] = [at |-> drive[i].at, above |-> drive[i].above, data |-> v, trashed |-> drive[i].trashed]
      /\ \A j \in ObjId \ {i} : drive'[j] = drive[j]
  BY <1>1 DEF DriveOK, Object
<1>3. /\ drive'[i] \in Object /\ drive'[i].data = v
      /\ drive'[i].at = drive[i].at /\ drive'[i].above = drive[i].above
  <2>1. drive[i].at \in Node /\ drive[i].above \in SUBSET ObjId
    BY <1>1 DEF Object
  <2>2. drive[i].trashed \in BOOLEAN
    BY <1>1 DEF Object
  <2>3. drive'[i].data = v
    BY <1>2
  <2> QED
    BY <1>2, <2>1, <2>2, <2>3 DEF Object
<1>4. drive' \in [ObjId -> Object \cup {None}]
  BY <1>3 DEF DriveOK
<1>5. DriveKeeps
  BY <1>2, <1>3, ValueFacts DEF DriveKeeps
<1>6. \A j \in ObjId : drive'[j] # None => drive[j] # None
  BY <1>2
<1>7. ObjectsAreBelow'
  <2> SUFFICES ASSUME NEW j \in ObjId, drive'[j] # None, NEW a \in drive'[j].above
               PROVE  drive'[a] # None /\ drive'[a].at \in Ups[drive'[j].at]
    BY DEF ObjectsAreBelow
  <2>1. drive[j] # None /\ a \in drive[j].above /\ drive'[j].at = drive[j].at
    BY <1>5, <1>6 DEF DriveKeeps
  <2>2. a \in ObjId
    BY <2>1 DEF DriveOK, Object
  <2> QED
    BY <1>5, <2>1, <2>2 DEF DriveKeeps, DriveOK, ObjectsAreBelow
<1> QED
  BY <1>2, <1>3, <1>4, <1>5, <1>7 DEF DriveOK

\* An object is trashed.
LEMMA DriveTrashed ==
  ASSUME DriveOK, NEW i \in ObjId, drive[i] # None,
         drive' = [drive EXCEPT ![i].trashed = TRUE]
  PROVE  /\ DriveOK' /\ DriveKeeps
         /\ \A j \in ObjId : IsLive(j) /\ ~IsLive(j)' => j = i \/ i \in drive[j].above
<1>1. drive[i] \in Object
  BY DEF DriveOK
<1>2. /\ drive'[i] = [at |-> drive[i].at, above |-> drive[i].above, data |-> drive[i].data, trashed |-> TRUE]
      /\ \A j \in ObjId \ {i} : drive'[j] = drive[j]
  BY <1>1 DEF DriveOK, Object
<1>3. /\ drive'[i] \in Object /\ drive'[i].data = drive[i].data
      /\ drive'[i].at = drive[i].at /\ drive'[i].above = drive[i].above
  <2>1. drive[i].at \in Node /\ drive[i].above \in SUBSET ObjId
    BY <1>1 DEF Object
  <2>2. drive[i].data \in Content \cup {Dir}
    BY <1>1 DEF Object
  <2>3. drive'[i] \in Object
    BY <1>2, <2>1, <2>2, ObjectIs
  <2> QED
    BY <1>2, <2>3
<1>4. drive' \in [ObjId -> Object \cup {None}]
  BY <1>3 DEF DriveOK
<1>5. DriveKeeps
  BY <1>2, <1>3, ValueFacts DEF DriveKeeps
<1>6. \A j \in ObjId : drive'[j] # None => drive[j] # None
  BY <1>2
<1>7. ObjectsAreBelow'
  <2> SUFFICES ASSUME NEW j \in ObjId, drive'[j] # None, NEW a \in drive'[j].above
               PROVE  drive'[a] # None /\ drive'[a].at \in Ups[drive'[j].at]
    BY DEF ObjectsAreBelow
  <2>1. drive[j] # None /\ a \in drive[j].above /\ drive'[j].at = drive[j].at
    BY <1>5, <1>6 DEF DriveKeeps
  <2>2. a \in ObjId
    BY <2>1 DEF DriveOK, Object
  <2> QED
    BY <1>5, <2>1, <2>2 DEF DriveKeeps, DriveOK, ObjectsAreBelow
<1>8. ASSUME NEW j \in ObjId, IsLive(j), j # i, i \notin drive[j].above
      PROVE  IsLive(j)'
  <2>1. drive'[j] = drive[j] /\ drive[j].above \subseteq ObjId
    BY <1>2, <1>8 DEF IsLive, DriveOK, Object
  <2>2. \A a \in drive[j].above \cup {j} : drive'[a] = drive[a]
    BY <1>2, <1>8, <2>1
  <2> QED
    BY <1>8, <2>1, <2>2 DEF IsLive
<1> QED
  BY <1>2, <1>3, <1>4, <1>5, <1>7, <1>8 DEF DriveOK

\* Where a new object ends up: at its path, or at the tail of it that its parent gives.
IsParent(parent, n) ==
  \/ parent = RootId
  \/ Parent[n] # Root /\ parent \in ObjId /\ IsObject(parent, Parent[n])

IsNew(o, n, parent, v) ==
  /\ o \in Object /\ o.at \in Tails[n] /\ o.data = v /\ ~o.trashed
  /\ \A a \in o.above : drive[a] # None /\ drive[a].at \in Ups[o.at]
  /\ o.above = IF parent = RootId THEN {} ELSE drive[parent].above \cup {parent}
  /\ Parent[n] = Root \/ (parent # RootId /\ SitsAt(parent, Parent[n])) => o.at = n

LEMMA NewObjectFacts ==
  ASSUME DriveOK, NEW n \in Node, NEW parent, IsParent(parent, n),
         NEW v \in Content \cup {Dir}
  PROVE  IsNew(NewObject(n, parent, v), n, parent, v)
<1> DEFINE under == IF parent = RootId THEN Root ELSE drive[parent].at
           above == IF parent = RootId THEN {} ELSE drive[parent].above \cup {parent}
           at    == CHOOSE q \in Node : Parent[q] = under /\ Name[q] = Name[n]
           o     == NewObject(n, parent, v)
<1>1. \E q \in Tails[n] : Parent[q] = under
  <2>1. CASE parent = RootId
    BY <2>1, TailAssumption
  <2>2. CASE parent # RootId
    <3>1. under \in Tails[Parent[n]] /\ Parent[n] # Root
      BY <2>2 DEF IsParent, IsObject
    <3> QED
      BY <3>1, TailAssumption
  <2> QED
    BY <2>1, <2>2
<1>2. PICK q \in Tails[n] : Parent[q] = under
  BY <1>1
<1>3. q \in Node /\ Name[q] = Name[n]
  BY TailAssumption
<1> HIDE DEF under, above
<1>4. at \in Node /\ Parent[at] = under /\ Name[at] = Name[n]
  BY <1>2, <1>3
<1>5. at = q
  BY <1>2, <1>3, <1>4, TreeAssumption
<1>6. o = [at |-> at, above |-> above, data |-> v, trashed |-> FALSE]
  BY DEF NewObject, under, above
<1>7. above \subseteq ObjId
  <2>1. CASE parent # RootId
    <3>1. drive[parent] \in Object /\ parent \in ObjId
      BY <2>1 DEF IsParent, IsObject, DriveOK
    <3> QED
      BY <2>1, <3>1 DEF Object, above
  <2> QED
    BY <2>1 DEF above
<1>8. ASSUME NEW a \in above
      PROVE  drive[a] # None /\ drive[a].at \in Ups[at]
  <2>1. /\ parent # RootId /\ parent \in ObjId /\ drive[parent] # None
        /\ Parent[n] # Root /\ under = drive[parent].at /\ under \in Tails[Parent[n]]
    BY <1>8 DEF above, under, IsParent, IsObject
  <2>2. under \in Node /\ under # Root
    BY <2>1, ParentFacts, TailAssumption, RootFacts
  <2>3. Ups[at] = {under} \cup Ups[under]
    BY <1>4, <2>2, ParentFacts
  <2>4. CASE a = parent
    BY <2>1, <2>3, <2>4
  <2>5. CASE a \in drive[parent].above
    BY <2>1, <2>3, <2>5 DEF DriveOK, ObjectsAreBelow
  <2> QED
    BY <1>8, <2>1, <2>4, <2>5 DEF above
<1>9. ASSUME Parent[n] = Root \/ (parent # RootId /\ SitsAt(parent, Parent[n]))
      PROVE  at = n
  <2>1. under = Parent[n]
    BY <1>9 DEF under, IsParent, SitsAt
  <2> QED
    BY <1>4, <2>1, TreeAssumption
<1> HIDE DEF at
<1>10. o \in Object /\ o.at = at /\ o.data = v /\ ~o.trashed /\ o.above = above
  BY <1>4, <1>6, <1>7 DEF Object
<1> QED
  BY <1>5, <1>8, <1>9, <1>10 DEF above, IsNew

LEMMA DriveAdded ==
  ASSUME DriveOK, NEW n \in Node, NEW parent, IsParent(parent, n),
         NEW v \in Content \cup {Dir}, v = Dir <=> n \in Folders,
         NEW i \in ObjId, drive[i] = None,
         drive' = [drive EXCEPT ![i] = NewObject(n, parent, v)]
  PROVE  /\ DriveOK' /\ DriveKeeps /\ IsObject(i, n)'
         /\ (Parent[n] = Root \/ (parent # RootId /\ SitsAt(parent, Parent[n]))) => SitsAt(i, n)'
<1> DEFINE o == NewObject(n, parent, v)
<1>a. IsNew(o, n, parent, v)
  BY NewObjectFacts
<1> HIDE DEF o
<1>1. /\ o \in Object /\ o.at \in Tails[n] /\ o.data = v
      /\ \A a \in o.above : drive[a] # None /\ drive[a].at \in Ups[o.at]
      /\ Parent[n] = Root \/ (parent # RootId /\ SitsAt(parent, Parent[n])) => o.at = n
  BY <1>a DEF IsNew
<1>2. drive'[i] = o /\ \A j \in ObjId \ {i} : drive'[j] = drive[j]
  BY DEF DriveOK, o
<1>3. o # None
  BY <1>1, ValueFacts
<1>4. drive' \in [ObjId -> Object \cup {None}]
  BY <1>1 DEF DriveOK, o
<1>5. DriveKeeps
  BY <1>2 DEF DriveKeeps
<1>6. ObjectsAreBelow'
  <2> SUFFICES ASSUME NEW j \in ObjId, drive'[j] # None, NEW a \in drive'[j].above
               PROVE  drive'[a] # None /\ drive'[a].at \in Ups[drive'[j].at]
    BY DEF ObjectsAreBelow
  <2>1. drive[a] # None /\ drive[a].at \in Ups[drive'[j].at]
    BY <1>1, <1>2 DEF DriveOK, ObjectsAreBelow
  <2>2. a \in ObjId
    BY <1>4 DEF Object
  <2> QED
    BY <1>5, <2>1, <2>2 DEF DriveKeeps
<1>7. o.at \in Folders <=> n \in Folders
  BY <1>1, TailAssumption
<1>8. \A j \in ObjId : drive'[j] # None => (drive'[j].data = Dir <=> drive'[j].at \in Folders)
  BY <1>1, <1>2, <1>7 DEF DriveOK
<1> QED
  BY <1>1, <1>2, <1>3, <1>4, <1>5, <1>6, <1>8 DEF DriveOK, IsObject, SitsAt

LEMMA LocalPut ==
  ASSUME LocalOK, NEW n \in Node, Parent[n] # Root => local[Parent[n]] = Dir,
         NEW v \in Content \cup {Dir}, v = Dir <=> n \in Folders,
         local' = [local EXCEPT ![n] = v]
  PROVE  LocalOK'
<1>1. local'[n] = v /\ \A m \in Node \ {n} : local'[m] = local[m]
  BY DEF LocalOK
<1>2. local' \in [Node -> Content \cup {Dir, None}]
  BY DEF LocalOK
<1>3. \A m \in Node : local'[m] # None => (local'[m] = Dir <=> m \in Folders)
  BY <1>1 DEF LocalOK
<1>4. ASSUME NEW m \in Node, local'[m] # None, Parent[m] # Root
      PROVE  local'[Parent[m]] = Dir
  <2>1. Parent[m] \in Folders /\ Parent[m] \in Node
    BY <1>4, ParentFacts
  <2>2. local[Parent[m]] = Dir
    BY <1>1, <1>4 DEF LocalOK, LocalIsATree
  <2> QED
    BY <1>1, <2>1, <2>2
<1> QED
  BY <1>2, <1>3, <1>4 DEF LocalOK, LocalIsATree

\* A path goes, and what is below it.
LEMMA LocalRemoved ==
  ASSUME LocalOK, NEW n \in Node,
         local' = [m \in Node |-> IF m \in Subtree(n) THEN None ELSE local[m]]
  PROVE  LocalOK'
<1>1. ASSUME NEW m \in Node, local'[m] # None, Parent[m] # Root
      PROVE  local'[Parent[m]] = Dir
  <2>1. Parent[m] \in Node
    BY <1>1, ParentFacts
  <2>2. m \notin Subtree(n) /\ local[m] # None
    BY <1>1
  <2>3. Parent[m] \notin Subtree(n)
    BY <1>1, <2>2, SubtreeFacts
  <2> QED
    BY <1>1, <2>1, <2>2, <2>3 DEF LocalOK, LocalIsATree
<1> QED
  BY <1>1 DEF LocalOK, LocalIsATree

\* A path comes, and the folders above it.
LEMMA LocalCreated ==
  ASSUME LocalOK, NEW n \in Node, NEW v \in Content \cup {Dir}, v = Dir <=> n \in Folders,
         local' = [m \in Node |-> IF m = n THEN v ELSE IF m \in Ups[n] THEN Dir ELSE local[m]]
  PROVE  LocalOK'
<1>1. ASSUME NEW m \in Node, local'[m] # None, Parent[m] # Root
      PROVE  local'[Parent[m]] = Dir
  <2>1. Parent[m] \in Node /\ Parent[m] \in Folders
    BY <1>1, ParentFacts
  <2>2. CASE m = n \/ m \in Ups[n]
    <3>1. Parent[m] \in Ups[n] /\ n \notin Ups[n]
      BY <1>1, <2>2, ParentFacts, UpFacts
    <3> QED
      BY <2>1, <3>1
  <2>3. CASE m # n /\ m \notin Ups[n]
    <3>1. local[Parent[m]] = Dir
      BY <1>1, <2>3 DEF LocalOK, LocalIsATree
    <3> QED
      BY <2>1, <3>1
  <2> QED
    BY <2>2, <2>3
<1>2. Ups[n] \subseteq Folders
  BY UpFacts
<1>3. \A m \in Node : local'[m] # None => (local'[m] = Dir <=> m \in Folders)
  BY <1>2 DEF LocalOK
<1> QED
  BY <1>1, <1>3 DEF LocalOK, LocalIsATree

LEMMA IndexRecorded ==
  ASSUME IndexOK, DriveKeeps, NEW n \in Node, NEW row \in Row \cup {None}, Record(n, row),
         row # None => /\ IsObject(row.remoteId, n)'
                       /\ n \in Folders => row.localHash = None /\ row.remoteMd5 = None
  PROVE  IndexOK'
<1>1. index'[n] = row /\ \A m \in Node \ {n} : index'[m] = index[m]
  BY DEF IndexOK, Record
<1>2. index' \in [Node -> Row \cup {None}]
  BY DEF IndexOK, Record
<1>3. \A m \in Folders : index'[m] # None => index'[m].localHash = None /\ index'[m].remoteMd5 = None
  BY <1>1, RootFacts DEF IndexOK
<1>4. ASSUME NEW m \in Node, index'[m] # None
      PROVE  IsObject(index[m].remoteId, m)'
  <2>1. CASE m = n
    BY <1>1, <1>4, <2>1 DEF IsObject
  <2>2. CASE m # n
    <3>1. index'[m] = index[m] /\ IsObject(index[m].remoteId, m) /\ index[m].remoteId \in ObjId
      BY <1>1, <1>4, <2>2 DEF IndexOK, Row
    <3> QED
      BY <3>1 DEF DriveKeeps, IsObject
  <2> QED
    BY <2>1, <2>2
<1> QED
  BY <1>2, <1>3, <1>4 DEF IndexOK, IsObject

LEMMA IndexSame ==
  ASSUME IndexOK, DriveKeeps, UNCHANGED index
  PROVE  IndexOK'
<1>1. \A m \in Node : index[m] # None => index[m].remoteId \in ObjId
  BY DEF IndexOK, Row
<1> QED
  BY <1>1 DEF IndexOK, DriveKeeps, IsObject

LEMMA SnapshotsSame ==
  ASSUME SnapshotsOK, DriveKeeps, UNCHANGED <<pc, scan, listed, remoteIds>>
  PROVE  SnapshotsOK'
<1>1. \A m \in Node : listed[m] # None => listed[m].id \in ObjId
  BY DEF SnapshotsOK, Seen
<1>2. \A m \in Folders : remoteIds[m] # None => remoteIds[m] \in ObjId
  BY DEF SnapshotsOK
<1> QED
  BY <1>1, <1>2 DEF SnapshotsOK, DriveKeeps, SitsAt, IsObject, ScanIsATree

LEMMA PlanSame ==
  ASSUME PlanOK, DriveKeeps, UNCHANGED plan, pc' # "executing" => pc # "executing"
  PROVE  PlanOK'
<1>1. \A m \in Node : plan[m].id # None => plan[m].id \in ObjId
  BY DEF PlanOK
<1> QED
  BY <1>1 DEF PlanOK, DriveKeeps, IsObject, PlansFit, PlanFits

LEMMA NothingFits == /\ Nothing \in [kind : Kinds, id : ObjId \cup {None}]
                     /\ Nothing.id = None /\ Nothing.kind = "Skip"
BY DEF Nothing, Kinds

LEMMA PlanDone ==
  ASSUME PlanOK, DriveKeeps, NEW n \in Node, IsNext(n), Done(n), UNCHANGED pc
  PROVE  PlanOK'
<1>1. plan' \in [Node -> [kind : Kinds, id : ObjId \cup {None}]]
  BY NothingFits DEF PlanOK, Done
<1>2. \A m \in Node : plan'[m] = plan[m] \/ plan'[m] = Nothing
  BY DEF PlanOK, Done
<1>3. \A m \in Node : plan[m].id # None => plan[m].id \in ObjId
  BY DEF PlanOK
<1>4. \A m \in Node : plan'[m].id # None => IsObject(plan[m].id, m)'
  BY <1>2, <1>3, NothingFits DEF PlanOK, DriveKeeps, IsObject
<1>5. \A m \in Node : PlanFits(m)'
  BY <1>2, NothingFits DEF PlanOK, PlansFit, PlanFits, Transfers, Deletes, DirCreates,
     ConflictKinds, BothPresent
<1>6. pc' = "executing"
  BY DEF IsNext
<1> QED
  BY <1>1, <1>4, <1>5, <1>6 DEF PlanOK, PlansFit, IsObject

LEMMA Remembers ==
  ASSUME NEW held \in [Names -> SUBSET Content], NEW n \in Node, NEW v
  PROVE  Remember(held, n, v) \in [Names -> SUBSET Content]
<1>1. Name[n] \in Names /\ Holds(v) \subseteq Content
  BY DEF Names, Holds
<1> QED
  BY <1>1 DEF Remember

LEMMA FileRow ==
  ASSUME NEW n \in Node, NEW id \in ObjId, NEW l \in Content \cup {Dir, None},
         NEW r \in Content \cup {Dir, None}
  PROVE  /\ RowOf(n, id, l, r) \in Row /\ RowOf(n, id, l, r) # None
         /\ RowOf(n, id, l, r).remoteId = id
         /\ l \in {Dir, None} => RowOf(n, id, l, r).localHash = None
         /\ r \in {Dir, None} => RowOf(n, id, l, r).remoteMd5 = None
<1> DEFINE lh == IF l = Dir THEN None ELSE l
           rh == IF r = Dir THEN None ELSE r
<1>1. lh \in Content \cup {None} /\ rh \in Content \cup {None}
  OBVIOUS
<1>2. RowOf(n, id, l, r) = [localHash |-> lh, remoteMd5 |-> rh, remoteId |-> id, state |-> "synced"]
  BY DEF RowOf
<1>3. RowOf(n, id, l, r) \in Row
  BY <1>1, <1>2 DEF Row
<1> QED
  BY <1>2, <1>3, ValueFacts

-----------------------------------------------------------------------------
(***************************************************************************)
(* What each decision presupposes, for a path that keeps its kind          *)
(* (compute_actions).                                                      *)
(***************************************************************************)
IsSide(e, n) ==
  e = None \/ (e \in Entries /\ (e.dir <=> n \in Folders) /\ (n \in Folders => e.hash = None))
IsBase(b, n) == b # None /\ n \in Folders => b.localHash = None /\ b.remoteMd5 = None

Presupposes(k, l, r, b, n) ==
  /\ k \in Kinds
  /\ n \in Folders => k \in DirCreates \cup Deletes \cup {"Skip"}
  /\ n \notin Folders => k \notin DirCreates
  /\ k \in {"Upload", "CreateRemoteDir"} => l # None /\ r = None /\ b = None
  /\ k \in {"DeleteLocal", "RemoteDeletedLocalModified"} => b # None
  /\ k \in {"UpdateRemote", "Download", "CreateLocalDir", "DeleteRemote",
            "LocalDeletedRemoteModified"} \cup BothPresent => r # None
  /\ n \in Folders /\ l # None /\ r = None /\ b = None => k = "CreateRemoteDir"

LEMMA DecideFacts ==
  ASSUME NEW n \in Node, NEW l, NEW r, NEW b,
         IsSide(l, n), IsSide(r, n), IsBase(b, n)
  PROVE  Presupposes(Decide("two-way", FALSE, l, r, b), l, r, b, n)
<1> DEFINE k == Decide("two-way", FALSE, l, r, b)
<1> SUFFICES Presupposes(k, l, r, b, n)
  OBVIOUS
<1>1. CASE n \in Folders
  <2>1. (l # None => l.dir /\ l.hash = None) /\ (r # None => r.dir /\ r.hash = None)
    BY <1>1 DEF IsSide
  <2>2. b # None => b.localHash = None /\ b.remoteMd5 = None
    BY <1>1 DEF IsBase
  <2>3. \/ k = "CreateRemoteDir" /\ l # None /\ r = None /\ b = None
        \/ k = "CreateLocalDir" /\ l = None /\ r # None /\ b = None
        \/ k = "Skip" /\ ~(l # None /\ r = None /\ b = None)
        \/ k = "DeleteRemote" /\ r # None /\ b # None
        \/ k = "DeleteLocal" /\ l # None /\ r = None /\ b # None
    BY <2>1, <2>2 DEF Decide, NewLocal, NewRemote, FirstSync, Tracked, LocalGone, RemoteGone,
       LocalChanged, RemoteChanged, Pushes, Pulls
  <2> HIDE DEF k
  <2> QED
    BY <1>1, <2>3 DEF Presupposes, Kinds, DirCreates, Deletes, BothPresent, ConflictKinds, Transfers
<1>2. CASE n \notin Folders
  <2>1. (l # None => ~l.dir) /\ (r # None => ~r.dir)
    BY <1>2 DEF IsSide
  <2>2. \/ k = "Upload" /\ l # None /\ r = None /\ b = None
        \/ k = "Download" /\ r # None
        \/ k = "UpdateRemote" /\ r # None
        \/ k = "DeleteRemote" /\ r # None
        \/ k = "DeleteLocal" /\ b # None
        \/ k = "RemoteDeletedLocalModified" /\ b # None
        \/ k = "LocalDeletedRemoteModified" /\ r # None
        \/ k = "BothModified" /\ r # None
        \/ k = "FirstSyncDivergent" /\ r # None
        \/ k = "Skip"
    BY <2>1 DEF Decide, NewLocal, NewRemote, FirstSync, Tracked, LocalGone, RemoteGone,
       LocalChanged, RemoteChanged, Pushes, Pulls
  <2> HIDE DEF k
  <2> QED
    BY <1>2, <2>2 DEF Presupposes, Kinds, DirCreates, Deletes, BothPresent, ConflictKinds, Transfers
<1> QED
  BY <1>1, <1>2

LocalSide(n)  == IF n \in scan THEN EntryOf(n, local[n]) ELSE None
RemoteSide(n) == IF listed[n] # None THEN EntryOf(n, listed[n].data) ELSE None

LEMMA SideFacts ==
  ASSUME LocalOK, SnapshotsOK, NEW n \in Node
  PROVE  /\ IsSide(LocalSide(n), n) /\ IsSide(RemoteSide(n), n)
         /\ (LocalSide(n) # None <=> n \in scan) /\ (RemoteSide(n) # None <=> listed[n] # None)
<1>1. local[n] \in Content \cup {Dir, None}
  BY DEF LocalOK
<1>2. listed[n] # None => listed[n].data \in Content \cup {Dir}
  BY DEF SnapshotsOK, Seen
<1>3. \A h \in Content \cup {Dir, None} : Entry(h) \in Entries /\ ~Entry(h).dir
  BY DEF Entry, Entries
<1>4. Folder \in Entries /\ Folder.dir /\ Folder.hash = None
  BY DEF Folder, Entries
<1>5. None \notin Entries
  BY RecordAssumption
<1>6. n \in scan => /\ LocalSide(n) \in Entries /\ (LocalSide(n).dir <=> n \in Folders)
                    /\ n \in Folders => LocalSide(n).hash = None
  BY <1>1, <1>3, <1>4 DEF LocalSide, EntryOf
<1>7. listed[n] # None => /\ RemoteSide(n) \in Entries /\ (RemoteSide(n).dir <=> n \in Folders)
                          /\ n \in Folders => RemoteSide(n).hash = None
  BY <1>2, <1>3, <1>4 DEF RemoteSide, EntryOf
<1>8. (n \notin scan => LocalSide(n) = None) /\ (listed[n] = None => RemoteSide(n) = None)
  BY DEF LocalSide, RemoteSide
<1>9. \A x \in Entries : x.dir \in BOOLEAN
  BY DEF Entries
<1> QED
  BY <1>5, <1>6, <1>7, <1>8, <1>9 DEF IsSide

\* The action planned for a path.
LEMMA PlannedFacts ==
  ASSUME LocalOK, IndexOK, SnapshotsOK, NEW n \in Node
  PROVE  LET k == Planned(n).kind
         IN /\ k = Decide("two-way", FALSE, LocalSide(n), RemoteSide(n), index[n])
            /\ k \in Kinds
            /\ n \in Folders => k \in DirCreates \cup Deletes \cup {"Skip"}
            /\ n \notin Folders => k \notin DirCreates
            /\ k \in {"Upload", "CreateRemoteDir"} =>
                 n \in scan /\ listed[n] = None /\ index[n] = None
            /\ k = "RemoteDeletedLocalModified" =>
                 index[n] # None /\ Planned(n).id = index[n].remoteId
            /\ k \in {"Skip", "Upload", "DeleteLocal", "CreateRemoteDir"} => Planned(n).id = None
            /\ k \notin {"Skip", "Upload", "DeleteLocal", "CreateRemoteDir",
                         "RemoteDeletedLocalModified"} =>
                 listed[n] # None /\ Planned(n).id = listed[n].id
            /\ n \in Folders /\ n \in scan /\ listed[n] = None /\ index[n] = None =>
                 k = "CreateRemoteDir"
<1> DEFINE k == Decide("two-way", FALSE, LocalSide(n), RemoteSide(n), index[n])
<1>1. Planned(n) = [kind |-> k,
                    id |-> CASE k \in {"Skip", "Upload", "DeleteLocal", "CreateRemoteDir"} -> None
                             [] k = "RemoteDeletedLocalModified" -> index[n].remoteId
                             [] OTHER -> listed[n].id]
  BY DEF Planned, LocalSide, RemoteSide
<1>2. IsSide(LocalSide(n), n) /\ IsSide(RemoteSide(n), n)
  BY SideFacts
<1>3. (LocalSide(n) # None <=> n \in scan) /\ (RemoteSide(n) # None <=> listed[n] # None)
  BY SideFacts
<1>4. IsBase(index[n], n)
  BY DEF IsBase, IndexOK
<1>6. Presupposes(k, LocalSide(n), RemoteSide(n), index[n], n)
  BY <1>2, <1>4, DecideFacts
<1> HIDE DEF k
<1>12. Planned(n).kind = k
  BY <1>1
<1>13. k = "RemoteDeletedLocalModified" => Planned(n).id = index[n].remoteId
  BY <1>1
<1>14. k \in {"Skip", "Upload", "DeleteLocal", "CreateRemoteDir"} => Planned(n).id = None
  BY <1>1
<1>15. k \notin {"Skip", "Upload", "DeleteLocal", "CreateRemoteDir", "RemoteDeletedLocalModified"} =>
         listed[n] # None /\ Planned(n).id = listed[n].id
  BY <1>1, <1>3, <1>6 DEF Presupposes, Kinds, Transfers, Deletes, DirCreates, ConflictKinds,
     BothPresent
<1>16. k = Decide("two-way", FALSE, LocalSide(n), RemoteSide(n), index[n])
  BY DEF k
<1> QED
  BY <1>3, <1>6, <1>12, <1>13, <1>14, <1>15, <1>16 DEF Presupposes

\* It names an object of the path, and fits its kind.
LEMMA PlannedFits ==
  ASSUME LocalOK, IndexOK, SnapshotsOK, NEW n \in Node
  PROVE  /\ Planned(n) \in [kind : Kinds, id : ObjId \cup {None}]
         /\ Planned(n).id # None => IsObject(Planned(n).id, n)
         /\ Planned(n).kind \in {"UpdateRemote", "DeleteRemote", "Download", "CreateLocalDir"}
                                  \cup ConflictKinds => Planned(n).id # None
<1> DEFINE k == Planned(n).kind
           id == Planned(n).id
<1>1. Planned(n) = [kind |-> k, id |-> id]
  BY DEF Planned
<1>2. k \in Kinds
  BY PlannedFacts
<1>3. /\ k = "RemoteDeletedLocalModified" => index[n] # None /\ id = index[n].remoteId
      /\ k \in {"Skip", "Upload", "DeleteLocal", "CreateRemoteDir"} => id = None
      /\ k \notin {"Skip", "Upload", "DeleteLocal", "CreateRemoteDir",
                   "RemoteDeletedLocalModified"} => listed[n] # None /\ id = listed[n].id
  BY PlannedFacts
<1>4. index[n] # None => IsObject(index[n].remoteId, n) /\ index[n].remoteId \in ObjId
  BY DEF IndexOK, Row
<1>5. listed[n] # None => listed[n].id \in ObjId /\ IsObject(listed[n].id, n)
  BY TailAssumption DEF SnapshotsOK, Seen, SitsAt, IsObject
<1> HIDE DEF k, id
<1>6. id \in ObjId \cup {None} /\ (id # None => IsObject(id, n))
  BY <1>3, <1>4, <1>5
<1>7. None \notin ObjId
  BY ValueAssumption
<1>8. k \in {"UpdateRemote", "DeleteRemote", "Download", "CreateLocalDir"} \cup ConflictKinds
        => id # None
  BY <1>3, <1>4, <1>5, <1>7 DEF ConflictKinds, BothPresent
<1> QED
  BY <1>1, <1>2, <1>6, <1>8 DEF k, id

-----------------------------------------------------------------------------
(***************************************************************************)
(* Every step keeps the types and the tree's invariant.                    *)
(***************************************************************************)
LEMMA PlanEmpty ==
  ASSUME plan' = [n \in Node |-> Nothing]
  PROVE  PlanOK'
BY NothingFits DEF PlanOK, PlansFit, PlanFits, Transfers, Deletes, DirCreates,
   ConflictKinds, BothPresent

LEMMA SnapshotsForgotten ==
  ASSUME Forget, pc' = "idle"
  PROVE  SnapshotsOK'
BY DEF Forget, SnapshotsOK, ScanIsATree

LEMMA LocalSame == LocalOK /\ UNCHANGED local => LocalOK'
BY DEF LocalOK, LocalIsATree

past == <<ops, faults, heldLocal, heldRemote, dirty, folderTrashed>>
LEMMA PastSame == PastOK /\ UNCHANGED past => PastOK'
BY DEF PastOK, past

LEMMA ScanLocalBase == BaseInv /\ ScanLocal => BaseInv'
<1> SUFFICES ASSUME BaseInv, ScanLocal PROVE BaseInv'
  OBVIOUS
<1>1. DriveOK' /\ DriveKeeps /\ LocalOK' /\ IndexOK'
  BY DriveSame, LocalSame, IndexSame DEF BaseInv, ScanLocal, store
<1>2. PlanOK'
  BY <1>1, PlanSame DEF BaseInv, ScanLocal
<1>3. PastOK'
  BY DEF BaseInv, ScanLocal, PastOK
<1>4. scan' \subseteq Node /\ ScanIsATree'
  BY ParentFacts, ValueFacts DEF BaseInv, LocalOK, LocalIsATree, ScanIsATree, ScanLocal
<1>5. SnapshotsOK'
  BY <1>4 DEF BaseInv, ScanLocal, SnapshotsOK, SitsAt, IsObject, store
<1> QED
  BY <1>1, <1>2, <1>3, <1>5 DEF BaseInv

\* What a listing shows of a path: one of its live objects, if there is one.
LEMMA ListedFacts ==
  ASSUME DriveOK, ListRemote, NEW n \in Node
  PROVE  /\ listed'[n] = None <=> Live(n) = {}
         /\ listed'[n] # None =>
              /\ listed'[n] \in Seen /\ listed'[n].id \in Live(n) /\ SitsAt(listed'[n].id, n)
              /\ drive[listed'[n].id].data = listed'[n].data
<1>1. PICK shadowed \in SUBSET {i \in ObjId : IsLive(i) /\ Live(drive[i].at) # {i}} :
        /\ \A m \in Node : Live(m) # {} => Cardinality(Live(m) \ shadowed) = 1
        /\ listed' = [m \in Node |->
             IF Live(m) = {} THEN None
             ELSE [id |-> CHOOSE i \in Live(m) \ shadowed : TRUE,
                   data |-> drive[CHOOSE i \in Live(m) \ shadowed : TRUE].data]]
  BY Zenon DEF ListRemote
<1>2. CASE Live(n) = {}
  BY <1>1, <1>2
<1>3. CASE Live(n) # {}
  <2> DEFINE i == CHOOSE i \in Live(n) \ shadowed : TRUE
  <2>1. Live(n) \ shadowed # {}
    <3>1. Cardinality(Live(n) \ shadowed) = 1
      BY <1>1, <1>3
    <3> QED
      BY <3>1, FS_EmptySet
  <2>2. i \in Live(n)
    BY <2>1
  <2> HIDE DEF i
  <2>3. listed'[n] = [id |-> i, data |-> drive[i].data]
    BY <1>1, <1>3 DEF i
  <2>4. i \in ObjId /\ IsLive(i) /\ drive[i].at = n
    BY <2>2 DEF Live
  <2>5. drive[i] \in Object /\ drive[i] # None
    BY <2>4 DEF IsLive, DriveOK
  <2>6. listed'[n] \in Seen
    BY <2>3, <2>4, <2>5 DEF Object, Seen
  <2>7. listed'[n] # None
    BY <2>6, ValueFacts
  <2> QED
    BY <1>3, <2>2, <2>3, <2>4, <2>5, <2>6, <2>7 DEF SitsAt
<1> QED
  BY <1>2, <1>3

LEMMA ListRemoteBase == BaseInv /\ ListRemote => BaseInv'
<1> SUFFICES ASSUME BaseInv, ListRemote PROVE BaseInv'
  OBVIOUS
<1> USE DEF BaseInv
<1>1. DriveOK' /\ DriveKeeps /\ LocalOK' /\ IndexOK'
  BY DriveSame, LocalSame, IndexSame DEF ListRemote, store
<1>2. PlanOK' /\ PastOK'
  BY <1>1, PlanSame, PastSame DEF ListRemote, past
<1>3. listed' = [n \in Node |-> listed'[n]]
  BY DEF ListRemote
<1>4. \A n \in Node : listed'[n] \in Seen \cup {None}
  BY ListedFacts
<1>5. listed' \in [Node -> Seen \cup {None}]
  BY <1>3, <1>4
<1>6. \A n \in Node : listed'[n] # None => SitsAt(listed'[n].id, n)
  BY ListedFacts
<1>7. drive' = drive
  BY DEF ListRemote, store
<1>8. SnapshotsOK'
  BY <1>5, <1>6, <1>7 DEF ListRemote, SnapshotsOK, SitsAt, IsObject, ScanIsATree
<1> QED
  BY <1>1, <1>2, <1>8

LEMMA CompareBase == BaseInv /\ Compare => BaseInv'
<1> SUFFICES ASSUME BaseInv, Compare PROVE BaseInv'
  OBVIOUS
<1> USE DEF BaseInv
<1>1. DriveOK' /\ DriveKeeps /\ LocalOK' /\ IndexOK'
  BY DriveSame, LocalSame, IndexSame DEF Compare, store
<1>2. PastOK'
  BY PastSame DEF Compare, past
<1>3. \A n \in Node : plan'[n] = Planned(n)
  BY DEF Compare
<1>4. drive' = drive /\ pc' = "executing"
  BY DEF Compare, store
<1>5. plan' \in [Node -> [kind : Kinds, id : ObjId \cup {None}]]
  BY PlannedFits DEF Compare
<1>6. \A n \in Node : plan'[n].id # None => IsObject(plan'[n].id, n)
  BY <1>3, PlannedFits
<1>7. ASSUME NEW n \in Node
      PROVE  PlanFits(n)'
  BY <1>3, PlannedFacts, PlannedFits DEF PlanFits
<1>8. PlanOK'
  BY <1>4, <1>5, <1>6, <1>7 DEF PlanOK, PlansFit, IsObject
<1>9. SnapshotsOK'
  <2>1. \A f \in Folders : listed[f] # None => listed[f].id \in ObjId /\ IsObject(listed[f].id, f)
    BY RootFacts, TailAssumption DEF SnapshotsOK, Seen, SitsAt, IsObject
  <2>2. remoteIds' \in [Folders -> ObjId \cup {None}]
    BY <2>1 DEF Compare
  <2>3. \A f \in Folders : remoteIds'[f] # None => IsObject(remoteIds'[f], f)
    BY <2>1 DEF Compare
  <2> QED
    BY <1>4, <2>2, <2>3 DEF Compare, SnapshotsOK, SitsAt, IsObject, ScanIsATree
<1> QED
  BY <1>1, <1>2, <1>8, <1>9

\* What an action of the execute loop relies on.
LEMMA PlanUse ==
  ASSUME BaseInv, NEW n \in Node
  PROVE  /\ plan[n].id \in ObjId \cup {None}
         /\ plan[n].kind \in {"UpdateRemote", "DeleteRemote", "Download", "CreateLocalDir"}
                              \cup ConflictKinds =>
              /\ plan[n].id \in ObjId /\ drive[plan[n].id] \in Object
              /\ IsObject(plan[n].id, n)
              /\ (drive[plan[n].id].at \in Folders <=> n \in Folders)
         /\ plan[n].kind \in Transfers \cup ConflictKinds => n \notin Folders
         /\ plan[n].kind \in DirCreates => n \in Folders
<1>1. /\ n \in Folders => plan[n].kind \in DirCreates \cup Deletes \cup {"Skip"}
      /\ n \notin Folders => plan[n].kind \notin DirCreates
      /\ plan[n].kind \in {"UpdateRemote", "DeleteRemote", "Download", "CreateLocalDir"}
                           \cup ConflictKinds => plan[n].id # None
      /\ plan[n].id \in ObjId \cup {None}
      /\ plan[n].id # None => IsObject(plan[n].id, n)
  BY DEF BaseInv, PlanOK, PlansFit, PlanFits
<1>2. \A i \in ObjId : IsObject(i, n) => /\ drive[i] \in Object
                                         /\ (drive[i].at \in Folders <=> n \in Folders)
  BY TailAssumption DEF IsObject, BaseInv, DriveOK
<1>3. plan[n].kind \in Transfers \cup ConflictKinds => n \notin Folders
  BY <1>1 DEF Transfers, ConflictKinds, BothPresent, DirCreates, Deletes
<1> QED
  BY <1>1, <1>2, <1>3

LEMMA NewIdFacts ==
  ASSUME IdsLeft
  PROVE  NewId \in ObjId /\ drive[NewId] = None
BY DEF IdsLeft, NewId

\* The parent resolve_parent_runtime finds is an object of the folder, or the root.
LEMMA ParentIdFacts ==
  ASSUME BaseInv, NEW n \in Node
  PROVE  /\ IsParent(ParentId(n), n)
         /\ ParentId(n) # RootId => Parent[n] # Root /\ ParentId(n) = remoteIds[Parent[n]]
         /\ Parent[n] # Root /\ remoteIds[Parent[n]] # None =>
              ParentId(n) # RootId /\ ParentId(n) = remoteIds[Parent[n]]
<1>1. CASE Parent[n] # Root /\ remoteIds[Parent[n]] # None
  <2>1. Parent[n] \in Folders
    BY <1>1, ParentFacts
  <2>2. remoteIds[Parent[n]] \in ObjId /\ IsObject(remoteIds[Parent[n]], Parent[n])
    BY <1>1, <2>1 DEF BaseInv, SnapshotsOK
  <2> QED
    BY <1>1, <2>2, RootFacts DEF ParentId, IsParent
<1>2. CASE ~(Parent[n] # Root /\ remoteIds[Parent[n]] # None)
  BY <1>2 DEF ParentId, IsParent
<1> QED
  BY <1>1, <1>2

\* The data of a new object on Drive.
CreatedData(n) == IF n \in Folders THEN Dir ELSE local[n]

LEMMA CreatedFacts ==
  ASSUME BaseInv, NEW n \in Node, CreateOnDrive(n)
  PROVE  /\ CreatedData(n) \in Content \cup {Dir}
         /\ CreatedData(n) = Dir <=> n \in Folders
         /\ local[n] \in Content \cup {Dir, None}
         /\ n \in Folders => local[n] \in {Dir, None} /\ CreatedData(n) = Dir
<1>1. n \in Folders \/ (plan[n].kind = "Upload" /\ local[n] # None)
  BY PlanUse DEF CreateOnDrive, DirCreates
<1>2. local[n] \in Content \cup {Dir, None} /\ (local[n] # None => (local[n] = Dir <=> n \in Folders))
  BY DEF BaseInv, LocalOK
<1> QED
  BY <1>1, <1>2, ValueFacts DEF CreatedData

\* What creating an object on Drive does to Drive: the new object is the path's.
LEMMA CreateOnDriveDrive ==
  ASSUME BaseInv, NEW n \in Node, CreateOnDrive(n)
  PROVE  /\ DriveOK' /\ DriveKeeps /\ NewId \in ObjId
         /\ drive'[NewId] # None /\ drive'[NewId].at \in Tails[n]
         /\ drive'[NewId] = NewObject(n, ParentId(n), CreatedData(n))
         /\ \A j \in ObjId \ {NewId} : drive'[j] = drive[j]
         /\ drive[NewId] = None
<1>1. PICK parent \in {ParentId(n)}, v \in {CreatedData(n)}, i \in {NewId} : TRUE
  OBVIOUS
<1>2. IsParent(parent, n) /\ v \in Content \cup {Dir} /\ (v = Dir <=> n \in Folders)
  BY <1>1, ParentIdFacts, CreatedFacts
<1>3. i \in ObjId /\ drive[i] = None
  BY <1>1, NewIdFacts DEF CreateOnDrive
<1>4. drive' = [drive EXCEPT ![i] = NewObject(n, parent, v)]
  BY <1>1 DEF CreateOnDrive, CreatedData
<1>5. DriveOK' /\ DriveKeeps /\ IsObject(i, n)'
  BY <1>2, <1>3, <1>4, DriveAdded DEF BaseInv
<1>6. drive'[i] = NewObject(n, parent, v) /\ \A j \in ObjId \ {i} : drive'[j] = drive[j]
  BY <1>3, <1>4 DEF BaseInv, DriveOK
<1> QED
  BY <1>1, <1>3, <1>5, <1>6 DEF IsObject

LEMMA CreateOnDriveBase ==
  ASSUME BaseInv, NEW n \in Node, CreateOnDrive(n)
  PROVE  BaseInv'
<1>1. DriveOK' /\ DriveKeeps /\ NewId \in ObjId
  BY CreateOnDriveDrive
<1>2. LocalOK'
  BY LocalSame DEF BaseInv, CreateOnDrive
<1>3. PlanOK'
  BY <1>1, PlanDone DEF BaseInv, CreateOnDrive
<1>4. PICK row \in {RowOf(n, NewId, local[n], CreatedData(n))}, i \in {NewId} : TRUE
  OBVIOUS
<1>5. Record(n, row)
  BY <1>4 DEF CreateOnDrive, CreatedData
<1>6. /\ row \in Row /\ row.remoteId = i
      /\ n \in Folders => row.localHash = None /\ row.remoteMd5 = None
  BY <1>1, <1>4, CreatedFacts, FileRow
<1>7. IsObject(i, n)'
  BY <1>4, CreateOnDriveDrive DEF IsObject
<1>8. IndexOK'
  BY <1>1, <1>5, <1>6, <1>7, IndexRecorded DEF BaseInv
<1>9. SnapshotsOK'
  <2>1. \A f \in Folders : remoteIds[f] # None => remoteIds[f] \in ObjId
    BY DEF BaseInv, SnapshotsOK
  <2>2. /\ remoteIds' \in [Folders -> ObjId \cup {None}]
        /\ \A f \in Folders : remoteIds'[f] = remoteIds[f] \/ (f = n /\ remoteIds'[f] = i)
    BY <1>1, <1>4 DEF CreateOnDrive, BaseInv, SnapshotsOK
  <2>3. \A f \in Folders : remoteIds'[f] # None =>
          drive'[remoteIds'[f]] # None /\ drive'[remoteIds'[f]].at \in Tails[f]
    BY <1>1, <1>7, <2>1, <2>2 DEF BaseInv, SnapshotsOK, IsObject, DriveKeeps
  <2>4. \A m \in Node : listed[m] # None => listed[m].id \in ObjId
    BY DEF BaseInv, SnapshotsOK, Seen
  <2> QED
    BY <1>1, <2>2, <2>3, <2>4 DEF BaseInv, SnapshotsOK, CreateOnDrive, DriveKeeps, SitsAt,
       IsObject, ScanIsATree
<1>10. PastOK'
  BY Remembers DEF BaseInv, PastOK, CreateOnDrive
<1> QED
  BY <1>1, <1>2, <1>3, <1>8, <1>9, <1>10 DEF BaseInv

LEMMA UpdateRemoteBase ==
  ASSUME BaseInv, NEW n \in Node, UpdateRemote(n)
  PROVE  BaseInv'
<1>1. PICK i \in {plan[n].id}, v \in {local[n]}, row \in {RowOf(n, plan[n].id, local[n], local[n])} : TRUE
  OBVIOUS
<1>2. /\ i \in ObjId /\ drive[i] \in Object /\ IsObject(i, n) /\ n \notin Folders
      /\ (drive[i].at \in Folders <=> n \in Folders)
  BY <1>1, PlanUse DEF UpdateRemote, Transfers
<1>3. v \in Content /\ v # Dir
  BY <1>1, <1>2, ValueFacts DEF UpdateRemote, BaseInv, LocalOK
<1>4. drive' = [drive EXCEPT ![i].data = v]
  BY <1>1 DEF UpdateRemote
<1>5. DriveOK' /\ DriveKeeps
  BY <1>2, <1>3, <1>4, DriveEdited DEF BaseInv, IsObject
<1>6. LocalOK'
  BY LocalSame DEF BaseInv, UpdateRemote
<1>7. PlanOK' /\ SnapshotsOK'
  BY <1>5, PlanDone, SnapshotsSame DEF BaseInv, UpdateRemote
<1>8. Record(n, row) /\ row \in Row /\ row.remoteId = i
  BY <1>1, <1>2, <1>3, FileRow DEF UpdateRemote
<1>9. IsObject(i, n)'
  BY <1>2, <1>5, ObjectsStay
<1>10. IndexOK'
  BY <1>2, <1>5, <1>8, <1>9, IndexRecorded DEF BaseInv
<1>11. PastOK'
  BY Remembers DEF BaseInv, PastOK, UpdateRemote
<1> QED
  BY <1>5, <1>6, <1>7, <1>10, <1>11 DEF BaseInv

LEMMA CreateLocallyBase ==
  ASSUME BaseInv, NEW n \in Node, CreateLocally(n)
  PROVE  BaseInv'
<1>1. PICK i \in {plan[n].id}, v \in {drive[plan[n].id].data},
           row \in {RowOf(n, plan[n].id, drive[plan[n].id].data, drive[plan[n].id].data)} : TRUE
  OBVIOUS
<1>2. /\ i \in ObjId /\ drive[i] \in Object /\ IsObject(i, n)
      /\ (drive[i].at \in Folders <=> n \in Folders)
  BY <1>1, PlanUse DEF CreateLocally
<1>3. v \in Content \cup {Dir} /\ (v = Dir <=> n \in Folders)
  BY <1>1, <1>2 DEF BaseInv, DriveOK, Object, IsObject
<1>4. DriveOK' /\ DriveKeeps
  BY DriveSame DEF BaseInv, CreateLocally
<1>5. local' = [m \in Node |-> IF m = n THEN v ELSE IF m \in Ups[n] THEN Dir ELSE local[m]]
  BY <1>1 DEF CreateLocally
<1>6. LocalOK'
  BY <1>3, <1>5, LocalCreated DEF BaseInv
<1>7. PlanOK' /\ SnapshotsOK'
  BY <1>4, PlanDone, SnapshotsSame DEF BaseInv, CreateLocally
<1>8. Record(n, row) /\ row \in Row /\ row.remoteId = i
  BY <1>1, <1>2, <1>3, FileRow DEF CreateLocally
<1>9. n \in Folders => row.localHash = None /\ row.remoteMd5 = None
  BY <1>1, <1>2, <1>3, FileRow
<1>10. IsObject(i, n)'
  BY <1>2, <1>4, ObjectsStay
<1>11. IndexOK'
  BY <1>4, <1>8, <1>9, <1>10, IndexRecorded DEF BaseInv
<1>12. PastOK'
  BY Remembers DEF BaseInv, PastOK, CreateLocally
<1> QED
  BY <1>4, <1>6, <1>7, <1>11, <1>12 DEF BaseInv

LEMMA DeleteLocalBase ==
  ASSUME BaseInv, NEW n \in Node, DeleteLocal(n)
  PROVE  BaseInv'
<1>1. DriveOK' /\ DriveKeeps
  BY DriveSame DEF BaseInv, DeleteLocal
<1>2. LocalOK'
  BY LocalRemoved DEF BaseInv, DeleteLocal
<1>3. PlanOK' /\ SnapshotsOK'
  BY <1>1, PlanDone, SnapshotsSame DEF BaseInv, DeleteLocal
<1>4. IndexOK'
  BY <1>1, IndexRecorded DEF BaseInv, DeleteLocal
<1>5. PastOK'
  BY PastSame DEF BaseInv, DeleteLocal, past
<1> QED
  BY <1>1, <1>2, <1>3, <1>4, <1>5 DEF BaseInv

LEMMA DeleteRemoteBase ==
  ASSUME BaseInv, NEW n \in Node, DeleteRemote(n)
  PROVE  BaseInv'
<1>1. PICK i \in {plan[n].id} : TRUE
  OBVIOUS
<1>2. i \in ObjId /\ drive[i] # None /\ drive' = [drive EXCEPT ![i].trashed = TRUE]
  BY <1>1, PlanUse DEF DeleteRemote, IsObject
<1>3. DriveOK' /\ DriveKeeps
  BY <1>2, DriveTrashed DEF BaseInv
<1>4. LocalOK'
  BY LocalSame DEF BaseInv, DeleteRemote
<1>5. PlanOK' /\ SnapshotsOK'
  BY <1>3, PlanDone, SnapshotsSame DEF BaseInv, DeleteRemote
<1>6. IndexOK'
  BY <1>3, IndexRecorded DEF BaseInv, DeleteRemote
<1>7. PastOK'
  BY DEF BaseInv, PastOK, DeleteRemote
<1> QED
  BY <1>3, <1>4, <1>5, <1>6, <1>7 DEF BaseInv

LEMMA MarkConflictBase ==
  ASSUME BaseInv, NEW n \in Node, MarkConflict(n)
  PROVE  BaseInv'
<1>1. DriveOK' /\ DriveKeeps
  BY DriveSame DEF BaseInv, MarkConflict
<1>2. LocalOK' /\ PastOK'
  BY LocalSame, PastSame DEF BaseInv, MarkConflict, past
<1>3. PlanOK' /\ SnapshotsOK'
  BY <1>1, PlanDone, SnapshotsSame DEF BaseInv, MarkConflict
<1>4. plan[n].id \in ObjId /\ IsObject(plan[n].id, n) /\ n \notin Folders
  BY PlanUse DEF MarkConflict
<1>5. PICK row \in {IF index[n] # None THEN [index[n] EXCEPT !.state = "conflict"]
                    ELSE [localHash |-> None, remoteMd5 |-> None, remoteId |-> plan[n].id,
                          state |-> "conflict"]} : TRUE
  OBVIOUS
<1>6. Record(n, row)
  BY <1>5 DEF MarkConflict
<1>7. row \in Row /\ IsObject(row.remoteId, n)
  <2>1. CASE index[n] # None
    <3>1. index[n] \in Row /\ IsObject(index[n].remoteId, n)
      BY <2>1 DEF BaseInv, IndexOK
    <3>2. row = [localHash |-> index[n].localHash, remoteMd5 |-> index[n].remoteMd5,
                 remoteId |-> index[n].remoteId, state |-> "conflict"]
      BY <1>5, <2>1, <3>1 DEF Row
    <3> QED
      BY <3>1, <3>2 DEF Row
  <2>2. CASE index[n] = None
    BY <1>4, <1>5, <2>2 DEF Row
  <2> QED
    BY <2>1, <2>2
<1>8. row.remoteId \in ObjId
  BY <1>7 DEF Row
<1>9. IsObject(row.remoteId, n)'
  BY <1>1, <1>7, <1>8, ObjectsStay
<1>10. IndexOK'
  BY <1>1, <1>4, <1>6, <1>7, <1>9, IndexRecorded DEF BaseInv
<1> QED
  BY <1>1, <1>2, <1>3, <1>10 DEF BaseInv

\* An action that failed, whichever way.
LEMMA SkippedBase ==
  ASSUME BaseInv, NEW n \in Node, LocalMissing(n) \/ ActionFails(n)
  PROVE  BaseInv'
<1>1. /\ IsNext(n) /\ Done(n) /\ UNCHANGED store /\ UNCHANGED <<pc, scan, listed, remoteIds>>
      /\ UNCHANGED <<ops, heldLocal, heldRemote, dirty, folderTrashed>>
      /\ faults' = faults \/ (faults < MaxFaults /\ faults' = faults + 1)
  BY DEF LocalMissing, ActionFails
<1>2. DriveOK' /\ DriveKeeps /\ LocalOK' /\ IndexOK'
  BY <1>1, DriveSame, LocalSame, IndexSame DEF BaseInv, store
<1>3. PlanOK' /\ SnapshotsOK'
  BY <1>1, <1>2, PlanDone, SnapshotsSame DEF BaseInv
<1>4. PastOK'
  BY <1>1, BoundAssumption DEF BaseInv, PastOK
<1> QED
  BY <1>2, <1>3, <1>4 DEF BaseInv

\* The cycle is over: done, or cut short.
LEMMA OverBase ==
  ASSUME BaseInv, EndCycle \/ CycleEnds
  PROVE  BaseInv'
<1>1. /\ Forget /\ pc' = "idle" /\ UNCHANGED store
      /\ UNCHANGED <<ops, heldLocal, heldRemote, dirty, folderTrashed>>
      /\ faults' = faults \/ (faults < MaxFaults /\ faults' = faults + 1)
  BY DEF EndCycle, CycleEnds
<1>2. DriveOK' /\ DriveKeeps /\ LocalOK' /\ IndexOK'
  BY <1>1, DriveSame, LocalSame, IndexSame DEF BaseInv, store
<1>3. SnapshotsOK'
  BY <1>1, SnapshotsForgotten
<1>4. plan' = [n \in Node |-> Nothing]
  BY DEF BaseInv, PlanOK, EndCycle, CycleEnds
<1>5. PlanOK'
  BY <1>4, PlanEmpty
<1>6. PastOK'
  BY <1>1, BoundAssumption DEF BaseInv, PastOK
<1> QED
  BY <1>2, <1>3, <1>5, <1>6 DEF BaseInv

\* What a user's operation leaves alone, given what it does to Drive.
LEMMA UserRest ==
  ASSUME BaseInv, NEW nodes \in SUBSET Node, NEW side \in {"local", "remote"},
         UserOp(nodes, side), DriveKeeps,
         heldLocal' \in [Names -> SUBSET Content], heldRemote' \in [Names -> SUBSET Content],
         folderTrashed' \in BOOLEAN
  PROVE  IndexOK' /\ SnapshotsOK' /\ PlanOK' /\ PastOK'
<1>1. UNCHANGED index /\ UNCHANGED <<pc, scan, listed, remoteIds>> /\ UNCHANGED plan
  BY DEF UserOp, cycle
<1>2. IndexOK' /\ SnapshotsOK' /\ PlanOK'
  BY <1>1, IndexSame, SnapshotsSame, PlanSame DEF BaseInv
<1>3. ops' \in 0..MaxOps /\ faults' \in 0..MaxFaults
  BY BoundAssumption DEF BaseInv, PastOK, UserOp
<1>4. dirty' \subseteq Node \X {"local", "remote"}
  BY DEF BaseInv, PastOK, UserOp
<1> QED
  BY <1>2, <1>3, <1>4 DEF PastOK

LEMMA SubtreeIn == \A n \in Node : Subtree(n) \in SUBSET Node /\ {n} \in SUBSET Node
BY DEF Subtree

LEMMA UserBase ==
  ASSUME BaseInv, NEW n \in Node,
         PutLocal(n) \/ RemoveLocal(n) \/ EditRemote(n) \/ CreateRemote(n) \/ TrashRemote(n)
  PROVE  BaseInv'
<1> USE DEF BaseInv
<1>1. CASE PutLocal(n)
  <2>1. PICK v \in IF n \in Folders THEN {Dir} ELSE Content :
          local' = [local EXCEPT ![n] = v] /\ heldLocal' = Remember(heldLocal, n, v)
    BY <1>1 DEF PutLocal
  <2>2. v \in Content \cup {Dir} /\ (v = Dir <=> n \in Folders)
    BY ValueFacts
  <2>3. LocalOK'
    BY <1>1, <2>1, <2>2, LocalPut DEF PutLocal
  <2>4. DriveOK' /\ DriveKeeps
    BY <1>1, DriveSame DEF PutLocal
  <2>5. heldLocal' \in [Names -> SUBSET Content]
    BY <2>1, Remembers DEF PastOK
  <2>6. UserOp({n}, "local") /\ UNCHANGED <<heldRemote, folderTrashed>>
    BY <1>1 DEF PutLocal
  <2> QED
    BY <2>3, <2>4, <2>5, <2>6, SubtreeIn, UserRest DEF PastOK
<1>2. CASE RemoveLocal(n)
  <2>1. LocalOK'
    BY <1>2, LocalRemoved DEF RemoveLocal
  <2>2. DriveOK' /\ DriveKeeps
    BY <1>2, DriveSame DEF RemoveLocal
  <2>3. UserOp(Subtree(n), "local") /\ UNCHANGED <<heldLocal, heldRemote, folderTrashed>>
    BY <1>2 DEF RemoveLocal
  <2> QED
    BY <2>1, <2>2, <2>3, SubtreeIn, UserRest DEF PastOK
<1>3. CASE EditRemote(n)
  <2>1. PICK i \in Live(n), v \in Content :
          drive' = [drive EXCEPT ![i].data = v] /\ heldRemote' = Remember(heldRemote, n, v)
    BY <1>3 DEF EditRemote
  <2>2. i \in ObjId /\ drive[i] # None /\ drive[i].at = n /\ n \notin Folders
    BY <1>3 DEF EditRemote, Live, IsLive
  <2>3. DriveOK' /\ DriveKeeps
    BY <2>1, <2>2, ValueFacts, DriveEdited
  <2>4. LocalOK'
    BY <1>3, LocalSame DEF EditRemote
  <2>5. heldRemote' \in [Names -> SUBSET Content]
    BY <2>1, Remembers DEF PastOK
  <2>6. UserOp({n}, "remote") /\ UNCHANGED <<heldLocal, folderTrashed>>
    BY <1>3 DEF EditRemote
  <2> QED
    BY <2>3, <2>4, <2>5, <2>6, SubtreeIn, UserRest DEF PastOK
<1>4. CASE CreateRemote(n)
  <2>1. PICK v \in IF n \in Folders THEN {Dir} ELSE Content,
             parent \in IF Parent[n] = Root THEN {RootId} ELSE Live(Parent[n]) :
          /\ drive' = [drive EXCEPT ![NewId] = NewObject(n, parent, v)]
          /\ heldRemote' = Remember(heldRemote, n, v)
    BY <1>4 DEF CreateRemote
  <2>2. v \in Content \cup {Dir} /\ (v = Dir <=> n \in Folders)
    BY ValueFacts
  <2>3. IsParent(parent, n)
    <3>1. CASE Parent[n] = Root
      BY <3>1 DEF IsParent
    <3>2. CASE Parent[n] # Root
      <4>1. parent \in ObjId /\ drive[parent] # None /\ drive[parent].at = Parent[n]
        BY <3>2 DEF Live, IsLive
      <4>2. Parent[n] \in Tails[Parent[n]]
        BY <3>2, ParentFacts, TailAssumption
      <4> QED
        BY <3>2, <4>1, <4>2 DEF IsParent, IsObject
    <3> QED
      BY <3>1, <3>2
  <2>4. PICK i \in {NewId} : TRUE
    OBVIOUS
  <2>5. i \in ObjId /\ drive[i] = None
    BY <1>4, <2>4, NewIdFacts DEF CreateRemote
  <2>6. drive' = [drive EXCEPT ![i] = NewObject(n, parent, v)]
    BY <2>1, <2>4
  <2>7. DriveOK' /\ DriveKeeps
    BY <2>2, <2>3, <2>5, <2>6, DriveAdded
  <2>8. LocalOK'
    BY <1>4, LocalSame DEF CreateRemote
  <2>9. heldRemote' \in [Names -> SUBSET Content]
    BY <2>1, Remembers DEF PastOK
  <2>10. UserOp({n}, "remote") /\ UNCHANGED <<heldLocal, folderTrashed>>
    BY <1>4 DEF CreateRemote
  <2> QED
    BY <2>7, <2>8, <2>9, <2>10, SubtreeIn, UserRest DEF PastOK
<1>5. CASE TrashRemote(n)
  <2>1. PICK i \in Live(n) : drive' = [drive EXCEPT ![i].trashed = TRUE]
    BY <1>5 DEF TrashRemote
  <2>2. i \in ObjId /\ drive[i] # None
    BY DEF Live, IsLive
  <2>3. DriveOK' /\ DriveKeeps
    BY <2>1, <2>2, DriveTrashed
  <2>4. LocalOK'
    BY <1>5, LocalSame DEF TrashRemote
  <2>5. folderTrashed' \in BOOLEAN
    BY <1>5 DEF TrashRemote, PastOK
  <2>6. UserOp(Subtree(n), "remote") /\ UNCHANGED <<heldLocal, heldRemote>>
    BY <1>5 DEF TrashRemote
  <2> QED
    BY <2>3, <2>4, <2>5, <2>6, SubtreeIn, UserRest DEF PastOK
<1> QED
  BY <1>1, <1>2, <1>3, <1>4, <1>5

LEMMA InitBase == Init => BaseInv
<1> SUFFICES ASSUME Init PROVE BaseInv
  OBVIOUS
<1>1. DriveOK
  BY DEF Init, DriveOK, ObjectsAreBelow
<1>2. LocalOK
  BY ValueFacts, TreesAssumption DEF Init, LocalOK, LocalIsATree
<1>3. IndexOK /\ SnapshotsOK
  BY RootFacts DEF Init, IndexOK, SnapshotsOK, ScanIsATree
<1>4. PlanOK
  BY NothingFits DEF Init, PlanOK, PlansFit, PlanFits, Transfers, Deletes, DirCreates,
     ConflictKinds, BothPresent
<1>5. heldLocal \in [Names -> SUBSET Content] /\ heldRemote \in [Names -> SUBSET Content]
  BY DEF Init
<1>6. ops \in 0..MaxOps /\ faults \in 0..MaxFaults
  BY BoundAssumption DEF Init
<1>7. dirty \subseteq Node \X {"local", "remote"} /\ folderTrashed \in BOOLEAN
  BY DEF Init
<1>8. PastOK
  BY <1>5, <1>6, <1>7 DEF PastOK
<1> QED
  BY <1>1, <1>2, <1>3, <1>4, <1>8 DEF BaseInv

LEMMA StutterBase == BaseInv /\ UNCHANGED vars => BaseInv'
<1> SUFFICES ASSUME BaseInv, UNCHANGED vars PROVE BaseInv'
  OBVIOUS
<1>1. /\ UNCHANGED store /\ UNCHANGED <<pc, scan, listed, remoteIds>> /\ UNCHANGED plan
      /\ UNCHANGED past
  BY DEF vars, cycle, past
<1>2. DriveOK' /\ DriveKeeps /\ LocalOK' /\ IndexOK'
  BY <1>1, DriveSame, LocalSame, IndexSame DEF BaseInv, store
<1> QED
  BY <1>1, <1>2, PlanSame, SnapshotsSame, PastSame DEF BaseInv

LEMMA StepBase == BaseInv /\ [Next]_vars => BaseInv'
<1> SUFFICES ASSUME BaseInv, [Next]_vars PROVE BaseInv'
  OBVIOUS
<1>1. CASE ScanLocal \/ ListRemote \/ Compare
  BY <1>1, ScanLocalBase, ListRemoteBase, CompareBase
<1>2. CASE EndCycle \/ CycleEnds
  BY <1>2, OverBase
<1>3. ASSUME NEW n \in Node, Execute(n)
      PROVE  BaseInv'
  BY <1>3, CreateOnDriveBase, UpdateRemoteBase, CreateLocallyBase, DeleteLocalBase,
     DeleteRemoteBase, MarkConflictBase, SkippedBase DEF Execute
<1>4. ASSUME NEW n \in Node, ActionFails(n)
      PROVE  BaseInv'
  BY <1>4, SkippedBase
<1>5. CASE User
  BY <1>5, UserBase DEF User
<1>6. CASE UNCHANGED vars
  BY <1>6, StutterBase
<1> QED
  BY <1>1, <1>2, <1>3, <1>4, <1>5, <1>6 DEF Next, Engine

(***************************************************************************)
(* Types, and the tree: nothing is kept below a missing folder, paths keep *)
(* their kind, and rows, listings, known folders and plans name objects of *)
(* their path or of a tail of it.                                          *)
(***************************************************************************)
THEOREM TreeTypeTheorem == Spec => [](TreeTypeOK /\ TreeNamesInv)
<1>1. Init => BaseInv
  BY InitBase
<1>2. BaseInv /\ [Next]_vars => BaseInv'
  BY StepBase
<1>3. Spec => []BaseInv
  BY <1>1, <1>2, PTL DEF Spec
<1> QED
  BY <1>3, BaseInvIs, PTL

-----------------------------------------------------------------------------
(***************************************************************************)
(* While nothing has failed and no folder was trashed behind the index's   *)
(* back: PeacefulTree, and how a step keeps it.  NowSits and NowLive are   *)
(* SitsAt and IsLive after the step.                                       *)
(***************************************************************************)
NowSits(i, n) == drive'[i] # None /\ drive'[i].at = n
NowLive(i)    == drive'[i] # None /\ \A a \in drive'[i].above \cup {i} : ~drive'[a].trashed
NowWait       == \E n \in Node : plan'[n].kind \in DirCreates

PeaceAfter ==
  /\ \A n \in Node :
       /\ index'[n] # None => NowSits(index'[n].remoteId, n)
       /\ plan'[n].id # None => NowSits(plan'[n].id, n)
       /\ plan'[n].kind \in {"CreateRemoteDir", "Upload"} /\ Parent[n] # Root =>
            remoteIds'[Parent[n]] # None \/ plan'[Parent[n]].kind = "CreateRemoteDir"
  /\ \A f \in Folders :
       /\ index'[f] # None => NowLive(index'[f].remoteId)
       /\ remoteIds'[f] # None => NowSits(remoteIds'[f], f) /\ (NowWait => NowLive(remoteIds'[f]))
       /\ plan'[f].kind = "CreateLocalDir" => NowLive(plan'[f].id)
       /\ pc' = "comparing" => /\ listed'[f] # None => NowLive(listed'[f].id)
                               /\ index'[f] # None => listed'[f] # None

LEMMA PeaceAfterIs == PeaceAfter => PeacefulTree'
BY DEF PeaceAfter, PeacefulTree, NowSits, NowLive, NowWait, SitsAt, IsLive, ParentComes, CreatesWait

\* The folders' objects that are live stay live.
FoldersLiveOn == \A f \in Folders, i \in ObjId : SitsAt(i, f) /\ IsLive(i) => NowLive(i)

LEMMA SitsStill ==
  ASSUME DriveKeeps, NEW i \in ObjId, NEW n, SitsAt(i, n)
  PROVE  NowSits(i, n)
BY DEF DriveKeeps, SitsAt, NowSits

\* Whoever is named is an object of Drive.
LEMMA NamedIds ==
  ASSUME BaseInv
  PROVE  /\ \A n \in Node : index[n] # None => index[n].remoteId \in ObjId
         /\ \A n \in Node : plan[n].id # None => plan[n].id \in ObjId
         /\ \A n \in Node : listed[n] # None => listed[n].id \in ObjId /\ SitsAt(listed[n].id, n)
         /\ \A f \in Folders : remoteIds[f] # None => remoteIds[f] \in ObjId
         /\ \A f \in Folders : plan[f].kind = "CreateLocalDir" => plan[f].id # None
BY RootFacts DEF BaseInv, IndexOK, PlanOK, PlansFit, PlanFits, SnapshotsOK, Row, Seen

\* Nothing but Drive changes.
LEMMA PeaceStays ==
  ASSUME BaseInv, PeacefulTree, DriveKeeps, FoldersLiveOn,
         UNCHANGED <<index, plan, remoteIds>>,
         pc' = "comparing" => pc = "comparing" /\ listed' = listed
  PROVE  PeacefulTree'
<1>1. ASSUME NEW n \in Node
      PROVE  /\ index'[n] # None => NowSits(index'[n].remoteId, n)
             /\ plan'[n].id # None => NowSits(plan'[n].id, n)
             /\ plan'[n].kind \in {"CreateRemoteDir", "Upload"} /\ Parent[n] # Root =>
                  remoteIds'[Parent[n]] # None \/ plan'[Parent[n]].kind = "CreateRemoteDir"
  BY NamedIds, SitsStill DEF PeacefulTree, ParentComes
<1>2. NowWait => CreatesWait
  BY DEF NowWait, CreatesWait
<1>3. ASSUME NEW f \in Folders
      PROVE  /\ index'[f] # None => NowLive(index'[f].remoteId)
             /\ remoteIds'[f] # None =>
                  NowSits(remoteIds'[f], f) /\ (NowWait => NowLive(remoteIds'[f]))
             /\ plan'[f].kind = "CreateLocalDir" => NowLive(plan'[f].id)
             /\ pc' = "comparing" => /\ listed'[f] # None => NowLive(listed'[f].id)
                                     /\ index'[f] # None => listed'[f] # None
  BY <1>2, NamedIds, SitsStill, RootFacts DEF PeacefulTree, FoldersLiveOn
<1> QED
  BY <1>1, <1>3, PeaceAfterIs DEF PeaceAfter

\* An action of the plan is done: its row, and the folder it made known, are the path's.
LEMMA PeaceGoesOn ==
  ASSUME BaseInv, PeacefulTree, DriveKeeps, FoldersLiveOn,
         NEW n \in Node, NEW row \in Row \cup {None}, Record(n, row), Done(n), pc' # "comparing",
         row # None => NowSits(row.remoteId, n) /\ (n \in Folders => NowLive(row.remoteId)),
         NEW i, plan[n].kind = "CreateRemoteDir" => i \in ObjId /\ NowSits(i, n) /\ NowLive(i),
         remoteIds' = IF plan[n].kind = "CreateRemoteDir" THEN [remoteIds EXCEPT ![n] = i]
                      ELSE remoteIds
  PROVE  PeacefulTree'
<1>1. /\ index'[n] = row /\ \A m \in Node \ {n} : index'[m] = index[m]
      /\ plan'[n] = Nothing /\ \A m \in Node \ {n} : plan'[m] = plan[m]
  BY DEF Record, Done, BaseInv, IndexOK, PlanOK
<1>2. /\ \A f \in Folders : remoteIds[f] # None => remoteIds'[f] # None
      /\ \A f \in Folders : remoteIds'[f] = remoteIds[f]
                              \/ (f = n /\ remoteIds'[f] = i /\ NowSits(i, n) /\ NowLive(i))
      /\ plan[n].kind = "CreateRemoteDir" => remoteIds'[n] # None
  <2>1. plan[n].kind = "CreateRemoteDir" => n \in Folders
    BY PlanUse DEF DirCreates
  <2> QED
    BY <2>1, ValueAssumption DEF BaseInv, SnapshotsOK
<1>3. ASSUME NEW m \in Node
      PROVE  /\ index'[m] # None => NowSits(index'[m].remoteId, m)
             /\ plan'[m].id # None => NowSits(plan'[m].id, m)
  BY <1>1, NamedIds, SitsStill, NothingFits DEF PeacefulTree
<1>4. ASSUME NEW m \in Node, plan'[m].kind \in {"CreateRemoteDir", "Upload"}, Parent[m] # Root
      PROVE  remoteIds'[Parent[m]] # None \/ plan'[Parent[m]].kind = "CreateRemoteDir"
  <2>1. Parent[m] \in Folders /\ Parent[m] \in Node
    BY <1>4, ParentFacts
  <2>2. plan[m].kind \in {"CreateRemoteDir", "Upload"}
    BY <1>1, <1>4, NothingFits
  <2>3. remoteIds[Parent[m]] # None \/ plan[Parent[m]].kind = "CreateRemoteDir"
    BY <1>4, <2>2 DEF PeacefulTree, ParentComes
  <2> QED
    BY <1>1, <1>2, <2>1, <2>3
<1>5. NowWait => CreatesWait
  BY <1>1, NothingFits DEF NowWait, CreatesWait, DirCreates
<1>6. ASSUME NEW f \in Folders
      PROVE  /\ index'[f] # None => NowLive(index'[f].remoteId)
             /\ plan'[f].kind = "CreateLocalDir" => NowLive(plan'[f].id)
  BY <1>1, NamedIds, NothingFits, RootFacts DEF PeacefulTree, FoldersLiveOn
<1>7. ASSUME NEW f \in Folders, remoteIds'[f] # None
      PROVE  NowSits(remoteIds'[f], f) /\ (NowWait => NowLive(remoteIds'[f]))
  BY <1>2, <1>5, <1>7, NamedIds, SitsStill, RootFacts DEF PeacefulTree, FoldersLiveOn
<1> QED
  BY <1>3, <1>4, <1>6, <1>7, PeaceAfterIs DEF PeaceAfter

LEMMA LiveSame == UNCHANGED drive => FoldersLiveOn
BY DEF FoldersLiveOn, IsLive, NowLive

LEMMA LiveEdited ==
  ASSUME DriveOK, DriveKeeps, NEW i \in ObjId, NEW v, drive' = [drive EXCEPT ![i].data = v],
         drive[i] # None
  PROVE  FoldersLiveOn
<1>1. drive[i] \in Object
  BY DEF DriveOK
<1>2. /\ drive'[i] = [at |-> drive[i].at, above |-> drive[i].above, data |-> v,
                      trashed |-> drive[i].trashed]
      /\ \A j \in ObjId \ {i} : drive'[j] = drive[j]
  BY <1>1 DEF DriveOK, Object
<1>3. \A j \in ObjId : drive'[j].trashed = drive[j].trashed
  BY <1>2
<1>4. \A j \in ObjId : drive[j] # None => drive[j].above \subseteq ObjId
  BY DEF DriveOK, Object
<1>5. ASSUME NEW j \in ObjId, IsLive(j)
      PROVE  NowLive(j)
  <2>1. drive[j] # None /\ drive'[j] # None /\ drive'[j].above = drive[j].above
    BY <1>5 DEF IsLive, DriveKeeps
  <2> QED
    BY <1>3, <1>4, <1>5, <2>1 DEF IsLive, NowLive
<1> QED
  BY <1>5 DEF FoldersLiveOn

LEMMA LiveAdded ==
  ASSUME DriveOK, DriveKeeps, NEW i \in ObjId, drive[i] = None,
         \A j \in ObjId \ {i} : drive'[j] = drive[j]
  PROVE  FoldersLiveOn
<1>1. ASSUME NEW j \in ObjId, IsLive(j)
      PROVE  NowLive(j)
  <2>1. drive[j] # None /\ j # i /\ drive'[j] = drive[j] /\ drive[j].above \subseteq ObjId
    BY <1>1 DEF IsLive, DriveOK, Object
  <2>2. \A a \in drive[j].above : drive[a] # None
    BY <2>1 DEF DriveOK, ObjectsAreBelow
  <2>3. \A a \in drive[j].above \cup {j} : drive'[a] = drive[a]
    BY <2>1, <2>2
  <2> QED
    BY <1>1, <2>1, <2>3 DEF IsLive, NowLive
<1> QED
  BY <1>1 DEF FoldersLiveOn

LEMMA ListRemotePeace ==
  ASSUME BaseInv, PeacefulTree, ListRemote
  PROVE  PeacefulTree'
<1>1. drive' = drive /\ index' = index /\ plan' = plan /\ remoteIds' = remoteIds
  BY DEF ListRemote, store
<1>2. DriveKeeps /\ FoldersLiveOn
  BY <1>1, LiveSame, DriveSame DEF BaseInv
<1>3. ASSUME NEW f \in Folders
      PROVE  /\ listed'[f] # None => NowLive(listed'[f].id)
             /\ index'[f] # None => listed'[f] # None
  <2>1. f \in Node
    BY RootFacts
  <2>2. /\ listed'[f] = None <=> Live(f) = {}
        /\ listed'[f] # None => listed'[f].id \in Live(f)
    BY <2>1, ListedFacts DEF BaseInv
  <2>3. listed'[f] # None => NowLive(listed'[f].id)
    BY <1>1, <2>2 DEF Live, IsLive, NowLive
  <2>4. index[f] # None => index[f].remoteId \in Live(f)
    BY <2>1, NamedIds DEF PeacefulTree, Live, SitsAt
  <2> QED
    BY <1>1, <2>2, <2>3, <2>4
<1>4. ASSUME NEW n \in Node
      PROVE  /\ index'[n] # None => NowSits(index'[n].remoteId, n)
             /\ plan'[n].id # None => NowSits(plan'[n].id, n)
             /\ plan'[n].kind \in {"CreateRemoteDir", "Upload"} /\ Parent[n] # Root =>
                  remoteIds'[Parent[n]] # None \/ plan'[Parent[n]].kind = "CreateRemoteDir"
  BY <1>1, <1>2, NamedIds, SitsStill DEF PeacefulTree, ParentComes
<1>5. NowWait => CreatesWait
  BY <1>1 DEF NowWait, CreatesWait
<1>6. ASSUME NEW f \in Folders
      PROVE  /\ index'[f] # None => NowLive(index'[f].remoteId)
             /\ remoteIds'[f] # None =>
                  NowSits(remoteIds'[f], f) /\ (NowWait => NowLive(remoteIds'[f]))
             /\ plan'[f].kind = "CreateLocalDir" => NowLive(plan'[f].id)
  BY <1>1, <1>2, <1>5, NamedIds, SitsStill, RootFacts DEF PeacefulTree, FoldersLiveOn
<1> QED
  BY <1>3, <1>4, <1>6, PeaceAfterIs DEF PeaceAfter

\* A new path's folder is on Drive, known, or about to be created: it was there at the scan,
\* and a folder with a row is still live.
LEMMA ComparePeace ==
  ASSUME BaseInv, PeacefulTree, Compare
  PROVE  PeacefulTree'
<1>1. drive' = drive /\ index' = index /\ pc = "comparing" /\ pc' = "executing"
  BY DEF Compare, store
<1>2. DriveKeeps /\ FoldersLiveOn
  BY <1>1, LiveSame, DriveSame DEF BaseInv
<1>3. /\ \A n \in Node : plan'[n] = Planned(n)
      /\ \A f \in Folders : remoteIds'[f] = IF listed[f] = None THEN None ELSE listed[f].id
  BY DEF Compare
<1>4. \A f \in Folders : /\ listed[f] # None => IsLive(listed[f].id) /\ SitsAt(listed[f].id, f)
                         /\ index[f] # None => listed[f] # None
  BY <1>1, NamedIds, RootFacts DEF PeacefulTree
<1>5. ASSUME NEW n \in Node
      PROVE  plan'[n].id # None => /\ NowSits(plan'[n].id, n)
                                   /\ plan'[n].kind = "CreateLocalDir" => plan'[n].id = listed[n].id
                                                                           /\ listed[n] # None
  <2>1. plan'[n] = Planned(n)
    BY <1>3
  <2>2. PICK a \in {Planned(n)} : TRUE
    OBVIOUS
  <2>3. /\ a.kind = "RemoteDeletedLocalModified" => index[n] # None /\ a.id = index[n].remoteId
        /\ a.kind \in {"Skip", "Upload", "DeleteLocal", "CreateRemoteDir"} => a.id = None
        /\ a.kind \notin {"Skip", "Upload", "DeleteLocal", "CreateRemoteDir",
                          "RemoteDeletedLocalModified"} => listed[n] # None /\ a.id = listed[n].id
    BY <2>2, PlannedFacts DEF BaseInv
  <2>4. a.id # None => NowSits(a.id, n)
    BY <1>2, <2>3, NamedIds, SitsStill DEF PeacefulTree
  <2> QED
    BY <2>1, <2>2, <2>3, <2>4
<1>6. ASSUME NEW n \in Node, plan'[n].kind \in {"CreateRemoteDir", "Upload"}, Parent[n] # Root
      PROVE  remoteIds'[Parent[n]] # None \/ plan'[Parent[n]].kind = "CreateRemoteDir"
  <2>1. Parent[n] \in Folders /\ Parent[n] \in Node
    BY <1>6, ParentFacts
  <2>2. n \in scan
    BY <1>3, <1>6, PlannedFacts DEF BaseInv
  <2>3. Parent[n] \in scan
    BY <1>6, <2>2 DEF BaseInv, SnapshotsOK, ScanIsATree
  <2>4. CASE listed[Parent[n]] = None
    <3>1. index[Parent[n]] = None
      BY <1>4, <2>1, <2>4
    <3>2. Planned(Parent[n]).kind = "CreateRemoteDir"
      BY <2>1, <2>3, <2>4, <3>1, PlannedFacts DEF BaseInv
    <3> QED
      BY <1>3, <2>1, <3>2
  <2>5. CASE listed[Parent[n]] # None
    <3>1. listed[Parent[n]].id # None
      BY <2>1, <2>5, NamedIds, ValueAssumption
    <3> QED
      BY <1>3, <2>1, <2>5, <3>1
  <2> QED
    BY <2>4, <2>5
<1>7. ASSUME NEW f \in Folders, remoteIds'[f] # None
      PROVE  NowSits(remoteIds'[f], f) /\ NowLive(remoteIds'[f])
  BY <1>2, <1>3, <1>4, <1>7, NamedIds, SitsStill, RootFacts DEF FoldersLiveOn
<1>8. ASSUME NEW f \in Folders
      PROVE  /\ index'[f] # None => NowLive(index'[f].remoteId)
             /\ plan'[f].kind = "CreateLocalDir" => NowLive(plan'[f].id)
  <2>1. index'[f] # None => NowLive(index'[f].remoteId)
    BY <1>1, <1>2, NamedIds, RootFacts DEF PeacefulTree, FoldersLiveOn
  <2>2. plan'[f].kind = "CreateLocalDir" => plan'[f].id # None
    BY <1>3, PlannedFits, RootFacts DEF BaseInv
  <2> QED
    BY <1>2, <1>4, <1>5, <2>1, <2>2, NamedIds, RootFacts DEF FoldersLiveOn
<1>9. \A n \in Node : index'[n] # None => NowSits(index'[n].remoteId, n)
  BY <1>1, <1>2, NamedIds, SitsStill DEF PeacefulTree
<1> QED
  BY <1>1, <1>5, <1>6, <1>7, <1>8, <1>9, PeaceAfterIs DEF PeaceAfter

\* A create under a folder finds that folder's object: the folder is made before it.
LEMMA CreateOnDrivePeace ==
  ASSUME BaseInv, PeacefulTree, NEW n \in Node, CreateOnDrive(n)
  PROVE  PeacefulTree'
<1>1. PICK i \in {NewId}, row \in {RowOf(n, NewId, local[n], CreatedData(n))},
           parent \in {ParentId(n)}, v \in {CreatedData(n)} : TRUE
  OBVIOUS
<1>2. /\ DriveOK' /\ DriveKeeps /\ i \in ObjId /\ drive[i] = None
      /\ drive'[i] = NewObject(n, parent, v) /\ drive'[i] # None
      /\ \A j \in ObjId \ {i} : drive'[j] = drive[j]
  BY <1>1, CreateOnDriveDrive
<1>3. FoldersLiveOn
  BY <1>2, LiveAdded DEF BaseInv
<1>4. v \in Content \cup {Dir} /\ IsParent(parent, n)
  BY <1>1, CreatedFacts, ParentIdFacts
<1>5. IsNew(NewObject(n, parent, v), n, parent, v)
  BY <1>4, NewObjectFacts DEF BaseInv
<1>6. plan[n].kind \in {"Upload", "CreateRemoteDir"} /\ pc = "executing" /\ IsNext(n) /\ Done(n)
  BY DEF CreateOnDrive, IsNext
<1>7. ASSUME Parent[n] # Root
      PROVE  /\ parent # RootId /\ parent = remoteIds[Parent[n]]
             /\ SitsAt(parent, Parent[n]) /\ parent \in ObjId
  <2>1. Parent[n] \in Folders /\ Parent[n] \in Node
    BY <1>7, ParentFacts
  <2>2. remoteIds[Parent[n]] # None \/ plan[Parent[n]].kind = "CreateRemoteDir"
    BY <1>6, <1>7 DEF PeacefulTree, ParentComes
  <2>3. plan[Parent[n]].kind # "CreateRemoteDir"
    <3> SUFFICES ASSUME plan[Parent[n]].kind = "CreateRemoteDir" PROVE FALSE
      OBVIOUS
    <3>1. plan[Parent[n]] # Nothing
      BY NothingFits
    <3>2. RunsBefore(Parent[n], n)
      <4>1. CASE plan[n].kind = "Upload"
        <5>1. Bucket("CreateRemoteDir") = 0 /\ Bucket("Upload") = 1
          BY DEF Bucket, DirCreates, Transfers, Deletes, ConflictKinds, BothPresent
        <5> QED
          BY <4>1, <5>1 DEF RunsBefore
      <4>2. CASE plan[n].kind = "CreateRemoteDir"
        <5>1. Depth(Parent[n]) < Depth(n)
          BY <1>7, ParentIsShallower
        <5> QED
          BY <4>2, <5>1 DEF RunsBefore, Bucket, DirCreates, Deletes
      <4> QED
        BY <1>6, <4>1, <4>2
    <3> QED
      BY <1>6, <2>1, <3>1, <3>2 DEF IsNext
  <2>4. SitsAt(remoteIds[Parent[n]], Parent[n]) /\ remoteIds[Parent[n]] \in ObjId
    BY <2>1, <2>2, <2>3, NamedIds DEF PeacefulTree
  <2> QED
    BY <1>1, <1>7, <2>2, <2>3, <2>4, ParentIdFacts
<1>8. NowSits(i, n)
  BY <1>2, <1>5, <1>7 DEF IsNew, NowSits
<1>9. ASSUME n \in Folders
      PROVE  NowLive(i)
  <2>1. CreatesWait
    BY <1>6, <1>9, PlanUse DEF CreatesWait, DirCreates, Transfers
  <2>2. CASE parent = RootId
    <3>1. drive'[i].above = {} /\ ~drive'[i].trashed
      BY <1>2, <1>5, <2>2 DEF IsNew
    <3> QED
      BY <1>2, <3>1 DEF NowLive
  <2>3. CASE parent # RootId
    <3>1. Parent[n] # Root
      BY <1>4, <2>3 DEF IsParent
    <3>2. Parent[n] \in Folders /\ parent = remoteIds[Parent[n]] /\ parent \in ObjId /\ parent # None
      BY <1>7, <3>1, ParentFacts, ValueAssumption
    <3>3. IsLive(parent) /\ SitsAt(parent, Parent[n])
      BY <2>1, <3>2 DEF PeacefulTree
    <3>4. NowLive(parent)
      BY <1>3, <3>2, <3>3 DEF FoldersLiveOn
    <3>5. drive'[parent].above = drive[parent].above
      BY <1>2, <3>2, <3>3 DEF DriveKeeps, SitsAt
    <3>6. drive'[i].above = drive'[parent].above \cup {parent} /\ ~drive'[i].trashed
      BY <1>2, <1>5, <2>3, <3>5 DEF IsNew
    <3> QED
      BY <1>2, <3>4, <3>6 DEF NowLive
  <2> QED
    BY <2>2, <2>3
<1>10. Record(n, row)
  BY <1>1 DEF CreateOnDrive, CreatedData
<1>11. row \in Row /\ row.remoteId = i
  <2>1. NewId \in ObjId
    BY <1>1, <1>2
  <2> QED
    BY <1>1, <2>1, CreatedFacts, FileRow
<1>12. plan[n].kind = "CreateRemoteDir" <=> n \in Folders
  BY <1>6, PlanUse DEF DirCreates, Transfers
<1>13. remoteIds' = IF plan[n].kind = "CreateRemoteDir" THEN [remoteIds EXCEPT ![n] = i] ELSE remoteIds
  BY <1>1, <1>12 DEF CreateOnDrive
<1>14. pc' # "comparing"
  BY <1>6 DEF CreateOnDrive
<1> QED
  BY <1>2, <1>3, <1>6, <1>8, <1>9, <1>10, <1>11, <1>12, <1>13, <1>14, PeaceGoesOn

\* The other actions of the loop but one: they trash nothing and make no folder known.
LEMMA ExecutePeace ==
  ASSUME BaseInv, PeacefulTree, NEW n \in Node,
         UpdateRemote(n) \/ CreateLocally(n) \/ DeleteLocal(n) \/ MarkConflict(n)
  PROVE  PeacefulTree'
<1>1. /\ IsNext(n) /\ Done(n) /\ pc' # "comparing" /\ plan[n].kind # "CreateRemoteDir"
      /\ remoteIds' = remoteIds
  BY DEF UpdateRemote, CreateLocally, DeleteLocal, MarkConflict, IsNext, ConflictKinds, BothPresent
<1>2. DriveKeeps /\ FoldersLiveOn
  <2>1. CASE UpdateRemote(n)
    <3>1. PICK i \in {plan[n].id}, v \in {local[n]} : TRUE
      OBVIOUS
    <3>2. /\ i \in ObjId /\ drive[i] \in Object /\ IsObject(i, n) /\ n \notin Folders
          /\ (drive[i].at \in Folders <=> n \in Folders)
      BY <2>1, <3>1, PlanUse DEF UpdateRemote, Transfers
    <3>3. v \in Content /\ v # Dir
      BY <2>1, <3>1, <3>2, ValueFacts DEF UpdateRemote, BaseInv, LocalOK
    <3>4. drive' = [drive EXCEPT ![i].data = v]
      BY <2>1, <3>1 DEF UpdateRemote
    <3>5. DriveKeeps
      BY <3>2, <3>3, <3>4, DriveEdited DEF BaseInv, IsObject
    <3> QED
      BY <3>2, <3>4, <3>5, LiveEdited DEF BaseInv, IsObject
  <2>2. CASE CreateLocally(n) \/ DeleteLocal(n) \/ MarkConflict(n)
    BY <2>2, LiveSame, DriveSame DEF BaseInv, CreateLocally, DeleteLocal, MarkConflict
  <2> QED
    BY <2>1, <2>2
<1>3. PICK row \in {index'[n]} : TRUE
  OBVIOUS
<1>4. Record(n, row) /\ row \in Row \cup {None}
  <2>1. index' \in [Node -> Row \cup {None}]
    BY UpdateRemoteBase, CreateLocallyBase, DeleteLocalBase, MarkConflictBase DEF BaseInv, IndexOK
  <2>2. \E x : index' = [index EXCEPT ![n] = x]
    BY DEF UpdateRemote, CreateLocally, DeleteLocal, MarkConflict, Record
  <2> QED
    BY <1>3, <2>1, <2>2 DEF Record, BaseInv, IndexOK
<1>5. ASSUME row # None
      PROVE  NowSits(row.remoteId, n) /\ (n \in Folders => NowLive(row.remoteId))
  <2>1. PICK i \in {row.remoteId} : TRUE
    OBVIOUS
  <2>2. i = plan[n].id \/ (index[n] # None /\ i = index[n].remoteId /\ n \notin Folders)
    <3>1. CASE UpdateRemote(n) \/ CreateLocally(n)
      BY <1>3, <2>1, <3>1 DEF UpdateRemote, CreateLocally, Record, RowOf, BaseInv, IndexOK
    <3>2. CASE DeleteLocal(n)
      BY <1>3, <1>5, <3>2 DEF DeleteLocal, Record, BaseInv, IndexOK
    <3>3. CASE MarkConflict(n)
      <4>1. n \notin Folders
        BY <3>3, PlanUse DEF MarkConflict
      <4>2. row = IF index[n] # None THEN [index[n] EXCEPT !.state = "conflict"]
                  ELSE [localHash |-> None, remoteMd5 |-> None, remoteId |-> plan[n].id,
                        state |-> "conflict"]
        BY <1>3, <3>3 DEF MarkConflict, Record, BaseInv, IndexOK
      <4>3. CASE index[n] = None
        BY <2>1, <4>2, <4>3
      <4>4. CASE index[n] # None
        <5>1. index[n] \in Row
          BY <4>4 DEF BaseInv, IndexOK
        <5> QED
          BY <2>1, <4>1, <4>2, <4>4, <5>1 DEF Row
      <4> QED
        BY <4>3, <4>4
    <3> QED
      BY <3>1, <3>2, <3>3
  <2>3. i \in ObjId
    BY <1>4, <1>5, <2>1 DEF Row
  <2>4. SitsAt(i, n)
    BY <2>2, <2>3, ValueAssumption DEF PeacefulTree
  <2>5. ASSUME n \in Folders
        PROVE  IsLive(i)
    <3>1. i = plan[n].id /\ i # None
      BY <2>2, <2>3, <2>5, ValueAssumption
    <3>2. plan[n].kind = "CreateLocalDir"
      <4>1. plan[n].kind \in DirCreates \cup Deletes \cup {"Skip"}
        BY <2>5 DEF BaseInv, PlanOK, PlansFit, PlanFits
      <4>2. CASE DeleteLocal(n)
        BY <1>3, <1>5, <4>2 DEF DeleteLocal, Record, BaseInv, IndexOK
      <4> QED
        BY <4>1, <4>2 DEF UpdateRemote, CreateLocally, MarkConflict, DirCreates, Deletes,
           ConflictKinds, BothPresent
    <3> QED
      BY <2>5, <3>1, <3>2 DEF PeacefulTree
  <2> QED
    BY <1>2, <2>1, <2>3, <2>4, <2>5, SitsStill DEF FoldersLiveOn
<1> QED
  BY <1>1, <1>2, <1>4, <1>5, PeaceGoesOn

\* Deleting a folder on Drive: nothing below it has a row, and no create is left to rely on it.
LEMMA DeleteRemotePeace ==
  ASSUME BaseInv, PeacefulTree, NEW n \in Node, DeleteRemote(n), ~folderTrashed'
  PROVE  PeacefulTree'
<1>1. PICK i \in {plan[n].id} : TRUE
  OBVIOUS
<1>2. i \in ObjId /\ drive[i] # None /\ drive' = [drive EXCEPT ![i].trashed = TRUE]
  BY <1>1, PlanUse DEF DeleteRemote, IsObject
<1>3. DriveKeeps /\ \A j \in ObjId : IsLive(j) /\ ~IsLive(j)' => j = i \/ i \in drive[j].above
  BY <1>2, DriveTrashed DEF BaseInv
<1>4. i # None /\ drive[i].at = n
  BY <1>1, <1>2, ValueAssumption DEF PeacefulTree, SitsAt
<1>5. /\ index'[n] = None /\ \A m \in Node \ {n} : index'[m] = index[m]
      /\ plan'[n] = Nothing /\ \A m \in Node \ {n} : plan'[m] = plan[m]
      /\ remoteIds' = remoteIds /\ pc' = "executing" /\ IsNext(n) /\ plan[n].kind = "DeleteRemote"
  BY DEF DeleteRemote, Record, Done, BaseInv, IndexOK, PlanOK, IsNext
<1>6. \A m \in Subtree(n) \ {n} : index[m] = None
  BY DEF DeleteRemote, BaseInv, PastOK
<1>7. ASSUME NEW m \in Node, plan[m].kind \in DirCreates
      PROVE  FALSE
  <2>1. plan[m] # Nothing
    BY <1>7, NothingFits DEF DirCreates
  <2>2. Bucket(plan[m].kind) = 0 /\ Bucket("DeleteRemote") = 2
    BY <1>7 DEF Bucket, DirCreates, Transfers, Deletes, ConflictKinds, BothPresent
  <2>3. RunsBefore(m, n)
    BY <1>5, <2>2 DEF RunsBefore
  <2> QED
    BY <1>5, <2>1, <2>3 DEF IsNext
<1>8. ~NowWait
  BY <1>5, <1>7, NothingFits DEF NowWait, DirCreates
<1>9. ASSUME NEW f \in Folders, index'[f] # None
      PROVE  NowLive(index'[f].remoteId)
  <2>1. PICK j \in {index[f].remoteId} : TRUE
    OBVIOUS
  <2>2. f \in Node /\ f # n /\ index'[f] = index[f]
    BY <1>5, <1>9, RootFacts
  <2>3. j \in ObjId /\ SitsAt(j, f) /\ IsLive(j)
    BY <1>9, <2>1, <2>2, NamedIds DEF PeacefulTree
  <2>4. j # i
    BY <1>4, <2>2, <2>3 DEF SitsAt
  <2>5. i \notin drive[j].above
    <3> SUFFICES ASSUME i \in drive[j].above PROVE FALSE
      OBVIOUS
    <3>1. n \in Ups[f]
      BY <1>4, <2>3 DEF BaseInv, DriveOK, ObjectsAreBelow, SitsAt
    <3>2. f \in Subtree(n) \ {n}
      BY <2>2, <3>1 DEF Subtree
    <3> QED
      BY <1>6, <1>9, <2>2, <3>2
  <2>6. IsLive(j)'
    BY <1>3, <2>3, <2>4, <2>5
  <2> QED
    BY <2>1, <2>2, <2>6 DEF IsLive, NowLive
<1>10. ASSUME NEW m \in Node
       PROVE  /\ index'[m] # None => NowSits(index'[m].remoteId, m)
              /\ plan'[m].id # None => NowSits(plan'[m].id, m)
  BY <1>3, <1>5, NamedIds, SitsStill, NothingFits DEF PeacefulTree
<1>11. ASSUME NEW m \in Node, plan'[m].kind \in {"CreateRemoteDir", "Upload"}, Parent[m] # Root
       PROVE  remoteIds'[Parent[m]] # None \/ plan'[Parent[m]].kind = "CreateRemoteDir"
  <2>1. plan[m].kind \in {"CreateRemoteDir", "Upload"} /\ Parent[m] \in Node
    BY <1>5, <1>11, NothingFits, ParentFacts
  <2>2. remoteIds[Parent[m]] # None \/ plan[Parent[m]].kind = "CreateRemoteDir"
    BY <1>11, <2>1 DEF PeacefulTree, ParentComes
  <2> QED
    BY <1>5, <2>1, <2>2
<1>12. ASSUME NEW f \in Folders
       PROVE  /\ remoteIds'[f] # None => NowSits(remoteIds'[f], f)
              /\ plan'[f].kind # "CreateLocalDir"
  BY <1>3, <1>5, <1>7, NamedIds, SitsStill, NothingFits, RootFacts DEF PeacefulTree, DirCreates
<1> QED
  BY <1>5, <1>8, <1>9, <1>10, <1>11, <1>12, PeaceAfterIs DEF PeaceAfter

LEMMA UserPeace ==
  ASSUME BaseInv, PeacefulTree, NEW n \in Node, ~folderTrashed',
         PutLocal(n) \/ RemoveLocal(n) \/ EditRemote(n) \/ CreateRemote(n) \/ TrashRemote(n)
  PROVE  PeacefulTree'
<1>1. UNCHANGED <<index, plan, remoteIds>> /\ UNCHANGED <<pc, listed>>
  BY DEF PutLocal, RemoveLocal, EditRemote, CreateRemote, TrashRemote, UserOp, cycle
<1>2. CASE PutLocal(n) \/ RemoveLocal(n)
  <2>1. DriveKeeps /\ FoldersLiveOn
    BY <1>2, LiveSame, DriveSame DEF BaseInv, PutLocal, RemoveLocal
  <2> QED
    BY <1>1, <2>1, PeaceStays
<1>3. CASE EditRemote(n)
  <2>1. PICK i \in Live(n), v \in Content : drive' = [drive EXCEPT ![i].data = v]
    BY <1>3 DEF EditRemote
  <2>2. i \in ObjId /\ drive[i] # None /\ drive[i].at = n /\ n \notin Folders
    BY <1>3 DEF EditRemote, Live, IsLive
  <2>3. DriveKeeps
    BY <2>1, <2>2, ValueFacts, DriveEdited DEF BaseInv
  <2>4. FoldersLiveOn
    BY <2>1, <2>2, <2>3, LiveEdited DEF BaseInv
  <2> QED
    BY <1>1, <2>3, <2>4, PeaceStays
<1>4. CASE CreateRemote(n)
  <2>1. PICK i \in {NewId} : TRUE
    OBVIOUS
  <2>2. i \in ObjId /\ drive[i] = None /\ \E o : drive' = [drive EXCEPT ![i] = o]
    BY <1>4, <2>1, NewIdFacts DEF CreateRemote
  <2>3. \A j \in ObjId \ {i} : drive'[j] = drive[j]
    BY <2>2 DEF BaseInv, DriveOK
  <2>4. DriveKeeps
    BY <2>2, <2>3 DEF DriveKeeps
  <2>5. FoldersLiveOn
    BY <2>2, <2>3, <2>4, LiveAdded DEF BaseInv
  <2> QED
    BY <1>1, <2>4, <2>5, PeaceStays
<1>5. CASE TrashRemote(n)
  <2>1. n \notin Folders
    BY <1>5 DEF TrashRemote, BaseInv, PastOK
  <2>2. PICK i \in Live(n) : drive' = [drive EXCEPT ![i].trashed = TRUE]
    BY <1>5 DEF TrashRemote
  <2>3. i \in ObjId /\ drive[i] # None /\ drive[i].at = n
    BY DEF Live, IsLive
  <2>4. DriveKeeps /\ \A j \in ObjId : IsLive(j) /\ ~IsLive(j)' => j = i \/ i \in drive[j].above
    BY <2>2, <2>3, DriveTrashed DEF BaseInv
  <2>5. ASSUME NEW f \in Folders, NEW j \in ObjId, SitsAt(j, f), IsLive(j)
        PROVE  NowLive(j)
    <3>1. j # i
      BY <2>1, <2>3, <2>5 DEF SitsAt
    <3>2. i \notin drive[j].above
      <4>1. \A a \in drive[j].above : drive[a].at \in Folders
        BY <2>5, UpFacts, RootFacts DEF BaseInv, DriveOK, ObjectsAreBelow, SitsAt
      <4> QED
        BY <2>1, <2>3, <4>1
    <3>3. IsLive(j)'
      BY <2>4, <2>5, <3>1, <3>2
    <3> QED
      BY <3>3 DEF IsLive, NowLive
  <2>6. FoldersLiveOn
    BY <2>5 DEF FoldersLiveOn
  <2> QED
    BY <1>1, <2>4, <2>6, PeaceStays
<1> QED
  BY <1>2, <1>3, <1>4, <1>5

\* A cycle starts, ends, or skips a file that is gone by now.
LEMMA QuietPeace ==
  ASSUME BaseInv, PeacefulTree,
         ScanLocal \/ EndCycle \/ UNCHANGED vars \/ \E n \in Node : LocalMissing(n)
  PROVE  PeacefulTree'
<1>1. UNCHANGED drive /\ UNCHANGED index
  BY DEF ScanLocal, EndCycle, LocalMissing, vars, store
<1>2. DriveKeeps /\ FoldersLiveOn
  BY <1>1, LiveSame, DriveSame DEF BaseInv
<1>3. CASE ScanLocal \/ UNCHANGED vars
  BY <1>1, <1>2, <1>3, PeaceStays DEF ScanLocal, vars, cycle
<1>4. CASE EndCycle
  <2>1. /\ \A f \in Folders : remoteIds'[f] = None
        /\ \A m \in Node : plan'[m] = Nothing
        /\ pc' # "comparing"
    BY <1>4 DEF EndCycle, Forget, BaseInv, PlanOK
  <2>2. \A m \in Node : index'[m] # None => NowSits(index'[m].remoteId, m)
    BY <1>1, <1>2, NamedIds, SitsStill DEF PeacefulTree
  <2>3. \A f \in Folders : index'[f] # None => NowLive(index'[f].remoteId)
    BY <1>1, <1>2, NamedIds, RootFacts DEF PeacefulTree, FoldersLiveOn
  <2> QED
    BY <2>1, <2>2, <2>3, NothingFits, RootFacts, PeaceAfterIs DEF PeaceAfter
<1>5. CASE \E n \in Node : LocalMissing(n)
  <2> PICK n \in Node : LocalMissing(n)
    BY <1>5
  <2>1. PICK row \in {index[n]} : TRUE
    OBVIOUS
  <2>2. row \in Row \cup {None} /\ Record(n, row)
    BY <1>1, <2>1 DEF BaseInv, IndexOK, Record
  <2>3. n \notin Folders /\ Done(n) /\ remoteIds' = remoteIds /\ plan[n].kind # "CreateRemoteDir"
    BY PlanUse DEF LocalMissing, Transfers
  <2>4. row # None => NowSits(row.remoteId, n)
    BY <1>2, <2>1, NamedIds, SitsStill DEF PeacefulTree
  <2>5. pc' # "comparing"
    BY DEF LocalMissing, IsNext
  <2> QED
    BY <1>2, <2>2, <2>3, <2>4, <2>5, PeaceGoesOn
<1> QED
  BY <1>3, <1>4, <1>5

-----------------------------------------------------------------------------
(***************************************************************************)
(* What is destroyed on one side the other side once had: VersionsInv.     *)
(***************************************************************************)
LEMMA NameFacts == \A n \in Node : /\ Name[n] \in Names
                                   /\ \A q \in Tails[n] : q \in Node /\ Name[q] = Name[n]
BY TailAssumption DEF Names

LEMMA RememberFacts ==
  ASSUME NEW held \in [Names -> SUBSET Content], NEW n \in Node, NEW v
  PROVE  /\ \A m \in Node : held[Name[m]] \subseteq Remember(held, n, v)[Name[m]]
         /\ v \in Content => v \in Remember(held, n, v)[Name[n]]
<1>1. Name[n] \in Names /\ \A m \in Node : Name[m] \in Names
  BY NameFacts
<1>2. Remember(held, n, v) = [held EXCEPT ![Name[n]] = held[Name[n]] \cup Holds(v)]
  BY DEF Remember
<1> QED
  BY <1>1, <1>2 DEF Holds

PastGrows ==
  /\ \A m \in Node : /\ heldLocal[Name[m]] \subseteq heldLocal'[Name[m]]
                     /\ heldRemote[Name[m]] \subseteq heldRemote'[Name[m]]
  /\ dirty \subseteq dirty'

LEMMA HeldStep ==
  ASSUME BaseInv, HeldIsHeld, PastGrows,
         \A n \in Node : local'[n] \in Content =>
           local'[n] = local[n] \/ local'[n] \in heldLocal'[Name[n]],
         \A i \in ObjId : drive'[i] # None /\ drive'[i].data \in Content =>
           \/ drive[i] # None /\ drive'[i].data = drive[i].data /\ drive'[i].at = drive[i].at
           \/ drive'[i].data \in heldRemote'[Name[drive'[i].at]]
  PROVE  HeldIsHeld'
<1>1. \A i \in ObjId : drive[i] # None => drive[i].at \in Node
  BY DEF BaseInv, DriveOK, Object
<1> QED
  BY <1>1 DEF HeldIsHeld, PastGrows

LEMMA RowsStep ==
  ASSUME BaseInv, RowsAreShared, PastGrows, NEW n \in Node, NEW row, Record(n, row),
         row # None => /\ row.localHash # None => row.localHash \in heldRemote'[Name[n]]
                       /\ row.remoteMd5 # None => row.remoteMd5 \in heldLocal'[Name[n]]
  PROVE  RowsAreShared'
<1>1. index'[n] = row /\ \A m \in Node \ {n} : index'[m] = index[m]
  BY DEF Record, BaseInv, IndexOK
<1> QED
  BY <1>1 DEF RowsAreShared, PastGrows

\* The rest of the plan stays as good as it was when an action is done.
LEMMA PlanStep ==
  ASSUME BaseInv, VersionsInv, PastGrows, DriveKeeps, NEW n \in Node, Done(n), pc' = "executing",
         \A m \in Node \ {n} : local'[m] = local[m] \/ local'[m] \notin Content,
         \A m \in Node \ {n} : plan[m].kind \in {"UpdateRemote", "DeleteRemote"} =>
           drive'[plan[m].id].data = drive[plan[m].id].data
  PROVE  \A m \in Node : SnapshotHolds(m)' /\ PlanSpares(m)'
<1>1. plan'[n] = Nothing /\ \A m \in Node \ {n} : plan'[m] = plan[m]
  BY DEF Done, BaseInv, PlanOK
<1>2. ASSUME NEW m \in Node PROVE PlanSpares(m)'
  <2>1. CASE m = n
    BY <1>1, <2>1, NothingFits DEF PlanSpares
  <2>2. CASE m # n
    <3>1. plan'[m] = plan[m] /\ PlanSpares(m)
      BY <1>1, <2>2 DEF VersionsInv
    <3>2. plan[m].kind \in {"Download", "DeleteLocal"} /\ local'[m] \in Content =>
            local'[m] \in heldRemote'[Name[m]] \/ <<m, "local">> \in dirty'
      BY <2>2, <3>1 DEF PlanSpares, PastGrows
    <3>3. ASSUME plan[m].kind \in {"UpdateRemote", "DeleteRemote"}
          PROVE  /\ drive'[plan[m].id] # None /\ drive'[plan[m].id].at = m
                 /\ drive'[plan[m].id].data \in Content =>
                      \/ drive'[plan[m].id].data \in heldLocal'[Name[m]]
                      \/ <<m, "remote">> \in dirty'
      <4>1. plan[m].id \in ObjId
        BY <3>3, PlanUse
      <4>2. drive[plan[m].id] # None /\ drive[plan[m].id].at = m
        BY <3>1, <3>3 DEF PlanSpares, SitsAt
      <4>3. drive'[plan[m].id].data = drive[plan[m].id].data
        BY <2>2, <3>3
      <4> QED
        BY <3>1, <3>3, <4>1, <4>2, <4>3 DEF PlanSpares, PastGrows, DriveKeeps
    <3> QED
      BY <3>1, <3>2, <3>3 DEF PlanSpares, SitsAt
  <2> QED
    BY <2>1, <2>2
<1> QED
  BY <1>2 DEF SnapshotHolds

\* What users do, they are known to have done.
LEMMA UserVersions ==
  ASSUME BaseInv, VersionsInv, PastGrows, DriveKeeps, UNCHANGED <<index, plan, pc, scan, listed>>,
         HeldIsHeld',
         \A m \in Node : \/ local'[m] = local[m] \/ local'[m] \notin Content
                         \/ <<m, "local">> \in dirty',
         \A i \in ObjId : drive[i] # None =>
           drive'[i].data = drive[i].data \/ <<drive[i].at, "remote">> \in dirty'
  PROVE  VersionsInv'
<1>1. RowsAreShared'
  BY DEF VersionsInv, RowsAreShared, PastGrows
<1>2. ASSUME NEW m \in Node PROVE SnapshotHolds(m)'
  <2>1. listed[m] # None => listed[m].id \in ObjId /\ SitsAt(listed[m].id, m)
    BY NamedIds
  <2>2. SnapshotHolds(m)
    BY DEF VersionsInv
  <2> QED
    BY <2>1, <2>2 DEF SnapshotHolds, SitsAt, PastGrows
<1>3. ASSUME NEW m \in Node PROVE PlanSpares(m)'
  <2>1. plan[m].kind \in {"UpdateRemote", "DeleteRemote"} => plan[m].id \in ObjId
    BY PlanUse
  <2>2. PlanSpares(m)
    BY DEF VersionsInv
  <2>3. plan[m].kind \in {"Download", "DeleteLocal"} /\ local'[m] \in Content =>
          local'[m] \in heldRemote'[Name[m]] \/ <<m, "local">> \in dirty'
    BY <2>2 DEF PlanSpares, PastGrows
  <2> QED
    BY <2>1, <2>2, <2>3 DEF PlanSpares, SitsAt, PastGrows, DriveKeeps
<1> QED
  BY <1>1, <1>2, <1>3 DEF VersionsInv

\* What a destructive decision has compared.
Compared(k, l, r, b) ==
  /\ k = "Download" => l = None \/ (b # None /\ l.hash = b.localHash)
  /\ k = "DeleteLocal" => l # None /\ b # None /\ l.hash = b.localHash
  /\ k \in {"UpdateRemote", "DeleteRemote"} => r # None /\ b # None /\ r.hash = b.remoteMd5

LEMMA DecideCompares ==
  ASSUME NEW n \in Node, NEW l, NEW r, NEW b, IsSide(l, n), IsSide(r, n)
  PROVE  Compared(Decide("two-way", FALSE, l, r, b), l, r, b)
BY DEF Compared, IsSide, Decide, NewLocal, NewRemote, FirstSync, Tracked, LocalGone, RemoteGone,
   LocalChanged, RemoteChanged, Pushes, Pulls

LEMMA CompareVersions ==
  ASSUME BaseInv, VersionsInv, Compare
  PROVE  VersionsInv'
<1>1. /\ UNCHANGED <<local, drive, index, heldLocal, heldRemote, dirty>>
      /\ pc = "comparing" /\ pc' = "executing" /\ \A n \in Node : plan'[n] = Planned(n)
  BY DEF Compare, store
<1>2. HeldIsHeld' /\ RowsAreShared'
  BY <1>1 DEF VersionsInv, HeldIsHeld, RowsAreShared
<1>3. ASSUME NEW n \in Node PROVE PlanSpares(n)'
  <2>1. PICK k \in {Planned(n).kind}, id \in {Planned(n).id} : TRUE
    OBVIOUS
  <2>2. IsSide(LocalSide(n), n) /\ IsSide(RemoteSide(n), n)
    BY SideFacts DEF BaseInv
  <2>3. k = Decide("two-way", FALSE, LocalSide(n), RemoteSide(n), index[n])
    BY <2>1, PlannedFacts DEF BaseInv
  <2>4. Compared(k, LocalSide(n), RemoteSide(n), index[n])
    BY <2>2, <2>3, DecideCompares
  <2>5. /\ LocalSide(n) # None => n \in scan
        /\ n \in scan /\ local[n] \in Content => LocalSide(n) # None /\ LocalSide(n).hash = local[n]
    <3>1. LocalSide(n) # None <=> n \in scan
      BY SideFacts DEF BaseInv
    <3>2. local[n] \in Content => n \notin Folders
      BY ValueFacts DEF BaseInv, LocalOK
    <3> QED
      BY <3>1, <3>2 DEF LocalSide, EntryOf, Entry
  <2>6. ASSUME k \in {"Download", "DeleteLocal"}, local[n] \in Content
        PROVE  local[n] \in heldRemote[Name[n]] \/ <<n, "local">> \in dirty
    <3>1. CASE n \notin scan
      BY <1>1, <2>6, <3>1 DEF VersionsInv, SnapshotHolds
    <3>2. CASE n \in scan
      <4>1. index[n] # None /\ local[n] = index[n].localHash
        BY <2>4, <2>5, <2>6, <3>2 DEF Compared
      <4> QED
        BY <2>6, <4>1, ValueFacts DEF VersionsInv, RowsAreShared
    <3> QED
      BY <3>1, <3>2
  <2>7. ASSUME k \in {"UpdateRemote", "DeleteRemote"}
        PROVE  /\ SitsAt(id, n)
               /\ drive[id].data \in Content =>
                    drive[id].data \in heldLocal[Name[n]] \/ <<n, "remote">> \in dirty
    <3>1. listed[n] # None /\ id = listed[n].id /\ SitsAt(id, n)
      BY <2>1, <2>7, PlannedFacts, NamedIds DEF BaseInv
    <3>2. ASSUME drive[id].data \in Content, <<n, "remote">> \notin dirty
          PROVE  drive[id].data \in heldLocal[Name[n]]
      <4>1. drive[id].data = listed[n].data
        BY <1>1, <3>1, <3>2 DEF VersionsInv, SnapshotHolds
      <4>2. n \notin Folders
        BY <3>1, <3>2, NamedIds, ValueFacts DEF BaseInv, DriveOK, SitsAt
      <4>3. RemoteSide(n).hash = listed[n].data
        BY <3>1, <4>2 DEF RemoteSide, EntryOf, Entry
      <4>4. index[n] # None /\ index[n].remoteMd5 = drive[id].data
        BY <2>4, <2>7, <4>1, <4>3 DEF Compared
      <4> QED
        BY <3>2, <4>4, ValueFacts DEF VersionsInv, RowsAreShared
    <3> QED
      BY <3>1, <3>2
  <2>8. plan'[n].kind = k /\ plan'[n].id = id
    BY <1>1, <2>1
  <2> QED
    BY <1>1, <2>6, <2>7, <2>8 DEF PlanSpares, SitsAt
<1> QED
  BY <1>1, <1>2, <1>3 DEF VersionsInv, SnapshotHolds

LEMMA EarlyVersions ==
  ASSUME BaseInv, VersionsInv, ScanLocal \/ ListRemote
  PROVE  VersionsInv'
<1>1. /\ UNCHANGED <<local, drive, index, heldLocal, heldRemote>>
      /\ plan' = plan /\ pc # "executing" /\ \A n \in Node : plan[n] = Nothing
  BY DEF ScanLocal, ListRemote, store, BaseInv, PlanOK, PlansFit
<1>2. HeldIsHeld' /\ RowsAreShared'
  BY <1>1 DEF VersionsInv, HeldIsHeld, RowsAreShared
<1>3. \A n \in Node : PlanSpares(n)'
  BY <1>1, NothingFits DEF PlanSpares
<1>4. ASSUME ScanLocal, NEW n \in Node PROVE SnapshotHolds(n)'
  BY <1>1, <1>4, ValueFacts DEF ScanLocal, SnapshotHolds
<1>5. ASSUME ListRemote, NEW n \in Node PROVE SnapshotHolds(n)'
  <2>1. pc = "listing" /\ pc' = "comparing" /\ scan' = scan /\ dirty' = dirty
    BY <1>5 DEF ListRemote
  <2>2. SnapshotHolds(n)
    BY DEF VersionsInv
  <2>3. listed'[n] # None => drive[listed'[n].id].data = listed'[n].data
    BY <1>5, ListedFacts DEF BaseInv
  <2> QED
    BY <1>1, <2>1, <2>2, <2>3 DEF SnapshotHolds
<1> QED
  BY <1>2, <1>3, <1>4, <1>5 DEF VersionsInv

LEMMA CreateOnDriveVersions ==
  ASSUME BaseInv, VersionsInv, NEW n \in Node, CreateOnDrive(n)
  PROVE  VersionsInv'
<1>1. PICK i \in {NewId}, v \in {CreatedData(n)}, parent \in {ParentId(n)},
           row \in {RowOf(n, NewId, local[n], CreatedData(n))} : TRUE
  OBVIOUS
<1>2. /\ DriveKeeps /\ i \in ObjId /\ drive[i] = None
      /\ drive'[i] = NewObject(n, parent, v)
      /\ \A j \in ObjId \ {i} : drive'[j] = drive[j]
  BY <1>1, CreateOnDriveDrive
<1>3. IsParent(parent, n) /\ v \in Content \cup {Dir}
  BY <1>1, ParentIdFacts, CreatedFacts
<1>4. drive'[i].data = v /\ drive'[i].at \in Tails[n]
  <2>1. IsNew(NewObject(n, parent, v), n, parent, v)
    BY <1>3, NewObjectFacts DEF BaseInv
  <2> QED
    BY <1>2, <2>1 DEF IsNew
<1>5. Name[drive'[i].at] = Name[n] /\ drive'[i].at \in Node
  BY <1>4, NameFacts
<1>6. /\ heldLocal' = heldLocal /\ heldRemote' = Remember(heldRemote, n, v) /\ dirty' = dirty
      /\ local' = local /\ pc' = "executing" /\ Done(n) /\ Record(n, row)
  BY <1>1 DEF CreateOnDrive, CreatedData, IsNext
<1>7. heldRemote \in [Names -> SUBSET Content]
  BY DEF BaseInv, PastOK
<1>8. PastGrows /\ (v \in Content => v \in heldRemote'[Name[n]])
  BY <1>6, <1>7, RememberFacts DEF PastGrows
<1>9. \A j \in ObjId : drive'[j] # None /\ drive'[j].data \in Content =>
        \/ drive[j] # None /\ drive'[j].data = drive[j].data /\ drive'[j].at = drive[j].at
        \/ drive'[j].data \in heldRemote'[Name[drive'[j].at]]
  BY <1>2, <1>4, <1>5, <1>8
<1>10. HeldIsHeld'
  BY <1>6, <1>8, <1>9, HeldStep DEF VersionsInv
<1>11. /\ row.localHash # None => row.localHash \in Content /\ row.localHash = local[n] /\ local[n] = v
       /\ row.remoteMd5 # None => row.remoteMd5 \in Content /\ row.remoteMd5 = v /\ local[n] = v
  <2>1. CASE n \in Folders
    <3>1. local[n] \in {Dir, None} /\ v = Dir /\ NewId \in ObjId
      BY <1>1, <1>2, <2>1, CreatedFacts
    <3>2. row.localHash = None /\ row.remoteMd5 = None
      BY <1>1, <3>1, CreatedFacts, FileRow
    <3> QED
      BY <3>2
  <2>2. CASE n \notin Folders
    <3>1. v = local[n] /\ v \in Content /\ v # Dir
      BY <1>1, <1>3, <2>2, CreatedFacts DEF CreatedData
    <3>2. row.localHash = v /\ row.remoteMd5 = v
      BY <1>1, <3>1 DEF RowOf
    <3> QED
      BY <3>1, <3>2
  <2> QED
    BY <2>1, <2>2
<1>12. /\ row.localHash # None => row.localHash \in heldRemote'[Name[n]]
       /\ row.remoteMd5 # None => row.remoteMd5 \in heldLocal'[Name[n]]
  BY <1>6, <1>8, <1>11 DEF VersionsInv, HeldIsHeld
<1>13. RowsAreShared'
  BY <1>6, <1>8, <1>12, RowsStep DEF VersionsInv
<1>14. ASSUME NEW m \in Node \ {n}, plan[m].kind \in {"UpdateRemote", "DeleteRemote"}
       PROVE  drive'[plan[m].id].data = drive[plan[m].id].data
  <2>1. plan[m].id \in ObjId /\ drive[plan[m].id] # None
    BY <1>14, PlanUse DEF IsObject
  <2> QED
    BY <1>2, <2>1
<1>15. \A m \in Node : SnapshotHolds(m)' /\ PlanSpares(m)'
  BY <1>2, <1>6, <1>8, <1>14, PlanStep
<1> QED
  BY <1>10, <1>13, <1>15 DEF VersionsInv

LEMMA UpdateRemoteVersions ==
  ASSUME BaseInv, VersionsInv, NEW n \in Node, UpdateRemote(n)
  PROVE  VersionsInv'
<1>1. PICK i \in {plan[n].id}, v \in {local[n]}, row \in {RowOf(n, plan[n].id, local[n], local[n])} : TRUE
  OBVIOUS
<1>2. /\ i \in ObjId /\ drive[i] \in Object /\ IsObject(i, n) /\ n \notin Folders
      /\ (drive[i].at \in Folders <=> n \in Folders)
  BY <1>1, PlanUse DEF UpdateRemote, Transfers
<1>3. v \in Content /\ v # Dir
  BY <1>1, <1>2, ValueFacts DEF UpdateRemote, BaseInv, LocalOK
<1>4. drive' = [drive EXCEPT ![i].data = v]
  BY <1>1 DEF UpdateRemote
<1>5. DriveKeeps
  BY <1>2, <1>3, <1>4, DriveEdited DEF BaseInv, IsObject
<1>6. /\ drive'[i] = [at |-> drive[i].at, above |-> drive[i].above, data |-> v,
                      trashed |-> drive[i].trashed]
      /\ \A j \in ObjId \ {i} : drive'[j] = drive[j]
  BY <1>2, <1>4 DEF BaseInv, DriveOK, Object
<1>7. /\ heldLocal' = heldLocal /\ heldRemote' = Remember(heldRemote, n, v) /\ dirty' = dirty
      /\ local' = local /\ pc' = "executing" /\ Done(n) /\ Record(n, row)
  BY <1>1 DEF UpdateRemote, IsNext
<1>8. heldRemote \in [Names -> SUBSET Content]
  BY DEF BaseInv, PastOK
<1>9. PastGrows /\ v \in heldRemote'[Name[n]]
  BY <1>3, <1>7, <1>8, RememberFacts DEF PastGrows
<1>10. drive'[i].data = v /\ drive'[i].at = n
  <2>1. PlanSpares(n) /\ plan[n].kind = "UpdateRemote"
    BY DEF VersionsInv, UpdateRemote
  <2>2. drive[i].at = n
    BY <1>1, <2>1 DEF PlanSpares, SitsAt
  <2> QED
    BY <1>6, <2>2
<1>11. HeldIsHeld'
  BY <1>6, <1>7, <1>9, <1>10, HeldStep DEF VersionsInv
<1>12. row.localHash = v /\ row.remoteMd5 = v
  BY <1>1, <1>3 DEF RowOf
<1>13. RowsAreShared'
  BY <1>1, <1>3, <1>7, <1>9, <1>12, RowsStep DEF VersionsInv, HeldIsHeld
<1>14. ASSUME NEW m \in Node \ {n}, plan[m].kind \in {"UpdateRemote", "DeleteRemote"}
       PROVE  drive'[plan[m].id].data = drive[plan[m].id].data
  <2>1. plan[m].id \in ObjId /\ drive[plan[m].id].at = m
    BY <1>14, PlanUse DEF VersionsInv, PlanSpares, SitsAt
  <2>2. drive[i].at = n
    BY <1>1 DEF VersionsInv, PlanSpares, UpdateRemote, SitsAt
  <2> QED
    BY <1>6, <2>1, <2>2
<1>15. \A m \in Node : SnapshotHolds(m)' /\ PlanSpares(m)'
  BY <1>5, <1>7, <1>9, <1>14, PlanStep
<1> QED
  BY <1>11, <1>13, <1>15 DEF VersionsInv

LEMMA CreateLocallyVersions ==
  ASSUME BaseInv, VersionsInv, NEW n \in Node, CreateLocally(n)
  PROVE  VersionsInv'
<1>1. PICK i \in {plan[n].id}, v \in {drive[plan[n].id].data},
           row \in {RowOf(n, plan[n].id, drive[plan[n].id].data, drive[plan[n].id].data)} : TRUE
  OBVIOUS
<1>2. i \in ObjId /\ drive[i] \in Object /\ IsObject(i, n)
  BY <1>1, PlanUse DEF CreateLocally
<1>3. v \in Content \cup {Dir} /\ (v \in Content => v \in heldRemote[Name[n]])
  <2>1. Name[drive[i].at] = Name[n]
    BY <1>2, NameFacts DEF IsObject
  <2> QED
    BY <1>1, <1>2, <2>1 DEF VersionsInv, HeldIsHeld, Object, IsObject
<1>4. /\ heldRemote' = heldRemote /\ heldLocal' = Remember(heldLocal, n, v) /\ dirty' = dirty
      /\ drive' = drive /\ pc' = "executing" /\ Done(n) /\ Record(n, row)
      /\ local' = [m \in Node |-> IF m = n THEN v ELSE IF m \in Ups[n] THEN Dir ELSE local[m]]
  BY <1>1 DEF CreateLocally, IsNext
<1>5. heldLocal \in [Names -> SUBSET Content]
  BY DEF BaseInv, PastOK
<1>6. PastGrows /\ (v \in Content => v \in heldLocal'[Name[n]])
  BY <1>4, <1>5, RememberFacts DEF PastGrows
<1>7. DriveKeeps
  BY <1>4, DriveSame DEF BaseInv
<1>8. local'[n] = v /\ \A m \in Node \ {n} : local'[m] = local[m] \/ local'[m] \notin Content
  BY <1>4, ValueFacts
<1>9. HeldIsHeld'
  BY <1>4, <1>6, <1>8, HeldStep DEF VersionsInv
<1>10. row.localHash \in {v, None} \ {Dir} /\ row.remoteMd5 \in {v, None} \ {Dir}
  BY <1>1, ValueFacts DEF RowOf
<1>11. /\ row.localHash # None => row.localHash \in heldRemote'[Name[n]]
       /\ row.remoteMd5 # None => row.remoteMd5 \in heldLocal'[Name[n]]
  BY <1>3, <1>4, <1>6, <1>10
<1>12. RowsAreShared'
  BY <1>4, <1>6, <1>11, RowsStep DEF VersionsInv
<1>13. \A m \in Node : SnapshotHolds(m)' /\ PlanSpares(m)'
  BY <1>4, <1>6, <1>7, <1>8, PlanStep
<1> QED
  BY <1>9, <1>12, <1>13 DEF VersionsInv

\* Deletes remember nothing, and neither does a conflict that is marked, or a file that is
\* gone by now.
LEMMA OtherVersions ==
  ASSUME BaseInv, VersionsInv, NEW n \in Node,
         DeleteLocal(n) \/ DeleteRemote(n) \/ MarkConflict(n) \/ LocalMissing(n) \/ ActionFails(n)
  PROVE  VersionsInv'
<1>1. /\ UNCHANGED <<heldLocal, heldRemote, dirty>> /\ pc' = "executing" /\ Done(n)
      /\ (UNCHANGED drive) \/ (DeleteRemote(n) /\ drive' = [drive EXCEPT ![plan[n].id].trashed = TRUE])
      /\ local' = local \/ local' = [m \in Node |-> IF m \in Subtree(n) THEN None ELSE local[m]]
  BY DEF DeleteLocal, DeleteRemote, MarkConflict, LocalMissing, ActionFails, IsNext, store
<1>2. PastGrows
  BY <1>1 DEF PastGrows
<1>3. DriveKeeps /\ \A i \in ObjId : drive[i] # None => drive'[i].data = drive[i].data
  <2>1. CASE UNCHANGED drive
    BY <2>1, DriveSame DEF BaseInv
  <2>2. CASE DeleteRemote(n)
    <3>1. PICK i \in {plan[n].id} : TRUE
      OBVIOUS
    <3>2. i \in ObjId /\ drive[i] \in Object /\ drive[i] # None /\ drive' = [drive EXCEPT ![i].trashed = TRUE]
      BY <2>2, <3>1, PlanUse DEF DeleteRemote, IsObject
    <3>3. DriveKeeps
      BY <3>2, DriveTrashed DEF BaseInv
    <3>4. /\ drive'[i] = [at |-> drive[i].at, above |-> drive[i].above, data |-> drive[i].data,
                          trashed |-> TRUE]
          /\ \A j \in ObjId \ {i} : drive'[j] = drive[j]
      BY <3>2 DEF BaseInv, DriveOK, Object
    <3> QED
      BY <3>3, <3>4
  <2> QED
    BY <1>1, <2>1, <2>2
<1>4. \A m \in Node : local'[m] = local[m] \/ local'[m] \notin Content
  BY <1>1, ValueFacts
<1>5. \A i \in ObjId : drive'[i] # None => drive[i] # None
  <2>1. CASE UNCHANGED drive
    BY <2>1
  <2>2. CASE drive' = [drive EXCEPT ![plan[n].id].trashed = TRUE] /\ DeleteRemote(n)
    <3>1. drive[plan[n].id] # None
      BY <2>2, PlanUse DEF DeleteRemote, IsObject
    <3> QED
      BY <2>2, <3>1 DEF BaseInv, DriveOK
  <2> QED
    BY <1>1, <2>1, <2>2
<1>6. \A i \in ObjId : drive'[i] # None /\ drive'[i].data \in Content =>
        drive[i] # None /\ drive'[i].data = drive[i].data /\ drive'[i].at = drive[i].at
  BY <1>3, <1>5 DEF DriveKeeps
<1>7. HeldIsHeld'
  BY <1>2, <1>4, <1>6, HeldStep DEF VersionsInv
<1>8. RowsAreShared'
  <2>1. CASE DeleteLocal(n) \/ DeleteRemote(n)
    BY <1>2, <2>1, RowsStep DEF VersionsInv, DeleteLocal, DeleteRemote
  <2>2. CASE LocalMissing(n) \/ ActionFails(n)
    BY <1>1, <2>2 DEF VersionsInv, RowsAreShared, LocalMissing, ActionFails, store
  <2>3. CASE MarkConflict(n)
    <3>1. PICK row \in {IF index[n] # None THEN [index[n] EXCEPT !.state = "conflict"]
                        ELSE [localHash |-> None, remoteMd5 |-> None, remoteId |-> plan[n].id,
                              state |-> "conflict"]} : TRUE
      OBVIOUS
    <3>2. Record(n, row)
      BY <2>3, <3>1 DEF MarkConflict
    <3>3. /\ row.localHash # None => row.localHash \in heldRemote'[Name[n]]
          /\ row.remoteMd5 # None => row.remoteMd5 \in heldLocal'[Name[n]]
      <4>1. CASE index[n] # None
        <5>1. index[n] \in Row
          BY <4>1 DEF BaseInv, IndexOK
        <5>2. row.localHash = index[n].localHash /\ row.remoteMd5 = index[n].remoteMd5
          BY <3>1, <4>1, <5>1 DEF Row
        <5> QED
          BY <1>1, <4>1, <5>2 DEF VersionsInv, RowsAreShared
      <4>2. CASE index[n] = None
        BY <3>1, <4>2
      <4> QED
        BY <4>1, <4>2
    <3> QED
      BY <1>2, <3>2, <3>3, RowsStep DEF VersionsInv
  <2> QED
    BY <2>1, <2>2, <2>3
<1>9. ASSUME NEW m \in Node \ {n}, plan[m].kind \in {"UpdateRemote", "DeleteRemote"}
      PROVE  drive'[plan[m].id].data = drive[plan[m].id].data
  BY <1>3, <1>9, PlanUse DEF IsObject
<1>10. \A m \in Node : SnapshotHolds(m)' /\ PlanSpares(m)'
  BY <1>1, <1>2, <1>3, <1>4, <1>9, PlanStep
<1> QED
  BY <1>7, <1>8, <1>10 DEF VersionsInv

LEMMA OverVersions ==
  ASSUME BaseInv, VersionsInv, EndCycle \/ CycleEnds
  PROVE  VersionsInv'
<1>1. /\ UNCHANGED <<local, drive, index, heldLocal, heldRemote, dirty>> /\ pc' = "idle"
      /\ \A n \in Node : plan'[n] = Nothing
  BY DEF EndCycle, CycleEnds, store
<1> QED
  BY <1>1, NothingFits DEF VersionsInv, HeldIsHeld, RowsAreShared, SnapshotHolds, PlanSpares

LEMMA UserStepVersions ==
  ASSUME BaseInv, VersionsInv, NEW n \in Node,
         PutLocal(n) \/ RemoveLocal(n) \/ EditRemote(n) \/ CreateRemote(n) \/ TrashRemote(n)
  PROVE  VersionsInv'
<1>1. UNCHANGED <<index, plan, pc, scan, listed>>
  BY DEF PutLocal, RemoveLocal, EditRemote, CreateRemote, TrashRemote, UserOp, cycle
<1>2. heldLocal \in [Names -> SUBSET Content] /\ heldRemote \in [Names -> SUBSET Content]
  BY DEF BaseInv, PastOK
<1>3. CASE PutLocal(n)
  <2>1. PICK v \in IF n \in Folders THEN {Dir} ELSE Content :
          local' = [local EXCEPT ![n] = v] /\ heldLocal' = Remember(heldLocal, n, v)
    BY <1>3 DEF PutLocal
  <2>2. drive' = drive /\ heldRemote' = heldRemote /\ dirty' = dirty \cup ({n} \X {"local"})
    BY <1>3 DEF PutLocal, UserOp
  <2>3. PastGrows /\ (v \in Content => v \in heldLocal'[Name[n]])
    BY <1>2, <2>1, <2>2, RememberFacts DEF PastGrows
  <2>4. local'[n] = v /\ \A m \in Node \ {n} : local'[m] = local[m]
    BY <2>1 DEF BaseInv, LocalOK
  <2>5. HeldIsHeld'
    BY <2>2, <2>3, <2>4, HeldStep DEF VersionsInv
  <2>6. DriveKeeps
    BY <2>2, DriveSame DEF BaseInv
  <2>7. \A m \in Node : local'[m] = local[m] \/ local'[m] \notin Content \/ <<m, "local">> \in dirty'
    BY <2>2, <2>4
  <2>8. \A i \in ObjId : drive[i] # None =>
          drive'[i].data = drive[i].data \/ <<drive[i].at, "remote">> \in dirty'
    BY <2>2
  <2> QED
    BY <1>1, <2>3, <2>5, <2>6, <2>7, <2>8, UserVersions
<1>4. CASE RemoveLocal(n)
  <2>1. /\ drive' = drive /\ UNCHANGED <<heldLocal, heldRemote>> /\ dirty \subseteq dirty'
        /\ local' = [m \in Node |-> IF m \in Subtree(n) THEN None ELSE local[m]]
    BY <1>4 DEF RemoveLocal, UserOp
  <2>2. PastGrows
    BY <2>1 DEF PastGrows
  <2>3. \A m \in Node : local'[m] = local[m] \/ local'[m] \notin Content
    BY <2>1, ValueFacts
  <2>4. HeldIsHeld'
    BY <2>1, <2>2, <2>3, HeldStep DEF VersionsInv
  <2>5. DriveKeeps
    BY <2>1, DriveSame DEF BaseInv
  <2>6. \A i \in ObjId : drive[i] # None =>
          drive'[i].data = drive[i].data \/ <<drive[i].at, "remote">> \in dirty'
    BY <2>1
  <2> QED
    BY <1>1, <2>2, <2>3, <2>4, <2>5, <2>6, UserVersions
<1>5. CASE EditRemote(n)
  <2>1. PICK i \in Live(n), v \in Content :
          drive' = [drive EXCEPT ![i].data = v] /\ heldRemote' = Remember(heldRemote, n, v)
    BY <1>5 DEF EditRemote
  <2>2. i \in ObjId /\ drive[i] # None /\ drive[i].at = n /\ n \notin Folders
    BY <1>5 DEF EditRemote, Live, IsLive
  <2>3. DriveKeeps
    BY <2>1, <2>2, ValueFacts, DriveEdited DEF BaseInv
  <2>4. local' = local /\ heldLocal' = heldLocal /\ dirty' = dirty \cup ({n} \X {"remote"})
    BY <1>5 DEF EditRemote, UserOp
  <2>5. PastGrows /\ v \in heldRemote'[Name[n]]
    BY <1>2, <2>1, <2>4, RememberFacts DEF PastGrows
  <2>6. /\ drive'[i] = [at |-> drive[i].at, above |-> drive[i].above, data |-> v,
                        trashed |-> drive[i].trashed]
        /\ \A j \in ObjId \ {i} : drive'[j] = drive[j]
    BY <2>1, <2>2 DEF BaseInv, DriveOK, Object
  <2>7. HeldIsHeld'
    BY <2>2, <2>4, <2>5, <2>6, HeldStep DEF VersionsInv
  <2>8. \A j \in ObjId : drive[j] # None =>
          drive'[j].data = drive[j].data \/ <<drive[j].at, "remote">> \in dirty'
    BY <2>2, <2>4, <2>6
  <2> QED
    BY <1>1, <2>3, <2>4, <2>5, <2>7, <2>8, UserVersions
<1>6. CASE CreateRemote(n)
  <2>1. PICK v \in IF n \in Folders THEN {Dir} ELSE Content,
             parent \in IF Parent[n] = Root THEN {RootId} ELSE Live(Parent[n]) :
          /\ drive' = [drive EXCEPT ![NewId] = NewObject(n, parent, v)]
          /\ heldRemote' = Remember(heldRemote, n, v)
    BY <1>6 DEF CreateRemote
  <2>2. PICK i \in {NewId} : TRUE
    OBVIOUS
  <2>3. i \in ObjId /\ drive[i] = None
    BY <1>6, <2>2, NewIdFacts DEF CreateRemote
  <2>4. drive'[i] = NewObject(n, parent, v) /\ \A j \in ObjId \ {i} : drive'[j] = drive[j]
    BY <2>1, <2>2, <2>3 DEF BaseInv, DriveOK
  <2>5. IsParent(parent, n)
    <3>1. CASE Parent[n] = Root
      BY <3>1 DEF IsParent
    <3>2. CASE Parent[n] # Root
      <4>1. parent \in ObjId /\ drive[parent] # None /\ drive[parent].at = Parent[n]
        BY <3>2 DEF Live, IsLive
      <4>2. Parent[n] \in Tails[Parent[n]]
        BY <3>2, ParentFacts, TailAssumption
      <4> QED
        BY <3>2, <4>1, <4>2 DEF IsParent, IsObject
    <3> QED
      BY <3>1, <3>2
  <2>6. IsNew(NewObject(n, parent, v), n, parent, v)
    BY <2>5, NewObjectFacts DEF BaseInv
  <2>7. drive'[i].data = v /\ Name[drive'[i].at] = Name[n]
    BY <2>4, <2>6, NameFacts DEF IsNew
  <2>8. local' = local /\ heldLocal' = heldLocal /\ dirty \subseteq dirty'
    BY <1>6 DEF CreateRemote, UserOp
  <2>9. PastGrows /\ (v \in Content => v \in heldRemote'[Name[n]])
    BY <1>2, <2>1, <2>8, RememberFacts DEF PastGrows
  <2>10. DriveKeeps
    BY <2>3, <2>4 DEF DriveKeeps
  <2>11. HeldIsHeld'
    <3>1. \A j \in ObjId : drive'[j] # None /\ drive'[j].data \in Content =>
            \/ drive[j] # None /\ drive'[j].data = drive[j].data /\ drive'[j].at = drive[j].at
            \/ drive'[j].data \in heldRemote'[Name[drive'[j].at]]
      BY <2>4, <2>7, <2>9
    <3> QED
      BY <2>8, <2>9, <3>1, HeldStep DEF VersionsInv
  <2>12. \A j \in ObjId : drive[j] # None =>
           drive'[j].data = drive[j].data \/ <<drive[j].at, "remote">> \in dirty'
    BY <2>3, <2>4
  <2> QED
    BY <1>1, <2>8, <2>9, <2>10, <2>11, <2>12, UserVersions
<1>7. CASE TrashRemote(n)
  <2>1. PICK i \in Live(n) : drive' = [drive EXCEPT ![i].trashed = TRUE]
    BY <1>7 DEF TrashRemote
  <2>2. i \in ObjId /\ drive[i] \in Object /\ drive[i] # None
    BY DEF Live, IsLive, BaseInv, DriveOK
  <2>3. DriveKeeps
    BY <2>1, <2>2, DriveTrashed DEF BaseInv
  <2>4. /\ drive'[i] = [at |-> drive[i].at, above |-> drive[i].above, data |-> drive[i].data,
                        trashed |-> TRUE]
        /\ \A j \in ObjId \ {i} : drive'[j] = drive[j]
    BY <2>1, <2>2 DEF BaseInv, DriveOK, Object
  <2>5. local' = local /\ UNCHANGED <<heldLocal, heldRemote>> /\ dirty \subseteq dirty'
    BY <1>7 DEF TrashRemote, UserOp
  <2>6. PastGrows
    BY <2>5 DEF PastGrows
  <2>7. HeldIsHeld'
    BY <2>2, <2>4, <2>5, <2>6, HeldStep DEF VersionsInv
  <2>8. \A j \in ObjId : drive[j] # None =>
          drive'[j].data = drive[j].data \/ <<drive[j].at, "remote">> \in dirty'
    BY <2>4
  <2> QED
    BY <1>1, <2>3, <2>5, <2>6, <2>7, <2>8, UserVersions
<1> QED
  BY <1>3, <1>4, <1>5, <1>6, <1>7

LEMMA InitVersions == Init => VersionsInv
<1> SUFFICES ASSUME Init PROVE VersionsInv
  OBVIOUS
<1>1. \A n \in Node : local[n] \in Content => local[n] \in heldLocal[Name[n]]
  BY NameFacts DEF Init
<1> QED
  BY <1>1, NothingFits DEF Init, VersionsInv, HeldIsHeld, RowsAreShared, SnapshotHolds, PlanSpares

LEMMA StepVersions == BaseInv /\ VersionsInv /\ [Next]_vars => VersionsInv'
<1> SUFFICES ASSUME BaseInv, VersionsInv, [Next]_vars PROVE VersionsInv'
  OBVIOUS
<1>1. CASE ScanLocal \/ ListRemote \/ Compare
  BY <1>1, EarlyVersions, CompareVersions
<1>2. CASE EndCycle \/ CycleEnds
  BY <1>2, OverVersions
<1>3. ASSUME NEW n \in Node, Execute(n) \/ ActionFails(n)
      PROVE  VersionsInv'
  BY <1>3, CreateOnDriveVersions, UpdateRemoteVersions, CreateLocallyVersions, OtherVersions
     DEF Execute
<1>4. CASE User
  BY <1>4, UserStepVersions DEF User
<1>5. CASE UNCHANGED vars
  BY <1>5 DEF vars, store, cycle, VersionsInv, HeldIsHeld, RowsAreShared, SnapshotHolds, PlanSpares,
     SitsAt
<1> QED
  BY <1>1, <1>2, <1>3, <1>4, <1>5 DEF Next, Engine

(***************************************************************************)
(* TreeInv is inductive: the tree, and while nothing has failed and no     *)
(* folder was trashed behind the index's back, PeacefulTree.               *)
(***************************************************************************)
LEMMA StepPeace ==
  ASSUME BaseInv, faults = 0 /\ ~folderTrashed => PeacefulTree, [Next]_vars,
         faults' = 0, ~folderTrashed'
  PROVE  PeacefulTree'
<1>1. faults \in Nat /\ (faults' = faults \/ faults' = faults + 1)
  <2>1. Engine => faults' = faults
    BY DEF Engine, Execute, ScanLocal, ListRemote, Compare, EndCycle,
       CreateOnDrive, UpdateRemote, CreateLocally, DeleteLocal, DeleteRemote, MarkConflict,
       LocalMissing
  <2>2. User => faults' = faults
    BY DEF User, UserOp, PutLocal, RemoveLocal, EditRemote, CreateRemote, TrashRemote
  <2>3. CycleEnds \/ (\E n \in Node : ActionFails(n)) => faults' = faults + 1
    BY DEF CycleEnds, ActionFails
  <2>4. UNCHANGED vars => faults' = faults
    BY DEF vars
  <2>5. faults \in Nat
    BY BoundAssumption DEF BaseInv, PastOK
  <2> QED
    BY <2>1, <2>2, <2>3, <2>4, <2>5 DEF Next
<1>2. faults = 0 /\ faults' = faults
  BY <1>1
<1>3. folderTrashed => folderTrashed'
  BY DEF BaseInv, PastOK, Next, Engine, Execute, User, ScanLocal, ListRemote,
     Compare, EndCycle, CreateOnDrive, UpdateRemote, CreateLocally, DeleteLocal, DeleteRemote,
     MarkConflict, LocalMissing, CycleEnds, ActionFails, PutLocal, RemoveLocal, EditRemote,
     CreateRemote, TrashRemote, vars
<1>4. PeacefulTree
  BY <1>2, <1>3
<1>5. CASE ListRemote \/ Compare
  BY <1>4, <1>5, ListRemotePeace, ComparePeace
<1>6. CASE ScanLocal \/ EndCycle \/ UNCHANGED vars
  BY <1>4, <1>6, QuietPeace
<1>7. ASSUME NEW n \in Node, Execute(n)
      PROVE  PeacefulTree'
  BY <1>4, <1>7, CreateOnDrivePeace, ExecutePeace, DeleteRemotePeace, QuietPeace DEF Execute
<1>8. ASSUME CycleEnds \/ \E n \in Node : ActionFails(n)
      PROVE  FALSE
  BY <1>1, <1>2, <1>8 DEF CycleEnds, ActionFails
<1>9. CASE User
  BY <1>4, <1>9, UserPeace DEF User
<1> QED
  BY <1>5, <1>6, <1>7, <1>8, <1>9 DEF Next, Engine

LEMMA InitPeace == Init => PeacefulTree
BY NothingFits, RootFacts DEF Init, PeacefulTree, ParentComes

THEOREM TreeInvariant == Spec => []TreeInv
<1> DEFINE Inv == BaseInv /\ VersionsInv /\ (faults = 0 /\ ~folderTrashed => PeacefulTree)
<1>1. Init => Inv
  BY InitBase, InitVersions, InitPeace
<1>2. Inv /\ [Next]_vars => Inv'
  BY StepBase, StepVersions, StepPeace
<1>3. Inv => TreeInv
  BY BaseInvIs DEF TreeInv
<1> QED
  BY <1>1, <1>2, <1>3, PTL DEF Spec

(***************************************************************************)
(* A row's object is at the row's path, or at what is left of it without   *)
(* the first of its folders; while nothing has failed and no folder was    *)
(* trashed behind the index's back it is at the very path (sort_actions,   *)
(* resolve_parent_runtime, remote_ids).                                    *)
(***************************************************************************)
THEOREM PathsTheorem == Spec => []ObjectsSitAtTheirPath
<1>1. TreeInv => ObjectsSitAtTheirPath
  BY DEF TreeInv, TreeNamesInv, NamesAreObjects, IsObject, PeacefulTree, SitsAt,
     ObjectsSitAtTheirPath
<1> QED
  BY <1>1, TreeInvariant, PTL

-----------------------------------------------------------------------------
(***************************************************************************)
(* What the engine destroys.                                               *)
(***************************************************************************)
LEMMA EngineActs ==
  ASSUME BaseInv, Next, EngineStep
  PROVE  \/ UNCHANGED <<local, drive>>
         \/ \E n \in Node : CreateOnDrive(n) \/ UpdateRemote(n) \/ CreateLocally(n)
                              \/ DeleteLocal(n) \/ DeleteRemote(n)
<1>1. ~User
  <2>1. User => ops' = ops + 1
    BY DEF User, UserOp, PutLocal, RemoveLocal, EditRemote, CreateRemote, TrashRemote
  <2>2. ops \in Nat
    BY BoundAssumption DEF BaseInv, PastOK
  <2> QED
    BY <2>1, <2>2 DEF EngineStep
<1>2. ASSUME NEW n \in Node, MarkConflict(n) \/ LocalMissing(n) \/ ActionFails(n)
      PROVE  UNCHANGED <<local, drive>>
  BY <1>2 DEF MarkConflict, LocalMissing, ActionFails, store
<1>3. ASSUME ScanLocal \/ ListRemote \/ Compare \/ EndCycle \/ CycleEnds
      PROVE  UNCHANGED <<local, drive>>
  BY <1>3 DEF ScanLocal, ListRemote, Compare, EndCycle, CycleEnds, store
<1> QED
  BY <1>1, <1>2, <1>3 DEF Next, Engine, Execute

LEMMA LocalLoss ==
  ASSUME BaseInv, VersionsInv, Next, EngineStep
  PROVE  LocalLossNeedsFolder
<1> SUFFICES ASSUME NEW n \in Node, local[n] \in Content, local'[n] # local[n]
             PROVE  \/ local[n] \in heldRemote[Name[n]] \/ <<n, "local">> \in dirty
                    \/ FolderGoes(n, "DeleteLocal")
  BY DEF LocalLossNeedsFolder
<1>1. n \notin Folders
  BY ValueFacts DEF BaseInv, LocalOK
<1>2. PICK m \in Node : CreateLocally(m) \/ DeleteLocal(m)
  BY EngineActs DEF CreateOnDrive, UpdateRemote, DeleteRemote
<1>3. CASE CreateLocally(m)
  <2>1. n = m \/ n \in Ups[m]
    BY <1>3 DEF CreateLocally
  <2>2. n = m /\ plan[n].kind = "Download"
    BY <1>1, <1>3, <2>1, UpFacts, PlanUse DEF CreateLocally, DirCreates
  <2> QED
    BY <2>2 DEF VersionsInv, PlanSpares
<1>4. CASE DeleteLocal(m)
  <2>1. n = m \/ m \in Ups[n]
    BY <1>4 DEF DeleteLocal, Subtree
  <2>2. plan[m].kind = "DeleteLocal" /\ plan'[m] = Nothing
    BY <1>4 DEF DeleteLocal, Done, BaseInv, PlanOK
  <2>3. CASE n = m
    BY <2>2, <2>3 DEF VersionsInv, PlanSpares
  <2>4. CASE m \in Ups[n]
    BY <2>2, <2>4 DEF FolderGoes
  <2> QED
    BY <2>1, <2>3, <2>4
<1> QED
  BY <1>2, <1>3, <1>4

LEMMA RemoteLoss ==
  ASSUME BaseInv, VersionsInv, Next, EngineStep
  PROVE  RemoteLossNeedsFolder
<1> SUFFICES ASSUME NEW i \in ObjId, IsLive(i), drive[i].data \in Content,
                    drive'[i].data # drive[i].data \/ ~IsLive(i)'
             PROVE  \/ drive[i].data \in heldLocal[Name[drive[i].at]]
                    \/ <<drive[i].at, "remote">> \in dirty
                    \/ FolderGoes(drive[i].at, "DeleteRemote")
  BY DEF RemoteLossNeedsFolder
<1>1. drive[i] # None /\ drive[i] \in Object
  BY DEF IsLive, BaseInv, DriveOK
<1>2. ~UNCHANGED drive
  BY DEF IsLive
<1>3. PICK m \in Node : CreateOnDrive(m) \/ UpdateRemote(m) \/ DeleteRemote(m)
  BY <1>2, EngineActs DEF CreateLocally, DeleteLocal
<1>4. CASE CreateOnDrive(m)
  <2>1. /\ NewId \in ObjId /\ drive[NewId] = None /\ DriveKeeps
        /\ \A j \in ObjId \ {NewId} : drive'[j] = drive[j]
    BY <1>4, CreateOnDriveDrive
  <2>2. drive'[i] = drive[i] /\ drive[i].above \subseteq ObjId
    BY <1>1, <2>1 DEF Object
  <2>3. \A a \in drive[i].above : drive[a] # None
    BY <1>1 DEF BaseInv, DriveOK, ObjectsAreBelow
  <2>4. \A a \in drive[i].above \cup {i} : drive'[a] = drive[a]
    BY <1>1, <2>1, <2>2, <2>3
  <2>5. IsLive(i)'
    BY <1>1, <2>2, <2>4 DEF IsLive
  <2> QED
    BY <2>2, <2>5
<1>5. CASE UpdateRemote(m)
  <2>1. PICK k \in {plan[m].id}, v \in {local[m]} : TRUE
    OBVIOUS
  <2>2. k \in ObjId /\ drive[k] \in Object /\ drive' = [drive EXCEPT ![k].data = v]
    BY <1>5, <2>1, PlanUse DEF UpdateRemote
  <2>3. /\ drive'[k] = [at |-> drive[k].at, above |-> drive[k].above, data |-> v,
                        trashed |-> drive[k].trashed]
        /\ \A j \in ObjId \ {k} : drive'[j] = drive[j]
    BY <2>2 DEF BaseInv, DriveOK, Object
  <2>4. CASE i # k
    <3>1. drive'[i] = drive[i] /\ drive[i].above \subseteq ObjId
      BY <1>1, <2>3, <2>4 DEF Object
    <3>2. \A a \in drive[i].above \cup {i} : drive'[a].trashed = drive[a].trashed
      BY <2>3, <3>1
    <3>3. IsLive(i)'
      BY <1>1, <3>1, <3>2 DEF IsLive
    <3> QED
      BY <3>1, <3>3
  <2>5. CASE i = k
    <3>1. PlanSpares(m) /\ plan[m].kind = "UpdateRemote"
      BY <1>5 DEF VersionsInv, UpdateRemote
    <3> QED
      BY <2>1, <2>5, <3>1 DEF PlanSpares, SitsAt
  <2> QED
    BY <2>4, <2>5
<1>6. CASE DeleteRemote(m)
  <2>1. PICK k \in {plan[m].id} : TRUE
    OBVIOUS
  <2>2. k \in ObjId /\ drive[k] \in Object /\ drive[k] # None /\ drive' = [drive EXCEPT ![k].trashed = TRUE]
    BY <1>6, <2>1, PlanUse DEF DeleteRemote, IsObject
  <2>3. /\ drive'[k] = [at |-> drive[k].at, above |-> drive[k].above, data |-> drive[k].data,
                        trashed |-> TRUE]
        /\ \A j \in ObjId \ {k} : drive'[j] = drive[j]
    BY <2>2 DEF BaseInv, DriveOK, Object
  <2>4. i = k \/ k \in drive[i].above
    BY <2>2, <2>3, DriveTrashed DEF BaseInv
  <2>5. PlanSpares(m) /\ plan[m].kind = "DeleteRemote" /\ plan'[m] = Nothing
    BY <1>6 DEF VersionsInv, DeleteRemote, Done, BaseInv, PlanOK
  <2>6. drive[k].at = m
    BY <2>1, <2>5 DEF PlanSpares, SitsAt
  <2>7. CASE i = k
    BY <2>1, <2>5, <2>6, <2>7 DEF PlanSpares
  <2>8. CASE k \in drive[i].above
    <3>1. m \in Ups[drive[i].at]
      BY <1>1, <2>6, <2>8 DEF BaseInv, DriveOK, ObjectsAreBelow
    <3> QED
      BY <2>5, <3>1 DEF FolderGoes
  <2> QED
    BY <2>4, <2>7, <2>8
<1> QED
  BY <1>3, <1>4, <1>5, <1>6

(***************************************************************************)
(* Whatever users, failures and crashes do: the engine destroys a version  *)
(* the other side never had only together with the folder it is in         *)
(* (execute_action, sort_actions).                                         *)
(***************************************************************************)
THEOREM FolderLossTheorem == Spec => LossNeedsFolder
<1>1. (TreeTypeOK /\ TreeNamesInv) /\ TreeInv /\ [Next]_vars
        => [EngineStep => LocalLossNeedsFolder /\ RemoteLossNeedsFolder]_vars
  <2> SUFFICES ASSUME TreeTypeOK, TreeNamesInv, TreeInv, Next, EngineStep
               PROVE  LocalLossNeedsFolder /\ RemoteLossNeedsFolder
    OBVIOUS
  <2>1. BaseInv /\ VersionsInv
    BY BaseInvIs DEF TreeInv
  <2> QED
    BY <2>1, LocalLoss, RemoteLoss
<1> QED
  BY <1>1, TreeTypeTheorem, TreeInvariant, PTL DEF Spec, LossNeedsFolder
=============================================================================
