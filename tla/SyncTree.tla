------------------------------ MODULE SyncTree ------------------------------
(***************************************************************************)
(* The folders of a sync pair: how a cycle creates, fills and deletes      *)
(* them.  SyncEngine models a flat folder and splits an action at its      *)
(* awaits; here an action is one step and what matters is the order of the *)
(* actions, the parent a new object is put under, and the deletes that     *)
(* take a subtree with them.  The pair is two-way and asks about           *)
(* conflicts; paths keep their kind (a folder's name is never a file's).   *)
(***************************************************************************)
EXTENDS ThreeWay, FiniteSets, Naturals

CONSTANTS
  Node,       \* the relative paths
  Root,       \* the folder of the pair, which holds the top-level paths
  Parent,     \* the folder a path is in
  Name,       \* the last component of a path
  Ups,        \* the folders above a path
  Tails,      \* the path, and what is left of it without the first of its folders
  Folders,    \* the paths that are folders
  Content,    \* what users write
  Dir,        \* what a folder "contains"
  Trees,      \* what the local folder may hold when the pair is added
  ObjId,      \* Drive ids (a bound on the objects ever created)
  RootId,     \* remote_root_id
  MaxOps,     \* bound on user operations
  MaxFaults   \* bound on failed requests and crashes

ASSUME TreeAssumption ==
  /\ Parent \in [Node -> Folders \cup {Root}] /\ Folders \subseteq Node
  /\ Ups \in [Node -> SUBSET Folders]
  /\ \A n \in Node :
       /\ Ups[n] = IF Parent[n] = Root THEN {} ELSE {Parent[n]} \cup Ups[Parent[n]]
       /\ IsFiniteSet(Ups[n]) /\ n \notin Ups[n] /\ \A f \in Ups[n] : Ups[f] \subseteq Ups[n]
  /\ \A m, n \in Node : Parent[m] = Parent[n] /\ Name[m] = Name[n] => m = n
\* A path is also one without its first folders: that is where an object ends up whose
\* parent is not known.
ASSUME TailAssumption ==
  /\ Tails \in [Node -> SUBSET Node]
  /\ \A n \in Node :
       /\ n \in Tails[n] /\ \E q \in Tails[n] : Parent[q] = Root
       /\ \A q \in Tails[n] : Name[q] = Name[n] /\ (q \in Folders <=> n \in Folders)
       /\ Parent[n] # Root =>
            \A g \in Tails[Parent[n]] : \E q \in Tails[n] : Parent[q] = g
ASSUME ValueAssumption ==
  /\ Root \notin Node /\ RootId \notin ObjId
  /\ None \notin Content \cup {Dir} \cup ObjId /\ Dir \notin Content
ASSUME BoundAssumption == MaxOps \in Nat /\ MaxFaults \in Nat

ASSUME TreesAssumption ==
  \A t \in Trees :
    /\ t \in [Node -> Content \cup {Dir, None}]
    /\ \A n \in Node : t[n] # None =>
         /\ n \in Folders <=> t[n] = Dir
         /\ Parent[n] # Root => t[Parent[n]] = Dir

Depth(n) == Cardinality(Ups[n])
Subtree(n) == {m \in Node : m = n \/ n \in Ups[m]}

VARIABLES
  local,      \* what is at each path on this machine: bytes, Dir or None
  drive,      \* Drive's objects: where they are, under which objects, and what they hold
  index,      \* the file_index table
  pc,         \* where the cycle is
  scan,       \* the paths the local scan found
  listed,     \* remote_map
  remoteIds,  \* remote_ids: the remote folders known to the running cycle
  plan,       \* the actions not yet executed
  ops, faults \* user operations and faults so far

\* History: what each name ever held on either side (on Drive, also what was sent into
\* an object that had just been trashed), the paths users touched since the cycle began,
\* and whether a folder on Drive was ever trashed behind the index's back: by a user, or
\* by the engine with a path in it that has a row.
VARIABLES heldLocal, heldRemote, dirty, folderTrashed

store == <<local, drive, index>>
cycle == <<pc, scan, listed, remoteIds, plan>>
vars  == <<store, cycle, ops, faults, heldLocal, heldRemote, dirty, folderTrashed>>

Names   == {Name[n] : n \in Node}
Object  == [at : Node, above : SUBSET ObjId, data : Content \cup {Dir}, trashed : BOOLEAN]
Row     == [localHash : Content \cup {None}, remoteMd5 : Content \cup {None},
            remoteId : ObjId, state : {"synced", "conflict"}]
Seen    == [id : ObjId, data : Content \cup {Dir}]
Nothing == [kind |-> "Skip", id |-> None]

Entries == [dir : BOOLEAN, hash : Content \cup {Dir, None}]

ASSUME RecordAssumption == None \notin Object \cup Row \cup Seen \cup Entries

TreeTypeOK ==
  /\ local \in [Node -> Content \cup {Dir, None}]
  /\ drive \in [ObjId -> Object \cup {None}]
  /\ index \in [Node -> Row \cup {None}]
  /\ pc \in {"idle", "listing", "comparing", "executing"}
  /\ scan \subseteq Node
  /\ listed \in [Node -> Seen \cup {None}]
  /\ remoteIds \in [Folders -> ObjId \cup {None}]
  /\ plan \in [Node -> [kind : Kinds, id : ObjId \cup {None}]]
  /\ ops \in 0..MaxOps /\ faults \in 0..MaxFaults
  /\ heldLocal \in [Names -> SUBSET Content] /\ heldRemote \in [Names -> SUBSET Content]
  /\ dirty \subseteq Node \X {"local", "remote"} /\ folderTrashed \in BOOLEAN

\* Drive names a new object; which id it takes makes no difference.
IdsLeft    == \E i \in ObjId : drive[i] = None
NewId      == CHOOSE i \in ObjId : drive[i] = None
IsLive(i)  == drive[i] # None /\ \A a \in drive[i].above \cup {i} : ~drive[a].trashed
Live(n)    == {i \in ObjId : IsLive(i) /\ drive[i].at = n}
NoTwins    == \A n \in Node : \A i, j \in Live(n) : i = j
Holds(v)   == {v} \cap Content

\* A pair is added over a tree on this machine; Drive's folder is empty.
Init ==
  /\ local \in Trees
  /\ drive = [i \in ObjId |-> None]
  /\ index = [n \in Node |-> None]
  /\ pc = "idle" /\ scan = {}
  /\ listed = [n \in Node |-> None] /\ remoteIds = [n \in Folders |-> None]
  /\ plan = [n \in Node |-> Nothing]
  /\ ops = 0 /\ faults = 0
  /\ heldLocal = [m \in Names |-> {local[n] : n \in {k \in Node : Name[k] = m}} \cap Content]
  /\ heldRemote = [m \in Names |-> {}]
  /\ dirty = {} /\ folderTrashed = FALSE

-----------------------------------------------------------------------------
(***************************************************************************)
(* The snapshots and the plan.                                             *)
(***************************************************************************)
ScanLocal ==
  /\ pc = "idle"
  /\ pc' = "listing"
  /\ scan' = {n \in Node : local[n] # None}
  /\ dirty' = {}
  /\ UNCHANGED <<store, listed, remoteIds, plan, ops, faults, heldLocal, heldRemote,
                 folderTrashed>>

\* fetch_remote_tree, folder by folder; of two objects with one path the last one stays.
ListRemote ==
  /\ pc = "listing"
  /\ pc' = "comparing"
  /\ \E shadowed \in SUBSET {i \in ObjId : IsLive(i) /\ Live(drive[i].at) # {i}} :
        LET shown(n) == Live(n) \ shadowed
        IN /\ \A n \in Node : Live(n) # {} => Cardinality(shown(n)) = 1
           /\ listed' = [n \in Node |->
                IF Live(n) = {} THEN None
                ELSE LET i == CHOOSE i \in shown(n) : TRUE
                     IN [id |-> i, data |-> drive[i].data]]
  /\ UNCHANGED <<store, scan, remoteIds, plan, ops, faults, heldLocal, heldRemote, dirty,
                 folderTrashed>>

\* Kinds are those of the snapshots; a local file is hashed only now.
EntryOf(n, v) == IF n \in Folders THEN Folder ELSE Entry(v)

Planned(n) ==
  LET l == IF n \in scan THEN EntryOf(n, local[n]) ELSE None
      r == IF listed[n] # None THEN EntryOf(n, listed[n].data) ELSE None
      kind == Decide("two-way", FALSE, l, r, index[n])
  IN [kind |-> kind,
      id   |-> CASE kind \in {"Skip", "Upload", "DeleteLocal", "CreateRemoteDir"} -> None
                 [] kind = "RemoteDeletedLocalModified" -> index[n].remoteId
                 [] OTHER                               -> listed[n].id]

\* compute_actions, and the remote folders known before the first action runs.
Compare ==
  /\ pc = "comparing"
  /\ pc' = "executing"
  /\ plan' = [n \in Node |-> Planned(n)]
  /\ remoteIds' = [n \in Folders |-> IF listed[n] = None THEN None ELSE listed[n].id]
  /\ UNCHANGED <<store, scan, listed, ops, faults, heldLocal, heldRemote, dirty, folderTrashed>>

-----------------------------------------------------------------------------
(***************************************************************************)
(* The execute loop, in the order of sort_actions.                         *)
(***************************************************************************)
\* Mutant: the order inside a bucket is left to chance.
RunsBeforeFlat(a, b) == Bucket(plan[a].kind) < Bucket(plan[b].kind)

\* Shallow before deep, except for deletes.
RunsBefore(a, b) ==
  \/ Bucket(plan[a].kind) < Bucket(plan[b].kind)
  \/ /\ Bucket(plan[a].kind) = Bucket(plan[b].kind)
     /\ IF plan[a].kind \in Deletes THEN Depth(a) > Depth(b) ELSE Depth(a) < Depth(b)

IsNext(n) ==
  /\ pc = "executing"
  /\ plan[n] # Nothing
  /\ \A m \in Node : plan[m] # Nothing => ~RunsBefore(m, n)

Done(n) == plan' = [plan EXCEPT ![n] = Nothing]

\* Mutant: a folder created in this cycle is not found again.
ParentListed(n) ==
  IF Parent[n] # Root /\ listed[Parent[n]] # None THEN listed[Parent[n]].id ELSE RootId

\* resolve_parent_runtime.  For a parent it does not know, the caller falls back to the
\* parent resolved from the listing, which then is the root of the pair.
ParentId(n) ==
  IF Parent[n] # Root /\ remoteIds[Parent[n]] # None THEN remoteIds[Parent[n]] ELSE RootId

NewObject(n, parent, data) ==
  LET under == IF parent = RootId THEN Root ELSE drive[parent].at
  IN [at |-> CHOOSE q \in Node : Parent[q] = under /\ Name[q] = Name[n],
      above |-> IF parent = RootId THEN {} ELSE drive[parent].above \cup {parent},
      data |-> data, trashed |-> FALSE]

\* Mutant: a folder's row carries what a file's would.
RowOfFolderHashed(n, id, l, r) ==
  [localHash |-> l, remoteMd5 |-> r, remoteId |-> id, state |-> "synced"]

\* update_index: a folder has neither hash.
RowOf(n, id, l, r) ==
  [localHash |-> IF l = Dir THEN None ELSE l, remoteMd5 |-> IF r = Dir THEN None ELSE r,
   remoteId |-> id, state |-> "synced"]
Record(n, row) == index' = [index EXCEPT ![n] = row]

Remember(held, n, v) == [held EXCEPT ![Name[n]] = @ \cup Holds(v)]

\* Upload and CreateRemoteDir.
CreateOnDrive(n) ==
  /\ IsNext(n)
  /\ \/ plan[n].kind = "Upload" /\ local[n] # None
     \/ plan[n].kind = "CreateRemoteDir"
  /\ IdsLeft
  /\ LET i == NewId
         data == IF n \in Folders THEN Dir ELSE local[n]
     IN /\ drive' = [drive EXCEPT ![i] = NewObject(n, ParentId(n), data)]
        /\ remoteIds' = IF n \in Folders THEN [remoteIds EXCEPT ![n] = i] ELSE remoteIds
        /\ Record(n, RowOf(n, i, local[n], data))
        /\ heldRemote' = Remember(heldRemote, n, data)
  /\ Done(n)
  /\ UNCHANGED <<local, pc, scan, listed, ops, faults, heldLocal, dirty, folderTrashed>>

UpdateRemote(n) ==
  /\ IsNext(n)
  /\ plan[n].kind = "UpdateRemote" /\ local[n] # None
  /\ drive' = [drive EXCEPT ![plan[n].id].data = local[n]]
  /\ heldRemote' = Remember(heldRemote, n, local[n])
  /\ Record(n, RowOf(n, plan[n].id, local[n], local[n]))
  /\ Done(n)
  /\ UNCHANGED <<local, pc, scan, listed, remoteIds, ops, faults, heldLocal, dirty,
                 folderTrashed>>

\* Download and CreateLocalDir: both make the folders above that are missing.
CreateLocally(n) ==
  /\ IsNext(n)
  /\ plan[n].kind \in {"Download", "CreateLocalDir"}
  /\ LET data == drive[plan[n].id].data
     IN /\ local' = [m \in Node |-> IF m = n THEN data
                                    ELSE IF m \in Ups[n] THEN Dir ELSE local[m]]
        /\ heldLocal' = Remember(heldLocal, n, data)
        /\ Record(n, RowOf(n, plan[n].id, data, data))
  /\ Done(n)
  /\ UNCHANGED <<drive, pc, scan, listed, remoteIds, ops, faults, heldRemote, dirty,
                 folderTrashed>>

\* remove_dir_all takes along whatever is in the folder by now.
DeleteLocal(n) ==
  /\ IsNext(n)
  /\ plan[n].kind = "DeleteLocal"
  /\ local' = [m \in Node |-> IF m \in Subtree(n) THEN None ELSE local[m]]
  /\ Record(n, None)
  /\ Done(n)
  /\ UNCHANGED <<drive, pc, scan, listed, remoteIds, ops, faults, heldLocal, heldRemote,
                 dirty, folderTrashed>>

\* So does trashing a folder, on Drive's side.
DeleteRemote(n) ==
  /\ IsNext(n)
  /\ plan[n].kind = "DeleteRemote"
  /\ drive' = [drive EXCEPT ![plan[n].id].trashed = TRUE]
  /\ folderTrashed' = (folderTrashed \/ \E m \in Subtree(n) \ {n} : index[m] # None)
  /\ Record(n, None)
  /\ Done(n)
  /\ UNCHANGED <<local, pc, scan, listed, remoteIds, ops, faults, heldLocal, heldRemote,
                 dirty>>

MarkConflict(n) ==
  /\ IsNext(n)
  /\ plan[n].kind \in ConflictKinds
  /\ Record(n, IF index[n] # None THEN [index[n] EXCEPT !.state = "conflict"]
               ELSE [localHash |-> None, remoteMd5 |-> None, remoteId |-> plan[n].id,
                     state |-> "conflict"])
  /\ Done(n)
  /\ UNCHANGED <<local, drive, pc, scan, listed, remoteIds, ops, faults, heldLocal,
                 heldRemote, dirty, folderTrashed>>

\* Reading a file that is gone by now is an error: counted, and the loop goes on.
LocalMissing(n) ==
  /\ IsNext(n)
  /\ plan[n].kind \in {"Upload", "UpdateRemote"} /\ local[n] = None
  /\ Done(n)
  /\ UNCHANGED <<store, pc, scan, listed, remoteIds, ops, faults, heldLocal, heldRemote,
                 dirty, folderTrashed>>

Forget ==
  /\ scan' = {} /\ listed' = [n \in Node |-> None] /\ remoteIds' = [n \in Folders |-> None]

EndCycle ==
  /\ pc = "executing" /\ \A n \in Node : plan[n] = Nothing
  /\ pc' = "idle" /\ Forget
  /\ UNCHANGED <<store, plan, ops, faults, heldLocal, heldRemote, dirty, folderTrashed>>

\* A request fails and the loop goes on.
ActionFails(n) ==
  /\ IsNext(n)
  /\ faults < MaxFaults /\ faults' = faults + 1
  /\ Done(n)
  /\ UNCHANGED <<store, pc, scan, listed, remoteIds, ops, heldLocal, heldRemote, dirty,
                 folderTrashed>>

\* An error before the plan exists, or a crash.
CycleEnds ==
  /\ pc # "idle"
  /\ faults < MaxFaults /\ faults' = faults + 1
  /\ pc' = "idle" /\ Forget /\ plan' = [n \in Node |-> Nothing]
  /\ UNCHANGED <<store, ops, heldLocal, heldRemote, dirty, folderTrashed>>

-----------------------------------------------------------------------------
(***************************************************************************)
(* The users, on this machine and on Drive.  Left out are Drive's moves    *)
(* and renames, which keep an object's id and change its path and, for a   *)
(* folder, the paths of all below it: here an object stays where it was    *)
(* made.                                                                   *)
(***************************************************************************)
UserOp(nodes, side) ==
  /\ ops < MaxOps /\ ops' = ops + 1
  /\ dirty' = dirty \cup (nodes \X {side})
  /\ UNCHANGED <<index, cycle, faults>>

PutLocal(n) ==
  /\ UserOp({n}, "local")
  /\ Parent[n] # Root => local[Parent[n]] = Dir
  /\ \E v \in IF n \in Folders THEN {Dir} ELSE Content :
        /\ local[n] # v
        /\ local' = [local EXCEPT ![n] = v]
        /\ heldLocal' = Remember(heldLocal, n, v)
  /\ UNCHANGED <<drive, heldRemote, folderTrashed>>

RemoveLocal(n) ==
  /\ UserOp(Subtree(n), "local")
  /\ local[n] # None
  /\ local' = [m \in Node |-> IF m \in Subtree(n) THEN None ELSE local[m]]
  /\ UNCHANGED <<drive, heldLocal, heldRemote, folderTrashed>>

EditRemote(n) ==
  /\ UserOp({n}, "remote")
  /\ n \notin Folders
  /\ \E i \in Live(n), v \in Content :
        /\ drive[i].data # v
        /\ drive' = [drive EXCEPT ![i].data = v]
        /\ heldRemote' = Remember(heldRemote, n, v)
  /\ UNCHANGED <<local, heldLocal, folderTrashed>>

CreateRemote(n) ==
  /\ UserOp({n}, "remote")
  /\ Live(n) = {} /\ IdsLeft
  /\ \E v \in IF n \in Folders THEN {Dir} ELSE Content,
       parent \in IF Parent[n] = Root THEN {RootId} ELSE Live(Parent[n]) :
        /\ drive' = [drive EXCEPT ![NewId] = NewObject(n, parent, v)]
        /\ heldRemote' = Remember(heldRemote, n, v)
  /\ UNCHANGED <<local, heldLocal, folderTrashed>>

TrashRemote(n) ==
  /\ UserOp(Subtree(n), "remote")
  /\ \E i \in Live(n) : drive' = [drive EXCEPT ![i].trashed = TRUE]
  /\ folderTrashed' = (folderTrashed \/ n \in Folders)
  /\ UNCHANGED <<local, heldLocal, heldRemote>>

-----------------------------------------------------------------------------
Execute(n) ==
  \/ CreateOnDrive(n) \/ UpdateRemote(n) \/ CreateLocally(n) \/ DeleteLocal(n)
  \/ DeleteRemote(n) \/ MarkConflict(n) \/ LocalMissing(n)

Engine == ScanLocal \/ ListRemote \/ Compare \/ EndCycle \/ \E n \in Node : Execute(n)

User == \E n \in Node :
  PutLocal(n) \/ RemoveLocal(n) \/ EditRemote(n) \/ CreateRemote(n) \/ TrashRemote(n)

Next == Engine \/ User \/ CycleEnds \/ \E n \in Node : ActionFails(n)

\* Cycles keep starting and a running one goes on; nothing is assumed of the users.
Spec == Init /\ [][Next]_vars /\ WF_vars(Engine)

-----------------------------------------------------------------------------
(***************************************************************************)
(* Properties.                                                             *)
(***************************************************************************)
(***************************************************************************)
(* Where a row's object is (sort_actions, resolve_parent_runtime,          *)
(* remote_ids): at the row's path, once a cycle has made nested folders    *)
(* and filled them, while no request has failed and no folder was trashed  *)
(* on Drive.  After either it may lack the first of its folders, up to all *)
(* of them: a child whose folder is not known goes to the root of the      *)
(* pair.  It never is under another folder or has another name.  The       *)
(* engine itself can trash such a folder: it was deleted here while        *)
(* somebody put something new into it on Drive, which the same cycle has   *)
(* just fetched.  Objects that users move on Drive are left out.           *)
(***************************************************************************)
ObjectsSitAtTheirPath ==
  \A n \in Node : index[n] # None =>
    LET at == drive[index[n].remoteId].at
    IN /\ at \in Tails[n]
       /\ faults = 0 /\ ~folderTrashed => at = n

(***************************************************************************)
(* Why it holds, as an inductive invariant.  The tree: nothing is kept     *)
(* below a missing folder, paths keep their kind, and an object is under   *)
(* objects of the folders above its path.                                  *)
(***************************************************************************)
LocalIsATree == \A n \in Node : local[n] # None /\ Parent[n] # Root => local[Parent[n]] = Dir
ScanIsATree  == \A n \in scan : Parent[n] # Root => Parent[n] \in scan
ObjectsAreBelow ==
  \A i \in ObjId : drive[i] # None =>
    \A a \in drive[i].above : drive[a] # None /\ drive[a].at \in Ups[drive[i].at]
KindsAreKept ==
  /\ \A n \in Node : local[n] # None => (local[n] = Dir <=> n \in Folders)
  /\ \A i \in ObjId : drive[i] # None => (drive[i].data = Dir <=> drive[i].at \in Folders)
  /\ \A n \in Folders : index[n] # None => index[n].localHash = None /\ index[n].remoteMd5 = None

\* What rows, listings, known folders and plans name is an object of that path, or of
\* its tail.
IsObject(i, n)   == drive[i] # None /\ drive[i].at \in Tails[n]
SitsAt(i, n)     == drive[i] # None /\ drive[i].at = n
NamesAreObjects ==
  /\ \A n \in Node : index[n] # None => IsObject(index[n].remoteId, n)
  /\ \A n \in Node : listed[n] # None => SitsAt(listed[n].id, n)
  /\ \A f \in Folders : remoteIds[f] # None => IsObject(remoteIds[f], f)
  /\ \A n \in Node : plan[n].id # None => IsObject(plan[n].id, n)
PlanFits(n) ==
  /\ n \in Folders => plan[n].kind \in DirCreates \cup Deletes \cup {"Skip"}
  /\ n \notin Folders => plan[n].kind \notin DirCreates
  /\ plan[n].kind \in {"UpdateRemote", "DeleteRemote", "Download", "CreateLocalDir"}
                        \cup ConflictKinds => plan[n].id # None
PlansFit ==
  /\ \A n \in Node : PlanFits(n)
  /\ pc # "executing" => \A n \in Node : plan[n] = Nothing

TreeNamesInv ==
  LocalIsATree /\ ScanIsATree /\ ObjectsAreBelow /\ KindsAreKept /\ NamesAreObjects /\ PlansFit

(***************************************************************************)
(* While nothing has failed and no folder was trashed behind the index's   *)
(* back, every name is of an object at its very path, the folders of the   *)
(* index are live, and so are those a waiting create relies on, each of    *)
(* which is known or about to be created.                                  *)
(***************************************************************************)
CreatesWait == \E n \in Node : plan[n].kind \in DirCreates
ParentComes(n) ==
  plan[n].kind \in {"CreateRemoteDir", "Upload"} /\ Parent[n] # Root =>
    remoteIds[Parent[n]] # None \/ plan[Parent[n]].kind = "CreateRemoteDir"

PeacefulTree ==
  /\ \A n \in Node : /\ index[n] # None => SitsAt(index[n].remoteId, n)
                     /\ plan[n].id # None => SitsAt(plan[n].id, n)
                     /\ ParentComes(n)
  /\ \A f \in Folders :
       /\ index[f] # None => IsLive(index[f].remoteId)
       /\ remoteIds[f] # None =>
            SitsAt(remoteIds[f], f) /\ (CreatesWait => IsLive(remoteIds[f]))
       /\ plan[f].kind = "CreateLocalDir" => IsLive(plan[f].id)
       /\ pc = "comparing" => /\ listed[f] # None => IsLive(listed[f].id)
                              /\ index[f] # None => listed[f] # None

(***************************************************************************)
(* What the engine destroys on one side the other side once had, or users  *)
(* have touched it since the cycle began: a row's hashes are versions both *)
(* sides held, and a planned overwrite or delete is of such a version.     *)
(***************************************************************************)
HeldIsHeld ==
  /\ \A n \in Node : local[n] \in Content => local[n] \in heldLocal[Name[n]]
  /\ \A i \in ObjId : drive[i] # None /\ drive[i].data \in Content =>
       drive[i].data \in heldRemote[Name[drive[i].at]]
RowsAreShared ==
  \A n \in Node : index[n] # None =>
    /\ index[n].localHash # None => index[n].localHash \in heldRemote[Name[n]]
    /\ index[n].remoteMd5 # None => index[n].remoteMd5 \in heldLocal[Name[n]]
SnapshotHolds(n) ==
  /\ pc \in {"listing", "comparing"} /\ n \notin scan /\ local[n] \in Content =>
       <<n, "local">> \in dirty
  /\ pc = "comparing" /\ listed[n] # None =>
       drive[listed[n].id].data = listed[n].data \/ <<n, "remote">> \in dirty
PlanSpares(n) ==
  /\ plan[n].kind \in {"Download", "DeleteLocal"} /\ local[n] \in Content =>
       local[n] \in heldRemote[Name[n]] \/ <<n, "local">> \in dirty
  /\ plan[n].kind \in {"UpdateRemote", "DeleteRemote"} =>
       /\ SitsAt(plan[n].id, n)
       /\ drive[plan[n].id].data \in Content =>
            drive[plan[n].id].data \in heldLocal[Name[n]] \/ <<n, "remote">> \in dirty

VersionsInv ==
  HeldIsHeld /\ RowsAreShared /\ \A n \in Node : SnapshotHolds(n) /\ PlanSpares(n)

TreeInv == TreeNamesInv /\ VersionsInv /\ (faults = 0 /\ ~folderTrashed => PeacefulTree)

(***************************************************************************)
(* The engine destroys a version the other side never had only together    *)
(* with the folder it is in: deleting a file never does (execute_action,   *)
(* sort_actions).  A folder delete does not look at what is inside.        *)
(***************************************************************************)
EngineStep == ops' = ops
FolderGoes(n, kind) == \E f \in Ups[n] : plan[f].kind = kind /\ plan'[f] = Nothing

LocalLossNeedsFolder ==
  \A n \in Node :
    local[n] \in Content /\ local'[n] # local[n] =>
      \/ local[n] \in heldRemote[Name[n]] \/ <<n, "local">> \in dirty
      \/ FolderGoes(n, "DeleteLocal")

\* The live objects may lose their bytes, or be no longer live.
RemoteLossNeedsFolder ==
  \A i \in {j \in ObjId : IsLive(j) /\ drive[j].data \in Content} :
    drive'[i].data # drive[i].data \/ ~IsLive(i)' =>
      LET n == drive[i].at
      IN \/ drive[i].data \in heldLocal[Name[n]] \/ <<n, "remote">> \in dirty
         \/ FolderGoes(n, "DeleteRemote")

LossNeedsFolder == [][EngineStep => LocalLossNeedsFolder /\ RemoteLossNeedsFolder]_vars

(***************************************************************************)
(* Once users and faults are over, the two trees become equal path by path *)
(* and stay so, except where a conflict waits for the user: no folder is   *)
(* left half filled or half deleted (SyncEngine::sync over nested paths).  *)
(***************************************************************************)
OnDrive(n)  == IF Live(n) = {} THEN None ELSE drive[CHOOSE i \in Live(n) : TRUE].data
Settled(n)  == local[n] = OnDrive(n) \/ (index[n] # None /\ index[n].state = "conflict")
TreesSettle == <>[]NoTwins => <>[](\A n \in Node : Settled(n))

(***************************************************************************)
(* D4 of tests/SCENARIOS.md, remote delete against local edit: the local   *)
(* edit survives.  With the folder trashed on Drive the folder's own       *)
(* delete removes the edited child before its conflict is looked at.       *)
(***************************************************************************)
EditSurvivesRemoteDelete ==
  [][EngineStep =>
       \A n \in Node :
         plan[n].kind = "RemoteDeletedLocalModified" /\ local[n] \in Content
           => local'[n] # None]_vars
=============================================================================
