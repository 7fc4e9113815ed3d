----------------------------- MODULE SyncEngine -----------------------------
(***************************************************************************)
(* One sync pair over a flat folder: the cycle of SyncEngine::sync (scan,  *)
(* list, compare, execute), split at the points where it awaits the disk   *)
(* or Drive, interleaved with the user's edits on this machine, with edits *)
(* on Drive made from elsewhere, and with failing requests and crashes.    *)
(*                                                                         *)
(* A file's bytes are atomic values; both hashes are taken to be injective *)
(* on them.  The conflicted copies of keep-both are recorded as the set of *)
(* contents they hold: a copy is from then on an ordinary new local file.  *)
(***************************************************************************)
EXTENDS ThreeWay, Naturals

CONSTANTS
  Path,       \* the file names of the folder
  Content,    \* what users write
  Torn,       \* what an interrupted download leaves behind
  ObjId,      \* Drive file ids (a bound on the objects ever created)
  Modes,      \* the SyncModes the pair may be configured with
  Policies,   \* the ConflictPolicies the pair may be configured with
  RaceFree,   \* TRUE: users leave a path alone while it is being transferred
  MaxOps,     \* bound on user operations
  MaxFaults   \* bound on failed requests, aborted cycles and crashes

ConflictPolicies ==
  {"ask", "keep-both", "prefer-local", "prefer-remote", "newest-wins"}

Bytes == Content \cup Torn

ASSUME DataAssumption == None \notin Bytes /\ Content \cap Torn = {}
ASSUME IdAssumption   == None \notin ObjId
ASSUME PairAssumption == Modes \subseteq SyncModes /\ Policies \subseteq ConflictPolicies
ASSUME RaceAssumption == RaceFree \in BOOLEAN
ASSUME BoundAssumption == MaxOps \in Nat /\ MaxFaults \in Nat

VARIABLES
  pair,       \* the pair's settings (SyncPair), as the engine snapshot them
  local,      \* the local folder: a file's bytes, or None
  drive,      \* Drive's objects by id: path, bytes, trashed
  index,      \* the file_index table: the base state of each path
  copies,     \* contents of the conflicted copies written next to each path
  pc,         \* where the cycle is
  scan,       \* local_map: the paths the local scan found
  listed,     \* remote_map: id and md5 of each path in the remote listing
  plan,       \* the actions not yet executed
  flight,     \* the action being executed, between two awaits
  ops,        \* user operations so far
  faults      \* faults so far

(***************************************************************************)
(* History variables: no code reads them.  heldLocal[p] and heldRemote[p]  *)
(* are the bytes path p has ever held on each side, on Drive in an object  *)
(* that was not in the trash; sunk[p] are the bytes sent into an object of *)
(* p that was in the trash by then.  dirty are the paths and sides users   *)
(* touched since the current cycle began; calm says how far the engine has *)
(* come since the last user operation or fault: nowhere, into a cycle that *)
(* began after it, or through such a cycle (leaving out cycles that begin  *)
(* with two live objects of one name).                                     *)
(***************************************************************************)
VARIABLES heldLocal, heldRemote, sunk, dirty, calm

store == <<local, drive, index, copies>>
cycle == <<pc, scan, listed, plan, flight>>
hist  == <<heldLocal, heldRemote, sunk, dirty, calm>>
vars  == <<pair, store, cycle, ops, faults, hist>>

Object == [path : Path, data : Bytes, trashed : BOOLEAN]
Row    == [localHash : Bytes \cup {None}, remoteMd5 : Bytes \cup {None},
           remoteId : ObjId, state : {"synced", "conflict"}]
Seen   == [id : ObjId, md5 : Bytes]
Action == [kind : Kinds, id : ObjId \cup {None}]
Flight == [path : Path, id : ObjId \cup {None}, data : Bytes \cup {None},
           stage : {"streaming", "fetched", "known", "removed"}]

Entries == [dir : BOOLEAN, hash : Bytes \cup {None}]

ASSUME NoneAssumption ==
  /\ None \notin Object \cup Row \cup Seen \cup Flight
  /\ None \notin Entries

TypeOK ==
  /\ pair \in [mode : Modes, policy : Policies]
  /\ local \in [Path -> Bytes \cup {None}]
  /\ drive \in [ObjId -> Object \cup {None}]
  /\ index \in [Path -> Row \cup {None}]
  /\ copies \in [Path -> SUBSET Bytes]
  /\ pc \in {"idle", "listing", "comparing", "executing"}
  /\ scan \subseteq Path
  /\ listed \in [Path -> Seen \cup {None}]
  /\ plan \in [Path -> Action]
  /\ flight \in Flight \cup {None}
  /\ ops \in Nat /\ faults \in Nat
  /\ heldLocal \in [Path -> SUBSET Bytes]
  /\ heldRemote \in [Path -> SUBSET Bytes]
  /\ sunk \in [Path -> SUBSET Bytes]
  /\ dirty \subseteq Path \X {"local", "remote"}
  /\ calm \in {"no", "cycling", "settled"}

Nothing == [kind |-> "Skip", id |-> None]
Live(p) == {i \in ObjId : drive[i] # None /\ drive[i].path = p /\ ~drive[i].trashed}
Free    == {i \in ObjId : drive[i] = None}

\* Two live objects with one name shadow each other in the remote map.
NoTwins == \A p \in Path : \A i, j \in Live(p) : i = j

(***************************************************************************)
(* A pair is added over folders that may already have contents, none of    *)
(* them indexed.                                                           *)
(***************************************************************************)
Init ==
  /\ pair \in [mode : Modes, policy : Policies]
  /\ local \in [Path -> Content \cup {None}]
  /\ drive \in [ObjId -> [path : Path, data : Content, trashed : {FALSE}] \cup {None}]
  /\ \A i, j \in ObjId :
        drive[i] # None /\ drive[j] # None /\ drive[i].path = drive[j].path => i = j
  /\ index = [p \in Path |-> None]
  /\ copies = [p \in Path |-> {}]
  /\ pc = "idle" /\ scan = {} /\ flight = None
  /\ listed = [p \in Path |-> None]
  /\ plan = [p \in Path |-> Nothing]
  /\ ops = 0 /\ faults = 0
  /\ heldLocal = [p \in Path |-> {local[p]} \ {None}]
  /\ heldRemote = [p \in Path |-> {drive[i].data : i \in Live(p)}]
  /\ sunk = [p \in Path |-> {}]
  /\ dirty = {} /\ calm = "no"

-----------------------------------------------------------------------------
(***************************************************************************)
(* The first half of SyncEngine::sync: the two snapshots and the plan.     *)
(***************************************************************************)

\* scan_directory: the scan sees names; contents are hashed only by Compare.
ScanLocal ==
  /\ pc = "idle"
  /\ pc' = "listing"
  /\ scan' = {p \in Path : local[p] # None}
  /\ dirty' = {}
  /\ calm' = IF calm = "no" /\ NoTwins THEN "cycling" ELSE calm
  /\ UNCHANGED <<pair, store, listed, plan, flight, ops, faults, heldLocal, heldRemote, sunk>>

\* fetch_remote_tree: of two objects with one name, the map keeps the last listed.
ListRemote ==
  /\ pc = "listing"
  /\ pc' = "comparing"
  /\ \E pick \in [Path -> ObjId \cup {None}] :
        /\ \A p \in Path : IF Live(p) = {} THEN pick[p] = None ELSE pick[p] \in Live(p)
        /\ listed' = [p \in Path |->
             IF pick[p] = None THEN None ELSE [id |-> pick[p], md5 |-> drive[pick[p]].data]]
  /\ UNCHANGED <<pair, store, scan, plan, flight, ops, faults, hist>>

\* A scanned file that is gone by now has no hash (hash_file(..).ok()).
LocalEntry(p)  == IF p \in scan THEN Entry(local[p]) ELSE None
RemoteEntry(p) == IF listed[p] = None THEN None ELSE Entry(listed[p].md5)

Planned(p) ==
  LET kind == Decide(pair.mode, FALSE, LocalEntry(p), RemoteEntry(p), index[p])
  IN [kind |-> kind,
      id   |-> CASE kind \in {"Skip", "Upload", "DeleteLocal"}  -> None
                 [] kind = "RemoteDeletedLocalModified"         -> index[p].remoteId
                 [] OTHER                                       -> listed[p].id]

\* Loading the index and compute_actions, which hashes each file when it gets to it.
Compare ==
  /\ pc = "comparing"
  /\ pc' = "executing"
  /\ plan' = [p \in Path |-> Planned(p)]
  /\ UNCHANGED <<pair, store, scan, listed, flight, ops, faults, hist>>

-----------------------------------------------------------------------------
(***************************************************************************)
(* The execute loop.  The sort orders the buckets; within a bucket the     *)
(* order of the paths is left open.                                        *)
(***************************************************************************)
IsNext(p) ==
  /\ pc = "executing" /\ flight = None
  /\ plan[p] # Nothing
  /\ \A q \in Path : plan[q] # Nothing => Bucket(plan[p].kind) <= Bucket(plan[q].kind)

Done(p) == plan' = [plan EXCEPT ![p] = Nothing]
Fly(p, i, data, stage) ==
  flight' = [path |-> p, id |-> i, data |-> data, stage |-> stage]

InConflict(p)      == plan[p].kind \in ConflictKinds
Resolving(p, pols) == InConflict(p) /\ pair.policy \in pols

\* drive.upload_file: a new object, whatever else has appeared under that name.
Upload(p) ==
  /\ IsNext(p)
  /\ plan[p].kind = "Upload"
  /\ local[p] # None
  /\ \E i \in Free :
        /\ drive' = [drive EXCEPT ![i] = [path |-> p, data |-> local[p], trashed |-> FALSE]]
        /\ Fly(p, i, local[p], "known")
  /\ heldRemote' = [heldRemote EXCEPT ![p] = @ \cup {local[p]}]
  /\ UNCHANGED <<pair, local, index, copies, pc, scan, listed, plan, ops, faults,
                 heldLocal, sunk, dirty, calm>>

\* newest-wins compares the clocks of two machines: either side may win.
LocalWins(p)  == \/ plan[p].kind = "UpdateRemote"
                 \/ Resolving(p, {"prefer-local", "newest-wins"})
RemoteWins(p) == \/ plan[p].kind = "Download"
                 \/ Resolving(p, {"prefer-remote"})
                 \/ Resolving(p, {"newest-wins"}) /\ local[p] # None

\* drive.update_file: replaces the bytes of an object, which stays in the trash if it
\* is there.
Update(p, i, data) ==
  /\ drive' = [drive EXCEPT ![i].data = data]
  /\ IF drive[i].trashed
     THEN sunk' = [sunk EXCEPT ![p] = @ \cup {data}] /\ UNCHANGED heldRemote
     ELSE heldRemote' = [heldRemote EXCEPT ![p] = @ \cup {data}] /\ UNCHANGED sunk

UpdateRemote(p) ==
  /\ IsNext(p)
  /\ LocalWins(p)
  /\ local[p] # None
  /\ Update(p, plan[p].id, local[p])
  /\ Fly(p, plan[p].id, local[p], "known")
  /\ UNCHANGED <<pair, local, index, copies, pc, scan, listed, plan, ops, faults,
                 heldLocal, dirty, calm>>

\* drive.download_file, up to File::create: the old local bytes are gone.
OpenDownload(p) ==
  /\ IsNext(p)
  /\ RemoteWins(p)
  /\ \E t \in Torn : local' = [local EXCEPT ![p] = t]
  /\ Fly(p, plan[p].id, drive[plan[p].id].data, "streaming")
  /\ UNCHANGED <<pair, drive, index, copies, pc, scan, listed, plan, ops, faults, hist>>

\* What the path holds when the stream ends: the download, unless a user has been at
\* it.  A removed file stays gone; a saved one replaced the download, was overwritten
\* by it, or the two are mixed.
Landed(p, data) ==
  CASE local[p] \in Torn -> {data}
    [] local[p] = None   -> {None}
    [] OTHER             -> {data, local[p]} \cup Torn

\* The rest of download_file.
FinishDownload ==
  /\ flight # None /\ flight.stage = "streaming"
  /\ LET p == flight.path
     IN \E d \in Landed(p, flight.data) :
          /\ local' = [local EXCEPT ![p] = d]
          /\ heldLocal' = [heldLocal EXCEPT ![p] = @ \cup ({d} \ {None})]
  /\ flight' = [flight EXCEPT !.stage = "fetched"]
  /\ UNCHANGED <<pair, drive, index, copies, pc, scan, listed, plan, ops, faults,
                 heldRemote, sunk, dirty, calm>>

\* keep-both downloads the remote version next to the local one.
KeepBoth(p) ==
  /\ IsNext(p)
  /\ Resolving(p, {"keep-both"})
  /\ LET i == plan[p].id
     IN /\ copies' = [copies EXCEPT ![p] = @ \cup {drive[i].data}]
        /\ Fly(p, i, drive[i].data, "fetched")
  /\ UNCHANGED <<pair, local, drive, index, pc, scan, listed, plan, ops, faults, hist>>

\* drive.get_file after a download: the md5 is the one the object has by now.
GetFile ==
  /\ flight # None /\ flight.stage = "fetched"
  /\ flight' = [flight EXCEPT !.stage = "known", !.data = drive[flight.id].data]
  /\ UNCHANGED <<pair, store, pc, scan, listed, plan, ops, faults, hist>>

\* Mutant: the row takes the md5 of the listing, not that of the answer.
RowOfListed(p, i, md5) ==
  [localHash |-> local[p], remoteMd5 |-> IF listed[p] = None THEN md5 ELSE listed[p].md5,
   remoteId |-> i, state |-> "synced"]

\* update_index: the local file is hashed now, not when it was transferred.
RowOf(p, i, md5) ==
  [localHash |-> local[p], remoteMd5 |-> md5, remoteId |-> i, state |-> "synced"]

\* Mutants: an update is not recorded; a resolved conflict is not recorded.
RecordedIfNew(p)      == plan[p].kind \in {"Upload", "Download"}
RecordedIfPeaceful(p) == ~InConflict(p)

\* handle_conflict records a resolution only while both sides hold a file.
Recorded(p) == InConflict(p) => plan[p].kind \in BothPresent

UpdateIndex ==
  /\ flight # None /\ flight.stage = "known"
  /\ LET p == flight.path
     IN /\ index' = IF Recorded(p)
                    THEN [index EXCEPT ![p] = RowOf(p, flight.id, flight.data)]
                    ELSE index
        /\ Done(p)
  /\ flight' = None
  /\ UNCHANGED <<pair, local, drive, copies, pc, scan, listed, ops, faults, hist>>

\* Mutants: a conflict on a path without a row gets no remote id; one on a path
\* with a row is not flagged.
FlaggedRowNoId(p) ==
  IF index[p] # None THEN [index[p] EXCEPT !.state = "conflict"]
  ELSE [localHash |-> None, remoteMd5 |-> None, remoteId |-> None, state |-> "conflict"]
FlaggedRowKept(p) ==
  IF index[p] # None THEN index[p]
  ELSE [localHash |-> None, remoteMd5 |-> None, remoteId |-> plan[p].id,
        state |-> "conflict"]

FlaggedRow(p) ==
  IF index[p] # None THEN [index[p] EXCEPT !.state = "conflict"]
  ELSE [localHash |-> None, remoteMd5 |-> None, remoteId |-> plan[p].id,
        state |-> "conflict"]

\* The Ask policy: the row is flagged, its hashes are left as they were.
MarkConflict(p) ==
  /\ IsNext(p)
  /\ Resolving(p, {"ask"})
  /\ index' = [index EXCEPT ![p] = FlaggedRow(p)]
  /\ Done(p)
  /\ UNCHANGED <<pair, local, drive, copies, pc, scan, listed, flight, ops, faults, hist>>

DeleteLocal(p) ==
  /\ IsNext(p)
  /\ plan[p].kind = "DeleteLocal"
  /\ local' = [local EXCEPT ![p] = None]
  /\ Fly(p, None, None, "removed")
  /\ UNCHANGED <<pair, drive, index, copies, pc, scan, listed, plan, ops, faults, hist>>

DeleteRemote(p) ==
  /\ IsNext(p)
  /\ plan[p].kind = "DeleteRemote"
  /\ drive' = [drive EXCEPT ![plan[p].id].trashed = TRUE]
  /\ Fly(p, plan[p].id, None, "removed")
  /\ UNCHANGED <<pair, local, index, copies, pc, scan, listed, plan, ops, faults, hist>>

\* FileEntry::delete_by_path, after either delete.
DropRow ==
  /\ flight # None /\ flight.stage = "removed"
  /\ index' = [index EXCEPT ![flight.path] = None]
  /\ Done(flight.path)
  /\ flight' = None
  /\ UNCHANGED <<pair, local, drive, copies, pc, scan, listed, ops, faults, hist>>

\* Reading a local file that is gone is an error: logged, and the loop goes on.
LocalMissing(p) ==
  /\ IsNext(p)
  /\ local[p] = None
  /\ plan[p].kind = "Upload" \/ LocalWins(p)
  /\ Done(p)
  /\ UNCHANGED <<pair, store, pc, scan, listed, flight, ops, faults, hist>>

\* The snapshots are locals of sync(): they end with the cycle.
Forget == scan' = {} /\ listed' = [p \in Path |-> None]

EndCycle ==
  /\ pc = "executing" /\ flight = None
  /\ \A p \in Path : plan[p] = Nothing
  /\ pc' = "idle"
  /\ Forget
  /\ calm' = IF calm = "cycling" THEN "settled" ELSE calm
  /\ UNCHANGED <<pair, store, plan, flight, ops, faults, heldLocal, heldRemote, sunk, dirty>>

-----------------------------------------------------------------------------
(***************************************************************************)
(* Faults.  A failed action is counted and the loop continues; before the  *)
(* plan exists an error ends the cycle (`?`), as a crash does anywhere.    *)
(***************************************************************************)
Fault == faults < MaxFaults /\ faults' = faults + 1 /\ calm' = "no"

\* The action's first request fails, or it fails (or its answer is lost) half-way.
ActionFails ==
  /\ Fault
  /\ \/ \E p \in Path : IsNext(p) /\ Done(p) /\ UNCHANGED flight
     \/ flight # None /\ Done(flight.path) /\ flight' = None
  /\ UNCHANGED <<pair, store, pc, scan, listed, ops,
                 heldLocal, heldRemote, sunk, dirty>>

CycleEnds ==
  /\ Fault
  /\ pc # "idle"
  /\ pc' = "idle"
  /\ Forget
  /\ plan' = [p \in Path |-> Nothing]
  /\ flight' = None
  /\ UNCHANGED <<pair, store, ops, heldLocal, heldRemote, sunk, dirty>>

-----------------------------------------------------------------------------
(***************************************************************************)
(* The users: on this machine, and of Drive from anywhere else.  Left out  *)
(* are Drive's moves and renames: an object keeps its path here, although  *)
(* a file moved or renamed on Drive keeps its id under another name.       *)
(***************************************************************************)
InTransfer(p) == flight # None /\ flight.path = p /\ flight.stage # "removed"

UserOp(p, side) ==
  /\ ops < MaxOps
  /\ RaceFree => ~InTransfer(p)
  /\ ops' = ops + 1
  /\ calm' = "no"
  /\ dirty' = dirty \cup {<<p, side>>}
  /\ UNCHANGED <<pair, index, copies, cycle, faults>>

WriteLocal(p, c) ==
  /\ UserOp(p, "local")
  /\ local[p] # c
  /\ local' = [local EXCEPT ![p] = c]
  /\ heldLocal' = [heldLocal EXCEPT ![p] = @ \cup {c}]
  /\ UNCHANGED <<drive, heldRemote, sunk>>

RemoveLocal(p) ==
  /\ UserOp(p, "local")
  /\ local[p] # None
  /\ local' = [local EXCEPT ![p] = None]
  /\ UNCHANGED <<drive, heldLocal, heldRemote, sunk>>

EditRemote(p, c) ==
  /\ UserOp(p, "remote")
  /\ \E i \in Live(p) : drive[i].data # c /\ drive' = [drive EXCEPT ![i].data = c]
  /\ heldRemote' = [heldRemote EXCEPT ![p] = @ \cup {c}]
  /\ UNCHANGED <<local, heldLocal, sunk>>

CreateRemote(p, c) ==
  /\ UserOp(p, "remote")
  /\ Live(p) = {}
  /\ \E i \in Free : drive' = [drive EXCEPT ![i] = [path |-> p, data |-> c, trashed |-> FALSE]]
  /\ heldRemote' = [heldRemote EXCEPT ![p] = @ \cup {c}]
  /\ UNCHANGED <<local, heldLocal, sunk>>

TrashRemote(p) ==
  /\ UserOp(p, "remote")
  /\ \E i \in Live(p) : drive' = [drive EXCEPT ![i].trashed = TRUE]
  /\ UNCHANGED <<local, heldLocal, heldRemote, sunk>>

-----------------------------------------------------------------------------
Execute(p) ==
  \/ Upload(p) \/ UpdateRemote(p) \/ OpenDownload(p) \/ KeepBoth(p) \/ MarkConflict(p)
  \/ DeleteLocal(p) \/ DeleteRemote(p) \/ LocalMissing(p)

Engine ==
  \/ ScanLocal \/ ListRemote \/ Compare \/ EndCycle
  \/ \E p \in Path : Execute(p)
  \/ FinishDownload \/ GetFile \/ UpdateIndex \/ DropRow

User ==
  \E p \in Path :
     \/ RemoveLocal(p) \/ TrashRemote(p)
     \/ \E c \in Content : WriteLocal(p, c) \/ EditRemote(p, c) \/ CreateRemote(p, c)

Next == Engine \/ ActionFails \/ CycleEnds \/ User

Spec == Init /\ [][Next]_vars

(***************************************************************************)
(* The poll loop keeps starting cycles and a running cycle keeps going;    *)
(* faults are bounded, so Drive is reachable from some point on.  Nothing  *)
(* is assumed of the users.                                                *)
(***************************************************************************)
FairSpec == Spec /\ WF_vars(Engine)

-----------------------------------------------------------------------------
(***************************************************************************)
(* Properties.                                                             *)
(***************************************************************************)
EngineStep == ops' = ops

\* What was ever sent to Drive or made there, be it into the trash.
ReachedDrive(p) == heldRemote[p] \cup sunk[p]

(***************************************************************************)
(* A row of the file index is a base both sides really had: its two hashes *)
(* are of the same bytes, and each side of the path once held them, Drive  *)
(* possibly in its trash.  Every later decision to overwrite or delete     *)
(* rests on it (update_index, compute_actions).  keep-both records two     *)
(* different versions on purpose; there the remote one is at least on this *)
(* machine, as the copy.                                                   *)
(***************************************************************************)
SharedRow(p, row) ==
  /\ row.remoteMd5 \in Content => row.remoteMd5 \in heldLocal[p] \cup copies[p]
  /\ pair.policy # "keep-both" =>
       /\ row.localHash = row.remoteMd5
       /\ row.localHash \in Content => row.localHash \in ReachedDrive(p)

SharedBase(p) == index[p] # None => SharedRow(p, index[p])

BaseWasShared == \A p \in Path : SharedBase(p)

(***************************************************************************)
(* Under the policies that never choose a loser the engine destroys a      *)
(* version only where the other side once had it, so that its absence      *)
(* there was someone's choice, or has it as a conflicted copy.  There are  *)
(* two exceptions.  An edit made while the cycle that destroys it was      *)
(* already running: compute_actions decides from snapshots and             *)
(* execute_action does not look again.  And a local version that went into *)
(* an object in the trash: the row says synced, no listing shows the       *)
(* object, and the next cycle deletes the file (KeptEditSurvives of        *)
(* SyncPromises).  For local versions this holds of "ask" only: keep-both  *)
(* records the local version as synced although Drive never had it, and    *)
(* the next remote edit is an ordinary download over it.                   *)
(***************************************************************************)
LosesLocal(p)  == local[p] \in Content /\ local'[p] # local[p]
LosesRemote(i) ==
  /\ drive[i] # None /\ ~drive[i].trashed /\ drive[i].data \in Content
  /\ drive'[i] # drive[i]

LocalLossIsPropagation ==
  \A p \in Path :
    LosesLocal(p) =>
      \/ local[p] \in heldRemote[p]
      \/ <<p, "local">> \in dirty
      \/ local[p] \in sunk[p]

RemoteLossIsPropagation ==
  \A i \in ObjId :
    LosesRemote(i) =>
      LET p == drive[i].path
      IN drive[i].data \in heldLocal[p] \cup copies[p] \/ <<p, "remote">> \in dirty

LossIsChosen ==
  EngineStep =>
    /\ pair.policy = "ask" => LocalLossIsPropagation
    /\ pair.policy \in {"ask", "keep-both"} => RemoteLossIsPropagation

NoSilentLoss == [][LossIsChosen]_vars

(***************************************************************************)
(* A one-way pair never writes the side it must leave alone, whatever      *)
(* faults and edits interleave with the cycle.  Stated for the policies    *)
(* that respect the mode: the others resolve a both-modified conflict in   *)
(* every mode, with an upload from a cloud-to-local pair too.              *)
(***************************************************************************)
PullOnly == pair.mode = "cloud-to-local"
PushOnly == pair.mode = "local-to-cloud"

KeepsToItsSide ==
  EngineStep =>
    /\ PullOnly /\ pair.policy \notin {"prefer-local", "newest-wins"} => UNCHANGED drive
    /\ PushOnly /\ pair.policy \in {"ask", "prefer-local"} => UNCHANGED <<local, copies>>

OneWay == [][KeepsToItsSide]_vars

(***************************************************************************)
(* Convergence (N1 of tests/SCENARIOS.md): once a whole cycle has run with *)
(* no user operation and no fault since it began, every further cycle      *)
(* leaves both sides and the index as they are.  A pending conflict is     *)
(* flagged again, which changes nothing.                                   *)
(***************************************************************************)
Undisturbed == pair.policy = "ask" /\ ops' = ops /\ faults' = faults

RepeatSyncDoesNothing ==
  [][Undisturbed /\ calm = "settled" => UNCHANGED store]_vars

(***************************************************************************)
(* A resolved conflict stays resolved (F6 of tests/SCENARIOS.md): after an *)
(* undisturbed cycle no conflict between two live files is found again, so *)
(* keep-both makes no second copy and no side is transferred twice.        *)
(* prefer-remote needs one cycle more after a local delete: it restores    *)
(* the file without recording it.                                          *)
(***************************************************************************)
ResolutionConverges ==
  calm = "settled" /\ pair.policy \in {"keep-both", "prefer-local", "newest-wins"}
    => \A p \in Path : plan[p].kind \notin BothPresent

\* A path is the same on both sides, or flagged for the user.
Mirrored(p) == local[p] = IF Live(p) = {} THEN None
                          ELSE drive[CHOOSE i \in Live(p) : TRUE].data
Flagged(p)  == index[p] # None /\ index[p].state = "conflict"
=============================================================================
