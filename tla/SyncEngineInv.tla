--------------------------- MODULE SyncEngineInv ----------------------------
(***************************************************************************)
(* The inductive invariants behind BaseWasShared, NoSilentLoss, OneWay,    *)
(* RepeatSyncDoesNothing and ResolutionConverges.  TLC checks them on the  *)
(* instances of MCSyncEngine, TLAPS proves them in SyncEngineProofs.       *)
(***************************************************************************)
EXTENDS SyncEngine

(***************************************************************************)
(* Rows, listings, plans and transfers name an object of their own path:   *)
(* Drive objects are trashed, never destroyed.                             *)
(***************************************************************************)
ObjectOf(i, p) == i \in ObjId /\ drive[i] # None /\ drive[i].path = p

RowsNameObjects    == \A p \in Path : index[p] # None => ObjectOf(index[p].remoteId, p)
ListingNamesObjects == \A p \in Path : listed[p] # None => ObjectOf(listed[p].id, p)

PlanNamesObject(p) ==
  LET k == plan[p].kind
  IN /\ pc = "executing"
     /\ k \in Transfers \cup Deletes \cup ConflictKinds
     /\ k \notin {"Upload", "DeleteLocal"} => ObjectOf(plan[p].id, p)
PlansNameObjects == \A p \in Path : plan[p] # Nothing => PlanNamesObject(p)

FlightNamesObject ==
  flight # None =>
    /\ plan[flight.path] # Nothing
    /\ flight.stage # "removed" =>
         ObjectOf(flight.id, flight.path) /\ flight.data # None

NamesInv ==
  RowsNameObjects /\ ListingNamesObjects /\ PlansNameObjects /\ FlightNamesObject

\* The history variables record every version: torn files do not count, and an object
\* in the trash may also hold what was sent there.
HistoryIsComplete ==
  /\ \A p \in Path : local[p] \in Content => local[p] \in heldLocal[p]
  /\ \A i \in ObjId : drive[i] # None => drive[i].data \in ReachedDrive(drive[i].path)

(***************************************************************************)
(* What may be destroyed on either side without losing a version.          *)
(***************************************************************************)
LocalExpendable(p) ==
  local[p] \in Content => local[p] \in ReachedDrive(p) \/ <<p, "local">> \in dirty

RemoteExpendable(p, i) ==
  drive[i].data \in Content =>
    drive[i].data \in heldLocal[p] \cup copies[p] \/ <<p, "remote">> \in dirty

(***************************************************************************)
(* Where the snapshots are stale by now, nothing is lost by believing them: *)
(* a path the scan did not find holds nothing, or what may be destroyed,   *)
(* and an object has the bytes that were listed, or such as may be.        *)
(***************************************************************************)
ScanIsTrue ==
  pc \in {"listing", "comparing"} => \A p \in Path \ scan : LocalExpendable(p)

ListingIsTrue ==
  pc = "comparing" =>
    \A p \in Path : listed[p] # None =>
      drive[listed[p].id].data = listed[p].md5 \/ RemoteExpendable(p, listed[p].id)

\* An action that waits to be executed still has the grounds it was planned on.
PlanHasGrounds(p) ==
  LET k == plan[p].kind
  IN /\ k \in {"Download", "DeleteLocal"} /\ pair.policy # "keep-both" => LocalExpendable(p)
     /\ k \in {"UpdateRemote", "DeleteRemote"} => RemoteExpendable(p, plan[p].id)

InFlight(p) == flight # None /\ flight.path = p

PlansHaveGrounds ==
  \A p \in Path : plan[p] # Nothing => InFlight(p) \/ PlanHasGrounds(p)

\* What the transfer in flight has established so far.
TransferIsFaithful ==
  flight # None =>
    LET p == flight.path
        i == flight.id
        d == flight.data
    IN /\ flight.stage # "removed" => d \in ReachedDrive(p)
       /\ flight.stage \in {"streaming", "fetched"} => drive[i].data = d
       /\ flight.stage = "streaming" => local[p] \in Torn
       /\ flight.stage \in {"fetched", "known"} =>
            /\ d \in Content => d \in heldLocal[p] \cup copies[p]
            /\ pair.policy # "keep-both" => local[p] = d

LossInv ==
  /\ NamesInv
  /\ HistoryIsComplete
  /\ ScanIsTrue
  /\ ListingIsTrue
  /\ PlansHaveGrounds
  /\ TransferIsFaithful
  /\ BaseWasShared

(***************************************************************************)
(* A one-way pair plans nothing against its direction, and a transfer      *)
(* against it can only come from a policy that ignores the mode.           *)
(***************************************************************************)
PlanRespectsMode(p) ==
  /\ PullOnly => plan[p].kind \notin {"Upload", "UpdateRemote", "DeleteRemote"}
  /\ PushOnly => plan[p].kind \notin {"Download", "DeleteLocal"}

ModeInv ==
  /\ \A p \in Path : PlanRespectsMode(p)
  /\ PushOnly /\ pair.policy \in {"ask", "prefer-local"} /\ flight # None
       => flight.stage # "streaming"

(***************************************************************************)
(* Convergence.  While calm is not "no", nobody but the engine has moved   *)
(* anything since the last cycle began, so what the cycle knows is what    *)
(* both sides show by now.  Left out is prefer-remote, which restores a    *)
(* locally deleted file without recording it.                              *)
(***************************************************************************)
EntryIn(ids, objects) ==
  IF ids = {} THEN None ELSE Entry(objects[CHOOSE i \in ids : TRUE].data)

RemoteNow(p) == EntryIn(Live(p), drive)

LocalNow(p) == IF local[p] = None THEN None ELSE Entry(local[p])

\* What a cycle that began now would do with the path.
Now(p) == Decide(pair.mode, FALSE, LocalNow(p), RemoteNow(p), index[p])

SnapshotsAreCurrent ==
  /\ pc \in {"listing", "comparing"} => scan = {p \in Path : local[p] # None}
  /\ pc = "comparing" =>
       \A p \in Path :
         /\ listed[p] = None => Live(p) = {}
         /\ listed[p] # None =>
              listed[p].id \in Live(p) /\ listed[p].md5 = drive[listed[p].id].data

PlanIsCurrent(p) ==
  LET k == plan[p].kind
  IN /\ k = Now(p)
     /\ k \notin {"Skip", "Upload", "DeleteLocal", "RemoteDeletedLocalModified"}
          => plan[p].id \in Live(p)

\* The path is done with: under "ask" but for the user's decision.
AtRest(p) ==
  IF pair.policy = "ask"
  THEN Now(p) # "Skip" => Now(p) \in ConflictKinds /\ Flagged(p)
  ELSE Now(p) \notin BothPresent

\* The action in flight will leave its path at rest.
TransferSettles ==
  flight # None =>
    LET p == flight.path
        i == flight.id
        k == plan[p].kind
    IN IF flight.stage = "removed" THEN local[p] = None /\ Live(p) = {}
       ELSE /\ pair.policy = "ask" => k \notin ConflictKinds
            /\ CASE k = "RemoteDeletedLocalModified" -> Live(p) = {}
                 [] k = "LocalDeletedRemoteModified" -> local[p] = None /\ flight.stage # "streaming"
                 [] OTHER -> /\ i \in Live(p)
                             /\ local[p] # None
                             /\ flight.stage = "streaming" => local[p] \in Torn
                             /\ flight.stage = "known" => flight.data = drive[i].data

Cleared(p) == calm = "settled" \/ (pc = "executing" /\ plan[p] = Nothing)

CalmInv ==
  calm # "no" /\ pair.policy # "prefer-remote" =>
    /\ NoTwins
    /\ SnapshotsAreCurrent
    /\ TransferSettles
    /\ \A p \in Path : ~InFlight(p) =>
         /\ plan[p] # Nothing => PlanIsCurrent(p)
         /\ Cleared(p) => AtRest(p)
    /\ calm = "settled" =>
         /\ \A p \in Path : plan[p].kind \notin BothPresent \/ pair.policy = "ask"
         /\ pair.policy = "ask" => flight = None
=============================================================================
