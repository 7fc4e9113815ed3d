------------------------- MODULE ConflictResolution -------------------------
(***************************************************************************)
(* The desktop command resolve_conflict next to the sync cycle of the same *)
(* pair.  A call of it transfers one path and writes its row with the      *)
(* engine's own helpers, but outside run_sync: it takes no in-flight       *)
(* guard, so its steps interleave with every step of a cycle, and with     *)
(* those of other calls.                                                   *)
(***************************************************************************)
EXTENDS SyncEngineInv

CONSTANT Call           \* a bound on the calls that run at once

VARIABLES
  desk,       \* the calls: None, or what one knows between two awaits
  met         \* history: paths two of the calls and the cycle were at, at once

deskVars == <<desk, met>>
allVars  == <<vars, deskVars>>

Choices == {"keep-local", "keep-remote", "keep-both"}
Order   == [path : Path, choice : Choices, entry : Row, data : Bytes \cup {None},
            stage : {"asked", "streaming", "fetched", "known"}]

ASSUME OrderAssumption == None \notin Order

DeskTypeOK == desk \in [Call -> Order \cup {None}] /\ met \subseteq Path

\* Drive's ids are interchangeable, and so are calls: they are used in one order.
NextOf(S) == CHOOSE x \in S : TRUE
InOrder == \A i \in Free \ Free' : i = NextOf(Free)
IsNextCall(c) == c = NextOf({d \in Call : desk[d] = None})

ResolveInit ==
  /\ Init /\ desk = [c \in Call |-> None] /\ met = {}
  /\ ObjId \ Free \in {{}, {NextOf(ObjId)}}

AtDesk(c, p) == desk[c] # None /\ desk[c].path = p

-----------------------------------------------------------------------------
(***************************************************************************)
(* A call.  Its row is the one it read first, with new fields.             *)
(***************************************************************************)

\* The row is looked up by path: nothing asks whether it is still in conflict.
Resolve(c, p, choice) ==
  /\ desk[c] = None /\ IsNextCall(c)
  /\ index[p] # None
  /\ ops < MaxOps /\ ops' = ops + 1
  /\ calm' = "no"
  /\ desk' = [desk EXCEPT ![c] = [path |-> p, choice |-> choice, entry |-> index[p],
                                  data |-> None, stage |-> "asked"]]
  /\ UNCHANGED <<pair, store, cycle, faults, heldLocal, heldRemote, sunk, dirty>>

Asked(c, choice) == desk[c] # None /\ desk[c].stage = "asked" /\ desk[c].choice = choice

Advance(c, stage, data) == desk' = [desk EXCEPT ![c].stage = stage, ![c].data = data]

\* keep-local: update_remote_via, also of an object that is in the trash.
SendLocal(c) ==
  /\ Asked(c, "keep-local")
  /\ LET d == local[desk[c].path]
     IN /\ d # None
        /\ Update(desk[c].path, desk[c].entry.remoteId, d)
        /\ Advance(c, "known", d)
  /\ UNCHANGED <<pair, local, index, copies, cycle, ops, faults, heldLocal, dirty, calm>>

\* keep-remote: download_via, in the two steps of OpenDownload and FinishDownload.
OpenRemote(c) ==
  /\ Asked(c, "keep-remote")
  /\ \E t \in Torn : local' = [local EXCEPT ![desk[c].path] = t]
  /\ Advance(c, "streaming", drive[desk[c].entry.remoteId].data)
  /\ UNCHANGED <<pair, drive, index, copies, cycle, ops, faults, hist>>

FinishRemote(c) ==
  /\ desk[c] # None /\ desk[c].stage = "streaming"
  /\ \E d \in Landed(desk[c].path, desk[c].data) :
        /\ local' = [local EXCEPT ![desk[c].path] = d]
        /\ heldLocal' = [heldLocal EXCEPT ![desk[c].path] = @ \cup ({d} \ {None})]
  /\ Advance(c, "fetched", desk[c].data)
  /\ UNCHANGED <<pair, drive, index, copies, cycle, ops, faults, heldRemote, sunk, dirty, calm>>

AskRemote(c) ==
  /\ desk[c] # None /\ desk[c].stage = "fetched"
  /\ Advance(c, "known", drive[desk[c].entry.remoteId].data)
  /\ UNCHANGED <<vars>>

\* keep-both: the remote version next to the local one.
CopyRemote(c) ==
  /\ Asked(c, "keep-both")
  /\ LET d == drive[desk[c].entry.remoteId].data
     IN /\ copies' = [copies EXCEPT ![desk[c].path] = @ \cup {d}]
        /\ Advance(c, "known", d)
  /\ UNCHANGED <<pair, local, drive, index, cycle, ops, faults, hist>>

\* Mutants: the row keeps the md5 it had; keep-both records what both sides hold by now.
SettledRowOldMd5(o) == [o.entry EXCEPT !.state = "synced", !.localHash = local[o.path]]
SettledRowRehashed(o) == [o.entry EXCEPT !.state = "synced", !.localHash = local[o.path],
                                         !.remoteMd5 = o.data]

\* keep-both leaves both hashes as they were.
SettledRow(o) ==
  IF o.choice = "keep-both" THEN [o.entry EXCEPT !.state = "synced"]
  ELSE [o.entry EXCEPT !.state = "synced", !.localHash = local[o.path], !.remoteMd5 = o.data]

\* The upsert: it writes the row whether or not it is still there.
WriteRow(c) ==
  /\ desk[c] # None /\ desk[c].stage = "known"
  /\ index' = [index EXCEPT ![desk[c].path] = SettledRow(desk[c])]
  /\ desk' = [desk EXCEPT ![c] = None]
  /\ UNCHANGED <<pair, local, drive, copies, cycle, ops, faults, hist>>

\* The call ends early: there is no local file to keep, or any of its steps fails (each `?`),
\* its answer is lost, or the app dies, also between the transfer and the row.
GiveUp(c) ==
  /\ desk[c] # None
  /\ \/ Asked(c, "keep-local") /\ local[desk[c].path] = None /\ UNCHANGED <<faults, calm>>
     \/ Fault
  /\ desk' = [desk EXCEPT ![c] = None]
  /\ UNCHANGED <<pair, store, cycle, ops, heldLocal, heldRemote, sunk, dirty>>

Command(c) ==
  SendLocal(c) \/ OpenRemote(c) \/ FinishRemote(c) \/ AskRemote(c) \/ CopyRemote(c) \/ WriteRow(c)

-----------------------------------------------------------------------------
\* Two are at work on one path: two calls, or a call and a transfer or delete of the cycle.
Crowded(p) ==
  \E c \in Call :
    AtDesk(c, p) /\ (InFlight(p) \/ \E d \in Call \ {c} : AtDesk(d, p))

Meet == met' = met \cup {p \in Path : Crowded(p)'}

\* Users leave a path alone while it is being transferred by any of them.
UserAround ==
  \E p \in Path :
     /\ RaceFree => \A c \in Call : ~AtDesk(c, p)
     /\ \/ RemoveLocal(p) \/ TrashRemote(p)
        \/ \E v \in Content : WriteLocal(p, v) \/ EditRemote(p, v) \/ CreateRemote(p, v)

Around == Engine \/ ActionFails \/ CycleEnds \/ UserAround

ResolveNext ==
  /\ \/ Around /\ UNCHANGED desk
     \/ \E c \in Call :
          \/ \E p \in Path, choice \in Choices : Resolve(c, p, choice)
          \/ Command(c) \/ GiveUp(c)
  /\ Meet
  /\ InOrder

ResolveSpec == ResolveInit /\ [][ResolveNext]_allVars

\* The poll loop and a running call keep going; the user decides nothing by force.
ResolveFairness ==
  /\ WF_allVars(Engine /\ UNCHANGED desk /\ Meet)
  /\ \A c \in Call : WF_allVars(Command(c) /\ Meet)

-----------------------------------------------------------------------------
(***************************************************************************)
(* Properties.  They hold although calls and a cycle interleave freely, up *)
(* to one case: two of them at work on the very same path at once.  There  *)
(* the file the one sends can be the file the other is just writing.       *)
(***************************************************************************)
NeverMet == met = {}

(***************************************************************************)
(* The row a resolution leaves behind, or leaves alone when it is cut      *)
(* between the transfer and the row, is a base both sides really had, as   *)
(* after any transfer of a cycle, even when a cycle with an older plan for *)
(* the path runs around it (resolve_conflict, update_index).               *)
(***************************************************************************)
ResolutionsLeaveABase == NeverMet => BaseWasShared

(***************************************************************************)
(* No cycle destroys a version the other side never had, because of what a *)
(* resolution recorded or moved while the cycle was scanning, planning or  *)
(* busy with other paths (resolve_conflict, compute_actions).  The same    *)
(* two exceptions as in LossIsChosen: an edit made while the cycle was     *)
(* running, and a local version that was sent into an object in the trash, *)
(* which is what keep-local does after a delete on Drive.                  *)
(***************************************************************************)
CyclesStayLossless == [][NeverMet /\ UNCHANGED desk => LossIsChosen]_allVars

(***************************************************************************)
(* The inductive invariant behind the two: a call holds a row that was a   *)
(* shared base, works on an object of its path, and what it has moved so   *)
(* far is on both sides; whoever else works on the same path is recorded   *)
(* in met.  ResolutionProofs shows that it is one.                         *)
(***************************************************************************)
NamesItsObject(o) == ObjectOf(o.entry.remoteId, o.path)

DeskNamesObject == \A c \in Call : desk[c] # None => NamesItsObject(desk[c])

MeetingsAreKnown == \A p \in Path : Crowded(p) => p \in met

IsFaithful(o) ==
  LET p == o.path
      i == o.entry.remoteId
  IN /\ SharedRow(p, o.entry)
     /\ o.stage = "streaming" => local[p] \in Torn /\ drive[i].data = o.data
     /\ o.stage = "fetched" => local[p] = drive[i].data
     /\ o.stage = "known" /\ o.choice # "keep-both" =>
          local[p] = o.data /\ drive[i].data = o.data

DeskIsFaithful == \A c \in Call : desk[c] # None => IsFaithful(desk[c])

ResolveInv ==
  /\ TypeOK /\ NamesInv /\ DeskTypeOK /\ DeskNamesObject /\ MeetingsAreKnown
  /\ NeverMet => LossInv /\ DeskIsFaithful

(***************************************************************************)
(* No path is forgotten while its sides differ: whatever was interrupted,  *)
(* and whatever the user resolved, in the end the sides agree, or the path *)
(* is flagged (again, as after keep-both, whose row keeps the old hashes). *)
(* Gone from both sides counts as agreement: what may be lost on the way   *)
(* is the subject of CyclesStayLossless.  Without a call this is the       *)
(* liveness of the cycle alone.                                            *)
(***************************************************************************)
ResolvedPathsSettle ==
  <>[](pair.policy = "ask" /\ pair.mode = "two-way" /\ NoTwins /\ NeverMet)
    => <>[](\A p \in Path : Mirrored(p) \/ Flagged(p))
=============================================================================
