-------------------------- MODULE ResolutionProofs --------------------------
(***************************************************************************)
(* The calls that resolve a conflict and the cycles of the same pair, for  *)
(* every number of calls, set of paths and contents, mode and policy: with *)
(* users who leave alone what is being transferred, a call leaves a shared *)
(* base, wherever it is cut, and makes no cycle lose a version that did    *)
(* not go into Drive's trash, unless two of them are at the very same path *)
(* at once.                                                                *)
(***************************************************************************)
EXTENDS ConflictResolution, SyncEngineProofs

\* As in SyncEngineProofs: what Drive has in its trash counts as a version there.
USE DEF ReachedDrive

-----------------------------------------------------------------------------
(***************************************************************************)
(* The steps of the cycle and of the users, around the calls.  A cycle     *)
(* writes only the path it has in flight before or after the step.         *)
(***************************************************************************)
LeavesAlone(p) ==
  local'[p] = local[p] /\ \A i : ObjectOf(i, p) => drive'[i] = drive[i]

LEMMA CyclesKeepAway ==
  ASSUME TypeOK, NamesInv, Engine \/ ActionFails \/ CycleEnds, NEW p \in Path,
         ~InFlight(p), ~InFlight(p)'
  PROVE  LeavesAlone(p)
<1>1. /\ local \in [Path -> Bytes \cup {None}] /\ drive \in [ObjId -> Object \cup {None}]
      /\ flight # None => flight \in Flight
  BY DEF TypeOK
<1>2. ASSUME UNCHANGED <<local, drive>> PROVE LeavesAlone(p)
  BY <1>2 DEF LeavesAlone
<1>3. ASSUME NEW q \in Path, Begins(q)
      PROVE  /\ q # p
             /\ plan[q].kind \notin {"Upload", "DeleteLocal"} => ObjectOf(plan[q].id, q)
  BY <1>3, BeginningTakesOff DEF InFlight
<1>4. ASSUME NEW q \in Path, Upload(q) PROVE LeavesAlone(p)
  <2>1. \A i \in ObjId : drive[i] # None => drive'[i] = drive[i]
    BY <1>1, <1>4 DEF Upload, Free
  <2> QED
    BY <1>4, <2>1 DEF Upload, LeavesAlone, ObjectOf
<1>5. ASSUME NEW q \in Path, UpdateRemote(q) PROVE LeavesAlone(p)
  <2>1. q # p /\ ObjectOf(plan[q].id, q)
    BY <1>3, <1>5 DEF Begins, UpdateRemote, LocalWins, Resolving, InConflict, ConflictKinds, BothPresent
  <2> QED
    BY <1>1, <1>5, <2>1 DEF UpdateRemote, Update, LeavesAlone, ObjectOf
<1>6. ASSUME NEW q \in Path, OpenDownload(q) \/ DeleteLocal(q) PROVE LeavesAlone(p)
  <2>1. q # p
    BY <1>3, <1>6 DEF Begins
  <2> QED
    BY <1>1, <1>6, <2>1 DEF OpenDownload, DeleteLocal, LeavesAlone
<1>7. ASSUME NEW q \in Path, DeleteRemote(q) PROVE LeavesAlone(p)
  <2>1. q # p /\ ObjectOf(plan[q].id, q)
    BY <1>3, <1>7 DEF Begins, DeleteRemote
  <2> QED
    BY <1>1, <1>7, <2>1 DEF DeleteRemote, LeavesAlone, ObjectOf
<1>8. CASE FinishDownload
  <2>1. flight # None /\ flight.path # p
    BY <1>8 DEF FinishDownload, InFlight
  <2> QED
    BY <1>1, <1>8, <2>1 DEF FinishDownload, LeavesAlone
<1>9. ASSUME NEW q \in Path, KeepBoth(q) \/ MarkConflict(q) \/ LocalMissing(q) PROVE LeavesAlone(p)
  BY <1>2, <1>9 DEF KeepBoth, MarkConflict, LocalMissing, store
<1>10. CASE \/ ScanLocal \/ ListRemote \/ Compare \/ EndCycle \/ GetFile \/ UpdateIndex \/ DropRow
            \/ ActionFails \/ CycleEnds
  BY <1>2, <1>10 DEF ScanLocal, ListRemote, Compare, EndCycle, GetFile, UpdateIndex, DropRow,
     ActionFails, CycleEnds, store
<1> QED
  BY <1>4, <1>5, <1>6, <1>7, <1>8, <1>9, <1>10 DEF Engine, Execute

LEMMA UsersKeepAway ==
  ASSUME TypeOK, RaceFree, UserAround, NEW p \in Path, NEW c \in Call, AtDesk(c, p)
  PROVE  LeavesAlone(p)
<1>1. local \in [Path -> Bytes \cup {None}] /\ drive \in [ObjId -> Object \cup {None}]
  BY DEF TypeOK
<1>2. PICK q \in Path :
        /\ ~AtDesk(c, q)
        /\ \/ RemoveLocal(q) \/ TrashRemote(q)
           \/ \E v \in Content : WriteLocal(q, v) \/ EditRemote(q, v) \/ CreateRemote(q, v)
  BY DEF UserAround
<1>3. q # p
  BY <1>2
<1>4. CASE RemoveLocal(q) \/ \E v \in Content : WriteLocal(q, v)
  BY <1>1, <1>3, <1>4 DEF RemoveLocal, WriteLocal, LeavesAlone
<1>5. CASE TrashRemote(q) \/ \E v \in Content : EditRemote(q, v) \/ CreateRemote(q, v)
  <2>1. UNCHANGED local /\ \E i \in Live(q) \cup Free : \A j \in ObjId : j # i => drive'[j] = drive[j]
    BY <1>1, <1>5 DEF TrashRemote, EditRemote, CreateRemote, Live, Free
  <2> QED
    BY <1>3, <2>1 DEF LeavesAlone, ObjectOf, Live, Free
<1> QED
  BY <1>2, <1>4, <1>5

\* Every step keeps what was held and copied, also the one that begins a cycle.
VersionsStay ==
  /\ \A q \in Path : /\ heldLocal[q] \subseteq heldLocal'[q]
                     /\ ReachedDrive(q) \subseteq ReachedDrive(q)'
                     /\ copies[q] \subseteq copies'[q]
  /\ pair' = pair

LEMMA VersionsGrow == TypeOK /\ [Next]_vars => VersionsStay
<1> SUFFICES ASSUME TypeOK, [Next]_vars PROVE VersionsStay
  OBVIOUS
<1>1. CASE ScanLocal
  BY <1>1 DEF ScanLocal, VersionsStay, store
<1>2. CASE ~ScanLocal
  BY <1>2, Growth DEF HistoryGrows, VersionsStay
<1> QED
  BY <1>1, <1>2

LEMMA BaseStays ==
  ASSUME VersionsStay, NEW p \in Path, NEW row, SharedRow(p, row)
  PROVE  /\ row.remoteMd5 \in Content => row.remoteMd5 \in heldLocal'[p] \cup copies'[p]
         /\ pair'.policy # "keep-both" =>
              /\ row.localHash = row.remoteMd5
              /\ row.localHash \in Content => row.localHash \in ReachedDrive(p)'
BY DEF VersionsStay, SharedRow

\* The record of who met whom only grows, and misses none.
LEMMA MeetKeeps ==
  ASSUME DeskTypeOK, Meet
  PROVE  MeetingsAreKnown' /\ (NeverMet' => NeverMet) /\ met' \subseteq Path
BY DEF DeskTypeOK, Meet, MeetingsAreKnown, NeverMet

\* Where nobody ever met, a call has its path for itself.
LEMMA AloneAtItsPath ==
  ASSUME MeetingsAreKnown, NeverMet, NEW c \in Call, NEW p \in Path, AtDesk(c, p)
  PROVE  ~InFlight(p) /\ \A d \in Call \ {c} : ~AtDesk(d, p)
BY DEF MeetingsAreKnown, NeverMet, Crowded

\* What a call knows stays true while its path is left alone.
LEMMA CallStaysFaithful ==
  ASSUME DeskTypeOK, DeskNamesObject, NEW c \in Call, desk[c] # None, desk'[c] = desk[c],
         IsFaithful(desk[c]), LeavesAlone(desk[c].path), VersionsStay
  PROVE  IsFaithful(desk[c])'
<1>1. desk[c].path \in Path /\ ObjectOf(desk[c].entry.remoteId, desk[c].path)
  BY DEF DeskTypeOK, Order, DeskNamesObject, NamesItsObject
<1>2. /\ local'[desk[c].path] = local[desk[c].path]
      /\ drive'[desk[c].entry.remoteId] = drive[desk[c].entry.remoteId]
  BY <1>1 DEF LeavesAlone
<1>3. SharedRow(desk[c].path, desk[c].entry)'
  BY <1>1, BaseStays DEF IsFaithful, SharedRow
<1> QED
  BY <1>2, <1>3 DEF IsFaithful

\* The part of ResolveInv that holds whatever users do during a transfer.
ResolveNames == TypeOK /\ NamesInv /\ DeskTypeOK /\ DeskNamesObject /\ MeetingsAreKnown

LEMMA AroundNames ==
  ASSUME ResolveNames, Engine \/ ActionFails \/ CycleEnds \/ UserAround, UNCHANGED desk, Meet
  PROVE  ResolveNames' /\ (NeverMet' => NeverMet)
<1>1. TypeOK /\ NamesInv /\ DeskTypeOK /\ DeskNamesObject /\ MeetingsAreKnown
  BY DEF ResolveNames
<1>2. [Next]_vars
  BY DEF Next, UserAround, User
<1>3. TypeOK' /\ NamesInv'
  BY <1>1, <1>2, TypeStep, NamesStep
<1>4. DeskTypeOK' /\ MeetingsAreKnown' /\ (NeverMet' => NeverMet)
  BY <1>1, MeetKeeps DEF DeskTypeOK
<1>5. DeskNamesObject'
  BY <1>1, <1>2, ObjectsStay DEF DeskNamesObject, NamesItsObject, ObjectOf
<1> QED
  BY <1>3, <1>4, <1>5 DEF ResolveNames

LEMMA AroundKeepsInv ==
  ASSUME RaceFree, ResolveInv, Engine \/ ActionFails \/ CycleEnds \/ UserAround, UNCHANGED desk, Meet
  PROVE  ResolveInv'
<1>1. TypeOK /\ NamesInv /\ DeskTypeOK /\ DeskNamesObject /\ MeetingsAreKnown
  BY DEF ResolveInv
<1>2. [Next]_vars
  BY DEF Next, UserAround, User
<1>4. ResolveNames' /\ (NeverMet' => NeverMet)
  BY <1>1, AroundNames DEF ResolveNames
<1>5. MeetingsAreKnown'
  BY <1>4 DEF ResolveNames
<1>6. ASSUME NeverMet' PROVE LossInv' /\ DeskIsFaithful'
  <2>1. NeverMet /\ LossInv /\ DeskIsFaithful
    BY <1>4, <1>6 DEF ResolveInv
  <2>2. LossInv'
    BY <1>1, <1>2, <2>1, LossStep
  <2>3. SUFFICES ASSUME NEW c \in Call, desk[c] # None PROVE IsFaithful(desk[c])'
    BY <2>2 DEF DeskIsFaithful
  <2>4. desk[c].path \in Path /\ AtDesk(c, desk[c].path) /\ AtDesk(c, desk[c].path)'
    BY <1>1, <2>3 DEF DeskTypeOK, Order, AtDesk
  <2>5. ~InFlight(desk[c].path) /\ ~InFlight(desk[c].path)'
    BY <1>1, <1>5, <1>6, <2>1, <2>4 DEF MeetingsAreKnown, NeverMet, Crowded, InFlight
  <2>6. LeavesAlone(desk[c].path)
    BY <1>1, <2>4, <2>5, CyclesKeepAway, UsersKeepAway
  <2> QED
    BY <1>1, <1>2, <2>1, <2>3, <2>6, VersionsGrow, CallStaysFaithful DEF DeskIsFaithful
<1> QED
  BY <1>4, <1>6 DEF ResolveInv, ResolveNames

-----------------------------------------------------------------------------
(***************************************************************************)
(* The steps of a call on its path p.  Between them no cycle has p in *)
(* flight, so what the cycle knows of p stays true if whatever a step      *)
(* overwrites or leaves there may be destroyed.                            *)
(***************************************************************************)
CommandOn(p) ==
  /\ UNCHANGED <<pair, cycle>>
  /\ HistoryGrows
  /\ \A q \in Path \ {p} : local'[q] = local[q] /\ index'[q] = index[q]
  /\ \A i : ObjectOf(i, p) => ObjectOf(i, p)'
  /\ \A i, q : ObjectOf(i, q) /\ q # p => drive'[i] = drive[i]
  /\ index'[p] = index[p] \/ (index[p] # None => ObjectOf(index[p].remoteId, p))'

LEMMA CommandKeepsNames ==
  ASSUME NamesInv, NEW p \in Path, CommandOn(p)
  PROVE  NamesInv'
<1>1. \A i, q : ObjectOf(i, q) => ObjectOf(i, q)'
  BY DEF CommandOn, ObjectOf
<1>2. RowsNameObjects'
  BY <1>1 DEF NamesInv, RowsNameObjects, CommandOn
<1>3. ListingNamesObjects'
  BY <1>1 DEF NamesInv, ListingNamesObjects, CommandOn, cycle
<1>4. PlansNameObjects'
  BY <1>1 DEF NamesInv, PlansNameObjects, PlanNamesObject, CommandOn, cycle
<1>5. FlightNamesObject'
  BY <1>1 DEF NamesInv, FlightNamesObject, CommandOn, cycle
<1> QED
  BY <1>2, <1>3, <1>4, <1>5 DEF NamesInv

LEMMA CommandKeepsLossInv ==
  ASSUME TypeOK, LossInv, NamesInv', NEW p \in Path, CommandOn(p), ~InFlight(p),
         local'[p] = local[p] \/ LocalExpendable(p)',
         \A i : ObjectOf(i, p) => drive'[i].data = drive[i].data \/ RemoteExpendable(p, i)',
         HistoryIsComplete', SharedBase(p)'
  PROVE  LossInv'
<1>1. HistoryGrows /\ pair' = pair /\ pc' = pc /\ scan' = scan /\ listed' = listed
      /\ plan' = plan /\ flight' = flight
  BY DEF CommandOn, cycle
<1>2. ASSUME NEW q \in Path, LocalExpendable(q) PROVE LocalExpendable(q)'
  <2>1. local'[q] = local[q] \/ LocalExpendable(q)'
    BY DEF CommandOn
  <2> QED
    BY <1>1, <1>2, <2>1 DEF LocalExpendable, HistoryGrows
<1>3. ASSUME NEW q \in Path, NEW i, ObjectOf(i, q)
      PROVE  drive'[i].data = drive[i].data \/ RemoteExpendable(q, i)'
  BY <1>3 DEF CommandOn
<1>4. ASSUME NEW q \in Path, NEW i, ObjectOf(i, q), RemoteExpendable(q, i)
      PROVE  RemoteExpendable(q, i)'
  BY <1>1, <1>3, <1>4 DEF RemoteExpendable, HistoryGrows
<1>5. ScanIsTrue'
  BY <1>1, <1>2 DEF LossInv, ScanIsTrue
<1>6. ListingIsTrue'
  <2> SUFFICES ASSUME pc = "comparing", NEW q \in Path, listed[q] # None
               PROVE  \/ drive'[listed[q].id].data = listed[q].md5
                      \/ RemoteExpendable(q, listed[q].id)'
    BY <1>1 DEF ListingIsTrue
  <2>1. ObjectOf(listed[q].id, q)
    BY DEF LossInv, NamesInv, ListingNamesObjects
  <2>2. drive[listed[q].id].data = listed[q].md5 \/ RemoteExpendable(q, listed[q].id)
    BY DEF LossInv, ListingIsTrue
  <2> QED
    BY <1>1, <1>3, <1>4, <2>1, <2>2 DEF RemoteExpendable
<1>7. PlansHaveGrounds'
  <2> SUFFICES ASSUME NEW q \in Path, plan[q] # Nothing, ~InFlight(q)
               PROVE  PlanHasGrounds(q)'
    BY <1>1 DEF PlansHaveGrounds, InFlight
  <2>1. PlanHasGrounds(q)
    BY DEF LossInv, PlansHaveGrounds
  <2>2. plan[q].kind \in {"UpdateRemote", "DeleteRemote"} => ObjectOf(plan[q].id, q)
    BY DEF LossInv, NamesInv, PlansNameObjects, PlanNamesObject
  <2>3. plan[q].kind \in {"UpdateRemote", "DeleteRemote"}
          => RemoteExpendable(q, plan[q].id)'
    BY <1>1, <1>4, <2>1, <2>2 DEF PlanHasGrounds, RemoteExpendable
  <2> QED
    BY <1>1, <1>2, <2>1, <2>3 DEF PlanHasGrounds, RemoteExpendable
<1>8. TransferIsFaithful'
  <2> SUFFICES ASSUME flight # None PROVE TransferIsFaithful'
    BY <1>1 DEF TransferIsFaithful
  <2>1. flight.path \in Path /\ flight.path # p
    BY DEF TypeOK, Flight, InFlight
  <2>2. /\ local'[flight.path] = local[flight.path]
        /\ flight.stage # "removed" => drive'[flight.id] = drive[flight.id]
    BY <2>1 DEF CommandOn, LossInv, NamesInv, FlightNamesObject
  <2>3. /\ ReachedDrive(flight.path) \subseteq ReachedDrive(flight.path)'
        /\ heldLocal[flight.path] \subseteq heldLocal'[flight.path]
        /\ copies[flight.path] \subseteq copies'[flight.path]
    BY <1>1, <2>1 DEF HistoryGrows
  <2> QED
    BY <1>1, <2>1, <2>2, <2>3 DEF LossInv, TransferIsFaithful
<1>9. BaseWasShared'
  <2>1. ASSUME NEW q \in Path \ {p} PROVE SharedBase(q)'
    BY <1>1, SharedStays DEF LossInv, BaseWasShared, CommandOn
  <2> QED
    BY <2>1 DEF BaseWasShared
<1> QED
  BY <1>5, <1>6, <1>7, <1>8, <1>9 DEF LossInv

-----------------------------------------------------------------------------
(***************************************************************************)
(* One step of a call c on its path: the types, and what the invariant     *)
(* says while nobody has met.                                              *)
(***************************************************************************)
LEMMA CommandBegins ==
  ASSUME DeskTypeOK, DeskNamesObject, NEW c \in Call, Command(c)
  PROVE  /\ desk[c] # None /\ desk[c] \in Order /\ desk[c].path \in Path
         /\ desk[c].entry.remoteId \in ObjId
         /\ ObjectOf(desk[c].entry.remoteId, desk[c].path)
<1>1. desk[c] # None
  BY DEF Command, SendLocal, OpenRemote, FinishRemote, AskRemote, CopyRemote, WriteRow, Asked
<1> QED
  BY <1>1 DEF DeskTypeOK, Order, DeskNamesObject, NamesItsObject, ObjectOf

LEMMA AdvanceFacts ==
  ASSUME DeskTypeOK, NEW c \in Call, desk[c] # None,
         NEW stage \in {"asked", "streaming", "fetched", "known"}, NEW data \in Bytes \cup {None},
         Advance(c, stage, data)
  PROVE  /\ desk' \in [Call -> Order \cup {None}] /\ desk'[c] # None
         /\ desk'[c].path = desk[c].path /\ desk'[c].choice = desk[c].choice
         /\ desk'[c].entry = desk[c].entry /\ desk'[c].stage = stage /\ desk'[c].data = data
<1>1. desk \in [Call -> Order \cup {None}] /\ desk[c] \in Order
  BY DEF DeskTypeOK
<1>2. desk' = [desk EXCEPT ![c] = [desk[c] EXCEPT !.stage = stage, !.data = data]]
  BY <1>1 DEF Advance
<1>3. [desk[c] EXCEPT !.stage = stage, !.data = data] \in Order
  BY <1>1 DEF Order
<1>4. desk'[c] = [desk[c] EXCEPT !.stage = stage, !.data = data]
  BY <1>1, <1>2
<1> QED
  BY <1>1, <1>2, <1>3, <1>4, OrderAssumption DEF Order

LEMMA CommandTypes ==
  ASSUME TypeOK, NamesInv, DeskTypeOK, DeskNamesObject, NEW c \in Call, Command(c),
         NEW p, p = desk[c].path, NEW i, i = desk[c].entry.remoteId
  PROVE  TypeOK' /\ desk' \in [Call -> Order \cup {None}] /\ CommandOn(p)
<1>1. desk[c] # None /\ desk[c] \in Order /\ p \in Path /\ ObjectOf(i, p) /\ i \in ObjId
  BY CommandBegins
<1>2. /\ local \in [Path -> Bytes \cup {None}] /\ drive \in [ObjId -> Object \cup {None}]
      /\ index \in [Path -> Row \cup {None}] /\ copies \in [Path -> SUBSET Bytes]
      /\ heldLocal \in [Path -> SUBSET Bytes] /\ heldRemote \in [Path -> SUBSET Bytes]
      /\ sunk \in [Path -> SUBSET Bytes] /\ desk \in [Call -> Order \cup {None}]
  BY DEF TypeOK, DeskTypeOK
<1>3. drive[i] \in Object /\ drive[i] # None /\ drive[i].data \in Bytes /\ drive[i].path = p
  BY <1>1, <1>2 DEF ObjectOf, Object
<1>10. ASSUME HistoryGrows, UNCHANGED <<pair, drive, index, cycle>>,
              \A q \in Path \ {p} : local'[q] = local[q]
       PROVE  CommandOn(p)
  BY <1>10 DEF CommandOn, ObjectOf
<1>4. CASE SendLocal(c)
  <2>1. /\ local[p] \in Bytes
        /\ UNCHANGED <<pair, local, index, copies, cycle, ops, faults, heldLocal, dirty, calm>>
        /\ Update(p, i, local[p]) /\ Advance(c, "known", local[p])
    BY <1>1, <1>2, <1>4 DEF SendLocal
  <2>0. drive' = [drive EXCEPT ![i].data = local[p]]
    BY <2>1 DEF Update
  <2>2. drive' \in [ObjId -> Object \cup {None}] /\ drive'[i] \in Object /\ drive'[i].path = p
    BY <1>1, <1>2, <1>3, <2>0, <2>1 DEF Object
  <2>3. /\ heldRemote' \in [Path -> SUBSET Bytes] /\ sunk' \in [Path -> SUBSET Bytes]
        /\ \A q \in Path : heldRemote[q] \subseteq heldRemote'[q] /\ sunk[q] \subseteq sunk'[q]
    <3>1. CASE drive[i].trashed
      BY <1>1, <1>2, <2>1, <3>1 DEF Update
    <3>2. CASE ~drive[i].trashed
      BY <1>1, <1>2, <2>1, <3>2 DEF Update
    <3> QED
      BY <3>1, <3>2
  <2>4. TypeOK'
    BY <2>1, <2>2, <2>3 DEF TypeOK, cycle
  <2>5. desk' \in [Call -> Order \cup {None}]
    BY <1>1, <2>1, AdvanceFacts
  <2>6. HistoryGrows
    BY <2>1, <2>3 DEF HistoryGrows
  <2>7. drive'[i] # None /\ \A j \in ObjId : j # i => drive'[j] = drive[j]
    BY <1>2, <2>0, <2>2, NoneAssumption
  <2> QED
    BY <1>1, <1>3, <2>1, <2>2, <2>4, <2>5, <2>6, <2>7 DEF CommandOn, ObjectOf
<1>5. CASE OpenRemote(c)
  <2>1. PICK t \in Torn : local' = [local EXCEPT ![p] = t]
    BY <1>5 DEF OpenRemote
  <2>2. local' \in [Path -> Bytes \cup {None}]
    BY <1>2, <2>1 DEF Bytes
  <2>3. TypeOK' /\ HistoryGrows
    BY <1>5, <2>2 DEF OpenRemote, TypeOK, cycle, hist, HistoryGrows
  <2>4. desk' \in [Call -> Order \cup {None}]
    BY <1>1, <1>3, <1>5, AdvanceFacts DEF OpenRemote
  <2> QED
    BY <1>2, <1>5, <1>10, <2>1, <2>3, <2>4 DEF OpenRemote
<1>6. CASE FinishRemote(c)
  <2>1. PICK d \in Landed(p, desk[c].data) :
          /\ local' = [local EXCEPT ![p] = d]
          /\ heldLocal' = [heldLocal EXCEPT ![p] = @ \cup ({d} \ {None})]
    BY <1>6 DEF FinishRemote
  <2>2. d \in Bytes \cup {None}
    BY <1>1, <1>2, <2>1 DEF Landed, Order, Bytes
  <2>3. local' \in [Path -> Bytes \cup {None}] /\ heldLocal' \in [Path -> SUBSET Bytes]
    BY <1>1, <1>2, <2>1, <2>2
  <2>4. UNCHANGED <<pair, drive, index, copies, cycle, ops, faults, heldRemote, sunk, dirty, calm>>
    BY <1>6 DEF FinishRemote
  <2>5. TypeOK' /\ HistoryGrows
    BY <1>1, <1>2, <2>1, <2>3, <2>4 DEF TypeOK, cycle, HistoryGrows
  <2>6. desk' \in [Call -> Order \cup {None}]
    <3>1. desk[c].data \in Bytes \cup {None}
      BY <1>1 DEF Order
    <3> QED
      BY <1>1, <1>6, <3>1, AdvanceFacts DEF FinishRemote
  <2> QED
    BY <1>2, <1>10, <2>1, <2>4, <2>5, <2>6
<1>7. CASE AskRemote(c)
  <2>1. UNCHANGED <<pair, local, drive, index, copies, cycle, ops, faults, hist>>
    BY <1>7 DEF AskRemote, vars, store
  <2>2. TypeOK' /\ HistoryGrows
    BY <2>1 DEF cycle, hist, TypeOK, HistoryGrows
  <2>3. desk' \in [Call -> Order \cup {None}]
    BY <1>1, <1>3, <1>7, AdvanceFacts DEF AskRemote
  <2> QED
    BY <1>10, <2>1, <2>2, <2>3
<1>8. CASE CopyRemote(c)
  <2>1. copies' = [copies EXCEPT ![p] = @ \cup {drive[i].data}]
    BY <1>8 DEF CopyRemote
  <2>4. copies' \in [Path -> SUBSET Bytes] /\ \A q \in Path : copies[q] \subseteq copies'[q]
    BY <1>1, <1>2, <1>3, <2>1
  <2>2. TypeOK' /\ HistoryGrows
    BY <1>8, <2>4 DEF CopyRemote, hist, cycle, TypeOK, HistoryGrows
  <2>3. desk' \in [Call -> Order \cup {None}]
    BY <1>1, <1>3, <1>8, AdvanceFacts DEF CopyRemote
  <2> QED
    BY <1>8, <1>10, <2>2, <2>3 DEF CopyRemote
<1>9. CASE WriteRow(c)
  <2> DEFINE row == SettledRow(desk[c])
  <2>1. row \in Row /\ row.remoteId = i
    BY <1>1, <1>2 DEF SettledRow, Order, Row
  <2> HIDE DEF row
  <2>2. index' = [index EXCEPT ![p] = row] /\ desk' = [desk EXCEPT ![c] = None]
        /\ UNCHANGED <<pair, local, drive, copies, cycle, ops, faults, hist>>
    BY <1>9 DEF WriteRow, row
  <2>3. TypeOK' /\ HistoryGrows /\ desk' \in [Call -> Order \cup {None}]
    BY <1>2, <2>1, <2>2 DEF hist, cycle, TypeOK, HistoryGrows
  <2>4. \A q \in Path : index'[q] = IF q = p THEN row ELSE index[q]
    BY <1>2, <2>2
  <2> QED
    BY <1>1, <1>3, <2>1, <2>2, <2>3, <2>4 DEF CommandOn, ObjectOf
<1> QED
  BY <1>4, <1>5, <1>6, <1>7, <1>8, <1>9 DEF Command

\* What a call knows when it acts: nobody else is at its path, and both sides are as
\* its last step left them.
LEMMA CommandFaithful ==
  ASSUME TypeOK, NamesInv, DeskTypeOK, DeskNamesObject, LossInv, NEW c \in Call, Command(c),
         IsFaithful(desk[c]),
         NEW p, p = desk[c].path, NEW i, i = desk[c].entry.remoteId, ~InFlight(p),
         TypeOK', NamesInv', CommandOn(p)
  PROVE  LossInv' /\ (desk'[c] # None => IsFaithful(desk[c])')
<1>1. desk[c] \in Order /\ desk[c] # None /\ p \in Path /\ ObjectOf(i, p) /\ i \in ObjId
  BY CommandBegins
<1>2. /\ local \in [Path -> Bytes \cup {None}] /\ drive \in [ObjId -> Object \cup {None}]
      /\ index \in [Path -> Row \cup {None}] /\ copies \in [Path -> SUBSET Bytes]
      /\ heldLocal \in [Path -> SUBSET Bytes] /\ heldRemote \in [Path -> SUBSET Bytes]
      /\ sunk \in [Path -> SUBSET Bytes] /\ desk \in [Call -> Order \cup {None}]
  BY DEF TypeOK, DeskTypeOK
<1>3. drive[i] \in Object /\ drive[i] # None /\ drive[i].data \in Bytes /\ drive[i].path = p
  BY <1>1, <1>2 DEF ObjectOf, Object
<1>4. HistoryIsComplete /\ SharedBase(p) /\ HistoryGrows
  BY <1>1 DEF LossInv, BaseWasShared, CommandOn
<1>5. SharedRow(p, desk[c].entry)
  BY <1>1 DEF IsFaithful
<1>6. VersionsStay
  BY <1>4 DEF HistoryGrows, VersionsStay
<1>7. ASSUME desk'[c].path = p, desk'[c].entry = desk[c].entry
      PROVE  SharedRow(desk[c].path, desk[c].entry)'
  BY <1>1, <1>5, <1>6, <1>7, BaseStays DEF SharedRow
<1>8. ASSUME index'[p] = index[p] PROVE SharedBase(p)'
  BY <1>1, <1>4, <1>8, SharedStays
<1>9. CASE SendLocal(c)
  <2>1. /\ local[p] \in Bytes /\ UNCHANGED <<pair, local, index, copies, cycle, heldLocal>>
        /\ Update(p, i, local[p]) /\ Advance(c, "known", local[p])
    BY <1>1, <1>2, <1>9 DEF SendLocal
  <2>0. drive' = [drive EXCEPT ![i].data = local[p]] /\ local[p] \in ReachedDrive(p)'
    <3>1. local[p] \in heldRemote'[p] \cup sunk'[p]
      <4>1. CASE drive[i].trashed
        BY <1>1, <1>2, <2>1, <4>1 DEF Update
      <4>2. CASE ~drive[i].trashed
        BY <1>1, <1>2, <2>1, <4>2 DEF Update
      <4> QED
        BY <4>1, <4>2
    <3> QED
      BY <2>1, <3>1 DEF Update
  <2>2. /\ drive'[i].data = local[p] /\ drive'[i].path = p
        /\ \A j \in ObjId : j # i => drive'[j] = drive[j]
    BY <1>1, <1>2, <1>3, <2>0 DEF Object
  <2>3. HistoryIsComplete'
    <3>1. \A q \in Path : local'[q] \in Content => local'[q] \in heldLocal'[q]
      BY <1>4, <2>1 DEF HistoryIsComplete
    <3>2. ASSUME NEW j \in ObjId, drive'[j] # None
          PROVE  drive'[j].data \in ReachedDrive(drive[j].path)'
      <4>1. CASE j = i
        BY <2>0, <2>2, <4>1
      <4>2. CASE j # i
        <5>1. drive'[j] = drive[j] /\ drive[j] # None /\ drive[j].path \in Path
          BY <1>2, <2>2, <3>2, <4>2 DEF Object
        <5> QED
          BY <1>4, <5>1 DEF HistoryIsComplete, HistoryGrows
      <4> QED
        BY <4>1, <4>2
    <3> QED
      BY <3>1, <3>2 DEF HistoryIsComplete
  <2>4. \A j : ObjectOf(j, p) => drive'[j].data = drive[j].data \/ RemoteExpendable(p, j)'
    BY <1>1, <1>4, <2>1, <2>2 DEF ObjectOf, RemoteExpendable, HistoryIsComplete
  <2>5. LossInv'
    BY <1>1, <1>8, <2>1, <2>3, <2>4, CommandKeepsLossInv
  <2>6. /\ desk'[c].path = p /\ desk'[c].entry = desk[c].entry
        /\ desk'[c].stage = "known" /\ desk'[c].data = local[p]
    BY <1>1, <2>1, AdvanceFacts
  <2> QED
    BY <1>7, <2>1, <2>2, <2>5, <2>6 DEF IsFaithful
<1>10. CASE OpenRemote(c)
  <2>1. PICK t \in Torn : local' = [local EXCEPT ![p] = t]
    BY <1>10 DEF OpenRemote
  <2>2. /\ UNCHANGED <<pair, drive, index, copies, cycle, ops, faults, hist>>
        /\ Advance(c, "streaming", drive[i].data)
    BY <1>10 DEF OpenRemote
  <2>3. local'[p] \in Torn /\ \A q \in Path : q # p => local'[q] = local[q]
    BY <1>1, <1>2, <2>1
  <2>4. HistoryIsComplete' /\ LocalExpendable(p)'
    BY <1>4, <2>2, <2>3, DataAssumption DEF HistoryIsComplete, LocalExpendable, hist
  <2>5. LossInv'
    BY <1>1, <1>8, <2>2, <2>4, CommandKeepsLossInv
  <2>6. /\ desk'[c].path = p /\ desk'[c].entry = desk[c].entry
        /\ desk'[c].stage = "streaming" /\ desk'[c].data = drive[i].data
    BY <1>1, <1>3, <2>2, AdvanceFacts
  <2> QED
    BY <1>7, <2>2, <2>3, <2>5, <2>6 DEF IsFaithful
<1>11. CASE FinishRemote(c)
  <2>1. /\ local[p] \in Torn /\ drive[i].data = desk[c].data /\ desk[c].stage = "streaming"
        /\ desk[c].data \in Bytes
    BY <1>1, <1>3, <1>11 DEF FinishRemote, IsFaithful
  <2>2. /\ UNCHANGED <<pair, drive, index, copies, cycle, heldRemote, sunk, dirty>>
        /\ local' = [local EXCEPT ![p] = desk[c].data]
        /\ heldLocal' = [heldLocal EXCEPT ![p] = @ \cup ({desk[c].data} \ {None})]
        /\ Advance(c, "fetched", desk[c].data)
    <3>1. Landed(p, desk[c].data) = {desk[c].data}
      BY <2>1, DataAssumption DEF Landed, Bytes
    <3> QED
      BY <1>11, <3>1 DEF FinishRemote
  <2>3. local'[p] = drive[i].data /\ \A q \in Path : q # p => local'[q] = local[q]
    BY <1>1, <1>2, <2>1, <2>2
  <2>4. desk[c].data \in heldLocal'[p]
    BY <1>1, <1>2, <1>3, <2>1, <2>2, DataAssumption
  <2>5. drive[i].data \in ReachedDrive(p)'
    BY <1>1, <1>3, <1>4, <2>2 DEF HistoryIsComplete
  <2>6. HistoryIsComplete' /\ LocalExpendable(p)'
    BY <1>1, <1>4, <2>1, <2>2, <2>3, <2>4, <2>5 DEF HistoryIsComplete, HistoryGrows, LocalExpendable
  <2>7. LossInv'
    BY <1>1, <1>8, <2>2, <2>6, CommandKeepsLossInv
  <2>8. desk'[c].path = p /\ desk'[c].entry = desk[c].entry /\ desk'[c].stage = "fetched"
    BY <1>1, <2>1, <2>2, AdvanceFacts
  <2> QED
    BY <1>7, <2>2, <2>3, <2>7, <2>8 DEF IsFaithful
<1>12. CASE AskRemote(c)
  <2>1. /\ UNCHANGED <<pair, local, drive, index, copies, cycle, hist>>
        /\ Advance(c, "known", drive[i].data)
        /\ desk[c].stage = "fetched"
    BY <1>12 DEF AskRemote, vars, store
  <2>2. LossInv'
    BY <1>1, <1>4, <1>8, <2>1, CommandKeepsLossInv DEF HistoryIsComplete, hist
  <2>3. /\ desk'[c].path = p /\ desk'[c].entry = desk[c].entry
        /\ desk'[c].stage = "known" /\ desk'[c].data = drive[i].data /\ local[p] = drive[i].data
    BY <1>1, <1>3, <2>1, AdvanceFacts DEF IsFaithful
  <2> QED
    BY <1>7, <2>1, <2>2, <2>3 DEF IsFaithful
<1>13. CASE CopyRemote(c)
  <2>1. /\ UNCHANGED <<pair, local, drive, index, cycle, hist>>
        /\ Advance(c, "known", drive[i].data)
        /\ desk[c].choice = "keep-both"
    BY <1>13 DEF CopyRemote, Asked
  <2>2. LossInv'
    BY <1>1, <1>4, <1>8, <2>1, CommandKeepsLossInv DEF HistoryIsComplete, hist
  <2>3. /\ desk'[c].path = p /\ desk'[c].entry = desk[c].entry
        /\ desk'[c].stage = "known" /\ desk'[c].choice = "keep-both"
    BY <1>1, <1>3, <2>1, AdvanceFacts
  <2> QED
    BY <1>7, <2>1, <2>2, <2>3 DEF IsFaithful
<1>14. CASE WriteRow(c)
  <2> DEFINE row == SettledRow(desk[c])
  <2>1. /\ UNCHANGED <<pair, local, drive, copies, cycle, hist>>
        /\ index'[p] = row /\ desk'[c] = None /\ desk[c].stage = "known"
    BY <1>1, <1>2, <1>14 DEF WriteRow
  <2>2. ASSUME desk[c].choice = "keep-both" PROVE SharedBase(p)'
    <3>1. row.localHash = desk[c].entry.localHash /\ row.remoteMd5 = desk[c].entry.remoteMd5
      BY <1>1, <2>2 DEF SettledRow, Order, Row
    <3> HIDE DEF row
    <3> QED
      BY <1>5, <2>1, <3>1 DEF SharedBase, SharedRow, hist
  <2>3. ASSUME desk[c].choice # "keep-both" PROVE SharedBase(p)'
    <3>1. local[p] = desk[c].data /\ drive[i].data = desk[c].data
      BY <1>1, <2>1, <2>3 DEF IsFaithful
    <3>2. row.localHash = desk[c].data /\ row.remoteMd5 = desk[c].data
      BY <1>1, <2>3, <3>1 DEF SettledRow, Order, Row
    <3>3. /\ desk[c].data \in ReachedDrive(p)
          /\ desk[c].data \in Content => desk[c].data \in heldLocal[p]
      BY <1>1, <1>3, <1>4, <3>1 DEF HistoryIsComplete
    <3> HIDE DEF row
    <3> QED
      BY <2>1, <3>2, <3>3 DEF SharedBase, SharedRow, hist
  <2>4. LossInv'
    BY <1>1, <1>4, <2>1, <2>2, <2>3, CommandKeepsLossInv DEF HistoryIsComplete, hist
  <2> QED
    BY <2>1, <2>4
<1> QED
  BY <1>9, <1>10, <1>11, <1>12, <1>13, <1>14 DEF Command

\* The other calls keep what they know.
LEMMA CommandKeepsOthers ==
  ASSUME DeskTypeOK, NEW c \in Call, Command(c)
  PROVE  \A d \in Call \ {c} : desk'[d] = desk[d]
BY DEF Command, SendLocal, OpenRemote, FinishRemote, AskRemote, CopyRemote, WriteRow, Advance,
   DeskTypeOK

LEMMA CommandNames ==
  ASSUME ResolveNames, NEW c \in Call, Command(c), Meet
  PROVE  ResolveNames' /\ (NeverMet' => NeverMet)
<1>1. TypeOK /\ NamesInv /\ DeskTypeOK /\ DeskNamesObject /\ MeetingsAreKnown
  BY DEF ResolveNames
<1>2. desk[c] # None /\ desk[c] \in Order /\ desk[c].path \in Path
  BY <1>1, CommandBegins
<1>3. PICK p \in Path, i \in {desk[c].entry.remoteId} :
        p = desk[c].path /\ i = desk[c].entry.remoteId
  BY <1>2
<1>4. TypeOK' /\ desk' \in [Call -> Order \cup {None}] /\ CommandOn(p)
  BY <1>1, <1>3, CommandTypes
<1>5. NamesInv'
  BY <1>1, <1>4, CommandKeepsNames
<1>6. DeskTypeOK' /\ MeetingsAreKnown' /\ (NeverMet' => NeverMet)
  BY <1>1, <1>4, MeetKeeps DEF DeskTypeOK
<1>7. desk'[c] # None => desk'[c].path = p /\ desk'[c].entry.remoteId = i
  <2>1. desk \in [Call -> Order \cup {None}]
    BY <1>1 DEF DeskTypeOK
  <2>2. ASSUME NEW stage, NEW data, Advance(c, stage, data)
        PROVE  desk'[c].path = desk[c].path /\ desk'[c].entry = desk[c].entry
    BY <1>2, <2>1, <2>2 DEF Advance, Order
  <2> QED
    BY <1>3, <2>1, <2>2 DEF Command, SendLocal, OpenRemote, FinishRemote, AskRemote, CopyRemote,
       WriteRow
<1>8. DeskNamesObject'
  <2>1. ASSUME NEW d \in Call, desk'[d] # None PROVE NamesItsObject(desk[d])'
    <3>1. \A j, q : ObjectOf(j, q) => ObjectOf(j, q)'
      BY <1>4 DEF CommandOn, ObjectOf
    <3>2. CASE d = c
      BY <1>1, <1>2, <1>3, <1>7, <2>1, <3>1, <3>2 DEF DeskNamesObject, NamesItsObject
    <3>3. CASE d # c
      BY <1>1, <2>1, <3>1, <3>3, CommandKeepsOthers DEF DeskNamesObject, NamesItsObject
    <3> QED
      BY <3>2, <3>3
  <2> QED
    BY <2>1 DEF DeskNamesObject
<1> QED
  BY <1>4, <1>5, <1>6, <1>8 DEF ResolveNames

LEMMA CommandKeepsInv ==
  ASSUME ResolveInv, NEW c \in Call, Command(c), Meet
  PROVE  ResolveInv'
<1>1. TypeOK /\ NamesInv /\ DeskTypeOK /\ DeskNamesObject /\ MeetingsAreKnown
  BY DEF ResolveInv
<1>2. desk[c] # None /\ desk[c] \in Order /\ desk[c].path \in Path
  BY <1>1, CommandBegins
<1>3. PICK p \in Path, i \in {desk[c].entry.remoteId} :
        p = desk[c].path /\ i = desk[c].entry.remoteId
  BY <1>2
<1>4. TypeOK' /\ CommandOn(p)
  BY <1>1, <1>3, CommandTypes
<1>5. NamesInv'
  BY <1>1, <1>4, CommandKeepsNames
<1>6. ResolveNames' /\ (NeverMet' => NeverMet)
  BY <1>1, CommandNames DEF ResolveNames
<1>9. ASSUME NeverMet' PROVE LossInv' /\ DeskIsFaithful'
  <2>1. NeverMet /\ LossInv /\ DeskIsFaithful
    BY <1>6, <1>9 DEF ResolveInv
  <2>2. ~InFlight(p) /\ \A d \in Call \ {c} : ~AtDesk(d, p)
    BY <1>1, <1>2, <1>3, <2>1, AloneAtItsPath DEF AtDesk
  <2>3. LossInv' /\ (desk'[c] # None => IsFaithful(desk[c])')
    BY <1>1, <1>2, <1>3, <1>4, <1>5, <2>1, <2>2, CommandFaithful DEF DeskIsFaithful
  <2>4. ASSUME NEW d \in Call \ {c}, desk'[d] # None PROVE IsFaithful(desk[d])'
    <3>1. desk'[d] = desk[d] /\ desk[d] # None /\ desk[d].path \in Path \ {p}
      BY <1>1, <2>2, <2>4, CommandKeepsOthers DEF AtDesk, DeskTypeOK, Order
    <3>2. LeavesAlone(desk[d].path) /\ VersionsStay
      BY <1>4, <3>1 DEF CommandOn, LeavesAlone, HistoryGrows, VersionsStay
    <3> QED
      BY <1>1, <2>1, <3>1, <3>2, CallStaysFaithful DEF DeskIsFaithful
  <2> QED
    BY <2>3, <2>4 DEF DeskIsFaithful
<1> QED
  BY <1>6, <1>9 DEF ResolveInv, ResolveNames

(***************************************************************************)
(* A call begins with the row it found, and may end early at any stage:    *)
(* neither touches a file, an object or a row.                             *)
(***************************************************************************)
Asks(c) == \E p \in Path, choice \in Choices : Resolve(c, p, choice)

Decision(c) == GiveUp(c) \/ Asks(c)

LEMMA DecisionLeaves ==
  ASSUME TypeOK, NEW c \in Call, Decision(c)
  PROVE  /\ UNCHANGED <<pair, local, drive, index, copies, pc, scan, listed, plan, flight,
                        heldLocal, heldRemote, sunk, dirty>>
         /\ TypeOK'
         /\ \A d \in Call \ {c} : desk'[d] = desk[d]
<1>1. CASE GiveUp(c)
  BY <1>1 DEF GiveUp, Fault, store, cycle, TypeOK
<1>2. ASSUME NEW p \in Path, NEW choice \in Choices, Resolve(c, p, choice)
      PROVE  /\ UNCHANGED <<pair, local, drive, index, copies, pc, scan, listed, plan, flight,
                            heldLocal, heldRemote, sunk, dirty>>
             /\ TypeOK'
             /\ \A d \in Call \ {c} : desk'[d] = desk[d]
  BY <1>2 DEF Resolve, store, cycle, TypeOK
<1> QED
  BY <1>1, <1>2 DEF Decision, Asks

\* The call holds the row as it is now, or nothing.
LEMMA DecisionHolds ==
  ASSUME TypeOK, DeskTypeOK, NEW c \in Call, Decision(c)
  PROVE  /\ desk' \in [Call -> Order \cup {None}]
         /\ desk'[c] # None =>
              \E p \in Path : /\ index[p] # None
                              /\ desk'[c].path = p /\ desk'[c].entry = index[p]
                              /\ desk'[c].stage = "asked"
<1>1. desk \in [Call -> Order \cup {None}]
  BY DEF DeskTypeOK
<1>2. CASE GiveUp(c)
  BY <1>1, <1>2 DEF GiveUp
<1>3. ASSUME NEW p \in Path, NEW choice \in Choices, Resolve(c, p, choice)
      PROVE  /\ desk' \in [Call -> Order \cup {None}]
             /\ index[p] # None
             /\ desk'[c].path = p /\ desk'[c].entry = index[p] /\ desk'[c].stage = "asked"
  <2> DEFINE o == [path |-> p, choice |-> choice, entry |-> index[p], data |-> None,
                   stage |-> "asked"]
  <2>1. index[p] # None /\ desk' = [desk EXCEPT ![c] = o]
    BY <1>3 DEF Resolve
  <2>2. index[p] \in Row
    BY <2>1 DEF TypeOK
  <2>3. o \in Order
    BY <2>2 DEF Order
  <2> QED
    BY <1>1, <2>1, <2>3
<1> QED
  BY <1>2, <1>3 DEF Decision, Asks

LEMMA DecisionNames ==
  ASSUME ResolveNames, NEW c \in Call, Decision(c), Meet
  PROVE  ResolveNames' /\ (NeverMet' => NeverMet)
<1>1. TypeOK /\ NamesInv /\ DeskTypeOK /\ DeskNamesObject /\ MeetingsAreKnown
  BY DEF ResolveNames
<1>2. /\ UNCHANGED <<pair, local, drive, index, copies, pc, scan, listed, plan, flight,
                     heldLocal, heldRemote, sunk, dirty>>
      /\ TypeOK'
      /\ \A d \in Call \ {c} : desk'[d] = desk[d]
  BY <1>1, DecisionLeaves
<1>3. NamesInv'
  BY <1>1, <1>2 DEF NamesInv, RowsNameObjects, ListingNamesObjects, PlansNameObjects,
     PlanNamesObject, FlightNamesObject, ObjectOf
<1>4. DeskTypeOK' /\ MeetingsAreKnown' /\ (NeverMet' => NeverMet)
  BY <1>1, MeetKeeps, DecisionHolds DEF DeskTypeOK
<1>5. ASSUME NEW d \in Call, desk'[d] # None PROVE NamesItsObject(desk[d])'
  <2>1. \A j, q : ObjectOf(j, q) => ObjectOf(j, q)'
    BY <1>2 DEF ObjectOf
  <2>2. CASE d = c
    BY <1>1, <1>5, <2>1, <2>2, DecisionHolds DEF NamesItsObject, NamesInv, RowsNameObjects
  <2>3. CASE d # c
    BY <1>1, <1>2, <1>5, <2>1, <2>3 DEF DeskNamesObject, NamesItsObject
  <2> QED
    BY <2>2, <2>3
<1> QED
  BY <1>2, <1>3, <1>4, <1>5 DEF ResolveNames, DeskNamesObject

LEMMA DecisionKeepsInv ==
  ASSUME ResolveInv, NEW c \in Call, Decision(c), Meet
  PROVE  ResolveInv'
<1>0. TypeOK /\ DeskTypeOK
  BY DEF ResolveInv
<1>1. ResolveNames' /\ (NeverMet' => NeverMet)
  BY DecisionNames DEF ResolveInv, ResolveNames
<1>2. /\ UNCHANGED <<pair, local, drive, index, copies, pc, scan, listed, plan, flight,
                     heldLocal, heldRemote, sunk, dirty>>
      /\ \A d \in Call \ {c} : desk'[d] = desk[d]
  BY <1>0, DecisionLeaves
<1>3. LossInv => LossInv'
  BY <1>1, <1>2 DEF ResolveNames, LossInv, HistoryIsComplete, ScanIsTrue, ListingIsTrue,
     PlansHaveGrounds, PlanHasGrounds, TransferIsFaithful, BaseWasShared, SharedBase, SharedRow,
     LocalExpendable, RemoteExpendable, InFlight
<1>4. ASSUME LossInv, DeskIsFaithful, NEW d \in Call, desk'[d] # None
      PROVE  IsFaithful(desk[d])'
  <2>1. CASE d = c
    BY <1>0, <1>2, <1>4, <2>1, DecisionHolds DEF IsFaithful, LossInv, BaseWasShared, SharedBase,
       SharedRow
  <2>2. CASE d # c
    BY <1>2, <1>4, <2>2 DEF DeskIsFaithful, IsFaithful, SharedRow
  <2> QED
    BY <2>1, <2>2
<1> QED
  BY <1>1, <1>3, <1>4 DEF ResolveInv, ResolveNames, DeskIsFaithful

-----------------------------------------------------------------------------
(***************************************************************************)
(* The theorems.                                                           *)
(***************************************************************************)
LEMMA InitResolve == ResolveInit => ResolveInv
<1> SUFFICES ASSUME ResolveInit PROVE ResolveInv
  OBVIOUS
<1>1. TypeOK /\ LossInv
  BY InitNames, InitLoss DEF ResolveInit
<1>2. desk = [c \in Call |-> None] /\ met = {}
  BY DEF ResolveInit
<1> QED
  BY <1>1, <1>2 DEF ResolveInv, LossInv, DeskTypeOK, DeskNamesObject, MeetingsAreKnown, Crowded,
     AtDesk, DeskIsFaithful

LEMMA StutterKeepsNames ==
  ASSUME ResolveNames, UNCHANGED allVars
  PROVE  ResolveNames'
<1>1. UNCHANGED <<vars, desk, met>>
  BY DEF allVars, deskVars
<1>2. TypeOK' /\ NamesInv'
  BY <1>1, TypeStep, NamesStep DEF ResolveNames
<1> QED
  BY <1>1, <1>2 DEF vars, store, cycle, ResolveNames, DeskTypeOK, DeskNamesObject,
     NamesItsObject, ObjectOf, MeetingsAreKnown, Crowded, AtDesk, InFlight

LEMMA NextResolve == RaceFree /\ ResolveInv /\ [ResolveNext]_allVars => ResolveInv'
<1> SUFFICES ASSUME RaceFree, ResolveInv, [ResolveNext]_allVars PROVE ResolveInv'
  OBVIOUS
<1>1. CASE UNCHANGED allVars
  <2>1. UNCHANGED <<vars, desk, met>>
    BY <1>1 DEF allVars, deskVars
  <2>2. ResolveNames'
    BY <1>1, StutterKeepsNames DEF ResolveInv, ResolveNames
  <2>4. LossInv => LossInv'
    BY <2>1, LossStep DEF ResolveInv
  <2>5. DeskIsFaithful => DeskIsFaithful'
    BY <2>1 DEF vars, store, hist, DeskIsFaithful, IsFaithful, SharedRow
  <2> QED
    BY <2>1, <2>2, <2>4, <2>5 DEF ResolveInv, ResolveNames, NeverMet
<1>2. CASE ResolveNext
  BY <1>2, AroundKeepsInv, CommandKeepsInv, DecisionKeepsInv
     DEF ResolveNext, Around, Decision, Asks
<1> QED
  BY <1>1, <1>2

(***************************************************************************)
(* With users who leave a path alone while it is being transferred: what   *)
(* every call knows between two awaits stays true, for any number of calls *)
(* at different paths, failing at any stage, and every interleaving with a *)
(* cycle that is at other paths (resolve_conflict).                        *)
(***************************************************************************)
THEOREM ResolveInvariant == ASSUME RaceFree PROVE ResolveSpec => []ResolveInv
BY InitResolve, NextResolve, PTL DEF ResolveSpec

(***************************************************************************)
(* The types of the calls' state, whatever users do during a transfer: the *)
(* row a call writes is one a cycle can read (resolve_conflict).           *)
(***************************************************************************)
THEOREM DeskTypeTheorem == ResolveSpec => []DeskTypeOK
<1>1. ResolveInit => ResolveNames
  BY InitResolve DEF ResolveInv, ResolveNames
<1>2. ResolveNames /\ [ResolveNext]_allVars => ResolveNames'
  BY StutterKeepsNames, AroundNames, CommandNames, DecisionNames
     DEF ResolveNext, Around, Decision, Asks
<1>3. ResolveNames => DeskTypeOK
  BY DEF ResolveNames
<1> QED
  BY <1>1, <1>2, <1>3, PTL DEF ResolveSpec

(***************************************************************************)
(* The row a resolution writes, or leaves as it was when it dies between   *)
(* the transfer and the row, is a base both sides had, although cycles and *)
(* other calls run around it (resolve_conflict, update_index).             *)
(***************************************************************************)
THEOREM ResolutionsTheorem == ASSUME RaceFree PROVE ResolveSpec => []ResolutionsLeaveABase
<1>1. ResolveInv => ResolutionsLeaveABase
  BY DEF ResolveInv, ResolutionsLeaveABase, LossInv
<1> QED
  BY <1>1, ResolveInvariant, PTL

(***************************************************************************)
(* A cycle destroys no version because of what a resolution recorded or    *)
(* moved in the middle of it, wherever that was cut, but for a local       *)
(* version that was sent into an object in the trash (resolve_conflict,    *)
(* compute_actions).                                                       *)
(***************************************************************************)
THEOREM LosslessTheorem == ASSUME RaceFree PROVE ResolveSpec => CyclesStayLossless
<1>1. ResolveInv /\ [ResolveNext]_allVars
        => [NeverMet /\ UNCHANGED desk => LossIsChosen]_allVars
  <2> SUFFICES ASSUME ResolveInv, ResolveNext, NeverMet, UNCHANGED desk, EngineStep
               PROVE  /\ pair.policy = "ask" => LocalLossIsPropagation
                      /\ pair.policy \in {"ask", "keep-both"} => RemoteLossIsPropagation
    BY DEF LossIsChosen
  <2>1. TypeOK /\ LossInv /\ DeskTypeOK /\ DeskNamesObject
    BY DEF ResolveInv
  <2>2. ASSUME NEW c \in Call, Asks(c) PROVE FALSE
    <3>1. ops' = ops + 1 /\ ops' = ops /\ ops \in Nat
      BY <2>1, <2>2 DEF Asks, Resolve, EngineStep, TypeOK
    <3> QED
      BY <3>1
  <2>3. ASSUME NEW c \in Call, GiveUp(c) PROVE FALSE
    BY <2>1, <2>3 DEF GiveUp, DeskTypeOK
  <2>4. ASSUME NEW c \in Call, Command(c) PROVE FALSE
    <3>1. desk'[c] = desk[c] /\ desk[c] # None /\ desk[c] \in Order
      BY <2>1, <2>4, CommandBegins
    <3>2. ASSUME NEW stage, NEW data, Advance(c, stage, data) PROVE desk[c].stage = stage
      BY <2>1, <3>1, <3>2 DEF Advance, DeskTypeOK, Order
    <3> QED
      BY <2>1, <2>4, <3>1, <3>2 DEF Command, SendLocal, OpenRemote, FinishRemote, AskRemote,
         CopyRemote, WriteRow, Asked, DeskTypeOK
  <2>5. CASE Around
    <3>1. [Next]_vars
      BY <2>5 DEF Around, Next, UserAround, User
    <3> QED
      BY <2>1, <3>1, LossIsPropagation
  <2> QED
    BY <2>2, <2>3, <2>4, <2>5 DEF ResolveNext, Asks
<1> QED
  BY <1>1, ResolveInvariant, PTL DEF ResolveSpec, CyclesStayLossless
=============================================================================
