-------------------------- MODULE SyncEngineProofs --------------------------
(***************************************************************************)
(* What TLAPS proves of the safety of SyncEngine for every set of paths,   *)
(* contents, object ids, modes and policies, and every bound on operations *)
(* and faults: types and names, the sides of a one-way pair, the loss of   *)
(* versions, and convergence.                                              *)
(***************************************************************************)
EXTENDS SyncEngineInv, TLAPS

(***************************************************************************)
(* The decision for a path that holds a file or nothing on either side:    *)
(* what each decision presupposes (compute_actions).                       *)
(***************************************************************************)
IsFileOrNone(e) == e = None \/ e = Entry(e.hash)

LEMMA DecideForFiles ==
  ASSUME NEW mode, NEW l, NEW r, NEW b, IsFileOrNone(l), IsFileOrNone(r)
  PROVE  LET k == Decide(mode, FALSE, l, r, b)
         IN /\ k \in Transfers \cup Deletes \cup ConflictKinds \cup {"Skip"}
            /\ k = "Upload" => Pushes(mode)
            /\ k = "UpdateRemote" =>
                 Pushes(mode) /\ r # None /\ b # None /\ r.hash = b.remoteMd5
            /\ k = "DeleteRemote" =>
                 Pushes(mode) /\ r # None /\ b # None /\ r.hash = b.remoteMd5
            /\ k = "Download" =>
                 /\ Pulls(mode) /\ r # None
                 /\ l = None \/ (b # None /\ l.hash = b.localHash)
            /\ k = "DeleteLocal" =>
                 Pulls(mode) /\ l # None /\ b # None /\ l.hash = b.localHash
            /\ k = "RemoteDeletedLocalModified" => b # None
            /\ k \in ConflictKinds \ {"RemoteDeletedLocalModified"} => r # None
  BY DEF IsFileOrNone, Decide, NewLocal, NewRemote, FirstSync, Tracked, LocalGone,
         RemoteGone, LocalChanged, RemoteChanged, Entry, Transfers, Deletes,
         ConflictKinds, BothPresent, Pushes, Pulls

(***************************************************************************)
(* The plan made for one path, for what typed snapshots show of it.        *)
(***************************************************************************)
LEMMA PlannedFacts ==
  ASSUME TypeOK, NamesInv, NEW p \in Path
  PROVE  /\ Planned(p).id \in ObjId \cup {None}
         /\ Planned(p).kind = Decide(pair.mode, FALSE, LocalEntry(p), RemoteEntry(p), index[p])
         /\ Planned(p) \in Action
         /\ Planned(p) # Nothing =>
              /\ Planned(p).kind \in Transfers \cup Deletes \cup ConflictKinds
              /\ Planned(p).kind \notin {"Upload", "DeleteLocal"} => ObjectOf(Planned(p).id, p)
         /\ Planned(p).kind \in {"UpdateRemote", "DeleteRemote"} => Planned(p).id = listed[p].id
<1> DEFINE k == Decide(pair.mode, FALSE, LocalEntry(p), RemoteEntry(p), index[p])
<1>1. IsFileOrNone(LocalEntry(p)) /\ IsFileOrNone(RemoteEntry(p))
  BY DEF IsFileOrNone, LocalEntry, RemoteEntry, Entry
<1>2. /\ k \in Transfers \cup Deletes \cup ConflictKinds \cup {"Skip"}
      /\ k \in {"UpdateRemote", "DeleteRemote", "Download"} => RemoteEntry(p) # None
      /\ k \in ConflictKinds \ {"RemoteDeletedLocalModified"} => RemoteEntry(p) # None
      /\ k = "RemoteDeletedLocalModified" => index[p] # None
  BY <1>1, DecideForFiles
<1>3. /\ RemoteEntry(p) # None => ObjectOf(listed[p].id, p)
      /\ index[p] # None => ObjectOf(index[p].remoteId, p)
  BY DEF RemoteEntry, NamesInv, RowsNameObjects, ListingNamesObjects
<1>4. Planned(p) = [kind |-> k,
                    id |-> CASE k \in {"Skip", "Upload", "DeleteLocal"} -> None
                             [] k = "RemoteDeletedLocalModified" -> index[p].remoteId
                             [] OTHER -> listed[p].id]
  BY DEF Planned
<1> HIDE DEF k
<1>5. k \notin {"Skip", "Upload", "DeleteLocal"} => ObjectOf(Planned(p).id, p)
  BY <1>2, <1>3, <1>4 DEF Transfers, Deletes, ConflictKinds, BothPresent
<1>6. k \in {"Skip", "Upload", "DeleteLocal"} => Planned(p).id = None
  BY <1>4
<1>7. k \in Kinds
  BY <1>2 DEF Kinds
<1>8. Planned(p).kind = k
  BY <1>4
<1>9. Planned(p) = [kind |-> k, id |-> Planned(p).id]
  BY <1>4
<1>10. Planned(p).id \in ObjId \cup {None}
  BY <1>5, <1>6 DEF ObjectOf
<1>11. k \in {"UpdateRemote", "DeleteRemote"} => Planned(p).id = listed[p].id
  BY <1>4
<1>12. k = "Skip" => Planned(p) = Nothing
  BY <1>6, <1>9 DEF Nothing
<1>13. Planned(p) \in Action
  BY <1>7, <1>9, <1>10 DEF Action
<1>14. k = Decide(pair.mode, FALSE, LocalEntry(p), RemoteEntry(p), index[p])
  BY DEF k
<1> QED
  BY <1>2, <1>5, <1>8, <1>10, <1>11, <1>12, <1>13, <1>14

-----------------------------------------------------------------------------
(***************************************************************************)
(* Type correctness, together with the fact it rests on: rows, listings,   *)
(* plans and transfers name objects of their own path.                     *)
(***************************************************************************)
LEMMA InitNames == Init => TypeOK /\ NamesInv
<1> SUFFICES ASSUME Init PROVE TypeOK /\ NamesInv
  OBVIOUS
<1>1. pair \in [mode : Modes, policy : Policies] /\ index \in [Path -> Row \cup {None}]
  BY DEF Init
<1>2. local \in [Path -> Bytes \cup {None}] /\ copies \in [Path -> SUBSET Bytes]
  BY DEF Init, Bytes
<1>3. drive \in [ObjId -> Object \cup {None}]
  BY DEF Init, Object, Bytes
<1>4. plan \in [Path -> Action] /\ listed \in [Path -> Seen \cup {None}]
  BY DEF Init, Action, Nothing, Kinds
<1>5. heldLocal \in [Path -> SUBSET Bytes]
  BY <1>2 DEF Init
<1>6. \A p \in Path : {drive[i].data : i \in Live(p)} \subseteq Bytes
  BY <1>3, DataAssumption DEF Live, Object
<1>7. heldRemote \in [Path -> SUBSET Bytes] /\ sunk \in [Path -> SUBSET Bytes]
  BY <1>6 DEF Init
<1>8. TypeOK
  BY <1>1, <1>2, <1>3, <1>4, <1>5, <1>7 DEF Init, TypeOK
<1>9. NamesInv
  BY DEF Init, NamesInv, RowsNameObjects, ListingNamesObjects, PlansNameObjects,
         FlightNamesObject
<1> QED
  BY <1>8, <1>9

\* Drive moves and destroys no object.
LEMMA ObjectsStay ==
  ASSUME TypeOK, NamesInv, [Next]_vars, NEW i \in ObjId, drive[i] # None
  PROVE  drive'[i] # None /\ drive'[i].path = drive[i].path
<1>0. drive \in [ObjId -> Object \cup {None}] /\ drive[i] \in Object
  BY DEF TypeOK
<1>1. ASSUME UNCHANGED drive PROVE drive'[i] # None /\ drive'[i].path = drive[i].path
  BY <1>1
<1>2. ASSUME NEW j \in ObjId, NEW o, drive[j] = None, drive' = [drive EXCEPT ![j] = o]
      PROVE  drive'[i] # None /\ drive'[i].path = drive[i].path
  BY <1>0, <1>2
<1>3. ASSUME NEW j, NEW c \in Bytes, drive' = [drive EXCEPT ![j].data = c]
      PROVE  drive'[i] # None /\ drive'[i].path = drive[i].path
  <2>1. drive'[i] = drive[i] \/ drive'[i] = [drive[i] EXCEPT !.data = c]
    BY <1>0, <1>3
  <2>2. [drive[i] EXCEPT !.data = c] \in Object
    BY <1>0 DEF Object
  <2>3. [drive[i] EXCEPT !.data = c].path = drive[i].path
    BY <1>0 DEF Object
  <2> QED
    BY <2>1, <2>2, <2>3, NoneAssumption
<1>4. ASSUME NEW j, drive' = [drive EXCEPT ![j].trashed = TRUE]
      PROVE  drive'[i] # None /\ drive'[i].path = drive[i].path
  <2>1. drive'[i] = drive[i] \/ drive'[i] = [drive[i] EXCEPT !.trashed = TRUE]
    BY <1>0, <1>4
  <2>2. [drive[i] EXCEPT !.trashed = TRUE] \in Object
    BY <1>0 DEF Object
  <2>3. [drive[i] EXCEPT !.trashed = TRUE].path = drive[i].path
    BY <1>0 DEF Object
  <2> QED
    BY <2>1, <2>2, <2>3, NoneAssumption
<1>5. local \in [Path -> Bytes \cup {None}] /\ Content \subseteq Bytes
  BY DEF TypeOK, Bytes
<1>6. ASSUME NEW p \in Path, Upload(p) PROVE drive'[i] # None /\ drive'[i].path = drive[i].path
  BY <1>2, <1>6 DEF Upload, Free
<1>7. ASSUME NEW p \in Path, UpdateRemote(p)
      PROVE  drive'[i] # None /\ drive'[i].path = drive[i].path
  BY <1>3, <1>5, <1>7 DEF UpdateRemote, Update
<1>8. ASSUME NEW p \in Path, DeleteRemote(p)
      PROVE  drive'[i] # None /\ drive'[i].path = drive[i].path
  BY <1>4, <1>8 DEF DeleteRemote
<1>9. ASSUME NEW p \in Path, NEW c \in Content,
             EditRemote(p, c) \/ CreateRemote(p, c)
      PROVE  drive'[i] # None /\ drive'[i].path = drive[i].path
  <2>1. CASE EditRemote(p, c)
    BY <2>1, <1>3, <1>5 DEF EditRemote
  <2>2. CASE CreateRemote(p, c)
    BY <2>2, <1>2 DEF CreateRemote, Free
  <2> QED
    BY <1>9, <2>1, <2>2
<1>10. ASSUME NEW p \in Path, TrashRemote(p)
      PROVE  drive'[i] # None /\ drive'[i].path = drive[i].path
  BY <1>4, <1>10 DEF TrashRemote
<1> QED
  <2>1. CASE Engine
    BY <2>1, <1>1, <1>6, <1>7, <1>8
       DEF Engine, Execute, ScanLocal, ListRemote, Compare, EndCycle, OpenDownload,
           KeepBoth, MarkConflict, DeleteLocal, LocalMissing, FinishDownload, GetFile,
           UpdateIndex, DropRow, store
  <2>2. CASE ActionFails \/ CycleEnds \/ UNCHANGED vars
    BY <2>2, <1>1 DEF ActionFails, CycleEnds, vars, store
  <2>3. CASE User
    BY <2>3, <1>1, <1>9, <1>10 DEF User, RemoveLocal, WriteLocal
  <2> QED
    BY <2>1, <2>2, <2>3 DEF Next

\* A step keeps every variable in its type.
LEMMA TypeStep == TypeOK /\ NamesInv /\ [Next]_vars => TypeOK'
<1> SUFFICES ASSUME TypeOK, NamesInv, [Next]_vars PROVE TypeOK'
  OBVIOUS
<1> USE DEF TypeOK
<1>1. CASE ScanLocal
  BY <1>1 DEF ScanLocal, store
<1>2. CASE ListRemote
  <2> PICK pick \in [Path -> ObjId \cup {None}] :
        /\ \A p \in Path : IF Live(p) = {} THEN pick[p] = None ELSE pick[p] \in Live(p)
        /\ listed' = [p \in Path |->
             IF pick[p] = None THEN None ELSE [id |-> pick[p], md5 |-> drive[pick[p]].data]]
    BY <1>2 DEF ListRemote
  <2>1. \A p \in Path : pick[p] # None => pick[p] \in Live(p)
    OBVIOUS
  <2>2. \A p \in Path : pick[p] # None => pick[p] \in ObjId /\ drive[pick[p]].data \in Bytes
    BY <2>1 DEF Live, Object
  <2>3. listed' \in [Path -> Seen \cup {None}]
    BY <2>2 DEF Seen
  <2> QED
    BY <1>2, <2>3 DEF ListRemote, store, hist
<1>3. CASE Compare
  BY <1>3, PlannedFacts DEF Compare, store, hist
<1>4. CASE EndCycle
  BY <1>4 DEF EndCycle, Forget, store
<1>5. ASSUME NEW p \in Path, Upload(p) PROVE TypeOK'
  <2> PICK i \in Free :
        /\ drive' = [drive EXCEPT ![i] = [path |-> p, data |-> local[p], trashed |-> FALSE]]
        /\ Fly(p, i, local[p], "known")
    BY <1>5 DEF Upload
  <2>1. i \in ObjId /\ local[p] \in Bytes
    BY <1>5 DEF Upload, Free
  <2>2. drive' \in [ObjId -> Object \cup {None}] /\ flight' \in Flight \cup {None}
    BY <2>1 DEF Object, Flight, Fly
  <2>3. heldRemote' \in [Path -> SUBSET Bytes] /\ sunk' \in [Path -> SUBSET Bytes]
    BY <1>5, <2>1 DEF Upload
  <2> QED
    BY <1>5, <2>2, <2>3 DEF Upload
<1>6. ASSUME NEW p \in Path, UpdateRemote(p) PROVE TypeOK'
  <2>1. ObjectOf(plan[p].id, p) /\ local[p] \in Bytes
    BY <1>6 DEF UpdateRemote, Update, LocalWins, Resolving, InConflict, IsNext, NamesInv,
        PlansNameObjects, PlanNamesObject, ConflictKinds, BothPresent
  <2>2. drive' \in [ObjId -> Object \cup {None}] /\ flight' \in Flight \cup {None}
    BY <1>6, <2>1 DEF UpdateRemote, Update, ObjectOf, Object, Flight, Fly
  <2>3. heldRemote' \in [Path -> SUBSET Bytes] /\ sunk' \in [Path -> SUBSET Bytes]
    BY <1>6, <2>1 DEF UpdateRemote, Update
  <2> QED
    BY <1>6, <2>2, <2>3 DEF UpdateRemote, Update
<1>7. ASSUME NEW p \in Path, OpenDownload(p) PROVE TypeOK'
  <2>1. ObjectOf(plan[p].id, p) /\ Torn \subseteq Bytes
    BY <1>7 DEF OpenDownload, RemoteWins, Resolving, InConflict, IsNext, NamesInv,
        PlansNameObjects, PlanNamesObject, ConflictKinds, BothPresent, Bytes
  <2>2. flight' \in Flight \cup {None} /\ local' \in [Path -> Bytes \cup {None}]
    BY <1>7, <2>1 DEF OpenDownload, ObjectOf, Object, Flight, Fly
  <2> QED
    BY <1>7, <2>2 DEF OpenDownload, hist
<1>8. ASSUME NEW p \in Path, KeepBoth(p) PROVE TypeOK'
  <2>1. ObjectOf(plan[p].id, p)
    BY <1>8 DEF KeepBoth, Resolving, InConflict, IsNext, NamesInv,
        PlansNameObjects, PlanNamesObject, ConflictKinds, BothPresent
  <2>2. flight' \in Flight \cup {None} /\ copies' \in [Path -> SUBSET Bytes]
    BY <1>8, <2>1 DEF KeepBoth, ObjectOf, Object, Flight, Fly
  <2> QED
    BY <1>8, <2>2 DEF KeepBoth, hist
<1>9. ASSUME NEW p \in Path, MarkConflict(p) PROVE TypeOK'
  <2>1. plan[p].id \in ObjId
    BY <1>9 DEF MarkConflict, Resolving, InConflict, IsNext, NamesInv, PlansNameObjects,
        PlanNamesObject, ConflictKinds, BothPresent, ObjectOf
  <2>2. FlaggedRow(p) \in Row
    BY <2>1 DEF FlaggedRow, Row
  <2> QED
    BY <1>9, <2>2 DEF MarkConflict, Done, Nothing, Action, Kinds, hist
<1>10. ASSUME NEW p \in Path, DeleteLocal(p) PROVE TypeOK'
  BY <1>10 DEF DeleteLocal, Fly, Flight, hist
<1>11. ASSUME NEW p \in Path, DeleteRemote(p) PROVE TypeOK'
  <2>1. ObjectOf(plan[p].id, p)
    BY <1>11 DEF DeleteRemote, IsNext, NamesInv, PlansNameObjects, PlanNamesObject
  <2>2. drive' \in [ObjId -> Object \cup {None}] /\ flight' \in Flight \cup {None}
    <3>0. drive[plan[p].id] \in Object
      BY <2>1 DEF ObjectOf
    <3>1. [drive[plan[p].id] EXCEPT !.trashed = TRUE] \in Object
      BY <3>0 DEF Object
    <3>2. drive' \in [ObjId -> Object \cup {None}]
      BY <1>11, <2>1, <3>1 DEF DeleteRemote, ObjectOf
    <3>3. flight' \in Flight
      BY <1>11, <2>1 DEF DeleteRemote, ObjectOf, Flight, Fly
    <3> QED
      BY <3>2, <3>3
  <2> QED
    BY <1>11, <2>2 DEF DeleteRemote, hist
<1>12. ASSUME NEW p \in Path, LocalMissing(p) PROVE TypeOK'
  BY <1>12 DEF LocalMissing, Done, Nothing, Action, Kinds, store, hist
<1>13. CASE FinishDownload
  <2>1. flight \in Flight /\ flight.path \in Path
    BY <1>13 DEF FinishDownload, Flight
  <2>2. flight.data \in Bytes
    BY <1>13, <2>1 DEF FinishDownload, NamesInv, FlightNamesObject, Flight
  <2>3. flight' \in Flight
    BY <1>13, <2>1, <2>2 DEF FinishDownload, Flight
  <2>4. PICK d \in Landed(flight.path, flight.data) :
          /\ local' = [local EXCEPT ![flight.path] = d]
          /\ heldLocal' = [heldLocal EXCEPT ![flight.path] = @ \cup ({d} \ {None})]
    BY <1>13 DEF FinishDownload
  <2>5. d \in Bytes \cup {None}
    <3>1. local[flight.path] \in Bytes \cup {None}
      BY <2>1
    <3> QED
      BY <2>2, <2>4, <3>1 DEF Landed, Bytes
  <2>6. local' \in [Path -> Bytes \cup {None}] /\ heldLocal' \in [Path -> SUBSET Bytes]
    BY <2>1, <2>4, <2>5
  <2> QED
    BY <1>13, <2>3, <2>6 DEF FinishDownload
<1>14. CASE GetFile
  <2>1. flight \in Flight /\ ObjectOf(flight.id, flight.path)
    BY <1>14 DEF GetFile, NamesInv, FlightNamesObject
  <2>2. drive[flight.id].data \in Bytes
    BY <2>1 DEF ObjectOf, Object
  <2>3. flight' \in Flight
    BY <1>14, <2>1, <2>2 DEF GetFile, Flight
  <2> QED
    BY <1>14, <2>3 DEF GetFile, store, hist
<1>15. CASE UpdateIndex
  <2>1. flight \in Flight /\ ObjectOf(flight.id, flight.path)
    BY <1>15 DEF UpdateIndex, NamesInv, FlightNamesObject
  <2>2. flight.path \in Path /\ RowOf(flight.path, flight.id, flight.data) \in Row
    BY <2>1 DEF RowOf, Row, ObjectOf, Flight
  <2>3. index' \in [Path -> Row \cup {None}] /\ plan' \in [Path -> Action]
    BY <1>15, <2>2 DEF UpdateIndex, Done, Nothing, Action, Kinds
  <2> QED
    BY <1>15, <2>3 DEF UpdateIndex, hist
<1>16. CASE DropRow
  BY <1>16 DEF DropRow, Done, Nothing, Action, Kinds, hist
<1>17. CASE ActionFails
  <2>1. plan' \in [Path -> Action] /\ flight' \in Flight \cup {None}
    BY <1>17 DEF ActionFails, Done, Nothing, Action, Kinds
  <2> QED
    BY <1>17, <2>1 DEF ActionFails, Fault, store
<1>18. CASE CycleEnds
  BY <1>18 DEF CycleEnds, Fault, Forget, Nothing, Action, Kinds, store
<1>19. ASSUME NEW p \in Path, RemoveLocal(p) PROVE TypeOK'
  BY <1>19 DEF RemoveLocal, UserOp, cycle
<1>20. ASSUME NEW p \in Path, TrashRemote(p) PROVE TypeOK'
  <2> PICK i \in Live(p) : drive' = [drive EXCEPT ![i].trashed = TRUE]
    BY <1>20 DEF TrashRemote
  <2>1. i \in ObjId /\ [drive[i] EXCEPT !.trashed = TRUE] \in Object
    BY DEF Live, Object
  <2>2. drive' \in [ObjId -> Object \cup {None}]
    BY <2>1
  <2> QED
    BY <1>20, <2>2 DEF TrashRemote, UserOp, cycle
<1>21. ASSUME NEW p \in Path, NEW c \in Content, WriteLocal(p, c) PROVE TypeOK'
  BY <1>21 DEF WriteLocal, UserOp, cycle, Bytes
<1>22. ASSUME NEW p \in Path, NEW c \in Content, EditRemote(p, c) PROVE TypeOK'
  <2> PICK i \in Live(p) : drive' = [drive EXCEPT ![i].data = c]
    BY <1>22 DEF EditRemote
  <2>1. i \in ObjId /\ [drive[i] EXCEPT !.data = c] \in Object /\ c \in Bytes
    BY DEF Live, Object, Bytes
  <2>2. /\ drive' \in [ObjId -> Object \cup {None}]
        /\ heldRemote' \in [Path -> SUBSET Bytes] /\ sunk' \in [Path -> SUBSET Bytes]
    BY <1>22, <2>1 DEF EditRemote
  <2> QED
    BY <1>22, <2>2 DEF EditRemote, UserOp, cycle
<1>23. ASSUME NEW p \in Path, NEW c \in Content, CreateRemote(p, c) PROVE TypeOK'
  BY <1>23 DEF CreateRemote, UserOp, cycle, Free, Object, Bytes
<1>24. CASE UNCHANGED vars
  BY <1>24 DEF vars, store, cycle, hist
<1> QED
  BY <1>1, <1>2, <1>3, <1>4, <1>5, <1>6, <1>7, <1>8, <1>9, <1>10, <1>11, <1>12, <1>13,
     <1>14, <1>15, <1>16, <1>17, <1>18, <1>19, <1>20, <1>21, <1>22, <1>23, <1>24
     DEF Next, Engine, Execute, User

\* A step keeps the names true.
LEMMA NamesStep == TypeOK /\ NamesInv /\ [Next]_vars => NamesInv'
<1> SUFFICES ASSUME TypeOK, NamesInv, [Next]_vars PROVE NamesInv'
  OBVIOUS
<1>a. \A i, p : ObjectOf(i, p) => ObjectOf(i, p)'
  BY ObjectsStay DEF ObjectOf
<1>b. /\ RowsNameObjects /\ ListingNamesObjects /\ PlansNameObjects /\ FlightNamesObject
      /\ plan \in [Path -> Action] /\ index \in [Path -> Row \cup {None}]
      /\ flight # None => flight \in Flight
  BY DEF NamesInv, TypeOK
<1>c. UNCHANGED index => RowsNameObjects'
  BY <1>a, <1>b DEF RowsNameObjects
<1>d. UNCHANGED listed => ListingNamesObjects'
  BY <1>a, <1>b DEF ListingNamesObjects
\* The plan may lose actions, and the transfer in flight its own when it ends.
<1>e. ASSUME pc' = pc, \A p \in Path : plan'[p] \in {plan[p], Nothing}
      PROVE  PlansNameObjects'
  BY <1>a, <1>b, <1>e DEF PlansNameObjects, PlanNamesObject
<1>f. UNCHANGED <<plan, flight>> => FlightNamesObject'
  BY <1>a, <1>b DEF FlightNamesObject
<1>g. ASSUME NEW p \in Path, Done(p)
      PROVE  \A q \in Path : plan'[q] \in {plan[q], Nothing}
  BY <1>b, <1>g DEF Done
<1>1. CASE ScanLocal
  <2>1. \A p \in Path : plan[p] = Nothing
    BY <1>1, <1>b DEF ScanLocal, PlansNameObjects, PlanNamesObject
  <2> QED
    BY <1>1, <2>1, <1>c, <1>d, <1>f DEF ScanLocal, store, NamesInv, PlansNameObjects
<1>2. CASE ListRemote
  <2>1. ListingNamesObjects'
    BY <1>2, <1>a, <1>b DEF ListRemote, ListingNamesObjects, Live, ObjectOf, store
  <2> QED
    BY <1>2, <2>1, <1>c, <1>b, <1>f DEF ListRemote, store, NamesInv, PlansNameObjects,
       PlanNamesObject
<1>3. CASE Compare
  <2>1. PlansNameObjects'
    BY <1>3, <1>a, PlannedFacts DEF Compare, PlansNameObjects, PlanNamesObject
  <2>2. flight = None
    BY <1>3, <1>b DEF Compare, FlightNamesObject, PlansNameObjects, PlanNamesObject, Flight
  <2> QED
    BY <1>3, <2>1, <2>2, <1>c, <1>d DEF Compare, store, NamesInv, FlightNamesObject
<1>4. CASE EndCycle
  <2>1. ListingNamesObjects' /\ PlansNameObjects'
    BY <1>4 DEF EndCycle, Forget, ListingNamesObjects, PlansNameObjects
  <2> QED
    BY <1>4, <2>1, <1>c, <1>f DEF EndCycle, store, NamesInv
\* The actions that begin a transfer or a delete leave the plan as it is.
<1>5. ASSUME NEW p \in Path, UNCHANGED <<index, pc, listed, plan>>, plan[p] # Nothing,
             NEW i, NEW d, NEW s, Fly(p, i, d, s), s # "removed" => ObjectOf(i, p)' /\ d # None
      PROVE  NamesInv'
  <2>1. FlightNamesObject'
    BY <1>5 DEF Fly, FlightNamesObject
  <2> QED
    BY <1>5, <2>1, <1>c, <1>d, <1>e DEF NamesInv
<1>6. ASSUME NEW p \in Path, Upload(p) PROVE NamesInv'
  <2> PICK i \in Free :
        /\ drive' = [drive EXCEPT ![i] = [path |-> p, data |-> local[p], trashed |-> FALSE]]
        /\ Fly(p, i, local[p], "known")
    BY <1>6 DEF Upload
  <2>1. [path |-> p, data |-> local[p], trashed |-> FALSE] \in Object
    BY <1>6 DEF Upload, Object, TypeOK
  <2>2. drive'[i] = [path |-> p, data |-> local[p], trashed |-> FALSE] /\ i \in ObjId
    BY DEF TypeOK, Free
  <2>3. drive'[i] # None /\ drive'[i].path = p
    <3>1. \A o \in Object : o # None
      BY NoneAssumption
    <3>2. [path |-> p, data |-> local[p], trashed |-> FALSE] # None
      BY <2>1, <3>1
    <3> QED
      BY <2>2, <3>2
  <2>4. ObjectOf(i, p)'
    BY <2>2, <2>3 DEF ObjectOf
  <2> QED
    BY <1>6, <1>5, <2>1, <2>4, DataAssumption DEF Upload, IsNext
<1>7. ASSUME NEW p \in Path, UpdateRemote(p) PROVE NamesInv'
  <2>1. ObjectOf(plan[p].id, p)
    BY <1>7, <1>b DEF UpdateRemote, Update, LocalWins, Resolving, InConflict, IsNext,
        PlansNameObjects, PlanNamesObject, ConflictKinds, BothPresent
  <2> QED
    BY <1>7, <1>5, <1>a, <2>1 DEF UpdateRemote, Update, IsNext
<1>8. ASSUME NEW p \in Path, OpenDownload(p) \/ KeepBoth(p) PROVE NamesInv'
  <2>1. ObjectOf(plan[p].id, p)
    BY <1>8, <1>b DEF OpenDownload, KeepBoth, RemoteWins, Resolving, InConflict, IsNext,
        PlansNameObjects, PlanNamesObject, ConflictKinds, BothPresent
  <2>2. drive[plan[p].id].data # None
    BY <2>1, DataAssumption DEF TypeOK, ObjectOf, Object
  <2> QED
    BY <1>8, <1>5, <1>a, <2>1, <2>2 DEF OpenDownload, KeepBoth, IsNext
<1>9. ASSUME NEW p \in Path, MarkConflict(p) PROVE NamesInv'
  <2>1. ObjectOf(plan[p].id, p)
    BY <1>9, <1>b DEF MarkConflict, Resolving, InConflict, IsNext, PlansNameObjects,
        PlanNamesObject, ConflictKinds, BothPresent
  <2>2. FlaggedRow(p).remoteId \in {index[p].remoteId, plan[p].id}
    BY <1>b DEF FlaggedRow, Row
  <2>3. index[p] # None => ObjectOf(index[p].remoteId, p)
    BY <1>b DEF RowsNameObjects
  <2>4. ObjectOf(FlaggedRow(p).remoteId, p)
    BY <2>1, <2>2, <2>3, <1>b DEF FlaggedRow
  <2>5. RowsNameObjects'
    BY <1>9, <1>a, <1>b, <2>4 DEF MarkConflict, RowsNameObjects
  <2>6. flight' = None
    BY <1>9 DEF MarkConflict, IsNext
  <2> QED
    BY <1>9, <2>5, <2>6, <1>d, <1>e, <1>g DEF MarkConflict, NamesInv, FlightNamesObject
<1>10. ASSUME NEW p \in Path, DeleteLocal(p) \/ DeleteRemote(p) PROVE NamesInv'
  BY <1>10, <1>5 DEF DeleteLocal, DeleteRemote, IsNext
<1>11. ASSUME NEW p \in Path, LocalMissing(p) PROVE NamesInv'
  <2>1. flight' = None
    BY <1>11 DEF LocalMissing, IsNext
  <2> QED
    BY <1>11, <2>1, <1>c, <1>d, <1>e, <1>g DEF LocalMissing, NamesInv, FlightNamesObject, store
<1>12. CASE FinishDownload \/ GetFile
  <2>1. flight \in Flight /\ ObjectOf(flight.id, flight.path) /\ flight.data # None
    BY <1>12, <1>b DEF FinishDownload, GetFile, FlightNamesObject
  <2>2. drive[flight.id].data \in Bytes
    BY <2>1 DEF ObjectOf, TypeOK, Object
  <2>3. /\ flight'.path = flight.path /\ flight'.id = flight.id /\ flight'.data # None
    <3>1. CASE FinishDownload
      BY <2>1, <3>1 DEF FinishDownload, Flight
    <3>2. CASE GetFile
      BY <2>1, <2>2, <3>2, DataAssumption DEF GetFile, Flight
    <3> QED
      BY <1>12, <3>1, <3>2
  <2>4. FlightNamesObject'
    BY <1>12, <1>a, <1>b, <2>1, <2>3 DEF FinishDownload, GetFile, FlightNamesObject
  <2> QED
    BY <1>12, <2>4, <1>c, <1>d, <1>e DEF FinishDownload, GetFile, NamesInv, store
<1>13. CASE UpdateIndex
  <2>1. flight \in Flight /\ ObjectOf(flight.id, flight.path)
    BY <1>13, <1>b DEF UpdateIndex, FlightNamesObject
  <2>2. RowOf(flight.path, flight.id, flight.data).remoteId = flight.id
    BY DEF RowOf
  <2>3. RowsNameObjects'
    BY <1>13, <1>a, <1>b, <2>1, <2>2 DEF UpdateIndex, RowsNameObjects, Flight
  <2> QED
    BY <1>13, <2>1, <2>3, <1>d, <1>e, <1>g DEF UpdateIndex, NamesInv, FlightNamesObject, Flight
<1>14. CASE DropRow
  <2>1. flight \in Flight
    BY <1>14, <1>b DEF DropRow
  <2>2. RowsNameObjects'
    BY <1>14, <1>a, <1>b, <2>1 DEF DropRow, RowsNameObjects, Flight
  <2> QED
    BY <1>14, <2>1, <2>2, <1>d, <1>e, <1>g DEF DropRow, NamesInv, FlightNamesObject, Flight
<1>15. CASE ActionFails
  <2>1. flight' = None /\ \A q \in Path : plan'[q] \in {plan[q], Nothing}
    BY <1>15, <1>b, <1>g DEF ActionFails, IsNext, Flight
  <2> QED
    BY <1>15, <2>1, <1>c, <1>d, <1>e DEF ActionFails, NamesInv, FlightNamesObject, store
<1>16. CASE CycleEnds
  <2>1. ListingNamesObjects' /\ PlansNameObjects' /\ FlightNamesObject'
    BY <1>16 DEF CycleEnds, Forget, ListingNamesObjects, PlansNameObjects, FlightNamesObject
  <2> QED
    BY <1>16, <2>1, <1>c DEF CycleEnds, store, NamesInv
<1>17. ASSUME UNCHANGED <<index, cycle>> PROVE NamesInv'
  BY <1>17, <1>c, <1>d, <1>e, <1>f DEF NamesInv, cycle
<1> QED
  BY <1>1, <1>2, <1>3, <1>4, <1>6, <1>7, <1>8, <1>9, <1>10, <1>11, <1>12, <1>13,
     <1>14, <1>15, <1>16, <1>17
     DEF Next, Engine, Execute, User, RemoveLocal, TrashRemote, WriteLocal, EditRemote,
         CreateRemote, UserOp, vars, store

(***************************************************************************)
(* Every variable keeps its type, and every row of the index, listing      *)
(* entry, planned action and transfer names a Drive object of its own      *)
(* path, whatever faults and users do (SyncEngine::sync).                  *)
(***************************************************************************)
THEOREM TypesAndNames == Spec => [](TypeOK /\ NamesInv)
<1>1. TypeOK /\ NamesInv /\ [Next]_vars => (TypeOK /\ NamesInv)'
  BY TypeStep, NamesStep
<1> QED
  BY InitNames, <1>1, PTL DEF Spec

\* The type invariant of SyncEngine, for every instance.
THEOREM TypeInvariant == Spec => []TypeOK
<1>1. TypeOK /\ NamesInv => TypeOK
  OBVIOUS
<1> QED
  BY TypesAndNames, <1>1, PTL

(***************************************************************************)
(* A one-way pair keeps to its side: ModeInv is an invariant and OneWay    *)
(* follows, whatever users and faults do.                                  *)
(***************************************************************************)

\* Planning respects the direction of the pair.
LEMMA PlannedRespectsMode ==
  ASSUME TypeOK, NamesInv, NEW p \in Path
  PROVE  /\ PullOnly => Planned(p).kind \notin {"Upload", "UpdateRemote", "DeleteRemote"}
         /\ PushOnly => Planned(p).kind \notin {"Download", "DeleteLocal"}
<1> DEFINE k == Decide(pair.mode, FALSE, LocalEntry(p), RemoteEntry(p), index[p])
<1>1. IsFileOrNone(LocalEntry(p)) /\ IsFileOrNone(RemoteEntry(p))
  BY DEF IsFileOrNone, LocalEntry, RemoteEntry, Entry
<1>2. /\ k \in {"Upload", "UpdateRemote", "DeleteRemote"} => Pushes(pair.mode)
      /\ k \in {"Download", "DeleteLocal"} => Pulls(pair.mode)
  BY <1>1, DecideForFiles
<1>3. Planned(p).kind = k
  BY PlannedFacts
<1> QED
  BY <1>2, <1>3 DEF PullOnly, PushOnly, Pushes, Pulls

LEMMA ModeStep == TypeOK /\ NamesInv /\ ModeInv /\ [Next]_vars => ModeInv'
<1> SUFFICES ASSUME TypeOK, NamesInv, ModeInv, [Next]_vars PROVE ModeInv'
  OBVIOUS
<1> DEFINE NoStreaming ==
      PushOnly /\ pair.policy \in {"ask", "prefer-local"} /\ flight # None
        => flight.stage # "streaming"
<1>1. /\ plan \in [Path -> Action] /\ NoStreaming
      /\ \A p \in Path : PlanRespectsMode(p)
      /\ flight # None => flight \in Flight
  BY DEF TypeOK, ModeInv
<1>2. pair' = pair
  BY DEF Next, Engine, Execute, User, ScanLocal, ListRemote, Compare, EndCycle, Upload,
     UpdateRemote, Update, OpenDownload, KeepBoth, MarkConflict, DeleteLocal, DeleteRemote,
     LocalMissing, FinishDownload, GetFile, UpdateIndex, DropRow, ActionFails, CycleEnds,
     RemoveLocal, TrashRemote, WriteLocal, EditRemote, CreateRemote, UserOp, vars
<1>3. ASSUME \A p \in Path : plan'[p] \in {plan[p], Nothing}
      PROVE  \A p \in Path : PlanRespectsMode(p)'
  BY <1>1, <1>2, <1>3 DEF PlanRespectsMode, Nothing, PullOnly, PushOnly
<1>4. ASSUME NEW p \in Path, Done(p)
      PROVE  \A q \in Path : plan'[q] \in {plan[q], Nothing}
  BY <1>1, <1>4 DEF Done
<1>5. UNCHANGED flight => NoStreaming'
  BY <1>1, <1>2 DEF PushOnly
<1>6. flight' = None => NoStreaming'
  OBVIOUS
<1>7. ASSUME NEW p, NEW i, NEW d, NEW s, Fly(p, i, d, s), s # "streaming" PROVE NoStreaming'
  BY <1>7 DEF Fly
<1>8. CASE Compare
  BY <1>2, <1>5, <1>8, PlannedRespectsMode DEF Compare, ModeInv, PlanRespectsMode, PullOnly,
     PushOnly
<1>9. ASSUME NEW p \in Path, OpenDownload(p) PROVE ModeInv'
  <2>1. ~(PushOnly /\ pair.policy \in {"ask", "prefer-local"})
    BY <1>1, <1>9 DEF OpenDownload, RemoteWins, Resolving, PlanRespectsMode
  <2> QED
    BY <1>2, <1>3, <1>9, <2>1 DEF OpenDownload, ModeInv, PushOnly
<1>10. CASE FinishDownload \/ GetFile
  <2>1. flight'.stage # "streaming"
    BY <1>1, <1>10 DEF FinishDownload, GetFile, Flight
  <2> QED
    BY <1>2, <1>3, <1>10, <2>1 DEF FinishDownload, GetFile, ModeInv
<1>11. ASSUME NEW p \in Path, Upload(p) \/ UpdateRemote(p) \/ KeepBoth(p)
                              \/ DeleteLocal(p) \/ DeleteRemote(p)
      PROVE  ModeInv'
  BY <1>3, <1>7, <1>11 DEF Upload, UpdateRemote, Update, KeepBoth, DeleteLocal, DeleteRemote, ModeInv
<1>12. ASSUME NEW p \in Path, MarkConflict(p) \/ LocalMissing(p) PROVE ModeInv'
  BY <1>3, <1>4, <1>5, <1>12 DEF MarkConflict, LocalMissing, ModeInv
<1>13. CASE UpdateIndex \/ DropRow
  BY <1>1, <1>3, <1>4, <1>6, <1>13 DEF UpdateIndex, DropRow, Flight, ModeInv
<1>14. CASE ActionFails
  <2>1. flight' = None /\ \A q \in Path : plan'[q] \in {plan[q], Nothing}
    BY <1>1, <1>4, <1>14 DEF ActionFails, IsNext, Flight
  <2> QED
    BY <1>3, <1>6, <2>1 DEF ModeInv
<1>15. CASE CycleEnds
  BY <1>3, <1>6, <1>15 DEF CycleEnds, ModeInv
<1>16. ASSUME UNCHANGED <<plan, flight>> PROVE ModeInv'
  BY <1>3, <1>5, <1>16 DEF ModeInv
<1> QED
  BY <1>8, <1>9, <1>10, <1>11, <1>12, <1>13, <1>14, <1>15, <1>16
     DEF Next, Engine, Execute, User, ScanLocal, ListRemote, EndCycle, RemoveLocal,
         TrashRemote, WriteLocal, EditRemote, CreateRemote, UserOp, cycle, vars

(***************************************************************************)
(* A one-way pair plans nothing against its direction (compute_actions).   *)
(***************************************************************************)
THEOREM ModeInvariant == Spec => [](TypeOK /\ NamesInv /\ ModeInv)
<1>1. Init => ModeInv
  BY DEF Init, ModeInv, PlanRespectsMode, Nothing
<1>2. TypeOK /\ NamesInv /\ ModeInv /\ [Next]_vars => ModeInv'
  BY ModeStep
<1> QED
  BY <1>1, <1>2, TypesAndNames, PTL DEF Spec

LEMMA StepKeepsToItsSide ==
  ASSUME TypeOK, NamesInv, ModeInv, [Next]_vars
  PROVE  [KeepsToItsSide]_vars
<1> SUFFICES ASSUME EngineStep PROVE KeepsToItsSide
  BY DEF KeepsToItsSide
<1>1. \A p \in Path : PlanRespectsMode(p)
  BY DEF ModeInv
<1>2. ~User
  BY DEF EngineStep, User, RemoveLocal, TrashRemote, WriteLocal, EditRemote, CreateRemote,
     UserOp, TypeOK
<1>3. UNCHANGED <<local, drive, copies>> => KeepsToItsSide
  BY DEF KeepsToItsSide
<1>4. ASSUME NEW p \in Path, Upload(p) \/ UpdateRemote(p) \/ DeleteRemote(p)
      PROVE  KeepsToItsSide
  <2>1. UNCHANGED <<local, copies>>
    BY <1>4 DEF Upload, UpdateRemote, Update, DeleteRemote
  <2>2. ~(PullOnly /\ pair.policy \notin {"prefer-local", "newest-wins"})
    BY <1>1, <1>4 DEF Upload, UpdateRemote, Update, DeleteRemote, LocalWins, Resolving, PlanRespectsMode
  <2> QED
    BY <2>1, <2>2 DEF KeepsToItsSide
<1>5. ASSUME NEW p \in Path, OpenDownload(p) \/ KeepBoth(p) \/ DeleteLocal(p)
      PROVE  KeepsToItsSide
  <2>1. UNCHANGED drive
    BY <1>5 DEF OpenDownload, KeepBoth, DeleteLocal
  <2>2. ~(PushOnly /\ pair.policy \in {"ask", "prefer-local"})
    BY <1>1, <1>5 DEF OpenDownload, KeepBoth, DeleteLocal, RemoteWins, Resolving, PlanRespectsMode
  <2> QED
    BY <2>1, <2>2 DEF KeepsToItsSide
<1>6. CASE FinishDownload
  BY <1>6 DEF FinishDownload, ModeInv, KeepsToItsSide
<1>7. ASSUME ~FinishDownload, ~\E p \in Path : \/ Upload(p) \/ UpdateRemote(p) \/ DeleteRemote(p)
                                               \/ OpenDownload(p) \/ KeepBoth(p) \/ DeleteLocal(p)
      PROVE  UNCHANGED <<local, drive, copies>>
  BY <1>2, <1>7 DEF Next, Engine, Execute, ScanLocal, ListRemote, Compare, EndCycle,
     MarkConflict, LocalMissing, GetFile, UpdateIndex, DropRow, ActionFails, CycleEnds,
     store, vars
<1> QED
  BY <1>3, <1>4, <1>5, <1>6, <1>7

(***************************************************************************)
(* A one-way pair never writes the side it must leave alone: the action    *)
(* property of SyncEngine, with no assumption on users or faults.          *)
(***************************************************************************)
THEOREM OneWayTheorem == Spec => OneWay
<1>1. (TypeOK /\ NamesInv /\ ModeInv) /\ [Next]_vars => [KeepsToItsSide]_vars
  BY StepKeepsToItsSide
<1> QED
  BY <1>1, ModeInvariant, PTL DEF Spec, OneWay

-----------------------------------------------------------------------------
(***************************************************************************)
(* With users who leave a path alone while it is being transferred, no     *)
(* version is lost and every row of the index is a shared base: LossInv is *)
(* an invariant of SyncEngine, and BaseWasShared and NoSilentLoss follow.  *)
(***************************************************************************)

(***************************************************************************)
(* What every step but the start of a cycle does to the history: versions  *)
(* and copies are only added, and so are the paths users have touched.     *)
(***************************************************************************)
HistoryGrows ==
  /\ dirty \subseteq dirty'
  /\ \A q \in Path : /\ heldLocal[q] \subseteq heldLocal'[q]
                     /\ ReachedDrive(q) \subseteq ReachedDrive(q)'
                     /\ copies[q] \subseteq copies'[q]
  /\ pair' = pair

\* Here it does not matter whether Drive has a version live or in the trash.
USE DEF ReachedDrive

LEMMA Growth ==
  ASSUME TypeOK, [Next]_vars, ~ScanLocal
  PROVE  HistoryGrows
<1>1. /\ heldLocal \in [Path -> SUBSET Bytes]
      /\ heldRemote \in [Path -> SUBSET Bytes] /\ sunk \in [Path -> SUBSET Bytes]
      /\ copies \in [Path -> SUBSET Bytes]
  BY DEF TypeOK
<1>2. ASSUME UNCHANGED <<heldLocal, heldRemote, sunk, copies, pair>>, dirty \subseteq dirty'
      PROVE  HistoryGrows
  BY <1>2 DEF HistoryGrows
<1>3. ASSUME NEW p \in Path, NEW d, UNCHANGED <<heldRemote, sunk, copies, pair>>, dirty \subseteq dirty',
             heldLocal' = [heldLocal EXCEPT ![p] = @ \cup {d}]
      PROVE  HistoryGrows
  BY <1>1, <1>3 DEF HistoryGrows
<1>4. ASSUME NEW p \in Path, NEW d, UNCHANGED <<heldLocal, copies, pair>>, dirty \subseteq dirty',
             \/ sunk' = sunk /\ heldRemote' = [heldRemote EXCEPT ![p] = @ \cup {d}]
             \/ heldRemote' = heldRemote /\ sunk' = [sunk EXCEPT ![p] = @ \cup {d}]
      PROVE  HistoryGrows
  BY <1>1, <1>4 DEF HistoryGrows
<1>5. ASSUME NEW p \in Path, KeepBoth(p) PROVE HistoryGrows
  BY <1>1, <1>5 DEF KeepBoth, HistoryGrows, hist
<1>6. ASSUME NEW p \in Path, Upload(p) \/ UpdateRemote(p) PROVE HistoryGrows
  BY <1>4, <1>6 DEF Upload, UpdateRemote, Update
<1>7. CASE FinishDownload
  <2>1. flight.path \in Path
    BY <1>7 DEF FinishDownload, TypeOK, Flight
  <2>2. PICK d : heldLocal' = [heldLocal EXCEPT ![flight.path] = @ \cup ({d} \ {None})]
    BY <1>7 DEF FinishDownload
  <2>3. UNCHANGED <<pair, copies, heldRemote, sunk, dirty>>
    BY <1>7 DEF FinishDownload
  <2> QED
    BY <1>1, <2>1, <2>2, <2>3 DEF HistoryGrows
<1>8. ASSUME NEW p \in Path, NEW c \in Content, WriteLocal(p, c) PROVE HistoryGrows
  BY <1>3, <1>8 DEF WriteLocal, UserOp
<1>9. ASSUME NEW p \in Path, NEW c \in Content, EditRemote(p, c) \/ CreateRemote(p, c)
      PROVE  HistoryGrows
  BY <1>4, <1>9 DEF EditRemote, CreateRemote, UserOp
<1>10. ASSUME NEW p \in Path, RemoveLocal(p) \/ TrashRemote(p) PROVE HistoryGrows
  BY <1>2, <1>10 DEF RemoveLocal, TrashRemote, UserOp
<1>11. CASE ListRemote \/ Compare \/ EndCycle \/ GetFile \/ UpdateIndex \/ DropRow
  BY <1>2, <1>11 DEF ListRemote, Compare, EndCycle, GetFile, UpdateIndex, DropRow, store, hist
<1>12. ASSUME NEW p \in Path, OpenDownload(p) \/ MarkConflict(p) \/ DeleteLocal(p)
                              \/ DeleteRemote(p) \/ LocalMissing(p)
      PROVE HistoryGrows
  BY <1>2, <1>12 DEF OpenDownload, MarkConflict, DeleteLocal, DeleteRemote, LocalMissing,
     store, hist
<1>13. CASE ActionFails \/ CycleEnds \/ UNCHANGED vars
  BY <1>2, <1>13 DEF ActionFails, CycleEnds, vars, store, hist
<1> QED
  BY <1>5, <1>6, <1>7, <1>8, <1>9, <1>10, <1>11, <1>12, <1>13
     DEF Next, Engine, Execute, User

\* A shared base stays one, and so do the grounds of a plan whose path is left alone.
LEMMA SharedStays ==
  ASSUME HistoryGrows, NEW q \in Path, index'[q] = index[q], SharedBase(q)
  PROVE  SharedBase(q)'
BY DEF HistoryGrows, SharedBase, SharedRow

LEMMA GroundsStay ==
  ASSUME HistoryGrows, NEW q \in Path, plan'[q] = plan[q], PlanHasGrounds(q),
         local'[q] = local[q] \/ <<q, "local">> \in dirty',
         \/ plan[q].kind \notin {"UpdateRemote", "DeleteRemote"}
         \/ drive'[plan[q].id].data = drive[plan[q].id].data
         \/ <<q, "remote">> \in dirty'
  PROVE  PlanHasGrounds(q)'
<1>1. LocalExpendable(q) => LocalExpendable(q)'
  BY DEF HistoryGrows, LocalExpendable
<1>2. plan[q].kind \in {"UpdateRemote", "DeleteRemote"} /\ RemoteExpendable(q, plan[q].id)
        => RemoteExpendable(q, plan[q].id)'
  BY DEF HistoryGrows, RemoteExpendable
<1> QED
  BY <1>1, <1>2 DEF HistoryGrows, PlanHasGrounds, RemoteExpendable

(***************************************************************************)
(* A step of the execute loop works on one path p: it leaves the other     *)
(* paths alone, and p is either done or in flight after it.                *)
(***************************************************************************)
WorksOn(p) ==
  /\ pc = "executing" /\ pc' = "executing"
  /\ flight # None => flight.path = p
  /\ flight' # None => flight'.path = p
  /\ plan'[p] = Nothing \/ flight' # None
  /\ \A q \in Path \ {p} :
       /\ local'[q] = local[q] /\ index'[q] = index[q] /\ plan'[q] = plan[q]
       /\ \A i : ObjectOf(i, q) => drive'[i] = drive[i]

LEMMA ExecuteStep ==
  ASSUME TypeOK, LossInv, NamesInv', HistoryGrows, NEW p \in Path, WorksOn(p),
         HistoryIsComplete', SharedBase(p)', TransferIsFaithful'
  PROVE  LossInv'
<1>1. ASSUME NEW q \in Path \ {p} PROVE SharedBase(q)'
  BY SharedStays DEF LossInv, BaseWasShared, WorksOn
<1>2. ASSUME NEW q \in Path \ {p}, plan'[q] # Nothing PROVE PlanHasGrounds(q)'
  <2>1. plan'[q] = plan[q] /\ local'[q] = local[q] /\ ~InFlight(q)
    BY DEF WorksOn, InFlight
  <2>2. PlanHasGrounds(q)
    BY <1>2, <2>1 DEF LossInv, PlansHaveGrounds
  <2>3. plan[q].kind \in {"UpdateRemote", "DeleteRemote"} => ObjectOf(plan[q].id, q)
    BY <1>2, <2>1 DEF LossInv, NamesInv, PlansNameObjects, PlanNamesObject
  <2>4. plan[q].kind \in {"UpdateRemote", "DeleteRemote"}
          => drive'[plan[q].id] = drive[plan[q].id]
    BY <2>3 DEF WorksOn
  <2> QED
    BY <2>1, <2>2, <2>4, GroundsStay
<1>3. plan'[p] = Nothing \/ InFlight(p)'
  BY DEF WorksOn, InFlight
<1>4. PlansHaveGrounds'
  BY <1>2, <1>3 DEF PlansHaveGrounds
<1>5. BaseWasShared'
  BY <1>1 DEF BaseWasShared
<1>6. ScanIsTrue' /\ ListingIsTrue'
  BY DEF ScanIsTrue, ListingIsTrue, WorksOn
<1> QED
  BY <1>4, <1>5, <1>6 DEF LossInv

(***************************************************************************)
(* A step of the users: it leaves the engine alone, and what it changes is *)
(* in dirty.  No user changes the path of a transfer (RaceFree).           *)
(***************************************************************************)
UserSteps ==
  /\ UNCHANGED <<index, copies, cycle>>
  /\ \A q \in Path : local'[q] = local[q] \/ <<q, "local">> \in dirty'
  /\ \A i, q : ObjectOf(i, q) =>
        drive'[i].data = drive[i].data \/ <<q, "remote">> \in dirty'
  /\ flight # None /\ flight.stage # "removed" =>
        /\ local'[flight.path] = local[flight.path]
        /\ drive'[flight.id] = drive[flight.id]

LEMMA UserStep ==
  ASSUME TypeOK, LossInv, NamesInv', HistoryGrows, UserSteps, HistoryIsComplete'
  PROVE  LossInv'
<1>1. BaseWasShared'
  BY SharedStays DEF LossInv, BaseWasShared, UserSteps
<1>2. ScanIsTrue'
  BY DEF LossInv, ScanIsTrue, LocalExpendable, UserSteps, cycle, HistoryGrows
<1>3. ListingIsTrue'
  <2> SUFFICES ASSUME pc = "comparing", NEW q \in Path, listed[q] # None
               PROVE  \/ drive'[listed[q].id].data = listed[q].md5
                      \/ RemoteExpendable(q, listed[q].id)'
    BY DEF ListingIsTrue, UserSteps, cycle
  <2>1. ObjectOf(listed[q].id, q)
    BY DEF LossInv, NamesInv, ListingNamesObjects
  <2>2. drive[listed[q].id].data = listed[q].md5 \/ RemoteExpendable(q, listed[q].id)
    BY DEF LossInv, ListingIsTrue
  <2>3. listed' = listed
    BY DEF UserSteps, cycle
  <2> QED
    BY <2>1, <2>2, <2>3 DEF UserSteps, RemoteExpendable, HistoryGrows
<1>4. PlansHaveGrounds'
  <2> SUFFICES ASSUME NEW q \in Path, plan[q] # Nothing, ~InFlight(q)
               PROVE  PlanHasGrounds(q)'
    BY DEF PlansHaveGrounds, UserSteps, cycle, InFlight
  <2>1. PlanHasGrounds(q)
    BY DEF LossInv, PlansHaveGrounds
  <2>2. plan[q].kind \in {"UpdateRemote", "DeleteRemote"} => ObjectOf(plan[q].id, q)
    BY DEF LossInv, NamesInv, PlansNameObjects, PlanNamesObject
  <2> QED
    BY <2>1, <2>2, GroundsStay DEF UserSteps, cycle
<1>5. TransferIsFaithful'
  <2> SUFFICES ASSUME flight # None
               PROVE  TransferIsFaithful'
    BY DEF TransferIsFaithful, UserSteps, cycle
  <2>1. flight' = flight /\ flight.path \in Path
    BY DEF UserSteps, cycle, TypeOK, Flight
  <2>2. /\ ReachedDrive(flight.path) \subseteq ReachedDrive(flight.path)'
        /\ heldLocal[flight.path] \subseteq heldLocal'[flight.path]
        /\ copies[flight.path] \subseteq copies'[flight.path]
        /\ pair' = pair
    BY <2>1 DEF HistoryGrows
  <2>3. flight.stage # "removed" =>
          local'[flight.path] = local[flight.path] /\ drive'[flight.id] = drive[flight.id]
    BY DEF UserSteps
  <2> QED
    BY <2>1, <2>2, <2>3 DEF LossInv, TransferIsFaithful
<1> QED
  BY <1>1, <1>2, <1>3, <1>4, <1>5 DEF LossInv

LEMMA UserKeepsLossInv ==
  ASSUME RaceFree, TypeOK, LossInv, NamesInv', HistoryGrows, User
  PROVE  LossInv'
<1>1. /\ local \in [Path -> Bytes \cup {None}] /\ drive \in [ObjId -> Object \cup {None}]
      /\ heldLocal \in [Path -> SUBSET Bytes]
      /\ heldRemote \in [Path -> SUBSET Bytes] /\ sunk \in [Path -> SUBSET Bytes]
      /\ flight # None => flight \in Flight
  BY DEF TypeOK
<1>2. /\ flight # None /\ flight.stage # "removed" => ObjectOf(flight.id, flight.path)
      /\ HistoryIsComplete
  BY DEF LossInv, NamesInv, FlightNamesObject
<1>3. \A i \in ObjId : drive[i] # None => drive[i] \in Object /\ drive[i].path \in Path
  BY <1>1 DEF Object
<1>4. ASSUME NEW p \in Path, RemoveLocal(p) PROVE LossInv'
  <2>1. UserSteps
    BY <1>1, <1>2, <1>4 DEF RemoveLocal, UserOp, InTransfer, UserSteps, ObjectOf
  <2>2. HistoryIsComplete'
    BY <1>1, <1>2, <1>4, DataAssumption DEF RemoveLocal, HistoryIsComplete, Bytes
  <2> QED
    BY <2>1, <2>2, UserStep
<1>5. ASSUME NEW p \in Path, NEW c \in Content, WriteLocal(p, c) PROVE LossInv'
  <2>1. UserSteps
    BY <1>1, <1>2, <1>5 DEF WriteLocal, UserOp, InTransfer, UserSteps, ObjectOf
  <2>2. HistoryIsComplete'
    BY <1>1, <1>2, <1>5 DEF WriteLocal, HistoryIsComplete
  <2> QED
    BY <2>1, <2>2, UserStep
<1>6. ASSUME NEW p \in Path, TrashRemote(p) PROVE LossInv'
  <2> PICK i \in Live(p) : drive' = [drive EXCEPT ![i].trashed = TRUE]
    BY <1>6 DEF TrashRemote
  <2>1. ObjectOf(i, p) /\ drive[i] \in Object
    BY <1>1 DEF Live, ObjectOf
  <2>2. \A j \in ObjId : drive[j] # None =>
          /\ drive'[j].data = drive[j].data /\ drive'[j].path = drive[j].path
          /\ j # i => drive'[j] = drive[j]
    BY <1>1, <1>3, <2>1 DEF ObjectOf, Object
  <2>3. UserSteps
    BY <1>1, <1>2, <1>6, <2>1, <2>2 DEF TrashRemote, UserOp, InTransfer, UserSteps, ObjectOf
  <2>4. \A j \in ObjId : drive'[j] # None => drive[j] # None
    BY <1>1, <2>1 DEF ObjectOf
  <2>5. HistoryIsComplete'
    BY <1>1, <1>2, <1>6, <2>2, <2>4 DEF TrashRemote, HistoryIsComplete
  <2> QED
    BY <2>3, <2>5, UserStep
<1>7. ASSUME NEW p \in Path, NEW c \in Content, EditRemote(p, c) PROVE LossInv'
  <2> PICK i \in Live(p) : drive' = [drive EXCEPT ![i].data = c]
    BY <1>7 DEF EditRemote
  <2>1. ObjectOf(i, p) /\ drive[i] \in Object
    BY <1>1 DEF Live, ObjectOf
  <2>2. \A j \in ObjId : drive[j] # None =>
          /\ drive'[j].path = drive[j].path
          /\ IF j = i THEN drive'[j].data = c ELSE drive'[j] = drive[j]
    BY <1>1, <1>3, <2>1 DEF ObjectOf, Object
  <2>3. UserSteps
    BY <1>1, <1>2, <1>7, <2>1, <2>2 DEF EditRemote, UserOp, InTransfer, UserSteps, ObjectOf
  <2>4. \A j \in ObjId : drive'[j] # None => drive[j] # None
    BY <1>1, <2>1 DEF ObjectOf
  <2>5. HistoryIsComplete'
    BY <1>1, <1>2, <1>3, <1>7, <2>1, <2>2, <2>4 DEF EditRemote, HistoryIsComplete, ObjectOf
  <2> QED
    BY <2>3, <2>5, UserStep
<1>8. ASSUME NEW p \in Path, NEW c \in Content, CreateRemote(p, c) PROVE LossInv'
  <2> PICK i \in Free :
        drive' = [drive EXCEPT ![i] = [path |-> p, data |-> c, trashed |-> FALSE]]
    BY <1>8 DEF CreateRemote
  <2>1. \A j \in ObjId : drive[j] # None => drive'[j] = drive[j]
    BY <1>1 DEF Free
  <2>2. UserSteps
    BY <1>1, <1>2, <1>8, <2>1 DEF CreateRemote, UserOp, InTransfer, UserSteps, ObjectOf
  <2>3. \A j \in ObjId : j # i => drive'[j] = drive[j]
    BY <1>1
  <2>4. drive'[i].path = p /\ drive'[i].data = c
    BY <1>1 DEF Free
  <2>5. HistoryIsComplete'
    BY <1>1, <1>2, <1>3, <1>8, <2>3, <2>4 DEF CreateRemote, HistoryIsComplete
  <2> QED
    BY <2>2, <2>5, UserStep
<1> QED
  BY <1>4, <1>5, <1>6, <1>7, <1>8 DEF User

-----------------------------------------------------------------------------
(***************************************************************************)
(* The first half of the cycle: what the plan decides from the snapshots   *)
(* and the index is what PlanHasGrounds asks for.                          *)
(***************************************************************************)
LEMMA PlanningKeepsLossInv ==
  ASSUME TypeOK, LossInv, NamesInv', [Next]_vars,
         ScanLocal \/ ListRemote \/ Compare \/ EndCycle \/ CycleEnds
  PROVE  LossInv'
<1>1. /\ NamesInv /\ HistoryIsComplete /\ BaseWasShared
      /\ flight # None => pc = "executing"
  BY DEF LossInv, NamesInv, FlightNamesObject, PlansNameObjects, PlanNamesObject, TypeOK, Flight
<1>2. HistoryIsComplete' /\ BaseWasShared'
  BY <1>1 DEF ScanLocal, ListRemote, Compare, EndCycle, CycleEnds, HistoryIsComplete,
     BaseWasShared, SharedBase, SharedRow, store, hist
<1>3. TransferIsFaithful'
  BY <1>1 DEF ScanLocal, ListRemote, Compare, EndCycle, CycleEnds, TransferIsFaithful
<1>4. CASE ScanLocal
  <2>1. \A q \in Path : plan[q] = Nothing
    BY <1>1, <1>4 DEF ScanLocal, NamesInv, PlansNameObjects, PlanNamesObject
  <2>2. ScanIsTrue'
    BY <1>4, DataAssumption DEF ScanLocal, ScanIsTrue, LocalExpendable, Bytes, store
  <2> QED
    BY <1>2, <1>3, <1>4, <2>1, <2>2 DEF ScanLocal, LossInv, ListingIsTrue, PlansHaveGrounds
<1>5. CASE ListRemote
  <2>1. \A q \in Path : plan[q] = Nothing
    BY <1>1, <1>5 DEF ListRemote, NamesInv, PlansNameObjects, PlanNamesObject
  <2>2. ScanIsTrue'
    BY <1>5 DEF ListRemote, LossInv, ScanIsTrue, LocalExpendable, store, hist
  <2>3. ListingIsTrue'
    BY <1>5 DEF ListRemote, ListingIsTrue, store
  <2> QED
    BY <1>2, <1>3, <1>5, <2>1, <2>2, <2>3 DEF ListRemote, LossInv, PlansHaveGrounds
<1>6. CASE Compare
  <2> SUFFICES ASSUME NEW q \in Path PROVE PlanHasGrounds(q)'
    BY <1>2, <1>3, <1>6 DEF Compare, LossInv, ScanIsTrue, ListingIsTrue, PlansHaveGrounds
  <2> DEFINE k == Decide(pair.mode, FALSE, LocalEntry(q), RemoteEntry(q), index[q])
  <2>1. /\ plan'[q].kind = k
        /\ k \in {"UpdateRemote", "DeleteRemote"} => plan'[q].id = listed[q].id
    BY <1>1, <1>6, PlannedFacts DEF Compare
  <2>2. IsFileOrNone(LocalEntry(q)) /\ IsFileOrNone(RemoteEntry(q))
    BY DEF IsFileOrNone, LocalEntry, RemoteEntry, Entry
  <2>3. /\ k \in {"Download", "DeleteLocal"} =>
             LocalEntry(q) = None \/ (index[q] # None /\ LocalEntry(q).hash = index[q].localHash)
        /\ k \in {"UpdateRemote", "DeleteRemote"} =>
             RemoteEntry(q) # None /\ index[q] # None /\ RemoteEntry(q).hash = index[q].remoteMd5
    BY <2>2, DecideForFiles
  <2> HIDE DEF k
  <2>4. ASSUME k \in {"Download", "DeleteLocal"}, pair.policy # "keep-both"
        PROVE  LocalExpendable(q)
    <3>1. CASE q \in scan
      <4>1. LocalEntry(q) = Entry(local[q]) /\ local[q] \in Bytes \cup {None}
        BY <3>1 DEF LocalEntry, TypeOK
      <4>2. LocalEntry(q) \in Entries /\ LocalEntry(q).hash = local[q]
        BY <4>1 DEF Entry, Entries
      <4>3. LocalEntry(q) # None
        BY <4>2, NoneAssumption
      <4> QED
        BY <1>1, <2>3, <2>4, <4>2, <4>3 DEF BaseWasShared, SharedBase, SharedRow, LocalExpendable
    <3>2. CASE q \notin scan
      BY <1>6, <3>2 DEF Compare, LossInv, ScanIsTrue
    <3> QED
      BY <3>1, <3>2
  <2>5. ASSUME k \in {"UpdateRemote", "DeleteRemote"}
        PROVE  RemoteExpendable(q, listed[q].id)
    <3>1. RemoteEntry(q) # None /\ RemoteEntry(q).hash = index[q].remoteMd5 /\ index[q] # None
      BY <2>3, <2>5
    <3>2. listed[q] # None /\ listed[q].md5 = index[q].remoteMd5
      BY <3>1 DEF RemoteEntry, Entry
    <3>3. drive[listed[q].id].data = listed[q].md5 \/ RemoteExpendable(q, listed[q].id)
      BY <1>6, <3>2 DEF Compare, LossInv, ListingIsTrue
    <3> QED
      BY <1>1, <3>1, <3>2, <3>3 DEF BaseWasShared, SharedBase, SharedRow, RemoteExpendable
  <2>6. UNCHANGED <<pair, store, hist>>
    BY <1>6 DEF Compare
  <2> QED
    BY <2>1, <2>4, <2>5, <2>6 DEF PlanHasGrounds, LocalExpendable, RemoteExpendable, store, hist
<1>7. CASE EndCycle \/ CycleEnds
  BY <1>2, <1>3, <1>7 DEF EndCycle, CycleEnds, LossInv, ScanIsTrue, ListingIsTrue, PlansHaveGrounds
<1> QED
  BY <1>4, <1>5, <1>6, <1>7

-----------------------------------------------------------------------------
(***************************************************************************)
(* The execute loop: an action that begins, a transfer that advances, and  *)
(* an action that ends.                                                    *)
(***************************************************************************)
Begins(p) ==
  \/ Upload(p) \/ UpdateRemote(p) \/ OpenDownload(p) \/ KeepBoth(p)
  \/ DeleteLocal(p) \/ DeleteRemote(p)

LEMMA BeginningTakesOff ==
  ASSUME TypeOK, NamesInv, NEW p \in Path, Begins(p)
  PROVE  /\ IsNext(p) /\ pc' = pc /\ index' = index /\ plan' = plan
         /\ flight' # None /\ flight'.path = p
         /\ plan[p].kind \notin {"Upload", "DeleteLocal"} => ObjectOf(plan[p].id, p)
<1>1. IsNext(p) /\ pc' = pc /\ index' = index /\ plan' = plan
  BY DEF Begins, Upload, UpdateRemote, Update, OpenDownload, KeepBoth, DeleteLocal, DeleteRemote, store
<1>2. plan[p].kind \notin {"Upload", "DeleteLocal"} => ObjectOf(plan[p].id, p)
  BY <1>1 DEF IsNext, NamesInv, PlansNameObjects, PlanNamesObject
<1>3. ASSUME NEW i \in ObjId \cup {None}, NEW d \in Bytes \cup {None},
             NEW s \in {"streaming", "fetched", "known", "removed"}, Fly(p, i, d, s)
      PROVE  flight' \in Flight /\ flight'.path = p
  BY <1>3 DEF Fly, Flight
<1>4. \A i : ObjectOf(i, p) => i \in ObjId /\ drive[i].data \in Bytes
  BY DEF ObjectOf, TypeOK, Object
<1>5. local[p] \in Bytes \cup {None} /\ plan[p].id \in ObjId \cup {None}
  BY DEF TypeOK, Action
<1>6. CASE Upload(p)
  BY <1>1, <1>2, <1>3, <1>5, <1>6, NoneAssumption DEF Upload, Free
<1>7. CASE UpdateRemote(p) \/ DeleteLocal(p) \/ DeleteRemote(p)
  BY <1>1, <1>2, <1>3, <1>5, <1>7, NoneAssumption DEF UpdateRemote, Update, DeleteLocal, DeleteRemote
<1>8. CASE OpenDownload(p) \/ KeepBoth(p)
  <2>1. ObjectOf(plan[p].id, p)
    BY <1>2, <1>8 DEF OpenDownload, KeepBoth, RemoteWins, Resolving, InConflict,
       ConflictKinds, BothPresent
  <2> QED
    BY <1>1, <1>2, <1>3, <1>4, <1>5, <1>8, <2>1, NoneAssumption DEF OpenDownload, KeepBoth
<1> QED
  BY <1>6, <1>7, <1>8 DEF Begins

LEMMA BeginningKeepsLossInv ==
  ASSUME TypeOK, LossInv, NamesInv', HistoryGrows, NEW p \in Path, Begins(p)
  PROVE  LossInv'
<1>1. /\ IsNext(p) /\ pc' = pc /\ index' = index /\ plan' = plan
      /\ flight' # None /\ flight'.path = p
      /\ plan[p].kind \notin {"Upload", "DeleteLocal"} => ObjectOf(plan[p].id, p)
  BY BeginningTakesOff DEF LossInv
<1>2. /\ local \in [Path -> Bytes \cup {None}] /\ drive \in [ObjId -> Object \cup {None}]
      /\ heldRemote \in [Path -> SUBSET Bytes] /\ sunk \in [Path -> SUBSET Bytes]
      /\ heldLocal \in [Path -> SUBSET Bytes]
      /\ HistoryIsComplete
  BY DEF TypeOK, LossInv
<1>3. SharedBase(p)'
  BY <1>1, SharedStays DEF LossInv, BaseWasShared
<1>4. ASSUME \A q \in Path \ {p} : local'[q] = local[q],
             \A i, q : ObjectOf(i, q) /\ q # p => drive'[i] = drive[i],
             HistoryIsComplete', TransferIsFaithful'
      PROVE  LossInv'
  <2>1. WorksOn(p)
    BY <1>1, <1>4 DEF WorksOn, IsNext
  <2> QED
    BY <1>3, <1>4, <2>1, ExecuteStep
<1>5. CASE Upload(p)
  <2> PICK i \in Free :
        /\ drive' = [drive EXCEPT ![i] = [path |-> p, data |-> local[p], trashed |-> FALSE]]
        /\ Fly(p, i, local[p], "known")
    BY <1>5 DEF Upload
  <2>1. \A j \in ObjId : j # i => drive'[j] = drive[j]
    BY <1>2
  <2>2. drive'[i].path = p /\ drive'[i].data = local[p] /\ drive[i] = None
    BY <1>2 DEF Free
  <2>3. local[p] \in ReachedDrive(p)' /\ local' = local /\ heldLocal' = heldLocal
    BY <1>2, <1>5 DEF Upload
  <2>4. HistoryIsComplete'
    BY <1>2, <2>1, <2>2, <2>3, <1>5 DEF HistoryIsComplete, Upload, Object
  <2>5. TransferIsFaithful'
    BY <1>2, <2>3 DEF TransferIsFaithful, Fly, HistoryIsComplete
  <2> QED
    BY <1>4, <2>1, <2>2, <2>3, <2>4, <2>5 DEF ObjectOf
<1>6. CASE UpdateRemote(p)
  <2> DEFINE i == plan[p].id
  <2>1. ObjectOf(i, p)
    BY <1>1, <1>6 DEF UpdateRemote, Update, LocalWins, Resolving, InConflict, ConflictKinds, BothPresent
  <2>2. drive[i] \in Object
    BY <1>2, <2>1 DEF ObjectOf
  <2>3. \A j \in ObjId : j # i => drive'[j] = drive[j]
    BY <1>2, <1>6 DEF UpdateRemote, Update
  <2>4. drive'[i].path = p /\ drive'[i].data = local[p]
    BY <1>2, <1>6, <2>1, <2>2 DEF UpdateRemote, Update, ObjectOf, Object
  <2>5. local[p] \in ReachedDrive(p)' /\ local' = local /\ heldLocal' = heldLocal
    BY <1>2, <1>6 DEF UpdateRemote, Update
  <2>6. HistoryIsComplete'
    BY <1>2, <1>6, <2>1, <2>3, <2>4, <2>5 DEF HistoryIsComplete, UpdateRemote, Update, Object
  <2>7. TransferIsFaithful'
    BY <1>2, <1>6, <2>5 DEF TransferIsFaithful, Fly, HistoryIsComplete, UpdateRemote, Update
  <2> QED
    BY <1>4, <2>1, <2>3, <2>5, <2>6, <2>7 DEF ObjectOf
<1>7. CASE OpenDownload(p) \/ KeepBoth(p)
  <2>1. ObjectOf(plan[p].id, p)
    BY <1>1, <1>7 DEF OpenDownload, KeepBoth, RemoteWins, Resolving, InConflict,
       ConflictKinds, BothPresent
  <2>2. UNCHANGED <<drive, heldLocal, heldRemote, sunk, pair>>
    BY <1>7 DEF OpenDownload, KeepBoth, hist
  <2>3. drive[plan[p].id].data \in ReachedDrive(p)
    BY <1>2, <2>1 DEF HistoryIsComplete, ObjectOf
  <2>4. CASE OpenDownload(p)
    <3>1. local'[p] \in Torn /\ \A q \in Path \ {p} : local'[q] = local[q]
      BY <1>2, <2>4 DEF OpenDownload
    <3>2. HistoryIsComplete'
      BY <1>2, <2>2, <3>1, DataAssumption DEF HistoryIsComplete
    <3>3. TransferIsFaithful'
      BY <2>2, <2>3, <2>4, <3>1 DEF OpenDownload, TransferIsFaithful, Fly
    <3> QED
      BY <1>4, <2>2, <3>1, <3>2, <3>3
  <2>5. CASE KeepBoth(p)
    <3>1. local' = local /\ drive[plan[p].id].data \in copies'[p] /\ pair.policy = "keep-both"
      BY <2>5 DEF KeepBoth, TypeOK, Resolving
    <3>2. HistoryIsComplete'
      BY <1>2, <2>2, <3>1 DEF HistoryIsComplete
    <3>3. TransferIsFaithful'
      BY <2>2, <2>3, <2>5, <3>1 DEF KeepBoth, TransferIsFaithful, Fly
    <3> QED
      BY <1>4, <2>2, <3>1, <3>2, <3>3
  <2> QED
    BY <1>7, <2>4, <2>5
<1>8. CASE DeleteLocal(p)
  <2>1. HistoryIsComplete'
    BY <1>2, <1>8, DataAssumption DEF DeleteLocal, HistoryIsComplete, hist, Bytes
  <2>2. TransferIsFaithful'
    BY <1>8 DEF DeleteLocal, TransferIsFaithful, Fly
  <2> QED
    BY <1>2, <1>4, <1>8, <2>1, <2>2 DEF DeleteLocal
<1>9. CASE DeleteRemote(p)
  <2> DEFINE i == plan[p].id
  <2>1. ObjectOf(i, p) /\ drive[i] \in Object
    BY <1>1, <1>2, <1>9 DEF DeleteRemote, ObjectOf
  <2>2. \A j \in ObjId : j # i => drive'[j] = drive[j]
    BY <1>2, <1>9 DEF DeleteRemote
  <2>3. drive'[i].path = p /\ drive'[i].data = drive[i].data
    BY <1>2, <1>9, <2>1 DEF DeleteRemote, ObjectOf, Object
  <2>4. HistoryIsComplete'
    BY <1>2, <1>9, <2>1, <2>2, <2>3 DEF HistoryIsComplete, DeleteRemote, ObjectOf, hist
  <2>5. TransferIsFaithful'
    BY <1>9 DEF DeleteRemote, TransferIsFaithful, Fly
  <2> QED
    BY <1>4, <1>9, <2>1, <2>2, <2>4, <2>5 DEF ObjectOf, DeleteRemote
<1> QED
  BY <1>5, <1>6, <1>7, <1>8, <1>9 DEF Begins

LEMMA AdvancingKeepsLossInv ==
  ASSUME TypeOK, LossInv, NamesInv', HistoryGrows, FinishDownload \/ GetFile
  PROVE  LossInv'
<1> DEFINE p == flight.path
<1>1. /\ flight \in Flight /\ p \in Path /\ pc = "executing" /\ plan[p] # Nothing
      /\ ObjectOf(flight.id, p) /\ drive[flight.id].data = flight.data
  BY DEF FinishDownload, GetFile, TypeOK, Flight, LossInv, NamesInv, FlightNamesObject,
     PlansNameObjects, PlanNamesObject, TransferIsFaithful
<1>2. UNCHANGED <<pc, drive, index, plan, copies, heldRemote, sunk, pair>>
  BY DEF FinishDownload, GetFile, store, hist
<1>3. flight' \in Flight /\ flight'.path = p /\ flight'.id = flight.id /\ flight'.data = flight.data
  BY <1>1 DEF FinishDownload, GetFile, Flight
<1>4. /\ local \in [Path -> Bytes \cup {None}] /\ heldLocal \in [Path -> SUBSET Bytes]
      /\ HistoryIsComplete /\ flight.data \in ReachedDrive(p)
      /\ flight # None
  BY DEF TypeOK, LossInv, TransferIsFaithful, FinishDownload, GetFile
<1>5. CASE FinishDownload
  <2>1. /\ local'[p] = flight.data /\ flight.data \in heldLocal'[p]
        /\ flight'.stage = "fetched"
        /\ \A q \in Path \ {p} : local'[q] = local[q] /\ heldLocal'[q] = heldLocal[q]
    <3>1. local[p] \in Torn /\ flight.data # None
      BY <1>4, <1>5 DEF FinishDownload, LossInv, TransferIsFaithful, NamesInv, FlightNamesObject
    <3>2. PICK d \in Landed(p, flight.data) :
            /\ local' = [local EXCEPT ![p] = d]
            /\ heldLocal' = [heldLocal EXCEPT ![p] = @ \cup ({d} \ {None})]
      BY <1>5 DEF FinishDownload
    <3>3. d = flight.data
      BY <3>1, <3>2, DataAssumption DEF Landed, Bytes
    <3> QED
      BY <1>1, <1>4, <1>5, <3>1, <3>2, <3>3 DEF FinishDownload, Flight
  <2>2. HistoryIsComplete'
    BY <1>2, <1>4, <2>1 DEF HistoryIsComplete
  <2>3. TransferIsFaithful'
    BY <1>1, <1>2, <1>3, <1>4, <2>1 DEF TransferIsFaithful
  <2>4. WorksOn(p)
    BY <1>1, <1>2, <1>3, <2>1, NoneAssumption DEF WorksOn
  <2> QED
    BY <1>1, <1>2, <2>2, <2>3, <2>4, ExecuteStep, SharedStays DEF LossInv, BaseWasShared
<1>6. CASE GetFile
  <2>1. flight'.stage = "known" /\ flight.stage = "fetched" /\ local' = local /\ heldLocal' = heldLocal
    BY <1>1, <1>6 DEF GetFile, Flight, store, hist
  <2>2. HistoryIsComplete'
    BY <1>2, <1>4, <2>1 DEF HistoryIsComplete
  <2>3. TransferIsFaithful'
    BY <1>1, <1>2, <1>3, <1>4, <2>1 DEF TransferIsFaithful, LossInv
  <2>4. WorksOn(p)
    BY <1>1, <1>2, <1>3, <2>1, NoneAssumption DEF WorksOn
  <2> QED
    BY <1>1, <1>2, <2>2, <2>3, <2>4, ExecuteStep, SharedStays DEF LossInv, BaseWasShared
<1> QED
  BY <1>5, <1>6

LEMMA EndingKeepsLossInv ==
  ASSUME TypeOK, LossInv, NamesInv', HistoryGrows, NEW p \in Path,
         UNCHANGED <<pair, local, drive, copies, pc, heldLocal, heldRemote, sunk>>,
         pc = "executing", flight # None => flight.path = p, Done(p), flight' = None,
         \A q \in Path \ {p} : index'[q] = index[q], SharedBase(p)'
  PROVE  LossInv'
<1>1. HistoryIsComplete' /\ TransferIsFaithful'
  BY DEF LossInv, HistoryIsComplete, TransferIsFaithful
<1>2. plan'[p] = Nothing /\ \A q \in Path \ {p} : plan'[q] = plan[q]
  BY DEF Done, TypeOK
<1>3. WorksOn(p)
  BY <1>2 DEF WorksOn
<1> QED
  BY <1>1, <1>3, ExecuteStep

LEMMA ActionEndsKeepLossInv ==
  ASSUME TypeOK, LossInv, NamesInv', HistoryGrows,
         \/ UpdateIndex \/ DropRow \/ ActionFails
         \/ \E p \in Path : MarkConflict(p) \/ LocalMissing(p)
  PROVE  LossInv'
<1>0. /\ index \in [Path -> Row \cup {None}]
      /\ flight # None => flight \in Flight /\ flight.path \in Path /\ pc = "executing"
      /\ \A q \in Path : SharedBase(q)
  BY DEF TypeOK, Flight, LossInv, BaseWasShared, NamesInv, FlightNamesObject, PlansNameObjects,
     PlanNamesObject
<1>1. CASE UpdateIndex
  <2>0. flight # None
    BY <1>1 DEF UpdateIndex
  <2> PICK p \in Path : p = flight.path
    BY <1>0, <2>0
  <2> PICK row : row = RowOf(p, flight.id, flight.data)
    OBVIOUS
  <2>1. flight # None /\ flight.stage = "known" /\ Done(p) /\ flight' = None
    BY <1>1 DEF UpdateIndex
  <2>2. /\ row.localHash = local[p] /\ row.remoteMd5 = flight.data
    BY DEF RowOf
  <2>3. /\ \A q \in Path \ {p} : index'[q] = index[q]
        /\ index'[p] \in {index[p], row}
    BY <1>0, <1>1, <2>1 DEF UpdateIndex
  <2>4. UNCHANGED <<pair, local, drive, copies, pc, heldLocal, heldRemote, sunk>>
    BY <1>1 DEF UpdateIndex, hist
  <2>5. /\ flight.data \in Content => flight.data \in heldLocal[p] \cup copies[p]
        /\ pair.policy # "keep-both" => local[p] = flight.data
        /\ flight.data \in ReachedDrive(p)
    BY <2>1 DEF LossInv, TransferIsFaithful
  <2>6. SharedBase(p)'
    <3>1. CASE index'[p] = index[p]
      BY <1>0, <2>1, <2>4, <3>1 DEF SharedBase, SharedRow
    <3>2. CASE index'[p] = row
      BY <2>2, <2>4, <2>5, <3>2 DEF SharedBase, SharedRow
    <3> QED
      BY <2>3, <3>1, <3>2
  <2> QED
    BY <1>0, <2>1, <2>3, <2>4, <2>6, EndingKeepsLossInv
<1>2. CASE DropRow
  <2>1. /\ index'[flight.path] = None
        /\ \A q \in Path \ {flight.path} : index'[q] = index[q]
    BY <1>0, <1>2 DEF DropRow
  <2> QED
    BY <1>0, <1>2, <2>1, EndingKeepsLossInv DEF DropRow, SharedBase, SharedRow, hist
<1>3. ASSUME NEW p \in Path, LocalMissing(p) PROVE LossInv'
  <2>1. SharedBase(p)'
    BY <1>0, <1>3, SharedStays DEF LocalMissing, store
  <2> QED
    BY <1>3, <2>1, EndingKeepsLossInv DEF LocalMissing, IsNext, store, hist
<1>4. ASSUME NEW p \in Path, MarkConflict(p) PROVE LossInv'
  <2>1. index'[p] = FlaggedRow(p) /\ \A q \in Path \ {p} : index'[q] = index[q]
    BY <1>0, <1>4 DEF MarkConflict
  <2>2. UNCHANGED <<pair, local, drive, copies, pc, flight, heldLocal, heldRemote, sunk>>
    BY <1>4 DEF MarkConflict, hist
  <2>3. \/ /\ index[p] # None /\ FlaggedRow(p).localHash = index[p].localHash
           /\ FlaggedRow(p).remoteMd5 = index[p].remoteMd5
        \/ FlaggedRow(p).localHash = None /\ FlaggedRow(p).remoteMd5 = None
    BY <1>0 DEF FlaggedRow, Row
  <2>4. SharedBase(p)'
    BY <1>0, <2>1, <2>2, <2>3, DataAssumption DEF SharedBase, SharedRow, Bytes
  <2> QED
    BY <1>4, <2>1, <2>2, <2>4, EndingKeepsLossInv DEF MarkConflict, IsNext
<1>5. CASE ActionFails
  <2>1. PICK p \in Path : /\ pc = "executing"
                          /\ flight # None => flight.path = p
                          /\ Done(p) /\ flight' = None
    BY <1>0, <1>5 DEF ActionFails, IsNext
  <2>2. SharedBase(p)'
    BY <1>0, <1>5, SharedStays DEF ActionFails, store
  <2> QED
    BY <1>5, <2>1, <2>2, EndingKeepsLossInv DEF ActionFails, store
<1> QED
  BY <1>1, <1>2, <1>3, <1>4, <1>5

-----------------------------------------------------------------------------
LEMMA InitLoss == Init => LossInv
<1> SUFFICES ASSUME Init PROVE LossInv
  OBVIOUS
<1>1. TypeOK /\ NamesInv
  BY InitNames
<1>2. \A p \in Path : local[p] \in Content => local[p] \in heldLocal[p]
  BY DataAssumption DEF Init, Bytes
<1>3. ASSUME NEW i \in ObjId, drive[i] # None
      PROVE  drive[i].data \in ReachedDrive(drive[i].path)
  <2>1. drive[i].path \in Path /\ ~drive[i].trashed
    BY <1>3 DEF Init
  <2>2. i \in Live(drive[i].path)
    BY <1>3, <2>1 DEF Live
  <2> QED
    BY <2>1, <2>2 DEF Init
<1> QED
  BY <1>1, <1>2, <1>3 DEF Init, LossInv, HistoryIsComplete, ScanIsTrue, ListingIsTrue,
     PlansHaveGrounds, TransferIsFaithful, BaseWasShared, SharedBase, SharedRow

LEMMA LossStep ==
  ASSUME RaceFree, TypeOK, LossInv, [Next]_vars
  PROVE  LossInv'
<1>1. NamesInv'
  BY NamesStep DEF LossInv
<1>2. ~ScanLocal => HistoryGrows
  BY Growth
<1>3. CASE ScanLocal \/ ListRemote \/ Compare \/ EndCycle \/ CycleEnds
  BY <1>1, <1>3, PlanningKeepsLossInv
<1>4. CASE ScanLocal
  BY <1>3, <1>4
<1>5. ASSUME HistoryGrows PROVE LossInv'
  <2>1. CASE \E p \in Path : Begins(p)
    BY <1>1, <1>5, <2>1, BeginningKeepsLossInv
  <2>2. CASE FinishDownload \/ GetFile
    BY <1>1, <1>5, <2>2, AdvancingKeepsLossInv
  <2>3. CASE UpdateIndex \/ DropRow \/ ActionFails \/ \E p \in Path : MarkConflict(p) \/ LocalMissing(p)
    BY <1>1, <1>5, <2>3, ActionEndsKeepLossInv
  <2>4. CASE User
    BY <1>1, <1>5, <2>4, UserKeepsLossInv
  <2>5. CASE UNCHANGED vars
    BY <2>5 DEF vars, store, cycle, hist, LossInv, NamesInv, RowsNameObjects,
       ListingNamesObjects, PlansNameObjects, PlanNamesObject, FlightNamesObject, ObjectOf,
       HistoryIsComplete, ScanIsTrue, ListingIsTrue, PlansHaveGrounds, PlanHasGrounds, InFlight,
       LocalExpendable, RemoteExpendable, TransferIsFaithful, BaseWasShared, SharedBase, SharedRow
  <2> QED
    BY <1>3, <2>1, <2>2, <2>3, <2>4, <2>5 DEF Next, Engine, Execute, Begins
<1> QED
  BY <1>2, <1>4, <1>5

(***************************************************************************)
(* The chain every row, plan and transfer rests on: complete history, true *)
(* snapshots, grounded plans, faithful transfers and shared bases          *)
(* (SyncEngine::sync, execute_action, update_index).                       *)
(***************************************************************************)
THEOREM LossInvariant == ASSUME RaceFree PROVE Spec => [](TypeOK /\ LossInv)
<1>1. Init => TypeOK /\ LossInv
  BY InitNames, InitLoss
<1>2. TypeOK /\ LossInv /\ [Next]_vars => (TypeOK /\ LossInv)'
  BY LossStep, TypeStep DEF LossInv
<1> QED
  BY <1>1, <1>2, PTL DEF Spec

(***************************************************************************)
(* Every row of the file index is a base both sides really had, for every  *)
(* instance in which users leave a path alone during its transfer          *)
(* (update_index, compute_actions).                                        *)
(***************************************************************************)
THEOREM SharedBaseTheorem == ASSUME RaceFree PROVE Spec => []BaseWasShared
<1>1. TypeOK /\ LossInv => BaseWasShared
  BY DEF LossInv
<1> QED
  BY LossInvariant, <1>1, PTL

(***************************************************************************)
(* A step of the engine destroys a version only where the other side once  *)
(* held it, or where the user edited during the very cycle that destroys   *)
(* it (execute_action).                                                    *)
(***************************************************************************)
LEMMA LossIsPropagation ==
  ASSUME TypeOK, LossInv, [Next]_vars, EngineStep
  PROVE  /\ pair.policy = "ask" => LocalLossIsPropagation
         /\ pair.policy \in {"ask", "keep-both"} => RemoteLossIsPropagation
<1>0. /\ local \in [Path -> Bytes \cup {None}] /\ drive \in [ObjId -> Object \cup {None}]
      /\ flight # None => flight \in Flight
      /\ ops \in Nat
  BY DEF TypeOK
<1>1. ASSUME UNCHANGED local PROVE LocalLossIsPropagation
  BY <1>1 DEF LocalLossIsPropagation, LosesLocal
<1>2. ASSUME UNCHANGED drive PROVE RemoteLossIsPropagation
  BY <1>2 DEF RemoteLossIsPropagation, LosesRemote
<1>3. ASSUME NEW p \in Path, Upload(p) PROVE RemoteLossIsPropagation
  BY <1>0, <1>3 DEF Upload, Free, RemoteLossIsPropagation, LosesRemote
<1>4. ASSUME NEW p \in Path, IsNext(p),
             plan[p].kind \in {"UpdateRemote", "DeleteRemote"},
             \A i \in ObjId : i # plan[p].id => drive'[i] = drive[i]
      PROVE  RemoteLossIsPropagation
  <2>1. ObjectOf(plan[p].id, p)
    BY <1>4 DEF IsNext, LossInv, NamesInv, PlansNameObjects, PlanNamesObject
  <2>2. RemoteExpendable(p, plan[p].id)
    BY <1>4 DEF IsNext, LossInv, PlansHaveGrounds, InFlight, PlanHasGrounds
  <2> QED
    BY <1>4, <2>1, <2>2 DEF RemoteLossIsPropagation, LosesRemote, RemoteExpendable, ObjectOf
<1>5. ASSUME NEW p \in Path, IsNext(p), pair.policy # "keep-both",
             plan[p].kind \in {"Download", "DeleteLocal"},
             \A q \in Path \ {p} : local'[q] = local[q]
      PROVE  LocalLossIsPropagation
  <2>1. LocalExpendable(p)
    BY <1>5 DEF IsNext, LossInv, PlansHaveGrounds, InFlight, PlanHasGrounds
  <2> QED
    BY <1>5, <2>1 DEF LocalLossIsPropagation, LosesLocal, LocalExpendable
<1>6. ASSUME NEW p \in Path, UpdateRemote(p), pair.policy \in {"ask", "keep-both"}
      PROVE  RemoteLossIsPropagation
  BY <1>0, <1>4, <1>6 DEF UpdateRemote, Update, LocalWins, Resolving
<1>7. ASSUME NEW p \in Path, DeleteRemote(p) PROVE RemoteLossIsPropagation
  BY <1>0, <1>4, <1>7 DEF DeleteRemote
<1>8. ASSUME NEW p \in Path, OpenDownload(p), pair.policy = "ask" PROVE LocalLossIsPropagation
  BY <1>0, <1>5, <1>8 DEF OpenDownload, RemoteWins, Resolving
<1>9. ASSUME NEW p \in Path, DeleteLocal(p), pair.policy = "ask" PROVE LocalLossIsPropagation
  BY <1>0, <1>5, <1>9 DEF DeleteLocal
<1>10. CASE FinishDownload
  <2>1. local[flight.path] \in Torn
    BY <1>10 DEF FinishDownload, LossInv, TransferIsFaithful
  <2>2. \A q \in Path : q # flight.path => local'[q] = local[q]
    BY <1>0, <1>10 DEF FinishDownload
  <2>3. LocalLossIsPropagation
    BY <2>1, <2>2, DataAssumption DEF LocalLossIsPropagation, LosesLocal
  <2> QED
    BY <1>2, <1>10, <2>3 DEF FinishDownload
<1>11. ~User
  BY <1>0 DEF EngineStep, User, RemoveLocal, TrashRemote, WriteLocal, EditRemote, CreateRemote,
     UserOp
<1>12. CASE ScanLocal \/ ListRemote \/ Compare \/ EndCycle \/ GetFile \/ UpdateIndex \/ DropRow
  BY <1>1, <1>2, <1>12 DEF ScanLocal, ListRemote, Compare, EndCycle, GetFile, UpdateIndex,
     DropRow, store
<1>13. CASE ActionFails \/ CycleEnds \/ UNCHANGED vars
  BY <1>1, <1>2, <1>13 DEF ActionFails, CycleEnds, vars, store
<1>14. ASSUME NEW p \in Path, Execute(p)
       PROVE  /\ pair.policy = "ask" => LocalLossIsPropagation
              /\ pair.policy \in {"ask", "keep-both"} => RemoteLossIsPropagation
  <2>1. CASE Upload(p) \/ UpdateRemote(p) \/ DeleteRemote(p)
    BY <1>1, <1>3, <1>6, <1>7, <2>1 DEF Upload, UpdateRemote, Update, DeleteRemote
  <2>2. CASE OpenDownload(p) \/ DeleteLocal(p)
    BY <1>2, <1>8, <1>9, <2>2 DEF OpenDownload, DeleteLocal
  <2>3. CASE KeepBoth(p) \/ MarkConflict(p) \/ LocalMissing(p)
    BY <1>1, <1>2, <2>3 DEF KeepBoth, MarkConflict, LocalMissing, store
  <2> QED
    BY <1>14, <2>1, <2>2, <2>3 DEF Execute
<1> QED
  BY <1>10, <1>11, <1>12, <1>13, <1>14 DEF Next, Engine

(***************************************************************************)
(* No version is lost silently, for every instance in which users leave a  *)
(* path alone during its transfer: the action property of SyncEngine.      *)
(***************************************************************************)
THEOREM NoSilentLossTheorem == ASSUME RaceFree PROVE Spec => NoSilentLoss
<1>1. TypeOK /\ LossInv /\ [Next]_vars => [LossIsChosen]_vars
  BY LossIsPropagation DEF LossIsChosen
<1>2. Spec => [](TypeOK /\ LossInv)
  BY LossInvariant
<1> QED
  BY <1>1, <1>2, PTL DEF Spec, NoSilentLoss

-----------------------------------------------------------------------------
(***************************************************************************)
(* Convergence: once a whole cycle has run undisturbed, the next ones do   *)
(* nothing more and find no conflict between two live files again.  CalmInv*)
(* is an invariant of SyncEngine for every instance, whatever users do     *)
(* before and after, and RepeatSyncDoesNothing and ResolutionConverges     *)
(* follow from it.                                                         *)
(***************************************************************************)

(***************************************************************************)
(* What the decision for two files, or nothing on a side, says about them, *)
(* and when there is nothing to decide (compute_actions).                  *)
(***************************************************************************)
LEMMA DecisionTells ==
  ASSUME NEW mode, NEW l, NEW r, NEW b, IsFileOrNone(l), IsFileOrNone(r),
         NEW k, k = Decide(mode, FALSE, l, r, b)
  PROVE  /\ k \in {"Upload", "UpdateRemote"} \cup BothPresent => l # None
         /\ k \in {"DeleteRemote", "LocalDeletedRemoteModified"} => l = None
         /\ k \in {"UpdateRemote"} \cup BothPresent => r # None
         /\ k \in {"Upload", "DeleteLocal", "RemoteDeletedLocalModified"} => r = None
  BY DEF IsFileOrNone, Decide, NewLocal, NewRemote, FirstSync, Tracked, LocalGone,
         RemoteGone, LocalChanged, RemoteChanged, Entry, ConflictKinds, BothPresent

LEMMA DecisionNeedsSides ==
  ASSUME NEW mode, NEW l, NEW r, NEW b, IsFileOrNone(l), IsFileOrNone(r)
  PROVE  /\ l = None /\ r = None => Decide(mode, FALSE, l, r, b) = "Skip"
         /\ b = None /\ Decide(mode, FALSE, l, r, b) \in ConflictKinds => l # None /\ r # None
  BY DEF IsFileOrNone, Decide, NewLocal, NewRemote, FirstSync, Tracked, LocalGone,
         RemoteGone, LocalChanged, RemoteChanged, Entry, ConflictKinds, BothPresent

LEMMA DecisionOnBase ==
  ASSUME NEW mode, NEW l, NEW r, NEW b, IsFileOrNone(l), IsFileOrNone(r),
         l # None, r # None, b # None, l.hash = b.localHash, r.hash = b.remoteMd5
  PROVE  Decide(mode, FALSE, l, r, b) = "Skip"
  BY DEF IsFileOrNone, Decide, NewLocal, NewRemote, FirstSync, Tracked, LocalGone,
         RemoteGone, LocalChanged, RemoteChanged, Entry, ConflictKinds, BothPresent

LEMMA DecisionOffBase ==
  ASSUME NEW mode, NEW l, NEW r, NEW b, IsFileOrNone(l), IsFileOrNone(r),
         l # None, r # None, b # None, l.hash # b.localHash, r.hash # b.remoteMd5
  PROVE  Decide(mode, FALSE, l, r, b) = "BothModified"
  BY DEF IsFileOrNone, Decide, NewLocal, NewRemote, FirstSync, Tracked, LocalGone,
         RemoteGone, LocalChanged, RemoteChanged, Entry, ConflictKinds, BothPresent

-----------------------------------------------------------------------------
(***************************************************************************)
(* The two sides of a path as they are now.                                *)
(***************************************************************************)
LEMMA EntryOfBytes ==
  ASSUME NEW d \in Bytes
  PROVE  Entry(d) # None /\ IsFileOrNone(Entry(d)) /\ Entry(d).hash = d
<1>1. Entry(d) \in Entries /\ Entry(d).hash = d
  BY DEF Entry, Entries
<1> QED
  BY <1>1, NoneAssumption DEF IsFileOrNone

LEMMA OneEntry ==
  ASSUME NEW ids, NEW objects, \A i, j \in ids : i = j
  PROVE  /\ ids = {} => EntryIn(ids, objects) = None
         /\ \A i \in ids : EntryIn(ids, objects) = Entry(objects[i].data)
<1>1. ASSUME NEW i \in ids PROVE (CHOOSE j \in ids : TRUE) = i
  OBVIOUS
<1> QED
  BY <1>1 DEF EntryIn

LEMMA SidesNow ==
  ASSUME TypeOK, NoTwins, NEW p \in Path
  PROVE  /\ \A i \in Live(p) : /\ i \in ObjId /\ drive[i] \in Object /\ drive[i].data \in Bytes
                               /\ RemoteNow(p) = Entry(drive[i].data)
         /\ RemoteNow(p) = None <=> Live(p) = {}
         /\ LocalNow(p) = None <=> local[p] = None
         /\ local[p] # None => local[p] \in Bytes /\ LocalNow(p) = Entry(local[p])
         /\ IsFileOrNone(RemoteNow(p)) /\ IsFileOrNone(LocalNow(p))
<1>1. local[p] \in Bytes \cup {None} /\ drive \in [ObjId -> Object \cup {None}]
  BY DEF TypeOK
<1>2. \A i \in Live(p) : i \in ObjId /\ drive[i] \in Object /\ drive[i].data \in Bytes
  BY <1>1 DEF Live, Object
<1>3. /\ Live(p) = {} => RemoteNow(p) = None
      /\ \A i \in Live(p) : RemoteNow(p) = Entry(drive[i].data)
  BY OneEntry DEF NoTwins, RemoteNow
<1>4. local[p] # None => local[p] \in Bytes /\ LocalNow(p) = Entry(local[p])
  BY <1>1 DEF LocalNow
<1>5. local[p] = None => LocalNow(p) = None
  BY DEF LocalNow
<1> QED
  BY <1>2, <1>3, <1>4, <1>5, EntryOfBytes DEF IsFileOrNone

LEMMA NowWithoutRemote ==
  ASSUME TypeOK, NoTwins, NEW p \in Path, Live(p) = {}
  PROVE  Now(p) \in {"Skip", "Upload", "DeleteLocal", "RemoteDeletedLocalModified"}
<1>1. RemoteNow(p) = None /\ IsFileOrNone(LocalNow(p))
  BY SidesNow
<1> QED
  BY <1>1 DEF Now, IsFileOrNone, Entry, Decide, NewLocal, RemoteGone

LEMMA NowTells ==
  ASSUME TypeOK, NoTwins, NEW p \in Path
  PROVE  /\ Now(p) \in {"Upload", "UpdateRemote"} \cup BothPresent => local[p] # None
         /\ Now(p) \in {"DeleteRemote", "LocalDeletedRemoteModified"} => local[p] = None
         /\ Now(p) \in {"UpdateRemote"} \cup BothPresent => Live(p) # {}
         /\ Now(p) \in {"Upload", "DeleteLocal", "RemoteDeletedLocalModified"} => Live(p) = {}
         /\ Now(p) \in ConflictKinds /\ index[p] = None => local[p] # None /\ Live(p) # {}
         /\ local[p] = None /\ Live(p) = {} => Now(p) = "Skip"
<1>1. /\ RemoteNow(p) = None <=> Live(p) = {}
      /\ LocalNow(p) = None <=> local[p] = None
      /\ IsFileOrNone(RemoteNow(p)) /\ IsFileOrNone(LocalNow(p))
  BY SidesNow
<1>2. PICK l, r, b, k : /\ l = LocalNow(p) /\ r = RemoteNow(p) /\ b = index[p] /\ k = Now(p)
  OBVIOUS
<1>3. IsFileOrNone(l) /\ IsFileOrNone(r) /\ k = Decide(pair.mode, FALSE, l, r, b)
  BY <1>1, <1>2 DEF Now
<1>4. /\ k \in {"Upload", "UpdateRemote"} \cup BothPresent => l # None
      /\ k \in {"DeleteRemote", "LocalDeletedRemoteModified"} => l = None
      /\ k \in {"UpdateRemote"} \cup BothPresent => r # None
      /\ k \in {"Upload", "DeleteLocal", "RemoteDeletedLocalModified"} => r = None
  BY <1>3, DecisionTells
<1>5. l = None /\ r = None => k = "Skip"
  BY <1>3, DecisionNeedsSides
<1>6. k \in ConflictKinds /\ b = None => l # None /\ r # None
  BY <1>3, DecisionNeedsSides
<1> QED
  BY <1>1, <1>2, <1>4, <1>5, <1>6

-----------------------------------------------------------------------------
(***************************************************************************)
(* Paths a step does not touch stay what they are.                         *)
(***************************************************************************)
Untouched(q) ==
  /\ local'[q] = local[q] /\ index'[q] = index[q] /\ plan'[q] = plan[q]
  /\ Live(q)' = Live(q)
  /\ \A i \in Live(q) : drive'[i].data = drive[i].data

LEMMA UntouchedNow ==
  ASSUME NoTwins, pair' = pair, NEW q \in Path, Live(q)' = Live(q),
         \A i \in Live(q) : drive'[i].data = drive[i].data
  PROVE  RemoteNow(q)' = RemoteNow(q)
<1>1. \A i, j \in Live(q) : i = j
  BY DEF NoTwins
<1>2. RemoteNow(q)' = EntryIn(Live(q), drive')
  BY DEF RemoteNow
<1>3. CASE Live(q) = {}
  BY <1>2, <1>3 DEF RemoteNow, EntryIn
<1>4. CASE Live(q) # {}
  <2>1. PICK i \in Live(q) : TRUE
    BY <1>4
  <2>2. EntryIn(Live(q), drive') = Entry(drive'[i].data)
    BY <1>1, OneEntry
  <2>3. EntryIn(Live(q), drive) = Entry(drive[i].data)
    BY <1>1, OneEntry
  <2> QED
    BY <1>2, <2>2, <2>3 DEF RemoteNow
<1> QED
  BY <1>3, <1>4

LEMMA UntouchedStays ==
  ASSUME NoTwins, pair' = pair, NEW q \in Path, Untouched(q)
  PROVE  /\ Now(q)' = Now(q)
         /\ AtRest(q) => AtRest(q)'
         /\ PlanIsCurrent(q) => PlanIsCurrent(q)'
<1>1. RemoteNow(q)' = RemoteNow(q)
  BY UntouchedNow DEF Untouched
<1>2. Now(q)' = Now(q)
  BY <1>1 DEF Now, LocalNow, Untouched
<1>3. AtRest(q) => AtRest(q)'
  BY <1>2 DEF AtRest, Untouched, Flagged
<1>4. PlanIsCurrent(q) => PlanIsCurrent(q)'
  BY <1>2 DEF PlanIsCurrent, Untouched
<1> QED
  BY <1>2, <1>3, <1>4

(***************************************************************************)
(* A step of the execute loop on path p, while nobody else moves anything. *)
(***************************************************************************)
Calm == calm # "no" /\ pair.policy # "prefer-remote"

CalmStep(p) ==
  /\ pc = "executing" /\ pc' = "executing" /\ calm' = calm /\ pair' = pair
  /\ flight # None => flight.path = p
  /\ flight' # None => flight'.path = p /\ plan'[p] = plan[p]
  /\ flight' = None => plan'[p] = Nothing
  /\ \A q \in Path \ {p} : Untouched(q)

LEMMA CalmExecute ==
  ASSUME CalmInv, Calm, NEW p \in Path, CalmStep(p),
         (\A i, j \in Live(p) : i = j)', TransferSettles', flight' = None => AtRest(p)',
         calm = "settled" /\ pair.policy = "ask" => flight' = None
  PROVE  CalmInv'
<1>1. NoTwins /\ \A q \in Path : plan[q].kind \notin BothPresent \/ pair.policy = "ask" \/ calm # "settled"
  BY DEF CalmInv, Calm
<1>2. NoTwins'
  BY <1>1 DEF NoTwins, CalmStep, Untouched
<1>3. SnapshotsAreCurrent'
  BY DEF SnapshotsAreCurrent, CalmStep
<1>4. ASSUME NEW q \in Path, ~InFlight(q)'
      PROVE  /\ plan'[q] # Nothing => PlanIsCurrent(q)'
             /\ Cleared(q)' => AtRest(q)'
  <2>1. CASE q = p
    BY <1>4, <2>1 DEF CalmStep, InFlight
  <2>2. CASE q # p
    <3>1. ~InFlight(q) /\ Untouched(q) /\ pair' = pair /\ (Cleared(q)' => Cleared(q))
      BY <2>2 DEF CalmStep, InFlight, Cleared, Untouched
    <3>2. /\ plan[q] # Nothing => PlanIsCurrent(q)
          /\ Cleared(q) => AtRest(q)
      BY <3>1 DEF CalmInv, Calm
    <3> QED
      BY <1>1, <3>1, <3>2, UntouchedStays DEF Untouched
  <2> QED
    BY <2>1, <2>2
<1>5. ASSUME calm' = "settled"
      PROVE  /\ \A q \in Path : plan'[q].kind \notin BothPresent \/ pair'.policy = "ask"
             /\ pair'.policy = "ask" => flight' = None
  BY <1>1, <1>5 DEF CalmStep, Untouched, Nothing, BothPresent
<1> QED
  BY <1>2, <1>3, <1>4, <1>5 DEF CalmInv

LEMMA CalmNext ==
  ASSUME TypeOK, NamesInv, CalmInv, Calm, NEW p \in Path, IsNext(p)
  PROVE  LET k == plan[p].kind
         IN /\ pc = "executing" /\ flight = None /\ NoTwins /\ PlanIsCurrent(p)
            /\ k = Now(p) /\ k \in Transfers \cup Deletes \cup ConflictKinds
            /\ k \notin {"Upload", "DeleteLocal"} => ObjectOf(plan[p].id, p)
            /\ calm = "settled" => AtRest(p)
            /\ calm = "settled" /\ pair.policy = "ask" => k \in ConflictKinds
<1>1. pc = "executing" /\ flight = None /\ plan[p] # Nothing
  BY DEF IsNext
<1>2. NoTwins /\ PlanIsCurrent(p) /\ (calm = "settled" => AtRest(p))
  BY <1>1 DEF CalmInv, Calm, InFlight, Cleared
<1>3. PlanNamesObject(p)
  BY <1>1 DEF NamesInv, PlansNameObjects
<1>4. plan[p].kind # "Skip"
  BY <1>3 DEF PlanNamesObject, Transfers, Deletes, ConflictKinds, BothPresent
<1> QED
  BY <1>1, <1>2, <1>3, <1>4 DEF PlanIsCurrent, PlanNamesObject, AtRest

\* A change to one object of a path touches no other path.
LEMMA OtherPathsLive ==
  ASSUME TypeOK, NEW p, NEW q, q # p, NEW i \in ObjId, NEW o,
         drive[i] = None \/ drive[i].path = p, o.path = p, drive' = [drive EXCEPT ![i] = o]
  PROVE  Live(q)' = Live(q) /\ \A j \in Live(q) : drive'[j].data = drive[j].data
<1>1. drive \in [ObjId -> Object \cup {None}]
  BY DEF TypeOK
<1>2. \A j \in ObjId : drive'[j] = IF j = i THEN o ELSE drive[j]
  BY <1>1
<1>3. i \notin Live(q) /\ i \notin Live(q)'
  BY <1>2 DEF Live
<1> QED
  BY <1>2, <1>3 DEF Live

(***************************************************************************)
(* An action that begins leaves its path so that its end puts it to rest.  *)
(***************************************************************************)
LEMMA CalmUpload ==
  ASSUME TypeOK, NamesInv, CalmInv, Calm, NEW p \in Path, Upload(p)
  PROVE  CalmInv'
<1>1. /\ pc = "executing" /\ flight = None /\ NoTwins /\ Now(p) = "Upload"
      /\ ~(calm = "settled" /\ pair.policy = "ask")
  BY CalmNext DEF Upload, ConflictKinds, BothPresent
<1>2. local[p] # None /\ Live(p) = {}
  BY <1>1, NowTells
<1>3. PICK i \in Free :
        /\ drive' = [drive EXCEPT ![i] = [path |-> p, data |-> local[p], trashed |-> FALSE]]
        /\ flight' = [path |-> p, id |-> i, data |-> local[p], stage |-> "known"]
  BY DEF Upload, Fly
<1>4. drive \in [ObjId -> Object \cup {None}] /\ local[p] \in Bytes
  BY <1>2 DEF TypeOK
<1> DEFINE o == [path |-> p, data |-> local[p], trashed |-> FALSE]
<1>5. o \in Object /\ o.path = p /\ o.data = local[p] /\ o.trashed = FALSE
  BY <1>4 DEF Object
<1>11. drive' = [drive EXCEPT ![i] = o] /\ o # None
  BY <1>3, <1>5, NoneAssumption
<1> HIDE DEF o
<1>6. Live(p)' = {i} /\ drive'[i].data = local[p]
  BY <1>2, <1>4, <1>5, <1>11 DEF Live, Free
<1>7. \A q \in Path \ {p} : Untouched(q)
  <2>1. \A q \in Path \ {p} : Live(q)' = Live(q) /\ \A j \in Live(q) : drive'[j].data = drive[j].data
    BY <1>5, <1>11, OtherPathsLive DEF Free
  <2> QED
    BY <2>1 DEF Upload, Untouched
<1>8. flight' # None
  BY <1>3, <1>4, NoneAssumption DEF Flight, Free
<1>9. TransferSettles'
  BY <1>1, <1>2, <1>3, <1>6 DEF Upload, TransferSettles, IsNext, ConflictKinds, BothPresent
<1>10. CalmStep(p)
  BY <1>1, <1>3, <1>7, <1>8 DEF CalmStep, Upload
<1> QED
  BY <1>1, <1>6, <1>8, <1>9, <1>10, CalmExecute

LEMMA CalmUpdateRemote ==
  ASSUME TypeOK, NamesInv, CalmInv, Calm, NEW p \in Path, UpdateRemote(p)
  PROVE  CalmInv'
<1> DEFINE k == plan[p].kind
           i == plan[p].id
<1>1. /\ pc = "executing" /\ flight = None /\ NoTwins /\ PlanIsCurrent(p) /\ k = Now(p)
      /\ k \in Transfers \cup Deletes \cup ConflictKinds
      /\ calm = "settled" /\ pair.policy = "ask" => k \in ConflictKinds
  BY CalmNext DEF UpdateRemote, Update
<1>2. local[p] # None /\ (k = "UpdateRemote" \/ (k \in ConflictKinds /\ pair.policy # "ask"))
  BY DEF UpdateRemote, Update, LocalWins, Resolving, InConflict
<1>3. ObjectOf(i, p)
  BY <1>2, CalmNext DEF UpdateRemote, Update, ConflictKinds, BothPresent
<1>4. /\ k # "LocalDeletedRemoteModified"
      /\ k = "RemoteDeletedLocalModified" => Live(p) = {}
      /\ k # "RemoteDeletedLocalModified" => i \in Live(p)
  BY <1>1, <1>2, NowTells DEF PlanIsCurrent, ConflictKinds, BothPresent
<1>5. drive \in [ObjId -> Object \cup {None}] /\ local[p] \in Bytes /\ drive[i] \in Object
  BY <1>2, <1>3 DEF TypeOK, ObjectOf
<1> DEFINE o == [drive[i] EXCEPT !.data = local[p]]
<1>6. /\ drive' = [drive EXCEPT ![i] = o] /\ o \in Object /\ o # None
      /\ o.path = p /\ o.trashed = drive[i].trashed /\ o.data = local[p]
  BY <1>3, <1>5, NoneAssumption DEF UpdateRemote, Update, Object, ObjectOf
<1> HIDE DEF o
<1>7. Live(p)' = Live(p) /\ drive'[i].data = local[p]
  BY <1>3, <1>5, <1>6 DEF Live, ObjectOf
<1>8. \A q \in Path \ {p} : Untouched(q)
  <2>1. \A q \in Path \ {p} : Live(q)' = Live(q) /\ \A j \in Live(q) : drive'[j].data = drive[j].data
    BY <1>3, <1>6, OtherPathsLive DEF ObjectOf
  <2> QED
    BY <2>1 DEF UpdateRemote, Update, Untouched
<1>9. flight' = [path |-> p, id |-> i, data |-> local[p], stage |-> "known"]
  BY DEF UpdateRemote, Update, Fly
<1>10. flight' # None
  BY <1>3, <1>5, <1>9, NoneAssumption DEF Flight, ObjectOf
<1>11. plan' = plan /\ local' = local /\ pair' = pair
  BY DEF UpdateRemote, Update
<1>12. TransferSettles'
  BY <1>2, <1>4, <1>7, <1>9, <1>11 DEF TransferSettles, ConflictKinds, BothPresent
<1>13. CalmStep(p)
  BY <1>1, <1>8, <1>9, <1>10 DEF CalmStep, UpdateRemote, Update
<1>14. ~(calm = "settled" /\ pair.policy = "ask")
  BY <1>1, <1>2 DEF ConflictKinds, BothPresent
<1>15. (\A a, b \in Live(p) : a = b)'
  BY <1>1, <1>7 DEF NoTwins
<1> QED
  BY <1>10, <1>12, <1>13, <1>14, <1>15, CalmExecute

LEMMA CalmOpenDownload ==
  ASSUME TypeOK, NamesInv, CalmInv, Calm, NEW p \in Path, OpenDownload(p)
  PROVE  CalmInv'
<1> DEFINE k == plan[p].kind
           i == plan[p].id
<1>1. /\ pc = "executing" /\ flight = None /\ NoTwins /\ PlanIsCurrent(p) /\ k = Now(p)
      /\ k \in Transfers \cup Deletes \cup ConflictKinds
      /\ calm = "settled" /\ pair.policy = "ask" => k \in ConflictKinds
  BY CalmNext DEF OpenDownload
<1>2. k = "Download" \/ (k \in ConflictKinds /\ pair.policy # "ask" /\ local[p] # None)
  BY DEF Calm, OpenDownload, RemoteWins, Resolving, InConflict
<1>3. ObjectOf(i, p)
  BY <1>2, CalmNext DEF OpenDownload, ConflictKinds, BothPresent
<1>4. /\ k # "LocalDeletedRemoteModified"
      /\ k = "RemoteDeletedLocalModified" => Live(p) = {}
      /\ k # "RemoteDeletedLocalModified" => i \in Live(p)
  BY <1>1, <1>2, NowTells DEF PlanIsCurrent, ConflictKinds, BothPresent
<1>5. PICK t \in Torn : local' = [local EXCEPT ![p] = t]
  BY DEF OpenDownload
<1>6. /\ UNCHANGED <<pair, drive, index, pc, plan, calm>>
      /\ flight' = [path |-> p, id |-> i, data |-> drive[i].data, stage |-> "streaming"]
  BY DEF OpenDownload, Fly, hist
<1>7. drive[i].data \in Bytes /\ local \in [Path -> Bytes \cup {None}]
  BY <1>3 DEF TypeOK, ObjectOf, Object
<1>8. flight' # None
  BY <1>3, <1>6, <1>7, NoneAssumption DEF Flight, ObjectOf
<1>9. local'[p] \in Torn /\ local'[p] # None
  BY <1>5, <1>7, DataAssumption DEF Bytes
<1>10. \A q \in Path : Live(q)' = Live(q)
  BY <1>6 DEF Live
<1>11. TransferSettles'
  BY <1>2, <1>4, <1>6, <1>9, <1>10 DEF TransferSettles, ConflictKinds, BothPresent
<1>12. \A q \in Path \ {p} : Untouched(q)
  BY <1>5, <1>6, <1>7, <1>10 DEF Untouched
<1>13. CalmStep(p)
  BY <1>1, <1>6, <1>8, <1>12 DEF CalmStep
<1>14. ~(calm = "settled" /\ pair.policy = "ask")
  BY <1>1, <1>2 DEF ConflictKinds, BothPresent
<1>15. (\A a, b \in Live(p) : a = b)'
  BY <1>1, <1>10 DEF NoTwins
<1> QED
  BY <1>8, <1>11, <1>13, <1>14, <1>15, CalmExecute

LEMMA CalmKeepBoth ==
  ASSUME TypeOK, NamesInv, CalmInv, Calm, NEW p \in Path, KeepBoth(p)
  PROVE  CalmInv'
<1> DEFINE k == plan[p].kind
           i == plan[p].id
<1>1. /\ pc = "executing" /\ flight = None /\ NoTwins /\ PlanIsCurrent(p) /\ k = Now(p)
  BY CalmNext DEF KeepBoth
<1>2. k \in ConflictKinds /\ pair.policy = "keep-both"
  BY DEF KeepBoth, Resolving, InConflict
<1>3. ObjectOf(i, p)
  BY <1>2, CalmNext DEF KeepBoth, ConflictKinds, BothPresent
<1>4. /\ k = "LocalDeletedRemoteModified" => local[p] = None
      /\ k = "RemoteDeletedLocalModified" => Live(p) = {}
      /\ k \in BothPresent => i \in Live(p) /\ local[p] # None
  BY <1>1, NowTells DEF PlanIsCurrent, BothPresent
<1>5. /\ UNCHANGED <<pair, local, drive, index, pc, plan, calm>>
      /\ flight' = [path |-> p, id |-> i, data |-> drive[i].data, stage |-> "fetched"]
  BY DEF KeepBoth, Fly, hist
<1>6. drive[i].data \in Bytes
  BY <1>3 DEF TypeOK, ObjectOf, Object
<1>7. flight' # None
  BY <1>3, <1>5, <1>6, NoneAssumption DEF Flight, ObjectOf
<1>8. \A q \in Path : Live(q)' = Live(q)
  BY <1>5 DEF Live
<1>9. TransferSettles'
  BY <1>2, <1>4, <1>5, <1>8 DEF TransferSettles, ConflictKinds, BothPresent
<1>10. CalmStep(p)
  BY <1>1, <1>5, <1>7, <1>8 DEF CalmStep, Untouched
<1>11. (\A a, b \in Live(p) : a = b)'
  BY <1>1, <1>8 DEF NoTwins
<1> QED
  BY <1>2, <1>7, <1>9, <1>10, <1>11, CalmExecute

LEMMA CalmDelete ==
  ASSUME TypeOK, NamesInv, CalmInv, Calm, NEW p \in Path, DeleteLocal(p) \/ DeleteRemote(p)
  PROVE  CalmInv'
<1> DEFINE i == plan[p].id
<1>1. /\ pc = "executing" /\ flight = None /\ NoTwins /\ PlanIsCurrent(p)
      /\ plan[p].kind = Now(p) /\ ~(calm = "settled" /\ pair.policy = "ask")
  BY CalmNext DEF DeleteLocal, DeleteRemote, ConflictKinds, BothPresent
<1>2. /\ local \in [Path -> Bytes \cup {None}] /\ drive \in [ObjId -> Object \cup {None}]
      /\ plan[p].id \in ObjId \cup {None}
  BY DEF TypeOK, Action
<1>3. /\ flight'.path = p /\ flight'.stage = "removed" /\ flight' # None
      /\ UNCHANGED <<pair, index, pc, plan, calm>>
  BY <1>2, NoneAssumption DEF DeleteLocal, DeleteRemote, Fly, Flight, hist
<1>4. ASSUME local'[p] = None, Live(p)' = {}, \A q \in Path \ {p} : Untouched(q) PROVE CalmInv'
  <2>1. TransferSettles'
    BY <1>3, <1>4 DEF TransferSettles
  <2>2. CalmStep(p)
    BY <1>1, <1>3, <1>4 DEF CalmStep
  <2> QED
    BY <1>1, <1>3, <1>4, <2>1, <2>2, CalmExecute
<1>5. CASE DeleteLocal(p)
  <2>1. Live(p) = {}
    BY <1>1, <1>5, NowTells DEF DeleteLocal
  <2>2. \A q \in Path : Live(q)' = Live(q)
    BY <1>5 DEF DeleteLocal, Live
  <2>3. local'[p] = None /\ \A q \in Path \ {p} : Untouched(q)
    BY <1>2, <1>3, <1>5, <2>2 DEF DeleteLocal, Untouched
  <2> QED
    BY <1>4, <2>1, <2>2, <2>3
<1>6. CASE DeleteRemote(p)
  <2>1. local[p] = None /\ i \in Live(p)
    BY <1>1, <1>6, NowTells DEF DeleteRemote, PlanIsCurrent
  <2>2. drive[i] \in Object /\ drive[i] # None /\ drive[i].path = p /\ i \in ObjId
    BY <1>2, <2>1 DEF Live
  <2> DEFINE o == [drive[i] EXCEPT !.trashed = TRUE]
  <2>3. o.path = p /\ o.trashed = TRUE
    BY <2>2 DEF Object
  <2>4. drive' = [drive EXCEPT ![i] = o]
    BY <1>6 DEF DeleteRemote
  <2> HIDE DEF o
  <2>5. Live(p)' = {}
    BY <1>1, <1>2, <2>1, <2>2, <2>3, <2>4 DEF NoTwins, Live
  <2>6. \A q \in Path \ {p} : Live(q)' = Live(q) /\ \A j \in Live(q) : drive'[j].data = drive[j].data
    BY <2>2, <2>3, <2>4, OtherPathsLive
  <2>7. local' = local /\ \A q \in Path \ {p} : Untouched(q)
    BY <1>3, <1>6, <2>6 DEF DeleteRemote, Untouched
  <2> QED
    BY <1>4, <2>1, <2>5, <2>7
<1> QED
  BY <1>5, <1>6

-----------------------------------------------------------------------------
(***************************************************************************)
(* A transfer that advances, and an action that ends.                      *)
(***************************************************************************)
LEMMA CalmAdvance ==
  ASSUME TypeOK, NamesInv, CalmInv, Calm, FinishDownload \/ GetFile
  PROVE  CalmInv'
<1>1. flight # None /\ flight \in Flight /\ flight.stage # "removed"
  BY DEF FinishDownload, GetFile, TypeOK
<1>2. PICK p \in Path : flight.path = p
  BY <1>1 DEF Flight
<1>3. plan[p] # Nothing /\ ObjectOf(flight.id, p) /\ flight.data # None
  BY <1>1, <1>2 DEF NamesInv, FlightNamesObject
<1>4. pc = "executing" /\ NoTwins /\ TransferSettles /\ ~(calm = "settled" /\ pair.policy = "ask")
  BY <1>1, <1>3 DEF NamesInv, PlansNameObjects, PlanNamesObject, CalmInv, Calm
<1>5. UNCHANGED <<pair, drive, index, pc, plan, calm>>
  BY DEF FinishDownload, GetFile, store, hist
<1>6. \A q \in Path : Live(q)' = Live(q)
  BY <1>5 DEF Live
<1>7. /\ flight' # None /\ flight'.path = p /\ flight'.id = flight.id
      /\ FinishDownload => flight'.stage = "fetched"
      /\ GetFile => flight'.stage = "known" /\ flight'.data = drive[flight.id].data
  <2>1. CASE FinishDownload
    <3>1. flight' \in Flight /\ flight'.path = p /\ flight'.id = flight.id /\ flight'.stage = "fetched"
      BY <1>1, <1>2, <2>1 DEF FinishDownload, Flight
    <3> QED
      BY <2>1, <3>1, NoneAssumption DEF FinishDownload, GetFile
  <2>2. CASE GetFile
    <3>1. drive[flight.id].data \in Bytes
      BY <1>3 DEF ObjectOf, TypeOK, Object
    <3>2. /\ flight' \in Flight /\ flight'.path = p /\ flight'.id = flight.id
          /\ flight'.stage = "known" /\ flight'.data = drive[flight.id].data
      BY <1>1, <1>2, <2>2, <3>1 DEF GetFile, Flight
    <3> QED
      BY <2>2, <3>2, NoneAssumption DEF FinishDownload, GetFile
  <2> QED
    BY <2>1, <2>2
<1>8. /\ \A q \in Path \ {p} : local'[q] = local[q]
      /\ local[p] = None /\ flight.stage # "streaming" => local'[p] = None
      /\ local[p] # None /\ (flight.stage = "streaming" => local[p] \in Torn) => local'[p] # None
  <2>1. CASE FinishDownload
    <3>1. PICK d \in Landed(p, flight.data) : local' = [local EXCEPT ![p] = d]
      BY <1>2, <2>1 DEF FinishDownload
    <3>2. local[p] \in Torn => d # None
      BY <1>3, <3>1, DataAssumption DEF Landed, Bytes
    <3> QED
      BY <2>1, <3>1, <3>2 DEF FinishDownload, TypeOK
  <2>2. CASE GetFile
    BY <2>2 DEF GetFile, store
  <2> QED
    BY <2>1, <2>2
<1>9. TransferSettles'
  BY <1>1, <1>2, <1>4, <1>5, <1>6, <1>7, <1>8 DEF TransferSettles
<1>10. CalmStep(p)
  BY <1>2, <1>4, <1>5, <1>6, <1>7, <1>8 DEF CalmStep, Untouched
<1>11. (\A a, b \in Live(p) : a = b)'
  BY <1>4, <1>6 DEF NoTwins
<1> QED
  BY <1>4, <1>7, <1>9, <1>10, <1>11, CalmExecute

LEMMA CalmUpdateIndex ==
  ASSUME TypeOK, NamesInv, CalmInv, Calm, UpdateIndex
  PROVE  CalmInv'
<1>1. flight # None /\ flight \in Flight /\ flight.stage = "known"
  BY DEF UpdateIndex, TypeOK
<1>2. PICK p \in Path, i \in {flight.id}, d \in {flight.data}, k \in {plan[flight.path].kind} :
        flight.path = p /\ flight.id = i /\ flight.data = d /\ plan[p].kind = k
  BY <1>1 DEF Flight
<1>3. plan[p] # Nothing /\ ObjectOf(i, p)
  BY <1>1, <1>2 DEF NamesInv, FlightNamesObject
<1>4. pc = "executing" /\ NoTwins /\ ~(calm = "settled" /\ pair.policy = "ask")
  BY <1>1, <1>3 DEF NamesInv, PlansNameObjects, PlanNamesObject, CalmInv, Calm
<1>5. /\ pair.policy = "ask" => k \notin ConflictKinds
      /\ k = "RemoteDeletedLocalModified" => Live(p) = {}
      /\ k = "LocalDeletedRemoteModified" => local[p] = None
      /\ k \notin {"RemoteDeletedLocalModified", "LocalDeletedRemoteModified"}
           => i \in Live(p) /\ local[p] # None /\ d = drive[i].data
  <2>1. TransferSettles
    BY DEF CalmInv, Calm
  <2>2. /\ pair.policy = "ask" => k \notin ConflictKinds
        /\ CASE k = "RemoteDeletedLocalModified" -> Live(p) = {}
             [] k = "LocalDeletedRemoteModified" -> local[p] = None /\ flight.stage # "streaming"
             [] OTHER -> /\ i \in Live(p)
                         /\ local[p] # None
                         /\ flight.stage = "streaming" => local[p] \in Torn
                         /\ flight.stage = "known" => flight.data = drive[i].data
    BY <1>1, <1>2, <2>1 DEF TransferSettles
  <2> QED
    BY <1>1, <1>2, <2>2
<1>6. /\ UNCHANGED <<pair, local, drive, pc, calm>>
      /\ index' = IF Recorded(p) THEN [index EXCEPT ![p] = RowOf(p, i, d)] ELSE index
      /\ flight' = None /\ plan' = [plan EXCEPT ![p] = Nothing]
  BY <1>2 DEF UpdateIndex, Done, hist
<1>7. plan'[p] = Nothing /\ \A q \in Path \ {p} : plan'[q] = plan[q] /\ index'[q] = index[q]
  BY <1>6 DEF TypeOK
<1>8. \A q \in Path : Live(q)' = Live(q)
  BY <1>6 DEF Live
<1>9. /\ RemoteNow(p)' = RemoteNow(p)
      /\ LocalNow(p)' = LocalNow(p)
  BY <1>6, <1>8 DEF RemoteNow, LocalNow
<1>10. ASSUME k \in {"RemoteDeletedLocalModified", "LocalDeletedRemoteModified"}
       PROVE  AtRest(p)'
  <2>1. pair.policy # "ask" /\ index' = index
    BY <1>2, <1>5, <1>6, <1>10 DEF ConflictKinds, BothPresent, Recorded, InConflict
  <2>2. Now(p) \notin BothPresent
    BY <1>4, <1>5, <1>10, NowTells
  <2>3. Now(p)' = Now(p)
    BY <1>6, <1>9, <2>1 DEF Now
  <2> QED
    BY <1>6, <2>1, <2>2, <2>3 DEF AtRest
<1>11. ASSUME k \notin {"RemoteDeletedLocalModified", "LocalDeletedRemoteModified"}
       PROVE  AtRest(p)'
  <2>1. i \in Live(p) /\ local[p] # None /\ d = drive[i].data
    BY <1>5, <1>11
  <2>2. index'[p] = RowOf(p, i, d)
    BY <1>2, <1>6, <1>11 DEF TypeOK, Recorded, InConflict, ConflictKinds
  <2>3. /\ local[p] \in Bytes /\ LocalNow(p) = Entry(local[p])
        /\ d \in Bytes /\ RemoteNow(p) = Entry(d)
        /\ IsFileOrNone(LocalNow(p)) /\ IsFileOrNone(RemoteNow(p))
    BY <1>4, <2>1, SidesNow
  <2>4. RowOf(p, i, d) \in Row /\ RowOf(p, i, d).localHash = local[p] /\ RowOf(p, i, d).remoteMd5 = d
    BY <1>3, <2>3 DEF RowOf, Row, ObjectOf
  <2>5. PICK l, r, b : l = LocalNow(p) /\ r = RemoteNow(p) /\ b = RowOf(p, i, d)
    OBVIOUS
  <2>6. /\ l # None /\ r # None /\ b # None /\ l.hash = b.localHash /\ r.hash = b.remoteMd5
        /\ IsFileOrNone(l) /\ IsFileOrNone(r)
    BY <2>3, <2>4, <2>5, EntryOfBytes, NoneAssumption
  <2>7. Decide(pair.mode, FALSE, l, r, b) = "Skip"
    BY <2>6, DecisionOnBase
  <2>8. Now(p)' = "Skip"
    BY <1>6, <1>9, <2>2, <2>5, <2>7 DEF Now
  <2> QED
    BY <2>8 DEF AtRest, BothPresent
<1>12. AtRest(p)'
  BY <1>10, <1>11
<1>13. CalmStep(p)
  BY <1>2, <1>4, <1>6, <1>7, <1>8 DEF CalmStep, Untouched
<1>14. TransferSettles' /\ (\A a, b \in Live(p) : a = b)'
  BY <1>4, <1>6, <1>8 DEF TransferSettles, NoTwins
<1> QED
  BY <1>6, <1>12, <1>13, <1>14, CalmExecute

LEMMA CalmDropRow ==
  ASSUME TypeOK, NamesInv, CalmInv, Calm, DropRow
  PROVE  CalmInv'
<1>1. flight # None /\ flight \in Flight /\ flight.stage = "removed"
  BY DEF DropRow, TypeOK
<1>2. PICK p \in Path : flight.path = p
  BY <1>1 DEF Flight
<1>3. plan[p] # Nothing
  BY <1>1, <1>2 DEF NamesInv, FlightNamesObject
<1>4. pc = "executing" /\ NoTwins /\ local[p] = None /\ Live(p) = {}
  BY <1>1, <1>2, <1>3 DEF NamesInv, PlansNameObjects, PlanNamesObject, CalmInv, Calm, TransferSettles
<1>5. /\ UNCHANGED <<pair, local, drive, pc, calm>>
      /\ index' = [index EXCEPT ![p] = None]
      /\ flight' = None /\ plan' = [plan EXCEPT ![p] = Nothing]
  BY <1>2 DEF DropRow, Done, hist
<1>6. plan'[p] = Nothing /\ \A q \in Path \ {p} : plan'[q] = plan[q] /\ index'[q] = index[q]
  BY <1>5 DEF TypeOK
<1>7. \A q \in Path : Live(q)' = Live(q)
  BY <1>5 DEF Live
<1>8. LocalNow(p)' = None /\ RemoteNow(p)' = None
  BY <1>4, <1>5, <1>7 DEF LocalNow, RemoteNow, EntryIn
<1>9. Now(p)' = "Skip"
  BY <1>8, DecisionNeedsSides DEF Now, IsFileOrNone
<1>10. AtRest(p)'
  BY <1>9 DEF AtRest, BothPresent
<1>11. CalmStep(p)
  BY <1>2, <1>4, <1>5, <1>6, <1>7 DEF CalmStep, Untouched
<1>12. TransferSettles' /\ (\A a, b \in Live(p) : a = b)'
  BY <1>4, <1>5, <1>7 DEF TransferSettles, NoTwins
<1> QED
  BY <1>5, <1>10, <1>11, <1>12, CalmExecute

\* A flagged conflict is the same conflict for the next cycle.
LEMMA FlaggingStays ==
  ASSUME TypeOK, NoTwins, NEW p \in Path, Now(p) \in ConflictKinds,
         UNCHANGED <<pair, local, drive>>, index'[p] = FlaggedRow(p), plan[p].id \in ObjId \/ index[p] # None
  PROVE  Now(p)' \in ConflictKinds /\ Flagged(p)'
<1>1. Live(p)' = Live(p)
  BY DEF Live
<1>2. RemoteNow(p)' = RemoteNow(p) /\ LocalNow(p)' = LocalNow(p)
  BY <1>1 DEF RemoteNow, LocalNow
<1>3. PICK l, r, a, b : l = LocalNow(p) /\ r = RemoteNow(p) /\ a = index[p] /\ b = FlaggedRow(p)
  OBVIOUS
<1>4. Now(p) = Decide(pair.mode, FALSE, l, r, a) /\ Now(p)' = Decide(pair.mode, FALSE, l, r, b)
  BY <1>2, <1>3 DEF Now
<1>5. CASE index[p] # None
  <2>1. index[p] \in Row
    BY <1>5 DEF TypeOK
  <2>2. /\ b \in Row /\ b.state = "conflict"
        /\ b.localHash = a.localHash /\ b.remoteMd5 = a.remoteMd5
    BY <1>3, <1>5, <2>1 DEF FlaggedRow, Row
  <2>3. a # None /\ b # None
    BY <1>3, <1>5, <2>2, NoneAssumption
  <2>4. Decide(pair.mode, FALSE, l, r, a) = Decide(pair.mode, FALSE, l, r, b)
    BY <2>2, <2>3 DEF Decide, NewLocal, NewRemote, FirstSync, Tracked, LocalGone, RemoteGone,
       LocalChanged, RemoteChanged
  <2>5. Flagged(p)'
    BY <1>3, <2>2, <2>3 DEF Flagged
  <2> QED
    BY <1>4, <2>4, <2>5
<1>6. CASE index[p] = None
  <2>1. /\ b \in Row /\ b.state = "conflict" /\ b.localHash = None /\ b.remoteMd5 = None
    BY <1>3, <1>6 DEF FlaggedRow, Row
  <2>2. local[p] # None /\ Live(p) # {}
    BY <1>6, NowTells
  <2>3. PICK i \in Live(p) : TRUE
    BY <2>2
  <2>4. /\ local[p] \in Bytes /\ l = Entry(local[p]) /\ drive[i].data \in Bytes /\ r = Entry(drive[i].data)
        /\ IsFileOrNone(l) /\ IsFileOrNone(r)
    BY <1>3, <2>2, SidesNow
  <2>5. l # None /\ r # None /\ b # None /\ l.hash # b.localHash /\ r.hash # b.remoteMd5
    BY <2>1, <2>4, EntryOfBytes, NoneAssumption, DataAssumption
  <2>6. Decide(pair.mode, FALSE, l, r, b) = "BothModified"
    BY <2>4, <2>5, DecisionOffBase
  <2> QED
    BY <1>3, <1>4, <2>1, <2>5, <2>6 DEF Flagged, ConflictKinds, BothPresent
<1> QED
  BY <1>5, <1>6

LEMMA CalmMarkConflict ==
  ASSUME TypeOK, NamesInv, CalmInv, Calm, NEW p \in Path, MarkConflict(p)
  PROVE  CalmInv'
<1>1. /\ pc = "executing" /\ flight = None /\ NoTwins /\ plan[p].kind = Now(p)
      /\ plan[p].kind \notin {"Upload", "DeleteLocal"} => ObjectOf(plan[p].id, p)
  BY CalmNext DEF MarkConflict
<1>2. Now(p) \in ConflictKinds /\ pair.policy = "ask"
  BY <1>1 DEF MarkConflict, Resolving, InConflict
<1>3. /\ UNCHANGED <<pair, local, drive, pc, calm, flight>>
      /\ index' = [index EXCEPT ![p] = FlaggedRow(p)] /\ plan' = [plan EXCEPT ![p] = Nothing]
  BY DEF MarkConflict, Done, hist
<1>4. /\ plan'[p] = Nothing /\ index'[p] = FlaggedRow(p)
      /\ \A q \in Path \ {p} : plan'[q] = plan[q] /\ index'[q] = index[q]
  BY <1>3 DEF TypeOK
<1>5. \A q \in Path : Live(q)' = Live(q)
  BY <1>3 DEF Live
<1>6. plan[p].id \in ObjId
  BY <1>1, <1>2 DEF ObjectOf, ConflictKinds, BothPresent
<1>7. AtRest(p)'
  BY <1>1, <1>2, <1>3, <1>4, <1>6, FlaggingStays DEF AtRest
<1>8. CalmStep(p)
  BY <1>1, <1>3, <1>4, <1>5 DEF CalmStep, Untouched
<1>9. TransferSettles' /\ (\A a, b \in Live(p) : a = b)'
  BY <1>1, <1>3, <1>5 DEF TransferSettles, NoTwins
<1> QED
  BY <1>1, <1>3, <1>7, <1>8, <1>9, CalmExecute

LEMMA CalmLocalMissing ==
  ASSUME TypeOK, NamesInv, CalmInv, Calm, NEW p \in Path, LocalMissing(p)
  PROVE  CalmInv'
<1>1. pc = "executing" /\ flight = None /\ NoTwins /\ plan[p].kind = Now(p)
  BY CalmNext DEF LocalMissing
<1>2. /\ local[p] = None
      /\ plan[p].kind \in {"Upload", "UpdateRemote"} \/ pair.policy \in {"prefer-local", "newest-wins"}
  BY DEF LocalMissing, LocalWins, Resolving
<1>3. Now(p) \notin BothPresent /\ pair.policy # "ask"
  BY <1>1, <1>2, NowTells
<1>4. /\ UNCHANGED <<pair, local, drive, index, pc, calm, flight>>
      /\ plan' = [plan EXCEPT ![p] = Nothing]
  BY DEF LocalMissing, Done, store, hist
<1>5. plan'[p] = Nothing /\ \A q \in Path \ {p} : plan'[q] = plan[q]
  BY <1>4 DEF TypeOK
<1>6. \A q \in Path : Live(q)' = Live(q)
  BY <1>4 DEF Live
<1>7. Now(p)' = Now(p)
  BY <1>4, <1>6 DEF Now, LocalNow, RemoteNow
<1>8. AtRest(p)'
  BY <1>3, <1>4, <1>7 DEF AtRest
<1>9. CalmStep(p)
  BY <1>1, <1>4, <1>5, <1>6 DEF CalmStep, Untouched
<1>10. TransferSettles' /\ (\A a, b \in Live(p) : a = b)'
  BY <1>1, <1>4, <1>6 DEF TransferSettles, NoTwins
<1> QED
  BY <1>1, <1>4, <1>8, <1>9, <1>10, CalmExecute

-----------------------------------------------------------------------------
(***************************************************************************)
(* The first half of the cycle, which finds both sides as they are.        *)
(***************************************************************************)
LEMMA CalmScan ==
  ASSUME TypeOK, NamesInv, CalmInv, ScanLocal
  PROVE  CalmInv'
<1>1. /\ pc = "idle" /\ pc' = "listing" /\ scan' = {p \in Path : local[p] # None}
      /\ UNCHANGED <<pair, local, drive, index, plan, flight>>
      /\ calm' = IF calm = "no" /\ NoTwins THEN "cycling" ELSE calm
  BY DEF ScanLocal, store
<1>2. flight = None /\ \A p \in Path : plan[p] = Nothing
  BY <1>1 DEF NamesInv, PlansNameObjects, PlanNamesObject, FlightNamesObject, TypeOK, Flight
<1>3. \A p \in Path : Live(p)' = Live(p)
  BY <1>1 DEF Live
<1>4. NoTwins' <=> NoTwins
  BY <1>3 DEF NoTwins
<1>5. SnapshotsAreCurrent' /\ TransferSettles'
  BY <1>1, <1>2 DEF SnapshotsAreCurrent, TransferSettles
<1>6. \A p \in Path : AtRest(p) => AtRest(p)'
  BY <1>1, <1>3 DEF AtRest, Now, LocalNow, RemoteNow, Flagged
<1>7. \A p \in Path : Cleared(p)' => calm = "settled"
  BY <1>1 DEF Cleared
<1>8. CASE calm = "no"
  BY <1>1, <1>2, <1>4, <1>5, <1>7, <1>8 DEF CalmInv
<1>9. CASE calm # "no"
  <2> SUFFICES ASSUME Calm PROVE CalmInv'
    BY <1>1, <1>9 DEF Calm, CalmInv
  <2>1. NoTwins /\ \A p \in Path : calm = "settled" => AtRest(p)
    BY <1>2, <1>9 DEF CalmInv, Calm, Cleared, InFlight
  <2> QED
    BY <1>1, <1>2, <1>4, <1>5, <1>6, <1>7, <2>1 DEF CalmInv, Nothing, BothPresent
<1> QED
  BY <1>8, <1>9

LEMMA CalmList ==
  ASSUME TypeOK, NamesInv, CalmInv, Calm, ListRemote
  PROVE  CalmInv'
<1>1. /\ pc = "listing" /\ pc' = "comparing"
      /\ UNCHANGED <<pair, local, drive, index, scan, plan, flight, calm>>
  BY DEF ListRemote, store, hist
<1>2. flight = None /\ \A p \in Path : plan[p] = Nothing
  BY <1>1 DEF NamesInv, PlansNameObjects, PlanNamesObject, FlightNamesObject, TypeOK, Flight
<1>3. /\ NoTwins /\ SnapshotsAreCurrent
      /\ \A p \in Path : calm = "settled" => AtRest(p)
  BY <1>2 DEF CalmInv, Calm, Cleared, InFlight
<1>4. \A p \in Path : Live(p)' = Live(p)
  BY <1>1 DEF Live
<1>5. NoTwins' /\ TransferSettles'
  BY <1>1, <1>2, <1>3, <1>4 DEF NoTwins, TransferSettles
<1>6. PICK pick \in [Path -> ObjId \cup {None}] :
        /\ \A p \in Path : IF Live(p) = {} THEN pick[p] = None ELSE pick[p] \in Live(p)
        /\ listed' = [p \in Path |->
             IF pick[p] = None THEN None ELSE [id |-> pick[p], md5 |-> drive[pick[p]].data]]
  BY DEF ListRemote
<1>7. ASSUME NEW p \in Path
      PROVE  /\ listed'[p] = None => Live(p) = {}
             /\ listed'[p] # None =>
                  listed'[p].id \in Live(p) /\ listed'[p].md5 = drive[listed'[p].id].data
  <2>1. listed'[p] = IF pick[p] = None THEN None ELSE [id |-> pick[p], md5 |-> drive[pick[p]].data]
    BY <1>6
  <2>2. CASE Live(p) = {}
    BY <1>6, <2>1, <2>2
  <2>3. CASE Live(p) # {}
    <3>1. pick[p] \in Live(p) /\ pick[p] # None
      BY <1>6, <2>3, IdAssumption DEF Live
    <3>2. drive[pick[p]].data \in Bytes /\ pick[p] \in ObjId
      BY <3>1 DEF Live, TypeOK, Object
    <3>3. listed'[p] \in Seen /\ listed'[p] # None
      BY <2>1, <3>1, <3>2, NoneAssumption DEF Seen
    <3> QED
      BY <2>1, <3>1, <3>3
  <2> QED
    BY <2>2, <2>3
<1>8. SnapshotsAreCurrent'
  BY <1>1, <1>3, <1>4, <1>7 DEF SnapshotsAreCurrent
<1>9. \A p \in Path : (AtRest(p) => AtRest(p)') /\ (Cleared(p)' => calm = "settled")
  BY <1>1, <1>4 DEF AtRest, Now, LocalNow, RemoteNow, Flagged, Cleared
<1> QED
  BY <1>1, <1>2, <1>3, <1>5, <1>8, <1>9 DEF CalmInv, Nothing, BothPresent

LEMMA CalmCompare ==
  ASSUME TypeOK, NamesInv, CalmInv, Calm, Compare
  PROVE  CalmInv'
<1>1. /\ pc = "comparing" /\ pc' = "executing" /\ plan' = [p \in Path |-> Planned(p)]
      /\ UNCHANGED <<pair, local, drive, index, flight, calm>>
  BY DEF Compare, store, hist
<1>2. flight = None /\ \A p \in Path : plan[p] = Nothing
  BY <1>1 DEF NamesInv, PlansNameObjects, PlanNamesObject, FlightNamesObject, TypeOK, Flight
<1>3. /\ NoTwins /\ SnapshotsAreCurrent
      /\ \A p \in Path : calm = "settled" => AtRest(p)
  BY <1>2 DEF CalmInv, Calm, Cleared, InFlight
<1>4. \A p \in Path : Live(p)' = Live(p)
  BY <1>1 DEF Live
<1>5. NoTwins' /\ TransferSettles' /\ SnapshotsAreCurrent'
  BY <1>1, <1>2, <1>3, <1>4 DEF NoTwins, TransferSettles, SnapshotsAreCurrent
<1>6. \A p \in Path : Now(p)' = Now(p) /\ (AtRest(p) => AtRest(p)')
  BY <1>1, <1>4 DEF AtRest, Now, LocalNow, RemoteNow, Flagged
<1>7. ASSUME NEW p \in Path
      PROVE  /\ plan'[p].kind = Now(p)
             /\ Now(p) \notin {"Skip", "Upload", "DeleteLocal", "RemoteDeletedLocalModified"}
                  => plan'[p].id \in Live(p)
             /\ plan'[p] = Nothing => Now(p) = "Skip"
  <2>1. /\ p \in scan <=> local[p] # None
        /\ listed[p] = None => Live(p) = {}
        /\ listed[p] # None => listed[p].id \in Live(p) /\ listed[p].md5 = drive[listed[p].id].data
    BY <1>1, <1>3 DEF SnapshotsAreCurrent
  <2>2. LocalEntry(p) = LocalNow(p)
    BY <2>1 DEF LocalEntry, LocalNow
  <2>3. RemoteEntry(p) = RemoteNow(p)
    BY <1>3, <2>1, OneEntry DEF RemoteEntry, RemoteNow, NoTwins, Live
  <2>4. Planned(p).kind = Now(p)
    BY <2>2, <2>3, PlannedFacts DEF Now
  <2>5. Now(p) \notin {"Skip", "Upload", "DeleteLocal", "RemoteDeletedLocalModified"}
          => Planned(p).id = listed[p].id /\ listed[p] # None
    <3>1. PICK k : k = Now(p)
      OBVIOUS
    <3>2. Planned(p) = [kind |-> k,
                        id |-> CASE k \in {"Skip", "Upload", "DeleteLocal"} -> None
                                 [] k = "RemoteDeletedLocalModified" -> index[p].remoteId
                                 [] OTHER -> listed[p].id]
      BY <2>2, <2>3, <3>1 DEF Planned, Now
    <3>3. Live(p) = {} => k \in {"Skip", "Upload", "DeleteLocal", "RemoteDeletedLocalModified"}
      BY <1>3, <3>1, NowWithoutRemote
    <3> QED
      BY <2>1, <3>1, <3>2, <3>3
  <2>6. Nothing.kind = "Skip"
    BY DEF Nothing
  <2> QED
    BY <1>1, <2>1, <2>4, <2>5, <2>6
<1>8. \A p \in Path : PlanIsCurrent(p)'
  BY <1>4, <1>6, <1>7 DEF PlanIsCurrent
<1>9. \A p \in Path : Cleared(p)' => AtRest(p)'
  BY <1>1, <1>3, <1>6, <1>7 DEF Cleared, AtRest, BothPresent
<1>10. calm = "settled" => \A p \in Path : plan'[p].kind \notin BothPresent \/ pair.policy = "ask"
  BY <1>3, <1>7 DEF AtRest
<1> QED
  BY <1>1, <1>2, <1>5, <1>8, <1>9, <1>10 DEF CalmInv

LEMMA CalmEnd ==
  ASSUME TypeOK, NamesInv, CalmInv, Calm, EndCycle
  PROVE  CalmInv'
<1>1. /\ pc = "executing" /\ pc' = "idle" /\ flight = None
      /\ \A p \in Path : plan[p] = Nothing
      /\ UNCHANGED <<pair, local, drive, index, plan, flight>>
  BY DEF EndCycle, store
<1>2. NoTwins /\ \A p \in Path : AtRest(p)
  BY <1>1 DEF CalmInv, Calm, Cleared, InFlight
<1>3. \A p \in Path : Live(p)' = Live(p)
  BY <1>1 DEF Live
<1>4. NoTwins' /\ TransferSettles' /\ SnapshotsAreCurrent'
  BY <1>1, <1>2, <1>3 DEF NoTwins, TransferSettles, SnapshotsAreCurrent
<1>5. \A p \in Path : AtRest(p)'
  BY <1>1, <1>2, <1>3 DEF AtRest, Now, LocalNow, RemoteNow, Flagged
<1> QED
  BY <1>1, <1>4, <1>5 DEF CalmInv, Nothing, BothPresent

-----------------------------------------------------------------------------
LEMMA InitCalm == Init => CalmInv
BY DEF Init, CalmInv

LEMMA CalmNextStep == TypeOK /\ NamesInv /\ CalmInv /\ [Next]_vars => CalmInv'
<1> SUFFICES ASSUME TypeOK, NamesInv, CalmInv, [Next]_vars PROVE CalmInv'
  OBVIOUS
<1>1. CASE ActionFails \/ CycleEnds \/ User
  <2>1. calm' = "no"
    BY <1>1 DEF ActionFails, CycleEnds, Fault, User, RemoveLocal, TrashRemote, WriteLocal,
       EditRemote, CreateRemote, UserOp
  <2> QED
    BY <2>1 DEF CalmInv
<1>2. CASE ScanLocal
  BY <1>2, CalmScan
<1>3. CASE UNCHANGED vars
  <2>1. \A p \in Path : Live(p)' = Live(p)
    BY <1>3 DEF vars, store, Live
  <2>2. \A p \in Path : RemoteNow(p)' = RemoteNow(p) /\ LocalNow(p)' = LocalNow(p)
    BY <1>3, <2>1 DEF vars, store, RemoteNow, LocalNow
  <2>3. \A p \in Path : Now(p)' = Now(p)
    BY <1>3, <2>2 DEF vars, store, Now
  <2>4. UNCHANGED <<pair, local, drive, index, pc, scan, listed, plan, flight, calm>>
    BY <1>3 DEF vars, store, cycle, hist
  <2>5. (NoTwins => NoTwins') /\ (SnapshotsAreCurrent => SnapshotsAreCurrent')
    BY <2>1, <2>4 DEF NoTwins, SnapshotsAreCurrent
  <2>6. TransferSettles => TransferSettles'
    BY <2>1, <2>4 DEF TransferSettles, TypeOK, Flight
  <2>7. ASSUME NEW p \in Path
        PROVE  /\ PlanIsCurrent(p) => PlanIsCurrent(p)'
               /\ AtRest(p) => AtRest(p)'
               /\ Cleared(p)' => Cleared(p)
               /\ ~InFlight(p)' => ~InFlight(p)
    BY <2>1, <2>3, <2>4 DEF PlanIsCurrent, AtRest, Cleared, InFlight, Flagged
  <2> SUFFICES ASSUME Calm PROVE CalmInv'
    BY <2>4 DEF Calm, CalmInv
  <2>8. NoTwins' /\ SnapshotsAreCurrent' /\ TransferSettles'
    BY <2>5, <2>6 DEF CalmInv, Calm
  <2>9. ASSUME NEW p \in Path, ~InFlight(p)'
        PROVE  /\ plan'[p] # Nothing => PlanIsCurrent(p)'
               /\ Cleared(p)' => AtRest(p)'
    <3>1. ~InFlight(p)
      BY <2>7, <2>9
    <3>2. (plan[p] # Nothing => PlanIsCurrent(p)) /\ (Cleared(p) => AtRest(p))
      BY <3>1 DEF CalmInv, Calm
    <3> QED
      BY <2>4, <2>7, <3>2
  <2>10. calm' = "settled" =>
          /\ \A p \in Path : plan'[p].kind \notin BothPresent \/ pair'.policy = "ask"
          /\ pair'.policy = "ask" => flight' = None
    BY <2>4 DEF CalmInv, Calm
  <2> QED
    BY <2>8, <2>9, <2>10 DEF CalmInv
<1>4. CASE Engine /\ ~ScanLocal
  <2>1. calm' # "no" /\ pair' = pair => calm # "no"
    BY <1>4 DEF Engine, Execute, ListRemote, Compare, EndCycle, Upload, UpdateRemote, Update, OpenDownload,
       KeepBoth, MarkConflict, DeleteLocal, DeleteRemote, LocalMissing, FinishDownload, GetFile,
       UpdateIndex, DropRow, hist
  <2>2. pair' = pair
    BY <1>4 DEF Engine, Execute, ListRemote, Compare, EndCycle, Upload, UpdateRemote, Update, OpenDownload,
       KeepBoth, MarkConflict, DeleteLocal, DeleteRemote, LocalMissing, FinishDownload, GetFile,
       UpdateIndex, DropRow
  <2>3. SUFFICES ASSUME Calm PROVE CalmInv'
    BY <2>1, <2>2 DEF Calm, CalmInv
  <2>4. ASSUME NEW p \in Path, Execute(p) PROVE CalmInv'
    BY <2>3, <2>4, CalmUpload, CalmUpdateRemote, CalmOpenDownload, CalmKeepBoth, CalmDelete,
       CalmMarkConflict, CalmLocalMissing DEF Execute
  <2> QED
    BY <1>4, <2>3, <2>4, CalmList, CalmCompare, CalmEnd, CalmAdvance, CalmUpdateIndex, CalmDropRow
       DEF Engine
<1> QED
  BY <1>1, <1>2, <1>3, <1>4 DEF Next

(***************************************************************************)
(* What a cycle knows while nobody else moves anything, for every set of   *)
(* paths and contents and every interleaving before it (run_sync).         *)
(***************************************************************************)
THEOREM CalmInvariant == Spec => [](TypeOK /\ NamesInv /\ CalmInv)
BY InitNames, InitCalm, TypeStep, NamesStep, CalmNextStep, PTL DEF Spec

(***************************************************************************)
(* A resolved conflict stays resolved: no conflict between two live files  *)
(* is found again after an undisturbed cycle (handle_conflict).            *)
(***************************************************************************)
THEOREM ConvergenceTheorem == Spec => []ResolutionConverges
<1>1. CalmInv => ResolutionConverges
  BY DEF CalmInv, ResolutionConverges
<1> QED
  BY <1>1, CalmInvariant, PTL

(***************************************************************************)
(* After an undisturbed cycle the engine changes neither side nor the      *)
(* index any more, until a user or a fault does (run_sync).                *)
(***************************************************************************)
THEOREM RepeatTheorem == Spec => RepeatSyncDoesNothing
<1>1. TypeOK /\ NamesInv /\ CalmInv /\ [Next]_vars
        => [Undisturbed /\ calm = "settled" => UNCHANGED store]_vars
  <2> SUFFICES ASSUME TypeOK, NamesInv, CalmInv, Next, Undisturbed, calm = "settled"
               PROVE  UNCHANGED store
    OBVIOUS
  <2>1. Calm /\ pair.policy = "ask" /\ flight = None /\ ops \in Nat /\ faults \in Nat
    BY DEF Calm, CalmInv, Undisturbed, TypeOK
  <2>2. ~(ActionFails \/ CycleEnds \/ User)
    BY <2>1 DEF Undisturbed, ActionFails, CycleEnds, Fault, User, RemoveLocal, TrashRemote,
       WriteLocal, EditRemote, CreateRemote, UserOp
  <2>3. CASE ScanLocal \/ ListRemote \/ Compare \/ EndCycle
    BY <2>3 DEF ScanLocal, ListRemote, Compare, EndCycle
  <2>4. ~(FinishDownload \/ GetFile \/ UpdateIndex \/ DropRow)
    BY <2>1 DEF FinishDownload, GetFile, UpdateIndex, DropRow
  <2>5. ASSUME NEW p \in Path, Execute(p) PROVE UNCHANGED store
    <3>1. IsNext(p)
      BY <2>5 DEF Execute, Upload, UpdateRemote, Update, OpenDownload, KeepBoth, MarkConflict, DeleteLocal,
         DeleteRemote, LocalMissing
    <3>2. plan[p].kind \in ConflictKinds /\ plan[p].kind = Now(p) /\ AtRest(p)
      BY <2>1, <3>1, CalmNext
    <3>3. index[p] # None /\ index[p].state = "conflict" /\ index[p] \in Row
      BY <2>1, <3>2 DEF AtRest, Flagged, ConflictKinds, BothPresent, TypeOK
    <3>4. FlaggedRow(p) = index[p]
      BY <3>3 DEF FlaggedRow, Row
    <3>5. MarkConflict(p) => UNCHANGED store
      BY <3>4 DEF MarkConflict, store, TypeOK
    <3>6. LocalMissing(p) => UNCHANGED store
      BY DEF LocalMissing
    <3> QED
      BY <2>1, <2>5, <3>2, <3>5, <3>6 DEF Execute, Upload, UpdateRemote, Update, OpenDownload, KeepBoth,
         DeleteLocal, DeleteRemote, LocalWins, RemoteWins, Resolving, ConflictKinds, BothPresent
  <2> QED
    BY <2>2, <2>3, <2>4, <2>5 DEF Next, Engine
<1> QED
  BY <1>1, CalmInvariant, PTL DEF Spec, RepeatSyncDoesNothing
=============================================================================
