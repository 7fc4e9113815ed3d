---------------------------- MODULE ClientsProofs ----------------------------
(***************************************************************************)
(* For any number of pairs, requests, commands and faults: the app's       *)
(* in-flight guard implements the lock of PairLock, and an encrypted row   *)
(* has its key unless the user revoked it.                                 *)
(***************************************************************************)
EXTENDS Clients, TLAPS

-----------------------------------------------------------------------------
(***************************************************************************)
(* The guard.  Every step of the system does one of five things to it.     *)
(***************************************************************************)
GuardType == inflight \subseteq Pair /\ task \in [Task -> Busy \cup {Idle}]
GuardInv  == GuardType /\ GuardHolds

LeavesGuard   == UNCHANGED <<inflight, task>>
Claims(t, p)  == /\ p \notin inflight /\ task[t] = Idle
                 /\ inflight' = inflight \cup {p}
                 /\ task' = [task EXCEPT ![t] = [stage |-> "claimed", pair |-> p]]
Starts(t, p)  == /\ task[t] = [stage |-> "claimed", pair |-> p]
                 /\ task' = [task EXCEPT ![t].stage = "cycling"] /\ UNCHANGED inflight
Releases(t, p) == On(t, p) /\ Release(t, p)

GuardStep == \/ LeavesGuard \/ Fresh
             \/ \E t \in Task, p \in Pair : Claims(t, p) \/ Starts(t, p) \/ Releases(t, p)

LEMMA TaskFact == AutoSync \in Task /\ Button \subseteq Task
BY DEF Task

LEMMA StageFacts ==
  ASSUME GuardType, NEW t \in Task, NEW p \in Pair
  PROVE  /\ [stage |-> "claimed", pair |-> p] # Idle /\ [stage |-> "cycling", pair |-> p] # Idle
         /\ task[t] = [stage |-> "claimed", pair |-> p] => On(t, p)
         /\ task[t] = [stage |-> "cycling", pair |-> p] => On(t, p)
<1>1. /\ [stage |-> "claimed", pair |-> p].stage # Idle.stage
      /\ [stage |-> "cycling", pair |-> p].stage # Idle.stage
      BY DEF Idle
<1> QED BY <1>1 DEF On

LEMMA RunSyncSteps ==
  ASSUME GuardType, NEW t \in Task, RunSync(t)
  PROVE  GuardStep
<1>1. PICK p \in Pair : StartCycle(t, p) \/ CannotStart(t, p) \/ EndCycle(t, p)
      BY DEF RunSync
<1>2. CASE StartCycle(t, p)
      BY <1>2 DEF StartCycle, GuardStep, Starts
<1>3. CASE CannotStart(t, p)
      BY <1>3, StageFacts DEF CannotStart, GuardStep, Releases
<1>4. CASE EndCycle(t, p)
      BY <1>4, StageFacts DEF EndCycle, GuardStep, Releases
<1> QED BY <1>1, <1>2, <1>3, <1>4

LEMMA ClaimSteps ==
  ASSUME NEW t \in Task, NEW p \in Pair, task[t] = Idle, Claim(t, p)
  PROVE  GuardStep
BY DEF Claim, GuardStep, LeavesGuard, Claims

LEMMA LoopSteps == Loop => GuardStep
<1> SUFFICES ASSUME Loop PROVE GuardStep
    OBVIOUS
<1>1. CASE Tick
      BY <1>1 DEF Tick, GuardStep, LeavesGuard
<1>2. ASSUME NEW p \in Pair, Visit(p) PROVE GuardStep
  <2>1. CASE UNCHANGED <<inflight, task>>
        BY <2>1 DEF GuardStep, LeavesGuard
  <2>2. CASE Claim(AutoSync, p)
        BY <1>2, <2>2, ClaimSteps, TaskFact DEF Visit
  <2> QED BY <1>2, <2>1, <2>2 DEF Visit
<1> QED BY <1>1, <1>2 DEF Loop

LEMMA AllSteps == GuardType /\ [Next]_vars => GuardStep
<1> SUFFICES ASSUME GuardType, [Next]_vars PROVE GuardStep
    OBVIOUS
<1>1. CASE UNCHANGED vars
      BY <1>1 DEF vars, desktop, GuardStep, LeavesGuard
<1>2. CASE RegistryNext /\ UNCHANGED <<desktop, world, others>>
      BY <1>2 DEF desktop, GuardStep, LeavesGuard
<1>3. CASE Desktop
  <2>1. CASE Loop
        BY <2>1, LoopSteps
  <2>2. ASSUME NEW t \in Task, RunSync(t) PROVE GuardStep
        BY <2>2, RunSyncSteps
  <2>3. ASSUME NEW p \in Pair, Elapse(p) PROVE GuardStep
        BY <2>3 DEF Elapse, GuardStep, LeavesGuard
  <2> QED BY <1>3, <2>1, <2>2, <2>3 DEF Desktop, DesktopStep
<1>4. CASE CrashApp
      BY <1>4 DEF CrashApp, GuardStep
<1>5. ASSUME NEW t \in Button, NEW p \in Pair, SyncNow(t, p) PROVE GuardStep
      BY <1>5, ClaimSteps, TaskFact DEF SyncNow
<1>6. CASE StartDaemon \/ DaemonStep \/ StopDaemon
      BY <1>6 DEF StartDaemon, DaemonStep, StopDaemon, DaemonDone, DaemonTurns, DaemonVisit,
                  DaemonElapse, desktop, GuardStep, LeavesGuard
<1>7. CASE CliSync \/ CliStep
      BY <1>7 DEF CliSync, CliStep, CliDone, CliExits, CliVisit, desktop, GuardStep, LeavesGuard
<1>8. ASSUME NEW p \in Pair, Change(p) PROVE GuardStep
      BY <1>8 DEF Change, GuardStep, LeavesGuard
<1> QED BY <1>1, <1>2, <1>3, <1>4, <1>5, <1>6, <1>7, <1>8 DEF Next

(***************************************************************************)
(* Each of the five keeps the guard and maps to a step of the lock.        *)
(***************************************************************************)
held     == {h \in Task \X Pair : On(h[1], h[2])}
LockStep == Lock!Next \/ held' = held

LEMMA ClaimKeeps ==
  ASSUME GuardInv, NEW t \in Task, NEW p \in Pair, Claims(t, p)
  PROVE  GuardInv' /\ LockStep
<1> USE DEF GuardInv, GuardType
<1>1. /\ task' \in [Task -> Busy \cup {Idle}] /\ inflight' \subseteq Pair
      BY DEF Claims, Busy
<1>2. \A s \in Task, q \in Pair : On(s, q)' <=> On(s, q) \/ (s = t /\ q = p)
      BY StageFacts DEF Claims, On
<1>3. \A s \in Task : ~On(s, p)
      BY DEF Claims, GuardHolds
<1>4. \A q \in Pair : ~On(t, q)
      BY DEF Claims, On
<1>5. GuardHolds'
  <2>1. inflight' = {q \in Pair : \E s \in Task : On(s, q)'}
        BY <1>2 DEF Claims, GuardHolds
  <2>2. \A r, s \in Task, q \in Pair : On(r, q)' /\ On(s, q)' => r = s
        BY <1>2, <1>3 DEF GuardHolds
  <2> QED BY <2>1, <2>2 DEF GuardHolds
<1>6. held' = held \cup {<<t, p>>}
      BY <1>2 DEF held
<1>7. \A h \in held : h[1] # t /\ h[2] # p
      BY <1>3, <1>4 DEF held
<1>8. LockStep
      BY <1>6, <1>7 DEF held, LockStep, Lock!Next, Lock!Acquire, Lock!Free
<1> QED BY <1>1, <1>5, <1>8

LEMMA StartKeeps ==
  ASSUME GuardInv, NEW t \in Task, NEW p \in Pair, Starts(t, p)
  PROVE  GuardInv' /\ LockStep
<1> USE DEF GuardInv, GuardType
<1>1. task' = [task EXCEPT ![t] = [stage |-> "cycling", pair |-> p]]
  <2>1. [task[t] EXCEPT !.stage = "cycling"] = [stage |-> "cycling", pair |-> p]
        BY DEF Starts
  <2> QED BY <2>1 DEF Starts
<1>2. task' \in [Task -> Busy \cup {Idle}]
      BY <1>1 DEF Busy
<1>3. \A s \in Task, q \in Pair : On(s, q)' <=> On(s, q)
      BY <1>1, StageFacts DEF Starts, On
<1>4. GuardHolds'
      BY <1>3 DEF Starts, GuardHolds
<1>5. held' = held
      BY <1>3 DEF held
<1> QED BY <1>2, <1>4, <1>5 DEF Starts, LockStep

LEMMA ReleaseKeeps ==
  ASSUME GuardInv, NEW t \in Task, NEW p \in Pair, Releases(t, p)
  PROVE  GuardInv' /\ LockStep
<1> USE DEF GuardInv, GuardType
<1>1. task' \in [Task -> Busy \cup {Idle}] /\ inflight' \subseteq Pair
      BY DEF Releases, Release
<1>2. \A s \in Task, q \in Pair : On(s, q)' <=> On(s, q) /\ s # t
      BY DEF Releases, Release, On
<1>3. \A q \in Pair : On(t, q) => q = p
      BY DEF Releases, On
<1>4. GuardHolds'
  <2>1. inflight' = {q \in Pair : \E s \in Task : On(s, q)'}
        BY <1>2, <1>3 DEF Releases, Release, GuardHolds
  <2>2. \A r, s \in Task, q \in Pair : On(r, q)' /\ On(s, q)' => r = s
        BY <1>2 DEF GuardHolds
  <2> QED BY <2>1, <2>2 DEF GuardHolds
<1>5. <<t, p>> \in held /\ held' = held \ {<<t, p>>}
      BY <1>2, <1>3 DEF Releases, held
<1>6. LockStep
      BY <1>5 DEF held, LockStep, Lock!Next, Lock!Release
<1> QED BY <1>1, <1>4, <1>6

LEMMA FreshKeeps == GuardInv /\ Fresh => GuardInv' /\ LockStep
<1> SUFFICES ASSUME GuardInv, Fresh PROVE GuardInv' /\ LockStep
    OBVIOUS
<1>1. \A s \in Task, q \in Pair : ~On(s, q)'
      BY DEF Fresh, On
<1>2. GuardInv'
      BY <1>1 DEF Fresh, GuardInv, GuardType, GuardHolds
<1>3. held' = {}
      BY <1>1 DEF held
<1> QED BY <1>2, <1>3 DEF held, LockStep, Lock!Next, Lock!ReleaseAll

LEMMA LeaveKeeps == GuardInv /\ LeavesGuard => GuardInv' /\ LockStep
<1> SUFFICES ASSUME GuardInv, LeavesGuard PROVE GuardInv' /\ LockStep
    OBVIOUS
<1>1. \A s \in Task, q \in Pair : On(s, q)' <=> On(s, q)
      BY DEF LeavesGuard, On
<1> QED BY <1>1 DEF LeavesGuard, GuardInv, GuardType, GuardHolds, LockStep, held

THEOREM InitGuard == Init => GuardInv /\ Lock!Init
<1> SUFFICES ASSUME Init PROVE GuardInv /\ Lock!Init
    OBVIOUS
<1>1. \A s \in Task, q \in Pair : ~On(s, q)
      BY DEF Init, DesktopInit, On
<1> QED BY <1>1 DEF Init, DesktopInit, GuardInv, GuardType, GuardHolds, Lock!Init, held

THEOREM NextGuard == GuardInv /\ [Next]_vars => GuardInv' /\ LockStep
<1> SUFFICES ASSUME GuardInv, [Next]_vars PROVE GuardInv' /\ LockStep
    OBVIOUS
<1>1. GuardStep
      BY AllSteps DEF GuardInv
<1> QED BY <1>1, ClaimKeeps, StartKeeps, ReleaseKeeps, FreshKeeps, LeaveKeeps DEF GuardStep

(***************************************************************************)
(* The in-flight guard implements the lock, for any number of requests.    *)
(***************************************************************************)
THEOREM GuardTheorem == Spec => GuardIsALock
<1>1. LockStep => [Lock!Next]_{h \in Task \X Pair : On(h[1], h[2])}
      BY DEF LockStep, held
<1> QED BY InitGuard, NextGuard, <1>1, PTL DEF Spec, GuardIsALock, Lock!Spec

(***************************************************************************)
(* What the lock is for: in the desktop app no two tasks, be it the        *)
(* auto-sync loop or a Sync Now, are ever in a cycle of the same pair.     *)
(***************************************************************************)
THEOREM ExclusiveTheorem == Spec => []Lock!Exclusive
<1>1. GuardInv => Lock!Exclusive
      BY DEF GuardInv, GuardHolds, Lock!Exclusive
<1>2. GuardInv /\ [Next]_vars => GuardInv'
      BY NextGuard
<1> QED BY InitGuard, <1>1, <1>2, PTL DEF Spec

-----------------------------------------------------------------------------
(***************************************************************************)
(* The types.  One lemma per module's actions; what an action of one       *)
(* module leaves of the others is UNCHANGED.                               *)
(***************************************************************************)
DaemonTypeOK == /\ daemon \in Daemon \cup {None}
                /\ dDue \subseteq Pair /\ dEvents \subseteq Pair
CliTypeOK    == cli \in Cli \cup {None}

LEMMA CountType ==
  ASSUME commands \in 0..MaxCommands, Count PROVE commands' \in 0..MaxCommands
BY PairAssumption DEF Count

LEMMA FaultType ==
  ASSUME faults \in 0..MaxFaults, Fault PROVE faults' \in 0..MaxFaults
BY TaskAssumption DEF Fault

LEMMA CommandType ==
  ASSUME NEW p \in Pair
  PROVE  /\ \A op \in {"insert", "rollback", "forget", "unlock"} :
              [op |-> op, pair |-> p] \in Command
         /\ \A v \in {"on", "off"} : [op |-> "settings", value |-> v] \in Command
BY DEF Command

LEMMA RegistryType == RegistryTypeOK /\ RegistryNext => RegistryTypeOK'
<1> SUFFICES ASSUME RegistryTypeOK, RegistryNext PROVE RegistryTypeOK'
    OBVIOUS
<1> USE DEF RegistryTypeOK
<1>a. commands' \in 0..MaxCommands \/ ~(UNCHANGED commands \/ Count)
      BY CountType
<1>1. ASSUME NEW p \in Pair, StoreKey(p) PROVE RegistryTypeOK'
      BY <1>1, <1>a, CommandType DEF StoreKey, Begins
<1>2. ASSUME NEW p \in Pair, InsertRow(p) PROVE RegistryTypeOK'
      BY <1>2, <1>a DEF InsertRow, Goes, Write, Status
<1>3. ASSUME NEW p \in Pair, InsertFails(p) \/ ForgetKey(p) PROVE RegistryTypeOK'
      BY <1>3, <1>a, CommandType DEF InsertFails, ForgetKey, Goes
<1>4. ASSUME NEW p \in Pair, DeleteRow(p) \/ RemoveRow(p) PROVE RegistryTypeOK'
      BY <1>4, <1>a, CommandType DEF DeleteRow, RemoveRow, Begins, Write, Status
<1>5. ASSUME NEW p \in Pair, Unlock(p) \/ Unlocked(p) PROVE RegistryTypeOK'
      BY <1>5, <1>a, CommandType DEF Unlock, Unlocked, Begins, Goes
<1>6. ASSUME NEW p \in Pair, LoseKey(p) PROVE RegistryTypeOK'
      BY <1>6, <1>a DEF LoseKey
<1>7. ASSUME NEW p \in Pair, NEW s \in {"active", "paused"}, SetStatus(p, s) PROVE RegistryTypeOK'
      BY <1>7, <1>a DEF SetStatus, Write, Status
<1>8. ASSUME NEW v \in {"on", "off"}, TruncateSettings(v) PROVE RegistryTypeOK'
      BY <1>8, <1>a DEF TruncateSettings, Begins, Command
<1>9. CASE WriteSettings
  <2>1. cmd.value \in {"on", "off"}
        BY <1>9 DEF WriteSettings, Command
  <2> QED BY <1>9, <2>1, <1>a DEF WriteSettings, Goes
<1> QED BY <1>1, <1>2, <1>3, <1>4, <1>5, <1>6, <1>7, <1>8, <1>9 DEF RegistryNext

LEMMA ClaimType ==
  ASSUME GuardType, NEW t \in Task, NEW p \in Pair, Claim(t, p) \/ Release(t, p)
  PROVE  GuardType'
BY DEF GuardType, Claim, Release, Busy

LEMMA WokenType ==
  ASSUME NEW p \in Pair, NEW mayWake, NEW told, told \subseteq mayWake \/ told \subseteq Pair
  PROVE  /\ \A now \in Woken(p, mayWake, told) : told \subseteq mayWake => now \subseteq mayWake
         /\ \A now \in Woken(p, mayWake, told) : told \subseteq Pair => now \subseteq Pair
BY DEF Woken

LEMMA DesktopType == DesktopTypeOK /\ DesktopStep => DesktopTypeOK'
<1> SUFFICES ASSUME DesktopTypeOK, DesktopStep PROVE DesktopTypeOK'
    OBVIOUS
<1> USE DEF DesktopTypeOK
<1>a. GuardType
      BY DEF GuardType
<1>1. CASE Tick
      BY <1>1 DEF Tick, Active, world
<1>2. ASSUME NEW p \in Pair, Visit(p) PROVE DesktopTypeOK'
  <2>1. GuardType'
        BY <1>2, <1>a, ClaimType, TaskFact DEF Visit, GuardType
  <2> QED BY <1>2, <2>1 DEF Visit, world, GuardType
<1>3. ASSUME NEW t \in Task, NEW p \in Pair, StartCycle(t, p) PROVE DesktopTypeOK'
  <2>1. [task[t] EXCEPT !.stage = "cycling"] = [stage |-> "cycling", pair |-> p]
        BY <1>3 DEF StartCycle
  <2>2. task' \in [Task -> Busy \cup {Idle}]
        BY <1>3, <2>1 DEF StartCycle, Busy
  <2>3. events' \subseteq watched
        BY <1>3, WokenType DEF StartCycle
  <2> QED BY <1>3, <2>2, <2>3 DEF StartCycle, Looks
<1>4. ASSUME NEW t \in Task, NEW p \in Pair, CannotStart(t, p) PROVE DesktopTypeOK'
      BY <1>4, <1>a, ClaimType DEF CannotStart, world, GuardType
<1>5. ASSUME NEW t \in Task, NEW p \in Pair, EndCycle(t, p) PROVE DesktopTypeOK'
  <2>1. GuardType' /\ faults' \in 0..MaxFaults /\ behind' \subseteq Pair
        BY <1>5, <1>a, ClaimType, FaultType DEF EndCycle
  <2> QED BY <1>5, <2>1 DEF EndCycle, GuardType
<1>6. ASSUME NEW p \in Pair, Elapse(p) PROVE DesktopTypeOK'
      BY <1>6 DEF Elapse, world
<1> QED BY <1>1, <1>2, <1>3, <1>4, <1>5, <1>6 DEF DesktopStep, Loop, RunSync

LEMMA DaemonType ==
  ASSUME DaemonTypeOK, NEW p \in Pair
  PROVE  /\ DaemonVisit(p) \/ DaemonElapse(p) \/ DaemonDone \/ DaemonTurns => DaemonTypeOK'
         /\ daemon # None => daemon.pairs \subseteq Pair /\ daemon.cycle \in Pair \cup {None}
<1>1. daemon # None => daemon \in Daemon
      BY DEF DaemonTypeOK
<1>2. CASE DaemonVisit(p)
  <2>1. daemon \in Daemon
        BY <1>1, <1>2 DEF DaemonVisit
  <2>2. daemon' \in Daemon
        BY <1>2, <2>1 DEF DaemonVisit, Daemon
  <2>3. dDue' \subseteq Pair
        BY <1>2 DEF DaemonVisit, DaemonTypeOK
  <2>4. dEvents' \subseteq Pair
        BY <1>2, WokenType DEF DaemonVisit, DaemonTypeOK
  <2> QED BY <1>1, <2>1, <2>2, <2>3, <2>4 DEF DaemonTypeOK, Daemon
<1>3. CASE DaemonElapse(p) \/ DaemonDone \/ DaemonTurns
      BY <1>1, <1>3 DEF DaemonElapse, DaemonDone, DaemonTurns, InPhase, DaemonTypeOK, Daemon
<1> QED BY <1>1, <1>2, <1>3 DEF Daemon

LEMMA RegistryLeft == RegistryTypeOK /\ UNCHANGED registry => RegistryTypeOK'
BY DEF RegistryTypeOK, registry

LEMMA DesktopLeft == DesktopTypeOK /\ UNCHANGED <<desktop, world>> => DesktopTypeOK'
BY DEF DesktopTypeOK, desktop, world

LEMMA ClientsLeft ==
  /\ DaemonTypeOK /\ UNCHANGED <<daemon, dDue, dEvents>> => DaemonTypeOK'
  /\ CliTypeOK /\ UNCHANGED cli => CliTypeOK'
BY DEF DaemonTypeOK, CliTypeOK

THEOREM InitClientsType == Init => ClientsTypeOK
<1> SUFFICES ASSUME Init PROVE ClientsTypeOK
    OBVIOUS
<1>1. RegistryTypeOK
      BY PairAssumption DEF Init, RegistryInit, RegistryTypeOK, Exists, Status
<1>2. DesktopTypeOK
      BY TaskAssumption DEF Init, DesktopInit, DesktopTypeOK
<1> QED BY <1>1, <1>2 DEF Init, ClientsTypeOK

THEOREM NextClientsType == ClientsTypeOK /\ [Next]_vars => ClientsTypeOK'
<1> SUFFICES ASSUME ClientsTypeOK, [Next]_vars PROVE ClientsTypeOK'
    OBVIOUS
<1>a. RegistryTypeOK /\ DesktopTypeOK /\ DaemonTypeOK /\ CliTypeOK
      BY DEF ClientsTypeOK, DaemonTypeOK, CliTypeOK
<1>b. RegistryTypeOK' /\ DesktopTypeOK' /\ DaemonTypeOK' /\ CliTypeOK' => ClientsTypeOK'
      BY DEF ClientsTypeOK, DaemonTypeOK, CliTypeOK
<1>1. CASE UNCHANGED vars
      BY <1>1, <1>a, <1>b, RegistryLeft, DesktopLeft, ClientsLeft DEF vars
<1>2. CASE RegistryNext /\ UNCHANGED <<desktop, world, others>>
      BY <1>2, <1>a, <1>b, RegistryType, DesktopLeft, ClientsLeft DEF others
<1>3. CASE Desktop
      BY <1>3, <1>a, <1>b, RegistryLeft, DesktopType, ClientsLeft DEF Desktop, others
<1>4. CASE CrashApp /\ UNCHANGED others
  <2>1. RegistryTypeOK'
        BY <1>4, <1>a DEF CrashApp, RegistryTypeOK
  <2>2. DesktopTypeOK'
        BY <1>4, <1>a, FaultType DEF CrashApp, Fresh, DesktopTypeOK
  <2> QED BY <1>4, <1>a, <2>1, <2>2, <1>b, ClientsLeft DEF others
<1>5. ASSUME NEW t \in Button, NEW p \in Pair, SyncNow(t, p), UNCHANGED others PROVE ClientsTypeOK'
  <2>1. RegistryTypeOK'
        BY <1>5, <1>a, CountType DEF SyncNow, RegistryTypeOK
  <2>2. GuardType'
        BY <1>5, <1>a, ClaimType, TaskFact DEF SyncNow, GuardType, DesktopTypeOK
  <2>3. DesktopTypeOK'
        BY <1>5, <1>a, <2>2 DEF SyncNow, GuardType, DesktopTypeOK, world
  <2> QED BY <1>5, <1>a, <2>1, <2>3, <1>b, ClientsLeft DEF others
<1>6. CASE StartDaemon
  <2>1. RegistryTypeOK'
        BY <1>6, <1>a, CountType DEF StartDaemon, RegistryTypeOK
  <2>2. DaemonTypeOK'
        BY <1>6 DEF StartDaemon, DaemonTypeOK, Daemon, Active
  <2> QED BY <1>6, <1>a, <2>1, <2>2, <1>b, DesktopLeft, ClientsLeft DEF StartDaemon
<1>7. CASE DaemonStep
  <2>1. DaemonTypeOK' /\ UNCHANGED <<registry, desktop, changes, cli>>
    <3>1. CASE DaemonDone \/ DaemonTurns
      <4>1. UNCHANGED <<registry, desktop, changes, cli>>
            BY <3>1 DEF DaemonDone, DaemonTurns, world
      <4>2. DaemonTypeOK'
            BY <1>a, <3>1 DEF DaemonDone, DaemonTurns, InPhase, DaemonTypeOK, Daemon
      <4> QED BY <4>1, <4>2
    <3>2. ASSUME NEW p \in Pair, DaemonVisit(p) \/ DaemonElapse(p)
          PROVE  DaemonTypeOK' /\ UNCHANGED <<registry, desktop, changes, cli>>
          BY <1>a, <3>2, DaemonType DEF DaemonVisit, DaemonElapse, world
    <3> QED BY <1>7, <3>1, <3>2 DEF DaemonStep
  <2>2. behind' \subseteq Pair /\ faults' \in 0..MaxFaults
    <3>1. behind \subseteq Pair /\ faults \in 0..MaxFaults
          BY <1>a DEF DesktopTypeOK
    <3>2. CASE DaemonDone
          BY <1>a, <3>1, <3>2, FaultType DEF DaemonDone, DaemonTypeOK, Daemon
    <3>3. CASE DaemonTurns
          BY <3>1, <3>3 DEF DaemonTurns, world
    <3>4. ASSUME NEW p \in Pair, DaemonVisit(p) \/ DaemonElapse(p)
          PROVE  behind' \subseteq Pair /\ faults' \in 0..MaxFaults
          BY <3>1, <3>4 DEF DaemonVisit, DaemonElapse, world, Looks
    <3> QED BY <1>7, <3>2, <3>3, <3>4 DEF DaemonStep
  <2>3. DesktopTypeOK'
        BY <1>a, <2>1, <2>2 DEF DesktopTypeOK, desktop
  <2> QED BY <1>a, <2>1, <2>3, <1>b, RegistryLeft, ClientsLeft
<1>8. CASE StopDaemon
  <2>1. DesktopTypeOK'
        BY <1>8, <1>a, FaultType DEF StopDaemon, DesktopTypeOK, desktop
  <2>2. DaemonTypeOK'
        BY <1>8 DEF StopDaemon, DaemonTypeOK
  <2> QED BY <1>8, <1>a, <2>1, <2>2, <1>b, RegistryLeft, ClientsLeft DEF StopDaemon
<1>9. CASE CliSync
  <2>1. RegistryTypeOK'
        BY <1>9, <1>a, CountType DEF CliSync, RegistryTypeOK
  <2>2. CliTypeOK'
        BY <1>9 DEF CliSync, CliTypeOK, Cli
  <2> QED BY <1>9, <1>a, <2>1, <2>2, <1>b, DesktopLeft, ClientsLeft DEF CliSync
<1>10. CASE CliStep
  <2>1. CliTypeOK' /\ UNCHANGED <<desktop, changes, daemon, dDue, dEvents>>
    <3>1. cli # None => cli \in Cli
          BY <1>a DEF CliTypeOK
    <3> QED BY <1>10, <3>1 DEF CliStep, CliDone, CliExits, CliVisit, CliTypeOK, Cli, world
  <2>2. RegistryTypeOK' /\ behind' \subseteq Pair /\ faults' \in 0..MaxFaults
    <3>1. behind \subseteq Pair /\ faults \in 0..MaxFaults
          BY <1>a DEF DesktopTypeOK
    <3>2. CASE CliDone
      <4>1. cli.cycle \in Pair
            BY <1>a, <3>2 DEF CliDone, CliTypeOK, Cli
      <4>2. RegistryTypeOK'
            BY <1>a, <3>2, <4>1 DEF CliDone, Write, Status, RegistryTypeOK
      <4> QED BY <3>1, <3>2, <4>1, <4>2, FaultType DEF CliDone
    <3>3. CASE CliExits \/ \E p \in Pair : CliVisit(p)
          BY <1>a, <3>1, <3>3, RegistryLeft DEF CliExits, CliVisit, Looks, world
    <3> QED BY <1>10, <3>2, <3>3 DEF CliStep
  <2>3. DesktopTypeOK'
        BY <1>a, <2>1, <2>2 DEF DesktopTypeOK, desktop
  <2> QED BY <1>a, <2>1, <2>2, <2>3, <1>b, ClientsLeft
<1>11. ASSUME NEW p \in Pair, Change(p) PROVE ClientsTypeOK'
  <2>1. DesktopTypeOK'
        BY <1>11, <1>a, TaskAssumption DEF Change, DesktopTypeOK
  <2>2. DaemonTypeOK'
        BY <1>11, <1>a DEF Change, DaemonTypeOK
  <2> QED BY <1>11, <1>a, <2>1, <2>2, <1>b, RegistryLeft, ClientsLeft DEF Change
<1> QED BY <1>1, <1>2, <1>3, <1>4, <1>5, <1>6, <1>7, <1>8, <1>9, <1>10, <1>11 DEF Next

(***************************************************************************)
(* The rows, the keys, the app's tasks and watchers, the daemon and the    *)
(* sync command keep their types, for any number of pairs and requests.    *)
(***************************************************************************)
THEOREM ClientsTypeTheorem == Spec => []ClientsTypeOK
<1> QED BY InitClientsType, NextClientsType, PTL DEF Spec

-----------------------------------------------------------------------------
(***************************************************************************)
(* The keys.  A command between its two writes knows what it has done:     *)
(* while the key of a new pair is kept, or taken back, its row is unborn,  *)
(* and while the key of a deleted pair is taken away its row is gone.      *)
(***************************************************************************)
KeyInv ==
  /\ row \in [Pair -> Status \cup {"unborn", "gone"}]
  /\ RowHasKey
  /\ encrypted \subseteq {p \in Pair : row[p] # "unborn"}
  /\ \A p \in Pair :
       /\ Doing("insert", p) => row[p] = "unborn" /\ p \in keyring \cup lost
       /\ Doing("rollback", p) => row[p] = "unborn" /\ p \in keyring \cup lost
       /\ Doing("forget", p) => row[p] = "gone"

THEOREM InitKeys == Init => KeyInv
BY DEF Init, RegistryInit, KeyInv, RowHasKey, Exists, Status, Doing

\* Where the commands leave the rows and keys alone, so do the properties.
LEMMA KeysLeft == KeyInv /\ UNCHANGED <<row, encrypted, keyring, lost, cmd>> => KeyInv'
BY DEF KeyInv, RowHasKey, Exists, Doing

LEMMA RegistryKeepsKeys ==
  ASSUME KeyInv, NEW p \in Pair,
         \/ StoreKey(p) \/ InsertRow(p) \/ InsertFails(p) \/ ForgetKey(p) \/ DeleteRow(p)
         \/ RemoveRow(p) \/ Unlock(p) \/ Unlocked(p) \/ LoseKey(p)
         \/ \E s \in {"active", "paused"} : SetStatus(p, s)
  PROVE  KeyInv'
<1> USE DEF KeyInv, RowHasKey, Exists, Status, Doing, Begins, Goes, Write
<1>1. CASE StoreKey(p)
      BY <1>1 DEF StoreKey, NewId
<1>2. CASE InsertRow(p)
      BY <1>2 DEF InsertRow, NewId
<1>3. CASE InsertFails(p)
      BY <1>3 DEF InsertFails
<1>4. CASE ForgetKey(p)
      BY <1>4 DEF ForgetKey
<1>5. CASE DeleteRow(p)
      BY <1>5 DEF DeleteRow
<1>6. CASE RemoveRow(p)
      BY <1>6 DEF RemoveRow
<1>7. CASE Unlock(p)
      BY <1>7 DEF Unlock
<1>8. CASE Unlocked(p)
      BY <1>8 DEF Unlocked
<1>9. CASE LoseKey(p)
      BY <1>9 DEF LoseKey
<1>10. ASSUME NEW s \in {"active", "paused"}, SetStatus(p, s) PROVE KeyInv'
       BY <1>10 DEF SetStatus
<1> QED BY <1>1, <1>2, <1>3, <1>4, <1>5, <1>6, <1>7, <1>8, <1>9, <1>10

THEOREM NextKeys == KeyInv /\ [Next]_vars => KeyInv'
<1> SUFFICES ASSUME KeyInv, [Next]_vars PROVE KeyInv'
    OBVIOUS
<1>1. CASE UNCHANGED vars \/ Desktop
      BY <1>1, KeysLeft DEF vars, registry, Desktop
<1>2. CASE RegistryNext
  <2>1. CASE (\E v \in {"on", "off"} : TruncateSettings(v)) \/ WriteSettings
        BY <2>1 DEF TruncateSettings, WriteSettings, Begins, Goes, KeyInv, RowHasKey, Exists, Doing
  <2> QED BY <1>2, <2>1, RegistryKeepsKeys DEF RegistryNext
<1>3. CASE CrashApp
      BY <1>3, PairAssumption DEF CrashApp, KeyInv, RowHasKey, Exists, Doing
<1>4. ASSUME NEW t \in Button, NEW p \in Pair, SyncNow(t, p) PROVE KeyInv'
      BY <1>4, KeysLeft DEF SyncNow
<1>5. CASE StartDaemon \/ DaemonStep \/ StopDaemon
      BY <1>5, KeysLeft
      DEF StartDaemon, DaemonStep, StopDaemon, DaemonDone, DaemonTurns, DaemonVisit, DaemonElapse,
          registry
<1>6. CASE CliSync \/ CliExits \/ (\E p \in Pair : CliVisit(p)) \/ (\E p \in Pair : Change(p))
      BY <1>6, KeysLeft DEF CliSync, CliExits, CliVisit, Change, registry
<1>7. CASE CliDone
  <2>1. CASE UNCHANGED row
        BY <1>7, <2>1, KeysLeft DEF CliDone
  <2>2. CASE Exists(cli.cycle) /\ Write(cli.cycle, "error")
        BY <1>7, <2>2 DEF CliDone, Write, KeyInv, RowHasKey, Exists, Status, Doing
  <2> QED BY <1>7, <2>1, <2>2 DEF CliDone
<1> QED BY <1>1, <1>2, <1>3, <1>4, <1>5, <1>6, <1>7 DEF Next, CliStep

(***************************************************************************)
(* For any number of pairs and commands, and whatever crashes in between.  *)
(***************************************************************************)
THEOREM KeysTheorem == Spec => []RowHasKey
<1>1. KeyInv => RowHasKey
      BY DEF KeyInv
<1> QED BY InitKeys, NextKeys, <1>1, PTL DEF Spec
=============================================================================
