----------------------------- MODULE DesktopSync -----------------------------
(***************************************************************************)
(* How the desktop app comes to run cycles: the background loop, which     *)
(* looks at every active pair on each tick, and the Sync Now button.  Both *)
(* go through run_sync, which claims the pair in the in-flight set and     *)
(* releases it when the cycle ends.  A cycle is two steps here: it starts, *)
(* and looks at both sides, and it ends.                                   *)
(***************************************************************************)
EXTENDS PairRegistry

CONSTANTS
  AutoSync,       \* the background loop
  Button,     \* the Sync Now requests that may be open at once
  MaxChanges, \* bound on the changes users make to files
  MaxFaults   \* bound on failed cycles and crashes

Task == {AutoSync} \cup Button
ASSUME TaskAssumption == AutoSync \notin Button /\ MaxChanges \in Nat /\ MaxFaults \in Nat

VARIABLES
  inflight,  \* the InFlightSet
  task,      \* run_sync per task
  todo,      \* the active pairs the loop has not looked at since the last tick
  watched,   \* the pairs with a file watcher
  events,    \* the pairs whose watcher has something to tell
  due        \* the pairs whose poll interval is over, or never synced in this session

\* The pairs with a change no cycle has looked at.
VARIABLES behind, changes, faults

desktop == <<inflight, task, todo, watched, events, due>>
world   == <<behind, changes, faults>>

Idle == [stage |-> "idle"]
Busy == [stage : {"claimed", "cycling"}, pair : Pair]

DesktopTypeOK ==
  /\ inflight \subseteq Pair
  /\ task \in [Task -> Busy \cup {Idle}]
  /\ todo \subseteq Pair /\ watched \subseteq Pair /\ events \subseteq watched
  /\ due \subseteq Pair
  /\ behind \subseteq Pair /\ changes \in 0..MaxChanges /\ faults \in 0..MaxFaults

Fresh ==
  /\ inflight' = {} /\ task' = [t \in Task |-> Idle] /\ todo' = {}
  /\ watched' = {} /\ events' = {} /\ due' = Pair

DesktopInit ==
  /\ inflight = {} /\ task = [t \in Task |-> Idle] /\ todo = {}
  /\ watched = {} /\ events = {} /\ due = Pair
  /\ behind = {} /\ changes = 0 /\ faults = 0

On(t, p) == task[t] # Idle /\ task[t].pair = p
Fault == faults < MaxFaults /\ faults' = faults + 1

-----------------------------------------------------------------------------
(***************************************************************************)
(* run_sync.                                                               *)
(***************************************************************************)
\* Mutant: the pair is claimed whoever has it.
ClaimAnyway(t, p) ==
  /\ inflight' = inflight \cup {p}
  /\ task' = [task EXCEPT ![t] = [stage |-> "claimed", pair |-> p]]

\* AlreadyRunning: the caller's reason to sync is dropped with the call.
Claim(t, p) ==
  IF p \in inflight THEN UNCHANGED <<inflight, task>>
  ELSE /\ inflight' = inflight \cup {p}
       /\ task' = [task EXCEPT ![t] = [stage |-> "claimed", pair |-> p]]

Release(t, p) ==
  /\ inflight' = inflight \ {p}
  /\ task' = [task EXCEPT ![t] = Idle]

Looks(p) == behind' = behind \ {p}

\* Mutant: a watcher reports that is not there.
WokenAnyway(p, mayWake, told) == {told, told \cup {p}}

\* A cycle that finds something to do may write files, which its watcher reports.
Woken(p, mayWake, told) == {told, IF p \in behind \cap mayWake THEN told \cup {p} ELSE told}

\* run_sync_inner reads the row and the key again, but not the status.
StartCycle(t, p) ==
  /\ task[t] = [stage |-> "claimed", pair |-> p]
  /\ Exists(p) /\ ~Locked(p)
  /\ task' = [task EXCEPT ![t].stage = "cycling"]
  /\ Looks(p) /\ events' \in Woken(p, watched, events)
  /\ UNCHANGED <<inflight, todo, watched, due, changes, faults>>

CannotStart(t, p) ==
  /\ task[t] = [stage |-> "claimed", pair |-> p]
  /\ ~Exists(p) \/ Locked(p)
  /\ Release(t, p)
  /\ UNCHANGED <<todo, watched, events, due, world>>

\* The cycle ends well, or with an error.
EndCycle(t, p) ==
  /\ task[t] = [stage |-> "cycling", pair |-> p]
  /\ Release(t, p)
  /\ \/ UNCHANGED <<behind, faults>>
     \/ Fault /\ behind' = behind \cup {p}
  /\ UNCHANGED <<todo, watched, events, due, changes>>

-----------------------------------------------------------------------------
(***************************************************************************)
(* trigger_sync and the loop of spawn_auto_sync.                           *)
(***************************************************************************)
\* The button is there for paused pairs too.
SyncNow(t, p) ==
  /\ t \in Button /\ task[t] = Idle
  /\ Exists(p) /\ Count
  /\ Claim(t, p)
  /\ UNCHANGED <<todo, watched, events, due, world, row, encrypted, keyring, lost, cmd, setting>>

\* Watchers of pairs that are not active are dropped with what they had to tell.
Tick ==
  /\ task[AutoSync] = Idle /\ todo = {}
  /\ AutoSyncEnabled
  /\ todo' = Active
  /\ watched' = watched \cap todo' /\ events' = events \cap todo'
  /\ UNCHANGED <<inflight, task, due, world>>

\* Mutant: only a local change makes a pair sync.
WantsSyncIfTold(p) == p \in events

WantsSync(p) == p \in events \/ p \in due

\* A watcher may fail to start: the folder is missing, or the system refuses.
Visit(p) ==
  /\ task[AutoSync] = Idle /\ p \in todo
  /\ todo' = todo \ {p}
  /\ watched' \in {watched, watched \cup {p}}
  /\ events' = events \ {p}
  /\ due' = IF WantsSync(p) THEN due \ {p} ELSE due
  /\ IF WantsSync(p) /\ ~Locked(p) THEN Claim(AutoSync, p) ELSE UNCHANGED <<inflight, task>>
  /\ UNCHANGED world

Elapse(p) ==
  /\ p \notin due /\ due' = due \cup {p}
  /\ UNCHANGED <<inflight, task, todo, watched, events, world>>

\* The app is killed and started again; a command that was running is lost with it.
CrashApp ==
  /\ Fault /\ Fresh /\ cmd' = None
  /\ behind' = behind \cup {p \in Pair : \E t \in Task : task[t] = [stage |-> "cycling", pair |-> p]}
  /\ UNCHANGED <<changes, row, encrypted, keyring, lost, setting, commands>>

RunSync(t) == \E p \in Pair : StartCycle(t, p) \/ CannotStart(t, p) \/ EndCycle(t, p)
Loop == Tick \/ \E p \in Pair : Visit(p)

\* The steps of the app that leave the pairs alone.
DesktopStep == Loop \/ (\E t \in Task : RunSync(t)) \/ \E p \in Pair : Elapse(p)

-----------------------------------------------------------------------------
\* The in-flight set is what the tasks are doing.
GuardHolds ==
  /\ inflight = {p \in Pair : \E t \in Task : On(t, p)}
  /\ \A s, t \in Task, p \in Pair : On(s, p) /\ On(t, p) => s = t

\* Seen as the lock: who holds what is what the tasks are doing, not what the set says.
Lock == INSTANCE PairLock WITH held <- {h \in Task \X Pair : On(h[1], h[2])}
=============================================================================
