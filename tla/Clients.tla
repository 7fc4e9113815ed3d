------------------------------- MODULE Clients -------------------------------
(***************************************************************************)
(* Everything that starts cycles over one database: the desktop app, the   *)
(* daemon and the command line's sync, with the commands that add, pause,  *)
(* unlock and remove pairs meanwhile.  The daemon works from the pairs it  *)
(* read when it started; nothing keeps it and the app off one pair.        *)
(***************************************************************************)
EXTENDS DesktopSync

VARIABLES
  daemon,   \* the daemon: its snapshot of the pairs and where it is, or None
  dDue,     \* the pairs whose last_poll is an interval ago
  dEvents,  \* the pairs whose watcher in the daemon has something to tell
  cli       \* the sync command: the pairs still to sync, and the one syncing, or None

vars == <<registry, desktop, world, daemon, dDue, dEvents, cli>>

Daemon == [pairs : SUBSET Pair, phase : {"initial", "poll", "drain"}, todo : SUBSET Pair,
           cycle : Pair \cup {None}]
Cli    == [todo : SUBSET Pair, cycle : Pair \cup {None}]

ClientsTypeOK ==
  /\ RegistryTypeOK /\ DesktopTypeOK
  /\ daemon \in Daemon \cup {None}
  /\ dDue \subseteq Pair /\ dEvents \subseteq Pair
  /\ cli \in Cli \cup {None}

Init ==
  /\ RegistryInit /\ DesktopInit
  /\ daemon = None /\ dDue = {} /\ dEvents = {} /\ cli = None

-----------------------------------------------------------------------------
(***************************************************************************)
(* run_daemon.                                                             *)
(***************************************************************************)
InPhase(phase, pairs) == daemon' = [daemon EXCEPT !.phase = phase, !.todo = pairs]

\* It exits at once when no pair is active.
StartDaemon ==
  /\ daemon = None /\ Active # {} /\ Count
  /\ daemon' = [pairs |-> Active, phase |-> "initial", todo |-> Active, cycle |-> None]
  /\ dDue' = {} /\ dEvents' = {}
  /\ UNCHANGED <<row, encrypted, keyring, lost, cmd, setting, desktop, world, cli>>

\* Mutant: the poll loop does not look at the status again.
DaemonWantsBlind(p) ==
  CASE daemon.phase = "initial" -> TRUE
    [] daemon.phase = "poll"    -> p \in dDue
    [] daemon.phase = "drain"   -> p \in dEvents

\* A pair that is deleted, or in error, is polled on; the watcher never looks at the row.
DaemonWants(p) ==
  CASE daemon.phase = "initial" -> TRUE
    [] daemon.phase = "poll"    -> row[p] # "paused" /\ p \in dDue
    [] daemon.phase = "drain"   -> p \in dEvents

\* While its watcher tells of changes, a pair stays at the head of the drain loop.
DaemonVisit(p) ==
  /\ daemon # None /\ daemon.cycle = None /\ p \in daemon.todo
  /\ LET wants == DaemonWants(p)
         runs  == wants /\ ~Locked(p)
         again == wants /\ daemon.phase = "drain"
     IN /\ daemon' = [daemon EXCEPT !.todo = IF again THEN @ ELSE @ \ {p},
                                    !.cycle = IF runs THEN p ELSE None]
        /\ dDue' = IF wants /\ daemon.phase = "poll" THEN dDue \ {p} ELSE dDue
        /\ IF runs
           THEN /\ Looks(p)
                /\ dEvents' \in Woken(p, daemon.pairs, IF again THEN dEvents \ {p} ELSE dEvents)
           ELSE /\ dEvents' = IF again THEN dEvents \ {p} ELSE dEvents
                /\ UNCHANGED behind
  /\ UNCHANGED <<registry, desktop, changes, faults, cli>>

\* The poll timer starts again after a sync the watcher asked for.
DaemonDone ==
  /\ daemon # None /\ daemon.cycle # None
  /\ LET p == daemon.cycle
     IN /\ daemon' = [daemon EXCEPT !.cycle = None]
        /\ dDue' = IF daemon.phase = "drain" THEN dDue \ {p} ELSE dDue
        /\ \/ UNCHANGED <<behind, faults>>
           \/ Fault /\ behind' = behind \cup {p}
  /\ UNCHANGED <<registry, desktop, changes, dEvents, cli>>

\* After each poll the watchers are drained.
DaemonTurns ==
  /\ daemon # None /\ daemon.cycle = None /\ daemon.todo = {}
  /\ InPhase(IF daemon.phase = "poll" THEN "drain" ELSE "poll", daemon.pairs)
  /\ UNCHANGED <<registry, desktop, world, dDue, dEvents, cli>>

DaemonElapse(p) ==
  /\ daemon # None /\ p \in daemon.pairs \ dDue
  /\ dDue' = dDue \cup {p}
  /\ UNCHANGED <<registry, desktop, world, daemon, dEvents, cli>>

StopDaemon ==
  /\ daemon # None /\ Fault
  /\ daemon' = None /\ dDue' = {} /\ dEvents' = {}
  /\ behind' = behind \cup ({daemon.cycle} \cap Pair)
  /\ UNCHANGED <<registry, desktop, changes, cli>>

-----------------------------------------------------------------------------
(***************************************************************************)
(* The sync command: all pairs, or one, from rows read at the start.       *)
(***************************************************************************)
CliSync ==
  /\ cli = None /\ Count
  /\ \E asked \in {{p \in Pair : Exists(p)}} \cup {{p} : p \in {q \in Pair : Exists(q)}} :
        cli' = [todo |-> {p \in asked : row[p] # "paused"}, cycle |-> None]
  /\ UNCHANGED <<row, encrypted, keyring, lost, cmd, setting, desktop, world, daemon, dDue, dEvents>>

CliVisit(p) ==
  /\ cli # None /\ cli.cycle = None /\ p \in cli.todo
  /\ cli' = [todo |-> cli.todo \ {p}, cycle |-> IF Locked(p) THEN None ELSE p]
  /\ IF Locked(p) THEN UNCHANGED behind ELSE Looks(p)
  /\ UNCHANGED <<registry, desktop, changes, faults, daemon, dDue, dEvents>>

\* An error is written to the row's status, over whatever is there by now.
CliDone ==
  /\ cli # None /\ cli.cycle # None
  /\ LET p == cli.cycle
     IN \/ UNCHANGED <<row, behind, faults>>
        \/ /\ Fault /\ behind' = behind \cup {p}
           /\ IF Exists(p) THEN Write(p, "error") ELSE UNCHANGED row
  /\ cli' = [cli EXCEPT !.cycle = None]
  /\ UNCHANGED <<encrypted, keyring, lost, cmd, setting, commands, desktop, changes, daemon, dDue, dEvents>>

CliExits ==
  /\ cli # None /\ cli.cycle = None /\ cli.todo = {}
  /\ cli' = None
  /\ UNCHANGED <<registry, desktop, world, daemon, dDue, dEvents>>

-----------------------------------------------------------------------------
\* Files change on this machine, where a watcher may notice, or on Drive.
Change(p) ==
  /\ Exists(p) /\ changes < MaxChanges /\ changes' = changes + 1
  /\ behind' = behind \cup {p}
  /\ \/ UNCHANGED <<events, dEvents>>
     \/ /\ events' = events \cup ({p} \cap watched)
        /\ dEvents' = IF daemon # None /\ p \in daemon.pairs THEN dEvents \cup {p} ELSE dEvents
  /\ UNCHANGED <<registry, inflight, task, todo, watched, due, faults, daemon, dDue, cli>>

others == <<daemon, dDue, dEvents, cli>>

Desktop == DesktopStep /\ UNCHANGED <<registry, others>>
DaemonStep == DaemonDone \/ DaemonTurns \/ \E p \in Pair : DaemonVisit(p) \/ DaemonElapse(p)
CliStep == CliDone \/ CliExits \/ \E p \in Pair : CliVisit(p)

Next ==
  \/ RegistryNext /\ UNCHANGED <<desktop, world, others>>
  \/ Desktop
  \/ (CrashApp \/ \E t \in Button, p \in Pair : SyncNow(t, p)) /\ UNCHANGED others
  \/ StartDaemon \/ DaemonStep \/ StopDaemon
  \/ CliSync \/ CliStep
  \/ \E p \in Pair : Change(p)

Spec == Init /\ [][Next]_vars

\* A running app ticks and goes round its pairs, cycles end, and intervals pass.
FairSpec ==
  /\ Spec
  /\ WF_vars(Loop /\ UNCHANGED <<registry, others>>)
  /\ \A t \in Task : WF_vars(RunSync(t) /\ UNCHANGED <<registry, others>>)
  /\ \A p \in Pair : WF_vars(Elapse(p) /\ UNCHANGED <<registry, others>>)
  /\ WF_vars(DaemonDone \/ DaemonTurns \/ \E p \in Pair : DaemonVisit(p))
  /\ WF_vars(CliStep)

-----------------------------------------------------------------------------
(***************************************************************************)
(* Properties.                                                             *)
(***************************************************************************)
(***************************************************************************)
(* The in-flight guard implements the lock: the loop and any number of     *)
(* Sync Now requests never run two cycles of one pair in the app (run_sync). *)
(***************************************************************************)
GuardIsALock == Lock!Spec

(***************************************************************************)
(* While a pair stays active, its key is there and the user has not turned *)
(* auto-sync off, no change stays unseen for ever: a trigger dropped       *)
(* because a cycle had already looked, an event lost with a watcher or a   *)
(* failed cycle is made up for by the poll interval (spawn_auto_sync), and *)
(* a settings file torn by a crash stops nothing (load_settings).          *)
(***************************************************************************)
CaughtUp ==
  \A p \in Pair :
    <>[](row[p] = "active" /\ ~Locked(p) /\ setting # "off") => []<>(p \notin behind)

(***************************************************************************)
(* Pausing stops a pair although cycles were on their way: the app's loop  *)
(* lets go of a pair that is not active, and the daemon of a paused pair   *)
(* once its files are no longer touched (spawn_auto_sync, run_daemon).     *)
(***************************************************************************)
StoppedPairsGoQuiet ==
  \A p \in Pair :
    /\ <>[](row[p] # "active") => <>[](~On(AutoSync, p))
    /\ <>[](row[p] = "paused") => <>[](daemon = None \/ daemon.cycle # p)
=============================================================================
