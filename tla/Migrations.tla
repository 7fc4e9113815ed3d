----------------------------- MODULE Migrations -----------------------------
(***************************************************************************)
(* Opening the database: run_all brings the schema up to date statement by *)
(* statement.  Every statement commits on its own, and the version is only *)
(* recorded after the last statement of a migration, so a process that     *)
(* dies in between, or another process (the desktop app, the daemon, a CLI *)
(* command) that opens the file at the same time, meets any state in       *)
(* between.  What must not suffer is the change log, which the last        *)
(* migration copies into a new table.                                      *)
(***************************************************************************)
EXTENDS Naturals

CONSTANTS
  Process,    \* the programs that open the database
  Entry,      \* entries of the change log
  Versions,   \* the schema versions an existing database may have
  Absent,     \* a table that does not exist
  MaxCrashes  \* bound on crashes during a migration

ASSUME VersionsAssumption == Versions \subseteq 0..4
ASSUME CrashAssumption == MaxCrashes \in Nat

PairColumns == {"enabled", "salt", "verifier"}
LogColumns  == {"bytes", "duration"}

\* change_log and its rebuilt form: rows, the columns of v3, the CHECK of v4.
Table == [rows : SUBSET Entry, cols : SUBSET LogColumns, dirs : BOOLEAN]
ASSUME AbsentAssumption == Absent \notin Table

VARIABLES
  versions,   \* the rows of schema_version
  pairCols,   \* which columns of v2 sync_pairs has
  log,        \* change_log
  logNew,     \* change_log_new
  pc,         \* the statement a process executes next
  crashes     \* crashes so far

\* History: the entries nothing excuses losing, and whether a migration was cut off
\* where it cannot be repeated.
VARIABLES kept, torn

db   == <<versions, pairCols, log, logNew>>
vars == <<db, pc, crashes, kept, torn>>

Rebuild    == {"copy", "drop", "rename"}
Statements == {"tables", "create"} \cup Rebuild \cup PairColumns \cup LogColumns
Records    == {"record1", "record2", "record3", "record4"}

MigrationsTypeOK ==
  /\ versions \subseteq 1..4
  /\ pairCols \subseteq PairColumns
  /\ log \in Table \cup {Absent} /\ logNew \in Table \cup {Absent}
  /\ pc \in [Process -> Statements \cup Records \cup {"closed", "open"}]
  /\ crashes \in Nat
  /\ kept \subseteq Entry /\ torn \in BOOLEAN

\* MAX(version), or 0.
Current == CHOOSE v \in 0..4 : (v = 0 \/ v \in versions) /\ \A w \in versions : w <= v

\* A database some earlier run left behind complete; one of version 0 is not there yet.
Init ==
  /\ \E v \in Versions :
        /\ versions = 1..v
        /\ pairCols = IF v < 2 THEN {} ELSE PairColumns
        /\ \/ v = 0 /\ log = Absent
           \/ v > 0 /\ log \in [rows : SUBSET Entry, cols : {IF v < 3 THEN {} ELSE LogColumns},
                                dirs : {v = 4}]
  /\ logNew = Absent
  /\ pc = [p \in Process |-> "closed"]
  /\ crashes = 0
  /\ kept = IF log = Absent THEN {} ELSE log.rows
  /\ torn = FALSE

-----------------------------------------------------------------------------
(***************************************************************************)
(* The script: the statements of the four migrations, in their order.      *)
(***************************************************************************)
\* Mutant: the old table goes before its rows are copied.
AfterDropFirst(s) ==
  CASE s = "tables" -> "record1"    [] s = "record1" -> "enabled"
    [] s = "enabled" -> "salt"      [] s = "salt" -> "verifier"
    [] s = "verifier" -> "record2"  [] s = "record2" -> "bytes"
    [] s = "bytes" -> "duration"    [] s = "duration" -> "record3"
    [] s = "record3" -> "create"    [] s = "create" -> "drop"
    [] s = "drop" -> "copy"         [] s = "copy" -> "rename"
    [] s = "rename" -> "record4"    [] s = "record4" -> "open"

After(s) ==
  CASE s = "tables" -> "record1"    [] s = "record1" -> "enabled"
    [] s = "enabled" -> "salt"      [] s = "salt" -> "verifier"
    [] s = "verifier" -> "record2"  [] s = "record2" -> "bytes"
    [] s = "bytes" -> "duration"    [] s = "duration" -> "record3"
    [] s = "record3" -> "create"    [] s = "create" -> "copy"
    [] s = "copy" -> "drop"         [] s = "drop" -> "rename"
    [] s = "rename" -> "record4"    [] s = "record4" -> "open"

\* Mutants: a migration is skipped; the wrong version is recorded.
FirstSkips(v) == CASE v = 0 -> "tables" [] v = 1 -> "bytes" [] v = 2 -> "create" [] v > 2 -> "open"
NumberNext(s) == CASE s = "record1" -> 2 [] s = "record2" -> 3 [] s = "record3" -> 4 [] s = "record4" -> 5

\* What a database of version v lacks begins with this statement.
First(v) ==
  CASE v = 0 -> "tables" [] v = 1 -> "enabled" [] v = 2 -> "bytes" [] v = 3 -> "create"
    [] v = 4 -> "open"
Number(s) ==
  CASE s = "record1" -> 1 [] s = "record2" -> 2 [] s = "record3" -> 3 [] s = "record4" -> 4

Goto(p, s) == pc' = [pc EXCEPT ![p] = s]
Opening(p) == pc[p] \notin {"closed", "open"}

\* What the database refuses: a column or table that is already there, one that is not.
Possible(s) ==
  CASE s = "tables"       -> TRUE
    [] s \in PairColumns  -> s \notin pairCols
    [] s \in LogColumns   -> log # Absent /\ s \notin log.cols
    [] s = "create"       -> logNew = Absent
    [] s = "copy"         -> log # Absent /\ log.cols = LogColumns /\ logNew # Absent
    [] s = "drop"         -> log # Absent
    [] s = "rename"       -> log = Absent /\ logNew # Absent
    [] s \in Records      -> Number(s) \notin versions

Runs(p, s) == pc[p] = s /\ Possible(s) /\ Goto(p, After(s))

-----------------------------------------------------------------------------
Open(p) ==
  /\ pc[p] = "closed"
  /\ Goto(p, First(Current))
  /\ UNCHANGED <<db, crashes, kept, torn>>

\* v1 is CREATE TABLE IF NOT EXISTS.  With the old log just dropped by another process
\* it makes a new one, and the rebuilt log can no longer take its name.
CreateTables(p) ==
  /\ Runs(p, "tables")
  /\ log' = IF log # Absent THEN log ELSE [rows |-> {}, cols |-> {}, dirs |-> FALSE]
  /\ torn' = (torn \/ (log = Absent /\ logNew # Absent))
  /\ UNCHANGED <<versions, pairCols, logNew, crashes, kept>>

AddPairColumn(p) ==
  \E c \in PairColumns :
    /\ Runs(p, c)
    /\ pairCols' = pairCols \cup {c}
    /\ UNCHANGED <<versions, log, logNew, crashes, kept, torn>>

AddLogColumn(p) ==
  \E c \in LogColumns :
    /\ Runs(p, c)
    /\ log' = [log EXCEPT !.cols = @ \cup {c}]
    /\ UNCHANGED <<versions, pairCols, logNew, crashes, kept, torn>>

CreateNewLog(p) ==
  /\ Runs(p, "create")
  /\ logNew' = [rows |-> {}, cols |-> LogColumns, dirs |-> TRUE]
  /\ UNCHANGED <<versions, pairCols, log, crashes, kept, torn>>

CopyLog(p) ==
  /\ Runs(p, "copy")
  /\ logNew' = [logNew EXCEPT !.rows = @ \cup log.rows]
  /\ UNCHANGED <<versions, pairCols, log, crashes, kept, torn>>

DropOldLog(p) ==
  /\ Runs(p, "drop")
  /\ log' = Absent
  /\ UNCHANGED <<versions, pairCols, logNew, crashes, kept, torn>>

RenameNewLog(p) ==
  /\ Runs(p, "rename")
  /\ log' = logNew /\ logNew' = Absent
  /\ UNCHANGED <<versions, pairCols, crashes, kept, torn>>

\* Mutant: the version is not recorded.
NothingRecorded(p) ==
  \E s \in Records :
    /\ Runs(p, s)
    /\ UNCHANGED <<db, crashes, kept, torn>>

Record(p) ==
  \E s \in Records :
    /\ Runs(p, s)
    /\ versions' = versions \cup {Number(s)}
    /\ UNCHANGED <<pairCols, log, logNew, crashes, kept, torn>>

\* open() returns the error.
OpenFails(p) ==
  /\ Opening(p) /\ ~Possible(pc[p])
  /\ Goto(p, "closed")
  /\ UNCHANGED <<db, crashes, kept, torn>>

\* What a repeat of the migration would trip over.
Unrepeatable(s) ==
  s \in (PairColumns \ {"enabled"}) \cup {"record2", "duration", "record3"} \cup Rebuild

Crash(p) ==
  /\ Opening(p)
  /\ crashes < MaxCrashes /\ crashes' = crashes + 1
  /\ Goto(p, "closed")
  /\ torn' = (torn \/ Unrepeatable(pc[p]))
  /\ UNCHANGED <<db, kept>>

-----------------------------------------------------------------------------
\* ChangeLogEntry::insert by an open program.  Where there is no table it fails, which
\* the callers ignore; what it writes after another program has copied the log goes
\* with the old table.
WriteEntry(p, e) ==
  /\ pc[p] = "open"
  /\ log # Absent /\ e \notin log.rows
  /\ log' = [log EXCEPT !.rows = @ \cup {e}]
  /\ kept' = IF \E q \in Process : pc[q] = "drop" THEN kept ELSE kept \cup {e}
  /\ UNCHANGED <<versions, pairCols, logNew, pc, crashes, torn>>

Close(p) ==
  /\ pc[p] = "open"
  /\ Goto(p, "closed")
  /\ UNCHANGED <<db, crashes, kept, torn>>

Migrate(p) ==
  \/ Open(p) \/ CreateTables(p) \/ AddPairColumn(p) \/ AddLogColumn(p) \/ CreateNewLog(p)
  \/ CopyLog(p) \/ DropOldLog(p) \/ RenameNewLog(p) \/ Record(p) \/ OpenFails(p)

Next == \E p \in Process :
  Migrate(p) \/ Crash(p) \/ Close(p) \/ \E e \in Entry : WriteEntry(p, e)

Spec == Init /\ [][Next]_vars

\* Programs are started again, and one that is opening the database goes on.
FairSpec == Spec /\ \A p \in Process : WF_vars(Migrate(p))

-----------------------------------------------------------------------------
(***************************************************************************)
(* Properties.                                                             *)
(***************************************************************************)
Rows(t) == IF t = Absent THEN {} ELSE t.rows

(***************************************************************************)
(* No entry of the change log is lost, whoever crashes at whatever         *)
(* statement and whoever opens the database at the same time: it is in the *)
(* log or in the copy being made (MIGRATION_004).  Left out are entries an *)
(* open program writes between another one's copy and its DROP TABLE.      *)
(***************************************************************************)
LogSurvives == kept \subseteq Rows(log) \cup Rows(logNew)

(***************************************************************************)
(* A program that has the database open, with nobody migrating it, finds   *)
(* the schema its code was written for, also after other programs have     *)
(* failed to open it half-way (run_all).                                   *)
(***************************************************************************)
Complete ==
  /\ versions = 1..4 /\ pairCols = PairColumns
  /\ log # Absent /\ log.cols = LogColumns /\ log.dirs /\ logNew = Absent

OpenMeansMigrated ==
  ~torn /\ (\E p \in Process : pc[p] = "open") /\ (\A q \in Process : ~Opening(q)) => Complete

(***************************************************************************)
(* Every program gets the database open in the end, although two of them   *)
(* migrating at once refuse each other statements, and although one may    *)
(* have died between a migration and its record.  Only a crash among the   *)
(* ALTER TABLEs of v2 or v3 or among the table swap of v4 (or v1 met half- *)
(* way through that swap) locks everybody out for good.                    *)
(***************************************************************************)
OpensUnlessTorn == \A p \in Process : <>torn \/ []<>(pc[p] = "open")
=============================================================================
