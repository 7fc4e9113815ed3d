-------------------------- MODULE MigrationsProofs --------------------------
(***************************************************************************)
(* For any number of programs, entries and crashes: the change log         *)
(* survives every interleaving of migrations, and a program that has the   *)
(* database open finds the schema it was written for unless a crash has    *)
(* torn a migration.                                                       *)
(***************************************************************************)
EXTENDS Migrations, TLAPS

(***************************************************************************)
(* LogSurvives alone is not inductive: DROP TABLE needs that the copy is   *)
(* complete.  Whoever is between CREATE TABLE and RENAME owns the new      *)
(* table, because a second CREATE TABLE of that name is refused.           *)
(***************************************************************************)
Rebuilding(p) == pc[p] \in Rebuild

OneRebuilds   == \A p, q \in Process : Rebuilding(p) /\ Rebuilding(q) => p = q
NewLogIsThere == \A p \in Process : Rebuilding(p) => logNew # Absent
WhatIsWhere   ==
  \A p \in Process :
    /\ pc[p] = "copy" => kept \subseteq Rows(log)
    /\ pc[p] = "drop" => kept \subseteq Rows(logNew)
    /\ pc[p] = "rename" /\ log = Absent => kept \subseteq Rows(logNew)

MigrationsInv ==
  MigrationsTypeOK /\ LogSurvives /\ OneRebuilds /\ NewLogIsThere /\ WhatIsWhere

\* The script leaves the statements of the rebuild only forwards.
LEMMA ScriptType ==
  \A s \in Statements \cup Records :
    /\ After(s) \in Statements \cup Records \cup {"open"}
    /\ After(s) \in Rebuild => s = "create" \/ s \in Rebuild
    /\ s = "create" => After(s) = "copy"
    /\ s = "copy" => After(s) = "drop"
    /\ s = "drop" => After(s) = "rename"
    /\ s = "rename" => After(s) = "record4"
    /\ After(s) \notin {"tables", "closed"}
<1> SUFFICES ASSUME NEW s \in Statements \cup Records
             PROVE  /\ After(s) \in Statements \cup Records \cup {"open"}
                    /\ After(s) \in Rebuild => s = "create" \/ s \in Rebuild
                    /\ s = "create" => After(s) = "copy"
                    /\ s = "copy" => After(s) = "drop"
                    /\ s = "drop" => After(s) = "rename"
                    /\ s = "rename" => After(s) = "record4"
                    /\ After(s) \notin {"tables", "closed"}
    OBVIOUS
<1> USE DEF After, Statements, Records, Rebuild, PairColumns, LogColumns
<1>1. CASE s \in {"tables", "enabled", "salt", "verifier"}
      BY <1>1
<1>2. CASE s \in {"bytes", "duration"}
      BY <1>2
<1>3. CASE s \in {"create", "copy", "drop", "rename"}
      BY <1>3
<1>4. CASE s \in Records
      BY <1>4
<1> QED BY <1>1, <1>2, <1>3, <1>4

\* The conditions the proof uses.
LEMMA PossibleFacts ==
  /\ \A c \in LogColumns : Possible(c) => log # Absent
  /\ Possible("create") => logNew = Absent
  /\ Possible("copy") <=> log # Absent /\ log.cols = LogColumns /\ logNew # Absent
  /\ Possible("drop") <=> log # Absent
  /\ Possible("rename") <=> log = Absent /\ logNew # Absent
<1>1. \A c \in LogColumns : Possible(c) => log # Absent
      BY DEF Possible, LogColumns, PairColumns, Records
<1>2. Possible("create") => logNew = Absent
      BY DEF Possible, LogColumns, PairColumns, Records
<1>3. Possible("copy") <=> log # Absent /\ log.cols = LogColumns /\ logNew # Absent
  <2>1. "copy" \notin PairColumns /\ "copy" \notin LogColumns /\ "copy" \notin Records
        BY DEF LogColumns, PairColumns, Records
  <2> QED BY <2>1 DEF Possible
<1>4. Possible("drop") <=> log # Absent
      BY DEF Possible, LogColumns, PairColumns, Records
<1>5. Possible("rename") <=> log = Absent /\ logNew # Absent
      BY DEF Possible, LogColumns, PairColumns, Records
<1> QED BY <1>1, <1>2, <1>3, <1>4, <1>5

LEMMA CurrentIsMax ==
  versions \subseteq 1..4 => Current \in 0..4 /\ (Current = 0 \/ Current \in versions)
<1> SUFFICES ASSUME versions \subseteq 1..4
             PROVE  Current \in 0..4 /\ (Current = 0 \/ Current \in versions)
    OBVIOUS
<1> DEFINE IsMax(v) == (v = 0 \/ v \in versions) /\ \A w \in versions : w <= v
<1>1. \E v \in 0..4 : IsMax(v)
  <2>1. CASE 4 \in versions BY <2>1
  <2>2. CASE 4 \notin versions /\ 3 \in versions BY <2>2
  <2>3. CASE 4 \notin versions /\ 3 \notin versions /\ 2 \in versions BY <2>3
  <2>4. CASE 4 \notin versions /\ 3 \notin versions /\ 2 \notin versions /\ 1 \in versions
        BY <2>4
  <2>5. CASE versions = {}
        BY <2>5
  <2> QED BY <2>1, <2>2, <2>3, <2>4, <2>5
<1> QED BY <1>1 DEF Current

LEMMA FirstType ==
  \A v \in 0..4 : First(v) \in Statements \cup {"open"} /\ First(v) \notin Rebuild
BY DEF First, Statements, Rebuild, PairColumns, LogColumns

THEOREM InitMigrations == Init => MigrationsInv
<1> SUFFICES ASSUME Init PROVE MigrationsInv
    OBVIOUS
<1>1. versions \subseteq 1..4 /\ pairCols \subseteq PairColumns /\ log \in Table \cup {Absent}
  <2>1. PICK v \in Versions :
          /\ versions = 1..v
          /\ pairCols = IF v < 2 THEN {} ELSE PairColumns
          /\ \/ v = 0 /\ log = Absent
             \/ v > 0 /\ log \in [rows : SUBSET Entry, cols : {IF v < 3 THEN {} ELSE LogColumns},
                                  dirs : {v = 4}]
        BY DEF Init
  <2>2. v \in 0..4
        BY VersionsAssumption
  <2>3. log \in Table \cup {Absent}
    <3>1. CASE v < 3 BY <2>1, <2>2, <3>1 DEF Table
    <3>2. CASE ~(v < 3) BY <2>1, <2>2, <3>2 DEF Table
    <3> QED BY <3>1, <3>2
  <2> QED BY <2>1, <2>2, <2>3
<1>2. kept = Rows(log)
      BY DEF Init, Rows
<1>3. kept \subseteq Entry
      BY <1>1, <1>2, AbsentAssumption DEF Rows, Table
<1> QED BY <1>1, <1>2, <1>3
        DEF Init, MigrationsInv, MigrationsTypeOK, LogSurvives, OneRebuilds, NewLogIsThere,
            WhatIsWhere, Rebuilding, Rebuild, Rows

-----------------------------------------------------------------------------
\* Steps that leave both logs alone and put no process into the rebuild.
LEMMA QuietStep ==
  ASSUME MigrationsInv, UNCHANGED <<log, logNew, kept>>, MigrationsTypeOK',
         \A q \in Process : pc'[q] \in Rebuild => pc'[q] = pc[q]
  PROVE  MigrationsInv'
BY DEF MigrationsInv, LogSurvives, OneRebuilds, NewLogIsThere, WhatIsWhere, Rebuilding,
       Rebuild, Rows

THEOREM NextMigrations == MigrationsInv /\ [Next]_vars => MigrationsInv'
<1> SUFFICES ASSUME MigrationsInv, [Next]_vars PROVE MigrationsInv'
    OBVIOUS
<1> USE DEF MigrationsInv
<1> DEFINE Pcs == Statements \cup Records \cup {"closed", "open"}
<1>0. ASSUME UNCHANGED vars PROVE MigrationsInv'
      BY <1>0 DEF vars, db, MigrationsTypeOK, LogSurvives, OneRebuilds, NewLogIsThere,
                  WhatIsWhere, Rebuilding, Rows
<1>a. ASSUME NEW p \in Process, NEW s \in Pcs, pc' = [pc EXCEPT ![p] = s]
      PROVE  /\ pc' \in [Process -> Pcs]
             /\ pc'[p] = s
             /\ \A q \in Process : q # p => pc'[q] = pc[q]
      BY <1>a DEF MigrationsTypeOK
<1>b. ASSUME NEW p \in Process, NEW s \in Statements \cup Records, Runs(p, s)
      PROVE  /\ pc' = [pc EXCEPT ![p] = After(s)] /\ After(s) \in Pcs /\ pc[p] = s
             /\ Possible(s)
      BY <1>b, ScriptType DEF Runs, Goto
<1>1. ASSUME NEW p \in Process, Open(p) PROVE MigrationsInv'
  <2>1. First(Current) \in Pcs /\ First(Current) \notin Rebuild
        BY CurrentIsMax, FirstType DEF MigrationsTypeOK
  <2>2. MigrationsTypeOK'
        BY <1>1, <2>1, <1>a DEF Open, Goto, MigrationsTypeOK, db
  <2> QED BY <1>1, <2>1, <2>2, <1>a, QuietStep DEF Open, Goto, db
<1>2. ASSUME NEW p \in Process, CreateTables(p) PROVE MigrationsInv'
  <2>1. pc' = [pc EXCEPT ![p] = "record1"] /\ "record1" \in Pcs
        BY <1>2 DEF CreateTables, Runs, Goto, After, Records
  <2>2. MigrationsTypeOK'
        BY <1>2, <2>1, <1>a DEF CreateTables, MigrationsTypeOK, Table
  <2>3. Rows(log') = Rows(log) /\ UNCHANGED <<logNew, kept>> /\ (log' # Absent)
    <3>1. [rows |-> {}, cols |-> {}, dirs |-> FALSE] \in Table
          BY DEF Table
    <3> QED BY <1>2, <3>1, AbsentAssumption DEF CreateTables, Rows
  <2> QED BY <2>1, <2>2, <2>3, <1>a
          DEF LogSurvives, OneRebuilds, NewLogIsThere, WhatIsWhere, Rebuilding, Rebuild, Rows
<1>3. ASSUME NEW p \in Process, AddPairColumn(p) PROVE MigrationsInv'
  <2>1. PICK c \in PairColumns : Runs(p, c) /\ pairCols' = pairCols \cup {c}
        BY <1>3 DEF AddPairColumn
  <2>2. c \in Statements /\ c # "create" /\ c \notin Rebuild
        BY DEF Statements, PairColumns, Rebuild
  <2>3. MigrationsTypeOK'
        BY <1>3, <2>1, <2>2, <1>a, <1>b DEF AddPairColumn, MigrationsTypeOK
  <2> QED BY <1>3, <2>1, <2>2, <2>3, <1>a, <1>b, ScriptType, QuietStep DEF AddPairColumn
<1>4. ASSUME NEW p \in Process, AddLogColumn(p) PROVE MigrationsInv'
  <2>1. PICK c \in LogColumns : Runs(p, c) /\ log' = [log EXCEPT !.cols = @ \cup {c}]
        BY <1>4 DEF AddLogColumn
  <2>2. c \in Statements /\ c # "create" /\ c \notin Rebuild /\ c \notin PairColumns /\ c # "tables"
        BY DEF Statements, PairColumns, LogColumns, Rebuild
  <2>3. log # Absent
        BY <2>1, PossibleFacts DEF Runs
  <2>4. log \in Table /\ log' \in Table /\ log' # Absent /\ log'.rows = log.rows
        BY <2>1, <2>3, AbsentAssumption DEF MigrationsTypeOK, Table
  <2>5. MigrationsTypeOK'
        BY <1>4, <2>1, <2>2, <2>4, <1>a, <1>b DEF AddLogColumn, MigrationsTypeOK
  <2>6. Rows(log') = Rows(log) /\ UNCHANGED <<logNew, kept>>
        BY <1>4, <2>3, <2>4 DEF AddLogColumn, Rows
  <2>7. \A q \in Process : pc'[q] \in Rebuild => pc'[q] = pc[q]
        BY <2>1, <2>2, <1>a, <1>b, ScriptType
  <2> QED BY <2>3, <2>4, <2>5, <2>6, <2>7
          DEF LogSurvives, OneRebuilds, NewLogIsThere, WhatIsWhere, Rebuilding, Rebuild, Rows
<1>5. ASSUME NEW p \in Process, CreateNewLog(p) PROVE MigrationsInv'
  <2>1. Runs(p, "create") /\ "create" \in Statements
        BY <1>5 DEF CreateNewLog, Statements
  <2>2. logNew = Absent /\ pc' = [pc EXCEPT ![p] = "copy"] /\ "copy" \in Pcs
        BY <2>1, PossibleFacts, ScriptType DEF Runs, Goto, Statements, Rebuild
  <2>3. logNew' \in Table /\ UNCHANGED <<log, kept>>
        BY <1>5 DEF CreateNewLog, Table
  <2>4. MigrationsTypeOK'
        BY <1>5, <2>2, <2>3, <1>a DEF CreateNewLog, MigrationsTypeOK
  <2>5. \A q \in Process : ~Rebuilding(q)
        BY <2>2 DEF NewLogIsThere
  <2>6. kept \subseteq Rows(log)
        BY <2>2 DEF LogSurvives, Rows
  <2> QED BY <2>2, <2>3, <2>4, <2>5, <2>6, <1>a, AbsentAssumption
          DEF LogSurvives, OneRebuilds, NewLogIsThere, WhatIsWhere, Rebuilding, Rebuild, Rows
<1>6. ASSUME NEW p \in Process, CopyLog(p) PROVE MigrationsInv'
  <2>1. Runs(p, "copy") /\ pc[p] = "copy"
        BY <1>6 DEF CopyLog, Runs
  <2>2. pc' = [pc EXCEPT ![p] = "drop"] /\ "drop" \in Pcs /\ log # Absent /\ logNew # Absent
        BY <2>1, PossibleFacts, ScriptType DEF Runs, Goto, Statements, Rebuild
  <2>3. /\ log \in Table /\ logNew \in Table /\ logNew' \in Table /\ logNew' # Absent
        /\ logNew'.rows = logNew.rows \cup log.rows
        BY <1>6, <2>2, AbsentAssumption DEF CopyLog, MigrationsTypeOK, Table
  <2>4. UNCHANGED <<log, kept>> /\ Rows(logNew') = Rows(logNew) \cup Rows(log)
        BY <1>6, <2>2, <2>3 DEF CopyLog, Rows
  <2>5. MigrationsTypeOK'
        BY <1>6, <2>2, <2>3, <1>a DEF CopyLog, MigrationsTypeOK
  <2>6. \A q \in Process : q # p => ~Rebuilding(q)
        BY <2>1 DEF OneRebuilds, Rebuilding, Rebuild
  <2>7. kept \subseteq Rows(log)
        BY <2>1 DEF WhatIsWhere
  <2> QED BY <2>2, <2>3, <2>4, <2>5, <2>6, <2>7, <1>a
          DEF LogSurvives, OneRebuilds, NewLogIsThere, WhatIsWhere, Rebuilding, Rebuild, Rows
<1>7. ASSUME NEW p \in Process, DropOldLog(p) PROVE MigrationsInv'
  <2>1. Runs(p, "drop") /\ pc[p] = "drop"
        BY <1>7 DEF DropOldLog, Runs
  <2>2. pc' = [pc EXCEPT ![p] = "rename"] /\ "rename" \in Pcs
        BY <2>1 DEF Runs, Goto, After, Statements, Rebuild
  <2>3. log' = Absent /\ UNCHANGED <<logNew, kept>>
        BY <1>7 DEF DropOldLog
  <2>4. MigrationsTypeOK'
        BY <1>7, <2>2, <2>3, <1>a DEF DropOldLog, MigrationsTypeOK
  <2>5. \A q \in Process : q # p => ~Rebuilding(q)
        BY <2>1 DEF OneRebuilds, Rebuilding, Rebuild
  <2>6. kept \subseteq Rows(logNew) /\ logNew # Absent
        BY <2>1 DEF WhatIsWhere, NewLogIsThere, Rebuilding, Rebuild
  <2> QED BY <2>2, <2>3, <2>4, <2>5, <2>6, <1>a
          DEF LogSurvives, OneRebuilds, NewLogIsThere, WhatIsWhere, Rebuilding, Rebuild, Rows
<1>8. ASSUME NEW p \in Process, RenameNewLog(p) PROVE MigrationsInv'
  <2>1. Runs(p, "rename") /\ pc[p] = "rename"
        BY <1>8 DEF RenameNewLog, Runs
  <2>2. pc' = [pc EXCEPT ![p] = "record4"] /\ "record4" \in Pcs /\ log = Absent /\ logNew # Absent
        BY <2>1, PossibleFacts, ScriptType DEF Runs, Goto, Statements, Records, Rebuild
  <2>3. log' = logNew /\ logNew' = Absent /\ UNCHANGED kept
        BY <1>8 DEF RenameNewLog
  <2>4. MigrationsTypeOK'
        BY <1>8, <2>2, <2>3, <1>a DEF RenameNewLog, MigrationsTypeOK
  <2>5. \A q \in Process : q # p => ~Rebuilding(q)
        BY <2>1 DEF OneRebuilds, Rebuilding, Rebuild
  <2>6. kept \subseteq Rows(logNew)
        BY <2>1, <2>2 DEF WhatIsWhere
  <2> QED BY <2>2, <2>3, <2>4, <2>5, <2>6, <1>a
          DEF LogSurvives, OneRebuilds, NewLogIsThere, WhatIsWhere, Rebuilding, Rebuild, Rows
<1>9. ASSUME NEW p \in Process, Record(p) PROVE MigrationsInv'
  <2>1. PICK s \in Records : Runs(p, s) /\ versions' = versions \cup {Number(s)}
        BY <1>9 DEF Record
  <2>2. s # "create" /\ s \notin Rebuild /\ Number(s) \in 1..4
        BY DEF Records, Rebuild, Number
  <2>3. MigrationsTypeOK'
        BY <1>9, <2>1, <2>2, <1>a, <1>b DEF Record, MigrationsTypeOK
  <2> QED BY <1>9, <2>1, <2>2, <2>3, <1>a, <1>b, ScriptType, QuietStep DEF Record
<1>10. ASSUME NEW p \in Process, OpenFails(p) \/ Crash(p) \/ Close(p) PROVE MigrationsInv'
  <2>1. /\ pc' = [pc EXCEPT ![p] = "closed"] /\ "closed" \in Pcs /\ "closed" \notin Rebuild
        /\ UNCHANGED <<db, kept>> /\ crashes' \in Nat /\ torn' \in BOOLEAN
    <3>1. CASE OpenFails(p) BY <3>1 DEF OpenFails, Goto, Rebuild, MigrationsTypeOK
    <3>2. CASE Crash(p) BY <3>2 DEF Crash, Goto, Rebuild, MigrationsTypeOK
    <3>3. CASE Close(p) BY <3>3 DEF Close, Goto, Rebuild, MigrationsTypeOK
    <3> QED BY <1>10, <3>1, <3>2, <3>3
  <2>2. MigrationsTypeOK'
        BY <2>1, <1>a DEF MigrationsTypeOK, db
  <2> QED BY <2>1, <2>2, <1>a, QuietStep DEF db
<1>11. ASSUME NEW p \in Process, NEW e \in Entry, WriteEntry(p, e) PROVE MigrationsInv'
  <2>1. /\ log # Absent /\ log \in Table /\ log' \in Table /\ log' # Absent
        /\ log'.rows = log.rows \cup {e}
        BY <1>11, AbsentAssumption DEF WriteEntry, MigrationsTypeOK, Table
  <2>2. Rows(log') = Rows(log) \cup {e} /\ UNCHANGED <<logNew, pc>>
        BY <1>11, <2>1 DEF WriteEntry, Rows
  <2>3. kept' \subseteq kept \cup {e} /\ ((\E q \in Process : pc[q] = "drop") => kept' = kept)
        BY <1>11 DEF WriteEntry
  <2>4. MigrationsTypeOK'
        BY <1>11, <2>1, <2>3 DEF WriteEntry, MigrationsTypeOK
  <2> QED BY <2>1, <2>2, <2>3, <2>4
          DEF LogSurvives, OneRebuilds, NewLogIsThere, WhatIsWhere, Rebuilding, Rebuild, Rows
<1> QED BY <1>0, <1>1, <1>2, <1>3, <1>4, <1>5, <1>6, <1>7, <1>8, <1>9, <1>10, <1>11
        DEF Next, Migrate

(***************************************************************************)
(* For any number of programs, versions and crashes, the tables, columns   *)
(* and recorded versions keep their types.                                 *)
(***************************************************************************)
THEOREM MigrationsTypeTheorem == Spec => []MigrationsTypeOK
<1>1. MigrationsInv => MigrationsTypeOK
      BY DEF MigrationsInv
<1> QED BY InitMigrations, NextMigrations, <1>1, PTL DEF Spec

(***************************************************************************)
(* Any number of programs may open the database at once and crash wherever *)
(* they are: the change log, or its copy, keeps every entry it had.        *)
(***************************************************************************)
THEOREM LogSurvivesTheorem == Spec => []LogSurvives
<1>1. MigrationsInv => LogSurvives
      BY DEF MigrationsInv
<1> QED BY InitMigrations, NextMigrations, <1>1, PTL DEF Spec

-----------------------------------------------------------------------------
(***************************************************************************)
(* What each statement may count on.  A version is recorded last, so a     *)
(* program that is past a migration has its version, and the version has   *)
(* its columns.  The log is missing only before the first migration and    *)
(* while somebody is between DROP TABLE and RENAME, unless a crash has     *)
(* torn a migration.                                                       *)
(***************************************************************************)
Needs(s) ==
  CASE s \in PairColumns \cup {"record2"}       -> {1}
    [] s \in LogColumns \cup {"record3"}        -> {1, 2}
    [] s \in Rebuild \cup {"create", "record4"} -> {1, 2, 3}
    [] s = "open"                               -> {1, 2, 3, 4}
    [] OTHER                                    -> {}

VersionsInOrder ==
  /\ \A v \in versions : 1..v \subseteq versions
  /\ \A p \in Process : Needs(pc[p]) \subseteq versions

PairColumnsThere ==
  /\ 2 \in versions => pairCols = PairColumns
  /\ \A p \in Process :
       /\ pc[p] = "salt" => "enabled" \in pairCols
       /\ pc[p] = "verifier" => {"enabled", "salt"} \subseteq pairCols
       /\ pc[p] = "record2" => pairCols = PairColumns

LogIsThere ==
  IF log = Absent
  THEN \/ versions = {} /\ logNew = Absent /\ \A p \in Process : pc[p] \in {"closed", "tables"}
       \/ \E p \in Process : pc[p] = "rename"
  ELSE /\ \A p \in Process : pc[p] # "rename"
       /\ 3 \in versions => log.cols = LogColumns
       /\ 4 \in versions => log.dirs
       /\ \A p \in Process :
            /\ pc[p] = "duration" => "bytes" \in log.cols
            /\ pc[p] = "record3" => log.cols = LogColumns
            /\ pc[p] = "record4" => log.dirs

NewLogIsOwned ==
  logNew # Absent => /\ \E p \in Process : Rebuilding(p)
                     /\ logNew.cols = LogColumns /\ logNew.dirs

SchemaInv ==
  MigrationsInv /\ VersionsInOrder /\ PairColumnsThere /\ (~torn => LogIsThere /\ NewLogIsOwned)

\* What a program may count on after a statement is what it could count on before, and
\* the version it has recorded.
LEMMA NeedsFacts ==
  /\ \A s \in Statements : Needs(After(s)) = Needs(s)
  /\ \A s \in Records : /\ Needs(After(s)) \subseteq Needs(s) \cup {Number(s)}
                        /\ Number(s) \in 1..4 /\ 1..Number(s) \subseteq Needs(s) \cup {Number(s)}
  /\ \A v \in 0..4 : Needs(First(v)) = 1..v
  /\ Needs("closed") = {}
<1> USE DEF Needs, PairColumns, LogColumns, Rebuild
<1>1. \A s \in Statements : Needs(After(s)) = Needs(s)
  <2> SUFFICES ASSUME NEW s \in Statements PROVE Needs(After(s)) = Needs(s)
      OBVIOUS
  <2> USE DEF Statements, After
  <2>1. CASE s = "tables" BY <2>1
  <2>2. CASE s = "enabled" BY <2>2
  <2>3. CASE s = "salt" BY <2>3
  <2>4. CASE s = "verifier" BY <2>4
  <2>5. CASE s = "bytes" BY <2>5
  <2>6. CASE s = "duration" BY <2>6
  <2>7. CASE s = "create" BY <2>7
  <2>8. CASE s \in {"copy", "drop", "rename"} BY <2>8
  <2> QED BY <2>1, <2>2, <2>3, <2>4, <2>5, <2>6, <2>7, <2>8
<1>2. \A s \in Records : /\ Needs(After(s)) \subseteq Needs(s) \cup {Number(s)}
                        /\ Number(s) \in 1..4 /\ 1..Number(s) \subseteq Needs(s) \cup {Number(s)}
  <2> SUFFICES ASSUME NEW s \in Records
               PROVE  /\ Needs(After(s)) \subseteq Needs(s) \cup {Number(s)}
                      /\ Number(s) \in 1..4 /\ 1..Number(s) \subseteq Needs(s) \cup {Number(s)}
      OBVIOUS
  <2> USE DEF Records, After, Number
  <2>1. CASE s = "record1" BY <2>1
  <2>2. CASE s = "record2" BY <2>2
  <2>3. CASE s = "record3" BY <2>3
  <2>4. CASE s = "record4" BY <2>4
  <2> QED BY <2>1, <2>2, <2>3, <2>4
<1>3. \A v \in 0..4 : Needs(First(v)) = 1..v
  <2> SUFFICES ASSUME NEW v \in 0..4 PROVE Needs(First(v)) = 1..v
      OBVIOUS
  <2> USE DEF First
  <2>1. CASE v = 0 BY <2>1
  <2>2. CASE v = 1 BY <2>2
  <2>3. CASE v = 2 BY <2>3
  <2>4. CASE v = 3 BY <2>4
  <2>5. CASE v = 4 BY <2>5
  <2> QED BY <2>1, <2>2, <2>3, <2>4, <2>5
<1>4. Needs("closed") = {}
      OBVIOUS
<1> QED BY <1>1, <1>2, <1>3, <1>4

LEMMA MoveKeepsVersions ==
  ASSUME MigrationsTypeOK, VersionsInOrder, NEW p \in Process, NEW s, Goto(p, s),
         versions \subseteq versions', \A v \in versions' : 1..v \subseteq versions',
         Needs(s) \subseteq versions'
  PROVE  VersionsInOrder'
BY DEF MigrationsTypeOK, VersionsInOrder, Goto

\* No statement comes before what it counts on.
LEMMA NextVersions == SchemaInv /\ [Next]_vars => VersionsInOrder'
<1> SUFFICES ASSUME SchemaInv, [Next]_vars PROVE VersionsInOrder'
    OBVIOUS
<1>a. MigrationsTypeOK /\ VersionsInOrder
      BY DEF SchemaInv, MigrationsInv
<1>b. ASSUME NEW p \in Process, NEW s, Goto(p, s), Needs(s) \subseteq versions, UNCHANGED versions
      PROVE  VersionsInOrder'
      BY <1>a, <1>b, MoveKeepsVersions DEF VersionsInOrder
<1>1. CASE UNCHANGED vars
      BY <1>1, <1>a DEF vars, db, VersionsInOrder
<1>2. ASSUME NEW p \in Process, Open(p) PROVE VersionsInOrder'
  <2>1. Current \in 0..4 /\ 1..Current \subseteq versions
        BY <1>a, CurrentIsMax DEF MigrationsTypeOK, VersionsInOrder
  <2> QED BY <1>2, <1>b, <2>1, NeedsFacts DEF Open, db
<1>3. ASSUME NEW p \in Process, NEW s \in Statements, Runs(p, s), UNCHANGED versions
      PROVE  VersionsInOrder'
      BY <1>3, <1>a, <1>b, NeedsFacts DEF Runs, VersionsInOrder
<1>4. ASSUME NEW p \in Process, CreateTables(p) \/ CreateNewLog(p) \/ CopyLog(p)
             \/ DropOldLog(p) \/ RenameNewLog(p) \/ AddPairColumn(p) \/ AddLogColumn(p)
      PROVE  VersionsInOrder'
  <2>1. \E s \in Statements : Runs(p, s) /\ UNCHANGED versions
        BY <1>4 DEF CreateTables, CreateNewLog, CopyLog, DropOldLog, RenameNewLog, AddPairColumn,
                    AddLogColumn, Statements, Rebuild
  <2> QED BY <1>3, <2>1
<1>5. ASSUME NEW p \in Process, Record(p) PROVE VersionsInOrder'
  <2>1. PICK s \in Records : Runs(p, s) /\ versions' = versions \cup {Number(s)}
        BY <1>5 DEF Record
  <2>2. pc[p] = s /\ Goto(p, After(s)) /\ Needs(s) \subseteq versions
        BY <1>a, <2>1 DEF Runs, VersionsInOrder
  <2>3. \A v \in versions' : 1..v \subseteq versions'
        BY <1>a, <2>1, <2>2, NeedsFacts DEF VersionsInOrder
  <2> QED BY <1>a, <2>1, <2>2, <2>3, MoveKeepsVersions, NeedsFacts
<1>6. ASSUME NEW p \in Process, OpenFails(p) \/ Crash(p) \/ Close(p) PROVE VersionsInOrder'
      BY <1>6, <1>b, NeedsFacts DEF OpenFails, Crash, Close, db
<1>7. ASSUME NEW p \in Process, NEW e \in Entry, WriteEntry(p, e) PROVE VersionsInOrder'
      BY <1>7, <1>a DEF WriteEntry, VersionsInOrder
<1> QED BY <1>1, <1>2, <1>4, <1>5, <1>6, <1>7 DEF Next, Migrate

\* The statements that may follow.
LEMMA AfterFacts ==
  /\ After("enabled") = "salt" /\ After("salt") = "verifier" /\ After("verifier") = "record2"
  /\ After("tables") = "record1" /\ After("bytes") = "duration" /\ After("duration") = "record3"
  /\ After("create") = "copy" /\ After("copy") = "drop" /\ After("drop") = "rename"
  /\ After("rename") = "record4" /\ After("record1") = "enabled" /\ After("record2") = "bytes"
  /\ After("record3") = "create" /\ After("record4") = "open"
  /\ \A v \in 0..4 : First(v) \in {"tables", "enabled", "bytes", "create", "open"}
  /\ First(0) = "tables"
BY DEF After, First

LEMMA MoveKeepsPairColumns ==
  ASSUME MigrationsTypeOK, PairColumnsThere, NEW p \in Process, NEW s, Goto(p, s),
         UNCHANGED pairCols, 2 \in versions' => 2 \in versions \/ pc[p] = "record2",
         s \notin {"salt", "verifier", "record2"}
  PROVE  PairColumnsThere'
BY DEF MigrationsTypeOK, PairColumnsThere, Goto

\* No column of sync_pairs is skipped.
LEMMA NextPairColumns == SchemaInv /\ [Next]_vars => PairColumnsThere'
<1> SUFFICES ASSUME SchemaInv, [Next]_vars PROVE PairColumnsThere'
    OBVIOUS
<1>a. MigrationsTypeOK /\ PairColumnsThere
      BY DEF SchemaInv, MigrationsInv
<1>1. CASE UNCHANGED vars
      BY <1>1, <1>a DEF vars, db, PairColumnsThere
<1>2. ASSUME NEW p \in Process, Open(p) PROVE PairColumnsThere'
      BY <1>2, <1>a, CurrentIsMax, AfterFacts, MoveKeepsPairColumns DEF Open, db, MigrationsTypeOK
<1>3. ASSUME NEW p \in Process, CreateTables(p) \/ CreateNewLog(p) \/ CopyLog(p)
             \/ DropOldLog(p) \/ RenameNewLog(p) \/ AddLogColumn(p)
      PROVE  PairColumnsThere'
  <2>1. \E s \in {"tables", "create", "copy", "drop", "rename", "bytes", "duration"} :
          Goto(p, After(s)) /\ UNCHANGED <<versions, pairCols>>
        BY <1>3 DEF CreateTables, CreateNewLog, CopyLog, DropOldLog, RenameNewLog,
                    AddLogColumn, LogColumns, Runs
  <2> QED BY <2>1, <1>a, AfterFacts, MoveKeepsPairColumns
<1>4. ASSUME NEW p \in Process, AddPairColumn(p) PROVE PairColumnsThere'
  <2>1. PICK c \in PairColumns : /\ pc[p] = c /\ Goto(p, After(c)) /\ UNCHANGED versions
                                 /\ pairCols' = pairCols \cup {c}
        BY <1>4 DEF AddPairColumn, Runs
  <2>2. CASE c = "enabled"
        BY <2>1, <2>2, <1>a, AfterFacts DEF Goto, PairColumnsThere, PairColumns, MigrationsTypeOK
  <2>3. CASE c = "salt"
        BY <2>1, <2>3, <1>a, AfterFacts DEF Goto, PairColumnsThere, PairColumns, MigrationsTypeOK
  <2>4. CASE c = "verifier"
        BY <2>1, <2>4, <1>a, AfterFacts DEF Goto, PairColumnsThere, PairColumns, MigrationsTypeOK
  <2> QED BY <2>2, <2>3, <2>4 DEF PairColumns
<1>5. ASSUME NEW p \in Process, Record(p) PROVE PairColumnsThere'
  <2>1. PICK s \in Records : /\ pc[p] = s /\ Goto(p, After(s)) /\ UNCHANGED pairCols
                             /\ versions' = versions \cup {Number(s)}
        BY <1>5 DEF Record, Runs
  <2>2. After(s) \notin {"salt", "verifier", "record2"} /\ (Number(s) = 2 => s = "record2")
        BY AfterFacts DEF Records, Number
  <2> QED BY <1>a, <2>1, <2>2, MoveKeepsPairColumns
<1>6. ASSUME NEW p \in Process, OpenFails(p) \/ Crash(p) \/ Close(p) PROVE PairColumnsThere'
      BY <1>6, <1>a, MoveKeepsPairColumns DEF OpenFails, Crash, Close, db
<1>7. ASSUME NEW p \in Process, NEW e \in Entry, WriteEntry(p, e) PROVE PairColumnsThere'
      BY <1>7, <1>a DEF WriteEntry, PairColumnsThere
<1> QED BY <1>1, <1>2, <1>3, <1>4, <1>5, <1>6, <1>7 DEF Next, Migrate

LogWhole == LogIsThere /\ NewLogIsOwned

LEMMA MoveKeepsLog ==
  ASSUME MigrationsTypeOK, LogWhole, NEW p \in Process, NEW s, Goto(p, s),
         UNCHANGED <<log, logNew>>,
         pc[p] # "rename", Rebuilding(p) => s \in Rebuild,
         s \notin {"duration", "record3", "record4", "rename"},
         \/ UNCHANGED versions /\ (pc[p] \in {"closed", "tables"} /\ versions = {} => s \in {"closed", "tables"})
         \/ /\ pc[p] \notin {"closed", "tables"}
            /\ log # Absent => /\ 3 \in versions' => 3 \in versions \/ pc[p] = "record3"
                               /\ 4 \in versions' => 4 \in versions \/ pc[p] = "record4"
  PROVE  LogWhole'
<1>1. Rebuilding(p) => Rebuilding(p)'
      BY DEF Goto, Rebuilding, MigrationsTypeOK
<1>2. \A q \in Process : q # p => pc'[q] = pc[q]
      BY DEF Goto, MigrationsTypeOK
<1>3. NewLogIsOwned'
      BY <1>1, <1>2 DEF LogWhole, NewLogIsOwned, Rebuilding
<1>4. pc'[p] = s
      BY DEF Goto, MigrationsTypeOK
<1>5. LogIsThere'
  <2>1. CASE log = Absent
        BY <1>2, <1>4, <2>1 DEF LogWhole, LogIsThere
  <2>2. CASE log # Absent
        BY <1>2, <1>4, <2>2 DEF LogWhole, LogIsThere
  <2> QED BY <2>1, <2>2
<1> QED BY <1>3, <1>5 DEF LogWhole

\* With no migration torn, the two tables are where the statements expect them.
LEMMA NextLog == SchemaInv /\ [Next]_vars /\ ~torn' => ~torn /\ LogWhole'
<1> SUFFICES ASSUME SchemaInv, [Next]_vars, ~torn' PROVE ~torn /\ LogWhole'
    OBVIOUS
<1>a. /\ MigrationsTypeOK /\ VersionsInOrder /\ OneRebuilds /\ NewLogIsThere
      /\ ~torn => LogWhole
      BY DEF SchemaInv, MigrationsInv, LogWhole
<1>1. CASE UNCHANGED vars
      BY <1>1, <1>a DEF vars, db, LogWhole, LogIsThere, NewLogIsOwned, Rebuilding
<1>2. ASSUME NEW p \in Process, Open(p) PROVE ~torn /\ LogWhole'
  <2>1. ~torn /\ pc[p] = "closed" /\ ~Rebuilding(p)
        BY <1>2 DEF Open, Rebuilding, Rebuild
  <2>2. /\ First(Current) \in {"tables", "enabled", "bytes", "create", "open"}
        /\ versions = {} => First(Current) = "tables"
        BY <1>a, CurrentIsMax, AfterFacts DEF MigrationsTypeOK
  <2> QED BY <1>2, <1>a, <2>1, <2>2, MoveKeepsLog DEF Open, db
<1>3. ASSUME NEW p \in Process, CreateTables(p) PROVE ~torn /\ LogWhole'
  <2>1. /\ ~torn /\ ~(log = Absent /\ logNew # Absent) /\ pc[p] = "tables" /\ ~Rebuilding(p)
        /\ Goto(p, "record1") /\ UNCHANGED <<versions, logNew>>
        /\ log' = IF log # Absent THEN log ELSE [rows |-> {}, cols |-> {}, dirs |-> FALSE]
        BY <1>3, <1>a, AfterFacts DEF CreateTables, Runs, Rebuilding, Rebuild, MigrationsTypeOK
  <2>2. CASE log # Absent
    <3>1. \A q \in Process : pc'[q] = IF q = p THEN "record1" ELSE pc[q]
          BY <2>1, <1>a DEF Goto, MigrationsTypeOK
    <3> QED BY <1>a, <2>1, <2>2, <3>1 DEF LogWhole, LogIsThere, NewLogIsOwned, Rebuilding, Rebuild
  <2>3. CASE log = Absent
    <3>1. \A q \in Process : pc[q] # "rename"
          BY <1>a, <2>1, <2>3 DEF NewLogIsThere, Rebuilding, Rebuild
    <3>2. versions = {} /\ \A q \in Process : pc'[q] \in {"closed", "tables", "record1"}
          BY <1>a, <2>1, <2>3, <3>1 DEF LogWhole, LogIsThere, Goto, MigrationsTypeOK
    <3>3. log' # Absent
      <4>1. [rows |-> {}, cols |-> {}, dirs |-> FALSE] \in Table
            BY DEF Table
      <4> QED BY <2>1, <2>3, <4>1, AbsentAssumption
    <3> QED BY <2>1, <2>3, <3>2, <3>3 DEF LogWhole, LogIsThere, NewLogIsOwned
  <2> QED BY <2>2, <2>3
<1>4. ASSUME NEW p \in Process, AddPairColumn(p) PROVE ~torn /\ LogWhole'
  <2>1. PICK c \in PairColumns : pc[p] = c /\ Goto(p, After(c)) /\ UNCHANGED <<versions, log, logNew, torn>>
        BY <1>4 DEF AddPairColumn, Runs
  <2>2. /\ After(c) \notin {"duration", "record3", "record4", "rename"} /\ ~Rebuilding(p)
        /\ pc[p] \notin {"closed", "tables", "rename"}
        BY <2>1, AfterFacts DEF PairColumns, Rebuilding, Rebuild
  <2> QED BY <1>a, <2>1, <2>2, MoveKeepsLog
<1>5. ASSUME NEW p \in Process, AddLogColumn(p) PROVE ~torn /\ LogWhole'
  <2>1. PICK c \in LogColumns :
          /\ pc[p] = c /\ Goto(p, After(c)) /\ log # Absent
          /\ log' = [log EXCEPT !.cols = @ \cup {c}] /\ UNCHANGED <<versions, logNew, torn>>
        BY <1>5, PossibleFacts DEF AddLogColumn, Runs
  <2>2. /\ log \in Table /\ log' # Absent /\ log'.cols = log.cols \cup {c} /\ log'.dirs = log.dirs
        /\ log.cols \subseteq LogColumns
        BY <1>a, <2>1, AbsentAssumption DEF MigrationsTypeOK, Table
  <2>3. \A q \in Process : pc'[q] = IF q = p THEN After(c) ELSE pc[q]
        BY <1>a, <2>1 DEF Goto, MigrationsTypeOK
  <2>4. CASE c = "bytes"
        BY <1>a, <2>1, <2>2, <2>3, <2>4, AfterFacts
        DEF LogWhole, LogIsThere, NewLogIsOwned, Rebuilding, Rebuild, LogColumns
  <2>5. CASE c = "duration"
        BY <1>a, <2>1, <2>2, <2>3, <2>5, AfterFacts
        DEF LogWhole, LogIsThere, NewLogIsOwned, Rebuilding, Rebuild, LogColumns
  <2> QED BY <2>4, <2>5 DEF LogColumns
<1>6. ASSUME NEW p \in Process, CreateNewLog(p) PROVE ~torn /\ LogWhole'
  <2>1. /\ pc[p] = "create" /\ Goto(p, "copy") /\ UNCHANGED <<versions, log, torn>>
        /\ logNew' = [rows |-> {}, cols |-> LogColumns, dirs |-> TRUE]
        BY <1>6, AfterFacts DEF CreateNewLog, Runs
  <2>2. \A q \in Process : pc'[q] = IF q = p THEN "copy" ELSE pc[q]
        BY <1>a, <2>1 DEF Goto, MigrationsTypeOK
  <2> QED BY <1>a, <2>1, <2>2 DEF LogWhole, LogIsThere, NewLogIsOwned, Rebuilding, Rebuild
<1>7. ASSUME NEW p \in Process, CopyLog(p) PROVE ~torn /\ LogWhole'
  <2>1. /\ pc[p] = "copy" /\ Goto(p, "drop") /\ UNCHANGED <<versions, log, torn>>
        /\ logNew # Absent /\ log # Absent /\ logNew' = [logNew EXCEPT !.rows = @ \cup log.rows]
        BY <1>7, PossibleFacts, AfterFacts DEF CopyLog, Runs
  <2>2. logNew' \in Table /\ logNew'.cols = logNew.cols /\ logNew'.dirs = logNew.dirs
        BY <1>a, <2>1 DEF MigrationsTypeOK, Table
  <2>3. \A q \in Process : pc'[q] = IF q = p THEN "drop" ELSE pc[q]
        BY <1>a, <2>1 DEF Goto, MigrationsTypeOK
  <2> QED BY <1>a, <2>1, <2>2, <2>3, AbsentAssumption
          DEF LogWhole, LogIsThere, NewLogIsOwned, Rebuilding, Rebuild
<1>8. ASSUME NEW p \in Process, DropOldLog(p) PROVE ~torn /\ LogWhole'
  <2>1. pc[p] = "drop" /\ Goto(p, "rename") /\ UNCHANGED <<versions, logNew, torn>> /\ log' = Absent
        BY <1>8, AfterFacts DEF DropOldLog, Runs
  <2>2. \A q \in Process : pc'[q] = IF q = p THEN "rename" ELSE pc[q]
        BY <1>a, <2>1 DEF Goto, MigrationsTypeOK
  <2> QED BY <1>a, <2>1, <2>2 DEF LogWhole, LogIsThere, NewLogIsOwned, Rebuilding, Rebuild
<1>9. ASSUME NEW p \in Process, RenameNewLog(p) PROVE ~torn /\ LogWhole'
  <2>1. /\ pc[p] = "rename" /\ Goto(p, "record4") /\ UNCHANGED <<versions, torn>>
        /\ logNew # Absent /\ log' = logNew /\ logNew' = Absent
        BY <1>9, PossibleFacts, AfterFacts DEF RenameNewLog, Runs
  <2>2. \A q \in Process : pc'[q] = IF q = p THEN "record4" ELSE pc[q]
        BY <1>a, <2>1 DEF Goto, MigrationsTypeOK
  <2>3. \A q \in Process : q # p => pc[q] # "rename"
        BY <1>a, <2>1 DEF OneRebuilds, Rebuilding, Rebuild
  <2> QED BY <1>a, <2>1, <2>2, <2>3 DEF LogWhole, LogIsThere, NewLogIsOwned, LogColumns
<1>10. ASSUME NEW p \in Process, Record(p) PROVE ~torn /\ LogWhole'
  <2>1. PICK s \in Records : /\ pc[p] = s /\ Goto(p, After(s)) /\ UNCHANGED <<log, logNew, torn>>
                             /\ versions' = versions \cup {Number(s)}
        BY <1>10 DEF Record, Runs
  <2>2. /\ After(s) \notin {"duration", "record3", "record4", "rename"} /\ ~Rebuilding(p)
        /\ pc[p] \notin {"closed", "tables", "rename"}
        /\ Number(s) = 3 => s = "record3"
        /\ Number(s) = 4 => s = "record4"
        BY <2>1, AfterFacts DEF Records, Rebuilding, Rebuild, Number
  <2> QED BY <1>a, <2>1, <2>2, MoveKeepsLog
<1>11. ASSUME NEW p \in Process, OpenFails(p) PROVE ~torn /\ LogWhole'
  <2>1. ~torn /\ Goto(p, "closed") /\ UNCHANGED db /\ ~Possible(pc[p]) /\ pc[p] # "closed"
        BY <1>11 DEF OpenFails, Opening
  <2>2. pc[p] # "rename"
    <3>1. SUFFICES ASSUME pc[p] = "rename" PROVE FALSE
          OBVIOUS
    <3>2. log = Absent /\ logNew # Absent
          BY <1>a, <2>1, <3>1 DEF LogWhole, LogIsThere, NewLogIsThere, Rebuilding, Rebuild
    <3> QED BY <2>1, <3>1, <3>2, PossibleFacts
  <2>3. ~Rebuilding(p)
    <3>1. SUFFICES ASSUME pc[p] \in {"copy", "drop"} PROVE FALSE
          BY <2>2 DEF Rebuilding, Rebuild
    <3>2. logNew # Absent /\ \A q \in Process : pc[q] # "rename"
          BY <1>a, <3>1 DEF NewLogIsThere, OneRebuilds, Rebuilding, Rebuild
    <3>3. log # Absent /\ 3 \in versions
          BY <1>a, <2>1, <3>1, <3>2
          DEF LogWhole, LogIsThere, VersionsInOrder, Needs, Rebuild, PairColumns, LogColumns
    <3>4. log.cols = LogColumns
          BY <1>a, <2>1, <3>3 DEF LogWhole, LogIsThere
    <3> QED BY <2>1, <3>1, <3>2, <3>3, <3>4, PossibleFacts
  <2> QED BY <1>a, <2>1, <2>2, <2>3, MoveKeepsLog DEF db
<1>12. ASSUME NEW p \in Process, Crash(p) PROVE ~torn /\ LogWhole'
  <2>1. ~torn /\ Goto(p, "closed") /\ UNCHANGED db /\ ~Rebuilding(p) /\ pc[p] # "rename"
        BY <1>12, <1>a DEF Crash, Unrepeatable, Rebuilding, Rebuild, MigrationsTypeOK
  <2> QED BY <1>a, <2>1, MoveKeepsLog DEF db
<1>13. ASSUME NEW p \in Process, Close(p) PROVE ~torn /\ LogWhole'
  <2>1. ~torn /\ Goto(p, "closed") /\ UNCHANGED db /\ ~Rebuilding(p) /\ pc[p] # "rename"
        BY <1>13 DEF Close, Rebuilding, Rebuild
  <2> QED BY <1>a, <2>1, MoveKeepsLog DEF db
<1>14. ASSUME NEW p \in Process, NEW e \in Entry, WriteEntry(p, e) PROVE ~torn /\ LogWhole'
  <2>1. /\ log # Absent /\ log' # Absent /\ log'.cols = log.cols /\ log'.dirs = log.dirs
        /\ UNCHANGED <<versions, logNew, pc, torn>>
        BY <1>14, <1>a, AbsentAssumption DEF WriteEntry, MigrationsTypeOK, Table
  <2> QED BY <1>a, <2>1 DEF LogWhole, LogIsThere, NewLogIsOwned, Rebuilding
<1> QED BY <1>1, <1>2, <1>3, <1>4, <1>5, <1>6, <1>7, <1>8, <1>9, <1>10, <1>11, <1>12, <1>13, <1>14
        DEF Next, Migrate

THEOREM InitSchema == Init => SchemaInv
<1> SUFFICES ASSUME Init PROVE SchemaInv
    OBVIOUS
<1>1. PICK v \in Versions :
        /\ versions = 1..v
        /\ pairCols = IF v < 2 THEN {} ELSE PairColumns
        /\ \/ v = 0 /\ log = Absent
           \/ v > 0 /\ log \in [rows : SUBSET Entry, cols : {IF v < 3 THEN {} ELSE LogColumns},
                                dirs : {v = 4}]
      BY DEF Init
<1>2. v \in 0..4 /\ \A p \in Process : pc[p] = "closed"
      BY VersionsAssumption DEF Init
<1>3. VersionsInOrder
      BY <1>1, <1>2, NeedsFacts DEF VersionsInOrder
<1>4. PairColumnsThere
      BY <1>1, <1>2 DEF PairColumnsThere
<1>5. LogIsThere
  <2>1. CASE v = 0
        BY <1>1, <1>2, <2>1 DEF Init, LogIsThere
  <2>2. CASE v > 0
    <3>1. log # Absent /\ log.cols = IF v < 3 THEN {} ELSE LogColumns
      <4>1. log \in [rows : SUBSET Entry, cols : {IF v < 3 THEN {} ELSE LogColumns}, dirs : {v = 4}]
            BY <1>1, <2>2
      <4>2. (IF v < 3 THEN {} ELSE LogColumns) \in SUBSET LogColumns /\ (v = 4) \in BOOLEAN
            OBVIOUS
      <4>3. log \in Table
            BY <4>1, <4>2 DEF Table
      <4> QED BY <4>1, <4>3, AbsentAssumption
    <3>2. 3 \in versions => log.cols = LogColumns
          BY <1>1, <1>2, <3>1
    <3>3. 4 \in versions => log.dirs
      <4>1. ASSUME 4 \in versions PROVE v = 4
            BY <1>1, <1>2, <4>1
      <4>2. ASSUME v = 4 PROVE log.dirs = TRUE
        <5>1. log.dirs \in {v = 4}
              BY <1>1, <2>2
        <5> QED BY <4>2, <5>1
      <4> QED BY <4>1, <4>2
    <3> QED BY <1>2, <3>1, <3>2, <3>3 DEF LogIsThere
  <2> QED BY <1>2, <2>1, <2>2
<1>6. NewLogIsOwned
      BY DEF Init, NewLogIsOwned
<1> QED BY <1>3, <1>4, <1>5, <1>6, InitMigrations DEF SchemaInv

THEOREM NextSchema == SchemaInv /\ [Next]_vars => SchemaInv'
<1> SUFFICES ASSUME SchemaInv, [Next]_vars PROVE SchemaInv'
    OBVIOUS
<1>1. MigrationsInv'
      BY NextMigrations DEF SchemaInv
<1>2. ~torn' => LogIsThere' /\ NewLogIsOwned'
      BY NextLog DEF LogWhole
<1> QED BY <1>1, <1>2, NextVersions, NextPairColumns DEF SchemaInv

(***************************************************************************)
(* Unless a crash has torn a migration, a program that has the database    *)
(* open while nobody migrates it has the schema of version 4, whatever     *)
(* other programs opened, gave up or crashed on the way (run_all).         *)
(***************************************************************************)
THEOREM OpenTheorem == Spec => []OpenMeansMigrated
<1>1. SchemaInv => OpenMeansMigrated
  <2> SUFFICES ASSUME SchemaInv, ~torn, NEW p \in Process, pc[p] = "open",
                      \A q \in Process : ~Opening(q)
               PROVE  Complete
      BY DEF OpenMeansMigrated
  <2>1. {1, 2, 3, 4} \subseteq versions /\ versions \subseteq 1..4
        BY DEF SchemaInv, VersionsInOrder, Needs, PairColumns, LogColumns, Rebuild, MigrationsInv,
               MigrationsTypeOK
  <2>2. versions = 1..4
    <3>1. 1..4 = {1, 2, 3, 4}
          OBVIOUS
    <3> QED BY <2>1, <3>1
  <2>3. pairCols = PairColumns
        BY <2>1 DEF SchemaInv, PairColumnsThere
  <2>4. \A q \in Process : ~Rebuilding(q) /\ pc[q] # "rename"
        BY DEF Opening, Rebuilding, Rebuild
  <2>5. logNew = Absent
        BY <2>4 DEF SchemaInv, NewLogIsOwned
  <2>6. log # Absent /\ log.cols = LogColumns /\ log.dirs
        BY <2>1, <2>4 DEF SchemaInv, LogIsThere
  <2> QED BY <2>2, <2>3, <2>5, <2>6 DEF Complete
<1> QED BY InitSchema, NextSchema, <1>1, PTL DEF Spec

=============================================================================
