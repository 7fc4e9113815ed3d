---------------------------- MODULE TransferStats ----------------------------
(***************************************************************************)
(* The statistics page: what TransferStats::compute makes of the change    *)
(* log, and which two summaries get_transfer_stats asks it for.  A cycle   *)
(* logs each finished action; rows from before version 3 of the schema     *)
(* have neither bytes nor a duration; deleting a pair takes its rows along.*)
(*                                                                         *)
(* created_at and the bound on it are both texts to SQLite.  A text is     *)
(* either a timestamp, taken as its day, or the text of an expression; a   *)
(* digit sorts before a letter, so a timestamp sorts before an expression. *)
(***************************************************************************)
EXTENDS Naturals, Sequences, FiniteSetsExt

CONSTANTS
  Pair,       \* the sync pairs
  Sizes,      \* what a transfer may move, and how long it may take
  Null,       \* SQL's NULL; None where compute is not given a pair or a bound
  Window,     \* seven days
  MaxRows,    \* bound on the rows ever logged
  MaxDays     \* bound on the days that pass

VARIABLES
  pairs,      \* sync_pairs
  log,        \* change_log
  today       \* the day datetime('now') is on

vars == <<pairs, log, today>>

Moves   == {"upload", "download"}
Deletes == {"delete-local", "delete-remote"}
Logged  == Moves \cup Deletes \cup {"conflict", "error", "create-local-dir",
                                    "create-remote-dir", "resolve"}

\* What an execution reports: measured transfers only.
Metrics == [bytes : Sizes, ms : Sizes]

Stamp(day)          == [isExpression |-> FALSE, day |-> day]
Expression          == [isExpression |-> TRUE, day |-> 0]
AtLeast(day, since) == ~since.isExpression /\ day >= since.day

-----------------------------------------------------------------------------
(***************************************************************************)
(* TransferStats::compute.                                                 *)
(***************************************************************************)
\* WHERE: both filters are left out when they are not given.
Selected(p, since) ==
  {i \in DOMAIN log : /\ p # Null => log[i].pair = p
                      /\ since # Null => AtLeast(log[i].created, since)}

Measured(rows) == {i \in rows : log[i].bytes # Null}

\* COUNT and SUM per action; SUM passes over NULL.
Totals(rows, action) ==
  LET mine == {i \in rows : log[i].action = action}
  IN [files     |-> Cardinality(mine),
      bytes     |-> MapThenSumSet(LAMBDA i : log[i].bytes, Measured(mine)),
      ms        |-> MapThenSumSet(LAMBDA i : log[i].ms, Measured(mine)),
      measured  |-> Cardinality(Measured(mine))]

Count(rows, actions) == Cardinality({i \in rows : log[i].action \in actions})

\* MIN and MAX of created_at.
Reach(rows) ==
  IF rows = {} THEN <<Null, Null>>
  ELSE <<Min({log[i].created : i \in rows}), Max({log[i].created : i \in rows})>>

Compute(p, since) ==
  LET rows == Selected(p, since)
  IN [uploaded   |-> Totals(rows, "upload"),
      downloaded |-> Totals(rows, "download"),
      deleted    |-> Count(rows, Deletes),
      conflicts  |-> Count(rows, {"conflict"}),
      errors     |-> Count(rows, {"error"}),
      reach      |-> Reach(rows)]

\* The bound is bound as a parameter: SQLite does not evaluate it.
Since == Expression

GetTransferStats(p) == [allTime |-> Compute(p, Null), last7Days |-> Compute(p, Since)]

-----------------------------------------------------------------------------
Init ==
  /\ pairs = Pair
  /\ today = 0
  /\ \/ log = <<>>
     \/ \E p \in Pair, a \in Moves :
           log = <<[pair |-> p, action |-> a, created |-> 0, bytes |-> Null, ms |-> Null]>>

\* log_transfer and log_change: the insert may fail, which nobody notices; for a pair
\* deleted while its cycle runs it always does (the foreign key).
Log(p, action) ==
  /\ Len(log) < MaxRows
  /\ p \in pairs
  /\ \E m \in IF action \in Moves THEN Metrics ELSE {[bytes |-> Null, ms |-> Null]} :
        log' = Append(log, [pair |-> p, action |-> action, created |-> today,
                            bytes |-> m.bytes, ms |-> m.ms])
  /\ UNCHANGED <<pairs, today>>

DeletePair(p) ==
  /\ p \in pairs
  /\ pairs' = pairs \ {p}
  /\ log' = SelectSeq(log, LAMBDA row : row.pair # p)
  /\ UNCHANGED today

NextDay ==
  /\ today < MaxDays
  /\ today' = today + 1
  /\ UNCHANGED <<pairs, log>>

Next ==
  \/ NextDay
  \/ \E p \in Pair : DeletePair(p) \/ \E action \in Logged : Log(p, action)

Spec == Init /\ [][Next]_vars

-----------------------------------------------------------------------------
(***************************************************************************)
(* What the statistics page and the comment on `since` say: the second     *)
(* summary is the first one restricted to the last seven days              *)
(* (get_transfer_stats, TransferStats::compute).                           *)
(***************************************************************************)
WeekStart == IF today < Window THEN 0 ELSE today - Window

LastWeekIsCounted ==
  \A p \in Pair \cup {Null} :
    GetTransferStats(p).last7Days = Compute(p, Stamp(WeekStart))
=============================================================================
