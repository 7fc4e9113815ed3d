---------------------------- MODULE SyncPromises ----------------------------
(***************************************************************************)
(* What the repository's documents say of a resolved conflict, and the     *)
(* code does not do; CyclesStayLossless is what holds instead.             *)
(***************************************************************************)
EXTENDS ConflictResolution

\* History: the version a finished keep-local left on this machine for a tracked file
\* that was in conflict, until a user does something again.
VARIABLE kept

promiseVars == <<allVars, kept>>

WasTracked(entry) == entry.localHash # None /\ entry.state = "conflict"

Finished(p) ==
  \E c \in Call :
    /\ AtDesk(c, p) /\ desk'[c] = None /\ index'[p] = SettledRow(desk[c])
    /\ desk[c].choice = "keep-local" /\ WasTracked(desk[c].entry)

PromiseInit == ResolveInit /\ kept = [p \in Path |-> None]

PromiseNext ==
  /\ ResolveNext
  /\ kept' = [p \in Path |-> CASE ops' # ops  -> None
                               [] Finished(p) -> local[p]
                               [] OTHER       -> kept[p]]

PromiseSpec == PromiseInit /\ [][PromiseNext]_promiseVars

(***************************************************************************)
(* D4 of tests/SCENARIOS.md: a file deleted on Drive and edited here is a  *)
(* conflict, and the local edit survives.  The user has even said to keep  *)
(* it.  resolve_conflict sends it into the object in the trash and records *)
(* a synced row, so that the next cycle finds the file unchanged here and  *)
(* gone on Drive, and deletes it.                                          *)
(***************************************************************************)
KeptEditSurvives ==
  [][\A p \in Path :
       EngineStep /\ local[p] # None /\ local[p] = kept[p] => local'[p] # None]_promiseVars
=============================================================================
