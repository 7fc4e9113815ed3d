---------------------------- MODULE MCSyncEngine ----------------------------
(***************************************************************************)
(* Small instances of SyncEngine for TLC.                                  *)
(***************************************************************************)
EXTENDS SyncEngineInv, TLC

\* Contents and object ids are interchangeable.
Symmetry == Permutations(Content) \cup Permutations(ObjId)
=============================================================================
