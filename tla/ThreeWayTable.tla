--------------------------- MODULE ThreeWayTable ----------------------------
(***************************************************************************)
(* The decision table of ThreeWay as a state machine whose states are all  *)
(* inputs of compute_actions for one path: what each side shows and what   *)
(* the index recorded change independently of each other.                  *)
(***************************************************************************)
EXTENDS ThreeWay

CONSTANT Hash          \* hashes of the contents that occur

Row == [localHash : Hash \cup {None}, remoteMd5 : Hash \cup {None}]

ASSUME HashAssumption == None \notin Hash \cup Row

VARIABLES mode, encrypted, l, r, b

vars == <<mode, encrypted, l, r, b>>

\* A local file may have become unreadable; a Google Doc has no md5.
LocalEntries  == {None, Folder} \cup {Entry(h) : h \in Hash \cup {None}}
RemoteEntries == LocalEntries
Rows == {None} \cup Row

TypeOK ==
  /\ mode \in SyncModes /\ encrypted \in BOOLEAN
  /\ l \in LocalEntries /\ r \in RemoteEntries /\ b \in Rows

Init ==
  /\ mode \in SyncModes /\ encrypted \in BOOLEAN
  /\ l = None /\ r = None /\ b = None

LocalSeen  == l' \in LocalEntries  /\ UNCHANGED <<mode, encrypted, r, b>>
RemoteSeen == r' \in RemoteEntries /\ UNCHANGED <<mode, encrypted, l, b>>
BaseLoaded == b' \in Rows          /\ UNCHANGED <<mode, encrypted, l, r>>

Next == LocalSeen \/ RemoteSeen \/ BaseLoaded

Spec == Init /\ [][Next]_vars

Decision == Decide(mode, encrypted, l, r, b)

\* A file the comparison cannot tell from others: unreadable, or without an md5.
Unhashed(e) == e # None /\ ~e.dir /\ e.hash = None

\* The index says that side still holds, hash for hash, what was last synced.
LocalIsBase  == b # None /\ l.hash # None /\ l.hash = b.localHash
RemoteIsBase == b # None /\ r.hash # None /\ r.hash = b.remoteMd5

(***************************************************************************)
(* A file is overwritten or deleted only if the index recorded its very    *)
(* hash on that side, in every mode, encrypted or not (compute_actions).   *)
(* Not claimed of a file without a hash: the code takes an absent hash for *)
(* equal to an absent hash, so a row flagged without hashes lets a local   *)
(* file be uploaded over a Google Doc.                                     *)
(***************************************************************************)
IsHashed(e) == e # None /\ e.hash # None

DestroysOnlyTheBase ==
  /\ IsHashed(l) /\ Decision \in {"Download", "DeleteLocal", "CreateLocalDir"}
       => LocalIsBase
  /\ IsHashed(r) /\ Decision \in {"Upload", "UpdateRemote", "DeleteRemote", "CreateRemoteDir"}
       => RemoteIsBase

(***************************************************************************)
(* The comparison favours neither side: exchanging the two sides (with     *)
(* their base hashes and the pair's direction) exchanges the decision.     *)
(***************************************************************************)
OtherMode(m) ==
  CASE m = "local-to-cloud" -> "cloud-to-local"
    [] m = "cloud-to-local" -> "local-to-cloud"
    [] OTHER                -> m

\* What a decision means seen from the other side.
OtherSide(kind) ==
  CASE kind \in {"Upload", "UpdateRemote"}      -> {"Download"}
    [] kind = "Download"                        -> {"Upload", "UpdateRemote"}
    [] kind = "DeleteLocal"                     -> {"DeleteRemote"}
    [] kind = "DeleteRemote"                    -> {"DeleteLocal"}
    [] kind = "CreateLocalDir"                  -> {"CreateRemoteDir"}
    [] kind = "CreateRemoteDir"                 -> {"CreateLocalDir"}
    [] kind = "LocalDeletedRemoteModified"      -> {"RemoteDeletedLocalModified"}
    [] kind = "RemoteDeletedLocalModified"      -> {"LocalDeletedRemoteModified"}
    [] OTHER                                    -> {kind}

Swapped(row) ==
  IF row = None THEN None ELSE [localHash |-> row.remoteMd5, remoteMd5 |-> row.localHash]

FavoursNeitherSide ==
  Decide(OtherMode(mode), encrypted, r, l, Swapped(b)) \in OtherSide(Decision)

(***************************************************************************)
(* A two-way pair leaves a path alone only if there is nothing to carry    *)
(* over: it is gone from both sides, a folder on both, the same file on    *)
(* both, or on both sides the file the index recorded (compute_actions).   *)
(* Where both sides have the path this is claimed only of what can be      *)
(* compared.  A file on one side and a folder on the other is skipped for  *)
(* good ("directory exists on both sides"), and so is a file without a     *)
(* hash whose row has none: both are left unsynced without a word.         *)
(***************************************************************************)
IsFolder(e) == e # None /\ e.dir

Comparable ==
  l # None /\ r # None => (l.dir <=> r.dir) /\ ~Unhashed(l) /\ ~Unhashed(r)

SkipsOnlySettledPaths ==
  mode = "two-way" /\ Decision = "Skip" /\ Comparable =>
    \/ l = None /\ r = None
    \/ IsFolder(l) /\ IsFolder(r)
    \/ l # None /\ r # None /\ (l = r \/ (LocalIsBase /\ RemoteIsBase))
=============================================================================
