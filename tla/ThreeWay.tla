------------------------------ MODULE ThreeWay ------------------------------
(***************************************************************************)
(* The three-way comparison of the sync engine: what a cycle decides to do *)
(* with one path, from what it saw of the path locally, what the remote    *)
(* listing said, and what the file index recorded as last synced           *)
(* (SyncEngine::compute_actions).  A pure function; SyncEngine executes it *)
(* and ThreeWayTable checks it as a table.                                 *)
(*                                                                         *)
(* A hash is abstracted to the bytes it stands for: blake3 and MD5 are     *)
(* taken to be injective on the contents that occur.                       *)
(***************************************************************************)

CONSTANT None          \* no such file, no index row, no hash

SyncModes == {"two-way", "local-to-cloud", "cloud-to-local"}

\* The arms of the comparison that end in SyncAction::Conflict (ConflictKind).
BothPresent   == {"BothModified", "FirstSyncDivergent"}
ConflictKinds == BothPresent \cup {"LocalDeletedRemoteModified", "RemoteDeletedLocalModified"}

Transfers  == {"Upload", "UpdateRemote", "Download"}
Deletes    == {"DeleteLocal", "DeleteRemote"}
DirCreates == {"CreateLocalDir", "CreateRemoteDir"}
Kinds      == Transfers \cup Deletes \cup DirCreates \cup ConflictKinds \cup {"Skip"}

(***************************************************************************)
(* What either side shows of a path: None, or an entry.  A folder has no   *)
(* hash; a file that can no longer be read has none either.                *)
(***************************************************************************)
Entry(hash) == [dir |-> FALSE, hash |-> hash]
Folder      == [dir |-> TRUE, hash |-> None]

\* The directions a mode lets changes travel in.
Pushes(mode) == mode # "cloud-to-local"
Pulls(mode)  == mode # "local-to-cloud"

(***************************************************************************)
(* The seven inhabited arms of the match on (in_local, in_remote, in_base).*)
(* l and r are the two sides' entries, b the index row.                    *)
(***************************************************************************)
NewLocal(mode, l) ==
  IF ~Pushes(mode) THEN "Skip" ELSE IF l.dir THEN "CreateRemoteDir" ELSE "Upload"

\* Mutant: a two-way pair ignores files that are new on Drive.
NewRemotePullOnly(mode, r) ==
  IF mode # "cloud-to-local" THEN "Skip" ELSE IF r.dir THEN "CreateLocalDir" ELSE "Download"

NewRemote(mode, r) ==
  IF ~Pulls(mode) THEN "Skip" ELSE IF r.dir THEN "CreateLocalDir" ELSE "Download"

\* An encrypted pair cannot compare plaintext with ciphertext: it always defers.
FirstSync(encrypted, l, r) ==
  IF \/ l.dir \/ r.dir
     \/ ~encrypted /\ l.hash # None /\ l.hash = r.hash
  THEN "Skip" ELSE "FirstSyncDivergent"

LocalChanged(l, b)  == l.hash # b.localHash
RemoteChanged(r, b) == r.hash # b.remoteMd5

Tracked(mode, l, r, b) ==
  CASE l.dir \/ r.dir                                               -> "Skip"
    [] ~(l.dir \/ r.dir) /\ LocalChanged(l, b) /\ RemoteChanged(r, b)
                                                                    -> "BothModified"
    [] ~(l.dir \/ r.dir) /\ LocalChanged(l, b) /\ ~RemoteChanged(r, b)
                                  -> IF Pushes(mode) THEN "UpdateRemote" ELSE "Skip"
    [] ~(l.dir \/ r.dir) /\ ~LocalChanged(l, b) /\ RemoteChanged(r, b)
                                  -> IF Pulls(mode) THEN "Download" ELSE "Skip"
    [] OTHER                                                        -> "Skip"

\* Mutants: a local delete wins over a remote edit; it travels in every mode.
LocalGoneBlind(mode, r, b)   == IF ~Pushes(mode) THEN "Skip" ELSE "DeleteRemote"
LocalGoneAnyMode(mode, r, b) ==
  IF RemoteChanged(r, b) THEN "LocalDeletedRemoteModified" ELSE "DeleteRemote"

LocalGone(mode, r, b) ==
  IF ~Pushes(mode) THEN "Skip"
  ELSE IF RemoteChanged(r, b) THEN "LocalDeletedRemoteModified" ELSE "DeleteRemote"

\* Mutants: a remote delete wins over a local edit; it travels in every mode.
RemoteGoneBlind(mode, l, b)   == IF ~Pulls(mode) THEN "Skip" ELSE "DeleteLocal"
RemoteGoneAnyMode(mode, l, b) ==
  IF LocalChanged(l, b) THEN "RemoteDeletedLocalModified" ELSE "DeleteLocal"

RemoteGone(mode, l, b) ==
  IF ~Pulls(mode) THEN "Skip"
  ELSE IF LocalChanged(l, b) THEN "RemoteDeletedLocalModified" ELSE "DeleteLocal"

Decide(mode, encrypted, l, r, b) ==
  CASE l # None /\ r = None /\ b = None -> NewLocal(mode, l)
    [] l = None /\ r # None /\ b = None -> NewRemote(mode, r)
    [] l # None /\ r # None /\ b = None -> FirstSync(encrypted, l, r)
    [] l # None /\ r # None /\ b # None -> Tracked(mode, l, r, b)
    [] l = None /\ r # None /\ b # None -> LocalGone(mode, r, b)
    [] l # None /\ r = None /\ b # None -> RemoteGone(mode, l, b)
    [] OTHER                            -> "Skip"   \* deleted on both sides: the row stays

(***************************************************************************)
(* sort_actions: creates, then transfers, then deletes, then conflicts.    *)
(***************************************************************************)
Bucket(kind) ==
  CASE kind \in DirCreates    -> 0
    [] kind \in Transfers     -> 1
    [] kind \in Deletes       -> 2
    [] kind \in ConflictKinds -> 3
    [] OTHER                  -> 4
=============================================================================
