--------------------------- MODULE ThreeWayProofs ---------------------------
(***************************************************************************)
(* The decision table of compute_actions, for every set of hashes: it      *)
(* destroys no hashed file the index does not know, favours neither side,  *)
(* and skips nothing that can be compared and differs.                     *)
(***************************************************************************)
EXTENDS ThreeWayTable, TLAPS

LEMMA TableTypes == Spec => []TypeOK
<1>1. Init => TypeOK
  BY DEF Init, TypeOK, LocalEntries, RemoteEntries, Rows
<1>2. TypeOK /\ [Next]_vars => TypeOK'
  BY DEF TypeOK, Next, LocalSeen, RemoteSeen, BaseLoaded, vars
<1> QED
  BY <1>1, <1>2, PTL DEF Spec

(***************************************************************************)
(* compute_actions overwrites or deletes a file that has a hash only where *)
(* the index recorded that very hash on that side.                         *)
(***************************************************************************)
THEOREM OnlyTheBaseIsDestroyed == Spec => []DestroysOnlyTheBase
<1>1. DestroysOnlyTheBase
  BY DEF DestroysOnlyTheBase, Decision, Decide, NewLocal, NewRemote, FirstSync, Tracked,
     LocalGone, RemoteGone, LocalChanged, RemoteChanged, LocalIsBase, RemoteIsBase,
     IsHashed, Pushes, Pulls
<1> QED
  BY <1>1, PTL

(***************************************************************************)
(* compute_actions treats the two sides alike: with the sides, their base  *)
(* hashes and the direction of the pair exchanged, the decision is the     *)
(* exchanged one.                                                          *)
(***************************************************************************)
THEOREM NeitherSideIsFavoured == Spec => []FavoursNeitherSide
<1>1. ASSUME TypeOK PROVE FavoursNeitherSide
  <2> SUFFICES Decide(OtherMode(mode), encrypted, r, l, Swapped(b)) \in OtherSide(Decision)
    BY DEF FavoursNeitherSide
  <2>1. Pushes(OtherMode(mode)) = Pulls(mode) /\ Pulls(OtherMode(mode)) = Pushes(mode)
    BY <1>1 DEF Pushes, Pulls, OtherMode, TypeOK, SyncModes
  <2>2. b = None => Swapped(b) = None
    BY DEF Swapped
  <2>3. b # None => /\ Swapped(b).localHash = b.remoteMd5 /\ Swapped(b).remoteMd5 = b.localHash
                    /\ Swapped(b) # None
    <3> SUFFICES ASSUME b # None
                 PROVE  /\ Swapped(b).localHash = b.remoteMd5 /\ Swapped(b).remoteMd5 = b.localHash
                        /\ Swapped(b) # None
      OBVIOUS
    <3>1. b \in Row /\ \A row \in Row : row # None
      BY <1>1, HashAssumption DEF TypeOK, Rows
    <3>2. Swapped(b) = [localHash |-> b.remoteMd5, remoteMd5 |-> b.localHash]
      BY DEF Swapped
    <3>3. Swapped(b) \in Row
      BY <3>1, <3>2 DEF Row
    <3> QED
      BY <3>1, <3>2, <3>3
  <2>4. l \in {None, Folder} \/ (l.dir = FALSE /\ l.hash \in Hash \cup {None})
    BY <1>1 DEF TypeOK, LocalEntries, Entry
  <2>5. r \in {None, Folder} \/ (r.dir = FALSE /\ r.hash \in Hash \cup {None})
    BY <1>1 DEF TypeOK, RemoteEntries, LocalEntries, Entry
  <2>6. Folder.dir /\ Folder.hash = None
    BY DEF Folder
  <2> HIDE DEF Folder
  <2>7. CASE b = None
    BY <2>1, <2>2, <2>4, <2>5, <2>6, <2>7, HashAssumption
       DEF Decision, Decide, NewLocal, NewRemote, FirstSync, OtherSide
  <2>8. CASE b # None
    BY <2>1, <2>3, <2>4, <2>5, <2>6, <2>8
       DEF Decision, Decide, Tracked, LocalGone, RemoteGone, LocalChanged, RemoteChanged, OtherSide
  <2> QED
    BY <2>7, <2>8
<1> QED
  BY <1>1, TableTypes, PTL

(***************************************************************************)
(* compute_actions leaves nothing behind that it can compare: where not a  *)
(* file stands against a folder or a file without a hash, a two-way pair   *)
(* skips only what is gone, a folder on both sides, the same on both, or   *)
(* what the index recorded on both.                                        *)
(***************************************************************************)
THEOREM OnlySettledPathsAreSkipped == Spec => []SkipsOnlySettledPaths
<1>1. ASSUME TypeOK PROVE SkipsOnlySettledPaths
  <2> SUFFICES ASSUME mode = "two-way", Decision = "Skip", Comparable
               PROVE  \/ l = None /\ r = None
                      \/ IsFolder(l) /\ IsFolder(r)
                      \/ l # None /\ r # None /\ (l = r \/ (LocalIsBase /\ RemoteIsBase))
    BY DEF SkipsOnlySettledPaths
  <2>1. Pushes(mode) /\ Pulls(mode)
    BY DEF Pushes, Pulls
  <2>2. l = None \/ l.dir \/ (~l.dir /\ l = Entry(l.hash))
    BY <1>1 DEF TypeOK, LocalEntries, Entry, Folder
  <2>3. r = None \/ r.dir \/ (~r.dir /\ r = Entry(r.hash))
    BY <1>1 DEF TypeOK, RemoteEntries, LocalEntries, Entry, Folder
  <2>4. CASE l = None \/ r = None
    BY <2>1, <2>4 DEF Decision, Decide, NewLocal, NewRemote, LocalGone, RemoteGone
  <2>5. ASSUME l # None, r # None
        PROVE  (IsFolder(l) /\ IsFolder(r)) \/ l = r \/ (LocalIsBase /\ RemoteIsBase)
    <3>1. CASE l.dir
      BY <2>2, <2>3, <2>5, <3>1 DEF Comparable, IsFolder
    <3>2. ASSUME ~l.dir
          PROVE  /\ ~l.dir /\ ~r.dir /\ l = Entry(l.hash) /\ r = Entry(r.hash)
                 /\ l.hash # None /\ r.hash # None
      BY <2>2, <2>3, <2>5, <3>2 DEF Comparable, Unhashed
    <3>3. CASE ~l.dir /\ b = None
      BY <2>5, <3>2, <3>3 DEF Decision, Decide, FirstSync
    <3>4. CASE ~l.dir /\ b # None
      BY <2>1, <2>5, <3>2, <3>4
         DEF Decision, Decide, Tracked, LocalChanged, RemoteChanged, LocalIsBase, RemoteIsBase
    <3> QED
      BY <3>1, <3>3, <3>4
  <2> QED
    BY <2>4, <2>5
<1> QED
  BY <1>1, TableTypes, PTL
=============================================================================
