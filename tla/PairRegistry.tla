---------------------------- MODULE PairRegistry ----------------------------
(***************************************************************************)
(* The sync pairs: the row of sync_pairs, and for an encrypted pair the    *)
(* key in the operating system's keyring.  The two live in different       *)
(* stores, and the desktop commands write one after the other; the         *)
(* command line writes only the row.  Desktop commands hold the app's      *)
(* mutex, so one runs at a time.                                           *)
(***************************************************************************)
EXTENDS FiniteSets, Naturals

CONSTANTS
  Pair,         \* the ids a pair may ever get
  MaxCommands,  \* bound on what users do to the pairs
  None

ASSUME PairAssumption == None \notin Pair /\ MaxCommands \in Nat

VARIABLES
  row,       \* the row's status, or where the id is in its life
  encrypted, \* the pairs whose row says encryption_enabled
  keyring,   \* the pairs whose key the keyring holds
  lost,      \* history: the pairs whose key the user revoked
  cmd,       \* the desktop command between its two writes, or None
  setting,   \* the settings file: auto-sync on, off, or torn by an unfinished write
  commands   \* user commands so far

registry == <<row, encrypted, keyring, lost, cmd, setting, commands>>

Status  == {"active", "paused", "error"}
Command == [op : {"insert", "rollback", "forget", "unlock"}, pair : Pair]
             \cup [op : {"settings"}, value : {"on", "off"}]

RegistryTypeOK ==
  /\ row \in [Pair -> Status \cup {"unborn", "gone"}]
  /\ encrypted \subseteq Pair /\ keyring \subseteq Pair /\ lost \subseteq Pair
  /\ cmd \in Command \cup {None}
  /\ setting \in {"on", "off", "torn"}
  /\ commands \in 0..MaxCommands

Exists(p) == row[p] \in Status
Locked(p) == p \in encrypted \ keyring

RegistryInit ==
  /\ row \in [Pair -> {"active", "unborn"}]
  /\ encrypted \in SUBSET {p \in Pair : Exists(p)} /\ keyring = encrypted /\ lost = {}
  /\ cmd = None /\ setting = "on" /\ commands = 0

Active == {p \in Pair : row[p] = "active"}

\* A fresh uuid.
NewId(p) == row[p] = "unborn" /\ p \notin keyring \cup lost

Count == commands < MaxCommands /\ commands' = commands + 1
Begins(c) == cmd = None /\ Count /\ cmd' = c
Goes(c)  == cmd' = c /\ UNCHANGED commands
Write(p, s) == row' = [row EXCEPT ![p] = s]

-----------------------------------------------------------------------------
(***************************************************************************)
(* add_sync_pair and the command line's add, which cannot encrypt.         *)
(***************************************************************************)
\* Mutant: the row first, then the key.
StoreKeyLate(p) ==
  /\ NewId(p)
  /\ Begins([op |-> "unlock", pair |-> p])
  /\ Write(p, "active") /\ encrypted' = encrypted \cup {p}
  /\ UNCHANGED <<keyring, lost, setting>>

\* The key goes into the keyring before the row exists; the id is new.
StoreKey(p) ==
  /\ NewId(p)
  /\ Begins([op |-> "insert", pair |-> p])
  /\ keyring' = keyring \cup {p}
  /\ UNCHANGED <<encrypted, row, lost, setting>>

Doing(op, p) == cmd # None /\ cmd.op = op /\ cmd.pair = p

InsertRow(p) ==
  /\ \/ Doing("insert", p) /\ Goes(None) /\ encrypted' = encrypted \cup {p}
     \/ NewId(p) /\ Count /\ UNCHANGED <<cmd, encrypted>>
  /\ Write(p, "active")
  /\ UNCHANGED <<keyring, lost, setting>>

InsertFails(p) ==
  /\ Doing("insert", p) /\ Goes([op |-> "rollback", pair |-> p])
  /\ UNCHANGED <<encrypted, row, keyring, lost, setting>>

\* delete_key, after a failed insert and after a deleted row; its own failure is ignored.
ForgetKey(p) ==
  /\ Doing("rollback", p) \/ Doing("forget", p)
  /\ Goes(None)
  /\ keyring' = keyring \ {p} \/ keyring' = keyring
  /\ UNCHANGED <<encrypted, row, lost, setting>>

-----------------------------------------------------------------------------
(***************************************************************************)
(* delete_sync_pair, unlock_encryption, pause and resume, the settings.    *)
(***************************************************************************)
\* The app may still list a pair the command line has removed.
DeleteRow(p) ==
  /\ row[p] # "unborn"
  /\ Begins([op |-> "forget", pair |-> p])
  /\ Write(p, "gone")
  /\ UNCHANGED <<encrypted, keyring, lost, setting>>

\* The command line's remove leaves the key.
RemoveRow(p) ==
  /\ Exists(p) /\ Count
  /\ Write(p, "gone")
  /\ UNCHANGED <<encrypted, keyring, lost, setting, cmd>>

\* The passphrase is checked against the row that was read.
Unlock(p) ==
  /\ p \in encrypted /\ Exists(p)
  /\ Begins([op |-> "unlock", pair |-> p])
  /\ UNCHANGED <<encrypted, row, keyring, lost, setting>>

Unlocked(p) ==
  /\ Doing("unlock", p) /\ Goes(None)
  /\ \/ keyring' = keyring \cup {p} /\ lost' = lost \ {p}
     \/ UNCHANGED <<keyring, lost>>
  /\ UNCHANGED <<encrypted, row, setting>>

\* update_status, of the app and of the command line, whatever the status was.
SetStatus(p, s) ==
  /\ Exists(p) /\ row[p] # s /\ Count
  /\ Write(p, s)
  /\ UNCHANGED <<encrypted, keyring, lost, cmd, setting>>

\* set_auto_sync: the file is emptied, then written.
TruncateSettings(v) ==
  /\ Begins([op |-> "settings", value |-> v])
  /\ setting' = "torn"
  /\ UNCHANGED <<encrypted, row, keyring, lost>>

WriteSettings ==
  /\ cmd # None /\ cmd.op = "settings" /\ Goes(None)
  /\ setting' = cmd.value
  /\ UNCHANGED <<encrypted, row, keyring, lost>>

\* auto_sync_enabled: a file that cannot be read does not turn syncing off.
AutoSyncEnabled == setting # "off"

\* Outside the program: the user revokes the keyring's entry.
LoseKey(p) ==
  /\ p \in keyring /\ Count
  /\ keyring' = keyring \ {p} /\ lost' = lost \cup {p}
  /\ UNCHANGED <<encrypted, row, cmd, setting>>

RegistryNext ==
  \/ \E p \in Pair :
       \/ StoreKey(p) \/ InsertRow(p) \/ InsertFails(p) \/ ForgetKey(p) \/ DeleteRow(p)
       \/ RemoveRow(p) \/ Unlock(p) \/ Unlocked(p) \/ LoseKey(p)
       \/ \E s \in {"active", "paused"} : SetStatus(p, s)
  \/ \E v \in {"on", "off"} : TruncateSettings(v)
  \/ WriteSettings

-----------------------------------------------------------------------------
(***************************************************************************)
(* A pair that is marked encrypted has its key, unless the user revoked    *)
(* it: no order of commands, of a crash between two writes or of the       *)
(* command line's removals leaves a row whose key was never kept or was    *)
(* dropped under it (add_sync_pair, delete_sync_pair, unlock_encryption).  *)
(***************************************************************************)
RowHasKey == \A p \in encrypted : Exists(p) => p \in keyring \cup lost
=============================================================================
