# InSyncBee in TLA+

TLA+ models of InSyncBee, a Google Drive sync client (Rust core, daemon, Tauri desktop app), the TLC
runs that check them on small instances, and the theorems TLAPS proves about them for all instances.
Paths below are relative to the repository; `sync_engine.rs` and the like are in
`crates/insyncbee-core/src/`.

## 1. The system

| Component | State | Operations | Talks to |
|---|---|---|---|
| **Three-way comparison** (`sync_engine.rs` `compute_actions`, `sort_actions`) | none: a function of the local scan, the remote listing and the index | one decision per path, ordered into buckets | called by the cycle |
| **Sync cycle** (`sync_engine.rs` `sync`, `execute_action`, `handle_conflict`, `update_index`) | two snapshots and an action list, local to one call; the `file_index` rows; the files on both sides | scan, list, compare, execute each action, write the row | Drive client, scanner, database, file system |
| **Drive client** (`drive.rs`) | none kept; a resumable upload has a session and an offset | list, get, download, upload (multipart or resumable), update, create folder, trash | Google Drive, tokens from `auth.rs` |
| **Scanner and watcher** (`watcher.rs`) | the notify queue | scan, hash (blake3, MD5), turn notify events into sync triggers | file system |
| **Database** (`db.rs`, `db/models.rs`, `db/migrations.rs`) | accounts, sync pairs, file index, change log, schema version, behind one mutex | row operations, migrations at start | everyone |
| **User conflict resolution** (`src-tauri/src/lib.rs` `resolve_conflict`) | the row of one path and both files | keep-local, keep-remote, keep-both | Drive client, engine's transfer helpers |
| **Daemon** (`insyncbee-daemon/src/main.rs` `run_daemon`) | poll timer, watcher channels, a snapshot of the pairs | poll cycle, event-driven cycle | engine |
| **Desktop auto-sync** (`src-tauri/src/lib.rs` `spawn_auto_sync`, `run_sync`) | the `in_flight` set, `last_sync` per pair, settings | timer tick, manual trigger | engine |
| **Pair registry** (`models.rs` `SyncPair`, commands of the app and CLI) | `sync_pairs`, cascading to `file_index` | add, edit, pause, resume, delete | database |
| **Encryption** (`crypto.rs`, `keystore.rs`) | container chunks, the key in the OS keyring | encrypt, decrypt, verify a passphrase | engine's transfer helpers |
| **Accounts** (`auth.rs`) | tokens and expiry per account | login, reconnect, refresh, remove | Drive client |
| **Statistics** (`models.rs` `TransferStats`) | none: derived from the change log | totals per direction | app |
| **Command line** (`insyncbee-daemon/src/main.rs`) | none kept | sync, pause, resume, add, remove, daemon, logout | engine, database |

The desktop shell, the web UI, the portal site and the deployment files hold no logic of the sync itself
and are not modelled. `PROJECT.json` lists every component with its status.

### What is hard

Six things, each of which a test would have to be very lucky to meet:

- **The cycle works from snapshots.** It reads the scan, the listing and the index at three times and then
  works through its list without looking again, while users edit on both sides. Every action is several
  awaits (transfer, metadata request, hash, row), and it can fail, or the process can die, between any
  two. Nothing but the index says later what was done. So: does a row ever claim a base one side did not
  have? Is a version destroyed which the other side never had? Does a one-way pair write the side it must
  leave alone? Does a resolved conflict stay resolved, and does a second cycle do nothing?
- **Folders make actions depend on each other.** A child needs its parent's new id; a folder's delete takes
  everything below with it. Do objects end up under the right folder? What do the deletes take along?
- **Several actors work on one pair.** The user's `resolve_conflict` takes no guard and runs beside the
  cycle, as often at once as it is called; the app's loop, the Sync Now button, the daemon and `sync` on the command line all start cycles
  over one database, while pairs are added, paused, unlocked and removed. Is the in-flight set a lock? Is
  a change ever left unseen because its trigger was dropped? Does a paused pair go quiet?
- **A file is read and written in pieces.** Its size is read first and trusted later, by the cipher and by
  the resumable upload, while somebody may write it. Does what arrives equal what was sent, at every
  length and after every failure? Does every transfer end?
- **Tokens are refreshed by several programs over one row** while the account is reconnected or removed.
- **Migrations commit statement by statement,** and three programs may open one database at once.

The hazards are listed one by one, at their lines, in `PROJECT.json`.

## 2. The modules

| Module | What it is |
|---|---|
| `ThreeWay` | the comparison as an operator: `Decide(mode, encrypted, l, r, b)`, one operator per arm of the `match`, and the bucket order |
| `ThreeWayTable` | all its inputs as the states of a state machine, and what must hold of every decision |
| `SyncEngine` | one sync pair over a flat folder: the cycle await by await, the two sides, users and faults |
| `SyncEngineInv` | the inductive invariants behind its safety properties |
| `SyncTree` | one two-way pair over a tree of folders: order of actions, parents, cascading deletes |
| `ConflictResolution` | extends `SyncEngineInv` by any number of calls of `resolve_conflict` beside the cycle |
| `PairRegistry` | rows of `sync_pairs`, keys in the keyring, the settings file, and the commands that write them |
| `PairLock` | abstract specification: what the in-flight guard promises |
| `DesktopSync` | extends `PairRegistry` by the app's loop, Sync Now, `run_sync` and the `InFlightSet`; implements `PairLock` |
| `Clients` | composes `DesktopSync` with the daemon, the `sync` command and changing files |
| `FileCipher` | the encrypted container: header, sealed chunks, what opens |
| `Transfer` | one file up and down again: cipher, single-shot and resumable upload, download |
| `Auth` | accounts, sign-in, reconnect, removal, token refresh |
| `Migrations` | `run_all`, statement by statement, by several programs |
| `TransferStats` | the two summaries of the statistics page |
| `MCSyncEngine`, `MCSyncTree`, `MCResolution`, `MCTransfer` | instances for TLC: symmetry, the tree, the first content, the files |
| `SyncPromises` | what the documents say of a resolved conflict and the code does not do |
| `ThreeWayProofs`, `SyncEngineProofs`, `SyncTreeProofs`, `ResolutionProofs`, `ClientsProofs`, `TransferProofs`, `AuthProofs`, `MigrationsProofs` | the proofs, one module for each component |

### How `SyncEngine` corresponds to the code

| Model | Code |
|---|---|
| `pair` | the `SyncPair` the engine was built with (`mode`, `conflict_policy`) |
| `local[p]`, `drive[i]` | the file at a path; a Drive object, by id, with its path, bytes and trashed flag. Ids exist because an upload always makes a new object, because a trashed object can still be read and updated by id, and because two live objects may have one name |
| `index[p]` | the `file_index` row: blake3 of the local file, md5 and id of the remote one, state |
| `scan`, `listed`, `plan`, `pc` | `local_map`, `remote_map`, `actions` and the phase of `sync()` |
| `flight` | the action being executed between two awaits: `streaming` (the destination is truncated, bytes arrive), `fetched` (transferred, `get_file` to come), `known` (metadata at hand, `update_index` to come), `removed` (deleted, row to be dropped) |
| `copies[p]` | contents of conflicted copies written by keep-both |
| `heldLocal`, `heldRemote`, `sunk`, `dirty`, `calm` | history variables: which bytes each side of a path ever held (on Drive, outside the trash), which bytes were sent into an object that was in the trash by then, which paths users touched since the cycle began, how far the engine has come since the last disturbance. No action of the code reads them |

One action per await: `ScanLocal`, `ListRemote`, `Compare` (index and hashes; no await in between);
`Upload`, `UpdateRemote`, `OpenDownload`/`FinishDownload`, `KeepBoth`, `GetFile`, `UpdateIndex`;
`DeleteLocal`, `DeleteRemote`, `DropRow`; `MarkConflict`; `LocalMissing`; `EndCycle`. `ActionFails` is
the `Err` arm of the loop: the action is dropped where it stands and the loop goes on. `CycleEnds` is an
error before the plan exists, or a crash anywhere: the snapshots and the plan are lost, the files and
rows stay. The users write and remove local files, and edit, create and trash Drive files, between any
two steps.

Abstractions:

- A file's bytes are one value. The two hash functions are injective on them, so a row stores the
  values. What an interrupted download leaves is one of the values `Torn`, which no user wrote.
- The folder is flat and holds plain files: folders are in `SyncTree`, encrypted content in `Transfer`, and
  `ThreeWay` covers folders, absent hashes (Google Docs) and encrypted pairs. Hidden files and
  symlinks are no `Path`: both snapshots ignore them.
- The order of actions within a bucket is left open (in the code: by depth, then as compared); `SyncTree` has
  the depth.
- Which of two objects of one name the listing keeps is left open (in the code: the last listed).
- `newest-wins` may let either side win: the clocks of the two sides are not modelled. A local file that
  is gone fails, as `std::fs::metadata` does.
- Users do not move or rename objects on Drive. A moved object keeps its id under another path, so a row
  would name an object elsewhere; the listing and the code's map by path would show a delete and a new file. The
  models' rows always name objects of their own path, and nothing is claimed of pairs where files are moved
  on Drive.
- An update of an object does not look at the trash: `Update` writes the bytes and leaves the object where it
  is, as the PATCH of `update_file` does.
- A conflicted copy is recorded as a member of `copies[p]`; from then on it is an ordinary new local
  file. That it has a torn state of its own while it is downloaded is left out.
- A download whose file a user touches meanwhile: a removed file stays gone, a saved one may replace the
  download, be overwritten by it, or be mixed with it (`Landed`).
- `log_change` and `log_transfer` write rows the engine never reads, and their errors are ignored.

### How `SyncTree` corresponds to the code

An action of the cycle is one step here, which `SyncEngine` splits; what is kept is what `SyncEngine`
leaves out. `drive[i].above` are the objects an object is under, so trashing one takes the subtree out
of the listing, as it does on Drive. `remoteIds` is the map `remote_ids` that `sync()` fills from the
listing and extends by every `CreateRemoteDir`; `ParentId` is `resolve_parent_runtime` with the caller's
fallback to the parent resolved before. `RunsBefore` is `sort_actions`: buckets, then depth, reversed for
deletes. `DeleteLocal` is `remove_dir_all`: it removes whatever is in the folder *by then*. `CreateLocally`
makes missing parents (`create_dir_all`). The tree itself is a constant: `Parent` and `Name` of a path, `Ups`, the
folders above it, and `Tails`, the path without the first of its folders, which is where an object ends up
whose parent is not known (`TreeAssumption` and `TailAssumption` say what the four have to do with each other).
`folderTrashed` is history: a folder on Drive was trashed behind the index's back, by a user, or by the
engine while a path below it had a row. What is left out: one-way pairs and the automatic policies (the
flat model has them), users' moves and renames on Drive (of a folder they would change the paths of all below
it), and a path whose kind changes between file and folder, which is in `ThreeWay` only. `heldRemote` also
counts what the engine sends into an object that was trashed since it was listed.

### How `ConflictResolution` corresponds to the code

`desk[c]` is one running call of `resolve_conflict`: the row it read first (`entry`), the choice, and where it
is. `Call` bounds how many run at once, since no guard keeps a window from calling again. `Resolve` reads any
row there is: the command looks a path up and never asks whether it is still in conflict. `SendLocal` is
`update_remote_via`, also of an object that is in the trash; `OpenRemote` and `FinishRemote` are `download_via` with the
truncated file in between; `AskRemote` is the `get_file` afterwards; `CopyRemote` downloads the remote
version next to the local one; `WriteRow` is the upsert of the row read at the start with new fields, which
also brings back a row a cycle has dropped. `GiveUp` is the early return for a missing local file, each `?` of
the command, a lost answer, or the death of the app, at every stage: also between the transfer and the row,
where the files have moved and the row has not. Every step interleaves with every step of a cycle, of users and of
other calls, because the command never asks the in-flight set.

`met` remembers the paths on which two of them, calls or a cycle's transfer, were under way together. The
properties except those (`NeverMet`), and must: a keep-local that reads the file the cycle is just
downloading sends a torn file to Drive and records it as synced, and no rule of the code prevents it.

`InOrder` hands out Drive's ids in one order. Ids only ever differ by name, so this loses no behaviour up
to renaming, and it is what symmetry would do if symmetry were sound for liveness.

### How `PairRegistry`, `DesktopSync` and `Clients` correspond to the code

A pair's row is `unborn` (the uuid was never used), a status, or `gone`. The desktop commands run under
the app's mutex, one at a time (`cmd`), and write row and keyring one after the other: `StoreKey`,
`InsertRow`, `InsertFails`, `ForgetKey` are `add_sync_pair`; `DeleteRow`, `ForgetKey` are
`delete_sync_pair`; `Unlock`, `Unlocked` are `unlock_encryption`, between whose read and write the command
line may remove the pair. `InsertRow` without a command, and `RemoveRow`, are the command line's. `LoseKey` is
the user emptying the keyring. `TruncateSettings` and `WriteSettings` are the two halves of `fs::write`.

`inflight` is the `InFlightSet`; `task[t]` is `run_sync` of the loop or of one Sync Now. `Claim` is the
insert under the mutex, with its early return `AlreadyRunning`. A cycle is two steps: `StartCycle` (it
looks at both sides, so a change made before counts as seen) and `EndCycle` (which may fail). `Tick` and
`Visit` are the body of `spawn_auto_sync`: the list of active pairs, the watchers started and dropped, an
event or an elapsed interval, `last_sync` advanced whether or not the claim succeeds.

`daemon.pairs` is the snapshot `run_daemon` makes at start. `DaemonVisit` has its three ways to a cycle:
the initial pass, the poll (which reads the row again and skips a paused pair) and the drained watcher
events (which does not read it). `cli` is the `sync` command, which writes the status `error` over
whatever the row says by then. `behind` is history: the pairs with a change no cycle has looked at.

### How `Transfer` corresponds to the code

Files are sequences of units. `sealing` is the state of the loop of `encrypt_file` (the size it read, its
position, the chunk counter), `session` that of `resumable_upload`, `opening` that of `decrypt_file`.
Every iteration is a step that reads the file as it is by then. `Dispatch` reads the size that picks
single-shot or resumable. A sealed chunk is `Len(data) + Tag` units that carry what was sealed, its index
and its last flag (`build_nonce`, `chunk_aad`), so a block opens only if it is exactly one chunk sealed for
that place: this is what AES-GCM promises and all that is assumed of it. `Damage` loses, repeats or
exchanges any stretch of the stored object. A resumable chunk that would pass the declared size, and a
declared last chunk that does not reach it, are refused by Drive.

### How `Auth`, `Migrations` and `TransferStats` correspond to the code

A token is named by the grant it came from; `due` says the stored expiry is less than five minutes away.
`client[c]` is `get_valid_token`/`refresh_token` between awaits, `desk[d]` a login, reconnect or removal
between the browser and the row. `RefreshFails` is a refresh that ends anywhere although its grant is good: a
request that fails, a lost answer, a failed write, a dead program. `CommandFails` is the same for the account
commands, with the closed browser and the wrong email (`MaxFaults` bounds the first; the second ends a command only). Foreign keys are on, so the row of an account with pairs is not deleted
and a pair without its account is not inserted.

`Migrations`: `pc[p]` is the next statement of a program in `run_all`, `After` the script of the four
migrations, `Possible` what SQLite refuses (a column that is there, a table that is not). Each statement
commits on its own because the batches have no transaction.

`TransferStats`: timestamps and bounds are both texts to SQLite; `AtLeast` is the text order between them.

## 3. The runs

Every bound is a guard on what users and faults do; the program's own counters are not bounded, except
the number of Drive ids and of grants, which are chosen so that they do not run out before the users'
operations do. The operations allowed are enough for both sides to change and for one more change at any
stage of the cycle that reconciles them.

| Run | Instance | Shows |
|---|---|---|
| `three_way` | 3 hashes | every input of the comparison: `DestroysOnlyTheBase` (of files with a hash), `FavoursNeitherSide`, `SkipsOnlySettledPaths` (of what can be compared) |
| `sync_engine` | 1 path, 3 contents, 4 ids, all modes and policies, 3 operations, 1 fault, `RaceFree` | `TypeOK`, `BaseWasShared`, `NoSilentLoss`, `ResolutionConverges`, and the invariants of the proofs, `LossInv` and `ModeInv` |
| `sync_races` | the same, edits during transfers allowed | `OneWay`, `RepeatSyncDoesNothing`, and `CalmInv`, the invariant behind convergence |
| `sync_tree` | folder `a`, file `x` and folder `b` at every depth they can reach (6 paths), empty or deep tree at the start, 2 contents, 6 ids, 2 operations, 1 fault | `TreeTypeOK`, `ObjectsSitAtTheirPath`, `LossNeedsFolder`, their invariant `TreeInv`, `TreesSettle` |
| `resolve` | 1 path, 1 call at a time next to the cycle, 2 contents, two-way, ask, 4 ids, 3 operations (resolutions count), 1 fault anywhere, `RaceFree` | `DeskTypeOK`, `ResolutionsLeaveABase`, `CyclesStayLossless`, their invariant `ResolveInv`, `ResolvedPathsSettle` |
| `clients` | 1 pair, the loop and 1 Sync Now, a daemon, a `sync` command, 3 commands, 1 change, 1 fault | `ClientsTypeOK`, `RowHasKey`, `GuardIsALock` (refinement of `PairLock`), `CaughtUp`, `StoppedPairsGoQuiet` |
| `transfer` | all lengths 0 to 5, two contents each, chunk 2, tag 1, 4 chunks of counter, threshold 3, upload chunk 2, 1 edit, 1 fault, 1 damage | `TransferTypeOK`, `RestoredIsWhole`, its invariant `SealInv`, `UntouchedFilesArrive`, `TransfersEnd` |
| `auth` | 2 desks, 2 clients, 3 grants, 1 pair, 2 failed refreshes | `AuthTypeOK`, `LastSignInStays`, `PairsHaveAccount`, `GoodSignInHeals` |
| `migrations` | 3 programs, databases of versions 0 to 4, 2 entries, 2 crashes | `MigrationsTypeOK`, `LogSurvives`, `OpenMeansMigrated`, `OpensUnlessTorn` |

Why these sizes:

- *One call* in `resolve`: it meets a cycle at every stage of both, and up to three calls follow one another. Several
  calls at once on one path are what `NeverMet` excepts; on different paths they share only Drive and the
  database, and the theorems are for any number. One fault is enough to cut the command or the
  cycle anywhere, which the next cycle then finds. Contents are interchangeable, so `MCResolution` begins with one
  of them.
- *One path* in `sync_engine` and `resolve`: actions on different paths share only the loop and the
  snapshots. That one path goes stale while another is executed is a user's operation between two steps,
  which is there with one path too; and the theorems of both modules are for any number of paths. Three
  contents let both sides diverge from the base and from each other.
- *Four ids*: an instance starts with at most one object per name, and at most three user operations create
  one each; an upload makes an object only where the listing had none.
- *Six paths*: the smallest tree with a folder in a folder, a file at every depth, and the place a file
  goes to when its parent is not known (the root). The theorems are for any tree.
- *One pair* in `clients`: nothing in the app or the daemon passes between pairs but the order in which
  they are visited. The theorems are for any number.
- *Lengths 0 to 5* with chunk 2: empty, within a chunk, exactly one, between, exactly two, and more; encrypted
  or not, below and above the threshold.

`RaceFree = TRUE` says that users leave a path alone *while it is being transferred* (from the opening of
the transfer to the row). Edits at any other time of a cycle are allowed, also between the comparison and
the action. Without that assumption `BaseWasShared` is false of the code: `update_index` hashes after the
transfer and `get_file` asks after the download, so an edit in between counts as synced, and the sides
differ for good, unflagged. tests/SCENARIOS.md:137 lists it as a known gap ("no mid-upload change detection").

What `NoSilentLoss` says, precisely (of the policies that choose no loser): a step of the engine that
changes or removes a local version does so only if Drive has held those bytes under that path (so the
newer state over there is someone's choice), or the user wrote since this cycle began (`dirty`); and the
same for Drive, where a conflicted copy counts too. The exception is the code's window between snapshot
and action, which it does not close. A second exception is a version that was sent into an object in the trash
(`sunk`): the row then says synced, no listing shows the object, and the next cycle deletes the file here. In
a cycle alone that needs a user trashing the object while it is being updated; keep-local does it to any file
that was deleted on Drive, and run `doc_keep_local` is about that.
`LossNeedsFolder` is the same statement for trees, with one more exception, the delete of a folder above.

### Fairness

Users and faults are never fair: they may do nothing, and their bounds end them. Weak fairness is assumed of:

- the engine's own steps (`FairSpec` of `SyncEngine`, `Spec` of `SyncTree`, `MCResolveSpec`): the daemon's
  poll loop and the app's ticker start a cycle again and again, and a cycle's steps are awaits that end;
- each running call of `resolve_conflict`: its awaits end as well;
- the app's loop, each `run_sync`, each poll interval, the daemon's loop and the `sync` command
  (`Clients!FairSpec`). Auto-sync switched off, a pair that is not active and a missing key are excluded by
  the hypotheses of `CaughtUp`, which therefore says nothing where the code does nothing. A settings file torn by a crash is
  not excluded: the code reads it as the default;
- the transfer under way, and trying again one that ended (`Transfer`): a failed action is planned again
  by the next cycle;
- the expiry of tokens and a client's requests (`Auth`): every cycle asks for a token, and only finitely many refreshes
  of a good grant fail, without which no account would heal;
- a program's opening of the database (`Migrations`): programs are started again.

### Refinement

`PairLock` says what a guard is for: a set `held` of (task, pair) such that a task acquires a pair only when
neither is taken, releases what it has, and loses everything when the app dies. `GuardIsALock` is
`Lock!Spec`, where `Lock == INSTANCE PairLock WITH held <- {h \in Task \X Pair : On(h[1], h[2])}` is computed
from where the tasks are and not from `inflight`. So it says that the set and the tasks never drift apart, over early returns, cycles that
cannot start, failures and restarts.

### Runs that refute what the repository says of itself

| Run | Promise | What happens |
|---|---|---|
| `doc_keep_local` | tests/SCENARIOS.md:73, the local edit survives; sync_engine.rs:76-79, no safe base state exists | keep-local of a file deleted on Drive sends the edit into the object in the trash and records a synced row; the next cycle finds the file unchanged here and gone there, and deletes it |
| `doc_folder_delete` | tests/SCENARIOS.md:73, the local edit survives | the folder was trashed on Drive too, and its own delete takes the edited child before the conflict is looked at |
| `doc_stats` | docs/USAGE.md:198 and models.rs:630, the last 7 days | the bound is an SQL expression bound as a parameter: SQLite compares texts, and no row is ever recent |

What the properties of the passing runs except, because the code does it (each named in the property's comment):

- A conflict on a Google Doc flagged without a base is uploaded over by the next cycle, against
  sync_engine.rs:934-935: both hashes of its row are absent, and an absent hash equals an absent hash.
  `DestroysOnlyTheBase` is about files that have a hash.
- A file on one side and a folder on the other are skipped for good and without a word ("directory exists on both
  sides", sync_engine.rs:505-512). `SkipsOnlySettledPaths` is about paths that can be compared.
- After keep-local of a path deleted on Drive, "mirrored" comes to mean gone from both sides:
  `ResolvedPathsSettle` counts that as settled. Whether something was lost on the way is the question of
  `CyclesStayLossless` and of run `doc_keep_local`.

Other disagreements between documents and code, visible in the models:

- After keep-both the local version counts as synced although Drive never had it, so the next remote edit is
  downloaded over it (tests/SCENARIOS.md:95). For local versions `NoSilentLoss`
  is therefore about `ask`.
- A folder deleted here while somebody puts a new file into it on Drive: the cycle fetches the file, which
  brings its folder back here, and then trashes the folder on Drive, the new file with it (sync_engine.rs:740). The file's
  row stays, so the next cycle takes the file for deleted on Drive and deletes it here too. With a new
  folder in place of the file, what is put into it here meanwhile is uploaded to the root of the pair, because
  its parent is neither listed nor created. `ObjectsSitAtTheirPath` then only says that it lacks its first folders (`folderTrashed`); it was the
  attempt to prove the property without that excuse that led to it.
- `resolve_conflict` with keep-remote may restore a locally deleted file between a cycle's scan and its
  comparison: the cycle finds the row settled and the file missing, and trashes the object; the next one
  deletes the restored file. Both sides had the version, so no property here calls it a loss.
- `prefer-remote` downloads a trashed object over an edited file (tests/SCENARIOS.md:73): `RemoteWins`.
- `prefer-local` and `newest-wins` resolve conflicts of a cloud-to-local pair by uploading
  (tests/SCENARIOS.md:115). `OneWay` is about the pairs whose policy keeps to the direction.
- Files that are identical at the first sync get no row, so deleting one locally downloads it again
  (tests/SCENARIOS.md:70): `FirstSync` skips, and a skipped path is not recorded.
- The same edit on both sides is a conflict, not the no-op of DESIGN.md:109: `Tracked`.
- The daemon's watcher path syncs a paused pair whose files are touched (docs/USAGE.md:176):
  `DaemonWants`. `StoppedPairsGoQuiet` allows it, and promises quiet only once the files are left alone.
- A failing `sync` command writes `error` over a pause (main.rs:367): `CliDone`. `StoppedPairsGoQuiet` allows this
  too: it is about pairs that stay paused.
- The daemon or the command line and the app may sync one pair at once (docs/USAGE.md:205 advises against
  it): nothing in the code excludes it. The guard is of one process.
- A file that grows while it is encrypted, within its last chunk, leaves an object that never decrypts,
  while its row says synced. `UntouchedFilesArrive` and `RestoredIsWhole` are about what holds instead.
- A log entry written by an open program between another one's copy and its `DROP TABLE` is lost; a crash
  among the `ALTER TABLE`s or in the table swap locks everybody out. `LogSurvives` and `OpensUnlessTorn`
  name these exceptions.

Every property of a passing run has a mutant: an operator next to the definition it replaces and commented
as such (a dropped guard, a hash taken from the listing, a counter that never ends), under which the run
finds the property violated.

## 4. The proofs

All for any values of the constants: any sets of paths, contents, ids, pairs, programs and grants, any tree of
folders, any sizes of files and chunks, and any number of operations, faults and crashes. Every safety
invariant and every action property that a passing run checks is a theorem, and so is the refinement of
`PairLock`. The assumptions on constants are those of the modules: a sentinel is no value of the data (`NoneAssumption`,
`IdAssumption`, `RowAssumption`, `RecordAssumption`, `ValueAssumption`, `AbsentAssumption`, `HashAssumption`, ...),
torn contents are not written by users (`DataAssumption`), the loop is no button (`TaskAssumption`), bounds are
natural numbers (`BoundAssumption`), chunks and tags are not empty (`ChunkAssumption`), and paths form a tree
(`TreeAssumption`, `TailAssumption`, and `TreesAssumption` for what a pair is added over). TLC evaluates all of
them on the instances. Only the theorems marked so assume anything of users, and that is `RaceFree`.

**The comparison** (`ThreeWayProofs`). `OnlyTheBaseIsDestroyed`, `NeitherSideIsFavoured`,
`OnlySettledPathsAreSkipped`: by cases over the arms, for files with a hash, and for paths that can be compared, as the
properties say.

**The cycle** (`SyncEngineProofs`), in four layers.

- *Types and names.* `TypeOK` is not inductive: a row's id comes from a transfer, a transfer's from the plan, the
  plan's from the listing or an older row. `NamesInv` says that each of these names an object of its own path,
  which holds because Drive objects are trashed, never destroyed. `TypesAndNames` proves the two together.
- *One-way pairs.* `ModeInv`: no plan goes against the direction of the pair, and no download is streaming into
  a push-only pair. `OneWayTheorem` follows from `StepKeepsToItsSide`.
- *No silent loss* (assuming `RaceFree`). `BaseWasShared` must be known when a row is turned into a plan, the
  plan's grounds must still hold when it is executed, and what is written into the row afterwards must have
  been on both sides, on Drive possibly in the trash (`ReachedDrive`). `LossInv` is that chain: history is complete; believing the snapshots loses nothing
  (`ScanIsTrue`, `ListingIsTrue`: a path not found holds nothing, or what may be destroyed, and a listed object
  has the bytes listed, or such as may be); a waiting action has the grounds it was planned on
  (`PlansHaveGrounds`); the transfer in flight carries what its object holds (`TransferIsFaithful`). The two
  statements about the snapshots are about versions and not about who has moved them, so that the same
  invariant survives a resolution in the middle of a cycle. `ExecuteStep` and `GroundsStay` are the frame
  lemmas: an action that works on one path leaves the grounds of all others. `SharedBaseTheorem` and
  `NoSilentLossTheorem` follow.
- *Convergence.* `calm` tells how far the engine has got since anybody else moved something. While it is not
  `"no"`, `CalmInv` says what a cycle knows: the snapshots are what both sides show (`SnapshotsAreCurrent`), a waiting
  action is what a cycle beginning now would decide (`PlanIsCurrent`), the transfer in flight will leave its
  path at rest (`TransferSettles`), and a path that has been worked on is at rest (`AtRest`: under `ask`, what a
  new cycle would do with it is to skip it or to flag it as it is flagged already). `CalmExecute` and `CalmNext` reduce each action
  to its own path; there is one lemma for each. `ConvergenceTheorem` and `RepeatTheorem` follow. `prefer-remote`
  is left out of the invariant as it is out of the property.

**Trees** (`SyncTreeProofs`). `TreeInv` has three parts.

- `TreeNamesInv`, proved with the types (`TreeTypeTheorem`): this machine's paths and the scan are trees, an
  object is only ever under objects of the folders above its path, paths keep their kind, and what rows,
  listings and plans name is an object of the path *or of its tail*. The last is what a create with an unknown
  parent leaves, and is why `Tails` exists.
- `VersionsInv`, with no assumption on faults or users: each side's history is complete, a row's hashes are
  versions both sides held (`RowsAreShared`), and a planned overwrite or delete is of such a version, or users
  have touched the path since the cycle began (`PlanSpares`). `FolderLossTheorem` follows from the lemmas
  `LocalLoss` and `RemoteLoss`, one for each side.
- `PeacefulTree`, under `faults = 0 /\ ~folderTrashed`: every name is of an object at its very path, the
  folders of the index are live, and the parent of a waiting create is known or its own create waits too
  (`ParentComes`), which by `sort_actions` runs first. `PathsTheorem` follows: its second half, that an object is at its
  row's very path, has this hypothesis; its first, that it is at a tail of the path, comes from the names and has none.

**User resolution** (`ResolutionProofs`, for any number of calls; assuming `RaceFree` and `NeverMet`, types and names
excepted). `ResolveInv` is `LossInv` with the calls beside it: a call's row was a shared base when it was read and stays
one, because history only grows (`BaseStays`); what it has moved so far is on both sides (`DeskIsFaithful`); and whoever
else works on the same path is in `met` (`MeetingsAreKnown`), after which the invariant promises nothing, as the
properties do. A call that is cut between transfer and row leaves a row that was a shared base already, which is
why `GiveUp` is no threat. A step of the engine or of the users leaves the calls' part alone (`CyclesKeepAway`,
`UsersKeepAway`, `AroundKeepsInv`), as one call does the others', and a step of a call is shown to keep `LossInv`
(`CommandKeepsLossInv`). `ResolutionsTheorem` and `LosslessTheorem` follow; the latter has the two exceptions of
`NoSilentLoss`, so it does not say that a keep-local into the trash is safe.

**The clients** (`ClientsProofs`).

- `GuardInv` is the hypothesis of the refinement: the in-flight set is exactly what the tasks are on, and no two
  tasks are on one pair. It is needed because `Claim` looks at the set and the lock at the tasks. `ClaimKeeps`
  and `ReleaseKeeps` treat the steps that change either; every other step of all the clients leaves both
  alone. `GuardTheorem` is `Spec => Lock!Spec`, step by step; `ExclusiveTheorem` is what follows for the app.
- `RowHasKey` alone is not inductive: between `StoreKey` and `InsertRow` there is a key without a row, between
  `DeleteRow` and `ForgetKey` a row that must not come back. `KeyInv` says what a pending command has done.
- `ClientsTypeTheorem`: the types of all four parts.

**Encrypted transfers** (`TransferProofs`). The file may change between any two chunks, so what was read
is cut into one piece for each value of the chunk counter, of any length: `SealInv` says there is such a cut of which every
sealed unit, in the temporary file, in the session, in the object or in what came back, carries its piece, and that only the last
piece says it is the last. Damage moves, drops and repeats units but makes none (`DamageFacts`). So what opens
at counter *k* is the *k*-th piece, what is written is a prefix of what was read, and it is whole when the last chunk
opens: `RestoredTheorem`. The lemmas about pieces of sequences are stated once at the top of the module.

**Accounts** (`AuthProofs`). `LastSignInStays` and `PairsHaveAccount` are inductive together with the types:
`AuthTheorem`, `PairsTheorem`, `AuthTypeTheorem`.

**Migrations** (`MigrationsProofs`). `MigrationsInv` adds to `LogSurvives` that at most one program is between
`CREATE TABLE change_log_new` and the rename (a second `CREATE` fails), that the copy is there meanwhile, and
where the entries are at each statement. `SchemaInv` adds what each program may count on where it is: the
versions recorded are an initial stretch and contain those a program needs there (`VersionsInOrder`), the columns of
`sync_pairs` (`PairColumnsThere`), and, unless a migration was cut where it cannot be repeated, the shape of the
log and who owns its copy (`LogIsThere`, `NewLogIsOwned`). `LogSurvivesTheorem` and `OpenTheorem` follow.

Model-checked only: the liveness properties (`TreesSettle`, `ResolvedPathsSettle`, `CaughtUp`,
`StoppedPairsGoQuiet`, `UntouchedFilesArrive`, `TransfersEnd`, `GoodSignInHeals`, `OpensUnlessTorn`), because the prover
does not reach fairness and `ENABLED`; and the three refuted promises, which are false.

## 5. Not modelled, and what is left

Not modelled, and why:

- `dry_run`, status callbacks, listings for the UI, the activity feed: they change no state of the sync.
- The desktop shell, the web UI, the portal and the deployment files: no logic of the sync.
- `update_settings`: it changes values no modelled step reads. `update_encryption`: nothing calls it.
- Clocks: `newest-wins` lets either side win, and the names of conflicted copies, which contain the time to
  the second and can collide, are abstracted to a set of contents.
- Moves and renames of objects on Drive, in the flat model and in the tree: an object keeps its path. The code tracks
  rows by path and takes a move for a delete and a new file; what the ids in old rows then lead to is not examined.
- Paths whose kind changes between file and folder, but for the decision itself (`ThreeWay`).
- Key derivation, AES-GCM, the keyring, SQLite and Google's servers are modelled by what the code relies on.
- Two engines on one pair at once. The code does not exclude it, so `SyncEngine`'s properties do not hold of
  it; a model would only list the ways they fail.

Left, in order:

1. An abstract specification of a pair, two registers that an atomic cycle reconciles, implemented by
   `SyncEngine` under a refinement mapping, and the proof of it.
2. One-way modes and the automatic policies in `SyncTree`, and two objects of one name under different parents.
3. Moves on Drive: a path of an object as a variable, and which properties of rows survive them.
4. What the model of a resolution could say of the restored file that a running cycle trashes again.
