# A formal model of file-encryptor

file-encryptor watches directories and encrypts (or decrypts) the files that appear in
them with data keys from Vault Transit.  This directory holds TLA+ modules of its core,
TLC configurations that check them on small instances, and theorems, proved with TLAPS,
that state their safety properties for instances of every size.  `PROJECT.json` links every
definition to the lines it models and every property to the hazards it is for.

Run `tlc -config X.cfg M` for the pairs listed under *Runs*, and `tlapm M.tla` for the
seven proof modules.

## Inventory

| Component | State | Operations | What makes it correct |
|---|---|---|---|
| Retry queue (`internal/queue/queue.go`, `internal/model/item.go`) | a list of items, an index by ID, per item a status, an attempt count and a retry deadline | Enqueue, Dequeue, Requeue, Load, Save, Size, List | list and index agree; one owner per item; given up exactly at the limit; FIFO first attempts; no starvation |
| Queue persistence (`persistence.go`) | the state file | Save (temporary file, rename), Load | the state file is whole: that of the last save that succeeded |
| Queue lock (`Queue.mu`) | an RWMutex | read and write lock | shutdown gets through |
| Processor (`internal/watcher/processor.go`) | its settings, strategies and file handlers | Start, processItem, UpdateConfig | every item ends; settings do not change within an item |
| Encryption strategy, envelope (`strategy.go`, `internal/crypto`) | .enc, .key and .sha256 files | Process, EncryptFile | a pair that is published can be decrypted, always |
| Decryption strategy | plaintext files | Process, DecryptFile | plaintext is published only when it is right |
| File handler (`filehandler.go`) | source, archive, failed and dlq directories | HandleSourceFile, MoveToFailed, MoveToDLQ | no upload disappears |
| Watcher, stability detector (`watcher.go`, `detector.go`) | the watch, pending events, watched and destination directories | Start, scanDirectory, handleFileCreated, WaitForStability, UpdateConfig | every file is queued; duplicates do no harm |
| Service (`internal/service/service.go`) | the running goroutines | New, Run, Shutdown, reload callback | work survives stop and start |
| Configuration manager (`internal/config/reload.go`) | the configuration in force | Reload, OnReload | all parts end up with the same valid configuration |
| Configuration values (`config.go`, `validator.go`, `size_parser.go`) | none | SetDefaults, Validate, ParseSize | accepted values are in range |
| Rewrap (`internal/rewrap`, `cmd/file-encryptor/rewrap.go`) | .key and .key.bak files, results | RewrapFile, RewrapBatch, CreateBackup, RestoreBackup, report | a key file never stops opening its ciphertext; the report is true |
| Vault client (`internal/vault`) | a token | login, GenerateDataKey, DecryptDataKey, RewrapDataKey, Health | - |
| Logger (`internal/logger`) | the open log files | New, Sync | one is open while the service runs |
| Signals (`signal_unix.go`) | a buffer of one signal | Notify | a signal to stop is served |
| Command line, version | - | - | - |

**How they interact.**  The watcher goroutine turns Create events, and a directory scan at
start, into queue items.  The processor goroutine takes one item per second off the queue
and calls the strategy of its operation, then the file handler.  The main goroutine waits
for signals: a reload runs the callback that replaces the settings of watcher and
processor under their own locks; a stop signal cancels the context, sleeps 100 ms, saves
the queue and returns, without waiting for the other goroutines.  All of them meet in two
places: `Queue.mu` and the file system.  The rewrap command is another process that
meets the service in the destination directory only.  The watcher holds its lock for
reading while it waits for an upload to become stable, up to five minutes, and the
processor its own while it works on an item; a reload waits for both, and a signal to stop
waits for the reload.

**What is hard here.**  Three goroutines and users work on the same directories without
any lock on the files; a file can be queued twice (watch before scan; restored queue and
scan); a shutdown or a crash falls between any two file operations; retries run after the
file handler has moved the file; the state file is as old as the last clean shutdown; the
rewrap command replaces the only copy of a key.  `PROJECT.json` lists these as hazards at
their lines, with the properties that would catch them.

## Modules

| Module | Content |
|---|---|
| `WorkLedger` | What the queue promises: work is accepted, waits, is given to one worker, comes back or is closed; what a start restores is what the last save listed. |
| `RetryQueue` | The queue, its items, its state file, and the service's life from start to exit. |
| `QueueLock` | `Queue.mu` at the granularity of lock requests, while Shutdown saves. |
| `EncryptPipeline` | Extends `RetryQueue` with watcher, processor, strategy, file handler, directories and users. |
| `DecryptPipeline` | Extends `RetryQueue` with the decryption side of the same parts: bundles of three files. |
| `Backoff` | `calculateBackoff` as a recursive function. |
| `ConfigRegister` | What a reload promises: a register of configurations of which the workers take over a valid one, between two pieces of work. |
| `Reload` | The main goroutine with its signals, configuration manager and callback; the watcher with its watches, lock and stability detector; the processor with its lock; users who upload in several writes. |
| `Rewrap` | The rewrap command beside a rotating Vault key and an encrypting service. |
| `RetryQueueProofs`, `RetryQueueRefinement`, `RetryQueueOrder` | Theorems about `RetryQueue`. |
| `ReloadProofs`, `RewrapProofs` | Theorems about `Reload` and `Rewrap`. |
| `EncryptProofs`, `DecryptProofs` | Theorems about `EncryptPipeline` and `DecryptPipeline`. |
| `MC...` | Constants of the instances. |

**RetryQueue.**  `items` is `q.items` and `itemMap` the key set of `q.itemMap`.  A UUID is
the number of the item in the order of its creation; `status` and `attempts` are the
item's fields.  A deadline is kept as the time left, `wait`, which `Tick` lowers in memory
and in the state file alike, whether or not the service runs.  `Enqueue`, `Dequeue` and
`Requeue` hold `q.mu` from their first to their last line, so each is one action;
`processItem` marks the item it dequeued at once, so `Dequeue` includes `MarkProcessing`.
`Save` only holds the read lock: it is `BeginSave` and `EndSave`, and between them only
`Complete`, which takes no lock, can happen.  `BeginSave` may also end in `hung`, for the
reason `QueueLock` shows; then only killing the process helps.  The goroutines are not
stopped by `BeginShutdown`: they run until `Exit`, as in the code.  `EndSave` may fail and
leave the old file; `Load` may fail, and the service starts with an empty queue, as
`setupQueue` does.

**EncryptPipeline.**  The content of a file is the number of the upload it came from, and
a `.enc` file is the pair of that content and of a data key, so that "can be decrypted" is
`Recoverable`: the `.key` file holds the key of this `.enc` file.  `step` is the program
counter of `processItem`, with one action per file operation.  `FreshDek` is any data key
no file on disk uses.  The watcher goes through `armed` (Add done), `scanning` and
`events`.  Its own errors are there too, in worlds with `faults`: a failing `Add`, its own
or (`Onward`) that of the decryption side, ends the goroutine (`ended`) while the service runs
on; a failing `ReadDir` ends the scan; a failing `Stat` drops a file.  `missed` holds the
uploads these made it pass over since the service was started.  A `World` says what
surrounds the service: whether Vault and file operations
fail (`faults`), whether moves and removals fail (`stuck`), whether a name is uploaded
again (`reuse`), be its source file gone or not, which names end in `.sha256` (the scan
skips these, the event handler does not), and the settings the configuration is
given (`configs`), between which `Reload` changes while no item is in work, for
`UpdateConfig` takes `p.mu`, which `processItem` holds.  `late` remembers the uploads that
replaced a file while it was being encrypted; the file handler deletes those unread.

**DecryptPipeline.**  A bundle is a `.enc`, a `.key` and perhaps a `.sha256` file, which
arrive one at a time in either of two `Order`s: the encryption service writes the key last,
users may send it first.  A file's content is the number of its bundle, so that a key opens
the ciphertext with its own number, and a checksum is right, wrong or that of an older
bundle.  The watcher's `starting` is the scan of the encryption side, which comes before
the decryption directory is watched.  `PollKey` is one look for the key of a new
ciphertext, of which there are `KeyPolls` (ten, 100 ms apart); the scan looks once
(`ScanFile`); `Settle` is the wait for a stable file and the enqueueing.  The watcher's
errors and `missed` are those of the encryption side; besides, a `Stat` of the key that fails
is one more look in vain for `PollKey`, but counts as a key for the scan, which only asks
whether the key does not exist.  Ciphertext, key
and checksum are moved by three actions, `FinishEnc`, `FinishKey` and `FinishSum`; a
failure moves the ciphertext only.  The content of an output is unfinished from the
moment it is created.

**Reload.**  `main` is where the main goroutine is: `load` is `Manager.Reload`, and `logger`,
`watcher` and `processor` are the three parts of the callback, in its order. Where `main` is
`watcher` or `processor`, it has asked for the lock of that part: a waiting writer keeps new
readers of a `sync.RWMutex` out (`MayRead`, `TakeItem`), and gets it when the watcher is not
`locked` or no item is in `work`.  `scout` is where the watcher goroutine is and `errand` what
for: `Start` reads its directories under the lock (`ReadSources`), but adds and lists them
without it (`Arm`, `List`), so a reload falls in between.  `TakeOver` is one side of
`UpdateConfig` with its early returns; the two sides are applied in the order of the code.  A
file has a size and a modification time (`stamp`), each write changes the latter; `FirstLook`
and `SecondLook` are the two calls of Stat in `IsStable`, and `patience` the number of rounds
that fit into five minutes, after which `SecondLook` drops the file.  `Pick` drops a file for
its name, for a key that is missing, or for a failing Stat: `sha256` are the files whose names
the scan skips, and `unkeyed` the ciphertexts whose key may be missing at the look for it
(`KeyMissing`).  `HangInSave` is the hang of finding 3: main stays `hung`, and as `Save` keeps
the lock of the queue, nothing is enqueued or dequeued any more.  Users are *brisk* when they
write to an unfinished upload between any two looks.  A configuration is reduced to its
directories, whether `Load` and `Validate` accept it, and whether it has a decryption block;
without one `UpdateConfig` dereferences nil and the process is `panicked`.  The first
configuration has the block, since `New` panics without it too.  Logger, watcher and processor
update at their own steps; `disk`, `mgr` and `settings` are the versions in the file, in the
manager and in the processor, and these are mapped to `ConfigRegister`.

**Backoff.**  `CalculateBackoff` iterates the library's step, which compares twice the
interval with the cap before it doubles.  `MCRetryQueue` gives it to the queue as `Delay`.

**Rewrap.**  One action for each step of `RewrapFile` that reads or replaces a file or asks
Vault; a temporary file is invisible until its rename, so writing and renaming it is one
step that happens or fails.  `Kill` may fall between any two steps.  The service's
encryption of a file is two steps, `.enc` and then `.key`; its `.key` write is taken as one
step here.  `raced` holds the files whose `.key` the service wrote while the command was
working on them.

## Runs

| Run (module, cfg) | Asks | Bounds and why they are enough |
|---|---|---|
| `RetryQueue` (`MCRetryQueue`) | the six invariants of the queue, FIFO first attempts, and the refinement of `WorkLedger` | 3 items, 2 workers, 2 attempts, 2 stops or crashes: three items are needed for one that is taken from the middle of the list, two workers for shared ownership (the service has one), two stops for an old state file that is loaded again; `AttemptCap` 3 is above the limit |
| `RetryQueueForever` (`MCRetryQueue`) | `max_retries = -1`: nothing is given up, nothing starves, retries wait for the right delay | 2 items, 1 worker, base delay 1 and cap 3, so that the first three delays are 2, 3, 3; the attempt count saturates at 3, where the cap is reached; the loop is compared with `base * 2^n` for bases up to 4, caps up to 9 and 6 attempts, where all the corners are |
| `EncryptSafe` (`MCEncryptPipeline`) | no upload lost, sources leave safely, encrypted files stay decryptable, duplicates do no harm | 1 name, 2 uploads, 3 items, 1 stop or crash, 1 reload, 6 worlds (calm; `.sha256` names; reused; overwritten; faulty, and kept, both with files that cannot be moved): names only share the queue, whose order does not matter here; 3 items are a duplicate and the one a restart finds |
| `EncryptLive` (`MCEncryptPipeline`) | every upload settles, the queue drains | the same with 1 upload, in three worlds: faulty, keeping, and with a `.sha256` name |
| `DecryptSafe` (`MCDecryptPipeline`) | no bundle lost, ciphertexts leave decrypted and verified, finished plaintexts stay, healthy bundles never fail where files can be moved | 1 name, 2 bundles (the second meets the files the first left behind), 3 items, 2 looks for a key, 1 stop or crash, 4 worlds: one look more than the first is enough for a key that comes while the watcher waits |
| `DecryptLive` (`MCDecryptPipeline`) | every timely bundle settles | the same with 1 bundle, in three worlds where files can be moved |
| `Rewrap` (`MCRewrap`) | keys go on opening, versions never drop, report, backups, dry runs | 2 files, 3 versions, 2 runs, 1 encryption by the service; symmetric in the files |
| `Reload` (`MCReload`) | watches and directories that belong together, complete uploads only, the register of configurations, one open log, a served stop, queued arrivals | 1 file of 3 writes (for a change of time but not of size, and for one look too many), 2 edits and 2 signals (a reload and a stop, or two reloads), 4 source and 2 destination directories, and 6 worlds: *calm* with two configurations and a patience that is just enough, *botched* with one that is invalid, one without decryption directory and one that changes the destination alone, *faulty* where adding a watch, opening a log and reading a directory or a file fail, *named* with a `.sha256` name and a key that may be missing, *slow* with users who pause and a configuration without decryption block, and *long* with an upload that outlasts the patience |
| `EncryptRetry`, `EncryptShutdown`, `QueueLock`, `ReloadSwap` | claims of the documentation | TLC refutes each of them, see *Findings* |

`CHECK_DEADLOCK FALSE` is set everywhere: users may stop uploading, and every model bounds
uploads, items and stops, so a run ends when they are used up.  The bounds are the
constants with the comment "bound".

**Mutants.**  Definitions commented as mutants (`PushFront`, `CreateFirst`, `BackupOnce`,
...) are wrong versions of the definition that follows them.  No specification uses them;
for each property one of them, put in place of the right definition, makes TLC find the
property violated.

**Properties worth naming.**  `NothingLost`: in every state, after any crash, the last upload
of each name is in one of the directories or is decryptable. `SourceOnlyLeavesSafely`: the
step that takes a file out of the source directory finds it decryptable already, or puts it in
failed/ or dlq/.  `CompletedIsRecoverable`: once a file was encrypted and its source archived
or deleted, no duplicate, retry or restored item touches the pair again; it rests on the
source being opened before the output is created, and is stated for names that are not reused
(a second upload of a name replaces the first one's files by design).  `BundleKept`: at every
moment the last bundle of a name is decrypted, or its ciphertext and its key are both still
there, although they are moved apart.  `LeavesOnlyDecrypted`: the step that archives or
deletes a ciphertext finds its own plaintext whole and not contradicted by the checksum.
`PlaintextStays`: no duplicate or restored item truncates a finished plaintext, even when a
crash left the key behind; as on the encryption side this rests on the library opening its
input before it creates its output, which is an assumption.  `HealthyNeverFails`: without
faults and stops no bundle fails, however often it is queued and whenever its key comes.  It
excepts files that cannot be moved: a ciphertext that stays behind when its key is archived is
queued again, by a duplicate, and that attempt fails for want of a key.  `BundleSettles` is
about bundles that are `Timely`: a key that comes after the watcher has given up is not
noticed before the next start.  It and `EveryUploadSettles` hold whatever fails in the
processor, and name a failure of the watcher's own as the way out (`PassedOver`): a file that
it could not read, or any file once it has ended, is found by the next start only.  Both take
failed/ for dlq/, where the source of a retried item never gets.  `SourcesWatched` says that
after any reloads the directories the watcher takes for its sources are watched, although
`Start` adds what it read before the reload.  `OneConfiguration`: no source is paired with the
destination of another configuration, even when `UpdateConfig` returned half way.
`ArrivalsQueued`: an upload that was reported is queued, however long its wait holds up a
reload, if it ends within the five minutes (`InTime`) and a ciphertext has its key.
`StopServed`: a signal to stop that was received ends the service, or gets it as far as the
save that may hang.  `RetriesBackOff`: a retry waits for the delay of its number, where the
first retry has the number one.  `KeepsOpening`: a key file never stops opening its
ciphertext, except for files in `raced`; the exception is real, since nothing in the code
keeps the command and the service apart.

## Fairness

`Fairness` in `RetryQueue`: the clock advances; each worker dequeues when it can (the
one-second ticker of `Processor.Start`) and finishes what it holds (`processItem` always
returns); `Shutdown` runs to its end, or an operator kills the process that hangs in it, and
someone starts the service again.  Shutdowns and crashes themselves are never forced, nor is
success: an attempt may fail each time.  `PipeFairness` adds the watcher, which reads its
events, and `DecryptFairness` is the same.  Only weak fairness is used there, since no other
goroutine can disable those steps again and again.  `ReloadFairness` lets each of the three
goroutines take its next step and brisk users go on with their writes; signals, edits and new
uploads are not forced.  The processor is not asked to go on where main is `hung`, since it
may then wait for the lock of the queue for ever; nobody is assumed to kill a process that
hangs there.  A reload and a reader cannot starve each other, since each waiting writer shuts
new readers out.  `QueueLock` gives the saver strong fairness for its first lock, as RWMutex
lets waiting readers in when a writer unlocks, so the hang it shows is not an artefact of an
unfair lock.

`EveryUploadSettles` and `BundleSettles` are about worlds where source files can be moved
(`~world.stuck`): one that cannot be moved stays in the source directory with its item dead
until the next start scans it.

## Proofs

**The queue.**  For every number of items, workers, retries, delays and restarts, from the four
assumptions in `RetryQueue` (sizes are naturals, `NoItem` is no item, the attempt cap is
positive and above the limit, delays are naturals):

| Theorem | Shows |
|---|---|
| `TypeCorrect` | `Spec => []TypeOK` |
| `IndexCorrect`, `OwnershipCorrect`, `QueuedRunnableCorrect`, `LimitCorrect` | the invariants `IndexMatchesList`, `SingleOwner`, `QueuedRunnable`, `GivenUpAtLimit` |
| `QueueImplementsLedger` | `Spec => ImplementsLedger` |
| `ArrivalOrderKept`, `FirstAttemptsOrdered` | `PendingInArrivalOrder` and the action property `FirstAttemptsInOrder` |

The four invariants are not inductive together: nothing in them says that a held item is
marked as processing, so that a worker could hold an item that was never created and
`Enqueue` would list it; nor that the state file lists an item once and with attempts
left, which `Load` needs.  `QueueInv` adds these facts: `HeldMarked`, `DownIsEmpty` (a
service that is down lists and holds nothing), `DiskSound` and `UnbornUntried`.  Its proof
has one step per action.  `RetryQueueRefinement` maps each action to one of the ledger or
to a stutter, from `QueueInv`.  `RetryQueueOrder` needs two more facts: items are created
in the order of their numbers, and the state file lists untried items in that order.

**The pipelines.**  For any number of names, items, uploads or bundles, retries, crashes and
restarts, and any worlds, from the assumptions of the queue, those of each pipeline about
its worlds and bounds, that the one processor is the queue's only worker, and
`NamesAssumption`: there is a name, and there are finitely many.  The
encryption side needs the last for its data keys: `FreshDekExists` counts the keys that are
on files and finds one that is not.

| Theorem of `EncryptProofs` | Shows |
|---|---|
| `PipeTypeCorrect` | `PipeSpec => []PipeTypeOK` |
| `NothingLostCorrect`, `CompletedCorrect`, `DuplicatesCorrect` | the invariants `NothingLost`, `CompletedIsRecoverable`, `DuplicatesHarmless` |
| `SourceLeavesSafely` | the action property `SourceOnlyLeavesSafely` |
| `PipelineRunsQueue` | `PipeSpec => Spec`: the pipeline is a `RetryQueue`, so every theorem about the queue holds in it |

| Theorem of `DecryptProofs` | Shows |
|---|---|
| `DecryptTypeCorrect` | `DecryptSpec => []DecryptTypeOK` |
| `BundleKeptCorrect`, `PlaintextCorrect`, `HealthyCorrect` | the invariants `BundleKept`, `PlaintextStays`, `HealthyNeverFails` |
| `LeavesDecrypted` | the action property `LeavesOnlyDecrypted` |
| `DecryptionRunsQueue` | `DecryptSpec => Spec` |

`NothingLost` says nothing of the step the processor is at, so `WriteEnc` could break it:
`PipeInv` adds `JobSound`, which follows the program counter of `processItem`.  Once the
source is opened it stays, or a late upload took its place; once `.enc` is written it is the
opened content with this attempt's data key; once `.key` is written it is that key.
`SourceIsLatest` and `BornUploaded` tie files to uploads, and `GoneIsRecoverable` is
`CompletedIsRecoverable` without the item, which a restart may have forgotten.
`DuplicatesHarmless` rests on `FailsForWant`: where nothing fails from outside, an attempt
fails only when its source has gone, so that there is nothing to move to failed/.

`DecryptInv` has the same frame.  Since ciphertext, key and checksum come and go one by one,
it states for each of the first two (`EncKept`, `KeyKept`) where it may be: in front of the service,
still to come, set aside, or gone because its plaintext is whole.  `RestSound` says
which files of a bundle are still to come.  `KeysOutlive`, `FreshNames` and `FailsForWant`
are for `HealthyNeverFails`: an item is made only when its ciphertext came and, where reads do
not fail, its key too; a key that was delivered goes only after its ciphertext, so a
duplicate that finds no key finds no ciphertext to fail either.

The last is where an attempt to prove something failed for a good reason: where files
cannot be moved the ciphertext can outlive its key, and `HealthyNeverFails`, which did not
except such worlds, is false in them.  No world of the run had this without faults; TLC finds
the state as soon as one is added.  The property says so now.

**The rewrap command.**  For any files, versions and runs, from the assumptions in `Rewrap`:

| Theorem of `RewrapProofs` | Shows |
|---|---|
| `RewrapTypeCorrect` | `RewrapSpec => []RewrapTypeOK` |
| `ReportCorrect`, `BackupCorrect` | the invariants `ReportMatchesFiles`, `BackupIsPrevious` |
| `OpeningKept`, `VersionsKept`, `OnlyOldKeysTouchedCorrect` | the action properties `KeepsOpening`, `VersionNeverDrops`, `OnlyOldKeysTouched` |

`RewrapInv` adds what `RewrapFile` knows at each stage (`InWork`): the key file is still the
one it read and the backup is its copy, unless the service wrote it meanwhile (`raced`), and
what Vault returned is the same data key at a version as recent.  `KeysKnown` and
`ServiceMarks` tell the files the service encrypted again from those it did not, for which
alone report and backup make promises.

**The reload.**  For any directories, files, worlds and bounds, from the assumptions in
`Reload` (the worlds are worlds, and each starts with a valid configuration that has a
decryption block; `NoFile` is no file):

| Theorem of `ReloadProofs` | Shows |
|---|---|
| `ReloadTypeCorrect` | `ReloadSpec => []ReloadTypeOK` |
| `ReloadImplementsRegister` | `ReloadSpec => ImplementsRegister` |
| `OneConfigurationCorrect`, `OneLogCorrect`, `SourcesWatchedCorrect` | the invariants `OneConfiguration`, `OneLogOpen`, `SourcesWatched` |
| `BriskUploadsCorrect` | the action property `BriskUploadsWhole` |

`OneLogOpen` is inductive.  The refinement needs `RegisterInv`: the file always says one of
the world's configurations, so that `Load` knows whether it is valid, and `NoItem` is never
queued, so that taking an item makes the processor busy.  `OneConfiguration` is not
inductive: nothing in it says that the manager holds a valid configuration when the
callback runs, nor that the file the watcher is about to queue still lies where its
extension and its directory said when it was picked.  `ConfigInv` adds this: files appear
once and can then only go (`FilesKnown`); a file is waited for only under the lock, which
keeps `UpdateWatcher` out, so its side stays what it was (`EyeSound`).  `TakeOverPairs` is
the lemma that one side of an update, failed or not, leaves each source with the
destination of one configuration.  The types rest on `ConfigInv` too, since an item has a
side only because the lock kept its directory.  `SourcesWatched` needs `WatchInv`: in each
state of `Start`, a source that is not watched is one that `Start` has not come to and
has read as it is now; `TakeOverWatches` and `UpdateWatches` are the lemmas that an update which
fsnotify accepts watches the new sources and removes no watch of the other side.

**How the invariants were checked first.**  Each of `QueueInv`, `PipeInv`, `DecryptInv`,
`RewrapInv`, `TypeInv`, `ConfigInv` and `WatchInv` was an invariant of a TLC run of the
instance of its component before it was proved.

**Only model-checked:** all liveness (`QueuedIsTaken`, `EveryUploadSettles`, `QueueDrains`,
`BundleSettles`, `StopServed`, `ArrivalsQueued`), which is out of the prover's reach; the
delays of `Backoff` and `RetriesBackOff`, since what a recursive definition computes needs
an induction the installed provers cannot instantiate; and the runs that refute a claim.

## Findings

1. **A retry has no source file** (`EncryptRetry`).  `docs/ARCHITECTURE.md:177`: "Failed
   operations are automatically retried with exponential backoff".  `processItem`
   (`processor.go:215-218`) moves the source to failed/ after each failed attempt, also
   when the item was just put back, so every retry fails; at the limit there is nothing
   left to move to dlq/.
2. **A graceful shutdown fails a healthy file** (`EncryptShutdown`).
   `docs/ARCHITECTURE.md:256`: "On restart, the queue state is restored and processing
   resumes."  The cancelled encryption counts as a failed attempt and its file is moved to
   failed/.
3. **Save can deadlock** (`QueueLock`).  `docs/ARCHITECTURE.md:252`: "Saves the current
   queue state to disk".  `Save` read-locks `q.mu` and calls `List`, which read-locks it
   again; a writer in between blocks both.
4. **A swap of directories loses a watch** (`ReloadSwap`).  `docs/ARCHITECTURE.md:247`: a
   reload will "Update all affected components (Vault client, watcher paths, queue
   settings)".  `UpdateConfig` adds the new encryption source and then removes the old
   decryption source; where they are the same directory it ends up unwatched, until a
   restart.

**Divergences that are part of the models, or were met beside them.**

- A reload changes only logger, watcher paths and processor settings: neither the Vault
  client, the chunk size, nor the queue settings that the sentence above names.
- A reload that changes a destination directory only is ignored by the watcher
  (`watcher.go:84`, `TakeOver`), while the processor takes over its part.
- After a failed `Add` the old directory is no longer watched but still counts as current,
  so a reload back to it does nothing (`watcher.go:92`).
- Files that lie in a directory before a reload makes it a source are not scanned.
- A configuration without a decryption block passes `Validate`, but `New` and the reload
  dereference the missing block (`service.go:158`, `watcher.go:79`).
- `decryption.enabled` is read by the validator only: a disabled block is watched and
  decrypted all the same, with values that were not validated.
- A signal that arrives while another is in the buffer is lost, a signal to stop included
  (`signal_unix.go:14`).
- A reload drops the audit log: `logger.New` is called without `WithAudit`
  (`service.go:194`).  Watcher and processor keep the old logger, whose file is closed.
- The service logs in to Vault once, when it starts (`client.go:81`), and leaves renewal to
  a Vault Agent (`docs/ARCHITECTURE.md:169`); without one, every file fails once the token
  has expired, until a restart.
- `max_retries = 0` means the default of 3, since `SetDefaults` takes zero for unset.
- The monitoring script in `docs/guides/REWRAP_GUIDE.md:416` takes `.successful` of a dry
  run as the number of files that need re-wrapping; the code counts them as skipped
  (`reporter.go:51`), so that it is always 0.
- `base_delay` is called the "Initial retry delay" (`queue.go:34`,
  `configs/examples/example.hcl:66`), but the first retry waits for twice as long:
  the attempt is counted before it is made, and `calculateBackoff(1)` takes the second interval
  (`queue.go:124`, `queue.go:214`).  `RetriesBackOff` says what the code does.
- The scan skips `.sha256` files in the encryption source, the event handler does not
  (`watcher.go:200`, `watcher.go:311`): such a file is encrypted when it arrives while the
  service runs, and left alone when it was there before.
- A watch that cannot be added ends the watcher goroutine, and the service runs on without it
  (`watcher.go:129-131`, `141-143`); a directory or file it cannot read is logged and
  not looked at again before the next start (`watcher.go:135-137`, `180-183`, `240-243`,
  `330-339`).  When the encryption source cannot be watched, the decryption source is not
  either.
- In the scan a `Stat` of the key that fails for another reason than a missing file counts as a
  key (`watcher.go:322`).
- A checksum that cannot be read is logged and counts as verified (`strategy.go:139`).

## Not modelled, and why

- Uploads in several writes are in `Reload`; in the pipelines a file is complete when it
  appears, since `BriskUploadsWhole` lets the watcher queue nothing else.  A writer who is
  silent for `stability_duration` is taken for one who has finished, as in the code.
- A bundle whose name is reused while an item of that name is in work: its key could be
  moved with the old one.  Encryption and decryption in one queue: they share it and the
  processor, and have no file in common.
- What becomes of items queued before a reload: they are worked on with the new settings,
  and their sources are moved to the directories under the new source directory; that this
  may be another file system, where a rename fails, is the `stuck` world.
- Contents, formats, paths, log lines, report layouts: no property is about them.
- Vault login and health checks, one-shot encrypt and decrypt commands, key-versions, the
  validators' single checks, the scanner's choice of files: sequential code without shared
  state, which unit tests reach.
- Create events that fsnotify drops when its queue overflows: the code only logs the error
  (`watcher.go:167-171`).  A change of `max_retries` between two starts: it is one constant.
- Loss of a rename or of written data in a power failure: the state file and `.enc` are
  not synced, but the model's crash is that of the process.

## Plan

All safety properties that a run checks are theorems.  What could be added:

1. An abstract specification of custody, in which an upload is with the user, with the
   service, delivered or set aside, implemented by both pipelines.
2. The rewrap command as an implementation of one atomic register for each key file.
3. `QueueLock`: that writers and readers exclude each other, and that only the second read
   lock can make the shutdown hang.
