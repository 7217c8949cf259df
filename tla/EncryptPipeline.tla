--------------------------- MODULE EncryptPipeline ---------------------------
(* Service mode, encryption side: the watcher that turns files into queue   *)
(* items, the queue of RetryQueue, the one processor that takes items off   *)
(* it, and the files all of them touch.  The processor works step by step,  *)
(* one file-system or queue operation at a time, so that uploads, scans,    *)
(* shutdowns and crashes fall between any two of them.                      *)
(*                                                                          *)
(* The content of a file is the number of the upload it came from.          *)
EXTENDS RetryQueue, FiniteSets

CONSTANTS
  Processor,   \* the goroutine of Processor.Start
  Names,       \* base names of source files
  MaxUploads,  \* bound: the number of uploads
  MaxReloads,  \* bound: the number of configuration reloads
  Worlds       \* the worlds, as below, to start in

ASSUME OneProcessor == Workers = {Processor}
ASSUME NamesAssumption == IsFiniteSet(Names) /\ Names # {}

\* The settings of the processor: source_file_behavior, calculate_checksum.
Settings == [behavior : {"archive", "delete", "keep"}, checksum : BOOLEAN]

\* What surrounds the service: whether Vault, reads and writes, the watcher's
\* included, may fail, whether moving and removing source files may fail, whether
\* a name is uploaded again, be its source file still there or not, the names
\* that end in .sha256, and the settings of the configuration file.
World == [faults : BOOLEAN, stuck : BOOLEAN, reuse : BOOLEAN, sha256 : SUBSET Names,
          configs : SUBSET Settings]
ASSUME WorldAssumption == Worlds \subseteq World /\ MaxUploads \in Nat /\ MaxReloads \in Nat

VARIABLES
  source, archive, failed, dead,  \* the source directory and its subdirectories
  enc, key, sums,                 \* the destination: .enc, .key and .sha256 files
  path,     \* Item.SourcePath, by base name
  events,   \* Create events the watcher has not received yet
  scan,     \* the names scanDirectory still has to look at
  watch,    \* where the watcher is: "off", "armed", "scanning", "events", "ended"
  missed,   \* the uploads that a failing read of the watcher made it pass over
  step,     \* what the processor does next
  job,      \* the item it works on
  opened,   \* the content it opened
  dek,      \* the data key it was given
  settings, \* the settings in force
  reloads,  \* reloads so far
  world,    \* the world, fixed
  latest,   \* the last upload of each name
  late,     \* the uploads that replaced a file the processor encrypts
  uploads   \* uploads so far

sourceDirs == <<source, archive, failed, dead>>
destFiles == <<enc, key, sums>>
watchVars == <<path, events, scan, watch, missed>>
jobVars == <<step, job, opened, dek>>
configVars == <<settings, reloads>>
userVars == <<world, latest, late, uploads>>
queueVars == vars
pipeVars == <<queueVars, sourceDirs, destFiles, watchVars, jobVars, configVars,
              userVars>>

NoFile == 0
Torn == MaxUploads + 1          \* an encrypted file that was not finished
Contents == 0..MaxUploads
Deks == 1..(2 * Cardinality(Names) + 1)
NoKey == 0

Ciphertext == [data : 0..Torn, dek : Deks \union {NoKey}]
NoCiphertext == [data |-> NoFile, dek |-> NoKey]

\* GenerateDataKey returns a key that no file on disk was encrypted with.
FreshDek == CHOOSE d \in Deks : \A n \in Names : d # enc[n].dek /\ d # key[n]

\* The destination holds upload v of n, and the key that opens it.
Recoverable(n, v) == enc[n].data = v /\ enc[n].dek = key[n] /\ key[n] # NoKey

\* The service context is cancelled: file encryption returns its error.
Cancelled == life # "up"

PipeInit ==
  /\ Init
  /\ source = [n \in Names |-> NoFile] /\ archive = source
  /\ failed = source /\ dead = source /\ sums = source
  /\ enc = [n \in Names |-> NoCiphertext] /\ key = [n \in Names |-> NoKey]
  /\ path = [i \in Items |-> CHOOSE n \in Names : TRUE]
  /\ events = <<>> /\ scan = {} /\ watch = "off" /\ missed = {}
  /\ step = "idle" /\ job = NoItem /\ opened = NoFile /\ dek = NoKey
  /\ world \in Worlds /\ settings \in world.configs /\ reloads = 0
  /\ latest = source /\ late = {} /\ uploads = 0

----------------------------------------------------------------------------
(* The user, and the watcher (internal/watcher/watcher.go) *)

MayUpload(n) == latest[n] = NoFile \/ world.reuse

\* fsnotify reports what happens in the directory.
Watched == watch \in {"armed", "scanning", "events"}

\* A complete file is moved into the source directory, over the one of that
\* name; fsnotify reports it if the directory is watched.
Upload(n) ==
  /\ uploads < MaxUploads /\ MayUpload(n)
  /\ uploads' = uploads + 1
  /\ latest' = [latest EXCEPT ![n] = uploads + 1]
  /\ late' = IF source[n] # NoFile /\ step \in {"encrypting", "key", "done"} /\ path[job] = n
               THEN late \union {uploads + 1} ELSE late
  /\ source' = [source EXCEPT ![n] = uploads + 1]
  /\ events' = IF Watched THEN Append(events, n) ELSE events
  /\ UNCHANGED <<queueVars, archive, failed, dead, destFiles, path, scan, watch, missed, jobVars,
                 configVars, world>>

\* What the watcher drops because it cannot read it.
Miss(S) == missed' = missed \union ({source[n] : n \in S} \ {NoFile})

\* After the scan Start goes on to the decryption side; if that cannot be watched
\* it returns, and the watcher goroutine ends, while the service runs on.
Onward == watch' = "events" \/ (world.faults /\ watch' = "ended")

\* scanDirectory lists the directory, after it is watched; an error of that ends
\* the scan.
ReadDir ==
  /\ watch = "armed"
  /\ \/ /\ watch' = "scanning" /\ scan' = {n \in Names : source[n] # NoFile}
        /\ UNCHANGED missed
     \/ world.faults /\ Onward /\ Miss(Names) /\ UNCHANGED scan
  /\ UNCHANGED <<queueVars, sourceDirs, destFiles, path, events, jobVars, configVars, userVars>>

\* A file that is there is enqueued, whether or not an item for it is queued
\* already; one that is gone is dropped, and so is one whose wait for stability
\* the shutdown cancels, or whose Stat fails.
Detect(n) ==
  \/ /\ source[n] = NoFile \/ Cancelled
     /\ UNCHANGED <<queueVars, path, missed>>
  \/ /\ source[n] # NoFile
     /\ \E i \in Items : Enqueue(i) /\ path' = [path EXCEPT ![i] = n]
     /\ UNCHANGED missed
  \/ /\ world.faults /\ source[n] # NoFile /\ Miss({n})
     /\ UNCHANGED <<queueVars, path>>

\* The scan skips a name that ends in .sha256; an event of one is handled.
ScanFile(n) ==
  /\ watch = "scanning" /\ n \in scan
  /\ IF n \in world.sha256 THEN UNCHANGED <<queueVars, path, missed>> ELSE Detect(n)
  /\ scan' = scan \ {n}
  /\ UNCHANGED <<sourceDirs, destFiles, events, watch, jobVars, configVars, userVars>>

ScanDone ==
  /\ watch = "scanning" /\ scan = {} /\ Onward
  /\ UNCHANGED <<queueVars, sourceDirs, destFiles, path, events, scan, missed, jobVars, configVars,
                 userVars>>

FileCreated ==
  /\ watch = "events" /\ events # <<>>
  /\ Detect(Head(events))
  /\ events' = Tail(events)
  /\ UNCHANGED <<sourceDirs, destFiles, scan, watch, jobVars, configVars, userVars>>

----------------------------------------------------------------------------
(* The processor (processor.go, strategy.go, filehandler.go) *)

Name == path[job]

TakeJob ==
  /\ step = "idle"
  /\ Dequeue(Processor)
  /\ job' = held'[Processor]
  /\ step' = IF settings.checksum THEN "checksum" ELSE "encrypt"
  /\ UNCHANGED <<sourceDirs, destFiles, watchVars, opened, dek, configVars, userVars>>

\* Mutant of Checksum: an existing checksum file is an error.
ChecksumOnce ==
  /\ step = "checksum"
  /\ IF source[Name] # NoFile /\ sums[Name] = NoFile
       THEN sums' = [sums EXCEPT ![Name] = source[Name]] /\ step' = "encrypt"
       ELSE step' = "failing" /\ UNCHANGED sums
  /\ UNCHANGED <<queueVars, sourceDirs, enc, key, watchVars, job, opened, dek, configVars, userVars>>

\* The checksum of the source is saved in the destination directory.
Checksum ==
  /\ step = "checksum"
  /\ \/ /\ source[Name] # NoFile
        /\ sums' = [sums EXCEPT ![Name] = source[Name]]
        /\ step' = "encrypt"
     \/ /\ source[Name] = NoFile \/ world.faults
        /\ step' = "failing" /\ UNCHANGED sums
  /\ UNCHANGED <<queueVars, sourceDirs, enc, key, watchVars, job, opened, dek, configVars, userVars>>

\* Mutant of OpenFiles: the output is created before the source is opened.
CreateFirst ==
  /\ step = "encrypt"
  /\ enc' = [enc EXCEPT ![Name] = [data |-> Torn, dek |-> NoKey]]
  /\ IF source[Name] # NoFile /\ ~Cancelled
       THEN opened' = source[Name] /\ dek' = FreshDek /\ step' = "encrypting"
       ELSE step' = "failing" /\ UNCHANGED <<opened, dek>>
  /\ UNCHANGED <<queueVars, sourceDirs, key, sums, watchVars, job, configVars, userVars>>

\* Vault returns a new data key, the source is opened and the output created.
OpenFiles ==
  /\ step = "encrypt"
  /\ \/ /\ source[Name] # NoFile /\ ~Cancelled
        /\ opened' = source[Name] /\ dek' = FreshDek
        /\ enc' = [enc EXCEPT ![Name] = [data |-> Torn, dek |-> NoKey]]
        /\ step' = "encrypting"
     \/ /\ source[Name] = NoFile \/ Cancelled \/ world.faults
        /\ step' = "failing" /\ UNCHANGED <<enc, opened, dek>>
  /\ UNCHANGED <<queueVars, sourceDirs, key, sums, watchVars, job, configVars, userVars>>

\* The output is complete, or it is left unfinished or removed.
WriteEnc ==
  /\ step = "encrypting"
  /\ \/ /\ enc' = [enc EXCEPT ![Name] = [data |-> opened, dek |-> dek]]
        /\ step' = "key"
     \/ /\ world.faults \/ Cancelled
        /\ \/ UNCHANGED enc
           \/ enc' = [enc EXCEPT ![Name] = NoCiphertext]
        /\ step' = "failing"
  /\ UNCHANGED <<queueVars, sourceDirs, key, sums, watchVars, job, opened, dek, configVars, userVars>>

\* Mutant of WriteKey: an error is ignored.
WriteKeyUnchecked ==
  /\ step = "key" /\ step' = "done"
  /\ \/ key' = [key EXCEPT ![Name] = dek]
     \/ world.faults /\ key' = [key EXCEPT ![Name] = NoKey]
  /\ UNCHANGED <<queueVars, sourceDirs, enc, sums, watchVars, job, opened, dek, configVars, userVars>>

\* The encrypted data key is written over the old key file.
WriteKey ==
  /\ step = "key"
  /\ \/ key' = [key EXCEPT ![Name] = dek] /\ step' = "done"
     \/ /\ world.faults
        /\ \/ UNCHANGED key
           \/ key' = [key EXCEPT ![Name] = NoKey]
        /\ step' = "failing"
  /\ UNCHANGED <<queueVars, sourceDirs, enc, sums, watchVars, job, opened, dek, configVars, userVars>>

Idle == step' = "idle" /\ job' = NoItem /\ opened' = NoFile /\ dek' = NoKey

\* Mutant of MovedTo: an older file of that name is kept, and the move dropped.
MovedOnce(dir, n) ==
  IF dir[n] # NoFile THEN dir ELSE [dir EXCEPT ![n] = source[n]]

\* Renaming a file that is there replaces the file of that name in dir; a file
\* that cannot be renamed or removed stays where it is.
MovedTo(dir, n) ==
  IF source[n] = NoFile THEN dir ELSE [dir EXCEPT ![n] = source[n]]
Without(n) == [source EXCEPT ![n] = NoFile]

Stuck == world.stuck /\ UNCHANGED sourceDirs

\* The item is completed and the source file archived, deleted or left.
HandleSourceFile(n) ==
  \/ /\ archive' = IF settings.behavior = "archive" THEN MovedTo(archive, n) ELSE archive
     /\ source' = IF settings.behavior = "keep" THEN source ELSE Without(n)
     /\ UNCHANGED <<failed, dead>>
  \/ Stuck

FinishJob ==
  /\ step = "done"
  /\ Complete(Processor)
  /\ HandleSourceFile(Name)
  /\ Idle
  /\ UNCHANGED <<destFiles, watchVars, configVars, userVars>>

\* The attempt failed: the item goes back to the queue, or not.
FailJob ==
  /\ step = "failing"
  /\ Requeue(Processor)
  /\ step' = IF ShouldRetry(job) THEN "toFailed" ELSE "toDead"
  /\ UNCHANGED <<sourceDirs, destFiles, watchVars, job, opened, dek, configVars, userVars>>

MoveToDLQ ==
  /\ step = "toDead" /\ step' = "toFailed"
  /\ \/ /\ dead' = MovedTo(dead, Name) /\ source' = Without(Name)
        /\ UNCHANGED <<archive, failed>>
     \/ Stuck
  /\ UNCHANGED <<queueVars, destFiles, watchVars, job, opened, dek, configVars, userVars>>

\* Whether or not the item was requeued, its source file is moved away.
MoveToFailed ==
  /\ step = "toFailed"
  /\ \/ /\ failed' = MovedTo(failed, Name) /\ source' = Without(Name)
        /\ UNCHANGED <<archive, dead>>
     \/ Stuck
  /\ Idle
  /\ UNCHANGED <<queueVars, destFiles, watchVars, configVars, userVars>>

ProcessorStep ==
  Checksum \/ OpenFiles \/ WriteEnc \/ WriteKey \/ FinishJob \/ FailJob
  \/ MoveToDLQ \/ MoveToFailed

----------------------------------------------------------------------------
(* The service (service.go) *)

\* Mutant of StartService: the directory is watched, but not scanned.
StartNoScan ==
  /\ Start /\ watch' = "events"
  /\ UNCHANGED <<sourceDirs, destFiles, path, events, scan, missed, jobVars, configVars, userVars>>

\* The queue is loaded, the processor starts, and the watcher adds its watch; if
\* that fails it ends.
StartService ==
  /\ Start
  /\ watch' = "armed" \/ (world.faults /\ watch' = "ended")
  /\ UNCHANGED <<sourceDirs, destFiles, path, events, scan, missed, jobVars, configVars, userVars>>

\* The goroutines end with the process, wherever they are.
StopService ==
  /\ Exit \/ Crash
  /\ watch' = "off" /\ scan' = {} /\ events' = <<>> /\ missed' = {}
  /\ Idle
  /\ UNCHANGED <<sourceDirs, destFiles, path, configVars, userVars>>

ServiceStep ==
  /\ BeginShutdown \/ BeginSave \/ EndSave \/ Tick
  /\ UNCHANGED <<sourceDirs, destFiles, watchVars, jobVars, configVars, userVars>>

\* Mutant of Reload: one of the settings is not taken over.
ReloadPartly ==
  /\ life = "up" /\ step = "idle" /\ reloads < MaxReloads
  /\ \E c \in world.configs \ {settings} : settings' = [settings EXCEPT !.behavior = c.behavior]
  /\ reloads' = reloads + 1
  /\ UNCHANGED <<queueVars, sourceDirs, destFiles, watchVars, jobVars, userVars>>

\* UpdateConfig of the processor takes p.mu, which processItem holds for reading:
\* the settings change between two items.
Reload ==
  /\ life = "up" /\ step = "idle" /\ reloads < MaxReloads
  /\ settings' \in world.configs \ {settings} /\ reloads' = reloads + 1
  /\ UNCHANGED <<queueVars, sourceDirs, destFiles, watchVars, jobVars, userVars>>

WatcherStep == ReadDir \/ ScanDone \/ FileCreated \/ \E n \in Names : ScanFile(n)

PipeNext ==
  \/ \E n \in Names : Upload(n)
  \/ WatcherStep
  \/ TakeJob \/ ProcessorStep
  \/ StartService \/ StopService \/ ServiceStep \/ Reload

\* The goroutines of a running service keep running, clocks advance, Shutdown
\* runs to its end and the service is started again; uploads, shutdowns and
\* crashes need not happen.
PipeFairness ==
  /\ WF_pipeVars(WatcherStep)
  /\ WF_pipeVars(TakeJob) /\ WF_pipeVars(ProcessorStep)
  /\ WF_pipeVars(StartService)
  /\ WF_pipeVars(StopService /\ life \in {"saved", "hung"})
  /\ WF_pipeVars(ServiceStep /\ life # "up") /\ WF_pipeVars(ServiceStep /\ wait' # wait)

PipeSpec == PipeInit /\ [][PipeNext]_pipeVars
PipeFairSpec == PipeSpec /\ PipeFairness

----------------------------------------------------------------------------
(* Properties *)

PipeTypeOK ==
  /\ TypeOK
  /\ {source, archive, failed, dead, sums, latest} \subseteq [Names -> Contents]
  /\ enc \in [Names -> Ciphertext] /\ key \in [Names -> Deks \union {NoKey}]
  /\ path \in [Items -> Names] /\ events \in Seq(Names) /\ scan \subseteq Names
  /\ watch \in {"off", "armed", "scanning", "events", "ended"} /\ missed \subseteq Contents
  /\ step \in {"idle", "checksum", "encrypt", "encrypting", "key", "done", "failing",
               "toDead", "toFailed"}
  /\ job \in Items \union {NoItem} /\ opened \in Contents /\ dek \in Deks \union {NoKey}
  /\ settings \in world.configs /\ reloads \in 0..MaxReloads /\ world \in World
  /\ late \subseteq 1..MaxUploads /\ uploads \in 0..MaxUploads

Kept(n, v) ==
  \/ v \in {source[n], archive[n], failed[n], dead[n]}
  \/ Recoverable(n, v)

\* The last upload of a name is never lost: at every moment, whatever crashed,
\* failed or was queued twice, a directory holds it or the destination holds
\* its ciphertext together with the key that opens it; not so an upload over a
\* file that is just being encrypted, which is deleted in its place.
NothingLost ==
  \A n \in Names : latest[n] \notin late \union {NoFile} => Kept(n, latest[n])

\* A file leaves the source directory only once its own content can be
\* decrypted from the destination, or to failed/ or dlq/ (a late one excepted).
SourceOnlyLeavesSafely ==
  [][\A n \in Names, v \in 1..MaxUploads :
       source[n] = v /\ v \notin late /\ source'[n] = NoFile =>
         Recoverable(n, v)' \/ v \in {failed'[n], dead'[n]}]_pipeVars

\* A file that was encrypted and then archived or deleted can be decrypted for
\* ever: neither a second item for the same file, nor a retry, nor an item that
\* a restart brings back touches the pair of .enc and .key files again (names
\* are not reused).
Gone(n) == {source[n], failed[n], dead[n]} = {NoFile}
CompletedIsRecoverable ==
  \A i \in Items : status[i] = "completed" /\ Gone(path[i]) /\ ~world.reuse =>
    Recoverable(path[i], latest[path[i]])

\* Without faults and shutdowns a file that is queued twice, by the scan and by
\* its Create event, never ends in failed/ or dlq/.
DuplicatesHarmless ==
  ~world.faults /\ ~world.reuse /\ stops = 0 =>
    \A n \in Names : failed[n] = NoFile /\ dead[n] = NoFile

\* Each upload is dealt with: encrypted, moved to failed/ or dlq/, or replaced,
\* whatever crashes and whatever fails in the processor, so far as files can be
\* moved and the scan takes the name.  The way out is a failure of the watcher's
\* own: it could not read this file or its directory, or it ended, and then only
\* the next start of the service, if there is one, finds the file.
Dealt(n, v) == Recoverable(n, v) \/ v \in {failed[n], dead[n]} \/ latest[n] # v
PassedOver(v) == v \in missed \/ watch = "ended"
EveryUploadSettles ==
  \A n \in Names : \A v \in 1..MaxUploads :
    (latest[n] = v /\ n \notin world.sha256 /\ ~world.stuck) ~> (Dealt(n, v) \/ PassedOver(v))

----------------------------------------------------------------------------
(* What the documentation says, and the code does not do *)

\* "Failed operations are automatically retried": a queued retry has a source
\* file to work on.
RetryHasSource ==
  \A i \in Queued : status[i] = "failed" /\ step = "idle" => source[path[i]] # NoFile

\* "On restart, the queue state is restored and processing resumes": without
\* faults, stopping and starting the service makes no file fail.
ShutdownFailsNoFile ==
  ~world.faults => \A n \in Names : failed[n] = NoFile /\ dead[n] = NoFile
=============================================================================
