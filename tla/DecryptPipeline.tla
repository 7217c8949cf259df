--------------------------- MODULE DecryptPipeline ---------------------------
(* Service mode, decryption side.  A bundle is a .enc file, its .key file   *)
(* and perhaps a .sha256 file; users (or the encryption side of another     *)
(* service) put them into the source directory one after the other, while   *)
(* the watcher waits for keys and the processor decrypts, verifies and      *)
(* moves three files in three steps.                                        *)
(*                                                                          *)
(* The content of a file is the number of the bundle it belongs to: a key   *)
(* opens the ciphertext with its own number.                                *)
EXTENDS RetryQueue, FiniteSets

CONSTANTS
  Processor,   \* the goroutine of Processor.Start
  Names,       \* base names of bundles
  NoName,      \* no base name
  MaxBundles,  \* bound: the number of bundles
  KeyPolls,    \* how often the watcher looks for a key (10 times in 1 s)
  Worlds       \* the worlds, as below, to start in

ASSUME OneProcessor == Workers = {Processor}
ASSUME NamesAssumption == IsFiniteSet(Names) /\ Names # {}
ASSUME NoNameAssumption == NoName \notin Names
ASSUME BoundAssumption == MaxBundles \in Nat /\ KeyPolls \in Nat \ {0}

\* The settings of the processor: source_file_behavior, verify_checksum.
Settings == [behavior : {"archive", "delete", "keep"}, verify : BOOLEAN]

\* What surrounds the service: whether Vault, reads and writes, the watcher's
\* included, may fail, whether moving and removing source files may fail, whether
\* a name is used again once its .enc file is gone, whether keys come before
\* ciphertexts, whether a checksum may be wrong, and the settings of the
\* configuration file.
World == [faults : BOOLEAN, stuck : BOOLEAN, reuse : BOOLEAN, keyFirst : BOOLEAN,
          badSums : BOOLEAN, configs : SUBSET Settings]
ASSUME WorldAssumption == Worlds \subseteq World

VARIABLES
  src, archive,  \* by kind and name: the source directory and archive/
  failed, dead,  \* .enc files in failed/ and dlq/
  plain,         \* the destination: decrypted files
  path,     \* Item.SourcePath, by base name
  events,   \* Create events for .enc files the watcher has not received yet
  scan,     \* the names scanDirectory still has to look at
  polls,    \* how often the watcher looked for the key of the first event
  found,    \* the name whose key was found, while its file has to settle
  watch,    \* where the watcher is: "off", "starting", "armed", "scanning", "events",
            \* "ended"
  missed,   \* the bundles that a failing read of the watcher made it pass over
  step,     \* what the processor does next
  job,      \* the item it works on
  dek,      \* the data key it got from Vault
  opened,   \* the ciphertext it opened
  settings, \* the settings in force
  world,    \* the world, fixed
  latest,   \* the last bundle of each name
  rest,     \* its files that are still to come
  bundles   \* bundles so far

dirs == <<src, archive, failed, dead>>
watchVars == <<path, events, scan, polls, found, watch, missed>>
jobVars == <<step, job, dek, opened>>
worldVars == <<settings, world>>
userVars == <<latest, rest, bundles>>
queueVars == vars
decryptVars == <<queueVars, dirs, plain, watchVars, jobVars, worldVars, userVars>>

Kinds == {"enc", "key", "sum"}
NoFile == 0
Torn == MaxBundles + 1          \* an output that was not finished, a wrong checksum
Contents == 0..Torn

\* The encryption service writes the key last; other users may send it first.
Order == IF world.keyFirst THEN <<"key", "sum", "enc">> ELSE <<"sum", "enc", "key">>

Cancelled == life # "up"

\* Mutant of Watched: the directory is scanned before it is watched.
WatchedLate == watch = "events"

\* fsnotify reports what happens in the directory.
Watched == watch \in {"armed", "scanning", "events"}

DecryptInit ==
  /\ Init
  /\ failed = [n \in Names |-> NoFile] /\ dead = failed /\ plain = failed /\ latest = failed
  /\ src = [k \in Kinds |-> failed] /\ archive = src
  /\ path = [i \in Items |-> CHOOSE n \in Names : TRUE]
  /\ events = <<>> /\ scan = {} /\ polls = 0 /\ found = NoName /\ watch = "off"
  /\ missed = {}
  /\ step = "idle" /\ job = NoItem /\ dek = NoFile /\ opened = NoFile
  /\ world \in Worlds /\ settings \in world.configs
  /\ rest = [n \in Names |-> <<>>] /\ bundles = 0

----------------------------------------------------------------------------
(* The user *)

\* A new bundle: its name is free, and no item of that name is in work.
MayBegin(n) ==
  /\ bundles < MaxBundles /\ src["enc"][n] = NoFile
  /\ latest[n] = NoFile \/ world.reuse
  /\ job # NoItem => path[job] # n

\* File k of bundle v arrives; a checksum may be left out, or be wrong.
Put(k, n, v) ==
  /\ \/ src' = [src EXCEPT ![k][n] = v]
     \/ k = "sum" /\ UNCHANGED src
     \/ k = "sum" /\ world.badSums /\ src' = [src EXCEPT ![k][n] = Torn]
  /\ events' = IF k = "enc" /\ Watched THEN Append(events, n) ELSE events

Deliver(n) ==
  /\ \/ /\ rest[n] = <<>> /\ MayBegin(n)
        /\ bundles' = bundles + 1 /\ latest' = [latest EXCEPT ![n] = bundles']
        /\ rest' = [rest EXCEPT ![n] = Tail(Order)]
        /\ Put(Head(Order), n, bundles')
     \/ /\ rest[n] # <<>>
        /\ rest' = [rest EXCEPT ![n] = Tail(@)]
        /\ Put(Head(rest[n]), n, latest[n])
        /\ UNCHANGED <<bundles, latest>>
  /\ UNCHANGED <<queueVars, archive, failed, dead, plain, path, scan, polls, found, watch,
                 missed, jobVars, worldVars>>

----------------------------------------------------------------------------
(* The watcher (internal/watcher/watcher.go) *)

\* What the watcher drops because it cannot read it.
Miss(S) == missed' = missed \union ({src["enc"][n] : n \in S} \ {NoFile})

\* The directory is watched after the encryption side was watched and scanned; if
\* either cannot be watched Start returns, and the watcher goroutine ends, while
\* the service runs on.
Arm ==
  /\ watch = "starting"
  /\ watch' = "armed" \/ (world.faults /\ watch' = "ended")
  /\ UNCHANGED <<queueVars, dirs, plain, path, events, scan, polls, found, missed, jobVars, worldVars,
                 userVars>>

\* An error of ReadDir ends the scan.
ReadDir ==
  /\ watch = "armed"
  /\ \/ /\ watch' = "scanning" /\ scan' = {n \in Names : src["enc"][n] # NoFile}
        /\ UNCHANGED missed
     \/ world.faults /\ watch' = "events" /\ Miss(Names) /\ UNCHANGED scan
  /\ UNCHANGED <<queueVars, dirs, plain, path, events, polls, found, jobVars, worldVars, userVars>>

\* Mutant of ScanFile: a ciphertext is queued whether or not it has a key.
ScanUnkeyed(n) ==
  /\ watch = "scanning" /\ found = NoName /\ n \in scan
  /\ scan' = scan \ {n} /\ found' = n
  /\ UNCHANGED <<queueVars, dirs, plain, path, events, polls, watch, missed, jobVars, worldVars,
                 userVars>>

\* The scan skips a ciphertext that has no key, without waiting, or is gone; a
\* Stat of the key that fails otherwise counts as a key.
ScanFile(n) ==
  /\ watch = "scanning" /\ found = NoName /\ n \in scan
  /\ scan' = scan \ {n}
  /\ LET there == src["enc"][n] # NoFile
         keyed == src["key"][n] # NoFile
     IN \/ there /\ (keyed \/ world.faults) /\ found' = n
        \/ ~(there /\ keyed) /\ found' = NoName
  /\ UNCHANGED <<queueVars, dirs, plain, path, events, polls, watch, missed, jobVars, worldVars,
                 userVars>>

ScanDone ==
  /\ watch = "scanning" /\ scan = {} /\ found = NoName /\ watch' = "events"
  /\ UNCHANGED <<queueVars, dirs, plain, path, events, scan, polls, found, missed, jobVars, worldVars,
                 userVars>>

\* Mutant of LastLook: <= in the loop's condition.
OneLookMore == polls = KeyPolls

LastLook == polls + 1 = KeyPolls

Dropped == events' = Tail(events) /\ polls' = 0 /\ found' = NoName

\* The watcher looks for the key of a new ciphertext, up to KeyPolls times; it
\* drops one that is gone when it begins, or whose key does not come.  A Stat of
\* the ciphertext that fails drops it too, and one of the key is a look in vain.
PollKey ==
  /\ watch = "events" /\ found = NoName /\ events # <<>>
  /\ LET n == Head(events)
         gone == polls = 0 /\ src["enc"][n] = NoFile
         keyed == src["key"][n] # NoFile
     IN \/ /\ ~gone /\ keyed /\ found' = n
           /\ events' = Tail(events) /\ polls' = 0 /\ UNCHANGED missed
        \/ /\ ~gone /\ ~LastLook /\ (keyed => world.faults)
           /\ polls' = polls + 1 /\ UNCHANGED <<events, found, missed>>
        \/ /\ gone \/ (~keyed /\ LastLook)
           /\ Dropped /\ UNCHANGED missed
        \/ /\ world.faults /\ (polls = 0 \/ LastLook)
           /\ Dropped /\ Miss({n})
  /\ UNCHANGED <<queueVars, dirs, plain, path, scan, watch, jobVars, worldVars, userVars>>

\* A file that settled is enqueued; one that is gone is dropped, and so is one
\* whose wait for stability the shutdown cancels, or whose Stat fails.
Settle ==
  /\ found # NoName /\ found' = NoName
  /\ \/ /\ src["enc"][found] = NoFile \/ Cancelled
        /\ UNCHANGED <<queueVars, path, missed>>
     \/ /\ src["enc"][found] # NoFile
        /\ \E i \in Items : Enqueue(i) /\ path' = [path EXCEPT ![i] = found]
        /\ UNCHANGED missed
     \/ /\ world.faults /\ src["enc"][found] # NoFile /\ Miss({found})
        /\ UNCHANGED <<queueVars, path>>
  /\ UNCHANGED <<dirs, plain, events, scan, polls, watch, jobVars, worldVars, userVars>>

WatcherStep ==
  Arm \/ ReadDir \/ ScanDone \/ PollKey \/ Settle \/ \E n \in Names : ScanFile(n)

----------------------------------------------------------------------------
(* The processor (processor.go, strategy.go, envelope.go, filehandler.go) *)

Name == path[job]
Idle == step' = "idle" /\ job' = NoItem /\ dek' = NoFile /\ opened' = NoFile

TakeJob ==
  /\ step = "idle"
  /\ Dequeue(Processor)
  /\ job' = held'[Processor]
  /\ step' = "key"
  /\ UNCHANGED <<dirs, plain, watchVars, dek, opened, worldVars, userVars>>

\* The .key file is read, and Vault decrypts the data key in it.
ReadKey ==
  /\ step = "key"
  /\ \/ /\ src["key"][Name] # NoFile
        /\ dek' = src["key"][Name] /\ step' = "open"
     \/ /\ src["key"][Name] = NoFile \/ world.faults
        /\ step' = "failing" /\ UNCHANGED dek
  /\ UNCHANGED <<queueVars, dirs, plain, watchVars, job, opened, worldVars, userVars>>

\* Mutant of OpenFiles: the output is created before the ciphertext is opened.
CreateFirst ==
  /\ step = "open"
  /\ plain' = [plain EXCEPT ![Name] = Torn]
  /\ IF src["enc"][Name] # NoFile /\ ~Cancelled
       THEN opened' = src["enc"][Name] /\ step' = "decrypting"
       ELSE step' = "failing" /\ UNCHANGED opened
  /\ UNCHANGED <<queueVars, dirs, watchVars, job, dek, worldVars, userVars>>

\* The ciphertext is opened and the output created.
OpenFiles ==
  /\ step = "open"
  /\ \/ /\ src["enc"][Name] # NoFile /\ ~Cancelled
        /\ opened' = src["enc"][Name]
        /\ plain' = [plain EXCEPT ![Name] = Torn]
        /\ step' = "decrypting"
     \/ /\ src["enc"][Name] = NoFile \/ Cancelled \/ world.faults
        /\ step' = "failing" /\ UNCHANGED <<opened, plain>>
  /\ UNCHANGED <<queueVars, dirs, watchVars, job, dek, worldVars, userVars>>

AfterPlain == IF settings.verify THEN "verify" ELSE "done"

\* Mutant of WritePlain: an error of the decryption is ignored.
WritePlainUnchecked ==
  /\ step = "decrypting" /\ step' = AfterPlain
  /\ \/ plain' = [plain EXCEPT ![Name] = IF dek = opened THEN opened ELSE Torn]
     \/ (world.faults \/ Cancelled) /\ UNCHANGED plain
  /\ UNCHANGED <<queueVars, dirs, watchVars, job, dek, opened, worldVars, userVars>>

\* The output is complete, or it is left unfinished or removed; a key that
\* belongs to another ciphertext is found out.
WritePlain ==
  /\ step = "decrypting"
  /\ \/ /\ dek = opened
        /\ plain' = [plain EXCEPT ![Name] = opened]
        /\ step' = AfterPlain
     \/ /\ dek # opened \/ world.faults \/ Cancelled
        /\ \/ UNCHANGED plain
           \/ plain' = [plain EXCEPT ![Name] = NoFile]
        /\ step' = "failing"
  /\ UNCHANGED <<queueVars, dirs, watchVars, job, dek, opened, worldVars, userVars>>

\* Mutant of Verify: a mismatch is only logged.
VerifyLogged ==
  /\ step = "verify" /\ step' = "done"
  /\ UNCHANGED <<queueVars, dirs, plain, watchVars, job, dek, opened, worldVars, userVars>>

\* The output is compared with the checksum, if there is one; a checksum that
\* cannot be read is logged, an output that cannot be read is an error.
Verify ==
  /\ step = "verify"
  /\ \/ src["sum"][Name] \in {NoFile, plain[Name]} /\ step' = "done"
     \/ src["sum"][Name] \notin {NoFile, plain[Name]} /\ step' = "failing"
     \/ src["sum"][Name] # NoFile /\ world.faults /\ step' \in {"done", "failing"}
  /\ UNCHANGED <<queueVars, dirs, plain, watchVars, job, dek, opened, worldVars, userVars>>

\* A file is archived, deleted or left; one that cannot be moved stays.
HandleSourceFile(k) ==
  /\ \/ /\ archive' = IF settings.behavior = "archive" /\ src[k][Name] # NoFile
                        THEN [archive EXCEPT ![k][Name] = src[k][Name]] ELSE archive
        /\ src' = IF settings.behavior = "keep" THEN src ELSE [src EXCEPT ![k][Name] = NoFile]
     \/ world.stuck /\ UNCHANGED <<src, archive>>
  /\ UNCHANGED <<failed, dead>>

\* The item is completed, and its ciphertext handled; then its key, then its
\* checksum.
FinishEnc ==
  /\ step = "done" /\ step' = "keyDone"
  /\ Complete(Processor)
  /\ HandleSourceFile("enc")
  /\ UNCHANGED <<plain, watchVars, job, dek, opened, worldVars, userVars>>

FinishKey ==
  /\ step = "keyDone" /\ step' = "sumDone"
  /\ HandleSourceFile("key")
  /\ UNCHANGED <<queueVars, plain, watchVars, job, dek, opened, worldVars, userVars>>

FinishSum ==
  /\ step = "sumDone" /\ Idle
  /\ HandleSourceFile("sum")
  /\ UNCHANGED <<queueVars, plain, watchVars, worldVars, userVars>>

FailJob ==
  /\ step = "failing"
  /\ Requeue(Processor)
  /\ step' = IF ShouldRetry(job) THEN "toFailed" ELSE "toDead"
  /\ UNCHANGED <<dirs, plain, watchVars, job, dek, opened, worldVars, userVars>>

\* Only the ciphertext is moved: its key and checksum stay behind.
MovedTo(dir) == IF src["enc"][Name] = NoFile THEN dir ELSE [dir EXCEPT ![Name] = src["enc"][Name]]
EncMovedAway == src' = [src EXCEPT !["enc"][Name] = NoFile]
Stuck == world.stuck /\ UNCHANGED dirs

MoveToDLQ ==
  /\ step = "toDead" /\ step' = "toFailed"
  /\ Stuck \/ (dead' = MovedTo(dead) /\ EncMovedAway /\ UNCHANGED <<archive, failed>>)
  /\ UNCHANGED <<queueVars, plain, watchVars, job, dek, opened, worldVars, userVars>>

MoveToFailed ==
  /\ step = "toFailed" /\ Idle
  /\ Stuck \/ (failed' = MovedTo(failed) /\ EncMovedAway /\ UNCHANGED <<archive, dead>>)
  /\ UNCHANGED <<queueVars, plain, watchVars, worldVars, userVars>>

ProcessorStep ==
  ReadKey \/ OpenFiles \/ WritePlain \/ Verify \/ FinishEnc \/ FinishKey \/ FinishSum
  \/ FailJob \/ MoveToDLQ \/ MoveToFailed

----------------------------------------------------------------------------
(* The service (service.go) *)

StartService ==
  /\ Start /\ watch' = "starting"
  /\ UNCHANGED <<dirs, plain, path, events, scan, polls, found, missed, jobVars, worldVars, userVars>>

\* The goroutines end with the process, wherever they are.
StopService ==
  /\ Exit \/ Crash
  /\ watch' = "off" /\ scan' = {} /\ events' = <<>> /\ polls' = 0 /\ found' = NoName
  /\ missed' = {}
  /\ Idle
  /\ UNCHANGED <<dirs, plain, path, worldVars, userVars>>

ServiceStep ==
  /\ BeginShutdown \/ BeginSave \/ EndSave \/ Tick
  /\ UNCHANGED <<dirs, plain, watchVars, jobVars, worldVars, userVars>>

DecryptNext ==
  \/ \E n \in Names : Deliver(n)
  \/ WatcherStep
  \/ TakeJob \/ ProcessorStep
  \/ StartService \/ StopService \/ ServiceStep

\* As for the encryption side.
DecryptFairness ==
  /\ WF_decryptVars(WatcherStep)
  /\ WF_decryptVars(TakeJob) /\ WF_decryptVars(ProcessorStep)
  /\ WF_decryptVars(StartService)
  /\ WF_decryptVars(StopService /\ life \in {"saved", "hung"})
  /\ WF_decryptVars(ServiceStep /\ life # "up") /\ WF_decryptVars(ServiceStep /\ wait' # wait)

DecryptSpec == DecryptInit /\ [][DecryptNext]_decryptVars
DecryptFairSpec == DecryptSpec /\ DecryptFairness

----------------------------------------------------------------------------
(* Properties *)

DecryptTypeOK ==
  /\ TypeOK
  /\ {src, archive} \subseteq [Kinds -> [Names -> Contents]]
  /\ {failed, dead, plain, latest} \subseteq [Names -> Contents]
  /\ path \in [Items -> Names] /\ events \in Seq(Names) /\ scan \subseteq Names
  /\ polls \in 0..(KeyPolls - 1) /\ found \in Names \union {NoName}
  /\ watch \in {"off", "starting", "armed", "scanning", "events", "ended"}
  /\ missed \subseteq Contents
  /\ step \in {"idle", "key", "open", "decrypting", "verify", "done", "keyDone", "sumDone",
               "failing", "toDead", "toFailed"}
  /\ job \in Items \union {NoItem} /\ {dek, opened} \subseteq Contents
  /\ world \in World /\ settings \in world.configs
  /\ rest \in [Names -> Seq(Kinds)] /\ bundles \in 0..MaxBundles

Delivered(n) == rest[n] = <<>> /\ latest[n] # NoFile

\* The last bundle of a name is never lost: at every moment it is decrypted, or
\* its ciphertext and its key are both still in one of the directories, although
\* they are moved one after the other and a failure moves only one of them.
BundleKept ==
  \A n \in Names : Delivered(n) =>
    \/ plain[n] = latest[n]
    \/ /\ latest[n] \in {src["enc"][n], archive["enc"][n], failed[n], dead[n]}
       /\ latest[n] \in {src["key"][n], archive["key"][n]}

\* A ciphertext leaves the source directory only to failed/ or dlq/, or once its
\* own plaintext is whole and does not contradict the checksum beside it (unless
\* that checksum cannot be read).
LeavesOnlyDecrypted ==
  [][\A n \in Names, v \in 1..MaxBundles :
       src["enc"][n] = v /\ src'["enc"][n] = NoFile =>
         \/ v \in {failed'[n], dead'[n]}
         \/ /\ plain'[n] = v
            /\ settings.verify /\ ~world.faults => src["sum"][n] \in {NoFile, v}]_decryptVars

\* A plaintext whose ciphertext was archived or deleted stays whole: a second
\* item for the same file, a retry or an item that a restart brings back does
\* not touch it, even when the key was left behind (names are not reused).
Gone(n) == {src["enc"][n], failed[n], dead[n]} = {NoFile}
PlaintextStays ==
  \A i \in Items : status[i] = "completed" /\ Gone(path[i]) /\ ~world.reuse =>
    plain[path[i]] = latest[path[i]]

\* Without faults, files that cannot be moved, shutdowns and wrong checksums no
\* bundle fails: neither one that is queued twice nor one whose key is late.
HealthyNeverFails ==
  ~world.faults /\ ~world.stuck /\ ~world.reuse /\ ~world.badSums /\ stops = 0 =>
    \A n \in Names : failed[n] = NoFile /\ dead[n] = NoFile

\* A bundle is decrypted or fails in the end if its key came first, or if all of
\* it was there before the directory was scanned, whatever crashes and whatever
\* fails in the processor, so far as files can be moved.  The way out is a failure
\* of the watcher's own: it could not read a file of this bundle or the directory,
\* or it ended, and then only the next start, if there is one, finds the bundle.
Timely(n) == world.keyFirst \/ watch \in {"off", "starting", "armed"}
Settled(n, v) == plain[n] = v \/ v \in {failed[n], dead[n]} \/ latest[n] # v
PassedOver(v) == v \in missed \/ watch = "ended"
BundleSettles ==
  \A n \in Names : \A v \in 1..MaxBundles :
    (Delivered(n) /\ latest[n] = v /\ Timely(n) /\ ~world.stuck) ~> (Settled(n, v) \/ PassedOver(v))
=============================================================================
