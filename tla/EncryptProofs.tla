---------------------------- MODULE EncryptProofs ----------------------------
(* Theorems about EncryptPipeline, for any names, uploads, items, restarts,   *)
(* reloads, worlds and any retry limit.                                       *)
EXTENDS EncryptPipeline, RetryQueueOrder, FiniteSetTheorems

----------------------------------------------------------------------------
(* The invariant *)

\* The item in work was created, and there is one only while the service runs.
JobBorn ==
  step # "idle" => job \in Items /\ status[job] # "unborn" /\ Running

\* A file in the source directory is the last upload of its name, and none is
\* late where names are not reused.
SourceIsLatest ==
  /\ \A n \in Names : source[n] \in {NoFile, latest[n]}
  /\ ~world.reuse => late = {}

\* An item was made from a file.
BornUploaded == \A i \in Items : status[i] # "unborn" => latest[path[i]] # NoFile

\* From the moment the processor opened a source file it stays there, the file
\* that was opened or a late one; .enc and .key files belong to it in turn.
JobSound ==
  /\ step \in {"encrypting", "key", "done"} =>
       /\ source[Name] # NoFile /\ dek # NoKey
       /\ source[Name] = opened \/ source[Name] \in late
  /\ step \in {"key", "done"} => enc[Name] = [data |-> opened, dek |-> dek]
  /\ step = "done" => key[Name] = dek

\* A file that left the source directory, and did not fail, can be decrypted.
GoneIsRecoverable ==
  ~world.reuse => \A n \in Names : latest[n] # NoFile /\ Gone(n) => Recoverable(n, latest[n])

\* Where nothing fails from outside, an attempt fails only for want of a file.
FailsForWant ==
  ~world.faults /\ ~world.reuse /\ stops = 0 =>
    /\ life \in {"down", "up"}
    /\ step \in {"failing", "toDead", "toFailed"} => source[Name] = NoFile

PipeInv ==
  /\ PipeTypeOK /\ OrderInv
  /\ JobBorn /\ SourceIsLatest /\ BornUploaded /\ JobSound
  /\ NothingLost /\ GoneIsRecoverable /\ FailsForWant /\ DuplicatesHarmless

----------------------------------------------------------------------------
(* The steps of the pipeline and the queue *)

\* To the queue, a step of the pipeline is one of its own steps or none.
LEMMA QueueStep == [PipeNext]_pipeVars => [Next]_vars
<1> SUFFICES ASSUME [PipeNext]_pipeVars PROVE [Next]_vars
  OBVIOUS
<1>1. Processor \in Workers
  BY OneProcessor
<1>2. ASSUME NEW n, Detect(n) PROVE [Next]_vars
  BY <1>2 DEF Detect, Next, queueVars
<1>3. CASE WatcherStep
  <2>1. CASE ReadDir \/ ScanDone
    BY <2>1 DEF ReadDir, ScanDone, queueVars
  <2>2. CASE FileCreated
    BY <1>2, <2>2 DEF FileCreated
  <2>3. CASE \E n \in Names : ScanFile(n)
    BY <1>2, <2>3 DEF ScanFile, queueVars
  <2> QED BY <1>3, <2>1, <2>2, <2>3 DEF WatcherStep
<1>4. CASE TakeJob
  BY <1>1, <1>4 DEF TakeJob, Next
<1>5. CASE ProcessorStep
  BY <1>1, <1>5 DEF ProcessorStep, Checksum, OpenFiles, WriteEnc, WriteKey, FinishJob, FailJob,
     MoveToDLQ, MoveToFailed, queueVars, Next
<1>6. CASE StartService \/ StopService \/ ServiceStep
  BY <1>6 DEF StartService, StopService, ServiceStep, Next
<1>7. CASE Reload \/ (\E n \in Names : Upload(n)) \/ UNCHANGED pipeVars
  BY <1>7 DEF Reload, Upload, pipeVars, queueVars
<1> QED
  BY <1>3, <1>4, <1>5, <1>6, <1>7 DEF PipeNext

LEMMA OrderKept == OrderInv /\ [PipeNext]_pipeVars => OrderInv'
BY QueueStep, NextOrder

\* An item that was created stays created, and is about the same file for ever.
LEMMA PathKept ==
  ASSUME OrderInv, path \in [Items -> Names], [PipeNext]_pipeVars,
         NEW i \in Items, status[i] # "unborn"
  PROVE  status'[i] # "unborn" /\ path'[i] = path[i]
<1>1. status'[i] # "unborn"
  BY QueueStep, BornStays
<1> SUFFICES path'[i] = path[i]
  BY <1>1
<1>2. ASSUME NEW n, Detect(n) PROVE path'[i] = path[i]
  BY <1>2 DEF Detect, Enqueue
<1>3. CASE WatcherStep
  BY <1>2, <1>3 DEF WatcherStep, ReadDir, ScanDone, FileCreated, ScanFile
<1>4. ASSUME path' = path PROVE path'[i] = path[i]
  BY <1>4
<1>5. CASE TakeJob \/ ProcessorStep
  BY <1>4, <1>5 DEF watchVars, TakeJob, ProcessorStep, Checksum, OpenFiles, WriteEnc, WriteKey,
     FinishJob, FailJob, MoveToDLQ, MoveToFailed
<1>6. CASE StartService \/ StopService \/ ServiceStep \/ Reload
  BY <1>4, <1>6 DEF watchVars, StartService, StopService, ServiceStep, Reload
<1>7. CASE UNCHANGED pipeVars \/ \E n \in Names : Upload(n)
  BY <1>4, <1>7 DEF pipeVars, watchVars, Upload
<1> QED
  BY <1>3, <1>5, <1>6, <1>7 DEF PipeNext

\* There is always a data key that no file was encrypted with.
LEMMA FreshDekExists ==
  ASSUME enc \in [Names -> Ciphertext], key \in [Names -> Deks \union {NoKey}]
  PROVE  FreshDek \in Deks /\ \A n \in Names : FreshDek # enc[n].dek /\ FreshDek # key[n]
<1> DEFINE e == [n \in Names |-> enc[n].dek]
           N == Cardinality(Names)
           E == {e[n] : n \in Names}
           K == {key[n] : n \in Names}
<1>1. IsFiniteSet(Names) /\ N \in Nat
  BY NamesAssumption, FS_CardinalityType
<1>2. IsFiniteSet(E) /\ Cardinality(E) <= N
  <2>1. e \in Surjection(Names, E)
    BY DEF Surjection
  <2> QED BY <1>1, <2>1, FS_Surjection
<1>3. IsFiniteSet(K) /\ Cardinality(K) <= N
  <2>1. key \in Surjection(Names, K)
    BY DEF Surjection
  <2> QED BY <1>1, <2>1, FS_Surjection
<1> HIDE DEF e, N, E, K
<1>4. Cardinality(E) \in Nat /\ Cardinality(K) \in Nat /\ Cardinality(E \cap K) \in Nat
  <2>1. IsFiniteSet(E \cap K)
    BY <1>2, FS_Intersection
  <2> QED BY <1>2, <1>3, <2>1, FS_CardinalityType
<1>5. IsFiniteSet(E \union K) /\ Cardinality(E \union K) <= 2 * N
  <2>1. /\ IsFiniteSet(E \union K)
        /\ Cardinality(E \union K) = Cardinality(E) + Cardinality(K) - Cardinality(E \cap K)
    BY <1>2, <1>3, FS_Union
  <2> QED BY <1>1, <1>2, <1>3, <1>4, <2>1
<1>6. Cardinality(Deks) = 2 * N + 1
  BY <1>1, FS_Interval DEF Deks, N
<1>7. ~(Deks \subseteq E \union K)
  <2>1. ASSUME Deks \subseteq E \union K PROVE FALSE
    <3>1. Cardinality(Deks) <= Cardinality(E \union K)
      BY <1>5, <2>1, FS_Subset
    <3>2. Cardinality(E \union K) \in Nat
      BY <1>5, FS_CardinalityType
    <3> QED BY <1>1, <1>5, <1>6, <3>1, <3>2
  <2> QED BY <2>1
<1>8. PICK d \in Deks : d \notin E \union K
  BY <1>7
<1>9. \A n \in Names : d # enc[n].dek /\ d # key[n]
  BY <1>8 DEF E, K, e
<1> QED
  BY <1>9 DEF FreshDek

----------------------------------------------------------------------------
(* Types *)

\* The steps that change no source directory, no .enc and no .key file.
Quiet == WatcherStep \/ TakeJob \/ FailJob \/ StartService \/ StopService \/ ServiceStep
         \/ Reload \/ UNCHANGED pipeVars

LEMMA QuietFiles == Quiet => UNCHANGED <<sourceDirs, destFiles, userVars>>
BY SMTT(30) DEF Quiet, pipeVars, sourceDirs, destFiles, userVars, WatcherStep, ReadDir, ScanDone,
   FileCreated, ScanFile, TakeJob, FailJob, StartService, StopService, ServiceStep, Reload

LEMMA StepCases ==
  ASSUME [PipeNext]_pipeVars
  PROVE  \/ Quiet
         \/ \E n \in Names : Upload(n)
         \/ Checksum \/ OpenFiles \/ WriteEnc \/ WriteKey \/ FinishJob \/ MoveToDLQ \/ MoveToFailed
BY DEF PipeNext, ProcessorStep, Quiet

LEMMA ConstantFacts ==
  /\ MaxUploads \in Nat /\ MaxReloads \in Nat
  /\ NoFile \in Contents /\ NoCiphertext \in Ciphertext /\ NoKey \notin Deks
  /\ \A v \in Contents, d \in Deks \union {NoKey} : [data |-> v, dek |-> d] \in Ciphertext
  /\ [data |-> Torn, dek |-> NoKey] \in Ciphertext
<1>1. MaxUploads \in Nat /\ MaxReloads \in Nat
  BY WorldAssumption
<1>2. NoKey \notin Deks
  BY DEF NoKey, Deks
<1> QED
  BY <1>1, <1>2 DEF NoFile, Contents, NoCiphertext, Ciphertext, Torn

\* The name of the item in work.
LEMMA NameType ==
  ASSUME PipeTypeOK, JobBorn, step # "idle"
  PROVE  Name \in Names /\ job \in Items
BY DEF PipeTypeOK, JobBorn, Name

LEMMA WatcherTypes ==
  ASSUME PipeTypeOK, WatcherStep
  PROVE  /\ path' \in [Items -> Names] /\ events' \in Seq(Names) /\ scan' \subseteq Names
         /\ watch' \in {"off", "armed", "scanning", "events", "ended"}
         /\ missed' \subseteq Contents
         /\ UNCHANGED <<jobVars, configVars>>
<1> USE DEF PipeTypeOK
<1>a. ASSUME NEW S \in SUBSET Names, Miss(S) PROVE missed' \subseteq Contents
  BY <1>a DEF Miss
<1>1. CASE ReadDir
  BY <1>1, <1>a DEF ReadDir, Onward
<1>2. CASE ScanDone
  BY <1>2 DEF ScanDone, Onward
<1>3. ASSUME NEW n \in Names, Detect(n)
      PROVE  path' \in [Items -> Names] /\ missed' \subseteq Contents
  <2>1. {n} \in SUBSET Names
    OBVIOUS
  <2> QED BY <1>3, <1>a, <2>1 DEF Detect
<1>4. CASE FileCreated
  <2>1. Head(events) \in Names /\ Tail(events) \in Seq(Names)
    BY <1>4 DEF FileCreated
  <2> QED BY <1>3, <1>4, <2>1 DEF FileCreated
<1>5. ASSUME NEW n \in Names, ScanFile(n)
      PROVE  /\ path' \in [Items -> Names] /\ events' \in Seq(Names) /\ scan' \subseteq Names
             /\ watch' \in {"off", "armed", "scanning", "events", "ended"}
             /\ missed' \subseteq Contents
             /\ UNCHANGED <<jobVars, configVars>>
  BY <1>3, <1>5 DEF ScanFile
<1> QED
  BY <1>1, <1>2, <1>4, <1>5 DEF WatcherStep

\* A job that ends, or is moved on.
LEMMA JobTypes ==
  ASSUME PipeTypeOK, Idle \/ UNCHANGED <<job, opened, dek>>
  PROVE  /\ job' \in Items \union {NoItem} /\ opened' \in Contents
         /\ dek' \in Deks \union {NoKey}
BY ConstantFacts DEF PipeTypeOK, Idle

LEMMA MovedType ==
  ASSUME PipeTypeOK, NEW n \in Names, NEW dir \in [Names -> Contents]
  PROVE  MovedTo(dir, n) \in [Names -> Contents] /\ Without(n) \in [Names -> Contents]
BY ConstantFacts DEF PipeTypeOK, MovedTo, Without

LEMMA SourceTypes ==
  ASSUME PipeTypeOK, JobBorn, FinishJob \/ MoveToDLQ \/ MoveToFailed
  PROVE  {source', archive', failed', dead'} \subseteq [Names -> Contents]
<1>1. Name \in Names
  BY NameType DEF FinishJob, MoveToDLQ, MoveToFailed
<1>2. {source, archive, failed, dead} \subseteq [Names -> Contents]
  BY DEF PipeTypeOK
<1>3. /\ Without(Name) \in [Names -> Contents]
      /\ \A dir \in {archive, failed, dead} : MovedTo(dir, Name) \in [Names -> Contents]
  BY <1>1, <1>2, MovedType
<1>4. CASE FinishJob
  BY <1>2, <1>3, <1>4 DEF FinishJob, HandleSourceFile, Stuck, sourceDirs
<1>5. CASE MoveToDLQ
  BY <1>2, <1>3, <1>5 DEF MoveToDLQ, Stuck, sourceDirs
<1>6. CASE MoveToFailed
  BY <1>2, <1>3, <1>6 DEF MoveToFailed, Stuck, sourceDirs
<1> QED
  BY <1>4, <1>5, <1>6

LEMMA DestTypes ==
  ASSUME PipeTypeOK, JobBorn, Checksum \/ OpenFiles \/ WriteEnc \/ WriteKey
  PROVE  /\ sums' \in [Names -> Contents] /\ enc' \in [Names -> Ciphertext]
         /\ key' \in [Names -> Deks \union {NoKey}]
         /\ opened' \in Contents /\ dek' \in Deks \union {NoKey}
<1>1. Name \in Names
  BY NameType DEF Checksum, OpenFiles, WriteEnc, WriteKey
<1> USE DEF PipeTypeOK
<1>2. CASE Checksum
  BY <1>1, <1>2 DEF Checksum
<1>3. CASE OpenFiles
  BY <1>1, <1>3, ConstantFacts, FreshDekExists DEF OpenFiles
<1>4. CASE WriteEnc
  BY <1>1, <1>4, ConstantFacts DEF WriteEnc
<1>5. CASE WriteKey
  BY <1>1, <1>5, ConstantFacts DEF WriteKey
<1> QED
  BY <1>2, <1>3, <1>4, <1>5

LEMMA UploadCount ==
  ASSUME PipeTypeOK, NEW n \in Names, Upload(n)
  PROVE  uploads' \in 1..MaxUploads /\ uploads' \in Contents
<1>1. uploads \in 0..MaxUploads
  BY DEF PipeTypeOK
<1>2. uploads < MaxUploads /\ uploads' = uploads + 1
  BY DEF Upload
<1>3. MaxUploads \in Nat
  BY ConstantFacts
<1> QED BY <1>1, <1>2, <1>3 DEF Contents

LEMMA TypeKept ==
  ASSUME PipeTypeOK, JobBorn, [PipeNext]_pipeVars
  PROVE  PipeTypeOK'
<1>1. TypeOK'
  BY QueueStep, NextType DEF PipeTypeOK
<1> USE DEF PipeTypeOK
<1>2. ASSUME UNCHANGED <<sourceDirs, destFiles, userVars>>
      PROVE  /\ {source', archive', failed', dead', sums', latest'} \subseteq [Names -> Contents]
             /\ enc' \in [Names -> Ciphertext] /\ key' \in [Names -> Deks \union {NoKey}]
             /\ world' \in World /\ late' \subseteq 1..MaxUploads /\ uploads' \in 0..MaxUploads
  BY <1>2 DEF sourceDirs, destFiles, userVars
<1>3. CASE WatcherStep
  BY <1>1, <1>2, <1>3, QuietFiles, WatcherTypes DEF Quiet, jobVars, configVars, userVars
<1>4. CASE TakeJob
  <2>1. held'[Processor] \in Items \union {NoItem}
    BY <1>1, OneProcessor DEF TypeOK
  <2> QED
    BY <1>1, <1>2, <1>4, <2>1, QuietFiles DEF Quiet, TakeJob, watchVars, configVars, userVars
<1>5. CASE FailJob \/ ServiceStep \/ StartService
  BY <1>1, <1>2, <1>5, QuietFiles
     DEF Quiet, FailJob, ServiceStep, StartService, watchVars, jobVars, configVars, userVars
<1>6. CASE StopService
  BY <1>1, <1>2, <1>6, QuietFiles, JobTypes DEF Quiet, StopService, Idle, configVars, userVars
<1>7. CASE Reload
  <2>1. reloads' \in 0..MaxReloads
    BY <1>7, ConstantFacts DEF Reload
  <2> QED
    BY <1>1, <1>2, <1>7, <2>1, QuietFiles DEF Quiet, Reload, watchVars, jobVars, userVars
<1>8. CASE UNCHANGED pipeVars
  BY <1>1, <1>8 DEF pipeVars, sourceDirs, destFiles, watchVars, jobVars, configVars, userVars
<1>9. ASSUME NEW n \in Names, Upload(n) PROVE PipeTypeOK'
  <2>1. uploads' \in 1..MaxUploads /\ uploads' \in Contents
    BY <1>9, UploadCount
  <2>2. source' \in [Names -> Contents] /\ latest' \in [Names -> Contents]
        /\ events' \in Seq(Names) /\ late' \subseteq 1..MaxUploads
    BY <1>9, <2>1 DEF Upload
  <2> QED
    BY <1>1, <1>9, <2>1, <2>2 DEF Upload, destFiles, jobVars, configVars
<1>10. CASE Checksum \/ OpenFiles \/ WriteEnc \/ WriteKey
  <2>1. CASE Checksum
    BY <1>1, <2>1, DestTypes DEF Checksum, sourceDirs, watchVars, configVars, userVars
  <2>2. CASE OpenFiles
    BY <1>1, <2>2, DestTypes DEF OpenFiles, sourceDirs, watchVars, configVars, userVars
  <2>3. CASE WriteEnc
    BY <1>1, <2>3, DestTypes DEF WriteEnc, sourceDirs, watchVars, configVars, userVars
  <2>4. CASE WriteKey
    BY <1>1, <2>4, DestTypes DEF WriteKey, sourceDirs, watchVars, configVars, userVars
  <2> QED BY <1>10, <2>1, <2>2, <2>3, <2>4
<1>11. CASE FinishJob \/ MoveToDLQ \/ MoveToFailed
  BY <1>1, <1>11, SourceTypes, JobTypes DEF FinishJob, MoveToDLQ, MoveToFailed, Idle, destFiles,
     watchVars, configVars, userVars
<1> QED
  BY <1>3, <1>4, <1>5, <1>6, <1>7, <1>8, <1>9, <1>10, <1>11 DEF PipeNext, ProcessorStep

----------------------------------------------------------------------------
(* The parts of the invariant *)

LEMMA JobBornKept ==
  ASSUME PipeTypeOK, OrderInv, JobBorn, [PipeNext]_pipeVars
  PROVE  JobBorn'
<1> SUFFICES ASSUME step' # "idle"
             PROVE  job' \in Items /\ status'[job'] # "unborn" /\ Running'
  BY DEF JobBorn
<1>1. CASE TakeJob
  <2>1. PICK k \in DOMAIN items :
          /\ MarkProcessing(items[k]) /\ held' = [held EXCEPT ![Processor] = items[k]]
    BY <1>1 DEF TakeJob, Dequeue
  <2>2. items[k] \in Items /\ held \in [Workers -> Items \union {NoItem}] /\ Processor \in Workers
        /\ status \in [Items -> Statuses]
    BY OneProcessor DEF PipeTypeOK, TypeOK
  <2>3. job' = items[k] /\ status'[items[k]] = "processing"
    BY <1>1, <2>1, <2>2 DEF TakeJob, MarkProcessing
  <2>4. Running'
    BY <1>1 DEF TakeJob, Dequeue, Writable, Running
  <2> QED BY <2>2, <2>3, <2>4
<1>2. ASSUME step # "idle", job' = job, life' # "down"
      PROVE  job' \in Items /\ status'[job'] # "unborn" /\ Running'
  BY <1>2, PathKept DEF JobBorn, PipeTypeOK, Running
<1>3. ASSUME step' = step PROVE step # "idle" /\ life # "down"
  BY <1>3 DEF JobBorn, Running
<1>4. CASE WatcherStep
  <2>1. ASSUME NEW n, Detect(n) PROVE life' = life
    BY <2>1 DEF Detect, Enqueue, queueVars, vars
  <2>2. life' = life /\ UNCHANGED jobVars
    BY <1>4, <2>1 DEF WatcherStep, ReadDir, ScanDone, FileCreated, ScanFile, queueVars, vars, jobVars
  <2> QED BY <1>2, <1>3, <2>2 DEF jobVars
<1>5. CASE Checksum \/ OpenFiles \/ WriteEnc \/ WriteKey \/ MoveToDLQ
  <2>1. step # "idle" /\ job' = job /\ life' = life
    <3> USE DEF queueVars, vars
    <3>1. CASE Checksum \/ OpenFiles
      BY <3>1 DEF Checksum, OpenFiles
    <3>2. CASE WriteEnc \/ WriteKey \/ MoveToDLQ
      BY <3>2 DEF WriteEnc, WriteKey, MoveToDLQ
    <3> QED BY <1>5, <3>1, <3>2
  <2> QED BY <1>2, <2>1 DEF JobBorn, Running
<1>6. CASE FailJob
  BY <1>2, <1>6 DEF FailJob, Requeue, JobBorn, Running
<1>7. CASE FinishJob \/ MoveToFailed \/ StopService
  BY <1>7 DEF FinishJob, MoveToFailed, StopService, Idle
<1>8. CASE ServiceStep \/ StartService
  <2>1. UNCHANGED jobVars
    BY <1>8 DEF ServiceStep, StartService
  <2>2. life' = life \/ life' # "down"
    BY <1>8 DEF ServiceStep, StartService, Start, BeginShutdown, BeginSave, EndSave, Tick
  <2> QED BY <1>2, <1>3, <2>1, <2>2 DEF jobVars
<1>9. CASE Reload \/ UNCHANGED pipeVars \/ \E n \in Names : Upload(n)
  <2>1. UNCHANGED jobVars /\ life' = life
    BY <1>9 DEF Reload, pipeVars, Upload, queueVars, vars, jobVars
  <2> QED BY <1>2, <1>3, <2>1 DEF jobVars
<1> QED
  BY <1>1, <1>4, <1>5, <1>6, <1>7, <1>8, <1>9 DEF PipeNext, ProcessorStep

\* Only an upload puts a file into the source directory.
LEMMA SourceEffect ==
  ASSUME PipeTypeOK, JobBorn, [PipeNext]_pipeVars, ~\E n \in Names : Upload(n)
  PROVE  /\ UNCHANGED userVars
         /\ \A n \in Names : source'[n] \in {NoFile, source[n]}
<1>1. \A m : Without(m) = [source EXCEPT ![m] = NoFile]
  BY DEF Without
<1>2. source \in [Names -> Contents]
  BY DEF PipeTypeOK
<1>3. ASSUME source' = source \/ \E m \in Names : source' = Without(m)
      PROVE  \A n \in Names : source'[n] \in {NoFile, source[n]}
  BY <1>1, <1>2, <1>3
<1>4. CASE Quiet
  BY <1>4, QuietFiles DEF sourceDirs
<1>5. CASE Checksum \/ OpenFiles \/ WriteEnc \/ WriteKey
  BY <1>5 DEF Checksum, OpenFiles, WriteEnc, WriteKey, sourceDirs
<1>6. CASE FinishJob \/ MoveToDLQ \/ MoveToFailed
  <2>1. Name \in Names
    BY <1>6, NameType DEF FinishJob, MoveToDLQ, MoveToFailed
  <2> QED
    BY <1>3, <1>6, <2>1 DEF FinishJob, HandleSourceFile, MoveToDLQ, MoveToFailed, Stuck, sourceDirs
<1> QED
  BY <1>4, <1>5, <1>6, StepCases

LEMMA UploadEffect ==
  ASSUME PipeTypeOK, NEW n \in Names, Upload(n)
  PROVE  /\ uploads' \in 1..MaxUploads /\ uploads' # NoFile
         /\ source' = [source EXCEPT ![n] = uploads'] /\ latest' = [latest EXCEPT ![n] = uploads']
         /\ {source, latest} \subseteq [Names -> Contents] /\ late \subseteq late'
         /\ UNCHANGED <<queueVars, archive, failed, dead, destFiles, path, jobVars, world>>
BY ConstantFacts DEF PipeTypeOK, Upload, NoFile

LEMMA SourceIsLatestKept ==
  ASSUME PipeTypeOK, JobBorn, SourceIsLatest, [PipeNext]_pipeVars
  PROVE  SourceIsLatest'
<1>1. ASSUME NEW n \in Names, Upload(n) PROVE SourceIsLatest'
  <2>1. \A m \in Names : source'[m] \in {NoFile, latest'[m]}
    BY <1>1, UploadEffect DEF SourceIsLatest
  <2>2. ASSUME ~world'.reuse PROVE late' = {}
    BY <1>1, <2>2 DEF Upload, MayUpload, SourceIsLatest
  <2> QED BY <2>1, <2>2 DEF SourceIsLatest
<1>2. CASE ~\E n \in Names : Upload(n)
  BY <1>2, SourceEffect DEF SourceIsLatest, userVars
<1> QED BY <1>1, <1>2

LEMMA BornUploadedKept ==
  ASSUME PipeTypeOK, OrderInv, JobBorn, SourceIsLatest, BornUploaded, [PipeNext]_pipeVars
  PROVE  BornUploaded'
<1>1. \A n \in Names : latest[n] # NoFile => latest'[n] # NoFile
  <2>1. ASSUME NEW m \in Names, Upload(m)
        PROVE  \A n \in Names : latest[n] # NoFile => latest'[n] # NoFile
    BY <2>1, UploadEffect
  <2> QED BY <2>1, SourceEffect DEF userVars
<1> SUFFICES ASSUME NEW i \in Items, status'[i] # "unborn" PROVE latest'[path'[i]] # NoFile
  BY DEF BornUploaded
<1>2. CASE status[i] # "unborn"
  BY <1>1, <1>2, PathKept DEF BornUploaded, PipeTypeOK
<1>3. CASE status[i] = "unborn"
  <2>1. ASSUME NEW n \in Names, Detect(n), UNCHANGED <<sourceDirs, latest>>
        PROVE  latest'[path'[i]] # NoFile
    <3>1. PICK j \in Items : Enqueue(j) /\ path' = [path EXCEPT ![j] = n] /\ source[n] # NoFile
      BY <1>3, <2>1 DEF Detect, queueVars, vars
    <3>2. i = j
      BY <1>3, <3>1 DEF Enqueue
    <3> QED BY <2>1, <3>1, <3>2 DEF SourceIsLatest, PipeTypeOK
  <2>2. CASE WatcherStep
    <3>1. UNCHANGED <<sourceDirs, latest>>
      BY <2>2, QuietFiles DEF Quiet, userVars
    <3>2. CASE FileCreated
      <4>1. Head(events) \in Names
        BY <3>2 DEF FileCreated, PipeTypeOK
      <4> QED BY <2>1, <3>1, <3>2, <4>1 DEF FileCreated
    <3>3. CASE ReadDir \/ ScanDone
      BY <1>3, <3>3 DEF ReadDir, ScanDone, queueVars, vars
    <3>4. CASE \E n \in Names : ScanFile(n)
      BY <1>3, <2>1, <3>1, <3>4 DEF ScanFile, queueVars, vars
    <3> QED BY <2>2, <3>2, <3>3, <3>4 DEF WatcherStep
  <2>3. CASE ~WatcherStep
    <3>1. /\ held' = held /\ life' = life /\ status' # status
          /\ held \in [Workers -> Items \union {NoItem}]
      BY <1>3, QueueStep, OnlyEnqueueCreates DEF Enqueue, PipeTypeOK, TypeOK
    <3>2. ~TakeJob
      BY <3>1, OneProcessor, NoItemAssumption DEF TakeJob, Dequeue, PipeTypeOK, TypeOK
    <3>3. ~FinishJob /\ ~FailJob
      BY <3>1, OneProcessor DEF FinishJob, Complete, FailJob, Requeue
    <3>4. ~StartService /\ ~StopService /\ ~ServiceStep
      BY <3>1 DEF StartService, Start, StopService, Exit, Crash, Forget, Running, ServiceStep,
         BeginShutdown, BeginSave, EndSave, Tick, itemVars
    <3>5. UNCHANGED queueVars
      BY <2>3, <3>2, <3>3, <3>4 DEF PipeNext, ProcessorStep, Checksum, OpenFiles, WriteEnc, WriteKey,
         MoveToDLQ, MoveToFailed, Reload, Upload, pipeVars
    <3> QED BY <3>1, <3>5 DEF queueVars, vars
  <2> QED BY <2>2, <2>3
<1> QED BY <1>2, <1>3

\* The item in work is about the same file until the work ends.
LEMMA NameKept ==
  ASSUME PipeTypeOK, OrderInv, JobBorn, [PipeNext]_pipeVars, step # "idle", job' = job
  PROVE  Name' = Name /\ Name \in Names
BY PathKept, NameType DEF Name, JobBorn, PipeTypeOK

\* The quiet steps leave the work alone, take an item up or end the attempt.
LEMMA QuietWork ==
  ASSUME Quiet
  PROVE  \/ UNCHANGED jobVars
         \/ step' \in {"idle", "checksum", "encrypt"}
         \/ FailJob /\ step = "failing" /\ step' \in {"toFailed", "toDead"} /\ job' = job
<1>1. CASE WatcherStep
  BY <1>1 DEF WatcherStep, ReadDir, ScanDone, FileCreated, ScanFile
<1>2. CASE TakeJob \/ FailJob
  BY <1>2 DEF TakeJob, FailJob
<1>3. CASE StartService \/ StopService \/ ServiceStep \/ Reload
  BY <1>3 DEF StartService, StopService, ServiceStep, Reload, Idle
<1>4. CASE UNCHANGED pipeVars
  BY <1>4 DEF pipeVars
<1> QED BY <1>1, <1>2, <1>3, <1>4 DEF Quiet

LEMMA JobSoundKept ==
  ASSUME PipeTypeOK, OrderInv, JobBorn, JobSound, [PipeNext]_pipeVars
  PROVE  JobSound'
<1> SUFFICES ASSUME step' \in {"encrypting", "key", "done"} PROVE JobSound'
  BY DEF JobSound
<1>1. ASSUME Quiet PROVE JobSound'
  <2>1. UNCHANGED <<step, job, opened, dek>>
    BY <1>1, QuietWork DEF jobVars
  <2>2. Name' = Name
    BY <2>1, NameKept
  <2>3. source' = source /\ enc' = enc /\ key' = key /\ late' = late
    BY <1>1, QuietFiles DEF sourceDirs, destFiles, userVars
  <2> QED BY <2>1, <2>2, <2>3 DEF JobSound
<1>2. ASSUME NEW n \in Names, Upload(n) PROVE JobSound'
  <2>1. UNCHANGED <<step, job, opened, dek, enc, key>>
    BY <1>2, UploadEffect DEF jobVars, destFiles
  <2>2. Name' = Name /\ Name \in Names
    BY <2>1, NameKept
  <2>3. CASE n = Name
    <3>1. source[Name] # NoFile
      BY <2>1 DEF JobSound
    <3>2. source'[Name] \in late' /\ source'[Name] # NoFile
      BY <1>2, <2>1, <2>2, <2>3, <3>1, UploadEffect DEF Upload, Name
    <3> QED BY <2>1, <2>2, <3>2 DEF JobSound
  <2>4. CASE n # Name
    <3>1. source'[Name] = source[Name] /\ late \subseteq late'
      BY <1>2, <2>2, <2>4, UploadEffect
    <3> QED BY <2>1, <2>2, <3>1 DEF JobSound
  <2> QED BY <2>3, <2>4
<1>3. ASSUME OpenFiles PROVE JobSound'
  <2>1. step # "idle" /\ step' = "encrypting" /\ job' = job /\ UNCHANGED <<source, late>>
        /\ source[Name] # NoFile /\ opened' = source[Name] /\ dek' = FreshDek
    BY <1>3 DEF OpenFiles, sourceDirs, userVars
  <2>2. Name' = Name
    BY <2>1, NameKept
  <2>3. dek' # NoKey
    BY <2>1, FreshDekExists, ConstantFacts DEF PipeTypeOK
  <2> QED BY <2>1, <2>2, <2>3 DEF JobSound
<1>4. ASSUME WriteEnc PROVE JobSound'
  <2>1. step = "encrypting" /\ step' = "key" /\ UNCHANGED <<job, opened, dek, source, late>>
        /\ enc' = [enc EXCEPT ![Name] = [data |-> opened, dek |-> dek]]
    BY <1>4 DEF WriteEnc, sourceDirs, userVars
  <2>2. Name' = Name /\ Name \in Names
    BY <2>1, NameKept
  <2>3. enc'[Name] = [data |-> opened, dek |-> dek]
    BY <2>1, <2>2 DEF PipeTypeOK
  <2> QED BY <2>1, <2>2, <2>3 DEF JobSound
<1>5. ASSUME WriteKey PROVE JobSound'
  <2>1. step = "key" /\ step' = "done" /\ UNCHANGED <<job, opened, dek, source, late, enc>>
        /\ key' = [key EXCEPT ![Name] = dek]
    BY <1>5 DEF WriteKey, sourceDirs, userVars
  <2>2. Name' = Name /\ Name \in Names
    BY <2>1, NameKept
  <2>3. key'[Name] = dek
    BY <2>1, <2>2 DEF PipeTypeOK
  <2> QED BY <2>1, <2>2, <2>3 DEF JobSound
<1>6. ~(Checksum \/ FinishJob \/ MoveToDLQ \/ MoveToFailed)
  BY DEF Checksum, FinishJob, MoveToDLQ, MoveToFailed, Idle
<1> QED BY <1>1, <1>2, <1>3, <1>4, <1>5, <1>6, StepCases

----------------------------------------------------------------------------
(* Where the files go *)

\* A file that was encrypted and published is the one that is taken away,
\* unless a late one took its place.
LEMMA DoneIsRecoverable ==
  ASSUME PipeTypeOK, JobBorn, SourceIsLatest, JobSound, step = "done"
  PROVE  latest[Name] \in late \/ Recoverable(Name, latest[Name])
<1>1. Name \in Names /\ source[Name] # NoFile /\ source[Name] = latest[Name]
  BY NameType DEF JobSound, SourceIsLatest
<1> QED
  BY <1>1 DEF JobSound, Recoverable

\* What a step does to the files of one name: nothing, a new upload, the output
\* of an encryption is written, the source file is archived, deleted or left as
\* the encryption is complete, or it goes to failed/ or dlq/.
Same(n) == UNCHANGED <<source[n], archive[n], failed[n], dead[n], latest[n]>>
Present(n) == n \in Names /\ source[n] # NoFile /\ source[n] = latest[n] /\ latest'[n] = latest[n]
Pair(n) == UNCHANGED <<enc[n], key[n]>>

Untouched(n) == Same(n) /\ Pair(n)
Replaced(n) == /\ source'[n] = latest'[n] /\ latest'[n] # NoFile /\ Pair(n)
               /\ UNCHANGED <<archive[n], failed[n], dead[n]>>
Written(n) == Same(n) /\ Present(n)
Published(n) == /\ Present(n) /\ Pair(n) /\ UNCHANGED <<failed[n], dead[n]>>
                /\ latest[n] \in late \/ Recoverable(n, latest[n])
SetAside(n) == /\ Present(n) /\ Pair(n) /\ archive'[n] = archive[n]
               /\ latest[n] \in {failed'[n], dead'[n]}
               /\ step \in {"toDead", "toFailed"} /\ n = Name

LEMMA MoveEffect ==
  ASSUME PipeTypeOK, JobBorn, SourceIsLatest, MoveToDLQ \/ MoveToFailed, NEW n \in Names
  PROVE  Untouched(n) \/ SetAside(n)
<1>1. Name \in Names /\ step \in {"toDead", "toFailed"}
      /\ UNCHANGED <<archive, enc, key, latest>>
  BY NameType DEF MoveToDLQ, MoveToFailed, destFiles, userVars, Stuck, sourceDirs
<1>2. {source, failed, dead} \subseteq [Names -> Contents]
  BY DEF PipeTypeOK
<1>3. CASE UNCHANGED <<source, failed, dead>>
  BY <1>1, <1>3 DEF Untouched, Same, Pair
<1>4. ASSUME source' = Without(Name),
             \/ failed' = MovedTo(failed, Name) /\ dead' = dead
             \/ dead' = MovedTo(dead, Name) /\ failed' = failed
      PROVE  Untouched(n) \/ SetAside(n)
  <2>1. /\ source' = [source EXCEPT ![Name] = NoFile]
        /\ source[Name] = NoFile => UNCHANGED <<failed, dead>>
        /\ source[Name] # NoFile => \/ failed' = [failed EXCEPT ![Name] = source[Name]] /\ dead' = dead
                                    \/ dead' = [dead EXCEPT ![Name] = source[Name]] /\ failed' = failed
    BY <1>4 DEF Without, MovedTo
  <2>2. CASE n # Name \/ source[Name] = NoFile
    BY <1>1, <1>2, <2>1, <2>2 DEF Untouched, Same, Pair
  <2>3. CASE n = Name /\ source[Name] # NoFile
    BY <1>1, <1>2, <2>1, <2>3 DEF SetAside, Present, Pair, SourceIsLatest
  <2> QED BY <2>2, <2>3
<1> QED
  BY <1>3, <1>4 DEF MoveToDLQ, MoveToFailed, Stuck, sourceDirs

LEMMA FinishEffect ==
  ASSUME PipeTypeOK, JobBorn, SourceIsLatest, JobSound, FinishJob, NEW n \in Names
  PROVE  Untouched(n) \/ Published(n)
<1>1. /\ Name \in Names /\ step = "done"
      /\ UNCHANGED <<failed, dead, enc, key, latest, late>>
      /\ archive' \in {archive, MovedTo(archive, Name)} /\ source' \in {source, Without(Name)}
  BY NameType DEF FinishJob, HandleSourceFile, destFiles, userVars, Stuck, sourceDirs
<1>2. {source, archive} \subseteq [Names -> Contents]
  BY DEF PipeTypeOK
<1>3. CASE n # Name
  BY <1>1, <1>2, <1>3 DEF Untouched, Same, Pair, Without, MovedTo
<1>4. CASE n = Name
  <2>1. source[Name] # NoFile /\ source[Name] = latest[Name]
    BY <1>1 DEF JobSound, SourceIsLatest
  <2> QED BY <1>1, <1>4, <2>1, DoneIsRecoverable DEF Published, Present, Pair
<1> QED BY <1>3, <1>4

LEMMA DestEffect ==
  ASSUME PipeTypeOK, JobBorn, SourceIsLatest, JobSound,
         Checksum \/ OpenFiles \/ WriteEnc \/ WriteKey, NEW n \in Names
  PROVE  Untouched(n) \/ Written(n)
<1>1. Name \in Names /\ UNCHANGED <<source, archive, failed, dead, latest>>
  <2>1. Name \in Names
    BY NameType DEF Checksum, OpenFiles, WriteEnc, WriteKey
  <2> QED BY <2>1 DEF Checksum, OpenFiles, WriteEnc, WriteKey, sourceDirs, userVars
<1>2. UNCHANGED <<enc, key>> \/ source[Name] # NoFile
  BY DEF Checksum, OpenFiles, WriteEnc, WriteKey, JobSound
<1>3. n = Name \/ UNCHANGED <<enc[n], key[n]>>
  BY <1>1 DEF Checksum, OpenFiles, WriteEnc, WriteKey, PipeTypeOK
<1>4. CASE UNCHANGED <<enc[n], key[n]>>
  BY <1>1, <1>4 DEF Untouched, Same, Pair
<1>5. CASE n = Name /\ source[Name] # NoFile
  BY <1>1, <1>5 DEF Written, Same, Present, SourceIsLatest
<1> QED BY <1>2, <1>3, <1>4, <1>5

LEMMA FileEffect ==
  ASSUME PipeTypeOK, JobBorn, SourceIsLatest, JobSound, [PipeNext]_pipeVars, NEW n \in Names
  PROVE  /\ Untouched(n) \/ Replaced(n) \/ Written(n) \/ Published(n) \/ SetAside(n)
         /\ world' = world /\ late \subseteq late'
<1>1. ASSUME NEW m \in Names, Upload(m)
      PROVE  (Untouched(n) \/ Replaced(n)) /\ world' = world /\ late \subseteq late'
  BY <1>1, UploadEffect DEF Untouched, Same, Pair, Replaced, destFiles
<1>2. CASE Quiet
  BY <1>2, QuietFiles DEF Untouched, Same, Pair, sourceDirs, destFiles, userVars
<1>3. CASE ~\E m \in Names : Upload(m)
  BY <1>2, <1>3, SourceEffect, StepCases, MoveEffect, FinishEffect, DestEffect DEF userVars
<1> QED BY <1>1, <1>3

----------------------------------------------------------------------------
(* The properties *)

LEMMA NothingLostKept ==
  ASSUME PipeTypeOK, JobBorn, SourceIsLatest, JobSound, NothingLost, [PipeNext]_pipeVars
  PROVE  NothingLost'
<1> SUFFICES ASSUME NEW n \in Names, latest'[n] \notin late' \union {NoFile}
             PROVE  Kept(n, latest[n])'
  BY DEF NothingLost
<1>1. late \subseteq late'
  BY FileEffect
<1>2. CASE Untouched(n)
  BY <1>1, <1>2 DEF Untouched, Same, Pair, NothingLost, Kept, Recoverable
<1>3. CASE Replaced(n)
  BY <1>3 DEF Replaced, Kept
<1>4. CASE Written(n)
  BY <1>4 DEF Written, Same, Present, Kept
<1>5. CASE Published(n)
  BY <1>1, <1>5 DEF Published, Present, Pair, Kept, Recoverable
<1>6. CASE SetAside(n)
  BY <1>6 DEF SetAside, Present, Kept
<1> QED BY <1>2, <1>3, <1>4, <1>5, <1>6, FileEffect

LEMMA GoneKept ==
  ASSUME PipeTypeOK, JobBorn, SourceIsLatest, JobSound, GoneIsRecoverable, [PipeNext]_pipeVars
  PROVE  GoneIsRecoverable'
<1> SUFFICES ASSUME ~world'.reuse, NEW n \in Names, latest'[n] # NoFile, Gone(n)'
             PROVE  Recoverable(n, latest[n])'
  BY DEF GoneIsRecoverable
<1>1. world' = world /\ late = {}
  BY FileEffect DEF SourceIsLatest
<1>2. CASE Untouched(n)
  BY <1>1, <1>2 DEF Untouched, Same, Pair, GoneIsRecoverable, Gone, Recoverable
<1>3. CASE Replaced(n) \/ Written(n)
  BY <1>3 DEF Replaced, Written, Same, Present, Gone
<1>4. CASE Published(n)
  BY <1>1, <1>4 DEF Published, Present, Pair, Recoverable
<1>5. CASE SetAside(n)
  BY <1>5 DEF SetAside, Present, Gone
<1> QED BY <1>2, <1>3, <1>4, <1>5, FileEffect

LEMMA FailsForWantKept ==
  ASSUME PipeTypeOK, OrderInv, JobBorn, SourceIsLatest, BornUploaded, FailsForWant,
         [PipeNext]_pipeVars
  PROVE  FailsForWant'
<1> DEFINE Failing == step \in {"failing", "toDead", "toFailed"}
<1> SUFFICES ASSUME ~world'.faults, ~world'.reuse, stops' = 0
             PROVE  life' \in {"down", "up"} /\ (Failing' => source'[Name'] = NoFile)
  BY DEF FailsForWant
<1>1. world' = world
  <2>1. ASSUME NEW n \in Names, Upload(n) PROVE world' = world
    BY <2>1, UploadEffect
  <2> QED BY <2>1, SourceEffect DEF userVars
<1>2. ~world.faults /\ ~world.reuse /\ stops = 0 /\ life \in {"down", "up"}
      /\ life' \in {"down", "up"}
  BY <1>1, QueueStep, NoStopYet DEF FailsForWant, PipeTypeOK
<1>3. step # "idle" => ~Cancelled
  BY <1>2 DEF JobBorn, Running, Cancelled
<1>4. Failing => source[Name] = NoFile
  BY <1>2 DEF FailsForWant
<1> SUFFICES ASSUME Failing' PROVE source'[Name'] = NoFile
  BY <1>2
<1>5. CASE Quiet
  <2>1. Failing /\ job' = job
    BY <1>5, QuietWork DEF jobVars
  <2>2. Name' = Name
    BY <2>1, NameKept
  <2> QED BY <1>4, <1>5, <2>1, <2>2, QuietFiles DEF sourceDirs
<1>6. ASSUME NEW n \in Names, Upload(n) PROVE source'[Name'] = NoFile
  <2>1. Failing /\ job' = job
    BY <1>6, UploadEffect DEF jobVars
  <2>2. Name' = Name /\ Name \in Names
    BY <2>1, NameKept
  <2>3. latest[Name] # NoFile
    BY <2>1 DEF JobBorn, BornUploaded, Name
  <2>4. n # Name
    BY <1>2, <1>6, <2>3 DEF Upload, MayUpload
  <2> QED BY <1>4, <1>6, <2>1, <2>2, <2>4, UploadEffect
<1>7. CASE Checksum \/ OpenFiles
  <2>1. step # "idle" /\ job' = job /\ source' = source /\ source[Name] = NoFile
    BY <1>2, <1>3, <1>7 DEF Checksum, OpenFiles, sourceDirs
  <2> QED BY <2>1, NameKept
<1>8. CASE WriteEnc \/ WriteKey
  BY <1>2, <1>3, <1>8 DEF WriteEnc, WriteKey
<1>9. CASE FinishJob \/ MoveToFailed
  BY <1>9 DEF FinishJob, MoveToFailed, Idle
<1>10. CASE MoveToDLQ
  <2>1. Failing /\ job' = job
    BY <1>10 DEF MoveToDLQ
  <2>2. Name' = Name /\ Name \in Names
    BY <2>1, NameKept
  <2>3. source'[Name] \in {NoFile, source[Name]}
    BY <1>10, <2>2 DEF MoveToDLQ, Without, Stuck, sourceDirs, PipeTypeOK
  <2> QED BY <1>4, <2>1, <2>2, <2>3
<1> QED
  BY <1>5, <1>6, <1>7, <1>8, <1>9, <1>10, StepCases

LEMMA DuplicatesHarmlessKept ==
  ASSUME PipeTypeOK, JobBorn, SourceIsLatest, JobSound, FailsForWant, DuplicatesHarmless,
         [PipeNext]_pipeVars
  PROVE  DuplicatesHarmless'
<1> SUFFICES ASSUME ~world'.faults, ~world'.reuse, stops' = 0, NEW n \in Names
             PROVE  failed'[n] = NoFile /\ dead'[n] = NoFile
  BY DEF DuplicatesHarmless
<1>1. ~world.faults /\ ~world.reuse /\ stops = 0
  BY FileEffect, QueueStep, NoStopYet DEF PipeTypeOK
<1>2. failed[n] = NoFile /\ dead[n] = NoFile
  BY <1>1 DEF DuplicatesHarmless
<1>3. ~SetAside(n)
  BY <1>1 DEF FailsForWant, SetAside, Present
<1> QED
  BY <1>2, <1>3, FileEffect DEF Untouched, Replaced, Written, Published, Same

LEMMA PipeInvKept == PipeInv /\ [PipeNext]_pipeVars => PipeInv'
BY TypeKept, OrderKept, JobBornKept, SourceIsLatestKept, BornUploadedKept, JobSoundKept,
   NothingLostKept, GoneKept, FailsForWantKept, DuplicatesHarmlessKept DEF PipeInv

LEMMA InitPipe == PipeInit => PipeInv
<1> SUFFICES ASSUME PipeInit PROVE PipeInv
  OBVIOUS
<1>1. OrderInv /\ TypeOK
  BY InitOrder, InitType DEF PipeInit
<1>2. PipeTypeOK
  <2>1. (CHOOSE n \in Names : TRUE) \in Names
    BY NamesAssumption
  <2>2. world \in World /\ settings \in world.configs
    BY WorldAssumption DEF PipeInit
  <2> QED
    BY <1>1, <2>1, <2>2, ConstantFacts DEF PipeInit, PipeTypeOK
<1>3. JobBorn /\ JobSound /\ SourceIsLatest /\ BornUploaded
  BY DEF PipeInit, Init, JobBorn, JobSound, SourceIsLatest, BornUploaded
<1>4. NothingLost /\ GoneIsRecoverable /\ FailsForWant /\ DuplicatesHarmless
  BY DEF PipeInit, Init, NothingLost, GoneIsRecoverable, FailsForWant, DuplicatesHarmless
<1> QED BY <1>1, <1>2, <1>3, <1>4 DEF PipeInv

LEMMA AlwaysPipeInv == PipeSpec => []PipeInv
BY InitPipe, PipeInvKept, PTL DEF PipeSpec

\* The state of the whole encryption side keeps its types; there is always a
\* data key that is on no file.
THEOREM PipeTypeCorrect == PipeSpec => []PipeTypeOK
<1>1. PipeInv => PipeTypeOK
  BY DEF PipeInv
<1> QED BY <1>1, AlwaysPipeInv, PTL

\* The last upload of a name is never lost, whatever crashed, failed or was
\* queued twice, unless it overwrote a file that was just being encrypted.
THEOREM NothingLostCorrect == PipeSpec => []NothingLost
<1>1. PipeInv => NothingLost
  BY DEF PipeInv
<1> QED BY <1>1, AlwaysPipeInv, PTL

\* A file that was encrypted and left the source directory can be decrypted for
\* ever, where names are not reused.
THEOREM CompletedCorrect == PipeSpec => []CompletedIsRecoverable
<1>1. PipeInv => CompletedIsRecoverable
  BY DEF PipeInv, PipeTypeOK, BornUploaded, GoneIsRecoverable, CompletedIsRecoverable
<1> QED BY <1>1, AlwaysPipeInv, PTL

\* A file that is queued twice does not fail for it.
THEOREM DuplicatesCorrect == PipeSpec => []DuplicatesHarmless
<1>1. PipeInv => DuplicatesHarmless
  BY DEF PipeInv
<1> QED BY <1>1, AlwaysPipeInv, PTL

\* A file leaves the source directory only once it can be decrypted from the
\* destination, or to failed/ or dlq/.
THEOREM SourceLeavesSafely == PipeSpec => SourceOnlyLeavesSafely
<1>1. ASSUME PipeInv, [PipeNext]_pipeVars, NEW n \in Names, NEW v \in 1..MaxUploads,
             source[n] = v, v \notin late, source'[n] = NoFile
      PROVE  Recoverable(n, v)' \/ v \in {failed'[n], dead'[n]}
  <2> USE DEF PipeInv
  <2>1. source[n] # NoFile /\ source[n] = latest[n]
    BY <1>1, ConstantFacts DEF SourceIsLatest, NoFile
  <2>2. ~Untouched(n) /\ ~Replaced(n) /\ ~Written(n)
    BY <1>1, <2>1 DEF Untouched, Replaced, Written, Same
  <2>3. CASE Published(n)
    BY <1>1, <2>1, <2>3 DEF Published, Pair, Recoverable
  <2>4. CASE SetAside(n)
    BY <1>1, <2>1, <2>4 DEF SetAside
  <2> QED BY <1>1, <2>2, <2>3, <2>4, FileEffect
<1>2. PipeInv /\ [PipeNext]_pipeVars =>
        [\A n \in Names, v \in 1..MaxUploads :
           source[n] = v /\ v \notin late /\ source'[n] = NoFile =>
             Recoverable(n, v)' \/ v \in {failed'[n], dead'[n]}]_pipeVars
  BY <1>1
<1> QED BY <1>2, AlwaysPipeInv, PTL DEF PipeSpec, SourceOnlyLeavesSafely

\* The service, whatever its files do, runs the retry queue as it is specified:
\* all that is proved about the queue holds in the service.
THEOREM PipelineRunsQueue == PipeSpec => Spec
<1>1. PipeInit => Init
  BY DEF PipeInit
<1> QED BY <1>1, QueueStep, PTL DEF PipeSpec, Spec
=============================================================================
