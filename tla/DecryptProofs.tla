---------------------------- MODULE DecryptProofs ----------------------------
(* Theorems about DecryptPipeline, for any names, bundles, items, restarts,  *)
(* worlds and any retry limit.                                               *)
EXTENDS DecryptPipeline, RetryQueueOrder

----------------------------------------------------------------------------
(* The invariant *)

\* The item in work was created, and there is one only while the service runs.
JobBorn ==
  step # "idle" => job \in Items /\ status[job] # "unborn" /\ Running

\* The files of the last bundle that are still to come.
Coming(n) == ToSet(rest[n])
RestSound ==
  \A n \in Names :
    /\ rest[n] # <<>> => latest[n] # NoFile
    /\ rest[n] \in IF world.keyFirst THEN {<<>>, <<"enc">>, <<"sum", "enc">>}
                                     ELSE {<<>>, <<"key">>, <<"enc", "key">>}

\* What the source directory holds is of the last bundle; an older key may lie
\* there until the key of the last one comes.
SourceIsLatest ==
  \A n \in Names :
    /\ src["enc"][n] \in {NoFile, latest[n]}
    /\ "enc" \in Coming(n) => src["enc"][n] = NoFile
    /\ "key" \notin Coming(n) => src["key"][n] \in {NoFile, latest[n]}

\* The ciphertext that came is decrypted or still there, and so is the key.
EncKept(n) ==
  latest[n] # NoFile /\ "enc" \notin Coming(n) =>
    \/ plain[n] = latest[n]
    \/ latest[n] \in {src["enc"][n], archive["enc"][n], failed[n], dead[n]}
KeyKept(n) ==
  latest[n] # NoFile /\ "key" \notin Coming(n) =>
    plain[n] = latest[n] \/ latest[n] \in {src["key"][n], archive["key"][n]}

\* Key and ciphertext stay in the source directory while they are worked on;
\* then the output is whole, and compared with the checksum.
JobSound ==
  /\ step \in {"open", "decrypting"} => src["key"][Name] # NoFile
  /\ step \in {"decrypting", "verify", "done"} =>
       src["enc"][Name] # NoFile /\ opened = src["enc"][Name]
  /\ step \in {"verify", "done", "keyDone", "sumDone"} => plain[Name] = latest[Name]
  /\ step = "done" /\ settings.verify /\ ~world.faults =>
       src["sum"][Name] \in {NoFile, plain[Name]}

\* Where names are not reused, an item is about a ciphertext that came (and, where
\* reads do not fail, whose key came too), no key lies in wait for another
\* ciphertext, and what left is decrypted.
Came(k, n) == latest[n] # NoFile /\ k \notin Coming(n)
FreshNames ==
  ~world.reuse =>
    /\ \A n \in Names :
         /\ "key" \in Coming(n) => src["key"][n] = NoFile
         /\ latest[n] # NoFile /\ "enc" \notin Coming(n) /\ Gone(n) => plain[n] = latest[n]
         /\ ~world.badSums => src["sum"][n] \in {NoFile, latest[n]}
    /\ \A i \in Items : status[i] # "unborn" => Came("enc", path[i])
    /\ ~world.faults =>
         /\ \A i \in Items : status[i] # "unborn" => Came("key", path[i])
         /\ found # NoName => Came("key", found)
    /\ step \in {"open", "decrypting"} => dek = latest[Name]

\* Where files can be moved too, no ciphertext outlives its key.
KeysOutlive ==
  ~world.reuse /\ ~world.stuck =>
    /\ \A n \in Names :
         /\ Delivered(n) /\ src["key"][n] = NoFile => src["enc"][n] = NoFile
         /\ "enc" \in Coming(n) /\ "key" \notin Coming(n) => src["key"][n] # NoFile
    /\ step \in {"keyDone", "sumDone"} /\ settings.behavior # "keep" => src["enc"][Name] = NoFile

\* Where nothing fails from outside, an attempt fails only for want of a file.
FailsForWant ==
  ~world.faults /\ ~world.stuck /\ ~world.reuse /\ ~world.badSums /\ stops = 0 =>
    /\ life \in {"down", "up"}
    /\ step \in {"failing", "toDead", "toFailed"} => src["enc"][Name] = NoFile

DecryptInv ==
  /\ DecryptTypeOK /\ OrderInv
  /\ JobBorn /\ RestSound /\ SourceIsLatest /\ JobSound
  /\ \A n \in Names : EncKept(n) /\ KeyKept(n)
  /\ FreshNames /\ KeysOutlive /\ FailsForWant /\ HealthyNeverFails

----------------------------------------------------------------------------
(* The steps of the pipeline and the queue *)

\* The steps that change no file.
Quiet == WatcherStep \/ TakeJob \/ ReadKey \/ Verify \/ FailJob
         \/ StartService \/ StopService \/ ServiceStep \/ UNCHANGED decryptVars

LEMMA StepCases ==
  ASSUME [DecryptNext]_decryptVars
  PROVE  \/ Quiet
         \/ \E n \in Names : Deliver(n)
         \/ OpenFiles \/ WritePlain
         \/ FinishEnc \/ FinishKey \/ FinishSum \/ MoveToDLQ \/ MoveToFailed
BY DEF DecryptNext, ProcessorStep, Quiet

LEMMA QuietFiles == Quiet => UNCHANGED <<dirs, plain, worldVars, userVars>>
<1> SUFFICES ASSUME Quiet PROVE UNCHANGED <<dirs, plain, worldVars, userVars>>
  OBVIOUS
<1>1. CASE WatcherStep
  BY <1>1 DEF WatcherStep, Arm, ReadDir, ScanDone, PollKey, Settle, ScanFile
<1>2. CASE TakeJob \/ ReadKey \/ Verify \/ FailJob
  BY <1>2 DEF TakeJob, ReadKey, Verify, FailJob
<1>3. CASE StartService \/ StopService \/ ServiceStep
  BY <1>3 DEF StartService, StopService, ServiceStep
<1>4. CASE UNCHANGED decryptVars
  BY <1>4 DEF decryptVars
<1> QED BY <1>1, <1>2, <1>3, <1>4 DEF Quiet

\* The watcher leaves the work alone, and only Settle touches the queue.
LEMMA WatcherEffect ==
  ASSUME WatcherStep
  PROVE  /\ UNCHANGED <<jobVars, worldVars>> /\ life' = life /\ stops' = stops
         /\ Settle \/ UNCHANGED <<queueVars, path>>
<1>1. CASE Settle
  BY <1>1 DEF Settle, Enqueue, queueVars, vars
<1>2. CASE Arm \/ ReadDir \/ ScanDone \/ PollKey \/ \E n \in Names : ScanFile(n)
  BY <1>2 DEF Arm, ReadDir, ScanDone, PollKey, ScanFile, queueVars, vars
<1> QED BY <1>1, <1>2 DEF WatcherStep

\* To the queue, a step of the pipeline is one of its own steps or none.
LEMMA QueueStep == [DecryptNext]_decryptVars => [Next]_vars
<1> SUFFICES ASSUME [DecryptNext]_decryptVars PROVE [Next]_vars
  OBVIOUS
<1>1. Processor \in Workers
  BY OneProcessor
<1>2. CASE WatcherStep
  BY <1>2, WatcherEffect DEF Settle, queueVars, Next
<1>3. CASE TakeJob \/ FailJob \/ FinishEnc
  BY <1>1, <1>3 DEF TakeJob, FailJob, FinishEnc, Next
<1>4. CASE ReadKey \/ OpenFiles \/ WritePlain \/ Verify
  BY <1>4 DEF ReadKey, OpenFiles, WritePlain, Verify, queueVars
<1>5. CASE FinishKey \/ FinishSum \/ MoveToDLQ \/ MoveToFailed
  BY <1>5 DEF FinishKey, FinishSum, MoveToDLQ, MoveToFailed, queueVars
<1>6. CASE StartService \/ StopService \/ ServiceStep
  BY <1>6 DEF StartService, StopService, ServiceStep, Next
<1>7. CASE (\E n \in Names : Deliver(n)) \/ UNCHANGED decryptVars
  BY <1>7 DEF Deliver, decryptVars, queueVars
<1> QED
  BY <1>2, <1>3, <1>4, <1>5, <1>6, <1>7 DEF DecryptNext, ProcessorStep

LEMMA OrderKept == OrderInv /\ [DecryptNext]_decryptVars => OrderInv'
BY QueueStep, NextOrder

\* What a step of the processor, the service or a user does to items and paths.
LEMMA PathUnchanged ==
  ASSUME [DecryptNext]_decryptVars, ~Settle
  PROVE  path' = path
<1>1. CASE WatcherStep
  BY <1>1, WatcherEffect
<1>2. CASE TakeJob \/ FailJob \/ ReadKey \/ OpenFiles \/ WritePlain \/ Verify
  BY <1>2 DEF TakeJob, FailJob, ReadKey, OpenFiles, WritePlain, Verify, watchVars
<1>3. CASE FinishEnc \/ FinishKey \/ FinishSum \/ MoveToDLQ \/ MoveToFailed
  BY <1>3 DEF FinishEnc, FinishKey, FinishSum, MoveToDLQ, MoveToFailed, watchVars
<1>4. CASE StartService \/ StopService \/ ServiceStep
  BY <1>4 DEF StartService, StopService, ServiceStep, watchVars
<1>5. CASE (\E n \in Names : Deliver(n)) \/ UNCHANGED decryptVars
  BY <1>5 DEF Deliver, decryptVars, watchVars
<1> QED
  BY <1>1, <1>2, <1>3, <1>4, <1>5 DEF DecryptNext, ProcessorStep

\* An item that was created stays created, and is about the same bundle for ever.
LEMMA PathKept ==
  ASSUME OrderInv, path \in [Items -> Names], [DecryptNext]_decryptVars,
         NEW i \in Items, status[i] # "unborn"
  PROVE  status'[i] # "unborn" /\ path'[i] = path[i]
<1>1. status'[i] # "unborn"
  BY QueueStep, BornStays
<1>2. ASSUME Settle PROVE path'[i] = path[i]
  BY <1>2 DEF Settle, Enqueue
<1> QED BY <1>1, <1>2, PathUnchanged

\* An item is made by Settle, for a ciphertext that is there.
LEMMA OnlySettleCreates ==
  ASSUME DecryptTypeOK, OrderInv, [DecryptNext]_decryptVars,
         NEW i \in Items, status[i] = "unborn", status'[i] # "unborn"
  PROVE  Settle /\ found \in Names /\ path'[i] = found /\ src["enc"][found] # NoFile
<1> USE DEF DecryptTypeOK, TypeOK
<1>1. /\ held' = held /\ life' = life /\ status' # status /\ Enqueue(i)
      /\ held \in [Workers -> Items \union {NoItem}]
  BY QueueStep, OnlyEnqueueCreates DEF Enqueue
<1>2. ~UNCHANGED queueVars
  BY <1>1 DEF queueVars, vars
<1>3. ~TakeJob
  BY <1>1, OneProcessor, NoItemAssumption DEF TakeJob, Dequeue
<1>4. ~FinishEnc /\ ~FailJob
  BY <1>1, OneProcessor DEF FinishEnc, Complete, FailJob, Requeue
<1>5. ~StartService /\ ~StopService /\ ~ServiceStep
  BY <1>1 DEF StartService, Start, StopService, Exit, Crash, Forget, Running, ServiceStep,
     BeginShutdown, BeginSave, EndSave, Tick, itemVars
<1>6. ~(ReadKey \/ OpenFiles \/ WritePlain \/ Verify \/ UNCHANGED decryptVars)
  BY <1>2 DEF ReadKey, OpenFiles, WritePlain, Verify, decryptVars
<1>7. ~(FinishKey \/ FinishSum \/ MoveToDLQ \/ MoveToFailed \/ \E n \in Names : Deliver(n))
  BY <1>2 DEF FinishKey, FinishSum, MoveToDLQ, MoveToFailed, Deliver
<1>8. Settle
  BY <1>2, <1>3, <1>4, <1>5, <1>6, <1>7, WatcherEffect DEF DecryptNext, ProcessorStep
<1>9. PICK j \in Items : Enqueue(j) /\ path' = [path EXCEPT ![j] = found] /\ src["enc"][found] # NoFile
  BY <1>2, <1>8 DEF Settle
<1>10. i = j
  BY <1>9 DEF Enqueue
<1> QED BY <1>8, <1>9, <1>10 DEF Settle

----------------------------------------------------------------------------
(* Types *)

LEMMA ConstantFacts ==
  /\ MaxBundles \in Nat /\ KeyPolls \in Nat \ {0}
  /\ NoFile \in Contents /\ Torn \in Contents
  /\ \A v \in 1..MaxBundles : v \in Contents /\ v # NoFile
  /\ {"enc", "key", "sum"} = Kinds
BY BoundAssumption DEF NoFile, Contents, Torn, Kinds

LEMMA OrderFacts ==
  /\ Order \in Seq(Kinds) /\ Order # <<>>
  /\ Head(Order) = IF world.keyFirst THEN "key" ELSE "sum"
  /\ Tail(Order) = IF world.keyFirst THEN <<"sum", "enc">> ELSE <<"enc", "key">>
<1>1. CASE world.keyFirst
  BY <1>1 DEF Order, Kinds
<1>2. CASE ~world.keyFirst
  BY <1>2 DEF Order, Kinds
<1> QED BY <1>1, <1>2

\* The name of the item in work.
LEMMA NameType ==
  ASSUME DecryptTypeOK, JobBorn, step # "idle"
  PROVE  Name \in Names /\ job \in Items
BY DEF DecryptTypeOK, JobBorn, Name

LEMMA PutType ==
  ASSUME DecryptTypeOK, NEW k \in Kinds, NEW n \in Names, NEW v \in Contents, Put(k, n, v)
  PROVE  src' \in [Kinds -> [Names -> Contents]] /\ events' \in Seq(Names)
<1> USE ConstantFacts DEF DecryptTypeOK, Put
<1>1. events' \in Seq(Names)
  OBVIOUS
<1>2. \A x \in Contents : [src EXCEPT ![k][n] = x] \in [Kinds -> [Names -> Contents]]
  OBVIOUS
<1> QED BY <1>1, <1>2

LEMMA DeliverType ==
  ASSUME DecryptTypeOK, NEW n \in Names, Deliver(n)
  PROVE  DecryptTypeOK'
<1> USE DEF DecryptTypeOK
<1>1. TypeOK'
  BY QueueStep, NextType DEF DecryptNext
<1>2. UNCHANGED <<archive, failed, dead, plain, path, scan, polls, found, watch, missed, step, job,
                  dek, opened, settings, world>>
  BY DEF Deliver, jobVars, worldVars
<1>3. CASE rest[n] = <<>>
  <2>1. /\ bundles' \in 1..MaxBundles /\ latest' = [latest EXCEPT ![n] = bundles']
        /\ rest' = [rest EXCEPT ![n] = Tail(Order)] /\ Put(Head(Order), n, bundles')
    BY <1>3, ConstantFacts DEF Deliver, MayBegin
  <2>2. Head(Order) \in Kinds /\ Tail(Order) \in Seq(Kinds)
    BY OrderFacts, ConstantFacts
  <2>3. src' \in [Kinds -> [Names -> Contents]] /\ events' \in Seq(Names)
    BY <2>1, <2>2, ConstantFacts, PutType
  <2>4. latest' \in [Names -> Contents] /\ rest' \in [Names -> Seq(Kinds)]
        /\ bundles' \in 0..MaxBundles
    BY <2>1, <2>2, ConstantFacts
  <2> QED BY <1>1, <1>2, <2>3, <2>4
<1>4. CASE rest[n] # <<>>
  <2>1. Head(rest[n]) \in Kinds /\ Tail(rest[n]) \in Seq(Kinds) /\ latest[n] \in Contents
    BY <1>4
  <2>2. /\ UNCHANGED <<bundles, latest>> /\ rest' = [rest EXCEPT ![n] = Tail(rest[n])]
        /\ Put(Head(rest[n]), n, latest[n])
    BY <1>4 DEF Deliver
  <2>3. src' \in [Kinds -> [Names -> Contents]] /\ events' \in Seq(Names)
    BY <2>1, <2>2, PutType
  <2> QED BY <1>1, <1>2, <2>1, <2>2, <2>3
<1> QED BY <1>3, <1>4

LEMMA WatcherTypes ==
  ASSUME DecryptTypeOK, WatcherStep
  PROVE  /\ path' \in [Items -> Names] /\ events' \in Seq(Names) /\ scan' \subseteq Names
         /\ polls' \in 0..(KeyPolls - 1) /\ found' \in Names \union {NoName}
         /\ watch' \in {"off", "starting", "armed", "scanning", "events", "ended"}
         /\ missed' \subseteq Contents
<1> USE ConstantFacts DEF DecryptTypeOK
<1>a. ASSUME NEW S \in SUBSET Names, Miss(S) PROVE missed' \subseteq Contents
  BY <1>a DEF Miss, Kinds
<1>1. CASE Arm \/ ReadDir \/ ScanDone
  <2>1. Names \in SUBSET Names
    OBVIOUS
  <2>2. missed' \subseteq Contents
    BY <1>1, <1>a, <2>1 DEF Arm, ReadDir, ScanDone
  <2> QED BY <1>1, <2>2 DEF Arm, ReadDir, ScanDone
<1>2. CASE PollKey
  <2>1. Head(events) \in Names /\ Tail(events) \in Seq(Names) /\ {Head(events)} \in SUBSET Names
    BY <1>2 DEF PollKey
  <2>2. UNCHANGED <<path, scan, watch>>
    BY <1>2 DEF PollKey
  <2>3. polls' \in 0..(KeyPolls - 1)
    BY <1>2 DEF PollKey, LastLook, Dropped
  <2>4. events' \in {events, Tail(events)} /\ found' \in {found, Head(events), NoName}
    BY <1>2 DEF PollKey, Dropped
  <2>5. missed' = missed \/ Miss({Head(events)})
    BY <1>2 DEF PollKey
  <2> QED BY <1>a, <2>1, <2>2, <2>3, <2>4, <2>5
<1>3. CASE Settle
  <2>1. missed' = missed \/ Miss({found})
    BY <1>3 DEF Settle
  <2>2. {found} \in SUBSET Names
    BY <1>3 DEF Settle
  <2> QED BY <1>3, <1>a, <2>1, <2>2 DEF Settle
<1>4. ASSUME NEW n \in Names, ScanFile(n)
      PROVE  /\ path' \in [Items -> Names] /\ events' \in Seq(Names) /\ scan' \subseteq Names
             /\ polls' \in 0..(KeyPolls - 1) /\ found' \in Names \union {NoName}
             /\ watch' \in {"off", "starting", "armed", "scanning", "events", "ended"}
             /\ missed' \subseteq Contents
  BY <1>4 DEF ScanFile
<1> QED BY <1>1, <1>2, <1>3, <1>4 DEF WatcherStep

\* The moves.
LEMMA SourceTypes ==
  ASSUME DecryptTypeOK, JobBorn,
         FinishEnc \/ FinishKey \/ FinishSum \/ MoveToDLQ \/ MoveToFailed
  PROVE  /\ {src', archive'} \subseteq [Kinds -> [Names -> Contents]]
         /\ {failed', dead'} \subseteq [Names -> Contents]
<1>1. Name \in Names /\ NoFile \in Contents /\ {"enc", "key", "sum"} = Kinds
  BY NameType, ConstantFacts DEF FinishEnc, FinishKey, FinishSum, MoveToDLQ, MoveToFailed
<1>2. /\ src \in [Kinds -> [Names -> Contents]] /\ archive \in [Kinds -> [Names -> Contents]]
      /\ failed \in [Names -> Contents] /\ dead \in [Names -> Contents]
  BY DEF DecryptTypeOK
<1>3. \A k \in Kinds :
        /\ src[k][Name] \in Contents
        /\ [src EXCEPT ![k][Name] = NoFile] \in [Kinds -> [Names -> Contents]]
        /\ [archive EXCEPT ![k][Name] = src[k][Name]] \in [Kinds -> [Names -> Contents]]
  BY <1>1, <1>2
<1>4. ASSUME NEW k \in Kinds, HandleSourceFile(k)
      PROVE  /\ src' \in [Kinds -> [Names -> Contents]] /\ UNCHANGED <<failed, dead>>
             /\ archive' \in [Kinds -> [Names -> Contents]]
  <2>1. /\ src' = src \/ src' = [src EXCEPT ![k][Name] = NoFile]
        /\ archive' = archive \/ archive' = [archive EXCEPT ![k][Name] = src[k][Name]]
        /\ UNCHANGED <<failed, dead>>
    BY <1>4 DEF HandleSourceFile
  <2> QED BY <1>2, <1>3, <2>1
<1>5. CASE FinishEnc \/ FinishKey \/ FinishSum
  BY <1>1, <1>2, <1>4, <1>5 DEF FinishEnc, FinishKey, FinishSum
<1>6. MovedTo(failed) \in [Names -> Contents] /\ MovedTo(dead) \in [Names -> Contents]
  BY <1>1, <1>2, <1>3 DEF MovedTo
<1>7. CASE MoveToDLQ \/ MoveToFailed
  <2>1. /\ src' = src \/ src' = [src EXCEPT !["enc"][Name] = NoFile]
        /\ failed' = failed \/ failed' = MovedTo(failed)
        /\ dead' = dead \/ dead' = MovedTo(dead)
        /\ archive' = archive
    BY <1>7 DEF MoveToDLQ, MoveToFailed, Stuck, EncMovedAway, dirs
  <2>2. [src EXCEPT !["enc"][Name] = NoFile] \in [Kinds -> [Names -> Contents]]
    BY <1>1, <1>3
  <2> QED BY <1>2, <1>6, <2>1, <2>2
<1> QED BY <1>5, <1>7

LEMMA OutputTypes ==
  ASSUME DecryptTypeOK, JobBorn, ReadKey \/ OpenFiles \/ WritePlain
  PROVE  plain' \in [Names -> Contents] /\ {dek', opened'} \subseteq Contents
<1>1. Name \in Names /\ {"enc", "key", "sum"} = Kinds
  BY NameType, ConstantFacts DEF ReadKey, OpenFiles, WritePlain
<1>2. /\ src \in [Kinds -> [Names -> Contents]] /\ plain \in [Names -> Contents]
      /\ dek \in Contents /\ opened \in Contents /\ NoFile \in Contents /\ Torn \in Contents
  BY ConstantFacts DEF DecryptTypeOK
<1>3. src["enc"][Name] \in Contents /\ src["key"][Name] \in Contents
  BY <1>1, <1>2
<1>4. \A x \in Contents : [plain EXCEPT ![Name] = x] \in [Names -> Contents]
  BY <1>1, <1>2
<1>5. CASE ReadKey
  BY <1>2, <1>3, <1>5 DEF ReadKey
<1>6. CASE OpenFiles
  BY <1>2, <1>3, <1>4, <1>6 DEF OpenFiles
<1>7. CASE WritePlain
  BY <1>2, <1>4, <1>7 DEF WritePlain
<1> QED BY <1>5, <1>6, <1>7

LEMMA TypeKept ==
  ASSUME DecryptTypeOK, JobBorn, [DecryptNext]_decryptVars
  PROVE  DecryptTypeOK'
<1>1. TypeOK'
  BY QueueStep, NextType DEF DecryptTypeOK
<1> USE DEF DecryptTypeOK, jobVars, watchVars, worldVars, userVars, dirs
<1>2. CASE WatcherStep
  BY <1>1, <1>2, WatcherEffect, WatcherTypes, QuietFiles DEF Quiet
<1>3. CASE TakeJob
  <2>1. held'[Processor] \in Items \union {NoItem}
    BY <1>1, OneProcessor DEF TypeOK
  <2> QED BY <1>1, <1>3, <2>1 DEF TakeJob
<1>4. CASE ReadKey \/ OpenFiles
  <2>1. CASE ReadKey
    BY <1>1, <2>1, OutputTypes DEF ReadKey
  <2>2. CASE OpenFiles
    BY <1>1, <2>2, OutputTypes DEF OpenFiles
  <2> QED BY <1>4, <2>1, <2>2
<1>5. CASE WritePlain
  BY <1>1, <1>5, OutputTypes DEF WritePlain, AfterPlain
<1>6. CASE Verify \/ FailJob
  BY <1>1, <1>6 DEF Verify, FailJob
<1>7. CASE FinishEnc \/ FinishKey
  BY <1>1, <1>7, SourceTypes DEF FinishEnc, FinishKey
<1>8. CASE FinishSum \/ MoveToFailed
  BY <1>1, <1>8, SourceTypes, ConstantFacts DEF FinishSum, MoveToFailed, Idle
<1>9. CASE MoveToDLQ
  BY <1>1, <1>9, SourceTypes DEF MoveToDLQ
<1>10. CASE StartService \/ ServiceStep
  BY <1>1, <1>10 DEF StartService, ServiceStep
<1>11. CASE StopService
  BY <1>1, <1>11, ConstantFacts DEF StopService, Idle
<1>12. CASE UNCHANGED decryptVars
  BY <1>1, <1>12 DEF decryptVars
<1> QED
  BY <1>2, <1>3, <1>4, <1>5, <1>6, <1>7, <1>8, <1>9, <1>10, <1>11, <1>12, DeliverType
     DEF DecryptNext, ProcessorStep

----------------------------------------------------------------------------
(* The job, and the files that come *)

LEMMA JobBornKept ==
  ASSUME DecryptTypeOK, OrderInv, JobBorn, [DecryptNext]_decryptVars
  PROVE  JobBorn'
<1> SUFFICES ASSUME step' # "idle"
             PROVE  job' \in Items /\ status'[job'] # "unborn" /\ Running'
  BY DEF JobBorn
<1>1. CASE TakeJob
  <2>1. PICK k \in DOMAIN items :
          /\ MarkProcessing(items[k]) /\ held' = [held EXCEPT ![Processor] = items[k]]
    BY <1>1 DEF TakeJob, Dequeue
  <2>2. items[k] \in Items /\ held \in [Workers -> Items \union {NoItem}] /\ Processor \in Workers
        /\ status \in [Items -> Statuses]
    BY OneProcessor DEF DecryptTypeOK, TypeOK
  <2>3. job' = items[k] /\ status'[items[k]] = "processing"
    BY <1>1, <2>1, <2>2 DEF TakeJob, MarkProcessing
  <2>4. Running'
    BY <1>1 DEF TakeJob, Dequeue, Writable, Running
  <2> QED BY <2>2, <2>3, <2>4
<1>2. ASSUME step # "idle", job' = job, life' # "down"
      PROVE  job' \in Items /\ status'[job'] # "unborn" /\ Running'
  BY <1>2, PathKept DEF JobBorn, DecryptTypeOK, Running
<1>3. ASSUME UNCHANGED jobVars, life' = life \/ life' # "down"
      PROVE  job' \in Items /\ status'[job'] # "unborn" /\ Running'
  BY <1>2, <1>3 DEF JobBorn, Running, jobVars
<1>4. CASE WatcherStep
  BY <1>3, <1>4, WatcherEffect
<1>5. ASSUME step # "idle", job' = job, UNCHANGED queueVars
      PROVE  job' \in Items /\ status'[job'] # "unborn" /\ Running'
  BY <1>2, <1>5 DEF JobBorn, Running, queueVars, vars
<1>6. CASE ReadKey \/ OpenFiles \/ WritePlain \/ Verify
  BY <1>5, <1>6 DEF ReadKey, OpenFiles, WritePlain, Verify
<1>7. CASE FinishKey \/ MoveToDLQ
  BY <1>5, <1>7 DEF FinishKey, MoveToDLQ
<1>8. CASE FinishEnc \/ FailJob
  BY <1>2, <1>8 DEF FinishEnc, Complete, FailJob, Requeue, JobBorn, Running
<1>9. CASE FinishSum \/ MoveToFailed \/ StopService
  BY <1>9 DEF FinishSum, MoveToFailed, StopService, Idle
<1>10. CASE ServiceStep \/ StartService
  <2>1. UNCHANGED jobVars
    BY <1>10 DEF ServiceStep, StartService
  <2>2. life' = life \/ life' # "down"
    BY <1>10 DEF ServiceStep, StartService, Start, BeginShutdown, BeginSave, EndSave, Tick
  <2> QED BY <1>3, <2>1, <2>2
<1>11. CASE UNCHANGED decryptVars \/ \E n \in Names : Deliver(n)
  <2>1. UNCHANGED jobVars /\ life' = life
    BY <1>11 DEF decryptVars, Deliver, queueVars, vars
  <2> QED BY <1>3, <2>1
<1> QED
  BY <1>1, <1>4, <1>6, <1>7, <1>8, <1>9, <1>10, <1>11 DEF DecryptNext, ProcessorStep

\* The item in work is about the same bundle until the work ends.
LEMMA NameKept ==
  ASSUME DecryptTypeOK, OrderInv, JobBorn, [DecryptNext]_decryptVars, step # "idle", job' = job
  PROVE  Name' = Name /\ Name \in Names
BY PathKept, NameType DEF Name, JobBorn, DecryptTypeOK

\* The orders in which a bundle can come: no ciphertext before its checksum, no
\* key between the two.
LEMMA ComingFacts ==
  ASSUME RestSound, NEW n \in Names
  PROVE  /\ rest[n] = <<>> <=> Coming(n) = {}
         /\ rest[n] # <<>> => Head(rest[n]) \in Coming(n)
         /\ "sum" \in Coming(n) => "enc" \in Coming(n) /\ Head(rest[n]) = "sum"
         /\ "key" \in Coming(n) => ~world.keyFirst
         /\ "key" \in Coming(n) /\ "enc" \in Coming(n) => Head(rest[n]) = "enc"
         /\ "enc" \in Coming(n) /\ ~world.keyFirst => "key" \in Coming(n)
         /\ rest[n] # <<>> => ToSet(Tail(rest[n])) = Coming(n) \ {Head(rest[n])}
<1> DEFINE r == rest[n]
<1>1. /\ ToSet(<<>>) = {} /\ ToSet(<<"enc">>) = {"enc"} /\ ToSet(<<"key">>) = {"key"}
      /\ ToSet(<<"sum", "enc">>) = {"sum", "enc"} /\ ToSet(<<"enc", "key">>) = {"enc", "key"}
  BY DEF ToSet
<1>2. CASE r = <<>>
  BY <1>1, <1>2 DEF Coming
<1>3. CASE r = <<"enc">>
  <2>1. Head(r) = "enc" /\ Tail(r) = <<>> /\ r # <<>> /\ world.keyFirst
    BY <1>3 DEF RestSound
  <2> QED BY <1>1, <1>3, <2>1 DEF Coming
<1>4. CASE r = <<"key">>
  <2>1. Head(r) = "key" /\ Tail(r) = <<>> /\ r # <<>> /\ ~world.keyFirst
    BY <1>4 DEF RestSound
  <2> QED BY <1>1, <1>4, <2>1 DEF Coming
<1>5. CASE r = <<"sum", "enc">>
  <2>1. Head(r) = "sum" /\ Tail(r) = <<"enc">> /\ r # <<>> /\ world.keyFirst
    BY <1>5 DEF RestSound
  <2> QED BY <1>1, <1>5, <2>1 DEF Coming
<1>6. CASE r = <<"enc", "key">>
  <2>1. Head(r) = "enc" /\ Tail(r) = <<"key">> /\ r # <<>> /\ ~world.keyFirst
    BY <1>6 DEF RestSound
  <2> QED BY <1>1, <1>6, <2>1 DEF Coming
<1>7. r \in {<<>>, <<"enc">>, <<"key">>, <<"sum", "enc">>, <<"enc", "key">>}
  BY DEF RestSound
<1> QED BY <1>2, <1>3, <1>4, <1>5, <1>6, <1>7

\* What a delivery does to the files of one name: nothing, a new bundle begins
\* or one more file of the bundle comes.
SumOf(n) == src'["sum"][n] \in {src["sum"][n], latest'[n]} \/ world.badSums
Stays(n) ==
  UNCHANGED <<src["enc"][n], src["key"][n], src["sum"][n], latest[n], rest[n]>>
Begins(n) ==
  /\ Coming(n) = {} /\ latest'[n] # NoFile
  /\ src["enc"][n] = NoFile /\ src'["enc"][n] = NoFile
  /\ latest[n] = NoFile \/ world.reuse
  /\ job # NoItem => path[job] # n
  /\ IF world.keyFirst
       THEN /\ ToSet(rest'[n]) = {"sum", "enc"}
            /\ src'["key"][n] = latest'[n] /\ src'["sum"][n] = src["sum"][n]
       ELSE /\ ToSet(rest'[n]) = {"enc", "key"}
            /\ src'["key"][n] = src["key"][n] /\ SumOf(n)
Arrives(k, n) ==
  /\ k \in Coming(n) /\ ToSet(rest'[n]) = Coming(n) \ {k}
  /\ latest[n] # NoFile /\ latest'[n] = latest[n]
  /\ \A j \in Kinds \ {k} : src'[j][n] = src[j][n]
  /\ IF k = "sum" THEN SumOf(n) ELSE src'[k][n] = latest[n]

LEMMA PutEffect ==
  ASSUME DecryptTypeOK, NEW k \in Kinds, NEW n \in Names, NEW v, Put(k, n, v)
  PROVE  /\ \A m \in Names, j \in Kinds : j # k \/ m # n => src'[j][m] = src[j][m]
         /\ k # "sum" => src'[k][n] = v
         /\ k = "sum" => src'[k][n] \in {src[k][n], v} \/ world.badSums
<1>1. /\ \/ src' = [src EXCEPT ![k][n] = v]
         \/ k = "sum" /\ src' = src
         \/ k = "sum" /\ world.badSums /\ src' = [src EXCEPT ![k][n] = Torn]
      /\ src \in [Kinds -> [Names -> Contents]]
  BY DEF DecryptTypeOK, Put
<1>2. CASE src' = [src EXCEPT ![k][n] = v]
  BY <1>1, <1>2
<1>3. CASE k = "sum" /\ src' = src
  BY <1>3
<1>4. CASE k = "sum" /\ world.badSums /\ src' = [src EXCEPT ![k][n] = Torn]
  BY <1>1, <1>4
<1> QED BY <1>1, <1>2, <1>3, <1>4

LEMMA DeliverEffect ==
  ASSUME DecryptTypeOK, RestSound, NEW n \in Names, Deliver(n)
  PROVE  /\ UNCHANGED <<queueVars, archive, failed, dead, plain, path, found, jobVars, worldVars>>
         /\ Begins(n) \/ \E k \in Kinds : Arrives(k, n)
         /\ \A m \in Names \ {n} : Stays(m)
         /\ RestSound'
<1>1. UNCHANGED <<queueVars, archive, failed, dead, plain, path, found, jobVars, worldVars>>
  BY DEF Deliver
<1>2. /\ latest \in [Names -> Contents] /\ rest \in [Names -> Seq(Kinds)]
      /\ Kinds = {"enc", "key", "sum"}
  BY ConstantFacts DEF DecryptTypeOK
<1>3. CASE rest[n] = <<>>
  <2>1. /\ MayBegin(n) /\ bundles' = bundles + 1 /\ latest' = [latest EXCEPT ![n] = bundles']
        /\ rest' = [rest EXCEPT ![n] = Tail(Order)] /\ Put(Head(Order), n, bundles')
    BY <1>3 DEF Deliver
  <2>2. latest'[n] = bundles' /\ bundles' # NoFile /\ rest'[n] = Tail(Order)
        /\ \A m \in Names \ {n} : latest'[m] = latest[m] /\ rest'[m] = rest[m]
    BY <1>2, <2>1 DEF DecryptTypeOK, NoFile
  <2>3. Head(Order) \in Kinds /\ Head(Order) # "enc"
    BY <1>2, OrderFacts
  <2>4. \A m \in Names \ {n} : Stays(m)
    BY <1>2, <2>1, <2>2, <2>3, PutEffect DEF Stays
  <2>5. src'["enc"][n] = src["enc"][n]
    BY <1>2, <2>1, <2>3, PutEffect
  <2>6. CASE world.keyFirst
    <3>1. Head(Order) = "key" /\ rest'[n] = <<"sum", "enc">>
      BY <2>2, <2>6, OrderFacts
    <3>2. ToSet(rest'[n]) = {"sum", "enc"}
      BY <3>1 DEF ToSet
    <3>3. src'["key"][n] = latest'[n] /\ src'["sum"][n] = src["sum"][n]
      BY <1>2, <2>1, <2>2, <3>1, PutEffect
    <3>4. Begins(n)
      BY <1>3, <2>1, <2>2, <2>5, <2>6, <3>2, <3>3, ComingFacts DEF Begins, MayBegin
    <3>5. RestSound'
      BY <1>1, <2>2, <2>6, <3>1 DEF RestSound, worldVars
    <3> QED BY <1>1, <2>4, <3>4, <3>5
  <2>7. CASE ~world.keyFirst
    <3>1. Head(Order) = "sum" /\ rest'[n] = <<"enc", "key">>
      BY <2>2, <2>7, OrderFacts
    <3>2. ToSet(rest'[n]) = {"enc", "key"}
      BY <3>1 DEF ToSet
    <3>3. src'["key"][n] = src["key"][n] /\ SumOf(n)
      BY <1>2, <2>1, <2>2, <3>1, PutEffect DEF SumOf
    <3>4. Begins(n)
      BY <1>3, <2>1, <2>2, <2>5, <2>7, <3>2, <3>3, ComingFacts DEF Begins, MayBegin
    <3>5. RestSound'
      BY <1>1, <2>2, <2>7, <3>1 DEF RestSound, worldVars
    <3> QED BY <1>1, <2>4, <3>4, <3>5
  <2> QED BY <2>6, <2>7
<1>4. CASE rest[n] # <<>>
  <2> DEFINE k == Head(rest[n])
  <2>1. /\ rest' = [rest EXCEPT ![n] = Tail(rest[n])] /\ latest' = latest
        /\ Put(k, n, latest[n])
    BY <1>4 DEF Deliver
  <2>2. rest'[n] = Tail(rest[n]) /\ \A m \in Names \ {n} : rest'[m] = rest[m]
    BY <1>2, <2>1
  <2>3. k \in Kinds /\ k \in Coming(n) /\ latest[n] # NoFile
        /\ ToSet(rest'[n]) = Coming(n) \ {k}
    BY <1>2, <1>4, <2>2, ComingFacts DEF RestSound
  <2> HIDE DEF k
  <2>4. \A m \in Names \ {n} : Stays(m)
    BY <1>2, <2>1, <2>2, <2>3, PutEffect DEF Stays
  <2>5. Arrives(k, n)
    BY <1>2, <2>1, <2>3, PutEffect DEF Arrives, SumOf
  <2>6. RestSound'
    <3>1. Tail(rest[n]) \in IF world.keyFirst THEN {<<>>, <<"enc">>} ELSE {<<>>, <<"key">>}
      <4>1. /\ Tail(<<"enc">>) = <<>> /\ Tail(<<"sum", "enc">>) = <<"enc">>
            /\ Tail(<<"key">>) = <<>> /\ Tail(<<"enc", "key">>) = <<"key">>
        OBVIOUS
      <4>2. \/ world.keyFirst /\ (rest[n] = <<"enc">> \/ rest[n] = <<"sum", "enc">>)
            \/ ~world.keyFirst /\ (rest[n] = <<"key">> \/ rest[n] = <<"enc", "key">>)
        BY <1>4 DEF RestSound
      <4> QED BY <4>1, <4>2
    <3> QED BY <1>1, <2>1, <2>2, <2>3, <3>1 DEF RestSound, worldVars
  <2> QED BY <1>1, <2>3, <2>4, <2>5, <2>6
<1> QED BY <1>3, <1>4

----------------------------------------------------------------------------
(* What the processor does to the files *)

\* It writes the output of a bundle only where ciphertext and key are there.
LEMMA OutputEffect ==
  ASSUME DecryptTypeOK, JobBorn, SourceIsLatest, JobSound, OpenFiles \/ WritePlain
  PROVE  /\ UNCHANGED <<dirs, worldVars, userVars>>
         /\ \A n \in Names :
              \/ plain'[n] = plain[n]
              \/ n = Name /\ src["enc"][n] = latest[n] /\ NoFile \notin {src["enc"][n], src["key"][n]}
<1>1. Name \in Names /\ plain \in [Names -> Contents]
  BY NameType DEF OpenFiles, WritePlain, DecryptTypeOK
<1>2. plain' = plain \/ \E x : plain' = [plain EXCEPT ![Name] = x]
  BY DEF OpenFiles, WritePlain
<1>3. plain' = plain \/ NoFile \notin {src["enc"][Name], src["key"][Name]}
  BY DEF OpenFiles, WritePlain, JobSound
<1>4. UNCHANGED <<dirs, worldVars, userVars>>
  BY DEF OpenFiles, WritePlain
<1> QED BY <1>1, <1>2, <1>3, <1>4 DEF SourceIsLatest

\* It archives or deletes one file of the bundle in work, which is decrypted.
Handled(k) ==
  /\ UNCHANGED <<failed, dead, plain, worldVars, userVars>>
  /\ Name \in Names /\ plain[Name] = latest[Name]
  /\ \A n \in Names, j \in Kinds :
       j # k \/ n # Name => src'[j][n] = src[j][n] /\ archive'[j][n] = archive[j][n]
  /\ src'[k][Name] \in {src[k][Name], NoFile}
  /\ ~world.stuck /\ settings.behavior # "keep" => src'[k][Name] = NoFile
  /\ settings.behavior = "keep" => src' = src

LEMMA HandleEffect ==
  ASSUME DecryptTypeOK, Name \in Names, NEW k \in Kinds, HandleSourceFile(k),
         plain[Name] = latest[Name], UNCHANGED <<plain, worldVars, userVars>>
  PROVE  Handled(k)
<1>1. /\ archive' = archive \/ archive' = [archive EXCEPT ![k][Name] = src[k][Name]]
      /\ src' = src \/ src' = [src EXCEPT ![k][Name] = NoFile]
      /\ settings.behavior = "keep" => src' = src
      /\ ~world.stuck /\ settings.behavior # "keep" => src' = [src EXCEPT ![k][Name] = NoFile]
      /\ UNCHANGED <<failed, dead>>
  BY DEF HandleSourceFile
<1>2. src \in [Kinds -> [Names -> Contents]] /\ archive \in [Kinds -> [Names -> Contents]]
  BY DEF DecryptTypeOK
<1>3. \A n \in Names, j \in Kinds :
        j # k \/ n # Name => src'[j][n] = src[j][n] /\ archive'[j][n] = archive[j][n]
  BY <1>1, <1>2
<1>4. /\ src'[k][Name] \in {src[k][Name], NoFile}
      /\ ~world.stuck /\ settings.behavior # "keep" => src'[k][Name] = NoFile
  BY <1>1, <1>2
<1> QED BY <1>1, <1>3, <1>4 DEF Handled

LEMMA FinishEffect ==
  ASSUME DecryptTypeOK, JobBorn, JobSound
  PROVE  /\ FinishEnc => Handled("enc")
         /\ FinishKey => Handled("key")
         /\ FinishSum => Handled("sum")
<1>1. ASSUME FinishEnc \/ FinishKey \/ FinishSum
      PROVE  Name \in Names /\ plain[Name] = latest[Name]
             /\ UNCHANGED <<plain, worldVars, userVars>>
  <2>1. step \in {"done", "keyDone", "sumDone"} /\ UNCHANGED <<plain, worldVars, userVars>>
    BY <1>1 DEF FinishEnc, FinishKey, FinishSum
  <2> QED BY <2>1, NameType DEF JobSound
<1> QED BY <1>1, HandleEffect, ConstantFacts DEF FinishEnc, FinishKey, FinishSum

\* It moves the ciphertext of the bundle in work away, and only that.
Aside(n) ==
  /\ n = Name /\ src["enc"][n] = latest[n] /\ src["enc"][n] # NoFile
  /\ src'["enc"][n] = NoFile /\ latest[n] \in {failed'[n], dead'[n]}

LEMMA MoveEffect ==
  ASSUME DecryptTypeOK, JobBorn, SourceIsLatest, MoveToDLQ \/ MoveToFailed
  PROVE  /\ UNCHANGED <<archive, plain, worldVars, userVars>>
         /\ step \in {"toDead", "toFailed"}
         /\ \A n \in Names :
              /\ UNCHANGED <<src["key"][n], src["sum"][n]>>
              /\ Aside(n) \/ UNCHANGED <<src["enc"][n], failed[n], dead[n]>>
<1>1. /\ Name \in Names /\ UNCHANGED <<archive, plain, worldVars, userVars>>
      /\ step \in {"toDead", "toFailed"}
  BY NameType DEF MoveToDLQ, MoveToFailed, Stuck, dirs
<1>2. /\ src \in [Kinds -> [Names -> Contents]] /\ {failed, dead} \subseteq [Names -> Contents]
      /\ "enc" \in Kinds /\ "key" \in Kinds /\ "sum" \in Kinds
  BY DEF DecryptTypeOK, Kinds
<1>3. CASE UNCHANGED <<src, failed, dead>>
  BY <1>1, <1>3
<1>4. ASSUME src' = [src EXCEPT !["enc"][Name] = NoFile],
             \/ failed' = MovedTo(failed) /\ dead' = dead
             \/ dead' = MovedTo(dead) /\ failed' = failed,
             NEW n \in Names
      PROVE  /\ UNCHANGED <<src["key"][n], src["sum"][n]>>
             /\ Aside(n) \/ UNCHANGED <<src["enc"][n], failed[n], dead[n]>>
  <2>1. UNCHANGED <<src["key"][n], src["sum"][n]>>
        /\ src'["enc"][Name] = NoFile /\ (n # Name => src'["enc"][n] = src["enc"][n])
    BY <1>1, <1>2, <1>4
  <2>2. src["enc"][Name] = NoFile => UNCHANGED <<failed, dead>>
    BY <1>4 DEF MovedTo
  <2>3. /\ n # Name => UNCHANGED <<failed[n], dead[n]>>
        /\ src["enc"][Name] # NoFile => src["enc"][Name] \in {failed'[Name], dead'[Name]}
    BY <1>1, <1>2, <1>4 DEF MovedTo
  <2> QED BY <2>1, <2>2, <2>3 DEF Aside, SourceIsLatest
<1> QED
  BY <1>1, <1>3, <1>4 DEF MoveToDLQ, MoveToFailed, EncMovedAway, Stuck, dirs

----------------------------------------------------------------------------
(* The parts of the invariant *)

\* Only a delivery puts a file into the source directory.
LEMMA SourceEffect ==
  ASSUME DecryptTypeOK, JobBorn, SourceIsLatest, JobSound, [DecryptNext]_decryptVars,
         ~\E n \in Names : Deliver(n)
  PROVE  /\ UNCHANGED <<worldVars, userVars>>
         /\ \A n \in Names, k \in Kinds : src'[k][n] \in {NoFile, src[k][n]}
<1>1. CASE Quiet
  BY <1>1, QuietFiles DEF dirs
<1>2. CASE OpenFiles \/ WritePlain
  BY <1>2, OutputEffect DEF dirs
<1>3. ASSUME NEW j \in Kinds, Handled(j)
      PROVE  /\ UNCHANGED <<worldVars, userVars>>
             /\ \A n \in Names, k \in Kinds : src'[k][n] \in {NoFile, src[k][n]}
  BY <1>3 DEF Handled
<1>4. CASE FinishEnc \/ FinishKey \/ FinishSum
  BY <1>3, <1>4, FinishEffect, ConstantFacts
<1>5. CASE MoveToDLQ \/ MoveToFailed
  BY <1>5, MoveEffect DEF Kinds, Aside
<1> QED BY <1>1, <1>2, <1>4, <1>5, StepCases

LEMMA RestSoundKept ==
  ASSUME DecryptTypeOK, JobBorn, RestSound, SourceIsLatest, JobSound, [DecryptNext]_decryptVars
  PROVE  RestSound'
<1>1. ASSUME NEW n \in Names, Deliver(n) PROVE RestSound'
  BY <1>1, DeliverEffect
<1>2. CASE UNCHANGED <<worldVars, userVars>>
  BY <1>2 DEF RestSound, worldVars, userVars
<1> QED BY <1>1, <1>2, SourceEffect

LEMMA SourceIsLatestKept ==
  ASSUME DecryptTypeOK, JobBorn, RestSound, SourceIsLatest, JobSound, [DecryptNext]_decryptVars
  PROVE  SourceIsLatest'
<1> DEFINE Sound(n) ==
      /\ src["enc"][n] \in {NoFile, latest[n]}
      /\ "enc" \in Coming(n) => src["enc"][n] = NoFile
      /\ "key" \notin Coming(n) => src["key"][n] \in {NoFile, latest[n]}
<1> SUFFICES ASSUME NEW n \in Names PROVE Sound(n)'
  BY DEF SourceIsLatest
<1>1. Sound(n)
  BY DEF SourceIsLatest
<1>2. CASE Stays(n)
  BY <1>1, <1>2 DEF Stays, Coming
<1>3. CASE Begins(n)
  BY <1>3 DEF Begins, Coming
<1>4. ASSUME NEW k \in Kinds, Arrives(k, n) PROVE Sound(n)'
  BY <1>1, <1>4 DEF Arrives, Coming, Kinds
<1>5. CASE ~\E m \in Names : Deliver(m)
  BY <1>1, <1>5, SourceEffect, ConstantFacts DEF userVars, Coming, Kinds
<1> QED BY <1>2, <1>3, <1>4, <1>5, DeliverEffect

\* The last bundle of a name is kept, its ciphertext and its key.
LEMMA FilesKept ==
  ASSUME DecryptTypeOK, JobBorn, RestSound, SourceIsLatest, JobSound, [DecryptNext]_decryptVars,
         NEW n \in Names, EncKept(n), KeyKept(n)
  PROVE  EncKept(n)' /\ KeyKept(n)'
<1>1. ASSUME NEW m \in Names, Deliver(m) PROVE EncKept(n)' /\ KeyKept(n)'
  <2>1. UNCHANGED <<archive, failed, dead, plain>>
    BY <1>1, DeliverEffect
  <2>2. CASE Stays(n)
    BY <2>1, <2>2 DEF Stays, EncKept, KeyKept, Coming
  <2>3. CASE Begins(n)
    BY <2>1, <2>3 DEF Begins, EncKept, KeyKept, Coming
  <2>4. ASSUME NEW k \in Kinds, Arrives(k, n) PROVE EncKept(n)' /\ KeyKept(n)'
    BY <2>1, <2>4 DEF Arrives, EncKept, KeyKept, Coming, Kinds
  <2> QED BY <1>1, <2>2, <2>3, <2>4, DeliverEffect
<1>2. CASE Quiet
  BY <1>2, QuietFiles DEF EncKept, KeyKept, Coming, dirs, userVars
<1>3. CASE OpenFiles \/ WritePlain
  BY <1>3, OutputEffect DEF EncKept, KeyKept, Coming, dirs, userVars, SourceIsLatest
<1>4. ASSUME NEW k \in Kinds, Handled(k) PROVE EncKept(n)' /\ KeyKept(n)'
  <2>1. CASE n = Name
    BY <1>4, <2>1 DEF Handled, EncKept, KeyKept, userVars
  <2>2. CASE n # Name
    BY <1>4, <2>2, ConstantFacts DEF Handled, EncKept, KeyKept, Coming, userVars, Kinds
  <2> QED BY <2>1, <2>2
<1>5. CASE FinishEnc \/ FinishKey \/ FinishSum
  BY <1>4, <1>5, FinishEffect, ConstantFacts
<1>6. CASE MoveToDLQ \/ MoveToFailed
  BY <1>6, MoveEffect DEF EncKept, KeyKept, Coming, userVars, Aside
<1> QED BY <1>1, <1>2, <1>3, <1>5, <1>6, StepCases

LEMMA JobSoundKept ==
  ASSUME DecryptTypeOK, OrderInv, JobBorn, RestSound, SourceIsLatest, JobSound,
         [DecryptNext]_decryptVars
  PROVE  JobSound'
<1> SUFFICES ASSUME step' \in {"open", "decrypting", "verify", "done", "keyDone", "sumDone"}
             PROVE  JobSound'
  BY DEF JobSound
<1>1. ASSUME UNCHANGED <<jobVars, dirs, plain, userVars, worldVars>> PROVE JobSound'
  <2>1. Name' = Name
    BY <1>1, NameKept DEF jobVars
  <2> QED BY <1>1, <2>1 DEF JobSound, jobVars, dirs, userVars, worldVars
<1>2. ASSUME NEW n \in Names, Deliver(n) PROVE JobSound'
  <2>1. UNCHANGED <<step, job, dek, opened, plain, world, settings>>
    BY <1>2, DeliverEffect DEF jobVars, worldVars
  <2>2. Name' = Name /\ Name \in Names /\ job # NoItem
    BY <2>1, NameKept, NoItemAssumption DEF JobBorn
  <2>3. Stays(Name) \/ \E k \in Kinds : Arrives(k, Name)
    BY <1>2, <2>2, DeliverEffect DEF Begins, Name
  <2>4. CASE Stays(Name)
    BY <2>1, <2>2, <2>4 DEF Stays, JobSound
  <2>5. ASSUME NEW k \in Kinds, Arrives(k, Name) PROVE JobSound'
    <3>1. CASE k = "key"
      BY <2>1, <2>2, <2>5, <3>1 DEF Arrives, JobSound, Kinds
    <3>2. CASE k # "key"
      <4>1. "enc" \in Coming(Name) /\ src["enc"][Name] = NoFile
        BY <2>2, <2>5, <3>2, ComingFacts DEF Arrives, Kinds, SourceIsLatest
      <4> QED BY <2>1, <2>2, <2>5, <3>2, <4>1 DEF Arrives, JobSound, Kinds
    <3> QED BY <3>1, <3>2
  <2> QED BY <2>3, <2>4, <2>5
<1>3. CASE Quiet
  <2>1. CASE WatcherStep
    BY <1>1, <1>3, <2>1, WatcherEffect, QuietFiles
  <2>2. CASE StartService \/ ServiceStep \/ UNCHANGED decryptVars
    BY <1>1, <2>2 DEF StartService, ServiceStep, decryptVars
  <2>3. ~TakeJob /\ ~FailJob /\ ~StopService
    BY DEF TakeJob, FailJob, StopService, Idle
  <2>4. CASE ReadKey
    <3>1. step' = "open" /\ src' = src /\ src["key"][Name] # NoFile /\ step # "idle" /\ job' = job
      BY <2>4 DEF ReadKey, dirs
    <3> QED BY <3>1, NameKept DEF JobSound
  <2>5. CASE Verify
    <3>1. /\ step = "verify" /\ step' = "done"
          /\ UNCHANGED <<job, opened, plain, src, latest, settings, world>>
          /\ world.faults \/ src["sum"][Name] \in {NoFile, plain[Name]}
      BY <2>5 DEF Verify, dirs, worldVars, userVars
    <3> QED BY <3>1, NameKept DEF JobSound
  <2> QED BY <1>3, <2>1, <2>2, <2>3, <2>4, <2>5 DEF Quiet
<1>4. CASE OpenFiles
  <2>1. /\ step = "open" /\ step' = "decrypting" /\ src' = src /\ job' = job
        /\ opened' = src["enc"][Name] /\ src["enc"][Name] # NoFile
    BY <1>4 DEF OpenFiles, dirs
  <2> QED BY <2>1, NameKept DEF JobSound
<1>5. CASE WritePlain
  <2>1. /\ step = "decrypting" /\ step' = AfterPlain
        /\ UNCHANGED <<job, opened, src, latest, settings, world>>
        /\ plain' = [plain EXCEPT ![Name] = opened]
    BY <1>5 DEF WritePlain, dirs, worldVars, userVars, AfterPlain
  <2>2. Name' = Name /\ Name \in Names
    BY <2>1, NameKept
  <2>3. plain'[Name] = latest[Name] /\ src["enc"][Name] # NoFile /\ opened = src["enc"][Name]
    BY <2>1, <2>2 DEF JobSound, SourceIsLatest, DecryptTypeOK
  <2> QED BY <2>1, <2>2, <2>3 DEF JobSound, AfterPlain
<1>6. CASE FinishEnc \/ FinishKey
  <2>1. step \in {"done", "keyDone"} /\ step' \in {"keyDone", "sumDone"} /\ job' = job
        /\ UNCHANGED <<plain, latest>>
    BY <1>6 DEF FinishEnc, FinishKey, userVars
  <2> QED BY <2>1, NameKept DEF JobSound
<1>7. ~(FinishSum \/ MoveToDLQ \/ MoveToFailed)
  BY DEF FinishSum, MoveToDLQ, MoveToFailed, Idle
<1> QED BY <1>2, <1>3, <1>4, <1>5, <1>6, <1>7, StepCases

\* Where names are not reused, the item in work is about a ciphertext that came:
\* no other one comes under that name.  Where reads do not fail, no file does.
LEMMA FreshWork ==
  ASSUME DecryptTypeOK, JobBorn, RestSound, FreshNames, ~world.reuse, step # "idle"
  PROVE  /\ Name \in Names /\ Came("enc", Name)
         /\ ~world.faults => Delivered(Name)
         /\ \A n \in Names : Deliver(n) =>
              /\ latest'[Name] = latest[Name] /\ src'["enc"][Name] = src["enc"][Name]
              /\ ~world.faults => Stays(Name)
<1>1. /\ Name \in Names /\ job \in Items /\ Came("enc", Name)
      /\ ~world.faults => Came("key", Name)
  BY NameType DEF JobBorn, FreshNames, Name
<1>2. ~world.faults => Coming(Name) = {} /\ Delivered(Name)
  <2>1. Coming(Name) \subseteq Kinds
    BY <1>1 DEF Coming, ToSet, DecryptTypeOK
  <2> QED BY <1>1, <2>1, ComingFacts DEF Kinds, Came, Delivered
<1>3. ASSUME NEW n \in Names, Deliver(n)
      PROVE  /\ latest'[Name] = latest[Name] /\ src'["enc"][Name] = src["enc"][Name]
             /\ ~world.faults => Stays(Name)
  <2>1. ~Begins(Name)
    BY <1>1 DEF Begins, Came
  <2>2. CASE Stays(Name)
    BY <1>3, <2>2, DeliverEffect DEF Stays, Name, jobVars
  <2>3. ASSUME NEW k \in Kinds, Arrives(k, Name)
        PROVE  /\ latest'[Name] = latest[Name] /\ src'["enc"][Name] = src["enc"][Name]
               /\ world.faults
    BY <1>1, <1>2, <2>3 DEF Arrives, Came, Kinds
  <2> QED BY <1>1, <1>3, <2>1, <2>2, <2>3, DeliverEffect
<1> QED BY <1>1, <1>2, <1>3

LEMMA FreshNamesKept ==
  ASSUME DecryptTypeOK, OrderInv, JobBorn, RestSound, SourceIsLatest, JobSound, FreshNames,
         [DecryptNext]_decryptVars
  PROVE  FreshNames'
<1> DEFINE Fresh(n) ==
      /\ "key" \in Coming(n) => src["key"][n] = NoFile
      /\ latest[n] # NoFile /\ "enc" \notin Coming(n) /\ Gone(n) => plain[n] = latest[n]
      /\ ~world.badSums => src["sum"][n] \in {NoFile, latest[n]}
<1>1. world' = world
  BY SourceEffect, DeliverEffect DEF worldVars
<1> SUFFICES ASSUME ~world.reuse
             PROVE  /\ \A n \in Names : Fresh(n)'
                    /\ \A i \in Items : status'[i] # "unborn" => Came("enc", path[i])'
                    /\ ~world.faults =>
                         /\ \A i \in Items : status'[i] # "unborn" => Came("key", path[i])'
                         /\ found' # NoName => Came("key", found)'
                    /\ step' \in {"open", "decrypting"} => dek' = latest'[Name']
  BY <1>1 DEF FreshNames
<1>2. /\ \A n \in Names : Fresh(n)
      /\ \A i \in Items : status[i] # "unborn" => Came("enc", path[i])
      /\ ~world.faults =>
           /\ \A i \in Items : status[i] # "unborn" => Came("key", path[i])
           /\ found # NoName => Came("key", found)
      /\ step \in {"open", "decrypting"} => dek = latest[Name]
  BY DEF FreshNames
<1>3. ASSUME NEW n \in Names PROVE Fresh(n)'
  <2>1. Fresh(n)
    BY <1>2
  <2>2. ASSUME NEW m \in Names, Deliver(m) PROVE Fresh(n)'
    <3>1. UNCHANGED <<failed, dead, plain, world>>
      BY <2>2, DeliverEffect DEF worldVars
    <3>2. CASE Stays(n)
      BY <2>1, <3>1, <3>2 DEF Stays, Coming, Gone
    <3>3. CASE Begins(n)
      BY <2>1, <3>1, <3>3 DEF Begins, Coming, SumOf, SourceIsLatest
    <3>4. ASSUME NEW k \in Kinds, Arrives(k, n) PROVE Fresh(n)'
      BY <2>1, <3>1, <3>4 DEF Arrives, Coming, SumOf, Kinds, Gone
    <3> QED BY <2>2, <3>2, <3>3, <3>4, DeliverEffect
  <2>3. CASE ~\E m \in Names : Deliver(m)
    <3>1. /\ UNCHANGED <<world, latest, rest>>
          /\ src'["key"][n] \in {NoFile, src["key"][n]} /\ src'["sum"][n] \in {NoFile, src["sum"][n]}
      BY <2>3, SourceEffect, ConstantFacts DEF worldVars, userVars
    <3>2. ASSUME latest[n] # NoFile, "enc" \notin Coming(n), Gone(n)' PROVE plain'[n] = latest[n]
      <4>1. CASE Quiet
        BY <2>1, <3>2, <4>1, QuietFiles DEF Gone, dirs
      <4>2. CASE OpenFiles \/ WritePlain
        BY <2>1, <3>2, <4>2, OutputEffect DEF Gone, dirs
      <4>3. ASSUME NEW k \in Kinds, Handled(k) PROVE plain'[n] = latest[n]
        <5>1. CASE n = Name
          BY <4>3, <5>1 DEF Handled
        <5>2. CASE n # Name
          BY <2>1, <3>2, <4>3, <5>2, ConstantFacts DEF Handled, Gone
        <5> QED BY <5>1, <5>2
      <4>4. CASE FinishEnc \/ FinishKey \/ FinishSum
        BY <4>3, <4>4, FinishEffect, ConstantFacts
      <4>5. CASE MoveToDLQ \/ MoveToFailed
        BY <2>1, <3>2, <4>5, MoveEffect DEF Gone, Aside
      <4> QED BY <2>3, <4>1, <4>2, <4>4, <4>5, StepCases
    <3> QED BY <2>1, <3>1, <3>2 DEF Coming
  <2> QED BY <2>2, <2>3
<1>4. ASSUME NEW k \in Kinds, NEW n \in Names, Came(k, n)
      PROVE  k \notin ToSet(rest'[n]) /\ latest'[n] # NoFile
  <2>1. latest[n] # NoFile /\ k \notin ToSet(rest[n])
    BY <1>4 DEF Came, Coming
  <2>2. ASSUME NEW m \in Names, Deliver(m) PROVE k \notin ToSet(rest'[n]) /\ latest'[n] # NoFile
    <3>1. Stays(n) \/ \E j \in Kinds : Arrives(j, n)
      BY <2>1, <2>2, DeliverEffect DEF Begins
    <3>2. CASE Stays(n)
      BY <2>1, <3>2 DEF Stays
    <3>3. ASSUME NEW j \in Kinds, Arrives(j, n)
          PROVE  k \notin ToSet(rest'[n]) /\ latest'[n] # NoFile
      BY <2>1, <3>3 DEF Arrives, Coming
    <3> QED BY <3>1, <3>2, <3>3
  <2>3. CASE ~\E m \in Names : Deliver(m)
    BY <2>1, <2>3, SourceEffect DEF userVars
  <2> QED BY <2>2, <2>3
<1>5. ASSUME NEW k \in Kinds, NEW i \in Items, status'[i] # "unborn",
             status[i] # "unborn" => Came(k, path[i]),
             Settle /\ found \in Names /\ src["enc"][found] # NoFile => Came(k, found)
      PROVE  Came(k, path[i])'
  <2>1. CASE status[i] # "unborn"
    <3>1. path'[i] = path[i] /\ path[i] \in Names /\ Came(k, path[i])
      BY <1>5, <2>1, PathKept DEF DecryptTypeOK
    <3>2. k \notin ToSet(rest'[path[i]]) /\ latest'[path[i]] # NoFile
      BY <1>4, <3>1
    <3> QED BY <3>1, <3>2 DEF Came, Coming
  <2>2. CASE status[i] = "unborn"
    <3>1. Settle /\ found \in Names /\ path'[i] = found /\ src["enc"][found] # NoFile
      BY <1>5, <2>2, OnlySettleCreates
    <3>2. Came(k, found)
      BY <1>5, <3>1
    <3>3. UNCHANGED <<rest, latest>>
      BY <3>1 DEF Settle, userVars
    <3> QED BY <3>1, <3>2, <3>3 DEF Came, Coming
  <2> QED BY <2>1, <2>2
<1>6. ASSUME ~world.faults, found' # NoName PROVE Came("key", found)'
  <2>1. CASE found' = found
    <3>1. found \in Names /\ Came("key", found)
      BY <1>2, <1>6, <2>1 DEF DecryptTypeOK
    <3>2. "key" \notin ToSet(rest'[found]) /\ latest'[found] # NoFile
      BY <1>4, <3>1 DEF Kinds
    <3> QED BY <2>1, <3>2 DEF Came, Coming
  <2>2. CASE found' # found
    <3>1. \/ \E n \in Names : ScanFile(n)
          \/ PollKey
      <4>1. ~(TakeJob \/ ReadKey \/ OpenFiles \/ WritePlain \/ Verify \/ FailJob)
        BY <2>2 DEF TakeJob, ReadKey, OpenFiles, WritePlain, Verify, FailJob, watchVars
      <4>2. ~(FinishEnc \/ FinishKey \/ FinishSum \/ MoveToDLQ \/ MoveToFailed)
        BY <2>2 DEF FinishEnc, FinishKey, FinishSum, MoveToDLQ, MoveToFailed, watchVars
      <4>3. ~(StartService \/ StopService \/ ServiceStep \/ UNCHANGED decryptVars)
        BY <1>6, <2>2 DEF StartService, StopService, ServiceStep, watchVars, decryptVars
      <4>4. ~(Arm \/ ReadDir \/ ScanDone \/ Settle \/ \E n \in Names : Deliver(n))
        BY <1>6, <2>2 DEF Arm, ReadDir, ScanDone, Settle, Deliver
      <4> QED BY <4>1, <4>2, <4>3, <4>4 DEF DecryptNext, ProcessorStep, WatcherStep
    <3>2. found' \in Names /\ src["key"][found'] # NoFile /\ UNCHANGED userVars
      BY <1>6, <2>2, <3>1 DEF ScanFile, PollKey, Dropped, DecryptTypeOK
    <3>3. "key" \notin Coming(found') /\ latest[found'] # NoFile
      BY <1>2, <3>2 DEF SourceIsLatest
    <3> QED BY <3>2, <3>3 DEF userVars, Came, Coming
  <2> QED BY <2>1, <2>2
<1>7. ASSUME step' \in {"open", "decrypting"} PROVE dek' = latest'[Name']
  <2>1. ASSUME step \in {"open", "decrypting"}, UNCHANGED <<job, dek>>, UNCHANGED userVars
        PROVE  dek' = latest'[Name']
    BY <1>2, <2>1, NameKept DEF userVars
  <2>2. ASSUME NEW n \in Names, Deliver(n) PROVE dek' = latest'[Name']
    <3>1. UNCHANGED jobVars /\ step # "idle"
      BY <1>7, <2>2, DeliverEffect DEF jobVars
    <3>2. latest'[Name] = latest[Name] /\ Name' = Name
      BY <2>2, <3>1, FreshWork, NameKept DEF jobVars
    <3> QED BY <1>2, <1>7, <3>1, <3>2 DEF jobVars
  <2>3. CASE ReadKey
    <3>1. step # "idle" /\ job' = job /\ dek' = src["key"][Name] /\ dek' # NoFile /\ UNCHANGED userVars
      BY <1>7, <2>3 DEF ReadKey
    <3>2. Name \in Names /\ "key" \notin Coming(Name)
      BY <1>2, <3>1, FreshWork
    <3>3. dek' = latest[Name]
      BY <3>1, <3>2 DEF SourceIsLatest
    <3> QED BY <3>1, <3>3, NameKept DEF userVars
  <2>4. CASE OpenFiles
    <3>1. step = "open" /\ UNCHANGED <<job, dek>> /\ UNCHANGED userVars
      BY <2>4 DEF OpenFiles
    <3> QED BY <2>1, <3>1
  <2>5. CASE WatcherStep
    BY <1>7, <2>1, <2>5, WatcherEffect, QuietFiles DEF Quiet, jobVars
  <2>6. CASE StartService \/ ServiceStep \/ UNCHANGED decryptVars
    BY <1>7, <2>1, <2>6 DEF StartService, ServiceStep, decryptVars, jobVars
  <2>7. ~(TakeJob \/ WritePlain \/ Verify \/ FailJob \/ StopService)
    BY <1>7 DEF TakeJob, WritePlain, AfterPlain, Verify, FailJob, StopService, Idle
  <2>8. ~(FinishEnc \/ FinishKey \/ FinishSum \/ MoveToDLQ \/ MoveToFailed)
    BY <1>7 DEF FinishEnc, FinishKey, FinishSum, MoveToDLQ, MoveToFailed, Idle
  <2> QED BY <2>2, <2>3, <2>4, <2>5, <2>6, <2>7, <2>8, StepCases DEF Quiet
<1>8. ASSUME NEW i \in Items, status'[i] # "unborn" PROVE Came("enc", path[i])'
  <2>1. found \in Names /\ src["enc"][found] # NoFile => Came("enc", found)
    BY DEF SourceIsLatest, Came
  <2> QED BY <1>2, <1>5, <1>8, <2>1 DEF Kinds
<1>9. ASSUME ~world.faults, NEW i \in Items, status'[i] # "unborn" PROVE Came("key", path[i])'
  <2>1. found \in Names => Came("key", found)
    BY <1>2, <1>9, NoNameAssumption
  <2> QED BY <1>2, <1>5, <1>9, <2>1 DEF Kinds
<1> QED BY <1>3, <1>6, <1>7, <1>8, <1>9

LEMMA KeysOutliveKept ==
  ASSUME DecryptTypeOK, OrderInv, JobBorn, RestSound, SourceIsLatest, JobSound, FreshNames,
         KeysOutlive, [DecryptNext]_decryptVars
  PROVE  KeysOutlive'
<1> DEFINE Outlives(n) ==
      /\ Delivered(n) /\ src["key"][n] = NoFile => src["enc"][n] = NoFile
      /\ "enc" \in Coming(n) /\ "key" \notin Coming(n) => src["key"][n] # NoFile
<1> DEFINE EncFirst ==
      step \in {"keyDone", "sumDone"} /\ settings.behavior # "keep" => src["enc"][Name] = NoFile
<1>1. UNCHANGED worldVars
  BY SourceEffect, DeliverEffect
<1> SUFFICES ASSUME ~world.reuse, ~world.stuck
             PROVE  (\A n \in Names : Outlives(n)') /\ EncFirst'
  BY <1>1 DEF KeysOutlive, worldVars
<1>2. (\A n \in Names : Outlives(n)) /\ EncFirst
  BY DEF KeysOutlive
<1>3. ASSUME NEW n \in Names PROVE Outlives(n)'
  <2>1. Outlives(n)
    BY <1>2
  <2>2. CASE Stays(n)
    BY <2>1, <2>2 DEF Stays, Coming, Delivered
  <2>3. CASE Begins(n)
    <3>1. rest'[n] # <<>>
      BY <2>3 DEF Begins, ToSet
    <3> QED BY <2>3, <3>1 DEF Begins, Coming, Delivered
  <2>4. ASSUME NEW k \in Kinds, Arrives(k, n) PROVE Outlives(n)'
    <3>1. /\ k \in Coming(n) /\ latest[n] # NoFile
          /\ k = "key" => src'["key"][n] = latest[n]
          /\ k # "key" => src'["key"][n] = src["key"][n]
          /\ ToSet(rest'[n]) = Coming(n) \ {k}
      BY <2>4 DEF Arrives, Kinds
    <3>2. rest'[n] = <<>> => Coming(n) = {k}
      BY <3>1 DEF ToSet
    <3>3. k # "key" /\ Coming(n) = {k} => src["key"][n] # NoFile
      BY <2>1, <3>1, ComingFacts DEF Kinds
    <3> QED BY <2>1, <3>1, <3>2, <3>3 DEF Coming, Delivered
  <2>5. CASE Quiet
    BY <2>1, <2>5, QuietFiles DEF dirs, userVars, Coming, Delivered
  <2>6. CASE OpenFiles \/ WritePlain
    BY <2>1, <2>6, OutputEffect DEF dirs, userVars, Coming, Delivered
  <2>7. CASE MoveToDLQ \/ MoveToFailed
    BY <2>1, <2>7, MoveEffect DEF Aside, userVars, Coming, Delivered
  <2>8. CASE FinishEnc
    <3>1. src'["enc"][n] \in {src["enc"][n], NoFile} /\ src'["key"][n] = src["key"][n]
          /\ UNCHANGED userVars
      BY <2>8, FinishEffect, ConstantFacts DEF Handled
    <3> QED BY <2>1, <3>1 DEF userVars, Coming, Delivered
  <2>9. CASE FinishKey
    <3>1. Handled("key") /\ step = "keyDone"
      BY <2>9, FinishEffect DEF FinishKey
    <3>2. src'["enc"][n] = src["enc"][n] /\ UNCHANGED userVars
      BY <3>1, ConstantFacts DEF Handled
    <3>3. CASE n # Name \/ settings.behavior = "keep"
      <4>1. src'["key"][n] = src["key"][n]
        BY <3>1, <3>3, ConstantFacts DEF Handled
      <4> QED BY <2>1, <3>2, <4>1 DEF userVars, Coming, Delivered
    <3>4. CASE n = Name /\ settings.behavior # "keep"
      <4>1. src["enc"][n] = NoFile /\ "enc" \notin Coming(n)
        BY <1>2, <3>1, <3>4, FreshWork DEF Came
      <4> QED BY <3>2, <4>1 DEF userVars, Coming, Delivered
    <3> QED BY <3>3, <3>4
  <2>10. CASE FinishSum
    <3>1. src'["enc"][n] = src["enc"][n] /\ src'["key"][n] = src["key"][n] /\ UNCHANGED userVars
      BY <2>10, FinishEffect, ConstantFacts DEF Handled
    <3> QED BY <2>1, <3>1 DEF userVars, Coming, Delivered
  <2> QED
    BY <2>2, <2>3, <2>4, <2>5, <2>6, <2>7, <2>8, <2>9, <2>10, StepCases, DeliverEffect
<1>4. ASSUME step' \in {"keyDone", "sumDone"}, settings'.behavior # "keep"
      PROVE  src'["enc"][Name'] = NoFile
  <2>1. settings' = settings
    BY <1>1 DEF worldVars
  <2>2. ASSUME UNCHANGED jobVars, src'["enc"][Name] = src["enc"][Name]
        PROVE  src'["enc"][Name'] = NoFile
    BY <1>2, <1>4, <2>1, <2>2, NameKept DEF jobVars
  <2>3. ASSUME NEW n \in Names, Deliver(n) PROVE src'["enc"][Name'] = NoFile
    <3>1. UNCHANGED jobVars
      BY <2>3, DeliverEffect
    <3>2. step # "idle"
      BY <1>4, <3>1 DEF jobVars
    <3>3. src'["enc"][Name] = src["enc"][Name]
      BY <2>3, <3>2, FreshWork
    <3> QED BY <2>2, <3>1, <3>3
  <2>4. CASE Quiet
    <3>1. UNCHANGED jobVars
      <4>1. ~(TakeJob \/ ReadKey \/ Verify \/ FailJob \/ StopService)
        BY <1>4 DEF TakeJob, ReadKey, Verify, FailJob, StopService, Idle
      <4>2. CASE StartService \/ ServiceStep \/ UNCHANGED decryptVars
        BY <4>2 DEF StartService, ServiceStep, decryptVars
      <4> QED BY <2>4, <4>1, <4>2, WatcherEffect DEF Quiet
    <3>2. src' = src
      BY <2>4, QuietFiles DEF dirs
    <3> QED BY <2>2, <3>1, <3>2
  <2>5. CASE FinishEnc
    <3>1. step # "idle" /\ job' = job /\ Handled("enc")
      BY <2>5, FinishEffect DEF FinishEnc
    <3> QED BY <1>4, <2>1, <3>1, NameKept DEF Handled
  <2>6. CASE FinishKey
    <3>1. step = "keyDone" /\ job' = job /\ Handled("key")
      BY <2>6, FinishEffect DEF FinishKey
    <3>2. src'["enc"][Name] = src["enc"][Name]
      BY <3>1, ConstantFacts DEF Handled
    <3> QED BY <1>2, <1>4, <2>1, <3>1, <3>2, NameKept
  <2>7. ~(OpenFiles \/ WritePlain \/ FinishSum \/ MoveToDLQ \/ MoveToFailed)
    BY <1>4 DEF OpenFiles, WritePlain, AfterPlain, FinishSum, MoveToDLQ, MoveToFailed, Idle
  <2> QED BY <2>3, <2>4, <2>5, <2>6, <2>7, StepCases
<1> QED BY <1>3, <1>4

LEMMA FailsForWantKept ==
  ASSUME DecryptTypeOK, OrderInv, JobBorn, RestSound, SourceIsLatest, JobSound, FreshNames,
         KeysOutlive, FailsForWant, [DecryptNext]_decryptVars
  PROVE  FailsForWant'
<1> DEFINE Failing == step \in {"failing", "toDead", "toFailed"}
<1>1. UNCHANGED worldVars
  BY SourceEffect, DeliverEffect
<1> SUFFICES ASSUME ~world.faults, ~world.stuck, ~world.reuse, ~world.badSums, stops' = 0
             PROVE  life' \in {"down", "up"} /\ (Failing' => src'["enc"][Name'] = NoFile)
  BY <1>1 DEF FailsForWant, worldVars
<1>2. stops = 0 /\ life \in {"down", "up"} /\ life' \in {"down", "up"}
  BY QueueStep, NoStopYet DEF FailsForWant, DecryptTypeOK
<1>3. step # "idle" => ~Cancelled
  BY <1>2 DEF JobBorn, Running, Cancelled
<1>4. Failing => src["enc"][Name] = NoFile
  BY <1>2 DEF FailsForWant
<1> SUFFICES ASSUME Failing' PROVE src'["enc"][Name'] = NoFile
  BY <1>2
<1>5. ASSUME step # "idle", job' = job, src'["enc"][Name] = NoFile
      PROVE  src'["enc"][Name'] = NoFile
  BY <1>5, NameKept
<1>6. ASSUME NEW n \in Names, Deliver(n) PROVE src'["enc"][Name'] = NoFile
  <2>1. Failing /\ job' = job
    BY <1>6, DeliverEffect DEF jobVars
  <2>2. Stays(Name)
    BY <1>6, <2>1, FreshWork
  <2> QED BY <1>4, <1>5, <2>1, <2>2 DEF Stays
<1>7. CASE Quiet
  <2>1. src' = src
    BY <1>7, QuietFiles DEF dirs
  <2>2. CASE UNCHANGED jobVars
    BY <1>4, <1>5, <2>1, <2>2 DEF jobVars
  <2>3. CASE ReadKey
    <3>1. step # "idle" /\ job' = job /\ src["key"][Name] = NoFile
      BY <2>3 DEF ReadKey
    <3>2. src["enc"][Name] = NoFile
      BY <3>1, FreshWork DEF KeysOutlive
    <3> QED BY <1>5, <2>1, <3>1, <3>2
  <2>4. CASE Verify
    <3>1. step = "verify" /\ src["sum"][Name] \notin {NoFile, plain[Name]}
      BY <2>4 DEF Verify
    <3> QED BY <3>1, FreshWork DEF FreshNames, JobSound
  <2>5. CASE FailJob
    BY <1>4, <1>5, <2>1, <2>5 DEF FailJob
  <2>6. CASE StartService \/ ServiceStep \/ UNCHANGED decryptVars
    BY <2>2, <2>6 DEF StartService, ServiceStep, decryptVars
  <2>7. ~TakeJob /\ ~StopService
    BY DEF TakeJob, StopService, Idle
  <2> QED BY <1>7, <2>2, <2>3, <2>4, <2>5, <2>6, <2>7, WatcherEffect DEF Quiet
<1>8. CASE OpenFiles
  <2>1. step # "idle" /\ job' = job /\ src' = src /\ src["enc"][Name] = NoFile
    BY <1>3, <1>8 DEF OpenFiles, dirs
  <2> QED BY <1>5, <2>1
<1>9. CASE WritePlain
  <2>1. step = "decrypting" /\ dek # opened
    BY <1>3, <1>9 DEF WritePlain, AfterPlain
  <2>2. dek = latest[Name] /\ opened = latest[Name]
    BY <2>1, FreshWork DEF FreshNames, JobSound, SourceIsLatest
  <2> QED BY <2>1, <2>2
<1>10. CASE MoveToDLQ
  <2>1. Failing /\ job' = job /\ Name \in Names
    BY <1>10, NameType DEF MoveToDLQ
  <2>2. src'["enc"][Name] = NoFile
    BY <1>4, <1>10, <2>1, MoveEffect DEF Aside
  <2> QED BY <1>5, <2>1, <2>2
<1>11. ~(FinishEnc \/ FinishKey \/ FinishSum \/ MoveToFailed)
  BY DEF FinishEnc, FinishKey, FinishSum, MoveToFailed, Idle
<1> QED BY <1>6, <1>7, <1>8, <1>9, <1>10, <1>11, StepCases

LEMMA HealthyKept ==
  ASSUME DecryptTypeOK, JobBorn, RestSound, SourceIsLatest, JobSound, FailsForWant,
         HealthyNeverFails, [DecryptNext]_decryptVars
  PROVE  HealthyNeverFails'
<1>1. UNCHANGED worldVars
  BY SourceEffect, DeliverEffect
<1> SUFFICES ASSUME ~world.faults, ~world.stuck, ~world.reuse, ~world.badSums, stops' = 0,
                    NEW n \in Names
             PROVE  failed'[n] = NoFile /\ dead'[n] = NoFile
  BY <1>1 DEF HealthyNeverFails, worldVars
<1>2. stops = 0 /\ failed[n] = NoFile /\ dead[n] = NoFile
  BY QueueStep, NoStopYet DEF HealthyNeverFails, DecryptTypeOK
<1>3. CASE MoveToDLQ \/ MoveToFailed
  <2>1. ~Aside(n)
    BY <1>2, <1>3, MoveEffect DEF FailsForWant, Aside
  <2> QED BY <1>2, <1>3, <2>1, MoveEffect
<1>4. CASE Quiet
  BY <1>2, <1>4, QuietFiles DEF dirs
<1>5. CASE OpenFiles \/ WritePlain
  BY <1>2, <1>5, OutputEffect DEF dirs
<1>6. CASE FinishEnc \/ FinishKey \/ FinishSum
  BY <1>2, <1>6, FinishEffect DEF Handled
<1> QED BY <1>2, <1>3, <1>4, <1>5, <1>6, StepCases, DeliverEffect

LEMMA DecryptInvKept == DecryptInv /\ [DecryptNext]_decryptVars => DecryptInv'
BY TypeKept, OrderKept, JobBornKept, RestSoundKept, SourceIsLatestKept, JobSoundKept, FilesKept,
   FreshNamesKept, KeysOutliveKept, FailsForWantKept, HealthyKept DEF DecryptInv

LEMMA InitDecrypt == DecryptInit => DecryptInv
<1> SUFFICES ASSUME DecryptInit PROVE DecryptInv
  OBVIOUS
<1>1. OrderInv /\ TypeOK
  BY InitOrder, InitType DEF DecryptInit
<1>2. DecryptTypeOK
  <2>1. (CHOOSE n \in Names : TRUE) \in Names
    BY NamesAssumption
  <2>2. world \in World /\ settings \in world.configs
    BY WorldAssumption DEF DecryptInit
  <2>3. rest \in [Names -> Seq(Kinds)] /\ 0 \in 0..(KeyPolls - 1) /\ 0 \in 0..MaxBundles
    BY ConstantFacts DEF DecryptInit
  <2> QED
    BY <1>1, <2>1, <2>2, <2>3, ConstantFacts DEF DecryptInit, DecryptTypeOK
<1>3. \A n \in Names : rest[n] = <<>> /\ Coming(n) = {} /\ latest[n] = NoFile
                       /\ \A k \in Kinds : src[k][n] = NoFile
  BY DEF DecryptInit, Coming, ToSet
<1>4. JobBorn /\ JobSound /\ RestSound /\ SourceIsLatest
  BY <1>3, ConstantFacts DEF DecryptInit, JobBorn, JobSound, RestSound, SourceIsLatest
<1>5. \A n \in Names : EncKept(n) /\ KeyKept(n)
  BY <1>3 DEF EncKept, KeyKept
<1>6. FreshNames /\ KeysOutlive
  BY <1>3, ConstantFacts DEF DecryptInit, Init, FreshNames, KeysOutlive
<1>7. FailsForWant /\ HealthyNeverFails
  BY DEF DecryptInit, Init, FailsForWant, HealthyNeverFails
<1> QED BY <1>1, <1>2, <1>4, <1>5, <1>6, <1>7 DEF DecryptInv

LEMMA AlwaysDecryptInv == DecryptSpec => []DecryptInv
BY InitDecrypt, DecryptInvKept, PTL DEF DecryptSpec

----------------------------------------------------------------------------
(* The theorems *)

\* The state of the whole decryption side keeps its types.
THEOREM DecryptTypeCorrect == DecryptSpec => []DecryptTypeOK
<1>1. DecryptInv => DecryptTypeOK
  BY DEF DecryptInv
<1> QED BY <1>1, AlwaysDecryptInv, PTL

\* The last bundle of a name is decrypted, or its ciphertext and its key are
\* both still there, whatever failed, crashed or was queued twice.
THEOREM BundleKeptCorrect == DecryptSpec => []BundleKept
<1>1. ASSUME DecryptInv, NEW n \in Names, Delivered(n)
      PROVE  \/ plain[n] = latest[n]
             \/ /\ latest[n] \in {src["enc"][n], archive["enc"][n], failed[n], dead[n]}
                /\ latest[n] \in {src["key"][n], archive["key"][n]}
  <2>1. Coming(n) = {}
    BY <1>1, ComingFacts DEF Delivered, DecryptInv
  <2> QED BY <1>1, <2>1 DEF DecryptInv, EncKept, KeyKept, Delivered
<1>2. DecryptInv => BundleKept
  BY <1>1 DEF BundleKept
<1> QED BY <1>2, AlwaysDecryptInv, PTL

\* The plaintext of a ciphertext that was archived or deleted stays whole, where
\* names are not reused.
THEOREM PlaintextCorrect == DecryptSpec => []PlaintextStays
<1>1. ASSUME DecryptInv, ~world.reuse, NEW i \in Items, status[i] = "completed", Gone(path[i])
      PROVE  plain[path[i]] = latest[path[i]]
  <2>1. path[i] \in Names /\ Came("enc", path[i])
    BY <1>1 DEF DecryptInv, DecryptTypeOK, FreshNames
  <2> QED BY <1>1, <2>1 DEF DecryptInv, FreshNames, Came
<1>2. DecryptInv => PlaintextStays
  BY <1>1 DEF PlaintextStays
<1> QED BY <1>2, AlwaysDecryptInv, PTL

\* A bundle that is queued twice, or whose key is late, does not fail for it.
THEOREM HealthyCorrect == DecryptSpec => []HealthyNeverFails
<1>1. DecryptInv => HealthyNeverFails
  BY DEF DecryptInv
<1> QED BY <1>1, AlwaysDecryptInv, PTL

\* A ciphertext leaves the source directory only to failed/ or dlq/, or once its
\* own plaintext is whole and agrees with the checksum beside it.
THEOREM LeavesDecrypted == DecryptSpec => LeavesOnlyDecrypted
<1>1. ASSUME DecryptInv, [DecryptNext]_decryptVars, NEW n \in Names, NEW v \in 1..MaxBundles,
             src["enc"][n] = v, src'["enc"][n] = NoFile
      PROVE  \/ v \in {failed'[n], dead'[n]}
             \/ /\ plain'[n] = v
                /\ settings.verify /\ ~world.faults => src["sum"][n] \in {NoFile, v}
  <2> USE DEF DecryptInv
  <2>1. v # NoFile /\ v = latest[n]
    BY <1>1, ConstantFacts DEF SourceIsLatest
  <2>2. CASE FinishEnc
    <3>1. Handled("enc") /\ step = "done"
      BY <2>2, <1>1, FinishEffect DEF FinishEnc
    <3>2. n = Name
      BY <1>1, <2>1, <3>1, ConstantFacts DEF Handled
    <3> QED BY <1>1, <2>1, <3>1, <3>2 DEF Handled, JobSound
  <2>3. CASE FinishKey \/ FinishSum
    <3>1. src'["enc"][n] = src["enc"][n]
      BY <1>1, <2>3, FinishEffect, ConstantFacts DEF Handled
    <3> QED BY <1>1, <2>1, <3>1
  <2>4. CASE MoveToDLQ \/ MoveToFailed
    BY <1>1, <2>1, <2>4, MoveEffect DEF Aside
  <2>5. CASE Quiet
    BY <1>1, <2>1, <2>5, QuietFiles DEF dirs
  <2>6. CASE OpenFiles \/ WritePlain
    BY <1>1, <2>1, <2>6, OutputEffect DEF dirs
  <2>7. ASSUME NEW m \in Names, Deliver(m) PROVE FALSE
    <3>1. CASE Stays(n)
      BY <1>1, <2>1, <3>1 DEF Stays
    <3>2. CASE Begins(n)
      BY <1>1, <2>1, <3>2 DEF Begins
    <3>3. ASSUME NEW k \in Kinds, Arrives(k, n) PROVE FALSE
      BY <1>1, <2>1, <3>3, ConstantFacts DEF Arrives
    <3> QED BY <1>1, <2>7, <3>1, <3>2, <3>3, DeliverEffect
  <2> QED BY <1>1, <2>2, <2>3, <2>4, <2>5, <2>6, <2>7, StepCases
<1>2. DecryptInv /\ [DecryptNext]_decryptVars =>
        [\A n \in Names, v \in 1..MaxBundles :
           src["enc"][n] = v /\ src'["enc"][n] = NoFile =>
             \/ v \in {failed'[n], dead'[n]}
             \/ /\ plain'[n] = v
                /\ settings.verify /\ ~world.faults => src["sum"][n] \in {NoFile, v}]_decryptVars
  BY <1>1
<1> QED BY <1>2, AlwaysDecryptInv, PTL DEF DecryptSpec, LeavesOnlyDecrypted

\* The decryption side runs the retry queue as it is specified: all that is
\* proved about the queue holds in it.
THEOREM DecryptionRunsQueue == DecryptSpec => Spec
<1>1. DecryptInit => Init
  BY DEF DecryptInit
<1> QED BY <1>1, QueueStep, PTL DEF DecryptSpec, Spec
=============================================================================
