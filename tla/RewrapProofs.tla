---------------------------- MODULE RewrapProofs ----------------------------
(* Theorems about Rewrap, for any files, versions of the Vault key, runs of *)
(* the command and writes of the service.                                   *)
EXTENDS Rewrap, TLAPS

----------------------------------------------------------------------------
(* The invariant *)

\* The run is at work on a file.
Working == stage \in {"backup", "vault", "write", "restore"}

\* The file in work has not been dealt with; its key file is the one that was
\* read, and so is its backup once it is made, unless the service wrote the key
\* in between; what Vault returned is the same data key, at a version as recent.
InWork ==
  Working =>
    /\ cur \in Files /\ cur \notin todo /\ results[cur] = NoResult
    /\ old \in Ciphertexts /\ old.version <= latest
    /\ NeedsRewrap(old) /\ ~opt.dry
    /\ keyFile[cur] = old \/ cur \in raced
    /\ stage \in {"backup", "restore"} => opt.backup
    /\ stage # "backup" /\ opt.backup => bak[cur] = old \/ cur \in raced
    /\ stage = "write" => /\ new.dek = old.dek
                          /\ new.version >= old.version /\ new.version <= latest

\* A file that has still to be read has no result.
TodoOpen == \A f \in todo : results[f] = NoResult

\* No version is one Vault does not have, and a file that the service never
\* encrypted again has the first data key, or no key that can be read.
KeysKnown ==
  \A f \in Files :
    /\ keyFile[f].version <= latest /\ bak[f].version <= latest
    /\ enc[f] = FirstDek /\ keyFile[f] # Garbled => keyFile[f].dek = FirstDek

\* What the service writes it has encrypted with a new data key.
ServiceMarks ==
  /\ service # NoFile => enc[service] # FirstDek
  /\ \A f \in raced : enc[f] # FirstDek

Succeeded(r) == r # NoResult /\ ~r.error /\ r.new # 0

\* The properties of the report, file by file.
ReportSound(f) ==
  results[f] # NoResult /\ enc[f] = FirstDek /\ results[f].old # 0 =>
    keyFile[f].version = IF Succeeded(results[f]) THEN results[f].new ELSE results[f].old
BackupSound(f) ==
  Succeeded(results[f]) /\ opt.backup /\ enc[f] = FirstDek =>
    bak[f] = [dek |-> FirstDek, version |-> results[f].old]

RewrapInv ==
  /\ RewrapTypeOK /\ InWork /\ TodoOpen /\ KeysKnown /\ ServiceMarks
  /\ \A f \in Files : ReportSound(f) /\ BackupSound(f)

----------------------------------------------------------------------------
(* Types *)

LEMMA ConstantFacts ==
  /\ FirstDek \in Deks /\ Garbled \in Contents /\ NoResult \in Result
  /\ 1 \in Versions /\ Versions \subseteq 0..MaxVersion
  /\ \A d \in Deks, v \in Versions : [dek |-> d, version |-> v] \in Ciphertexts
  /\ \A c \in Ciphertexts : c \in Contents /\ c # Garbled
                            /\ c.dek \in Deks /\ c.version \in Versions
  /\ \A c \in Contents : c.version \in 0..MaxVersion /\ (c # Garbled => c \in Ciphertexts)
  /\ \A o, n \in 0..MaxVersion : Failed(o, n) \in Result /\ Skipped(o) \in Result
<1> USE BoundsAssumption
<1>1. FirstDek \in Deks /\ 1 \in Versions /\ Versions \subseteq 0..MaxVersion
  BY DEF FirstDek, Deks, Versions
<1>2. \A d \in Deks, v \in Versions : [dek |-> d, version |-> v] \in Ciphertexts
  BY DEF Ciphertexts
<1>3. \A c \in Ciphertexts : c \in Contents /\ c # Garbled
                            /\ c.dek \in Deks /\ c.version \in Versions
  BY DEF Ciphertexts, Contents, Garbled, Deks, FirstDek
<1>4. \A c \in Contents : c.version \in 0..MaxVersion /\ (c # Garbled => c \in Ciphertexts)
  <2>1. Garbled.version = 0 /\ 0 \in 0..MaxVersion
    BY DEF Garbled
  <2>2. \A c \in Contents : c \in Ciphertexts \/ c = Garbled
    BY DEF Contents
  <2> QED BY <1>1, <1>3, <2>1, <2>2
<1>5. \A o, n \in 0..MaxVersion : Failed(o, n) \in Result /\ Skipped(o) \in Result
  BY DEF Failed, Skipped, Result
<1>6. Garbled \in Contents
  BY DEF Contents
<1>7. NoResult \in Result
  BY DEF NoResult, Result
<1> QED
  BY <1>1, <1>2, <1>3, <1>4, <1>5, <1>6, <1>7

\* A run ends its work on a file with a result.
LEMMA FinishType ==
  ASSUME RewrapTypeOK, NEW f \in Files, NEW r \in Result, Finish(f, r)
  PROVE  /\ results' \in [Files -> Result] /\ stage' \in Stages
         /\ cur' \in Files \union {NoFile} /\ {old', new'} \subseteq Contents
BY ConstantFacts DEF RewrapTypeOK, Finish, Stages

LEMMA AbandonType ==
  ASSUME RewrapTypeOK, cur \in Files, Abandon
  PROVE  /\ results' \in [Files -> Result] /\ stage' \in Stages
         /\ cur' \in Files \union {NoFile} /\ {old', new'} \subseteq Contents
<1>1. CASE opt.backup
  BY <1>1 DEF RewrapTypeOK, Abandon, Stages
<1>2. CASE ~opt.backup
  <2>1. Failed(old.version, new.version) \in Result
    BY ConstantFacts DEF RewrapTypeOK
  <2> QED BY <1>2, <2>1, FinishType DEF Abandon
<1> QED BY <1>1, <1>2

LEMMA RunStepType ==
  ASSUME RewrapTypeOK, InWork, RunStep
  PROVE  RewrapTypeOK'
<1>1. ASSUME NEW f \in Files, ReadKey(f) PROVE RewrapTypeOK'
  <2>1. UNCHANGED <<fileVars, otherVars, opt, runs, exit>> /\ todo' \subseteq Files
    BY <1>1 DEF ReadKey, RewrapTypeOK
  <2>2. /\ results' \in [Files -> Result] /\ stage' \in Stages
        /\ cur' \in Files \union {NoFile} /\ {old', new'} \subseteq Contents
    <3>1. keyFile[f] \in Contents /\ keyFile[f].version \in 0..MaxVersion
      BY ConstantFacts DEF RewrapTypeOK
    <3>2. Failed(0, 0) \in Result /\ Skipped(keyFile[f].version) \in Result
      BY <3>1, ConstantFacts, BoundsAssumption
    <3>3. \/ Finish(f, Failed(0, 0)) \/ Finish(f, Skipped(keyFile[f].version))
          \/ cur' = f /\ old' = keyFile[f] /\ new' = new /\ stage' \in Stages /\ results' = results
      BY <1>1 DEF ReadKey, Stages
    <3>4. CASE Finish(f, Failed(0, 0)) \/ Finish(f, Skipped(keyFile[f].version))
      BY <3>2, <3>4, FinishType
    <3>5. CASE cur' = f /\ old' = keyFile[f] /\ new' = new /\ stage' \in Stages /\ results' = results
      BY <3>1, <3>5 DEF RewrapTypeOK
    <3> QED BY <3>3, <3>4, <3>5
  <2> QED BY <2>1, <2>2 DEF RewrapTypeOK, fileVars, otherVars
<1>2. CASE Report
  BY <1>2 DEF Report, RewrapTypeOK, fileVars, otherVars, Stages, ExitCode, Killed
<1>3. ASSUME stage \in {"backup", "vault", "write", "restore"}
      PROVE  /\ cur \in Files /\ old \in Ciphertexts /\ old.version \in 0..MaxVersion
             /\ new.version \in 0..MaxVersion
  BY <1>3, ConstantFacts DEF InWork, Working, RewrapTypeOK
<1>4. ASSUME UNCHANGED <<otherVars, opt, todo, runs, exit, enc>>,
             {keyFile', bak'} \subseteq [Files -> Contents],
             /\ results' \in [Files -> Result] /\ stage' \in Stages
             /\ cur' \in Files \union {NoFile} /\ {old', new'} \subseteq Contents
      PROVE  RewrapTypeOK'
  BY <1>4 DEF RewrapTypeOK, otherVars
<1>5. CASE CreateBackup
  <2>1. cur \in Files /\ Failed(old.version, 0) \in Result
    BY <1>3, <1>5, ConstantFacts, BoundsAssumption DEF CreateBackup, Stage
  <2>2. {keyFile', bak'} \subseteq [Files -> Contents]
    BY <1>5, <2>1 DEF CreateBackup, RewrapTypeOK
  <2>3. /\ results' \in [Files -> Result] /\ stage' \in Stages
        /\ cur' \in Files \union {NoFile} /\ {old', new'} \subseteq Contents
    <3>1. CASE Finish(cur, Failed(old.version, 0))
      BY <2>1, <3>1, FinishType
    <3>2. CASE stage' = "vault" /\ UNCHANGED <<cur, old, new, results>>
      BY <3>2 DEF RewrapTypeOK, Stages
    <3> QED BY <1>5, <3>1, <3>2 DEF CreateBackup
  <2> QED BY <1>4, <1>5, <2>2, <2>3 DEF CreateBackup, Stage
<1>6. CASE RewrapDataKey
  <2>1. cur \in Files /\ Failed(old.version, 0) \in Result
    BY <1>3, <1>6, ConstantFacts, BoundsAssumption DEF RewrapDataKey, Stage
  <2>2. {keyFile', bak'} \subseteq [Files -> Contents]
    BY <1>6 DEF RewrapDataKey, RewrapTypeOK
  <2>3. [dek |-> old.dek, version |-> latest] \in Contents
    BY <1>3, <1>6, ConstantFacts DEF RewrapDataKey, Stage, RewrapTypeOK
  <2>4. /\ results' \in [Files -> Result] /\ stage' \in Stages
        /\ cur' \in Files \union {NoFile} /\ {old', new'} \subseteq Contents
    <3>1. CASE Finish(cur, Failed(old.version, 0))
      BY <2>1, <3>1, FinishType
    <3>2. CASE new' = [dek |-> old.dek, version |-> latest]
               /\ stage' = "write" /\ UNCHANGED <<cur, old, results>>
      BY <2>3, <3>2 DEF RewrapTypeOK, Stages
    <3>3. CASE Abandon
      BY <2>1, <3>3, AbandonType
    <3> QED BY <1>6, <3>1, <3>2, <3>3 DEF RewrapDataKey
  <2> QED BY <1>4, <1>6, <2>2, <2>4 DEF RewrapDataKey, Stage
<1>7. CASE WriteKeyFile
  <2> DEFINE r == [error |-> FALSE, old |-> old.version, new |-> new.version]
  <2>1. cur \in Files /\ r \in Result
    BY <1>3, <1>7 DEF WriteKeyFile, Stage, Result
  <2>2. {keyFile', bak'} \subseteq [Files -> Contents]
    BY <1>7, <2>1 DEF WriteKeyFile, RewrapTypeOK
  <2>3. Finish(cur, r) \/ Abandon
    BY <1>7 DEF WriteKeyFile
  <2> HIDE DEF r
  <2>4. /\ results' \in [Files -> Result] /\ stage' \in Stages
        /\ cur' \in Files \union {NoFile} /\ {old', new'} \subseteq Contents
    BY <2>1, <2>3, FinishType, AbandonType
  <2> QED BY <1>4, <1>7, <2>2, <2>4 DEF WriteKeyFile, Stage
<1>8. CASE RestoreBackup
  <2>1. cur \in Files /\ Failed(old.version, new.version) \in Result
    BY <1>3, <1>8, ConstantFacts DEF RestoreBackup, Stage
  <2>2. {keyFile', bak'} \subseteq [Files -> Contents]
    BY <1>8, <2>1 DEF RestoreBackup, RewrapTypeOK
  <2>3. /\ results' \in [Files -> Result] /\ stage' \in Stages
        /\ cur' \in Files \union {NoFile} /\ {old', new'} \subseteq Contents
    BY <1>8, <2>1, FinishType DEF RestoreBackup
  <2> QED BY <1>4, <1>8, <2>2, <2>3 DEF RestoreBackup, Stage
<1> QED
  BY <1>1, <1>2, <1>5, <1>6, <1>7, <1>8 DEF RunStep

LEMMA TypeKept ==
  ASSUME RewrapTypeOK, InWork, [RewrapNext]_rewrapVars
  PROVE  RewrapTypeOK'
<1> USE DEF RewrapTypeOK, fileVars, otherVars, runVars
<1>1. CASE StartRun
  BY <1>1, ConstantFacts, BoundsAssumption DEF StartRun, Stages
<1>2. CASE RunStep
  BY <1>2, RunStepType
<1>3. CASE Kill
  BY <1>3, ConstantFacts DEF Kill, Stages
<1>4. CASE Rotate
  BY <1>4, BoundsAssumption DEF Rotate, Versions
<1>5. ASSUME NEW f \in Files, ServiceWritesEnc(f) PROVE RewrapTypeOK'
  <2>1. writes + 2 \in Deks /\ writes + 1 \in 0..MaxWrites
    BY <1>5, BoundsAssumption DEF ServiceWritesEnc, Deks, FirstDek
  <2> QED BY <1>5, <2>1 DEF ServiceWritesEnc
<1>6. CASE ServiceWritesKey
  <2>1. service \in Files /\ [dek |-> enc[service], version |-> latest] \in Contents
    BY <1>6, ConstantFacts DEF ServiceWritesKey
  <2> QED BY <1>6, <2>1 DEF ServiceWritesKey
<1>7. CASE UNCHANGED rewrapVars
  BY <1>7 DEF rewrapVars
<1> QED
  BY <1>1, <1>2, <1>3, <1>4, <1>5, <1>6, <1>7 DEF RewrapNext

----------------------------------------------------------------------------
(* The report and the backups *)

LEMMA ReportByFile ==
  /\ ReportMatchesFiles <=> \A f \in Files : ReportSound(f)
  /\ BackupIsPrevious <=> \A f \in Files : BackupSound(f)
<1>1. \A f : f \in Dealt <=> f \in Files /\ results[f] # NoResult
  BY DEF Dealt
<1>2. \A f : f \in Successful <=> f \in Files /\ Succeeded(results[f])
  BY <1>1 DEF Successful, FailedOnes, SkippedOnes, Succeeded
<1>3. ReportMatchesFiles <=> \A f \in Files : ReportSound(f)
  BY <1>1, <1>2 DEF ReportMatchesFiles, ReportSound
<1>4. BackupIsPrevious <=> \A f \in Files : BackupSound(f)
  BY <1>2 DEF BackupIsPrevious, BackupSound
<1> QED BY <1>3, <1>4

----------------------------------------------------------------------------
(* Every step keeps the invariant *)

\* A file is dealt with, its key file and its backup as the result says.
LEMMA FinishKeeps ==
  ASSUME RewrapInv, RewrapTypeOK', NEW f \in Files, NEW r \in Result, Finish(f, r),
         UNCHANGED <<otherVars, opt, enc>>, todo' \subseteq todo, f \notin todo',
         results[f] = NoResult,
         \A g \in Files \ {f} : keyFile'[g] = keyFile[g] /\ bak'[g] = bak[g],
         keyFile'[f].version <= latest, bak'[f].version <= latest,
         enc[f] = FirstDek /\ keyFile'[f] # Garbled => keyFile'[f].dek = FirstDek,
         enc[f] = FirstDek /\ r.old # 0 =>
           keyFile'[f].version = IF Succeeded(r) THEN r.new ELSE r.old,
         enc[f] = FirstDek /\ opt.backup /\ Succeeded(r) =>
           bak'[f] = [dek |-> FirstDek, version |-> r.old]
  PROVE  RewrapInv'
<1> USE DEF Finish
<1>1. RewrapTypeOK /\ TodoOpen /\ KeysKnown /\ ServiceMarks
      /\ \A g \in Files : ReportSound(g) /\ BackupSound(g)
  BY DEF RewrapInv
<1>2. results'[f] = r /\ \A g \in Files \ {f} : results'[g] = results[g]
  BY <1>1 DEF RewrapTypeOK
<1>3. InWork'
  BY DEF InWork, Working
<1>4. TodoOpen'
  BY <1>1, <1>2 DEF TodoOpen, RewrapTypeOK
<1>5. KeysKnown' /\ ServiceMarks'
  BY <1>1 DEF KeysKnown, ServiceMarks, otherVars
<1>6. ReportSound(f)' /\ BackupSound(f)'
  BY <1>2 DEF ReportSound, BackupSound
<1>7. ASSUME NEW g \in Files \ {f} PROVE ReportSound(g)' /\ BackupSound(g)'
  BY <1>1, <1>2 DEF ReportSound, BackupSound
<1> QED
  BY <1>3, <1>4, <1>5, <1>6, <1>7 DEF RewrapInv

\* The run goes on with the file in work.
LEMMA GoOnKeeps ==
  ASSUME RewrapInv, RewrapTypeOK', InWork', UNCHANGED <<otherVars, opt, todo, enc, results>>,
         keyFile' = keyFile, \A g \in Files : results[g] # NoResult => bak'[g] = bak[g],
         \A g \in Files : bak'[g].version <= latest
  PROVE  RewrapInv'
<1>1. RewrapTypeOK /\ TodoOpen /\ KeysKnown /\ ServiceMarks
      /\ \A g \in Files : ReportSound(g) /\ BackupSound(g)
  BY DEF RewrapInv
<1>2. TodoOpen' /\ KeysKnown' /\ ServiceMarks'
  BY <1>1 DEF TodoOpen, KeysKnown, ServiceMarks, otherVars
<1>3. ASSUME NEW g \in Files PROVE ReportSound(g)' /\ BackupSound(g)'
  BY <1>1 DEF ReportSound, BackupSound, Succeeded
<1> QED
  BY <1>1, <1>2, <1>3 DEF RewrapInv

LEMMA ReadKeyKeeps ==
  ASSUME RewrapInv, RewrapTypeOK', NEW f \in Files, ReadKey(f)
  PROVE  RewrapInv'
<1> USE DEF ReadKey
<1>1. RewrapTypeOK /\ KeysKnown /\ TodoOpen /\ keyFile[f] \in Contents
  BY DEF RewrapInv, RewrapTypeOK
<1>2. results[f] = NoResult /\ todo' \subseteq todo /\ f \notin todo'
      /\ UNCHANGED <<keyFile, bak, otherVars, opt, enc>>
  BY <1>1 DEF TodoOpen, fileVars
<1>3. /\ keyFile'[f].version <= latest /\ bak'[f].version <= latest
      /\ enc[f] = FirstDek /\ keyFile'[f] # Garbled => keyFile'[f].dek = FirstDek
  BY <1>1, <1>2 DEF KeysKnown
<1>4. ASSUME Finish(f, Failed(0, 0)) PROVE RewrapInv'
  <2>1. Failed(0, 0) \in Result /\ Failed(0, 0).old = 0 /\ ~Succeeded(Failed(0, 0))
    BY ConstantFacts, BoundsAssumption DEF Failed, Succeeded
  <2> QED BY <1>2, <1>3, <1>4, <2>1, FinishKeeps
<1>5. ASSUME Finish(f, Skipped(keyFile[f].version)) PROVE RewrapInv'
  <2> DEFINE r == Skipped(keyFile[f].version)
  <2>1. r \in Result /\ r.old = keyFile[f].version /\ ~Succeeded(r)
    BY <1>1, ConstantFacts DEF Skipped, Succeeded
  <2> HIDE DEF r
  <2> QED BY <1>2, <1>3, <1>5, <2>1, FinishKeeps DEF r
<1>6. ASSUME keyFile[f] # Garbled, NeedsRewrap(keyFile[f]), ~opt.dry,
             cur' = f, old' = keyFile[f], results' = results,
             stage' = IF opt.backup THEN "backup" ELSE "vault"
      PROVE  RewrapInv'
  <2>1. keyFile[f] \in Ciphertexts
    BY <1>1, <1>6, ConstantFacts
  <2>2. InWork'
    BY <1>1, <1>2, <1>3, <1>6, <2>1 DEF InWork, Working, NeedsRewrap, otherVars
  <2>3. TodoOpen' /\ KeysKnown' /\ ServiceMarks'
    BY <1>1, <1>2, <1>6 DEF TodoOpen, KeysKnown, ServiceMarks, otherVars, RewrapInv
  <2>4. ASSUME NEW g \in Files PROVE ReportSound(g)' /\ BackupSound(g)'
    <3>1. ReportSound(g) /\ BackupSound(g)
      BY DEF RewrapInv
    <3> QED BY <1>2, <1>6, <3>1 DEF ReportSound, BackupSound
  <2> QED BY <2>2, <2>3, <2>4 DEF RewrapInv
<1> QED
  BY <1>4, <1>5, <1>6

\* What is known while a file is in work.
LEMMA WorkFacts ==
  ASSUME RewrapInv, Working
  PROVE  /\ cur \in Files /\ cur \notin todo /\ results[cur] = NoResult
         /\ old \in Ciphertexts /\ old.dek \in Deks /\ old.version \in Versions
         /\ latest \in Versions /\ old.version <= latest
         /\ new.version \in 0..MaxVersion
         /\ keyFile[cur].version <= latest /\ bak[cur].version <= latest
         /\ enc[cur] = FirstDek =>
              /\ keyFile[cur] = old /\ old.dek = FirstDek
              /\ stage # "backup" /\ opt.backup => bak[cur] = old
         /\ \A o, n \in 0..MaxVersion : Failed(o, n) \in Result
BY ConstantFacts DEF RewrapInv, InWork, KeysKnown, ServiceMarks, RewrapTypeOK

\* The end of a file that failed, its key file being what it was.
LEMMA FailKeeps ==
  ASSUME RewrapInv, RewrapTypeOK', Working, NEW n \in 0..MaxVersion,
         Finish(cur, Failed(old.version, n)),
         UNCHANGED <<otherVars, opt, todo, enc, bak>>,
         \/ keyFile' = keyFile
         \/ stage = "restore" /\ keyFile' = [keyFile EXCEPT ![cur] = bak[cur]]
  PROVE  RewrapInv'
<1> DEFINE r == Failed(old.version, n)
<1>1. cur \in Files /\ cur \notin todo /\ results[cur] = NoResult
  BY WorkFacts
<1>2. r \in Result /\ r.old = old.version /\ ~Succeeded(r)
  BY WorkFacts, ConstantFacts DEF Failed, Succeeded
<1>3. RewrapTypeOK /\ KeysKnown /\ (stage = "restore" => opt.backup)
  BY DEF RewrapInv, InWork, Working
<1>4. keyFile'[cur] \in {keyFile[cur], bak[cur]} /\ (enc[cur] = FirstDek => keyFile'[cur] = old)
  BY <1>1, <1>3, WorkFacts DEF RewrapTypeOK
<1>5. \A g \in Files \ {cur} : keyFile'[g] = keyFile[g] /\ bak'[g] = bak[g]
  BY <1>3 DEF RewrapTypeOK
<1>6. /\ keyFile'[cur].version <= latest /\ bak'[cur].version <= latest
      /\ enc[cur] = FirstDek => keyFile'[cur].dek = FirstDek
  BY <1>1, <1>4, WorkFacts
<1> HIDE DEF r
<1>7. Finish(cur, r)
  BY DEF r
<1> QED
  BY <1>1, <1>2, <1>4, <1>5, <1>6, <1>7, FinishKeeps

LEMMA AbandonKeeps ==
  ASSUME RewrapInv, RewrapTypeOK', stage \in {"vault", "write"}, Abandon,
         UNCHANGED <<otherVars, opt, todo, enc, keyFile, bak>>
  PROVE  RewrapInv'
<1>1. Working /\ RewrapTypeOK /\ InWork /\ KeysKnown
  BY DEF Working, RewrapInv
<1>2. CASE opt.backup
  <2>1. stage' = "restore" /\ UNCHANGED <<cur, old, new, results>>
    BY <1>2 DEF Abandon
  <2>2. InWork'
    BY <1>1, <1>2, <2>1 DEF InWork, Working, NeedsRewrap, otherVars
  <2>3. \A g \in Files : bak'[g].version <= latest
    BY <1>1 DEF KeysKnown
  <2> QED BY <2>1, <2>2, <2>3, GoOnKeeps
<1>3. CASE ~opt.backup
  BY <1>1, <1>3, WorkFacts, FailKeeps DEF Abandon
<1> QED BY <1>2, <1>3

LEMMA CreateBackupKeeps ==
  ASSUME RewrapInv, RewrapTypeOK', CreateBackup
  PROVE  RewrapInv'
<1> USE DEF CreateBackup, Stage
<1>1. Working /\ RewrapTypeOK /\ InWork /\ KeysKnown /\ cur \in Files
  BY WorkFacts DEF Working, RewrapInv
<1>2. CASE /\ bak' = [bak EXCEPT ![cur] = keyFile[cur]]
           /\ stage' = "vault" /\ UNCHANGED <<cur, old, new, results>>
  <2>1. bak'[cur] = keyFile[cur] /\ \A g \in Files \ {cur} : bak'[g] = bak[g]
    BY <1>1, <1>2 DEF RewrapTypeOK
  <2>2. InWork'
    BY <1>1, <1>2, <2>1 DEF InWork, Working, NeedsRewrap, otherVars
  <2>3. \A g \in Files : results[g] # NoResult => bak'[g] = bak[g]
    BY <1>1, <2>1, WorkFacts
  <2>4. \A g \in Files : bak'[g].version <= latest
    BY <1>1, <2>1 DEF KeysKnown
  <2> QED BY <1>2, <2>2, <2>3, <2>4, GoOnKeeps
<1>3. CASE Finish(cur, Failed(old.version, 0)) /\ bak' = bak
  <2>1. 0 \in 0..MaxVersion
    BY BoundsAssumption
  <2> QED BY <1>1, <1>3, <2>1, FailKeeps
<1> QED BY <1>2, <1>3

LEMMA RewrapDataKeyKeeps ==
  ASSUME RewrapInv, RewrapTypeOK', RewrapDataKey
  PROVE  RewrapInv'
<1> USE DEF RewrapDataKey, Stage
<1>1. Working /\ RewrapTypeOK /\ InWork /\ KeysKnown
  BY DEF Working, RewrapInv
<1>2. CASE /\ new' = [dek |-> old.dek, version |-> latest]
           /\ stage' = "write" /\ UNCHANGED <<cur, old, results>>
  <2>1. old.version \in Nat /\ latest \in Nat /\ old.version <= latest
    BY <1>1, WorkFacts DEF Versions
  <2>2. new'.dek = old.dek /\ new'.version >= old.version /\ new'.version <= latest
    BY <1>2, <2>1
  <2>3. InWork'
    BY <1>1, <1>2, <2>2 DEF InWork, Working, NeedsRewrap, otherVars
  <2>4. \A g \in Files : bak'[g].version <= latest
    BY <1>1 DEF KeysKnown
  <2> QED BY <1>2, <2>3, <2>4, GoOnKeeps
<1>3. CASE Abandon
  BY <1>3, AbandonKeeps
<1>4. CASE Finish(cur, Failed(old.version, 0))
  <2>1. 0 \in 0..MaxVersion
    BY BoundsAssumption
  <2> QED BY <1>1, <1>4, <2>1, FailKeeps
<1> QED BY <1>2, <1>3, <1>4

LEMMA WriteKeyFileKeeps ==
  ASSUME RewrapInv, RewrapTypeOK', WriteKeyFile
  PROVE  RewrapInv'
<1> USE DEF WriteKeyFile, Stage
<1>1. Working /\ RewrapTypeOK /\ cur \in Files
  BY WorkFacts DEF Working, RewrapInv
<1>2. CASE Abandon /\ UNCHANGED keyFile
  BY <1>2, AbandonKeeps
<1> DEFINE r == [error |-> FALSE, old |-> old.version, new |-> new.version]
<1>3. CASE keyFile' = [keyFile EXCEPT ![cur] = new] /\ Finish(cur, r)
  <2>1. keyFile'[cur] = new /\ \A g \in Files \ {cur} : keyFile'[g] = keyFile[g]
    BY <1>1, <1>3 DEF RewrapTypeOK
  <2>2. new.dek = old.dek /\ new.version >= old.version /\ new.version <= latest
    BY <1>1 DEF RewrapInv, InWork
  <2>3. new.version # 0 /\ old.version # 0
    BY <1>1, <2>2, WorkFacts DEF Versions
  <2>4. r \in Result /\ r.old = old.version /\ r.new = new.version /\ Succeeded(r)
    BY <1>1, <2>3, WorkFacts, ConstantFacts DEF Result, Succeeded, NoResult
  <2>5. enc[cur] = FirstDek /\ opt.backup => bak'[cur] = [dek |-> FirstDek, version |-> r.old]
    <3>1. enc[cur] = FirstDek /\ opt.backup => bak[cur] = old /\ old.dek = FirstDek
      BY <1>1, WorkFacts
    <3>2. old = [dek |-> old.dek, version |-> old.version]
      BY <1>1, WorkFacts DEF Ciphertexts
    <3> QED BY <2>4, <3>1, <3>2
  <2> HIDE DEF r
  <2> QED BY <1>1, <1>3, <2>1, <2>2, <2>4, <2>5, WorkFacts, FinishKeeps
<1> QED BY <1>2, <1>3

LEMMA RestoreBackupKeeps ==
  ASSUME RewrapInv, RewrapTypeOK', RestoreBackup
  PROVE  RewrapInv'
<1>1. Working /\ new.version \in 0..MaxVersion
  BY WorkFacts DEF Working, RestoreBackup, Stage
<1> QED
  BY <1>1, FailKeeps DEF RestoreBackup, Stage

\* Steps after which the run is at no file, or starts afresh.
LEMMA RunEdgeKeeps ==
  ASSUME RewrapInv, RewrapTypeOK', StartRun \/ Report \/ Kill
  PROVE  RewrapInv'
<1>1. KeysKnown /\ ServiceMarks /\ TodoOpen /\ \A g \in Files : ReportSound(g) /\ BackupSound(g)
  BY DEF RewrapInv
<1>2. InWork' /\ UNCHANGED <<fileVars, otherVars>>
  BY DEF InWork, Working, StartRun, Report, Kill
<1>3. KeysKnown' /\ ServiceMarks'
  BY <1>1, <1>2 DEF KeysKnown, ServiceMarks, fileVars, otherVars
<1>4. CASE StartRun
  <2>1. \A g \in Files : results'[g] = NoResult
    BY <1>4 DEF StartRun
  <2>2. TodoOpen' /\ \A g \in Files : ReportSound(g)' /\ BackupSound(g)'
    BY <1>4, <2>1 DEF StartRun, TodoOpen, ReportSound, BackupSound, Succeeded
  <2> QED BY <1>2, <1>3, <2>2 DEF RewrapInv
<1>5. CASE Report \/ Kill
  <2>1. TodoOpen' /\ \A g \in Files : ReportSound(g)' /\ BackupSound(g)'
    BY <1>1, <1>5 DEF Report, Kill, TodoOpen, ReportSound, BackupSound, fileVars
  <2> QED BY <1>2, <1>3, <2>1 DEF RewrapInv
<1> QED BY <1>4, <1>5

LEMMA RotateKeeps ==
  ASSUME RewrapInv, RewrapTypeOK', Rotate
  PROVE  RewrapInv'
<1>1. latest \in Nat /\ latest' = latest + 1
  BY DEF RewrapInv, RewrapTypeOK, Versions, Rotate
<1>2. \A n \in Nat : n <= latest => n <= latest'
  BY <1>1
<1>3. InWork'
  <2> SUFFICES ASSUME Working PROVE InWork'
    BY DEF Rotate, runVars, InWork, Working
  <2>1. old.version \in Nat /\ new.version \in Nat
    BY WorkFacts DEF Versions
  <2> QED BY <1>2, <2>1 DEF RewrapInv, Rotate, runVars, fileVars, InWork, Working, NeedsRewrap
<1>4. KeysKnown'
  <2>1. \A f \in Files : keyFile[f].version \in Nat /\ bak[f].version \in Nat
    BY ConstantFacts DEF RewrapInv, RewrapTypeOK
  <2> QED BY <1>2, <2>1 DEF RewrapInv, Rotate, fileVars, KeysKnown
<1> QED
  BY <1>3, <1>4 DEF RewrapInv, Rotate, runVars, fileVars, TodoOpen, ServiceMarks, ReportSound,
     BackupSound

LEMMA ServiceWritesEncKeeps ==
  ASSUME RewrapInv, RewrapTypeOK', NEW f \in Files, ServiceWritesEnc(f)
  PROVE  RewrapInv'
<1>1. RewrapTypeOK
  BY DEF RewrapInv
<1>2. enc'[f] # FirstDek /\ \A g \in Files \ {f} : enc'[g] = enc[g]
  BY <1>1 DEF RewrapTypeOK, ServiceWritesEnc, FirstDek
<1>3. f # NoFile /\ raced \subseteq Files
  BY <1>1, FilesAssumption DEF RewrapTypeOK
<1>4. ServiceMarks'
  BY <1>2, <1>3 DEF RewrapInv, ServiceMarks, ServiceWritesEnc
<1> QED
  BY <1>2, <1>4 DEF RewrapInv, ServiceWritesEnc, runVars, InWork, Working, NeedsRewrap, TodoOpen,
     KeysKnown, ReportSound, BackupSound

LEMMA ServiceWritesKeyKeeps ==
  ASSUME RewrapInv, RewrapTypeOK', ServiceWritesKey
  PROVE  RewrapInv'
<1> DEFINE n == [dek |-> enc[service], version |-> latest]
<1>1. service \in Files /\ enc[service] # FirstDek /\ latest \in Nat
  BY DEF RewrapInv, RewrapTypeOK, ServiceMarks, ServiceWritesKey, Versions
<1>2. /\ keyFile'[service] = n /\ n.version = latest
      /\ \A g \in Files \ {service} : keyFile'[g] = keyFile[g]
  BY <1>1 DEF RewrapInv, RewrapTypeOK, ServiceWritesKey
<1>3. KeysKnown'
  BY <1>1, <1>2 DEF RewrapInv, KeysKnown, ServiceWritesKey
<1>4. ServiceMarks'
  BY <1>1, FilesAssumption DEF RewrapInv, ServiceMarks, ServiceWritesKey
<1>5. InWork'
  BY <1>1, <1>2 DEF RewrapInv, InWork, Working, NeedsRewrap, ServiceWritesKey, runVars
<1> QED
  BY <1>1, <1>2, <1>3, <1>4, <1>5 DEF RewrapInv, ServiceWritesKey, runVars, TodoOpen, ReportSound,
     BackupSound

LEMMA RewrapInvKept ==
  ASSUME RewrapInv, [RewrapNext]_rewrapVars
  PROVE  RewrapInv'
<1>1. RewrapTypeOK'
  BY TypeKept DEF RewrapInv
<1>2. CASE RunStep
  BY <1>1, <1>2, ReadKeyKeeps, CreateBackupKeeps, RewrapDataKeyKeeps, WriteKeyFileKeeps,
     RestoreBackupKeeps, RunEdgeKeeps DEF RunStep
<1>3. CASE UNCHANGED rewrapVars
  BY <1>3 DEF rewrapVars, fileVars, otherVars, runVars, RewrapInv, RewrapTypeOK, InWork, Working,
     NeedsRewrap, TodoOpen, KeysKnown, ServiceMarks, ReportSound, BackupSound
<1> QED
  BY <1>1, <1>2, <1>3, RunEdgeKeeps, RotateKeeps, ServiceWritesEncKeeps, ServiceWritesKeyKeeps
  DEF RewrapNext

LEMMA RewrapInvInit == RewrapInit => RewrapInv
<1> SUFFICES ASSUME RewrapInit PROVE RewrapInv
  OBVIOUS
<1> USE DEF RewrapInit
<1>1. [dek |-> FirstDek, version |-> 1] \in Ciphertexts /\ Garbled \in Contents
  BY ConstantFacts
<1>2. \A f \in Files : keyFile[f] \in {Garbled, [dek |-> FirstDek, version |-> 1]}
  OBVIOUS
<1>3. RewrapTypeOK
  <2>1. keyFile \in [Files -> Contents] /\ bak \in [Files -> Contents]
    BY <1>1, ConstantFacts
  <2>2. enc \in [Files -> Deks] /\ results \in [Files -> Result]
    BY ConstantFacts
  <2>3. opt \in Options /\ stage \in Stages
    BY ConstantFacts DEF Options, Stages
  <2> QED BY <1>1, <2>1, <2>2, <2>3, BoundsAssumption DEF RewrapTypeOK
<1>4. KeysKnown
  <2>1. latest \in Nat /\ 1 <= latest
    BY BoundsAssumption DEF Versions
  <2>2. Garbled.version = 0 /\ [dek |-> FirstDek, version |-> 1].version = 1
        /\ [dek |-> FirstDek, version |-> 1].dek = FirstDek
    BY DEF Garbled
  <2> QED BY <1>2, <2>1, <2>2 DEF KeysKnown
<1>5. InWork /\ TodoOpen /\ ServiceMarks
  BY DEF InWork, Working, TodoOpen, ServiceMarks
<1>6. \A f \in Files : ReportSound(f) /\ BackupSound(f)
  BY DEF ReportSound, BackupSound, Succeeded
<1> QED
  BY <1>3, <1>4, <1>5, <1>6 DEF RewrapInv

LEMMA AlwaysRewrapInv == RewrapSpec => []RewrapInv
BY RewrapInvInit, RewrapInvKept, PTL DEF RewrapSpec

----------------------------------------------------------------------------
(* Theorems *)

\* Every reachable state has the declared types.
THEOREM RewrapTypeCorrect == RewrapSpec => []RewrapTypeOK
<1>1. RewrapInv => RewrapTypeOK
  BY DEF RewrapInv
<1> QED BY <1>1, AlwaysRewrapInv, PTL

\* What the report says of a file is what is on disk, whatever failed, was
\* rolled back or was rotated meanwhile.
THEOREM ReportCorrect == RewrapSpec => []ReportMatchesFiles
<1>1. RewrapInv => ReportMatchesFiles
  BY ReportByFile DEF RewrapInv
<1> QED BY <1>1, AlwaysRewrapInv, PTL

\* After a success the backup is the key file the run found.
THEOREM BackupCorrect == RewrapSpec => []BackupIsPrevious
<1>1. RewrapInv => BackupIsPrevious
  BY ReportByFile DEF RewrapInv
<1> QED BY <1>1, AlwaysRewrapInv, PTL

\* The steps that write a key file or a backup.
LEMMA WhoWrites ==
  ASSUME RewrapInv, [RewrapNext]_rewrapVars
  PROVE  \/ keyFile' = keyFile /\ bak' = bak
         \/ CreateBackup \/ WriteKeyFile \/ RestoreBackup \/ ServiceWritesKey
BY DEF RewrapNext, rewrapVars, fileVars, RunStep, StartRun, ReadKey, RewrapDataKey, Report, Kill,
   Rotate, ServiceWritesEnc

\* What such a step of the run does to the key files: that of the file in work
\* gets the new ciphertext, or what its backup holds.
LEMMA KeyWritten ==
  ASSUME RewrapInv, WriteKeyFile \/ RestoreBackup
  PROVE  /\ \A g \in Files \ {cur} : keyFile'[g] = keyFile[g]
         /\ enc' = enc /\ raced' = raced
         /\ cur \notin raced => \/ keyFile'[cur] = keyFile[cur]
                                \/ /\ keyFile'[cur].dek = keyFile[cur].dek
                                   /\ keyFile'[cur].version >= keyFile[cur].version
<1>1. Working /\ InWork /\ RewrapTypeOK /\ cur \in Files
  BY WorkFacts DEF Working, RewrapInv, WriteKeyFile, RestoreBackup, Stage
<1>2. CASE WriteKeyFile
  BY <1>1, <1>2 DEF WriteKeyFile, Stage, otherVars, InWork, RewrapTypeOK
<1>3. CASE RestoreBackup
  BY <1>1, <1>3 DEF RestoreBackup, Stage, otherVars, InWork, RewrapTypeOK
<1> QED BY <1>2, <1>3

LEMMA VersionsAreNumbers ==
  ASSUME RewrapInv
  PROVE  \A f \in Files : keyFile[f].version \in Nat
BY ConstantFacts DEF RewrapInv, RewrapTypeOK

LEMMA OpensKept ==
  ASSUME RewrapInv, [RewrapNext]_rewrapVars, NEW f \in Files, Opens(f)
  PROVE  Opens(f)' \/ f = service' \/ f \in raced'
<1>1. RewrapTypeOK
  BY DEF RewrapInv
<1>2. CASE WriteKeyFile \/ RestoreBackup
  BY <1>2, KeyWritten DEF Opens
<1>3. CASE ServiceWritesKey
  BY <1>1, <1>3 DEF ServiceWritesKey, Opens, RewrapTypeOK
<1>4. CASE keyFile' = keyFile
  <2>1. enc' = enc \/ \E g \in Files : ServiceWritesEnc(g)
    BY SMTT(30) DEF RewrapNext, rewrapVars, fileVars, RunStep, StartRun, ReadKey, CreateBackup,
       RewrapDataKey, WriteKeyFile, RestoreBackup, Report, Kill, Rotate, ServiceWritesKey, Stage
  <2>2. CASE enc' = enc
    BY <1>4, <2>2 DEF Opens
  <2>3. ASSUME NEW g \in Files, ServiceWritesEnc(g) PROVE Opens(f)' \/ f = service'
    BY <1>1, <1>4, <2>3 DEF ServiceWritesEnc, Opens, RewrapTypeOK
  <2> QED BY <2>1, <2>2, <2>3
<1> QED
  BY <1>2, <1>3, <1>4, WhoWrites DEF CreateBackup

\* A key file never stops opening its ciphertext by a rewrap that fails or is
\* killed at any point; only a write of the service can do that.
THEOREM OpeningKept == RewrapSpec => KeepsOpening
<1>1. RewrapInv /\ [RewrapNext]_rewrapVars =>
        [\A f \in Files : Opens(f) => Opens(f)' \/ f = service' \/ f \in raced']_rewrapVars
  BY OpensKept
<1> QED BY <1>1, AlwaysRewrapInv, PTL DEF RewrapSpec, KeepsOpening

LEMMA VersionKept ==
  ASSUME RewrapInv, [RewrapNext]_rewrapVars, NEW f \in Files \ raced'
  PROVE  keyFile'[f].version >= keyFile[f].version
<1>1. RewrapTypeOK /\ KeysKnown /\ keyFile[f].version \in Nat
  BY VersionsAreNumbers DEF RewrapInv
<1>2. CASE WriteKeyFile \/ RestoreBackup
  BY <1>1, <1>2, KeyWritten
<1>3. CASE ServiceWritesKey
  BY <1>1, <1>3 DEF ServiceWritesKey, RewrapTypeOK, KeysKnown
<1>4. CASE keyFile' = keyFile
  BY <1>1, <1>4
<1> QED
  BY <1>2, <1>3, <1>4, WhoWrites DEF CreateBackup

\* A key file never goes back to an older version of the Vault key.
THEOREM VersionsKept == RewrapSpec => VersionNeverDrops
<1>1. RewrapInv /\ [RewrapNext]_rewrapVars =>
        [\A f \in Files \ raced' : keyFile'[f].version >= keyFile[f].version]_rewrapVars
  BY VersionKept
<1> QED BY <1>1, AlwaysRewrapInv, PTL DEF RewrapSpec, VersionNeverDrops

LEMMA TouchedWasOld ==
  ASSUME RewrapInv, [RewrapNext]_rewrapVars, NEW f \in Files,
         bak'[f] # bak[f] \/ keyFile'[f] # keyFile[f]
  PROVE  f = service \/ (~opt.dry /\ cur = f /\ NeedsRewrap(old))
<1>1. RewrapTypeOK /\ InWork
  BY DEF RewrapInv
<1>2. CASE CreateBackup \/ WriteKeyFile \/ RestoreBackup
  <2>1. Working
    BY <1>2 DEF Working, CreateBackup, WriteKeyFile, RestoreBackup, Stage
  <2>2. f = cur
    BY <1>1, <1>2 DEF CreateBackup, WriteKeyFile, RestoreBackup, RewrapTypeOK
  <2> QED BY <1>1, <2>1, <2>2 DEF InWork
<1>3. CASE ServiceWritesKey
  BY <1>1, <1>3 DEF ServiceWritesKey, RewrapTypeOK
<1> QED
  BY <1>2, <1>3, WhoWrites

\* Dry runs write nothing, and a run writes only what belongs to a key file that
\* it read and found older than it may be.
THEOREM OnlyOldKeysTouchedCorrect == RewrapSpec => OnlyOldKeysTouched
<1>1. RewrapInv /\ [RewrapNext]_rewrapVars =>
        [\A f \in Files : bak'[f] # bak[f] \/ keyFile'[f] # keyFile[f] =>
           \/ f = service
           \/ ~opt.dry /\ cur = f /\ NeedsRewrap(old)]_rewrapVars
  BY TouchedWasOld
<1> QED BY <1>1, AlwaysRewrapInv, PTL DEF RewrapSpec, OnlyOldKeysTouched
=============================================================================
