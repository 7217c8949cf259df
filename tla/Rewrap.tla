------------------------------- MODULE Rewrap -------------------------------
(* The rewrap command (cmd/file-encryptor/rewrap.go, internal/rewrap): a     *)
(* batch that replaces the data key in each .key file by the same data key   *)
(* encrypted with the latest version of the Vault key, with a backup, a dry  *)
(* run and a report.  Meanwhile Vault rotates the key, the service may       *)
(* encrypt a file again, and the command may be killed between two steps.    *)
(*                                                                           *)
(* A temporary file is invisible until it is renamed: creating, writing and  *)
(* syncing it is part of the step that ends in the rename, or fails.         *)
EXTENDS Naturals, FiniteSets

CONSTANTS
  Files,       \* the encrypted files
  NoFile,
  MaxVersion,  \* bound: versions of the Vault key
  MaxRuns,     \* bound: runs of the command
  MaxWrites    \* bound: encryptions by the service

ASSUME FilesAssumption == IsFiniteSet(Files) /\ NoFile \notin Files
ASSUME BoundsAssumption ==
  MaxVersion \in Nat \ {0} /\ MaxRuns \in Nat /\ MaxWrites \in Nat

VARIABLES
  enc,      \* the data key each .enc file is encrypted with
  keyFile,  \* the .key files
  bak,      \* the .key.bak files
  latest,   \* the latest version of the Vault key
  service,  \* the file whose .enc the service has written, but not its .key
  writes,   \* encryptions by the service so far
  raced,    \* files whose .key the service last wrote under the command's hands
  opt,      \* the flags of the run
  stage,    \* where the run is
  todo,     \* the key files it has still to read
  cur,      \* the file it works on
  old, new, \* the ciphertext read, and the one Vault returned
  results,  \* one RewrapResult for each file dealt with
  exit,     \* the exit code of the last run
  runs      \* runs so far

fileVars == <<enc, keyFile, bak>>
otherVars == <<latest, service, writes, raced>>
runVars == <<opt, stage, todo, cur, old, new, results, exit, runs>>
rewrapVars == <<fileVars, otherVars, runVars>>

Versions == 1..MaxVersion
FirstDek == 1
Deks == FirstDek..(MaxWrites + 1)

\* A .key file: vault:v<version>:<data key>, or something else.
Ciphertexts == [dek : Deks, version : Versions]
Garbled == [dek |-> 0, version |-> 0]
Contents == Ciphertexts \union {Garbled}

Result == [error : BOOLEAN, old : 0..MaxVersion, new : 0..MaxVersion]
NoResult == [error |-> FALSE, old |-> 0, new |-> 0]

Options == [dry : BOOLEAN, backup : BOOLEAN, min : Versions]
Stages == {"off", "next", "backup", "vault", "write", "restore"}
Killed == 3   \* no exit code of the command
Stage(s) == stage = s /\ UNCHANGED <<otherVars, opt, todo, runs, exit, enc>>

RewrapInit ==
  /\ enc = [f \in Files |-> FirstDek]
  /\ latest \in Versions
  /\ keyFile \in [Files -> {Garbled, [dek |-> FirstDek, version |-> 1]}]
  /\ bak = [f \in Files |-> Garbled]
  /\ service = NoFile /\ writes = 0 /\ raced = {}
  /\ opt = [dry |-> TRUE, backup |-> TRUE, min |-> 1]
  /\ stage = "off" /\ todo = {} /\ cur = NoFile /\ old = Garbled /\ new = Garbled
  /\ results = [f \in Files |-> NoResult] /\ exit = 0 /\ runs = 0

----------------------------------------------------------------------------
(* One key file after another (rewrapper.go) *)

\* One file, or all those a scan finds.
StartRun ==
  /\ stage = "off" /\ runs < MaxRuns /\ runs' = runs + 1
  /\ opt' \in Options /\ todo' \in (SUBSET Files) \ {{}}
  /\ stage' = "next" /\ results' = [f \in Files |-> NoResult]
  /\ UNCHANGED <<fileVars, otherVars, cur, old, new, exit>>

Finish(f, r) ==
  /\ results' = [results EXCEPT ![f] = r]
  /\ stage' = "next" /\ cur' = NoFile /\ old' = Garbled /\ new' = Garbled

Failed(o, n) == [error |-> TRUE, old |-> o, new |-> n]
Skipped(o) == [error |-> FALSE, old |-> o, new |-> 0]

NeedsRewrap(c) == c.version < opt.min

\* Mutant of ReadKey: the dry-run flag is not looked at.
ReadKeyWet(f) ==
  /\ stage = "next" /\ f \in todo /\ todo' = todo \ {f}
  /\ IF NeedsRewrap(keyFile[f]) /\ keyFile[f] # Garbled
       THEN /\ cur' = f /\ old' = keyFile[f] /\ UNCHANGED <<new, results>>
            /\ stage' = IF opt.backup THEN "backup" ELSE "vault"
       ELSE Finish(f, Skipped(keyFile[f].version))
  /\ UNCHANGED <<fileVars, otherVars, opt, runs, exit>>

\* The key file is read and its version parsed; nothing else is done to a key
\* that is recent enough, or in a dry run.
ReadKey(f) ==
  /\ stage = "next" /\ f \in todo /\ todo' = todo \ {f}
  /\ \/ Finish(f, Failed(0, 0))
     \/ /\ keyFile[f] # Garbled
        /\ IF NeedsRewrap(keyFile[f]) /\ ~opt.dry
             THEN /\ cur' = f /\ old' = keyFile[f] /\ new' = new
                  /\ stage' = IF opt.backup THEN "backup" ELSE "vault"
                  /\ results' = results
             ELSE Finish(f, Skipped(keyFile[f].version))
  /\ UNCHANGED <<fileVars, otherVars, opt, runs, exit>>

\* Mutants of CreateBackup: a backup of an earlier run is kept; an error of the
\* copy is ignored.
BackupOnce ==
  /\ Stage("backup") /\ stage' = "vault"
  /\ bak' = IF bak[cur] = Garbled THEN [bak EXCEPT ![cur] = keyFile[cur]] ELSE bak
  /\ UNCHANGED <<keyFile, cur, old, new, results>>
BackupUnchecked ==
  /\ Stage("backup") /\ stage' = "vault"
  /\ bak' \in {bak, [bak EXCEPT ![cur] = keyFile[cur]]}
  /\ UNCHANGED <<keyFile, cur, old, new, results>>

CreateBackup ==
  /\ Stage("backup")
  /\ \/ /\ bak' = [bak EXCEPT ![cur] = keyFile[cur]]
        /\ stage' = "vault" /\ UNCHANGED <<cur, old, new, results>>
     \/ Finish(cur, Failed(old.version, 0)) /\ bak' = bak
  /\ UNCHANGED keyFile

\* Vault or the write failed: the backup, if there is one, is put back first.
Abandon ==
  IF opt.backup THEN stage' = "restore" /\ UNCHANGED <<cur, old, new, results>>
                ELSE Finish(cur, Failed(old.version, new.version))

\* Mutant of RewrapDataKey: a ciphertext whose version cannot be parsed is used.
RewrapUnparsed ==
  /\ Stage("vault") /\ stage' = "write"
  /\ \E v \in {latest, 0} : new' = [dek |-> old.dek, version |-> v]
  /\ UNCHANGED <<keyFile, bak, cur, old, results>>

RewrapDataKey ==
  /\ Stage("vault")
  /\ \/ /\ new' = [dek |-> old.dek, version |-> latest]
        /\ stage' = "write" /\ UNCHANGED <<cur, old, results>>
     \/ Abandon
     \/ Finish(cur, Failed(old.version, 0))   \* no version in what Vault returned
  /\ UNCHANGED <<keyFile, bak>>

\* Mutants of WriteKeyFile: the key file is written in place; an error of the
\* write is ignored.
WriteInPlace ==
  /\ Stage("write") /\ UNCHANGED bak
  /\ \/ /\ keyFile' = [keyFile EXCEPT ![cur] = new]
        /\ Finish(cur, [error |-> FALSE, old |-> old.version, new |-> new.version])
     \/ Abandon /\ keyFile' = [keyFile EXCEPT ![cur] = Garbled]
WriteUnchecked ==
  /\ Stage("write") /\ UNCHANGED bak
  /\ keyFile' \in {keyFile, [keyFile EXCEPT ![cur] = new]}
  /\ Finish(cur, [error |-> FALSE, old |-> old.version, new |-> new.version])

WriteKeyFile ==
  /\ Stage("write")
  /\ \/ /\ keyFile' = [keyFile EXCEPT ![cur] = new]
        /\ Finish(cur, [error |-> FALSE, old |-> old.version, new |-> new.version])
     \/ Abandon /\ UNCHANGED keyFile
  /\ UNCHANGED bak

RestoreBackup ==
  /\ Stage("restore")
  /\ keyFile' \in {keyFile, [keyFile EXCEPT ![cur] = bak[cur]]}
  /\ Finish(cur, Failed(old.version, new.version))
  /\ UNCHANGED bak

----------------------------------------------------------------------------
(* The report (reporter.go) and the exit code *)

\* The files the run has dealt with; none ends with NoResult.
Dealt == {f \in Files : results[f] # NoResult}
FailedOnes == {f \in Dealt : results[f].error}
SkippedOnes == {f \in Dealt \ FailedOnes : results[f].new = 0}
Successful == Dealt \ (FailedOnes \union SkippedOnes)

ExitCode == IF FailedOnes = {} THEN 0 ELSE IF Successful # {} THEN 1 ELSE 2

Report ==
  /\ stage = "next" /\ todo = {}
  /\ stage' = "off" /\ exit' = ExitCode
  /\ UNCHANGED <<fileVars, otherVars, opt, todo, cur, old, new, results, runs>>

Kill ==
  /\ stage # "off"
  /\ stage' = "off" /\ exit' = Killed
  /\ todo' = {} /\ cur' = NoFile /\ old' = Garbled /\ new' = Garbled
  /\ UNCHANGED <<fileVars, otherVars, opt, results, runs>>

----------------------------------------------------------------------------
(* Vault and the service *)

Rotate ==
  /\ latest < MaxVersion /\ latest' = latest + 1
  /\ UNCHANGED <<fileVars, service, writes, raced, runVars>>

\* The service encrypts a new source file of the same name: first the .enc
\* file, with a new data key, then the .key file.
ServiceWritesEnc(f) ==
  /\ service = NoFile /\ writes < MaxWrites
  /\ service' = f /\ writes' = writes + 1
  /\ enc' = [enc EXCEPT ![f] = writes + 2]
  /\ UNCHANGED <<keyFile, bak, latest, raced, runVars>>

ServiceWritesKey ==
  /\ service # NoFile /\ service' = NoFile
  /\ keyFile' = [keyFile EXCEPT ![service] = [dek |-> enc[service], version |-> latest]]
  /\ raced' = IF cur = service THEN raced \union {service} ELSE raced \ {service}
  /\ UNCHANGED <<enc, bak, latest, writes, runVars>>

RunStep ==
  \/ \E f \in Files : ReadKey(f)
  \/ CreateBackup \/ RewrapDataKey \/ WriteKeyFile \/ RestoreBackup \/ Report

RewrapNext ==
  \/ StartRun \/ RunStep \/ Kill \/ Rotate
  \/ \E f \in Files : ServiceWritesEnc(f)
  \/ ServiceWritesKey

RewrapSpec == RewrapInit /\ [][RewrapNext]_rewrapVars

----------------------------------------------------------------------------
(* Properties *)

RewrapTypeOK ==
  /\ enc \in [Files -> Deks] /\ {keyFile, bak} \subseteq [Files -> Contents]
  /\ latest \in Versions /\ service \in Files \union {NoFile} /\ writes \in 0..MaxWrites
  /\ raced \subseteq Files /\ opt \in Options /\ stage \in Stages /\ todo \subseteq Files
  /\ cur \in Files \union {NoFile} /\ {old, new} \subseteq Contents
  /\ results \in [Files -> Result] /\ exit \in {0, 1, 2, Killed} /\ runs \in 0..MaxRuns

Opens(f) == keyFile[f].dek = enc[f]

\* A .key file that opens its .enc file goes on opening it, whatever step of a
\* rewrap fails and wherever the command is killed; only the service, between
\* its two writes, or a service write that the run has not seen, can break it.
KeepsOpening ==
  [][\A f \in Files : Opens(f) => Opens(f)' \/ f = service' \/ f \in raced']_rewrapVars

\* A key file never goes back to an older version of the Vault key: a rollback
\* puts back what this run found, not a backup of an earlier run.
VersionNeverDrops ==
  [][\A f \in Files \ raced' : keyFile'[f].version >= keyFile[f].version]_rewrapVars

\* What the report says of a file is what is on disk: a success is at the new
\* version, a failed or skipped file is still at the version it had.
ReportMatchesFiles ==
  \A f \in Dealt : enc[f] = FirstDek /\ results[f].old # 0 =>
    keyFile[f].version = IF f \in Successful THEN results[f].new ELSE results[f].old

\* After a success with a backup the key can be rolled back by hand: the backup
\* opens the .enc file and has the version the report calls old.
BackupIsPrevious ==
  \A f \in Successful : opt.backup /\ enc[f] = FirstDek =>
    bak[f] = [dek |-> enc[f], version |-> results[f].old]

\* A dry run and a run whose keys are recent enough write neither keys nor
\* backups; what they do not touch only the service changes.
OnlyOldKeysTouched ==
  [][\A f \in Files : bak'[f] # bak[f] \/ keyFile'[f] # keyFile[f] =>
       \/ f = service
       \/ ~opt.dry /\ cur = f /\ NeedsRewrap(old)]_rewrapVars
=============================================================================
