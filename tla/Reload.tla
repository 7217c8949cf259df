------------------------------- MODULE Reload -------------------------------
(* A running service that reloads its configuration: the main goroutine     *)
(* (Service.Run) with the signals sent to it, the configuration manager and *)
(* its callback; the watcher goroutine with its fsnotify watches, which     *)
(* waits for uploads to become stable; and the processor.  The callback     *)
(* updates logger, watcher and processor one after the other, each under a  *)
(* lock that the goroutine concerned may hold for long.                     *)
(*                                                                          *)
(* A writer that waits for a sync.RWMutex keeps new readers out, so that    *)
(* main' = "watcher" (or "processor") is both the request for the lock and  *)
(* the wait for it.                                                         *)
EXTENDS Integers, Sequences, FiniteSets

CONSTANTS
  Dirs,        \* source directories
  Dests,       \* destination directories
  NoDir,       \* "", an absent directory
  Files,       \* the files users may upload
  NoFile,
  Worlds,      \* the worlds, as below, to start in
  MaxWrites,   \* bound: the writes it takes to upload a file
  MaxEdits,    \* bound: the number of edits of the configuration file
  MaxSignals   \* bound: the number of signals sent

Sides == {"encrypt", "decrypt"}

\* What of a configuration file matters here: whether it parses and passes
\* Validate, whether it has a decryption block, and its directories.
Config == [valid : BOOLEAN, block : BOOLEAN,
           src : [Sides -> Dirs \union {NoDir}], dst : [Sides -> Dests]]

\* What surrounds the service: whether adding a watch, opening a log, or reading
\* a directory or a file may fail; whether users write to an unfinished upload
\* at least once in every stability_duration; how many looks fit into the five
\* minutes the watcher waits for a file; what the configuration file says at
\* first, what it may say later, and how often it is edited; how many writes an
\* upload takes; the files whose names end in .sha256, and the ciphertexts whose
\* key need not be there when the watcher looks for it.
World == [faults : BOOLEAN, brisk : BOOLEAN, patience : Nat, first : Config,
          configs : SUBSET Config, edits : 0..MaxEdits, writes : 1..MaxWrites,
          sha256 : SUBSET Files, unkeyed : SUBSET Files]

ASSUME WorldAssumption ==
  /\ Worlds \subseteq World
  /\ \A w \in Worlds : w.first \in w.configs /\ w.first.valid /\ w.first.block
ASSUME ReloadBounds == MaxWrites \in Nat \ {0} /\ MaxEdits \in Nat /\ MaxSignals \in Nat
ASSUME NoNames == NoDir \notin Dirs /\ NoFile \notin Files

VARIABLES
  world,     \* the world, fixed
  disk,      \* the configuration file: its version and what it says
  mgr,       \* Manager.config
  settings,  \* the configuration the processor was last given
  sigbuf,    \* the signal in sigChan, which holds one
  signals,   \* signals sent so far
  main,      \* where the main goroutine is
  log, open, \* Service.log, and the loggers whose files are open
  src, dst,  \* the directories of the watcher, by side
  watched,   \* the directories fsnotify watches
  events,    \* Create events the watcher has not received yet
  scout,     \* where the watcher goroutine is
  errand,    \* what it is at: the scan of a side, or an event
  found,     \* the sources Start has read
  todo,      \* the files it has to look at under the lock
  file,      \* the one it waits for
  seen,      \* what its first look saw
  looks,     \* the looks it has had at it
  home,      \* the directory of each file, NoDir if it is not there
  kind,      \* the side whose files it looks like, by its extension
  stamp,     \* its size and modification time
  queue,     \* the queued items
  work,      \* the item in work
  noticed    \* the files that were queued

configVars == <<disk, mgr, settings>>
signalVars == <<sigbuf, signals>>
logVars == <<log, open>>
watchVars == <<src, dst, watched>>
scoutVars == <<scout, errand, found, todo, file, seen, looks>>
fileVars == <<home, kind, stamp>>
workVars == <<queue, work, noticed>>
reloadVars == <<world, configVars, signalVars, main, logVars, watchVars, events, scoutVars,
                fileVars, workVars>>

NoSignal == "none"
NoStamp == [size |-> 0, mtime |-> 0]
NoItem == [file |-> NoFile]
Stamp == [size : 0..MaxWrites, mtime : 0..MaxWrites]
Item == [file : Files, side : Sides, dst : Dests, scanned : BOOLEAN]
Versioned == [ver : 0..MaxEdits, cfg : Config]

Alive == main \notin {"exited", "panicked"}
Cancelled == main \in {"stopping", "hung"}

\* service.New has returned, and Run has started its goroutines.
ReloadInit ==
  /\ world \in Worlds
  /\ disk = [ver |-> 0, cfg |-> world.first] /\ mgr = disk /\ settings = disk
  /\ sigbuf = NoSignal /\ signals = 0 /\ main = "select"
  /\ log = 0 /\ open = {0}
  /\ src = disk.cfg.src /\ dst = disk.cfg.dst /\ watched = {} /\ events = <<>>
  /\ scout = "start" /\ errand = "encrypt" /\ found = src
  /\ todo = {} /\ file = NoFile /\ seen = NoStamp /\ looks = 0
  /\ home = [f \in Files |-> NoDir] /\ kind = [f \in Files |-> "encrypt"]
  /\ stamp = [f \in Files |-> NoStamp]
  /\ queue = {} /\ work = NoItem /\ noticed = {}

----------------------------------------------------------------------------
(* Users and the operator *)

\* A file appears in a directory that some configuration makes a source.
Create(f) ==
  /\ Alive /\ stamp[f] = NoStamp
  /\ \E d \in Dirs, s \in Sides :
       /\ \E c \in world.configs : c.src[s] = d
       /\ home' = [home EXCEPT ![f] = d] /\ kind' = [kind EXCEPT ![f] = s]
       /\ events' = IF d \in watched THEN Append(events, f) ELSE events
  /\ stamp' = [stamp EXCEPT ![f] = [size |-> 1, mtime |-> 1]]
  /\ UNCHANGED <<world, configVars, signalVars, main, logVars, watchVars, scoutVars, workVars>>

Complete(f) == stamp[f].mtime = world.writes

\* A write to an unfinished upload; it need not make the file any longer.
Write(f) ==
  /\ Alive /\ home[f] # NoDir /\ ~Complete(f)
  /\ \E n \in {stamp[f].size, stamp[f].size + 1} :
       stamp' = [stamp EXCEPT ![f] = [size |-> n, mtime |-> @.mtime + 1]]
  /\ UNCHANGED <<world, configVars, signalVars, main, logVars, watchVars, events, scoutVars,
                 home, kind, workVars>>

Edit ==
  /\ Alive /\ disk.ver < world.edits
  /\ \E c \in world.configs \ {disk.cfg} : disk' = [ver |-> disk.ver + 1, cfg |-> c]
  /\ UNCHANGED <<world, mgr, settings, signalVars, main, logVars, watchVars, events, scoutVars,
                 fileVars, workVars>>

\* signal.Notify does not wait: a signal that finds the buffer full is lost.
Send(sig) ==
  /\ Alive /\ signals < MaxSignals /\ signals' = signals + 1
  /\ sigbuf' = IF sigbuf = NoSignal THEN sig ELSE sigbuf
  /\ UNCHANGED <<world, configVars, main, logVars, watchVars, events, scoutVars, fileVars, workVars>>

----------------------------------------------------------------------------
(* The main goroutine (service.go, config/reload.go) *)

Receive ==
  /\ main = "select" /\ sigbuf # NoSignal
  /\ main' = IF sigbuf = "HUP" THEN "load" ELSE "stopping"
  /\ sigbuf' = NoSignal
  /\ UNCHANGED <<world, configVars, signals, logVars, watchVars, events, scoutVars, fileVars, workVars>>

\* Mutant of Load: a file that cannot be used is read again until it can.
LoadAgain ==
  /\ main = "load"
  /\ IF disk.cfg.valid THEN mgr' = disk /\ main' = "logger" ELSE UNCHANGED <<mgr, main>>
  /\ UNCHANGED <<world, disk, settings, signalVars, logVars, watchVars, events, scoutVars, fileVars,
                 workVars>>

\* Manager.Reload: a file that does not load or validate changes nothing.
Load ==
  /\ main = "load"
  /\ IF disk.cfg.valid THEN mgr' = disk /\ main' = "logger"
                       ELSE mgr' = mgr /\ main' = "select"
  /\ UNCHANGED <<world, disk, settings, signalVars, logVars, watchVars, events, scoutVars, fileVars,
                 workVars>>

\* Sync closes the file of the logger the service writes to.
Sync == open \ {log}

\* Mutant of SwitchLogger: the old logger is closed before the new one is there.
CloseFirst ==
  /\ main = "logger" /\ main' = "watcher"
  /\ \/ log' = log + 1 /\ open' = Sync \union {log'}
     \/ world.faults /\ open' = Sync /\ log' = log
  /\ UNCHANGED <<world, configVars, signalVars, watchVars, events, scoutVars, fileVars, workVars>>

\* The callback opens a new logger and closes the old one, or keeps the old one.
SwitchLogger ==
  /\ main = "logger" /\ main' = "watcher"
  /\ \/ log' = log + 1 /\ open' = Sync \union {log'}
     \/ world.faults /\ UNCHANGED logVars
  /\ UNCHANGED <<world, configVars, signalVars, watchVars, events, scoutVars, fileVars, workVars>>

\* Mutants of TakeOver: the new directory is not added; the destination is
\* taken over before the new source directory is.
Unadded(w, s, c, refused) ==
  IF w.failed \/ c.src[s] = w.src[s] THEN w
  ELSE [watched |-> w.watched \ {w.src[s]}, src |-> [w.src EXCEPT ![s] = c.src[s]],
        dst |-> [w.dst EXCEPT ![s] = c.dst[s]], failed |-> FALSE]
DestFirst(w, s, c, refused) ==
  LET kept == w.watched \ {w.src[s]} IN
  IF w.failed \/ c.src[s] = w.src[s] THEN w
  ELSE IF c.src[s] \in refused
    THEN [w EXCEPT !.watched = kept, !.dst[s] = c.dst[s], !.failed = TRUE]
    ELSE [watched |-> kept \union ({c.src[s]} \ {NoDir}), src |-> [w.src EXCEPT ![s] = c.src[s]],
          dst |-> [w.dst EXCEPT ![s] = c.dst[s]], failed |-> FALSE]

\* One side of UpdateConfig: nothing if the source directory is the same; else
\* Remove and Add, and if Add fails UpdateConfig returns at once.
TakeOver(w, s, c, refused) ==
  LET kept == w.watched \ {w.src[s]} IN
  IF w.failed \/ c.src[s] = w.src[s] THEN w
  ELSE IF c.src[s] \in refused THEN [w EXCEPT !.watched = kept, !.failed = TRUE]
  ELSE [watched |-> kept \union ({c.src[s]} \ {NoDir}), src |-> [w.src EXCEPT ![s] = c.src[s]],
        dst |-> [w.dst EXCEPT ![s] = c.dst[s]], failed |-> FALSE]

Done == file' = NoFile /\ seen' = NoStamp /\ looks' = 0

\* The goroutines end with the process, wherever they are.
Forget ==
  /\ watched' = {} /\ events' = <<>> /\ queue' = {} /\ work' = NoItem
  /\ scout' = "ended" /\ errand' = "event" /\ found' = src /\ todo' = {} /\ Done
  /\ UNCHANGED <<src, dst, noticed>>

Panic == main' = "panicked" /\ open' = {} /\ log' = log /\ Forget

\* Watcher.UpdateConfig, once the watcher lets go of its lock; the callback only
\* logs its error.  A configuration without a decryption block is dereferenced.
UpdateWatcher ==
  /\ main = "watcher" /\ scout # "locked"
  /\ IF ~mgr.cfg.block THEN Panic ELSE
       /\ \E refused \in SUBSET {d \in Dirs : world.faults /\ \E s \in Sides : mgr.cfg.src[s] = d} :
            LET c == mgr.cfg
                w == [watched |-> watched, src |-> src, dst |-> dst, failed |-> FALSE]
                v == TakeOver(TakeOver(w, "encrypt", c, refused), "decrypt", c, refused)
            IN watched' = v.watched /\ src' = v.src /\ dst' = v.dst
       /\ main' = "processor" /\ UNCHANGED <<logVars, events, scoutVars, workVars>>
  /\ UNCHANGED <<world, configVars, signalVars, fileVars>>

\* Mutant of UpdateProcessor: the item in work is not waited for.
UpdateAtOnce ==
  /\ main = "processor" /\ main' = "select" /\ settings' = mgr
  /\ UNCHANGED <<world, disk, mgr, signalVars, logVars, watchVars, events, scoutVars, fileVars,
                 workVars>>

\* Processor.UpdateConfig, once no item is in work.
UpdateProcessor ==
  /\ main = "processor" /\ work = NoItem
  /\ main' = "select" /\ settings' = mgr
  /\ UNCHANGED <<world, disk, mgr, signalVars, logVars, watchVars, events, scoutVars, fileVars,
                 workVars>>

\* Shutdown sleeps, saves and returns; runWatch closes the service.
Exit ==
  /\ main = "stopping" /\ main' = "exited" /\ open' = Sync
  /\ Forget
  /\ UNCHANGED <<world, configVars, signalVars, log, fileVars>>

\* Or Save waits for the lock of the queue, which it holds itself, for ever
\* (QueueLock); from then on nobody gets that lock.
HangInSave ==
  /\ main = "stopping" /\ main' = "hung"
  /\ UNCHANGED <<world, configVars, signalVars, logVars, watchVars, events, scoutVars, fileVars,
                 workVars>>

MainStep ==
  Receive \/ Load \/ SwitchLogger \/ UpdateWatcher \/ UpdateProcessor \/ Exit \/ HangInSave

----------------------------------------------------------------------------
(* The watcher goroutine (watcher.go, detector.go) *)

MayRead == Alive /\ main # "watcher"

\* Start copies the source directories under the lock.
ReadSources ==
  /\ scout = "start" /\ MayRead
  /\ found' = src /\ scout' = "arm"
  /\ UNCHANGED <<world, configVars, signalVars, main, logVars, watchVars, events, errand, todo, file,
                 seen, looks, fileVars, workVars>>

\* After the scan of a side, or where there is nothing to watch.
Onward == IF errand = "encrypt" THEN scout' = "arm" /\ errand' = "decrypt"
                                ELSE scout' = "events" /\ errand' = "event"

\* Start adds its watch without the lock; if that fails, Start returns.
Arm ==
  /\ Alive /\ scout = "arm"
  /\ IF found[errand] = NoDir THEN Onward /\ UNCHANGED watched ELSE
       \/ watched' = watched \union {found[errand]} /\ scout' = "list" /\ UNCHANGED errand
       \/ world.faults /\ scout' = "ended" /\ UNCHANGED <<watched, errand>>
  /\ UNCHANGED <<world, configVars, signalVars, main, logVars, src, dst, events, found, todo, file,
                 seen, looks, fileVars, workVars>>

\* An error of ReadDir ends the scan.
List ==
  /\ Alive /\ scout = "list"
  /\ \/ /\ todo' = {f \in Files : home[f] = found[errand]} /\ scout' = "wait"
        /\ errand' = errand
     \/ world.faults /\ Onward /\ todo' = todo
  /\ UNCHANGED <<world, configVars, signalVars, main, logVars, watchVars, events, found, file,
                 seen, looks, fileVars, workVars>>

\* An event whose file is still there; the rest is done under the lock.
TakeEvent ==
  /\ Alive /\ scout = "events" /\ events # <<>>
  /\ events' = Tail(events)
  /\ \/ /\ home[Head(events)] = NoDir \/ world.faults
        /\ UNCHANGED <<scout, todo>>
     \/ home[Head(events)] # NoDir /\ scout' = "wait" /\ todo' = {Head(events)}
  /\ UNCHANGED <<world, configVars, signalVars, main, logVars, watchVars, errand, found, file, seen,
                 looks, fileVars, workVars>>

Lock ==
  /\ scout = "wait" /\ MayRead /\ scout' = "locked"
  /\ UNCHANGED <<world, configVars, signalVars, main, logVars, watchVars, events, errand, found, todo,
                 file, seen, looks, fileVars, workVars>>

\* The side a file belongs to: that of the scan, or that of its directory.
SideOf(f) ==
  IF errand # "event" THEN errand
  ELSE IF home[f] = src["encrypt"] THEN "encrypt"
  ELSE IF home[f] = src["decrypt"] THEN "decrypt" ELSE "neither"

\* A file that its name sends to that side: the scan, but not the event handler,
\* skips names that end in .sha256.
Wanted(f) == kind[f] = SideOf(f) /\ ~(errand = "encrypt" /\ f \in world.sha256)

\* The key of a ciphertext was looked for, by the event handler ten times in a
\* second, by the scan once, and was not there.
KeyMissing(f) == kind[f] = "decrypt" /\ f \in world.unkeyed

\* A file that is not dropped for its name, for want of a key or for an error.
Pick(f) ==
  /\ Alive /\ scout = "locked" /\ file = NoFile /\ f \in todo
  /\ \/ Wanted(f) /\ file' = f
     \/ (~Wanted(f) \/ KeyMissing(f) \/ world.faults) /\ file' = NoFile
  /\ todo' = todo \ {f}
  /\ UNCHANGED <<world, configVars, signalVars, main, logVars, watchVars, events, scout, errand, found,
                 seen, looks, fileVars, workVars>>

\* The first look of IsStable, unless the context is cancelled, the file gone or
\* its Stat fails.
FirstLook ==
  /\ Alive /\ file # NoFile /\ seen = NoStamp
  /\ \/ (Cancelled \/ home[file] = NoDir \/ world.faults) /\ Done
     \/ /\ ~Cancelled /\ home[file] # NoDir
        /\ seen' = stamp[file] /\ UNCHANGED <<file, looks>>
  /\ UNCHANGED <<world, configVars, signalVars, main, logVars, watchVars, events, scout, errand, found,
                 todo, fileVars, workVars>>

\* Mutant of Stable: only the sizes are compared.
SameSize(f) == stamp[f].size = seen.size

Stable(f) == stamp[f] = seen

Enqueue(f) ==
  /\ queue' = queue \union {[file |-> f, side |-> SideOf(f), dst |-> dst[SideOf(f)],
                             scanned |-> errand # "event"]}
  /\ noticed' = noticed \union {f} /\ work' = work

\* Mutants of OutOfPatience: one look too many; the first change is the end.
OneMoreLook == looks > world.patience
FirstChange == looks >= 0

OutOfPatience == looks >= world.patience

\* The second look, stability_duration later: the file is queued (Enqueue takes
\* the lock of the queue), looked at again, or given up when the five minutes are
\* over.
SecondLook ==
  /\ Alive /\ file # NoFile /\ seen # NoStamp
  /\ world.brisk => Complete(file) \/ stamp[file] # seen
  /\ \/ (home[file] = NoDir \/ world.faults) /\ Done /\ UNCHANGED workVars
     \/ home[file] # NoDir /\ Stable(file) /\ main # "hung" /\ Done /\ Enqueue(file)
     \/ /\ home[file] # NoDir /\ ~Stable(file) /\ UNCHANGED workVars
        /\ IF OutOfPatience THEN Done
             ELSE looks' = looks + 1 /\ seen' = NoStamp /\ UNCHANGED file
  /\ UNCHANGED <<world, configVars, signalVars, main, logVars, watchVars, events, scout, errand, found,
                 todo, fileVars>>

Unlock ==
  /\ Alive /\ scout = "locked" /\ file = NoFile /\ todo = {}
  /\ Onward
  /\ UNCHANGED <<world, configVars, signalVars, main, logVars, watchVars, events, found, todo, file,
                 seen, looks, fileVars, workVars>>

\* The context is done: the fsnotify watcher is closed.
StopWatching ==
  /\ scout = "events" /\ Cancelled
  /\ scout' = "ended" /\ watched' = {}
  /\ UNCHANGED <<world, configVars, signalVars, main, logVars, src, dst, events, errand, found, todo,
                 file, seen, looks, fileVars, workVars>>

WatcherStep ==
  \/ ReadSources \/ Arm \/ List \/ TakeEvent \/ Lock \/ FirstLook \/ SecondLook \/ Unlock
  \/ StopWatching
  \/ \E f \in Files : Pick(f)

----------------------------------------------------------------------------
(* The processor goroutine (processor.go) *)

\* processItem holds p.mu for reading until the item is dealt with; Dequeue needs
\* the lock of the queue.
TakeItem ==
  /\ Alive /\ main \notin {"processor", "hung"} /\ work = NoItem
  /\ \E i \in queue : work' = i /\ queue' = queue \ {i}
  /\ UNCHANGED <<world, configVars, signalVars, main, logVars, watchVars, events, scoutVars, fileVars,
                 noticed>>

\* Its file is kept, or moved away or deleted.
FinishItem ==
  /\ Alive /\ work # NoItem /\ work' = NoItem
  /\ home' \in {home, [home EXCEPT ![work.file] = NoDir]}
  /\ UNCHANGED <<world, configVars, signalVars, main, logVars, watchVars, events, scoutVars, kind,
                 stamp, queue, noticed>>

ProcessorStep == TakeItem \/ FinishItem

----------------------------------------------------------------------------

ReloadNext ==
  \/ \E f \in Files : Create(f) \/ Write(f)
  \/ Edit \/ \E sig \in {"HUP", "TERM"} : Send(sig)
  \/ MainStep \/ WatcherStep \/ ProcessorStep

\* The goroutines keep running, but for a processor that may wait for the lock of
\* the queue for ever, and brisk users go on with their uploads.
ReloadFairness ==
  /\ WF_reloadVars(MainStep) /\ WF_reloadVars(WatcherStep)
  /\ WF_reloadVars(ProcessorStep /\ main # "hung")
  /\ \A f \in Files : WF_reloadVars(world.brisk /\ Write(f))

ReloadSpec == ReloadInit /\ [][ReloadNext]_reloadVars
ReloadFairSpec == ReloadSpec /\ ReloadFairness

----------------------------------------------------------------------------
(* Properties *)

ReloadTypeOK ==
  /\ world \in World /\ {disk, mgr, settings} \subseteq Versioned
  /\ sigbuf \in {NoSignal, "HUP", "TERM"} /\ signals \in 0..MaxSignals
  /\ main \in {"select", "load", "logger", "watcher", "processor", "stopping", "hung",
              "exited", "panicked"}
  /\ log \in Nat /\ open \subseteq 0..log
  /\ src \in [Sides -> Dirs \union {NoDir}] /\ dst \in [Sides -> Dests] /\ watched \subseteq Dirs
  /\ events \in Seq(Files) /\ todo \subseteq Files /\ file \in Files \union {NoFile}
  /\ scout \in {"start", "arm", "list", "wait", "locked", "events", "ended"}
  /\ errand \in Sides \union {"event"} /\ found \in [Sides -> Dirs \union {NoDir}]
  /\ seen \in Stamp /\ looks \in 0..world.patience
  /\ home \in [Files -> Dirs \union {NoDir}] /\ kind \in [Files -> Sides]
  /\ stamp \in [Files -> Stamp]
  /\ queue \subseteq Item /\ work \in Item \union {NoItem} /\ noticed \subseteq Files

\* No directory changes sides from one configuration to another.
SidesApart ==
  \A c, d \in world.configs : c.src["encrypt"] # d.src["decrypt"]

Started == errand = "event" /\ scout # "ended" /\ Alive /\ ~Cancelled

\* The directories the watcher takes for its sources are watched, whatever
\* reloads happened and however they met with Start, which adds the watches it
\* read before a reload without the lock: so far as adding a watch does not
\* fail and no directory changes sides.
SourcesWatched ==
  Started /\ ~world.faults /\ SidesApart => \A s \in Sides : src[s] \in watched \union {NoDir}

\* Source and destination are never those of two configurations: not in the
\* watcher, even when half an update failed, and not in an item made from an
\* event (a scan that Start began before a reload can mix them).
Paired(s, a, b) == \E c \in world.configs : c.valid /\ c.block /\ c.src[s] = a /\ c.dst[s] = b
OneConfiguration ==
  /\ \A s \in Sides : Paired(s, src[s], dst[s])
  /\ \A i \in queue : ~i.scanned /\ home[i.file] # NoDir => Paired(i.side, home[i.file], i.dst)

\* An upload that is never silent for stability_duration is queued only when it
\* is complete.
BriskUploadsWhole ==
  [][world.brisk => \A f \in noticed' \ noticed : Complete(f)]_reloadVars

\* One log is open as long as the service runs, the one the main goroutine
\* writes to, whichever reload could not open its log; then none.
OneLogOpen == open = IF Alive THEN {log} ELSE {}

\* A signal to stop that got into the buffer is served, although a reload in
\* progress waits for the watcher, the watcher for an upload, and the processor
\* for an item: the service ends, or Shutdown gets as far as Save and hangs there
\* for a reason of the queue's own (QueueLock).
StopServed == (sigbuf = "TERM") ~> (~Alive \/ main = "hung")

\* An upload that is reported while its directory is the source of its side is
\* queued, or a reload changes that directory, or the service stops; so far as
\* its writes are no further apart than stability_duration, but end within the
\* five minutes, nothing fails, and a ciphertext comes with its key.  (A file that
\* lies in a directory before a reload makes it a source is not reported, and
\* waits for the next start.)
Reported(f) == Started /\ \E k \in DOMAIN events : events[k] = f
InTime == world.brisk /\ world.writes <= world.patience + 1
ArrivalsQueued ==
  \A f \in Files :
    Reported(f) /\ home[f] = src[kind[f]] /\ InTime /\ ~KeyMissing(f) /\ ~world.faults /\ SidesApart
      ~> f \in noticed \/ home[f] # src[kind[f]] \/ ~Started

\* The processor works with one configuration at a time: a valid one, never an
\* older one than before, and the same from the start of an item to its end.
R == INSTANCE ConfigRegister WITH
       latest <- disk.ver, valid <- disk.cfg.valid, known <- mgr.ver,
       inForce <- settings.ver, busy <- work # NoItem
ImplementsRegister == R!Register

----------------------------------------------------------------------------
(* What the documentation says, and the code does not do *)

\* The application will "update all affected components": after a reload the
\* source directories of the configuration are watched.
ReloadReachesWatcher ==
  Started /\ main = "select" => \A s \in Sides : mgr.cfg.src[s] \in watched \union {NoDir}
=============================================================================
