---------------------------- MODULE ReloadProofs ----------------------------
(* Theorems about Reload, for any directories, files, worlds and bounds. *)
EXTENDS Reload, TLAPS

----------------------------------------------------------------------------
(* The register of configurations *)

\* The world is one of the given ones, the file always says something that is a
\* configuration, and an item is not the absence of one.
RegisterInv ==
  /\ world \in Worlds /\ disk.cfg \in world.configs
  /\ NoItem \notin queue

\* What the operator may write is a configuration, and the first one is valid.
LEMMA WorldFacts ==
  ASSUME NEW w \in Worlds
  PROVE  /\ w.first \in w.configs /\ w.first.valid = TRUE
         /\ \A c \in w.configs : c.valid \in BOOLEAN
<1>1. w \in World
  BY WorldAssumption
<1>2. w.first \in w.configs /\ w.first.valid
  BY WorldAssumption
<1>3. w.configs \subseteq Config
  BY <1>1 DEF World
<1> QED
  BY <1>2, <1>3 DEF Config

\* An item has a file.
LEMMA ItemsAreItems ==
  ASSUME NEW f, f # NoFile, NEW s, NEW t, NEW b
  PROVE  [file |-> f, side |-> s, dst |-> t, scanned |-> b] # NoItem
  BY DEF NoItem

\* Every action keeps RegisterInv.
LEMMA RegisterInvKept ==
  ASSUME RegisterInv, [ReloadNext]_reloadVars
  PROVE  RegisterInv'
<1> USE DEF RegisterInv
<1>1. world' = world
  BY SMTT(30) DEF ReloadNext, reloadVars, MainStep, WatcherStep, ProcessorStep, Create, Write, Edit, Send,
         Receive, Load, SwitchLogger, UpdateWatcher, UpdateProcessor, Exit, HangInSave, ReadSources, Arm, List,
         TakeEvent, Lock, Pick, FirstLook, SecondLook, Unlock, StopWatching, TakeItem, FinishItem
<1>2. disk'.cfg \in world.configs
  <2>1. CASE Edit
    BY <2>1 DEF Edit
  <2>2. CASE ~Edit
    <3>1. disk' = disk
      BY <2>2, SMTT(30) DEF ReloadNext, reloadVars, configVars, MainStep, WatcherStep, ProcessorStep,
           Create, Write, Send,
           Receive, Load, SwitchLogger, UpdateWatcher, UpdateProcessor, Exit, HangInSave, ReadSources, Arm, List,
           TakeEvent, Lock, Pick, FirstLook, SecondLook, Unlock, StopWatching, TakeItem, FinishItem
    <3> QED BY <3>1
  <2> QED BY <2>1, <2>2
<1>3. NoItem \notin queue'
  <2>1. CASE SecondLook
    <3>1. CASE UNCHANGED workVars
      BY <3>1 DEF workVars
    <3>2. CASE Enqueue(file)
      <4>1. file # NoFile
        BY <2>1 DEF SecondLook
      <4> QED
        BY <3>2, <4>1, ItemsAreItems DEF Enqueue
    <3> QED
      BY <2>1, <3>1, <3>2 DEF SecondLook
  <2>2. CASE ~SecondLook
    <3>1. queue' \subseteq queue
      BY <2>2, SMTT(30) DEF ReloadNext, reloadVars, workVars, MainStep, WatcherStep, ProcessorStep,
           Create, Write, Edit, Send, Panic, Forget,
           Receive, Load, SwitchLogger, UpdateWatcher, UpdateProcessor, Exit, HangInSave, ReadSources, Arm, List,
           TakeEvent, Lock, Pick, FirstLook, Unlock, StopWatching, TakeItem, FinishItem
    <3> QED BY <3>1
  <2> QED BY <2>1, <2>2
<1> QED
  BY <1>1, <1>2, <1>3

\* Every action is a step of the register, or leaves it alone: Load learns the
\* version of the file, UpdateProcessor adopts it, and items come and go.
LEMMA RegisterStep ==
  ASSUME RegisterInv, [ReloadNext]_reloadVars
  PROVE  [R!Revise \/ R!Learn \/ R!Adopt \/ R!Toil]_(R!registerVars)
<1> USE DEF RegisterInv, R!registerVars
<1>1. CASE Edit
  <2>1. PICK c \in world.configs : disk' = [ver |-> disk.ver + 1, cfg |-> c]
    BY <1>1 DEF Edit
  <2>2. disk'.ver = disk.ver + 1 /\ disk'.cfg.valid \in BOOLEAN
    BY <2>1, WorldFacts
  <2> QED
    BY <1>1, <2>2 DEF Edit, workVars, R!Revise
<1>2. CASE Load
  <2>1. CASE disk.cfg.valid
    BY <1>2, <2>1 DEF Load, workVars, R!Learn
  <2>2. CASE ~disk.cfg.valid
    BY <1>2, <2>2 DEF Load, workVars
  <2> QED BY <2>1, <2>2
<1>3. CASE UpdateProcessor
  BY <1>3 DEF UpdateProcessor, workVars, R!Adopt
<1>4. CASE TakeItem
  <2>1. work = NoItem /\ work' # NoItem
    BY <1>4 DEF TakeItem
  <2> QED
    BY <1>4, <2>1 DEF TakeItem, configVars, R!Toil
<1>5. CASE FinishItem
  BY <1>5 DEF FinishItem, configVars, R!Toil
<1>6. CASE Exit \/ UpdateWatcher
  <2>1. UNCHANGED configVars /\ work' \in {work, NoItem}
    BY <1>6, SMTT(30) DEF Exit, UpdateWatcher, Panic, Forget, workVars
  <2>2. CASE work' = work
    BY <2>1, <2>2 DEF configVars
  <2>3. CASE work' = NoItem /\ work # NoItem
    BY <2>1, <2>3 DEF configVars, R!Toil
  <2> QED BY <2>1, <2>2, <2>3
<1>7. CASE SecondLook
  <2>1. UNCHANGED <<configVars, work>>
    BY <1>7 DEF SecondLook, Enqueue, workVars
  <2> QED
    BY <2>1 DEF configVars
<1>8. CASE \/ Receive \/ SwitchLogger \/ HangInSave \/ ReadSources \/ Arm \/ List \/ TakeEvent
           \/ Lock \/ FirstLook \/ Unlock \/ StopWatching \/ UNCHANGED reloadVars
           \/ \E f \in Files : Create(f) \/ Write(f) \/ Pick(f)
           \/ \E sig \in {"HUP", "TERM"} : Send(sig)
  <2>1. UNCHANGED <<configVars, work>>
    BY <1>8, SMTT(30)
    DEF Receive, SwitchLogger, HangInSave, ReadSources, Arm, List, TakeEvent, Lock, FirstLook, Unlock,
        StopWatching, Create, Write, Pick, Send, workVars, reloadVars
  <2> QED
    BY <2>1 DEF configVars
<1> QED
  BY <1>1, <1>2, <1>3, <1>4, <1>5, <1>6, <1>7, <1>8
  DEF ReloadNext, MainStep, WatcherStep, ProcessorStep

\* At first the processor works with a valid configuration of the world.
LEMMA RegisterInvInit ==
  ASSUME ReloadInit
  PROVE  RegisterInv /\ R!RegisterInit
<1>1. world \in Worlds /\ disk.ver = 0 /\ disk.cfg = world.first /\ mgr = disk /\ settings = disk
  BY DEF ReloadInit
<1>2. queue = {} /\ work = NoItem
  BY DEF ReloadInit
<1>3. world.first \in world.configs /\ world.first.valid = TRUE
  BY <1>1, WorldFacts
<1>4. RegisterInv
  BY <1>1, <1>2, <1>3 DEF RegisterInv
<1>5. R!RegisterInit
  BY <1>1, <1>2, <1>3 DEF R!RegisterInit
<1> QED
  BY <1>4, <1>5

\* The service that reloads implements the register: the processor works with
\* one configuration at a time, a valid one, never an older one than before.
THEOREM ReloadImplementsRegister == ReloadSpec => ImplementsRegister
<1>1. ReloadInit => RegisterInv /\ R!RegisterInit
  BY RegisterInvInit
<1>2. RegisterInv /\ [ReloadNext]_reloadVars => RegisterInv'
  BY RegisterInvKept
<1>3. RegisterInv /\ [ReloadNext]_reloadVars
        => [R!Revise \/ R!Learn \/ R!Adopt \/ R!Toil]_(R!registerVars)
  BY RegisterStep
<1> QED
  BY <1>1, <1>2, <1>3, PTL DEF ReloadSpec, ImplementsRegister, R!Register

----------------------------------------------------------------------------
(* One log *)

\* Every action keeps the log of the main goroutine open, and no other one.
LEMMA OneLogKept ==
  ASSUME OneLogOpen, [ReloadNext]_reloadVars
  PROVE  OneLogOpen'
<1> USE DEF OneLogOpen, Alive
<1>1. CASE SwitchLogger
  BY <1>1 DEF SwitchLogger, Sync, logVars
<1>2. CASE UpdateWatcher
  BY <1>2 DEF UpdateWatcher, Panic, logVars
<1>3. CASE Exit
  BY <1>3 DEF Exit, Sync
<1>4. CASE Receive \/ Load \/ UpdateProcessor \/ HangInSave
  BY <1>4 DEF Receive, Load, UpdateProcessor, HangInSave, logVars
<1>5. CASE UNCHANGED <<main, logVars>>
  BY <1>5 DEF logVars
<1>6. CASE \/ WatcherStep \/ ProcessorStep \/ Edit \/ UNCHANGED reloadVars
           \/ \E f \in Files : Create(f) \/ Write(f)
           \/ \E sig \in {"HUP", "TERM"} : Send(sig)
  <2>1. UNCHANGED <<main, logVars>>
    BY <1>6, SMTT(30)
    DEF WatcherStep, ProcessorStep, Edit, reloadVars, Create, Write, Send, ReadSources, Arm, List,
        TakeEvent, Lock, Pick, FirstLook, SecondLook, Unlock, StopWatching, TakeItem, FinishItem
  <2> QED BY <2>1, <1>5
<1> QED
  BY <1>1, <1>2, <1>3, <1>4, <1>6 DEF ReloadNext, MainStep

\* One log is open as long as the service runs, whichever reload could not open
\* its own; then none.
THEOREM OneLogCorrect == ReloadSpec => []OneLogOpen
<1>1. ReloadInit => OneLogOpen
  BY DEF ReloadInit, OneLogOpen, Alive
<1>2. OneLogOpen /\ [ReloadNext]_reloadVars => OneLogOpen'
  BY OneLogKept
<1> QED
  BY <1>1, <1>2, PTL DEF ReloadSpec

----------------------------------------------------------------------------
(* One configuration *)

\* What the manager hands to the callback is a valid configuration.
ConfigsKnown ==
  /\ world \in Worlds /\ disk.cfg \in world.configs
  /\ mgr.cfg \in world.configs /\ mgr.cfg.valid = TRUE

\* A file that is somewhere has appeared, and will not appear again.
FilesKnown ==
  /\ home \in [Files -> Dirs \union {NoDir}] /\ kind \in [Files -> Sides]
  /\ stamp \in [Files -> [size : Nat, mtime : Nat]]
  /\ \A f \in Files : home[f] # NoDir => stamp[f] # NoStamp

\* The watcher pairs source and destination of one configuration.
PathsPaired ==
  /\ src \in [Sides -> Dirs \union {NoDir}] /\ dst \in [Sides -> Dests]
  /\ \A s \in Sides : Paired(s, src[s], dst[s])

\* The file of an event has appeared; the one that is waited for, under the
\* lock, belongs to the side it looks like unless it has gone.
EyeSound ==
  /\ events \in Seq(Files) /\ todo \subseteq Files /\ file \in Files \union {NoFile}
  /\ scout \in {"start", "arm", "list"} => errand \in Sides
  /\ scout \notin {"wait", "locked"} => todo = {}
  /\ file # NoFile => scout = "locked"
  /\ errand = "event" => \A f \in todo : stamp[f] # NoStamp
  /\ errand = "event" /\ file # NoFile =>
       /\ stamp[file] # NoStamp
       /\ home[file] = NoDir \/ kind[file] = SideOf(file)

\* An item made from an event pairs the directory of its file with the
\* destination of the same configuration.
QueuePaired ==
  \A i \in queue :
    /\ i.file \in Files
    /\ ~i.scanned => stamp[i.file] # NoStamp
    /\ ~i.scanned /\ home[i.file] # NoDir => Paired(i.side, home[i.file], i.dst)

ConfigInv == ConfigsKnown /\ FilesKnown /\ PathsPaired /\ EyeSound /\ QueuePaired

\* The fields of what the operator may write.
LEMMA ConfigFacts ==
  ASSUME NEW w \in Worlds
  PROVE  /\ w.first.block = TRUE
         /\ \A c \in w.configs : /\ c.block \in BOOLEAN /\ c.valid \in BOOLEAN
                                 /\ c.src \in [Sides -> Dirs \union {NoDir}]
                                 /\ c.dst \in [Sides -> Dests]
<1>1. w \in World /\ w.first \in w.configs /\ w.first.block
  BY WorldAssumption
<1>2. w.configs \subseteq Config
  BY <1>1 DEF World
<1> QED
  BY <1>1, <1>2 DEF Config

\* Load replaces a valid configuration by a valid one.
LEMMA ConfigsKnownKept ==
  ASSUME ConfigsKnown, [ReloadNext]_reloadVars
  PROVE  ConfigsKnown' /\ world' = world
<1> USE DEF ConfigsKnown
<1>1. CASE Edit
  BY <1>1 DEF Edit
<1>2. CASE Load
  BY <1>2, ConfigFacts DEF Load
<1>3. CASE ~Edit /\ ~Load
  <2>1. UNCHANGED <<world, disk, mgr>>
    BY <1>3, SMTT(30) DEF ReloadNext, reloadVars, configVars, MainStep, WatcherStep, ProcessorStep,
         Create, Write, Send, Receive, SwitchLogger, UpdateWatcher, UpdateProcessor, Exit, HangInSave,
         ReadSources, Arm, List, TakeEvent, Lock, Pick, FirstLook, SecondLook, Unlock, StopWatching,
         TakeItem, FinishItem
  <2> QED BY <2>1
<1> QED
  BY <1>1, <1>2, <1>3

\* A file appears once, and changes or leaves after that; no other step moves
\* files or writes to them.
LEMMA FilesKnownKept ==
  ASSUME FilesKnown, [ReloadNext]_reloadVars
  PROVE  /\ FilesKnown'
         /\ \A f \in Files : stamp[f] # NoStamp =>
              /\ stamp'[f] # NoStamp /\ kind'[f] = kind[f]
              /\ home'[f] \in {home[f], NoDir}
<1> USE DEF FilesKnown
<1>1. ASSUME NEW g \in Files, Create(g)
      PROVE  /\ FilesKnown'
             /\ \A f \in Files : stamp[f] # NoStamp =>
                  stamp'[f] = stamp[f] /\ kind'[f] = kind[f] /\ home'[f] = home[f]
  <2>1. PICK d \in Dirs, s \in Sides : /\ home' = [home EXCEPT ![g] = d]
                                       /\ kind' = [kind EXCEPT ![g] = s]
    BY <1>1 DEF Create
  <2>2. stamp[g] = NoStamp /\ stamp' = [stamp EXCEPT ![g] = [size |-> 1, mtime |-> 1]]
    BY <1>1 DEF Create
  <2>3. [size |-> 1, mtime |-> 1] # NoStamp
    BY DEF NoStamp
  <2> QED
    BY <2>1, <2>2, <2>3
<1>2. ASSUME NEW g \in Files, Write(g)
      PROVE  /\ FilesKnown'
             /\ \A f \in Files : stamp[f] # NoStamp =>
                  stamp'[f] # NoStamp /\ kind'[f] = kind[f] /\ home'[f] = home[f]
  <2>1. PICK n \in {stamp[g].size, stamp[g].size + 1} :
          stamp' = [stamp EXCEPT ![g] = [size |-> n, mtime |-> stamp[g].mtime + 1]]
    BY <1>2 DEF Write
  <2>2. home' = home /\ kind' = kind
    BY <1>2 DEF Write
  <2>3. stamp[g].size \in Nat /\ stamp[g].mtime \in Nat
    OBVIOUS
  <2>4. n \in Nat /\ stamp[g].mtime + 1 \in Nat /\ stamp[g].mtime + 1 # 0
    BY <2>3
  <2>5. [size |-> n, mtime |-> stamp[g].mtime + 1] # NoStamp
    BY <2>4 DEF NoStamp
  <2> QED
    BY <2>1, <2>2, <2>4, <2>5
<1>3. CASE FinishItem
  <2>1. home' \in {home, [home EXCEPT ![work.file] = NoDir]} /\ kind' = kind /\ stamp' = stamp
    BY <1>3 DEF FinishItem
  <2> QED BY <2>1
<1>4. CASE UNCHANGED fileVars
  BY <1>4 DEF fileVars
<1>5. CASE \/ MainStep \/ WatcherStep \/ TakeItem \/ Edit \/ UNCHANGED reloadVars
           \/ \E sig \in {"HUP", "TERM"} : Send(sig)
  <2>1. UNCHANGED fileVars
    BY <1>5, SMTT(30) DEF reloadVars, MainStep, WatcherStep,
         Edit, Send, Receive, Load, SwitchLogger, UpdateWatcher, UpdateProcessor, Exit, HangInSave,
         ReadSources, Arm, List, TakeEvent, Lock, Pick, FirstLook, SecondLook, Unlock, StopWatching,
         TakeItem
  <2> QED BY <2>1, <1>4
<1> QED
  BY <1>1, <1>2, <1>3, <1>5 DEF ReloadNext, ProcessorStep

\* What an update may have done so far, from what is watched now.
Watchable == watched \union Dirs \union {NoDir}
Taken == [watched : SUBSET Watchable, src : [Sides -> Dirs \union {NoDir}],
          dst : [Sides -> Dests], failed : BOOLEAN]

\* A side that is taken over is paired by the new configuration, and one that
\* is not, or that fails, by the configuration it was paired by.
LEMMA TakeOverPairs ==
  ASSUME ConfigsKnown, mgr.cfg.block, NEW s \in Sides, NEW refused,
         NEW w \in Taken, \A t \in Sides : Paired(t, w.src[t], w.dst[t])
  PROVE  LET v == TakeOver(w, s, mgr.cfg, refused) IN
         v \in Taken /\ \A t \in Sides : Paired(t, v.src[t], v.dst[t])
<1> DEFINE c == mgr.cfg
           v == TakeOver(w, s, c, refused)
<1>1. c.src \in [Sides -> Dirs \union {NoDir}] /\ c.dst \in [Sides -> Dests]
  BY ConfigFacts DEF ConfigsKnown
<1>2. \A t \in Sides : Paired(t, c.src[t], c.dst[t])
  BY DEF Paired, ConfigsKnown
<1>3. CASE v = w
  BY <1>3
<1>4. ASSUME NEW k \in SUBSET w.watched, v = [w EXCEPT !.watched = k, !.failed = TRUE]
      PROVE  v \in Taken /\ v.src = w.src /\ v.dst = w.dst
  BY <1>4 DEF Taken
<1>5. ASSUME NEW k \in SUBSET Watchable,
             v = [watched |-> k, src |-> [w.src EXCEPT ![s] = c.src[s]],
                  dst |-> [w.dst EXCEPT ![s] = c.dst[s]], failed |-> FALSE]
      PROVE  v \in Taken /\ \A t \in Sides : Paired(t, v.src[t], v.dst[t])
  <2>1. w.src \in [Sides -> Dirs \union {NoDir}] /\ w.dst \in [Sides -> Dests]
    BY DEF Taken
  <2>2. /\ [w.src EXCEPT ![s] = c.src[s]] \in [Sides -> Dirs \union {NoDir}]
        /\ [w.dst EXCEPT ![s] = c.dst[s]] \in [Sides -> Dests]
    BY <1>1, <2>1
  <2>3. v \in Taken
    BY <1>5, <2>2 DEF Taken
  <2>4. v.src = [w.src EXCEPT ![s] = c.src[s]] /\ v.dst = [w.dst EXCEPT ![s] = c.dst[s]]
    BY <1>5
  <2>5. ASSUME NEW t \in Sides PROVE Paired(t, v.src[t], v.dst[t])
    BY <1>2, <2>1, <2>4
  <2> QED BY <2>3, <2>5
<1>6. \/ v = w
      \/ \E k \in SUBSET w.watched : v = [w EXCEPT !.watched = k, !.failed = TRUE]
      \/ \E k \in SUBSET Watchable :
           v = [watched |-> k, src |-> [w.src EXCEPT ![s] = c.src[s]],
                dst |-> [w.dst EXCEPT ![s] = c.dst[s]], failed |-> FALSE]
  <2>1. w.watched \subseteq Watchable /\ c.src[s] \in Watchable
    BY <1>1 DEF Taken, Watchable
  <2>2. /\ w.watched \ {w.src[s]} \in SUBSET w.watched
        /\ (w.watched \ {w.src[s]}) \union ({c.src[s]} \ {NoDir}) \in SUBSET Watchable
    BY <2>1
  <2> QED BY <2>2 DEF TakeOver
<1> QED
  BY <1>3, <1>4, <1>5, <1>6

\* Every configuration the watcher takes over is a valid one with both blocks.
LEMMA PathsPairedKept ==
  ASSUME ConfigsKnown, PathsPaired, [ReloadNext]_reloadVars
  PROVE  PathsPaired'
<1> SUFFICES ASSUME ~(UNCHANGED <<src, dst>>) PROVE PathsPaired'
  <2>1. UNCHANGED <<src, dst>> => PathsPaired'
    BY ConfigsKnownKept DEF PathsPaired, Paired
  <2> QED BY <2>1
<1>1. UpdateWatcher
  BY SMTT(30) DEF ReloadNext, reloadVars, watchVars, MainStep, WatcherStep, ProcessorStep,
     Create, Write, Edit, Send, Receive, Load, SwitchLogger, UpdateProcessor, Exit, HangInSave, Forget,
     ReadSources, Arm, List, TakeEvent, Lock, Pick, FirstLook, SecondLook, Unlock, StopWatching,
     TakeItem, FinishItem
<1>2. mgr.cfg.block
  BY <1>1 DEF UpdateWatcher, Panic, Forget
<1> DEFINE c == mgr.cfg
           w == [watched |-> watched, src |-> src, dst |-> dst, failed |-> FALSE]
<1>3. PICK refused \in SUBSET {d \in Dirs : world.faults /\ \E s \in Sides : c.src[s] = d} :
        LET v == TakeOver(TakeOver(w, "encrypt", c, refused), "decrypt", c, refused)
        IN src' = v.src /\ dst' = v.dst
  BY <1>1, <1>2 DEF UpdateWatcher
<1> DEFINE u == TakeOver(w, "encrypt", c, refused)
           v == TakeOver(u, "decrypt", c, refused)
<1>4. w \in Taken /\ \A t \in Sides : Paired(t, w.src[t], w.dst[t])
  BY DEF PathsPaired, Taken, Watchable
<1>5. "encrypt" \in Sides /\ "decrypt" \in Sides
  BY DEF Sides
<1> HIDE DEF w
<1>6. u \in Taken /\ \A t \in Sides : Paired(t, u.src[t], u.dst[t])
  BY <1>2, <1>4, <1>5, TakeOverPairs
<1> HIDE DEF u
<1>7. v \in Taken /\ \A t \in Sides : Paired(t, v.src[t], v.dst[t])
  BY <1>2, <1>5, <1>6, TakeOverPairs
<1>8. src' = v.src /\ dst' = v.dst
  BY <1>3 DEF u
<1> HIDE DEF v
<1>9. src' \in [Sides -> Dirs \union {NoDir}] /\ dst' \in [Sides -> Dests]
  BY <1>7, <1>8 DEF Taken
<1>10. world' = world
  BY ConfigsKnownKept
<1>11. \A t \in Sides : Paired(t, src'[t], dst'[t])
  BY <1>7, <1>8
<1> QED
  BY <1>9, <1>10, <1>11 DEF PathsPaired, Paired

\* The watcher looks, under the lock, at files that have appeared; while it does,
\* the directories keep their sides, and a file can only go.
LEMMA EyeSoundKept ==
  ASSUME FilesKnown, EyeSound, [ReloadNext]_reloadVars
  PROVE  EyeSound'
<1> USE DEF EyeSound
<1>1. \A f \in Files : stamp[f] # NoStamp =>
        /\ stamp'[f] # NoStamp /\ kind'[f] = kind[f] /\ home'[f] \in {home[f], NoDir}
  BY FilesKnownKept
<1>2. \A f \in Files : home[f] # NoDir => stamp[f] # NoStamp
  BY DEF FilesKnown
<1>3. CASE UNCHANGED scoutVars /\ events' \in Seq(Files)
  <2>1. CASE errand = "event" /\ file # NoFile
    <3>1. scout = "locked" /\ file \in Files /\ stamp[file] # NoStamp
      BY <2>1
    <3>2. src' = src
      BY <3>1, <1>3, SMTT(30) DEF ReloadNext, reloadVars, watchVars, scoutVars, MainStep, WatcherStep,
         ProcessorStep, Create, Write, Edit, Send, Receive, Load, SwitchLogger, UpdateWatcher, Panic,
         Forget, UpdateProcessor, Exit, HangInSave, ReadSources, Arm, List, TakeEvent, Lock, Pick, FirstLook,
         SecondLook, Unlock, StopWatching, TakeItem, FinishItem
    <3>3. home'[file] = NoDir \/ kind'[file] = SideOf(file)'
      BY <1>1, <1>3, <2>1, <3>1, <3>2 DEF SideOf, scoutVars
    <3> QED BY <1>1, <1>3, <3>1, <3>3 DEF scoutVars
  <2> QED BY <1>1, <1>3, <2>1 DEF scoutVars
<1>4. CASE /\ todo' = {} /\ file' = NoFile /\ events' \in Seq(Files)
           /\ scout' \in {"start", "arm", "list"} => errand' \in Sides
  BY <1>4
<1>5. CASE \/ MainStep \/ ProcessorStep \/ Edit \/ UNCHANGED reloadVars
           \/ \E f \in Files : Create(f) \/ Write(f)
           \/ \E sig \in {"HUP", "TERM"} : Send(sig)
  <2>1. ASSUME NEW f \in Files, Create(f) PROVE UNCHANGED scoutVars /\ events' \in Seq(Files)
    BY <2>1 DEF Create
  <2>2. CASE Exit \/ UpdateWatcher
    <3>1. UNCHANGED <<events, scoutVars>> \/ Forget
      BY <2>2 DEF Exit, UpdateWatcher, Panic
    <3>2. ASSUME Forget PROVE EyeSound'
      BY <3>2, <1>4 DEF Forget, Done
    <3> QED BY <3>1, <3>2, <1>3
  <2>3. CASE ~(Exit \/ UpdateWatcher) /\ ~(\E f \in Files : Create(f))
    <3>1. UNCHANGED <<events, scoutVars>>
      BY <1>5, <2>3, SMTT(30) DEF MainStep, ProcessorStep, Edit, reloadVars, Write, Send, Receive, Load,
         SwitchLogger, UpdateProcessor, HangInSave, TakeItem, FinishItem
    <3> QED BY <3>1, <1>3
  <2> QED BY <2>1, <2>2, <2>3, <1>3
<1>6. CASE ReadSources \/ Arm \/ StopWatching \/ Unlock
  <2>1. todo' = {} /\ file' = NoFile /\ events' = events
    BY <1>6 DEF ReadSources, Arm, StopWatching, Unlock
  <2>2. scout' \in {"start", "arm", "list"} => errand' \in Sides
    BY <1>6 DEF ReadSources, Arm, StopWatching, Unlock, Onward, Sides
  <2> QED BY <2>1, <2>2, <1>4
<1>7. CASE List
  <2>1. file' = NoFile /\ events' = events /\ todo = {} /\ errand \in Sides
    BY <1>7 DEF List
  <2>2. CASE scout' = "wait" /\ todo' \subseteq Files /\ errand' = errand
    BY <2>1, <2>2 DEF Sides
  <2>3. CASE Onward /\ todo' = todo
    BY <2>1, <2>3, <1>4 DEF Onward, Sides
  <2> QED BY <1>7, <2>2, <2>3 DEF List
<1>8. CASE TakeEvent
  <2>1. Head(events) \in Files /\ Tail(events) \in Seq(Files)
    BY <1>8 DEF TakeEvent
  <2>2. file' = NoFile /\ events' \in Seq(Files) /\ home' = home /\ stamp' = stamp
    BY <1>8, <2>1 DEF TakeEvent, fileVars
  <2>3. CASE UNCHANGED <<scout, todo>>
    <3>1. todo' = {} /\ scout' = "events"
      BY <1>8, <2>3 DEF TakeEvent
    <3> QED BY <2>2, <3>1, <1>4
  <2>4. CASE home[Head(events)] # NoDir /\ scout' = "wait" /\ todo' = {Head(events)}
    <3>1. todo' = {Head(events)} /\ scout' = "wait"
      BY <2>4
    <3>2. stamp[Head(events)] # NoStamp
      BY <1>2, <2>1, <2>4
    <3> QED BY <2>1, <2>2, <3>1, <3>2
  <2> QED BY <1>8, <2>3, <2>4 DEF TakeEvent
<1>9. CASE Lock
  <2>1. /\ scout = "wait" /\ scout' = "locked" /\ file = NoFile
        /\ UNCHANGED <<events, errand, todo, file, stamp>>
    BY <1>9 DEF Lock, fileVars
  <2> QED BY <2>1
<1>10. ASSUME NEW f \in Files, Pick(f) PROVE EyeSound'
  <2>1. /\ scout = "locked" /\ f \in todo /\ todo' = todo \ {f}
        /\ UNCHANGED <<events, scout, errand, src, home, kind, stamp>>
    BY <1>10 DEF Pick, fileVars, watchVars
  <2>2. \/ file' = NoFile
        \/ file' = f /\ kind[f] = SideOf(f)
    BY <1>10 DEF Pick, Wanted
  <2>3. SideOf(f)' = SideOf(f)
    BY <2>1 DEF SideOf
  <2> QED BY <2>1, <2>2, <2>3
<1>11. CASE FirstLook \/ SecondLook
  <2>1. /\ scout = "locked" /\ file' \in {file, NoFile}
        /\ UNCHANGED <<events, scout, errand, todo, src, home, kind, stamp>>
    BY <1>11, SMTT(30) DEF FirstLook, SecondLook, Done, fileVars, watchVars
  <2>2. SideOf(file)' = SideOf(file) \/ file' = NoFile
    BY <2>1 DEF SideOf
  <2> QED BY <2>1, <2>2
<1> QED
  BY <1>5, <1>6, <1>7, <1>8, <1>9, <1>10, <1>11 DEF ReloadNext, WatcherStep

\* An item that is queued pairs what the watcher has at that moment; later its
\* file only goes.
LEMMA QueuePairedKept ==
  ASSUME ConfigInv, [ReloadNext]_reloadVars
  PROVE  QueuePaired'
<1> USE DEF ConfigInv, QueuePaired
<1>1. \A f \in Files : stamp[f] # NoStamp =>
        stamp'[f] # NoStamp /\ home'[f] \in {home[f], NoDir}
  BY FilesKnownKept
<1>2. world' = world
  BY ConfigsKnownKept
<1>3. ASSUME NEW i \in queue
      PROVE  /\ i.file \in Files
             /\ ~i.scanned => stamp'[i.file] # NoStamp
             /\ ~i.scanned /\ home'[i.file] # NoDir => Paired(i.side, home'[i.file], i.dst)
  BY <1>1
<1>4. CASE queue' \subseteq queue
  BY <1>2, <1>3, <1>4 DEF Paired
<1>5. CASE SecondLook /\ Enqueue(file)
  <2> DEFINE n == [file |-> file, side |-> SideOf(file), dst |-> dst[SideOf(file)],
                   scanned |-> errand # "event"]
  <2>1. queue' = queue \union {n}
    BY <1>5 DEF Enqueue
  <2>2. file \in Files /\ home' = home /\ stamp' = stamp
    BY <1>5 DEF SecondLook, EyeSound, fileVars
  <2>3. CASE errand # "event"
    <3>1. n.file = file /\ n.scanned = TRUE
      BY <2>3
    <3> HIDE DEF n
    <3> QED BY <1>2, <1>3, <2>1, <2>2, <3>1 DEF Paired
  <2>4. CASE errand = "event"
    <3>1. stamp[file] # NoStamp /\ (home[file] = NoDir \/ kind[file] = SideOf(file))
      BY <2>2, <2>4, <1>5 DEF EyeSound, SecondLook
    <3>2. kind[file] \in Sides
      BY <2>2 DEF FilesKnown
    <3>3. SideOf(file) \in Sides => home[file] = src[SideOf(file)]
      BY <2>4 DEF SideOf, Sides
    <3>4. home[file] # NoDir => Paired(SideOf(file), home[file], dst[SideOf(file)])
      BY <3>1, <3>2, <3>3 DEF PathsPaired
    <3>5. n.file = file /\ n.side = SideOf(file) /\ n.dst = dst[SideOf(file)]
      OBVIOUS
    <3>6. home'[file] # NoDir => Paired(n.side, home'[file], n.dst)
      BY <2>2, <3>4, <3>5
    <3> HIDE DEF n
    <3> QED BY <1>2, <1>3, <2>1, <2>2, <3>1, <3>5, <3>6 DEF Paired
  <2> QED BY <2>3, <2>4
<1>6. ASSUME SecondLook PROVE UNCHANGED workVars \/ Enqueue(file)
  BY <1>6 DEF SecondLook
<1>7. ASSUME ~SecondLook PROVE queue' \subseteq queue
  BY <1>7, SMTT(30) DEF ReloadNext, reloadVars, workVars, MainStep, WatcherStep, ProcessorStep,
     Create, Write, Edit, Send, Panic, Forget, Receive, Load, SwitchLogger, UpdateWatcher,
     UpdateProcessor, Exit, HangInSave, ReadSources, Arm, List, TakeEvent, Lock, Pick, FirstLook, Unlock,
     StopWatching, TakeItem, FinishItem
<1> QED
  BY <1>4, <1>5, <1>6, <1>7 DEF workVars

\* The service starts with a valid configuration, no file and no item.
LEMMA ConfigInvInit ==
  ASSUME ReloadInit
  PROVE  ConfigInv
<1> DEFINE c == world.first
<1>1. world \in Worlds /\ disk.cfg = c /\ mgr.cfg = c /\ src = c.src /\ dst = c.dst
  BY DEF ReloadInit
<1>2. c \in world.configs /\ c.valid = TRUE /\ c.block = TRUE
  BY <1>1, WorldFacts, ConfigFacts
<1>3. c.src \in [Sides -> Dirs \union {NoDir}] /\ c.dst \in [Sides -> Dests]
  BY <1>1, <1>2, ConfigFacts
<1>4. ConfigsKnown
  BY <1>1, <1>2 DEF ConfigsKnown
<1>5. FilesKnown
  BY DEF ReloadInit, FilesKnown, NoStamp, Sides
<1>6. PathsPaired
  BY <1>1, <1>2, <1>3 DEF PathsPaired, Paired
<1>7. EyeSound
  BY DEF ReloadInit, EyeSound, Sides
<1>8. QueuePaired
  BY DEF ReloadInit, QueuePaired
<1> QED
  BY <1>4, <1>5, <1>6, <1>7, <1>8 DEF ConfigInv

LEMMA ConfigInvKept ==
  ASSUME ConfigInv, [ReloadNext]_reloadVars
  PROVE  ConfigInv'
<1>1. ConfigsKnown /\ FilesKnown /\ PathsPaired /\ EyeSound
  BY DEF ConfigInv
<1>2. ConfigsKnown' /\ FilesKnown' /\ PathsPaired'
  BY <1>1, ConfigsKnownKept, FilesKnownKept, PathsPairedKept
<1>3. EyeSound' /\ QueuePaired'
  BY <1>1, EyeSoundKept, QueuePairedKept
<1> QED
  BY <1>2, <1>3 DEF ConfigInv

\* Source and destination are never those of two configurations, neither in the
\* watcher, whichever part of an update failed, nor in an item made from an event.
THEOREM OneConfigurationCorrect == ReloadSpec => []OneConfiguration
<1>1. ReloadInit => ConfigInv
  BY ConfigInvInit
<1>2. ConfigInv /\ [ReloadNext]_reloadVars => ConfigInv'
  BY ConfigInvKept
<1>3. ConfigInv => OneConfiguration
  BY DEF ConfigInv, PathsPaired, QueuePaired, OneConfiguration
<1> QED
  BY <1>1, <1>2, <1>3, PTL DEF ReloadSpec

----------------------------------------------------------------------------
(* Types *)

\* Edits and writes stop at the bounds of the world, and a write makes a file
\* newer, and longer by one at most.
Counted ==
  /\ disk.ver <= world.edits
  /\ \A f \in Files : stamp[f].size <= stamp[f].mtime /\ stamp[f].mtime <= world.writes

TypeInv == ReloadTypeOK /\ Counted

\* The bounds of a world are those of the constants or below.
LEMMA WorldBounds ==
  ASSUME NEW w \in Worlds
  PROVE  /\ w \in World /\ w.edits \in Nat /\ w.edits <= MaxEdits /\ w.patience \in Nat
         /\ w.writes \in Nat /\ 1 <= w.writes /\ w.writes <= MaxWrites
         /\ \A c \in w.configs : c \in Config
<1>1. w \in World
  BY WorldAssumption
<1>2. w.edits \in 0..MaxEdits /\ w.writes \in 1..MaxWrites /\ w.patience \in Nat
      /\ w.configs \subseteq Config
  BY <1>1 DEF World
<1> QED
  BY <1>1, <1>2, ReloadBounds

\* The versions of the configuration: the one on disk counts the edits, the
\* manager and the processor know one that was there.
LEMMA ConfigTypes ==
  ASSUME TypeInv, ConfigsKnown, [ReloadNext]_reloadVars
  PROVE  /\ ({disk, mgr, settings} \subseteq Versioned)'
         /\ disk'.ver <= world'.edits
<1> USE DEF TypeInv, ReloadTypeOK, Counted
<1>1. world' = world /\ world \in Worlds
  BY ConfigsKnownKept DEF ConfigsKnown
<1>2. CASE Edit
  <2>1. PICK c \in world.configs : disk' = [ver |-> disk.ver + 1, cfg |-> c]
    BY <1>2 DEF Edit
  <2>2. disk.ver \in Nat /\ disk.ver < world.edits /\ world.edits \in Nat
        /\ world.edits <= MaxEdits /\ MaxEdits \in Nat /\ c \in Config
    BY <1>1, <1>2, WorldBounds, ReloadBounds DEF Edit, Versioned
  <2>3. disk.ver + 1 \in 0..MaxEdits /\ disk.ver + 1 <= world.edits
    BY <2>2
  <2>4. disk' \in Versioned /\ disk'.ver <= world.edits
    BY <2>1, <2>2, <2>3 DEF Versioned
  <2> QED BY <1>1, <1>2, <2>4 DEF Edit
<1>3. CASE ~Edit
  <2>1. disk' = disk /\ mgr' \in {mgr, disk} /\ settings' \in {settings, mgr}
    BY <1>3, SMTT(30) DEF ReloadNext, reloadVars, configVars, MainStep, WatcherStep,
       ProcessorStep, Create, Write, Send, Receive, Load, SwitchLogger, UpdateWatcher,
       UpdateProcessor, Exit, HangInSave, ReadSources, Arm, List, TakeEvent, Lock, Pick, FirstLook,
       SecondLook, Unlock, StopWatching, TakeItem, FinishItem
  <2> QED BY <1>1, <2>1
<1> QED
  BY <1>2, <1>3

\* Signals, the main goroutine and its log.
LEMMA MainTypes ==
  ASSUME ReloadTypeOK, [ReloadNext]_reloadVars
  PROVE  (/\ sigbuf \in {NoSignal, "HUP", "TERM"} /\ signals \in 0..MaxSignals
          /\ main \in {"select", "load", "logger", "watcher", "processor", "stopping", "hung",
                       "exited", "panicked"}
          /\ log \in Nat /\ open \subseteq 0..log)'
<1> USE DEF ReloadTypeOK
<1>1. ASSUME NEW sig \in {"HUP", "TERM"}, Send(sig)
      PROVE  /\ sigbuf' \in {sigbuf, sig} /\ signals' \in 0..MaxSignals
             /\ UNCHANGED <<main, log, open>>
  BY <1>1, ReloadBounds DEF Send, logVars
<1>2. CASE Receive \/ Load \/ UpdateProcessor
  BY <1>2 DEF Receive, Load, UpdateProcessor, logVars, signalVars
<1>3. CASE SwitchLogger
  <2>1. UNCHANGED signalVars /\ main' = "watcher"
    BY <1>3 DEF SwitchLogger
  <2>2. \/ log' = log + 1 /\ open' \subseteq open \union {log + 1}
        \/ log' = log /\ open' = open
    BY <1>3 DEF SwitchLogger, Sync, logVars
  <2>3. log \in Nat /\ \A x \in open : x \in 0..log
    OBVIOUS
  <2>4. log + 1 \in Nat /\ \A x \in open \union {log + 1} : x \in 0..(log + 1)
    BY <2>3
  <2>5. log' \in Nat /\ open' \subseteq 0..log'
    BY <2>2, <2>3, <2>4
  <2> QED BY <2>1, <2>5 DEF signalVars
<1>4. CASE UpdateWatcher
  BY <1>4 DEF UpdateWatcher, Panic, logVars, signalVars
<1>5. CASE Exit \/ HangInSave
  BY <1>5 DEF Exit, HangInSave, Sync, signalVars, logVars
<1>6. CASE \/ WatcherStep \/ ProcessorStep \/ Edit \/ UNCHANGED reloadVars
           \/ \E f \in Files : Create(f) \/ Write(f)
  <2>1. UNCHANGED <<signalVars, main, logVars>>
    BY <1>6, SMTT(30)
    DEF WatcherStep, ProcessorStep, Edit, reloadVars, Create, Write, ReadSources, Arm, List,
        TakeEvent, Lock, Pick, FirstLook, SecondLook, Unlock, StopWatching, TakeItem, FinishItem
  <2> QED BY <2>1 DEF signalVars, logVars
<1> QED
  BY <1>1, <1>2, <1>3, <1>4, <1>5, <1>6 DEF ReloadNext, MainStep

\* One side of an update watches the new directory, unless fsnotify refuses it,
\* instead of the old one, and leaves the other side alone.
LEMMA TakeOverWatches ==
  ASSUME NEW s \in Sides, NEW c \in Config, NEW refused, NEW w \in Taken
  PROVE  LET v == TakeOver(w, s, c, refused) IN
         /\ v.watched \subseteq w.watched \union Dirs
         /\ ~w.failed /\ c.src[s] \notin refused =>
              /\ ~v.failed /\ v.src[s] = c.src[s]
              /\ w.src[s] # c.src[s] => c.src[s] \in v.watched \union {NoDir}
              /\ w.src[s] = c.src[s] => v = w
         /\ w.watched \ {w.src[s]} \subseteq v.watched
         /\ \A t \in Sides \ {s} : v.src[t] = w.src[t]
<1> DEFINE v == TakeOver(w, s, c, refused)
           kept == w.watched \ {w.src[s]}
           n == [watched |-> kept \union ({c.src[s]} \ {NoDir}),
                 src |-> [w.src EXCEPT ![s] = c.src[s]],
                 dst |-> [w.dst EXCEPT ![s] = c.dst[s]], failed |-> FALSE]
<1>1. c.src[s] \in Dirs \union {NoDir}
  BY DEF Config
<1>2. w.src \in [Sides -> Dirs \union {NoDir}] /\ w.failed \in BOOLEAN
  BY DEF Taken
<1>3. CASE w.failed \/ c.src[s] = w.src[s]
  <2>1. v = w
    BY <1>3 DEF TakeOver
  <2> QED BY <1>2, <1>3, <2>1
<1>4. CASE ~w.failed /\ c.src[s] # w.src[s] /\ c.src[s] \in refused
  <2>1. v = [w EXCEPT !.watched = kept, !.failed = TRUE]
    BY <1>4 DEF TakeOver
  <2>2. v.watched = kept /\ v.src = w.src
    BY <2>1 DEF Taken
  <2> QED BY <1>4, <2>2
<1>5. CASE ~w.failed /\ c.src[s] # w.src[s] /\ c.src[s] \notin refused
  <2>1. v = n
    BY <1>5 DEF TakeOver
  <2>2. /\ v.watched = kept \union ({c.src[s]} \ {NoDir}) /\ v.failed = FALSE
        /\ v.src = [w.src EXCEPT ![s] = c.src[s]]
    BY <2>1
  <2>3. v.src[s] = c.src[s] /\ \A t \in Sides \ {s} : v.src[t] = w.src[t]
    BY <1>2, <2>2
  <2> QED BY <1>1, <1>5, <2>2, <2>3
<1> QED
  BY <1>2, <1>3, <1>4, <1>5

\* An update that fsnotify does not refuse, or one that it does.
LEMMA UpdateShape ==
  ASSUME ConfigsKnown, PathsPaired, watched \subseteq Dirs, UpdateWatcher, mgr.cfg.block
  PROVE  \E refused \in SUBSET Dirs :
           LET w == [watched |-> watched, src |-> src, dst |-> dst, failed |-> FALSE]
               u == TakeOver(w, "encrypt", mgr.cfg, refused)
               v == TakeOver(u, "decrypt", mgr.cfg, refused)
           IN /\ w \in Taken /\ u \in Taken /\ v \in Taken
              /\ watched' = v.watched /\ src' = v.src /\ (~world.faults => refused = {})
              /\ UNCHANGED <<scout, errand, found>>
<1> DEFINE w == [watched |-> watched, src |-> src, dst |-> dst, failed |-> FALSE]
           u(r) == TakeOver(w, "encrypt", mgr.cfg, r)
           v(r) == TakeOver(u(r), "decrypt", mgr.cfg, r)
<1>1. PICK r \in SUBSET {d \in Dirs : world.faults /\ \E s \in Sides : mgr.cfg.src[s] = d} :
        watched' = v(r).watched /\ src' = v(r).src
  BY DEF UpdateWatcher
<1>2. UNCHANGED <<scout, errand, found>>
  BY DEF UpdateWatcher, scoutVars
<1>3. w \in Taken /\ \A t \in Sides : Paired(t, w.src[t], w.dst[t])
  BY DEF PathsPaired, Taken, Watchable
<1>4. "encrypt" \in Sides /\ "decrypt" \in Sides
  BY DEF Sides
<1> HIDE DEF w
<1>5. u(r) \in Taken /\ \A t \in Sides : Paired(t, u(r).src[t], u(r).dst[t])
  BY <1>3, <1>4, TakeOverPairs
<1> HIDE DEF u
<1>6. v(r) \in Taken
  BY <1>4, <1>5, TakeOverPairs
<1>7. r \in SUBSET Dirs /\ (~world.faults => r = {})
  BY <1>1
<1> USE DEF u, w
<1> QED
  BY <1>1, <1>2, <1>3, <1>5, <1>6, <1>7

\* Only directories are watched.
LEMMA WatchTypes ==
  ASSUME ReloadTypeOK, ConfigsKnown, PathsPaired, EyeSound, [ReloadNext]_reloadVars
  PROVE  watched' \subseteq Dirs
<1> USE DEF ReloadTypeOK
<1>1. CASE Arm
  <2>1. CASE found[errand] = NoDir
    BY <1>1, <2>1 DEF Arm
  <2>2. CASE found[errand] # NoDir
    <3>1. errand \in Sides
      BY <1>1 DEF Arm, EyeSound
    <3>2. watched' \subseteq watched \union {found[errand]}
      BY <1>1, <2>2 DEF Arm
    <3> QED BY <3>1, <3>2, <2>2
  <2> QED BY <2>1, <2>2
<1>2. CASE UpdateWatcher
  <2>1. CASE ~mgr.cfg.block
    BY <1>2, <2>1 DEF UpdateWatcher, Panic, Forget
  <2>2. CASE mgr.cfg.block
    <3> DEFINE w == [watched |-> watched, src |-> src, dst |-> dst, failed |-> FALSE]
               u(r) == TakeOver(w, "encrypt", mgr.cfg, r)
               v(r) == TakeOver(u(r), "decrypt", mgr.cfg, r)
    <3>1. PICK r \in SUBSET Dirs : w \in Taken /\ u(r) \in Taken /\ watched' = v(r).watched
      BY <1>2, <2>2, UpdateShape
    <3>2. mgr.cfg \in Config /\ "encrypt" \in Sides /\ "decrypt" \in Sides /\ w.watched = watched
      BY WorldBounds DEF ConfigsKnown, Sides
    <3> HIDE DEF w
    <3>3. u(r).watched \subseteq w.watched \union Dirs
      BY <3>1, <3>2, TakeOverWatches
    <3> HIDE DEF u
    <3>4. v(r).watched \subseteq u(r).watched \union Dirs
      BY <3>1, <3>2, TakeOverWatches
    <3> QED BY <3>1, <3>2, <3>3, <3>4
  <2> QED BY <2>1, <2>2
<1>3. CASE Exit \/ StopWatching
  BY <1>3 DEF Exit, Forget, StopWatching
<1>4. CASE ~(Arm \/ UpdateWatcher \/ Exit \/ StopWatching)
  <2>1. watched' = watched
    BY <1>4, SMTT(30) DEF ReloadNext, reloadVars, watchVars, MainStep, WatcherStep,
       ProcessorStep, Create, Write, Edit, Send, Receive, Load, SwitchLogger, UpdateProcessor,
       HangInSave, ReadSources, List, TakeEvent, Lock, Pick, FirstLook, SecondLook, Unlock, TakeItem,
       FinishItem
  <2> QED BY <2>1
<1> QED
  BY <1>1, <1>2, <1>3, <1>4

\* Sizes and times of a file are those of its writes.
LEMMA FileTypes ==
  ASSUME TypeInv, FilesKnown, ConfigsKnown, [ReloadNext]_reloadVars
  PROVE  /\ stamp' \in [Files -> Stamp]
         /\ \A f \in Files : stamp'[f].size <= stamp'[f].mtime /\ stamp'[f].mtime <= world'.writes
<1> USE DEF TypeInv, ReloadTypeOK, Counted
<1>1. world' = world /\ world \in Worlds
  BY ConfigsKnownKept DEF ConfigsKnown
<1>2. world.writes \in Nat /\ 1 <= world.writes /\ world.writes <= MaxWrites /\ MaxWrites \in Nat
  BY <1>1, WorldBounds, ReloadBounds
<1>3. \A f \in Files : stamp[f] \in Stamp /\ stamp[f].size \in Nat /\ stamp[f].mtime \in Nat
  BY DEF Stamp
<1>4. ASSUME NEW g \in Files, Create(g) \/ Write(g)
      PROVE  \E m, n \in Nat : /\ m <= n /\ n <= world.writes
                               /\ stamp' = [stamp EXCEPT ![g] = [size |-> m, mtime |-> n]]
  <2>1. CASE Create(g)
    <3>1. stamp' = [stamp EXCEPT ![g] = [size |-> 1, mtime |-> 1]]
      BY <2>1 DEF Create
    <3>2. 1 \in Nat /\ 1 <= 1 /\ 1 <= world.writes
      BY <1>2
    <3> QED BY <3>1, <3>2
  <2>2. CASE Write(g)
    <3>1. PICK n \in {stamp[g].size, stamp[g].size + 1} :
            stamp' = [stamp EXCEPT ![g] = [size |-> n, mtime |-> stamp[g].mtime + 1]]
      BY <2>2 DEF Write
    <3>2. stamp[g].mtime # world.writes
      BY <2>2 DEF Write, Complete
    <3>3. n \in Nat /\ stamp[g].mtime + 1 \in Nat /\ n <= stamp[g].mtime + 1
          /\ stamp[g].mtime + 1 <= world.writes
      BY <1>2, <1>3, <3>1, <3>2
    <3> QED BY <3>1, <3>3
  <2> QED BY <1>4, <2>1, <2>2
<1>5. ASSUME NEW g \in Files, NEW m \in Nat, NEW n \in Nat, m <= n, n <= world.writes,
             stamp' = [stamp EXCEPT ![g] = [size |-> m, mtime |-> n]]
      PROVE  /\ stamp' \in [Files -> Stamp]
             /\ \A f \in Files : stamp'[f].size <= stamp'[f].mtime /\ stamp'[f].mtime <= world.writes
  <2>1. [size |-> m, mtime |-> n] \in Stamp
    BY <1>2, <1>5 DEF Stamp
  <2>2. stamp' \in [Files -> Stamp]
    BY <1>5, <2>1
  <2>3. ASSUME NEW f \in Files
        PROVE  stamp'[f].size <= stamp'[f].mtime /\ stamp'[f].mtime <= world.writes
    <3>1. CASE f = g
      <4>1. stamp'[f] = [size |-> m, mtime |-> n]
        BY <1>5, <3>1
      <4> QED BY <1>5, <4>1
    <3>2. CASE f # g
      BY <1>5, <3>2
    <3> QED BY <3>1, <3>2
  <2> QED BY <2>2, <2>3
<1>6. CASE UNCHANGED stamp
  BY <1>1, <1>6
<1>7. CASE ~(\E f \in Files : Create(f) \/ Write(f))
  <2>1. UNCHANGED stamp
    BY <1>7, SMTT(30) DEF ReloadNext, reloadVars, fileVars, MainStep, WatcherStep,
       ProcessorStep, Edit, Send, Receive, Load, SwitchLogger, UpdateWatcher, UpdateProcessor,
       Exit, HangInSave, ReadSources, Arm, List, TakeEvent, Lock, Pick, FirstLook, SecondLook, Unlock,
       StopWatching, TakeItem, FinishItem
  <2> QED BY <2>1, <1>6
<1> QED
  BY <1>1, <1>4, <1>5, <1>7

\* The watcher goroutine, where it is and what it has seen of the file it waits
\* for; Arm, Onward and TakeEvent say what it is at.
LEMMA EyeTypes ==
  ASSUME ReloadTypeOK, ConfigsKnown, [ReloadNext]_reloadVars
  PROVE  (/\ scout \in {"start", "arm", "list", "wait", "locked", "events", "ended"}
          /\ errand \in Sides \union {"event"} /\ found \in [Sides -> Dirs \union {NoDir}]
          /\ seen \in Stamp /\ looks \in 0..world.patience)'
<1> USE DEF ReloadTypeOK
<1>1. world' = world /\ world \in Worlds
  BY ConfigsKnownKept DEF ConfigsKnown
<1>2. world.patience \in Nat /\ MaxWrites \in Nat /\ NoStamp \in Stamp
  BY <1>1, WorldBounds, ReloadBounds DEF NoStamp, Stamp
<1>3. CASE UNCHANGED <<scout, errand, found, seen, looks>>
  BY <1>1, <1>3
<1>4. CASE ReadSources \/ Arm \/ List \/ TakeEvent \/ Lock \/ Unlock \/ StopWatching
  <2>1. seen' = seen /\ looks' = looks /\ found' \in {found, src}
    BY <1>4 DEF ReadSources, Arm, List, TakeEvent, Lock, Unlock, StopWatching
  <2>2. scout' \in {"start", "arm", "list", "wait", "locked", "events", "ended"}
    BY <1>4 DEF ReadSources, Arm, List, TakeEvent, Lock, Unlock, StopWatching, Onward
  <2>3. errand' \in {errand, "decrypt", "event"}
    BY <1>4 DEF ReadSources, Arm, List, TakeEvent, Lock, Unlock, StopWatching, Onward
  <2> QED BY <1>1, <2>1, <2>2, <2>3 DEF Sides
<1>5. ASSUME NEW f \in Files, Pick(f) PROVE UNCHANGED <<scout, errand, found, seen, looks>>
  BY <1>5 DEF Pick
<1>6. CASE FirstLook \/ SecondLook
  <2>1. UNCHANGED <<scout, errand, found>>
    BY <1>6 DEF FirstLook, SecondLook
  <2>2. file \in Files /\ stamp[file] \in Stamp
    BY <1>6 DEF FirstLook, SecondLook
  <2>3. seen' \in {NoStamp, stamp[file]}
    BY <1>6 DEF FirstLook, SecondLook, Done
  <2>4. \/ looks' \in {0, looks}
        \/ looks' = looks + 1 /\ ~(looks >= world.patience)
    BY <1>6 DEF FirstLook, SecondLook, Done, OutOfPatience
  <2>5. looks' \in 0..world.patience
    BY <1>2, <2>4
  <2> QED BY <1>1, <1>2, <2>1, <2>2, <2>3, <2>5
<1>7. CASE Exit \/ UpdateWatcher
  <2>1. UNCHANGED scoutVars \/ Forget
    BY <1>7 DEF Exit, UpdateWatcher, Panic
  <2>2. CASE Forget
    BY <1>1, <1>2, <2>2 DEF Forget, Done
  <2> QED BY <1>3, <2>1, <2>2 DEF scoutVars
<1>8. CASE \/ Receive \/ Load \/ SwitchLogger \/ UpdateProcessor \/ HangInSave
           \/ ProcessorStep \/ Edit \/ UNCHANGED reloadVars \/ \E f \in Files : Create(f) \/ Write(f)
           \/ \E sig \in {"HUP", "TERM"} : Send(sig)
  <2>1. UNCHANGED scoutVars
    BY <1>8, SMTT(30) DEF ProcessorStep, Edit, reloadVars, Create, Write, Send, Receive, Load,
       SwitchLogger, UpdateProcessor, HangInSave, TakeItem, FinishItem
  <2> QED BY <1>3, <2>1 DEF scoutVars
<1> QED
  BY <1>3, <1>4, <1>5, <1>6, <1>7, <1>8 DEF ReloadNext, MainStep, WatcherStep

\* An item is made for a file that belongs to a side: the one of the scan, or
\* the one of its directory, which Pick found and the lock has kept.
LEMMA WorkTypes ==
  ASSUME ReloadTypeOK, FilesKnown, PathsPaired, EyeSound, [ReloadNext]_reloadVars
  PROVE  (queue \subseteq Item /\ work \in Item \union {NoItem} /\ noticed \subseteq Files)'
<1> USE DEF ReloadTypeOK
<1>1. CASE SecondLook
  <2>1. CASE UNCHANGED workVars
    BY <2>1 DEF workVars
  <2>2. CASE Enqueue(file) /\ home[file] # NoDir
    <3>1. file \in Files
      BY <1>1 DEF SecondLook
    <3>2. SideOf(file) \in Sides
      <4>1. CASE errand = "event"
        <5>1. kind[file] = SideOf(file)
          BY <1>1, <2>2, <3>1, <4>1 DEF EyeSound, SecondLook
        <5> QED BY <3>1, <5>1 DEF FilesKnown
      <4>2. CASE errand # "event"
        BY <4>2 DEF SideOf
      <4> QED BY <4>1, <4>2
    <3>3. dst[SideOf(file)] \in Dests /\ (errand # "event") \in BOOLEAN
      BY <3>2 DEF PathsPaired
    <3> DEFINE n == [file |-> file, side |-> SideOf(file), dst |-> dst[SideOf(file)],
                     scanned |-> errand # "event"]
    <3>4. \A s \in Sides, t \in Dests, b \in BOOLEAN :
            [file |-> file, side |-> s, dst |-> t, scanned |-> b] \in Item
      BY <3>1 DEF Item
    <3>5. n \in Item
      BY <3>2, <3>3, <3>4
    <3>6. queue' = queue \union {n} /\ noticed' = noticed \union {file} /\ work' = work
      BY <2>2 DEF Enqueue
    <3> HIDE DEF n
    <3> QED BY <3>1, <3>5, <3>6
  <2>3. UNCHANGED workVars \/ (Enqueue(file) /\ home[file] # NoDir)
    BY <1>1 DEF SecondLook
  <2> QED BY <2>1, <2>2, <2>3
<1>2. CASE ~SecondLook
  <2>1. queue' \subseteq queue /\ work' \in queue \union {work, NoItem} /\ noticed' = noticed
    BY <1>2, SMTT(30) DEF ReloadNext, reloadVars, workVars, MainStep, WatcherStep,
       ProcessorStep, Create, Write, Edit, Send, Panic, Forget, Receive, Load, SwitchLogger,
       UpdateWatcher, UpdateProcessor, Exit, HangInSave, ReadSources, Arm, List, TakeEvent, Lock, Pick,
       FirstLook, Unlock, StopWatching, TakeItem, FinishItem
  <2> QED BY <2>1
<1> QED
  BY <1>1, <1>2

LEMMA ReloadTypeInit ==
  ASSUME ReloadInit
  PROVE  TypeInv
<1> DEFINE c == world.first
<1>1. world \in Worlds /\ world \in World /\ c \in Config
  BY WorldBounds, WorldFacts DEF ReloadInit
<1>2. disk = [ver |-> 0, cfg |-> c] /\ mgr = disk /\ settings = disk
  BY DEF ReloadInit
<1>3. 0 \in 0..MaxEdits /\ 0 \in 0..MaxSignals /\ 0 \in 0..MaxWrites /\ 0 \in 0..world.patience
      /\ 0 <= world.edits /\ 0 <= world.writes
  BY <1>1, WorldBounds, ReloadBounds
<1>4. disk \in Versioned
  BY <1>1, <1>2, <1>3 DEF Versioned
<1>5. NoStamp \in Stamp /\ NoStamp.size = 0 /\ NoStamp.mtime = 0
  BY <1>3 DEF NoStamp, Stamp
<1>6. src \in [Sides -> Dirs \union {NoDir}] /\ dst \in [Sides -> Dests] /\ found = src
  BY <1>1, <1>2 DEF ReloadInit, Config
<1>7. stamp = [f \in Files |-> NoStamp]
  BY DEF ReloadInit
<1>8. Counted
  BY <1>2, <1>3, <1>5, <1>7 DEF Counted
<1>9. ReloadTypeOK
  BY <1>1, <1>2, <1>3, <1>4, <1>5, <1>6, <1>7 DEF ReloadInit, ReloadTypeOK, Sides, NoSignal
<1> QED
  BY <1>8, <1>9 DEF TypeInv

LEMMA TypeInvKept ==
  ASSUME TypeInv, ConfigInv, [ReloadNext]_reloadVars
  PROVE  TypeInv'
<1>1. ReloadTypeOK /\ ConfigsKnown /\ FilesKnown /\ PathsPaired /\ EyeSound
  BY DEF TypeInv, ConfigInv
<1>2. FilesKnown' /\ PathsPaired' /\ EyeSound' /\ ConfigsKnown'
  BY ConfigInvKept DEF ConfigInv
<1>3. world' \in World
  BY <1>2, WorldBounds DEF ConfigsKnown
<1>4. ReloadTypeOK'
  BY <1>1, <1>2, <1>3, ConfigTypes, MainTypes, WatchTypes, FileTypes, EyeTypes, WorkTypes
  DEF ReloadTypeOK, FilesKnown, PathsPaired, EyeSound
<1>5. Counted'
  BY <1>1, ConfigTypes, FileTypes DEF Counted
<1> QED
  BY <1>4, <1>5 DEF TypeInv

\* The type invariant; that no item is made for "neither" side rests on the lock
\* Start and handleEvent hold while they wait for a file.
THEOREM ReloadTypeCorrect == ReloadSpec => []ReloadTypeOK
<1>1. ReloadInit => TypeInv /\ ConfigInv
  BY ReloadTypeInit, ConfigInvInit
<1>2. TypeInv /\ ConfigInv /\ [ReloadNext]_reloadVars => TypeInv' /\ ConfigInv'
  BY TypeInvKept, ConfigInvKept
<1>3. TypeInv => ReloadTypeOK
  BY DEF TypeInv
<1> QED
  BY <1>1, <1>2, <1>3, PTL DEF ReloadSpec

----------------------------------------------------------------------------
(* Watches *)

\* Start is past the watch of a side; or it is not, and will watch what is the
\* source of that side now.
Armed(s) ==
  \/ errand = "event" \/ (s = "encrypt" /\ errand = "decrypt")
  \/ errand = s /\ scout \in {"list", "wait", "locked"}
ToBeArmed(s) == ~Armed(s) /\ (scout = "start" \/ found[s] = src[s])

\* Without this a reload between the two halves of Start would break
\* SourcesWatched: what Start has read and not yet watched is either the source
\* of that side still, or a reload watches the one that took its place.
WatchInv ==
  /\ scout = "start" => errand = "encrypt"
  /\ scout = "events" => errand = "event"
  /\ ~world.faults /\ SidesApart /\ scout # "ended" =>
       \A s \in Sides : src[s] \in watched \union {NoDir} \/ ToBeArmed(s)

\* An update that fsnotify accepts watches the new sources; it removes no watch
\* of the other side, since the sides have no directory in common.
LEMMA UpdateWatches ==
  ASSUME ReloadTypeOK, ConfigInv, UpdateWatcher, mgr.cfg.block, ~world.faults, SidesApart
  PROVE  /\ UNCHANGED <<scout, errand, found>>
         /\ \A s \in Sides :
              \/ src'[s] \in watched' \union {NoDir}
              \/ src'[s] = src[s] /\ src[s] \notin watched \union {NoDir}
<1> DEFINE c == mgr.cfg
           w == [watched |-> watched, src |-> src, dst |-> dst, failed |-> FALSE]
           u(r) == TakeOver(w, "encrypt", c, r)
           v(r) == TakeOver(u(r), "decrypt", c, r)
<1>1. ConfigsKnown /\ PathsPaired /\ watched \subseteq Dirs
  BY DEF ConfigInv, ReloadTypeOK
<1>2. /\ w \in Taken /\ u({}) \in Taken /\ watched' = v({}).watched /\ src' = v({}).src
      /\ UNCHANGED <<scout, errand, found>>
  BY <1>1, UpdateShape
<1>3. c \in Config /\ c \in world.configs /\ "encrypt" \in Sides /\ "decrypt" \in Sides
      /\ "decrypt" # "encrypt"
  BY <1>1, WorldBounds DEF ConfigsKnown, Sides
<1>4. \A s \in Sides : \E d \in world.configs : d.src[s] = src[s]
  BY <1>1 DEF PathsPaired, Paired
<1>5. c.src["encrypt"] # src["decrypt"] /\ src["encrypt"] # src["decrypt"]
  BY <1>3, <1>4 DEF SidesApart
<1>6. w.watched = watched /\ w.src = src /\ w.failed = FALSE
  OBVIOUS
<1> HIDE DEF w
<1>7. /\ ~u({}).failed /\ u({}).src["encrypt"] = c.src["encrypt"]
      /\ src["encrypt"] # c.src["encrypt"] => c.src["encrypt"] \in u({}).watched \union {NoDir}
      /\ src["encrypt"] = c.src["encrypt"] => u({}) = w
      /\ watched \ {src["encrypt"]} \subseteq u({}).watched
      /\ u({}).src["decrypt"] = src["decrypt"]
  BY <1>2, <1>3, <1>6, TakeOverWatches
<1> HIDE DEF u
<1>8. /\ src'["decrypt"] = c.src["decrypt"]
      /\ src["decrypt"] # c.src["decrypt"] => c.src["decrypt"] \in watched' \union {NoDir}
      /\ src["decrypt"] = c.src["decrypt"] => v({}) = u({})
      /\ u({}).watched \ {src["decrypt"]} \subseteq watched'
      /\ src'["encrypt"] = c.src["encrypt"]
  BY <1>2, <1>3, <1>7, TakeOverWatches
<1>9. \/ src'["encrypt"] \in watched' \union {NoDir}
      \/ src'["encrypt"] = src["encrypt"] /\ src["encrypt"] \notin watched \union {NoDir}
  BY <1>5, <1>6, <1>7, <1>8
<1>10. \/ src'["decrypt"] \in watched' \union {NoDir}
       \/ src'["decrypt"] = src["decrypt"] /\ src["decrypt"] \notin watched \union {NoDir}
  <2>1. CASE src["decrypt"] # c.src["decrypt"]
    BY <1>8, <2>1
  <2>2. CASE src["decrypt"] = c.src["decrypt"]
    <3>1. watched' = u({}).watched
      BY <1>2, <1>8, <2>2
    <3> QED BY <1>5, <1>7, <1>8, <2>2, <3>1
  <2> QED BY <2>1, <2>2
<1> QED
  BY <1>2, <1>9, <1>10 DEF Sides

LEMMA WatchInvKept ==
  ASSUME ReloadTypeOK, ConfigInv, WatchInv, [ReloadNext]_reloadVars
  PROVE  WatchInv'
<1>1. UNCHANGED world
  BY ConfigsKnownKept DEF ConfigInv
<1>2. \A s \in Sides : Armed(s) <=> \/ errand = "event" \/ (s = "encrypt" /\ errand = "decrypt")
                                    \/ errand = s /\ scout \in {"list", "wait", "locked"}
  BY DEF Armed
<1>3. CASE UNCHANGED <<scout, errand, found, src, watched>>
  BY <1>1, <1>3 DEF WatchInv, ToBeArmed, Armed, SidesApart
<1>4. CASE ReadSources
  <2>1. /\ scout = "start" /\ scout' = "arm" /\ errand = "encrypt" /\ errand' = "encrypt"
        /\ found' = src /\ src' = src
    BY <1>4 DEF ReadSources, watchVars, WatchInv
  <2> QED BY <2>1 DEF WatchInv, ToBeArmed, Armed
<1>5. CASE Arm
  <2>1. /\ scout = "arm" /\ errand \in Sides /\ UNCHANGED <<src, found>>
        /\ watched \subseteq watched'
    BY <1>5 DEF Arm, ConfigInv, EyeSound
  <2>2. \/ scout' = "ended"
        \/ scout' = "list" /\ errand' = errand /\ found[errand] \in watched'
        \/ found[errand] = NoDir /\ Onward
    BY <1>5 DEF Arm
  <2>3. src[errand] \in watched \union {NoDir} \/ ~ToBeArmed(errand) \/ found[errand] = src[errand]
    BY <2>1 DEF ToBeArmed
  <2> QED BY <1>1, <2>1, <2>2, <2>3 DEF WatchInv, ToBeArmed, Armed, Onward, Sides, SidesApart
<1>6. CASE Unlock
  <2>1. scout = "locked" /\ Onward /\ UNCHANGED <<src, watched, found>>
        /\ errand \in Sides \union {"event"}
    BY <1>6 DEF Unlock, watchVars, ReloadTypeOK
  <2> QED BY <1>1, <2>1 DEF WatchInv, ToBeArmed, Armed, Onward, Sides, SidesApart
<1>7. CASE List \/ TakeEvent \/ Lock
  <2>1. CASE world.faults /\ Onward
    BY <1>1, <2>1 DEF WatchInv, Onward
  <2>2. CASE ~(world.faults /\ Onward)
    <3>1. /\ scout' \in {scout, "wait", "locked"} /\ scout \in {"list", "wait", "events"}
          /\ UNCHANGED <<src, watched, found, errand>>
          /\ scout = "events" => errand = "event"
      BY <1>7, <2>2 DEF List, TakeEvent, Lock, watchVars, WatchInv
    <3> QED BY <1>1, <3>1 DEF WatchInv, ToBeArmed, Armed, SidesApart
  <2> QED BY <2>1, <2>2
<1>8. CASE StopWatching
  BY <1>8 DEF StopWatching, WatchInv
<1>9. CASE Exit \/ (UpdateWatcher /\ ~mgr.cfg.block)
  BY <1>9 DEF Exit, UpdateWatcher, Panic, Forget, WatchInv
<1>10. CASE UpdateWatcher /\ mgr.cfg.block
  <2>1. UNCHANGED <<scout, errand, found>>
    BY <1>10 DEF UpdateWatcher, scoutVars
  <2>2. ASSUME ~world.faults, SidesApart, scout # "ended", NEW s \in Sides
        PROVE  src'[s] \in watched' \union {NoDir} \/ ToBeArmed(s)'
    <3>1. CASE src'[s] \in watched' \union {NoDir}
      BY <3>1
    <3>2. CASE src'[s] = src[s] /\ src[s] \notin watched \union {NoDir}
      BY <2>1, <2>2, <3>2 DEF WatchInv, ToBeArmed, Armed
    <3> QED BY <1>10, <2>2, <3>1, <3>2, UpdateWatches
  <2> QED BY <1>1, <2>1, <2>2 DEF WatchInv, SidesApart
<1>11. CASE \/ Receive \/ Load \/ SwitchLogger \/ UpdateProcessor \/ HangInSave
            \/ ProcessorStep \/ Edit \/ FirstLook \/ SecondLook \/ UNCHANGED reloadVars
            \/ \E f \in Files : Create(f) \/ Write(f) \/ Pick(f)
            \/ \E sig \in {"HUP", "TERM"} : Send(sig)
  <2>1. UNCHANGED <<scout, errand, found, src, watched>>
    BY <1>11, SMTT(30) DEF ProcessorStep, Edit, reloadVars, Create, Write, Send, Receive, Load,
       SwitchLogger, UpdateProcessor, HangInSave, TakeItem, FinishItem, FirstLook, SecondLook, Pick,
       scoutVars, watchVars
  <2> QED BY <1>3, <2>1
<1> QED
  BY <1>4, <1>5, <1>6, <1>7, <1>8, <1>9, <1>10, <1>11 DEF ReloadNext, MainStep, WatcherStep

\* The directories the watcher takes for its sources are watched once Start is
\* through, wherever in it a reload came between.
THEOREM SourcesWatchedCorrect == ReloadSpec => []SourcesWatched
<1>1. ReloadInit => TypeInv /\ ConfigInv /\ WatchInv
  <2>1. ReloadInit => WatchInv
    BY DEF ReloadInit, WatchInv, ToBeArmed, Armed, Sides
  <2> QED BY <2>1, ReloadTypeInit, ConfigInvInit
<1>2. TypeInv /\ ConfigInv /\ WatchInv /\ [ReloadNext]_reloadVars
        => TypeInv' /\ ConfigInv' /\ WatchInv'
  BY TypeInvKept, ConfigInvKept, WatchInvKept DEF TypeInv
<1>3. WatchInv => SourcesWatched
  BY DEF WatchInv, SourcesWatched, Started, ToBeArmed, Armed
<1> QED
  BY <1>1, <1>2, <1>3, PTL DEF ReloadSpec

----------------------------------------------------------------------------
(* Uploads *)

\* What is queued while its user writes at least once in every stability_duration
\* is complete: only SecondLook queues, and what it saw twice has been written to
\* in between or is finished.
THEOREM BriskUploadsCorrect == ReloadSpec => BriskUploadsWhole
<1>1. ASSUME [ReloadNext]_reloadVars, world.brisk, NEW f \in noticed' \ noticed
      PROVE  Complete(f)
  <2>1. SecondLook
    <3>1. ~SecondLook => noticed' = noticed
      BY <1>1, SMTT(30) DEF ReloadNext, reloadVars, workVars, MainStep, WatcherStep,
         ProcessorStep, Create, Write, Edit, Send, Panic, Forget, Receive, Load, SwitchLogger,
         UpdateWatcher, UpdateProcessor, Exit, HangInSave, ReadSources, Arm, List, TakeEvent, Lock, Pick,
         FirstLook, Unlock, StopWatching, TakeItem, FinishItem
    <3> QED BY <1>1, <3>1
  <2>2. Stable(file) /\ f = file
    BY <1>1, <2>1 DEF SecondLook, Enqueue, workVars
  <2> QED
    BY <1>1, <2>1, <2>2 DEF SecondLook, Stable
<1>2. [ReloadNext]_reloadVars
        => [world.brisk => \A f \in noticed' \ noticed : Complete(f)]_reloadVars
  BY <1>1
<1> QED
  BY <1>2, PTL DEF ReloadSpec, BriskUploadsWhole
=============================================================================
