-------------------------- MODULE RetryQueueProofs --------------------------
(* Theorems about RetryQueue, for any number of items, workers, restarts    *)
(* and any retry limit and delays.                                          *)
EXTENDS RetryQueue, SequenceTheorems, TLAPS

USE DEF PushBack, RemoveElement

----------------------------------------------------------------------------
(* Lists *)

\* Removing one element: the elements before it stay, the others move up.
LEMMA RemoveAtFacts ==
  ASSUME NEW S, NEW s \in Seq(S), NEW k \in 1..Len(s)
  PROVE  /\ RemoveAt(s, k) \in Seq(S)
         /\ Len(RemoveAt(s, k)) = Len(s) - 1
         /\ \A j \in 1..(Len(s) - 1) :
              RemoveAt(s, k)[j] = IF j < k THEN s[j] ELSE s[j + 1]
<1> DEFINE a == SubSeq(s, 1, k - 1)
           b == SubSeq(s, k + 1, Len(s))
<1>1. /\ a \in Seq(S) /\ Len(a) = k - 1
      /\ \A j \in 1..(k - 1) : a[j] = s[j]
  OBVIOUS
<1>2. /\ b \in Seq(S) /\ Len(b) = Len(s) - k
      /\ \A j \in 1..(Len(s) - k) : b[j] = s[j + k]
  OBVIOUS
<1>3. RemoveAt(s, k) = a \o b
  BY DEF RemoveAt
<1> HIDE DEF a, b
<1>4. /\ a \o b \in Seq(S) /\ Len(a \o b) = Len(a) + Len(b)
      /\ \A i \in 1..(Len(a) + Len(b)) :
           (a \o b)[i] = IF i <= Len(a) THEN a[i] ELSE b[i - Len(a)]
  BY <1>1, <1>2, ConcatProperties
<1>5. /\ Len(s) \in Nat /\ k \in Nat
      /\ Len(a) + Len(b) = Len(s) - 1
  BY <1>1, <1>2
<1>6. ASSUME NEW j \in 1..(Len(s) - 1)
      PROVE  (a \o b)[j] = IF j < k THEN s[j] ELSE s[j + 1]
  <2>1. (a \o b)[j] = IF j <= Len(a) THEN a[j] ELSE b[j - Len(a)]
    BY <1>4, <1>5
  <2> QED
    BY <1>1, <1>2, <1>5, <2>1
<1> QED
  BY <1>3, <1>4, <1>5, <1>6

\* Its elements, when no element was there twice.
LEMMA RemoveAtRange ==
  ASSUME NEW S, NEW s \in Seq(S), NEW k \in 1..Len(s), IsInjective(s)
  PROVE  /\ ToSet(RemoveAt(s, k)) = ToSet(s) \ {s[k]}
         /\ IsInjective(RemoveAt(s, k))
<1> DEFINE t == RemoveAt(s, k)
<1>1. /\ t \in Seq(S) /\ Len(t) = Len(s) - 1
      /\ \A j \in 1..(Len(s) - 1) : t[j] = IF j < k THEN s[j] ELSE s[j + 1]
  BY RemoveAtFacts
<1>2. DOMAIN s = 1..Len(s) /\ DOMAIN t = 1..(Len(s) - 1) /\ Len(s) \in Nat
  BY <1>1
<1> HIDE DEF t
<1>3. \A i, j \in 1..Len(s) : s[i] = s[j] => i = j
  BY <1>2 DEF IsInjective
<1>4. \A x \in ToSet(t) : x \in ToSet(s) \ {s[k]}
  BY <1>1, <1>2, <1>3 DEF ToSet
<1>5. ASSUME NEW i \in 1..Len(s), i # k
      PROVE  s[i] \in ToSet(t)
  <2>1. CASE i < k
    <3>1. i \in 1..(Len(s) - 1) /\ t[i] = s[i]
      BY <1>1, <1>2, <2>1
    <3> QED BY <3>1, <1>2 DEF ToSet
  <2>2. CASE i > k
    <3>1. i - 1 \in 1..(Len(s) - 1) /\ t[i - 1] = s[i]
      BY <1>1, <1>2, <2>2
    <3> QED BY <3>1, <1>2 DEF ToSet
  <2> QED BY <1>5, <2>1, <2>2
<1>6. \A i, j \in 1..(Len(s) - 1) : t[i] = t[j] => i = j
  BY <1>1, <1>2, <1>3
<1>7. ToSet(t) = ToSet(s) \ {s[k]}
  BY <1>2, <1>4, <1>5 DEF ToSet
<1> QED
  BY <1>2, <1>6, <1>7 DEF IsInjective, t

\* Appending a new element.
LEMMA AppendRange ==
  ASSUME NEW S, NEW s \in Seq(S), NEW x \in S
  PROVE  /\ Append(s, x) \in Seq(S)
         /\ ToSet(Append(s, x)) = ToSet(s) \union {x}
         /\ IsInjective(s) /\ x \notin ToSet(s) => IsInjective(Append(s, x))
<1> DEFINE t == Append(s, x)
<1>1. /\ t \in Seq(S) /\ Len(t) = Len(s) + 1 /\ Len(s) \in Nat
      /\ \A j \in 1..Len(s) : t[j] = s[j]
      /\ t[Len(s) + 1] = x
  OBVIOUS
<1>2. DOMAIN s = 1..Len(s) /\ DOMAIN t = 1..(Len(s) + 1)
  BY <1>1
<1> HIDE DEF t
<1>3. ToSet(t) = ToSet(s) \union {x}
  BY <1>1, <1>2 DEF ToSet
<1>4. ASSUME IsInjective(s), x \notin ToSet(s)
      PROVE  IsInjective(t)
  BY <1>1, <1>2, <1>4 DEF IsInjective, ToSet
<1> QED
  BY <1>1, <1>3, <1>4 DEF t

\* Applying a function to every element of a list.
LEMMA MapSeq ==
  ASSUME NEW S, NEW T, NEW s \in Seq(S), NEW t,
         t = [k \in DOMAIN s |-> t[k]], \A k \in DOMAIN s : t[k] \in T
  PROVE  t \in Seq(T) /\ Len(t) = Len(s) /\ DOMAIN t = 1..Len(s)
<1>1. DOMAIN s = 1..Len(s) /\ Len(s) \in Nat
  OBVIOUS
<1>2. t = [k \in 1..Len(s) |-> t[k]] /\ \A k \in 1..Len(s) : t[k] \in T
  BY <1>1
<1>3. t \in [1..Len(s) -> T]
  BY <1>2
<1>4. t \in Seq(T)
  BY <1>1, <1>3
<1> QED
  BY <1>1, <1>3, <1>4

----------------------------------------------------------------------------
(* Type correctness *)

LEMMA SnapshotType ==
  ASSUME TypeOK PROVE Snapshot \in Seq(Saved)
<1>1. \A k \in DOMAIN items : Snapshot[k] \in Saved
  BY DEF Snapshot, TypeOK, Saved
<1>2. Snapshot = [k \in DOMAIN items |-> Snapshot[k]]
  BY DEF Snapshot
<1>3. items \in Seq(Items)
  BY DEF TypeOK
<1> QED
  BY <1>1, <1>2, <1>3, MapSeq

LEMMA DiskRecords ==
  ASSUME TypeOK PROVE \A k \in DOMAIN disk : disk[k] \in Saved
BY DEF TypeOK

LEMMA RecordType ==
  ASSUME TypeOK, NEW i \in Items, OnDisk(i)
  PROVE  Record(i) \in Saved /\ Record(i).id = i
<1>1. PICK k \in DOMAIN disk : disk[k].id = i
  BY DEF OnDisk
<1> QED
  BY <1>1, DiskRecords DEF Record

LEMMA LoadType ==
  ASSUME TypeOK, Load
  PROVE  /\ items' \in Seq(Items) /\ itemMap' \in SUBSET Items
         /\ status' \in [Items -> Statuses]
         /\ attempts' \in [Items -> 0..AttemptCap]
         /\ wait' \in [Items -> Nat]
<1>1. \A k \in DOMAIN disk : disk[k].id \in Items
  BY DiskRecords DEF Saved
<1>2. items' \in Seq(Items)
  <2>1. items' = [k \in DOMAIN disk |-> items'[k]]
        /\ \A k \in DOMAIN disk : items'[k] \in Items
    BY <1>1 DEF Load
  <2> QED
    BY <2>1, MapSeq DEF TypeOK
<1>3. itemMap' \in SUBSET Items
  BY <1>1 DEF Load
<1>4. status' \in [Items -> Statuses]
  BY RecordType DEF Load, Saved, TypeOK
<1>5. attempts' \in [Items -> 0..AttemptCap]
  BY RecordType DEF Load, Saved, TypeOK
<1>6. wait' \in [Items -> Nat]
  BY RecordType DEF Load, Saved, TypeOK
<1> QED
  BY <1>2, <1>3, <1>4, <1>5, <1>6

LEMMA InitType == Init => TypeOK
  BY SizeAssumption, RetryAssumption
     DEF Init, TypeOK, Statuses, Lives

LEMMA NextType == TypeOK /\ [Next]_vars => TypeOK'
<1> SUFFICES ASSUME TypeOK, [Next]_vars PROVE TypeOK'
  OBVIOUS
<1> USE SizeAssumption, NoItemAssumption, RetryAssumption
<1>1. ASSUME NEW i \in Items, Enqueue(i) PROVE TypeOK'
  <2>1. items' \in Seq(Items)
    BY <1>1, AppendRange DEF TypeOK, Enqueue
  <2> QED
    BY <1>1, <2>1 DEF TypeOK, Enqueue, Statuses
<1>2. ASSUME NEW w \in Workers, Dequeue(w) PROVE TypeOK'
  <2>1. PICK k \in DOMAIN items :
          /\ items' = RemoveAt(items, k)
          /\ itemMap' = itemMap \ {items[k]}
          /\ held' = [held EXCEPT ![w] = items[k]]
          /\ MarkProcessing(items[k])
    BY <1>2 DEF Dequeue
  <2>2. k \in 1..Len(items) /\ items[k] \in Items
    BY DEF TypeOK
  <2>3. items' \in Seq(Items)
    BY <2>1, <2>2, RemoveAtFacts DEF TypeOK
  <2>4. attempts' \in [Items -> 0..AttemptCap]
    BY <2>1, <2>2 DEF MarkProcessing, Counted, TypeOK
  <2> QED
    BY <1>2, <2>1, <2>2, <2>3, <2>4 DEF TypeOK, Dequeue, MarkProcessing, Statuses
<1>3. ASSUME NEW w \in Workers, Requeue(w) PROVE TypeOK'
  <2>1. held[w] \in Items
    BY <1>3 DEF Requeue, TypeOK
  <2>2. Append(items, held[w]) \in Seq(Items)
    BY <2>1, AppendRange DEF TypeOK
  <2>3. wait' \in [Items -> Nat]
    BY <1>3, <2>1, DelayAssumption DEF Requeue, TypeOK
  <2>4. status' \in [Items -> Statuses]
    BY <1>3, <2>1 DEF Requeue, TypeOK, Statuses
  <2>5. items' \in Seq(Items) /\ itemMap' \in SUBSET Items
    BY <1>3, <2>1, <2>2 DEF Requeue, TypeOK
  <2> QED
    BY <1>3, <2>3, <2>4, <2>5 DEF Requeue, TypeOK
<1>4. ASSUME NEW w \in Workers, Complete(w) PROVE TypeOK'
  BY <1>4 DEF Complete, TypeOK, Statuses
<1>5. ASSUME BeginShutdown PROVE TypeOK'
  BY <1>5 DEF BeginShutdown, TypeOK, Lives, itemVars
<1>6. ASSUME BeginSave PROVE TypeOK'
  BY <1>6 DEF BeginSave, TypeOK, Lives, itemVars
<1>7. ASSUME EndSave PROVE TypeOK'
  BY <1>7, SnapshotType DEF EndSave, TypeOK, Lives, itemVars
<1>8. ASSUME Exit PROVE TypeOK'
  BY <1>8 DEF Exit, Forget, TypeOK, Lives, itemVars
<1>9. ASSUME Crash PROVE TypeOK'
  BY <1>9 DEF Crash, Forget, TypeOK, Lives, itemVars
<1>10. ASSUME Start PROVE TypeOK'
  <2>1. CASE Load
    BY <1>10, <2>1, LoadType DEF Start, TypeOK, Lives
  <2>2. CASE UNCHANGED <<items, itemMap, itemVars>>
    BY <1>10, <2>2 DEF Start, TypeOK, Lives, itemVars
  <2> QED
    BY <1>10, <2>1, <2>2 DEF Start
<1>11. ASSUME Tick PROVE TypeOK'
  <2>1. \A n \in Nat : Sooner(n) \in Nat
    BY DEF Sooner
  <2>2. \A k \in DOMAIN disk : disk'[k] \in Saved
    BY <1>11, <2>1, DiskRecords DEF Tick, Aged, Saved
  <2>3. disk' \in Seq(Saved)
    <3>1. disk' = [k \in DOMAIN disk |-> disk'[k]]
      BY <1>11 DEF Tick
    <3> QED
      BY <2>2, <3>1, MapSeq DEF TypeOK
  <2> QED
    BY <1>11, <2>1, <2>3 DEF Tick, TypeOK
<1>12. CASE UNCHANGED vars
  BY <1>12 DEF vars, itemVars, TypeOK
<1> QED
  BY <1>1, <1>2, <1>3, <1>4, <1>5, <1>6, <1>7, <1>8, <1>9, <1>10, <1>11, <1>12
     DEF Next

\* Every reachable state has the declared types: in particular the attempt
\* count of items stays within its bound across restarts, and the state file
\* always holds a well-formed list of items.
THEOREM TypeCorrect == Spec => []TypeOK
<1>1. Init => TypeOK
  BY InitType
<1>2. TypeOK /\ [Next]_vars => TypeOK'
  BY NextType
<1> QED
  BY <1>1, <1>2, PTL DEF Spec

----------------------------------------------------------------------------
(* The queue invariant *)

\* A held item is marked as being processed, so it is neither queued again by
\* the watcher nor taken for a pending or a failed one.
HeldMarked ==
  \A w \in Workers : held[w] # NoItem => status[held[w]] = "processing"

\* Nothing is left in memory between two runs of the service.
DownIsEmpty ==
  life = "down" =>
    /\ items = <<>> /\ itemMap = {}
    /\ \A w \in Workers : held[w] = NoItem

\* The state file lists an item at most once and only items with attempts left.
DiskSound ==
  /\ \A j, k \in DOMAIN disk : disk[j].id = disk[k].id => j = k
  /\ \A k \in DOMAIN disk :
       disk[k].attempts = 0 \/ MaxRetries < 0 \/ disk[k].attempts < MaxRetries

\* A new item has not been attempted.
UnbornUntried == \A i \in Items : status[i] = "unborn" => attempts[i] = 0

\* The inductive strengthening of the safety properties of the queue.
QueueInv ==
  /\ TypeOK
  /\ IndexMatchesList /\ SingleOwner /\ QueuedRunnable /\ GivenUpAtLimit
  /\ HeldMarked /\ DownIsEmpty /\ DiskSound /\ UnbornUntried

LEMMA ListIndexing ==
  ASSUME TypeOK
  PROVE  /\ DOMAIN items = 1..Len(items)
         /\ Queued = {items[k] : k \in 1..Len(items)}
         /\ Queued \subseteq Items
BY DEF TypeOK, Queued, ToSet

\* What taking an item does to the list and to its index.
LEMMA DequeueEffect ==
  ASSUME TypeOK, IndexMatchesList, NEW w \in Workers, Dequeue(w)
  PROVE  \E i \in Queued :
           /\ Queued' = Queued \ {i} /\ itemMap' = itemMap \ {i}
           /\ IsInjective(items')
           /\ held[w] = NoItem /\ held' = [held EXCEPT ![w] = i]
           /\ MarkProcessing(i)
           /\ UNCHANGED <<disk, life, stops>> /\ life # "down"
<1>1. PICK k \in DOMAIN items :
        /\ items' = RemoveAt(items, k)
        /\ itemMap' = itemMap \ {items[k]}
        /\ held' = [held EXCEPT ![w] = items[k]]
        /\ MarkProcessing(items[k])
  BY DEF Dequeue
<1>2. k \in 1..Len(items) /\ items[k] \in Queued /\ items \in Seq(Items)
  BY DEF TypeOK, Queued, ToSet
<1>3. Queued' = Queued \ {items[k]} /\ IsInjective(items')
  BY <1>1, <1>2, RemoveAtRange DEF Queued, IndexMatchesList
<1> QED
  BY <1>1, <1>2, <1>3 DEF Dequeue, Writable

\* Giving an item back: at the end of the list, or dead-lettered.
LEMMA RequeueEffect ==
  ASSUME TypeOK, IndexMatchesList, SingleOwner, NEW w \in Workers, Requeue(w)
  PROVE  LET i == held[w] IN
         /\ i \in Items \ Queued /\ i # NoItem
         /\ held' = [held EXCEPT ![w] = NoItem]
         /\ attempts' = attempts /\ UNCHANGED <<disk, life, stops>> /\ life # "down"
         /\ \/ /\ ShouldRetry(i)
               /\ status' = [status EXCEPT ![i] = "failed"]
               /\ Queued' = Queued \union {i} /\ itemMap' = itemMap \union {i}
               /\ IsInjective(items')
            \/ /\ ~ShouldRetry(i)
               /\ status' = [status EXCEPT ![i] = "dlq"]
               /\ items' = items /\ Queued' = Queued /\ itemMap' = itemMap
<1>1. held[w] \in Items \ Queued /\ held[w] # NoItem /\ items \in Seq(Items)
  BY DEF Requeue, TypeOK, SingleOwner
<1>2. CASE ShouldRetry(held[w])
  <2>1. /\ items' = Append(items, held[w])
        /\ itemMap' = itemMap \union {held[w]}
        /\ status' = [status EXCEPT ![held[w]] = "failed"]
    BY <1>2 DEF Requeue
  <2>2. Queued' = Queued \union {held[w]} /\ IsInjective(items')
    BY <1>1, <2>1, AppendRange DEF Queued, IndexMatchesList
  <2> QED
    BY <1>1, <1>2, <2>1, <2>2 DEF Requeue, Writable
<1>3. CASE ~ShouldRetry(held[w])
  BY <1>1, <1>3 DEF Requeue, Writable, Queued
<1> QED
  BY <1>2, <1>3

\* What Load puts in memory is what the state file lists.
LEMMA LoadEffect ==
  ASSUME TypeOK, DiskSound, Load
  PROVE  /\ IsInjective(items')
         /\ Queued' = {disk[k].id : k \in DOMAIN disk} /\ itemMap' = Queued'
         /\ \A k \in DOMAIN disk :
              /\ status'[disk[k].id] = disk[k].status
              /\ attempts'[disk[k].id] = disk[k].attempts
         /\ \A i \in Items \ Queued' :
              status'[i] = status[i] /\ attempts'[i] = attempts[i]
<1>1. items' = [k \in DOMAIN disk |-> disk[k].id]
  BY DEF Load
<1>2. IsInjective(items')
  BY <1>1 DEF IsInjective, DiskSound
<1>3. Queued' = {disk[k].id : k \in DOMAIN disk}
  BY <1>1 DEF Queued, ToSet
<1>4. itemMap' = Queued'
  BY <1>3 DEF Load
<1>5. ASSUME NEW k \in DOMAIN disk
      PROVE  /\ disk[k].id \in Items /\ OnDisk(disk[k].id)
             /\ Record(disk[k].id) = disk[k]
  BY DiskRecords DEF Saved, OnDisk, Record, DiskSound
<1>6. \A i \in Items \ Queued' : ~OnDisk(i)
  BY <1>3 DEF OnDisk
<1> QED
  BY <1>2, <1>3, <1>4, <1>5, <1>6 DEF Load

LEMMA InitInv == Init => QueueInv
<1> SUFFICES ASSUME Init PROVE QueueInv
  OBVIOUS
<1>1. TypeOK
  BY InitType
<1>2. Queued = {}
  BY DEF Init, Queued, ToSet
<1> QED
  BY <1>1, <1>2
     DEF Init, QueueInv, IndexMatchesList, IsInjective, SingleOwner, UnbornUntried,
         QueuedRunnable, GivenUpAtLimit, HeldMarked, DownIsEmpty, DiskSound

LEMMA EnqueueInv ==
  ASSUME QueueInv, TypeOK', NEW i \in Items, Enqueue(i)
  PROVE  QueueInv'
<1> USE DEF QueueInv
<1>1. i \notin Queued /\ items \in Seq(Items) /\ status[i] = "unborn"
  BY DEF Enqueue, QueuedRunnable, TypeOK
<1>2. /\ Queued' = Queued \union {i} /\ itemMap' = itemMap \union {i}
      /\ IsInjective(items')
  BY <1>1, AppendRange DEF Enqueue, Queued, IndexMatchesList
<1>3. \A w \in Workers : held[w] # i
  BY <1>1, NoItemAssumption DEF HeldMarked
<1>4. status' = [status EXCEPT ![i] = "pending"] /\ life # "down"
      /\ UNCHANGED <<attempts, held, disk, life>>
  BY DEF Enqueue, Writable
<1>5. attempts[i] = 0
  BY <1>1 DEF UnbornUntried
<1>6. IndexMatchesList'
  BY <1>2 DEF IndexMatchesList
<1>7. SingleOwner'
  BY <1>2, <1>3, <1>4 DEF SingleOwner
<1>8. QueuedRunnable'
  BY <1>2, <1>4 DEF QueuedRunnable, TypeOK
<1>9. GivenUpAtLimit'
  BY <1>2, <1>4, <1>5, ListIndexing DEF GivenUpAtLimit, ShouldRetry, TypeOK
<1>10. HeldMarked'
  BY <1>3, <1>4 DEF HeldMarked, TypeOK
<1>11. DownIsEmpty' /\ DiskSound' /\ UnbornUntried'
  BY <1>4 DEF DownIsEmpty, DiskSound, UnbornUntried, TypeOK
<1> QED
  BY <1>6, <1>7, <1>8, <1>9, <1>10, <1>11

LEMMA DequeueInv ==
  ASSUME QueueInv, TypeOK', NEW w \in Workers, Dequeue(w)
  PROVE  QueueInv'
<1> USE DEF QueueInv
<1>1. PICK i \in Queued :
        /\ Queued' = Queued \ {i} /\ itemMap' = itemMap \ {i}
        /\ IsInjective(items')
        /\ held[w] = NoItem /\ held' = [held EXCEPT ![w] = i]
        /\ MarkProcessing(i)
        /\ UNCHANGED <<disk, life, stops>> /\ life # "down"
  BY DequeueEffect
<1>2. i \in Items /\ i # NoItem /\ Queued \subseteq Items
  BY <1>1, ListIndexing, NoItemAssumption
<1>3. status' = [status EXCEPT ![i] = "processing"]
      /\ \A j \in Items \ {i} : attempts'[j] = attempts[j]
  BY <1>1, <1>2 DEF MarkProcessing, TypeOK
<1>4. \A v \in Workers : held[v] # i
  BY <1>1, <1>2 DEF SingleOwner
<1>5. IndexMatchesList'
  BY <1>1 DEF IndexMatchesList
<1>6. SingleOwner'
  BY <1>1, <1>2, <1>4 DEF SingleOwner, TypeOK
<1>7. QueuedRunnable'
  BY <1>1, <1>2, <1>3 DEF QueuedRunnable, TypeOK
<1>8. GivenUpAtLimit'
  BY <1>1, <1>2, <1>3 DEF GivenUpAtLimit, ShouldRetry, TypeOK
<1>9. HeldMarked'
  BY <1>1, <1>2, <1>3 DEF HeldMarked, TypeOK
<1>10. DownIsEmpty' /\ DiskSound' /\ UnbornUntried'
  BY <1>1, <1>2, <1>3 DEF DownIsEmpty, DiskSound, UnbornUntried, TypeOK
<1> QED
  BY <1>5, <1>6, <1>7, <1>8, <1>9, <1>10

LEMMA RequeueInv ==
  ASSUME QueueInv, TypeOK', NEW w \in Workers, Requeue(w)
  PROVE  QueueInv'
<1> USE DEF QueueInv
<1> DEFINE i == held[w]
<1>1. /\ i \in Items \ Queued /\ i # NoItem
      /\ held' = [held EXCEPT ![w] = NoItem]
      /\ attempts' = attempts /\ UNCHANGED <<disk, life, stops>> /\ life # "down"
      /\ \/ /\ ShouldRetry(i)
            /\ status' = [status EXCEPT ![i] = "failed"]
            /\ Queued' = Queued \union {i} /\ itemMap' = itemMap \union {i}
            /\ IsInjective(items')
         \/ /\ ~ShouldRetry(i)
            /\ status' = [status EXCEPT ![i] = "dlq"]
            /\ items' = items /\ Queued' = Queued /\ itemMap' = itemMap
  BY RequeueEffect
<1>2. \A v \in Workers \ {w} : held[v] # i
  BY <1>1 DEF SingleOwner
<1> HIDE DEF i
<1>3. Queued \subseteq Items
  BY ListIndexing
<1>4. IndexMatchesList'
  BY <1>1 DEF IndexMatchesList
<1>5. SingleOwner'
  BY <1>1, <1>2 DEF SingleOwner, TypeOK
<1>6. QueuedRunnable'
  BY <1>1, <1>3 DEF QueuedRunnable, TypeOK
<1>7. GivenUpAtLimit'
  BY <1>1, <1>3, RetryAssumption DEF GivenUpAtLimit, ShouldRetry, TypeOK
<1>8. HeldMarked'
  BY <1>1, <1>2 DEF HeldMarked, TypeOK
<1>9. DownIsEmpty' /\ DiskSound' /\ UnbornUntried'
  BY <1>1 DEF DownIsEmpty, DiskSound, UnbornUntried, TypeOK
<1> QED
  BY <1>4, <1>5, <1>6, <1>7, <1>8, <1>9

LEMMA CompleteInv ==
  ASSUME QueueInv, TypeOK', NEW w \in Workers, Complete(w)
  PROVE  QueueInv'
<1> USE DEF QueueInv
<1> DEFINE i == held[w]
<1>1. /\ i \in Items \ Queued /\ i # NoItem /\ life # "down"
      /\ status' = [status EXCEPT ![i] = "completed"]
      /\ held' = [held EXCEPT ![w] = NoItem]
      /\ UNCHANGED <<items, itemMap, attempts, disk, life>>
  BY DEF Complete, SingleOwner, TypeOK, Running
<1>2. \A v \in Workers \ {w} : held[v] # i
  BY <1>1 DEF SingleOwner
<1> HIDE DEF i
<1>3. Queued \subseteq Items /\ Queued' = Queued
  BY <1>1, ListIndexing DEF Queued
<1>4. IndexMatchesList' /\ SingleOwner'
  BY <1>1, <1>2, <1>3 DEF IndexMatchesList, SingleOwner, TypeOK
<1>5. QueuedRunnable' /\ GivenUpAtLimit'
  BY <1>1, <1>3 DEF QueuedRunnable, GivenUpAtLimit, ShouldRetry, TypeOK
<1>6. HeldMarked'
  BY <1>1, <1>2 DEF HeldMarked, TypeOK
<1>7. DownIsEmpty' /\ DiskSound' /\ UnbornUntried'
  BY <1>1 DEF DownIsEmpty, DiskSound, UnbornUntried, TypeOK
<1> QED
  BY <1>4, <1>5, <1>6, <1>7

\* Steps that leave the items, the list and the holders alone.
LEMMA QuietInv ==
  ASSUME QueueInv, TypeOK', life # "down", life' # "down",
         UNCHANGED <<items, itemMap, status, attempts, held>>, DiskSound',
         \A k \in DOMAIN disk' : disk'[k].status \in {"pending", "failed"}
  PROVE  QueueInv'
BY DEF QueueInv, IndexMatchesList, SingleOwner, QueuedRunnable, GivenUpAtLimit,
       ShouldRetry, HeldMarked, DownIsEmpty, UnbornUntried, Queued

LEMMA EndSaveInv ==
  ASSUME QueueInv, TypeOK', EndSave
  PROVE  QueueInv'
<1> USE DEF QueueInv
<1>1. ASSUME disk' = Snapshot
      PROVE  /\ DiskSound'
             /\ \A k \in DOMAIN disk' : disk'[k].status \in {"pending", "failed"}
  <2>1. /\ DOMAIN disk' = DOMAIN items
        /\ \A k \in DOMAIN items :
             /\ disk'[k].id = items[k] /\ disk'[k].status = status[items[k]]
             /\ disk'[k].attempts = attempts[items[k]]
             /\ items[k] \in Queued
    BY <1>1 DEF Snapshot, Queued, ToSet
  <2> QED
    BY <2>1 DEF DiskSound, IndexMatchesList, IsInjective, QueuedRunnable,
                GivenUpAtLimit, ShouldRetry
<1>2. ASSUME disk' = disk
      PROVE  /\ DiskSound'
             /\ \A k \in DOMAIN disk' : disk'[k].status \in {"pending", "failed"}
  BY <1>2 DEF DiskSound, QueuedRunnable
<1> QED
  BY <1>1, <1>2, QuietInv DEF EndSave, itemVars

LEMMA ForgetInv ==
  ASSUME QueueInv, TypeOK', Forget, UNCHANGED <<itemVars, disk>>
  PROVE  QueueInv'
<1>1. Queued' = {} /\ \A w \in Workers : held'[w] = NoItem
  BY DEF Forget, Queued, ToSet
<1> QED
  BY <1>1
     DEF QueueInv, Forget, itemVars, IndexMatchesList, IsInjective, SingleOwner,
         QueuedRunnable, GivenUpAtLimit, HeldMarked, DownIsEmpty, DiskSound,
         UnbornUntried

LEMMA StartInv ==
  ASSUME QueueInv, TypeOK', Start
  PROVE  QueueInv'
<1> USE DEF QueueInv
<1>1. /\ life' = "up" /\ held' = held /\ disk' = disk
      /\ \A w \in Workers : held[w] = NoItem
  BY DEF Start, DownIsEmpty
<1>2. CASE Load
  <2>1. /\ IsInjective(items')
        /\ Queued' = {disk[k].id : k \in DOMAIN disk} /\ itemMap' = Queued'
        /\ \A k \in DOMAIN disk :
             /\ status'[disk[k].id] = disk[k].status
             /\ attempts'[disk[k].id] = disk[k].attempts
        /\ \A i \in Items \ Queued' :
             status'[i] = status[i] /\ attempts'[i] = attempts[i]
    BY <1>2, LoadEffect
  <2>2. IndexMatchesList' /\ SingleOwner' /\ HeldMarked' /\ DownIsEmpty'
    BY <1>1, <2>1 DEF IndexMatchesList, SingleOwner, HeldMarked, DownIsEmpty
  <2>3. QueuedRunnable' /\ DiskSound'
    BY <1>1, <2>1 DEF QueuedRunnable, DiskSound
  <2>4. GivenUpAtLimit' /\ UnbornUntried'
    BY <1>1, <2>1 DEF GivenUpAtLimit, QueuedRunnable, DiskSound, ShouldRetry,
                      UnbornUntried
  <2> QED
    BY <2>2, <2>3, <2>4
<1>3. CASE UNCHANGED <<items, itemMap, itemVars>>
  BY <1>1, <1>3
     DEF itemVars, IndexMatchesList, SingleOwner, QueuedRunnable, GivenUpAtLimit,
         ShouldRetry, HeldMarked, DownIsEmpty, DiskSound, UnbornUntried, Queued
<1> QED
  BY <1>2, <1>3 DEF Start

LEMMA TickInv ==
  ASSUME QueueInv, TypeOK', Tick
  PROVE  QueueInv'
<1>1. /\ DOMAIN disk' = DOMAIN disk
      /\ \A k \in DOMAIN disk : disk'[k].id = disk[k].id
           /\ disk'[k].status = disk[k].status
           /\ disk'[k].attempts = disk[k].attempts
  BY DEF Tick, Aged
<1> QED
  BY <1>1
     DEF Tick, QueueInv, IndexMatchesList, SingleOwner, QueuedRunnable, GivenUpAtLimit,
         ShouldRetry, HeldMarked, DownIsEmpty, DiskSound, UnbornUntried, Queued

LEMMA NextInv == QueueInv /\ [Next]_vars => QueueInv'
<1> SUFFICES ASSUME QueueInv, [Next]_vars PROVE QueueInv'
  OBVIOUS
<1>1. TypeOK'
  BY NextType DEF QueueInv
<1>2. DiskSound /\ QueuedRunnable
  BY DEF QueueInv
<1>3. ASSUME NEW i \in Items, Enqueue(i) PROVE QueueInv'
  BY <1>1, <1>3, EnqueueInv
<1>4. ASSUME NEW w \in Workers, Dequeue(w) PROVE QueueInv'
  BY <1>1, <1>4, DequeueInv
<1>5. ASSUME NEW w \in Workers, Requeue(w) PROVE QueueInv'
  BY <1>1, <1>5, RequeueInv
<1>6. ASSUME NEW w \in Workers, Complete(w) PROVE QueueInv'
  BY <1>1, <1>6, CompleteInv
<1>7. ASSUME BeginShutdown PROVE QueueInv'
  BY <1>1, <1>2, <1>7, QuietInv DEF BeginShutdown, itemVars, DiskSound, QueuedRunnable
<1>8. ASSUME BeginSave PROVE QueueInv'
  BY <1>1, <1>2, <1>8, QuietInv DEF BeginSave, itemVars, DiskSound, QueuedRunnable
<1>9. ASSUME EndSave PROVE QueueInv'
  BY <1>1, <1>9, EndSaveInv
<1>10. ASSUME Exit PROVE QueueInv'
  BY <1>1, <1>10, ForgetInv DEF Exit
<1>11. ASSUME Crash PROVE QueueInv'
  BY <1>1, <1>11, ForgetInv DEF Crash
<1>12. ASSUME Start PROVE QueueInv'
  BY <1>1, <1>12, StartInv
<1>13. ASSUME Tick PROVE QueueInv'
  BY <1>1, <1>13, TickInv
<1>14. CASE UNCHANGED vars
  BY <1>14 DEF vars, itemVars, QueueInv, TypeOK, IndexMatchesList, SingleOwner,
               QueuedRunnable, GivenUpAtLimit, ShouldRetry, HeldMarked, DownIsEmpty,
               DiskSound, UnbornUntried, Queued
<1> QED
  BY <1>3, <1>4, <1>5, <1>6, <1>7, <1>8, <1>9, <1>10, <1>11, <1>12, <1>13, <1>14
     DEF Next

LEMMA AlwaysInv == Spec => []QueueInv
BY InitInv, NextInv, PTL DEF Spec

\* The list and its index agree in every reachable state.
THEOREM IndexCorrect == Spec => []IndexMatchesList
<1>1. QueueInv => IndexMatchesList
  BY DEF QueueInv
<1> QED
  BY <1>1, AlwaysInv, PTL

\* No item is held by two workers, or held and queued, at once.
THEOREM OwnershipCorrect == Spec => []SingleOwner
<1>1. QueueInv => SingleOwner
  BY DEF QueueInv
<1> QED
  BY <1>1, AlwaysInv, PTL

\* Only pending and failed items are ever queued or saved.
THEOREM QueuedRunnableCorrect == Spec => []QueuedRunnable
<1>1. QueueInv => QueuedRunnable
  BY DEF QueueInv
<1> QED
  BY <1>1, AlwaysInv, PTL

\* An item is dead-lettered exactly when its attempts are used up.
THEOREM LimitCorrect == Spec => []GivenUpAtLimit
<1>1. QueueInv => GivenUpAtLimit
  BY DEF QueueInv
<1> QED
  BY <1>1, AlwaysInv, PTL
=============================================================================
