-------------------------- MODULE RetryQueueOrder --------------------------
(* First attempts happen in arrival order: the FIFO promise of RetryQueue.  *)
EXTENDS RetryQueueProofs

USE DEF PushBack, RemoveElement

\* Items are created in the order of their numbers.
BornFirst ==
  \A i, j \in Items : i < j /\ status[j] # "unborn" => status[i] # "unborn"

\* The state file lists items that were created, the untried ones in order.
DiskInOrder ==
  /\ \A k \in DOMAIN disk : status[disk[k].id] # "unborn"
  /\ \A j, k \in DOMAIN disk :
       j < k /\ disk[j].status = "pending" /\ disk[k].status = "pending"
         => disk[j].id < disk[k].id

OrderInv == QueueInv /\ PendingInArrivalOrder /\ BornFirst /\ DiskInOrder

LEMMA InitOrder == Init => OrderInv
<1> SUFFICES ASSUME Init PROVE OrderInv
  OBVIOUS
<1>1. QueueInv
  BY InitInv
<1>2. DOMAIN items = {} /\ DOMAIN disk = {}
  BY DEF Init
<1> QED
  BY <1>1, <1>2 DEF Init, OrderInv, PendingInArrivalOrder, BornFirst, DiskInOrder

LEMMA EnqueueOrder ==
  ASSUME OrderInv, NEW i \in Items, Enqueue(i)
  PROVE  PendingInArrivalOrder' /\ BornFirst' /\ DiskInOrder'
<1> USE DEF OrderInv, QueueInv
<1>1. /\ items \in Seq(Items) /\ items' = Append(items, i) /\ disk' = disk
      /\ status[i] = "unborn" /\ \A j \in 1..(i - 1) : status[j] # "unborn"
      /\ status' = [status EXCEPT ![i] = "pending"] /\ status \in [Items -> Statuses]
  BY DEF Enqueue, TypeOK
<1>2. /\ DOMAIN items = 1..Len(items) /\ Len(items) \in Nat
      /\ DOMAIN items' = 1..(Len(items) + 1)
      /\ \A k \in 1..Len(items) : items'[k] = items[k] /\ items[k] \in Items
      /\ items'[Len(items) + 1] = i
  BY <1>1
<1>3. \A k \in 1..Len(items) : items[k] < i /\ status'[items[k]] = status[items[k]]
  <2> SUFFICES ASSUME NEW k \in 1..Len(items)
               PROVE  items[k] < i /\ status'[items[k]] = status[items[k]]
    OBVIOUS
  <2>1. items[k] \in Items /\ status[items[k]] # "unborn"
    BY <1>1, <1>2 DEF QueuedRunnable, Queued, ToSet
  <2>2. items[k] # i /\ ~(i < items[k])
    BY <1>1, <2>1 DEF BornFirst
  <2> QED
    BY <1>1, <2>1, <2>2 DEF Items
<1>4. PendingInArrivalOrder'
  BY <1>2, <1>3 DEF PendingInArrivalOrder
<1>5. BornFirst'
  BY <1>1, SizeAssumption DEF BornFirst, Items
<1>6. DiskInOrder'
  BY <1>1, DiskRecords DEF DiskInOrder, Saved
<1> QED
  BY <1>4, <1>5, <1>6

LEMMA DequeueOrder ==
  ASSUME OrderInv, NEW w \in Workers, Dequeue(w)
  PROVE  PendingInArrivalOrder' /\ BornFirst' /\ DiskInOrder'
<1> USE DEF OrderInv, QueueInv
<1>1. PICK k \in DOMAIN items :
        items' = RemoveAt(items, k) /\ MarkProcessing(items[k]) /\ disk' = disk
  BY DEF Dequeue
<1>2. /\ items \in Seq(Items) /\ k \in 1..Len(items) /\ DOMAIN items = 1..Len(items)
      /\ items[k] \in Items /\ items[k] \in Queued
      /\ status' = [status EXCEPT ![items[k]] = "processing"]
      /\ status \in [Items -> Statuses] /\ Len(items) \in Nat
  BY <1>1 DEF MarkProcessing, TypeOK, Queued, ToSet
<1>3. /\ DOMAIN items' = 1..(Len(items) - 1)
      /\ \A j \in 1..(Len(items) - 1) :
           items'[j] = IF j < k THEN items[j] ELSE items[j + 1]
  <2>1. /\ items' \in Seq(Items) /\ Len(items') = Len(items) - 1
        /\ \A j \in 1..(Len(items) - 1) :
             items'[j] = IF j < k THEN items[j] ELSE items[j + 1]
    BY <1>1, <1>2, RemoveAtFacts
  <2> QED
    BY <2>1
<1>4. \A x \in Items : status'[x] = "pending" => status[x] = "pending"
  BY <1>2
<1>5. PendingInArrivalOrder'
  <2> SUFFICES ASSUME NEW p \in DOMAIN items', NEW q \in DOMAIN items', p < q,
                      status'[items'[p]] = "pending", status'[items'[q]] = "pending"
               PROVE  items'[p] < items'[q]
    BY DEF PendingInArrivalOrder
  <2>1. PICK a, b \in DOMAIN items : a < b /\ items'[p] = items[a] /\ items'[q] = items[b]
    <3>1. CASE q < k
      BY <1>2, <1>3, <3>1
    <3>2. CASE p < k /\ ~(q < k)
      <4>1. q + 1 \in DOMAIN items /\ p \in DOMAIN items /\ p < q + 1
        BY <1>2, <1>3
      <4> QED
        BY <1>3, <3>2, <4>1
    <3>3. CASE ~(p < k)
      <4>1. q + 1 \in DOMAIN items /\ p + 1 \in DOMAIN items /\ p + 1 < q + 1
        BY <1>2, <1>3
      <4>2. ~(q < k)
        BY <1>2, <1>3, <3>3
      <4> QED
        BY <1>3, <3>3, <4>1, <4>2
    <3> QED
      BY <3>1, <3>2, <3>3
  <2>2. items[a] \in Items /\ items[b] \in Items
    BY <1>2
  <2> QED
    BY <1>4, <2>1, <2>2 DEF PendingInArrivalOrder
<1>6. \A x \in Items : status'[x] = "unborn" <=> status[x] = "unborn"
  BY <1>2 DEF QueuedRunnable
<1>7. BornFirst'
  BY <1>6 DEF BornFirst
<1>8. DiskInOrder'
  BY <1>1, <1>6, DiskRecords DEF DiskInOrder, Saved
<1> QED
  BY <1>5, <1>7, <1>8

LEMMA RequeueOrder ==
  ASSUME OrderInv, NEW w \in Workers, Requeue(w)
  PROVE  PendingInArrivalOrder' /\ BornFirst' /\ DiskInOrder'
<1> USE DEF OrderInv, QueueInv
<1>1. PICK i \in Items \ Queued : i = held[w]
  BY RequeueEffect
<1>2. /\ status[i] = "processing" /\ items \in Seq(Items) /\ disk' = disk
      /\ status \in [Items -> Statuses]
      /\ \/ items' = Append(items, i) /\ status' = [status EXCEPT ![i] = "failed"]
         \/ items' = items /\ status' = [status EXCEPT ![i] = "dlq"]
  BY <1>1, RequeueEffect DEF Requeue, HeldMarked, TypeOK
<1>3. /\ DOMAIN items = 1..Len(items) /\ Len(items) \in Nat
      /\ \A k \in DOMAIN items : items[k] \in Items /\ items[k] # i
  BY <1>1, <1>2 DEF Queued, ToSet
<1>4. PendingInArrivalOrder'
  <2>1. CASE items' = Append(items, i) /\ status' = [status EXCEPT ![i] = "failed"]
    <3>1. /\ DOMAIN items' = 1..(Len(items) + 1) /\ items'[Len(items) + 1] = i
          /\ \A k \in 1..Len(items) : items'[k] = items[k]
      BY <1>2, <2>1
    <3>2. status'[i] # "pending"
          /\ \A k \in DOMAIN items : status'[items[k]] = status[items[k]]
      BY <1>2, <1>3, <2>1
    <3>3. ASSUME NEW k \in DOMAIN items', status'[items'[k]] = "pending"
          PROVE  k \in DOMAIN items
      BY <1>3, <3>1, <3>2, <3>3
    <3> QED
      BY <1>3, <3>1, <3>2, <3>3 DEF PendingInArrivalOrder
  <2>2. CASE items' = items /\ status' = [status EXCEPT ![i] = "dlq"]
    BY <1>2, <1>3, <2>2 DEF PendingInArrivalOrder
  <2> QED
    BY <1>2, <2>1, <2>2
<1>5. \A x \in Items : status'[x] = "unborn" <=> status[x] = "unborn"
  BY <1>1, <1>2
<1>6. BornFirst'
  BY <1>5 DEF BornFirst
<1>7. DiskInOrder'
  BY <1>2, <1>5, DiskRecords DEF DiskInOrder, Saved
<1> QED
  BY <1>4, <1>6, <1>7

LEMMA CompleteOrder ==
  ASSUME OrderInv, NEW w \in Workers, Complete(w)
  PROVE  PendingInArrivalOrder' /\ BornFirst' /\ DiskInOrder'
<1> USE DEF OrderInv, QueueInv
<1>1. PICK i \in Items \ Queued : i = held[w]
  BY DEF Complete, SingleOwner, TypeOK
<1>2. /\ status[i] = "processing" /\ items' = items /\ disk' = disk
      /\ status \in [Items -> Statuses]
      /\ status' = [status EXCEPT ![i] = "completed"]
  BY <1>1 DEF Complete, HeldMarked, TypeOK
<1>3. \A k \in DOMAIN items : items[k] \in Items /\ items[k] # i
  BY <1>1 DEF Queued, ToSet, TypeOK
<1>4. PendingInArrivalOrder'
  BY <1>2, <1>3 DEF PendingInArrivalOrder
<1>5. \A x \in Items : status'[x] = "unborn" <=> status[x] = "unborn"
  BY <1>1, <1>2
<1>6. BornFirst' /\ DiskInOrder'
  BY <1>2, <1>5, DiskRecords DEF BornFirst, DiskInOrder, Saved
<1> QED
  BY <1>4, <1>6

LEMMA EndSaveOrder ==
  ASSUME OrderInv, EndSave
  PROVE  PendingInArrivalOrder' /\ BornFirst' /\ DiskInOrder'
<1> USE DEF OrderInv, QueueInv
<1>1. items' = items /\ status' = status /\ disk' \in {Snapshot, disk}
  BY DEF EndSave, itemVars
<1>2. PendingInArrivalOrder' /\ BornFirst'
  BY <1>1 DEF PendingInArrivalOrder, BornFirst
<1>3. ASSUME disk' = Snapshot PROVE DiskInOrder'
  <2>1. /\ DOMAIN disk' = DOMAIN items
        /\ \A k \in DOMAIN items :
             /\ disk'[k].id = items[k] /\ disk'[k].status = status[items[k]]
             /\ items[k] \in Queued
    BY <1>3 DEF Snapshot, Queued, ToSet
  <2>2. DOMAIN items \subseteq Nat
    BY DEF TypeOK
  <2> QED
    BY <1>1, <2>1, <2>2 DEF DiskInOrder, PendingInArrivalOrder, QueuedRunnable
<1>4. ASSUME disk' = disk PROVE DiskInOrder'
  BY <1>1, <1>4 DEF DiskInOrder
<1> QED
  BY <1>1, <1>2, <1>3, <1>4

LEMMA StartOrder ==
  ASSUME OrderInv, Start
  PROVE  PendingInArrivalOrder' /\ BornFirst' /\ DiskInOrder'
<1> USE DEF OrderInv, QueueInv
<1>1. disk' = disk
  BY DEF Start
<1>2. CASE Load
  <2>1. items' = [k \in DOMAIN disk |-> disk[k].id]
    BY <1>2 DEF Load
  <2>2. /\ Queued' = {disk[k].id : k \in DOMAIN disk}
        /\ \A k \in DOMAIN disk : status'[disk[k].id] = disk[k].status
        /\ \A i \in Items \ Queued' : status'[i] = status[i]
    BY <1>2, LoadEffect
  <2>3. PendingInArrivalOrder'
    BY <2>1, <2>2 DEF PendingInArrivalOrder, DiskInOrder
  <2>4. \A x \in Items : status'[x] = "unborn" <=> status[x] = "unborn"
    BY <2>2 DEF QueuedRunnable, DiskInOrder
  <2>5. BornFirst' /\ DiskInOrder'
    BY <1>1, <2>4, DiskRecords DEF BornFirst, DiskInOrder, Saved
  <2> QED
    BY <2>3, <2>5
<1>3. CASE UNCHANGED <<items, itemMap, itemVars>>
  BY <1>1, <1>3 DEF itemVars, PendingInArrivalOrder, BornFirst, DiskInOrder
<1> QED
  BY <1>2, <1>3 DEF Start

\* Steps that leave the statuses alone and the list alone or empty.
LEMMA QuietOrder ==
  ASSUME OrderInv, items' = items \/ items' = <<>>, status' = status,
         DOMAIN disk' = DOMAIN disk,
         \A k \in DOMAIN disk : disk'[k].id = disk[k].id /\ disk'[k].status = disk[k].status
  PROVE  PendingInArrivalOrder' /\ BornFirst' /\ DiskInOrder'
<1>1. PendingInArrivalOrder'
  <2>1. CASE items' = items
    BY <2>1 DEF OrderInv, PendingInArrivalOrder
  <2>2. CASE items' = <<>>
    BY <2>2 DEF PendingInArrivalOrder
  <2> QED
    BY <2>1, <2>2
<1> QED
  BY <1>1 DEF OrderInv, BornFirst, DiskInOrder

LEMMA NextOrder == OrderInv /\ [Next]_vars => OrderInv'
<1> SUFFICES ASSUME OrderInv, [Next]_vars
             PROVE  PendingInArrivalOrder' /\ BornFirst' /\ DiskInOrder'
  BY NextInv DEF OrderInv
<1>1. ASSUME NEW i \in Items, Enqueue(i)
      PROVE  PendingInArrivalOrder' /\ BornFirst' /\ DiskInOrder'
  BY <1>1, EnqueueOrder
<1>2. ASSUME NEW w \in Workers, Dequeue(w) \/ Requeue(w) \/ Complete(w)
      PROVE  PendingInArrivalOrder' /\ BornFirst' /\ DiskInOrder'
  BY <1>2, DequeueOrder, RequeueOrder, CompleteOrder
<1>3. ASSUME BeginShutdown \/ BeginSave \/ Exit \/ Crash
      PROVE  PendingInArrivalOrder' /\ BornFirst' /\ DiskInOrder'
  BY <1>3, QuietOrder DEF BeginShutdown, BeginSave, Exit, Crash, Forget, itemVars
<1>4. ASSUME EndSave
      PROVE  PendingInArrivalOrder' /\ BornFirst' /\ DiskInOrder'
  BY <1>4, EndSaveOrder
<1>5. ASSUME Start
      PROVE  PendingInArrivalOrder' /\ BornFirst' /\ DiskInOrder'
  BY <1>5, StartOrder
<1>6. ASSUME Tick
      PROVE  PendingInArrivalOrder' /\ BornFirst' /\ DiskInOrder'
  BY <1>6, QuietOrder DEF Tick, Aged
<1>7. CASE UNCHANGED vars
  BY <1>7, QuietOrder DEF vars
<1> QED
  BY <1>1, <1>2, <1>3, <1>4, <1>5, <1>6, <1>7 DEF Next

LEMMA AlwaysOrder == Spec => []OrderInv
BY InitOrder, NextOrder, PTL DEF Spec

\* In every reachable state the untried items are listed in arrival order.
THEOREM ArrivalOrderKept == Spec => []PendingInArrivalOrder
<1>1. OrderInv => PendingInArrivalOrder
  BY DEF OrderInv
<1> QED
  BY <1>1, AlwaysOrder, PTL

\* An untried item that is ahead in the list is ready, so Dequeue takes no
\* other untried item before it.
LEMMA NoOvertaking ==
  ASSUME OrderInv, [Next]_vars, NEW i \in Items, NEW j \in Items, j < i,
         j \in Queued, status[j] = "pending", i \notin Held, i \in Held'
  PROVE  status[i] # "pending"
<1> USE DEF OrderInv, QueueInv
<1>1. PICK w \in Workers : held'[w] = i /\ held[w] # i /\ i # NoItem
  BY DEF Held
<1>2. held'[w] # NoItem /\ held'[w] # held[w] /\ held \in [Workers -> Items \union {NoItem}]
  BY <1>1 DEF TypeOK
<1>3. PICK v \in Workers : Dequeue(v)
  <2>1. \A v \in Workers : ~Requeue(v) /\ ~Complete(v)
    BY <1>2 DEF Requeue, Complete
  <2>2. ~Exit /\ ~Crash
    BY <1>2 DEF Exit, Crash, Forget
  <2> QED
    BY <1>2, <2>1, <2>2
       DEF Next, vars, itemVars, Enqueue, BeginShutdown, BeginSave, EndSave, Start, Tick
<1>4. PICK k \in DOMAIN items : FirstReady(k) /\ held' = [held EXCEPT ![v] = items[k]]
  BY <1>3 DEF Dequeue
<1>5. items[k] = i
  BY <1>2, <1>1, <1>4
<1>6. PICK p \in DOMAIN items : items[p] = j
  BY DEF Queued, ToSet
<1>7. k \in 1..Len(items) /\ p \in 1..Len(items) /\ Len(items) \in Nat
  BY DEF TypeOK
<1>8. Ready(j)
  BY DEF Ready
<1>9. ~(p < k)
  BY <1>4, <1>6, <1>7, <1>8 DEF FirstReady
<1>10. k < p
  BY <1>5, <1>6, <1>7, <1>9, SizeAssumption DEF Items
<1> QED
  BY <1>5, <1>6, <1>7, <1>10, SizeAssumption DEF PendingInArrivalOrder, Items

\* First attempts are made in arrival order, across any number of restarts.
THEOREM FirstAttemptsOrdered == Spec => FirstAttemptsInOrder
<1>1. OrderInv /\ [Next]_vars =>
        [\A i, j \in Items :
           /\ j < i /\ j \in Queued /\ status[j] = "pending"
           /\ i \notin Held /\ i \in Held'
           => status[i] # "pending"]_vars
  BY NoOvertaking
<1> QED
  BY <1>1, AlwaysOrder, PTL DEF Spec, FirstAttemptsInOrder

----------------------------------------------------------------------------
(* For the modules that extend the queue *)

\* An item that was created stays created, whatever a restart brings back.
LEMMA BornStays ==
  ASSUME OrderInv, [Next]_vars, NEW i \in Items, status[i] # "unborn"
  PROVE  status'[i] # "unborn"
<1> USE DEF OrderInv, QueueInv, TypeOK
<1>1. CASE status' = status
  BY <1>1
<1>2. ASSUME NEW j \in Items, Enqueue(j) PROVE status'[i] # "unborn"
  BY <1>2 DEF Enqueue
<1>3. ASSUME NEW w \in Workers, Dequeue(w) PROVE status'[i] # "unborn"
  <2>1. PICK k \in DOMAIN items : MarkProcessing(items[k])
    BY <1>3 DEF Dequeue
  <2> QED BY <2>1 DEF MarkProcessing
<1>4. ASSUME NEW w \in Workers, Requeue(w) \/ Complete(w) PROVE status'[i] # "unborn"
  BY <1>4 DEF Requeue, Complete
<1>5. CASE Start
  <2>1. CASE Load
    <3>1. ASSUME OnDisk(i) PROVE Record(i).status \in {"pending", "failed"}
      BY <3>1 DEF OnDisk, Record, QueuedRunnable
    <3> QED BY <2>1, <3>1 DEF Load
  <2>2. CASE UNCHANGED <<items, itemMap, itemVars>>
    BY <2>2 DEF itemVars
  <2> QED BY <1>5, <2>1, <2>2 DEF Start
<1>6. CASE BeginShutdown \/ BeginSave \/ EndSave \/ Exit \/ Crash \/ Tick \/ UNCHANGED vars
  BY <1>6, <1>1 DEF BeginShutdown, BeginSave, EndSave, Exit, Crash, Tick, vars, itemVars
<1> QED
  BY <1>2, <1>3, <1>4, <1>5, <1>6 DEF Next

\* Nothing but Enqueue creates an item.
LEMMA OnlyEnqueueCreates ==
  ASSUME OrderInv, [Next]_vars, NEW i \in Items, status[i] = "unborn", status'[i] # "unborn"
  PROVE  Enqueue(i)
<1> USE DEF OrderInv, QueueInv, TypeOK
<1>1. status' # status
  OBVIOUS
<1>2. ASSUME NEW j \in Items, Enqueue(j) PROVE i = j
  BY <1>2 DEF Enqueue
<1>3. ASSUME NEW w \in Workers, Dequeue(w) PROVE FALSE
  <2>1. PICK k \in DOMAIN items : MarkProcessing(items[k])
    BY <1>3 DEF Dequeue
  <2>2. items[k] # i
    BY DEF QueuedRunnable, Queued, ToSet
  <2> QED BY <2>1, <2>2 DEF MarkProcessing
<1>4. ASSUME NEW w \in Workers, Requeue(w) \/ Complete(w) PROVE FALSE
  <2>1. held[w] # i
    BY <1>4 DEF Requeue, Complete, HeldMarked
  <2> QED BY <1>4, <2>1 DEF Requeue, Complete
<1>5. ASSUME Start PROVE FALSE
  <2>1. Load
    BY <1>1, <1>5 DEF Start, itemVars
  <2>2. ~OnDisk(i)
    BY DEF OnDisk, DiskInOrder
  <2> QED BY <2>1, <2>2 DEF Load
<1>6. ~(BeginShutdown \/ BeginSave \/ EndSave \/ Exit \/ Crash \/ Tick \/ UNCHANGED vars)
  BY <1>1 DEF BeginShutdown, BeginSave, EndSave, Exit, Crash, Tick, vars, itemVars
<1> QED
  BY <1>2, <1>3, <1>4, <1>5, <1>6 DEF Next

\* Before the first shutdown or crash the service is down or running.
LEMMA NoStopYet ==
  ASSUME TypeOK, [Next]_vars, stops' = 0
  PROVE  stops = 0 /\ (life \in {"down", "up"} => life' \in {"down", "up"})
<1>1. stops \in Nat
  BY SizeAssumption DEF TypeOK
<1>2. CASE stops' = stops /\ life' = life
  BY <1>2
<1>3. ASSUME NEW w \in Workers, Dequeue(w) \/ Requeue(w) \/ Complete(w)
      PROVE  stops' = stops /\ life' = life
  BY <1>3 DEF Dequeue, Requeue, Complete
<1>4. ASSUME NEW i \in Items, Enqueue(i) PROVE stops' = stops /\ life' = life
  BY <1>4 DEF Enqueue
<1>5. CASE BeginShutdown \/ Crash
  BY <1>1, <1>5 DEF BeginShutdown, Crash
<1>6. CASE BeginSave \/ EndSave \/ Exit
  BY <1>6 DEF BeginSave, EndSave, Exit
<1>7. CASE Start
  BY <1>7 DEF Start
<1>8. CASE Tick \/ UNCHANGED vars
  BY <1>8 DEF Tick, vars
<1> QED
  BY <1>2, <1>3, <1>4, <1>5, <1>6, <1>7, <1>8 DEF Next
=============================================================================
