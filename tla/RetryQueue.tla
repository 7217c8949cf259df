----------------------------- MODULE RetryQueue -----------------------------
(* The retry queue of file-encryptor (internal/queue, internal/model): a    *)
(* FIFO list with an index by item ID, the retry life cycle of its items,   *)
(* and the state file it is saved to at shutdown and restored from at       *)
(* start.  Every operation holds q.mu from its first line to its return,    *)
(* so it is one step; Save, which only holds the read lock, is split at the *)
(* rename that makes the new state file visible.                            *)
(*                                                                          *)
(* An item is a number, given out in the order of Enqueue (the code draws a *)
(* fresh UUID).  A deadline (Item.NextRetry) is kept as the time left until *)
(* it passes, wait, which Tick decreases: in memory and in the state file,  *)
(* whether or not the service is running.                                   *)
EXTENDS Integers, Sequences, SequencesExt

CONSTANTS
  NumItems,    \* bound: the number of items ever created
  Workers,     \* the goroutines that dequeue (the service has one)
  NoItem,      \* what a worker holds when it holds no item
  MaxRetries,  \* queue.max_retries, -1 for "retry for ever"
  Delay,       \* calculateBackoff, as a function of the attempt count
  AttemptCap,  \* bound: AttemptCount is no longer counted above this value
  MaxStops     \* bound: the number of shutdowns and crashes

Items == 1..NumItems

ASSUME SizeAssumption == NumItems \in Nat /\ MaxStops \in Nat
ASSUME NoItemAssumption == NoItem \notin Items
ASSUME RetryAssumption == MaxRetries \in Int /\ AttemptCap \in Nat \ {0}
                          /\ MaxRetries < AttemptCap
ASSUME DelayAssumption == Delay \in [0..AttemptCap -> Nat]

VARIABLES
  items,     \* q.items: the list, front first
  itemMap,   \* the keys of q.itemMap
  status,    \* Item.Status; "unborn" before NewItem
  attempts,  \* Item.AttemptCount
  wait,      \* time left until Item.NextRetry
  held,      \* the item each worker has dequeued and not finished
  disk,      \* the state file: a list of records
  life,      \* where the service is between start and exit
  stops      \* shutdowns and crashes so far

vars == <<items, itemMap, status, attempts, wait, held, disk, life, stops>>
itemVars == <<status, attempts, wait>>

Statuses == {"unborn", "pending", "processing", "completed", "failed", "dlq"}

\* "up": running; "stopping": the context is cancelled, goroutines may still
\* run; "writing": Save holds the read lock; "saved": Save has returned;
\* "hung": Save waits for a lock it holds itself, for ever (QueueLock).
Lives == {"down", "up", "stopping", "writing", "saved", "hung"}

Saved == [id : Items, status : Statuses, attempts : 0..AttemptCap, wait : Nat]

Queued == ToSet(items)
Held == {held[w] : w \in Workers} \ {NoItem}
Running == life # "down"

\* Save keeps the read lock while it writes, so writers wait for it.
Writable == life \in {"up", "stopping", "saved"}

----------------------------------------------------------------------------
(* Item life cycle (internal/model/item.go) *)

\* Mutants of ShouldRetry: off by one, no case for -1, no limit.
RetryTooFew(i) == MaxRetries < 0 \/ attempts[i] + 1 < MaxRetries
RetryBelowMax(i) == attempts[i] < MaxRetries
RetryForever(i) == i \in Items

ShouldRetry(i) == MaxRetries < 0 \/ attempts[i] < MaxRetries

\* AttemptCount++ , saturating at the bound.
Counted(n) == IF n < AttemptCap THEN n + 1 ELSE n

MarkProcessing(i) ==
  /\ status' = [status EXCEPT ![i] = "processing"]
  /\ attempts' = [attempts EXCEPT ![i] = Counted(@)]
  /\ wait' = wait

----------------------------------------------------------------------------
(* Queue operations (internal/queue/queue.go) *)

Init ==
  /\ items = <<>> /\ itemMap = {}
  /\ status = [i \in Items |-> "unborn"]
  /\ attempts = [i \in Items |-> 0]
  /\ wait = [i \in Items |-> 0]
  /\ held = [w \in Workers |-> NoItem]
  /\ disk = <<>>
  /\ life = "down" /\ stops = 0

\* Mutants of PushBack: no index entry, the wrong end.
PushBackOnly(i) == items' = Append(items, i) /\ itemMap' = itemMap
PushFront(i) == items' = <<i>> \o items /\ itemMap' = itemMap \union {i}

PushBack(i) == items' = Append(items, i) /\ itemMap' = itemMap \union {i}

\* Mutant of RemoveElement: the item stays in the list.
Unindex(k) == items' = items /\ itemMap' = itemMap \ {items[k]}

RemoveElement(k) == items' = RemoveAt(items, k) /\ itemMap' = itemMap \ {items[k]}

\* The watcher creates an item and enqueues it.
Enqueue(i) ==
  /\ Writable
  /\ status[i] = "unborn" /\ \A j \in 1..(i - 1) : status[j] # "unborn"
  /\ i \notin itemMap
  /\ PushBack(i)
  /\ status' = [status EXCEPT ![i] = "pending"]
  /\ UNCHANGED <<attempts, wait, held, disk, life, stops>>

\* The tests Dequeue makes before it takes an item off the list.
Ready(i) == ~(status[i] = "failed" /\ wait[i] > 0) /\ status[i] # "dlq"

\* Mutant of FirstReady: the list is walked from the back.
LastReady(k) ==
  /\ k \in DOMAIN items /\ Ready(items[k])
  /\ \A j \in (k + 1)..Len(items) : ~Ready(items[j])

FirstReady(k) ==
  /\ k \in DOMAIN items /\ Ready(items[k])
  /\ \A j \in 1..(k - 1) : ~Ready(items[j])

\* A worker takes the first ready item; processItem begins by marking it.
Dequeue(w) ==
  /\ Writable /\ held[w] = NoItem
  /\ \E k \in DOMAIN items :
       /\ FirstReady(k)
       /\ RemoveElement(k)
       /\ held' = [held EXCEPT ![w] = items[k]]
       /\ MarkProcessing(items[k])
  /\ UNCHANGED <<disk, life, stops>>

\* Mutant of Requeue: a dead item goes back to the list too.
RequeueAll(w) ==
  /\ Writable /\ held[w] # NoItem /\ PushBack(held[w])
  /\ status' = [status EXCEPT ![held[w]] = IF ShouldRetry(held[w]) THEN "failed" ELSE "dlq"]
  /\ held' = [held EXCEPT ![w] = NoItem]
  /\ UNCHANGED <<attempts, wait, disk, life, stops>>

\* MarkFailed, then either back to the end of the list or MarkDLQ.
Requeue(w) ==
  LET i == held[w] IN
  /\ Writable /\ i # NoItem
  /\ wait' = [wait EXCEPT ![i] = Delay[attempts[i]]]
  /\ IF ShouldRetry(i)
       THEN /\ status' = [status EXCEPT ![i] = "failed"]
            /\ PushBack(i)
       ELSE /\ status' = [status EXCEPT ![i] = "dlq"]
            /\ UNCHANGED <<items, itemMap>>
  /\ held' = [held EXCEPT ![w] = NoItem]
  /\ UNCHANGED <<attempts, disk, life, stops>>

\* The worker succeeded: MarkCompleted, which takes no lock of the queue.
Complete(w) ==
  /\ Running /\ held[w] # NoItem
  /\ status' = [status EXCEPT ![held[w]] = "completed"]
  /\ held' = [held EXCEPT ![w] = NoItem]
  /\ UNCHANGED <<items, itemMap, attempts, wait, disk, life, stops>>

----------------------------------------------------------------------------
(* Saving, exiting and restoring (queue.go, persistence.go, service.go) *)

Snapshot ==
  [k \in DOMAIN items |-> [id |-> items[k], status |-> status[items[k]],
                           attempts |-> attempts[items[k]],
                           wait |-> wait[items[k]]]]

\* Shutdown cancels the context; it does not wait for the goroutines.
BeginShutdown ==
  /\ life = "up" /\ stops < MaxStops
  /\ life' = "stopping" /\ stops' = stops + 1
  /\ UNCHANGED <<items, itemMap, itemVars, held, disk>>

\* Save takes the read lock, and List takes it again: if a writer asked for the
\* lock in between, none of them ever gets it; else Save writes the temporary file.
BeginSave ==
  /\ life = "stopping"
  /\ life' \in {"writing", "hung"}
  /\ UNCHANGED <<items, itemMap, itemVars, held, disk, stops>>

\* Mutant of EndSave: the state file is written in place.
EndSaveInPlace ==
  /\ life = "writing" /\ life' = "saved" /\ disk' \in {Snapshot, <<>>}
  /\ UNCHANGED <<items, itemMap, itemVars, held, stops>>

\* The rename replaces the state file, or a write fails and it stays.
EndSave ==
  /\ life = "writing"
  /\ life' = "saved"
  /\ disk' \in {Snapshot, disk}
  /\ UNCHANGED <<items, itemMap, itemVars, held, stops>>

\* What is left of the memory of a process that ended.
Forget ==
  /\ items' = <<>> /\ itemMap' = {}
  /\ held' = [w \in Workers |-> NoItem]
  /\ life' = "down"

\* Shutdown has returned, or an operator kills the process that hangs in it.
Exit == life \in {"saved", "hung"} /\ Forget /\ UNCHANGED <<itemVars, disk, stops>>

Crash ==
  /\ Running /\ stops < MaxStops
  /\ Forget /\ stops' = stops + 1
  /\ UNCHANGED <<itemVars, disk>>

\* The record of item i in the state file, and whether there is one.
OnDisk(i) == \E k \in DOMAIN disk : disk[k].id = i
Record(i) == disk[CHOOSE k \in DOMAIN disk : disk[k].id = i]

\* Mutant of Load: the slice is made with the length of the file, and appended to.
LoadPadded ==
  /\ items' = [k \in DOMAIN disk |-> NoItem] \o [k \in DOMAIN disk |-> disk[k].id]
  /\ itemMap' = {disk[k].id : k \in DOMAIN disk}
  /\ UNCHANGED itemVars

\* NewQueue and Load: the list and the items are those of the state file.
Load ==
  /\ items' = [k \in DOMAIN disk |-> disk[k].id]
  /\ itemMap' = {disk[k].id : k \in DOMAIN disk}
  /\ status' = [i \in Items |-> IF OnDisk(i) THEN Record(i).status ELSE status[i]]
  /\ attempts' = [i \in Items |-> IF OnDisk(i) THEN Record(i).attempts ELSE attempts[i]]
  /\ wait' = [i \in Items |-> IF OnDisk(i) THEN Record(i).wait ELSE wait[i]]

\* The service starts: setupQueue only logs an error of Load.
Start ==
  /\ life = "down"
  /\ life' = "up"
  /\ \/ Load
     \/ UNCHANGED <<items, itemMap, itemVars>>
  /\ UNCHANGED <<held, disk, stops>>

----------------------------------------------------------------------------
(* Time *)

Sooner(n) == IF n > 0 THEN n - 1 ELSE 0
Aged(r) == [id |-> r.id, status |-> r.status, attempts |-> r.attempts,
            wait |-> Sooner(r.wait)]

Tick ==
  /\ \/ \E i \in Items : wait[i] > 0
     \/ \E k \in DOMAIN disk : disk[k].wait > 0
  /\ wait' = [i \in Items |-> Sooner(wait[i])]
  /\ disk' = [k \in DOMAIN disk |-> Aged(disk[k])]
  /\ UNCHANGED <<items, itemMap, status, attempts, held, life, stops>>

----------------------------------------------------------------------------

Next ==
  \/ \E i \in Items : Enqueue(i)
  \/ \E w \in Workers : Dequeue(w) \/ Requeue(w) \/ Complete(w)
  \/ BeginShutdown \/ BeginSave \/ EndSave \/ Exit \/ Crash \/ Start
  \/ Tick

\* Clocks advance; the processor's ticker keeps it dequeueing and every
\* attempt returns; Shutdown runs to its end or is killed when it hangs; the
\* service is started again.
Fairness ==
  /\ WF_vars(Tick)
  /\ \A w \in Workers : WF_vars(Dequeue(w)) /\ WF_vars(Requeue(w) \/ Complete(w))
  /\ WF_vars(BeginSave) /\ WF_vars(EndSave) /\ WF_vars(Exit) /\ WF_vars(Start)

Spec == Init /\ [][Next]_vars

FairSpec == Spec /\ Fairness

----------------------------------------------------------------------------
(* Properties *)

TypeOK ==
  /\ items \in Seq(Items) /\ itemMap \in SUBSET Items
  /\ status \in [Items -> Statuses]
  /\ attempts \in [Items -> 0..AttemptCap]
  /\ wait \in [Items -> Nat]
  /\ held \in [Workers -> Items \union {NoItem}]
  /\ disk \in Seq(Saved)
  /\ life \in Lives /\ stops \in 0..MaxStops

\* The list and the index hold the same items and no item is listed twice,
\* although Enqueue, Dequeue, Requeue and Load each update them separately.
IndexMatchesList == itemMap = Queued /\ IsInjective(items)

\* An item is owned once: a worker that holds an item is the only one to hold
\* it, and it is not in the queue at the same time, so no file is processed
\* twice at once because of the queue.
SingleOwner ==
  \A w \in Workers : held[w] # NoItem =>
    /\ held[w] \notin Queued
    /\ \A v \in Workers \ {w} : held[v] # held[w]

\* Only pending and failed items are in the list or in the state file, so the
\* test for StatusDLQ in Dequeue never skips an item for ever.
QueuedRunnable ==
  /\ \A i \in Queued : status[i] \in {"pending", "failed"}
  /\ \A k \in DOMAIN disk : disk[k].status \in {"pending", "failed"}

\* An item is given up exactly at its limit: a dead-lettered one has used all
\* its attempts, a queued one has attempts left (max_retries 0 and 1 both mean
\* one attempt), and with max_retries < 0 nothing is given up.
GivenUpAtLimit ==
  /\ \A i \in Items : status[i] = "dlq" => MaxRetries >= 0 /\ attempts[i] >= MaxRetries
  /\ \A i \in Queued : attempts[i] = 0 \/ ShouldRetry(i)

\* Items that have not been tried are listed in the order they arrived, even
\* after restarts that mix restored and new items.
PendingInArrivalOrder ==
  \A j, k \in DOMAIN items :
    j < k /\ status[items[j]] = "pending" /\ status[items[k]] = "pending"
      => items[j] < items[k]

\* No first attempt overtakes an older item that still waits for its own.
FirstAttemptsInOrder ==
  [][\A i, j \in Items :
       /\ j < i /\ j \in Queued /\ status[j] = "pending"
       /\ i \notin Held /\ i \in Held'
       => status[i] # "pending"]_vars

\* A queued item is not starved, whatever the other items do: as long as the
\* service is up it is dequeued, or the process ends.
QueuedIsTaken == \A i \in Items : (i \in Queued) ~> (i \notin Queued)

\* With a retry limit the queue drains: from some time on no item is queued or
\* held, however often attempts fail and whatever the restarts bring back.
QueueDrains == \A i \in Items : <>[](i \notin Queued \union Held)

----------------------------------------------------------------------------
(* The queue implements the ledger *)

\* An item that is neither queued nor held is closed, or it was forgotten.
ClosedPhase(st) ==
  IF st = "unborn" THEN "new"
  ELSE IF st = "completed" THEN "done"
  ELSE IF st = "dlq" THEN "dead" ELSE "forgotten"

Phase(i) == IF i \in Queued THEN "waiting"
            ELSE IF i \in Held THEN "working" ELSE ClosedPhase(status[i])

L == INSTANCE WorkLedger WITH
       Work  <- Items,
       phase <- [i \in Items |-> Phase(i)],
       saved <- {disk[k].id : k \in DOMAIN disk},
       open  <- Running

\* Every step of the queue is a step of the ledger or leaves it alone: work is
\* given to one worker at a time, only held work is closed or comes back, and
\* a start restores exactly what the last save that succeeded listed.
ImplementsLedger == L!Ledger
=============================================================================
