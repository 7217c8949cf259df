------------------------ MODULE RetryQueueRefinement ------------------------
(* RetryQueue implements WorkLedger, for every value of the constants.      *)
EXTENDS RetryQueueProofs

USE DEF PushBack, RemoveElement

----------------------------------------------------------------------------
(* Where an item is, read from the state of the queue *)

\* In a state of the invariant the phase of an item is decided by the list,
\* by the holders, and by its status once it is in neither.
LEMMA PhaseFacts ==
  ASSUME QueueInv, NEW i \in Items
  PROVE  /\ i \in Queued => Phase(i) = "waiting"
         /\ i \in Held => Phase(i) = "working" /\ i \notin Queued
         /\ status[i] = "unborn" => Phase(i) = "new"
         /\ i \notin Queued /\ i \notin Held =>
              /\ status[i] = "unborn" => Phase(i) = "new"
              /\ status[i] = "completed" => Phase(i) = "done"
              /\ status[i] = "dlq" => Phase(i) = "dead"
              /\ status[i] \notin {"unborn", "completed", "dlq"} => Phase(i) = "forgotten"
<1>1. i \in Held => i \notin Queued
  BY DEF QueueInv, SingleOwner, Held
<1>2. status[i] = "unborn" => i \notin Queued /\ i \notin Held
  BY DEF QueueInv, QueuedRunnable, HeldMarked, Held
<1> QED
  BY <1>1, <1>2 DEF Phase, ClosedPhase

\* The phase depends on nothing else.
LEMMA PhaseFrame ==
  ASSUME NEW i \in Items, i \in Queued <=> i \in Queued',
         i \in Held <=> i \in Held', status'[i] = status[i]
  PROVE  Phase(i)' = Phase(i)
BY DEF Phase, ClosedPhase

\* A step that moves one item and leaves the others alone moves it in the ledger.
LEMMA PhaseMove ==
  ASSUME NEW i \in Items, NEW from, NEW to, Running, Running', disk' = disk,
         Phase(i) = from, Phase(i)' = to,
         \A j \in Items \ {i} : Phase(j)' = Phase(j)
  PROVE  L!Move(i, from, to)
BY DEF L!Move

LEMMA InitLedger == Init => L!LedgerInit
<1> SUFFICES ASSUME Init PROVE L!LedgerInit
  OBVIOUS
<1>1. Queued = {} /\ Held = {} /\ disk = <<>> /\ DOMAIN disk = {} /\ ~Running
  BY DEF Init, Queued, Held, ToSet, Running
<1>2. \A i \in Items : Phase(i) = "new"
  BY <1>1 DEF Init, Phase, ClosedPhase
<1> QED
  BY <1>1, <1>2 DEF L!LedgerInit

----------------------------------------------------------------------------
(* Every step of the queue is a step of the ledger *)

LEMMA EnqueueLedger ==
  ASSUME QueueInv, QueueInv', NEW i \in Items, Enqueue(i)
  PROVE  L!Accept(i)
<1>1. /\ status[i] = "unborn" /\ items \in Seq(Items)
      /\ status' = [status EXCEPT ![i] = "pending"] /\ status \in [Items -> Statuses]
      /\ Running /\ Running' /\ disk' = disk /\ Held' = Held
  BY DEF Enqueue, QueueInv, TypeOK, Writable, Running, Held
<1>2. Queued' = Queued \union {i}
  BY <1>1, AppendRange DEF Enqueue, Queued
<1>3. Phase(i) = "new" /\ Phase(i)' = "waiting"
  BY <1>1, <1>2, PhaseFacts DEF Phase
<1>4. \A j \in Items \ {i} : Phase(j)' = Phase(j)
  BY <1>1, <1>2, PhaseFrame
<1> QED
  BY <1>1, <1>3, <1>4, PhaseMove DEF L!Accept

LEMMA DequeueLedger ==
  ASSUME QueueInv, QueueInv', NEW w \in Workers, Dequeue(w)
  PROVE  \E i \in Items : L!Take(i)
<1>1. PICK i \in Queued :
        /\ Queued' = Queued \ {i}
        /\ held[w] = NoItem /\ held' = [held EXCEPT ![w] = i]
        /\ MarkProcessing(i)
        /\ UNCHANGED <<disk, life, stops>> /\ life # "down"
  BY DequeueEffect DEF QueueInv
<1>2. /\ i \in Items /\ i # NoItem /\ Running /\ Running'
      /\ held \in [Workers -> Items \union {NoItem}] /\ status \in [Items -> Statuses]
  BY <1>1, ListIndexing, NoItemAssumption DEF QueueInv, TypeOK, Running
<1>3. Held' = Held \union {i}
  <2>1. \A j : j \in Held' => j \in Held \union {i}
    BY <1>1, <1>2 DEF Held
  <2>2. \A j : j \in Held \union {i} => j \in Held'
    BY <1>1, <1>2 DEF Held
  <2> QED
    BY <2>1, <2>2
<1>4. Phase(i) = "waiting" /\ Phase(i)' = "working"
  BY <1>1, <1>3 DEF Phase
<1>5. \A j \in Items \ {i} : status'[j] = status[j]
  BY <1>1, <1>2 DEF MarkProcessing
<1>6. \A j \in Items \ {i} : Phase(j)' = Phase(j)
  BY <1>1, <1>3, <1>5, PhaseFrame
<1>7. L!Take(i)
  BY <1>1, <1>2, <1>4, <1>6, PhaseMove DEF L!Take
<1> QED
  BY <1>2, <1>7

\* When a worker lets go of its item no other worker holds it.
LEMMA ReleaseHeld ==
  ASSUME QueueInv, NEW w \in Workers, held[w] # NoItem,
         held' = [held EXCEPT ![w] = NoItem]
  PROVE  held[w] \in Held /\ Held' = Held \ {held[w]}
<1>1. held \in [Workers -> Items \union {NoItem}]
      /\ \A v \in Workers \ {w} : held[v] # held[w]
  BY DEF QueueInv, TypeOK, SingleOwner
<1>2. \A j : j \in Held' => j \in Held \ {held[w]}
  BY <1>1 DEF Held
<1>3. \A j : j \in Held \ {held[w]} => j \in Held'
  BY <1>1 DEF Held
<1> QED
  BY <1>2, <1>3 DEF Held

LEMMA RequeueLedger ==
  ASSUME QueueInv, QueueInv', NEW w \in Workers, Requeue(w)
  PROVE  \E i \in Items : L!Return(i) \/ L!Close(i)
<1>0. PICK i \in Items : i = held[w]
  BY RequeueEffect DEF QueueInv
<1>1. /\ i \in Items \ Queued /\ i # NoItem
      /\ held' = [held EXCEPT ![w] = NoItem]
      /\ UNCHANGED <<disk, life>> /\ life # "down"
      /\ \/ /\ status' = [status EXCEPT ![i] = "failed"]
            /\ Queued' = Queued \union {i}
         \/ /\ status' = [status EXCEPT ![i] = "dlq"]
            /\ Queued' = Queued
  BY <1>0, RequeueEffect DEF QueueInv
<1>2. i \in Held /\ Held' = Held \ {i}
  BY <1>0, <1>1, ReleaseHeld
<1>3. Running /\ Running' /\ status \in [Items -> Statuses]
  BY <1>1 DEF Running, QueueInv, TypeOK
<1>4. Phase(i) = "working"
  BY <1>1, <1>2 DEF Phase
<1>5. \A j \in Items \ {i} : Phase(j)' = Phase(j)
  <2>1. \A j \in Items \ {i} : status'[j] = status[j]
    BY <1>1, <1>3
  <2> QED
    BY <1>1, <1>2, <2>1, PhaseFrame
<1>6. CASE status' = [status EXCEPT ![i] = "failed"] /\ Queued' = Queued \union {i}
  <2>1. Phase(i)' = "waiting"
    BY <1>6 DEF Phase
  <2>2. L!Return(i)
    BY <1>1, <1>3, <1>4, <1>5, <2>1, PhaseMove DEF L!Return
  <2> QED
    BY <1>1, <2>2
<1>7. CASE status' = [status EXCEPT ![i] = "dlq"] /\ Queued' = Queued
  <2>1. Phase(i)' = "dead"
    BY <1>1, <1>2, <1>3, <1>7 DEF Phase, ClosedPhase
  <2>2. L!Close(i)
    BY <1>1, <1>3, <1>4, <1>5, <2>1, PhaseMove DEF L!Close
  <2> QED
    BY <1>1, <2>2
<1> QED
  BY <1>1, <1>6, <1>7

LEMMA CompleteLedger ==
  ASSUME QueueInv, QueueInv', NEW w \in Workers, Complete(w)
  PROVE  \E i \in Items : L!Close(i)
<1>0. PICK i \in Items : i = held[w]
  BY DEF Complete, QueueInv, TypeOK
<1>1. /\ i \in Items \ Queued /\ i # NoItem
      /\ held' = [held EXCEPT ![w] = NoItem]
      /\ disk' = disk /\ Running /\ Running'
      /\ status' = [status EXCEPT ![i] = "completed"] /\ status \in [Items -> Statuses]
      /\ Queued' = Queued
  BY <1>0 DEF Complete, QueueInv, TypeOK, SingleOwner, Running, Queued
<1>2. i \in Held /\ Held' = Held \ {i}
  BY <1>0, <1>1, ReleaseHeld
<1>3. Phase(i) = "working" /\ Phase(i)' = "done"
  BY <1>1, <1>2 DEF Phase, ClosedPhase
<1>4. \A j \in Items \ {i} : status'[j] = status[j]
  BY <1>1
<1>5. \A j \in Items \ {i} : Phase(j)' = Phase(j)
  BY <1>1, <1>2, <1>4, PhaseFrame
<1>6. L!Close(i)
  BY <1>1, <1>3, <1>5, PhaseMove DEF L!Close
<1> QED
  BY <1>1, <1>6

\* A step that changes no phase, no saved item and not whether it runs.
LEMMA QuietLedger ==
  ASSUME \A i \in Items : Phase(i)' = Phase(i), Running' <=> Running,
         {disk'[k].id : k \in DOMAIN disk'} = {disk[k].id : k \in DOMAIN disk}
  PROVE  UNCHANGED L!ledgerVars
<1>1. [i \in Items |-> Phase(i)]' = [i \in Items |-> Phase(i)]
  OBVIOUS
<1>2. Running' = Running
  BY DEF Running
<1> QED
  BY <1>1, <1>2 DEF L!ledgerVars

\* What an unchanged memory of the queue means for the phases.
LEMMA SamePhases ==
  ASSUME UNCHANGED <<items, status, held>>
  PROVE  \A i \in Items : Phase(i)' = Phase(i)
BY DEF Phase, Queued, Held

LEMMA EndSaveLedger ==
  ASSUME QueueInv, EndSave
  PROVE  L!Persist \/ UNCHANGED L!ledgerVars
<1>1. Running /\ Running' /\ \A i \in Items : Phase(i)' = Phase(i)
  BY SamePhases DEF EndSave, itemVars, Running
<1>2. CASE disk' = disk
  BY <1>1, <1>2, QuietLedger
<1>3. CASE disk' = Snapshot
  <2>1. {disk'[k].id : k \in DOMAIN disk'} = Queued
    BY <1>3 DEF Snapshot, Queued, ToSet
  <2>2. Queued = {i \in Items : Phase(i) = "waiting"}
    BY ListIndexing DEF QueueInv, Phase, ClosedPhase
  <2>3. \A i \in Items : [j \in Items |-> Phase(j)][i] = Phase(i)
    OBVIOUS
  <2> QED
    BY <1>1, <2>1, <2>2, <2>3 DEF L!Persist
<1> QED
  BY <1>2, <1>3 DEF EndSave

LEMMA ForgetLedger ==
  ASSUME QueueInv, Running, Forget, UNCHANGED <<itemVars, disk>>
  PROVE  L!End
<1>1. Queued' = {} /\ Held' = {} /\ ~Running' /\ status' = status /\ disk' = disk
  BY DEF Forget, Queued, Held, ToSet, Running, itemVars
<1>2. ASSUME NEW i \in Items
      PROVE  Phase(i)' = IF Phase(i) \in {"waiting", "working"}
                           THEN "forgotten" ELSE Phase(i)
  <2>1. CASE i \in Queued
    BY <1>1, <2>1 DEF Phase, ClosedPhase, QueueInv, QueuedRunnable
  <2>2. CASE i \in Held
    BY <1>1, <2>2, PhaseFacts DEF Phase, ClosedPhase, QueueInv, HeldMarked, Held
  <2>3. CASE i \notin Queued /\ i \notin Held
    BY <1>1, <2>3 DEF Phase, ClosedPhase
  <2> QED
    BY <2>1, <2>2, <2>3
<1>3. [i \in Items |-> Phase(i)]'
        = [i \in Items |-> IF [j \in Items |-> Phase(j)][i] \in {"waiting", "working"}
                             THEN "forgotten" ELSE [j \in Items |-> Phase(j)][i]]
  BY <1>2
<1> QED
  BY <1>1, <1>3 DEF L!End

LEMMA StartLedger ==
  ASSUME QueueInv, Start
  PROVE  L!Begin
<1>1. /\ ~Running /\ Running' /\ disk' = disk /\ held' = held
      /\ Queued = {} /\ Held = {} /\ Held' = {}
  BY DEF Start, Running, QueueInv, DownIsEmpty, Queued, Held, ToSet
<1>2. CASE Load
  <2>1. /\ Queued' = {disk[k].id : k \in DOMAIN disk}
        /\ \A i \in Items \ Queued' : status'[i] = status[i]
    BY <1>2, LoadEffect DEF QueueInv
  <2>2. ASSUME NEW i \in Items
        PROVE  Phase(i)' = IF i \in Queued' THEN "waiting" ELSE Phase(i)
    BY <1>1, <2>1 DEF Phase
  <2>3. [i \in Items |-> Phase(i)]'
          = [i \in Items |-> IF i \in {disk[k].id : k \in DOMAIN disk}
                               THEN "waiting" ELSE [j \in Items |-> Phase(j)][i]]
    BY <2>1, <2>2
  <2> QED
    BY <1>1, <2>3 DEF L!Begin
<1>3. CASE UNCHANGED <<items, itemMap, itemVars>>
  <2>1. [i \in Items |-> Phase(i)]' = [i \in Items |-> Phase(i)]
    BY <1>1, <1>3, SamePhases DEF itemVars
  <2> QED
    BY <1>1, <2>1 DEF L!Begin
<1> QED
  BY <1>2, <1>3 DEF Start

LEMMA TickLedger ==
  ASSUME Tick PROVE UNCHANGED L!ledgerVars
<1>1. \A i \in Items : Phase(i)' = Phase(i)
  BY SamePhases DEF Tick
<1>2. Running' <=> Running
  BY DEF Tick, Running
<1>3. {disk'[k].id : k \in DOMAIN disk'} = {disk[k].id : k \in DOMAIN disk}
  <2>1. DOMAIN disk' = DOMAIN disk /\ \A k \in DOMAIN disk : disk'[k].id = disk[k].id
    BY DEF Tick, Aged
  <2> QED
    BY <2>1
<1> QED
  BY <1>1, <1>2, <1>3, QuietLedger

LEMMA NextLedger ==
  QueueInv /\ QueueInv' /\ [Next]_vars => [L!LedgerNext]_(L!ledgerVars)
<1> SUFFICES ASSUME QueueInv, QueueInv', [Next]_vars
             PROVE  L!LedgerNext \/ UNCHANGED L!ledgerVars
  OBVIOUS
<1>1. ASSUME NEW i \in Items, Enqueue(i) PROVE L!LedgerNext
  BY <1>1, EnqueueLedger DEF L!LedgerNext
<1>2. ASSUME NEW w \in Workers, Dequeue(w) PROVE L!LedgerNext
  BY <1>2, DequeueLedger DEF L!LedgerNext
<1>3. ASSUME NEW w \in Workers, Requeue(w) PROVE L!LedgerNext
  BY <1>3, RequeueLedger DEF L!LedgerNext
<1>4. ASSUME NEW w \in Workers, Complete(w) PROVE L!LedgerNext
  BY <1>4, CompleteLedger DEF L!LedgerNext
<1>5. ASSUME BeginShutdown \/ BeginSave PROVE UNCHANGED L!ledgerVars
  BY <1>5, SamePhases, QuietLedger DEF BeginShutdown, BeginSave, itemVars, Running
<1>6. ASSUME EndSave PROVE L!LedgerNext \/ UNCHANGED L!ledgerVars
  BY <1>6, EndSaveLedger DEF L!LedgerNext
<1>7. ASSUME Exit PROVE L!LedgerNext
  BY <1>7, ForgetLedger DEF Exit, Running, L!LedgerNext
<1>8. ASSUME Crash PROVE L!LedgerNext
  BY <1>8, ForgetLedger DEF Crash, L!LedgerNext
<1>9. ASSUME Start PROVE L!LedgerNext
  BY <1>9, StartLedger DEF L!LedgerNext
<1>10. ASSUME Tick PROVE UNCHANGED L!ledgerVars
  BY <1>10, TickLedger
<1>11. CASE UNCHANGED vars
  BY <1>11, SamePhases, QuietLedger DEF vars, Running
<1> QED
  BY <1>1, <1>2, <1>3, <1>4, <1>5, <1>6, <1>7, <1>8, <1>9, <1>10, <1>11 DEF Next

\* The queue keeps the promises of the ledger: work is never given out twice,
\* closed unless it was held, or brought back unless it was saved.
THEOREM QueueImplementsLedger == Spec => ImplementsLedger
<1> QED
  BY InitLedger, NextLedger, AlwaysInv, PTL DEF Spec, ImplementsLedger, L!Ledger
=============================================================================
