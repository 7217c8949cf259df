------------------------------ MODULE QueueLock ------------------------------
(* The lock of the retry queue (Queue.mu, a sync.RWMutex) while Shutdown     *)
(* saves the queue: Save takes the read lock, calls List, and List takes the *)
(* read lock again.  The watcher and the processor take it for writing, in   *)
(* Enqueue, Dequeue and Requeue.                                             *)
(*                                                                           *)
(* RWMutex lets no new reader in once a writer has asked for the lock.       *)
EXTENDS Naturals

CONSTANTS
  Writers,   \* the goroutines of the watcher and of the processor
  Nobody     \* no writer

VARIABLES
  readers,   \* the read locks held, all of them by the saver
  pending,   \* the writer that has asked for the lock and waits for the readers
  owner,     \* the writer that holds the lock
  saver      \* where the goroutine of Shutdown is

lockVars == <<readers, pending, owner, saver>>

----------------------------------------------------------------------------
(* sync.RWMutex *)

RLock == /\ pending = Nobody /\ owner = Nobody
         /\ readers' = readers + 1
         /\ UNCHANGED <<pending, owner>>

RUnlock == readers' = readers - 1 /\ UNCHANGED <<pending, owner>>

\* Lock: writers exclude each other first, then the new readers.
Ask(w) ==
  /\ pending = Nobody /\ owner = Nobody
  /\ pending' = w
  /\ UNCHANGED <<readers, owner, saver>>

Acquire(w) ==
  /\ pending = w /\ readers = 0
  /\ pending' = Nobody /\ owner' = w
  /\ UNCHANGED <<readers, saver>>

Unlock(w) ==
  /\ owner = w /\ owner' = Nobody
  /\ UNCHANGED <<readers, pending, saver>>

----------------------------------------------------------------------------
(* Shutdown and Save *)

SaveLocks   == saver = "sleeping" /\ saver' = "saving" /\ RLock
ListLocks   == saver = "saving" /\ saver' = "listing" /\ RLock
ListReturns == saver = "listing" /\ saver' = "writing" /\ RUnlock
SaveReturns == saver = "writing" /\ saver' = "saved" /\ RUnlock

LockInit == readers = 0 /\ pending = Nobody /\ owner = Nobody /\ saver = "sleeping"

SaverNext == SaveLocks \/ ListLocks \/ ListReturns \/ SaveReturns
WriterNext(w) == Ask(w) \/ Acquire(w) \/ Unlock(w)

LockNext == SaverNext \/ \E w \in Writers : WriterNext(w)

\* Every goroutine runs; a writer that has the lock or waits for it goes on,
\* but none need ask for it again.  The lock is fair to a reader that waits.
LockFairness ==
  /\ SF_lockVars(SaveLocks) /\ WF_lockVars(SaverNext)
  /\ \A w \in Writers : WF_lockVars(Acquire(w)) /\ WF_lockVars(Unlock(w))

LockSpec == LockInit /\ [][LockNext]_lockVars /\ LockFairness

----------------------------------------------------------------------------

\* "Saves the current queue state to disk": a shutdown that began to save the
\* queue ends with the queue saved.
ShutdownSaves == (saver = "saving") ~> (saver = "saved")
=============================================================================
