----------------------------- MODULE WorkLedger -----------------------------
(* What the retry queue promises its users, without lists, indexes, clocks  *)
(* or attempt counts: a piece of work that was accepted waits, is given to  *)
(* one worker at a time, and comes back or is closed; what waits when the   *)
(* ledger is saved is exactly what a later start can bring back.            *)
EXTENDS Integers

CONSTANTS Work      \* the pieces of work

VARIABLES
  phase,   \* where each piece of work is
  saved,   \* the work a start can restore
  open     \* whether the ledger is in use

ledgerVars == <<phase, saved, open>>

\* "forgotten": accepted once, and lost with the memory of a process.
Phases == {"new", "waiting", "working", "done", "dead", "forgotten"}

LedgerTypeOK ==
  phase \in [Work -> Phases] /\ saved \in SUBSET Work /\ open \in BOOLEAN

LedgerInit ==
  phase = [i \in Work |-> "new"] /\ saved = {} /\ open = FALSE

Move(i, from, to) ==
  /\ open /\ phase[i] = from
  /\ phase' = [phase EXCEPT ![i] = to]
  /\ UNCHANGED <<saved, open>>

Accept(i) == Move(i, "new", "waiting")
Take(i)   == Move(i, "waiting", "working")
Return(i) == Move(i, "working", "waiting")
Close(i)  == Move(i, "working", "done") \/ Move(i, "working", "dead")

\* Saving records all the work that waits, and nothing else.
Persist ==
  /\ open
  /\ saved' = {i \in Work : phase[i] = "waiting"}
  /\ UNCHANGED <<phase, open>>

\* The process ends: what was not closed is forgotten.
End ==
  /\ open /\ ~open'
  /\ phase' = [i \in Work |-> IF phase[i] \in {"waiting", "working"}
                                THEN "forgotten" ELSE phase[i]]
  /\ saved' = saved

\* A start brings back all that was saved, or fails to and brings back none.
Begin ==
  /\ ~open /\ open'
  /\ \/ phase' = [i \in Work |-> IF i \in saved THEN "waiting" ELSE phase[i]]
     \/ phase' = phase
  /\ saved' = saved

LedgerNext ==
  \/ \E i \in Work : Accept(i) \/ Take(i) \/ Return(i) \/ Close(i)
  \/ Persist \/ End \/ Begin

Ledger == LedgerInit /\ [][LedgerNext]_ledgerVars
=============================================================================
