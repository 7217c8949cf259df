--------------------------- MODULE ConfigRegister ---------------------------
(* What a reload promises, without its signals, locks and steps: a register *)
(* of configurations.  The configuration file is edited at any time, well   *)
(* or badly; a version that is known was valid when it was loaded, and the  *)
(* workers take over the known version only between two pieces of work.     *)
EXTENDS Naturals

VARIABLES
  latest,   \* the version of the file
  valid,    \* whether that version can be used
  known,    \* the version that was loaded last
  inForce,  \* the version the work is done with
  busy      \* a piece of work is in progress

registerVars == <<latest, valid, known, inForce, busy>>

RegisterInit ==
  latest = 0 /\ valid = TRUE /\ known = 0 /\ inForce = 0 /\ busy = FALSE

Revise ==
  /\ latest' = latest + 1 /\ valid' \in BOOLEAN
  /\ UNCHANGED <<known, inForce, busy>>

Learn == valid /\ known' = latest /\ UNCHANGED <<latest, valid, inForce, busy>>

Adopt == ~busy /\ inForce' = known /\ UNCHANGED <<latest, valid, known, busy>>

Toil == busy' = ~busy /\ UNCHANGED <<latest, valid, known, inForce>>

Register == RegisterInit /\ [][Revise \/ Learn \/ Adopt \/ Toil]_registerVars
=============================================================================
