-------------------------- MODULE MCDecryptPipeline --------------------------
(* Small instances of DecryptPipeline for TLC. *)
EXTENDS DecryptPipeline

MCDelay == [n \in 0..AttemptCap |-> 1]

Verifying(b) == [behavior |-> b, verify |-> TRUE]
Trusting(b) == [behavior |-> b, verify |-> FALSE]

Calm == [faults |-> FALSE, stuck |-> FALSE, reuse |-> FALSE, keyFirst |-> FALSE,
         badSums |-> FALSE, configs |-> {Verifying("keep"), Trusting("delete")}]
Early == [Calm EXCEPT !.keyFirst = TRUE, !.configs = {Verifying("archive")}]
Wrong == [Calm EXCEPT !.badSums = TRUE, !.reuse = TRUE, !.configs = {Verifying("delete")}]
Faulty == [Early EXCEPT !.faults = TRUE, !.stuck = TRUE]

LiveWorlds == {Calm, Early, [Faulty EXCEPT !.stuck = FALSE]}
SafeWorlds == {Calm, Early, Wrong, Faulty}
=============================================================================
