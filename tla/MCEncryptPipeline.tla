-------------------------- MODULE MCEncryptPipeline --------------------------
(* Small instances of EncryptPipeline for TLC. *)
EXTENDS EncryptPipeline

MCDelay == [n \in 0..AttemptCap |-> 1]

With(b) == [behavior |-> b, checksum |-> TRUE]
Plain(b) == [behavior |-> b, checksum |-> FALSE]

Calm == [faults |-> FALSE, stuck |-> FALSE, reuse |-> FALSE, sha256 |-> {},
         configs |-> {With("keep"), Plain("delete")}]
Faulty == [Calm EXCEPT !.faults = TRUE, !.configs = {With("delete")}]
Reusing == [Faulty EXCEPT !.reuse = TRUE, !.configs = {With("archive")}]
Overwriting == [Reusing EXCEPT !.configs = {Plain("delete")}]
Keeping == [Faulty EXCEPT !.configs = {With("keep"), Plain("archive")}]
Sidecar == [Calm EXCEPT !.sha256 = Names]

CalmWorld == {Calm}
FaultyWorld == {Faulty}
SafeWorlds ==
  {Calm, Sidecar, Reusing, Overwriting} \union {[w EXCEPT !.stuck = TRUE] : w \in {Faulty, Keeping}}
LiveWorlds == {Faulty, Keeping, Sidecar}
=============================================================================
