------------------------------ MODULE MCReload ------------------------------
(* Small instances of Reload for TLC. *)
EXTENDS Reload, TLC

CONSTANTS in1, in2, in3, in4, out1, out2

\* A valid configuration with source directories e and f and destination t.
Conf(e, f, t) == [valid |-> TRUE, block |-> TRUE,
                  src |-> ("encrypt" :> e @@ "decrypt" :> f),
                  dst |-> ("encrypt" :> t @@ "decrypt" :> t)]
Old == Conf(in1, in3, out1)
New == Conf(in2, in4, out2)
Swapped == Conf(in3, in1, out1)
Broken == [Old EXCEPT !.valid = FALSE]
Moved == Conf(in1, in3, out2)
Blank == [New EXCEPT !.src["decrypt"] = NoDir]
EncryptOnly == [Blank EXCEPT !.block = FALSE]

Calm == [faults |-> FALSE, brisk |-> TRUE, patience |-> 2, edits |-> 2, writes |-> 3,
         first |-> Old, configs |-> {Old, New}, sha256 |-> {}, unkeyed |-> {}]
Quick == [Calm EXCEPT !.patience = 1, !.writes = 1]
Botched == [Quick EXCEPT !.configs = {Old, Broken, Blank, Moved}]
Faulty == [Quick EXCEPT !.faults = TRUE, !.edits = 1]
Named == [Quick EXCEPT !.sha256 = Files, !.unkeyed = Files, !.edits = 1]
Slow == [Calm EXCEPT !.brisk = FALSE, !.patience = 1, !.edits = 1, !.configs = {Old, EncryptOnly}]
Long == [Calm EXCEPT !.patience = 1, !.edits = 1]
Swapping == [Calm EXCEPT !.configs = {Old, Swapped}]

ReloadWorlds == {Calm, Botched, Faulty, Named, Slow, Long}
SwapWorld == {Swapping}
=============================================================================
