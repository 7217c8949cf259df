------------------------------ MODULE MCRewrap ------------------------------
(* A small instance of Rewrap for TLC. *)
EXTENDS Rewrap, TLC

MCSymmetry == Permutations(Files)
=============================================================================
