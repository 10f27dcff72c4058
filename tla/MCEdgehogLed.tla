----------------------------- MODULE MCEdgehogLed -----------------------------
(* Instances of EdgehogLed for TLC. *)
EXTENDS EdgehogLed, TLC

Symmetry == Permutations(Config) \cup Permutations(Task)
=============================================================================
