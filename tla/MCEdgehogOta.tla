---------------------------- MODULE MCEdgehogOta ----------------------------
(* Instances of EdgehogOta for TLC. *)
EXTENDS EdgehogOta, TLC

Symmetry == Permutations(Uuid)
=============================================================================
