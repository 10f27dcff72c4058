------------------------- MODULE MCEdgehogTelemetry -------------------------
(* Instances of EdgehogTelemetry for TLC. *)
EXTENDS EdgehogTelemetry, TLC

Symmetry == Permutations(Type) \cup Permutations(TimerId)
=============================================================================
