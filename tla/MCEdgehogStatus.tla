--------------------------- MODULE MCEdgehogStatus ---------------------------
(* Instances of EdgehogStatus for TLC. *)
EXTENDS EdgehogStatus

\* Below and above the levels.
Values == {-1, 2}
=============================================================================
