--------------------------- MODULE MCEdgehogDevice ---------------------------
(* Instances of EdgehogDevice for TLC. *)
EXTENDS EdgehogDevice, TLC

\* A modem's name of which every path just fits, and an interface's that is too long for
\* the second path.
Lengths == {[cellularProperties |-> 25, netifProperties |-> 48]}

Symmetry == Permutations(Caller) \cup Permutations(Key) \cup Permutations(Number)
=============================================================================
