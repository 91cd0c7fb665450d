----------------------------- MODULE MCOpenFiles -----------------------------
(* Instances of OpenFiles for TLC. *)
EXTENDS OpenFiles, TLC

Symmetry == Permutations(Procs) \cup Permutations(Files)
                \cup Permutations(Handles) \cup Permutations(Writes)

\* One write may be stray.  With both, the properties would speak of none.
OneStray == Cardinality(stray) <= 1
=============================================================================
