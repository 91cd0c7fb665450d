---------------------------- MODULE MCDirectories ----------------------------
(* Instances of Directories for TLC. *)
EXTENDS Directories, TLC

Symmetry == Permutations(Procs) \cup Permutations(Dirs)
=============================================================================
