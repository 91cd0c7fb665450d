------------------------------ MODULE MCStreams ------------------------------
(* Instances of Streams for TLC. *)
EXTENDS Streams

CONSTANTS a1, a2, b1

\* One process per client.
OwnClient == [p \in Procs |-> p]

\* A file with a short last block, and one that fills its last block.
Data == {<<a1, a2>>, <<b1, NoBytes>>}
=============================================================================
