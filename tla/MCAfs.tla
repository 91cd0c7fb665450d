-------------------------------- MODULE MCAfs --------------------------------
(* Instances of AfsSystem for TLC. *)
EXTENDS AfsSystem, TLC

\* One process per client: the processes are named after their clients.
OwnClient == [p \in Procs |-> p]

\* All processes are threads of one client.
OneClient == [p \in Procs |-> CHOOSE c \in Clients : TRUE]

NoSkew == [c \in Clients |-> 0]

\* The client's clock runs ahead of the server's.
Ahead == [c \in Clients |-> 1]

\* Every stamp has a tick of its own, or two may share one.
Tick == {1}
CoarseTick == {0, 1}

Symmetry == Permutations(Procs) \cup Permutations(Files)

\* A stat checks and fetches as an open for reading does, without a session.
LiveOps == {"stat", "lookup", "truncate", "unlink"}
SessionOps == {"read", "write", "lookup"}
RemovingOps == {"read", "write", "lookup", "truncate", "unlink"}
NameOps == {"stat", "lookup", "rename"}
ThreadOps == {"stat", "write", "lookup", "rename"}
CacheOps == {"stat", "write", "lookup", "truncate", "unlink"}

-----------------------------------------------------------------------------
(* Views: TLC tells two states apart only by what a later step can read.   *)

Call(w) ==
    CASE hpc[w] = "none" -> <<>>
      [] hpc[w] \in {"call", "tmp"} -> <<call[w], stmp[w]>>
      [] hpc[w] = "failed" -> <<call[w].kind>>
      [] OTHER -> <<call[w], reply[w]>>

Operation(p) ==
    IF Quiet(p) THEN <<>>
    ELSE <<op[p], file[p], file2[p], handle[p], dirty[p],
           IF pc[p] \in {"check", "fetch", "stamp"} THEN auth[p] ELSE <<>> >>

Inode(c, i) == IF i \in FreeInodes(c) THEN <<>> ELSE <<disk[c][i]>>

\* Without the ghosts base and last.
View ==
    <<up, crashes, clock, sver, sfile, hpc, path, pc, mods, ccrashes,
      [w \in Procs |-> Call(w)], [p \in Procs |-> Operation(p)],
      [c \in Clients |-> [i \in Inodes |-> Inode(c, i)]]>>

GhostView == <<View, last, [p \in Procs |-> IF Quiet(p) THEN 0 ELSE base[p]]>>
=============================================================================
