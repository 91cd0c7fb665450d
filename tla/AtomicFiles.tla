----------------------------- MODULE AtomicFiles -----------------------------
(***************************************************************************)
(* What the transfer of files between the clients and the server promises: *)
(* a file changes from one complete content to another, on the server and  *)
(* in a cache, in one step.  A store installs the content its process had  *)
(* in its cache when it began, once or not at all; a fetch delivers a      *)
(* content that the server had while it ran, or nothing.                   *)
(*                                                                         *)
(* Blocks, streams, handlers and crashes of the server do not occur here:  *)
(* module Streams has them and implements this specification.              *)
(***************************************************************************)
CONSTANTS
    Procs, Clients, ClientOf, Files,
    Contents,     \* what a client may store in a file
    EmptyFile,    \* what a created file holds
    None          \* no file, no content

VARIABLES
    sfile,        \* the files of the server
    copy,         \* the cached files of each client
    op            \* the transfer each process has under way

absVars == <<sfile, copy, op>>

Idle == [kind |-> "none"]
Storing(f, d) == [kind |-> "Store", file |-> f, data |-> d]

\* Fetching(f, None) has not read f yet.
Fetching(f, d) == [kind |-> "Fetch", file |-> f, data |-> d]

AtomicInit ==
    /\ sfile \in [Files -> {EmptyFile, None}]
    /\ copy = [c \in Clients |-> [f \in Files |-> None]]
    /\ op = [p \in Procs |-> Idle]

Put(c, f, d) == copy' = [copy EXCEPT ![c][f] = d]

\* The application writes d to its copy and closes the file.
Write(p, f, d) ==
    /\ op[p] = Idle
    /\ Put(ClientOf[p], f, d)
    /\ op' \in {op, [op EXCEPT ![p] = Storing(f, d)]}
    /\ UNCHANGED sfile

Install(p, f, d) ==
    /\ op[p] = Storing(f, d)
    /\ sfile' = [sfile EXCEPT ![f] = d]
    /\ op' = [op EXCEPT ![p] = Idle]
    /\ UNCHANGED copy

BeginFetch(p, f) ==
    /\ op[p] = Idle
    /\ op' = [op EXCEPT ![p] = Fetching(f, None)]
    /\ UNCHANGED <<sfile, copy>>

Read(p, f) ==
    /\ op[p] = Fetching(f, None)
    /\ op' = [op EXCEPT ![p] = Fetching(f, sfile[f])]
    /\ UNCHANGED <<sfile, copy>>

Deliver(p, f, d) ==
    /\ op[p] = Fetching(f, d)
    /\ d # None
    /\ Put(ClientOf[p], f, d)
    /\ op' = [op EXCEPT ![p] = Idle]
    /\ UNCHANGED sfile

Abandon(S) == op' = [p \in Procs |-> IF p \in S THEN Idle ELSE op[p]]

\* Transfers may fail; nothing else changes then.
GiveUp(S) == Abandon(S) /\ UNCHANGED <<sfile, copy>>

\* Create empties a file that exists, too; Remove deletes it.
SetName(f, d) ==
    /\ d \in {EmptyFile, None}
    /\ sfile' = [sfile EXCEPT ![f] = d]
    /\ UNCHANGED <<copy, op>>

Forget(c, f) == Put(c, f, None) /\ UNCHANGED <<sfile, op>>

\* A client that crashes comes back with an empty cache; what it was storing
\* may still be installed.
LoseClient(c, S) ==
    /\ copy' = [copy EXCEPT ![c] = [f \in Files |-> None]]
    /\ Abandon(S)
    /\ UNCHANGED sfile

AtomicNext ==
    \/ \E p \in Procs, f \in Files, d \in Contents : Write(p, f, d)
    \/ \E p \in Procs, f \in Files, d \in Contents : Install(p, f, d)
    \/ \E p \in Procs, f \in Files : BeginFetch(p, f) \/ Read(p, f)
    \/ \E p \in Procs, f \in Files, d \in Contents \cup {EmptyFile} : Deliver(p, f, d)
    \/ \E S \in SUBSET Procs : GiveUp(S)
    \/ \E f \in Files, d \in {EmptyFile, None} : SetName(f, d)
    \/ \E c \in Clients, f \in Files : Forget(c, f)
    \/ \E c \in Clients, S \in SUBSET Procs : LoseClient(c, S)

AtomicSpec == AtomicInit /\ [][AtomicNext]_absVars
=============================================================================
