------------------------------- MODULE Streams -------------------------------
(***************************************************************************)
(* How Fetch and Store move a file: block by block through a static buffer *)
(* (iobuf in afs_server.cpp and in afs_client.cpp), a gRPC stream and a    *)
(* temporary file, which is renamed over its target at the end.  Module    *)
(* AfsServer has each of these transfers in one step.                      *)
(*                                                                         *)
(* A content is a sequence of blocks of which the last one is the part of  *)
(* less than BLOCK_SIZE that fread returns together with the end of the    *)
(* file; it may be NoBytes.  stream[p] stands for the messages under way   *)
(* and the temporary file they are appended to: both are private to one    *)
(* call and in order.                                                      *)
(*                                                                         *)
(* buf[p] is the block that the thread working for p (a client's thread in *)
(* Store, a handler in Fetch) has read and not sent yet.  The threads of   *)
(* one program have one buffer: another thread that reads in between       *)
(* leaves a Garbled block.                                                 *)
(***************************************************************************)
EXTENDS Naturals, Sequences

CONSTANTS
    Procs, Clients, ClientOf, Files,
    Contents,     \* what a client may store in a file
    NoBytes,      \* the empty block
    Garbled,      \* a block with the bytes of two
    None,         \* no file, no content, no block
    Fetchers, Storers, Namers,  \* the processes that call Fetch, Store, and
                                \* Create or Remove
    ShortWrites   \* may write(2) to a temporary file write less than asked?

EmptyFile == <<NoBytes>>
Blocks == {NoBytes, Garbled} \cup UNION {{s[i] : i \in DOMAIN s} : s \in Contents}
Message == [block : Blocks, last : BOOLEAN]

ASSUME FilesAssumption == Files # {}
ASSUME ClientOfAssumption == ClientOf \in [Procs -> Clients]
ASSUME ContentsAssumption ==
    \A s \in Contents : s \in Seq(Blocks) /\ s # <<>> /\ \A i \in DOMAIN s : s[i] # Garbled
ASSUME NoneAssumption == None \notin Seq(Blocks) \cup Message
ASSUME RolesAssumption == Fetchers \cup Storers \cup Namers \subseteq Procs
ASSUME ShortWritesAssumption == ShortWrites \in BOOLEAN

VARIABLES
    up,        \* is the server process running?
    sfile,     \* the files of the server
    copy,      \* the cached files of each client
    pc,        \* the call each process waits in
    hpc,       \* the progress of the handler that serves it
    req,       \* its request
    src,       \* the content of the file that is open for reading
    linked,    \* the processes whose open file is still what its name names
    buf,       \* the block in the buffer
    stream     \* the messages sent so far

vars == <<up, sfile, copy, pc, hpc, req, src, linked, buf, stream>>

C(p) == ClientOf[p]
Quiet(p) == pc[p] = "idle" /\ hpc[p] = "none"
Ended(p) == hpc[p] \in {"done", "failed"}

TypeOK ==
    /\ up \in BOOLEAN
    /\ sfile \in [Files -> Seq(Blocks) \cup {None}]
    /\ copy \in [Clients -> [Files -> Seq(Blocks) \cup {None}]]
    /\ pc \in [Procs -> {"idle", "store", "wait", "fetch", "name"}]
    /\ hpc \in [Procs -> {"none", "call", "reading", "sending", "done", "failed"}]
    /\ req \in [Procs -> [kind : {"Fetch", "Store", "Create", "Remove"}, file : Files]]
    /\ src \in [Procs -> Seq(Blocks) \cup {None}]
    /\ linked \subseteq Procs
    /\ buf \in [Procs -> Message \cup {None}]
    /\ stream \in [Procs -> Seq(Message)]

Init ==
    /\ up = TRUE
    /\ sfile \in [Files -> {EmptyFile, None}]
    /\ copy = [c \in Clients |-> [f \in Files |-> None]]
    /\ pc = [p \in Procs |-> "idle"]
    /\ hpc = [p \in Procs |-> "none"]
    /\ req = [p \in Procs |-> [kind |-> "Fetch", file |-> CHOOSE f \in Files : TRUE]]
    /\ src = [p \in Procs |-> None]
    /\ linked = {}
    /\ buf = [p \in Procs |-> None]
    /\ stream = [p \in Procs |-> <<>>]

Begin(p, k, f, l, h) ==
    /\ Quiet(p)
    /\ up
    /\ req' = [req EXCEPT ![p] = [kind |-> k, file |-> f]]
    /\ pc' = [pc EXCEPT ![p] = l]
    /\ hpc' = [hpc EXCEPT ![p] = h]
    /\ stream' = [stream EXCEPT ![p] = <<>>]

Handler(p, h) == hpc' = [hpc EXCEPT ![p] = h]

Return(p) ==
    /\ pc' = [pc EXCEPT ![p] = "idle"]
    /\ Handler(p, "none")

-----------------------------------------------------------------------------
(* Reading a file into the buffer and sending it, on either side.          *)

Reading(p) == pc[p] = "store" \/ hpc[p] = "sending"

\* Reading processes whose buffer is p's: the threads of one client in Store,
\* the handlers of the server in Fetch.
SharesBuffer(p, q) ==
    req[p].kind = req[q].kind /\ (req[p].kind = "Fetch" \/ C(p) = C(q))

\* The open descriptors of f: at the server, or in the cache of client c.
ServerReaders(f) == {q \in linked : req[q].kind = "Fetch" /\ req[q].file = f}
CacheReaders(c, f) == {q \in linked : req[q].kind = "Store" /\ req[q].file = f /\ C(q) = c}

\* Two blocks that differ and are not empty cannot be in one buffer together.
Clash(b, c) == b # c /\ NoBytes \notin {b, c}

\* fread: the next block, or what the file has left of one.  Whoever has a
\* block in the same buffer may lose it, and this thread may find its own
\* mixed up with it.
FillBlock(p) ==
    LET n == Len(stream[p]) + 1
        block == [block |-> IF n <= Len(src[p]) THEN src[p][n] ELSE NoBytes,
                  last |-> n >= Len(src[p])]
        busy == {q \in Procs \ {p} : /\ buf[q] # None
                                     /\ SharesBuffer(p, q)
                                     /\ Clash(buf[q].block, block.block)}
    IN  /\ Reading(p)
        /\ buf[p] = None
        /\ \E bad \in SUBSET (busy \cup (IF busy = {} THEN {} ELSE {p})) :
            LET fill(q) == IF q = p THEN block ELSE buf[q]
            IN  buf' = [q \in Procs |->
                    IF q \in bad THEN [fill(q) EXCEPT !.block = Garbled] ELSE fill(q)]
        /\ UNCHANGED <<up, sfile, copy, pc, hpc, req, src, linked, stream>>

\* The block as it may reach the temporary file: only a negative result of
\* write(2) counts as a failure.
Arriving(p) ==
    {buf[p]} \cup
    {m \in {[buf[p] EXCEPT !.block = Garbled]} : ShortWrites /\ buf[p].block # NoBytes}

Send(p) ==
    /\ buf[p] # None
    /\ \E m \in Arriving(p) : stream' = [stream EXCEPT ![p] = Append(@, m)]
    /\ buf' = [buf EXCEPT ![p] = None]
    /\ linked' = IF buf[p].last THEN linked \ {p} ELSE linked

\* Store sends a block; after the last one it is done writing.
StoreSend(p) ==
    /\ pc[p] = "store"
    /\ hpc[p] = "reading"
    /\ Send(p)
    /\ pc' = IF buf[p].last THEN [pc EXCEPT ![p] = "wait"] ELSE pc
    /\ UNCHANGED <<up, sfile, copy, hpc, req, src>>

\* The Fetch handler sends a block; it never looks whether anybody reads it.
FetchSend(p) ==
    /\ hpc[p] = "sending"
    /\ Send(p)
    /\ hpc' = IF buf[p].last THEN [hpc EXCEPT ![p] = "done"] ELSE hpc
    /\ UNCHANGED <<up, sfile, copy, pc, req, src>>

-----------------------------------------------------------------------------
(* Store.                                                                  *)

\* The application has written d to the cached file, in place, and closes it.
\* With no server the store is emulated: it succeeds and sends nothing.
StartStore(p, f, d) ==
    LET readers == CacheReaders(C(p), f)
    IN  /\ p \in Storers
        /\ copy' = [copy EXCEPT ![C(p)][f] = d]
        /\ \/ /\ Begin(p, "Store", f, "store", "reading")
              /\ src' = [q \in Procs |-> IF q = p \/ q \in readers THEN d ELSE src[q]]
              /\ linked' = linked \cup {p}
           \/ /\ ~up /\ Quiet(p)
              /\ src' = [q \in Procs |-> IF q \in readers THEN d ELSE src[q]]
              /\ UNCHANGED <<pc, hpc, req, linked, stream>>
        /\ UNCHANGED <<up, sfile, buf>>

\* ferror: an error message instead of the next block, without laststore.  The code
\* then closes the FILE a second time, which is undefined: it has no effect here, or
\* it kills the client, which ClientCrash may do at any step.
StoreReadError(p) ==
    /\ pc[p] = "store"
    /\ buf[p] = None
    /\ pc' = [pc EXCEPT ![p] = "wait"]
    /\ linked' = linked \ {p}
    /\ UNCHANGED <<up, sfile, copy, hpc, req, src, buf, stream>>

\* The content of a temporary file.
Received(s) == [i \in 1 .. Len(s) |-> s[i].block]

\* Without the test of storesuccess (a variation of StoreEnd).
StoreEndAnyway(p) ==
    LET f == req[p].file
    IN  /\ up
        /\ hpc[p] = "reading"
        /\ pc[p] # "store"
        /\ \E n \in 1 .. Len(stream[p]) :
            /\ pc[p] = "wait" => n = Len(stream[p])
            /\ sfile' = [sfile EXCEPT ![f] = Received(SubSeq(stream[p], 1, n))]
        /\ linked' = linked \ ServerReaders(f)
        /\ Handler(p, "done")
        /\ UNCHANGED <<up, copy, pc, req, src, buf, stream>>

\* The handler's Read loop ends because the client is done writing, or because
\* it is gone: then any number of the messages it sent may have got through.
\* What was received replaces the file if its last message has laststore.
StoreEnd(p) ==
    LET f == req[p].file
    IN  /\ up
        /\ hpc[p] = "reading"
        /\ pc[p] # "store"
        /\ \E n \in 0 .. Len(stream[p]) :
            /\ pc[p] = "wait" => n = Len(stream[p])
            /\ \/ /\ n > 0 /\ stream[p][n].last
                  /\ sfile' = [sfile EXCEPT ![f] = Received(SubSeq(stream[p], 1, n))]
                  /\ linked' = linked \ ServerReaders(f)
                  /\ Handler(p, "done")
               \/ /\ ~(n > 0 /\ stream[p][n].last)
                  /\ Handler(p, "failed")
                  /\ UNCHANGED <<sfile, linked>>
        /\ UNCHANGED <<up, copy, pc, req, src, buf, stream>>

\* mkstemp, write or rename fails.
StoreAbort(p) ==
    /\ up
    /\ hpc[p] = "reading"
    /\ Handler(p, "failed")
    /\ UNCHANGED <<up, sfile, copy, pc, req, src, linked, buf, stream>>

\* The client returns: with the result, or because a Write failed.  Neither
\* changes a file.
StoreReturn(p) ==
    /\ pc[p] \in {"store", "wait"}
    /\ Ended(p)
    /\ Return(p)
    /\ linked' = linked \ {p}
    /\ buf' = [buf EXCEPT ![p] = None]
    /\ UNCHANGED <<up, sfile, copy, req, src, stream>>

-----------------------------------------------------------------------------
(* Fetch.                                                                  *)

StartFetch(p, f) ==
    /\ p \in Fetchers
    /\ Begin(p, "Fetch", f, "fetch", "call")
    /\ src' = [src EXCEPT ![p] = None]
    /\ UNCHANGED <<up, sfile, copy, linked, buf>>

\* fopen; a file that does not exist is an error message.
FetchOpen(p) ==
    LET f == req[p].file
    IN  /\ up
        /\ hpc[p] = "call" /\ req[p].kind = "Fetch"
        /\ \/ /\ sfile[f] # None
              /\ src' = [src EXCEPT ![p] = sfile[f]]
              /\ linked' = linked \cup {p}
              /\ Handler(p, "sending")
           \/ /\ sfile[f] = None
              /\ Handler(p, "failed")
              /\ UNCHANGED <<src, linked>>
        /\ UNCHANGED <<up, sfile, copy, pc, req, buf, stream>>

\* ferror: an error message ends the stream.
FetchReadError(p) ==
    /\ hpc[p] = "sending"
    /\ buf[p] = None
    /\ Handler(p, "failed")
    /\ linked' = linked \ {p}
    /\ UNCHANGED <<up, sfile, copy, pc, req, src, buf, stream>>

\* The client has read the stream to its end and renames its temporary file
\* over the cached one, unless a system call of its own fails.
FetchReturn(p) ==
    LET f == req[p].file
    IN  /\ pc[p] = "fetch"
        /\ Ended(p)
        /\ \/ /\ hpc[p] = "done"
              /\ copy' = [copy EXCEPT ![C(p)][f] = Received(stream[p])]
              /\ linked' = linked \ CacheReaders(C(p), f)
           \/ UNCHANGED <<copy, linked>>
        /\ Return(p)
        /\ UNCHANGED <<up, sfile, req, src, buf, stream>>

-----------------------------------------------------------------------------
(* Create and Remove.                                                      *)

\* A client creates what its lookup did not find.
StartCreate(p, f) ==
    /\ p \in Namers
    /\ sfile[f] = None
    /\ Begin(p, "Create", f, "name", "call")
    /\ UNCHANGED <<up, sfile, copy, src, linked, buf>>

StartRemove(p, f) ==
    /\ p \in Namers
    /\ Begin(p, "Remove", f, "name", "call")
    /\ UNCHANGED <<up, sfile, copy, src, linked, buf>>

\* creat: if the file exists by now it is truncated in place, under the
\* handlers that are reading it.
CreateFile(p) ==
    LET f == req[p].file
    IN  /\ up
        /\ hpc[p] = "call" /\ req[p].kind = "Create"
        /\ sfile' = [sfile EXCEPT ![f] = EmptyFile]
        /\ src' = [q \in Procs |-> IF q \in ServerReaders(f) THEN EmptyFile ELSE src[q]]
        /\ Handler(p, "done")
        /\ UNCHANGED <<up, copy, pc, req, linked, buf, stream>>

RemoveFile(p) ==
    LET f == req[p].file
    IN  /\ up
        /\ hpc[p] = "call" /\ req[p].kind = "Remove"
        /\ sfile' = [sfile EXCEPT ![f] = None]
        /\ linked' = linked \ ServerReaders(f)
        /\ Handler(p, "done")
        /\ UNCHANGED <<up, copy, pc, req, src, buf, stream>>

\* Only an unlink whose Remove succeeded, or found no server, goes on to unlink
\* the cached file.
NameReturn(p) ==
    LET f == req[p].file
    IN  /\ pc[p] = "name"
        /\ Ended(p)
        /\ \/ /\ req[p].kind = "Remove"
              /\ copy' = [copy EXCEPT ![C(p)][f] = None]
              /\ linked' = linked \ CacheReaders(C(p), f)
           \/ UNCHANGED <<copy, linked>>
        /\ Return(p)
        /\ UNCHANGED <<up, sfile, req, src, buf, stream>>

-----------------------------------------------------------------------------
(* Crashes.                                                                *)

\* The server dies: every handler fails, and the end of a stream or a reply
\* may be lost on its way.
Crash ==
    /\ up
    /\ up' = FALSE
    /\ \E lost \in SUBSET {p \in Procs : hpc[p] = "done"} :
        hpc' = [p \in Procs |->
                    IF hpc[p] \in {"none", "failed"} \/ (hpc[p] = "done" /\ p \notin lost)
                    THEN hpc[p] ELSE "failed"]
    /\ buf' = [p \in Procs |-> IF hpc[p] = "sending" THEN None ELSE buf[p]]
    /\ linked' = {p \in linked : req[p].kind = "Store"}
    /\ UNCHANGED <<sfile, copy, pc, req, src, stream>>

Restart ==
    /\ ~up
    /\ up' = TRUE
    /\ UNCHANGED <<sfile, copy, pc, hpc, req, src, linked, buf, stream>>

\* A client dies and comes back with an empty cache; its handlers live on.
ClientCrash(c) ==
    LET lost == {p \in Procs : C(p) = c /\ pc[p] = "store"}
    IN  /\ pc' = [p \in Procs |-> IF C(p) = c THEN "idle" ELSE pc[p]]
        /\ copy' = [copy EXCEPT ![c] = [f \in Files |-> None]]
        /\ buf' = [p \in Procs |-> IF p \in lost THEN None ELSE buf[p]]
        /\ linked' = linked \ lost
        /\ UNCHANGED <<up, sfile, hpc, req, src, stream>>

\* The handler of a client that died comes to its end.
Discard(p) ==
    /\ pc[p] = "idle"
    /\ Ended(p)
    /\ Handler(p, "none")
    /\ UNCHANGED <<up, sfile, copy, pc, req, src, linked, buf, stream>>

Step(p) ==
    \/ \E f \in Files, d \in Contents : StartStore(p, f, d)
    \/ \E f \in Files : StartFetch(p, f) \/ StartCreate(p, f) \/ StartRemove(p, f)
    \/ FillBlock(p) \/ StoreSend(p) \/ FetchSend(p)
    \/ StoreReadError(p) \/ StoreEnd(p) \/ StoreAbort(p) \/ StoreReturn(p)
    \/ FetchOpen(p) \/ FetchReadError(p) \/ FetchReturn(p)
    \/ CreateFile(p) \/ RemoveFile(p) \/ NameReturn(p)
    \/ Discard(p)

Next ==
    \/ \E p \in Procs : Step(p)
    \/ Crash \/ Restart
    \/ \E c \in Clients : ClientCrash(c)

Spec == Init /\ [][Next]_vars

-----------------------------------------------------------------------------
(* The refinement.                                                         *)

\* A store is under way while its handler may still install it, a fetch while
\* its client waits for it.
AbstractOp(p) ==
    IF hpc[p] = "reading" THEN [kind |-> "Store", file |-> req[p].file, data |-> src[p]]
    ELSE IF pc[p] = "fetch" THEN [kind |-> "Fetch", file |-> req[p].file, data |-> src[p]]
    ELSE [kind |-> "none"]

Atomic == INSTANCE AtomicFiles WITH op <- [p \in Procs |-> AbstractOp(p)]

\* No two threads share a buffer or a cached file, no file is created under a
\* handler that reads it, and write(2) writes everything or fails.
Separate ==
    /\ \A p \in Fetchers, q \in Fetchers \cup Namers : p = q
    /\ \A p, q \in Storers : C(p) = C(q) => p = q
    /\ ~ShortWrites

\* A store replaces the file on the server by the complete content that its
\* client had when it closed the file, or not at all, and a fetch replaces the
\* cached file by a complete content of the server, or not at all: whichever
\* block either side fails, dies or loses the other at.  Holds when Separate.
TransfersAreAtomic == Atomic!AtomicSpec

\* "File has no interleaving": a cached file is one that somebody wrote.
NoInterleaving ==
    \A c \in Clients, f \in Files : copy[c][f] \in Contents \cup {EmptyFile, None}
=============================================================================
