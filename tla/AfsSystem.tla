------------------------------ MODULE AfsSystem ------------------------------
(***************************************************************************)
(* The whole system: the server, the clients and their processes, crashes  *)
(* of either side, and the properties of the caching protocol.             *)
(***************************************************************************)
EXTENDS AfsClient

CONSTANTS
    Exclusive,        \* do the processes take turns in modifying a file?
    MaxClientCrashes  \* bound: client crashes in a behaviour

ASSUME ExclusiveAssumption == Exclusive \in BOOLEAN
ASSUME MaxClientCrashesAssumption == MaxClientCrashes \in Nat

VARIABLE ccrashes     \* bound: client crashes so far

vars == <<serverVars, clientVars, ccrashes>>

TypeOK == ServerTypeOK /\ ClientTypeOK /\ ccrashes \in Nat

\* One thread per client: its operations on the file system do not overlap.
SerialClients == \A p, q \in Procs : ClientOf[p] = ClientOf[q] => p = q

ModOps == {"write", "lookup", "creat", "truncate", "unlink", "rename"}

Modifies(q, f) == pc[q] # "idle" /\ op[q] \in ModOps /\ f \in {file[q], file2[q]}

\* May p begin to modify f?
Turn(p, f) == Exclusive => \A q \in Procs \ {p} : ~Modifies(q, f)

Init == ServerInit /\ ClientInit /\ ccrashes = 0

-----------------------------------------------------------------------------
\* The operations an application may call.
StartOp(p) ==
    \/ \E f \in Files, o \in {"stat", "read"} : StartFetch(p, o, f)
    \/ \E f \in Files : Turn(p, f) /\ StartFetch(p, "write", f)
    \/ \E f \in Files : Turn(p, f) /\ StartLookup(p, f)
    \/ \E f \in Files : Turn(p, f) /\ StartTruncate(p, f)
    \/ \E f \in Files : Turn(p, f) /\ StartUnlink(p, f)
    \/ \E f, g \in Files : Turn(p, f) /\ Turn(p, g) /\ StartRename(p, f, g)

\* Handler w meets an error: one of its own system calls fails, or its caller
\* died and the stream of a Store ends early.
HandlerFault(w) ==
    \/ (ServerErrors \/ pc[w] = "idle") /\ StoreAbort(w)
    \/ ServerErrors /\ HandlerError(w)

CrashClient(c) ==
    /\ ccrashes < MaxClientCrashes
    /\ ccrashes' = ccrashes + 1
    /\ ClientCrash(c)

Next ==
    \/ \E p \in Procs : StartOp(p) /\ UNCHANGED ccrashes
    \/ \E p \in Procs : Write(p) /\ UNCHANGED ccrashes
    \/ \E p \in Procs : ProcStep(p) /\ UNCHANGED ccrashes
    \/ \E p \in Procs : Discard(p) /\ UNCHANGED ccrashes
    \/ \E w \in Procs : HandlerStep(w) /\ UNCHANGED <<clientVars, ccrashes>>
    \/ \E w \in Procs : HandlerFault(w) /\ UNCHANGED <<clientVars, ccrashes>>
    \/ (Crash \/ Restart) /\ UNCHANGED <<clientVars, ccrashes>>
    \/ \E c \in Clients : CrashClient(c)

Spec == Init /\ [][Next]_vars

\* The threads of the file system and of the server are scheduled, and an
\* application closes what it opened.  Nobody is obliged to call an operation,
\* to write, to crash, or to start the server again.
Fairness ==
    \A p \in Procs :
        /\ WF_vars(ProcStep(p) /\ UNCHANGED ccrashes)
        /\ WF_vars(HandlerStep(p) /\ UNCHANGED <<clientVars, ccrashes>>)

FairSpec == Spec /\ Fairness

-----------------------------------------------------------------------------
(* Properties.                                                             *)

\* TestAuth is called before Fetch, so the modification time a fetched copy
\* is stamped with (fetchRegular, utimensat) is never that of a server version
\* newer than the content that was fetched, whatever the other clients store,
\* rename or remove between the two calls.  Holds for one thread per client.
FetchedNotOlder ==
    \A c \in Clients, f \in Files :
        Cached(c, f) /\ Copy(c, f).by = "fetch" /\ Copy(c, f).ver > 0
            => Copy(c, f).stamp <= Copy(c, f).ver

\* The check of AfsClient::Fetch ("Check if we are on the latest version of
\* the file"): a cached copy without local changes that passes it holds the
\* content that TestAuth saw on the server, or a more recent one.  Needs turns
\* (and OrphansWaitedFor), a clock tick between two stamps and no rename.
ValidatedIsCurrent ==
    \A p \in Procs :
        LET copy == Copy(C(p), file[p])
        IN  pc[p] = "check" /\ Fresh(p) /\ auth[p].ver > 0 /\ copy.ver > 0
                => copy.ver >= auth[p].ver \/ copy.data = auth[p].data

\* When a store is about to replace a file on the server, the content it
\* replaces is the one the storing session found in its cache when it opened
\* the file: no other client's update is lost.  Promised only to clients that take
\* turns and, when clients crash, wait for orphaned calls (OrphansWaitedFor).
NoLostUpdate ==
    \A w \in Procs :
        hpc[w] = "tmp" /\ pc[w] = "store" => sfile[call[w].file].data = base[w]

\* Closing a file stores what its session wrote: the content that a dirty
\* descriptor sends to the server is the one last written through it.  Holds
\* for one thread per client.
CloseFlushesWrites ==
    \A p \in Procs :
        pc[p] = "store" => call[p].data = last[C(p)][file[p]]

\* What an open file reads changes only when a thread of the same client
\* writes to it or truncates it: not when the cached file is fetched again,
\* stored or renamed.
OpenFileStable ==
    [][\A p \in Procs :
        pc[p] = "session" /\ handle'[p] = handle[p]
            => LET before == disk[C(p)][handle[p]].data
                   after == disk'[C(p)][handle[p]].data
               IN  after # before => after = last'[C(p)][file[p]] /\ after > before]_vars

\* A process that opens a file finds in it the last content that its client
\* wrote to it, whatever the server missed while it was down.
ReadYourWrites ==
    \A p \in Procs :
        pc[p] = "session" /\ last[C(p)][file[p]] # 0
            => disk[C(p)][handle[p]].data = last[C(p)][file[p]]

\* A call about f of a client that has crashed still runs at the server.
Orphaned(q, f) ==
    pc[q] = "idle" /\ hpc[q] # "none" /\ op[q] \in ModOps /\ f \in {file[q], file2[q]}

\* An assumption about the applications: whoever begins to modify a file waits until no
\* such call about it is left.  Nothing in the program makes anybody wait: a Store that
\* outlives its client may replace the file in the middle of another client's session,
\* and one of the two updates is lost.
OrphansWaitedFor ==
    \A p, q \in Procs :
        p # q /\ pc[p] = "idle" /\ pc'[p] # "idle" /\ op'[p] \in ModOps
            => ~Orphaned(q, file'[p]) /\ ~Orphaned(q, file2'[p])

\* Every operation comes to an end, even if the server never comes back.
OpTerminates == \A p \in Procs : pc[p] # "idle" ~> pc[p] = "idle"
=============================================================================
