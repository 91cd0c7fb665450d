------------------------------ MODULE AfsServer ------------------------------
(***************************************************************************)
(* The AFS server (unreliablefs/afs_server.cpp) and the synchronous gRPC   *)
(* channel in front of it.                                                 *)
(*                                                                         *)
(* A file of the server's base directory is a record of its content, its   *)
(* modification time and its version.  Contents are abstract identifiers   *)
(* (0 is the empty content).  The version is a ghost: it numbers the       *)
(* contents installed on the server in the order in which they were        *)
(* installed, and version 0 stands for "no such file".  Modification times *)
(* are what the program has instead of versions; the properties of the     *)
(* composed system relate the two.                                         *)
(*                                                                         *)
(* Each process of a client owns one call slot.  call[w] is the request,   *)
(* hpc[w] the progress of the handler thread that serves it:               *)
(*   none -> call -> done | failed                   (every other handler) *)
(*   none -> call -> tmp -> renamed -> done | statfail -> done    (Store)  *)
(* "failed" is a grpc::Status that is not OK: the client cannot tell how   *)
(* far the handler got.                                                    *)
(***************************************************************************)
EXTENDS Integers, FiniteSets

CONSTANTS
    Procs,          \* the application threads, each with one outstanding call
    Files,          \* regular files of one directory
    ClockSteps,     \* how far the clock may advance between two stamps;
                    \* 0 stands for two stamps within one file-system tick
    ServerErrors,   \* may a system call of a handler fail (ENOSPC, EIO, ...)?
    MaxCrashes      \* bound: server process crashes in a behaviour

ASSUME ClockStepsAssumption == ClockSteps \subseteq Nat
ASSUME ServerErrorsAssumption == ServerErrors \in BOOLEAN
ASSUME MaxCrashesAssumption == MaxCrashes \in Nat

VARIABLES
    up,        \* is the server process running?
    crashes,   \* bound: crashes so far
    clock,     \* the last time the server's file system stamped a file with
    sver,      \* ghost: versions installed so far
    sfile,     \* the base directory
    call,      \* the request of each process
    hpc,       \* the progress of its handler
    stmp,      \* the modification time of its temporary file (Store)
    reply      \* its reply message

serverVars == <<up, crashes, clock, sver, sfile, call, hpc, stmp, reply>>

Kinds == {"TestAuth", "Fetch", "Store", "Create", "Remove", "Rename"}

\* A path that names nothing.
Absent == [data |-> 0, mtime |-> 0, ver |-> 0]

Exists(f) == sfile[f].ver > 0

Request(k, f, g, d) == [kind |-> k, file |-> f, dst |-> g, data |-> d]

\* The status of a reply: success, or an error code as far as anyone looks.
Statuses == {"ok", "ENOENT", "EIO"}

RequestRec == [kind : Kinds, file : Files, dst : Files, data : Nat]
FileRec == [data : Nat, mtime : Nat, ver : Nat]
ReplyRec == [st : Statuses, mtime : Int, data : Nat, ver : Nat, of : Nat]

Found(f) == IF Exists(f) THEN "ok" ELSE "ENOENT"

\* A reply message with only its status set: an unset lmtime reads as 0.
Bare(st) == [st |-> st, mtime |-> 0, data |-> 0, ver |-> 0, of |-> 0]

\* The times the next stamp may take.
Stamps == {clock + d : d \in ClockSteps}

ServerTypeOK ==
    /\ up \in BOOLEAN
    /\ crashes \in Nat
    /\ clock \in Nat
    /\ sver \in Nat
    /\ sfile \in [Files -> FileRec]
    /\ call \in [Procs -> RequestRec]
    /\ hpc \in [Procs -> {"none", "call", "tmp", "renamed", "statfail", "done", "failed"}]
    /\ stmp \in [Procs -> Nat]
    /\ reply \in [Procs -> ReplyRec]

\* The server starts with an empty base directory.
ServerInit ==
    /\ up = TRUE
    /\ crashes = 0
    /\ clock = 0
    /\ sver = 0
    /\ sfile = [f \in Files |-> Absent]
    /\ call = [w \in Procs |-> Request("TestAuth", CHOOSE f \in Files : TRUE,
                                       CHOOSE f \in Files : TRUE, 0)]
    /\ hpc = [w \in Procs |-> "none"]
    /\ stmp = [w \in Procs |-> 0]
    /\ reply = [w \in Procs |-> Bare("EIO")]

-----------------------------------------------------------------------------
(* The channel, as the client uses it.                                     *)

\* A stub call that waits for the server to come back (a variation of Issue).
IssueBlocks(w, r) ==
    /\ call' = [call EXCEPT ![w] = r]
    /\ hpc' = [hpc EXCEPT ![w] = "call"]

\* A synchronous stub call: with no server to connect to it fails at once.
Issue(w, r) ==
    /\ call' = [call EXCEPT ![w] = r]
    /\ hpc' = [hpc EXCEPT ![w] = IF up THEN "call" ELSE "failed"]

Answered(w) == hpc[w] \in {"done", "failed"}

Release(w) == hpc' = [hpc EXCEPT ![w] = "none"]

-----------------------------------------------------------------------------
(* The handlers.                                                           *)

\* Handler thread w, serving a call of kind k, is at pc.
Serving(w, k, pc) == up /\ hpc[w] = pc /\ call[w].kind = k

Answer(w, r) ==
    /\ hpc' = [hpc EXCEPT ![w] = "done"]
    /\ reply' = [reply EXCEPT ![w] = r]

\* The state of file f as a reply of TestAuth or Fetch carries it.
Report(f) == [st |-> Found(f), mtime |-> sfile[f].mtime, data |-> sfile[f].data,
              ver |-> sfile[f].ver, of |-> sfile[f].ver]

\* stat(2) of the file.
TestAuth(w) ==
    /\ Serving(w, "TestAuth", "call")
    /\ Answer(w, Report(call[w].file))
    /\ UNCHANGED <<up, crashes, clock, sver, sfile, call, stmp>>

\* open(2) and read of the file, here of at most one block.
Fetch(w) ==
    /\ Serving(w, "Fetch", "call")
    /\ Answer(w, Report(call[w].file))
    /\ UNCHANGED <<up, crashes, clock, sver, sfile, call, stmp>>

\* creat(2): an existing file is truncated in place.
Create(w) ==
    /\ Serving(w, "Create", "call")
    /\ \E t \in Stamps :
        /\ clock' = t
        /\ sfile' = [sfile EXCEPT ![call[w].file] =
                        [data |-> 0, mtime |-> t, ver |-> sver + 1]]
    /\ sver' = sver + 1
    /\ Answer(w, Bare("ok"))
    /\ UNCHANGED <<up, crashes, call, stmp>>

Remove(w) ==
    /\ Serving(w, "Remove", "call")
    /\ sfile' = [sfile EXCEPT ![call[w].file] = Absent]
    /\ Answer(w, Bare(Found(call[w].file)))
    /\ UNCHANGED <<up, crashes, clock, sver, call, stmp>>

\* rename(2) moves the content together with its modification time; under
\* the new name it is a new version of that file.
Rename(w) ==
    LET f == call[w].file
        g == call[w].dst
    IN  /\ Serving(w, "Rename", "call")
        /\ \/ /\ Exists(f)
              /\ sfile' = [sfile EXCEPT ![g] = [sfile[f] EXCEPT !.ver = sver + 1],
                                        ![f] = Absent]
              /\ sver' = sver + 1
              /\ Answer(w, [st |-> "ok", mtime |-> 0, data |-> 0,
                            ver |-> sver + 1, of |-> sfile[f].ver])
           \/ /\ ~Exists(f)
              /\ Answer(w, Bare("ENOENT"))
              /\ UNCHANGED <<sver, sfile>>
        /\ UNCHANGED <<up, crashes, clock, call, stmp>>

\* Store writes the streamed content to a temporary file, whose modification
\* time is that of the last write, ...
StoreWrite(w) ==
    /\ Serving(w, "Store", "call")
    /\ \E t \in Stamps : clock' = t /\ stmp' = [stmp EXCEPT ![w] = t]
    /\ hpc' = [hpc EXCEPT ![w] = "tmp"]
    /\ UNCHANGED <<up, crashes, sver, sfile, call, reply>>

\* ... renames it over the target, ...
StoreRename(w) ==
    /\ Serving(w, "Store", "tmp")
    /\ sfile' = [sfile EXCEPT ![call[w].file] =
                    [data |-> call[w].data, mtime |-> stmp[w], ver |-> sver + 1]]
    /\ sver' = sver + 1
    /\ reply' = [reply EXCEPT ![w] = [Bare("EIO") EXCEPT !.ver = sver + 1]]
    /\ hpc' = [hpc EXCEPT ![w] = "renamed"]
    /\ UNCHANGED <<up, crashes, clock, call, stmp>>

\* ... and then asks the file system for the modification time of whatever
\* the target path names by now.
StoreStat(w) ==
    LET f == call[w].file
    IN  /\ Serving(w, "Store", "renamed")
        /\ \/ /\ Exists(f)
              /\ Answer(w, [st |-> "ok", mtime |-> sfile[f].mtime, data |-> 0,
                            ver |-> reply[w].ver, of |-> sfile[f].ver])
           \/ /\ ~Exists(f) \/ ServerErrors
              /\ hpc' = [hpc EXCEPT ![w] = "statfail"]
              /\ UNCHANGED reply
        /\ UNCHANGED <<up, crashes, clock, sver, sfile, call, stmp>>

\* A failed stat makes the handler unlink the target path.
StoreUnlink(w) ==
    /\ Serving(w, "Store", "statfail")
    /\ sfile' = [sfile EXCEPT ![call[w].file] = Absent]
    /\ Answer(w, Bare("EIO"))
    /\ UNCHANGED <<up, crashes, clock, sver, call, stmp>>

\* An error path that forgets to answer (a variation of StoreAbort).
StoreAbortSilently(w) ==
    /\ \/ Serving(w, "Store", "call")
       \/ Serving(w, "Store", "tmp")
    /\ hpc' = [hpc EXCEPT ![w] = "aborted"]
    /\ UNCHANGED <<up, crashes, clock, sver, sfile, call, stmp, reply>>

\* mkstemp, write or rename fails, or the stream ends before its last block:
\* the temporary file is removed and the target left alone.
StoreAbort(w) ==
    /\ \/ Serving(w, "Store", "call")
       \/ Serving(w, "Store", "tmp")
    /\ Answer(w, Bare("EIO"))
    /\ UNCHANGED <<up, crashes, clock, sver, sfile, call, stmp>>

\* A system call of any other handler fails and the handler says so.
HandlerError(w) ==
    /\ up
    /\ hpc[w] = "call"
    /\ call[w].kind # "Store"
    /\ Answer(w, Bare("EIO"))
    /\ UNCHANGED <<up, crashes, clock, sver, sfile, call, stmp>>

HandlerStep(w) ==
    \/ TestAuth(w) \/ Fetch(w) \/ Create(w) \/ Remove(w) \/ Rename(w)
    \/ StoreWrite(w) \/ StoreRename(w) \/ StoreStat(w) \/ StoreUnlink(w)

-----------------------------------------------------------------------------
(* The server process.  It keeps nothing in memory between calls: what is  *)
(* in the base directory survives, every call in progress fails, and a     *)
(* reply that was sent may still be lost.                                  *)

Crash ==
    /\ up
    /\ crashes < MaxCrashes
    /\ up' = FALSE
    /\ crashes' = crashes + 1
    /\ \E lost \in SUBSET {w \in Procs : hpc[w] = "done"} :
        hpc' = [w \in Procs |->
                    IF hpc[w] \in {"none", "failed"} \/ (hpc[w] = "done" /\ w \notin lost)
                    THEN hpc[w] ELSE "failed"]
    /\ UNCHANGED <<clock, sver, sfile, call, stmp, reply>>

Restart ==
    /\ ~up
    /\ up' = TRUE
    /\ UNCHANGED <<crashes, clock, sver, sfile, call, hpc, stmp, reply>>
=============================================================================
