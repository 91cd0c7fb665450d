------------------------------ MODULE AfsClient ------------------------------
(***************************************************************************)
(* The caching client (unreliablefs/afs_client.cpp, afs_fuse_ops.cpp): the *)
(* FUSE operations on regular files, as the threads of the file system     *)
(* run them.  A client is one mounted file system with one cache           *)
(* directory; a process is a thread of it with at most one operation and   *)
(* one open file at a time.                                                *)
(*                                                                         *)
(* path[c][f] is the inode the cache directory of client c binds to f, or  *)
(* NoInode; handles refer to inodes, so a handle can outlive the binding   *)
(* it was opened through.  Three fields of a cached inode are ghosts:      *)
(*   ver    the server version whose content it holds, 0 once the content  *)
(*          was changed locally and not (yet) stored;                      *)
(*   stamp  the server version whose modification time it carries, 0 when  *)
(*          the client's own clock stamped it;                             *)
(*   by     what stamped it last: "clock", "fetch" or "store".             *)
(***************************************************************************)
EXTENDS AfsServer

CONSTANTS
    Clients,
    ClientOf,       \* the client each process belongs to
    Ops,            \* the operations the processes call
    Skew,           \* how far the clock of a client is ahead of the server's
    MaxMods         \* bound: modifying operations in a behaviour

\* open(O_CREAT) is a "lookup" until the file is known not to exist.
AllOps == {"stat", "read", "write", "lookup", "creat", "truncate", "unlink", "rename"}

ASSUME ClientOfAssumption == ClientOf \in [Procs -> Clients]
ASSUME OpsAssumption == Ops \subseteq AllOps
ASSUME SkewAssumption == Skew \in [Clients -> Int]
ASSUME MaxModsAssumption == MaxMods \in Nat
ASSUME FilesAssumption == IsFiniteSet(Files) /\ Files # {}
ASSUME ProcsAssumption == IsFiniteSet(Procs)

VARIABLES
    path,     \* the cache directory of each client
    disk,     \* the inodes below it
    pc,       \* where each process is in its operation
    op,       \* the operation it runs
    file,     \* the file it runs it on
    file2,    \* the new name of a rename
    auth,     \* authdata of Fetch, with the content it belongs to as a ghost
    handle,   \* the inode behind its open file descriptor
    dirty,    \* file_write_state[fd] = RECEIVED_WRITE
    base,     \* ghost: the content its open found in the cache
    mods,     \* bound: modifying operations so far; names new contents
    last      \* ghost: the content that a client last wrote to each file, if any

clientVars == <<path, disk, pc, op, file, file2, auth, handle, dirty, base, mods, last>>

\* As many inodes as can be in use at once: every name and every handle.
Inodes == 1 .. (Cardinality(Files) + Cardinality(Procs))
NoInode == 0

C(p) == ClientOf[p]
Cached(c, f) == path[c][f] # NoInode
Copy(c, f) == disk[c][path[c][f]]

\* The client's clock when the server's shows t.
Local(c, t) == t + Skew[c]

InodeRec == [data : Nat, mtime : Int, ver : Nat, stamp : Nat, by : {"clock", "fetch", "store"}]

\* An inode written locally at time t.
Written(d, t) == [data |-> d, mtime |-> t, ver |-> 0, stamp |-> 0, by |-> "clock"]

AuthRec == [st : Statuses, mtime : Int, data : Nat, ver : Nat]

FreeInodes(c) ==
    {i \in Inodes : /\ \A f \in Files : path[c][f] # i
                    /\ \A p \in Procs : ClientOf[p] = c => handle[p] # i}

PCs == {"idle", "create", "auth", "check", "fetch", "stamp", "open", "session",
        "sread", "store", "remove", "rename"}

ClientTypeOK ==
    /\ path \in [Clients -> [Files -> Inodes \cup {NoInode}]]
    /\ disk \in [Clients -> [Inodes -> InodeRec]]
    /\ pc \in [Procs -> PCs]
    /\ op \in [Procs -> AllOps]
    /\ file \in [Procs -> Files]
    /\ file2 \in [Procs -> Files]
    /\ auth \in [Procs -> AuthRec]
    /\ handle \in [Procs -> Inodes \cup {NoInode}]
    /\ dirty \in [Procs -> BOOLEAN]
    /\ base \in [Procs -> Nat]
    /\ mods \in Nat
    /\ last \in [Clients -> [Files -> Nat]]

\* afs_fuse_setup empties the cache directory before it creates the client.
ClientInit ==
    /\ path = [c \in Clients |-> [f \in Files |-> NoInode]]
    /\ disk = [c \in Clients |-> [i \in Inodes |-> Written(0, 0)]]
    /\ pc = [p \in Procs |-> "idle"]
    /\ op = [p \in Procs |-> "stat"]
    /\ file = [p \in Procs |-> CHOOSE f \in Files : TRUE]
    /\ file2 = [p \in Procs |-> CHOOSE f \in Files : TRUE]
    /\ auth = [p \in Procs |-> [st |-> "EIO", mtime |-> 0, data |-> 0, ver |-> 0]]
    /\ handle = [p \in Procs |-> NoInode]
    /\ dirty = [p \in Procs |-> FALSE]
    /\ base = [p \in Procs |-> 0]
    /\ mods = 0
    /\ last = [c \in Clients |-> [f \in Files |-> 0]]

Goto(p, l) == pc' = [pc EXCEPT ![p] = l]

Quiet(p) == pc[p] = "idle" /\ hpc[p] = "none"

\* libfuse holds back an unlink or a rename of a path that an operation of another
\* thread is on.  A file that is merely open is no operation: it may be renamed ...
Unused(p, f) ==
    \A q \in Procs \ {p} :
        C(q) = C(p) /\ pc[q] \notin {"idle", "session"} => f \notin {file[q], file2[q]}

\* ... but neither unlinked nor replaced: libfuse renames it to a hidden name first,
\* which is a rename of the open file.
NotOpen(p, f) == \A q \in Procs : C(q) = C(p) /\ pc[q] = "session" => file[q] # f

\* libfuse also holds back an open, a truncate, a write or a flush of a path that is
\* being removed or renamed; the kernel, which locks the directory, a lookup before a
\* creat.  A stat runs on.
Settled(p, f) ==
    \A q \in Procs \ {p} : C(q) = C(p) /\ pc[q] \in {"remove", "rename"} => f \notin {file[q], file2[q]}

\* Process p calls operation o on f (and g); modifying operations are counted.
Begin(p, o, f, g) ==
    /\ Quiet(p)
    /\ o \in Ops
    /\ op' = [op EXCEPT ![p] = o]
    /\ file' = [file EXCEPT ![p] = f]
    /\ file2' = [file2 EXCEPT ![p] = g]

Count ==
    /\ mods < MaxMods
    /\ mods' = mods + 1

-----------------------------------------------------------------------------
(* AfsClient::Fetch, which lstat, access, open and creat begin with.       *)

\* fuse_lstat, fuse_access, fuse_statvfs and fuse_open without O_CREAT.
StartFetch(p, o, f) ==
    /\ o \in {"stat", "read", "write"}
    /\ o # "stat" => Settled(p, f)
    /\ Begin(p, o, f, f)
    /\ Issue(p, Request("TestAuth", f, f, 0))
    /\ Goto(p, "auth")
    /\ UNCHANGED <<up, crashes, clock, sver, sfile, stmp, reply,
                   path, disk, auth, handle, dirty, base, mods, last>>

\* An open with O_CREAT begins with the kernel's lookup of the name, an lstat.
StartLookup(p, f) ==
    /\ Settled(p, f)
    /\ Begin(p, "lookup", f, f)
    /\ Count
    /\ Issue(p, Request("TestAuth", f, f, 0))
    /\ Goto(p, "auth")
    /\ UNCHANGED <<up, crashes, clock, sver, sfile, stmp, reply,
                   path, disk, auth, handle, dirty, base, last>>

\* fuse_creat, called when the lookup found nothing.  O_EXCL does not reach it.
Creat(p) ==
    /\ op' = [op EXCEPT ![p] = "creat"]
    /\ Issue(p, Request("Create", file[p], file[p], 0))
    /\ Goto(p, "create")

\* AfsClient::Fetch returns -1 with this errno.  That is the end of the
\* operation, or the answer the lookup was waiting for.
FetchFails(p, st) ==
    \/ st = "ENOENT" /\ op[p] = "lookup" /\ Creat(p)
    \/ /\ ~(st = "ENOENT" /\ op[p] = "lookup")
       /\ Goto(p, "idle")
       /\ Release(p)
       /\ UNCHANGED <<call, op>>

\* A Create that could not reach the server is taken to have succeeded.
CreateReply(p) ==
    /\ pc[p] = "create"
    /\ Answered(p)
    /\ \/ /\ hpc[p] = "failed" \/ reply[p].st = "ok"
          /\ Issue(p, Request("TestAuth", file[p], file[p], 0))
          /\ Goto(p, "auth")
       \/ /\ hpc[p] = "done" /\ reply[p].st # "ok"
          /\ Release(p)
          /\ Goto(p, "idle")
          /\ UNCHANGED call
    /\ UNCHANGED <<up, crashes, clock, sver, sfile, stmp, reply, path, disk,
                   op, file, file2, auth, handle, dirty, base, mods, last>>

\* What AfsClient::TestAuth returns: the server's answer, or what lstat says
\* of the cached file when the server did not answer.
AuthData(p) ==
    LET c == C(p)
        f == file[p]
    IN  IF hpc[p] = "done"
        THEN [st |-> reply[p].st, mtime |-> reply[p].mtime,
              data |-> reply[p].data, ver |-> reply[p].ver]
        ELSE [st |-> IF Cached(c, f) THEN "ok" ELSE "ENOENT",
              mtime |-> IF Cached(c, f) THEN Copy(c, f).mtime ELSE 0,
              data |-> 0, ver |-> 0]

AuthReply(p) ==
    LET st == AuthData(p).st
    IN  /\ pc[p] = "auth"
        /\ Answered(p)
        /\ auth' = [auth EXCEPT ![p] = AuthData(p)]
        /\ \/ st # "ok" /\ FetchFails(p, st)
           \/ /\ st = "ok"
              /\ Goto(p, "check")
              /\ Release(p)
              /\ UNCHANGED <<call, op>>
        /\ UNCHANGED <<up, crashes, clock, sver, sfile, stmp, reply,
                       path, disk, file, file2, handle, dirty, base, mods, last>>

\* The check without the comparison (a variation of Fresh).
FreshIfCached(p) == Cached(C(p), file[p])

\* Is the cached copy at least as recent as the server's file?
Fresh(p) == Cached(C(p), file[p]) /\ auth[p].mtime <= Copy(C(p), file[p]).mtime

\* The second disjunct of the check reads statbuf even when lstat failed, so
\* for a file that is not cached either answer can come out.
CheckCache(p) ==
    /\ pc[p] = "check"
    /\ \/ /\ Fresh(p) \/ ~Cached(C(p), file[p])
          /\ Goto(p, "open")
          /\ UNCHANGED <<call, hpc>>
       \/ /\ ~Fresh(p)
          /\ Issue(p, Request("Fetch", file[p], file[p], 0))
          /\ Goto(p, "fetch")
    /\ UNCHANGED <<up, crashes, clock, sver, sfile, stmp, reply, path, disk,
                   op, file, file2, auth, handle, dirty, base, mods, last>>

\* fetchRegular writing into the cached file (a variation of FetchReply).
FetchReplyInPlace(p) ==
    LET c == C(p)
        f == file[p]
    IN  /\ pc[p] = "fetch"
        /\ Answered(p)
        /\ \/ /\ hpc[p] = "done" /\ reply[p].st = "ok"
              /\ \E i \in IF Cached(c, f) THEN {path[c][f]} ELSE FreeInodes(c) :
                    /\ disk' = [disk EXCEPT ![c][i] =
                                  [data |-> reply[p].data, mtime |-> Local(c, clock),
                                   ver |-> reply[p].ver, stamp |-> 0, by |-> "clock"]]
                    /\ path' = [path EXCEPT ![c][f] = i]
              /\ Goto(p, "stamp")
           \/ /\ hpc[p] = "failed" \/ reply[p].st # "ok"
              /\ Goto(p, "idle")
              /\ UNCHANGED <<path, disk>>
        /\ Release(p)
        /\ UNCHANGED <<up, crashes, clock, sver, sfile, call, stmp, reply, op,
                       file, file2, auth, handle, dirty, base, mods, last>>

\* fetchRegular replaces the cached file by the temporary file it received,
\* whose modification time is that of its last write.  Without the server it
\* keeps the cached file and reports success.
FetchReply(p) ==
    LET c == C(p)
    IN  /\ pc[p] = "fetch"
        /\ Answered(p)
        /\ \/ /\ hpc[p] = "done" /\ reply[p].st = "ok"
              /\ \E i \in FreeInodes(c) :
                    /\ \A j \in FreeInodes(c) : i <= j
                    /\ disk' = [disk EXCEPT ![c][i] =
                                  [data |-> reply[p].data, mtime |-> Local(c, clock),
                                   ver |-> reply[p].ver, stamp |-> 0, by |-> "clock"]]
                    /\ path' = [path EXCEPT ![c][file[p]] = i]
              /\ Goto(p, "stamp")
              /\ Release(p)
              /\ UNCHANGED <<call, op>>
           \/ /\ hpc[p] = "done" /\ reply[p].st # "ok"
              /\ FetchFails(p, reply[p].st)
              /\ UNCHANGED <<path, disk>>
           \/ /\ hpc[p] = "failed"
              /\ Goto(p, "open")
              /\ Release(p)
              /\ UNCHANGED <<call, path, disk, op>>
        /\ UNCHANGED <<up, crashes, clock, sver, sfile, stmp, reply,
                       file, file2, auth, handle, dirty, base, mods, last>>

\* No utimensat: the copy keeps the time it was received (a variation of Stamp).
StampReceived(p) ==
    /\ pc[p] = "stamp"
    /\ Goto(p, "open")
    /\ UNCHANGED <<serverVars, path, disk, op, file, file2, auth, handle, dirty,
                   base, mods, last>>

\* TestAuth asked after Fetch instead of before (a variation of Stamp).
StampLate(p) ==
    LET c == C(p)
        f == file[p]
    IN  /\ pc[p] = "stamp"
        /\ Cached(c, f)
        /\ disk' = [disk EXCEPT ![c][path[c][f]] =
                      [@ EXCEPT !.mtime = sfile[f].mtime, !.stamp = sfile[f].ver,
                                !.by = "fetch"]]
        /\ Goto(p, "open")
        /\ UNCHANGED <<serverVars, path, op, file, file2, auth, handle, dirty,
                       base, mods, last>>

\* utimensat: the path gets the modification time that TestAuth returned.
Stamp(p) ==
    LET c == C(p)
        f == file[p]
    IN  /\ pc[p] = "stamp"
        /\ \/ /\ ~Cached(c, f)
              /\ FetchFails(p, "ENOENT")
              /\ UNCHANGED disk
           \/ /\ Cached(c, f)
              /\ disk' = [disk EXCEPT ![c][path[c][f]] =
                            [@ EXCEPT !.mtime = auth[p].mtime, !.stamp = auth[p].ver,
                                      !.by = "fetch"]]
              /\ Goto(p, "open")
              /\ UNCHANGED <<call, hpc, op>>
        /\ UNCHANGED <<up, crashes, clock, sver, sfile, stmp, reply, path,
                       file, file2, auth, handle, dirty, base, mods, last>>

\* The operation on the cached file: lstat ends here, unless it is a lookup
\* that found nothing; read and write open what is cached, creat makes an empty
\* file when nothing is.
OpenLocal(p) ==
    LET c == C(p)
        f == file[p]
    IN  /\ pc[p] = "open"
        /\ \/ /\ \/ op[p] = "stat"
                 \/ op[p] = "lookup" /\ Cached(c, f)
                 \/ op[p] \in {"read", "write"} /\ ~Cached(c, f)
              /\ Goto(p, "idle")
              /\ UNCHANGED <<clock, call, hpc, path, disk, op, handle, base>>
           \/ /\ op[p] = "lookup" /\ ~Cached(c, f)
              /\ Creat(p)
              /\ UNCHANGED <<clock, path, disk, handle, base>>
           \/ /\ op[p] \in {"read", "write", "creat"} /\ Cached(c, f)
              /\ handle' = [handle EXCEPT ![p] = path[c][f]]
              /\ base' = [base EXCEPT ![p] = Copy(c, f).data]
              /\ Goto(p, "session")
              /\ UNCHANGED <<clock, call, hpc, path, disk, op>>
           \/ /\ op[p] = "creat" /\ ~Cached(c, f)
              /\ \E i \in FreeInodes(c), t \in Stamps :
                    /\ \A j \in FreeInodes(c) : i <= j
                    /\ clock' = t
                    /\ disk' = [disk EXCEPT ![c][i] = Written(0, Local(c, t))]
                    /\ path' = [path EXCEPT ![c][f] = i]
                    /\ handle' = [handle EXCEPT ![p] = i]
              /\ base' = [base EXCEPT ![p] = 0]
              /\ Goto(p, "session")
              /\ UNCHANGED <<call, hpc, op>>
        /\ dirty' = [dirty EXCEPT ![p] = FALSE]
        /\ UNCHANGED <<up, crashes, sver, sfile, stmp, reply,
                       file, file2, auth, mods, last>>

-----------------------------------------------------------------------------
(* Writing to and closing an open file.                                    *)

\* pwrite on the descriptor and afs_fuse_markdirty.
Write(p) ==
    LET c == C(p)
    IN  /\ pc[p] = "session"
        /\ op[p] \in {"write", "creat"}
        /\ Settled(p, file[p])
        /\ Count
        /\ \E t \in Stamps :
            /\ clock' = t
            /\ disk' = [disk EXCEPT ![c][handle[p]] = Written(mods + 1, Local(c, t))]
        /\ dirty' = [dirty EXCEPT ![p] = TRUE]
        /\ last' = [last EXCEPT ![c][file[p]] = mods + 1]
        /\ UNCHANGED <<up, crashes, sver, sfile, call, hpc, stmp, reply,
                       path, pc, op, file, file2, auth, handle, base>>

\* flush and release: a descriptor that received a write is stored.
Close(p) ==
    /\ pc[p] = "session"
    /\ Settled(p, file[p])
    /\ handle' = [handle EXCEPT ![p] = NoInode]
    /\ dirty' = [dirty EXCEPT ![p] = FALSE]
    /\ Goto(p, IF dirty[p] THEN "sread" ELSE "idle")
    /\ UNCHANGED <<serverVars, path, disk, op, file, file2, auth, base, mods, last>>

\* fuse_truncate truncates the cached file, whatever version it is of.
StartTruncate(p, f) ==
    LET c == C(p)
    IN  /\ Settled(p, f)
        /\ Begin(p, "truncate", f, f)
        /\ Cached(c, f)
        /\ Count
        /\ \E t \in Stamps :
            /\ clock' = t
            /\ disk' = [disk EXCEPT ![c][path[c][f]] = Written(mods + 1, Local(c, t))]
        /\ base' = [base EXCEPT ![p] = Copy(c, f).data]
        /\ last' = [last EXCEPT ![c][f] = mods + 1]
        /\ Goto(p, "sread")
        /\ UNCHANGED <<up, crashes, sver, sfile, call, hpc, stmp, reply,
                       path, auth, handle, dirty>>

\* Writes that had not reached the file yet (a variation of StoreRead).
StoreReadEarly(p) ==
    /\ pc[p] = "sread"
    /\ Issue(p, Request("Store", file[p], file[p], base[p]))
    /\ Goto(p, "store")
    /\ UNCHANGED <<up, crashes, clock, sver, sfile, stmp, reply, path, disk,
                   op, file, file2, auth, handle, dirty, base, mods, last>>

\* AfsClient::Store opens the path again and streams what it finds there.
StoreRead(p) ==
    LET c == C(p)
        f == file[p]
    IN  /\ pc[p] = "sread"
        /\ \/ /\ Cached(c, f)
              /\ Issue(p, Request("Store", f, f, Copy(c, f).data))
              /\ Goto(p, "store")
           \/ /\ ~Cached(c, f)
              /\ Goto(p, "idle")
              /\ UNCHANGED <<call, hpc>>
        /\ UNCHANGED <<up, crashes, clock, sver, sfile, stmp, reply, path, disk,
                       op, file, file2, auth, handle, dirty, base, mods, last>>

\* The cached inode after the reply of Store: it gets the reply's lmtime,
\* whether or not the reply's status says that the store succeeded.
Stored(p, inode) ==
    [inode EXCEPT !.mtime = reply[p].mtime,
                  !.stamp = reply[p].of,
                  !.by = "store",
                  !.ver = IF reply[p].st = "ok" /\ inode.data = call[p].data
                          THEN reply[p].ver ELSE @]

\* utimensat with an empty result (a variation of StoreReply).
StoreReplyUnchecked(p) ==
    LET c == C(p)
        i == path[c][file[p]]
    IN  /\ pc[p] = "store"
        /\ Answered(p)
        /\ disk' = IF i = NoInode THEN disk
                   ELSE IF hpc[p] = "done" THEN [disk EXCEPT ![c][i] = Stored(p, @)]
                   ELSE [disk EXCEPT ![c][i].mtime = 0]
        /\ Release(p)
        /\ Goto(p, "idle")
        /\ UNCHANGED <<up, crashes, clock, sver, sfile, call, stmp, reply, path,
                       op, file, file2, auth, handle, dirty, base, mods, last>>

\* Without the server the store is taken to have succeeded.
StoreReply(p) ==
    LET c == C(p)
        i == path[c][file[p]]
    IN  /\ pc[p] = "store"
        /\ Answered(p)
        /\ disk' = IF hpc[p] = "done" /\ i # NoInode
                   THEN [disk EXCEPT ![c][i] = Stored(p, @)]
                   ELSE disk
        /\ Release(p)
        /\ Goto(p, "idle")
        /\ UNCHANGED <<up, crashes, clock, sver, sfile, call, stmp, reply, path,
                       op, file, file2, auth, handle, dirty, base, mods, last>>

-----------------------------------------------------------------------------
(* Names.                                                                  *)

StartUnlink(p, f) ==
    /\ Begin(p, "unlink", f, f)
    /\ Unused(p, f) /\ NotOpen(p, f)
    /\ Count
    /\ Issue(p, Request("Remove", f, f, 0))
    /\ Goto(p, "remove")
    /\ UNCHANGED <<up, crashes, clock, sver, sfile, stmp, reply,
                   path, disk, auth, handle, dirty, base, last>>

\* fuse_unlink: the local unlink follows unless the server refused.
RemoveReply(p) ==
    /\ pc[p] = "remove"
    /\ Answered(p)
    /\ \/ /\ hpc[p] = "failed" \/ reply[p].st = "ok"
          /\ path' = [path EXCEPT ![C(p)][file[p]] = NoInode]
          /\ last' = [last EXCEPT ![C(p)][file[p]] = 0]
       \/ /\ hpc[p] = "done" /\ reply[p].st # "ok"
          /\ UNCHANGED <<path, last>>
    /\ Release(p)
    /\ Goto(p, "idle")
    /\ UNCHANGED <<up, crashes, clock, sver, sfile, call, stmp, reply, disk,
                   op, file, file2, auth, handle, dirty, base, mods>>

StartRename(p, f, g) ==
    /\ f # g
    /\ Begin(p, "rename", f, g)
    /\ Unused(p, f) /\ Unused(p, g) /\ NotOpen(p, g)
    /\ Count
    /\ Issue(p, Request("Rename", f, g, 0))
    /\ Goto(p, "rename")
    /\ UNCHANGED <<up, crashes, clock, sver, sfile, stmp, reply,
                   path, disk, auth, handle, dirty, base, last>>

\* Sessions on the file that p renames.
Renamed(p) == {q \in Procs : C(q) = C(p) /\ pc[q] = "session" /\ file[q] = file[p]}

\* fuse_rename: the local rename follows, if there is anything to rename, and
\* libfuse knows a file that is open by its new name.  A copy of the version that
\* the server moved is a copy of the new version.
RenameReply(p) ==
    LET c == C(p)
        i == path[c][file[p]]
        moved == disk[c][i].ver = reply[p].of
    IN  /\ pc[p] = "rename"
        /\ Answered(p)
        /\ IF i # NoInode /\ (hpc[p] = "failed" \/ reply[p].st = "ok")
           THEN /\ file' = [q \in Procs |-> IF q \in Renamed(p) THEN file2[p] ELSE file[q]]
                /\ file2' = [q \in Procs |-> IF q \in Renamed(p) THEN file2[p] ELSE file2[q]]
                /\ path' = [path EXCEPT ![c] = [@ EXCEPT ![file2[p]] = i,
                                                         ![file[p]] = NoInode]]
                /\ disk' = IF hpc[p] = "done" /\ moved
                           THEN [disk EXCEPT ![c][i].ver = reply[p].ver]
                           ELSE disk
           ELSE UNCHANGED <<path, disk, file, file2>>
        /\ last' = IF hpc[p] = "failed" \/ reply[p].st = "ok"
                   THEN [last EXCEPT ![c] = [@ EXCEPT ![file2[p]] = last[c][file[p]], ![file[p]] = 0]]
                   ELSE last
        /\ Release(p)
        /\ Goto(p, "idle")
        /\ UNCHANGED <<up, crashes, clock, sver, sfile, call, stmp, reply,
                       op, auth, handle, dirty, base, mods>>

-----------------------------------------------------------------------------
\* The steps a process takes on its own once its operation has begun.
ProcStep(p) ==
    \/ CreateReply(p) \/ AuthReply(p) \/ CheckCache(p) \/ FetchReply(p)
    \/ Stamp(p) \/ OpenLocal(p) \/ Close(p) \/ StoreRead(p) \/ StoreReply(p)
    \/ RemoveReply(p) \/ RenameReply(p)

\* The client process dies and the file system is mounted again: descriptors
\* are gone and the cache is emptied; calls in progress run on at the server.
ClientCrash(c) ==
    /\ path' = [path EXCEPT ![c] = [f \in Files |-> NoInode]]
    /\ pc' = [p \in Procs |-> IF ClientOf[p] = c THEN "idle" ELSE pc[p]]
    /\ handle' = [p \in Procs |-> IF ClientOf[p] = c THEN NoInode ELSE handle[p]]
    /\ dirty' = [p \in Procs |-> IF ClientOf[p] = c THEN FALSE ELSE dirty[p]]
    /\ last' = [last EXCEPT ![c] = [f \in Files |-> 0]]
    /\ UNCHANGED <<serverVars, disk, op, file, file2, auth, base, mods>>

\* The reply of a call whose caller died goes nowhere.
Discard(p) ==
    /\ pc[p] = "idle"
    /\ Answered(p)
    /\ Release(p)
    /\ UNCHANGED <<up, crashes, clock, sver, sfile, call, stmp, reply, clientVars>>
=============================================================================
