------------------------------ MODULE OpenFiles ------------------------------
(***************************************************************************)
(* The open files of one client: the FUSE operations open, write, fsync,   *)
(* flush and release of unreliablefs_ops.c, the table file_write_state of  *)
(* afs_fuse_ops.cpp that says which descriptors received a write, and the  *)
(* two queues of alice.cpp whose threads apply writes later.               *)
(*                                                                         *)
(* A content is the set of the writes applied to the cached file.  What    *)
(* the client does with a file that it stores or fetches is AfsClient's.   *)
(***************************************************************************)
EXTENDS Integers, Sequences, FiniteSets, FiniteSetsExt, SequencesExt

CONSTANTS
    Procs,    \* application processes, each served by a thread of libfuse
    Files,    \* cached regular files
    Handles,  \* open files of the kernel in a behaviour; processes share one after a fork
    Writes,   \* the write operations of a behaviour
    Limit,    \* descriptors the client may have open (RLIMIT_NOFILE)
    Entries,  \* entries of file_write_state
    NoFile, NoHandle,
    Std       \* what descriptor 0 is open on at first: /dev/null or a terminal

ASSUME LimitAssumption == Limit \in Nat \ {0}
ASSUME EntriesAssumption == Entries \in Nat
ASSUME ProcsAssumption == Procs \cap {"free", "worker"} = {}
ASSUME NoFileAssumption == NoFile \notin Files /\ Std \notin Files /\ Std # NoFile
ASSUME NoHandleAssumption == NoHandle \notin Handles

VARIABLES
    fdt,      \* descriptor -> the cached file it is open on
    fstate,   \* file_write_state
    hfile,    \* handle -> its file, NoFile until it is opened
    fh,       \* handle -> its descriptor (fuse_file_info.fh) until it is released
    refs,     \* handle -> processes that have it open
    own,      \* handle -> writes begun through it
    content,  \* cached file -> writes applied to it
    wfile,    \* write -> the file it was issued on
    stray,    \* ghost: writes that went through descriptor 0 or that no flush follows
    queue,    \* Delay::queue_ and Reorder::queue_
    lock,     \* who holds Delay::mutex_ and Reorder::mutex_
    pc,       \* process -> the step it is at
    cur,      \* process -> the handle its operation is on
    newfd,    \* process -> the duplicate that flush closes
    due,      \* process -> writes that its flush or fsync must not miss
    sent      \* process -> the content that its flush stored

handleVars == <<hfile, fh, refs, own>>
writeVars == <<content, wfile, stray>>
aliceVars == <<queue, lock>>
opVars == <<cur, newfd, due, sent>>
vars == <<fdt, fstate, handleVars, writeVars, aliceVars, pc, opVars>>

Queues == {"delay", "reorder"}
Fds == 0 .. (Limit - 1)

\* What open and dup return when they fail.
NoFd == -1

Slots == 0 .. (Entries - 1)

\* FileState: INVALID_HANDLE, VALID_HANDLE, RECEIVED_WRITE.
FileStates == {"invalid", "valid", "written"}

Locks == {"free", "worker"} \cup Procs
FreeFds == {d \in Fds : fdt[d] = NoFile}

\* The queue that a thread at a step empties, and the step that follows.
Draining == [fsyncDelay |-> "delay", fsyncReorder |-> "reorder",
             flushDelay |-> "delay", flushReorder |-> "reorder"]

\* Mutant: alice_fsync empties the queue of delayed writes only.
AfterDelay == [fsyncDelay |-> "synced", flushDelay |-> "dup"]

After == [fsyncDelay |-> "fsyncReorder", fsyncReorder |-> "synced",
          flushDelay |-> "flushReorder", flushReorder |-> "dup"]

PCs == {"idle", "publish", "mark", "synced", "dup", "copy", "clear",
        "closeDirty", "closeClean", "store", "flushed"} \cup DOMAIN Draining

TypeOK ==
    /\ fdt \in [Fds -> Files \cup {NoFile, Std}]
    /\ fstate \in [Slots -> FileStates]
    /\ hfile \in [Handles -> Files \cup {NoFile}]
    /\ fh \in [Handles -> Fds \cup {NoFd}]
    /\ refs \in [Handles -> SUBSET Procs]
    /\ own \in [Handles -> SUBSET Writes]
    /\ content \in [Files -> SUBSET Writes]
    /\ wfile \in [Writes -> Files \cup {NoFile}]
    /\ stray \subseteq Writes
    /\ queue \in [Queues -> Seq([write : Writes, fd : Fds])]
    /\ lock \in [Queues -> Locks]
    /\ \A k \in Queues : lock[k] \in Procs =>
            pc[lock[k]] \in DOMAIN Draining /\ Draining[pc[lock[k]]] = k
    /\ pc \in [Procs -> PCs]
    /\ cur \in [Procs -> Handles \cup {NoHandle}]
    /\ newfd \in [Procs -> Fds \cup {NoFd}]
    /\ due \in [Procs -> SUBSET Writes]
    /\ sent \in [Procs -> SUBSET Writes]

Init ==
    /\ fdt = [d \in Fds |-> IF d = 0 THEN Std ELSE NoFile]
    /\ fstate = [d \in Slots |-> "invalid"]
    /\ hfile = [h \in Handles |-> NoFile]
    /\ fh = [h \in Handles |-> NoFd]
    /\ refs = [h \in Handles |-> {}]
    /\ own = [h \in Handles |-> {}]
    /\ content = [f \in Files |-> {}]
    /\ wfile = [w \in Writes |-> NoFile]
    /\ stray = {}
    /\ queue = [k \in Queues |-> <<>>]
    /\ lock = [k \in Queues |-> "free"]
    /\ pc = [p \in Procs |-> "idle"]
    /\ cur = [p \in Procs |-> NoHandle]
    /\ newfd = [p \in Procs |-> NoFd]
    /\ due = [p \in Procs |-> {}]
    /\ sent = [p \in Procs |-> {}]

-----------------------------------------------------------------------------
Step(p, s) == pc' = [pc EXCEPT ![p] = s]

\* The operation returns to its caller.
Return(p) ==
    /\ Step(p, "idle")
    /\ cur' = [cur EXCEPT ![p] = NoHandle]
    /\ due' = [due EXCEPT ![p] = {}]
    /\ sent' = [sent EXCEPT ![p] = {}]
    /\ newfd' = [newfd EXCEPT ![p] = NoFd]

\* file_write_state[d] = s, and reading it: an index outside the table, such as
\* the -1 of a failed dup, reaches a word that is none of its entries.
SetEntry(d, s) == fstate' = [e \in Slots |-> IF e = d THEN s ELSE fstate[e]]

Entry(d) == IF d \in Slots THEN {fstate[d]} ELSE FileStates

IsOpen(d) == d # NoFd /\ fdt[d] # NoFile

Lowest == IF FreeFds = {} THEN NoFd ELSE Min(FreeFds)

\* afs_fuse_open, afs_fuse_creat: open(2) gives the lowest free descriptor ...
Open(p, h, f) ==
    /\ pc[p] = "idle" /\ hfile[h] = NoFile
    /\ Lowest # NoFd
    /\ fdt' = [fdt EXCEPT ![Lowest] = f]
    /\ hfile' = [hfile EXCEPT ![h] = f]
    /\ fh' = [fh EXCEPT ![h] = Lowest]
    /\ cur' = [cur EXCEPT ![p] = h]
    /\ Step(p, "publish")
    /\ UNCHANGED <<fstate, refs, own, writeVars, aliceVars, newfd, due, sent>>

\* ... or the open fails: with EMFILE, or as error injection has it.
OpenFails(p) == pc[p] = "idle" /\ UNCHANGED vars

\* unreliable_open, unreliable_create where error injection makes them do nothing:
\* they succeed with the zero that libfuse put into fh, and the caller gets a handle
\* on descriptor 0.
NoopOpen(p, h, f) ==
    /\ pc[p] = "idle" /\ hfile[h] = NoFile
    /\ hfile' = [hfile EXCEPT ![h] = f]
    /\ fh' = [fh EXCEPT ![h] = 0]
    /\ \E ps \in SUBSET Procs : refs' = [refs EXCEPT ![h] = ps \cup {p}]
    /\ own' = [own EXCEPT ![h] = {}]
    /\ UNCHANGED <<fdt, fstate, writeVars, aliceVars, pc, opVars>>

\* libfuse looks at what was created, finds that descriptor 0 is no regular file and
\* releases it.
NoopCreateFails(p) ==
    /\ pc[p] = "idle" /\ fdt[0] \notin Files
    /\ fdt' = [fdt EXCEPT ![0] = NoFile]
    /\ UNCHANGED <<fstate, handleVars, writeVars, aliceVars, pc, opVars>>

HandOut(p) ==
    /\ pc[p] = "publish"
    /\ \E ps \in SUBSET Procs : refs' = [refs EXCEPT ![cur[p]] = ps \cup {p}]
    /\ own' = [own EXCEPT ![cur[p]] = {}]
    /\ Return(p)
    /\ UNCHANGED <<fdt, hfile, fh, writeVars, aliceVars>>

\* Mutant: the entry keeps what the last user of the number left.
PublishNothing(p) == HandOut(p) /\ UNCHANGED fstate

\* ... and its entry of the table is set before the caller gets the handle.
Publish(p) ==
    /\ HandOut(p)
    /\ SetEntry(fh[cur[p]], "valid")

\* pwrite: a write through a descriptor that is open on no cached file is lost.
Pwrite(w, d) ==
    content' = IF fdt[d] \notin Files THEN content
               ELSE [content EXCEPT ![fdt[d]] = @ \cup {w}]

\* The kernel has a handle from when it is handed out until it is released.
Live(h) == fh[h] # NoFd /\ \A p \in Procs : pc[p] = "publish" => cur[p] # h

\* unreliable_write up to pwrite, or up to the push to the queue that error
\* injection chose, which waits for a thread that empties the queue.  A write
\* that error injection replaces by nothing or by an error changes nothing.  A
\* write may come after p closed the file: from the pages of a mapping, or from
\* another thread of p while one closes it.
Write(p, h, w) ==
    /\ pc[p] = "idle" /\ Live(h) /\ wfile[w] = NoFile
    /\ wfile' = [wfile EXCEPT ![w] = hfile[h]]
    /\ stray' = IF fh[h] = 0 \/ p \notin refs[h] THEN stray \cup {w} ELSE stray
    /\ own' = [own EXCEPT ![h] = @ \cup {w}]
    /\ cur' = [cur EXCEPT ![p] = h]
    /\ due' = [due EXCEPT ![p] = {w}]
    /\ Step(p, "mark")
    /\ \/ Pwrite(w, fh[h]) /\ UNCHANGED queue
       \/ \E k \in Queues :
            /\ lock[k] = "free"
            /\ queue' = [queue EXCEPT ![k] = Append(@, [write |-> w, fd |-> fh[h]])]
            /\ UNCHANGED content
    /\ UNCHANGED <<fdt, fstate, hfile, fh, refs, lock, newfd, sent>>

\* afs_fuse_markdirty, and the write returns.
Mark(p) ==
    /\ pc[p] = "mark"
    /\ SetEntry(fh[cur[p]], "written")
    /\ Return(p)
    /\ UNCHANGED <<fdt, handleVars, writeVars, aliceVars>>

-----------------------------------------------------------------------------
\* Thread t (a process, or the thread of the queue) applies what is in a queue
\* while it holds the mutex: exec_inorder from the front, exec_reorder in any
\* order.
Take(k, t) ==
    /\ lock[k] = "free" /\ queue[k] # <<>>
    /\ lock' = [lock EXCEPT ![k] = t]
    /\ UNCHANGED <<content, queue>>

\* Mutant: whichever write is applied, it goes through the descriptor in front.
ApplyFront(k, t) ==
    /\ lock[k] = t
    /\ \E i \in DOMAIN queue[k] :
        /\ k = "delay" => i = 1
        /\ Pwrite(queue[k][i].write, Head(queue[k]).fd)
        /\ queue' = [queue EXCEPT ![k] = RemoveAt(@, i)]
    /\ UNCHANGED lock

Apply(k, t) ==
    /\ lock[k] = t
    /\ \E i \in DOMAIN queue[k] :
        /\ k = "delay" => i = 1
        /\ Pwrite(queue[k][i].write, queue[k][i].fd)
        /\ queue' = [queue EXCEPT ![k] = RemoveAt(@, i)]
    /\ UNCHANGED lock

\* Mutant: the mutex is not released.
ReleaseNot(k, t) ==
    /\ lock[k] \in {t, "free"} /\ queue[k] = <<>>
    /\ UNCHANGED <<content, aliceVars>>

\* The queue is empty: release the mutex, or leave it at once.
Release(k, t) ==
    /\ lock[k] \in {t, "free"} /\ queue[k] = <<>>
    /\ lock' = [lock EXCEPT ![k] = "free"]
    /\ UNCHANGED <<content, queue>>

\* Delay::run, Reorder::run.
Worker(k) ==
    /\ \/ Take(k, "worker")
       \/ Apply(k, "worker")
       \/ lock[k] = "worker" /\ Release(k, "worker")
    /\ UNCHANGED <<fdt, fstate, handleVars, wfile, stray, pc, opVars>>

\* alice_fsync.
Drain(p) ==
    /\ pc[p] \in DOMAIN Draining
    /\ LET k == Draining[pc[p]]
       IN  \/ (Take(k, p) \/ Apply(k, p)) /\ UNCHANGED pc
           \/ Release(k, p) /\ Step(p, After[pc[p]])
    /\ UNCHANGED <<fdt, fstate, handleVars, wfile, stray, opVars>>

-----------------------------------------------------------------------------
\* Writes that have returned to their callers.
Returned ==
    {w \in Writes : wfile[w] # NoFile
                        /\ \A p \in Procs : pc[p] = "mark" => w \notin due[p]}

\* unreliable_fsync and unreliable_flush up to alice_fsync.
Enter(p, h, s, ws) ==
    /\ pc[p] = "idle" /\ p \in refs[h]
    /\ cur' = [cur EXCEPT ![p] = h]
    /\ due' = [due EXCEPT ![p] = ws]
    /\ Step(p, s)
    /\ UNCHANGED <<fdt, fstate, handleVars, writeVars, aliceVars, newfd, sent>>

Fsync(p, h) == Enter(p, h, "fsyncDelay", Returned)

\* The process closes the file: the kernel asks for a flush.
Flush(p, h) == Enter(p, h, "flushDelay", Returned \cap own[h])

\* Error injection makes unreliable_flush do nothing, or fail: the process no longer
\* has the file open all the same.
FlushInjected(p, h) ==
    /\ pc[p] = "idle" /\ p \in refs[h]
    /\ refs' = [refs EXCEPT ![h] = @ \ {p}]
    /\ stray' = stray \cup own[h]
    /\ UNCHANGED <<fdt, fstate, hfile, fh, own, content, wfile, aliceVars, pc, opVars>>

\* fsync(2) of the cached file, and the operation returns.
FsyncReturn(p) ==
    /\ pc[p] = "synced"
    /\ Return(p)
    /\ UNCHANGED <<fdt, fstate, handleVars, writeVars, aliceVars>>

\* dup(2), which fails when no descriptor is free or fh is not open.
Dup(p) ==
    /\ pc[p] = "dup"
    /\ \/ /\ Lowest # NoFd /\ fdt[fh[cur[p]]] # NoFile
          /\ newfd' = [newfd EXCEPT ![p] = Lowest]
          /\ fdt' = [fdt EXCEPT ![Lowest] = fdt[fh[cur[p]]]]
       \/ /\ Lowest = NoFd \/ fdt[fh[cur[p]]] = NoFile
          /\ newfd' = [newfd EXCEPT ![p] = NoFd]
          /\ UNCHANGED fdt
    /\ Step(p, "copy")
    /\ UNCHANGED <<fstate, handleVars, writeVars, aliceVars, cur, due, sent>>

\* Mutant: the duplicate keeps the mark that the last user of its number left.
CopyNothing(p) ==
    /\ pc[p] = "copy" /\ Step(p, "clear")
    /\ UNCHANGED <<fdt, fstate, handleVars, writeVars, aliceVars, opVars>>

\* afs_fuse_copydirty.
Copy(p) ==
    /\ pc[p] = "copy"
    /\ \E s \in Entry(fh[cur[p]]) : SetEntry(newfd[p], s)
    /\ Step(p, "clear")
    /\ UNCHANGED <<fdt, handleVars, writeVars, aliceVars, opVars>>

\* afs_fuse_close reads and clears the entry of the duplicate.
Clear(p) ==
    /\ pc[p] = "clear"
    /\ SetEntry(newfd[p], "invalid")
    /\ \E s \in Entry(newfd[p]) :
            Step(p, IF s = "written" THEN "closeDirty" ELSE "closeClean")
    /\ UNCHANGED <<fdt, handleVars, writeVars, aliceVars, opVars>>

\* AfsClient::fuse_close closes the duplicate and, when that succeeds and the
\* entry said so, stores the file.
Close(p) ==
    /\ pc[p] \in {"closeDirty", "closeClean"} /\ IsOpen(newfd[p])
    /\ fdt' = [fdt EXCEPT ![newfd[p]] = NoFile]
    /\ Step(p, IF pc[p] = "closeDirty" THEN "store" ELSE "flushed")
    /\ UNCHANGED <<fstate, handleVars, writeVars, aliceVars, opVars>>

\* Store sends the cached file that the path names.
Store(p) ==
    /\ pc[p] = "store"
    /\ sent' = [sent EXCEPT ![p] = content[hfile[cur[p]]]]
    /\ Step(p, "flushed")
    /\ UNCHANGED <<fdt, fstate, handleVars, writeVars, aliceVars, cur, newfd, due>>

\* The flush returns, with EBADF where the duplicate was never open or is so no
\* longer, and the process no longer has the file open.
FlushReturn(p) ==
    /\ \/ pc[p] = "flushed"
       \/ pc[p] \in {"closeDirty", "closeClean"} /\ ~IsOpen(newfd[p])
    /\ refs' = [refs EXCEPT ![cur[p]] = @ \ {p}]
    /\ Return(p)
    /\ UNCHANGED <<fdt, fstate, hfile, fh, own, writeVars, aliceVars>>

\* unreliable_release, which the kernel sends when the last close and every write
\* have returned: a plain close, which leaves the entry of the table and the queues
\* as they are.  Where error injection replaces it the descriptor stays open.
ReleaseFile(h) ==
    /\ Live(h) /\ refs[h] = {}
    /\ \A p \in Procs : pc[p] = "mark" => cur[p] # h
    /\ fdt' \in {fdt, [fdt EXCEPT ![fh[h]] = NoFile]}
    /\ fh' = [fh EXCEPT ![h] = NoFd]
    /\ own' = [own EXCEPT ![h] = {}]
    /\ UNCHANGED <<fstate, hfile, refs, writeVars, aliceVars, pc, opVars>>

Next ==
    \/ \E p \in Procs, h \in Handles :
        \/ \E f \in Files : Open(p, h, f) \/ NoopOpen(p, h, f)
        \/ \E w \in Writes : Write(p, h, w)
        \/ Fsync(p, h) \/ Flush(p, h) \/ FlushInjected(p, h)
    \/ \E p \in Procs :
        \/ OpenFails(p) \/ NoopCreateFails(p) \/ Publish(p) \/ Mark(p) \/ Drain(p) \/ FsyncReturn(p)
        \/ Dup(p) \/ Copy(p) \/ Clear(p) \/ Close(p) \/ Store(p) \/ FlushReturn(p)
    \/ \E k \in Queues : Worker(k)
    \/ \E h \in Handles : ReleaseFile(h)

Spec == Init /\ [][Next]_vars

-----------------------------------------------------------------------------
(* Properties.                                                             *)

\* Error injection that makes an open or a create do nothing spoils descriptor 0:
\* what goes through it is promised nothing.  Nor is a write that no flush follows,
\* because it came after its process had closed the file or the flush was replaced:
\* these are the stray writes.

\* A flush that succeeds has stored a content with every write of the handle
\* that had returned before the flush began, the delayed ones included
\* (alice_fsync: "flush the whole buffer conservatively"), but for stray writes and
\* for a duplicate that is descriptor 0.
FlushStoresWrites ==
    \A p \in Procs : pc[p] = "flushed" /\ newfd[p] # 0 => due[p] \ stray \subseteq sent[p]

\* When fsync returns, every write that had returned before it began is in its
\* file, whichever queue it went through: no later write overtakes it.
FsyncIsBarrier ==
    \A p \in Procs : pc[p] = "synced" => \A w \in due[p] \ stray : w \in content[wfile[w]]

\* A write reaches the file it was issued on: a queued write names a descriptor,
\* and that number is not used for another file before the write is applied.
\* unreliable_release empties no queue, so it does not hold for stray writes.
WritesReachTheirFile ==
    \A f \in Files : \A w \in content[f] \ stray : wfile[w] = f

\* Closing a file that was not written to stores nothing, whatever the former
\* uses of the descriptors have left in file_write_state: not so for descriptor 0,
\* whose entry an open that does nothing leaves as it is.
CleanCloseStoresNothing ==
    \A p \in Procs :
        pc[p] = "store" /\ fh[cur[p]] # 0 /\ newfd[p] # 0 => own[cur[p]] # {}
=============================================================================
