# SimpleAFS: a TLA+ model of the caching file system

SimpleAFS is an AFS-like distributed file system. Applications use it through FUSE; every
client keeps a cache directory of whole files, checks a cached file against the server when it
is opened, and sends it back when it is closed. The server is a gRPC service over a base
directory. Neither side keeps any state about the other: everything they agree on they agree on
by comparing modification times.

## 1. The system

| Part | Code | State | Operations |
|---|---|---|---|
| server | `afs_server.cpp`, `afs/afs.proto` | the base directory; per call only locals, and one static buffer | `TestAuth`, `Fetch`, `Store`, `Create`, `Remove`, `Rename`, `Makedir`, `Removedir`, `GetFileStat` |
| caching client | `afs_client.cpp` | the cache directory; one static buffer | `Fetch` = `TestAuth`, check, `fetchRegular` or `fetchDirectory`; `Store`, `Create`, `Remove`, `Rename`, ...; `fuse_lstat/open/creat/close/truncate/unlink/rename/...` on top of them |
| open files | `afs_fuse_ops.cpp`, `unreliablefs_ops.c` | `file_write_state[1024]`, indexed by descriptor, under `fuse_lock` | open/creat publish a descriptor, write marks it dirty, flush copies the mark to a duplicate and closes that, release closes |
| delayed writes | `alice.cpp` | two queues of writes, each with a thread | delay, reorder, `alice_fsync` |
| error injection | `unreliablefs_errinj.c`, `conf.c` | the list of configured injections under `conf.mutex`, read again by every operation on its file | `error_inject` before every FUSE operation; `ini_parse` |
| the rest | `unreliablefs.c`, errno tables, `afs/*.pb.go` | | start-up and options, constants, generated code |

How they interact. A FUSE operation runs in one of libfuse's threads: it asks `error_inject`,
then calls `afs_fuse_*`, which calls the client object, which makes one or more synchronous
gRPC calls and works on the cache directory in between. `unreliable_write` may leave the write to
one of alice's threads; `flush` and `fsync` apply what is left before they go on. The file with the
configuration lies in the mounted file system, so editing it passes through `error_inject` like
anything else. The server runs each call in a thread of its own. There is no lock that spans a call
or two system calls: two threads of one client share the cache directory and the static buffer, all
handlers share the base directory and theirs.

What is hard about it:

* **Interleaving.** `Store` at the server is "write a temporary file, `rename`, `stat`", and
  `Fetch` at the client is "`TestAuth`, `lstat`, `Fetch`, `rename`, `utimensat`". Other clients'
  handlers and other threads of the client run between any two of these.
* **Time as version.** The modification time of a stored file is that of the last write to the
  temporary file, a fetched copy is stamped with the time that `TestAuth` returned before the
  fetch, `rename` carries a time along, and a local write stamps with the client's own clock.
* **Streams.** A file travels in blocks. Either side may stop, fail or die between two of them, and
  the threads of one program read their blocks into the same static buffer.
* **Names that are used again.** Descriptor numbers index `file_write_state` and are captured by
  delayed writes; directories are removed and made again between two steps of a fetch.
* **Failure.** A call whose status is not OK is "emulated": the client behaves as if it had
  succeeded and never repeats it. The server may have done all, some or none of it.
* **Crashes.** A server that comes back has only its base directory; a client that comes back
  starts with an empty cache, and the handlers of its last calls may still be running.

What would make it correct, per part: the server replaces a file by a complete content or not at
all; the client serves no content older than the one it has just validated, sends back what was
written, and loses nothing of its own when the server is away; an open file keeps its content;
every operation ends; a close stores the file if it was written to and only then, with all delayed
writes applied, each to its own file; the injections in force are those of the file, and the list
is never used while it is replaced; a directory in use stays in the cache, and no cached file is
lost with it.

## 2. Modules

| Module | Models | Theorems |
|---|---|---|
| `AfsServer` | the handlers on regular files, the call slots in front of them, the server process | |
| `AfsClient` (extends `AfsServer`) | the cache directory, FUSE operations on regular files, the threads that run them, client crashes | |
| `AfsSystem` (extends `AfsClient`) | the next-state relation of the whole, the fairness, the properties | |
| `MCAfs` | values of the constants and views for TLC | |
| `AfsSystemProofs` | | `TypeCorrect`, `FetchStampsSafely` |
| `SessionProofs` (extends `AfsSystemProofs`) | | `CloseFlushes`, `OpenFilesStable` |
| `TurnsProofs` (extends `SessionProofs`) | | `ValidatedCopies` |
| `UpdatesProofs` (extends `TurnsProofs`) | | `NoUpdateLost`, `WritesAreReadBack` |
| `Streams` | `Fetch` and `Store` block by block: buffers, streams, temporary files | |
| `AtomicFiles` | what `Streams` promises: transfers in one step (an abstract specification) | |
| `MCStreams` | values of the constants of `Streams` for TLC | |
| `StreamsProofs` | | `TransfersImplementAtomicFiles` |
| `OpenFiles` | the FUSE operations on open files, `file_write_state`, alice's two queues and their threads | |
| `OpenFilesProofs` | | `TypeCorrect`, `DelayedWritesReachTheirFile`, `FsyncCatchesUp`, `FlushStores`, `CleanClose` |
| `ErrInj` | `error_inject`, the list of injections, reading the configuration | |
| `Directories` | the directory tree of the server and in one client's cache | |
| `DirectoriesProofs` | | `TypeCorrect`, `KnownDirectories`, `NothingSunk`, `CloseFinds` |
| `MCOpenFiles`, `MCErrInj`, `MCDirectories` | values of their constants for TLC | |
| `ErrInjProofs` | | `TypeCorrect`, `ListIsInUse`, `CertainInjection`, `ConfigIsEditable`, `ConfigIsInForce`, `LastLineWins` |

`AfsSystem` composes the core. The others are views of the same program at another grain, each with
the state that its properties need: `Streams` opens up the transfers of `AfsServer`, `OpenFiles` what
`AfsClient` calls `Write` and `Close`, `Directories` the names that `AfsClient` takes as given, and
`ErrInj` what happens before any of their operations begins.

Definitions that a mutation uses ("a variation of" another definition, or "Mutant") stand next to
the definition they vary, and are not part of the specification.

### State and its meaning

* `sfile[f]`: content, modification time and **version** of each file of the base directory. The
  version is a ghost: a counter of the contents installed on the server, 0 for "no such file".
  Contents are numbers; every write makes a new one.
* `call`, `hpc`, `stmp`, `reply`: the one outstanding call of each process, the step its handler
  has reached, the time of its temporary file, its answer. `hpc = "failed"` is a gRPC status that
  is not OK. `hpc = "call"` covers the request on its way and the handler before its first
  visible system call.
* `path[c][f]`, `disk[c][i]`, `handle[p]`: directory entries, inodes and descriptors of a client.
  They are separate because the code mixes them: `fetchRegular` replaces the entry, descriptors
  stay on the old inode, `Store` opens the entry.
* `pc[p]`: where the process is in its operation. One step is one call or one group of local
  system calls between which no other actor's step can make a difference that is not also
  reached by another order.

| Control point | Code | Steps that leave it |
|---|---|---|
| `auth` | waiting in `TestAuth` | `AuthReply` |
| `check` | before `lstat` and the comparison in `Fetch` | `CheckCache` |
| `fetch` | reading the stream in `fetchRegular` | `FetchReply` (up to and including `rename`) |
| `stamp` | before `utimensat` in `fetchRegular` | `Stamp` |
| `open` | before the local `lstat`/`open` of the FUSE operation | `OpenLocal` |
| `session` | the application has the file open | `Write`, `Close` |
| `sread` | before `Store` opens the path | `StoreRead` |
| `store`, `create`, `remove`, `rename` | waiting for the call of that name | the `...Reply` of that name |

An open with `O_CREAT` is what FUSE makes of it: a lookup (`lstat`, hence `Fetch`), and
`fuse_creat` only if that found nothing. The comparison of the check reads an uninitialised
`statbuf` when the file is not cached (`afs_client.cpp:302`): `CheckCache` then allows both
outcomes.

### Block transfer

`Streams` opens up the two steps that move a whole file in `AfsServer`, and leaves out
modification times and the check. A content is a sequence of blocks; the last is the short one
that `fread` returns together with the end of the file, empty when the length is a multiple of
`BLOCK_SIZE`.

| State | Code |
|---|---|
| `buf[p]` | what `p`'s thread has read into `iobuf` and not yet copied into a message |
| `stream[p]` | the messages sent, which are also the temporary file: both are private to a call and in order |
| `src[p]`, `linked` | the content behind the open `FILE *`, and whether it is still what its name names; a file truncated or rewritten in place changes under its readers, a renamed or removed one does not |
| `pc`, `hpc` | where the calling thread and its handler are |
| `sfile`, `copy` | whole files, at the server and in the caches |

`FillBlock` is `fread`, `StoreSend` and `FetchSend` are `Write`; the client's `StoreReadError`,
`StoreReturn` and `FetchReturn`, and the handlers' `FetchReadError`, `StoreAbort` and `StoreEnd`
are the ways a transfer ends. That `iobuf` is shared and unlocked is a data race: when a thread
fills the buffer while another has a different block in it, either thread, or both, may send a
`Garbled` block. `write` that writes less than it was asked to counts as a success in the code
(`ShortWrites`). The handlers of a client that died go on with what it had sent.

`AtomicFiles` is the file system as `AfsServer` has it: a store installs the content its client
had when it closed the file, in one step or not at all, and a fetch delivers a content that the
server had while it ran, or nothing. `Atomic` in `Streams` maps a store to an operation under way
as long as its handler may still install it (`hpc[p] = "reading"`), whether or not its client is
alive.

### Open files

| State of `OpenFiles` | Code |
|---|---|
| `fdt` | the descriptors of the client process, numbered from 0 to `Limit - 1`; 0 is open on `Std` (`/dev/null`, or a terminal) when the client starts |
| `fstate` | `file_write_state`, with `Entries` entries (1024 in the code). An index outside it, such as the -1 of a failed `dup`, is written to no entry and may read as any state (`SetEntry`, `Entry`) |
| `hfile`, `fh`, `refs`, `own` | open files of the kernel, their `fi->fh` until they are released, the processes that share them, the writes made through them |
| `queue`, `lock` | `Delay::queue_` and `Reorder::queue_` with their mutexes, held by the queue's thread or by a thread in `alice_fsync` |
| `content`, `wfile` | the writes that have reached each cached file; the file each was issued on |
| `stray` | a ghost: the writes that went through descriptor 0, and those that no flush of their process follows |
| `pc`, `newfd`, `due`, `sent` | per thread: its step, the duplicate in `flush`, the writes that were complete when its flush or fsync began, the content it stored |

A write is `pwrite` (or a push), then `afs_fuse_markdirty`, then the return. A flush is `alice_fsync`
on both queues, `dup`, `afs_fuse_copydirty`, the two halves of `afs_fuse_close`, `close` of the duplicate,
`Store`. The steps of all threads interleave, and `open` takes the lowest free number, as the kernel
does. The kernel sends a flush for every process that closes a handle and a release after the last.
A write may come after its process has closed the file, from the pages of a mapping or from another
thread of it; `release` waits for it, but empties no queue.

What error injection may put in the place of an operation is part of the model:

* A write or an fsync that is replaced, or an open that fails, changes nothing.
* An open or a create that does nothing *succeeds*, with the 0 that libfuse put into `fi->fh`
  (`NoopOpen`): the handle works on descriptor 0. Its writes go there and mark the entry of
  descriptor 0, which nobody has published; its release closes descriptor 0, and the number is used
  again for a file. After such a create libfuse asks for the attributes of what was created, and
  releases a thing that is no regular file (`NoopCreateFails`).
* A flush that is replaced empties no queue and stores nothing (`FlushInjected`); a release that is
  replaced leaves the descriptor open, a choice of `ReleaseFile`.

So the four properties except what such an injection spoils by its own doing: writes that are stray,
and a flush whose handle or duplicate is descriptor 0. Everybody else's files are promised the same
as without it.

### Error injection

A configuration file is a sequence of lines, and a line is what `ini_parse_stream` makes of it: a
section, an option, something else, indented or not, with the number that `atoi` and the names that
`regexec` would find in its value. `file` is the cached file; `list` is `conf.errors`, `live` says
whether it is allocated, `owner` who holds `conf.mutex`. Reading the file is one step per line, since
the mutex does not cover the operations that change the file. A reading may fail before the first line
(`ReadFails`: no memory, no descriptor): the list is gone then, and nothing is injected until an
operation on the file reads it again. The draws of `rand_range` and what a
triggered injection makes of an operation are nondeterministic; an operation that is not on the
configuration has no effect here. A process edits the configuration as the kernel does: open,
writes and truncates, flush, release.

### Directories

Two trees, `srv` and `cache`, of names in the root (absent, directory or file) and files in them.
`known` is the kernel's name cache, `opened` the files that are open and dirty. A FUSE operation is
`TestAuth`, the check, `makeParentDirs`, `fetchDirectory` in its two renames (`Sink`, `Swap`) or
`fetchRegular` in its two halves (`FetchData`, `Install`), and the local system call; or the
server's call and the local one, with a Fetch in between after `Create` and `Makedir`.
`makeParentDirs` may fail after it has unlinked what was in the way. A file may be opened several
times, and closed while its directory is no longer in the kernel's name cache. Times are left out:
of a cached file the check may say anything. Other clients change the server's tree at any time, and
turn directories into files and back.

### Modelled from outside the repository

* The kernel and libfuse: lookups before `creat`; libfuse holds back an unlink or a rename of a path
  on which another operation of the same mount is under way (`Unused`, `Waits`, `Alone`) and, the
  other way round, an open, truncate, write or flush of a path that is being unlinked or renamed
  (`Settled`). That a file is *open* holds nothing back: open files are renamed, and written and
  closed under their new name (`Renamed`). An unlink of an open file, or a rename onto one, does not
  reach the client: libfuse renames the open file to a hidden name first (`NotOpen`), which is a
  rename to a name that is free. The kernel locks the parent of a name it changes or looks up for the
  first time. A `stat` waits for nobody. `Revalidates` says whether the kernel looks up a known name
  again, which it does once a second by default. The kernel has a handle until it is released
  (`Live`). Hard links and `O_TRUNC` on an existing file do not occur.
* gRPC: a synchronous call either gets the handler's reply or fails; it fails when the server is
  down or dies during the call (a reply may be lost in that case), not otherwise. A client that
  died leaves its handlers running; a stream that has not ended is then cut short.
* Clocks: each stamp is the last one plus a member of `ClockSteps` (0: the same tick); a client's
  clock is the server's plus `Skew`.
* A crash kills the process, not the machine: what was written stays.

### Abstractions of the core

A file is one block: the handler of `Fetch` reads it in one step, and the handler of `Store`
writes the temporary file in one step. `Streams` shows when that is justified. Each
process has one call slot, so a process of a client that crashed waits for its old handler to end
before it calls again.

## 3. Runs

Every run of `MCAfs` bounds the modifying operations (`MaxMods`) and the crashes. Two processes are
what the races need: each hazard listed in `PROJECT.json` is between two actors, one of which may be a
handler left behind by a crash. Two or three modifications let one client store, the other
replace the content, and the first come back to its copy; deadlock is checked in every run.

| Run | Instance | Checks | Shows |
|---|---|---|---|
| `exclusive` | 2 clients, 1 file, 3 modifications in turn, failing handlers, 1 server crash | `TypeOK`, `ValidatedIsCurrent` | the check of `Fetch` is right when clients take turns in modifying the file, readers come at any time, handlers fail and the server dies once |
| `turns` | 2 clients, 3 modifications in turn, 1 client crash | `NoLostUpdate`, `CloseFlushesWrites` | a session stores over exactly the content it opened, if whoever begins to modify the file waits for the orphaned calls of a client that died (`OrphansWaitedFor`) |
| `disconnected` | 1 client that writes, truncates and unlinks, 4 modifications, 2 server crashes, 1 client crash, clock ahead, equal stamps | `ReadYourWrites` | emulated operations leave the client's own view intact when the server returns |
| `threads` | 1 client with 2 threads, 2 files, 3 modifications, renames | `OpenFileStable` | an open file keeps its content whatever other threads fetch, store or rename, the open file itself included |
| `liveness` | 2 clients, server crash, no obligation to restart | `FetchedNotOlder`, `OpTerminates` | asking `TestAuth` before `Fetch` is the safe order; no operation hangs |
| `streams` | 2 clients, 1 file, contents of two blocks, one of them with an empty last block; one client fetches, creates and removes, both store; any number of crashes | `TransfersAreAtomic` | `Streams` implements `AtomicFiles`: whichever block a transfer stops at, no file is ever partly replaced |
| `openfiles` | 2 threads, 2 files, 2 handles, 2 writes, 3 descriptors (0 among them), injected opens, flushes and releases | `TypeOK`, `FlushStoresWrites`, `FsyncIsBarrier`, `WritesReachTheirFile`, `CleanCloseStoresNothing` | marks and delayed writes survive the reuse of descriptor numbers, shared handles, a `dup` that fails, and another handle on descriptor 0 |
| `errinj` | 2 threads, configurations of up to 3 lines, a start-up list with an entry of each type | `TypeOK`, `ConfigInForce`, `ListInUse`, `CertainInjectionHappens`, `ConfigCanBeEdited`, `LastWins`, `MutexIsReleased` | the list is that of the file when nobody edits it, means what the file says, and is safe to use while it changes |
| `directories` | 2 threads, 2 names in the root, 1 in each directory, revalidations that are `NotOvertaken`, files opened several times, other clients, any number of crashes | `TypeOK`, `KnownIsCached`, `SunkIsEmpty`, `CloseFindsFile` | `fetchDirectory` throws away no cached file and leaves no known directory missing, whatever happens at the server |
| `stale_rename` | clients in turn, 2 files, renames | `ValidatedIsCurrent` **violated** | see below |
| `refetch` | 1 client with 2 threads | `CloseFlushesWrites` **violated** | see below |
| `shared_buffer` | 3 clients, two of them fetch | `NoInterleaving` **violated** | see below |

The three violations are disagreements between the code and its own comments and tests:

* `stale_rename`: c2 caches `g`; c1 renames an older `f` over it. The new `g` has an older
  modification time than c2's copy, so the comparison under "Check if we are on the latest version
  of the file" succeeds and c2 keeps serving the replaced content, until somebody writes `g`.
* `refetch`: thread 2 creates a file; a stat of thread 1 has been told of it, finds nothing cached
  yet and begins to fetch the empty file. Meanwhile thread 2 has fetched and opened it, and writes.
  Thread 1's fetch is then renamed to the path, and thread 2's close sends what the path names: the
  empty file. One client is enough.
* `shared_buffer`: two handlers of `Fetch` are between their `fread` and the copy into the message;
  the second overwrites the block of the first, and a client caches a file that nobody wrote, while
  the test of concurrent writes is to "check that file has no interleaving".

Other values of the constants show where the passing properties end:

* `ClockSteps` with 0 and stores that overlap (`Exclusive = FALSE`) break `ValidatedIsCurrent`: of two
  overlapping stores the one installed last may carry the older time.
* `ServerErrors = TRUE` breaks `ReadYourWrites`: a refused `Store` leaves `lmtime` unset, the client
  stamps its copy with the epoch, and its next fetch replaces what was written.
* A client's clock one tick behind the server's breaks `ReadYourWrites`: what was written while the
  server was away is stamped earlier than what the server has.
* A `rename` while the server is away breaks it, too: it happens in the cache only. Under the new
  name the server has nothing, and an open creates an empty file there, or has an older file with
  a later time, which is fetched. Without crashes TLC finds no violation with renames (2 files, 417
  thousand states).
* `MaxCrashes = 1`, a `truncate`, or a client's clock far ahead of the server's breaks `NoLostUpdate`
  (section 4).
* Without `OrphansWaitedFor` a crash of a client breaks `NoLostUpdate`: its orphaned store replaces the
  file after another client has opened it, and that client's store replaces the orphaned one. Nothing
  in the program makes anybody wait.
* `Limit` greater than `Entries` breaks `FlushStoresWrites` and `CleanCloseStoresNothing`: the code
  indexes its 1024 entries with whatever number it gets, and a process may have more descriptors.
* Without its constraint `NotOvertaken` all three properties of `directories` fail: the kernel looks
  up `d` again, which it knows, while another thread renames it; the lookup finds nothing cached and
  stalls before `fetchDirectory`; `d` is made again with a file in it; the lookup then moves `d` out
  of the way with the file, and the close of the file fails.
* In `ErrInj`, `conf.5` says that a probability of 0 never fires; `rand_range` may return 0 and the
  comparison is `<=`, so `Triggers` lets it.

`View` and `GhostView` (module `MCAfs`) leave out what no later step can read: the arguments of a
call that has ended, `auth` outside the operation, free inodes. `View` also leaves out the ghosts
`base` and `last`, which guard nothing; runs whose property reads them use `GhostView`. The
`liveness` run uses neither view nor symmetry. Symmetry is over processes and files, which the
specification treats alike.

`streams` needs no counter: contents come from a set of two, every operation ends, and the state
space is finite with crashes at any time. Two blocks are the smallest content that has a middle to
stop in. Its instance satisfies `Separate` (see below); giving up any conjunct of `Separate` breaks
the refinement.

`openfiles`: three descriptors are enough for two open files and one duplicate when descriptor 0 has
been closed and is used for them, and few enough for `dup` to fail and for every number to be used
again; a handle is opened and a write made at most once, so that the state space is finite. Its
constraint `OneStray` leaves one of the two writes for the properties to speak of: with both stray
they say nothing. `errinj`: three lines, out of four (`ConfLines`), make an entry, an option and a
continuation of it, in every order; the fourth is an indented header, which is a header or a
continuation depending on what comes before (`MaxLines`; a longer file is a full disk); the draws
are the two ends and the middle (`Draws`). `directories` has no counter: all its sets are finite;
two names are what a rename needs. Its constraint `NotOvertaken` leaves out what follows a
revalidation that a removal overtakes (see above).

**Fairness.** `FairSpec` assumes weak fairness of each process's own steps and of each handler's:
libfuse's and gRPC's threads are scheduled, a system call ends, and an application that opened a
file closes it. Nothing obliges a client to start an operation or to write, nor anybody to
restart the server: a call without a server fails, it does not wait. `Spec` of `ErrInj` assumes weak
fairness of a thread that is inside `error_inject` with the mutex: a sleep ends and a thread runs on;
nobody is obliged to start an operation, and a thread that waits for the mutex need not get it. The
configuration read under the mutex is of bounded length, as it is on a disk.

## 4. Proofs

Everything below holds for any number of clients, threads, files, handles, descriptors, blocks,
lines and crashes, under the named assumptions on the constants; where a theorem needs more, the
hypothesis is an operator that its statement names. The conventions are the same throughout: an
invariant is a conjunction of named parts, each action has a lemma that says what it does to the
state (its *frame*) and one for each part it can disturb, and a theorem puts `Init`, `Next` and the
implication together. Every inductive invariant was first checked by TLC, with the instance of the
run that checks its property or one like it: `Inv` of `OpenFilesProofs` on 3.9 million states, that
of `DirectoriesProofs` on 3.5 million, `StableInv` on 1.2 million, `TurnsInv` on 3.7 million with a
client crash, `UpdatesInv` on 193 thousand, `AloneInv` on 198 thousand, `Inv` and `ReadInv` of
`ErrInjProofs` on 835 thousand.

### The core

* `TypeCorrect`: `Spec => []TypeOK`. One lemma per group of actions.
* `FetchStampsSafely`: with one thread per client (`SerialClients`), `Spec => []FetchedNotOlder`.
  The property alone is not inductive, since `Stamp` writes `auth[p].ver` on whatever the path
  names. The invariant `FetchInv` follows the version through the operation: no file has a version
  the server has not installed (`VersionsInstalled`); what a reply of `TestAuth` reports has been
  installed, and what the server has since is later or gone (`AuthSeen`, by `VersionsGrow`); so a
  reply of `Fetch` is at least as late (`FetchedLater`), and so is the copy until it is stamped,
  because no other process changes the cache of this client (`CacheFrame`, where `SerialClients` is
  used); a rename gives what it moves a later version (`RenamedLater`); hence every inode, bound to
  a name or not, carries a stamp that is not newer than its content (`CopiesOK`). With two threads
  in a client, and a second client, the property is false, and the assumption is stated in the
  theorem.
* `CloseFlushes`: with one thread per client, `Spec => []CloseFlushesWrites`. A session's descriptor
  is that of its path and a dirty one's content is the last one written (`SessionInv`), from the
  write to the `Store`; a second thread could fetch over it, as `refetch` shows.
* `OpenFilesStable`: `Spec => OpenFileStable`, an action property, for any number of threads and
  with all failures. `StableInv` says that no two names share an inode, a descriptor is that of a
  session, and the file behind it bears no name but the session's (`NamesInv`), which is the new one
  after a rename of the open file; and that all contents have been numbered (`Numbered`), so that a
  change is seen as one. `StepIsSteady` derives the property from it. The step that matters is the
  reply of a rename: it moves the entry and the sessions on it together, from one name to another
  that no session has (`NotOpen`, `Settled`).
* `ValidatedCopies`: under `TakingTurns`, `Spec /\ [][OrphansWaitedFor]_vars => []ValidatedIsCurrent`. Two numbers order versions
  by time only if every recorded pair of a version and a time is *behind* the file on the server:
  both smaller or both equal (`Behind`, `Recorded`), and behind every temporary file that may still
  replace it. `ReplyInv`, `CheckInv` and `CopyInv` follow such a pair from the answer through the
  check into the stamp of the copy. A step of the server keeps what is on record there
  (`KeepsRecorded`), whichever process it serves; this is where the hypotheses are needed:
  `Exclusive`, because of two overlapping stores the later may carry the older time; `0 \notin
  ClockSteps`, because two stores in one tick look the same; no rename, because it moves an old time
  to a new version (`stale_rename`); one thread per client, because a second one can fetch over a
  copy that is being stored. Handlers may fail and either side may crash, but whoever begins to modify a file waits for
  the calls about it that a crashed client has left running (`OrphansWaitedFor`): they are a second
  modifier otherwise (`OneModifier`). Stamps made by a client's
  own clock are not on record; they are of copies that have been changed, about which the property
  says nothing, so the clocks may be skewed.
* `NoUpdateLost`: under `Updating`, `Spec /\ [][OrphansWaitedFor]_vars => []NoLostUpdate`. Versions are a ghost; here it is the
  contents that have to be right. A copy nobody works on *shows* its file: it has the content of the
  file on the server, or an older time (`Shows`, `ShownCopies`), and whoever has passed the check in
  its turn has the server's content until it stores (`OwnsInv`). Beside `TakingTurns` this needs a
  server that answers, if only to refuse: a `TestAuth` without an answer lets the client go on with
  an outdated copy, whose store then replaces what others wrote; no `truncate`, which works on the
  cached file without asking the server; and no clock ahead of the server's, by which a locally
  changed copy would look newer than what another client has stored since. TLC finds a lost update
  when any of the three is given up, or when a client does not wait for another one's orphaned store.
  Clients may crash; handlers may fail: what a refused `Store` reports is a time of 0, which shows every file (`ZeroShows`).
* `WritesAreReadBack`: under `Alone`, `Spec => []ReadYourWrites`. One client, and a server that
  crashes and restarts at any time. What was written stays in the cache, and the server either has
  it or has only what is older, until the file is removed (`Kept`). That the next fetch cannot
  replace it needs more: the check compares the copy with the server's time or, after a call that
  failed, with itself, and a file is fetched only to receive what was written (`ToldInv`); the
  server has every cached file, so that no `Create` empties it, except while a `Remove` is under way,
  and then it answers `ok`, so that the cached file goes as well (`ThereInv`); a handler whose
  client died, a `Remove` among them, works for nobody who has something to lose (`CallerInv`);
  nothing on the server is stamped later than its clock (`ClockInv`). A client's clock behind the
  server's, a handler that refuses a store, or a `rename` while the server is away breaks the
  property (section 3). With a second client the property asks for something else: what is read
  after the other one's store is the other one's.

### Block transfer

* `TransfersImplementAtomicFiles`: when `Separate` holds, `Spec => TransfersAreAtomic`: every
  initial state of `Streams` maps to one of `AtomicFiles` and every step to a step or a stutter, for
  any number of processes, files and blocks. `Separate` says that no two processes share a buffer or
  a cached file, that no file is created by another client while a client fetches, and that `write`
  is complete or fails; the code guarantees none of it, a mount with one thread, one reader at a
  time and room on its disks does. The invariant `Inv` says that every file is whole or absent, that
  a process is in a call only it may make (`RoleInv`), and that what has been sent, followed by the
  block in the buffer, is a prefix of the content that is open, marked as the last message exactly
  at its end (`StreamInv`). The handler of a client that died sees a prefix of what was sent; so a
  stream whose last message has `laststore` is the whole content, which is what `StoreEnd` needs.

### Error injection

* `TypeCorrect`: `Spec => []TypeOK` of `ErrInj`, which includes mutual exclusion: a thread is
  between `pthread_mutex_lock` and `pthread_mutex_unlock` exactly if it is the owner. Reading a line
  keeps the list a list of entries (`HandlerType`, `ParseLineType`), and so does reading a whole
  file at once, as at start-up (`ParseType`). What a file means is a recursive function on its
  prefixes (`Parsed`). The provers cannot use the library's induction theorems, so both that the
  function exists and what it returns are shown from the least prefix for which they would be false
  (`LeastOf`, `ReadsExists`, `ParsedDef`, `ParsedType`).
* `ListIsInUse`: `Spec => []ListInUse`. A thread walks only through a list that it has found there
  with the mutex held, and a list that is being read is not there for anybody else (`LiveInv`). One
  that could not be read is empty: `error_inject` tests for it and returns.
* `CertainInjection`: `Spec => []CertainInjectionHappens`. While a thread walks, the entries behind
  its cursor that match with a probability of 100 or more have been triggered (`HitInv`; lines and
  entries are counted from 1, `CursorInv`), because a draw is at most 100 and because only the owner
  of the mutex changes the list.
* `ConfigIsEditable`: `Spec => []ConfigCanBeEdited`. The result of `error_inject` is still 0 for an
  operation on the configuration at every step, and such an operation never reaches the walk
  (`EditInv`).
* `ConfigIsInForce`: `Spec => []ConfigInForce`: once every session on the file has been flushed and
  released, and no operation on it is under way, the list, if there is one, is the result of parsing
  it. The
  invariant (`ReadInv`): whoever changes the file has it open, and reads it in the flush to come
  (`SessionInv`, `Pending`); a thread that reads a file which has not been changed under it has
  parsed the prefix before its next line (`Reading`), so the list is `Current` when it is done; and
  one of the three is always the case (`ForceInv`). It assumes that no other file has the name of
  the configuration (`PathsAssumption`).
* `LastLineWins`: `Spec => []LastWins`. The parser goes through the lines with a section, an option
  and a list as its state; `LastWins` says without it, by the last line before another that opens a
  section or an option, which lines are about which entry and which of them counts. By induction
  on the prefix, the state after it is what the lines say (`ParsedMeans`, `LineMeans`, one lemma per
  kind of line), and so it is after the whole file (`LastOfFile`).

### Open files

`OpenFilesProofs` proves the four properties of `OpenFiles` from one invariant, `Inv`. It speaks of
*proper* descriptors, those other than 0: of descriptor 0 nothing can be said.

* *Who has which number*: each number but 0 is that of one open file or of one duplicate (`FdInv`).
  A handle is that of the thread that opens it, then of the processes that share it, and open until
  it is released (`HeldInv`, `OpenerInv`, `UserInv`); each write is that of one open handle, which
  is proper or the write is stray (`OwnInv`). `open` takes the least free number, which exists by
  the well-founded order of `Nat` (`MinIn`).
* *Where the writes are*: an accepted write that is not stray has reached its file or is in a queue
  (`PlaceInv`), and a queued one names a number that still is its file's, because one of the
  processes that share the handle has yet to flush, and its flush will empty the queue (`QueueInv`,
  `Waiting`). This is why a write that no flush follows has to be excepted: `release` empties no
  queue. A queue is emptied under its lock, and what a flush or fsync must not miss leaves one after
  the other (`DueInv`).
* *Who is dirty*: if the table has an entry for every descriptor (`Fits`), the one of a handle's
  number, and of the duplicate that a flush makes of it, says `written` exactly as long as there is
  something to store (`MarkInv`, `DupInv`, `StoreInv`).

Hence `DelayedWritesReachTheirFile`, `FsyncCatchesUp`, `FlushStores` and `CleanClose`, in this order
`[]WritesReachTheirFile`, `[]FsyncIsBarrier`, `[]FlushStoresWrites`, `[]CleanCloseStoresNothing`;
the last two assume `Limit <= Entries`. `TypeCorrect` is about types, and about the mutexes of the
queues: who holds one is at the step that empties its queue. They assume of the constants that the
limit on descriptors is positive and the number of entries a natural number (`LimitAssumption`,
`EntriesAssumption`), that no file is the missing one or what descriptor 0 is open on at first
(`NoFileAssumption`), that `NoHandle` is no handle, and that no thread has the name of a lock's other
holders (`ProcsAssumption`).

### Directories

`TypeCorrect` holds without a hypothesis; that both sides remain trees is a lemma about each system
call. `KnownDirectories`, `NothingSunk` and `CloseFinds` (`[]KnownIsCached`, `[]SunkIsEmpty`,
`[]CloseFindsFile`) hold of every behaviour that is always `NotOvertaken`: no `rmdir` or `rename`
runs beside a revalidation of a name that it takes away or replaces (`Spec /\ []NotOvertaken =>
...`; the run explores the states that satisfy it). An entry timeout without limit, or a mount with
one thread, excludes it by itself. Otherwise nothing in the kernel keeps the two apart, and when a
revalidation is overtaken, all three are false (section 3). The invariant: of two operations that
share a name at most one changes it, and only lookups run beside a removal (`Apart`, `FilesApart`:
the locks of libfuse and the kernel as an invariant); the directory of an operation is cached while
it runs, also of a revalidation, if it was known when it began (`InUse`); the one that is being
fetched is not, so that `Sink` has nothing to throw away (`Missing`); an open file is in the cache,
and so is what is being closed; what is being unlinked is not open (`Held`).

### What is only model-checked

* Liveness (`OpTerminates`, `MutexIsReleased`): out of the prover's reach.
* The four properties of the core that are proved under hypotheses (`ValidatedIsCurrent`,
  `NoLostUpdate`, `ReadYourWrites`, `CloseFlushesWrites`) are false without most of them, as
  `stale_rename`, `refetch` and the list at the end of section 3 show.

## 5. Not modelled, and the plan

What the models leave out, and why:

* `ftruncate` and `fallocate` change the cached file and neither mark nor store it; the properties
  of `OpenFiles` are about writes.
* `alice_destroy`, and the writes that may be in the queues then: a late write, or one that an
  injected flush has left there, is stray anyway. (It destroys a thread that runs for ever, which ends the process.)
* `mknod`, `symlink`, `link`, `chmod`, `chown`, xattrs, locks, `ioctl` and `utimens`: one system
  call on the cache directory after `error_inject`, invisible to the server. Trees deeper than two
  levels.
* Edits of the configuration that do not go through an open file: a rename, a link or an unlink of its
  path. `error_inject` sees the old path of a rename or link only, so these may be injected into, and
  leave the old list in force.
* The second `fclose` of a file that `Store` could not read (`afs_client.cpp:364` and 395): what it
  does is undefined.
* `GetFileStat` changes nothing: the client shows whatever it returns, an empty directory if it
  failed.
* Path functions, option parsing, the errno tables, the generated Go code, `fsx.c`, and the
  prototype functions at the end of `afs_client.cpp`.

What is open: weaker hypotheses for the theorems of the core (`WritesAreReadBack` with renames that
all reach the server), and properties for the hazards that `PROJECT.json` lists without one.
