----------------------------- MODULE Directories -----------------------------
(***************************************************************************)
(* The directory tree: Makedir, Removedir, Rename and GetFileStat of the   *)
(* server, and one client that keeps part of the tree in its cache         *)
(* (makeParentDirs, fetchDirectory, fuseOpenDir).  The tree is two levels  *)
(* deep: directories, and files in them.                                   *)
(*                                                                         *)
(* A call takes effect and is answered in one step, and a store is one     *)
(* call.  Contents and modification times are left out: whether a cached   *)
(* entry is as new as the server's is open.                                *)
(***************************************************************************)
EXTENDS Integers

CONSTANTS
    Procs,        \* threads of libfuse
    Dirs,         \* names in the root; another client may make any of them a file
    Names,        \* names of the files in a directory
    None,
    Revalidates   \* does the kernel look up again a name it knows (entry_timeout)?

ASSUME RevalidatesAssumption == Revalidates \in BOOLEAN

VARIABLES
    up,      \* is the server running?
    srv,     \* the tree of the server
    cache,   \* the tree of the cache directory
    known,   \* the directories in the kernel's name cache
    opened,  \* the files that are open and have been written to
    pc, op, dir, name,  \* per thread: its operation and the path it is on
    reply    \* per thread: what TestAuth, or the call, has answered

kernelVars == <<known, opened>>
callVars == <<op, dir, name>>
vars == <<up, srv, cache, kernelVars, pc, callVars, reply>>

Kinds == {"absent", "dir", "file"}
Files == Dirs \X Names
In(d) == {d} \X Names

\* What each name in the root is, and the files in the directories.
Tree == [kind : [Dirs -> Kinds], files : SUBSET Files]
IsTree(t) == t \in Tree /\ \A f \in t.files : t.kind[f[1]] = "dir"
EmptyTree == [kind |-> [d \in Dirs |-> "absent"], files |-> {}]

\* Operations on a name of the root (the second name of a rename is one too),
\* and on a file in a directory.
DirOps == {"lookup", "revalidate", "getattr", "opendir", "mkdir", "rmdir", "rename"}
FileOps == {"stat", "open", "creat", "unlink", "close"}

ASSUME NoneAssumption == None \notin Dirs \cup Names \cup DirOps \cup FileOps

PCs == {"idle", "auth", "check", "parents", "sink", "swap", "fetch", "install", "call",
        "local"}

TypeOK ==
    /\ up \in BOOLEAN
    /\ IsTree(srv) /\ IsTree(cache)
    /\ known \subseteq Dirs /\ opened \subseteq Files
    /\ pc \in [Procs -> PCs]
    /\ op \in [Procs -> DirOps \cup FileOps \cup {None}]
    /\ dir \in [Procs -> Dirs \cup {None}]
    /\ name \in [Procs -> Dirs \cup Names \cup {None}]
    /\ reply \in [Procs -> Kinds]
    /\ \A p \in Procs :
        /\ pc[p] = "idle" <=> op[p] = None
        /\ pc[p] \in {"sink", "swap"} => reply[p] = "dir"
        /\ pc[p] \in {"fetch", "install"} => reply[p] = "file"

\* afs_fuse_setup has emptied the cache.
Init ==
    /\ up = TRUE
    /\ srv = EmptyTree /\ cache = EmptyTree
    /\ known = {} /\ opened = {}
    /\ pc = [p \in Procs |-> "idle"]
    /\ op = [p \in Procs |-> None]
    /\ dir = [p \in Procs |-> None] /\ name = [p \in Procs |-> None]
    /\ reply = [p \in Procs |-> "absent"]

-----------------------------------------------------------------------------
(* The system calls on a tree, in the base directory or in the cache.      *)

IsEmptyDir(t, d) == t.kind[d] = "dir" /\ t.files \cap In(d) = {}

\* Renaming moves a name over one that is not there, or of the same kind.
Succeeds(t, o, d, n) ==
    CASE o = "mkdir" -> t.kind[d] = "absent"
      [] o = "rmdir" -> IsEmptyDir(t, d)
      [] o = "rename" -> \/ t.kind[d] # "absent" /\ t.kind[n] = "absent"
                         \/ t.kind[d] = "file" /\ t.kind[n] = "file"
                         \/ t.kind[d] = "dir" /\ IsEmptyDir(t, n)
      [] o \in {"creat", "close"} -> t.kind[d] = "dir"
      [] o = "unlink" -> <<d, n>> \in t.files

Moved(f, d, e) == IF f[1] = d THEN <<e, f[2]>> ELSE f

After(t, o, d, n) ==
    CASE o = "mkdir" -> [t EXCEPT !.kind[d] = "dir"]
      [] o = "rmdir" -> [kind |-> [t.kind EXCEPT ![d] = "absent"], files |-> t.files \ In(d)]
      [] o = "rename" -> [kind |-> [t.kind EXCEPT ![d] = "absent", ![n] = t.kind[d]],
                          files |-> {Moved(f, d, n) : f \in t.files}]
      [] o \in {"creat", "close"} -> [t EXCEPT !.files = @ \cup {<<d, n>>}]
      [] o = "unlink" -> [t EXCEPT !.files = @ \ {<<d, n>>}]

-----------------------------------------------------------------------------
\* Operations that end with a lookup: libfuse adds one to a mkdir.
Lookups == {"lookup", "revalidate", "mkdir"}

OnFile(p) == op[p] \in FileOps
File(p) == <<dir[p], name[p]>>

\* What the path of an operation names in a tree.
At(t, p) ==
    IF ~OnFile(p) THEN t.kind[dir[p]] ELSE IF File(p) \in t.files THEN "file" ELSE "absent"

Goto(p, l) == pc' = [pc EXCEPT ![p] = l]

Return(p) ==
    /\ Goto(p, "idle")
    /\ op' = [op EXCEPT ![p] = None]
    /\ dir' = [dir EXCEPT ![p] = None]
    /\ name' = [name EXCEPT ![p] = None]
    /\ reply' = [reply EXCEPT ![p] = "absent"]

\* The last handle on a file is closed, or one of several.
Closed(p) == opened' \in {opened, opened \ {File(p)}}

\* An operation fails; a name that is looked up and not found is forgotten, and a
\* handle whose close fails is closed all the same.
Fail(p) ==
    /\ Return(p)
    /\ known' = IF op[p] \in Lookups THEN known \ {dir[p]} ELSE known
    /\ IF op[p] = "close" THEN Closed(p) ELSE UNCHANGED opened

-----------------------------------------------------------------------------
(* The kernel and libfuse.                                                 *)

Removals == {"rmdir", "rename"}
Changes == Removals \cup {"mkdir", "lookup"}

NamesOf(o, d, n) == IF o = "rename" THEN {d, n} ELSE {d}
Touches(p, d) == d \in NamesOf(op[p], dir[p], name[p])

\* The kernel locks the parent of a name that it changes or looks up for the first
\* time; libfuse removes or renames a directory when no operation in it or on it
\* is under way.  Nothing holds back the lookup of a name that is known.
Waits(p, o, d, n) ==
    \E q \in Procs \ {p} : \E x \in NamesOf(o, d, n) :
        /\ op[q] # None /\ Touches(q, x)
        /\ \/ o \in Changes /\ op[q] \in Changes
           \/ o \in Removals /\ op[q] \notin Lookups
           \/ op[q] \in Removals /\ o \notin Lookups

\* A directory is looked up before it is used, and a name made that was not found;
\* what is open can be closed after its directory was forgotten.  libfuse does not
\* remove a file that is open: it renames it (not modelled here).
Permits(o, d, n) ==
    /\ o = "mkdir" => d \notin known
    /\ o \notin {"lookup", "mkdir", "close"} => d \in known
    /\ o = "revalidate" => Revalidates
    /\ o \in {"creat", "unlink"} => <<d, n>> \notin opened
    /\ o = "close" => <<d, n>> \in opened

\* Nothing else opens, makes, closes or removes a file while it is made or removed.
Alone(o, d, n) ==
    \A q \in Procs : {o, op[q]} \subseteq FileOps \ {"stat"} /\ File(q) = <<d, n>> =>
        {o, op[q]} \cap {"creat", "unlink"} = {}

FirstStep(o) ==
    IF o \in {"mkdir", "rmdir", "rename", "creat", "unlink", "close"} THEN "call" ELSE "auth"

Begin(p, o, d, n) ==
    /\ pc[p] = "idle"
    /\ Permits(o, d, n) /\ ~Waits(p, o, d, n) /\ Alone(o, d, n)
    /\ op' = [op EXCEPT ![p] = o]
    /\ dir' = [dir EXCEPT ![p] = d]
    /\ name' = [name EXCEPT ![p] = n]
    /\ Goto(p, FirstStep(o))
    /\ UNCHANGED <<up, srv, cache, kernelVars, reply>>

Start(p) ==
    \E d \in Dirs :
        \/ \E o \in DirOps \ {"rename"} : Begin(p, o, d, None)
        \/ \E e \in Dirs \ {d} : Begin(p, "rename", d, e)
        \/ \E o \in FileOps, n \in Names : Begin(p, o, d, n)

-----------------------------------------------------------------------------
(* Fetch.                                                                  *)

\* Mutant: what the server no longer has is removed from the cache.
TestAuthRemoves(p) ==
    /\ pc[p] = "auth"
    /\ LET kind == At(IF up THEN srv ELSE cache, p)
       IN  IF kind = "absent"
           THEN /\ Return(p)
                /\ cache' = IF OnFile(p) THEN After(cache, "unlink", dir[p], name[p])
                            ELSE After(cache, "rmdir", dir[p], None)
                /\ UNCHANGED kernelVars
           ELSE /\ reply' = [reply EXCEPT ![p] = kind]
                /\ Goto(p, "check")
                /\ UNCHANGED <<cache, kernelVars, callVars>>
    /\ UNCHANGED <<up, srv>>

\* TestAuth; the client answers for a server that it does not reach.
TestAuth(p) ==
    /\ pc[p] = "auth"
    /\ LET kind == At(IF up THEN srv ELSE cache, p)
       IN  \/ kind = "absent" /\ Fail(p) /\ UNCHANGED cache
           \/ /\ kind # "absent"
              /\ reply' = [reply EXCEPT ![p] = kind]
              /\ Goto(p, "check")
              /\ UNCHANGED <<cache, kernelVars, callVars>>
    /\ UNCHANGED <<up, srv>>

\* Mutant: the mode is not looked at.
FetchStepRegular(p) == "fetch"

FetchStep(p) == IF reply[p] = "file" THEN "fetch" ELSE "sink"

\* Mutant: a cached directory is fetched again, as a cached file is.
CheckAlways(p) ==
    /\ pc[p] = "check"
    /\ \/ Goto(p, "local")
       \/ Goto(p, IF At(cache, p) = "absent" THEN "parents" ELSE FetchStep(p))
    /\ UNCHANGED <<up, srv, cache, kernelVars, callVars, reply>>

\* lstat, and the comparison, which reads an uninitialised statbuf when the entry
\* is not cached.  A directory is only fetched when nothing is cached.
CheckCache(p) ==
    /\ pc[p] = "check"
    /\ \/ Goto(p, "local")
       \/ Goto(p, IF At(cache, p) = "absent" THEN "parents"
                  ELSE IF reply[p] = "file" THEN "fetch" ELSE "local")
    /\ UNCHANGED <<up, srv, cache, kernelVars, callVars, reply>>

\* makeParentDirs: what is not a directory is unlinked, and mkdir may fail, as it
\* does when another thread has made the directory since lstat.
MakeParentDirs(p) ==
    /\ pc[p] = "parents"
    /\ LET blocked == OnFile(p) /\ cache.kind[dir[p]] # "dir"
       IN  \/ /\ cache' = IF blocked THEN After(cache, "mkdir", dir[p], None) ELSE cache
              /\ Goto(p, FetchStep(p))
              /\ UNCHANGED <<kernelVars, callVars, reply>>
           \/ /\ blocked
              /\ cache' = After(cache, "rmdir", dir[p], None)
              /\ Fail(p)
    /\ UNCHANGED <<up, srv>>

\* fetchDirectory moves what is in the way into an empty directory ...
Sink(p) ==
    /\ pc[p] = "sink"
    /\ \/ cache.kind[dir[p]] = "file" /\ Fail(p) /\ UNCHANGED cache
       \/ /\ cache.kind[dir[p]] # "file"
          /\ cache' = [kind |-> [cache.kind EXCEPT ![dir[p]] = "absent"],
                       files |-> cache.files \ In(dir[p])]
          /\ Goto(p, "swap")
          /\ UNCHANGED <<kernelVars, callVars, reply>>
    /\ UNCHANGED <<up, srv>>

\* ... and renames another empty directory to the path.
Swap(p) ==
    /\ pc[p] = "swap"
    /\ LET fits == cache.kind[dir[p]] = "absent" \/ IsEmptyDir(cache, dir[p])
       IN  \/ ~fits /\ Fail(p) /\ UNCHANGED cache
           \/ /\ fits
              /\ cache' = After(cache, "mkdir", dir[p], None)
              /\ Goto(p, "local")
              /\ UNCHANGED <<kernelVars, callVars, reply>>
    /\ UNCHANGED <<up, srv>>

\* fetchRegular: the stream, which has no effect if the server is not reached ...
FetchData(p) ==
    /\ pc[p] = "fetch"
    /\ \/ up /\ At(srv, p) # "file" /\ Fail(p) /\ UNCHANGED cache
       \/ /\ ~up \/ At(srv, p) = "file"
          /\ Goto(p, IF up THEN "install" ELSE "local")
          /\ UNCHANGED <<cache, kernelVars, callVars, reply>>
    /\ UNCHANGED <<up, srv>>

\* ... and the rename of the temporary file to the path.
Install(p) ==
    /\ pc[p] = "install"
    /\ LET fits == (cache.kind[dir[p]] = "dir") = OnFile(p)
       IN  \/ ~fits /\ Fail(p) /\ UNCHANGED cache
           \/ /\ fits
              /\ cache' = IF OnFile(p) THEN After(cache, "creat", dir[p], name[p])
                          ELSE [cache EXCEPT !.kind[dir[p]] = "file"]
              /\ Goto(p, "local")
              /\ UNCHANGED <<kernelVars, callVars, reply>>
    /\ UNCHANGED <<up, srv>>

-----------------------------------------------------------------------------
(* Calls that change the tree, and what follows in the cache.              *)

\* A creat and a mkdir (its lookup) go on to Fetch.  A close finds the file under its
\* path or fails.  The server may die after it has served the call.  A call that does
\* not get through counts as a success, and so does a store that is refused.
Call(p) ==
    /\ pc[p] = "call"
    /\ LET can == Succeeds(srv, op[p], dir[p], name[p])
           lost == op[p] = "close" /\ File(p) \notin cache.files
           passed == IF op[p] \in {"mkdir", "creat"} THEN "auth" ELSE "local"
       IN  \/ /\ lost \/ (up /\ ~can /\ op[p] # "close")
              /\ Fail(p) /\ UNCHANGED <<up, srv, cache>>
           \/ /\ up /\ can /\ ~lost
              /\ srv' = After(srv, op[p], dir[p], name[p])
              /\ up' \in BOOLEAN
              /\ Goto(p, passed)
              /\ UNCHANGED <<cache, kernelVars, callVars, reply>>
           \/ /\ ~up \/ (~can /\ op[p] = "close")
              /\ ~lost
              /\ Goto(p, passed)
              /\ UNCHANGED <<up, srv, cache, kernelVars, callVars, reply>>

\* Mutant: the cached directory is removed with what is in it.
RemovableAnyway(p) == cache.kind[dir[p]] = "dir"

Removable(p) == IsEmptyDir(cache, dir[p])

\* lstat: the kernel learns, or makes, a directory.
LocalLookup(p) ==
    /\ op[p] \in Lookups
    /\ known' = IF cache.kind[dir[p]] = "dir" THEN known \cup {dir[p]} ELSE known \ {dir[p]}
    /\ UNCHANGED <<cache, opened>>

LocalRmdir(p) ==
    /\ op[p] = "rmdir" /\ Removable(p)
    /\ cache' = After(cache, "rmdir", dir[p], None)
    /\ known' = known \ {dir[p]}
    /\ UNCHANGED opened

LocalRename(p) ==
    /\ op[p] = "rename" /\ Succeeds(cache, "rename", dir[p], name[p])
    /\ cache' = After(cache, "rename", dir[p], name[p])
    /\ known' = (known \ {dir[p]}) \cup {name[p]}
    /\ opened' = {Moved(f, dir[p], name[p]) : f \in opened}

LocalOpen(p) ==
    /\ \/ op[p] = "open" /\ File(p) \in cache.files /\ UNCHANGED cache
       \/ /\ op[p] = "creat" /\ cache.kind[dir[p]] = "dir"
          /\ cache' = After(cache, "creat", dir[p], name[p])
    /\ opened' = opened \cup {File(p)}
    /\ UNCHANGED known

LocalUnlink(p) ==
    /\ op[p] = "unlink"
    /\ cache' = After(cache, "unlink", dir[p], name[p])
    /\ UNCHANGED kernelVars

LocalClose(p) ==
    /\ op[p] = "close"
    /\ Closed(p)
    /\ UNCHANGED <<cache, known>>

\* Nothing to do, or a system call that fails.
LocalNothing(p) ==
    /\ \/ op[p] \in {"getattr", "stat"}
       \/ op[p] = "rmdir" /\ ~Removable(p)
       \/ op[p] = "rename" /\ ~Succeeds(cache, "rename", dir[p], name[p])
       \/ op[p] = "open" /\ File(p) \notin cache.files
       \/ op[p] = "creat" /\ cache.kind[dir[p]] # "dir"
    /\ UNCHANGED <<cache, kernelVars>>

\* The system call that follows Fetch or the call, and the operation returns.
Local(p) ==
    /\ pc[p] = "local" /\ op[p] # "opendir"
    /\ \/ LocalLookup(p) \/ LocalRmdir(p) \/ LocalRename(p) \/ LocalOpen(p)
       \/ LocalUnlink(p) \/ LocalClose(p) \/ LocalNothing(p)
    /\ Return(p)
    /\ UNCHANGED <<up, srv>>

\* fuseOpenDir, for opendir, readdir and fsyncdir: GetFileStat changes nothing.
OpenDir(p) ==
    /\ pc[p] = "local" /\ op[p] = "opendir"
    /\ Return(p)
    /\ UNCHANGED <<up, srv, cache, kernelVars>>

-----------------------------------------------------------------------------
\* Other clients change the server's tree; a name may become a file.
Elsewhere ==
    /\ up
    /\ \E d \in Dirs :
        \/ \E o \in {"mkdir", "rmdir"} : Succeeds(srv, o, d, None) /\ srv' = After(srv, o, d, None)
        \/ \E o \in {"creat", "unlink"}, n \in Names :
            Succeeds(srv, o, d, n) /\ srv' = After(srv, o, d, n)
        \/ srv.kind[d] = "absent" /\ srv' = [srv EXCEPT !.kind[d] = "file"]
        \/ srv.kind[d] = "file" /\ srv' = [srv EXCEPT !.kind[d] = "absent"]
    /\ UNCHANGED <<up, cache, kernelVars, pc, callVars, reply>>

CrashOrRestart ==
    /\ up' = ~up
    /\ UNCHANGED <<srv, cache, kernelVars, pc, callVars, reply>>

Next ==
    \/ \E p \in Procs :
        \/ Start(p) \/ TestAuth(p) \/ CheckCache(p) \/ MakeParentDirs(p) \/ Sink(p) \/ Swap(p)
        \/ FetchData(p) \/ Install(p) \/ Call(p) \/ Local(p) \/ OpenDir(p)
    \/ Elsewhere \/ CrashOrRestart

Spec == Init /\ [][Next]_vars

-----------------------------------------------------------------------------
(* Properties.                                                             *)

\* No directory is removed or renamed while the kernel looks up again a name that
\* this takes away or replaces.
NotOvertaken ==
    \A p, q \in Procs :
        op[p] = "revalidate" /\ op[q] \in Removals => dir[p] \notin NamesOf(op[q], dir[q], name[q])

\* A directory that the kernel knows is in the cache, whatever becomes of it at
\* the server: open, creat and unlink in it find it there.
KnownIsCached == \A d \in known : cache.kind[d] = "dir"

\* fetchDirectory replaces nothing but an empty directory: what it moves out of
\* the way, and does not put back, are no cached files.
SunkIsEmpty == \A p \in Procs : pc[p] = "sink" => cache.files \cap In(dir[p]) = {}

\* Close sends the file that the path names: the path of an open file leads to a
\* file, whatever happens to its directory in the meantime.
CloseFindsFile == \A p \in Procs : pc[p] = "call" /\ op[p] = "close" => File(p) \in cache.files
=============================================================================
