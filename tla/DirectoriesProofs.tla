-------------------------- MODULE DirectoriesProofs --------------------------
(***************************************************************************)
(* Proofs about Directories: its types, and what its three invariants rest *)
(* on.  For the invariants no removal may overtake a revalidation: if one  *)
(* finds nothing cached, as the directory has just been renamed, it goes   *)
(* on to fetchDirectory, and moves what another thread has put there since *)
(* out of the way.                                                         *)
(***************************************************************************)
EXTENDS Directories, TLAPS

\* An operation under way has a path of its kind.
PathInv ==
    \A p \in Procs : op[p] # None =>
        /\ dir[p] \in Dirs
        /\ OnFile(p) => name[p] \in Names
        /\ op[p] = "rename" => name[p] \in Dirs \ {dir[p]}
        /\ op[p] = "revalidate" => Revalidates

\* What an operation has come to, its step tells.
StageInv ==
    \A p \in Procs :
        /\ pc[p] = "call" => op[p] \in {"mkdir", "rmdir", "rename", "creat", "unlink", "close"}
        /\ pc[p] \in {"check", "parents"} => reply[p] # "absent"
        /\ pc[p] \in {"check", "parents", "sink", "swap"} /\ OnFile(p) => reply[p] = "file"

Typing == TypeOK /\ PathInv /\ StageInv

\* Two operations that share a name in the root: at most one of them is a change,
\* and what is under way besides the removal of a directory looks it up.
Apart ==
    \A p, q \in Procs : \A x \in Dirs :
        p # q /\ op[p] # None /\ op[q] # None /\ Touches(p, x) /\ Touches(q, x) =>
            /\ ~(op[p] \in Changes /\ op[q] \in Changes)
            /\ op[p] \in Removals => op[q] \in Lookups

\* Nothing else opens, makes, closes or removes a file that is made or removed.
FilesApart ==
    \A p, q \in Procs :
        p # q /\ op[p] \in {"creat", "unlink"} /\ op[q] \in FileOps \ {"stat"} => File(p) # File(q)

\* Operations on a name that the kernel does not know when they begin.
Finders == {"lookup", "mkdir"}

\* The directory of any other operation is in the cache while it runs.
InUse == \A p \in Procs : op[p] \notin Finders \cup {None} => cache.kind[dir[p]] = "dir"

\* A directory that is being fetched is not in the cache until it is swapped in.
Missing ==
    \A p \in Procs :
        pc[p] \in {"parents", "sink", "swap"} /\ ~OnFile(p) => cache.kind[dir[p]] = "absent"

\* An open file is in the cache, and so is what is being closed; what is being
\* removed is not open.
Held ==
    /\ opened \subseteq cache.files
    /\ \A p \in Procs :
        /\ op[p] = "close" => File(p) \in cache.files
        /\ op[p] = "unlink" => File(p) \notin opened

Inv ==
    /\ Typing
    /\ Apart /\ FilesApart
    /\ KnownIsCached /\ InUse /\ Missing
    /\ Held

-----------------------------------------------------------------------------
(* The trees.                                                              *)

\* What the system calls leave is a tree.
LEMMA MadeIsTree == ASSUME NEW t, IsTree(t), NEW d \in Dirs, NEW n
                    PROVE  IsTree(After(t, "mkdir", d, n))
BY DEF IsTree, Tree, Kinds, Files, After

LEMMA RemovedIsTree == ASSUME NEW t, IsTree(t), NEW d \in Dirs, NEW n
                       PROVE  IsTree(After(t, "rmdir", d, n))
BY DEF IsTree, Tree, Kinds, Files, After, In

LEMMA FileMadeIsTree ==
    ASSUME NEW t, IsTree(t), NEW d \in Dirs, NEW n \in Names, NEW o \in {"creat", "close"},
           t.kind[d] = "dir"
    PROVE  IsTree(After(t, o, d, n))
BY DEF IsTree, Tree, Kinds, Files, After

LEMMA FileRemovedIsTree ==
    ASSUME NEW t, IsTree(t), NEW d \in Dirs, NEW n \in Names
    PROVE  IsTree(After(t, "unlink", d, n))
BY DEF IsTree, Tree, Kinds, Files, After

\* The name that a rename replaces had no files, so that every file keeps a directory.
LEMMA RenamedIsTree ==
    ASSUME NEW t, IsTree(t), NEW d \in Dirs, NEW e \in Dirs \ {d}, Succeeds(t, "rename", d, e)
    PROVE  IsTree(After(t, "rename", d, e))
<1> DEFINE u == After(t, "rename", d, e)
<1>1. /\ u.kind = [t.kind EXCEPT ![d] = "absent", ![e] = t.kind[d]]
      /\ u.files = {Moved(f, d, e) : f \in t.files}
      /\ u = [kind |-> u.kind, files |-> u.files]
  BY DEF After
<1>2. t.kind \in [Dirs -> Kinds] /\ t.files \subseteq Dirs \X Names
  BY DEF IsTree, Tree, Files
<1>3. \A f \in t.files : f[1] # e
  <2> SUFFICES ASSUME NEW f \in t.files, f[1] = e PROVE FALSE
    OBVIOUS
  <2>1. t.kind[e] = "dir" /\ f \in In(e)
    BY <1>2 DEF IsTree, In
  <2>2. ~IsEmptyDir(t, e)
    BY <2>1 DEF IsEmptyDir
  <2> QED
    BY <2>1, <2>2 DEF Succeeds
<1>4. u.kind \in [Dirs -> Kinds]
  BY <1>1, <1>2 DEF Kinds
<1>5. ASSUME NEW f \in t.files
      PROVE  Moved(f, d, e) \in Files /\ u.kind[Moved(f, d, e)[1]] = "dir"
  <2>1. t.kind[f[1]] = "dir" /\ f[1] \in Dirs /\ f[2] \in Names
    BY <1>2 DEF IsTree
  <2>2. CASE f[1] = d
    BY <2>1, <2>2, <1>1, <1>2 DEF Moved, Files
  <2>3. CASE f[1] # d
    BY <2>1, <2>3, <1>1, <1>2, <1>3 DEF Moved, Files
  <2> QED
    BY <2>2, <2>3
<1>6. u.files \in SUBSET Files /\ \A f \in u.files : u.kind[f[1]] = "dir"
  BY <1>1, <1>5
<1> HIDE DEF u
<1>7. u \in Tree
  BY <1>1, <1>4, <1>6 DEF Tree
<1> QED
  BY <1>6, <1>7 DEF IsTree, u

LEMMA ServedIsTree ==
    ASSUME NEW t, IsTree(t), NEW o \in {"mkdir", "rmdir", "rename", "creat", "unlink", "close"},
           NEW d \in Dirs, NEW n, o \in FileOps => n \in Names,
           o = "rename" => n \in Dirs \ {d},
           Succeeds(t, o, d, n)
    PROVE  IsTree(After(t, o, d, n))
<1>1. CASE o \in {"creat", "close"}
  <2>1. t.kind[d] = "dir"
    BY <1>1 DEF Succeeds
  <2> QED
    BY <1>1, <2>1, FileMadeIsTree DEF FileOps
<1>2. CASE o = "rename"
  BY <1>2, RenamedIsTree
<1>3. CASE o = "unlink"
  BY <1>3, FileRemovedIsTree DEF FileOps
<1> QED
  BY <1>1, <1>2, <1>3, MadeIsTree, RemovedIsTree

-----------------------------------------------------------------------------
(* The types.                                                              *)

LEMMA OpsAreNotNone == None \notin DirOps \cup FileOps /\ None \notin Dirs \cup Names
BY NoneAssumption

\* The types of what a thread keeps, by thread.
Typed(p) ==
    /\ pc[p] \in PCs /\ op[p] \in DirOps \cup FileOps \cup {None}
    /\ dir[p] \in Dirs \cup {None} /\ name[p] \in Dirs \cup Names \cup {None}
    /\ reply[p] \in Kinds
    /\ pc[p] = "idle" <=> op[p] = None
    /\ pc[p] \in {"sink", "swap"} => reply[p] = "dir"
    /\ pc[p] \in {"fetch", "install"} => reply[p] = "file"
    /\ op[p] # None =>
         /\ dir[p] \in Dirs
         /\ OnFile(p) => name[p] \in Names
         /\ op[p] = "rename" => name[p] \in Dirs \ {dir[p]}
         /\ op[p] = "revalidate" => Revalidates
    /\ pc[p] = "call" => op[p] \in {"mkdir", "rmdir", "rename", "creat", "unlink", "close"}
    /\ pc[p] \in {"check", "parents"} => reply[p] # "absent"
    /\ pc[p] \in {"check", "parents", "sink", "swap"} /\ OnFile(p) => reply[p] = "file"

Arrays ==
    /\ DOMAIN pc = Procs /\ DOMAIN op = Procs /\ DOMAIN dir = Procs /\ DOMAIN name = Procs
    /\ DOMAIN reply = Procs
    /\ pc = [p \in Procs |-> pc[p]] /\ op = [p \in Procs |-> op[p]]
    /\ dir = [p \in Procs |-> dir[p]] /\ name = [p \in Procs |-> name[p]]
    /\ reply = [p \in Procs |-> reply[p]]

Globals ==
    /\ up \in BOOLEAN
    /\ IsTree(srv) /\ IsTree(cache)
    /\ known \subseteq Dirs /\ opened \subseteq Files

LEMMA TypingByThread == Typing <=> Globals /\ Arrays /\ \A p \in Procs : Typed(p)
<1>1. Typing => Globals /\ Arrays /\ \A p \in Procs : Typed(p)
  BY DEF Typing, TypeOK, PathInv, StageInv, Globals, Arrays, Typed
<1>2. Globals /\ Arrays /\ (\A p \in Procs : Typed(p)) => Typing
  BY DEF Typing, TypeOK, PathInv, StageInv, Globals, Arrays, Typed
<1> QED
  BY <1>1, <1>2

LEMMA InitTyping == Init => Typing
BY OpsAreNotNone DEF Init, Typing, TypeOK, PathInv, StageInv, EmptyTree, IsTree, Tree, Kinds, Files,
   PCs, OnFile, FileOps

SameCall(q) ==
    /\ pc'[q] = pc[q] /\ op'[q] = op[q] /\ dir'[q] = dir[q] /\ name'[q] = name[q]
    /\ reply'[q] = reply[q]

LEMMA SameCallTyped ==
    ASSUME NEW q \in Procs, SameCall(q), Typed(q) PROVE Typed(q)'
BY DEF SameCall, Typed, OnFile

\* What a step of p has to show: where p is, and the trees.
LEMMA TypingStep ==
    ASSUME NEW p \in Procs, Typing, Arrays', Globals', Typed(p)',
           \A q \in Procs \ {p} : SameCall(q)
    PROVE  Typing'
<1>1. \A q \in Procs \ {p} : Typed(q)'
  BY TypingByThread, SameCallTyped
<1>2. Globals' /\ Arrays' /\ \A q \in Procs : Typed(q)'
  BY <1>1
<1> QED
  BY <1>2 DEF Typing, TypeOK, PathInv, StageInv, Globals, Arrays, Typed, OnFile

LEMMA Returns ==
    ASSUME NEW p \in Procs, Typing, Return(p)
    PROVE  /\ Arrays' /\ Typed(p)'
           /\ pc'[p] = "idle" /\ op'[p] = None
           /\ \A q \in Procs \ {p} : SameCall(q)
<1>1. Arrays
  BY TypingByThread
<1>2. /\ Arrays'
      /\ pc'[p] = "idle" /\ op'[p] = None /\ dir'[p] = None /\ name'[p] = None
      /\ reply'[p] = "absent"
      /\ \A q \in Procs \ {p} : SameCall(q)
  BY <1>1 DEF Return, Goto, Arrays, SameCall
<1>3. Typed(p)'
  BY <1>2, OpsAreNotNone DEF Typed, Kinds, PCs, OnFile, FileOps
<1> QED
  BY <1>2, <1>3

\* A step to l, which may have set the reply.
LEMMA Goes ==
    ASSUME NEW p \in Procs, NEW l, Typing, Goto(p, l), UNCHANGED callVars,
           NEW r, reply' = [reply EXCEPT ![p] = r]
    PROVE  /\ Arrays'
           /\ pc'[p] = l /\ op'[p] = op[p] /\ dir'[p] = dir[p] /\ name'[p] = name[p]
           /\ reply'[p] = r
           /\ \A q \in Procs \ {p} : SameCall(q)
<1>1. Arrays
  BY TypingByThread
<1> QED
  BY <1>1 DEF Goto, Arrays, SameCall, callVars

LEMMA GoesOn ==
    ASSUME NEW p \in Procs, NEW l, Typing, Goto(p, l), UNCHANGED <<callVars, reply>>
    PROVE  /\ Arrays'
           /\ pc'[p] = l /\ op'[p] = op[p] /\ dir'[p] = dir[p] /\ name'[p] = name[p]
           /\ reply'[p] = reply[p]
           /\ \A q \in Procs \ {p} : SameCall(q)
<1>1. Arrays
  BY TypingByThread
<1> QED
  BY <1>1 DEF Goto, Arrays, SameCall, callVars

LEMMA FailTyping ==
    ASSUME NEW p \in Procs, Typing, Fail(p), Globals, up' \in BOOLEAN, srv' = srv,
           IsTree(cache')
    PROVE  Typing'
<1>1. Return(p)
  BY DEF Fail
<1>2. Globals'
  BY <1>1 DEF Fail, Closed, Globals
<1> QED
  BY <1>1, <1>2, Returns, TypingStep

LEMMA StartTyping ==
    ASSUME NEW p \in Procs, Typing, NEW o, NEW d \in Dirs, NEW n \in Dirs \cup Names \cup {None},
           o \in DirOps \ {"rename"} \/ (o = "rename" /\ n \in Dirs \ {d})
             \/ (o \in FileOps /\ n \in Names),
           Begin(p, o, d, n)
    PROVE  Typing'
<1>1. Arrays /\ Globals /\ Typed(p)
  BY TypingByThread
<1>2. /\ Arrays'
      /\ pc'[p] = FirstStep(o) /\ op'[p] = o /\ dir'[p] = d /\ name'[p] = n
      /\ reply'[p] = reply[p]
      /\ \A q \in Procs \ {p} : SameCall(q)
  BY <1>1 DEF Begin, Goto, Arrays, SameCall
<1>3. Globals'
  BY <1>1 DEF Begin, Globals, kernelVars
<1>4. o \in DirOps \cup FileOps /\ o # None /\ (o \in FileOps => n \in Names)
  BY OpsAreNotNone DEF DirOps, FileOps
<1>5. o = "revalidate" => Revalidates
  BY DEF Begin, Permits
<1>6. FirstStep(o) \in {"call", "auth"}
      /\ (FirstStep(o) = "call" => o \in {"mkdir", "rmdir", "rename", "creat", "unlink", "close"})
  BY DEF FirstStep
<1>7. o = "rename" => n \in Dirs \ {d}
  BY DEF FileOps
<1>8. Typed(p)'
  BY <1>1, <1>2, <1>4, <1>5, <1>6, <1>7 DEF Typed, OnFile, PCs
<1> QED
  BY <1>2, <1>3, <1>8, TypingStep

LEMMA AuthTyping == ASSUME NEW p \in Procs, Typing, TestAuth(p) PROVE Typing'
<1> DEFINE kind == At(IF up THEN srv ELSE cache, p)
<1>1. Arrays /\ Globals /\ Typed(p)
  BY TypingByThread
<1>2. CASE Fail(p) /\ cache' = cache
  BY <1>1, <1>2, FailTyping DEF TestAuth, Globals
<1>3. CASE ~(Fail(p) /\ cache' = cache)
  <2>1. /\ pc[p] = "auth" /\ kind # "absent" /\ reply' = [reply EXCEPT ![p] = kind]
        /\ Goto(p, "check") /\ UNCHANGED <<cache, kernelVars, callVars>> /\ UNCHANGED <<up, srv>>
    BY <1>3 DEF TestAuth
  <2>2. op[p] # None /\ dir[p] \in Dirs
    BY <1>1, <2>1 DEF Typed
  <2>3. kind \in Kinds /\ (OnFile(p) => kind = "file")
    BY <1>1, <2>1, <2>2 DEF Globals, IsTree, Tree, At, Kinds
  <2>4. Arrays' /\ (\A q \in Procs \ {p} : SameCall(q))
        /\ pc'[p] = "check" /\ op'[p] = op[p] /\ dir'[p] = dir[p] /\ name'[p] = name[p]
        /\ reply'[p] = kind
    BY <2>1, Goes
  <2>5. Globals'
    BY <1>1, <2>1 DEF Globals, kernelVars
  <2> HIDE DEF kind
  <2>6. Typed(p)'
    BY <1>1, <2>1, <2>2, <2>3, <2>4 DEF Typed, OnFile, PCs
  <2> QED
    BY <2>4, <2>5, <2>6, TypingStep
<1> QED
  BY <1>2, <1>3

LEMMA CheckTyping == ASSUME NEW p \in Procs, Typing, CheckCache(p) PROVE Typing'
<1>1. Arrays /\ Globals /\ Typed(p)
  BY TypingByThread
<1>2. PICK l \in {"local", "parents", "fetch"} : Goto(p, l) /\ (l = "fetch" => reply[p] = "file")
  BY DEF CheckCache
<1>3. Arrays' /\ (\A q \in Procs \ {p} : SameCall(q))
      /\ pc'[p] = l /\ op'[p] = op[p] /\ dir'[p] = dir[p] /\ name'[p] = name[p]
      /\ reply'[p] = reply[p]
  BY <1>2, GoesOn DEF CheckCache
<1>4. Globals'
  BY <1>1 DEF CheckCache, Globals, kernelVars
<1>5. Typed(p)'
  BY <1>1, <1>2, <1>3 DEF Typed, OnFile, PCs, CheckCache
<1> QED
  BY <1>3, <1>4, <1>5, TypingStep

LEMMA ParentsTyping == ASSUME NEW p \in Procs, Typing, MakeParentDirs(p) PROVE Typing'
<1>1. Arrays /\ Globals /\ Typed(p)
  BY TypingByThread
<1>2. dir[p] \in Dirs
  BY <1>1 DEF MakeParentDirs, Typed
<1>3. /\ IsTree(After(cache, "mkdir", dir[p], None))
      /\ IsTree(After(cache, "rmdir", dir[p], None))
  BY <1>1, <1>2, MadeIsTree, RemovedIsTree DEF Globals
<1>4. IsTree(cache')
  BY <1>1, <1>3 DEF MakeParentDirs, Globals
<1>5. CASE Fail(p)
  BY <1>1, <1>4, <1>5, FailTyping DEF MakeParentDirs, Globals
<1>6. CASE ~Fail(p)
  <2>1. Arrays' /\ (\A q \in Procs \ {p} : SameCall(q))
        /\ pc'[p] = FetchStep(p) /\ op'[p] = op[p] /\ dir'[p] = dir[p] /\ name'[p] = name[p]
        /\ reply'[p] = reply[p]
    BY <1>6, GoesOn DEF MakeParentDirs
  <2>2. Globals'
    BY <1>1, <1>4, <1>6 DEF MakeParentDirs, Globals, kernelVars
  <2>3. Typed(p)'
    BY <1>1, <2>1 DEF Typed, OnFile, PCs, MakeParentDirs, FetchStep, Kinds
  <2> QED
    BY <2>1, <2>2, <2>3, TypingStep
<1> QED
  BY <1>5, <1>6

LEMMA SinkTyping == ASSUME NEW p \in Procs, Typing, Sink(p) PROVE Typing'
<1>1. Arrays /\ Globals /\ Typed(p)
  BY TypingByThread
<1>2. CASE Fail(p) /\ cache' = cache
  BY <1>1, <1>2, FailTyping DEF Sink, Globals
<1>3. CASE ~(Fail(p) /\ cache' = cache)
  <2>1. dir[p] \in Dirs
    BY <1>1 DEF Sink, Typed
  <2>2. cache' = After(cache, "rmdir", dir[p], None)
    BY <1>3 DEF Sink, After
  <2>3. Arrays' /\ (\A q \in Procs \ {p} : SameCall(q))
        /\ pc'[p] = "swap" /\ op'[p] = op[p] /\ dir'[p] = dir[p] /\ name'[p] = name[p]
        /\ reply'[p] = reply[p]
    BY <1>3, GoesOn DEF Sink
  <2>4. IsTree(cache')
    BY <1>1, <2>1, <2>2, RemovedIsTree DEF Globals
  <2>5. Globals'
    BY <1>1, <1>3, <2>4 DEF Sink, Globals, kernelVars
  <2>6. Typed(p)'
    BY <1>1, <2>3 DEF Typed, OnFile, PCs, Sink
  <2> QED
    BY <2>3, <2>5, <2>6, TypingStep
<1> QED
  BY <1>2, <1>3

LEMMA SwapTyping == ASSUME NEW p \in Procs, Typing, Swap(p) PROVE Typing'
<1>1. Arrays /\ Globals /\ Typed(p)
  BY TypingByThread
<1>2. CASE Fail(p) /\ cache' = cache
  BY <1>1, <1>2, FailTyping DEF Swap, Globals
<1>3. CASE ~(Fail(p) /\ cache' = cache)
  <2>1. dir[p] \in Dirs
    BY <1>1 DEF Swap, Typed
  <2>2. Arrays' /\ (\A q \in Procs \ {p} : SameCall(q))
        /\ pc'[p] = "local" /\ op'[p] = op[p] /\ dir'[p] = dir[p] /\ name'[p] = name[p]
        /\ reply'[p] = reply[p]
    BY <1>3, GoesOn DEF Swap
  <2>3. cache' = After(cache, "mkdir", dir[p], None)
    BY <1>3 DEF Swap
  <2>4. IsTree(cache')
    BY <1>1, <2>1, <2>3, MadeIsTree DEF Globals
  <2>5. Globals'
    BY <1>1, <1>3, <2>4 DEF Swap, Globals, kernelVars
  <2>6. Typed(p)'
    BY <1>1, <2>2 DEF Typed, OnFile, PCs, Swap
  <2> QED
    BY <2>2, <2>5, <2>6, TypingStep
<1> QED
  BY <1>2, <1>3

LEMMA FetchTyping == ASSUME NEW p \in Procs, Typing, FetchData(p) PROVE Typing'
<1>1. Arrays /\ Globals /\ Typed(p)
  BY TypingByThread
<1>2. CASE Fail(p) /\ cache' = cache
  BY <1>1, <1>2, FailTyping DEF FetchData, Globals
<1>3. CASE ~(Fail(p) /\ cache' = cache)
  <2>1. PICK l \in {"install", "local"} : Goto(p, l)
    BY <1>3 DEF FetchData
  <2>2. Arrays' /\ (\A q \in Procs \ {p} : SameCall(q))
        /\ pc'[p] = l /\ op'[p] = op[p] /\ dir'[p] = dir[p] /\ name'[p] = name[p]
        /\ reply'[p] = reply[p]
    BY <1>3, <2>1, GoesOn DEF FetchData
  <2>3. Globals'
    BY <1>1, <1>3 DEF FetchData, Globals, kernelVars
  <2>4. Typed(p)'
    BY <1>1, <2>2 DEF Typed, OnFile, PCs, FetchData
  <2> QED
    BY <2>2, <2>3, <2>4, TypingStep
<1> QED
  BY <1>2, <1>3

LEMMA InstallTyping == ASSUME NEW p \in Procs, Typing, Install(p) PROVE Typing'
<1>1. Arrays /\ Globals /\ Typed(p)
  BY TypingByThread
<1>2. CASE Fail(p) /\ cache' = cache
  BY <1>1, <1>2, FailTyping DEF Install, Globals
<1>3. CASE ~(Fail(p) /\ cache' = cache)
  <2>1. dir[p] \in Dirs /\ (OnFile(p) => name[p] \in Names)
    BY <1>1 DEF Install, Typed
  <2>2. Arrays' /\ (\A q \in Procs \ {p} : SameCall(q))
        /\ pc'[p] = "local" /\ op'[p] = op[p] /\ dir'[p] = dir[p] /\ name'[p] = name[p]
        /\ reply'[p] = reply[p]
    BY <1>3, GoesOn DEF Install
  <2>3. /\ (cache.kind[dir[p]] = "dir") = OnFile(p)
        /\ cache' = IF OnFile(p) THEN After(cache, "creat", dir[p], name[p])
                    ELSE [cache EXCEPT !.kind[dir[p]] = "file"]
    BY <1>3 DEF Install
  <2>4. IsTree(cache')
    <3>1. CASE OnFile(p)
      BY <3>1, <1>1, <2>1, <2>3, FileMadeIsTree DEF Globals
    <3>2. CASE ~OnFile(p)
      BY <3>2, <1>1, <2>1, <2>3 DEF Globals, IsTree, Tree, Files, Kinds, OnFile
    <3> QED
      BY <3>1, <3>2
  <2>5. Globals'
    BY <1>1, <1>3, <2>4 DEF Install, Globals, kernelVars
  <2>6. Typed(p)'
    BY <1>1, <2>2 DEF Typed, OnFile, PCs, Install
  <2> QED
    BY <2>2, <2>5, <2>6, TypingStep
<1> QED
  BY <1>2, <1>3

LEMMA CallTyping == ASSUME NEW p \in Procs, Typing, Call(p) PROVE Typing'
<1> DEFINE can == Succeeds(srv, op[p], dir[p], name[p])
           passed == IF op[p] \in {"mkdir", "creat"} THEN "auth" ELSE "local"
<1>1. Arrays /\ Globals /\ Typed(p)
  BY TypingByThread
<1>2. CASE Fail(p) /\ UNCHANGED <<up, srv, cache>>
  BY <1>1, <1>2, FailTyping DEF Globals
<1>3. CASE ~(Fail(p) /\ UNCHANGED <<up, srv, cache>>)
  <2>1. /\ pc[p] = "call" /\ Goto(p, passed) /\ UNCHANGED <<cache, kernelVars, callVars, reply>>
        /\ up' \in BOOLEAN
        /\ srv' = srv \/ (can /\ srv' = After(srv, op[p], dir[p], name[p]))
    BY <1>1, <1>3 DEF Call, Globals
  <2>2. /\ dir[p] \in Dirs
        /\ op[p] \in {"mkdir", "rmdir", "rename", "creat", "unlink", "close"}
        /\ op[p] \in FileOps => name[p] \in Names
        /\ op[p] = "rename" => name[p] \in Dirs \ {dir[p]}
    BY <1>1, <2>1 DEF Typed, OnFile
  <2>3. IsTree(srv')
    BY <1>1, <2>1, <2>2, ServedIsTree DEF Globals
  <2>4. Globals'
    BY <1>1, <2>1, <2>3 DEF Globals, kernelVars
  <2>5. Arrays' /\ (\A q \in Procs \ {p} : SameCall(q))
        /\ pc'[p] = passed /\ op'[p] = op[p] /\ dir'[p] = dir[p] /\ name'[p] = name[p]
        /\ reply'[p] = reply[p]
    BY <2>1, GoesOn
  <2>6. Typed(p)'
    BY <1>1, <2>1, <2>5 DEF Typed, OnFile, PCs
  <2> QED
    BY <2>4, <2>5, <2>6, TypingStep
<1> QED
  BY <1>2, <1>3

\* The system call that follows: the cache is a tree, and what is open are files.
LEMMA LocalTyping == ASSUME NEW p \in Procs, Typing, Local(p) PROVE Typing'
<1>1. Arrays /\ Globals /\ Typed(p)
  BY TypingByThread
<1>2. Return(p) /\ UNCHANGED <<up, srv>> /\ pc[p] = "local"
  BY DEF Local
<1>3. dir[p] \in Dirs /\ (op[p] \in FileOps => File(p) \in Files /\ name[p] \in Names)
      /\ (op[p] = "rename" => name[p] \in Dirs \ {dir[p]})
  BY <1>1, <1>2 DEF Typed, OnFile, File, Files
<1>4. IsTree(cache) /\ known \subseteq Dirs /\ opened \subseteq Files
  BY <1>1 DEF Globals
<1>5. IsTree(cache') /\ known' \subseteq Dirs /\ opened' \subseteq Files
  <2>1. CASE LocalLookup(p)
    BY <1>3, <1>4, <2>1 DEF LocalLookup
  <2>2. CASE LocalRmdir(p)
    BY <1>3, <1>4, <2>2, RemovedIsTree DEF LocalRmdir
  <2>3. CASE LocalRename(p)
    <3>1. IsTree(cache')
      BY <1>3, <1>4, <2>3, RenamedIsTree DEF LocalRename
    <3>2. \A f \in opened : Moved(f, dir[p], name[p]) \in Files
      BY <1>3, <1>4, <2>3 DEF LocalRename, Moved, Files
    <3> QED
      BY <1>3, <1>4, <2>3, <3>1, <3>2 DEF LocalRename
  <2>4. CASE LocalOpen(p)
    <3>1. op[p] \in FileOps
      BY <2>4 DEF LocalOpen, FileOps
    <3>2. IsTree(cache')
      BY <1>3, <1>4, <2>4, <3>1, FileMadeIsTree DEF LocalOpen
    <3> QED
      BY <1>3, <1>4, <2>4, <3>1, <3>2 DEF LocalOpen
  <2>5. CASE LocalUnlink(p)
    <3>1. op[p] \in FileOps
      BY <2>5 DEF LocalUnlink, FileOps
    <3> QED
      BY <1>3, <1>4, <2>5, <3>1, FileRemovedIsTree DEF LocalUnlink, kernelVars
  <2>6. CASE LocalClose(p)
    BY <1>4, <2>6 DEF LocalClose, Closed
  <2>7. CASE LocalNothing(p)
    BY <1>4, <2>7 DEF LocalNothing, kernelVars
  <2> QED
    BY <2>1, <2>2, <2>3, <2>4, <2>5, <2>6, <2>7 DEF Local
<1>6. Globals'
  BY <1>1, <1>2, <1>5 DEF Globals
<1> QED
  BY <1>2, <1>6, Returns, TypingStep

LEMMA OpenDirTyping == ASSUME NEW p \in Procs, Typing, OpenDir(p) PROVE Typing'
<1>1. Globals
  BY TypingByThread
<1>2. Globals'
  BY <1>1 DEF OpenDir, Globals, kernelVars
<1> QED
  BY <1>2, Returns, TypingStep DEF OpenDir

LEMMA ElsewhereTyping == ASSUME Typing, Elsewhere PROVE Typing'
<1>1. IsTree(srv)
  BY DEF Typing, TypeOK
<1>2. IsTree(srv')
  <2>1. PICK d \in Dirs :
          \/ \E o \in {"mkdir", "rmdir"} :
               Succeeds(srv, o, d, None) /\ srv' = After(srv, o, d, None)
          \/ \E o \in {"creat", "unlink"}, n \in Names :
               Succeeds(srv, o, d, n) /\ srv' = After(srv, o, d, n)
          \/ srv.kind[d] = "absent" /\ srv' = [srv EXCEPT !.kind[d] = "file"]
          \/ srv.kind[d] = "file" /\ srv' = [srv EXCEPT !.kind[d] = "absent"]
    BY DEF Elsewhere
  <2>2. ASSUME NEW o \in {"mkdir", "rmdir"}, srv' = After(srv, o, d, None) PROVE IsTree(srv')
    BY <1>1, <2>2, MadeIsTree, RemovedIsTree
  <2>3. ASSUME NEW o \in {"creat", "unlink"}, NEW n \in Names, Succeeds(srv, o, d, n),
               srv' = After(srv, o, d, n)
        PROVE  IsTree(srv')
    BY <1>1, <2>3, ServedIsTree DEF FileOps
  <2>4. ASSUME srv.kind[d] \in {"absent", "file"}, NEW k \in Kinds,
               srv' = [srv EXCEPT !.kind[d] = k]
        PROVE  IsTree(srv')
    BY <1>1, <2>4 DEF IsTree, Tree, Files
  <2> QED
    BY <2>1, <2>2, <2>3, <2>4 DEF Kinds
<1> QED
  BY <1>2 DEF Elsewhere, Typing, TypeOK, PathInv, StageInv, kernelVars, callVars, OnFile

LEMMA CrashTyping == ASSUME Typing, CrashOrRestart PROVE Typing'
BY DEF CrashOrRestart, Typing, TypeOK, PathInv, StageInv, kernelVars, callVars, OnFile

LEMMA StutterTyping == ASSUME Typing, UNCHANGED vars PROVE Typing'
BY DEF vars, Typing, TypeOK, PathInv, StageInv, kernelVars, callVars, OnFile

LEMMA NextTyping == ASSUME Typing, [Next]_vars PROVE Typing'
<1>1. ASSUME NEW p \in Procs, Start(p) PROVE Typing'
  BY <1>1, StartTyping DEF Start
<1>2. ASSUME NEW p \in Procs,
             \/ TestAuth(p) \/ CheckCache(p) \/ MakeParentDirs(p) \/ Sink(p) \/ Swap(p)
             \/ FetchData(p) \/ Install(p) \/ Call(p) \/ Local(p) \/ OpenDir(p)
      PROVE  Typing'
  BY <1>2, AuthTyping, CheckTyping, ParentsTyping, SinkTyping, SwapTyping, FetchTyping,
     InstallTyping, CallTyping, LocalTyping, OpenDirTyping
<1> QED
  BY <1>1, <1>2, ElsewhereTyping, CrashTyping, StutterTyping DEF Next

\* The types, which every state of the model respects: both trees are trees, an
\* operation under way has a step, and fetchDirectory and fetchRegular are reached
\* with the kind of entry they are for (Fetch's S_ISDIR and S_ISREG branches).
THEOREM TypeCorrect == Spec => []TypeOK
<1>1. Init => Typing
  BY InitTyping
<1>2. Typing /\ [Next]_vars => Typing'
  BY NextTyping
<1>3. Typing => TypeOK
  BY DEF Typing
<1> QED
  BY <1>1, <1>2, <1>3, PTL DEF Spec

-----------------------------------------------------------------------------
(* The safety invariant.                                                   *)

SamePath(q) == op'[q] = op[q] /\ dir'[q] = dir[q] /\ name'[q] = name[q]

LEMMA InitInv == Init => Inv
<1> SUFFICES ASSUME Init PROVE Inv
  OBVIOUS
<1>1. \A p \in Procs : op[p] = None /\ pc[p] = "idle"
  BY DEF Init
<1>2. known = {} /\ opened = {}
  BY DEF Init
<1> QED
  BY <1>1, <1>2, InitTyping, OpsAreNotNone
  DEF Inv, Apart, FilesApart, KnownIsCached, InUse, Missing, Held, FileOps

\* Operations that end, and those that go on where they are, stay apart.
LEMMA StayApart ==
    ASSUME Apart, \A q \in Procs : op'[q] = None \/ SamePath(q) PROVE Apart'
BY DEF Apart, SamePath, Touches

LEMMA FilesStayApart ==
    ASSUME FilesApart, \A q \in Procs : op'[q] = None \/ SamePath(q) PROVE FilesApart'
BY OpsAreNotNone DEF FilesApart, SamePath, File, FileOps

\* How a step of p leaves the threads: p has returned or is on its path, and is
\* past the check only if it found nothing.
Proceeds(p) ==
    /\ \A q \in Procs \ {p} : SameCall(q)
    /\ \/ op'[p] = None /\ pc'[p] = "idle"
       \/ /\ SamePath(p)
          /\ pc'[p] \in {"parents", "sink", "swap"} /\ ~OnFile(p) =>
                cache'.kind[dir[p]] = "absent"

\* A step that changes no kind in the cache.
LEMMA KindsKept ==
    ASSUME NEW p \in Procs, Inv, Typing', Proceeds(p), cache'.kind = cache.kind,
           \A d \in known' : cache.kind[d] = "dir", Held'
    PROVE  Inv'
<1>1. \A q \in Procs : op'[q] = None \/ SamePath(q)
  BY DEF Proceeds, SameCall, SamePath
<1>2. Apart' /\ FilesApart'
  BY <1>1, StayApart, FilesStayApart DEF Inv
<1>3. KnownIsCached'
  BY DEF KnownIsCached
<1>4. InUse'
  BY <1>1 DEF Inv, InUse, SamePath
<1>5. Missing'
  <2> SUFFICES ASSUME NEW q \in Procs, pc'[q] \in {"parents", "sink", "swap"}, ~OnFile(q)'
               PROVE  cache'.kind[dir'[q]] = "absent"
    BY DEF Missing
  <2>1. CASE q = p
    BY <2>1 DEF Proceeds, SamePath, OnFile
  <2>2. CASE q # p
    BY <2>2 DEF Inv, Missing, Proceeds, SameCall, OnFile
  <2> QED
    BY <2>1, <2>2
<1> QED
  BY <1>2, <1>3, <1>4, <1>5 DEF Inv

\* A step that leaves the cache alone; it may end a close.
LEMMA CacheKept ==
    ASSUME NEW p \in Procs, Inv, Typing', Proceeds(p), cache' = cache,
           \A d \in known' : cache.kind[d] = "dir", opened' \subseteq opened
    PROVE  Inv'
<1>1. Held
  BY DEF Inv
<1>2. ASSUME NEW q \in Procs, op'[q] \in {"close", "unlink"}
      PROVE  op[q] = op'[q] /\ File(q)' = File(q)
  BY <1>2, OpsAreNotNone DEF Proceeds, SameCall, SamePath, File, FileOps
<1>3. Held'
  BY <1>1, <1>2 DEF Held
<1> QED
  BY <1>3, KindsKept

LEMMA ReturnProceeds == ASSUME NEW p \in Procs, Inv, Return(p) PROVE Proceeds(p)
BY Returns DEF Inv, Proceeds

LEMMA FailInv == ASSUME NEW p \in Procs, Inv, Typing', Fail(p), cache' = cache PROVE Inv'
<1>1. Proceeds(p) /\ op'[p] = None
  BY ReturnProceeds, Returns DEF Fail, Inv
<1>2. \A d \in known' : cache.kind[d] = "dir"
  BY DEF Fail, Inv, KnownIsCached
<1>3. opened' \subseteq opened
  BY DEF Fail, Closed
<1> QED
  BY <1>1, <1>2, <1>3, CacheKept

\* A step within the operation that changes neither the cache nor what is known.
LEMMA GoOnInv ==
    ASSUME NEW p \in Procs, NEW l, Inv, Typing', Goto(p, l), UNCHANGED <<callVars, reply>>,
           cache' = cache, UNCHANGED kernelVars,
           l \in {"parents", "sink", "swap"} /\ ~OnFile(p) => cache.kind[dir[p]] = "absent"
    PROVE  Inv'
<1>1. Proceeds(p)
  BY GoesOn DEF Inv, Proceeds, SamePath
<1> QED
  BY <1>1, CacheKept DEF kernelVars, Inv, KnownIsCached

LEMMA AuthInv == ASSUME NEW p \in Procs, Inv, Typing', TestAuth(p) PROVE Inv'
<1> DEFINE kind == At(IF up THEN srv ELSE cache, p)
<1>1. CASE Fail(p) /\ cache' = cache
  BY <1>1, FailInv
<1>2. CASE ~(Fail(p) /\ cache' = cache)
  <2>1. /\ Goto(p, "check") /\ reply' = [reply EXCEPT ![p] = kind]
        /\ cache' = cache /\ UNCHANGED kernelVars /\ UNCHANGED callVars
    BY <1>2 DEF TestAuth
  <2> HIDE DEF kind
  <2>2. /\ \A q \in Procs \ {p} : SameCall(q)
        /\ pc'[p] = "check" /\ op'[p] = op[p] /\ dir'[p] = dir[p] /\ name'[p] = name[p]
    BY <2>1, Goes DEF Inv
  <2>3. Proceeds(p)
    BY <2>2 DEF Proceeds, SamePath
  <2> QED
    BY <2>1, <2>3, CacheKept DEF kernelVars, Inv, KnownIsCached
<1> QED
  BY <1>1, <1>2

LEMMA CheckInv == ASSUME NEW p \in Procs, Inv, Typing', CheckCache(p) PROVE Inv'
<1>1. PICK l \in {"local", "parents", "fetch"} :
        Goto(p, l) /\ (l = "parents" => At(cache, p) = "absent")
  BY DEF CheckCache
<1>2. l \in {"parents", "sink", "swap"} /\ ~OnFile(p) => cache.kind[dir[p]] = "absent"
  BY <1>1 DEF At
<1> QED
  BY <1>1, <1>2, GoOnInv DEF CheckCache

\* Where a file is fetched to, its directory is: makeParentDirs has nothing to make.
LEMMA ParentsInv == ASSUME NEW p \in Procs, Inv, Typing', MakeParentDirs(p) PROVE Inv'
<1>1. OnFile(p) => cache.kind[dir[p]] = "dir"
  <2>1. OnFile(p) => op[p] \notin Finders \cup {None}
    BY OpsAreNotNone DEF OnFile, FileOps, Finders
  <2> QED
    BY <2>1 DEF Inv, InUse
<1>2. Goto(p, FetchStep(p)) /\ UNCHANGED <<callVars, reply>> /\ cache' = cache /\ UNCHANGED kernelVars
  BY <1>1 DEF MakeParentDirs
<1>3. ~OnFile(p) => cache.kind[dir[p]] = "absent"
  BY DEF MakeParentDirs, Inv, Missing
<1> QED
  BY <1>2, <1>3, GoOnInv

\* What is moved out of the way is not there.
LEMMA SinkInv == ASSUME NEW p \in Procs, Inv, Typing', Sink(p) PROVE Inv'
<1>1. Typed(p) /\ IsTree(cache)
  BY TypingByThread DEF Inv, Globals
<1>2. CASE Fail(p) /\ cache' = cache
  BY <1>2, FailInv
<1>3. CASE ~(Fail(p) /\ cache' = cache)
  <2>1. cache.kind[dir[p]] = "absent" /\ ~OnFile(p)
    BY <1>1 DEF Sink, Typed, Inv, Missing
  <2>2. cache.files \cap In(dir[p]) = {}
    BY <1>1, <2>1 DEF IsTree, In
  <2>3. cache' = cache
    <3>1. cache' = [kind |-> [cache.kind EXCEPT ![dir[p]] = "absent"],
                    files |-> cache.files \ In(dir[p])]
      BY <1>3 DEF Sink
    <3>2. [cache.kind EXCEPT ![dir[p]] = "absent"] = cache.kind
      BY <1>1, <2>1 DEF IsTree, Tree
    <3>3. cache.files \ In(dir[p]) = cache.files
      BY <2>2
    <3>4. cache = [kind |-> cache.kind, files |-> cache.files]
      BY <1>1 DEF IsTree, Tree
    <3> QED
      BY <3>1, <3>2, <3>3, <3>4
  <2> QED
    BY <1>3, <2>1, <2>3, GoOnInv DEF Sink
<1> QED
  BY <1>2, <1>3

LEMMA FetchInv == ASSUME NEW p \in Procs, Inv, Typing', FetchData(p) PROVE Inv'
<1>1. CASE Fail(p) /\ cache' = cache
  BY <1>1, FailInv
<1>2. CASE ~(Fail(p) /\ cache' = cache)
  <2>1. PICK l \in {"install", "local"} : Goto(p, l)
    BY <1>2 DEF FetchData
  <2> QED
    BY <1>2, <2>1, GoOnInv DEF FetchData
<1> QED
  BY <1>1, <1>2

LEMMA CallInv == ASSUME NEW p \in Procs, Inv, Typing', Call(p) PROVE Inv'
<1>1. CASE Fail(p) /\ cache' = cache
  BY <1>1, FailInv
<1>2. CASE ~(Fail(p) /\ cache' = cache)
  <2>1. PICK l \in {"auth", "local"} : Goto(p, l)
    BY <1>2 DEF Call
  <2>2. UNCHANGED <<cache, kernelVars, callVars, reply>>
    BY <1>2 DEF Call
  <2> QED
    BY <2>1, <2>2, GoOnInv
<1> QED
  BY <1>1, <1>2

LEMMA OpenDirInv == ASSUME NEW p \in Procs, Inv, Typing', OpenDir(p) PROVE Inv'
BY ReturnProceeds, CacheKept DEF OpenDir, kernelVars, Inv, KnownIsCached

-----------------------------------------------------------------------------
(* Steps that change what is in the cache.                                 *)

LEMMA StartInv ==
    ASSUME NEW p \in Procs, Inv, Typing',
           NEW o \in DirOps \cup FileOps, NEW d \in Dirs, NEW n,
           Begin(p, o, d, n)
    PROVE  Inv'
<1>1. /\ \A q \in Procs \ {p} : SameCall(q)
      /\ op'[p] = o /\ dir'[p] = d /\ name'[p] = n /\ pc'[p] \in {"call", "auth"}
      /\ op[p] = None
      /\ UNCHANGED <<cache, kernelVars>>
  BY TypingByThread DEF Inv, Typed, Arrays, Begin, Goto, SameCall, FirstStep
<1>2. \A q \in Procs \ {p} : SamePath(q) /\ File(q)' = File(q) /\ \A x : Touches(q, x)' <=> Touches(q, x)
  BY <1>1 DEF SameCall, SamePath, File, Touches
<1>3. Permits(o, d, n) /\ ~Waits(p, o, d, n)
  BY DEF Begin
<1>4. File(p)' = <<d, n>> /\ \A x : Touches(p, x)' <=> x \in NamesOf(o, d, n)
  BY <1>1 DEF File, Touches
<1>5. ASSUME NEW q \in Procs \ {p}, NEW x \in NamesOf(o, d, n), op[q] # None, Touches(q, x)
      PROVE  /\ ~(o \in Changes /\ op[q] \in Changes)
             /\ o \in Removals => op[q] \in Lookups
             /\ op[q] \in Removals => o \in Lookups
  BY <1>3, <1>5 DEF Waits
<1>6. Apart'
  <2> SUFFICES ASSUME NEW r \in Procs, NEW q \in Procs, NEW x \in Dirs, r # q,
                      op'[r] # None, op'[q] # None, Touches(r, x)', Touches(q, x)'
               PROVE  /\ ~(op'[r] \in Changes /\ op'[q] \in Changes)
                      /\ op'[r] \in Removals => op'[q] \in Lookups
    BY DEF Apart
  <2>1. CASE r = p
    BY <2>1, <1>1, <1>2, <1>4, <1>5 DEF SamePath
  <2>2. CASE q = p
    BY <2>2, <1>1, <1>2, <1>4, <1>5 DEF SamePath
  <2>3. CASE r # p /\ q # p
    BY <2>3, <1>2 DEF SamePath, Inv, Apart
  <2> QED
    BY <2>1, <2>2, <2>3
<1>7. FilesApart'
  <2>1. \A q \in Procs : {o, op[q]} \subseteq FileOps \ {"stat"} /\ File(q) = <<d, n>> =>
           {o, op[q]} \cap {"creat", "unlink"} = {}
    BY DEF Begin, Alone
  <2> SUFFICES ASSUME NEW r \in Procs, NEW q \in Procs \ {r}, op'[r] \in {"creat", "unlink"},
                      op'[q] \in FileOps \ {"stat"}, File(r)' = File(q)'
               PROVE  FALSE
    BY DEF FilesApart
  <2>2. op'[r] \in FileOps \ {"stat"}
    BY DEF FileOps
  <2>3. CASE r = p
    BY <2>1, <2>2, <2>3, <1>1, <1>2, <1>4 DEF SamePath
  <2>4. CASE q = p
    BY <2>1, <2>2, <2>4, <1>1, <1>2, <1>4 DEF SamePath
  <2>5. CASE r # p /\ q # p
    BY <2>5, <1>2 DEF SamePath, Inv, FilesApart
  <2> QED
    BY <2>3, <2>4, <2>5
<1>8. KnownIsCached'
  BY <1>1 DEF Inv, KnownIsCached, kernelVars
<1>9. InUse'
  <2>1. o \notin Finders => cache.kind[d] = "dir"
    <3>1. CASE o = "close"
      <4>1. <<d, n>> \in cache.files /\ IsTree(cache)
        BY <1>3, <3>1, TypingByThread DEF Permits, Inv, Held, Globals
      <4> QED
        BY <4>1 DEF IsTree
    <3>2. CASE o # "close"
      BY <1>3, <3>2 DEF Permits, Finders, Inv, KnownIsCached
    <3> QED
      BY <3>1, <3>2
  <2> QED
    BY <2>1, <1>1, <1>2 DEF SamePath, Inv, InUse
<1>10. Missing'
  BY <1>1 DEF SameCall, Inv, Missing, OnFile
<1>11. Held'
  <2>1. (o = "close" => <<d, n>> \in cache.files) /\ (o = "unlink" => <<d, n>> \notin opened)
    BY <1>3 DEF Permits, Inv, Held
  <2> QED
    BY <2>1, <1>1, <1>2, <1>4 DEF SamePath, Inv, Held, kernelVars
<1> QED
  BY <1>6, <1>7, <1>8, <1>9, <1>10, <1>11 DEF Inv

\* A directory that is not in the cache is in use by nobody but one lookup.
LEMMA OneLookup ==
    ASSUME NEW p \in Procs, NEW q \in Procs \ {p}, Inv, op[p] # None,
           op[p] \in Changes, pc[q] \in {"parents", "sink", "swap"}, ~OnFile(q),
           dir[q] \in NamesOf(op[p], dir[p], name[p])
    PROVE  FALSE
<1>1. Typed(q)
  BY TypingByThread DEF Inv
<1>2. op[q] # None /\ dir[q] \in Dirs
  BY <1>1 DEF Typed
<1>3. cache.kind[dir[q]] = "absent"
  BY DEF Inv, Missing
<1>4. op[q] \in Finders
  BY <1>2, <1>3 DEF Inv, InUse
<1>5. op[q] \in Changes
  BY <1>2, <1>4 DEF Finders, Changes
<1>6. Touches(p, dir[q]) /\ Touches(q, dir[q])
  BY DEF Touches, NamesOf
<1> QED
  BY <1>2, <1>5, <1>6 DEF Inv, Apart

\* A name that becomes what it was not, and of no directory in use: the fetch of an
\* entry that was not in the cache.
LEMMA FetchedInv ==
    ASSUME NEW p \in Procs, NEW k \in {"dir", "file"}, Inv, Typing',
           op[p] # None, ~OnFile(p), cache.kind[dir[p]] # "dir",
           Goto(p, "local"), UNCHANGED <<callVars, reply>>, UNCHANGED kernelVars,
           cache' = [cache EXCEPT !.kind[dir[p]] = k]
    PROVE  Inv'
<1>1. Typed(p) /\ IsTree(cache)
  BY TypingByThread DEF Inv, Globals
<1>2. dir[p] \in Dirs
  BY <1>1 DEF Typed
<1>3. op[p] \in Changes
  BY <1>2 DEF Inv, InUse, Finders, Changes
<1>4. /\ \A q \in Procs \ {p} : SameCall(q)
      /\ pc'[p] = "local" /\ SamePath(p)
  BY GoesOn DEF Inv, SamePath
<1>5. \A q \in Procs : SamePath(q) /\ File(q)' = File(q)
  BY <1>4 DEF SameCall, SamePath, File
<1>6. cache'.files = cache.files /\ \A d \in Dirs \ {dir[p]} : cache'.kind[d] = cache.kind[d]
  BY <1>1 DEF IsTree, Tree
<1>7. \A d \in Dirs : cache.kind[d] = "dir" => cache'.kind[d] = "dir"
  BY <1>6
<1>8. Apart' /\ FilesApart'
  BY <1>5, StayApart, FilesStayApart DEF Inv
<1>9. KnownIsCached'
  BY <1>7 DEF Inv, KnownIsCached, kernelVars, Typing, TypeOK
<1>10. InUse'
  <2> SUFFICES ASSUME NEW q \in Procs, op[q] \notin Finders \cup {None}
               PROVE  cache'.kind[dir[q]] = "dir"
    BY <1>5 DEF InUse, SamePath
  <2>1. dir[q] \in Dirs
    BY TypingByThread DEF Inv, Typed
  <2> QED
    BY <2>1, <1>7 DEF Inv, InUse
<1>11. Missing'
  <2> SUFFICES ASSUME NEW q \in Procs, pc'[q] \in {"parents", "sink", "swap"}, ~OnFile(q)'
               PROVE  cache'.kind[dir'[q]] = "absent"
    BY DEF Missing
  <2>1. q # p /\ SameCall(q)
    BY <1>4
  <2>2. pc[q] \in {"parents", "sink", "swap"} /\ ~OnFile(q) /\ dir'[q] = dir[q]
    BY <2>1 DEF SameCall, OnFile
  <2>3. dir[q] # dir[p]
    BY <1>3, <2>1, <2>2, OneLookup DEF NamesOf
  <2>4. dir[q] \in Dirs
    BY <2>2, TypingByThread DEF Inv, Typed
  <2> QED
    BY <1>6, <2>2, <2>3, <2>4 DEF Inv, Missing
<1>12. Held'
  BY <1>5, <1>6 DEF Inv, Held, SamePath, kernelVars
<1> QED
  BY <1>8, <1>9, <1>10, <1>11, <1>12 DEF Inv

LEMMA SwapInv == ASSUME NEW p \in Procs, Inv, Typing', Swap(p) PROVE Inv'
<1>1. CASE Fail(p) /\ cache' = cache
  BY <1>1, FailInv
<1>2. CASE ~(Fail(p) /\ cache' = cache)
  <2>1. Typed(p)
    BY TypingByThread DEF Inv
  <2>2. op[p] # None /\ ~OnFile(p)
    BY <2>1 DEF Swap, Typed
  <2>3. cache.kind[dir[p]] # "dir"
    BY <2>2 DEF Swap, Inv, Missing
  <2>4. /\ Goto(p, "local") /\ UNCHANGED <<callVars, reply>> /\ UNCHANGED kernelVars
        /\ cache' = [cache EXCEPT !.kind[dir[p]] = "dir"]
    BY <1>2 DEF Swap, After
  <2> QED
    BY <2>2, <2>3, <2>4, FetchedInv
<1> QED
  BY <1>1, <1>2

\* A step that only adds and removes files that are not open.
LEMMA FilesChanged ==
    ASSUME NEW p \in Procs, Inv, Typing', Proceeds(p), cache'.kind = cache.kind,
           UNCHANGED kernelVars, opened \subseteq cache'.files,
           \A q \in Procs : op'[q] = "close" => File(q) \in cache'.files
    PROVE  Inv'
<1>1. \A q \in Procs : op'[q] # None => SamePath(q) /\ File(q)' = File(q)
  BY DEF Proceeds, SameCall, SamePath, File
<1>2. Held'
  BY <1>1, OpsAreNotNone DEF Inv, Held, kernelVars, SamePath, FileOps
<1> QED
  BY <1>2, KindsKept DEF Inv, KnownIsCached, kernelVars

LEMMA InstallInv == ASSUME NEW p \in Procs, Inv, Typing', Install(p) PROVE Inv'
<1>1. CASE Fail(p) /\ cache' = cache
  BY <1>1, FailInv
<1>2. CASE ~(Fail(p) /\ cache' = cache)
  <2>1. Typed(p)
    BY TypingByThread DEF Inv
  <2>2. /\ (cache.kind[dir[p]] = "dir") = OnFile(p)
        /\ Goto(p, "local") /\ UNCHANGED <<callVars, reply>> /\ UNCHANGED kernelVars
        /\ cache' = IF OnFile(p) THEN After(cache, "creat", dir[p], name[p])
                    ELSE [cache EXCEPT !.kind[dir[p]] = "file"]
    BY <1>2 DEF Install
  <2>3. op[p] # None
    BY <2>1 DEF Install, Typed
  <2>4. CASE OnFile(p)
    <3>1. cache.kind = cache'.kind /\ cache.files \subseteq cache'.files
      BY <2>2, <2>4 DEF After, Inv, Typing, TypeOK, IsTree, Tree
    <3>2. Proceeds(p)
      BY <2>2, GoesOn DEF Inv, Proceeds, SamePath
    <3>3. opened \subseteq cache'.files
      BY <3>1 DEF Inv, Held
    <3>4. \A q \in Procs : op'[q] = "close" => File(q) \in cache'.files
      BY <3>1, <3>2, OpsAreNotNone DEF Inv, Held, Proceeds, SameCall, SamePath, FileOps
    <3> QED
      BY <2>2, <3>1, <3>2, <3>3, <3>4, FilesChanged
  <2>5. CASE ~OnFile(p)
    BY <2>2, <2>3, <2>5, FetchedInv DEF OnFile
  <2> QED
    BY <2>4, <2>5
<1> QED
  BY <1>1, <1>2

-----------------------------------------------------------------------------
(* The system call that ends an operation.                                 *)

\* Who removes or renames a directory has it to itself, but for lookups of a name that
\* is not known.
LEMMA RemovesAlone ==
    ASSUME NEW p \in Procs, NEW q \in Procs \ {p}, Inv, NotOvertaken, op[p] \in Removals,
           op[q] \notin Finders \cup {None}
    PROVE  dir[q] \notin NamesOf(op[p], dir[p], name[p])
<1> SUFFICES ASSUME dir[q] \in NamesOf(op[p], dir[p], name[p]) PROVE FALSE
  OBVIOUS
<1>1. dir[q] \in Dirs
  BY TypingByThread DEF Inv, Typed
<1>2. op[p] # None /\ Touches(p, dir[q]) /\ Touches(q, dir[q])
  BY OpsAreNotNone DEF Touches, NamesOf, Removals, DirOps
<1>3. op[q] \in Lookups
  BY <1>1, <1>2 DEF Inv, Apart
<1>4. op[q] = "revalidate"
  BY <1>3 DEF Lookups, Finders
<1> QED
  BY <1>4 DEF NotOvertaken

LEMMA RmdirInv ==
    ASSUME NEW p \in Procs, Inv, NotOvertaken, Typing', Return(p), LocalRmdir(p) PROVE Inv'
<1> DEFINE d == dir[p]
<1>1. /\ \A q \in Procs \ {p} : SameCall(q)
      /\ op'[p] = None /\ pc'[p] = "idle"
  BY Returns DEF Inv
<1>2. \A q \in Procs : op'[q] # None => q # p /\ SamePath(q) /\ File(q)' = File(q) /\ op[q] # None
  BY <1>1 DEF SameCall, SamePath, File
<1>3. Typed(p) /\ IsTree(cache)
  BY TypingByThread DEF Inv, Globals
<1>4. op[p] \in Removals /\ d \in NamesOf(op[p], d, name[p])
  BY DEF LocalRmdir, Removals, NamesOf
<1>5. /\ cache'.kind = [cache.kind EXCEPT ![d] = "absent"]
      /\ cache'.files = cache.files
  BY DEF LocalRmdir, After, Removable, IsEmptyDir
<1>6. /\ cache.kind \in [Dirs -> Kinds]
      /\ \A x \in Dirs \ {d} : cache'.kind[x] = cache.kind[x]
  BY <1>3, <1>5 DEF IsTree, Tree
<1>7. Apart' /\ FilesApart'
  BY <1>2, StayApart, FilesStayApart DEF Inv
<1>8. KnownIsCached'
  BY <1>6 DEF LocalRmdir, Inv, KnownIsCached, Typing, TypeOK
<1>9. InUse'
  <2> SUFFICES ASSUME NEW q \in Procs, op'[q] \notin Finders \cup {None}
               PROVE  cache'.kind[dir'[q]] = "dir"
    BY DEF InUse
  <2>1. q # p /\ SamePath(q) /\ op[q] \notin Finders \cup {None}
    BY <1>2 DEF SamePath
  <2>2. dir[q] # d /\ dir[q] \in Dirs
    BY <1>4, <2>1, RemovesAlone, TypingByThread DEF Inv, Typed
  <2> QED
    BY <1>6, <2>1, <2>2 DEF Inv, InUse, SamePath
<1>10. Missing'
  <2> SUFFICES ASSUME NEW q \in Procs, pc'[q] \in {"parents", "sink", "swap"}, ~OnFile(q)'
               PROVE  cache'.kind[dir'[q]] = "absent"
    BY DEF Missing
  <2>1. q # p /\ SameCall(q)
    BY <1>1
  <2>2. pc[q] \in {"parents", "sink", "swap"} /\ ~OnFile(q) /\ dir'[q] = dir[q]
    BY <2>1 DEF SameCall, OnFile
  <2>3. dir[q] \in Dirs
    BY <2>2, TypingByThread DEF Inv, Typed
  <2> QED
    BY <1>5, <1>6, <2>2, <2>3 DEF Inv, Missing
<1>11. Held'
  BY <1>2, <1>5, OpsAreNotNone DEF Inv, Held, LocalRmdir, SamePath, FileOps
<1> QED
  BY <1>7, <1>8, <1>9, <1>10, <1>11 DEF Inv

\* A rename takes the files along, the open ones too.
LEMMA RenameInv ==
    ASSUME NEW p \in Procs, Inv, NotOvertaken, Typing', Return(p), LocalRename(p)
    PROVE  Inv'
<1> DEFINE d == dir[p]
           e == name[p]
<1>1. /\ \A q \in Procs \ {p} : SameCall(q)
      /\ op'[p] = None /\ pc'[p] = "idle"
  BY Returns DEF Inv
<1>2. \A q \in Procs : op'[q] # None => q # p /\ SamePath(q) /\ File(q)' = File(q) /\ op[q] # None
  BY <1>1 DEF SameCall, SamePath, File
<1>3. Typed(p) /\ IsTree(cache)
  BY TypingByThread DEF Inv, Globals
<1>4. /\ op[p] = "rename" /\ op[p] \in Removals /\ op[p] \in Changes /\ op[p] # None
      /\ NamesOf(op[p], d, e) = {d, e}
  BY OpsAreNotNone DEF LocalRename, Removals, Changes, NamesOf, DirOps
<1>5. d \in Dirs /\ e \in Dirs /\ e # d
  BY <1>3, <1>4 DEF Typed
<1>6. cache.kind[d] = "dir"
  BY <1>4 DEF Inv, InUse, Finders
<1>7. /\ cache'.kind = [cache.kind EXCEPT ![d] = "absent", ![e] = "dir"]
      /\ cache'.files = {Moved(f, d, e) : f \in cache.files}
      /\ opened' = {Moved(f, d, e) : f \in opened}
      /\ known' = (known \ {d}) \cup {e}
  BY <1>6 DEF LocalRename, After
<1> HIDE DEF d, e
<1>8. /\ cache'.kind[d] = "absent" /\ cache'.kind[e] = "dir"
      /\ \A x \in Dirs \ {d, e} : cache'.kind[x] = cache.kind[x]
  BY <1>3, <1>5, <1>7 DEF IsTree, Tree
<1>9. ASSUME NEW q \in Procs, op'[q] \notin Finders \cup {None}
      PROVE  /\ op[q] = op'[q] /\ dir'[q] = dir[q] /\ File(q)' = File(q)
             /\ dir[q] \in Dirs \ {d, e}
  <2>1. q # p /\ SamePath(q) /\ op[q] \notin Finders \cup {None} /\ File(q)' = File(q)
    BY <1>2, <1>9 DEF SamePath
  <2>2. dir[q] \notin {d, e}
    BY <1>4, <2>1, RemovesAlone DEF d, e
  <2>3. dir[q] \in Dirs
    BY <2>1, TypingByThread DEF Inv, Typed
  <2> QED
    BY <2>1, <2>2, <2>3 DEF SamePath
<1>10. Apart' /\ FilesApart'
  BY <1>2, StayApart, FilesStayApart DEF Inv
<1>11. KnownIsCached'
  BY <1>7, <1>8 DEF Inv, KnownIsCached, Typing, TypeOK
<1>12. InUse'
  BY <1>8, <1>9 DEF Inv, InUse
<1>13. Missing'
  <2> SUFFICES ASSUME NEW q \in Procs, pc'[q] \in {"parents", "sink", "swap"}, ~OnFile(q)'
               PROVE  cache'.kind[dir'[q]] = "absent"
    BY DEF Missing
  <2>1. q # p /\ SameCall(q)
    BY <1>1
  <2>2. pc[q] \in {"parents", "sink", "swap"} /\ ~OnFile(q) /\ dir'[q] = dir[q]
    BY <2>1 DEF SameCall, OnFile
  <2>3. dir[q] \in Dirs
    BY <2>2, TypingByThread DEF Inv, Typed
  <2>4. dir[q] # e
    BY <1>4, <2>1, <2>2, OneLookup DEF d, e
  <2> QED
    BY <1>8, <2>2, <2>3, <2>4 DEF Inv, Missing
<1>14. Held'
  <2>1. opened' \subseteq cache'.files
    BY <1>7 DEF Inv, Held
  <2>2. ASSUME NEW q \in Procs, op'[q] = "close" PROVE File(q)' \in cache'.files
    <3>1. op[q] = "close" /\ File(q)' = File(q) /\ dir[q] # d
      BY <2>2, <1>9, OpsAreNotNone DEF FileOps, Finders
    <3>2. File(q) \in cache.files
      BY <3>1 DEF Inv, Held
    <3>3. Moved(File(q), d, e) = File(q)
      BY <3>1 DEF Moved, File
    <3> QED
      BY <1>7, <3>1, <3>2, <3>3
  <2>3. ASSUME NEW q \in Procs, op'[q] = "unlink", File(q)' \in opened' PROVE FALSE
    <3>1. op[q] = "unlink" /\ File(q)' = File(q) /\ dir[q] # e
      BY <2>3, <1>9, OpsAreNotNone DEF FileOps, Finders
    <3>2. PICK f \in opened : File(q) = Moved(f, d, e)
      BY <1>7, <2>3, <3>1
    <3>3. File(q) = f
      BY <3>1, <3>2 DEF Moved, File
    <3> QED
      BY <3>1, <3>3 DEF Inv, Held
  <2> QED
    BY <2>1, <2>2, <2>3 DEF Held
<1> QED
  BY <1>10, <1>11, <1>12, <1>13, <1>14 DEF Inv

\* What is opened is in the cache, and nobody is about to remove it.
LEMMA OpenInv ==
    ASSUME NEW p \in Procs, Inv, Typing', Return(p), LocalOpen(p) PROVE Inv'
<1>1. Proceeds(p)
  BY ReturnProceeds
<1>2. op'[p] = None
  BY Returns DEF Inv
<1>3. cache'.kind = cache.kind /\ cache.files \cup {File(p)} \subseteq cache'.files
  BY DEF LocalOpen, After, File, Inv, Typing, TypeOK, IsTree, Tree
<1>4. opened' = opened \cup {File(p)} /\ op[p] \in FileOps \ {"stat"} /\ known' = known
  BY DEF LocalOpen, FileOps
<1>5. ASSUME NEW q \in Procs, op'[q] \in {"close", "unlink"}
      PROVE  op[q] = op'[q] /\ File(q)' = File(q) /\ (op[q] = "unlink" => File(q) # File(p))
  <2>1. q # p /\ SameCall(q)
    BY <1>1, <1>2, <1>5, OpsAreNotNone DEF Proceeds, FileOps
  <2> QED
    BY <1>4, <1>5, <2>1 DEF SameCall, File, Inv, FilesApart, FileOps
<1>6. Held'
  BY <1>3, <1>4, <1>5 DEF Inv, Held
<1> QED
  BY <1>1, <1>3, <1>4, <1>6, KindsKept DEF Inv, KnownIsCached

LEMMA UnlinkInv ==
    ASSUME NEW p \in Procs, Inv, Typing', Return(p), LocalUnlink(p) PROVE Inv'
<1>1. cache'.kind = cache.kind /\ cache'.files = cache.files \ {File(p)}
  BY DEF LocalUnlink, After, File, Inv, Typing, TypeOK, IsTree, Tree
<1>2. opened \subseteq cache'.files
  BY <1>1 DEF LocalUnlink, Inv, Held
<1>3. ASSUME NEW q \in Procs, op'[q] = "close" PROVE File(q) \in cache'.files
  <2>1. q # p /\ op[q] = "close"
    BY <1>3, Returns, OpsAreNotNone DEF Inv, SameCall, FileOps
  <2>2. File(p) # File(q) /\ File(q) \in cache.files
    BY <2>1 DEF LocalUnlink, Inv, FilesApart, Held, FileOps
  <2> QED
    BY <1>1, <2>2
<1> QED
  BY <1>1, <1>2, <1>3, ReturnProceeds, FilesChanged DEF LocalUnlink

LEMMA LocalInv == ASSUME NEW p \in Procs, Inv, NotOvertaken, Typing', Local(p) PROVE Inv'
<1>1. Return(p)
  BY DEF Local
<1>2. Proceeds(p) /\ op'[p] = None
  BY <1>1, ReturnProceeds, Returns DEF Inv
<1>3. \A d \in known : cache.kind[d] = "dir"
  BY DEF Inv, KnownIsCached
<1>4. CASE LocalLookup(p)
  BY <1>2, <1>3, <1>4, CacheKept DEF LocalLookup
<1>5. CASE LocalClose(p)
  BY <1>2, <1>3, <1>5, CacheKept DEF LocalClose, Closed
<1>6. CASE LocalNothing(p)
  BY <1>2, <1>3, <1>6, CacheKept DEF LocalNothing, kernelVars
<1> QED
  BY <1>1, <1>4, <1>5, <1>6, RmdirInv, RenameInv, OpenInv, UnlinkInv DEF Local

-----------------------------------------------------------------------------
(* The theorems.                                                           *)

\* What Inv speaks of besides the server's tree.
safetyVars == <<cache, known, opened, pc, op, dir, name>>

LEMMA OthersInv == ASSUME Inv, Typing', UNCHANGED safetyVars PROVE Inv'
BY DEF safetyVars, Inv, Apart, FilesApart, KnownIsCached, InUse, Missing, Held, OnFile, File, Touches

LEMMA NextInv == ASSUME Inv, NotOvertaken, [Next]_vars PROVE Inv'
<1>1. Typing'
  BY NextTyping DEF Inv
<1>2. ASSUME NEW p \in Procs, Start(p) PROVE Inv'
  <2>1. ASSUME NEW d \in Dirs, NEW o \in DirOps \cup FileOps, NEW n, Begin(p, o, d, n)
        PROVE  Inv'
    BY <1>1, <2>1, StartInv
  <2>2. CASE \E d \in Dirs, o \in DirOps \ {"rename"} : Begin(p, o, d, None)
    BY <2>1, <2>2
  <2>3. CASE \E d \in Dirs : \E e \in Dirs \ {d} : Begin(p, "rename", d, e)
    BY <2>1, <2>3 DEF DirOps
  <2>4. CASE \E d \in Dirs, o \in FileOps, n \in Names : Begin(p, o, d, n)
    BY <2>1, <2>4
  <2> QED
    BY <1>2, <2>2, <2>3, <2>4 DEF Start
<1>3. ASSUME NEW p \in Procs,
             \/ TestAuth(p) \/ CheckCache(p) \/ MakeParentDirs(p) \/ Sink(p) \/ Swap(p)
             \/ FetchData(p) \/ Install(p) \/ Call(p) \/ Local(p) \/ OpenDir(p)
      PROVE  Inv'
  BY <1>1, <1>3, AuthInv, CheckInv, ParentsInv, SinkInv, SwapInv, FetchInv, InstallInv,
     CallInv, LocalInv, OpenDirInv
<1>4. CASE Elsewhere \/ CrashOrRestart \/ UNCHANGED vars
  <2>1. UNCHANGED safetyVars
    BY <1>4 DEF Elsewhere, CrashOrRestart, vars, safetyVars, kernelVars, callVars
  <2> QED
    BY <1>1, <2>1, OthersInv
<1> QED
  BY <1>2, <1>3, <1>4 DEF Next

\* The invariant of fetchDirectory, makeParentDirs and the operations that use them.
THEOREM Invariance == Spec /\ []NotOvertaken => []Inv
<1>1. Init => Inv
  BY InitInv
<1>2. Inv /\ NotOvertaken /\ [Next]_vars => Inv'
  BY NextInv
<1> QED
  BY <1>1, <1>2, PTL DEF Spec

\* A directory that the kernel has been told of stays in the cache until this client
\* removes or renames it: unreliable_open and unreliable_create can rely on it, if no
\* removal overtakes the getattr by which the kernel looks up the directory again.
THEOREM KnownDirectories == Spec /\ []NotOvertaken => []KnownIsCached
<1>1. Inv => KnownIsCached
  BY DEF Inv
<1> QED
  BY <1>1, Invariance, PTL

\* What fetchDirectory moves to its temporary directory, and deletes with it, holds no
\* cached file, if no removal overtakes a revalidation.
THEOREM NothingSunk == Spec /\ []NotOvertaken => []SunkIsEmpty
<1>1. Inv => SunkIsEmpty
  <2> SUFFICES ASSUME Inv, NEW p \in Procs, pc[p] = "sink"
               PROVE  cache.files \cap In(dir[p]) = {}
    BY DEF SunkIsEmpty
  <2>1. Typed(p) /\ IsTree(cache)
    BY TypingByThread DEF Inv, Globals
  <2>2. cache.kind[dir[p]] = "absent"
    BY <2>1 DEF Typed, Inv, Missing
  <2> QED
    BY <2>1, <2>2 DEF IsTree, In
<1> QED
  BY <1>1, Invariance, PTL

\* Close reads the cached file through its path and finds it, wherever the file's
\* directory has been renamed to and whatever the server has done, if no removal
\* overtakes a revalidation.
THEOREM CloseFinds == Spec /\ []NotOvertaken => []CloseFindsFile
<1>1. Inv => CloseFindsFile
  BY DEF Inv, Held, CloseFindsFile
<1> QED
  BY <1>1, Invariance, PTL
=============================================================================
