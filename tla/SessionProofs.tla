---------------------------- MODULE SessionProofs ----------------------------
(***************************************************************************)
(* Theorems about open files: a close stores what was written through the  *)
(* descriptor (one thread per client), and what an open file reads changes *)
(* only by writing and truncating (any number of threads per client).      *)
(***************************************************************************)
EXTENDS AfsSystemProofs

-----------------------------------------------------------------------------
(* What the step of a process leaves to the others.                        *)

OthersKeep(p) ==
    /\ \A q \in Procs \ {p} :
          /\ pc'[q] = pc[q] /\ op'[q] = op[q] /\ file'[q] = file[q] /\ file2'[q] = file2[q]
          /\ handle'[q] = handle[q] /\ dirty'[q] = dirty[q] /\ base'[q] = base[q]
    /\ \A c \in Clients \ {C(p)} : last'[c] = last[c]

LEMMA StartOthersKeep ==
    ASSUME TypeOK, NEW p \in Procs, StartOp(p) PROVE OthersKeep(p)
  <1> USE DEF TypeOK, ClientTypeOK, Begin, Goto, OthersKeep
  <1>1. CASE \E f \in Files, o \in {"stat", "read", "write"} : StartFetch(p, o, f)
    BY <1>1 DEF StartFetch
  <1>2. CASE \E f \in Files : StartLookup(p, f)
    BY <1>2 DEF StartLookup
  <1>3. CASE \E f \in Files : StartTruncate(p, f)
    BY <1>3 DEF StartTruncate
  <1>4. CASE \E f \in Files : StartUnlink(p, f)
    BY <1>4 DEF StartUnlink
  <1>5. CASE \E f, g \in Files : StartRename(p, f, g)
    BY <1>5 DEF StartRename
  <1> QED
    BY <1>1, <1>2, <1>3, <1>4, <1>5 DEF StartOp

\* A rename gives the open files of its client their new names: with one thread per
\* client there are none.
LEMMA StepOthersKeep ==
    ASSUME TypeOK, NEW p \in Procs, ProcStep(p) \/ Write(p) \/ Discard(p),
           SerialClients \/ ~RenameReply(p)
    PROVE  OthersKeep(p)
  <1> USE DEF TypeOK, ClientTypeOK, Goto, OthersKeep
  <1>0. ASSUME NEW st, FetchFails(p, st)
        PROVE  \A q \in Procs \ {p} : pc'[q] = pc[q] /\ op'[q] = op[q]
    BY <1>0 DEF FetchFails, Creat
  <1>1. CASE CreateReply(p) \/ CheckCache(p)
    BY <1>1 DEF CreateReply, CheckCache
  <1>2. CASE AuthReply(p)
    BY <1>0, <1>2 DEF AuthReply
  <1>3. CASE FetchReply(p)
    BY <1>0, <1>3 DEF FetchReply
  <1>4. CASE Stamp(p)
    BY <1>0, <1>4 DEF Stamp
  <1>5. CASE OpenLocal(p)
    BY <1>5 DEF OpenLocal, Creat
  <1>6. CASE Close(p)
    BY <1>6 DEF Close
  <1>7. CASE StoreRead(p) \/ StoreReply(p)
    BY <1>7 DEF StoreRead, StoreReply
  <1>8. CASE RemoveReply(p)
    BY <1>8 DEF RemoveReply
  <1>9. CASE RenameReply(p)
    <2>1. \A q \in Procs \ {p} : file'[q] = file[q] /\ file2'[q] = file2[q]
      BY <1>9, RenamesOwn DEF SerialClients, C
    <2> QED
      BY <1>9, <2>1 DEF RenameReply
  <1>10. CASE Write(p) \/ Discard(p)
    BY <1>10 DEF Write, Discard, clientVars
  <1> QED
    BY <1>1, <1>2, <1>3, <1>4, <1>5, <1>6, <1>7, <1>8, <1>9, <1>10 DEF ProcStep

\* What one process owns of a session: the file behind its descriptor is the one its
\* path names, and after a write it holds what was written.
SessionInv(p) ==
    /\ pc[p] = "session" => Cached(C(p), file[p]) /\ handle[p] = path[C(p)][file[p]]
    /\ (pc[p] = "session" /\ dirty[p]) \/ pc[p] = "sread" =>
          Cached(C(p), file[p]) /\ Copy(C(p), file[p]).data = last[C(p)][file[p]]
    /\ pc[p] = "store" => call[p].data = last[C(p)][file[p]]

CloseInv == TypeOK /\ \A p \in Procs : SessionInv(p)

LEMMA NoSession ==
    ASSUME NEW p \in Procs, pc'[p] \notin {"session", "sread", "store"} PROVE SessionInv(p)'
  BY DEF SessionInv

LEMMA StartKeepsSession == ASSUME TypeOK, NEW p \in Procs, StartOp(p) PROVE SessionInv(p)'
  <1>0. pc \in [Procs -> PCs] /\ C(p) \in Clients
    BY ClientOfType DEF TypeOK, ClientTypeOK
  <1>1. CASE \E f \in Files : StartTruncate(p, f)
    <2>1. PICK f \in Files, t \in Stamps :
            /\ StartTruncate(p, f)
            /\ disk' = [disk EXCEPT ![C(p)][path[C(p)][f]] = Written(mods + 1, Local(C(p), t))]
      BY <1>1 DEF StartTruncate
    <2>2. pc'[p] = "sread" /\ file'[p] = f /\ path' = path /\ Cached(C(p), f)
      BY <1>0, <2>1 DEF StartTruncate, Begin, Goto, TypeOK, ClientTypeOK
    <2>3. path[C(p)][f] \in Inodes
      BY <1>0, <2>2, CopyType DEF TypeOK
    <2>4. disk'[C(p)][path[C(p)][f]].data = mods + 1
      BY <1>0, <2>1, <2>3 DEF TypeOK, ClientTypeOK, Written
    <2>5. last'[C(p)][f] = mods + 1
      BY <1>0, <2>1 DEF StartTruncate, TypeOK, ClientTypeOK
    <2> QED
      BY <2>2, <2>4, <2>5 DEF SessionInv, Cached, Copy, C
  <1>2. CASE ~\E f \in Files : StartTruncate(p, f)
    <2>1. pc'[p] \in {"auth", "remove", "rename"}
      BY <1>0, <1>2 DEF StartOp, StartFetch, StartLookup, StartUnlink, StartRename, Goto
    <2> QED
      BY <2>1, NoSession
  <1> QED
    BY <1>1, <1>2

LEMMA StepKeepsSession ==
    ASSUME TypeOK, NEW p \in Procs, SessionInv(p), ProcStep(p) \/ Write(p) \/ Discard(p)
    PROVE  SessionInv(p)'
  <1> USE DEF Goto
  <1>0. /\ pc \in [Procs -> PCs] /\ C(p) \in Clients /\ file[p] \in Files
        /\ C(p)' = C(p)
    BY ClientOfType DEF TypeOK, ClientTypeOK, C
  <1>1. ASSUME pc'[p] \in {"idle", "create", "auth", "check", "fetch", "stamp", "open"}
        PROVE  SessionInv(p)'
    BY <1>1, NoSession
  <1>2. ASSUME NEW st, FetchFails(p, st) PROVE SessionInv(p)'
    BY <1>0, <1>1, <1>2 DEF FetchFails, Creat
  <1>3. CASE CreateReply(p) \/ CheckCache(p)
    BY <1>0, <1>1, <1>3 DEF CreateReply, CheckCache
  <1>4. CASE AuthReply(p) \/ FetchReply(p) \/ Stamp(p)
    BY <1>0, <1>1, <1>2, <1>4 DEF AuthReply, FetchReply, Stamp
  <1>5. CASE OpenLocal(p)
    <2>1. CASE ~Goto(p, "session")
      BY <1>0, <1>1, <1>5, <2>1 DEF OpenLocal, Creat
    <2>2. CASE Goto(p, "session")
      <3>1. pc'[p] = "session" /\ dirty'[p] = FALSE /\ file' = file
        BY <1>0, <1>5, <2>2 DEF OpenLocal, TypeOK, ClientTypeOK
      <3>2. Cached(C(p), file[p])' /\ handle'[p] = path'[C(p)][file[p]]
        <4>1. CASE Cached(C(p), file[p])
          <5>1. handle' = [handle EXCEPT ![p] = path[C(p)][file[p]]] /\ path' = path
            BY <1>0, <1>5, <2>2, <4>1 DEF OpenLocal, Creat
          <5> QED
            BY <1>0, <3>1, <4>1, <5>1 DEF Cached, TypeOK, ClientTypeOK
        <4>2. CASE ~Cached(C(p), file[p])
          <5>1. PICK i \in FreeInodes(C(p)) :
                  /\ path' = [path EXCEPT ![C(p)][file[p]] = i]
                  /\ handle' = [handle EXCEPT ![p] = i]
            BY <1>0, <1>5, <2>2, <4>2 DEF OpenLocal, Creat
          <5>2. i # NoInode
            BY InodesAreNaturals DEF FreeInodes, NoInode
          <5> QED
            BY <1>0, <3>1, <5>1, <5>2 DEF Cached, TypeOK, ClientTypeOK
        <4> QED
          BY <4>1, <4>2
      <3> QED
        BY <1>0, <3>1, <3>2 DEF SessionInv, Cached
    <2> QED
      BY <2>1, <2>2
  <1>6. CASE Close(p)
    <2>1. pc'[p] = (IF dirty[p] THEN "sread" ELSE "idle") /\ pc[p] = "session"
          /\ UNCHANGED <<path, disk, file, last>>
      BY <1>0, <1>6 DEF Close
    <2> QED
      BY <1>0, <2>1 DEF SessionInv, Cached, Copy
  <1>7. CASE StoreRead(p)
    <2>1. CASE Cached(C(p), file[p])
      <3>1. /\ pc'[p] = "store" /\ UNCHANGED <<file, last>> /\ pc[p] = "sread"
            /\ call'[p].data = Copy(C(p), file[p]).data
        BY <1>0, <1>7, <2>1 DEF StoreRead, Issue, Request, TypeOK, ServerTypeOK
      <3> QED
        BY <1>0, <3>1 DEF SessionInv
    <2>2. CASE ~Cached(C(p), file[p])
      BY <1>0, <1>1, <1>7, <2>2 DEF StoreRead
    <2> QED
      BY <2>1, <2>2
  <1>8. CASE StoreReply(p) \/ RemoveReply(p) \/ RenameReply(p)
    BY <1>0, <1>1, <1>8 DEF StoreReply, RemoveReply, RenameReply
  <1>9. CASE Write(p)
    <2>1. PICK t \in Stamps :
            disk' = [disk EXCEPT ![C(p)][handle[p]] = Written(mods + 1, Local(C(p), t))]
      BY <1>9 DEF Write
    <2>2. /\ pc[p] = "session" /\ UNCHANGED <<path, pc, file, handle>>
          /\ last' = [last EXCEPT ![C(p)][file[p]] = mods + 1]
      BY <1>9 DEF Write
    <2>3. Cached(C(p), file[p]) /\ handle[p] = path[C(p)][file[p]]
      BY <2>2 DEF SessionInv
    <2>4. handle[p] \in Inodes
      BY <1>0, <2>3, CopyType DEF TypeOK
    <2>5. disk'[C(p)][handle[p]].data = mods + 1
      BY <1>0, <2>1, <2>4 DEF TypeOK, ClientTypeOK, Written
    <2>6. last'[C(p)][file[p]] = mods + 1
      BY <1>0, <2>2 DEF TypeOK, ClientTypeOK
    <2> QED
      BY <1>0, <2>2, <2>3, <2>5, <2>6 DEF SessionInv, Cached, Copy
  <1>10. CASE Discard(p)
    BY <1>0, <1>1, <1>10 DEF Discard, clientVars
  <1> QED
    BY <1>3, <1>4, <1>5, <1>6, <1>7, <1>8, <1>9, <1>10 DEF ProcStep

LEMMA CloseInvNext == ASSUME SerialClients, CloseInv, [Next]_vars PROVE CloseInv'
  <1> USE DEF CloseInv
  <1>0. TypeOK'
    BY NextType
  <1>1. ASSUME NEW p \in Procs, StartOp(p) \/ ProcStep(p) \/ Write(p) \/ Discard(p)
        PROVE  CloseInv'
    <2>1. Frame(p) /\ OthersKeep(p)
      BY <1>1, StartFrame, StepCallFrame, StepCacheFrame, StartOthersKeep, StepOthersKeep DEF Frame
    <2>2. SessionInv(p)'
      BY <1>1, StartKeepsSession, StepKeepsSession
    <2>3. ASSUME NEW q \in Procs \ {p} PROVE SessionInv(q)'
      <3>1. C(q) \in Clients /\ C(q) # C(p) /\ C(q)' = C(q)
        BY ClientOfType DEF SerialClients, C
      <3>2. /\ path'[C(q)] = path[C(q)] /\ disk'[C(q)] = disk[C(q)] /\ last'[C(q)] = last[C(q)]
            /\ pc'[q] = pc[q] /\ file'[q] = file[q] /\ call'[q] = call[q]
            /\ handle'[q] = handle[q] /\ dirty'[q] = dirty[q]
        BY <2>1, <3>1 DEF Frame, CallFrame, CacheFrame, OthersKeep
      <3> QED
        BY <3>1, <3>2 DEF SessionInv, Cached, Copy
    <2> QED
      BY <1>0, <2>2, <2>3
  <1>2. CASE /\ UNCHANGED clientVars
             /\ (\E w \in Procs : HandlerStep(w) \/ HandlerFault(w)) \/ Crash \/ Restart
    <2>1. call' = call
      BY <1>2, HandlerFrame DEF Crash, Restart, TypeOK
    <2> QED
      BY <1>0, <1>2, <2>1 DEF clientVars, SessionInv, Cached, Copy, C
  <1>3. ASSUME NEW c \in Clients, ClientCrash(c) PROVE CloseInv'
    <2>1. ASSUME NEW q \in Procs PROVE SessionInv(q)'
      <3>1. CASE C(q) = c
        BY <1>3, <3>1, NoSession DEF ClientCrash, C
      <3>2. CASE C(q) # c
        <4>1. C(q) \in Clients /\ C(q)' = C(q)
          BY ClientOfType DEF C
        <4>2. /\ path'[C(q)] = path[C(q)] /\ disk' = disk /\ last'[C(q)] = last[C(q)]
              /\ pc'[q] = pc[q] /\ file'[q] = file[q] /\ call' = call
              /\ handle'[q] = handle[q] /\ dirty'[q] = dirty[q]
          BY <1>3, <3>2, <4>1 DEF ClientCrash, serverVars, TypeOK, ClientTypeOK, C
        <4> QED
          BY <4>1, <4>2 DEF SessionInv, Cached, Copy
      <3> QED
        BY <3>1, <3>2
    <2> QED
      BY <1>0, <2>1
  <1>4. CASE UNCHANGED vars
    BY <1>0, <1>4 DEF vars, serverVars, clientVars, SessionInv, Cached, Copy, C
  <1> QED
    BY <1>1, <1>2, <1>3, <1>4 DEF Next, CrashClient

\* The content that a close or a truncate sends to the server is the one last written
\* to the file by the client: no fetch, store or crash comes between the last write and
\* the read of Store.  With two threads per client it does not hold (run refetch).
THEOREM CloseFlushes == ASSUME SerialClients PROVE Spec => []CloseFlushesWrites
  <1>1. Init => CloseInv
    BY InitType DEF CloseInv, Init, ClientInit, SessionInv
  <1>2. CloseInv /\ [Next]_vars => CloseInv'
    BY CloseInvNext, SerialClients
  <1>3. CloseInv => CloseFlushesWrites
    BY DEF CloseInv, SessionInv, CloseFlushesWrites
  <1> QED
    BY <1>1, <1>2, <1>3, PTL DEF Spec

-----------------------------------------------------------------------------
(* Names and descriptors, for any number of threads per client.            *)

\* A cached file has one name; a descriptor is that of a session, and its file, if it
\* still has a name, has the one it was opened by.
NamesInv ==
    /\ \A c \in Clients : \A f, g \in Files :
          Cached(c, f) /\ path[c][f] = path[c][g] => f = g
    /\ \A p \in Procs :
          /\ handle[p] # NoInode => pc[p] = "session"
          /\ pc[p] = "session" => handle[p] \in Inodes /\ op[p] # "stat"
          /\ pc[p] = "session" =>
                \A g \in Files : path[C(p)][g] = handle[p] => g = file[p]
    /\ \A p, q \in Procs :
          pc[p] = "session" /\ pc[q] = "session" /\ C(p) = C(q) /\ handle[p] = handle[q] =>
             file[p] = file[q]

\* Every content anywhere has a number that was given out.
Numbered ==
    /\ \A c \in Clients, i \in Inodes : disk[c][i].data <= mods
    /\ \A f \in Files : sfile[f].data <= mods
    /\ \A w \in Procs : call[w].data <= mods /\ reply[w].data <= mods

StableInv == TypeOK /\ NamesInv /\ Numbered

-----------------------------------------------------------------------------
(* Contents are numbered.                                                  *)

LEMMA HandlerKeepsNumbered ==
    ASSUME TypeOK, Numbered, NEW w \in Procs, HandlerStep(w) \/ HandlerFault(w),
           UNCHANGED clientVars
    PROVE  Numbered'
  <1> USE DEF Numbered
  <1>0. /\ call[w].file \in Files /\ call[w].dst \in Files /\ mods \in Nat /\ mods' = mods
        /\ sfile \in [Files -> FileRec] /\ reply \in [Procs -> ReplyRec]
        /\ disk' = disk
    BY DEF TypeOK, ServerTypeOK, ClientTypeOK, RequestRec, clientVars
  <1>1. call' = call /\ \A q \in Procs \ {w} : reply'[q] = reply[q]
    BY HandlerFrame DEF TypeOK
  <1>2. ASSUME NEW r, Answer(w, r), r.data <= mods PROVE reply'[w].data <= mods
    BY <1>0, <1>2 DEF Answer
  <1>3. \A st : Bare(st).data = 0
    BY DEF Bare
  <1>4. \A f \in Files : Report(f).data = sfile[f].data
    BY DEF Report
  <1>5. /\ \A f \in Files : sfile'[f].data <= mods
        /\ reply'[w].data <= mods
    <2>1. CASE TestAuth(w) \/ Fetch(w)
      BY <1>0, <1>2, <1>4, <2>1 DEF TestAuth, Fetch
    <2>2. CASE Create(w)
      <3>1. PICK t : sfile' = [sfile EXCEPT ![call[w].file] =
                                  [data |-> 0, mtime |-> t, ver |-> sver + 1]]
        BY <2>2 DEF Create
      <3> QED
        BY <1>0, <1>2, <1>3, <2>2, <3>1 DEF Create
    <2>3. CASE Remove(w) \/ StoreUnlink(w)
      <3>1. sfile' = [sfile EXCEPT ![call[w].file] = Absent] /\ Absent.data = 0
        BY <2>3 DEF Remove, StoreUnlink, Absent
      <3> QED
        BY <1>0, <1>2, <1>3, <2>3, <3>1 DEF Remove, StoreUnlink
    <2>4. CASE Rename(w) /\ Exists(call[w].file)
      <3> DEFINE moved == [sfile[call[w].file] EXCEPT !.ver = sver + 1]
                 r == [st |-> "ok", mtime |-> 0, data |-> 0,
                       ver |-> sver + 1, of |-> sfile[call[w].file].ver]
      <3>1. moved.data = sfile[call[w].file].data
        BY <1>0 DEF FileRec
      <3>2. r.data = 0
        OBVIOUS
      <3>3. /\ sfile' = [sfile EXCEPT ![call[w].dst] = moved, ![call[w].file] = Absent]
            /\ Answer(w, r)
        BY <2>4 DEF Rename
      <3> HIDE DEF moved, r
      <3>4. \A f \in Files : sfile'[f].data \in {sfile[f].data, moved.data, 0}
        BY <1>0, <3>3 DEF Absent
      <3> QED
        BY <1>0, <1>2, <3>1, <3>2, <3>3, <3>4
    <2>5. CASE Rename(w) /\ ~Exists(call[w].file)
      BY <1>0, <1>2, <1>3, <2>5 DEF Rename
    <2>6. CASE StoreWrite(w)
      BY <1>0, <2>6 DEF StoreWrite
    <2>7. CASE StoreRename(w)
      <3>1. /\ sfile' = [sfile EXCEPT ![call[w].file] =
                            [data |-> call[w].data, mtime |-> stmp[w], ver |-> sver + 1]]
            /\ reply' = [reply EXCEPT ![w] = [Bare("EIO") EXCEPT !.ver = sver + 1]]
        BY <2>7 DEF StoreRename
      <3>2. [Bare("EIO") EXCEPT !.ver = sver + 1].data = 0
        BY DEF Bare
      <3>3. reply'[w].data = 0
        BY <1>0, <3>1, <3>2
      <3> QED
        BY <1>0, <3>1, <3>3
    <2>8. CASE StoreStat(w)
      BY <1>0, <1>2, <2>8 DEF StoreStat, Answer
    <2>9. CASE HandlerFault(w)
      BY <1>0, <1>2, <1>3, <2>9 DEF HandlerFault, StoreAbort, HandlerError
    <2> QED
      BY <2>1, <2>2, <2>3, <2>4, <2>5, <2>6, <2>7, <2>8, <2>9 DEF HandlerStep
  <1> QED
    BY <1>0, <1>1, <1>5

\* What a step of p does to the contents in the caches: nothing, ...
KeepsContents == \A c \in Clients, i \in Inodes : disk'[c][i].data = disk[c][i].data

Only(c, i) == \A d \in Clients, j \in Inodes : d # c \/ j # i => disk'[d][j].data = disk[d][j].data

\* ... or it fills a free inode, ...
Fills(p) ==
    \E i \in FreeInodes(C(p)) :
        Only(C(p), i) /\ disk'[C(p)][i].data \in {0, reply[p].data}

\* ... or it writes a new content, through its descriptor or its path.
Rewrites(p) ==
    \E i \in Inodes :
        /\ Only(C(p), i) /\ disk'[C(p)][i].data = mods + 1 /\ mods' = mods + 1
        /\ last'[C(p)][file'[p]] = mods + 1
        /\ \/ i = handle[p] /\ pc[p] = "session" /\ file'[p] = file[p]
           \/ i = path[C(p)][file'[p]]

LEMMA OneInode ==
    ASSUME TypeOK, NEW c \in Clients, NEW i \in Inodes, NEW r,
           disk' = [disk EXCEPT ![c][i] = r]
    PROVE  Only(c, i) /\ disk'[c][i] = r
  BY DEF TypeOK, ClientTypeOK, Only

LEMMA SameContent ==
    ASSUME TypeOK, NEW c \in Clients, NEW i \in Inodes, NEW r,
           disk' = [disk EXCEPT ![c][i] = r], r.data = disk[c][i].data
    PROVE  KeepsContents
  BY OneInode DEF KeepsContents, Only

LEMMA StartContents ==
    ASSUME TypeOK, NEW p \in Procs, StartOp(p) PROVE KeepsContents \/ Rewrites(p)
  <1>1. CASE \E f \in Files : StartTruncate(p, f)
    <2>0. C(p) \in Clients
      BY ClientOfType
    <2>1. PICK f \in Files, t \in Stamps :
            /\ StartTruncate(p, f)
            /\ disk' = [disk EXCEPT ![C(p)][path[C(p)][f]] = Written(mods + 1, Local(C(p), t))]
      BY <1>1 DEF StartTruncate
    <2>2. path[C(p)][f] \in Inodes
      BY <2>0, <2>1, CopyType DEF StartTruncate, TypeOK
    <2>3. file'[p] = f /\ mods' = mods + 1 /\ last'[C(p)][f] = mods + 1
      BY <2>0, <2>1 DEF StartTruncate, Begin, Count, TypeOK, ClientTypeOK
    <2>4. Only(C(p), path[C(p)][f]) /\ disk'[C(p)][path[C(p)][f]] = Written(mods + 1, Local(C(p), t))
      BY <2>0, <2>1, <2>2 DEF TypeOK, ClientTypeOK, Only
    <2>5. disk'[C(p)][path[C(p)][f]].data = mods + 1
      BY <2>4 DEF Written
    <2> QED
      BY <2>2, <2>3, <2>4, <2>5 DEF Rewrites
  <1>2. CASE ~\E f \in Files : StartTruncate(p, f)
    BY <1>2 DEF StartOp, StartFetch, StartLookup, StartUnlink, StartRename, KeepsContents
  <1> QED
    BY <1>1, <1>2

LEMMA StepContents ==
    ASSUME TypeOK, NamesInv, NEW p \in Procs, ProcStep(p) \/ Write(p) \/ Discard(p)
    PROVE  KeepsContents \/ Fills(p) \/ Rewrites(p)
  <1>0. C(p) \in Clients /\ file[p] \in Files /\ FreeInodes(C(p)) \subseteq Inodes
    BY ClientOfType DEF TypeOK, ClientTypeOK, FreeInodes
  <1>1. CASE disk' = disk
    BY <1>1 DEF KeepsContents
  <1>2. CASE FetchReply(p) /\ disk' # disk
    <2> DEFINE r == [data |-> reply[p].data, mtime |-> Local(C(p), clock),
                     ver |-> reply[p].ver, stamp |-> 0, by |-> "clock"]
    <2>1. PICK i \in FreeInodes(C(p)) : disk' = [disk EXCEPT ![C(p)][i] = r]
      BY <1>2 DEF FetchReply
    <2>2. r.data = reply[p].data
      OBVIOUS
    <2> HIDE DEF r
    <2>3. Only(C(p), i) /\ disk'[C(p)][i] = r
      BY <1>0, <2>1 DEF TypeOK, ClientTypeOK, Only
    <2> QED
      BY <2>2, <2>3 DEF Fills
  <1>3. CASE Stamp(p) /\ disk' # disk
    <2> DEFINE copy == Copy(C(p), file[p])
               r == [copy EXCEPT !.mtime = auth[p].mtime, !.stamp = auth[p].ver, !.by = "fetch"]
    <2>1. Cached(C(p), file[p]) /\ disk' = [disk EXCEPT ![C(p)][path[C(p)][file[p]]] = r]
      BY <1>3 DEF Stamp, Copy
    <2>2. path[C(p)][file[p]] \in Inodes /\ copy \in InodeRec
      BY <1>0, <2>1, CopyType DEF TypeOK
    <2>3. r.data = disk[C(p)][path[C(p)][file[p]]].data
      BY <2>2 DEF InodeRec, Copy
    <2> HIDE DEF r
    <2> QED
      BY <1>0, <2>1, <2>2, <2>3, SameContent
  <1>4. CASE OpenLocal(p) /\ disk' # disk
    <2>1. PICK i \in FreeInodes(C(p)), t \in Stamps :
            disk' = [disk EXCEPT ![C(p)][i] = Written(0, Local(C(p), t))]
      BY <1>4 DEF OpenLocal
    <2>2. Written(0, Local(C(p), t)).data = 0
      BY DEF Written
    <2>3. Only(C(p), i) /\ disk'[C(p)][i] = Written(0, Local(C(p), t))
      BY <1>0, <2>1 DEF TypeOK, ClientTypeOK, Only
    <2> QED
      BY <2>2, <2>3 DEF Fills
  <1>5. CASE Write(p)
    <2>1. PICK t : disk' = [disk EXCEPT ![C(p)][handle[p]] = Written(mods + 1, Local(C(p), t))]
      BY <1>5 DEF Write
    <2>2. /\ pc[p] = "session" /\ handle[p] \in Inodes /\ file' = file /\ mods' = mods + 1
          /\ last'[C(p)][file[p]] = mods + 1
      BY <1>0, <1>5 DEF Write, Count, NamesInv, TypeOK, ClientTypeOK
    <2>3. Only(C(p), handle[p]) /\ disk'[C(p)][handle[p]] = Written(mods + 1, Local(C(p), t))
      BY <1>0, <2>1, <2>2 DEF TypeOK, ClientTypeOK, Only
    <2>4. disk'[C(p)][handle[p]].data = mods + 1
      BY <2>3 DEF Written
    <2> QED
      BY <2>2, <2>3, <2>4 DEF Rewrites
  <1>6. CASE StoreReply(p) /\ disk' # disk
    <2> DEFINE copy == Copy(C(p), file[p])
               r == Stored(p, copy)
    <2>1. Cached(C(p), file[p]) /\ disk' = [disk EXCEPT ![C(p)][path[C(p)][file[p]]] = r]
      BY <1>6 DEF StoreReply, Copy, Cached
    <2>2. path[C(p)][file[p]] \in Inodes /\ copy \in InodeRec
      BY <1>0, <2>1, CopyType DEF TypeOK
    <2>3. r.data = disk[C(p)][path[C(p)][file[p]]].data
      BY <2>2 DEF InodeRec, Copy, Stored
    <2> HIDE DEF r
    <2> QED
      BY <1>0, <2>1, <2>2, <2>3, SameContent
  <1>7. CASE RenameReply(p) /\ disk' # disk
    <2> DEFINE copy == Copy(C(p), file[p])
               r == [copy EXCEPT !.ver = reply[p].ver]
    <2>1. Cached(C(p), file[p]) /\ disk' = [disk EXCEPT ![C(p)][path[C(p)][file[p]]] = r]
      BY <1>7 DEF RenameReply, Copy, Cached
    <2>2. path[C(p)][file[p]] \in Inodes /\ copy \in InodeRec
      BY <1>0, <2>1, CopyType DEF TypeOK
    <2>3. r.data = disk[C(p)][path[C(p)][file[p]]].data
      BY <2>2 DEF InodeRec, Copy
    <2> HIDE DEF r
    <2> QED
      BY <1>0, <2>1, <2>2, <2>3, SameContent
  <1> QED
    BY <1>1, <1>2, <1>3, <1>4, <1>5, <1>6, <1>7
       DEF ProcStep, CreateReply, AuthReply, CheckCache, Close, StoreRead, RemoveReply,
           Discard, clientVars

\* What a process sends is what it has in its cache, or nothing.
LEMMA StepSends ==
    ASSUME TypeOK, Numbered, NEW p \in Procs,
           StartOp(p) \/ ProcStep(p) \/ Write(p) \/ Discard(p)
    PROVE  call'[p].data <= mods
  <1>0. /\ call \in [Procs -> RequestRec] /\ call[p].data <= mods /\ 0 <= mods
        /\ C(p) \in Clients /\ file[p] \in Files
    BY ClientOfType DEF TypeOK, ServerTypeOK, ClientTypeOK, Numbered
  <1>1. ASSUME NEW k, NEW f, NEW g, Issue(p, Request(k, f, g, 0)) PROVE call'[p].data <= mods
    BY <1>0, <1>1 DEF Issue, Request
  <1>2. CASE call' = call
    BY <1>0, <1>2
  <1>3. ASSUME NEW st, FetchFails(p, st) PROVE call'[p].data <= mods
    BY <1>1, <1>2, <1>3 DEF FetchFails, Creat
  <1>4. CASE StartOp(p)
    BY <1>1, <1>2, <1>4 DEF StartOp, StartFetch, StartLookup, StartTruncate, StartUnlink, StartRename
  <1>5. CASE StoreRead(p) /\ Cached(C(p), file[p])
    <2>1. path[C(p)][file[p]] \in Inodes
      BY <1>0, <1>5, CopyType DEF TypeOK
    <2>2. Copy(C(p), file[p]).data <= mods
      BY <1>0, <2>1 DEF Numbered, Copy
    <2>3. call' = [call EXCEPT ![p] = Request("Store", file[p], file[p], Copy(C(p), file[p]).data)]
      BY <1>5 DEF StoreRead, Issue
    <2> QED
      BY <1>0, <2>2, <2>3 DEF Request
  <1>6. CASE StoreRead(p) /\ ~Cached(C(p), file[p])
    BY <1>2, <1>6 DEF StoreRead
  <1>7. CASE CreateReply(p)
    BY <1>1, <1>2, <1>7 DEF CreateReply
  <1>8. CASE AuthReply(p)
    BY <1>2, <1>3, <1>8 DEF AuthReply
  <1>9. CASE CheckCache(p)
    BY <1>1, <1>2, <1>9 DEF CheckCache
  <1>10. CASE FetchReply(p)
    BY <1>2, <1>3, <1>10 DEF FetchReply
  <1>11. CASE Stamp(p)
    BY <1>2, <1>3, <1>11 DEF Stamp
  <1>12. CASE OpenLocal(p)
    BY <1>1, <1>2, <1>12 DEF OpenLocal, Creat
  <1>13. CASE Close(p) \/ StoreReply(p) \/ RemoveReply(p) \/ RenameReply(p) \/ Write(p) \/ Discard(p)
    BY <1>2, <1>13 DEF Close, StoreReply, RemoveReply, RenameReply, Write, Discard, serverVars
  <1> QED
    BY <1>4, <1>5, <1>6, <1>7, <1>8, <1>9, <1>10, <1>11, <1>12, <1>13 DEF ProcStep

LEMMA ModsGrow ==
    ASSUME TypeOK, NEW p \in Procs, StartOp(p) \/ ProcStep(p) \/ Write(p) \/ Discard(p)
    PROVE  mods \in Nat /\ mods' \in Nat /\ mods <= mods'
  <1>0. mods \in Nat
    BY DEF TypeOK, ClientTypeOK
  <1>1. mods' \in {mods, mods + 1}
    BY DEF StartOp, StartFetch, StartLookup, StartTruncate, StartUnlink, StartRename, Count,
           ProcStep, CreateReply, AuthReply, CheckCache, FetchReply, Stamp, OpenLocal, Close,
           StoreRead, StoreReply, RemoveReply, RenameReply, Write, Discard, clientVars
  <1> QED
    BY <1>0, <1>1

LEMMA StepKeepsNumbered ==
    ASSUME TypeOK, TypeOK', NamesInv, Numbered, NEW p \in Procs,
           StartOp(p) \/ ProcStep(p) \/ Write(p) \/ Discard(p)
    PROVE  Numbered'
  <1>0. /\ C(p) \in Clients
        /\ disk \in [Clients -> [Inodes -> InodeRec]] /\ disk' \in [Clients -> [Inodes -> InodeRec]]
        /\ sfile \in [Files -> FileRec] /\ call \in [Procs -> RequestRec]
        /\ call' \in [Procs -> RequestRec] /\ reply \in [Procs -> ReplyRec]
    BY ClientOfType DEF TypeOK, ServerTypeOK, ClientTypeOK
  <1>1. mods \in Nat /\ mods' \in Nat /\ mods <= mods'
    BY ModsGrow
  <1>2. CallFrame(p)
    BY StartFrame, StepCallFrame DEF Frame
  <1>3. call'[p].data <= mods
    BY StepSends
  <1>4. KeepsContents \/ Fills(p) \/ Rewrites(p)
    BY StartContents, StepContents
  <1>5. ASSUME NEW c \in Clients, NEW i \in Inodes PROVE disk'[c][i].data <= mods'
    <2>1. /\ disk[c][i].data \in Nat /\ disk[c][i].data <= mods
          /\ reply[p].data \in Nat /\ reply[p].data <= mods
      BY <1>0 DEF InodeRec, ReplyRec, Numbered
    <2>2. \/ disk'[c][i].data \in {disk[c][i].data, 0, reply[p].data}
          \/ (disk'[c][i].data = mods + 1 /\ mods' = mods + 1)
      BY <1>0, <1>4 DEF KeepsContents, Fills, Rewrites, Only
    <2> QED
      BY <1>1, <2>1, <2>2
  <1>6. ASSUME NEW w \in Procs PROVE call'[w].data <= mods' /\ reply'[w].data <= mods'
    <2>1. /\ call'[w].data \in Nat /\ reply[w].data \in Nat
          /\ call[w].data \in Nat /\ reply'[w] = reply[w]
      BY <1>0, <1>2 DEF RequestRec, ReplyRec, CallFrame
    <2>2. call'[w].data <= mods
      BY <1>2, <1>3 DEF CallFrame, Numbered
    <2> QED
      BY <1>1, <2>1, <2>2 DEF Numbered
  <1>7. ASSUME NEW f \in Files PROVE sfile'[f].data <= mods'
    <2>1. sfile[f].data \in Nat /\ sfile' = sfile
      BY <1>0, <1>2 DEF FileRec, CallFrame
    <2> QED
      BY <1>1, <2>1 DEF Numbered
  <1> QED
    BY <1>5, <1>6, <1>7 DEF Numbered


-----------------------------------------------------------------------------
(* Names and descriptors are kept together.                                *)

\* A step that binds no name and opens nothing.
LEMMA SameNames ==
    ASSUME NamesInv, TypeOK, NEW p \in Procs, OthersKeep(p), path' = path,
           handle'[p] \in {handle[p], NoInode},
           handle'[p] # NoInode => pc'[p] = "session",
           pc'[p] = "session" => /\ pc[p] = "session" /\ handle'[p] = handle[p]
                                 /\ file'[p] = file[p] /\ op'[p] = op[p]
    PROVE  NamesInv'
  <1>1. \A q \in Procs :
          /\ C(q)' = C(q)
          /\ pc'[q] = "session" => /\ pc[q] = "session" /\ handle'[q] = handle[q]
                                   /\ file'[q] = file[q] /\ op'[q] = op[q]
          /\ handle'[q] # NoInode => pc'[q] = "session"
    BY DEF NamesInv, OthersKeep, C
  <1>2. \A c \in Clients : \A f, g \in Files :
          Cached(c, f)' /\ path'[c][f] = path'[c][g] => f = g
    BY DEF NamesInv, Cached
  <1>3. \A q \in Procs :
          /\ handle'[q] # NoInode => pc'[q] = "session"
          /\ pc'[q] = "session" => handle'[q] \in Inodes /\ op'[q] # "stat"
          /\ pc'[q] = "session" =>
                \A g \in Files : path'[C(q)'][g] = handle'[q] => g = file'[q]
    BY <1>1 DEF NamesInv
  <1>4. \A q, s \in Procs :
          pc'[q] = "session" /\ pc'[s] = "session" /\ C(q)' = C(s)' /\ handle'[q] = handle'[s] =>
             file'[q] = file'[s]
    BY <1>1 DEF NamesInv
  <1> QED
    BY <1>2, <1>3, <1>4 DEF NamesInv, Inodes

\* A step that binds the name of p's file to a free inode, and may open it.
LEMMA NewName ==
    ASSUME NamesInv, TypeOK, NEW p \in Procs, OthersKeep(p), NEW i \in FreeInodes(C(p)),
           path' = [path EXCEPT ![C(p)][file[p]] = i], file'[p] = file[p],
           pc[p] # "session",
           \/ pc'[p] # "session" /\ handle' = handle
           \/ pc'[p] = "session" /\ handle' = [handle EXCEPT ![p] = i] /\ op'[p] # "stat"
    PROVE  NamesInv'
  <1>0. /\ C(p) \in Clients /\ file[p] \in Files /\ path \in [Clients -> [Files -> Inodes \cup {NoInode}]]
        /\ handle \in [Procs -> Inodes \cup {NoInode}]
        /\ i \in Inodes /\ i # NoInode
        /\ \A f \in Files : path[C(p)][f] # i
        /\ \A q \in Procs : C(q) = C(p) => handle[q] # i
        /\ \A q \in Procs : C(q)' = C(q) /\ C(q) \in Clients
    BY ClientOfType, InodesAreNaturals DEF TypeOK, ClientTypeOK, FreeInodes, NoInode, C
  <1>1. \A c \in Clients, f \in Files :
          \/ path'[c][f] = path[c][f] /\ (c = C(p) => f # file[p])
          \/ path'[c][f] = i /\ c = C(p) /\ f = file[p]
    BY <1>0
  <1>2. \A q \in Procs : pc'[q] = "session" =>
          \/ /\ pc[q] = "session" /\ handle'[q] = handle[q] /\ file'[q] = file[q] /\ op'[q] = op[q]
             /\ q # p
          \/ handle'[q] = i /\ q = p /\ op'[q] # "stat"
    BY <1>0 DEF OthersKeep
  <1>3. \A c \in Clients : \A f, g \in Files :
          Cached(c, f)' /\ path'[c][f] = path'[c][g] => f = g
    <2> SUFFICES ASSUME NEW c \in Clients, NEW f \in Files, NEW g \in Files,
                        path'[c][f] # NoInode, path'[c][f] = path'[c][g]
                 PROVE  f = g
      BY DEF Cached
    <2> QED
      BY <1>0, <1>1 DEF NamesInv, Cached
  <1>4. ASSUME NEW q \in Procs PROVE handle'[q] # NoInode => pc'[q] = "session"
    BY <1>0 DEF NamesInv, OthersKeep
  <1>5. ASSUME NEW q \in Procs, pc'[q] = "session"
        PROVE  /\ handle'[q] \in Inodes /\ op'[q] # "stat"
               /\ \A g \in Files : path'[C(q)'][g] = handle'[q] => g = file'[q]
    <2>1. CASE q # p
      <3>1. /\ handle'[q] = handle[q] /\ file'[q] = file[q] /\ op'[q] = op[q]
            /\ pc[q] = "session" /\ handle[q] \in Inodes
        BY <1>2, <1>5, <2>1 DEF NamesInv
      <3>2. ASSUME NEW g \in Files, path'[C(q)][g] = handle[q] PROVE g = file[q]
        <4>1. path'[C(q)][g] = path[C(q)][g]
          BY <1>0, <1>1, <3>2
        <4> QED
          BY <3>1, <3>2, <4>1 DEF NamesInv
      <3> QED
        BY <1>0, <3>1, <3>2 DEF NamesInv
    <2>2. CASE q = p
      BY <1>0, <1>1, <1>2, <1>5, <2>2
    <2> QED
      BY <2>1, <2>2
  <1>6. ASSUME NEW q \in Procs, NEW s \in Procs, pc'[q] = "session", pc'[s] = "session",
               C(q)' = C(s)', handle'[q] = handle'[s]
        PROVE  file'[q] = file'[s]
    <2>1. CASE q # p /\ s # p
      BY <1>0, <1>2, <1>6, <2>1 DEF NamesInv
    <2>2. CASE q = p \/ s = p
      BY <1>0, <1>2, <1>6, <2>2
    <2> QED
      BY <2>1, <2>2
  <1> QED
    BY <1>3, <1>4, <1>5, <1>6 DEF NamesInv, Inodes

LEMMA OpenKeepsNames ==
    ASSUME TypeOK, NamesInv, NEW p \in Procs, OpenLocal(p) PROVE NamesInv'
  <1>0. /\ OthersKeep(p) /\ C(p) \in Clients /\ file[p] \in Files /\ pc[p] = "open"
        /\ pc \in [Procs -> PCs] /\ op \in [Procs -> AllOps] /\ file' = file
        /\ handle \in [Procs -> Inodes \cup {NoInode}]
        /\ \A q \in Procs : C(q)' = C(q)
    BY StepOthersKeep, ClientOfType DEF ProcStep, OpenLocal, RenameReply, TypeOK, ClientTypeOK, C
  <1>1. handle[p] = NoInode
    BY <1>0 DEF NamesInv
  <1>2. CASE handle' = handle /\ path' = path /\ ~Goto(p, "session")
    <2>1. pc'[p] # "session"
      BY <1>0, <1>2 DEF OpenLocal, Creat, Goto
    <2> QED
      BY <1>0, <1>1, <1>2, <2>1, SameNames
  <1>3. CASE /\ op[p] \in {"read", "write", "creat"} /\ Cached(C(p), file[p])
             /\ handle' = [handle EXCEPT ![p] = path[C(p)][file[p]]]
             /\ Goto(p, "session") /\ UNCHANGED <<path, op>>
    <2>1. /\ path[C(p)][file[p]] \in Inodes /\ path' = path /\ pc'[p] = "session"
          /\ handle'[p] = path[C(p)][file[p]] /\ op'[p] # "stat"
          /\ \A g \in Files : path[C(p)][g] = path[C(p)][file[p]] => g = file[p]
      BY <1>0, <1>3, CopyType DEF NamesInv, Goto, TypeOK
    <2>2. \A q \in Procs \ {p} :
            /\ handle'[q] = handle[q] /\ pc'[q] = pc[q] /\ op'[q] = op[q]
            /\ pc[q] = "session" /\ C(q) = C(p) /\ handle[q] = handle'[p] => file[q] = file[p]
      BY <1>0, <2>1 DEF OthersKeep, NamesInv
    <2>3. \A q \in Procs :
            /\ handle'[q] # NoInode => pc'[q] = "session"
            /\ pc'[q] = "session" => handle'[q] \in Inodes /\ op'[q] # "stat"
            /\ pc'[q] = "session" =>
                  \A g \in Files : path'[C(q)'][g] = handle'[q] => g = file'[q]
      BY <1>0, <2>1, <2>2 DEF NamesInv
    <2>4. \A q, s \in Procs :
            pc'[q] = "session" /\ pc'[s] = "session" /\ C(q)' = C(s)' /\ handle'[q] = handle'[s]
               => file'[q] = file'[s]
      BY <1>0, <2>1, <2>2 DEF NamesInv
    <2>5. \A c \in Clients : \A f, g \in Files :
            Cached(c, f)' /\ path'[c][f] = path'[c][g] => f = g
      BY <2>1 DEF NamesInv, Cached
    <2> QED
      BY <2>3, <2>4, <2>5 DEF NamesInv, Inodes
  <1>4. CASE /\ op[p] = "creat" /\ Goto(p, "session") /\ op' = op
             /\ \E i \in FreeInodes(C(p)) :
                  /\ path' = [path EXCEPT ![C(p)][file[p]] = i]
                  /\ handle' = [handle EXCEPT ![p] = i]
    <2>1. pc'[p] = "session" /\ op'[p] # "stat"
      BY <1>0, <1>4 DEF Goto
    <2> QED
      BY <1>0, <1>4, <2>1, NewName
  <1>5. Goto(p, "idle") => ~Goto(p, "session")
    BY <1>0 DEF Goto
  <1>6. Creat(p) => ~Goto(p, "session")
    BY <1>0 DEF Goto, Creat
  <1> QED
    BY <1>2, <1>3, <1>4, <1>5, <1>6 DEF OpenLocal

LEMMA RemoveKeepsNames ==
    ASSUME TypeOK, NamesInv, NEW p \in Procs, RemoveReply(p) PROVE NamesInv'
  <1>0. /\ OthersKeep(p) /\ C(p) \in Clients /\ file[p] \in Files /\ handle' = handle
        /\ pc'[p] = "idle" /\ pc[p] = "remove"
        /\ path \in [Clients -> [Files -> Inodes \cup {NoInode}]]
        /\ \A q \in Procs : C(q)' = C(q) /\ C(q) \in Clients
        /\ NoInode \notin Inodes
    BY StepOthersKeep, ClientOfType, InodesAreNaturals
       DEF ProcStep, RemoveReply, RenameReply, Goto, TypeOK, ClientTypeOK, C, NoInode
  <1>1. \A c \in Clients, f \in Files : path'[c][f] \in {path[c][f], NoInode}
    <2>1. CASE path' = path
      BY <2>1
    <2>2. CASE path' = [path EXCEPT ![C(p)][file[p]] = NoInode]
      BY <1>0, <2>2
    <2> QED
      BY <2>1, <2>2 DEF RemoveReply
  <1>2. \A q \in Procs :
          /\ handle'[q] # NoInode => pc'[q] = "session"
          /\ pc'[q] = "session" => handle'[q] \in Inodes /\ op'[q] # "stat"
          /\ pc'[q] = "session" =>
                \A g \in Files : path'[C(q)'][g] = handle'[q] => g = file'[q]
    BY <1>0, <1>1 DEF NamesInv, OthersKeep
  <1>3. \A q, s \in Procs :
          pc'[q] = "session" /\ pc'[s] = "session" /\ C(q)' = C(s)' /\ handle'[q] = handle'[s]
             => file'[q] = file'[s]
    BY <1>0 DEF NamesInv, OthersKeep
  <1>4. \A c \in Clients : \A f, g \in Files :
          Cached(c, f)' /\ path'[c][f] = path'[c][g] => f = g
    BY <1>0, <1>1 DEF NamesInv, Cached
  <1> QED
    BY <1>2, <1>3, <1>4 DEF NamesInv, Inodes

\* The sessions on the inode that is renamed are sessions on its old name, and follow it
\* to the new one.
LEMMA RenameKeepsNames ==
    ASSUME TypeOK, NamesInv, NEW p \in Procs, RenameReply(p) PROVE NamesInv'
  <1> DEFINE i == path[C(p)][file[p]]
  <1>0. /\ C(p) \in Clients /\ file[p] \in Files /\ file2[p] \in Files
        /\ handle' = handle /\ op' = op /\ pc[p] = "rename" /\ pc'[p] = "idle"
        /\ \A q \in Procs \ {p} : pc'[q] = pc[q]
        /\ path \in [Clients -> [Files -> Inodes \cup {NoInode}]]
        /\ \A q \in Procs : C(q)' = C(q) /\ C(q) \in Clients
        /\ NoInode \notin Inodes
    BY ClientOfType, InodesAreNaturals DEF RenameReply, Goto, TypeOK, ClientTypeOK, C, NoInode
  <1>1. \A q \in Procs :
          /\ handle'[q] # NoInode => pc'[q] = "session"
          /\ pc'[q] = "session" => pc[q] = "session" /\ handle'[q] \in Inodes /\ op'[q] # "stat"
    BY <1>0 DEF NamesInv
  <1>2. CASE UNCHANGED <<path, file>>
    BY <1>0, <1>1, <1>2 DEF NamesInv, Inodes, Cached
  <1>3. CASE /\ i # NoInode
             /\ path' = [path EXCEPT ![C(p)] = [@ EXCEPT ![file2[p]] = i, ![file[p]] = NoInode]]
             /\ file' = [q \in Procs |-> IF q \in Renamed(p) THEN file2[p] ELSE file[q]]
    <2>1. \A c \in Clients, f \in Files :
            \/ path'[c][f] = path[c][f] /\ (c = C(p) => f # file[p])
            \/ path'[c][f] = NoInode
            \/ path'[c][f] = i /\ c = C(p) /\ f = file2[p]
      BY <1>0, <1>3
    <2>2. ASSUME NEW q \in Procs, pc[q] = "session"
          PROVE  \/ C(q) = C(p) /\ file[q] = file[p] /\ file'[q] = file2[p]
                 \/ (C(q) # C(p) \/ file[q] # file[p]) /\ file'[q] = file[q]
      BY <1>3, <2>2 DEF Renamed
    <2>3. ASSUME NEW q \in Procs, pc[q] = "session", C(q) = C(p), handle[q] = i
          PROVE  file[q] = file[p]
      BY <1>0, <2>3 DEF NamesInv
    <2>4. ASSUME NEW q \in Procs, pc'[q] = "session", NEW g \in Files,
                 path'[C(q)'][g] = handle'[q]
          PROVE  g = file'[q]
      <3>1. pc[q] = "session" /\ handle'[q] = handle[q] /\ handle[q] \in Inodes
            /\ C(q)' = C(q) /\ C(q) \in Clients
        BY <1>0, <1>1, <2>4
      <3>2. CASE path'[C(q)][g] = path[C(q)][g] /\ (C(q) = C(p) => g # file[p])
        <4>1. g = file[q]
          BY <2>4, <3>1, <3>2 DEF NamesInv
        <4> QED
          BY <2>2, <3>1, <3>2, <4>1
      <3>3. CASE path'[C(q)][g] = i /\ C(q) = C(p) /\ g = file2[p]
        BY <2>2, <2>3, <2>4, <3>1, <3>3
      <3> QED
        BY <1>0, <2>1, <2>4, <3>1, <3>2, <3>3
    <2>5. ASSUME NEW q \in Procs, NEW s \in Procs, pc'[q] = "session", pc'[s] = "session",
                 C(q)' = C(s)', handle'[q] = handle'[s]
          PROVE  file'[q] = file'[s]
      <3>1. pc[q] = "session" /\ pc[s] = "session" /\ C(q) = C(s) /\ handle[q] = handle[s]
        BY <1>0, <1>1, <2>5
      <3>2. file[q] = file[s]
        BY <3>1 DEF NamesInv
      <3> QED
        BY <2>2, <3>1, <3>2
    <2>6. ASSUME NEW c \in Clients, NEW f \in Files, NEW g \in Files,
                 path'[c][f] # NoInode, path'[c][f] = path'[c][g]
          PROVE  f = g
      <3>1. \A h \in Files : path[C(p)][h] = i => h = file[p]
        BY <1>0, <1>3 DEF NamesInv, Cached
      <3> QED
        BY <1>0, <2>1, <2>6, <3>1 DEF NamesInv, Cached
    <2> QED
      BY <1>1, <2>4, <2>5, <2>6 DEF NamesInv, Inodes, Cached
  <1> QED
    BY <1>2, <1>3 DEF RenameReply

LEMMA StepKeepsNames ==
    ASSUME TypeOK, NamesInv, NEW p \in Procs,
           StartOp(p) \/ ProcStep(p) \/ Write(p) \/ Discard(p)
    PROVE  NamesInv'
  <1> USE DEF Goto
  <1> SUFFICES ASSUME ~RenameReply(p) PROVE NamesInv'
    BY RenameKeepsNames
  <1>0. /\ OthersKeep(p) /\ pc \in [Procs -> PCs] /\ op \in [Procs -> AllOps]
        /\ handle \in [Procs -> Inodes \cup {NoInode}]
        /\ pc[p] # "session" => handle[p] = NoInode
    BY StartOthersKeep, StepOthersKeep DEF TypeOK, ClientTypeOK, NamesInv
  <1>1. ASSUME path' = path, handle'[p] = NoInode, pc'[p] # "session" PROVE NamesInv'
    BY <1>0, <1>1, SameNames
  <1>2. CASE StartOp(p)
    <2>1. path' = path /\ handle' = handle /\ pc[p] = "idle"
          /\ pc'[p] \in {"auth", "sread", "remove", "rename"}
      BY <1>0, <1>2 DEF StartOp, StartFetch, StartLookup, StartTruncate, StartUnlink, StartRename,
                        Begin, Quiet
    <2> QED
      BY <1>0, <1>1, <2>1
  <1>3. ASSUME NEW st, FetchFails(p, st) PROVE pc'[p] # "session"
    BY <1>0, <1>3 DEF FetchFails, Creat
  <1>4. CASE AuthReply(p) \/ Stamp(p)
    <2>1. path' = path /\ handle' = handle /\ pc'[p] # "session" /\ pc[p] # "session"
      BY <1>0, <1>3, <1>4 DEF AuthReply, Stamp
    <2> QED
      BY <1>0, <1>1, <2>1
  <1>5. CASE CreateReply(p) \/ CheckCache(p) \/ StoreRead(p) \/ StoreReply(p) \/ Discard(p)
    <2>1. path' = path /\ handle' = handle /\ pc'[p] # "session" /\ pc[p] # "session"
      BY <1>0, <1>5 DEF CreateReply, CheckCache, StoreRead, StoreReply, Discard, clientVars
    <2> QED
      BY <1>0, <1>1, <2>1
  <1>6. CASE Close(p)
    BY <1>0, <1>1, <1>6 DEF Close
  <1>7. CASE Write(p)
    <2>1. path' = path /\ handle' = handle /\ pc' = pc /\ file' = file /\ op' = op
          /\ pc[p] = "session"
      BY <1>7 DEF Write
    <2> QED
      BY <1>0, <2>1, SameNames
  <1>8. CASE FetchReply(p)
    <2>1. pc[p] # "session" /\ pc'[p] # "session" /\ handle' = handle /\ file' = file
      BY <1>0, <1>3, <1>8 DEF FetchReply
    <2>2. CASE path' = path
      BY <1>0, <1>1, <2>1, <2>2
    <2>3. CASE \E i \in FreeInodes(C(p)) : path' = [path EXCEPT ![C(p)][file[p]] = i]
      BY <1>0, <2>1, <2>3, NewName
    <2> QED
      BY <1>8, <2>2, <2>3 DEF FetchReply
  <1> QED
    BY <1>2, <1>4, <1>5, <1>6, <1>7, <1>8, OpenKeepsNames, RemoveKeepsNames
       DEF ProcStep

LEMMA CrashKeepsStable ==
    ASSUME StableInv, NEW c \in Clients, ClientCrash(c)
    PROVE  NamesInv' /\ Numbered'
  <1> USE DEF StableInv
  <1>0. /\ \A q \in Procs : C(q)' = C(q) /\ C(q) \in Clients
        /\ path \in [Clients -> [Files -> Inodes \cup {NoInode}]]
        /\ NoInode \notin Inodes
        /\ UNCHANGED <<disk, op, file, file2, mods, sfile, call, reply>>
    BY ClientOfType, InodesAreNaturals DEF TypeOK, ClientTypeOK, C, ClientCrash, serverVars, NoInode
  <1>1. \A q \in Procs :
          \/ C(q) = c /\ pc'[q] = "idle" /\ handle'[q] = NoInode
          \/ C(q) # c /\ pc'[q] = pc[q] /\ handle'[q] = handle[q]
    BY DEF ClientCrash, C
  <1>2. \A d \in Clients, f \in Files :
          path'[d][f] = NoInode \/ (d # c /\ path'[d][f] = path[d][f])
    BY <1>0 DEF ClientCrash
  <1>3. NamesInv'
    <2>1. \A q \in Procs :
            /\ handle'[q] # NoInode => pc'[q] = "session"
            /\ pc'[q] = "session" => handle'[q] \in Inodes /\ op'[q] # "stat"
            /\ pc'[q] = "session" =>
                  \A g \in Files : path'[C(q)'][g] = handle'[q] => g = file'[q]
      BY <1>0, <1>1, <1>2 DEF NamesInv
    <2>2. \A q, s \in Procs :
            pc'[q] = "session" /\ pc'[s] = "session" /\ C(q)' = C(s)' /\ handle'[q] = handle'[s]
               => file'[q] = file'[s]
      BY <1>0, <1>1 DEF NamesInv
    <2>3. \A d \in Clients : \A f, g \in Files :
            Cached(d, f)' /\ path'[d][f] = path'[d][g] => f = g
      BY <1>0, <1>2 DEF NamesInv, Cached
    <2> QED
      BY <2>1, <2>2, <2>3 DEF NamesInv, Inodes
  <1>4. Numbered'
    BY <1>0 DEF Numbered, Inodes
  <1> QED
    BY <1>3, <1>4

LEMMA StableInvInit == Init => StableInv
  <1> SUFFICES ASSUME Init PROVE StableInv
    OBVIOUS
  <1>0. TypeOK
    BY InitType
  <1>1. NamesInv
    BY DEF Init, ClientInit, NamesInv, Cached
  <1>2. Numbered
    <2>1. \A c \in Clients, i \in Inodes : disk[c][i].data = 0
      BY DEF Init, ClientInit, Written
    <2>2. \A f \in Files : sfile[f].data = 0
      BY DEF Init, ServerInit, Absent
    <2>3. \A w \in Procs : call[w].data = 0 /\ reply[w].data = 0
      BY DEF Init, ServerInit, Request, Bare
    <2> QED
      BY <2>1, <2>2, <2>3 DEF Numbered, Init, ClientInit
  <1> QED
    BY <1>0, <1>1, <1>2 DEF StableInv

LEMMA StableInvNext == ASSUME StableInv, [Next]_vars PROVE StableInv'
  <1> USE DEF StableInv
  <1>0. TypeOK'
    BY NextType
  <1>1. ASSUME NEW p \in Procs, StartOp(p) \/ ProcStep(p) \/ Write(p) \/ Discard(p)
        PROVE  StableInv'
    BY <1>0, <1>1, StepKeepsNames, StepKeepsNumbered
  <1>2. ASSUME UNCHANGED clientVars PROVE NamesInv'
    BY <1>2 DEF clientVars, NamesInv, Cached, C, Inodes
  <1>3. ASSUME NEW w \in Procs, HandlerStep(w) \/ HandlerFault(w), UNCHANGED clientVars
        PROVE  StableInv'
    BY <1>0, <1>2, <1>3, HandlerKeepsNumbered
  <1>4. CASE (Crash \/ Restart) /\ UNCHANGED clientVars
    <2>1. Numbered'
      BY <1>4 DEF Crash, Restart, clientVars, Numbered, Inodes
    <2> QED
      BY <1>0, <1>2, <1>4, <2>1
  <1>5. ASSUME NEW c \in Clients, ClientCrash(c) PROVE StableInv'
    BY <1>0, <1>5, CrashKeepsStable
  <1>6. CASE UNCHANGED vars
    <2>1. Numbered' /\ UNCHANGED clientVars
      BY <1>6 DEF vars, serverVars, clientVars, Numbered, Inodes
    <2> QED
      BY <1>0, <1>2, <2>1
  <1> QED
    BY <1>1, <1>3, <1>4, <1>5, <1>6 DEF Next, CrashClient

\* What one step does to what p reads through its descriptor.
Steady(p) ==
    pc[p] = "session" /\ handle'[p] = handle[p]
        => LET before == disk[C(p)][handle[p]].data
               after == disk'[C(p)][handle[p]].data
           IN  after # before => after = last'[C(p)][file[p]] /\ after > before

LEMMA StepIsSteady == ASSUME StableInv, [Next]_vars, NEW p \in Procs PROVE Steady(p)
  <1> SUFFICES ASSUME pc[p] = "session", handle'[p] = handle[p],
                      disk'[C(p)][handle[p]].data # disk[C(p)][handle[p]].data
               PROVE  /\ disk'[C(p)][handle[p]].data = last'[C(p)][file[p]]
                      /\ disk'[C(p)][handle[p]].data > disk[C(p)][handle[p]].data
    BY DEF Steady
  <1> USE DEF StableInv
  <1>0. /\ handle[p] \in Inodes /\ C(p) \in Clients /\ mods \in Nat
        /\ disk[C(p)][handle[p]].data \in Nat /\ disk[C(p)][handle[p]].data <= mods
        /\ file' \in [Procs -> Files]
    <2>1. handle[p] \in Inodes /\ C(p) \in Clients /\ mods \in Nat
      BY ClientOfType DEF NamesInv, TypeOK, ClientTypeOK
    <2>2. disk[C(p)][handle[p]] \in InodeRec
      BY <2>1 DEF TypeOK, ClientTypeOK
    <2>3. file' \in [Procs -> Files]
      BY NextType DEF TypeOK, ClientTypeOK
    <2> QED
      BY <2>1, <2>2, <2>3 DEF InodeRec, Numbered
  <1>1. ~KeepsContents
    BY <1>0 DEF KeepsContents
  <1>2. PICK q \in Procs : StartOp(q) \/ ProcStep(q) \/ Write(q) \/ Discard(q)
    <2>1. disk' # disk
      BY <1>1 DEF KeepsContents
    <2> QED
      BY <2>1 DEF Next, vars, clientVars, CrashClient, ClientCrash
  <1>3. Fills(q) \/ Rewrites(q)
    BY <1>1, <1>2, StartContents, StepContents
  <1>4. ~Fills(q)
    BY <1>0 DEF Fills, Only, FreeInodes, C
  <1>5. PICK i \in Inodes :
          /\ Only(C(q), i) /\ disk'[C(q)][i].data = mods + 1
          /\ last'[C(q)][file'[q]] = mods + 1
          /\ \/ i = handle[q] /\ pc[q] = "session" /\ file'[q] = file[q]
             \/ i = path[C(q)][file'[q]]
    BY <1>3, <1>4 DEF Rewrites
  <1>6. C(q) = C(p) /\ i = handle[p]
    BY <1>0, <1>5 DEF Only
  <1>7. file'[q] = file[p]
    <2>1. file'[q] \in Files
      BY <1>0
    <2> QED
      BY <1>5, <1>6, <2>1 DEF NamesInv
  <1> QED
    BY <1>0, <1>5, <1>6, <1>7

\* What an open file reads changes only when a thread of its client writes to that file
\* or truncates it, and then to a newer content: not when the cached file is fetched
\* again, stored or renamed, nor by what a thread does to another file.  For any number
\* of threads and clients, with any failures.
THEOREM OpenFilesStable == Spec => OpenFileStable
  <1>1. StableInv /\ [Next]_vars =>
          [\A p \in Procs :
              pc[p] = "session" /\ handle'[p] = handle[p]
                  => LET before == disk[C(p)][handle[p]].data
                         after == disk'[C(p)][handle[p]].data
                     IN  after # before => after = last'[C(p)][file[p]] /\ after > before]_vars
    BY StepIsSteady DEF Steady
  <1>2. StableInv /\ [Next]_vars => StableInv'
    BY StableInvNext
  <1> QED
    BY <1>1, <1>2, StableInvInit, PTL DEF Spec, OpenFileStable

=============================================================================
