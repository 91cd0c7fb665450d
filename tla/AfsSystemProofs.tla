--------------------------- MODULE AfsSystemProofs ---------------------------
(***************************************************************************)
(* Theorems about AfsSystem, for every value of its constants.             *)
(***************************************************************************)
EXTENDS AfsSystem, TLAPS

USE ClockStepsAssumption, ClientOfAssumption, SkewAssumption, FilesAssumption,
    MaxCrashesAssumption, MaxModsAssumption

-----------------------------------------------------------------------------
(* Types of the operators the actions are built from.                      *)

LEMMA InodesAreNaturals == Inodes \subseteq Nat \ {0}
  BY DEF Inodes

LEMMA StampType == ASSUME ServerTypeOK, NEW t \in Stamps PROVE t \in Nat
  BY DEF ServerTypeOK, Stamps

LEMMA LocalType ==
    ASSUME NEW c \in Clients, NEW t \in Nat PROVE Local(c, t) \in Int
  BY DEF Local

LEMMA WrittenType ==
    ASSUME NEW d \in Nat, NEW t \in Int PROVE Written(d, t) \in InodeRec
  BY DEF Written, InodeRec

LEMMA CopyType ==
    ASSUME ClientTypeOK, NEW c \in Clients, NEW f \in Files, Cached(c, f)
    PROVE  path[c][f] \in Inodes /\ Copy(c, f) \in InodeRec
  <1>1. path[c] \in [Files -> Inodes \cup {NoInode}]
    BY DEF ClientTypeOK
  <1>2. disk[c] \in [Inodes -> InodeRec]
    BY DEF ClientTypeOK
  <1>3. path[c][f] \in Inodes
    BY <1>1 DEF Cached
  <1> QED
    BY <1>2, <1>3 DEF Copy

LEMMA ReportType ==
    ASSUME ServerTypeOK, NEW f \in Files
    PROVE  Report(f) \in ReplyRec
  BY DEF ServerTypeOK, Report, Found, Statuses, FileRec, ReplyRec

LEMMA InitType == Init => TypeOK
  <1> SUFFICES ASSUME Init PROVE TypeOK
    OBVIOUS
  <1>1. PICK f0 \in Files : f0 = CHOOSE f \in Files : TRUE
    OBVIOUS
  <1>2. ServerTypeOK
    BY <1>1 DEF Init, ServerInit, ServerTypeOK, Absent, Request, Kinds, Bare, Statuses, FileRec, ReplyRec, RequestRec
  <1>3. Written(0, 0) \in InodeRec
    BY WrittenType
  <1>4. ClientTypeOK
    BY <1>1, <1>3 DEF Init, ClientInit, ClientTypeOK, NoInode, PCs, AllOps, Statuses, AuthRec
  <1> QED
    BY <1>2, <1>4 DEF TypeOK, Init

-----------------------------------------------------------------------------
(* Every step preserves the types: the handlers, ...                       *)

LEMMA AnswerType ==
    ASSUME ServerTypeOK, NEW w \in Procs,
           NEW r \in ReplyRec,
           Answer(w, r), UNCHANGED <<up, crashes, clock, sver, sfile, call, stmp>>
    PROVE  ServerTypeOK'
  BY DEF ServerTypeOK, Answer

LEMMA BareType ==
    ASSUME NEW st \in Statuses
    PROVE  Bare(st) \in ReplyRec
  BY DEF Bare, ReplyRec

LEMMA HandlerType ==
    ASSUME ServerTypeOK, NEW w \in Procs,
           HandlerStep(w) \/ StoreAbort(w) \/ HandlerError(w)
    PROVE  ServerTypeOK'
  <1> USE DEF ServerTypeOK, FileRec, ReplyRec, RequestRec
  <1> call[w].file \in Files /\ call[w].dst \in Files /\ call[w].data \in Nat
    OBVIOUS
  <1> Found(call[w].file) \in Statuses
    BY DEF Found, Statuses
  <1>1. CASE TestAuth(w)
    BY <1>1, AnswerType, ReportType DEF TestAuth
  <1>2. CASE Fetch(w)
    BY <1>2, AnswerType, ReportType DEF Fetch
  <1>3. CASE Create(w)
    <2>1. PICK t \in Stamps : sfile' = [sfile EXCEPT ![call[w].file] =
                                  [data |-> 0, mtime |-> t, ver |-> sver + 1]] /\ clock' = t
      BY <1>3 DEF Create
    <2> QED
      BY <1>3, <2>1, StampType, BareType DEF Create, Answer, Statuses
  <1>4. CASE Remove(w)
    BY <1>4, BareType DEF Remove, Answer, Absent
  <1>5. CASE Rename(w)
    <2> DEFINE moved == [sfile[call[w].file] EXCEPT !.ver = sver + 1]
               r == [st |-> "ok", mtime |-> 0, data |-> 0,
                     ver |-> sver + 1, of |-> sfile[call[w].file].ver]
    <2>1. moved \in FileRec
      OBVIOUS
    <2>2. r \in ReplyRec
      BY DEF Bare, Statuses
    <2>3. Bare("ENOENT") \in ReplyRec
      BY BareType DEF Statuses
    <2> HIDE DEF moved, r
    <2>4. CASE Exists(call[w].file)
      <3>1. /\ sfile' = [sfile EXCEPT ![call[w].dst] = moved, ![call[w].file] = Absent]
            /\ sver' = sver + 1
            /\ Answer(w, r)
        BY <1>5, <2>4 DEF Rename, moved, r
      <3>2. UNCHANGED <<up, crashes, clock, call, stmp>>
        BY <1>5 DEF Rename
      <3>3. Absent \in FileRec
        BY DEF Absent
      <3>4. sfile' \in [Files -> FileRec]
        BY <2>1, <3>1, <3>3
      <3> QED
        BY <2>2, <3>1, <3>2, <3>4 DEF Answer
    <2>5. CASE ~Exists(call[w].file)
      <3>1. /\ Answer(w, Bare("ENOENT"))
            /\ UNCHANGED <<up, crashes, clock, sver, sfile, call, stmp>>
        BY <1>5, <2>5 DEF Rename
      <3> QED
        BY <2>3, <3>1, AnswerType
    <2> QED
      BY <2>4, <2>5
  <1>6. CASE StoreWrite(w)
    BY <1>6, StampType DEF StoreWrite
  <1>7. CASE StoreRename(w)
    BY <1>7 DEF StoreRename, Bare, Statuses
  <1>8. CASE StoreStat(w)
    <2>1. CASE hpc'[w] = "statfail"
      BY <1>8, <2>1 DEF StoreStat, Answer
    <2>2. CASE hpc'[w] # "statfail"
      <3> DEFINE r == [st |-> "ok", mtime |-> sfile[call[w].file].mtime, data |-> 0,
                       ver |-> reply[w].ver, of |-> sfile[call[w].file].ver]
      <3>1. r \in ReplyRec
        BY DEF Statuses
      <3>2. Answer(w, r) /\ UNCHANGED <<up, crashes, clock, sver, sfile, call, stmp>>
        BY <1>8, <2>2 DEF StoreStat
      <3> QED
        BY <3>1, <3>2, AnswerType
    <2> QED
      BY <2>1, <2>2
  <1>9. CASE StoreUnlink(w)
    BY <1>9, BareType DEF StoreUnlink, Answer, Absent, Statuses
  <1>10. CASE StoreAbort(w)
    BY <1>10, AnswerType, BareType DEF StoreAbort, Statuses
  <1>11. CASE HandlerError(w)
    BY <1>11, AnswerType, BareType DEF HandlerError, Statuses
  <1> QED
    BY <1>1, <1>2, <1>3, <1>4, <1>5, <1>6, <1>7, <1>8, <1>9, <1>10, <1>11 DEF HandlerStep

-----------------------------------------------------------------------------
(* ... the calls, ...                                                      *)

LEMMA IssueType ==
    ASSUME ServerTypeOK, NEW w \in Procs, NEW k \in Kinds, NEW f \in Files, NEW g \in Files,
           NEW d \in Nat, Issue(w, Request(k, f, g, d)),
           UNCHANGED <<up, crashes, clock, sver, sfile, stmp, reply>>
    PROVE  ServerTypeOK'
  BY DEF ServerTypeOK, Issue, Request, RequestRec

LEMMA ReleaseType ==
    ASSUME ServerTypeOK, NEW w \in Procs, Release(w),
           UNCHANGED <<up, crashes, clock, sver, sfile, call, stmp, reply>>
    PROVE  ServerTypeOK'
  BY DEF ServerTypeOK, Release

LEMMA TickType ==
    ASSUME ServerTypeOK, clock' \in Nat,
           UNCHANGED <<up, crashes, sver, sfile, call, hpc, stmp, reply>>
    PROVE  ServerTypeOK'
  BY DEF ServerTypeOK

-----------------------------------------------------------------------------
(* ... the operations of a process as they begin, ...                      *)

LEMMA StartType ==
    ASSUME TypeOK, NEW p \in Procs, StartOp(p)
    PROVE  ServerTypeOK' /\ ClientTypeOK'
  <1> USE DEF TypeOK
  <1> mods + 1 \in Nat
    BY DEF ClientTypeOK
  <1>1. CASE \E f \in Files, o \in {"stat", "read", "write"} : StartFetch(p, o, f)
    <2>1. PICK f \in Files, o \in {"stat", "read", "write"} : StartFetch(p, o, f)
      BY <1>1
    <2>2. ServerTypeOK'
      BY <2>1, IssueType DEF StartFetch, Kinds
    <2>3. ClientTypeOK'
      BY <2>1 DEF StartFetch, Begin, Goto, ClientTypeOK, AllOps, PCs
    <2> QED
      BY <2>2, <2>3
  <1>2. CASE \E f \in Files : StartLookup(p, f)
    <2>1. PICK f \in Files : StartLookup(p, f)
      BY <1>2
    <2>2. ServerTypeOK'
      BY <2>1, IssueType DEF StartLookup, Kinds
    <2>3. ClientTypeOK'
      BY <2>1 DEF StartLookup, Begin, Count, Goto, ClientTypeOK, AllOps, PCs
    <2> QED
      BY <2>2, <2>3
  <1>3. CASE \E f \in Files : StartTruncate(p, f)
    <2>1. PICK f \in Files, t \in Stamps :
            /\ StartTruncate(p, f)
            /\ clock' = t
            /\ disk' = [disk EXCEPT ![C(p)][path[C(p)][f]] = Written(mods + 1, Local(C(p), t))]
      BY <1>3 DEF StartTruncate
    <2>2. ServerTypeOK'
      BY <2>1, StampType, TickType DEF StartTruncate
    <2>3. C(p) \in Clients
      BY DEF C
    <2>4. Written(mods + 1, Local(C(p), t)) \in InodeRec
      BY <2>1, <2>3, StampType, LocalType, WrittenType
    <2>5. Copy(C(p), f).data \in Nat
      BY <2>1, <2>3, CopyType DEF StartTruncate, InodeRec
    <2>6. disk' \in [Clients -> [Inodes -> InodeRec]]
      BY <2>1, <2>4 DEF ClientTypeOK
    <2>7. /\ pc' \in [Procs -> PCs] /\ op' \in [Procs -> AllOps]
          /\ file' \in [Procs -> Files] /\ file2' \in [Procs -> Files]
          /\ base' \in [Procs -> Nat] /\ mods' \in Nat
          /\ last' \in [Clients -> [Files -> Nat]]
      BY <2>1, <2>3, <2>5
         DEF StartTruncate, Begin, Count, Goto, ClientTypeOK, AllOps, PCs
    <2> QED
      BY <2>1, <2>2, <2>6, <2>7 DEF StartTruncate, ClientTypeOK
  <1>4. CASE \E f \in Files : StartUnlink(p, f)
    <2>1. PICK f \in Files : StartUnlink(p, f)
      BY <1>4
    <2>2. ServerTypeOK'
      BY <2>1, IssueType DEF StartUnlink, Kinds
    <2>3. ClientTypeOK'
      BY <2>1 DEF StartUnlink, Begin, Count, Goto, ClientTypeOK, AllOps, PCs
    <2> QED
      BY <2>2, <2>3
  <1>5. CASE \E f, g \in Files : StartRename(p, f, g)
    <2>1. PICK f \in Files, g \in Files : StartRename(p, f, g)
      BY <1>5
    <2>2. ServerTypeOK'
      BY <2>1, IssueType DEF StartRename, Kinds
    <2>3. ClientTypeOK'
      BY <2>1 DEF StartRename, Begin, Count, Goto, ClientTypeOK, AllOps, PCs
    <2> QED
      BY <2>2, <2>3
  <1> QED
    BY <1>1, <1>2, <1>3, <1>4, <1>5 DEF StartOp

-----------------------------------------------------------------------------
(* ... and the steps of a process.                                         *)

LEMMA ClientOfType == ASSUME NEW p \in Procs PROVE C(p) \in Clients
  BY DEF C

LEMMA CreatType ==
    ASSUME TypeOK, NEW p \in Procs, Creat(p),
           UNCHANGED <<up, crashes, clock, sver, sfile, stmp, reply>>
    PROVE  ServerTypeOK' /\ op' \in [Procs -> AllOps] /\ pc' \in [Procs -> PCs]
  <1>1. file[p] \in Files
    BY DEF TypeOK, ClientTypeOK
  <1>2. ServerTypeOK'
    BY <1>1, IssueType DEF TypeOK, Creat, Kinds
  <1>3. op' \in [Procs -> AllOps] /\ pc' \in [Procs -> PCs]
    BY DEF TypeOK, ClientTypeOK, Creat, Goto, AllOps, PCs
  <1> QED
    BY <1>2, <1>3

LEMMA FetchFailsType ==
    ASSUME TypeOK, NEW p \in Procs, NEW st \in Statuses, FetchFails(p, st),
           UNCHANGED <<up, crashes, clock, sver, sfile, stmp, reply>>
    PROVE  ServerTypeOK' /\ op' \in [Procs -> AllOps] /\ pc' \in [Procs -> PCs]
  <1>1. CASE Creat(p)
    BY <1>1, CreatType
  <1>2. CASE Goto(p, "idle") /\ Release(p) /\ UNCHANGED <<call, op>>
    <2>1. ServerTypeOK'
      BY <1>2, ReleaseType DEF TypeOK
    <2> QED
      BY <1>2, <2>1 DEF TypeOK, ClientTypeOK, Goto, PCs
  <1> QED
    BY <1>1, <1>2 DEF FetchFails

LEMMA AuthDataType ==
    ASSUME TypeOK, NEW p \in Procs PROVE AuthData(p) \in AuthRec
  <1>1. C(p) \in Clients /\ file[p] \in Files
    BY ClientOfType DEF TypeOK, ClientTypeOK
  <1>2. CASE hpc[p] = "done"
    <2>1. reply[p] \in ReplyRec
      BY DEF TypeOK, ServerTypeOK
    <2> QED
      BY <1>2, <2>1 DEF AuthData, AuthRec, ReplyRec
  <1>3. CASE hpc[p] # "done" /\ Cached(C(p), file[p])
    <2>1. Copy(C(p), file[p]).mtime \in Int
      BY <1>1, <1>3, CopyType DEF TypeOK, InodeRec
    <2> QED
      BY <1>3, <2>1 DEF AuthData, AuthRec, Statuses
  <1>4. CASE hpc[p] # "done" /\ ~Cached(C(p), file[p])
    BY <1>4 DEF AuthData, AuthRec, Statuses
  <1> QED
    BY <1>2, <1>3, <1>4

\* A step that changes one inode and leaves the rest of the cache alone.
LEMMA DiskType ==
    ASSUME TypeOK, NEW c \in Clients, NEW i \in Inodes, NEW r \in InodeRec,
           disk' = [disk EXCEPT ![c][i] = r]
    PROVE  disk' \in [Clients -> [Inodes -> InodeRec]]
  BY DEF TypeOK, ClientTypeOK

LEMMA PathType ==
    ASSUME TypeOK, NEW c \in Clients, NEW f \in Files, NEW i \in Inodes \cup {NoInode},
           path' = [path EXCEPT ![c][f] = i]
    PROVE  path' \in [Clients -> [Files -> Inodes \cup {NoInode}]]
  BY DEF TypeOK, ClientTypeOK

LEMMA FetchStepType ==
    ASSUME TypeOK, NEW p \in Procs,
           CreateReply(p) \/ AuthReply(p) \/ CheckCache(p) \/ FetchReply(p) \/ Stamp(p)
    PROVE  ServerTypeOK' /\ ClientTypeOK'
  <1>0. /\ C(p) \in Clients /\ file[p] \in Files
        /\ "TestAuth" \in Kinds /\ "Fetch" \in Kinds
        /\ reply[p] \in ReplyRec /\ auth[p] \in AuthRec
    BY ClientOfType DEF TypeOK, ClientTypeOK, ServerTypeOK, Kinds
  <1>1. CASE CreateReply(p)
    <2>1. ServerTypeOK'
      BY <1>0, <1>1, IssueType, ReleaseType DEF CreateReply, TypeOK
    <2>2. pc' \in [Procs -> PCs]
      BY <1>1 DEF CreateReply, TypeOK, ClientTypeOK, Goto, PCs
    <2> QED
      BY <1>1, <2>1, <2>2 DEF CreateReply, TypeOK, ClientTypeOK
  <1>2. CASE AuthReply(p)
    <2>1. AuthData(p) \in AuthRec
      BY AuthDataType
    <2>2. AuthData(p).st \in Statuses
      BY <2>1 DEF AuthRec
    <2>3. ServerTypeOK' /\ op' \in [Procs -> AllOps] /\ pc' \in [Procs -> PCs]
      <3>1. CASE FetchFails(p, AuthData(p).st)
        BY <1>2, <2>2, <3>1, FetchFailsType DEF AuthReply
      <3>2. CASE Goto(p, "check") /\ Release(p) /\ UNCHANGED <<call, op>>
        <4>1. ServerTypeOK'
          BY <1>2, <3>2, ReleaseType DEF AuthReply, TypeOK
        <4> QED
          BY <3>2, <4>1 DEF TypeOK, ClientTypeOK, Goto, PCs
      <3> QED
        BY <1>2, <3>1, <3>2 DEF AuthReply
    <2>4. auth' \in [Procs -> AuthRec]
      BY <1>2, <2>1 DEF AuthReply, TypeOK, ClientTypeOK
    <2> QED
      BY <1>2, <2>3, <2>4 DEF AuthReply, TypeOK, ClientTypeOK
  <1>3. CASE CheckCache(p)
    <2>1. ServerTypeOK'
      <3>1. CASE UNCHANGED <<call, hpc>>
        BY <1>3, <3>1 DEF CheckCache, TypeOK, ServerTypeOK
      <3>2. CASE Issue(p, Request("Fetch", file[p], file[p], 0))
        BY <1>0, <1>3, <3>2, IssueType DEF CheckCache, TypeOK
      <3> QED
        BY <1>3, <3>1, <3>2 DEF CheckCache
    <2>2. pc' \in [Procs -> PCs]
      BY <1>3 DEF CheckCache, TypeOK, ClientTypeOK, Goto, PCs
    <2> QED
      BY <1>3, <2>1, <2>2 DEF CheckCache, TypeOK, ClientTypeOK
  <1>4. CASE FetchReply(p)
    <2>1. ServerTypeOK' /\ op' \in [Procs -> AllOps] /\ pc' \in [Procs -> PCs]
      <3>1. CASE FetchFails(p, reply[p].st)
        BY <1>0, <1>4, <3>1, FetchFailsType DEF FetchReply, ReplyRec
      <3>2. CASE /\ Goto(p, "stamp") \/ Goto(p, "open")
                 /\ Release(p) /\ UNCHANGED <<call, op>>
        <4>1. ServerTypeOK'
          BY <1>4, <3>2, ReleaseType DEF FetchReply, TypeOK
        <4> QED
          BY <3>2, <4>1 DEF TypeOK, ClientTypeOK, Goto, PCs
      <3> QED
        BY <1>4, <3>1, <3>2 DEF FetchReply
    <2>2. /\ disk' \in [Clients -> [Inodes -> InodeRec]]
          /\ path' \in [Clients -> [Files -> Inodes \cup {NoInode}]]
      <3> DEFINE new == [data |-> reply[p].data, mtime |-> Local(C(p), clock),
                         ver |-> reply[p].ver, stamp |-> 0, by |-> "clock"]
      <3>1. new \in InodeRec
        BY <1>0, LocalType DEF InodeRec, ReplyRec, TypeOK, ServerTypeOK
      <3> HIDE DEF new
      <3>2. CASE UNCHANGED <<path, disk>>
        BY <3>2 DEF TypeOK, ClientTypeOK
      <3>3. CASE ~UNCHANGED <<path, disk>>
        <4>1. PICK i \in Inodes : /\ disk' = [disk EXCEPT ![C(p)][i] = new]
                                  /\ path' = [path EXCEPT ![C(p)][file[p]] = i]
          BY <1>4, <3>3 DEF FetchReply, FreeInodes, new
        <4> QED
          BY <1>0, <3>1, <4>1, DiskType, PathType
      <3> QED
        BY <3>2, <3>3
    <2> QED
      BY <1>4, <2>1, <2>2 DEF FetchReply, TypeOK, ClientTypeOK
  <1>5. CASE Stamp(p)
    <2>1. CASE ~Cached(C(p), file[p])
      <3>1. ServerTypeOK' /\ op' \in [Procs -> AllOps] /\ pc' \in [Procs -> PCs]
        BY <1>5, <2>1, FetchFailsType DEF Stamp, Statuses
      <3> QED
        BY <1>5, <2>1, <3>1 DEF Stamp, TypeOK, ClientTypeOK
    <2>2. CASE Cached(C(p), file[p])
      <3> DEFINE i == path[C(p)][file[p]]
                 r == [Copy(C(p), file[p]) EXCEPT !.mtime = auth[p].mtime,
                                                  !.stamp = auth[p].ver, !.by = "fetch"]
      <3>1. i \in Inodes /\ Copy(C(p), file[p]) \in InodeRec
        BY <1>0, <2>2, CopyType DEF TypeOK
      <3>2. r \in InodeRec
        BY <1>0, <3>1 DEF InodeRec, AuthRec
      <3>3. disk' = [disk EXCEPT ![C(p)][i] = r]
        BY <1>5, <2>2 DEF Stamp, Copy
      <3>4. disk' \in [Clients -> [Inodes -> InodeRec]]
        BY <1>0, <3>1, <3>2, <3>3, DiskType
      <3>5. ServerTypeOK' /\ pc' \in [Procs -> PCs]
        BY <1>5, <2>2 DEF Stamp, TypeOK, ServerTypeOK, ClientTypeOK, Goto, PCs
      <3> QED
        BY <1>5, <2>2, <3>4, <3>5 DEF Stamp, TypeOK, ClientTypeOK
    <2> QED
      BY <2>1, <2>2
  <1> QED
    BY <1>1, <1>2, <1>3, <1>4, <1>5

LEMMA SessionStepType ==
    ASSUME TypeOK, NEW p \in Procs,
           OpenLocal(p) \/ Write(p) \/ Close(p) \/ StoreRead(p) \/ StoreReply(p)
    PROVE  ServerTypeOK' /\ ClientTypeOK'
  <1>0. /\ C(p) \in Clients /\ file[p] \in Files /\ "Store" \in Kinds
        /\ reply[p] \in ReplyRec /\ mods + 1 \in Nat
    BY ClientOfType DEF TypeOK, ClientTypeOK, ServerTypeOK, Kinds
  <1>1. CASE OpenLocal(p)
    <2>1. CASE /\ UNCHANGED <<clock, call, hpc, path, disk, op, handle, base>>
               /\ Goto(p, "idle")
      BY <1>1, <2>1 DEF OpenLocal, TypeOK, ServerTypeOK, ClientTypeOK, Goto, PCs
    <2>2. CASE Creat(p) /\ UNCHANGED <<clock, path, disk, handle, base>>
      <3>1. ServerTypeOK' /\ op' \in [Procs -> AllOps] /\ pc' \in [Procs -> PCs]
        BY <1>1, <2>2, CreatType DEF OpenLocal
      <3> QED
        BY <1>1, <2>2, <3>1 DEF OpenLocal, TypeOK, ClientTypeOK
    <2>3. CASE /\ op[p] \in {"read", "write", "creat"} /\ Cached(C(p), file[p])
               /\ handle' = [handle EXCEPT ![p] = path[C(p)][file[p]]]
               /\ base' = [base EXCEPT ![p] = Copy(C(p), file[p]).data]
               /\ Goto(p, "session")
               /\ UNCHANGED <<clock, call, hpc, path, disk, op>>
      <3>1. path[C(p)][file[p]] \in Inodes /\ Copy(C(p), file[p]).data \in Nat
        BY <1>0, <2>3, CopyType DEF TypeOK, InodeRec
      <3>2. handle' \in [Procs -> Inodes \cup {NoInode}] /\ base' \in [Procs -> Nat]
        BY <2>3, <3>1 DEF TypeOK, ClientTypeOK
      <3>3. ServerTypeOK'
        BY <1>1, <2>3 DEF OpenLocal, TypeOK, ServerTypeOK
      <3> QED
        BY <1>1, <2>3, <3>2, <3>3 DEF OpenLocal, TypeOK, ClientTypeOK, Goto, PCs
    <2>4. CASE /\ op[p] = "creat" /\ ~Cached(C(p), file[p])
               /\ \E i \in FreeInodes(C(p)), t \in Stamps :
                    /\ \A j \in FreeInodes(C(p)) : i <= j
                    /\ clock' = t
                    /\ disk' = [disk EXCEPT ![C(p)][i] = Written(0, Local(C(p), t))]
                    /\ path' = [path EXCEPT ![C(p)][file[p]] = i]
                    /\ handle' = [handle EXCEPT ![p] = i]
               /\ base' = [base EXCEPT ![p] = 0]
               /\ Goto(p, "session")
               /\ UNCHANGED <<call, hpc, op>>
      <3>1. PICK i \in Inodes, t \in Stamps :
                    /\ clock' = t
                    /\ disk' = [disk EXCEPT ![C(p)][i] = Written(0, Local(C(p), t))]
                    /\ path' = [path EXCEPT ![C(p)][file[p]] = i]
                    /\ handle' = [handle EXCEPT ![p] = i]
        BY <2>4 DEF FreeInodes
      <3>2. Written(0, Local(C(p), t)) \in InodeRec /\ t \in Nat
        BY <1>0, StampType, LocalType, WrittenType DEF TypeOK
      <3>3. /\ disk' \in [Clients -> [Inodes -> InodeRec]]
            /\ path' \in [Clients -> [Files -> Inodes \cup {NoInode}]]
        BY <1>0, <3>1, <3>2, DiskType, PathType
      <3>4. /\ handle' \in [Procs -> Inodes \cup {NoInode}] /\ base' \in [Procs -> Nat]
            /\ pc' \in [Procs -> PCs]
        BY <2>4, <3>1 DEF TypeOK, ClientTypeOK, Goto, PCs
      <3>5. ServerTypeOK'
        BY <1>1, <2>4, <3>1, <3>2, TickType DEF OpenLocal, TypeOK
      <3> QED
        BY <1>1, <2>4, <3>3, <3>4, <3>5 DEF OpenLocal, TypeOK, ClientTypeOK
    <2> QED
      BY <1>1, <2>1, <2>2, <2>3, <2>4 DEF OpenLocal
  <1>2. CASE Write(p)
    <2>1. PICK t \in Stamps :
            /\ clock' = t
            /\ disk' = [disk EXCEPT ![C(p)][handle[p]] = Written(mods + 1, Local(C(p), t))]
      BY <1>2 DEF Write
    <2>2. Written(mods + 1, Local(C(p), t)) \in InodeRec /\ t \in Nat
      BY <1>0, StampType, LocalType, WrittenType DEF TypeOK
    <2>3. disk' \in [Clients -> [Inodes -> InodeRec]]
      BY <2>1, <2>2 DEF TypeOK, ClientTypeOK
    <2>4. ServerTypeOK'
      BY <1>2, <2>1, <2>2, TickType DEF Write, TypeOK
    <2>5. dirty' \in [Procs -> BOOLEAN] /\ last' \in [Clients -> [Files -> Nat]] /\ mods' \in Nat
      BY <1>0, <1>2 DEF Write, Count, TypeOK, ClientTypeOK
    <2> QED
      BY <1>2, <2>3, <2>4, <2>5 DEF Write, TypeOK, ClientTypeOK
  <1>3. CASE Close(p)
    BY <1>3 DEF Close, TypeOK, ServerTypeOK, ClientTypeOK, serverVars, Goto, PCs
  <1>4. CASE StoreRead(p)
    <2>1. ServerTypeOK'
      <3>1. CASE UNCHANGED <<call, hpc>>
        BY <1>4, <3>1 DEF StoreRead, TypeOK, ServerTypeOK
      <3>2. CASE /\ Cached(C(p), file[p])
                 /\ Issue(p, Request("Store", file[p], file[p], Copy(C(p), file[p]).data))
        <4>1. Copy(C(p), file[p]).data \in Nat
          BY <1>0, <3>2, CopyType DEF TypeOK, InodeRec
        <4> QED
          BY <1>0, <1>4, <3>2, <4>1, IssueType DEF StoreRead, TypeOK
      <3> QED
        BY <1>4, <3>1, <3>2 DEF StoreRead
    <2>2. pc' \in [Procs -> PCs]
      BY <1>4 DEF StoreRead, TypeOK, ClientTypeOK, Goto, PCs
    <2> QED
      BY <1>4, <2>1, <2>2 DEF StoreRead, TypeOK, ClientTypeOK
  <1>5. CASE StoreReply(p)
    <2>1. ServerTypeOK'
      BY <1>5, ReleaseType DEF StoreReply, TypeOK
    <2>2. disk' \in [Clients -> [Inodes -> InodeRec]]
      <3>1. CASE disk' = disk
        BY <3>1 DEF TypeOK, ClientTypeOK
      <3>2. CASE disk' # disk
        <4> DEFINE i == path[C(p)][file[p]]
        <4>1. Cached(C(p), file[p])
          BY <1>5, <3>2 DEF StoreReply, Cached
        <4>2. i \in Inodes /\ Copy(C(p), file[p]) \in InodeRec
          BY <1>0, <4>1, CopyType DEF TypeOK
        <4>3. Stored(p, Copy(C(p), file[p])) \in InodeRec
          BY <1>0, <4>2 DEF Stored, InodeRec, ReplyRec
        <4>4. disk' = [disk EXCEPT ![C(p)][i] = Stored(p, Copy(C(p), file[p]))]
          BY <1>5, <3>2 DEF StoreReply, Copy
        <4> QED
          BY <1>0, <4>2, <4>3, <4>4, DiskType
      <3> QED
        BY <3>1, <3>2
    <2>3. pc' \in [Procs -> PCs]
      BY <1>5 DEF StoreReply, TypeOK, ClientTypeOK, Goto, PCs
    <2> QED
      BY <1>5, <2>1, <2>2, <2>3 DEF StoreReply, TypeOK, ClientTypeOK
  <1> QED
    BY <1>1, <1>2, <1>3, <1>4, <1>5

LEMMA NameStepType ==
    ASSUME TypeOK, NEW p \in Procs, RemoveReply(p) \/ RenameReply(p) \/ Discard(p)
    PROVE  ServerTypeOK' /\ ClientTypeOK'
  <1>0. /\ C(p) \in Clients /\ file[p] \in Files /\ file2[p] \in Files
        /\ reply[p] \in ReplyRec
    BY ClientOfType DEF TypeOK, ClientTypeOK, ServerTypeOK
  <1>1. CASE RemoveReply(p)
    <2>1. ServerTypeOK'
      BY <1>1, ReleaseType DEF RemoveReply, TypeOK
    <2>2. CASE /\ path' = [path EXCEPT ![C(p)][file[p]] = NoInode]
               /\ last' = [last EXCEPT ![C(p)][file[p]] = 0]
      <3>1. path' \in [Clients -> [Files -> Inodes \cup {NoInode}]]
        BY <2>2 DEF TypeOK, ClientTypeOK
      <3>2. last' \in [Clients -> [Files -> Nat]]
        BY <2>2 DEF TypeOK, ClientTypeOK
      <3> QED
        BY <1>1, <2>1, <3>1, <3>2 DEF RemoveReply, TypeOK, ClientTypeOK, Goto, PCs
    <2>3. CASE UNCHANGED <<path, last>>
      BY <1>1, <2>1, <2>3 DEF RemoveReply, TypeOK, ClientTypeOK, Goto, PCs
    <2> QED
      BY <1>1, <2>2, <2>3 DEF RemoveReply
  <1>2. CASE RenameReply(p)
    <2> DEFINE i == path[C(p)][file[p]]
               names == [path[C(p)] EXCEPT ![file2[p]] = i, ![file[p]] = NoInode]
    <2>1. ServerTypeOK'
      BY <1>2, ReleaseType DEF RenameReply, TypeOK
    <2>2. path' \in [Clients -> [Files -> Inodes \cup {NoInode}]]
      <3>1. CASE path' = path
        BY <3>1 DEF TypeOK, ClientTypeOK
      <3>2. CASE path' # path
        <4>1. path' = [path EXCEPT ![C(p)] = names]
          BY <1>2, <3>2 DEF RenameReply
        <4>2. path[C(p)] \in [Files -> Inodes \cup {NoInode}]
          BY <1>0 DEF TypeOK, ClientTypeOK
        <4>3. names \in [Files -> Inodes \cup {NoInode}]
          BY <1>0, <4>2
        <4> HIDE DEF names
        <4> QED
          BY <1>0, <4>1, <4>3 DEF TypeOK, ClientTypeOK
      <3> QED
        BY <3>1, <3>2
    <2>3. disk' \in [Clients -> [Inodes -> InodeRec]]
      <3>1. CASE disk' = disk
        BY <3>1 DEF TypeOK, ClientTypeOK
      <3>2. CASE disk' # disk
        <4> DEFINE r == [disk[C(p)][i] EXCEPT !.ver = reply[p].ver]
        <4>1. disk' = [disk EXCEPT ![C(p)][i] = r] /\ Cached(C(p), file[p])
          BY <1>2, <3>2 DEF RenameReply, Cached
        <4>2. i \in Inodes /\ disk[C(p)][i] \in InodeRec
          BY <1>0, <4>1, CopyType DEF TypeOK, Copy
        <4>3. r \in InodeRec
          BY <1>0, <4>2 DEF InodeRec, ReplyRec
        <4> HIDE DEF r
        <4> QED
          BY <1>0, <4>1, <4>2, <4>3, DiskType
      <3> QED
        BY <3>1, <3>2
    <2>4. file' \in [Procs -> Files] /\ file2' \in [Procs -> Files]
      <3>1. CASE UNCHANGED <<file, file2>>
        BY <3>1 DEF TypeOK, ClientTypeOK
      <3>2. CASE /\ file' = [q \in Procs |-> IF q \in Renamed(p) THEN file2[p] ELSE file[q]]
                 /\ file2' = [q \in Procs |-> IF q \in Renamed(p) THEN file2[p] ELSE file2[q]]
        BY <1>0, <3>2 DEF TypeOK, ClientTypeOK
      <3> QED
        BY <1>2, <3>1, <3>2 DEF RenameReply
    <2> QED
      BY <1>2, <2>1, <2>2, <2>3, <2>4 DEF RenameReply, TypeOK, ClientTypeOK, Goto, PCs
  <1>3. CASE Discard(p)
    <2>1. ServerTypeOK'
      BY <1>3, ReleaseType DEF Discard, TypeOK
    <2> QED
      BY <1>3, <2>1 DEF Discard, TypeOK, ClientTypeOK, clientVars
  <1> QED
    BY <1>1, <1>2, <1>3

-----------------------------------------------------------------------------
(* Crashes.                                                                *)

LEMMA ServerCrashType ==
    ASSUME ServerTypeOK, Crash \/ Restart
    PROVE  ServerTypeOK'
  <1>1. CASE Crash
    <2>1. PICK lost \in SUBSET Procs :
            hpc' = [w \in Procs |->
                      IF hpc[w] \in {"none", "failed"} \/ (hpc[w] = "done" /\ w \notin lost)
                      THEN hpc[w] ELSE "failed"]
      BY <1>1 DEF Crash
    <2>2. hpc' \in [Procs -> {"none", "call", "tmp", "renamed", "statfail", "done", "failed"}]
      BY <2>1
    <2>3. crashes' \in Nat
      BY <1>1 DEF Crash, ServerTypeOK
    <2>4. up' \in BOOLEAN
      BY <1>1 DEF Crash
    <2> QED
      BY <1>1, <2>2, <2>3, <2>4 DEF Crash, ServerTypeOK
  <1>2. CASE Restart
    BY <1>2 DEF Restart, ServerTypeOK
  <1> QED
    BY <1>1, <1>2

LEMMA ClientCrashType ==
    ASSUME TypeOK, NEW c \in Clients, ClientCrash(c)
    PROVE  ServerTypeOK' /\ ClientTypeOK'
  <1>1. ServerTypeOK'
    BY DEF ClientCrash, TypeOK, ServerTypeOK, serverVars
  <1>2. path' \in [Clients -> [Files -> Inodes \cup {NoInode}]]
    BY DEF ClientCrash, TypeOK, ClientTypeOK
  <1>3. /\ pc' \in [Procs -> PCs]
        /\ handle' \in [Procs -> Inodes \cup {NoInode}]
        /\ dirty' \in [Procs -> BOOLEAN]
    BY DEF ClientCrash, TypeOK, ClientTypeOK, PCs
  <1>4. last' \in [Clients -> [Files -> Nat]]
    BY DEF ClientCrash, TypeOK, ClientTypeOK
  <1> QED
    BY <1>1, <1>2, <1>3, <1>4 DEF ClientCrash, TypeOK, ClientTypeOK

-----------------------------------------------------------------------------
LEMMA NextType ==
    ASSUME TypeOK, [Next]_vars
    PROVE  TypeOK'
  <1> USE DEF TypeOK
  <1>1. ASSUME NEW p \in Procs, StartOp(p), UNCHANGED ccrashes PROVE TypeOK'
    BY <1>1, StartType
  <1>2. ASSUME NEW p \in Procs, Write(p), UNCHANGED ccrashes PROVE TypeOK'
    BY <1>2, SessionStepType
  <1>3. ASSUME NEW p \in Procs, ProcStep(p), UNCHANGED ccrashes PROVE TypeOK'
    BY <1>3, FetchStepType, SessionStepType, NameStepType DEF ProcStep
  <1>4. ASSUME NEW p \in Procs, Discard(p), UNCHANGED ccrashes PROVE TypeOK'
    BY <1>4, NameStepType
  <1>5. ASSUME NEW w \in Procs, HandlerStep(w) \/ HandlerFault(w),
               UNCHANGED <<clientVars, ccrashes>>
        PROVE  TypeOK'
    <2>1. ServerTypeOK'
      BY <1>5, HandlerType DEF HandlerFault
    <2> QED
      BY <1>5, <2>1 DEF ClientTypeOK, clientVars
  <1>6. ASSUME Crash \/ Restart, UNCHANGED <<clientVars, ccrashes>> PROVE TypeOK'
    <2>1. ServerTypeOK'
      BY <1>6, ServerCrashType
    <2> QED
      BY <1>6, <2>1 DEF ClientTypeOK, clientVars
  <1>7. ASSUME NEW c \in Clients, CrashClient(c) PROVE TypeOK'
    BY <1>7, ClientCrashType DEF CrashClient
  <1>8. ASSUME UNCHANGED vars PROVE TypeOK'
    BY <1>8 DEF vars, serverVars, clientVars, ServerTypeOK, ClientTypeOK
  <1> QED
    BY <1>1, <1>2, <1>3, <1>4, <1>5, <1>6, <1>7, <1>8 DEF Next

\* Every variable keeps its type: in particular no handler and no operation
\* ever leaves the control points that the program text gives it.
THEOREM TypeCorrect == Spec => []TypeOK
  <1>1. Init => TypeOK
    BY InitType
  <1>2. TypeOK /\ [Next]_vars => TypeOK'
    BY NextType
  <1> QED
    BY <1>1, <1>2, PTL DEF Spec

-----------------------------------------------------------------------------
(***************************************************************************)
(* FetchedNotOlder, for one thread per client.  It is not inductive: that  *)
(* Stamp writes no newer version than the one the copy holds depends on    *)
(* the order of the two calls that came before it.  The invariant follows  *)
(* the version along the operation: TestAuth reports a version of the file *)
(* that the server has already installed, every version that replaces it   *)
(* is a later one, so the Fetch that comes after reports one at least as   *)
(* late, and no other thread changes the copy until it is stamped.         *)
(***************************************************************************)

\* Version v of file f has been seen: what the server has now is as recent.
Seen(v, f) == v <= sver /\ (Exists(f) => v <= sfile[f].ver)

VersionsInstalled == \A f \in Files : sfile[f].ver <= sver

\* The outstanding call of p is the one its control point waits for.
CallMatches(p) ==
    /\ pc[p] = "auth" => call[p].kind = "TestAuth" /\ call[p].file = file[p]
    /\ pc[p] = "fetch" => call[p].kind = "Fetch" /\ call[p].file = file[p]
    /\ pc[p] = "rename" => call[p].kind = "Rename"

AuthSeen(p) ==
    /\ pc[p] = "auth" /\ hpc[p] = "done" => Seen(reply[p].ver, file[p])
    /\ pc[p] \in {"check", "fetch"} => Seen(auth[p].ver, file[p])

FetchedLater(p) ==
    /\ pc[p] = "fetch" /\ hpc[p] = "done" /\ reply[p].st = "ok"
          => auth[p].ver <= reply[p].ver
    /\ pc[p] = "stamp" /\ Cached(C(p), file[p])
          => auth[p].ver <= Copy(C(p), file[p]).ver

\* Rename gives the moved content a later version.
RenamedLater(p) ==
    pc[p] = "rename" /\ hpc[p] = "done" /\ reply[p].st = "ok"
        => 0 < reply[p].of /\ reply[p].of <= reply[p].ver

StampOK(r) == r.by = "fetch" /\ r.ver > 0 => r.stamp <= r.ver

CopiesOK == \A c \in Clients, i \in Inodes : StampOK(disk[c][i])

ProcInv(p) == CallMatches(p) /\ AuthSeen(p) /\ FetchedLater(p) /\ RenamedLater(p)

FetchInv == TypeOK /\ VersionsInstalled /\ CopiesOK /\ (\A p \in Procs : ProcInv(p))

\* The server's files only change to later versions, or go.
LEMMA VersionsGrow ==
    ASSUME ServerTypeOK, VersionsInstalled, NEW w \in Procs,
           HandlerStep(w) \/ HandlerFault(w)
    PROVE  /\ VersionsInstalled'
           /\ sver <= sver'
           /\ \A f \in Files : sfile'[f].ver \in {sfile[f].ver, 0} \/ sver <= sfile'[f].ver
  <1> USE DEF ServerTypeOK, FileRec, VersionsInstalled
  <1>0. call[w].file \in Files /\ call[w].dst \in Files
    BY DEF RequestRec
  <1>1. CASE UNCHANGED <<sver, sfile>>
    BY <1>1
  <1>2. CASE Create(w)
    <2>1. PICK t \in Stamps : sfile' = [sfile EXCEPT ![call[w].file] =
                                  [data |-> 0, mtime |-> t, ver |-> sver + 1]]
      BY <1>2 DEF Create
    <2> QED
      BY <1>0, <1>2, <2>1 DEF Create
  <1>3. CASE Remove(w) \/ StoreUnlink(w)
    <2>1. sfile' = [sfile EXCEPT ![call[w].file] = Absent] /\ sver' = sver
      BY <1>3 DEF Remove, StoreUnlink
    <2>2. Absent.ver = 0
      BY DEF Absent
    <2>3. \A f \in Files : sfile'[f].ver \in {sfile[f].ver, 0}
      BY <1>0, <2>1, <2>2
    <2> QED
      BY <2>1, <2>3
  <1>4. CASE Rename(w) /\ Exists(call[w].file)
    <2> DEFINE moved == [sfile[call[w].file] EXCEPT !.ver = sver + 1]
    <2>1. moved.ver = sver + 1
      BY <1>0
    <2>2. /\ sfile' = [sfile EXCEPT ![call[w].dst] = moved, ![call[w].file] = Absent]
          /\ sver' = sver + 1
      BY <1>4 DEF Rename
    <2> HIDE DEF moved
    <2>3. \A f \in Files : sfile'[f].ver \in {sfile[f].ver, sver + 1, 0}
      BY <1>0, <2>1, <2>2 DEF Absent
    <2> QED
      BY <2>2, <2>3
  <1>5. CASE StoreRename(w)
    BY <1>0, <1>5 DEF StoreRename
  <1>6. CASE TestAuth(w) \/ Fetch(w) \/ StoreWrite(w) \/ StoreStat(w)
    BY <1>1, <1>6 DEF TestAuth, Fetch, StoreWrite, StoreStat
  <1>7. CASE HandlerFault(w)
    BY <1>1, <1>7 DEF HandlerFault, StoreAbort, HandlerError
  <1>8. CASE Rename(w) /\ ~Exists(call[w].file)
    BY <1>1, <1>8 DEF Rename
  <1> QED
    BY <1>2, <1>3, <1>4, <1>5, <1>6, <1>7, <1>8 DEF HandlerStep

LEMMA SeenStable ==
    ASSUME ServerTypeOK, ServerTypeOK', sver <= sver', NEW f \in Files, NEW v \in Nat,
           sfile'[f].ver \in {sfile[f].ver, 0} \/ sver <= sfile'[f].ver,
           Seen(v, f)
    PROVE  Seen(v, f)'
  BY DEF Seen, Exists, ServerTypeOK, FileRec

\* The invariant of a process is kept by a step that changes none of its state.
LEMMA Bystander ==
    ASSUME TypeOK, TypeOK', NEW q \in Procs, ProcInv(q),
           sver <= sver',
           \A f \in Files : sfile'[f].ver \in {sfile[f].ver, 0} \/ sver <= sfile'[f].ver,
           /\ pc'[q] = pc[q] /\ file'[q] = file[q] /\ auth'[q] = auth[q]
           /\ call'[q] = call[q] /\ hpc'[q] = hpc[q] /\ reply'[q] = reply[q],
           path'[C(q)] = path[C(q)] /\ disk'[C(q)] = disk[C(q)]
    PROVE  ProcInv(q)'
  <1>0. file[q] \in Files /\ reply[q].ver \in Nat /\ auth[q].ver \in Nat
    BY DEF TypeOK, ClientTypeOK, ServerTypeOK, ReplyRec, AuthRec
  <1>1. CallMatches(q)' /\ RenamedLater(q)'
    BY DEF ProcInv, CallMatches, RenamedLater
  <1>2. AuthSeen(q)'
    BY <1>0, SeenStable DEF ProcInv, AuthSeen, TypeOK, Seen
  <1>3. FetchedLater(q)'
    BY DEF ProcInv, FetchedLater, Cached, Copy, C
  <1> QED
    BY <1>1, <1>2, <1>3 DEF ProcInv

\* A handler changes the call of its own caller only.
LEMMA HandlerFrame ==
    ASSUME ServerTypeOK, NEW w \in Procs, HandlerStep(w) \/ HandlerFault(w)
    PROVE  /\ call' = call
           /\ \A q \in Procs \ {w} : hpc'[q] = hpc[q] /\ reply'[q] = reply[q]
  <1> USE DEF ServerTypeOK, Answer
  <1>1. CASE TestAuth(w) \/ Fetch(w) \/ Create(w) \/ Remove(w)
    BY <1>1 DEF TestAuth, Fetch, Create, Remove
  <1>2. CASE Rename(w)
    BY <1>2 DEF Rename
  <1>3. CASE StoreWrite(w) \/ StoreRename(w) \/ StoreStat(w) \/ StoreUnlink(w)
    BY <1>3 DEF StoreWrite, StoreRename, StoreStat, StoreUnlink
  <1>4. CASE HandlerFault(w)
    BY <1>4 DEF HandlerFault, StoreAbort, HandlerError
  <1> QED
    BY <1>1, <1>2, <1>3, <1>4 DEF HandlerStep

\* What a handler has put into its reply when it is done.
LEMMA HandlerReplies ==
    ASSUME TypeOK, VersionsInstalled, NEW w \in Procs, ProcInv(w),
           HandlerStep(w) \/ HandlerFault(w), hpc'[w] = "done"
    PROVE  /\ pc[w] = "auth" => Seen(reply'[w].ver, file[w])
           /\ pc[w] = "fetch" /\ reply'[w].st = "ok" => auth[w].ver <= reply'[w].ver
           /\ pc[w] = "rename" /\ reply'[w].st = "ok"
                 => 0 < reply'[w].of /\ reply'[w].of <= reply'[w].ver
  <1> USE DEF TypeOK, ServerTypeOK, FileRec, ProcInv, CallMatches
  <1>0. file[w] \in Files /\ call[w].file \in Files
    BY DEF ClientTypeOK, RequestRec
  <1>1. CASE pc[w] = "auth"
    <2>1. TestAuth(w) \/ HandlerError(w)
      BY <1>1 DEF HandlerStep, HandlerFault, Serving, Fetch, Create, Remove, Rename,
                  StoreWrite, StoreRename, StoreStat, StoreUnlink, StoreAbort
    <2>2. CASE TestAuth(w)
      <3>1. reply'[w].ver = sfile[file[w]].ver
        BY <1>1, <2>2 DEF TestAuth, Answer, Report
      <3> QED
        BY <1>0, <1>1, <3>1 DEF Seen, VersionsInstalled
    <2>3. CASE HandlerError(w)
      <3>1. reply'[w].ver = 0
        BY <2>3 DEF HandlerError, Answer, Bare
      <3> QED
        BY <1>0, <1>1, <3>1 DEF Seen
    <2> QED
      BY <2>1, <2>2, <2>3
  <1>2. CASE pc[w] = "fetch"
    <2>1. Fetch(w) \/ HandlerError(w)
      BY <1>2 DEF HandlerStep, HandlerFault, Serving, TestAuth, Create, Remove, Rename,
                  StoreWrite, StoreRename, StoreStat, StoreUnlink, StoreAbort
    <2>2. CASE Fetch(w)
      <3>1. reply'[w].ver = sfile[file[w]].ver /\ reply'[w].st = Found(file[w])
        BY <1>2, <2>2 DEF Fetch, Answer, Report
      <3> QED
        BY <1>0, <1>2, <3>1 DEF AuthSeen, Seen, Found
    <2>3. CASE HandlerError(w)
      BY <1>2, <2>3 DEF HandlerError, Answer, Bare
    <2> QED
      BY <2>1, <2>2, <2>3
  <1>3. CASE pc[w] = "rename"
    <2>1. Rename(w) \/ HandlerError(w)
      BY <1>3 DEF HandlerStep, HandlerFault, Serving, TestAuth, Create, Remove, Fetch,
                  StoreWrite, StoreRename, StoreStat, StoreUnlink, StoreAbort
    <2>2. CASE Rename(w) /\ Exists(call[w].file)
      <3>1. reply'[w].of = sfile[call[w].file].ver /\ reply'[w].ver = sver + 1
        BY <2>2 DEF Rename, Answer
      <3> QED
        BY <1>0, <1>3, <2>2, <3>1 DEF Exists, VersionsInstalled
    <2>3. CASE Rename(w) /\ ~Exists(call[w].file)
      BY <1>3, <2>3 DEF Rename, Answer, Bare
    <2>4. CASE HandlerError(w)
      BY <1>3, <2>4 DEF HandlerError, Answer, Bare
    <2> QED
      BY <2>1, <2>2, <2>3, <2>4
  <1> QED
    BY <1>1, <1>2, <1>3

LEMMA HandlerKeepsInv ==
    ASSUME FetchInv, NEW w \in Procs, HandlerStep(w) \/ HandlerFault(w),
           UNCHANGED <<clientVars, ccrashes>>, TypeOK'
    PROVE  FetchInv'
  <1> USE DEF FetchInv, clientVars
  <1>1. /\ VersionsInstalled' /\ sver <= sver'
        /\ \A f \in Files : sfile'[f].ver \in {sfile[f].ver, 0} \/ sver <= sfile'[f].ver
    BY VersionsGrow DEF TypeOK
  <1>2. CopiesOK'
    BY DEF CopiesOK
  <1>3. /\ call' = call
        /\ \A q \in Procs \ {w} : hpc'[q] = hpc[q] /\ reply'[q] = reply[q]
    BY HandlerFrame DEF TypeOK
  <1>4. ASSUME NEW q \in Procs \ {w} PROVE ProcInv(q)'
    BY <1>1, <1>3, <1>4, Bystander
  <1>5. ProcInv(w)'
    <2>0. /\ file[w] \in Files /\ auth[w].ver \in Nat
          /\ reply[w].ver \in Nat /\ reply'[w].ver \in Nat
      BY DEF TypeOK, ClientTypeOK, ServerTypeOK, ReplyRec, AuthRec
    <2>1. CallMatches(w)'
      BY <1>3 DEF ProcInv, CallMatches
    <2>2. AuthSeen(w)'
      <3>1. ASSUME Seen(auth[w].ver, file[w]) PROVE Seen(auth[w].ver, file[w])'
        BY <1>1, <2>0, <3>1, SeenStable DEF TypeOK, Seen
      <3>2. ASSUME pc[w] = "auth", hpc'[w] = "done" PROVE Seen(reply[w].ver, file[w])'
        <4>1. Seen(reply'[w].ver, file[w])
          BY <3>2, HandlerReplies
        <4> QED
          BY <1>1, <2>0, <4>1, SeenStable DEF TypeOK, Seen
      <3> QED
        BY <3>1, <3>2 DEF ProcInv, AuthSeen
    <2>3. FetchedLater(w)'
      BY HandlerReplies DEF ProcInv, FetchedLater, Cached, Copy, C
    <2>4. RenamedLater(w)'
      BY HandlerReplies DEF RenamedLater
    <2> QED
      BY <2>1, <2>2, <2>3, <2>4 DEF ProcInv
  <1> QED
    BY <1>1, <1>2, <1>4, <1>5

LEMMA CrashKeepsInv ==
    ASSUME FetchInv, Crash \/ Restart, UNCHANGED <<clientVars, ccrashes>>, TypeOK'
    PROVE  FetchInv'
  <1> USE DEF FetchInv, clientVars
  <1>1. /\ UNCHANGED <<sver, sfile, call, reply>>
        /\ \A q \in Procs : hpc'[q] \in {hpc[q], "failed"}
    BY DEF Crash, Restart
  <1>2. VersionsInstalled' /\ CopiesOK'
    BY <1>1 DEF VersionsInstalled, CopiesOK
  <1>3. ASSUME NEW q \in Procs PROVE ProcInv(q)'
    BY <1>1 DEF ProcInv, CallMatches, AuthSeen, FetchedLater, RenamedLater, Seen, Exists,
                Cached, Copy, C
  <1> QED
    BY <1>2, <1>3

\* What no step of process p touches.
CallFrame(p) ==
    /\ UNCHANGED <<sver, sfile, reply>>
    /\ \A q \in Procs \ {p} :
          /\ pc'[q] = pc[q] /\ auth'[q] = auth[q] /\ (C(q) # C(p) => file'[q] = file[q])
          /\ call'[q] = call[q] /\ hpc'[q] = hpc[q]

CacheFrame(p) ==
    \A c \in Clients \ {C(p)} : path'[c] = path[c] /\ disk'[c] = disk[c]

Frame(p) == CallFrame(p) /\ CacheFrame(p)

LEMMA StartFrame ==
    ASSUME TypeOK, NEW p \in Procs, StartOp(p) PROVE Frame(p)
  <1> USE DEF TypeOK, ServerTypeOK, ClientTypeOK, Begin, Issue, Goto, Frame, CallFrame, CacheFrame
  <1>1. CASE \E f \in Files, o \in {"stat", "read", "write"} : StartFetch(p, o, f)
    BY <1>1 DEF StartFetch
  <1>2. CASE \E f \in Files : StartLookup(p, f)
    BY <1>2 DEF StartLookup
  <1>3. CASE \E f \in Files : StartTruncate(p, f)
    BY <1>3 DEF StartTruncate
  <1>4. CASE \E f \in Files : StartUnlink(p, f)
    BY <1>4 DEF StartUnlink
  <1>5. CASE \E f, g \in Files : StartRename(p, f, g)
    BY <1>5 DEF StartRename
  <1> QED
    BY <1>1, <1>2, <1>3, <1>4, <1>5 DEF StartOp

\* A rename changes the names of the sessions of its own client only, ...
LEMMA RenamesOwn ==
    ASSUME TypeOK, NEW p \in Procs, RenameReply(p), NEW q \in Procs,
           C(q) # C(p) \/ pc[q] # "session"
    PROVE  file'[q] = file[q] /\ file2'[q] = file2[q]
  <1>1. CASE UNCHANGED <<file, file2>>
    BY <1>1
  <1>2. CASE /\ file' = [s \in Procs |-> IF s \in Renamed(p) THEN file2[p] ELSE file[s]]
             /\ file2' = [s \in Procs |-> IF s \in Renamed(p) THEN file2[p] ELSE file2[s]]
    BY <1>2 DEF Renamed
  <1> QED
    BY <1>1, <1>2 DEF RenameReply

LEMMA StepCallFrame ==
    ASSUME TypeOK, NEW p \in Procs, ProcStep(p) \/ Write(p) \/ Discard(p)
    PROVE  CallFrame(p)
  <1> USE DEF TypeOK, ServerTypeOK, ClientTypeOK, Issue, Release, Goto, CallFrame
  <1>0. ASSUME NEW st, FetchFails(p, st)
        PROVE  \A q \in Procs \ {p} :
                 pc'[q] = pc[q] /\ call'[q] = call[q] /\ hpc'[q] = hpc[q]
    BY <1>0 DEF FetchFails, Creat
  <1>1. CASE CreateReply(p) \/ CheckCache(p)
    BY <1>1 DEF CreateReply, CheckCache
  <1>2. CASE AuthReply(p)
    BY <1>0, <1>2 DEF AuthReply
  <1>3. CASE FetchReply(p)
    BY <1>0, <1>3 DEF FetchReply
  <1>4. CASE Stamp(p)
    BY <1>0, <1>4 DEF Stamp
  <1>5. CASE OpenLocal(p)
    BY <1>5 DEF OpenLocal, Creat
  <1>6. CASE Close(p)
    BY <1>6 DEF Close, serverVars
  <1>7. CASE StoreRead(p) \/ StoreReply(p)
    BY <1>7 DEF StoreRead, StoreReply
  <1>8. CASE RemoveReply(p)
    BY <1>8 DEF RemoveReply
  <1>9. CASE RenameReply(p)
    <2>1. \A q \in Procs : C(q) # C(p) => file'[q] = file[q]
      BY <1>9, RenamesOwn
    <2> QED
      BY <1>9, <2>1 DEF RenameReply
  <1>10. CASE Write(p) \/ Discard(p)
    BY <1>10 DEF Write, Discard, clientVars
  <1> QED
    BY <1>1, <1>2, <1>3, <1>4, <1>5, <1>6, <1>7, <1>8, <1>9, <1>10 DEF ProcStep

LEMMA StepCacheFrame ==
    ASSUME TypeOK, NEW p \in Procs, ProcStep(p) \/ Write(p) \/ Discard(p)
    PROVE  CacheFrame(p)
  <1> USE DEF TypeOK, ClientTypeOK, CacheFrame
  <1>0. CASE UNCHANGED <<path, disk>>
    BY <1>0
  <1>1. CASE FetchReply(p) /\ ~UNCHANGED <<path, disk>>
    <2>1. PICK i, r : disk' = [disk EXCEPT ![C(p)][i] = r]
                      /\ path' = [path EXCEPT ![C(p)][file[p]] = i]
      BY <1>1 DEF FetchReply
    <2> QED
      BY <2>1
  <1>2. CASE Stamp(p) /\ ~UNCHANGED <<path, disk>>
    <2>1. PICK i, r : disk' = [disk EXCEPT ![C(p)][i] = r] /\ UNCHANGED path
      BY <1>2 DEF Stamp
    <2> QED
      BY <2>1
  <1>3. CASE OpenLocal(p) /\ ~UNCHANGED <<path, disk>>
    <2>1. PICK i, r : disk' = [disk EXCEPT ![C(p)][i] = r]
                      /\ path' = [path EXCEPT ![C(p)][file[p]] = i]
      BY <1>3 DEF OpenLocal
    <2> QED
      BY <2>1
  <1>4. CASE StoreReply(p) /\ ~UNCHANGED <<path, disk>>
    <2>1. PICK i, r : disk' = [disk EXCEPT ![C(p)][i] = r] /\ UNCHANGED path
      BY <1>4 DEF StoreReply
    <2> QED
      BY <2>1
  <1>5. CASE Write(p)
    <2>1. PICK i, r : disk' = [disk EXCEPT ![C(p)][i] = r] /\ UNCHANGED path
      BY <1>5 DEF Write
    <2> QED
      BY <2>1
  <1>6. CASE RemoveReply(p)
    BY <1>6 DEF RemoveReply
  <1>7. CASE RenameReply(p) /\ ~UNCHANGED <<path, disk>>
    <2>1. PICK i, r : disk' = disk \/ disk' = [disk EXCEPT ![C(p)][i] = r]
      BY <1>7 DEF RenameReply
    <2>2. PICK names : path' = [path EXCEPT ![C(p)] = names]
      BY <1>7 DEF RenameReply
    <2> QED
      BY <2>1, <2>2
  <1> QED
    BY <1>0, <1>1, <1>2, <1>3, <1>4, <1>5, <1>6, <1>7
       DEF ProcStep, CreateReply, AuthReply, CheckCache, Close, StoreRead, Discard, clientVars

LEMMA OneCopy ==
    ASSUME TypeOK, CopiesOK, NEW c \in Clients, NEW i \in Inodes, NEW r,
           disk' = [disk EXCEPT ![c][i] = r], StampOK(r)
    PROVE  CopiesOK'
  BY DEF TypeOK, ClientTypeOK, CopiesOK, StampOK

\* No step of a process stamps a copy with a version later than its content's.
LEMMA StepKeepsCopies ==
    ASSUME TypeOK, CopiesOK, NEW p \in Procs, ProcInv(p),
           StartOp(p) \/ ProcStep(p) \/ Write(p) \/ Discard(p)
    PROVE  CopiesOK'
  <1>0. /\ C(p) \in Clients /\ file[p] \in Files
        /\ reply[p] \in ReplyRec /\ auth[p] \in AuthRec
    BY ClientOfType DEF TypeOK, ClientTypeOK, ServerTypeOK
  <1>1. CASE disk' = disk
    BY <1>1 DEF CopiesOK
  <1>2. ASSUME NEW d, NEW t, NEW i \in Inodes,
               disk' = [disk EXCEPT ![C(p)][i] = Written(d, t)]
        PROVE  CopiesOK'
    BY <1>0, <1>2, OneCopy DEF Written, StampOK
  <1>3. CASE StartOp(p) /\ disk' # disk
    <2>1. PICK f \in Files, t \in Stamps :
            /\ Cached(C(p), f)
            /\ disk' = [disk EXCEPT ![C(p)][path[C(p)][f]] = Written(mods + 1, Local(C(p), t))]
      BY <1>3 DEF StartOp, StartFetch, StartLookup, StartTruncate, StartUnlink, StartRename
    <2> QED
      BY <1>0, <1>2, <2>1, CopyType DEF TypeOK
  <1>4. CASE FetchReply(p) /\ disk' # disk
    <2> DEFINE r == [data |-> reply[p].data, mtime |-> Local(C(p), clock),
                     ver |-> reply[p].ver, stamp |-> 0, by |-> "clock"]
    <2>1. PICK i \in Inodes : disk' = [disk EXCEPT ![C(p)][i] = r]
      BY <1>4 DEF FetchReply, FreeInodes
    <2>2. StampOK(r)
      BY DEF StampOK
    <2> HIDE DEF r
    <2> QED
      BY <1>0, <2>1, <2>2, OneCopy
  <1>5. CASE Stamp(p) /\ disk' # disk
    <2> DEFINE copy == Copy(C(p), file[p])
               r == [copy EXCEPT !.mtime = auth[p].mtime, !.stamp = auth[p].ver, !.by = "fetch"]
    <2>1. Cached(C(p), file[p]) /\ disk' = [disk EXCEPT ![C(p)][path[C(p)][file[p]]] = r]
      BY <1>5 DEF Stamp, Copy
    <2>2. path[C(p)][file[p]] \in Inodes /\ copy \in InodeRec
      BY <1>0, <2>1, CopyType DEF TypeOK
    <2>3. auth[p].ver <= copy.ver
      BY <1>5, <2>1 DEF Stamp, ProcInv, FetchedLater
    <2>4. r.stamp = auth[p].ver /\ r.ver = copy.ver
      BY <2>2 DEF InodeRec
    <2>5. StampOK(r)
      BY <2>3, <2>4 DEF StampOK
    <2> HIDE DEF r
    <2> QED
      BY <1>0, <2>1, <2>2, <2>5, OneCopy
  <1>6. CASE OpenLocal(p) /\ disk' # disk
    <2>1. PICK i \in Inodes, t \in Stamps :
            disk' = [disk EXCEPT ![C(p)][i] = Written(0, Local(C(p), t))]
      BY <1>6 DEF OpenLocal, FreeInodes
    <2> QED
      BY <1>2, <2>1
  <1>7. CASE Write(p)
    <2>1. PICK t : disk' = [disk EXCEPT ![C(p)][handle[p]] = Written(mods + 1, Local(C(p), t))]
      BY <1>7 DEF Write
    <2>2. CASE handle[p] \in Inodes
      BY <1>2, <2>1, <2>2
    <2>3. CASE handle[p] \notin Inodes
      BY <2>1, <2>3 DEF TypeOK, ClientTypeOK, CopiesOK
    <2> QED
      BY <2>2, <2>3
  <1>8. CASE StoreReply(p) /\ disk' # disk
    <2> DEFINE copy == Copy(C(p), file[p])
    <2>1. Cached(C(p), file[p]) /\ disk' = [disk EXCEPT ![C(p)][path[C(p)][file[p]]] = Stored(p, copy)]
      BY <1>8 DEF StoreReply, Copy, Cached
    <2>2. path[C(p)][file[p]] \in Inodes /\ copy \in InodeRec
      BY <1>0, <2>1, CopyType DEF TypeOK
    <2>3. StampOK(Stored(p, copy))
      BY <2>2 DEF Stored, StampOK, InodeRec
    <2> QED
      BY <1>0, <2>1, <2>2, <2>3, OneCopy
  <1>9. CASE RenameReply(p) /\ disk' # disk
    <2> DEFINE copy == Copy(C(p), file[p])
               r == [copy EXCEPT !.ver = reply[p].ver]
    <2>1. /\ Cached(C(p), file[p]) /\ disk' = [disk EXCEPT ![C(p)][path[C(p)][file[p]]] = r]
          /\ hpc[p] = "done" /\ reply[p].st = "ok" /\ copy.ver = reply[p].of
      BY <1>9 DEF RenameReply, Copy, Cached
    <2>2. path[C(p)][file[p]] \in Inodes /\ copy \in InodeRec
      BY <1>0, <2>1, CopyType DEF TypeOK
    <2>3. 0 < copy.ver /\ copy.ver <= reply[p].ver
      BY <1>9, <2>1 DEF RenameReply, ProcInv, RenamedLater
    <2>4. r.stamp = copy.stamp /\ r.by = copy.by /\ r.ver = reply[p].ver
      BY <2>2 DEF InodeRec
    <2>5. StampOK(copy)
      BY <1>0, <2>2 DEF CopiesOK, Copy
    <2>6. StampOK(r)
      BY <1>0, <2>2, <2>3, <2>4, <2>5 DEF StampOK, InodeRec, ReplyRec
    <2> HIDE DEF r
    <2> QED
      BY <1>0, <2>1, <2>2, <2>6, OneCopy
  <1> QED
    BY <1>1, <1>3, <1>4, <1>5, <1>6, <1>7, <1>8, <1>9
       DEF ProcStep, CreateReply, AuthReply, CheckCache, Close, StoreRead, RemoveReply,
           Discard, clientVars

\* Only five control points promise anything.
LEMMA Elsewhere ==
    ASSUME NEW p \in Procs, pc'[p] \notin {"auth", "check", "fetch", "stamp", "rename"}
    PROVE  ProcInv(p)'
  BY DEF ProcInv, CallMatches, AuthSeen, FetchedLater, RenamedLater

\* A call that was just issued has no reply yet.
LEMMA Issued ==
    ASSUME TypeOK, NEW p \in Procs, NEW k, NEW f, NEW g, NEW d,
           Issue(p, Request(k, f, g, d)), file'[p] = f,
           \/ pc'[p] = "auth" /\ k = "TestAuth"
           \/ pc'[p] = "fetch" /\ k = "Fetch" /\ Seen(auth[p].ver, f)'
           \/ pc'[p] = "rename" /\ k = "Rename",
           auth' = auth
    PROVE  ProcInv(p)'
  <1>1. call'[p] = Request(k, f, g, d) /\ hpc'[p] # "done"
    BY DEF TypeOK, ServerTypeOK, Issue
  <1>2. call'[p].kind = k /\ call'[p].file = f
    BY <1>1 DEF Request
  <1> QED
    BY <1>1, <1>2 DEF ProcInv, CallMatches, AuthSeen, FetchedLater, RenamedLater, Seen, Exists

LEMMA StartKeepsOwn ==
    ASSUME TypeOK, NEW p \in Procs, StartOp(p) PROVE ProcInv(p)'
  <1> USE DEF Begin, Goto
  <1>0. pc \in [Procs -> PCs] /\ file \in [Procs -> Files]
    BY DEF TypeOK, ClientTypeOK
  <1>1. CASE \E f \in Files, o \in {"stat", "read", "write"} : StartFetch(p, o, f)
    BY <1>0, <1>1, Issued DEF StartFetch
  <1>2. CASE \E f \in Files : StartLookup(p, f)
    BY <1>0, <1>2, Issued DEF StartLookup
  <1>3. CASE \E f \in Files : StartTruncate(p, f)
    <2>1. pc'[p] = "sread"
      BY <1>0, <1>3 DEF StartTruncate
    <2> QED
      BY <2>1, Elsewhere
  <1>4. CASE \E f \in Files : StartUnlink(p, f)
    <2>1. pc'[p] = "remove"
      BY <1>0, <1>4 DEF StartUnlink
    <2> QED
      BY <2>1, Elsewhere
  <1>5. CASE \E f, g \in Files : StartRename(p, f, g)
    BY <1>0, <1>5, Issued DEF StartRename
  <1> QED
    BY <1>1, <1>2, <1>3, <1>4, <1>5 DEF StartOp

LEMMA StepKeepsOwn ==
    ASSUME TypeOK, TypeOK', NEW p \in Procs, ProcInv(p),
           ProcStep(p) \/ Write(p) \/ Discard(p)
    PROVE  ProcInv(p)'
  <1> USE DEF Goto
  <1>0. /\ pc \in [Procs -> PCs] /\ file[p] \in Files
        /\ C(p) \in Clients /\ reply[p] \in ReplyRec /\ auth[p] \in AuthRec
    BY ClientOfType DEF TypeOK, ClientTypeOK, ServerTypeOK
  <1>1. ASSUME pc'[p] \in {"idle", "open", "session", "create", "sread", "store"}
        PROVE  ProcInv(p)'
    BY <1>1, Elsewhere
  <1>2. ASSUME NEW st, FetchFails(p, st) PROVE ProcInv(p)'
    BY <1>0, <1>1, <1>2 DEF FetchFails, Creat
  <1>3. CASE CreateReply(p)
    <2>1. CASE Issue(p, Request("TestAuth", file[p], file[p], 0)) /\ Goto(p, "auth")
      BY <1>0, <1>3, <2>1, Issued DEF CreateReply
    <2>2. CASE Goto(p, "idle")
      BY <1>0, <1>1, <2>2
    <2> QED
      BY <1>3, <2>1, <2>2 DEF CreateReply
  <1>4. CASE AuthReply(p)
    <2>1. CASE FetchFails(p, AuthData(p).st)
      BY <1>2, <2>1
    <2>2. CASE Goto(p, "check")
      <3>1. Seen(AuthData(p).ver, file[p])
        <4>1. CASE hpc[p] = "done"
          BY <1>4, <4>1 DEF AuthReply, AuthData, ProcInv, AuthSeen
        <4>2. CASE hpc[p] # "done"
          <5>1. AuthData(p).ver = 0
            BY <4>2 DEF AuthData
          <5> QED
            BY <1>0, <5>1 DEF Seen, TypeOK, ServerTypeOK, FileRec
        <4> QED
          BY <4>1, <4>2
      <3>2. auth'[p] = AuthData(p)
        BY <1>4 DEF AuthReply, TypeOK, ClientTypeOK
      <3>3. pc'[p] = "check" /\ UNCHANGED <<sver, sfile, file>>
        BY <1>0, <1>4, <2>2 DEF AuthReply
      <3> QED
        BY <3>1, <3>2, <3>3
           DEF ProcInv, CallMatches, AuthSeen, FetchedLater, RenamedLater, Seen, Exists
    <2> QED
      BY <1>4, <2>1, <2>2 DEF AuthReply
  <1>5. CASE CheckCache(p)
    <2>1. CASE Goto(p, "open")
      BY <1>0, <1>1, <2>1
    <2>2. CASE Issue(p, Request("Fetch", file[p], file[p], 0)) /\ Goto(p, "fetch")
      <3>1. UNCHANGED <<sver, sfile, file, auth>> /\ pc'[p] = "fetch"
        BY <1>0, <1>5, <2>2 DEF CheckCache
      <3>2. Seen(auth[p].ver, file[p])'
        BY <1>5, <3>1 DEF CheckCache, ProcInv, AuthSeen, Seen, Exists
      <3> QED
        BY <1>0, <2>2, <3>1, <3>2, Issued DEF Seen, Exists
    <2> QED
      BY <1>5, <2>1, <2>2 DEF CheckCache
  <1>6. CASE FetchReply(p)
    <2>1. CASE FetchFails(p, reply[p].st)
      BY <1>2, <2>1
    <2>2. CASE Goto(p, "open")
      BY <1>0, <1>1, <2>2
    <2>3. CASE Goto(p, "stamp") /\ hpc[p] = "done" /\ reply[p].st = "ok"
      <3> DEFINE r == [data |-> reply[p].data, mtime |-> Local(C(p), clock),
                       ver |-> reply[p].ver, stamp |-> 0, by |-> "clock"]
      <3>0. pc'[p] = "stamp" /\ UNCHANGED <<file, auth>>
        BY <1>0, <1>6, <2>3 DEF FetchReply
      <3>1. PICK i \in Inodes : /\ disk' = [disk EXCEPT ![C(p)][i] = r]
                                /\ path' = [path EXCEPT ![C(p)][file[p]] = i]
        BY <1>0, <1>6, <2>3, <3>0 DEF FetchReply, FreeInodes, FetchFails, Creat
      <3>2. r.ver = reply[p].ver
        OBVIOUS
      <3> HIDE DEF r
      <3>3. path'[C(p)][file[p]] = i /\ disk'[C(p)][i] = r
        BY <1>0, <3>1 DEF TypeOK, ClientTypeOK
      <3>4. auth[p].ver <= reply[p].ver
        BY <1>6, <2>3 DEF FetchReply, ProcInv, FetchedLater
      <3> QED
        BY <3>0, <3>2, <3>3, <3>4
           DEF ProcInv, CallMatches, AuthSeen, FetchedLater, RenamedLater, Cached, Copy, C
    <2> QED
      BY <1>6, <2>1, <2>2, <2>3 DEF FetchReply
  <1>7. CASE Stamp(p)
    BY <1>0, <1>1, <1>2, <1>7 DEF Stamp
  <1>8. CASE OpenLocal(p)
    BY <1>0, <1>1, <1>8 DEF OpenLocal, Creat
  <1>9. CASE Close(p) \/ StoreRead(p) \/ StoreReply(p) \/ RemoveReply(p) \/ RenameReply(p)
    BY <1>0, <1>1, <1>9 DEF Close, StoreRead, StoreReply, RemoveReply, RenameReply
  <1>10. CASE Write(p) \/ Discard(p)
    BY <1>0, <1>1, <1>10 DEF Write, Discard, clientVars
  <1> QED
    BY <1>3, <1>4, <1>5, <1>6, <1>7, <1>8, <1>9, <1>10 DEF ProcStep

-----------------------------------------------------------------------------
LEMMA FetchInvInit == Init => FetchInv
  <1> SUFFICES ASSUME Init PROVE FetchInv
    OBVIOUS
  <1> USE DEF Init, ServerInit, ClientInit
  <1>1. TypeOK
    BY InitType
  <1>2. VersionsInstalled
    BY DEF VersionsInstalled, Absent
  <1>3. CopiesOK
    BY DEF CopiesOK, StampOK, Written
  <1>4. \A p \in Procs : ProcInv(p)
    BY DEF ProcInv, CallMatches, AuthSeen, FetchedLater, RenamedLater
  <1> QED
    BY <1>1, <1>2, <1>3, <1>4 DEF FetchInv

LEMMA FetchInvNext ==
    ASSUME SerialClients, FetchInv, [Next]_vars
    PROVE  FetchInv'
  <1> USE DEF FetchInv
  <1>0. TypeOK'
    BY NextType
  <1>1. ASSUME NEW p \in Procs, StartOp(p) \/ ProcStep(p) \/ Write(p) \/ Discard(p)
        PROVE  FetchInv'
    <2>1. CallFrame(p) /\ CacheFrame(p)
      BY <1>1, StartFrame, StepCallFrame, StepCacheFrame DEF Frame
    <2>2. VersionsInstalled' /\ CopiesOK'
      BY <1>1, <2>1, StepKeepsCopies DEF CallFrame, VersionsInstalled
    <2>3. ProcInv(p)'
      BY <1>0, <1>1, StartKeepsOwn, StepKeepsOwn
    <2>4. ASSUME NEW q \in Procs \ {p} PROVE ProcInv(q)'
      <3>1. C(q) \in Clients /\ C(q) # C(p)
        BY ClientOfType DEF SerialClients, C
      <3>2. /\ path'[C(q)] = path[C(q)] /\ disk'[C(q)] = disk[C(q)]
            /\ sver' = sver /\ sfile' = sfile /\ reply' = reply
        BY <2>1, <3>1 DEF CallFrame, CacheFrame
      <3>3. sver <= sver'
        BY <3>2 DEF TypeOK, ServerTypeOK
      <3> QED
        BY <1>0, <2>1, <3>1, <3>2, <3>3, Bystander DEF CallFrame
    <2> QED
      BY <1>0, <2>2, <2>3, <2>4
  <1>2. ASSUME NEW w \in Procs, HandlerStep(w) \/ HandlerFault(w),
               UNCHANGED <<clientVars, ccrashes>>
        PROVE  FetchInv'
    BY <1>0, <1>2, HandlerKeepsInv
  <1>3. ASSUME Crash \/ Restart, UNCHANGED <<clientVars, ccrashes>> PROVE FetchInv'
    BY <1>0, <1>3, CrashKeepsInv
  <1>4. ASSUME NEW c \in Clients, ClientCrash(c) PROVE FetchInv'
    <2>1. /\ UNCHANGED <<sver, sfile, call, hpc, reply, disk, file, auth>>
          /\ \A d \in Clients \ {c} : path'[d] = path[d]
          /\ \A q \in Procs : pc'[q] = IF C(q) = c THEN "idle" ELSE pc[q]
      BY <1>4 DEF ClientCrash, serverVars, TypeOK, ClientTypeOK, C
    <2>2. VersionsInstalled' /\ CopiesOK'
      BY <2>1 DEF VersionsInstalled, CopiesOK
    <2>3. ASSUME NEW q \in Procs PROVE ProcInv(q)'
      <3>1. CASE C(q) = c
        BY <2>1, <3>1, Elsewhere
      <3>2. CASE C(q) # c
        <4>1. path'[C(q)] = path[C(q)] /\ pc'[q] = pc[q]
          BY <2>1, <3>2, ClientOfType
        <4>2. sver <= sver'
          BY <2>1 DEF TypeOK, ServerTypeOK
        <4> QED
          BY <1>0, <2>1, <4>1, <4>2, Bystander
      <3> QED
        BY <3>1, <3>2
    <2> QED
      BY <1>0, <2>2, <2>3
  <1>5. CASE UNCHANGED vars
    BY <1>0, <1>5
       DEF vars, serverVars, clientVars, VersionsInstalled, CopiesOK, ProcInv, CallMatches,
           AuthSeen, FetchedLater, RenamedLater, Seen, Exists, Cached, Copy, C
  <1> QED
    BY <1>1, <1>2, <1>3, <1>4, <1>5 DEF Next, CrashClient

LEMMA FetchInvImplies == FetchInv => FetchedNotOlder
  BY CopyType DEF FetchInv, FetchedNotOlder, TypeOK, CopiesOK, StampOK, Copy

\* TestAuth before Fetch is the right order, for any number of clients with one
\* thread each: a fetched copy is never stamped as newer than its content is,
\* whatever the other clients, failing handlers and crashes do in between.
THEOREM FetchStampsSafely ==
    ASSUME SerialClients
    PROVE  Spec => []FetchedNotOlder
  <1>1. Init => FetchInv
    BY FetchInvInit
  <1>2. FetchInv /\ [Next]_vars => FetchInv'
    BY FetchInvNext, SerialClients
  <1>3. FetchInv => FetchedNotOlder
    BY FetchInvImplies
  <1> QED
    BY <1>1, <1>2, <1>3, PTL DEF Spec
=============================================================================
