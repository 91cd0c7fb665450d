----------------------------- MODULE UpdatesProofs -----------------------------
(***************************************************************************)
(* Theorems about updates: a session that writes stores over the content   *)
(* it opened.  Beside the hypotheses of TurnsProofs, the server answers    *)
(* every call, if only to refuse it, no clock runs ahead of the server's,  *)
(* and no file is truncated without having been opened.  And about one     *)
(* client by itself, whose calls may fail: it never loses sight of what it *)
(* wrote.                                                                  *)
(***************************************************************************)
EXTENDS TurnsProofs

Updating ==
    /\ TakingTurns
    /\ MaxCrashes = 0
    /\ "truncate" \notin Ops
    /\ \A c \in Clients : Skew[c] <= 0

-----------------------------------------------------------------------------
(* The invariant.                                                          *)

\* A file of content d and time m tells what f is, or is older than f and than any
\* store of f that is under way.
Shows(f, d, m) ==
    /\ m <= clock
    /\ Exists(f) => m < sfile[f].mtime \/ d = sfile[f].data
    /\ \A w \in Procs : Storing(w, f) => m < stmp[w]

FetchShown(p) == Shows(file[p], reply[p].data, auth[p].mtime)
StampShown(p) == Shows(file[p], Copy(C(p), file[p]).data, auth[p].mtime)
StoreShown(p) == Shows(file[p], call[p].data, reply[p].mtime)
CopyShown(c, f) == Shows(f, Copy(c, f).data, Copy(c, f).mtime)

\* What p received, and what it stored, is what its time says.
ShownInv(p) ==
    /\ pc[p] = "fetch" /\ hpc[p] = "done" /\ reply[p].st = "ok" => FetchShown(p)
    /\ pc[p] = "stamp" /\ Cached(C(p), file[p]) => StampShown(p)
    /\ pc[p] = "store" /\ hpc[p] = "done" => StoreShown(p)

\* While p modifies its file nobody else does: what it was told still holds.
OwnsInv(p) ==
    LET f == file[p]
        copy == Copy(C(p), f)
    IN  /\ hpc[p] = "renamed" => Exists(f) /\ sfile[f].data = call[p].data
        /\ op[p] \in ModOps =>
              /\ pc[p] = "auth" /\ hpc[p] = "done" /\ reply[p].st # "EIO" =>
                    reply[p].st = Found(f) /\ reply[p].mtime = sfile[f].mtime
              /\ pc[p] \in {"check", "fetch", "stamp"} =>
                    Exists(f) /\ auth[p].mtime = sfile[f].mtime
              /\ pc[p] = "fetch" /\ hpc[p] = "done" /\ reply[p].st = "ok" =>
                    reply[p].data = sfile[f].data
              /\ pc[p] \in {"stamp", "open"} /\ Cached(C(p), f) => copy.data = sfile[f].data
              /\ pc[p] \in {"session", "sread"} \/ (pc[p] = "store" /\ hpc[p] \in {"call", "tmp"}) =>
                    base[p] = sfile[f].data
        /\ op[p] = "creat" =>
              /\ pc[p] = "create" /\ hpc[p] = "done" /\ reply[p].st = "ok" => sfile[f].data = 0
              /\ pc[p] \in {"auth", "check", "fetch", "stamp", "open"} => sfile[f].data = 0

\* The server answers, and one who works on the cache has no call out.
ServedInv(p) ==
    /\ hpc[p] # "failed" /\ op[p] # "truncate"
    /\ pc[p] \in {"check", "stamp", "open", "session", "sread"} => hpc[p] = "none"
    /\ pc[p] = "create" => call[p].kind = "Create"
    /\ pc[p] = "store" /\ Cached(C(p), file[p]) => Copy(C(p), file[p]).data = call[p].data

UpdateInv(p) == ShownInv(p) /\ OwnsInv(p) /\ ServedInv(p)

\* A copy that nobody is working on is what its time says.
Worked(c, f) ==
    \E p \in Procs : C(p) = c /\ file[p] = f /\ (pc[p] = "stamp" \/ Modifying(p))
ShownCopies ==
    \A c \in Clients, f \in Files : Cached(c, f) => Worked(c, f) \/ CopyShown(c, f)

UpdatesInv ==
    /\ TurnsInv /\ up /\ crashes = 0
    /\ \A p \in Procs : UpdateInv(p)
    /\ ShownCopies

-----------------------------------------------------------------------------
(* What is shown stays shown: every later content of a file has a later    *)
(* time than anybody knows.                                                *)

KeepsShown == \A f \in Files, d \in Nat, m \in Int : Shows(f, d, m) => Shows(f, d, m)'

LEMMA ProcKeepsShown ==
    ASSUME TypeOK, TypeOK', NEW p \in Procs, CallFrame(p), CallStep(p), stmp' = stmp,
           clock <= clock'
    PROVE  KeepsShown
  <1> SUFFICES ASSUME NEW f \in Files, NEW d \in Nat, NEW m \in Int, Shows(f, d, m)
               PROVE  Shows(f, d, m)'
    BY DEF KeepsShown
  <1>1. clock \in Nat /\ clock' \in Nat /\ sfile' = sfile
    BY DEF TypeOK, ServerTypeOK, CallFrame
  <1>2. \A w \in Procs : hpc'[w] = "tmp" => hpc[w] = "tmp" /\ call'[w] = call[w]
    BY DEF CallFrame, CallStep
  <1> QED
    BY <1>1, <1>2 DEF Shows, Storing, Exists

LEMMA HandlerKeepsShown ==
    ASSUME TypeOK, TypeOK', TakingTurns, TimesInv, \A p \in Procs : CallInv(p), NEW w \in Procs,
           HandlerStep(w) \/ HandlerFault(w)
    PROVE  KeepsShown
  <1> SUFFICES ASSUME NEW f \in Files, NEW d \in Nat, NEW m \in Int, Shows(f, d, m)
               PROVE  Shows(f, d, m)'
    BY DEF KeepsShown
  <1>0. /\ clock \in Nat /\ clock' \in Nat /\ clock <= clock'
        /\ sfile \in [Files -> FileRec] /\ sfile' \in [Files -> FileRec]
        /\ stmp \in [Procs -> Nat] /\ file[w] \in Files
        /\ hpc[w] # "none" /\ call' = call
        /\ \A q \in Procs \ {w} : hpc'[q] = hpc[q]
    BY HandlerEffect, HandlerFrame DEF TypeOK, ServerTypeOK, ClientTypeOK
  <1>1. CASE UNCHANGED <<sver, sfile, clock, stmp>> /\ hpc'[w] # "tmp"
    BY <1>0, <1>1 DEF Shows, Storing, Exists
  <1>2. CASE /\ call[w].kind = "Store" /\ UNCHANGED <<sver, sfile>>
             /\ hpc[w] = "call" /\ hpc'[w] = "tmp"
             /\ clock < clock' /\ stmp' = [stmp EXCEPT ![w] = clock']
    <2>1. \A q \in Procs : Storing(q, f)' => m < stmp'[q]
      BY <1>0, <1>2 DEF Shows, Storing
    <2> QED
      BY <1>0, <1>2, <2>1 DEF Shows, Exists, Storing
  <1>3. CASE /\ call[w].kind \in {"Store", "Create", "Remove"} /\ stmp' = stmp
             /\ hpc'[w] # "tmp"
             /\ Installs(w) \/ (Removes(w) /\ clock' = clock)
    <2>1. \A q \in Procs : Storing(q, f)' => m < stmp'[q]
      BY <1>0, <1>3 DEF Shows, Storing
    <2>2. CASE f # file[w]
      <3>1. sfile'[f] = sfile[f]
        BY <1>0, <1>3, <2>2 DEF Installs, Removes
      <3> QED
        BY <1>0, <2>1, <3>1 DEF Shows, Exists, Storing
    <2>3. CASE f = file[w] /\ Installs(w)
      <3>1. /\ sfile'[f].mtime \in Nat /\ call[w].file = f
            /\ clock < sfile'[f].mtime \/ (hpc[w] = "tmp" /\ sfile'[f].mtime = stmp[w])
        BY <1>0, <2>3 DEF Installs, FileRec, CallInv
      <3>2. m < sfile'[f].mtime
        BY <1>0, <1>3, <2>3, <3>1 DEF Shows, Storing
      <3> QED
        BY <1>0, <2>1, <3>1, <3>2 DEF Shows, Exists, Storing
    <2>4. CASE f = file[w] /\ Removes(w) /\ clock' = clock
      <3>1. sfile'[f].ver = 0
        BY <1>0, <2>4 DEF Removes, Absent
      <3> QED
        BY <1>0, <2>1, <2>4, <3>1 DEF Shows, Exists, Storing
    <2> QED
      BY <1>3, <2>2, <2>3, <2>4
  <1> QED
    BY <1>1, <1>2, <1>3, HandlerEffect

LEMMA QuietShown ==
    ASSUME UNCHANGED <<clock, sfile, stmp, call>>,
           \A q \in Procs : hpc'[q] = "tmp" => hpc[q] = "tmp"
    PROVE  KeepsShown
  BY DEF KeepsShown, Shows, Storing, Exists

\* What the server has is shown by its time.
LEMMA ServerShows ==
    ASSUME TypeOK, TimesInv, NEW f \in Files, NEW m \in Int, NEW v, Recorded(f, v, m)
    PROVE  /\ Shows(f, sfile[f].data, m)
           /\ Shows(f, sfile[f].data, sfile[f].mtime)
  BY DEF TimesInv, FileInv, Recorded, Shows

\* A time of 0, which a refused Store reports, is older than all.
LEMMA ZeroShows ==
    ASSUME TypeOK, TimesInv, NEW f \in Files, NEW d PROVE Shows(f, d, 0)
  <1>1. clock \in Nat /\ sfile[f].mtime \in Nat /\ stmp \in [Procs -> Nat]
    BY DEF TypeOK, ServerTypeOK, FileRec
  <1>2. /\ Exists(f) => 0 < sfile[f].mtime
        /\ \A w \in Procs : Storing(w, f) => sfile[f].mtime < stmp[w]
    BY DEF TimesInv, FileInv, Recorded
  <1> QED
    BY <1>1, <1>2 DEF Shows

\* ... for a process that does not change what it knows.
LEMMA StillShown ==
    ASSUME TypeOK, KeepsShown, NEW q \in Procs,
           /\ file'[q] = file[q] /\ call'[q] = call[q] /\ reply'[q] = reply[q] /\ auth'[q] = auth[q]
    PROVE  /\ FetchShown(q) => FetchShown(q)'
           /\ StoreShown(q) => StoreShown(q)'
  <1>0. /\ file[q] \in Files /\ reply[q].data \in Nat /\ reply[q].mtime \in Int
        /\ auth[q].mtime \in Int /\ call[q].data \in Nat
    BY DEF TypeOK, ServerTypeOK, ClientTypeOK, ReplyRec, AuthRec, RequestRec
  <1> USE DEF KeepsShown, Shows, Storing, Exists
  <1>1. FetchShown(q) => FetchShown(q)'
    BY <1>0 DEF FetchShown
  <1>2. StoreShown(q) => StoreShown(q)'
    BY <1>0 DEF StoreShown
  <1> QED
    BY <1>1, <1>2

LEMMA StampStillShown ==
    ASSUME TypeOK, KeepsShown, NEW q \in Procs, file'[q] = file[q] /\ auth'[q] = auth[q],
           Cached(C(q), file[q]), Copy(C(q), file[q])' = Copy(C(q), file[q]), StampShown(q)
    PROVE  StampShown(q)'
  <1>1. file[q] \in Files /\ auth[q].mtime \in Int /\ Copy(C(q), file[q]).data \in Nat
    BY CopyType, ClientOfType DEF TypeOK, ClientTypeOK, AuthRec, InodeRec
  <1> QED
    BY <1>1 DEF StampShown, KeepsShown, Shows, Storing, Exists

LEMMA CopyStillShown ==
    ASSUME TypeOK, KeepsShown, NEW c \in Clients, NEW f \in Files, Cached(c, f),
           Copy(c, f)' = Copy(c, f), CopyShown(c, f)
    PROVE  CopyShown(c, f)'
  <1>1. Copy(c, f).data \in Nat /\ Copy(c, f).mtime \in Int
    BY CopyType DEF TypeOK, InodeRec
  <1> QED
    BY <1>1 DEF CopyShown, KeepsShown, Shows, Storing, Exists

-----------------------------------------------------------------------------
(* The step of one process or handler keeps what is said of the others ... *)

LEMMA UpdateBystander ==
    ASSUME TypeOK, NEW q \in Procs, UpdateInv(q), CallInv(q), KeepsShown,
           /\ pc'[q] = pc[q] /\ op'[q] = op[q] /\ file'[q] = file[q]
           /\ auth'[q] = auth[q] /\ base'[q] = base[q]
           /\ call'[q] = call[q] /\ hpc'[q] = hpc[q] /\ reply'[q] = reply[q],
           path'[C(q)] = path[C(q)] /\ disk'[C(q)] = disk[C(q)],
           op[q] \in ModOps /\ ~Quiet(q) => sfile'[file[q]] = sfile[file[q]]
    PROVE  UpdateInv(q)'
  <1>0. /\ C(q)' = C(q)
        /\ Cached(C(q), file[q])' <=> Cached(C(q), file[q])
        /\ Copy(C(q), file[q])' = Copy(C(q), file[q])
    BY DEF C, Cached, Copy
  <1>1. ShownInv(q)'
    <2>1. /\ FetchShown(q) => FetchShown(q)'
          /\ StoreShown(q) => StoreShown(q)'
      BY StillShown
    <2>2. StampShown(q) /\ Cached(C(q), file[q]) => StampShown(q)'
      BY <1>0, StampStillShown
    <2> QED
      BY <1>0, <2>1, <2>2 DEF UpdateInv, ShownInv
  <1>2. OwnsInv(q)'
    <2>1. CASE sfile'[file[q]] = sfile[file[q]]
      BY <1>0, <2>1 DEF UpdateInv, OwnsInv, Exists, Found
    <2>2. CASE ~(op[q] \in ModOps /\ ~Quiet(q))
      <3>1. hpc[q] # "renamed" /\ (op[q] \notin ModOps \/ (pc[q] = "idle" /\ hpc[q] = "none"))
        BY <2>2 DEF CallInv, Quiet
      <3>2. op[q] # "creat" \/ (pc[q] = "idle" /\ hpc[q] = "none")
        BY <3>1 DEF ModOps
      <3> QED
        BY <3>1, <3>2 DEF OwnsInv
    <2> QED
      BY <2>1, <2>2
  <1>3. ServedInv(q)'
    BY <1>0 DEF UpdateInv, ServedInv
  <1> QED
    BY <1>1, <1>2, <1>3 DEF UpdateInv

LEMMA SameShownCopy ==
    ASSUME TypeOK, KeepsShown, NEW c \in Clients, NEW f \in Files, Cached(c, f),
           Worked(c, f) \/ CopyShown(c, f), Copy(c, f)' = Copy(c, f),
           Worked(c, f) => Worked(c, f)'
    PROVE  Worked(c, f)' \/ CopyShown(c, f)'
  BY CopyStillShown

\* ... and what is said of its own.
LEMMA StoreHandlerKeepsUpdate ==
    ASSUME TypeOK, TypeOK', TimesInv, NEW w \in Procs, UpdateInv(w),
           CallInv(w), CallMatches(w), KeepsShown, UNCHANGED clientVars, call' = call,
           StoreWrite(w) \/ StoreRename(w) \/ StoreStat(w) \/ StoreUnlink(w) \/ StoreAbort(w)
    PROVE  UpdateInv(w)'
  <1> USE DEF Serving, Answer
  <1>0. /\ file[w] \in Files /\ C(w)' = C(w) /\ sver \in Nat
        /\ UNCHANGED <<path, disk, pc, op, file, auth, base>>
        /\ hpc \in [Procs -> {"none", "call", "tmp", "renamed", "statfail", "done", "failed"}]
        /\ sfile \in [Files -> FileRec] /\ reply \in [Procs -> ReplyRec]
        /\ call[w].kind = "Store" /\ call[w].file = file[w] /\ hpc[w] # "none"
    BY DEF TypeOK, ServerTypeOK, ClientTypeOK, C, clientVars, CallInv, StoreWrite, StoreRename,
           StoreStat, StoreUnlink, StoreAbort
  <1>1. /\ pc[w] \in {"store", "idle", "remove", "rename"}
        /\ pc[w] # "store" => hpc'[w] \in {"tmp", "renamed", "done", "statfail"}
    BY <1>0 DEF TypeOK, ClientTypeOK, PCs, UpdateInv, ServedInv, CallMatches, StoreWrite, StoreRename,
           StoreStat, StoreUnlink, StoreAbort
  <1>2. ASSUME hpc'[w] # "failed" PROVE ServedInv(w)'
    BY <1>0, <1>1, <1>2 DEF UpdateInv, ServedInv, Cached, Copy
  <1>3. CASE StoreWrite(w)
    <2>1. hpc'[w] = "tmp" /\ hpc[w] = "call" /\ sfile' = sfile
      BY <1>0, <1>3 DEF StoreWrite
    <2> QED
      BY <1>0, <1>1, <1>2, <2>1 DEF UpdateInv, ShownInv, OwnsInv
  <1>4. CASE StoreRename(w)
    <2>1. /\ hpc'[w] = "renamed" /\ sfile'[file[w]].data = call[w].data
          /\ sfile'[file[w]].ver = sver + 1
      BY <1>0, <1>4 DEF StoreRename
    <2> QED
      BY <1>0, <1>1, <1>2, <2>1 DEF UpdateInv, ShownInv, OwnsInv, Exists
  <1>5. CASE StoreStat(w) /\ hpc'[w] = "statfail"
    BY <1>0, <1>1, <1>2, <1>5 DEF UpdateInv, ShownInv, OwnsInv
  <1>6. CASE StoreStat(w) /\ hpc'[w] # "statfail"
    <2>1. Exists(file[w]) /\ sfile[file[w]].data = call[w].data
      BY <1>6 DEF StoreStat, UpdateInv, OwnsInv
    <2>2. hpc'[w] = "done" /\ reply'[w].mtime = sfile[file[w]].mtime /\ sfile' = sfile
      BY <1>0, <1>6, <2>1 DEF StoreStat
    <2>3. Shows(file[w], call[w].data, sfile[file[w]].mtime)
      <3>1. Recorded(file[w], sfile[file[w]].ver, sfile[file[w]].mtime) /\ sfile[file[w]].mtime \in Int
        BY <1>0 DEF TimesInv, FileInv, FileRec
      <3> QED
        BY <1>0, <2>1, <3>1, ServerShows
    <2>4. call[w].data \in Nat /\ sfile[file[w]].mtime \in Int
      BY <1>0 DEF TypeOK, ServerTypeOK, RequestRec, FileRec
    <2>5. StoreShown(w)'
      BY <1>0, <2>2, <2>3, <2>4 DEF StoreShown, KeepsShown, Shows, Storing, Exists
    <2> QED
      BY <1>0, <1>1, <1>2, <2>2, <2>5 DEF UpdateInv, ShownInv, OwnsInv
  <1>7. CASE StoreUnlink(w) \/ StoreAbort(w)
    <2>1. hpc'[w] = "done" /\ reply'[w].mtime = 0
      BY <1>0, <1>7 DEF StoreUnlink, StoreAbort, Bare
    <2>2. Shows(file[w], call[w].data, 0)
      BY <1>0, ZeroShows
    <2>3. call[w].data \in Nat
      BY DEF TypeOK, ServerTypeOK, RequestRec
    <2>4. StoreShown(w)'
      BY <1>0, <2>1, <2>2, <2>3 DEF StoreShown, KeepsShown, Shows, Storing, Exists
    <2> QED
      BY <1>0, <1>1, <1>2, <2>1, <2>4 DEF UpdateInv, ShownInv, OwnsInv
  <1> QED
    BY <1>3, <1>4, <1>5, <1>6, <1>7

LEMMA HandlerKeepsUpdate ==
    ASSUME TypeOK, TypeOK', TakingTurns, TimesInv, NEW w \in Procs, UpdateInv(w),
           TurnInv(w), CallMatches(w), KeepsShown, UNCHANGED clientVars, call' = call,
           HandlerStep(w) \/ HandlerFault(w)
    PROVE  UpdateInv(w)'
  <1> USE DEF Serving, Answer
  <1>0. /\ file[w] \in Files /\ C(w)' = C(w) /\ sver \in Nat /\ pc[w] \in PCs
        /\ UNCHANGED <<path, disk, pc, op, file, auth, base>>
        /\ hpc \in [Procs -> {"none", "call", "tmp", "renamed", "statfail", "done", "failed"}]
        /\ sfile \in [Files -> FileRec] /\ sfile' \in [Files -> FileRec]
        /\ reply \in [Procs -> ReplyRec] /\ auth[w].mtime \in Int
        /\ hpc[w] # "none" => call[w].file = file[w] /\ call[w].kind # "Rename"
        /\ CallInv(w)
    BY DEF TypeOK, ServerTypeOK, ClientTypeOK, C, clientVars, TurnInv, CallInv, AuthRec
  <1>1. /\ pc[w] \in {"check", "stamp", "open", "session", "sread"} => hpc[w] = "none"
        /\ pc[w] = "auth" => call[w].kind = "TestAuth"
        /\ pc[w] = "fetch" => call[w].kind = "Fetch"
        /\ pc[w] = "create" => call[w].kind = "Create"
        /\ pc[w] = "store" => call[w].kind = "Store"
    BY DEF UpdateInv, ServedInv, TurnInv, CallInv, CallMatches
  <1>2. ASSUME hpc'[w] # "failed", hpc[w] # "none" PROVE ServedInv(w)'
    BY <1>0, <1>1, <1>2 DEF UpdateInv, ServedInv, Cached, Copy
  <1>3. CASE TestAuth(w)
    <2>1. /\ hpc[w] # "none" /\ hpc'[w] = "done" /\ sfile' = sfile /\ call[w].kind = "TestAuth"
          /\ reply'[w].st = Found(file[w]) /\ reply'[w].mtime = sfile[file[w]].mtime
      BY <1>0, <1>3 DEF TestAuth, Report
    <2>2. pc[w] \in {"auth", "idle", "remove", "rename"}
      BY <1>0, <1>1, <2>1 DEF PCs
    <2> QED
      BY <1>0, <1>2, <2>1, <2>2 DEF UpdateInv, ShownInv, OwnsInv, Found, Exists
  <1>4. CASE Fetch(w)
    <2>1. /\ hpc[w] = "call" /\ hpc'[w] = "done" /\ sfile' = sfile /\ call[w].kind = "Fetch"
          /\ reply'[w].st = Found(file[w]) /\ reply'[w].data = sfile[file[w]].data
      BY <1>0, <1>4 DEF Fetch, Report
    <2>2. pc[w] \in {"fetch", "idle", "remove", "rename"}
      BY <1>0, <1>1, <2>1 DEF PCs
    <2>3. ASSUME pc[w] = "fetch" PROVE FetchShown(w)'
      <3>1. AuthRecorded(w)
        BY <2>3 DEF TurnInv, CheckInv
      <3>2. Shows(file[w], sfile[file[w]].data, auth[w].mtime)
        BY <1>0, <3>1, ServerShows DEF AuthRecorded
      <3>3. sfile[file[w]].data \in Nat
        BY <1>0 DEF FileRec
      <3> QED
        BY <1>0, <2>1, <3>2, <3>3 DEF FetchShown, KeepsShown, Shows, Storing, Exists
    <2> QED
      BY <1>0, <1>2, <2>1, <2>2, <2>3 DEF UpdateInv, ShownInv, OwnsInv, Found, Exists
  <1>5. CASE Create(w)
    <2>1. /\ hpc[w] # "none" /\ hpc'[w] = "done" /\ call[w].kind = "Create" /\ sfile'[file[w]].data = 0
      BY <1>0, <1>5 DEF Create
    <2>2. pc[w] \in {"create", "idle", "remove", "rename"}
      BY <1>0, <1>1, <2>1 DEF PCs
    <2> QED
      BY <1>0, <1>2, <2>1, <2>2 DEF UpdateInv, ShownInv, OwnsInv
  <1>6. CASE Remove(w)
    <2>1. /\ hpc[w] # "none" /\ hpc'[w] = "done" /\ call[w].kind = "Remove"
      BY <1>0, <1>6 DEF Remove
    <2>2. pc[w] \in {"idle", "remove", "rename"}
      BY <1>0, <1>1, <2>1 DEF PCs
    <2> QED
      BY <1>0, <1>2, <2>1, <2>2 DEF UpdateInv, ShownInv, OwnsInv
  <1>7. CASE StoreWrite(w) \/ StoreRename(w) \/ StoreStat(w) \/ StoreUnlink(w) \/ StoreAbort(w)
    BY <1>0, <1>7, StoreHandlerKeepsUpdate
  <1>9. CASE HandlerError(w)
    <2>1. /\ hpc[w] # "none" /\ hpc'[w] = "done" /\ sfile' = sfile /\ call[w].kind # "Store"
          /\ reply'[w].st = "EIO"
      BY <1>0, <1>9 DEF HandlerError, Bare
    <2>2. pc[w] \in {"auth", "fetch", "create", "idle", "remove", "rename"}
      BY <1>0, <1>1, <2>1 DEF PCs
    <2>3. ShownInv(w)'
      BY <1>0, <2>1, <2>2 DEF ShownInv
    <2>4. OwnsInv(w)'
      BY <1>0, <2>1, <2>2 DEF UpdateInv, OwnsInv, Exists
    <2> QED
      BY <1>2, <2>1, <2>3, <2>4 DEF UpdateInv
  <1>8. ~Rename(w)
    BY <1>0 DEF Rename
  <1> QED
    BY <1>3, <1>4, <1>5, <1>6, <1>7, <1>8, <1>9 DEF HandlerStep, HandlerFault

-----------------------------------------------------------------------------
(* A step of p keeps what is said of p.                                    *)

LEMMA StartKeepsUpdate ==
    ASSUME TypeOK, Updating, up, NEW p \in Procs, StartOp(p)
    PROVE  UpdateInv(p)'
  <1>0. /\ pc'[p] \in {"auth", "remove"} /\ hpc'[p] = "call"
        /\ op'[p] \notin {"creat", "truncate"}
    <2> USE DEF Begin, Goto, Issue, TypeOK, ServerTypeOK, ClientTypeOK, Updating, TakingTurns
    <2>1. CASE \E f \in Files, o \in {"stat", "read", "write"} : StartFetch(p, o, f)
      BY <2>1 DEF StartFetch
    <2>2. CASE \E f \in Files : StartLookup(p, f)
      BY <2>2 DEF StartLookup
    <2>3. CASE \E f \in Files : StartTruncate(p, f)
      BY <2>3 DEF StartTruncate
    <2>4. CASE \E f \in Files : StartUnlink(p, f)
      BY <2>4 DEF StartUnlink
    <2>5. CASE \E f, g \in Files : StartRename(p, f, g)
      BY <2>5 DEF StartRename
    <2> QED
      BY <2>1, <2>2, <2>3, <2>4, <2>5 DEF StartOp
  <1> QED
    BY <1>0 DEF UpdateInv, ShownInv, OwnsInv, ServedInv

\* An operation that ends, or goes on with a Create.
LEMMA NothingToKeep ==
    ASSUME NEW p \in Procs, hpc'[p] \in {"none", "call"}, op'[p] # "truncate",
           \/ pc'[p] \in {"idle", "remove"}
           \/ pc'[p] = "create" /\ call'[p].kind = "Create" /\ hpc'[p] = "call"
    PROVE  UpdateInv(p)'
  BY DEF UpdateInv, ShownInv, OwnsInv, ServedInv

LEMMA FailedFetch ==
    ASSUME TypeOK, up, NEW p \in Procs, op[p] # "truncate", NEW st, FetchFails(p, st)
    PROVE  UpdateInv(p)'
  <1>1. /\ pc \in [Procs -> PCs] /\ op \in [Procs -> AllOps] /\ call \in [Procs -> RequestRec]
        /\ hpc \in [Procs -> {"none", "call", "tmp", "renamed", "statfail", "done", "failed"}]
    BY DEF TypeOK, ServerTypeOK, ClientTypeOK
  <1>2. /\ hpc'[p] \in {"none", "call"} /\ op'[p] # "truncate"
        /\ \/ pc'[p] = "idle"
           \/ pc'[p] = "create" /\ call'[p].kind = "Create" /\ hpc'[p] = "call"
    BY <1>1 DEF FetchFails, Creat, Issue, Release, Goto, Request
  <1> QED
    BY <1>2, NothingToKeep

\* What was received replaces the copy.
LEMMA ReceivedShown ==
    ASSUME TypeOK, KeepsShown, NEW p \in Procs, FetchShown(p), file'[p] = file[p],
           auth'[p] = auth[p], Copy(C(p), file[p])'.data = reply[p].data
    PROVE  StampShown(p)'
  <1>1. file[p] \in Files /\ reply[p].data \in Nat /\ auth[p].mtime \in Int
    BY DEF TypeOK, ServerTypeOK, ClientTypeOK, ReplyRec, AuthRec
  <1> QED
    BY <1>1 DEF FetchShown, StampShown, KeepsShown, Shows, Storing, Exists

LEMMA FetchStepKeepsUpdate ==
    ASSUME TypeOK, TypeOK', SerialClients, up, NEW p \in Procs, UpdateInv(p), TurnInv(p),
           CallMatches(p), KeepsShown, ShownCopies, CallFrame(p), file'[p] = file[p],
           CreateReply(p) \/ AuthReply(p) \/ CheckCache(p) \/ FetchReply(p) \/ Stamp(p)
    PROVE  UpdateInv(p)'
  <1> USE DEF Goto, Release
  <1> DEFINE c == C(p)
             f == file[p]
  <1>0. /\ f \in Files /\ c \in Clients /\ C(p)' = c /\ sfile' = sfile /\ reply' = reply
        /\ pc \in [Procs -> PCs] /\ op \in [Procs -> AllOps]
        /\ call \in [Procs -> RequestRec] /\ auth \in [Procs -> AuthRec]
        /\ hpc \in [Procs -> {"none", "call", "tmp", "renamed", "statfail", "done", "failed"}]
        /\ path \in [Clients -> [Files -> Inodes \cup {NoInode}]]
        /\ disk \in [Clients -> [Inodes -> InodeRec]]
        /\ sfile \in [Files -> FileRec] /\ reply[p] \in ReplyRec
        /\ \A q \in Procs : C(q) = c => q = p
        /\ op[p] # "truncate" /\ hpc[p] # "failed"
    BY ClientOfType DEF TypeOK, ServerTypeOK, ClientTypeOK, C, CallFrame, SerialClients, UpdateInv, ServedInv
  <1>1. CASE CreateReply(p)
    <2>1. CASE reply[p].st = "ok"
      <3>1. pc'[p] = "auth" /\ hpc'[p] = "call" /\ op' = op /\ pc[p] = "create" /\ hpc[p] = "done"
        BY <1>0, <1>1, <2>1 DEF CreateReply, Answered, Issue
      <3> QED
        BY <1>0, <2>1, <3>1 DEF UpdateInv, ShownInv, OwnsInv, ServedInv
    <2>2. CASE reply[p].st # "ok"
      <3>1. pc'[p] = "idle" /\ hpc'[p] = "none" /\ op' = op
        BY <1>0, <1>1, <2>2 DEF CreateReply, Answered
      <3> QED
        BY <1>0, <3>1, NothingToKeep
    <2> QED
      BY <2>1, <2>2
  <1>2. CASE AuthReply(p)
    <2>1. pc[p] = "auth" /\ hpc[p] = "done" /\ auth' = [auth EXCEPT ![p] = AuthData(p)]
      BY <1>0, <1>2 DEF AuthReply, Answered
    <2>2. AuthData(p).st = reply[p].st /\ AuthData(p).mtime = reply[p].mtime
      BY <2>1 DEF AuthData
    <2>3. CASE reply[p].st # "ok"
      BY <1>0, <1>2, <2>2, <2>3, FailedFetch DEF AuthReply
    <2>4. CASE reply[p].st = "ok"
      <3>1. /\ pc'[p] = "check" /\ hpc'[p] = "none" /\ op' = op /\ auth'[p].mtime = reply[p].mtime
        BY <1>0, <1>2, <2>1, <2>2, <2>4 DEF AuthReply
      <3>2. op[p] \in ModOps => Exists(f) /\ reply[p].mtime = sfile[f].mtime
        BY <2>1, <2>4 DEF UpdateInv, OwnsInv, Found
      <3> QED
        BY <1>0, <2>1, <3>1, <3>2 DEF UpdateInv, ShownInv, OwnsInv, ServedInv, Exists
    <2> QED
      BY <2>3, <2>4
  <1>3. CASE CheckCache(p)
    <2>0. pc[p] = "check" /\ op' = op /\ auth' = auth /\ path' = path /\ disk' = disk
      BY <1>3 DEF CheckCache
    <2>1. CASE pc'[p] = "open"
      <3>1. hpc' = hpc /\ hpc[p] = "none"
        BY <1>0, <1>3, <2>1 DEF CheckCache, UpdateInv, ServedInv
      <3>2. ASSUME op[p] \in ModOps, Cached(c, f) PROVE Copy(c, f).data = sfile[f].data
        <4>1. auth[p].mtime <= Copy(c, f).mtime
          BY <1>0, <1>3, <2>0, <2>1, <3>2 DEF CheckCache, Fresh
        <4>2. Exists(f) /\ auth[p].mtime = sfile[f].mtime
          BY <2>0, <3>2 DEF UpdateInv, OwnsInv
        <4>3. CopyShown(c, f)
          BY <1>0, <2>0, <3>2 DEF ShownCopies, Worked, Modifying
        <4>4. Copy(c, f).mtime \in Int /\ sfile[f].mtime \in Int
          BY <1>0, <3>2, CopyType DEF TypeOK, InodeRec, FileRec
        <4> QED
          BY <4>1, <4>2, <4>3, <4>4 DEF CopyShown, Shows
      <3> QED
        BY <1>0, <2>0, <2>1, <3>1, <3>2
           DEF UpdateInv, ShownInv, OwnsInv, ServedInv, Cached, Copy
    <2>2. CASE pc'[p] # "open"
      <3>1. pc'[p] = "fetch" /\ hpc'[p] = "call"
        BY <1>0, <1>3, <2>2 DEF CheckCache, Issue
      <3> QED
        BY <1>0, <2>0, <3>1 DEF UpdateInv, ShownInv, OwnsInv, ServedInv, Exists
    <2> QED
      BY <2>1, <2>2
  <1>4. CASE FetchReply(p)
    <2>0. pc[p] = "fetch" /\ hpc[p] = "done" /\ auth' = auth
      BY <1>0, <1>4 DEF FetchReply, Answered
    <2>1. CASE reply[p].st # "ok"
      BY <1>0, <1>4, <2>0, <2>1, FailedFetch DEF FetchReply
    <2>2. CASE reply[p].st = "ok"
      <3> DEFINE r == [data |-> reply[p].data, mtime |-> Local(c, clock),
                       ver |-> reply[p].ver, stamp |-> 0, by |-> "clock"]
      <3>1. /\ pc'[p] = "stamp" /\ hpc'[p] = "none" /\ op' = op
            /\ \E i \in FreeInodes(c) : /\ disk' = [disk EXCEPT ![c][i] = r]
                                        /\ path' = [path EXCEPT ![c][f] = i]
        BY <1>0, <1>4, <2>0, <2>2 DEF FetchReply
      <3>2. r.data = reply[p].data
        OBVIOUS
      <3> HIDE DEF r
      <3>3. Copy(c, f)' = r
        BY <1>0, <3>1 DEF Copy, FreeInodes
      <3>4. FetchShown(p)
        BY <2>0, <2>2 DEF UpdateInv, ShownInv
      <3>5. StampShown(p)'
        BY <1>0, <2>0, <3>2, <3>3, <3>4, ReceivedShown
      <3> QED
        BY <1>0, <2>0, <2>2, <3>1, <3>2, <3>3, <3>5 DEF UpdateInv, ShownInv, OwnsInv, ServedInv, Exists
    <2> QED
      BY <2>1, <2>2
  <1>5. CASE Stamp(p)
    <2>1. CASE ~Cached(c, f)
      BY <1>0, <1>5, <2>1, FailedFetch DEF Stamp
    <2>2. CASE Cached(c, f)
      <3> DEFINE copy == Copy(c, f)
                 r == [copy EXCEPT !.mtime = auth[p].mtime, !.stamp = auth[p].ver, !.by = "fetch"]
      <3>1. /\ disk' = [disk EXCEPT ![c][path[c][f]] = r] /\ path' = path /\ pc'[p] = "open"
            /\ pc[p] = "stamp" /\ hpc' = hpc /\ op' = op
        BY <1>0, <1>5, <2>2 DEF Stamp, Copy
      <3>2. r.data = copy.data /\ path[c][f] \in Inodes
        BY <1>0, <2>2, CopyType DEF TypeOK, InodeRec
      <3> HIDE DEF r
      <3>3. Copy(c, f)' = r /\ Cached(c, f)'
        BY <1>0, <2>2, <3>1, <3>2 DEF Copy, Cached
      <3>4. hpc[p] = "none"
        BY <3>1 DEF UpdateInv, ServedInv
      <3> QED
        BY <1>0, <2>2, <3>1, <3>2, <3>3, <3>4 DEF UpdateInv, ShownInv, OwnsInv, ServedInv
    <2> QED
      BY <2>1, <2>2
  <1> QED
    BY <1>1, <1>2, <1>3, <1>4, <1>5

LEMMA SessionStepKeepsUpdate ==
    ASSUME TypeOK, TypeOK', up, NEW p \in Procs, UpdateInv(p), CallFrame(p), file'[p] = file[p],
           \/ OpenLocal(p) \/ Write(p) \/ Close(p) \/ StoreRead(p) \/ StoreReply(p)
           \/ RemoveReply(p) \/ Discard(p)
    PROVE  UpdateInv(p)'
  <1> USE DEF Goto, Release
  <1> DEFINE c == C(p)
             f == file[p]
  <1>0. /\ f \in Files /\ C(p)' = c /\ sfile' = sfile /\ reply' = reply
        /\ pc \in [Procs -> PCs] /\ op \in [Procs -> AllOps]
        /\ call \in [Procs -> RequestRec] /\ base \in [Procs -> Nat] /\ dirty \in [Procs -> BOOLEAN]
        /\ hpc \in [Procs -> {"none", "call", "tmp", "renamed", "statfail", "done", "failed"}]
        /\ op[p] # "truncate" /\ hpc[p] # "failed"
    BY DEF TypeOK, ServerTypeOK, ClientTypeOK, C, CallFrame, UpdateInv, ServedInv
  <1>1. CASE OpenLocal(p)
    <2>0. pc[p] = "open" /\ hpc[p] = "none"
      BY <1>1 DEF OpenLocal, UpdateInv, ServedInv
    <2>1. CASE pc'[p] = "session"
      <3>1. hpc' = hpc /\ op' = op
        BY <1>0, <1>1, <2>1 DEF OpenLocal, Creat
      <3>2. \/ Cached(c, f) /\ base'[p] = Copy(c, f).data
            \/ op[p] = "creat" /\ base'[p] = 0
        BY <1>0, <1>1, <2>1 DEF OpenLocal, Creat
      <3>3. op[p] \in ModOps => base'[p] = sfile[f].data
        BY <2>0, <3>2 DEF UpdateInv, OwnsInv
      <3> QED
        BY <1>0, <2>0, <2>1, <3>1, <3>3 DEF UpdateInv, ShownInv, OwnsInv, ServedInv
    <2>2. CASE pc'[p] = "create"
      <3>1. call'[p].kind = "Create" /\ hpc'[p] = "call" /\ op'[p] # "truncate"
        BY <1>0, <1>1, <2>2 DEF OpenLocal, Creat, Issue, Request
      <3> QED
        BY <2>2, <3>1, NothingToKeep
    <2>3. CASE pc'[p] \notin {"session", "create"}
      <3>1. pc'[p] = "idle" /\ hpc' = hpc /\ op' = op
        BY <1>0, <1>1, <2>3 DEF OpenLocal, Creat
      <3> QED
        BY <1>0, <2>0, <3>1, NothingToKeep
    <2> QED
      BY <2>1, <2>2, <2>3
  <1>2. CASE Write(p)
    <2>1. pc[p] = "session" /\ UNCHANGED <<pc, op, hpc, base>>
      BY <1>2 DEF Write
    <2>2. hpc[p] = "none"
      BY <2>1 DEF UpdateInv, ServedInv
    <2> QED
      BY <1>0, <2>1, <2>2 DEF UpdateInv, ShownInv, OwnsInv, ServedInv
  <1>3. CASE Close(p)
    <2>1. pc[p] = "session" /\ pc'[p] \in {"sread", "idle"} /\ UNCHANGED <<op, hpc, base>>
      BY <1>0, <1>3 DEF Close, serverVars
    <2>2. hpc[p] = "none"
      BY <2>1 DEF UpdateInv, ServedInv
    <2> QED
      BY <1>0, <2>1, <2>2 DEF UpdateInv, ShownInv, OwnsInv, ServedInv
  <1>4. CASE StoreRead(p)
    <2>0. pc[p] = "sread" /\ UNCHANGED <<op, base, path, disk>> /\ hpc[p] = "none"
      BY <1>4 DEF StoreRead, UpdateInv, ServedInv
    <2>1. CASE Cached(c, f)
      <3>1. pc'[p] = "store" /\ hpc'[p] = "call" /\ call'[p].data = Copy(c, f).data
        BY <1>0, <1>4, <2>1 DEF StoreRead, Issue, Request
      <3> QED
        BY <1>0, <2>0, <3>1 DEF UpdateInv, ShownInv, OwnsInv, ServedInv, Cached, Copy
    <2>2. CASE ~Cached(c, f)
      <3>1. pc'[p] = "idle" /\ hpc' = hpc
        BY <1>0, <1>4, <2>2 DEF StoreRead
      <3> QED
        BY <1>0, <2>0, <3>1, NothingToKeep
    <2> QED
      BY <2>1, <2>2
  <1>5. CASE StoreReply(p) \/ RemoveReply(p)
    <2>1. pc'[p] = "idle" /\ hpc'[p] = "none" /\ op' = op
      BY <1>0, <1>5 DEF StoreReply, RemoveReply
    <2> QED
      BY <1>0, <2>1, NothingToKeep
  <1>6. CASE Discard(p)
    <2>1. pc'[p] = "idle" /\ hpc'[p] = "none" /\ op' = op
      BY <1>0, <1>6 DEF Discard, clientVars
    <2> QED
      BY <1>0, <2>1, NothingToKeep
  <1> QED
    BY <1>1, <1>2, <1>3, <1>4, <1>5, <1>6

-----------------------------------------------------------------------------
(* ... and what is said of the copies.                                     *)

\* A copy stops being worked on when it is stamped, after a fetch or after a store.
LEMMA StillWorking ==
    ASSUME TypeOK, NEW p \in Procs, ServedInv(p), Modifying(p), Cached(C(p), file[p]),
           ProcStep(p) \/ Write(p) \/ Discard(p), ~StoreReply(p)
    PROVE  Modifying(p)'
  <1> USE DEF Modifying, Goto
  <1>0. /\ pc \in [Procs -> PCs] /\ dirty \in [Procs -> BOOLEAN]
        /\ pc[p] \in {"session", "sread", "store"} /\ (pc[p] = "session" => dirty[p])
    BY DEF TypeOK, ClientTypeOK
  <1>1. Write(p) \/ Close(p) \/ StoreRead(p)
    BY <1>0 DEF ProcStep, CreateReply, AuthReply, CheckCache, FetchReply, Stamp, OpenLocal,
                RemoveReply, RenameReply, Discard
  <1>2. CASE Write(p)
    BY <1>0, <1>2 DEF Write
  <1>3. CASE Close(p)
    BY <1>0, <1>3 DEF Close
  <1>4. CASE StoreRead(p)
    BY <1>0, <1>4 DEF StoreRead
  <1> QED
    BY <1>1, <1>2, <1>3, <1>4

LEMMA StepShowsOwnCopy ==
    ASSUME TypeOK, TypeOK', Updating, OneModifier, \A q \in Procs : CallInv(q), KeepsShown,
           NEW p \in Procs, SessionInv(p), UpdateInv(p), CallFrame(p), CallStep(p),
           ProcStep(p) \/ Write(p) \/ Discard(p), pc[p] # "rename", file'[p] = file[p],
           NEW c \in Clients, NEW f \in Files, C(p) = c, file[p] = f,
           Cached(c, f) => Worked(c, f) \/ CopyShown(c, f), Cached(c, f)'
    PROVE  Worked(c, f)' \/ CopyShown(c, f)'
  <1> USE DEF Goto
  <1>0. /\ C(p)' = c /\ sfile' = sfile
        /\ pc \in [Procs -> PCs] /\ reply \in [Procs -> ReplyRec] /\ auth \in [Procs -> AuthRec]
        /\ call \in [Procs -> RequestRec] /\ dirty \in [Procs -> BOOLEAN]
        /\ path \in [Clients -> [Files -> Inodes \cup {NoInode}]]
        /\ disk \in [Clients -> [Inodes -> InodeRec]]
        /\ \A q \in Procs : C(q) = c => q = p
        /\ Cached(c, f) => path[c][f] \in Inodes /\ Copy(c, f) \in InodeRec
        /\ ServedInv(p) /\ hpc[p] # "failed"
    BY CopyType DEF TypeOK, ServerTypeOK, ClientTypeOK, SerialClients, C, Updating, TakingTurns,
                    CallFrame, UpdateInv, ServedInv
  <1>1. ASSUME pc'[p] = "stamp" \/ Modifying(p)' PROVE Worked(c, f)'
    BY <1>0, <1>1 DEF Worked, Modifying
  <1>2. CASE path'[c][f] = path[c][f] /\ disk'[c] = disk[c] /\ ~Stamp(p) /\ ~StoreReply(p) /\ ~Write(p)
    <2>1. Cached(c, f) /\ Copy(c, f)' = Copy(c, f)
      BY <1>2 DEF Cached, Copy
    <2>2. CASE Worked(c, f)
      <3>1. pc[p] # "stamp"
        BY <1>2, StillModifying
      <3>2. Modifying(p)
        BY <1>0, <2>2, <3>1 DEF Worked
      <3>3. Modifying(p)'
        BY <1>0, <1>2, <2>1, <3>2, StillWorking
      <3> QED
        BY <1>1, <3>3
    <2>3. CASE CopyShown(c, f)
      BY <2>1, <2>3, CopyStillShown
    <2> QED
      BY <2>1, <2>2, <2>3
  <1>3. CASE FetchReply(p) /\ ~(path' = path /\ disk' = disk)
    BY <1>0, <1>1, <1>3 DEF FetchReply
  <1>4. CASE Stamp(p)
    <2>0. CASE ~Cached(c, f)
      BY <1>0, <1>4, <2>0 DEF Stamp, Cached
    <2>1. CASE Cached(c, f)
      <3> DEFINE copy == Copy(c, f)
                 r == [copy EXCEPT !.mtime = auth[p].mtime, !.stamp = auth[p].ver, !.by = "fetch"]
      <3>1. /\ disk' = [disk EXCEPT ![c][path[c][f]] = r] /\ path' = path /\ pc[p] = "stamp"
        BY <1>0, <1>4, <2>1 DEF Stamp, Copy
      <3>2. r.data = copy.data /\ r.mtime = auth[p].mtime
        BY <1>0, <2>1 DEF InodeRec
      <3> HIDE DEF r
      <3>3. Copy(c, f)' = r
        BY <1>0, <2>1, <3>1 DEF Copy
      <3>4. Shows(f, copy.data, auth[p].mtime) /\ copy.data \in Nat /\ auth[p].mtime \in Int
        BY <1>0, <2>1, <3>1 DEF UpdateInv, ShownInv, StampShown, InodeRec, AuthRec
      <3> QED
        BY <3>2, <3>3, <3>4 DEF CopyShown, KeepsShown, Shows, Storing, Exists
    <2> QED
      BY <2>0, <2>1
  <1>5. CASE OpenLocal(p) /\ ~(path' = path /\ disk' = disk)
    <2>1. PICK i \in FreeInodes(c), t \in Stamps :
            /\ disk' = [disk EXCEPT ![c][i] = Written(0, Local(c, t))]
            /\ path' = [path EXCEPT ![c][f] = i]
            /\ clock' = t /\ op[p] = "creat" /\ pc[p] = "open"
      BY <1>0, <1>5 DEF OpenLocal
    <2>2. Copy(c, f)' = Written(0, Local(c, t))
      BY <1>0, <2>1 DEF Copy, FreeInodes
    <2>3. Copy(c, f)'.data = 0 /\ Copy(c, f)'.mtime = t + Skew[c]
      BY <2>2 DEF Written, Local
    <2>4. t \in Nat /\ t + Skew[c] <= clock'
      BY <2>1, LaterStamp, SkewAssumption DEF Updating
    <2>5. sfile'[f].data = 0 /\ hpc[p] = "none"
      BY <1>0, <2>1 DEF UpdateInv, OwnsInv, ServedInv
    <2>6. \A w \in Procs : ~Storing(w, f)'
      <3>1. \A w \in Procs : Storing(w, f) => w = p
        <4>1. Occupies(p, f)
          BY <2>1 DEF Occupies, Quiet, ModOps
        <4>2. \A w \in Procs : Storing(w, f) => Occupies(w, f)
          BY DEF Storing, CallInv, Occupies, Quiet
        <4> QED
          BY <4>1, <4>2 DEF OneModifier
      <3>2. \A w \in Procs : Storing(w, f)' => Storing(w, f)
        BY DEF Storing, CallFrame, CallStep
      <3> QED
        BY <2>5, <3>1, <3>2 DEF Storing
    <2>7. CopyShown(c, f)'
      BY <2>3, <2>4, <2>5, <2>6 DEF CopyShown, Shows, Storing, Exists
    <2> QED
      BY <2>7
  <1>6. CASE Write(p)
    BY <1>0, <1>1, <1>6 DEF Write, Modifying
  <1>7. CASE StoreReply(p)
    <2> DEFINE r == Stored(p, Copy(c, f))
    <2>1. /\ Cached(c, f) /\ disk' = [disk EXCEPT ![c][path[c][f]] = r] /\ path' = path
          /\ pc[p] = "store" /\ hpc[p] = "done"
      BY <1>0, <1>7 DEF StoreReply, Copy, Cached, Answered
    <2>2. r.data = call[p].data /\ r.mtime = reply[p].mtime
      BY <1>0, <2>1 DEF InodeRec, Stored, ServedInv
    <2> HIDE DEF r
    <2>3. Copy(c, f)' = r
      BY <1>0, <2>1 DEF Copy
    <2>4. Shows(f, call[p].data, reply[p].mtime) /\ call[p].data \in Nat /\ reply[p].mtime \in Int
      BY <1>0, <2>1 DEF UpdateInv, ShownInv, StoreShown, RequestRec, ReplyRec
    <2> QED
      BY <2>2, <2>3, <2>4 DEF CopyShown, KeepsShown, Shows, Storing, Exists
  <1>8. CASE RemoveReply(p)
    <2>1. path'[c][f] = path[c][f] /\ disk' = disk
      BY <1>0, <1>8 DEF RemoveReply, Cached
    <2>2. ~Stamp(p) /\ ~StoreReply(p) /\ ~Write(p)
      BY <1>8 DEF RemoveReply, Stamp, StoreReply, Write
    <2> QED
      BY <1>2, <2>1, <2>2
  <1>9. CASE path' = path /\ disk' = disk /\ (OpenLocal(p) \/ FetchReply(p))
    <2>1. ~Stamp(p) /\ ~StoreReply(p) /\ ~Write(p)
      BY <1>9 DEF OpenLocal, FetchReply, Stamp, StoreReply, Write
    <2> QED
      BY <1>2, <1>9, <2>1
  <1>10. CASE CreateReply(p) \/ AuthReply(p) \/ CheckCache(p) \/ Close(p) \/ StoreRead(p) \/ Discard(p)
    <2>1. path' = path /\ disk' = disk
      BY <1>10 DEF CreateReply, AuthReply, CheckCache, Close, StoreRead, Discard, clientVars
    <2> QED
      BY <1>2, <1>4, <1>6, <1>7, <2>1
  <1> QED
    BY <1>3, <1>4, <1>5, <1>6, <1>7, <1>8, <1>9, <1>10 DEF ProcStep, RenameReply

-----------------------------------------------------------------------------
(* Every step keeps the invariant.                                         *)

LEMMA ProcKeepsUp ==
    ASSUME NEW p \in Procs, StartOp(p) \/ ProcStep(p) \/ Write(p) \/ Discard(p)
    PROVE  UNCHANGED <<up, crashes>>
  <1> USE DEF serverVars
  <1>1. CASE StartOp(p)
    BY <1>1 DEF StartOp, StartFetch, StartLookup, StartTruncate, StartUnlink, StartRename
  <1>2. CASE ~StartOp(p)
    BY <1>2 DEF ProcStep, CreateReply, AuthReply, CheckCache, FetchReply, Stamp, OpenLocal, Write,
                Close, StoreRead, StoreReply, RemoveReply, RenameReply, Discard
  <1> QED
    BY <1>1, <1>2

LEMMA HandlerKeepsUp ==
    ASSUME NEW w \in Procs, HandlerStep(w) \/ HandlerFault(w)
    PROVE  UNCHANGED <<up, crashes>>
  BY DEF HandlerStep, HandlerFault, TestAuth, Fetch, Create, Remove, Rename, StoreWrite, StoreRename,
         StoreStat, StoreUnlink, StoreAbort, HandlerError

LEMMA StartKeepsCaches ==
    ASSUME TypeOK, Updating, NEW p \in Procs, StartOp(p)
    PROVE  path' = path /\ disk' = disk
  <1>1. ~\E f \in Files : StartTruncate(p, f)
    BY DEF StartTruncate, Begin, Updating
  <1> QED
    BY <1>1 DEF StartOp, StartFetch, StartLookup, StartUnlink, StartRename

LEMMA ProcKeepsUpdates ==
    ASSUME Updating, UpdatesInv, TypeOK', NEW p \in Procs,
           StartOp(p) \/ ProcStep(p) \/ Write(p) \/ Discard(p)
    PROVE  /\ \A q \in Procs : UpdateInv(q)'
           /\ ShownCopies'
  <1> USE DEF UpdatesInv, TurnsInv, FetchInv, StableInv
  <1>0. /\ CallFrame(p) /\ CacheFrame(p) /\ OthersKeep(p) /\ CallStep(p)
        /\ clock <= clock' /\ stmp' = stmp /\ SerialClients /\ TakingTurns
        /\ C(p) \in Clients /\ TurnInv(p) /\ SessionInv(p) /\ CallMatches(p) /\ UpdateInv(p)
        /\ \A q \in Procs : CallInv(q)
        /\ \A q \in Procs : C(q)' = C(q) /\ C(q) \in Clients
        /\ file' \in [Procs -> Files]
    BY StartFrame, StepCallFrame, StepCacheFrame, StartOthersKeep, StepOthersKeep, StartClock,
       StepClock, StartCalls, StepCalls, ClientOfType
       DEF Frame, TurnInv, CloseInv, ProcInv, Updating, TakingTurns, C, TypeOK, ClientTypeOK
  <1>1. KeepsShown
    BY <1>0, ProcKeepsShown
  <1>2. ASSUME NEW q \in Procs PROVE UpdateInv(q)'
    <2>1. CASE q = p /\ StartOp(p)
      BY <2>1, StartKeepsUpdate
    <2>2. CASE q = p /\ ~StartOp(p)
      <3>1. file'[p] = file[p] /\ pc[p] # "rename"
        BY <1>0, <2>2, StepCalls DEF CallInv
      <3>2. \/ CreateReply(p) \/ AuthReply(p) \/ CheckCache(p) \/ FetchReply(p) \/ Stamp(p)
            \/ OpenLocal(p) \/ Write(p) \/ Close(p) \/ StoreRead(p) \/ StoreReply(p)
            \/ RemoveReply(p) \/ Discard(p)
        BY <2>2, <3>1 DEF ProcStep, RenameReply
      <3> QED
        BY <1>0, <1>1, <2>2, <3>1, <3>2, FetchStepKeepsUpdate, SessionStepKeepsUpdate
    <2>3. CASE q # p
      <3>1. path'[C(q)] = path[C(q)] /\ disk'[C(q)] = disk[C(q)]
        BY <1>0, <2>3 DEF SerialClients, CacheFrame, C
      <3>2. /\ sfile' = sfile /\ reply' = reply
            /\ pc'[q] = pc[q] /\ op'[q] = op[q] /\ file'[q] = file[q]
            /\ auth'[q] = auth[q] /\ base'[q] = base[q]
            /\ call'[q] = call[q] /\ hpc'[q] = hpc[q]
        BY <1>0, <2>3 DEF CallFrame, OthersKeep
      <3> QED
        BY <1>0, <1>1, <3>1, <3>2, UpdateBystander
    <2> QED
      BY <2>1, <2>2, <2>3
  <1>3. ASSUME NEW c \in Clients, NEW f \in Files, Cached(c, f)'
        PROVE  Worked(c, f)' \/ CopyShown(c, f)'
    <2>0. Cached(c, f) => Worked(c, f) \/ CopyShown(c, f)
      BY DEF ShownCopies
    <2>1. CASE c # C(p)
      <3>1. Cached(c, f) /\ Copy(c, f)' = Copy(c, f)
        BY <1>0, <1>3, <2>1 DEF CacheFrame, Cached, Copy
      <3>2. Worked(c, f) => Worked(c, f)'
        BY <1>0, <2>1 DEF OthersKeep, Worked, Modifying
      <3> QED
        BY <1>1, <2>0, <3>1, <3>2, SameShownCopy
    <2>2. CASE c = C(p) /\ f # file'[p] /\ ~StartOp(p)
      <3>1. OtherFiles(p)
        <4>1. ~\E g, h \in Files : StartRename(p, g, h)
          BY <1>0 DEF StartRename, Begin, TakingTurns
        <4> QED
          BY <1>0, <4>1, StepOtherFiles DEF CallInv
      <3>2. Cached(c, f) /\ Copy(c, f)' = Copy(c, f)
        BY <1>3, <2>2, <3>1 DEF OtherFiles, Cached, Copy
      <3>3. ~Worked(c, f)
        <4>1. file'[p] = file[p]
          BY <1>0, <2>2, StepCalls
        <4> QED
          BY <1>0, <2>2, <4>1 DEF Worked, SerialClients, C
      <3> QED
        BY <1>1, <2>0, <3>2, <3>3, SameShownCopy
    <2>3. CASE c = C(p) /\ StartOp(p)
      <3>1. path' = path /\ disk' = disk
        BY <2>3, StartKeepsCaches
      <3>2. Cached(c, f) /\ Copy(c, f)' = Copy(c, f)
        BY <1>3, <3>1 DEF Cached, Copy
      <3>3. ~Worked(c, f)
        <4>1. pc[p] = "idle"
          BY <1>0, <2>3, StartCalls
        <4> QED
          BY <1>0, <2>3, <4>1 DEF Worked, Modifying, SerialClients, C
      <3> QED
        BY <1>1, <2>0, <3>2, <3>3, SameShownCopy
    <2>4. CASE c = C(p) /\ f = file'[p] /\ ~StartOp(p)
      <3>1. pc[p] # "rename" /\ file'[p] = file[p]
        BY <1>0, <2>4, StepCalls DEF CallInv
      <3> QED
        BY <1>0, <1>1, <1>3, <2>0, <2>4, <3>1, StepShowsOwnCopy
    <2> QED
      BY <2>1, <2>2, <2>3, <2>4
  <1> QED
    BY <1>0, <1>2, <1>3 DEF ShownCopies

LEMMA HandlerKeepsUpdates ==
    ASSUME Updating, UpdatesInv, TypeOK', NEW w \in Procs,
           HandlerStep(w) \/ HandlerFault(w), UNCHANGED clientVars
    PROVE  /\ \A q \in Procs : UpdateInv(q)'
           /\ ShownCopies'
  <1> USE DEF UpdatesInv, TurnsInv, FetchInv, StableInv
  <1>0. /\ \A q \in Procs : CallInv(q) /\ TurnInv(q) /\ file[q] \in Files /\ C(q)' = C(q)
        /\ call' = call /\ hpc[w] # "none" /\ TakingTurns
        /\ \A q \in Procs \ {w} : hpc'[q] = hpc[q] /\ reply'[q] = reply[q]
        /\ UNCHANGED <<path, disk, pc, op, file, file2, auth, dirty, base>>
    BY HandlerFrame, HandlerEffect
       DEF Updating, TakingTurns, TurnInv, TypeOK, ClientTypeOK, C, clientVars
  <1>1. KeepsShown
    BY <1>0, HandlerKeepsShown
  <1>2. UpdateInv(w)'
    <2>1. CallMatches(w)
      BY DEF ProcInv
    <2> QED
      BY <1>0, <1>1, <2>1, HandlerKeepsUpdate
  <1>3. ASSUME NEW q \in Procs \ {w} PROVE UpdateInv(q)'
    <2>1. ASSUME op[q] \in ModOps, ~Quiet(q) PROVE sfile'[file[q]] = sfile[file[q]]
      <3>1. CASE sfile' = sfile
        BY <3>1
      <3>2. CASE sfile' # sfile
        <4>1. /\ call[w].kind \in {"Store", "Create", "Remove"}
              /\ Installs(w) \/ Removes(w)
          BY <1>0, <3>2, HandlerEffect
        <4>2. file[q] # file[w]
          BY <1>0, <2>1, <4>1, HandlersTurn DEF Occupies
        <4> QED
          BY <1>0, <4>1, <4>2 DEF Installs, Removes, TypeOK, ServerTypeOK
      <3> QED
        BY <3>1, <3>2
    <2> QED
      BY <1>0, <1>1, <2>1, UpdateBystander
  <1>4. ASSUME NEW c \in Clients, NEW f \in Files, Cached(c, f)'
        PROVE  Worked(c, f)' \/ CopyShown(c, f)'
    <2>1. Cached(c, f) /\ Copy(c, f)' = Copy(c, f)
      BY <1>0, <1>4 DEF Cached, Copy
    <2>2. Worked(c, f) => Worked(c, f)'
      BY <1>0 DEF Worked, Modifying
    <2> QED
      BY <1>1, <2>1, <2>2, SameShownCopy DEF ShownCopies
  <1> QED
    BY <1>2, <1>3, <1>4 DEF ShownCopies

LEMMA ClientCrashKeepsUpdates ==
    ASSUME UpdatesInv, TypeOK', NEW d \in Clients, ClientCrash(d)
    PROVE  /\ \A q \in Procs : UpdateInv(q)'
           /\ ShownCopies'
  <1> USE DEF UpdatesInv, TurnsInv, FetchInv, StableInv
  <1>0. /\ \A q \in Procs : UpdateInv(q) /\ CallInv(q) /\ C(q)' = C(q)
        /\ UNCHANGED <<clock, sver, sfile, call, stmp, reply, hpc>>
        /\ UNCHANGED <<disk, op, file, file2, auth, base>>
        /\ \A q \in Procs :
              \/ C(q) = d /\ pc'[q] = "idle" /\ dirty'[q] = FALSE
              \/ C(q) # d /\ pc'[q] = pc[q] /\ dirty'[q] = dirty[q]
        /\ \A f \in Files : ~Cached(d, f)'
        /\ \A c \in Clients : c # d => path'[c] = path[c]
        /\ \A q \in Procs : C(q) \in Clients
    BY ClientOfType DEF ClientCrash, TypeOK, ClientTypeOK, C, serverVars, Cached, TurnInv
  <1>1. KeepsShown
    BY <1>0, QuietShown
  <1>2. ASSUME NEW q \in Procs PROVE UpdateInv(q)'
    <2>1. CASE C(q) # d
      BY <1>0, <1>1, <2>1, UpdateBystander
    <2>2. CASE C(q) = d
      BY <1>0, <2>2 DEF UpdateInv, ShownInv, OwnsInv, ServedInv, Exists
    <2> QED
      BY <2>1, <2>2
  <1>3. ASSUME NEW c \in Clients, NEW f \in Files, Cached(c, f)'
        PROVE  Worked(c, f)' \/ CopyShown(c, f)'
    <2>1. c # d /\ Cached(c, f) /\ Copy(c, f)' = Copy(c, f)
      BY <1>0, <1>3 DEF Cached, Copy
    <2>2. Worked(c, f) => Worked(c, f)'
      BY <1>0, <2>1 DEF Worked, Modifying
    <2> QED
      BY <1>1, <2>1, <2>2, SameShownCopy DEF ShownCopies
  <1> QED
    BY <1>2, <1>3 DEF ShownCopies

LEMMA UpdatesInvInit == Init => UpdatesInv
  <1> SUFFICES ASSUME Init PROVE UpdatesInv
    OBVIOUS
  <1>1. up /\ crashes = 0 /\ ShownCopies
    BY DEF Init, ServerInit, ClientInit, ShownCopies, Cached
  <1>2. \A p \in Procs : UpdateInv(p)
    BY DEF Init, ServerInit, ClientInit, UpdateInv, ShownInv, OwnsInv, ServedInv
  <1> QED
    BY <1>1, <1>2, TurnsInvInit DEF UpdatesInv

LEMMA UpdatesInvNext ==
    ASSUME Updating, UpdatesInv, [Next]_vars, [OrphansWaitedFor]_vars PROVE UpdatesInv'
  <1>0. TurnsInv' /\ TypeOK'
    BY TurnsInvNext DEF Updating, UpdatesInv, TurnsInv, StableInv
  <1>1. CASE \E p \in Procs : StartOp(p) \/ ProcStep(p) \/ Write(p) \/ Discard(p)
    BY <1>0, <1>1, ProcKeepsUpdates, ProcKeepsUp DEF UpdatesInv
  <1>2. CASE \E w \in Procs : (HandlerStep(w) \/ HandlerFault(w)) /\ UNCHANGED clientVars
    BY <1>0, <1>2, HandlerKeepsUpdates, HandlerKeepsUp DEF UpdatesInv
  <1>3. CASE Crash \/ Restart
    BY <1>3 DEF Crash, Restart, Updating, UpdatesInv
  <1>4. CASE \E c \in Clients : ClientCrash(c)
    <2>1. UNCHANGED <<up, crashes>>
      BY <1>4 DEF ClientCrash, serverVars
    <2> QED
      BY <1>0, <1>4, <2>1, ClientCrashKeepsUpdates DEF UpdatesInv
  <1>5. CASE UNCHANGED vars
    <2>1. UNCHANGED serverVars /\ UNCHANGED clientVars
      BY <1>5 DEF vars
    <2>2. KeepsShown
      BY <2>1, QuietShown DEF serverVars
    <2>3. \A p \in Procs : UpdateInv(p)'
      <3>1. TypeOK /\ \A p \in Procs : UpdateInv(p) /\ CallInv(p)
        BY DEF UpdatesInv, TurnsInv, StableInv, TurnInv
      <3> QED
        BY <2>1, <2>2, <3>1, UpdateBystander DEF serverVars, clientVars
    <2>4. ShownCopies'
      <3>1. ASSUME NEW c \in Clients, NEW f \in Files, Cached(c, f)'
            PROVE  Worked(c, f)' \/ CopyShown(c, f)'
        <4>1. Cached(c, f) /\ Copy(c, f)' = Copy(c, f)
          BY <2>1, <3>1 DEF clientVars, Cached, Copy
        <4>2. Worked(c, f) => Worked(c, f)'
          BY <2>1 DEF clientVars, Worked, Modifying, C
        <4>3. TypeOK /\ ShownCopies
          BY DEF UpdatesInv, TurnsInv, StableInv
        <4> QED
          BY <2>2, <4>1, <4>2, <4>3, SameShownCopy DEF ShownCopies
      <3> QED
        BY <3>1 DEF ShownCopies
    <2>5. UNCHANGED <<up, crashes>>
      BY <2>1 DEF serverVars
    <2> QED
      BY <1>0, <2>3, <2>4, <2>5 DEF UpdatesInv
  <1> QED
    BY <1>1, <1>2, <1>3, <1>4, <1>5 DEF Next, CrashClient

LEMMA UpdatesInvImplies == UpdatesInv => NoLostUpdate
  <1> SUFFICES ASSUME UpdatesInv, NEW w \in Procs, hpc[w] = "tmp", pc[w] = "store"
               PROVE  sfile[call[w].file].data = base[w]
    BY DEF NoLostUpdate
  <1>1. CallInv(w) /\ UpdateInv(w)
    BY DEF UpdatesInv, TurnsInv, TurnInv
  <1>2. call[w].file = file[w] /\ op[w] \in ModOps
    BY <1>1 DEF CallInv
  <1> QED
    BY <1>1, <1>2 DEF UpdateInv, OwnsInv

\* A Store that is about to replace a file of the server (afs_server.cpp, Store) replaces
\* the content its session opened: nobody's update is lost, for any number of clients and
\* files, with failing handlers and crashes of the clients, when the clients take turns in
\* modifying a file and wait for the orphaned calls of crashed clients, their clocks are
\* not ahead of the server's, the server is up, and nothing is truncated that was not
\* opened.
THEOREM NoUpdateLost ==
    ASSUME Updating
    PROVE  Spec /\ [][OrphansWaitedFor]_vars => []NoLostUpdate
  <1>1. Init => UpdatesInv
    BY UpdatesInvInit
  <1>2. UpdatesInv /\ [Next]_vars /\ [OrphansWaitedFor]_vars => UpdatesInv'
    BY UpdatesInvNext, Updating
  <1>3. UpdatesInv => NoLostUpdate
    BY UpdatesInvImplies
  <1> QED
    BY <1>1, <1>2, <1>3, PTL DEF Spec

-----------------------------------------------------------------------------
(* One client by itself, while the server goes away and comes back.        *)

\* Its clock is not behind the server's, handlers do not fail, nothing is renamed.
Alone ==
    /\ \A p, q \in Procs : p = q
    /\ ServerErrors = FALSE
    /\ "rename" \notin Ops
    /\ \A c \in Clients : Skew[c] >= 0

LastOf(p, f) == last[C(p)][f]

Removing(p, f) == pc[p] = "remove" /\ file[p] = f

\* What was written stays in the cache, and the server has it or has only what is older,
\* until the file is removed.
Kept(p, f) ==
    LastOf(p, f) # 0 =>
        /\ Cached(C(p), f) /\ Copy(C(p), f).data = LastOf(p, f)
        /\ sfile[f].data = LastOf(p, f) \/ sfile[f].mtime <= Copy(C(p), f).mtime \/ Removing(p, f)

\* What is cached, or about to be, is on the server, unless the server has just removed it
\* and says so; a file that was written to is not created again.
ThereInv(p) ==
    /\ \A f \in Files : Cached(C(p), f) => Exists(f) \/ (Removing(p, f) /\ hpc[p] # "call")
    /\ pc[p] = "remove" /\ hpc[p] = "done" /\ Cached(C(p), file[p]) => reply[p].st = "ok"
    /\ pc[p] \in {"check", "fetch", "stamp", "open"} => Exists(file[p])
    /\ pc[p] = "auth" /\ hpc[p] = "done" => reply[p].st = Found(file[p])
    /\ hpc[p] = "renamed" => Exists(call[p].file)
    /\ call[p].kind = "Create" /\ hpc[p] = "call" => LastOf(p, call[p].file) = 0

\* What p was told still holds, and it fetches a file that it wrote to only to receive
\* what it wrote.
ToldInv(p) ==
    LET f == file[p]
    IN  /\ pc[p] = "auth" /\ hpc[p] = "done" => reply[p].mtime = sfile[f].mtime
        /\ pc[p] = "fetch" /\ hpc[p] = "done" => reply[p].st = "ok" /\ reply[p].data = sfile[f].data
        /\ pc[p] = "store" /\ hpc[p] \in {"renamed", "done"} => sfile[f].data = call[p].data
        /\ LastOf(p, f) # 0 =>
              /\ pc[p] = "check" => auth[p].mtime \in {sfile[f].mtime, Copy(C(p), f).mtime}
              /\ pc[p] \in {"fetch", "stamp"} => sfile[f].data = LastOf(p, f)

\* A handler works for its caller, or its caller has died and has nothing to lose.
CallerInv(p) ==
    /\ hpc[p] # "none" =>
          /\ call[p].kind # "Rename"
          /\ IF pc[p] = "idle" THEN \A f \in Files : LastOf(p, f) = 0 /\ ~Cached(C(p), f)
             ELSE /\ call[p].file = file[p]
                  /\ call[p].kind = "Store" <=> pc[p] = "store"
                  /\ call[p].kind = "Remove" <=> pc[p] = "remove"
    /\ hpc[p] # "statfail" /\ (hpc[p] \in {"tmp", "renamed"} => call[p].kind = "Store")
    /\ pc[p] \in {"check", "stamp", "open", "session", "sread"} => hpc[p] = "none"
    /\ pc[p] \in {"auth", "fetch", "create", "store", "remove"} => hpc[p] # "none"
    /\ pc[p] # "rename"

\* No time is in the future.
ClockInv == (\A f \in Files : sfile[f].mtime <= clock) /\ (\A p \in Procs : stmp[p] <= clock)

PartsInv(p) == ThereInv(p) /\ ToldInv(p) /\ CallerInv(p)

AloneInv ==
    /\ FetchInv /\ CloseInv /\ StableInv /\ ClockInv
    /\ \A p \in Procs : PartsInv(p) /\ \A f \in Files : Kept(p, f)

LEMMA StillKept ==
    ASSUME NEW p \in Procs, NEW f \in Files, Kept(p, f), last'[C(p)][f] = last[C(p)][f],
           Cached(C(p), f) => /\ path'[C(p)][f] = path[C(p)][f]
                              /\ disk'[C(p)][path[C(p)][f]] = disk[C(p)][path[C(p)][f]],
           sfile'[f] = sfile[f], Removing(p, f) => Removing(p, f)'
    PROVE  Kept(p, f)'
  <1>1. C(p)' = C(p)
    BY DEF C
  <1> QED
    BY <1>1 DEF Kept, LastOf, Cached, Copy

\* The operations of Alone but truncate begin with a call about their file.
LEMMA AloneStart ==
    ASSUME TypeOK, Alone, NEW p \in Procs, StartOp(p)
    PROVE  /\ pc[p] = "idle" /\ hpc[p] = "none" /\ UNCHANGED <<sfile, reply, stmp, auth, path>>
           /\ \/ /\ UNCHANGED <<disk, last, clock>>
                 /\ pc'[p] = "auth" /\ hpc'[p] \in {"call", "failed"}
                 /\ call'[p].kind = "TestAuth" /\ call'[p].file = file'[p]
              \/ /\ UNCHANGED <<disk, last, clock>>
                 /\ pc'[p] = "remove" /\ hpc'[p] \in {"call", "failed"}
                 /\ call'[p].kind = "Remove" /\ call'[p].file = file'[p]
              \/ \E f \in Files : StartTruncate(p, f)
  <1> USE DEF Begin, Goto, Issue, Request, Quiet, TypeOK, ServerTypeOK, ClientTypeOK
  <1>1. CASE \E f \in Files, o \in {"stat", "read", "write"} : StartFetch(p, o, f)
    BY <1>1 DEF StartFetch
  <1>2. CASE \E f \in Files : StartLookup(p, f)
    BY <1>2 DEF StartLookup
  <1>3. CASE \E f \in Files : StartTruncate(p, f)
    BY <1>3 DEF StartTruncate
  <1>4. CASE \E f \in Files : StartUnlink(p, f)
    BY <1>4 DEF StartUnlink
  <1>5. ~\E f, g \in Files : StartRename(p, f, g)
    BY DEF StartRename, Alone
  <1> QED
    BY <1>1, <1>2, <1>3, <1>4, <1>5 DEF StartOp

LEMMA StartKeepsParts ==
    ASSUME TypeOK, TypeOK', Alone, NEW p \in Procs, PartsInv(p), \A f \in Files : Kept(p, f), StartOp(p)
    PROVE  PartsInv(p)'
  <1>0. /\ pc[p] = "idle" /\ hpc[p] = "none" /\ UNCHANGED <<sfile, path>> /\ C(p)' = C(p)
        /\ file'[p] \in Files /\ \A f \in Files : Exists(f)' <=> Exists(f)
    BY AloneStart DEF C, TypeOK, ClientTypeOK, Exists
  <1>1. CASE \E f \in Files : StartTruncate(p, f)
    <2>1. pc'[p] = "sread" /\ hpc'[p] = "none"
      BY <1>0, <1>1 DEF StartTruncate, Goto, TypeOK, ClientTypeOK
    <2> QED
      BY <1>0, <2>1 DEF PartsInv, ThereInv, ToldInv, CallerInv, Cached, Removing
  <1>2. CASE /\ UNCHANGED <<disk, last, clock>>
             /\ pc'[p] = "auth" /\ hpc'[p] \in {"call", "failed"}
             /\ call'[p].kind = "TestAuth" /\ call'[p].file = file'[p]
    BY <1>0, <1>2 DEF PartsInv, ThereInv, ToldInv, CallerInv, Cached, Removing
  <1>3. CASE /\ UNCHANGED <<disk, last, clock>>
             /\ pc'[p] = "remove" /\ hpc'[p] \in {"call", "failed"}
             /\ call'[p].kind = "Remove" /\ call'[p].file = file'[p]
    BY <1>0, <1>3 DEF PartsInv, ThereInv, ToldInv, CallerInv, Cached, Removing
  <1> QED
    BY <1>1, <1>2, <1>3, AloneStart

\* A local change is stamped later than anything the server has.
LEMMA ChangedIsKept ==
    ASSUME TypeOK, Alone, ClockInv, NEW p \in Procs, NEW f \in Files, Cached(C(p), f), NEW t \in Stamps,
           path' = path, sfile' = sfile,
           disk' = [disk EXCEPT ![C(p)][path[C(p)][f]] = Written(mods + 1, Local(C(p), t))],
           last' = [last EXCEPT ![C(p)][f] = mods + 1]
    PROVE  Kept(p, f)'
  <1> DEFINE c == C(p)
  <1>0. /\ c \in Clients /\ C(p)' = c /\ path[c][f] \in Inodes
        /\ disk \in [Clients -> [Inodes -> InodeRec]] /\ last \in [Clients -> [Files -> Nat]]
    BY ClientOfType, CopyType DEF TypeOK, ClientTypeOK, C
  <1>1. Copy(c, f)' = Written(mods + 1, t + Skew[c])
    BY <1>0 DEF Copy, Local
  <1>2. last'[c][f] = mods + 1
    BY <1>0
  <1>3. t \in Nat /\ clock <= t /\ clock \in Nat /\ Skew[c] \in Int /\ Skew[c] >= 0
    BY <1>0, TimePasses, ClockStepsAssumption, SkewAssumption DEF TypeOK, ServerTypeOK, Alone
  <1>4. sfile[f].mtime \in Nat /\ sfile[f].mtime <= clock
    BY DEF ClockInv, TypeOK, ServerTypeOK, FileRec
  <1>5. sfile'[f].mtime <= t + Skew[c]
    BY <1>3, <1>4
  <1> QED
    BY <1>0, <1>1, <1>2, <1>5 DEF Kept, LastOf, Cached, Written

LEMMA StepFrame ==
    ASSUME TypeOK, NEW p \in Procs, CallerInv(p), pc[p] # "remove",
           ProcStep(p) \/ Write(p) \/ Discard(p)
    PROVE  /\ UNCHANGED <<file, sfile, reply, stmp>> /\ C(p)' = C(p)
           /\ pc[p] \notin {"remove", "rename"} /\ ~RemoveReply(p) /\ ~RenameReply(p)
           /\ Write(p) \/ last' = last
           /\ \A f \in Files : ~Removing(p, f)
  <1>1. pc[p] \notin {"remove", "rename"} /\ \A f \in Files : ~Removing(p, f)
    BY DEF CallerInv, Removing
  <1>2. ~RemoveReply(p) /\ ~RenameReply(p)
    BY <1>1 DEF RemoveReply, RenameReply
  <1>3. CASE OpenLocal(p)
    BY <1>1, <1>2, <1>3 DEF OpenLocal, C
  <1>4. CASE Write(p)
    BY <1>1, <1>2, <1>4 DEF Write, C
  <1>5. CASE CreateReply(p) \/ AuthReply(p) \/ CheckCache(p) \/ FetchReply(p) \/ Stamp(p) \/ Close(p)
             \/ StoreRead(p) \/ StoreReply(p) \/ Discard(p)
    BY <1>1, <1>2, <1>5 DEF CreateReply, AuthReply, CheckCache, FetchReply, Stamp, Close, StoreRead,
                            StoreReply, Discard, serverVars, clientVars, C
  <1> QED
    BY <1>2, <1>3, <1>4, <1>5 DEF ProcStep

LEMMA StepKeepsWritten ==
    ASSUME TypeOK, TypeOK', Alone, ClockInv, NEW p \in Procs, SessionInv(p), PartsInv(p),
           NEW f \in Files, file[p] = f, Kept(p, f),
           pc[p] # "remove", ProcStep(p) \/ Write(p) \/ Discard(p)
    PROVE  Kept(p, f)'
  <1> DEFINE c == C(p)
  <1>0. /\ c \in Clients /\ C(p)' = c /\ file' = file /\ sfile' = sfile /\ ~Removing(p, f)
        /\ path \in [Clients -> [Files -> Inodes \cup {NoInode}]]
        /\ disk \in [Clients -> [Inodes -> InodeRec]]
        /\ Cached(c, f) => path[c][f] \in Inodes
        /\ NoInode \notin Inodes
        /\ ThereInv(p) /\ ToldInv(p) /\ CallerInv(p)
    BY StepFrame, ClientOfType, CopyType, InodesAreNaturals
       DEF TypeOK, ClientTypeOK, PartsInv, NoInode
  <1>1. CASE path' = path /\ disk' = disk /\ last' = last
    BY <1>0, <1>1, StillKept
  <1>2. CASE FetchReply(p) /\ ~(path' = path /\ disk' = disk)
    <2>1. PICK i \in FreeInodes(c) :
            /\ path' = [path EXCEPT ![c][f] = i]
            /\ i \in Inodes => disk'[c][i].data = reply[p].data
      BY <1>0, <1>2 DEF FetchReply
    <2>2. i \in Inodes /\ i # NoInode
      BY <1>0 DEF FreeInodes
    <2>3. Cached(c, f)' /\ Copy(c, f)'.data = reply[p].data
      BY <1>0, <2>1, <2>2 DEF Cached, Copy
    <2>4. pc[p] = "fetch" /\ last' = last /\ hpc[p] = "done"
      BY <1>2 DEF FetchReply
    <2>5. LastOf(p, f) # 0 => sfile[f].data = LastOf(p, f) /\ reply[p].data = sfile[f].data
      BY <1>0, <2>4 DEF ToldInv
    <2> QED
      BY <1>0, <2>3, <2>4, <2>5 DEF Kept, LastOf
  <1>3. CASE Stamp(p) /\ disk' # disk
    <2>1. /\ Cached(c, f) /\ path' = path /\ last' = last /\ pc[p] = "stamp"
          /\ disk' = [disk EXCEPT ![c][path[c][f]] =
                        [@ EXCEPT !.mtime = auth[p].mtime, !.stamp = auth[p].ver, !.by = "fetch"]]
      BY <1>3 DEF Stamp
    <2>2. Copy(c, f) \in InodeRec
      BY <2>1, <1>0, CopyType DEF TypeOK
    <2>3. Cached(c, f)' /\ Copy(c, f)'.data = Copy(c, f).data
      BY <1>0, <2>1, <2>2 DEF Cached, Copy, InodeRec
    <2>4. LastOf(p, f) # 0 => sfile[f].data = LastOf(p, f)
      BY <1>0, <2>1 DEF ToldInv
    <2> QED
      BY <1>0, <2>1, <2>3, <2>4 DEF Kept, LastOf
  <1>4. CASE OpenLocal(p) /\ ~(path' = path /\ disk' = disk)
    <2>1. ~Cached(c, f) /\ last' = last
      BY <1>4 DEF OpenLocal
    <2> QED
      BY <1>0, <2>1 DEF Kept, LastOf
  <1>5. CASE Write(p)
    <2>1. PICK t \in Stamps :
            disk' = [disk EXCEPT ![c][handle[p]] = Written(mods + 1, Local(c, t))]
      BY <1>5 DEF Write
    <2>2. /\ last' = [last EXCEPT ![c][f] = mods + 1] /\ path' = path
          /\ Cached(c, f) /\ handle[p] = path[c][f]
      BY <1>5 DEF Write, SessionInv
    <2> QED
      BY <1>0, <2>1, <2>2, ChangedIsKept
  <1>6. CASE StoreReply(p) /\ disk' # disk
    <2>1. /\ path[c][f] # NoInode /\ path' = path /\ last' = last /\ pc[p] = "store" /\ hpc[p] = "done"
          /\ disk' = [disk EXCEPT ![c][path[c][f]] = Stored(p, @)]
      BY <1>6 DEF StoreReply
    <2>2. Copy(c, f) \in InodeRec
      BY <2>1, <1>0, CopyType DEF TypeOK, Cached
    <2>3. Cached(c, f)' /\ Copy(c, f)'.data = Copy(c, f).data
      BY <1>0, <2>1, <2>2 DEF Cached, Copy, InodeRec, Stored
    <2>4. sfile[f].data = LastOf(p, f)
      BY <1>0, <2>1 DEF ToldInv, SessionInv, LastOf
    <2> QED
      BY <1>0, <2>1, <2>3, <2>4 DEF Kept, LastOf
  <1>7. CASE \/ CreateReply(p) \/ AuthReply(p) \/ CheckCache(p) \/ Close(p) \/ StoreRead(p) \/ Discard(p)
             \/ ((FetchReply(p) \/ OpenLocal(p)) /\ path' = path /\ disk' = disk)
             \/ ((Stamp(p) \/ StoreReply(p)) /\ disk' = disk)
    <2>1. path' = path /\ disk' = disk /\ last' = last
      BY <1>7 DEF CreateReply, AuthReply, CheckCache, FetchReply, Stamp, OpenLocal, Close, StoreRead,
                  StoreReply, Discard, clientVars
    <2> QED
      BY <1>1, <2>1
  <1>8. \/ CreateReply(p) \/ AuthReply(p) \/ CheckCache(p) \/ FetchReply(p) \/ Stamp(p)
        \/ OpenLocal(p) \/ Write(p) \/ Close(p) \/ StoreRead(p) \/ StoreReply(p) \/ Discard(p)
    BY <1>0, StepFrame DEF ProcStep
  <1> HIDE DEF c
  <1> QED
    BY <1>2, <1>3, <1>4, <1>5, <1>6, <1>7, <1>8

LEMMA ProcKeepsKept ==
    ASSUME TypeOK, TypeOK', Alone, ClockInv, NamesInv, NEW p \in Procs, SessionInv(p), PartsInv(p),
           \A f \in Files : Kept(p, f),
           pc[p] # "remove", StartOp(p) \/ ProcStep(p) \/ Write(p) \/ Discard(p)
    PROVE  \A f \in Files : Kept(p, f)'
  <1>0. /\ CallerInv(p) /\ C(p) \in Clients /\ file[p] \in Files
        /\ last \in [Clients -> [Files -> Nat]]
        /\ \A f \in Files : ~Removing(p, f)
    BY ClientOfType DEF PartsInv, TypeOK, ClientTypeOK, Removing
  <1>1. CASE \E g \in Files : StartTruncate(p, g)
    <2>1. PICK g \in Files, t \in Stamps :
            /\ StartTruncate(p, g)
            /\ disk' = [disk EXCEPT ![C(p)][path[C(p)][g]] = Written(mods + 1, Local(C(p), t))]
      BY <1>1 DEF StartTruncate
    <2>2. /\ Cached(C(p), g) /\ path' = path /\ sfile' = sfile
          /\ last' = [last EXCEPT ![C(p)][g] = mods + 1]
      BY <2>1 DEF StartTruncate
    <2>3. Kept(p, g)'
      BY <2>1, <2>2, ChangedIsKept
    <2>4. ASSUME NEW f \in Files, f # g PROVE Kept(p, f)'
      <3>1. last'[C(p)][f] = last[C(p)][f]
        BY <1>0, <2>2, <2>4
      <3>2. ASSUME Cached(C(p), f)
            PROVE  disk'[C(p)][path[C(p)][f]] = disk[C(p)][path[C(p)][f]]
        <4>1. path[C(p)][f] # path[C(p)][g]
          BY <1>0, <2>2, <2>4, <3>2 DEF NamesInv, Cached
        <4>2. disk \in [Clients -> [Inodes -> InodeRec]] /\ path[C(p)][f] \in Inodes
          BY <1>0, <3>2, CopyType DEF TypeOK, ClientTypeOK
        <4> QED
          BY <1>0, <2>1, <4>1, <4>2
      <3> QED
        BY <1>0, <2>2, <3>1, <3>2, StillKept
    <2> QED
      BY <2>3, <2>4
  <1>2. CASE StartOp(p) /\ ~\E g \in Files : StartTruncate(p, g)
    BY <1>0, <1>2, AloneStart, StillKept
  <1>3. CASE ~StartOp(p)
    <2>1. OtherFiles(p)
      <3>1. ~\E f, g \in Files : StartRename(p, f, g)
        BY DEF StartRename, Begin, Alone
      <3> QED
        BY <1>0, <1>3, <3>1, StepOtherFiles DEF CallerInv
    <2>2. file' = file /\ sfile' = sfile
      BY <1>0, <1>3, StepFrame
    <2>3. ASSUME NEW f \in Files, f # file[p] PROVE Kept(p, f)'
      <3>1. last'[C(p)][f] = last[C(p)][f]
        <4>1. CASE Write(p)
          BY <1>0, <2>3, <4>1 DEF Write
        <4>2. CASE ~Write(p)
          BY <1>0, <1>3, <4>2, StepFrame
        <4> QED
          BY <4>1, <4>2
      <3> QED
        BY <1>0, <2>1, <2>2, <2>3, <3>1, StillKept DEF OtherFiles
    <2>4. ASSUME NEW f \in Files, f = file[p] PROVE Kept(p, f)'
      BY <1>0, <1>3, <2>4, StepKeepsWritten
    <2> QED
      BY <2>3, <2>4
  <1> QED
    BY <1>1, <1>2, <1>3

LEMMA FailureKeepsParts ==
    ASSUME TypeOK, NEW p \in Procs, PartsInv(p), pc[p] # "remove", \A f \in Files : Kept(p, f), NEW st, FetchFails(p, st),
           st = "ENOENT" => ~Cached(C(p), file[p]),
           UNCHANGED <<path, last, file, sfile, reply>>
    PROVE  PartsInv(p)'
  <1>0. /\ file[p] \in Files /\ C(p)' = C(p)
        /\ \A f \in Files : (Exists(f)' <=> Exists(f)) /\ (Cached(C(p), f)' <=> Cached(C(p), f))
        /\ pc \in [Procs -> PCs] /\ call \in [Procs -> RequestRec]
        /\ hpc \in [Procs -> {"none", "call", "tmp", "renamed", "statfail", "done", "failed"}]
    BY DEF C, Exists, Cached, TypeOK, ClientTypeOK, ServerTypeOK
  <1>1. CASE pc'[p] = "idle" /\ hpc'[p] = "none"
    BY <1>0, <1>1 DEF PartsInv, ThereInv, ToldInv, CallerInv, Removing
  <1>2. CASE st = "ENOENT" /\ Creat(p)
    <2>1. /\ pc'[p] = "create" /\ hpc'[p] \in {"call", "failed"}
          /\ call'[p].kind = "Create" /\ call'[p].file = file[p]
      BY <1>0, <1>2 DEF Creat, Goto, Issue, Request
    <2>2. LastOf(p, file[p])' = 0
      BY <1>0, <1>2 DEF Kept, LastOf
    <2> QED
      BY <1>0, <2>1, <2>2 DEF PartsInv, ThereInv, ToldInv, CallerInv, Removing, LastOf
  <1> QED
    BY <1>0, <1>1, <1>2 DEF FetchFails, Goto, Release

LEMMA StepKeepsParts ==
    ASSUME TypeOK, TypeOK', NEW p \in Procs, CallMatches(p), PartsInv(p), \A f \in Files : Kept(p, f),
           pc[p] # "remove", ProcStep(p) \/ Write(p) \/ Discard(p)
    PROVE  PartsInv(p)'
  <1> USE DEF Goto, Release, Answered
  <1> DEFINE c == C(p)
             f == file[p]
  <1>0. /\ c \in Clients /\ f \in Files /\ C(p)' = c /\ file' = file /\ sfile' = sfile /\ reply' = reply
        /\ pc \in [Procs -> PCs] /\ call \in [Procs -> RequestRec] /\ auth \in [Procs -> AuthRec]
        /\ hpc \in [Procs -> {"none", "call", "tmp", "renamed", "statfail", "done", "failed"}]
        /\ \A g \in Files : Exists(g)' <=> Exists(g)
        /\ ThereInv(p) /\ ToldInv(p) /\ CallerInv(p) /\ Kept(p, f)
    BY StepFrame, ClientOfType DEF PartsInv, TypeOK, ServerTypeOK, ClientTypeOK, Exists
  <1>1. CASE CreateReply(p)
    <2>1. /\ UNCHANGED <<path, last>>
          /\ \/ pc'[p] = "auth" /\ hpc'[p] \in {"call", "failed"}
                /\ call'[p].kind = "TestAuth" /\ call'[p].file = f
             \/ pc'[p] = "idle" /\ hpc'[p] = "none"
      BY <1>0, <1>1 DEF CreateReply, Issue, Request
    <2> QED
      BY <1>0, <2>1 DEF PartsInv, ThereInv, ToldInv, CallerInv, Removing, Cached
  <1>2. CASE AuthReply(p)
    <2>1. UNCHANGED <<path, disk, last>> /\ pc[p] = "auth" /\ hpc[p] \in {"done", "failed"}
          /\ auth'[p] = AuthData(p)
      BY <1>0, <1>2 DEF AuthReply
    <2>2. CASE AuthData(p).st # "ok"
      <3>1. ~Cached(c, f)
        BY <1>0, <2>1, <2>2 DEF AuthData, ThereInv, Found, Removing
      <3>2. FetchFails(p, AuthData(p).st)
        BY <1>2, <2>2 DEF AuthReply
      <3> QED
        BY <1>0, <2>1, <3>1, <3>2, FailureKeepsParts
    <2>3. CASE AuthData(p).st = "ok"
      <3>1. pc'[p] = "check" /\ hpc'[p] = "none"
        BY <1>0, <1>2, <2>3 DEF AuthReply
      <3>2. Exists(f) /\ (LastOf(p, f) # 0 => AuthData(p).mtime \in {sfile[f].mtime, Copy(c, f).mtime})
        BY <1>0, <2>1, <2>3 DEF AuthData, ThereInv, ToldInv, Found, Kept, Removing
      <3> QED
        BY <1>0, <2>1, <3>1, <3>2 DEF PartsInv, ThereInv, ToldInv, CallerInv, Removing, Cached, Copy, LastOf
    <2> QED
      BY <2>2, <2>3
  <1>3. CASE CheckCache(p)
    <2>1. UNCHANGED <<path, disk, last, auth>> /\ pc[p] = "check" /\ hpc[p] = "none"
      BY <1>0, <1>3 DEF CheckCache, CallerInv
    <2>2. CASE pc'[p] = "open" /\ hpc' = hpc
      BY <1>0, <2>1, <2>2 DEF PartsInv, ThereInv, ToldInv, CallerInv, Removing, Cached
    <2>3. CASE ~Fresh(p) /\ Goto(p, "fetch") /\ Issue(p, Request("Fetch", f, f, 0))
      <3>1. /\ pc'[p] = "fetch" /\ hpc'[p] \in {"call", "failed"}
            /\ call'[p].kind = "Fetch" /\ call'[p].file = f
        BY <1>0, <2>3 DEF Issue, Request
      <3>2. LastOf(p, f) # 0 => sfile[f].data = LastOf(p, f)
        <4>1. SUFFICES ASSUME LastOf(p, f) # 0 PROVE sfile[f].data = LastOf(p, f)
          OBVIOUS
        <4>2. Cached(c, f) /\ ~(auth[p].mtime <= Copy(c, f).mtime)
          BY <1>0, <2>3, <4>1 DEF Kept, Fresh
        <4>3. auth[p].mtime \in Int /\ Copy(c, f).mtime \in Int
          BY <1>0, <4>2, CopyType DEF TypeOK, AuthRec, InodeRec
        <4>4. auth[p].mtime = sfile[f].mtime
          BY <1>0, <2>1, <4>1, <4>2, <4>3 DEF ToldInv
        <4> QED
          BY <1>0, <4>1, <4>2, <4>3, <4>4 DEF Kept, Removing
      <3> QED
        BY <1>0, <2>1, <3>1, <3>2 DEF PartsInv, ThereInv, ToldInv, CallerInv, Removing, Cached, LastOf
    <2> QED
      BY <1>0, <1>3, <2>2, <2>3 DEF CheckCache
  <1>4. CASE FetchReply(p)
    <2>1. pc[p] = "fetch" /\ hpc[p] \in {"done", "failed"} /\ last' = last
      BY <1>4 DEF FetchReply
    <2>2. hpc[p] = "done" => reply[p].st = "ok"
      BY <1>0, <2>1 DEF ToldInv
    <2>3. CASE hpc[p] = "done"
      <3>1. /\ pc'[p] = "stamp" /\ hpc'[p] = "none" /\ call' = call
            /\ \E i \in FreeInodes(c) : path' = [path EXCEPT ![c][f] = i]
        BY <1>0, <1>4, <2>2, <2>3 DEF FetchReply
      <3>2. \A g \in Files : Cached(c, g)' => Cached(c, g) \/ g = f
        BY <1>0, <3>1 DEF Cached, TypeOK, ClientTypeOK
      <3> QED
        BY <1>0, <2>1, <3>1, <3>2 DEF PartsInv, ThereInv, ToldInv, CallerInv, Removing, LastOf
    <2>4. CASE hpc[p] = "failed"
      <3>1. pc'[p] = "open" /\ hpc'[p] = "none" /\ path' = path /\ call' = call
        BY <1>0, <1>4, <2>4 DEF FetchReply
      <3> QED
        BY <1>0, <2>1, <3>1 DEF PartsInv, ThereInv, ToldInv, CallerInv, Removing, Cached
    <2> QED
      BY <2>1, <2>3, <2>4
  <1>5. CASE Stamp(p)
    <2>1. pc[p] = "stamp" /\ hpc[p] = "none" /\ UNCHANGED <<path, last>>
      BY <1>0, <1>5 DEF Stamp, CallerInv
    <2>2. CASE Cached(c, f)
      <3>1. pc'[p] = "open" /\ hpc' = hpc
        BY <1>0, <1>5, <2>2 DEF Stamp
      <3> QED
        BY <1>0, <2>1, <3>1 DEF PartsInv, ThereInv, ToldInv, CallerInv, Removing, Cached
    <2>3. CASE ~Cached(c, f)
      <3>1. FetchFails(p, "ENOENT")
        BY <1>5, <2>3 DEF Stamp
      <3> QED
        BY <1>0, <2>1, <2>3, <3>1, FailureKeepsParts
    <2> QED
      BY <2>2, <2>3
  <1>6. CASE OpenLocal(p)
    <2>1. pc[p] = "open" /\ hpc[p] = "none" /\ last' = last
      BY <1>0, <1>6 DEF OpenLocal, CallerInv
    <2>2. CASE pc'[p] \in {"idle", "session"}
      <3>1. hpc' = hpc
        BY <1>0, <1>6, <2>2 DEF OpenLocal, Creat
      <3>2. path' = path \/ \E i \in FreeInodes(c) : path' = [path EXCEPT ![c][f] = i]
        BY <1>6 DEF OpenLocal
      <3>3. \A g \in Files : Cached(c, g)' => Cached(c, g) \/ g = f
        BY <1>0, <3>2 DEF Cached, TypeOK, ClientTypeOK
      <3> QED
        BY <1>0, <2>1, <2>2, <3>1, <3>3 DEF PartsInv, ThereInv, ToldInv, CallerInv, Removing
    <2>3. CASE pc'[p] \notin {"idle", "session"}
      <3>1. op[p] = "lookup" /\ ~Cached(c, f) /\ Creat(p) /\ path' = path
        BY <1>0, <1>6, <2>3 DEF OpenLocal
      <3>2. FetchFails(p, "ENOENT")
        BY <3>1 DEF FetchFails
      <3> QED
        BY <1>0, <2>1, <3>1, <3>2, FailureKeepsParts
    <2> QED
      BY <2>2, <2>3
  <1>7. CASE StoreRead(p)
    <2>1. /\ UNCHANGED <<path, last>> /\ hpc[p] = "none"
          /\ \/ pc'[p] = "store" /\ hpc'[p] \in {"call", "failed"}
                /\ call'[p].kind = "Store" /\ call'[p].file = f
             \/ pc'[p] = "idle" /\ hpc' = hpc
      BY <1>0, <1>7 DEF StoreRead, Issue, Request, CallerInv
    <2> QED
      BY <1>0, <2>1 DEF PartsInv, ThereInv, ToldInv, CallerInv, Removing, Cached
  <1>8. CASE Write(p) \/ Close(p) \/ StoreReply(p) \/ Discard(p)
    <2>1. /\ path' = path /\ hpc'[p] = "none" /\ pc'[p] \in {"session", "sread", "idle"}
      BY <1>0, <1>8 DEF Write, Close, StoreReply, Discard, CallerInv, serverVars, clientVars
    <2> QED
      BY <1>0, <2>1 DEF PartsInv, ThereInv, ToldInv, CallerInv, Removing, Cached
  <1>9. ~RemoveReply(p) /\ ~RenameReply(p)
    BY <1>0, StepFrame
  <1> QED
    BY <1>1, <1>2, <1>3, <1>4, <1>5, <1>6, <1>7, <1>8, <1>9 DEF ProcStep

\* The only step of a process that waits for a Remove.
LEMMA RemoveStep ==
    ASSUME TypeOK, NEW p \in Procs, pc[p] = "remove", StartOp(p) \/ ProcStep(p) \/ Write(p) \/ Discard(p)
    PROVE  RemoveReply(p)
  <1>1. ~StartOp(p)
    BY DEF StartOp, StartFetch, StartLookup, StartTruncate, StartUnlink, StartRename, Begin, Quiet
  <1>2. ~Write(p) /\ ~Discard(p)
    BY DEF Write, Discard
  <1> QED
    BY <1>1, <1>2 DEF ProcStep, CreateReply, AuthReply, CheckCache, FetchReply, Stamp, OpenLocal, Close,
                      StoreRead, StoreReply, RenameReply

\* A file loses its name in the cache, and its content counts for nothing, when the server
\* removed it or did not answer.
LEMMA RemoveKeepsAlone ==
    ASSUME TypeOK, TypeOK', ClockInv, NEW p \in Procs, PartsInv(p), \A f \in Files : Kept(p, f),
           RemoveReply(p)
    PROVE  ClockInv' /\ PartsInv(p)' /\ \A f \in Files : Kept(p, f)'
  <1> DEFINE c == C(p)
             f == file[p]
  <1>0. /\ c \in Clients /\ f \in Files /\ C(p)' = c
        /\ UNCHANGED <<file, sfile, stmp, clock, reply, call, disk, auth>>
        /\ pc[p] = "remove" /\ hpc[p] \in {"done", "failed"} /\ pc'[p] = "idle" /\ hpc'[p] = "none"
        /\ path \in [Clients -> [Files -> Inodes \cup {NoInode}]]
        /\ last \in [Clients -> [Files -> Nat]]
        /\ ThereInv(p) /\ CallerInv(p)
        /\ \A g \in Files : Exists(g)' <=> Exists(g)
    BY ClientOfType DEF RemoveReply, Goto, Release, Answered, PartsInv, TypeOK, ServerTypeOK, ClientTypeOK,
                        Exists, C
  <1>1. ~Cached(c, f)' /\ LastOf(p, f)' = 0
    <2>1. CASE /\ path' = [path EXCEPT ![c][f] = NoInode]
               /\ last' = [last EXCEPT ![c][f] = 0]
      BY <1>0, <2>1 DEF Cached, LastOf
    <2>2. CASE hpc[p] = "done" /\ reply[p].st # "ok" /\ UNCHANGED <<path, last>>
      <3>1. ~Cached(c, f)
        BY <1>0, <2>2 DEF ThereInv
      <3>2. LastOf(p, f) = 0
        BY <1>0, <3>1 DEF Kept
      <3> QED
        BY <1>0, <2>2, <3>1, <3>2 DEF Cached, LastOf
    <2> QED
      BY <2>1, <2>2 DEF RemoveReply
  <1>2. ASSUME NEW g \in Files, g # f
        PROVE  /\ path'[c][g] = path[c][g] /\ last'[c][g] = last[c][g]
               /\ Cached(c, g)' <=> Cached(c, g)
    BY <1>0, <1>2 DEF RemoveReply, Cached
  <1>3. ASSUME NEW g \in Files PROVE Kept(p, g)'
    <2>1. CASE g = f
      BY <1>0, <1>1, <2>1 DEF Kept, LastOf
    <2>2. CASE g # f
      BY <1>0, <1>2, <2>2, StillKept DEF Removing
    <2> QED
      BY <2>1, <2>2
  <1>4. PartsInv(p)'
    <2>1. \A g \in Files : Cached(c, g)' => Exists(g)'
      BY <1>0, <1>1, <1>2 DEF ThereInv, Removing
    <2> QED
      BY <1>0, <2>1 DEF PartsInv, ThereInv, ToldInv, CallerInv
  <1> QED
    BY <1>0, <1>3, <1>4 DEF ClockInv

\* The handlers that may run for the only client.
LEMMA AloneHandler ==
    ASSUME TypeOK, Alone, NEW w \in Procs, CallMatches(w), PartsInv(w), HandlerStep(w) \/ HandlerFault(w)
    PROVE  /\ hpc[w] \in {"call", "tmp", "renamed"} /\ call' = call
           /\ \/ /\ UNCHANGED <<clock, sfile, stmp>> /\ hpc[w] = "call" /\ hpc'[w] = "done"
                 /\ call[w].kind \in {"TestAuth", "Fetch"} /\ reply'[w] = Report(call[w].file)
              \/ Create(w) /\ hpc[w] = "call" /\ hpc'[w] = "done" /\ call[w].kind = "Create"
                 /\ pc[w] \notin {"auth", "fetch", "store"}
              \/ Remove(w) /\ hpc[w] = "call" /\ hpc'[w] = "done" /\ call[w].kind = "Remove"
                 /\ pc[w] \in {"remove", "idle"} /\ reply'[w].st = Found(call[w].file)
              \/ StoreWrite(w) /\ hpc'[w] = "tmp" /\ call[w].kind = "Store"
              \/ StoreRename(w) /\ hpc'[w] = "renamed" /\ call[w].kind = "Store"
              \/ /\ UNCHANGED <<clock, sfile, stmp>> /\ hpc'[w] = "done" /\ call[w].kind = "Store"
                 /\ hpc[w] = "renamed" \/ pc[w] = "idle"
  <1> USE DEF Serving, Answer
  <1>0. /\ hpc \in [Procs -> {"none", "call", "tmp", "renamed", "statfail", "done", "failed"}]
        /\ reply \in [Procs -> ReplyRec] /\ ServerErrors = FALSE
        /\ ThereInv(w) /\ CallerInv(w)
    BY DEF TypeOK, ServerTypeOK, Alone, PartsInv
  <1>1. CASE TestAuth(w) \/ Fetch(w)
    BY <1>0, <1>1 DEF TestAuth, Fetch
  <1>2. CASE Create(w)
    BY <1>0, <1>2 DEF Create, CallMatches, CallerInv
  <1>3. CASE StoreWrite(w)
    BY <1>0, <1>3 DEF StoreWrite
  <1>4. CASE StoreRename(w)
    BY <1>0, <1>4 DEF StoreRename
  <1>5. CASE StoreStat(w)
    BY <1>0, <1>5 DEF StoreStat, ThereInv
  <1>6. ~Rename(w) /\ ~StoreUnlink(w)
    BY <1>0 DEF Rename, StoreUnlink, CallerInv
  <1>7. CASE HandlerFault(w)
    BY <1>0, <1>7 DEF HandlerFault, StoreAbort
  <1>8. CASE Remove(w)
    BY <1>0, <1>8 DEF Remove, CallerInv, Bare
  <1> QED
    BY <1>1, <1>2, <1>3, <1>4, <1>5, <1>6, <1>7, <1>8 DEF HandlerStep

LEMMA HandlerKeepsClock ==
    ASSUME TypeOK, Alone, ClockInv, NEW w \in Procs, CallMatches(w), PartsInv(w),
           HandlerStep(w) \/ HandlerFault(w)
    PROVE  ClockInv'
  <1>0. /\ sfile \in [Files -> FileRec] /\ stmp \in [Procs -> Nat] /\ clock \in Nat
        /\ call[w].file \in Files
    BY DEF TypeOK, ServerTypeOK, RequestRec
  <1>1. \A f \in Files : sfile[f].mtime \in Nat
    BY <1>0 DEF FileRec
  <1>2. CASE UNCHANGED <<clock, sfile, stmp>>
    BY <1>2 DEF ClockInv
  <1>3. CASE Create(w)
    <2>1. PICK t \in Stamps :
            /\ clock' = t /\ stmp' = stmp
            /\ sfile' = [sfile EXCEPT ![call[w].file] = [data |-> 0, mtime |-> t, ver |-> sver + 1]]
      BY <1>3 DEF Create
    <2>2. t \in Nat /\ clock <= t
      BY TimePasses, ClockStepsAssumption
    <2>3. \A f \in Files : sfile'[f].mtime \in {t, sfile[f].mtime}
      BY <1>0, <2>1
    <2> QED
      BY <1>0, <1>1, <2>1, <2>2, <2>3 DEF ClockInv
  <1>4. CASE StoreWrite(w)
    <2>1. PICK t \in Stamps : clock' = t /\ stmp' = [stmp EXCEPT ![w] = t] /\ sfile' = sfile
      BY <1>4 DEF StoreWrite
    <2>2. t \in Nat /\ clock <= t
      BY TimePasses, ClockStepsAssumption
    <2>3. \A p \in Procs : stmp'[p] \in {t, stmp[p]}
      BY <1>0, <2>1
    <2> QED
      BY <1>0, <1>1, <2>1, <2>2, <2>3 DEF ClockInv
  <1>5. CASE StoreRename(w)
    <2>1. \A f \in Files : sfile'[f].mtime \in {stmp[w], sfile[f].mtime}
      BY <1>0, <1>5 DEF StoreRename
    <2> QED
      BY <1>0, <1>1, <1>5, <2>1 DEF ClockInv, StoreRename
  <1>6. CASE Remove(w)
    <2>1. \A f \in Files : sfile'[f].mtime \in {0, sfile[f].mtime}
      BY <1>0, <1>6 DEF Remove, Absent
    <2> QED
      BY <1>0, <1>1, <1>6, <2>1 DEF ClockInv, Remove
  <1> QED
    BY <1>2, <1>3, <1>4, <1>5, <1>6, AloneHandler

\* The server gets what was written, and creates only what was not.
LEMMA HandlerKeepsKept ==
    ASSUME TypeOK, Alone, NEW w \in Procs, CallMatches(w), SessionInv(w), PartsInv(w),
           HandlerStep(w) \/ HandlerFault(w), UNCHANGED clientVars,
           NEW f \in Files, Kept(w, f)
    PROVE  Kept(w, f)'
  <1>0. /\ sfile \in [Files -> FileRec] /\ call[w].file \in Files
        /\ UNCHANGED <<path, disk, last, pc, file>> /\ ThereInv(w) /\ CallerInv(w)
    BY DEF TypeOK, ServerTypeOK, RequestRec, clientVars, PartsInv
  <1>1. CASE sfile'[f] = sfile[f]
    BY <1>0, <1>1, StillKept DEF Removing
  <1>2. CASE Create(w) /\ f = call[w].file
    <2>1. LastOf(w, f) = 0
      BY <1>0, <1>2 DEF Create, Serving, ThereInv
    <2> QED
      BY <1>0, <2>1 DEF Kept, LastOf, C
  <1>3. CASE StoreRename(w) /\ f = call[w].file
    <2>1. call[w].kind = "Store" /\ hpc[w] = "tmp" /\ sfile'[f].data = call[w].data
      BY <1>0, <1>3 DEF StoreRename, Serving
    <2>2. CASE pc[w] = "idle"
      <3>1. LastOf(w, f) = 0
        BY <1>0, <2>1, <2>2 DEF CallerInv
      <3> QED
        BY <1>0, <3>1 DEF Kept, LastOf, C
    <2>3. CASE pc[w] # "idle"
      <3>1. pc[w] = "store" /\ file[w] = f
        BY <1>0, <1>3, <2>1, <2>3 DEF CallerInv
      <3>2. call[w].data = LastOf(w, f)
        BY <3>1 DEF SessionInv, LastOf
      <3>3. LastOf(w, f)' = LastOf(w, f) /\ (Cached(C(w), f)' <=> Cached(C(w), f))
            /\ Copy(C(w), f)' = Copy(C(w), f)
        BY <1>0 DEF LastOf, C, Cached, Copy
      <3> QED
        BY <2>1, <3>2, <3>3 DEF Kept
    <2> QED
      BY <2>2, <2>3
  <1>4. CASE Create(w) /\ f # call[w].file
    <2>1. sfile'[f] = sfile[f]
      BY <1>0, <1>4 DEF Create
    <2> QED
      BY <1>1, <2>1
  <1>5. CASE StoreRename(w) /\ f # call[w].file
    <2>1. sfile'[f] = sfile[f]
      BY <1>0, <1>5 DEF StoreRename
    <2> QED
      BY <1>1, <2>1
  <1>6. CASE sfile' = sfile
    BY <1>1, <1>6
  <1>7. CASE Remove(w) /\ pc[w] \in {"remove", "idle"} /\ f = call[w].file
    <2>1. call[w].kind = "Remove" /\ hpc[w] = "call"
      BY <1>7 DEF Remove, Serving
    <2>2. CASE pc[w] = "idle"
      <3>1. LastOf(w, f) = 0
        BY <1>0, <2>1, <2>2 DEF CallerInv
      <3> QED
        BY <1>0, <3>1 DEF Kept, LastOf, C
    <2>3. CASE pc[w] = "remove"
      <3>1. Removing(w, f)'
        BY <1>0, <1>7, <2>1, <2>3 DEF CallerInv, Removing
      <3>2. LastOf(w, f)' = LastOf(w, f) /\ (Cached(C(w), f)' <=> Cached(C(w), f))
            /\ Copy(C(w), f)' = Copy(C(w), f)
        BY <1>0 DEF LastOf, C, Cached, Copy
      <3> QED
        BY <3>1, <3>2 DEF Kept
    <2> QED
      BY <1>7, <2>2, <2>3
  <1>8. CASE Remove(w) /\ f # call[w].file
    <2>1. sfile'[f] = sfile[f]
      BY <1>0, <1>8 DEF Remove
    <2> QED
      BY <1>1, <2>1
  <1> QED
    BY <1>2, <1>3, <1>4, <1>5, <1>6, <1>7, <1>8, AloneHandler DEF StoreWrite

LEMMA HandlerKeepsParts ==
    ASSUME TypeOK, TypeOK', Alone, NEW w \in Procs, CallMatches(w), PartsInv(w),
           HandlerStep(w) \/ HandlerFault(w), UNCHANGED clientVars
    PROVE  PartsInv(w)'
  <1> DEFINE f == file[w]
  <1>0. /\ sfile \in [Files -> FileRec] /\ call[w].file \in Files /\ f \in Files /\ sver \in Nat
        /\ hpc[w] \in {"call", "tmp", "renamed"} /\ call' = call
        /\ UNCHANGED <<path, disk, last, pc, file, auth>>
        /\ ThereInv(w) /\ ToldInv(w) /\ CallerInv(w)
    BY AloneHandler DEF TypeOK, ServerTypeOK, ClientTypeOK, RequestRec, clientVars, PartsInv
  <1>1. /\ C(w)' = C(w) /\ \A g \in Files : LastOf(w, g)' = LastOf(w, g)
        /\ \A g \in Files : Cached(C(w), g)' <=> Cached(C(w), g)
        /\ Copy(C(w), f)' = Copy(C(w), f)
        /\ \A g \in Files : Removing(w, g)' <=> Removing(w, g)
    BY <1>0 DEF C, LastOf, Cached, Copy, Removing
  <1>2. CASE /\ UNCHANGED <<clock, sfile, stmp>> /\ hpc[w] = "call" /\ hpc'[w] = "done"
             /\ call[w].kind \in {"TestAuth", "Fetch"} /\ reply'[w] = Report(call[w].file)
    <2>1. \A g \in Files : (Exists(g)' <=> Exists(g)) /\ Found(g)' = Found(g)
      BY <1>2 DEF Exists, Found
    <2>2. ThereInv(w)'
      BY <1>0, <1>1, <1>2, <2>1 DEF ThereInv, Report, CallerInv
    <2>3. ToldInv(w)'
      BY <1>0, <1>1, <1>2 DEF ToldInv, ThereInv, Report, CallerInv, Found
    <2>4. CallerInv(w)'
      BY <1>0, <1>1, <1>2 DEF CallerInv
    <2> QED
      BY <2>2, <2>3, <2>4 DEF PartsInv
  <1>3. CASE /\ Create(w) /\ hpc'[w] = "done" /\ call[w].kind = "Create"
             /\ pc[w] \notin {"auth", "fetch", "store"}
    <2>1. \A g \in Files : Exists(g) => Exists(g)'
      BY <1>0, <1>3 DEF Exists, Create
    <2>2. ThereInv(w)'
      BY <1>0, <1>1, <1>3, <2>1 DEF ThereInv, CallerInv
    <2>3. ToldInv(w)'
      BY <1>0, <1>1, <1>3 DEF ToldInv, CallerInv
    <2>4. CallerInv(w)'
      BY <1>0, <1>1, <1>3 DEF CallerInv
    <2> QED
      BY <2>2, <2>3, <2>4 DEF PartsInv
  <1>4. CASE StoreWrite(w) /\ hpc'[w] = "tmp" /\ call[w].kind = "Store"
    <2>1. sfile' = sfile /\ \A g \in Files : Exists(g)' <=> Exists(g)
      BY <1>4 DEF Exists, StoreWrite
    <2> QED
      BY <1>0, <1>1, <1>4, <2>1 DEF PartsInv, ThereInv, ToldInv, CallerInv
  <1>5. CASE StoreRename(w) /\ hpc'[w] = "renamed" /\ call[w].kind = "Store"
    <2>1. /\ \A g \in Files : Exists(g) => Exists(g)'
          /\ Exists(call[w].file)' /\ sfile'[call[w].file].data = call[w].data
      BY <1>0, <1>5 DEF Exists, StoreRename
    <2>2. pc[w] \in {"idle", "store"}
      BY <1>0, <1>5 DEF CallerInv
    <2>3. pc[w] = "store" => call[w].file = f
      BY <1>0 DEF CallerInv
    <2>4. ThereInv(w)'
      BY <1>0, <1>1, <1>5, <2>1, <2>2 DEF ThereInv
    <2>5. ToldInv(w)'
      BY <1>0, <1>1, <1>5, <2>1, <2>2, <2>3 DEF ToldInv
    <2>6. CallerInv(w)'
      BY <1>0, <1>1, <1>5 DEF CallerInv
    <2> QED
      BY <2>4, <2>5, <2>6 DEF PartsInv
  <1>6. CASE /\ UNCHANGED <<clock, sfile, stmp>> /\ hpc'[w] = "done" /\ call[w].kind = "Store"
             /\ hpc[w] = "renamed" \/ pc[w] = "idle"
    <2>1. \A g \in Files : Exists(g)' <=> Exists(g)
      BY <1>6 DEF Exists
    <2>2. pc[w] \in {"idle", "store"}
      BY <1>0, <1>6 DEF CallerInv
    <2> QED
      BY <1>0, <1>1, <1>6, <2>1, <2>2 DEF PartsInv, ThereInv, ToldInv, CallerInv
  <1>7. CASE /\ Remove(w) /\ hpc[w] = "call" /\ hpc'[w] = "done" /\ call[w].kind = "Remove"
             /\ pc[w] \in {"remove", "idle"} /\ reply'[w].st = Found(call[w].file)
    <2>1. ASSUME NEW g \in Files, g # call[w].file PROVE Exists(g)' <=> Exists(g)
      BY <1>0, <1>7, <2>1 DEF Exists, Remove
    <2>2. CASE pc[w] = "idle"
      <3>1. \A g \in Files : ~Cached(C(w), g)
        BY <1>0, <1>7, <2>2 DEF CallerInv
      <3> QED
        BY <1>0, <1>1, <1>7, <2>2, <3>1 DEF PartsInv, ThereInv, ToldInv, CallerInv
    <2>3. CASE pc[w] = "remove"
      <3>1. call[w].file = f /\ \A g \in Files : Removing(w, g) <=> g = f
        BY <1>0, <1>7, <2>3 DEF CallerInv, Removing
      <3>2. Cached(C(w), f) => reply'[w].st = "ok"
        BY <1>0, <1>7, <3>1 DEF ThereInv, Found
      <3>3. ThereInv(w)'
        BY <1>0, <1>1, <1>7, <2>1, <2>3, <3>1, <3>2 DEF ThereInv
      <3> QED
        BY <1>0, <1>1, <1>7, <2>3, <3>3 DEF PartsInv, ToldInv, CallerInv
    <2> QED
      BY <1>7, <2>2, <2>3
  <1> HIDE DEF f
  <1> QED
    BY <1>2, <1>3, <1>4, <1>5, <1>6, <1>7, AloneHandler

\* A call that fails with its server leaves everything as it is.
LEMMA ServerCrashKeepsParts ==
    ASSUME TypeOK, TypeOK', NEW p \in Procs, PartsInv(p), Crash \/ Restart, UNCHANGED clientVars
    PROVE  PartsInv(p)'
  <1>0. /\ UNCHANGED <<sfile, call, reply, path, disk, last, pc, file, auth>>
        /\ hpc \in [Procs -> {"none", "call", "tmp", "renamed", "statfail", "done", "failed"}]
        /\ file[p] \in Files /\ call[p].file \in Files
        /\ ThereInv(p) /\ ToldInv(p) /\ CallerInv(p)
    BY DEF Crash, Restart, clientVars, PartsInv, TypeOK, ServerTypeOK, ClientTypeOK, RequestRec
  <1>1. hpc'[p] = hpc[p] \/ (hpc[p] # "none" /\ hpc'[p] = "failed")
    BY <1>0 DEF Crash, Restart
  <1>2. /\ C(p)' = C(p) /\ \A g \in Files : LastOf(p, g)' = LastOf(p, g)
        /\ \A g \in Files : Cached(C(p), g)' <=> Cached(C(p), g)
        /\ \A g \in Files : (Exists(g)' <=> Exists(g)) /\ Found(g)' = Found(g)
        /\ Copy(C(p), file[p])' = Copy(C(p), file[p])
        /\ \A g \in Files : Removing(p, g)' <=> Removing(p, g)
    BY <1>0 DEF C, LastOf, Cached, Copy, Exists, Found, Removing
  <1>3. ThereInv(p)'
    BY <1>0, <1>1, <1>2 DEF ThereInv
  <1>4. ToldInv(p)'
    BY <1>0, <1>1, <1>2 DEF ToldInv
  <1>5. CallerInv(p)'
    BY <1>0, <1>1, <1>2 DEF CallerInv
  <1> QED
    BY <1>3, <1>4, <1>5 DEF PartsInv

LEMMA ClientCrashKeepsAlone ==
    ASSUME TypeOK, TypeOK', NEW p \in Procs, PartsInv(p), \A f \in Files : Kept(p, f),
           NEW d \in Clients, ClientCrash(d)
    PROVE  PartsInv(p)' /\ \A f \in Files : Kept(p, f)'
  <1>0. /\ UNCHANGED <<sfile, call, reply, hpc, disk, file, auth>> /\ C(p)' = C(p) /\ C(p) \in Clients
        /\ pc \in [Procs -> PCs] /\ last \in [Clients -> [Files -> Nat]]
        /\ path \in [Clients -> [Files -> Inodes \cup {NoInode}]]
        /\ ThereInv(p) /\ ToldInv(p) /\ CallerInv(p)
        /\ file[p] \in Files /\ call[p].file \in Files
    BY ClientOfType DEF ClientCrash, serverVars, C, PartsInv, TypeOK, ClientTypeOK, ServerTypeOK,
                        RequestRec
  <1>1. \A g \in Files : (Exists(g)' <=> Exists(g)) /\ Found(g)' = Found(g)
    BY <1>0 DEF Exists, Found
  <1>2. CASE d = C(p)
    <2>1. /\ pc'[p] = "idle"
          /\ \A g \in Files : last'[C(p)][g] = 0 /\ path'[C(p)][g] = NoInode
      BY <1>0, <1>2 DEF ClientCrash, C
    <2>2. \A g \in Files : LastOf(p, g)' = 0 /\ ~Cached(C(p), g)'
      BY <1>0, <2>1 DEF LastOf, Cached
    <2>3. PartsInv(p)'
      BY <1>0, <1>1, <2>1, <2>2 DEF PartsInv, ThereInv, ToldInv, CallerInv
    <2> QED
      BY <2>2, <2>3 DEF Kept
  <1>3. CASE d # C(p)
    <2>1. pc'[p] = pc[p] /\ last'[C(p)] = last[C(p)] /\ path'[C(p)] = path[C(p)]
      BY <1>0, <1>3 DEF ClientCrash, C
    <2>2. /\ \A g \in Files : LastOf(p, g)' = LastOf(p, g)
          /\ \A g \in Files : Cached(C(p), g)' <=> Cached(C(p), g)
          /\ \A g \in Files : Copy(C(p), g)' = Copy(C(p), g)
          /\ \A g \in Files : Removing(p, g)' <=> Removing(p, g)
      BY <1>0, <2>1 DEF LastOf, Cached, Copy, Removing
    <2>3. PartsInv(p)'
      BY <1>0, <1>1, <2>1, <2>2 DEF PartsInv, ThereInv, ToldInv, CallerInv
    <2> QED
      BY <1>0, <2>2, <2>3 DEF Kept
  <1> QED
    BY <1>2, <1>3

LEMMA ProcKeepsClock ==
    ASSUME TypeOK, Alone, ClockInv, NEW p \in Procs, CallerInv(p),
           pc[p] # "remove", StartOp(p) \/ ProcStep(p) \/ Write(p) \/ Discard(p)
    PROVE  ClockInv'
  <1>1. sfile' = sfile
    BY AloneStart, StepFrame
  <1>2. clock \in Nat /\ clock' \in Nat /\ clock <= clock' /\ stmp' = stmp
    BY StartClock, StepClock
  <1>3. (\A f \in Files : sfile[f].mtime \in Nat) /\ \A q \in Procs : stmp[q] \in Nat
    BY DEF TypeOK, ServerTypeOK, FileRec
  <1> QED
    BY <1>1, <1>2, <1>3 DEF ClockInv

LEMMA AloneInvInit == Init => AloneInv
  <1> SUFFICES ASSUME Init PROVE AloneInv
    OBVIOUS
  <1>0. FetchInv /\ StableInv
    BY FetchInvInit, StableInvInit
  <1>1. CloseInv
    BY <1>0 DEF StableInv, CloseInv, Init, ClientInit, SessionInv
  <1>2. ClockInv
    BY DEF Init, ServerInit, ClockInv, Absent
  <1>3. ASSUME NEW p \in Procs PROVE PartsInv(p) /\ \A f \in Files : Kept(p, f)
    <2>1. C(p) \in Clients
      BY ClientOfType
    <2>2. \A f \in Files : LastOf(p, f) = 0 /\ ~Cached(C(p), f)
      BY <2>1 DEF Init, ClientInit, LastOf, Cached
    <2>3. pc[p] = "idle" /\ hpc[p] = "none"
      BY DEF Init, ServerInit, ClientInit
    <2> QED
      BY <2>2, <2>3 DEF PartsInv, ThereInv, ToldInv, CallerInv, Kept
  <1> QED
    BY <1>0, <1>1, <1>2, <1>3 DEF AloneInv

LEMMA AloneInvNext ==
    ASSUME Alone, AloneInv, [Next]_vars PROVE AloneInv'
  <1>0. FetchInv' /\ CloseInv' /\ StableInv'
    BY FetchInvNext, CloseInvNext, StableInvNext DEF AloneInv, Alone, SerialClients
  <1>1. /\ TypeOK /\ TypeOK' /\ ClockInv /\ NamesInv
        /\ \A p \in Procs : CallMatches(p) /\ SessionInv(p) /\ PartsInv(p) /\ CallerInv(p)
        /\ \A p \in Procs : \A f \in Files : Kept(p, f)
    BY <1>0 DEF AloneInv, FetchInv, CloseInv, StableInv, ProcInv, PartsInv
  <1>2. \A p, q \in Procs : p = q
    BY DEF Alone
  <1>3. CASE \E q \in Procs : StartOp(q) \/ ProcStep(q) \/ Write(q) \/ Discard(q)
    <2>1. PICK q \in Procs : StartOp(q) \/ ProcStep(q) \/ Write(q) \/ Discard(q)
      BY <1>3
    <2>2. \A p \in Procs : p = q
      BY <1>2
    <2>3. CASE pc[q] = "remove"
      <3>1. RemoveReply(q)
        BY <1>1, <2>1, <2>3, RemoveStep
      <3>2. ClockInv' /\ PartsInv(q)' /\ \A f \in Files : Kept(q, f)'
        BY <1>1, <3>1, RemoveKeepsAlone
      <3> QED
        BY <1>0, <2>2, <3>2 DEF AloneInv
    <2>4. CASE pc[q] # "remove"
      <3>1. ClockInv'
        BY <1>1, <2>1, <2>4, ProcKeepsClock
      <3>2. PartsInv(q)'
        BY <1>1, <2>1, <2>4, StartKeepsParts, StepKeepsParts
      <3>3. \A f \in Files : Kept(q, f)'
        BY <1>1, <2>1, <2>4, ProcKeepsKept
      <3> QED
        BY <1>0, <2>2, <3>1, <3>2, <3>3 DEF AloneInv
    <2> QED
      BY <2>3, <2>4
  <1>4. CASE /\ \E q \in Procs : HandlerStep(q) \/ HandlerFault(q)
             /\ UNCHANGED clientVars
    <2>1. PICK q \in Procs : HandlerStep(q) \/ HandlerFault(q)
      BY <1>4
    <2>2. ClockInv'
      BY <1>1, <2>1, HandlerKeepsClock
    <2>3. PartsInv(q)'
      BY <1>1, <1>4, <2>1, HandlerKeepsParts
    <2>4. \A f \in Files : Kept(q, f)'
      BY <1>1, <1>4, <2>1, HandlerKeepsKept
    <2>5. \A p \in Procs : p = q
      BY <1>2
    <2> QED
      BY <1>0, <2>2, <2>3, <2>4, <2>5 DEF AloneInv
  <1>5. CASE (Crash \/ Restart) /\ UNCHANGED clientVars
    <2>1. UNCHANGED <<clock, sfile, stmp, path, disk, last, pc, file>>
      BY <1>5 DEF Crash, Restart, clientVars
    <2>2. ClockInv'
      BY <1>1, <2>1 DEF ClockInv
    <2>3. \A p \in Procs : PartsInv(p)'
      BY <1>1, <1>5, ServerCrashKeepsParts
    <2>4. \A p \in Procs : \A f \in Files : Kept(p, f)'
      BY <1>1, <2>1, StillKept DEF Removing
    <2> QED
      BY <1>0, <2>2, <2>3, <2>4 DEF AloneInv
  <1>6. CASE \E c \in Clients : ClientCrash(c)
    <2>1. ClockInv'
      BY <1>1, <1>6 DEF ClientCrash, serverVars, ClockInv
    <2>2. \A p \in Procs : PartsInv(p)' /\ \A f \in Files : Kept(p, f)'
      BY <1>1, <1>6, ClientCrashKeepsAlone
    <2> QED
      BY <1>0, <2>1, <2>2 DEF AloneInv
  <1>7. CASE UNCHANGED vars
    <2>1. UNCHANGED serverVars /\ UNCHANGED clientVars
      BY <1>7 DEF vars
    <2>2. ClockInv' /\ \A p \in Procs : \A f \in Files : Kept(p, f)'
      BY <1>1, <2>1, StillKept DEF serverVars, clientVars, ClockInv, Removing
    <2>3. \A p \in Procs : PartsInv(p)'
      BY <1>1, <2>1 DEF serverVars, clientVars, PartsInv, ThereInv, ToldInv, CallerInv, Removing, LastOf,
                        Cached, Copy, Exists, Found, C
    <2> QED
      BY <1>0, <2>2, <2>3 DEF AloneInv
  <1> QED
    BY <1>3, <1>4, <1>5, <1>6, <1>7 DEF Next, CrashClient

LEMMA AloneInvImplies == AloneInv => ReadYourWrites
  <1> SUFFICES ASSUME AloneInv, NEW p \in Procs, pc[p] = "session", last[C(p)][file[p]] # 0
               PROVE  disk[C(p)][handle[p]].data = last[C(p)][file[p]]
    BY DEF ReadYourWrites
  <1>1. file[p] \in Files /\ handle[p] = path[C(p)][file[p]]
    BY DEF AloneInv, CloseInv, SessionInv, TypeOK, ClientTypeOK
  <1>2. Copy(C(p), file[p]).data = LastOf(p, file[p])
    BY <1>1 DEF AloneInv, Kept, LastOf
  <1> QED
    BY <1>1, <1>2 DEF Copy, LastOf

\* What a client reads after opening a file is what it last wrote to it since it last
\* removed it, whatever calls of the server were lost: the cached file that could not be
\* stored is never replaced by an older one.  For one process, any number of files and
\* crashes of both sides, a client clock that is not behind the server's, handlers that do
\* not fail, and every operation but rename.
THEOREM WritesAreReadBack == ASSUME Alone PROVE Spec => []ReadYourWrites
  <1>1. Init => AloneInv
    BY AloneInvInit
  <1>2. AloneInv /\ [Next]_vars => AloneInv'
    BY AloneInvNext, Alone
  <1>3. AloneInv => ReadYourWrites
    BY AloneInvImplies
  <1> QED
    BY <1>1, <1>2, <1>3, PTL DEF Spec

=============================================================================
