----------------------------- MODULE TurnsProofs -----------------------------
(***************************************************************************)
(* Theorems about clients that take turns in modifying a file: what the    *)
(* modification times tell them.  A client compares the time its copy was  *)
(* stamped with to the time the server reports; this orders versions only  *)
(* if no two versions of a file have the same time, if the later one has   *)
(* the later time, and if the time is not moved with a content to another  *)
(* name.  Hence the hypotheses: one thread per client, turns, nobody       *)
(* beside a crashed client's orphaned call, no two stamps within one tick, *)
(* and no rename.                                                          *)
(***************************************************************************)
EXTENDS SessionProofs

TakingTurns ==
    /\ SerialClients
    /\ Exclusive
    /\ ClockSteps \subseteq Nat \ {0}
    /\ "rename" \notin Ops

-----------------------------------------------------------------------------
(* The invariant.                                                          *)

\* The version and the time of a file as someone recorded them, compared to those of r.
Behind(v, m, r) == (v < r.ver /\ m < r.mtime) \/ (v = r.ver /\ m = r.mtime)

Storing(w, f) == hpc[w] = "tmp" /\ call[w].file = f

\* Version v of f, and its time m, may have been recorded: they are at or behind those
\* of the file on the server, and behind those of a store that is about to replace it.
Recorded(f, v, m) ==
    /\ v <= sver /\ m <= clock
    /\ Exists(f) => Behind(v, m, sfile[f])
    /\ \A w \in Procs : Storing(w, f) => m < stmp[w]

FileInv(f) ==
    /\ IF Exists(f) THEN sfile[f].mtime > 0 ELSE sfile[f].mtime = 0
    /\ Recorded(f, sfile[f].ver, sfile[f].mtime)

TimesInv ==
    /\ \A f \in Files : FileInv(f)
    /\ \A w \in Procs : stmp[w] <= clock

AnswerRecorded(p) == Recorded(file[p], reply[p].ver, reply[p].mtime)
StoreRecorded(p) == Recorded(file[p], reply[p].of, reply[p].mtime)
AuthRecorded(p) == Recorded(file[p], auth[p].ver, auth[p].mtime)
CopyRecorded(c, f) == Recorded(f, Copy(c, f).stamp, Copy(c, f).mtime)

\* p has changed its copy and not stored it yet.
Modifying(p) == (pc[p] = "session" /\ dirty[p]) \/ pc[p] \in {"sread", "store"}

\* A process makes calls about its own file, and modifying ones in its turn.
CallInv(p) ==
    /\ op[p] # "rename" /\ pc[p] # "rename" /\ file2[p] = file[p]
    /\ hpc[p] # "none" =>
          /\ call[p].file = file[p] /\ call[p].kind # "Rename"
          /\ call[p].kind \in {"Store", "Create", "Remove"} => op[p] \in ModOps
    /\ hpc[p] \in {"tmp", "renamed", "statfail"} => call[p].kind = "Store"
    /\ Modifying(p) => op[p] \in ModOps
    /\ pc[p] = "store" => hpc[p] # "none" /\ call[p].kind = "Store"

\* q is modifying f, or an orphaned call of it is.
Occupies(q, f) == ~Quiet(q) /\ op[q] \in ModOps /\ f \in {file[q], file2[q]}

OneModifier == \A p, q \in Procs, f \in Files : Occupies(p, f) /\ Occupies(q, f) => p = q

\* What a process was told is on record, and until it decides whether its copy is good
\* enough the copy is not ahead of what it was told.
ReplyInv(p) ==
    /\ hpc[p] = "done" /\ call[p].kind = "TestAuth" =>
          /\ AnswerRecorded(p)
          /\ reply[p].st = "ok" => reply[p].ver > 0
    /\ hpc[p] = "done" /\ call[p].kind = "Store" =>
          StoreRecorded(p) /\ reply[p].of <= reply[p].ver
    /\ hpc[p] = "renamed" /\ Exists(file[p]) => sfile[file[p]].ver <= reply[p].ver
    /\ pc[p] = "auth" /\ hpc[p] = "done" /\ reply[p].st = "ok" /\ Cached(C(p), file[p])
       /\ Copy(C(p), file[p]).by # "clock" =>
          Behind(Copy(C(p), file[p]).stamp, Copy(C(p), file[p]).mtime, reply[p])

CheckInv(p) ==
    /\ pc[p] \in {"check", "fetch", "stamp"} /\ auth[p].ver > 0 =>
          AuthRecorded(p)
    /\ pc[p] \in {"fetch", "stamp"} => auth[p].ver > 0
    /\ pc[p] = "check" /\ auth[p].ver = 0 => Fresh(p)
    /\ pc[p] = "check" /\ auth[p].ver > 0 /\ Cached(C(p), file[p])
       /\ Copy(C(p), file[p]).by # "clock" =>
          Behind(Copy(C(p), file[p]).stamp, Copy(C(p), file[p]).mtime, auth[p])

\* The time of a copy is that of a version no later than its content's, unless it was
\* changed locally or is about to be stamped.
CopyInv(c, f) ==
    /\ Copy(c, f).by # "clock" => CopyRecorded(c, f)
    /\ Copy(c, f).by = "clock" /\ Copy(c, f).ver > 0 =>
          \E p \in Procs : C(p) = c /\ pc[p] = "stamp" /\ file[p] = f
    /\ Copy(c, f).by = "store" /\ Copy(c, f).ver > 0 => Copy(c, f).stamp <= Copy(c, f).ver
    /\ \A p \in Procs :
          C(p) = c /\ file[p] = f /\ Modifying(p) => Copy(c, f).ver = 0

TurnInv(p) == CallInv(p) /\ ReplyInv(p) /\ CheckInv(p)

TurnsInv ==
    /\ FetchInv /\ CloseInv /\ StableInv
    /\ TimesInv /\ OneModifier
    /\ \A p \in Procs : TurnInv(p)
    /\ \A c \in Clients, f \in Files : Cached(c, f) => CopyInv(c, f)

-----------------------------------------------------------------------------
(* What is on record stays on record.                                      *)

\* What a process does to its call: nothing, it takes the answer, or it makes a call
\* about its own file.
CallStep(p) ==
    \/ call'[p] = call[p] /\ hpc'[p] \in {hpc[p], "none"} /\ (file'[p] = file[p] \/ hpc'[p] = "none")
    \/ /\ hpc'[p] \in {"call", "failed"} /\ call'[p].file = file'[p] /\ call'[p].kind # "Rename"
       /\ call'[p].kind \in {"Store", "Create", "Remove"} => op'[p] \in ModOps

LEMMA TimePasses ==
    ASSUME TypeOK, ClockSteps \subseteq Nat, NEW t \in Stamps PROVE t \in Nat /\ clock <= t
  BY DEF Stamps, TypeOK, ServerTypeOK

LEMMA LaterStamp ==
    ASSUME TypeOK, TakingTurns, NEW t \in Stamps PROVE t \in Nat /\ clock < t
  BY DEF Stamps, TypeOK, ServerTypeOK, TakingTurns

LEMMA StartClock ==
    ASSUME TypeOK, NEW p \in Procs, StartOp(p)
    PROVE  /\ clock \in Nat /\ clock' \in Nat /\ clock <= clock' /\ stmp' = stmp
  <1>0. clock \in Nat
    BY DEF TypeOK, ServerTypeOK
  <1>1. CASE \E f \in Files : StartTruncate(p, f)
    BY <1>0, <1>1, TimePasses, ClockStepsAssumption DEF StartTruncate
  <1>2. CASE ~\E f \in Files : StartTruncate(p, f)
    BY <1>0, <1>2 DEF StartOp, StartFetch, StartLookup, StartUnlink, StartRename
  <1> QED
    BY <1>1, <1>2

LEMMA StepClock ==
    ASSUME TypeOK, NEW p \in Procs, ProcStep(p) \/ Write(p) \/ Discard(p)
    PROVE  /\ clock \in Nat /\ clock' \in Nat /\ clock <= clock' /\ stmp' = stmp
  <1>0. clock \in Nat
    BY DEF TypeOK, ServerTypeOK
  <1>1. stmp' = stmp /\ (clock' = clock \/ \E t \in Stamps : clock' = t)
    <2>1. CASE OpenLocal(p)
      BY <2>1 DEF OpenLocal
    <2>2. CASE Write(p)
      BY <2>2 DEF Write
    <2>3. CASE ~OpenLocal(p) /\ ~Write(p)
      BY <2>3 DEF ProcStep, CreateReply, AuthReply, CheckCache, FetchReply, Stamp, Close, StoreRead,
                  StoreReply, RemoveReply, RenameReply, Discard, serverVars
    <2> QED
      BY <2>1, <2>2, <2>3
  <1> QED
    BY <1>0, <1>1, TimePasses, ClockStepsAssumption

LEMMA StartCalls ==
    ASSUME TypeOK, TakingTurns, NEW p \in Procs, StartOp(p)
    PROVE  /\ CallStep(p) /\ hpc[p] = "none" /\ pc[p] = "idle"
           /\ op'[p] # "rename" /\ file2'[p] = file'[p]
           /\ pc'[p] = "auth" => hpc'[p] \in {"call", "failed"}
           /\ pc'[p] \in {"auth", "remove", "sread"}
           /\ pc'[p] = "sread" => op'[p] \in ModOps
           /\ dirty' = dirty /\ reply' = reply /\ auth' = auth
           /\ op'[p] \in ModOps => Turn(p, file'[p])
  <1> USE DEF Begin, Goto, Issue, Request, CallStep, ModOps, Quiet, Occupies
  <1>0. /\ pc \in [Procs -> PCs] /\ op \in [Procs -> AllOps] /\ file \in [Procs -> Files]
        /\ file2 \in [Procs -> Files] /\ call \in [Procs -> RequestRec]
        /\ hpc \in [Procs -> {"none", "call", "tmp", "renamed", "statfail", "done", "failed"}]
        /\ "rename" \notin Ops
    BY DEF TypeOK, ServerTypeOK, ClientTypeOK, TakingTurns
  <1>1. CASE \E f \in Files, o \in {"stat", "read"} : StartFetch(p, o, f)
    BY <1>0, <1>1 DEF StartFetch
  <1>2. CASE \E f \in Files : Turn(p, f) /\ StartFetch(p, "write", f)
    BY <1>0, <1>2 DEF StartFetch
  <1>3. CASE \E f \in Files : Turn(p, f) /\ StartLookup(p, f)
    BY <1>0, <1>3 DEF StartLookup
  <1>4. CASE \E f \in Files : Turn(p, f) /\ StartTruncate(p, f)
    BY <1>0, <1>4 DEF StartTruncate
  <1>5. CASE \E f \in Files : Turn(p, f) /\ StartUnlink(p, f)
    BY <1>0, <1>5 DEF StartUnlink
  <1>6. CASE \E f, g \in Files : StartRename(p, f, g)
    BY <1>0, <1>6 DEF StartRename
  <1> QED
    BY <1>1, <1>2, <1>3, <1>4, <1>5, <1>6 DEF StartOp

LEMMA StepCalls ==
    ASSUME TypeOK, NEW p \in Procs, CallInv(p), ProcStep(p) \/ Write(p) \/ Discard(p)
    PROVE  /\ CallStep(p) /\ ~Quiet(p)
           /\ file'[p] = file[p] /\ file2'[p] = file2[p]
           /\ op'[p] # "rename" /\ pc'[p] # "rename"
           /\ op'[p] \in ModOps <=> op[p] \in ModOps
           /\ pc'[p] = "auth" => hpc'[p] \in {"call", "failed"}
           /\ Modifying(p)' => op'[p] \in ModOps
           /\ pc'[p] = "store" => hpc'[p] # "none" /\ call'[p].kind = "Store"
           /\ reply' = reply
  <1> USE DEF Goto, Issue, Release, Request, CallStep, ModOps, Quiet, CallInv, Modifying
  <1>0. /\ pc \in [Procs -> PCs] /\ op \in [Procs -> AllOps] /\ file \in [Procs -> Files]
        /\ file2 \in [Procs -> Files] /\ call \in [Procs -> RequestRec]
        /\ dirty \in [Procs -> BOOLEAN]
        /\ hpc \in [Procs -> {"none", "call", "tmp", "renamed", "statfail", "done", "failed"}]
    BY DEF TypeOK, ServerTypeOK, ClientTypeOK
  <1>1. ASSUME NEW st, FetchFails(p, st), dirty' = dirty, file' = file
        PROVE  /\ CallStep(p) /\ op'[p] # "rename" /\ (op'[p] \in ModOps <=> op[p] \in ModOps)
               /\ pc'[p] \in {"idle", "create"}
    BY <1>0, <1>1 DEF FetchFails, Creat
  <1>2. CASE CreateReply(p)
    BY <1>0, <1>2 DEF CreateReply
  <1>3. CASE AuthReply(p)
    BY <1>0, <1>1, <1>3 DEF AuthReply
  <1>4. CASE CheckCache(p)
    BY <1>0, <1>4 DEF CheckCache
  <1>5. CASE FetchReply(p)
    BY <1>0, <1>1, <1>5 DEF FetchReply
  <1>6. CASE Stamp(p)
    BY <1>0, <1>1, <1>6 DEF Stamp
  <1>7. CASE OpenLocal(p)
    BY <1>0, <1>7 DEF OpenLocal, Creat
  <1>8. CASE Close(p)
    BY <1>0, <1>8 DEF Close, serverVars
  <1>9. CASE StoreRead(p)
    BY <1>0, <1>9 DEF StoreRead
  <1>10. CASE StoreReply(p) \/ RemoveReply(p) \/ RenameReply(p)
    BY <1>0, <1>10 DEF StoreReply, RemoveReply, RenameReply
  <1>11. CASE Write(p)
    BY <1>0, <1>11 DEF Write
  <1>12. CASE Discard(p)
    BY <1>0, <1>12 DEF Discard, clientVars, Answered
  <1> QED
    BY <1>2, <1>3, <1>4, <1>5, <1>6, <1>7, <1>8, <1>9, <1>10, <1>11, <1>12 DEF ProcStep

LEMMA ProcKeepsRecorded ==
    ASSUME TypeOK, TypeOK', NEW p \in Procs, CallFrame(p), CallStep(p), stmp' = stmp,
           clock <= clock', NEW f \in Files, NEW v \in Nat, NEW m \in Int, Recorded(f, v, m)
    PROVE  Recorded(f, v, m)'
  <1>1. clock \in Nat /\ clock' \in Nat /\ UNCHANGED <<sver, sfile>>
    BY DEF TypeOK, ServerTypeOK, CallFrame
  <1>2. \A w \in Procs : hpc'[w] = "tmp" => hpc[w] = "tmp" /\ call'[w] = call[w]
    BY DEF CallFrame, CallStep
  <1> QED
    BY <1>1, <1>2 DEF Recorded, Storing, Exists, Behind

\* Who begins to modify a file, in turn and when no orphaned call is left, has it alone.
LEMMA TakesTurn ==
    ASSUME TypeOK, TakingTurns, OrphansWaitedFor, NEW p \in Procs, StartOp(p), op'[p] \in ModOps
    PROVE  \A q \in Procs \ {p} : ~Occupies(q, file'[p])
  <1>1. pc[p] = "idle" /\ pc'[p] # "idle" /\ Turn(p, file'[p])
    BY StartCalls
  <1>2. ASSUME NEW q \in Procs \ {p}
        PROVE  ~Modifies(q, file'[p]) /\ ~Orphaned(q, file'[p])
    BY <1>1 DEF Turn, TakingTurns, OrphansWaitedFor
  <1> QED
    BY <1>2 DEF Occupies, Modifies, Orphaned, Quiet

\* The handler of a modifying call works on its caller's file, in its caller's turn.
LEMMA HandlersTurn ==
    ASSUME TypeOK, OneModifier, \A p \in Procs : CallInv(p),
           NEW w \in Procs, hpc[w] # "none", call[w].kind \in {"Store", "Create", "Remove"}
    PROVE  /\ call[w].file = file[w] /\ file[w] \in Files
           /\ \A q \in Procs : Occupies(q, file[w]) => q = w
           /\ \A q \in Procs : Storing(q, file[w]) => q = w
           /\ \A q \in Procs :
                 hpc[q] \in {"tmp", "renamed", "statfail"} /\ file[q] = file[w] => q = w
  <1>1. call[w].file = file[w] /\ file[w] \in Files /\ Occupies(w, file[w])
    BY DEF CallInv, Occupies, Quiet, TypeOK, ClientTypeOK
  <1>2. ASSUME NEW q \in Procs, hpc[q] \in {"tmp", "renamed", "statfail"}
        PROVE  call[q].file = file[q] /\ Occupies(q, file[q])
    BY <1>2 DEF CallInv, Occupies, Quiet
  <1> QED
    BY <1>1, <1>2 DEF OneModifier, Storing

\* What the handlers do to the files: ...
Installs(w) ==
    LET new == sfile'[file[w]]
    IN  /\ \A g \in Files \ {file[w]} : sfile'[g] = sfile[g]
        /\ new.ver = sver + 1 /\ sver' = sver + 1
        /\ new.mtime <= clock' /\ clock <= clock'
        /\ clock < new.mtime \/ (hpc[w] = "tmp" /\ new.mtime = stmp[w])

Removes(w) == sfile' = [sfile EXCEPT ![file[w]] = Absent] /\ sver' = sver

LEMMA HandlerEffect ==
    ASSUME TypeOK, TakingTurns, TimesInv, \A p \in Procs : CallInv(p), NEW w \in Procs,
           HandlerStep(w) \/ HandlerFault(w)
    PROVE  /\ hpc[w] # "none" /\ hpc'[w] # "none" /\ clock <= clock'
           /\ \/ UNCHANGED <<sver, sfile, clock, stmp>> /\ hpc'[w] # "tmp"
              \/ /\ call[w].kind = "Store" /\ UNCHANGED <<sver, sfile>>
                 /\ hpc[w] = "call" /\ hpc'[w] = "tmp"
                 /\ clock < clock' /\ stmp' = [stmp EXCEPT ![w] = clock']
              \/ /\ call[w].kind \in {"Store", "Create", "Remove"} /\ stmp' = stmp
                 /\ hpc'[w] # "tmp"
                 /\ Installs(w) \/ (Removes(w) /\ clock' = clock)
  <1> USE DEF Serving, Answer, HandlerFault
  <1>0. /\ clock \in Nat /\ file[w] \in Files /\ call[w] \in RequestRec /\ stmp[w] \in Nat
        /\ hpc \in [Procs -> {"none", "call", "tmp", "renamed", "statfail", "done", "failed"}]
        /\ stmp[w] <= clock
        /\ hpc[w] # "none" => call[w].file = file[w] /\ call[w].kind # "Rename"
    BY DEF TypeOK, ServerTypeOK, ClientTypeOK, TimesInv, CallInv
  <1>1. CASE TestAuth(w) \/ Fetch(w) \/ StoreStat(w) \/ HandlerFault(w)
    BY <1>0, <1>1 DEF TestAuth, Fetch, StoreStat, StoreAbort, HandlerError
  <1>2. CASE Create(w)
    <2>1. PICK t \in Stamps :
            /\ clock' = t /\ sver' = sver + 1
            /\ sfile' = [sfile EXCEPT ![call[w].file] = [data |-> 0, mtime |-> t, ver |-> sver + 1]]
      BY <1>2 DEF Create
    <2>2. t \in Nat /\ clock < t
      BY LaterStamp
    <2>3. /\ hpc[w] = "call" /\ hpc'[w] = "done" /\ call[w].kind = "Create" /\ stmp' = stmp
          /\ call[w].file = file[w]
      BY <1>0, <1>2 DEF Create
    <2>4. Installs(w)
      BY <1>0, <2>1, <2>2, <2>3 DEF Installs, TypeOK, ServerTypeOK
    <2> QED
      BY <1>0, <2>1, <2>2, <2>3, <2>4
  <1>3. CASE Remove(w) \/ StoreUnlink(w)
    BY <1>0, <1>3 DEF Remove, StoreUnlink, Removes
  <1>4. CASE StoreWrite(w)
    <2>1. PICK t \in Stamps : clock' = t /\ stmp' = [stmp EXCEPT ![w] = t]
      BY <1>4 DEF StoreWrite
    <2>2. t \in Nat /\ clock < t
      BY LaterStamp
    <2> QED
      BY <1>0, <1>4, <2>1, <2>2 DEF StoreWrite
  <1>5. CASE StoreRename(w)
    <2>1. /\ hpc[w] = "tmp" /\ hpc'[w] = "renamed" /\ call[w].kind = "Store" /\ stmp' = stmp
          /\ call[w].file = file[w] /\ clock' = clock /\ sver' = sver + 1
          /\ sfile' = [sfile EXCEPT ![file[w]] =
                          [data |-> call[w].data, mtime |-> stmp[w], ver |-> sver + 1]]
      BY <1>0, <1>5 DEF StoreRename
    <2>2. call[w].data \in Nat
      BY <1>0 DEF RequestRec
    <2>3. Installs(w)
      BY <1>0, <2>1, <2>2 DEF Installs, TypeOK, ServerTypeOK
    <2> QED
      BY <1>0, <2>1, <2>3
  <1>6. ~Rename(w)
    BY <1>0 DEF Rename
  <1> QED
    BY <1>1, <1>2, <1>3, <1>4, <1>5, <1>6 DEF HandlerStep

\* ... they leave what is on record on record, ...
LEMMA HandlerKeepsRecorded ==
    ASSUME TypeOK, TypeOK', TakingTurns, TimesInv, OneModifier, \A p \in Procs : CallInv(p),
           NEW w \in Procs, HandlerStep(w) \/ HandlerFault(w),
           NEW f \in Files, NEW v \in Nat, NEW m \in Int, Recorded(f, v, m)
    PROVE  Recorded(f, v, m)'
  <1>0. /\ clock \in Nat /\ clock' \in Nat /\ clock <= clock' /\ sver \in Nat /\ sver' \in Nat
        /\ sfile \in [Files -> FileRec] /\ sfile' \in [Files -> FileRec] /\ stmp \in [Procs -> Nat] /\ file[w] \in Files
        /\ hpc[w] # "none" /\ call' = call
        /\ \A q \in Procs \ {w} : hpc'[q] = hpc[q]
    BY HandlerEffect, HandlerFrame DEF TypeOK, ServerTypeOK, ClientTypeOK
  <1>1. CASE UNCHANGED <<sver, sfile, clock, stmp>> /\ hpc'[w] # "tmp"
    BY <1>0, <1>1 DEF Recorded, Storing, Exists, Behind
  <1>2. CASE /\ call[w].kind = "Store" /\ UNCHANGED <<sver, sfile>>
             /\ hpc[w] = "call" /\ hpc'[w] = "tmp"
             /\ clock < clock' /\ stmp' = [stmp EXCEPT ![w] = clock']
    <2>1. \A q \in Procs : Storing(q, f)' => m < stmp'[q]
      BY <1>0, <1>2 DEF Recorded, Storing
    <2> QED
      BY <1>0, <1>2, <2>1 DEF Recorded, Exists, Behind, Storing
  <1>3. CASE /\ call[w].kind \in {"Store", "Create", "Remove"} /\ stmp' = stmp
             /\ hpc'[w] # "tmp"
             /\ Installs(w) \/ (Removes(w) /\ clock' = clock)
    <2>1. \A q \in Procs : Storing(q, f)' => m < stmp'[q]
      BY <1>0, <1>3 DEF Recorded, Storing
    <2>2. CASE f # file[w]
      <3>1. sfile'[f] = sfile[f] /\ sver <= sver'
        BY <1>0, <1>3, <2>2 DEF Installs, Removes
      <3> QED
        BY <1>0, <2>1, <3>1 DEF Recorded, Exists, Behind, Storing
    <2>3. CASE f = file[w] /\ Installs(w)
      <3>1. /\ sfile'[f].ver = sver + 1 /\ sver' = sver + 1 /\ sfile'[f].mtime \in Nat
            /\ clock < sfile'[f].mtime \/ (hpc[w] = "tmp" /\ sfile'[f].mtime = stmp[w])
        BY <1>0, <2>3 DEF Installs, FileRec
      <3>2. m < sfile'[f].mtime
        BY <1>0, <1>3, <2>3, <3>1, HandlersTurn DEF Recorded, Storing
      <3> QED
        BY <1>0, <2>1, <3>1, <3>2 DEF Recorded, Exists, Behind, Storing
    <2>4. CASE f = file[w] /\ Removes(w) /\ clock' = clock
      <3>1. sfile'[f].ver = 0 /\ sver' = sver
        BY <1>0, <2>4 DEF Removes, Absent
      <3> QED
        BY <1>0, <2>1, <2>4, <3>1 DEF Recorded, Exists, Behind, Storing
    <2> QED
      BY <1>3, <2>2, <2>3, <2>4
  <1> QED
    BY <1>1, <1>2, <1>3, HandlerEffect

\* ... and what they install is.
LEMMA HandlerKeepsTimes ==
    ASSUME TypeOK, TypeOK', TakingTurns, TimesInv, OneModifier, \A p \in Procs : CallInv(p),
           NEW w \in Procs, HandlerStep(w) \/ HandlerFault(w)
    PROVE  TimesInv'
  <1>0. /\ clock \in Nat /\ clock' \in Nat /\ clock <= clock' /\ sver \in Nat /\ sver' \in Nat
        /\ sfile \in [Files -> FileRec] /\ sfile' \in [Files -> FileRec]
        /\ stmp \in [Procs -> Nat] /\ file[w] \in Files /\ stmp[w] <= clock
        /\ hpc[w] # "none" /\ call' = call
        /\ \A q \in Procs \ {w} : hpc'[q] = hpc[q]
    BY HandlerEffect, HandlerFrame DEF TypeOK, ServerTypeOK, ClientTypeOK, TimesInv
  <1>1. \A q \in Procs : stmp'[q] <= clock'
    <2>1. stmp' = stmp \/ stmp' = [stmp EXCEPT ![w] = clock']
      BY HandlerEffect
    <2> QED
      BY <1>0, <2>1 DEF TimesInv
  <1>2. ASSUME NEW f \in Files, sfile'[f] = sfile[f] PROVE FileInv(f)'
    <2>1. sfile[f].ver \in Nat /\ sfile[f].mtime \in Int
      BY <1>0 DEF FileRec
    <2>2. FileInv(f)
      BY DEF TimesInv
    <2>3. \A v \in Nat, m \in Int : Recorded(f, v, m) => Recorded(f, v, m)'
      BY HandlerKeepsRecorded
    <2> QED
      BY <1>2, <2>1, <2>2, <2>3 DEF FileInv, Recorded, Storing, Exists, Behind
  <1>3. ASSUME NEW f \in Files, sfile'[f] # sfile[f] PROVE FileInv(f)'
    <2>1. /\ f = file[w] /\ call[w].kind \in {"Store", "Create", "Remove"} /\ hpc'[w] # "tmp"
          /\ Installs(w) \/ (Removes(w) /\ clock' = clock)
      BY <1>0, <1>3, HandlerEffect DEF Installs, Removes
    <2>2. \A q \in Procs : ~Storing(q, f)'
      BY <1>0, <2>1, HandlersTurn DEF Storing
    <2>3. CASE Installs(w)
      <3>1. /\ sfile'[f].ver = sver + 1 /\ sver' = sver + 1 /\ sfile'[f].mtime \in Nat
            /\ sfile'[f].mtime <= clock'
            /\ clock < sfile'[f].mtime \/ (Storing(w, f) /\ sfile'[f].mtime = stmp[w])
        BY <1>0, <2>1, <2>3, HandlersTurn DEF Installs, FileRec, Storing
      <3>2. sfile[f].mtime \in Nat /\ (Storing(w, f) => sfile[f].mtime < stmp[w])
        BY <1>0 DEF TimesInv, FileInv, Recorded, FileRec
      <3>3. sfile'[f].mtime > 0
        BY <1>0, <3>1, <3>2
      <3> QED
        BY <1>0, <2>2, <3>1, <3>3 DEF FileInv, Recorded, Storing, Exists, Behind
    <2>4. CASE Removes(w)
      <3>1. sfile'[f].ver = 0 /\ sfile'[f].mtime = 0
        BY <1>0, <2>1, <2>4 DEF Removes, Absent
      <3> QED
        BY <1>0, <2>2, <3>1 DEF FileInv, Recorded, Storing, Exists, Behind
    <2> QED
      BY <2>1, <2>3, <2>4
  <1> QED
    BY <1>1, <1>2, <1>3 DEF TimesInv

-----------------------------------------------------------------------------
(* What the step of one process or handler leaves to the others.           *)

KeepsRecorded == \A f \in Files, v \in Nat, m \in Int : Recorded(f, v, m) => Recorded(f, v, m)'

LEMMA ReplyStillRecorded ==
    ASSUME TypeOK, KeepsRecorded, NEW q \in Procs, file'[q] = file[q] /\ reply'[q] = reply[q]
    PROVE  /\ AnswerRecorded(q) => AnswerRecorded(q)'
           /\ StoreRecorded(q) => StoreRecorded(q)'
  <1>0. /\ file[q] \in Files
        /\ reply[q].ver \in Nat /\ reply[q].of \in Nat /\ reply[q].mtime \in Int
    BY DEF TypeOK, ServerTypeOK, ClientTypeOK, ReplyRec
  <1> USE DEF KeepsRecorded, Recorded, Storing, Exists, Behind
  <1>1. AnswerRecorded(q) => AnswerRecorded(q)'
    BY <1>0 DEF AnswerRecorded
  <1>2. StoreRecorded(q) => StoreRecorded(q)'
    BY <1>0 DEF StoreRecorded
  <1> QED
    BY <1>1, <1>2

LEMMA AuthStillRecorded ==
    ASSUME TypeOK, KeepsRecorded, NEW q \in Procs, file'[q] = file[q] /\ auth'[q] = auth[q],
           AuthRecorded(q)
    PROVE  AuthRecorded(q)'
  <1>1. file[q] \in Files /\ auth[q].ver \in Nat /\ auth[q].mtime \in Int
    BY DEF TypeOK, ClientTypeOK, AuthRec
  <1> QED
    BY <1>1 DEF AuthRecorded, KeepsRecorded, Recorded, Storing, Exists, Behind

LEMMA CopyStillRecorded ==
    ASSUME TypeOK, KeepsRecorded, NEW c \in Clients, NEW f \in Files, Cached(c, f),
           Copy(c, f)' = Copy(c, f)
    PROVE  CopyRecorded(c, f) => CopyRecorded(c, f)'
  <1>1. Copy(c, f).stamp \in Nat /\ Copy(c, f).mtime \in Int
    BY CopyType DEF TypeOK, InodeRec
  <1> QED
    BY <1>1 DEF CopyRecorded, KeepsRecorded, Recorded, Storing, Exists, Behind

LEMMA TurnBystander ==
    ASSUME TypeOK, NEW q \in Procs, TurnInv(q), KeepsRecorded,
           /\ pc'[q] = pc[q] /\ op'[q] = op[q] /\ file'[q] = file[q] /\ file2'[q] = file2[q]
           /\ auth'[q] = auth[q] /\ dirty'[q] = dirty[q]
           /\ call'[q] = call[q] /\ hpc'[q] = hpc[q] /\ reply'[q] = reply[q],
           path'[C(q)] = path[C(q)] /\ disk'[C(q)] = disk[C(q)],
           hpc[q] = "renamed" => sfile'[file[q]] = sfile[file[q]]
    PROVE  TurnInv(q)'
  <1>0. /\ file[q] \in Files /\ C(q)' = C(q)
        /\ AnswerRecorded(q) => AnswerRecorded(q)'
        /\ StoreRecorded(q) => StoreRecorded(q)'
        /\ AuthRecorded(q) => AuthRecorded(q)'
        /\ Cached(C(q), file[q])' <=> Cached(C(q), file[q])
        /\ Copy(C(q), file[q])' = Copy(C(q), file[q])
    BY ReplyStillRecorded, AuthStillRecorded DEF TypeOK, ClientTypeOK, C, Cached, Copy
  <1>1. CallInv(q)'
    BY DEF TurnInv, CallInv, Modifying
  <1>2. ReplyInv(q)'
    BY <1>0 DEF TurnInv, ReplyInv, Exists, Behind
  <1>3. CheckInv(q)'
    BY <1>0 DEF TurnInv, CheckInv, Fresh, Behind
  <1> QED
    BY <1>1, <1>2, <1>3 DEF TurnInv

\* Without a rename a step of p changes one name of its client and one copy.
OtherFiles(p) ==
    \A g \in Files : g # file'[p] =>
        /\ path'[C(p)][g] = path[C(p)][g]
        /\ Cached(C(p), g) => disk'[C(p)][path[C(p)][g]] = disk[C(p)][path[C(p)][g]]

LEMMA StepOtherFiles ==
    ASSUME TypeOK, NamesInv, NEW p \in Procs, SessionInv(p), pc[p] # "rename",
           ~\E f, g \in Files : StartRename(p, f, g),
           StartOp(p) \/ ProcStep(p) \/ Write(p) \/ Discard(p)
    PROVE  OtherFiles(p)
  <1>0. /\ C(p) \in Clients /\ file[p] \in Files /\ file \in [Procs -> Files]
        /\ path \in [Clients -> [Files -> Inodes \cup {NoInode}]]
        /\ disk \in [Clients -> [Inodes -> InodeRec]]
        /\ \A i \in FreeInodes(C(p)), g \in Files : path[C(p)][g] # i
        /\ \A f, g \in Files : Cached(C(p), f) /\ path[C(p)][f] = path[C(p)][g] => f = g
    BY ClientOfType DEF TypeOK, ClientTypeOK, FreeInodes, NamesInv
  <1>1. CASE path' = path /\ disk' = disk
    BY <1>1 DEF OtherFiles
  <1>2. ASSUME file'[p] = file[p], NEW i \in FreeInodes(C(p)), NEW r,
               path' = [path EXCEPT ![C(p)][file[p]] = i], disk' = [disk EXCEPT ![C(p)][i] = r]
        PROVE  OtherFiles(p)
    BY <1>0, <1>2 DEF OtherFiles
  <1>3. ASSUME NEW f \in Files, file'[p] = f, Cached(C(p), f), NEW r,
               path' = path, disk' = [disk EXCEPT ![C(p)][path[C(p)][f]] = r]
        PROVE  OtherFiles(p)
    BY <1>0, <1>3 DEF OtherFiles, Cached
  <1>4. CASE StartOp(p)
    <2>1. CASE \E f \in Files : StartTruncate(p, f)
      <3>1. PICK f \in Files : StartTruncate(p, f)
        BY <2>1
      <3>2. PICK r : disk' = [disk EXCEPT ![C(p)][path[C(p)][f]] = r]
        BY <3>1 DEF StartTruncate
      <3>3. file'[p] = f /\ Cached(C(p), f) /\ path' = path
        BY <1>0, <3>1 DEF StartTruncate, Begin
      <3> QED
        BY <1>3, <3>2, <3>3
    <2>2. CASE ~\E f \in Files : StartTruncate(p, f)
      BY <1>1, <1>4, <2>2 DEF StartOp, StartFetch, StartLookup, StartUnlink
    <2> QED
      BY <2>1, <2>2
  <1>5. CASE FetchReply(p)
    BY <1>1, <1>2, <1>5 DEF FetchReply
  <1>6. CASE OpenLocal(p)
    BY <1>1, <1>2, <1>6 DEF OpenLocal
  <1>7. CASE Stamp(p)
    BY <1>0, <1>1, <1>3, <1>7 DEF Stamp
  <1>8. CASE StoreReply(p)
    BY <1>0, <1>1, <1>3, <1>8 DEF StoreReply, Cached
  <1>9. CASE Write(p)
    <2>1. PICK r : disk' = [disk EXCEPT ![C(p)][handle[p]] = r]
      BY <1>9 DEF Write
    <2> QED
      BY <1>0, <1>3, <1>9, <2>1 DEF Write, SessionInv
  <1>10. CASE RemoveReply(p)
    BY <1>0, <1>10 DEF RemoveReply, OtherFiles
  <1>11. CASE CreateReply(p) \/ AuthReply(p) \/ CheckCache(p) \/ Close(p) \/ StoreRead(p) \/ Discard(p)
    BY <1>1, <1>11 DEF CreateReply, AuthReply, CheckCache, Close, StoreRead, Discard, clientVars
  <1> QED
    BY <1>4, <1>5, <1>6, <1>7, <1>8, <1>9, <1>10, <1>11 DEF ProcStep, RenameReply

-----------------------------------------------------------------------------
(* A step of p keeps what is said of p ...                                 *)

LEMMA StartKeepsTurn ==
    ASSUME TypeOK, TypeOK', TakingTurns, NEW p \in Procs, StartOp(p)
    PROVE  TurnInv(p)'
  <1>0. /\ CallStep(p) /\ hpc[p] = "none" /\ op'[p] # "rename" /\ file2'[p] = file'[p]
        /\ pc'[p] \in {"auth", "remove", "sread"} /\ hpc'[p] \in {"none", "call", "failed"}
        /\ pc'[p] = "auth" => hpc'[p] \in {"call", "failed"}
        /\ pc'[p] = "sread" => op'[p] \in ModOps
    BY StartCalls DEF CallStep
  <1>1. CallInv(p)'
    BY <1>0 DEF CallStep, CallInv, Modifying
  <1>2. ReplyInv(p)' /\ CheckInv(p)'
    BY <1>0 DEF ReplyInv, CheckInv
  <1> QED
    BY <1>1, <1>2 DEF TurnInv

LEMMA StepKeepsCheck ==
    ASSUME TypeOK, TypeOK', NEW p \in Procs, TurnInv(p), CallMatches(p), KeepsRecorded,
           ProcStep(p) \/ Write(p) \/ Discard(p)
    PROVE  CheckInv(p)'
  <1> USE DEF Goto
  <1>0. /\ pc \in [Procs -> PCs] /\ file'[p] = file[p] /\ reply' = reply /\ C(p)' = C(p)
        /\ C(p) \in Clients /\ file[p] \in Files
        /\ auth \in [Procs -> AuthRec] /\ reply \in [Procs -> ReplyRec]
    BY StepCalls, ClientOfType DEF TurnInv, TypeOK, ServerTypeOK, ClientTypeOK, C
  <1>1. ASSUME pc'[p] \notin {"check", "fetch", "stamp"} PROVE CheckInv(p)'
    BY <1>1 DEF CheckInv
  <1>2. ASSUME NEW st, FetchFails(p, st) PROVE CheckInv(p)'
    <2>1. pc'[p] \in {"idle", "create"}
      BY <1>0, <1>2 DEF FetchFails, Creat
    <2> QED
      BY <1>1, <2>1
  <1>3. CASE AuthReply(p)
    <2>1. CASE AuthData(p).st # "ok"
      BY <1>2, <1>3, <2>1 DEF AuthReply
    <2>2. CASE AuthData(p).st = "ok"
      <3>0. /\ pc'[p] = "check" /\ auth'[p] = AuthData(p) /\ path' = path /\ disk' = disk
            /\ pc[p] = "auth" /\ hpc[p] \in {"done", "failed"}
        BY <1>0, <1>3, <2>2 DEF AuthReply, Answered
      <3>1. CASE hpc[p] = "done"
        <4>1. /\ auth'[p].ver = reply[p].ver /\ auth'[p].mtime = reply[p].mtime
              /\ reply[p].st = "ok"
          BY <2>2, <3>0, <3>1 DEF AuthData
        <4>2. AnswerRecorded(p) /\ reply[p].ver > 0
          BY <3>0, <3>1, <4>1 DEF TurnInv, ReplyInv, CallMatches
        <4>3. AuthRecorded(p)'
          <5>1. reply[p].ver \in Nat /\ reply[p].mtime \in Int
            BY <1>0 DEF ReplyRec
          <5> QED
            BY <1>0, <4>1, <4>2, <5>1
               DEF KeepsRecorded, AuthRecorded, AnswerRecorded, Recorded, Storing, Exists, Behind
        <4>4. Cached(C(p), file[p]) /\ Copy(C(p), file[p]).by # "clock" =>
                Behind(Copy(C(p), file[p]).stamp, Copy(C(p), file[p]).mtime, auth'[p])
          BY <3>0, <3>1, <4>1 DEF TurnInv, ReplyInv, Behind
        <4> QED
          BY <1>0, <3>0, <4>1, <4>2, <4>3, <4>4 DEF CheckInv, Cached, Copy, Behind
      <3>2. CASE hpc[p] = "failed"
        <4>1. /\ auth'[p].ver = 0 /\ Cached(C(p), file[p])
              /\ auth'[p].mtime = Copy(C(p), file[p]).mtime
          BY <2>2, <3>0, <3>2 DEF AuthData
        <4>2. Copy(C(p), file[p]).mtime \in Int
          BY <1>0, <4>1, CopyType DEF TypeOK, InodeRec
        <4> QED
          BY <1>0, <3>0, <4>1, <4>2 DEF CheckInv, Fresh, Cached, Copy
      <3> QED
        BY <3>0, <3>1, <3>2
    <2> QED
      BY <2>1, <2>2
  <1>4. CASE CheckCache(p)
    <2>1. CASE pc'[p] = "fetch"
      <3>1. ~Fresh(p) /\ pc[p] = "check" /\ auth' = auth
        BY <1>0, <1>4, <2>1 DEF CheckCache
      <3>2. auth[p].ver > 0 /\ AuthRecorded(p)
        BY <1>0, <3>1 DEF TurnInv, CheckInv, AuthRec
      <3>3. AuthRecorded(p)'
        BY <1>0, <3>1, <3>2, AuthStillRecorded
      <3> QED
        BY <2>1, <3>1, <3>2, <3>3 DEF CheckInv
    <2>2. CASE pc'[p] # "fetch"
      BY <1>0, <1>1, <1>4, <2>2 DEF CheckCache
    <2> QED
      BY <2>1, <2>2
  <1>5. CASE FetchReply(p)
    <2>1. CASE pc'[p] = "stamp"
      <3>1. pc[p] = "fetch" /\ auth' = auth
        BY <1>5 DEF FetchReply
      <3>2. auth[p].ver > 0 /\ AuthRecorded(p)
        BY <3>1 DEF TurnInv, CheckInv
      <3>3. AuthRecorded(p)'
        BY <1>0, <3>1, <3>2, AuthStillRecorded
      <3> QED
        BY <2>1, <3>1, <3>2, <3>3 DEF CheckInv
    <2>2. CASE pc'[p] # "stamp"
      BY <1>0, <1>1, <1>2, <1>5, <2>2 DEF FetchReply
    <2> QED
      BY <2>1, <2>2
  <1>6. CASE Stamp(p)
    BY <1>0, <1>1, <1>2, <1>6 DEF Stamp
  <1>7. CASE OpenLocal(p)
    BY <1>0, <1>1, <1>7 DEF OpenLocal, Creat
  <1>8. CASE CreateReply(p) \/ Close(p) \/ StoreRead(p) \/ StoreReply(p)
    BY <1>0, <1>1, <1>8 DEF CreateReply, Close, StoreRead, StoreReply
  <1>9. CASE RemoveReply(p) \/ RenameReply(p) \/ Write(p) \/ Discard(p)
    BY <1>0, <1>1, <1>9 DEF RemoveReply, RenameReply, Write, Discard, clientVars
  <1> QED
    BY <1>3, <1>4, <1>5, <1>6, <1>7, <1>8, <1>9 DEF ProcStep

LEMMA StepKeepsTurn ==
    ASSUME TypeOK, TypeOK', NEW p \in Procs, TurnInv(p), CallMatches(p), KeepsRecorded,
           CallFrame(p), ProcStep(p) \/ Write(p) \/ Discard(p)
    PROVE  TurnInv(p)'
  <1>0. /\ CallStep(p) /\ file'[p] = file[p] /\ file2'[p] = file2[p] /\ op'[p] # "rename"
        /\ pc'[p] # "rename"
        /\ op'[p] \in ModOps <=> op[p] \in ModOps
        /\ pc'[p] = "auth" => hpc'[p] \in {"call", "failed"}
        /\ Modifying(p)' => op'[p] \in ModOps
        /\ pc'[p] = "store" => hpc'[p] # "none" /\ call'[p].kind = "Store"
        /\ reply' = reply /\ sfile' = sfile
        /\ CallInv(p) /\ ReplyInv(p)
    BY StepCalls DEF TurnInv, CallFrame
  <1>1. CallInv(p)'
    BY <1>0 DEF CallStep, CallInv, Modifying
  <1>2. ReplyInv(p)'
    <2>1. CASE hpc'[p] \in {"none", "call", "failed"}
      BY <2>1 DEF ReplyInv
    <2>2. CASE hpc'[p] = hpc[p] /\ call'[p] = call[p] /\ pc'[p] # "auth"
      <3>1. /\ hpc[p] = "done" /\ call[p].kind = "TestAuth" => AnswerRecorded(p)'
            /\ hpc[p] = "done" /\ call[p].kind = "Store" => StoreRecorded(p)'
        BY <1>0, ReplyStillRecorded DEF ReplyInv
      <3> QED
        BY <1>0, <2>2, <3>1 DEF ReplyInv, Exists
    <2> QED
      BY <1>0, <2>1, <2>2 DEF CallStep
  <1> QED
    BY <1>1, <1>2, StepKeepsCheck DEF TurnInv

-----------------------------------------------------------------------------
(* ... and what is said of the copies.                                     *)

LEMMA SameCopy ==
    ASSUME TypeOK, KeepsRecorded, NEW c \in Clients, NEW f \in Files, Cached(c, f), CopyInv(c, f),
           Copy(c, f)' = Copy(c, f),
           \A q \in Procs : C(q) = c /\ pc[q] = "stamp" /\ file[q] = f
                               => pc'[q] = "stamp" /\ file'[q] = f,
           \A q \in Procs : C(q) = c /\ file'[q] = f /\ Modifying(q)' => file[q] = f /\ Modifying(q)
    PROVE  CopyInv(c, f)'
  <1>1. Copy(c, f).by # "clock" => CopyRecorded(c, f)'
    BY CopyStillRecorded DEF CopyInv
  <1>2. \A q \in Procs : C(q)' = C(q)
    BY DEF C
  <1>3. \A q \in Procs : C(q)' = c /\ file'[q] = f /\ Modifying(q)' => Copy(c, f)'.ver = 0
    BY <1>2 DEF CopyInv
  <1>4. Copy(c, f).by = "clock" /\ Copy(c, f).ver > 0 =>
          \E q \in Procs : C(q)' = c /\ pc'[q] = "stamp" /\ file'[q] = f
    BY <1>2 DEF CopyInv
  <1> QED
    BY <1>1, <1>3, <1>4 DEF CopyInv

\* A copy that was just written, and one that was just received.
LEMMA WrittenCopy ==
    ASSUME NEW c \in Clients, NEW f \in Files, NEW d, NEW t, Copy(c, f)' = Written(d, t)
    PROVE  CopyInv(c, f)'
  <1>1. Copy(c, f)'.by = "clock" /\ Copy(c, f)'.ver = 0
    BY DEF Written
  <1> QED
    BY <1>1 DEF CopyInv

\* The control points at which a copy has changes that were not stored.
LEMMA StillModifying ==
    ASSUME TypeOK, NEW p \in Procs, ProcStep(p) \/ Discard(p)
    PROVE  /\ Modifying(p)' => Modifying(p)
           /\ pc[p] = "stamp" => Stamp(p)
  <1> USE DEF Modifying, Goto
  <1>0. pc \in [Procs -> PCs] /\ dirty \in [Procs -> BOOLEAN]
    BY DEF TypeOK, ClientTypeOK
  <1>1. ASSUME NEW st, FetchFails(p, st) PROVE pc'[p] \in {"idle", "create"}
    BY <1>0, <1>1 DEF FetchFails, Creat
  <1>2. CASE AuthReply(p) \/ FetchReply(p)
    BY <1>0, <1>1, <1>2 DEF AuthReply, FetchReply
  <1>3. CASE Stamp(p)
    BY <1>0, <1>1, <1>3 DEF Stamp
  <1>4. CASE OpenLocal(p)
    BY <1>0, <1>4 DEF OpenLocal, Creat
  <1>5. CASE Close(p)
    BY <1>0, <1>5 DEF Close
  <1>6. CASE CreateReply(p) \/ CheckCache(p) \/ StoreRead(p) \/ StoreReply(p)
    BY <1>0, <1>6 DEF CreateReply, CheckCache, StoreRead, StoreReply
  <1>7. CASE RemoveReply(p) \/ RenameReply(p) \/ Discard(p)
    BY <1>0, <1>7 DEF RemoveReply, RenameReply, Discard, clientVars
  <1> QED
    BY <1>2, <1>3, <1>4, <1>5, <1>6, <1>7 DEF ProcStep

LEMMA StepOwnCopy ==
    ASSUME TypeOK, TypeOK', SerialClients, KeepsRecorded, NEW p \in Procs, SessionInv(p),
           TurnInv(p), ProcStep(p) \/ Write(p) \/ Discard(p), pc[p] # "rename",
           NEW c \in Clients, NEW f \in Files, C(p) = c, file[p] = f,
           Cached(c, f) => CopyInv(c, f), Cached(c, f)'
    PROVE  CopyInv(c, f)'
  <1> USE DEF Goto
  <1>0. /\ file'[p] = f /\ C(p)' = c
        /\ pc \in [Procs -> PCs] /\ reply \in [Procs -> ReplyRec] /\ auth \in [Procs -> AuthRec]
        /\ path \in [Clients -> [Files -> Inodes \cup {NoInode}]]
        /\ disk \in [Clients -> [Inodes -> InodeRec]]
        /\ \A q \in Procs : C(q) = c => q = p
        /\ \A q \in Procs : C(q)' = C(q)
        /\ Cached(c, f) => path[c][f] \in Inodes /\ Copy(c, f) \in InodeRec
    BY StepCalls, CopyType DEF TurnInv, TypeOK, ServerTypeOK, ClientTypeOK, SerialClients, C
  <1>1. CASE path' = path /\ disk' = disk /\ ~Stamp(p) /\ ~Write(p)
    <2>1. Cached(c, f) /\ Copy(c, f)' = Copy(c, f)
      BY <1>1 DEF Cached, Copy
    <2>2. pc[p] # "stamp" /\ (Modifying(p)' => Modifying(p))
      BY <1>1, StillModifying
    <2> QED
      BY <1>0, <2>1, <2>2, SameCopy
  <1>2. CASE FetchReply(p) /\ ~(path' = path /\ disk' = disk)
    <2> DEFINE r == [data |-> reply[p].data, mtime |-> Local(C(p), clock),
                     ver |-> reply[p].ver, stamp |-> 0, by |-> "clock"]
    <2>1. /\ pc'[p] = "stamp"
          /\ \E i \in FreeInodes(c) : /\ disk' = [disk EXCEPT ![c][i] = r]
                                      /\ path' = [path EXCEPT ![c][f] = i]
      BY <1>0, <1>2 DEF FetchReply
    <2>2. r.by = "clock"
      OBVIOUS
    <2> HIDE DEF r
    <2>3. Copy(c, f)' = r
      BY <1>0, <2>1 DEF Copy, FreeInodes
    <2>4. ~Modifying(p)'
      BY <2>1 DEF Modifying
    <2> QED
      BY <1>0, <2>1, <2>2, <2>3, <2>4 DEF CopyInv
  <1>3. CASE Stamp(p)
    <2>0. CASE ~Cached(c, f)
      BY <1>0, <1>3, <2>0 DEF Stamp, Cached
    <2>1. CASE Cached(c, f)
      <3> DEFINE copy == Copy(c, f)
                 r == [copy EXCEPT !.mtime = auth[p].mtime, !.stamp = auth[p].ver, !.by = "fetch"]
      <3>1. /\ disk' = [disk EXCEPT ![c][path[c][f]] = r] /\ path' = path /\ pc'[p] = "open"
            /\ pc[p] = "stamp"
        BY <1>0, <1>3, <2>1 DEF Stamp, Copy
      <3>2. r.by = "fetch" /\ r.stamp = auth[p].ver /\ r.mtime = auth[p].mtime
        BY <1>0, <2>1 DEF InodeRec
      <3> HIDE DEF r
      <3>3. Copy(c, f)' = r
        BY <1>0, <2>1, <3>1 DEF Copy
      <3>4. AuthRecorded(p)
        BY <3>1 DEF TurnInv, CheckInv
      <3>5. CopyRecorded(c, f)'
        <4>1. auth[p].ver \in Nat /\ auth[p].mtime \in Int
          BY <1>0 DEF AuthRec
        <4>2. \A v \in Nat, m \in Int :
                Recorded(f, v, m) => Recorded(f, v, m)'
          BY DEF KeepsRecorded
        <4>3. Copy(c, f)'.stamp = auth[p].ver /\ Copy(c, f)'.mtime = auth[p].mtime
          BY <3>2, <3>3
        <4> QED
          BY <3>4, <4>1, <4>2, <4>3
             DEF AuthRecorded, CopyRecorded, Recorded, Storing, Exists, Behind
      <3>6. ~Modifying(p)'
        BY <3>1 DEF Modifying
      <3> QED
        BY <1>0, <3>2, <3>3, <3>5, <3>6 DEF CopyInv
    <2> QED
      BY <2>0, <2>1
  <1>4. CASE OpenLocal(p) /\ ~(path' = path /\ disk' = disk)
    <2>1. PICK i \in FreeInodes(c), t \in Stamps :
            /\ disk' = [disk EXCEPT ![c][i] = Written(0, Local(c, t))]
            /\ path' = [path EXCEPT ![c][f] = i]
      BY <1>4 DEF OpenLocal
    <2>2. Copy(c, f)' = Written(0, Local(c, t))
      BY <1>0, <2>1 DEF Copy, FreeInodes
    <2> QED
      BY <2>2, WrittenCopy
  <1>5. CASE Write(p)
    <2>1. PICK t : disk' = [disk EXCEPT ![c][handle[p]] = Written(mods + 1, Local(c, t))]
      BY <1>5 DEF Write
    <2>2. path' = path /\ Cached(c, f) /\ handle[p] = path[c][f]
      BY <1>5 DEF Write, SessionInv
    <2>3. Copy(c, f)' = Written(mods + 1, Local(c, t))
      BY <1>0, <2>1, <2>2 DEF Copy
    <2> QED
      BY <2>3, WrittenCopy
  <1>6. CASE StoreReply(p) /\ disk' # disk
    <2> DEFINE r == Stored(p, Copy(c, f))
    <2>1. /\ Cached(c, f) /\ disk' = [disk EXCEPT ![c][path[c][f]] = r] /\ path' = path
          /\ pc'[p] = "idle" /\ pc[p] = "store" /\ hpc[p] = "done"
      BY <1>0, <1>6 DEF StoreReply, Copy, Cached
    <2>2. StoreRecorded(p) /\ reply[p].of <= reply[p].ver /\ Copy(c, f).ver = 0
      BY <1>0, <2>1 DEF TurnInv, ReplyInv, CallInv, CopyInv, Modifying
    <2>3. /\ r.by = "store" /\ r.stamp = reply[p].of /\ r.mtime = reply[p].mtime
          /\ r.ver \in {0, reply[p].ver}
      BY <1>0, <2>1, <2>2 DEF InodeRec, Stored
    <2> HIDE DEF r
    <2>4. Copy(c, f)' = r
      BY <1>0, <2>1 DEF Copy
    <2>5. CopyRecorded(c, f)'
      <3>1. reply[p].of \in Nat /\ reply[p].mtime \in Int
        BY <1>0 DEF ReplyRec
      <3>2. \A v \in Nat, m \in Int : Recorded(f, v, m) => Recorded(f, v, m)'
        BY DEF KeepsRecorded
      <3>3. Copy(c, f)'.stamp = reply[p].of /\ Copy(c, f)'.mtime = reply[p].mtime
        BY <2>3, <2>4
      <3> QED
        BY <2>2, <3>1, <3>2, <3>3
           DEF StoreRecorded, CopyRecorded, Recorded, Storing, Exists, Behind
    <2>6. ~Modifying(p)'
      BY <2>1 DEF Modifying
    <2> QED
      BY <1>0, <2>2, <2>3, <2>4, <2>5, <2>6 DEF CopyInv
  <1>7. CASE RemoveReply(p)
    <2>1. path'[c][f] = path[c][f] /\ disk' = disk /\ Cached(c, f) /\ pc[p] = "remove"
      BY <1>0, <1>7 DEF RemoveReply, Cached
    <2>2. Copy(c, f)' = Copy(c, f)
      BY <2>1 DEF Copy
    <2>3. Modifying(p)' => Modifying(p)
      BY <1>7, StillModifying DEF ProcStep
    <2> QED
      BY <1>0, <2>1, <2>2, <2>3, SameCopy
  <1>8. CASE OpenLocal(p) /\ path' = path /\ disk' = disk
    BY <1>0, <1>1, <1>8 DEF OpenLocal, Stamp, Write
  <1>9. CASE FetchReply(p) /\ path' = path /\ disk' = disk
    BY <1>0, <1>1, <1>9 DEF FetchReply, Stamp, Write
  <1>10. CASE StoreReply(p) /\ disk' = disk
    BY <1>1, <1>10 DEF StoreReply, Stamp, Write
  <1>11. CASE CreateReply(p) \/ AuthReply(p) \/ CheckCache(p) \/ Close(p) \/ StoreRead(p) \/ Discard(p)
    <2>1. path' = path /\ disk' = disk
      BY <1>11 DEF CreateReply, AuthReply, CheckCache, Close, StoreRead, Discard, clientVars
    <2>2. ~Stamp(p)
      BY <1>11 DEF CreateReply, AuthReply, CheckCache, Close, StoreRead, Discard, Stamp
    <2> QED
      BY <1>1, <1>5, <2>1, <2>2
  <1> QED
    BY <1>2, <1>3, <1>4, <1>5, <1>6, <1>7, <1>8, <1>9, <1>10, <1>11 DEF ProcStep, RenameReply

-----------------------------------------------------------------------------
(* A handler answers with what is on record.                               *)

LEMMA NothingRecorded ==
    ASSUME TypeOK', TimesInv', NEW f \in Files PROVE Recorded(f, 0, 0)'
  <1>1. /\ sver' \in Nat /\ clock' \in Nat /\ sfile'[f].ver \in Nat /\ sfile'[f].mtime \in Nat
        /\ stmp' \in [Procs -> Nat]
    BY DEF TypeOK, ServerTypeOK, FileRec
  <1>2. FileInv(f)'
    BY DEF TimesInv
  <1> QED
    BY <1>1, <1>2 DEF FileInv, Recorded, Exists, Behind, Storing

LEMMA HandlerAnswers ==
    ASSUME TypeOK, NEW w \in Procs, CallInv(w), HandlerStep(w) \/ HandlerFault(w)
    PROVE  /\ hpc'[w] \in {"tmp", "renamed", "statfail"} => call[w].kind = "Store"
           /\ hpc'[w] = "done" /\ call[w].kind = "TestAuth" =>
                 \/ reply'[w] = Bare("EIO")
                 \/ /\ reply'[w].st = Found(file[w]) /\ sfile' = sfile
                    /\ reply'[w].ver = sfile[file[w]].ver /\ reply'[w].mtime = sfile[file[w]].mtime
           /\ hpc'[w] = "done" /\ call[w].kind = "Store" =>
                 \/ reply'[w] = Bare("EIO")
                 \/ /\ reply'[w].of = sfile[file[w]].ver /\ reply'[w].mtime = sfile[file[w]].mtime
                    /\ reply'[w].ver = reply[w].ver
                    /\ hpc[w] = "renamed" /\ Exists(file[w]) /\ sfile' = sfile
           /\ hpc'[w] = "renamed" => reply'[w].ver = sver'
  <1> USE DEF Serving, Answer, HandlerFault
  <1>0. /\ file[w] \in Files /\ call[w] \in RequestRec
        /\ hpc \in [Procs -> {"none", "call", "tmp", "renamed", "statfail", "done", "failed"}]
        /\ reply \in [Procs -> ReplyRec] /\ sver \in Nat
        /\ hpc[w] # "none" => call[w].file = file[w]
    BY DEF TypeOK, ServerTypeOK, ClientTypeOK, CallInv
  <1>1. CASE TestAuth(w)
    BY <1>0, <1>1 DEF TestAuth, Report
  <1>2. CASE Fetch(w) \/ Create(w) \/ Remove(w)
    BY <1>0, <1>2 DEF Fetch, Create, Remove
  <1>3. CASE Rename(w)
    BY <1>0, <1>3 DEF Rename
  <1>4. CASE StoreWrite(w)
    BY <1>0, <1>4 DEF StoreWrite
  <1>5. CASE StoreRename(w)
    BY <1>0, <1>5 DEF StoreRename, Bare
  <1>6. CASE StoreStat(w)
    BY <1>0, <1>6 DEF StoreStat
  <1>7. CASE StoreUnlink(w)
    BY <1>0, <1>7 DEF StoreUnlink
  <1>8. CASE HandlerFault(w)
    BY <1>0, <1>8 DEF StoreAbort, HandlerError
  <1> QED
    BY <1>1, <1>2, <1>3, <1>4, <1>5, <1>6, <1>7, <1>8 DEF HandlerStep

LEMMA HandlerKeepsTurn ==
    ASSUME TypeOK, TypeOK', TimesInv', NEW w \in Procs, TurnInv(w), CallMatches(w), KeepsRecorded,
           Cached(C(w), file[w]) => CopyInv(C(w), file[w]),
           HandlerStep(w) \/ HandlerFault(w), hpc[w] # "none", hpc'[w] # "none", call' = call, UNCHANGED clientVars
    PROVE  TurnInv(w)'
  <1>0. /\ file[w] \in Files /\ C(w)' = C(w) /\ C(w) \in Clients
        /\ UNCHANGED <<path, disk, pc, op, file, file2, auth, dirty>>
        /\ reply'[w] \in ReplyRec /\ sfile' \in [Files -> FileRec] /\ sver' \in Nat
    BY ClientOfType DEF TypeOK, ServerTypeOK, ClientTypeOK, C, clientVars
  <1>1. CallInv(w)'
    BY <1>0, HandlerAnswers DEF TurnInv, CallInv, Modifying
  <1>2. FileInv(file[w])' /\ Recorded(file[w], 0, 0)' /\ Bare("EIO").ver = 0 /\ Bare("EIO").mtime = 0
        /\ Bare("EIO").of = 0 /\ Bare("EIO").st = "EIO"
    BY <1>0, NothingRecorded DEF TimesInv, Bare
  <1>3. ASSUME hpc'[w] = "done", call[w].kind = "TestAuth"
        PROVE  AnswerRecorded(w)' /\ (reply'[w].st = "ok" => reply'[w].ver > 0)
    <2>1. CASE reply'[w] = Bare("EIO")
      BY <1>0, <1>2, <2>1 DEF AnswerRecorded
    <2>2. CASE reply'[w] # Bare("EIO")
      <3>1. /\ reply'[w].st = Found(file[w]) /\ sfile' = sfile
            /\ reply'[w].ver = sfile[file[w]].ver /\ reply'[w].mtime = sfile[file[w]].mtime
        BY <1>3, <2>2, HandlerAnswers DEF TurnInv
      <3> QED
        BY <1>0, <1>2, <3>1 DEF AnswerRecorded, FileInv, Found, Exists
    <2> QED
      BY <2>1, <2>2
  <1>4. ASSUME hpc'[w] = "done", call[w].kind = "Store"
        PROVE  StoreRecorded(w)' /\ reply'[w].of <= reply'[w].ver
    <2>1. CASE reply'[w] = Bare("EIO")
      BY <1>0, <1>2, <2>1 DEF StoreRecorded
    <2>2. CASE reply'[w] # Bare("EIO")
      <3>1. /\ reply'[w].of = sfile[file[w]].ver /\ reply'[w].mtime = sfile[file[w]].mtime
            /\ reply'[w].ver = reply[w].ver
            /\ hpc[w] = "renamed" /\ Exists(file[w]) /\ sfile' = sfile
        BY <1>4, <2>2, HandlerAnswers DEF TurnInv
      <3> QED
        BY <1>0, <1>2, <3>1 DEF StoreRecorded, FileInv, TurnInv, ReplyInv
    <2> QED
      BY <2>1, <2>2
  <1>5. ASSUME hpc'[w] = "renamed" PROVE sfile'[file[w]].ver <= reply'[w].ver
    BY <1>0, <1>2, <1>5, HandlerAnswers DEF FileInv, Recorded, TurnInv
  <1>6. ASSUME pc[w] = "auth", hpc'[w] = "done", reply'[w].st = "ok", Cached(C(w), file[w]),
               Copy(C(w), file[w]).by # "clock"
        PROVE  Behind(Copy(C(w), file[w]).stamp, Copy(C(w), file[w]).mtime, reply'[w])
    <2>1. /\ reply'[w].st = Found(file[w])
          /\ reply'[w].ver = sfile[file[w]].ver /\ reply'[w].mtime = sfile[file[w]].mtime
      BY <1>2, <1>6, HandlerAnswers DEF TurnInv, CallMatches
    <2>2. CopyRecorded(C(w), file[w])
      BY <1>6 DEF CopyInv
    <2> QED
      BY <1>6, <2>1, <2>2 DEF CopyRecorded, Recorded, Found, Behind
  <1>7. ReplyInv(w)'
    BY <1>0, <1>3, <1>4, <1>5, <1>6 DEF ReplyInv, Cached, Copy, Behind
  <1>8. CheckInv(w)'
    <2>1. AuthRecorded(w) => AuthRecorded(w)'
      BY <1>0, AuthStillRecorded
    <2> QED
      BY <1>0, <2>1 DEF TurnInv, CheckInv, Fresh, Cached, Copy, Behind
  <1> QED
    BY <1>1, <1>7, <1>8 DEF TurnInv

-----------------------------------------------------------------------------
(* Turns are kept, and the invariant holds.                                *)

LEMMA StepKeepsTurns ==
    ASSUME TypeOK, OneModifier, NEW p \in Procs, OthersKeep(p), CallFrame(p),
           Occupies(p, file'[p]) \/ (\A q \in Procs \ {p} : ~Occupies(q, file'[p]))
           \/ op'[p] \notin ModOps,
           file2'[p] = file'[p]
    PROVE  OneModifier'
  <1>1. \A q \in Procs \ {p}, f \in Files : Occupies(q, f)' <=> Occupies(q, f)
    BY DEF OthersKeep, CallFrame, Occupies, Quiet
  <1>2. \A f \in Files : Occupies(p, f)' => f = file'[p] /\ op'[p] \in ModOps
    BY DEF Occupies
  <1>3. \A q \in Procs, f \in Files :
          q # p /\ Occupies(p, f)' => ~Occupies(q, f)'
    BY <1>1, <1>2 DEF OneModifier
  <1> QED
    BY <1>1, <1>3 DEF OneModifier, ModOps

LEMMA ProcKeepsTurns ==
    ASSUME TakingTurns, TurnsInv, TypeOK', NEW p \in Procs, OrphansWaitedFor,
           StartOp(p) \/ ProcStep(p) \/ Write(p) \/ Discard(p)
    PROVE  /\ TimesInv' /\ OneModifier'
           /\ \A q \in Procs : TurnInv(q)'
           /\ \A c \in Clients, f \in Files : Cached(c, f)' => CopyInv(c, f)'
  <1> USE DEF TurnsInv, FetchInv, StableInv
  <1>0. /\ CallFrame(p) /\ CacheFrame(p) /\ OthersKeep(p) /\ CallStep(p)
        /\ clock <= clock' /\ stmp' = stmp /\ SerialClients
        /\ C(p) \in Clients /\ TurnInv(p) /\ SessionInv(p) /\ CallMatches(p)
        /\ \A q \in Procs : C(q)' = C(q) /\ C(q) \in Clients
        /\ file' \in [Procs -> Files]
    BY StartFrame, StepCallFrame, StepCacheFrame, StartOthersKeep, StepOthersKeep, StartClock,
       StepClock, StartCalls, StepCalls, ClientOfType
       DEF Frame, TurnInv, CloseInv, ProcInv, TakingTurns, C, TypeOK, ClientTypeOK
  <1>1. KeepsRecorded
    BY <1>0, ProcKeepsRecorded DEF KeepsRecorded
  <1>2. TimesInv'
    <2>1. ASSUME NEW f \in Files PROVE FileInv(f)'
      <3>1. /\ sfile' = sfile /\ FileInv(f) /\ sfile[f].ver \in Nat /\ sfile[f].mtime \in Int
        BY <1>0 DEF CallFrame, TimesInv, TypeOK, ServerTypeOK, FileRec
      <3>2. \A v \in Nat, m \in Int : Recorded(f, v, m) => Recorded(f, v, m)'
        BY <1>1 DEF KeepsRecorded
      <3> QED
        BY <3>1, <3>2 DEF FileInv, Recorded, Storing, Exists, Behind
    <2>2. \A w \in Procs : stmp'[w] <= clock'
      BY <1>0 DEF TimesInv, TypeOK, ServerTypeOK
    <2> QED
      BY <2>1, <2>2 DEF TimesInv
  <1>3. OneModifier'
    <2>1. CASE StartOp(p)
      BY <1>0, <2>1, StartCalls, TakesTurn, StepKeepsTurns
    <2>2. CASE ~StartOp(p)
      <3>1. /\ ~Quiet(p) /\ file'[p] = file[p] /\ file2'[p] = file'[p]
            /\ op'[p] \in ModOps <=> op[p] \in ModOps
        BY <1>0, <2>2, StepCalls DEF TurnInv, CallInv
      <3>2. Occupies(p, file'[p]) \/ op'[p] \notin ModOps
        BY <3>1 DEF Occupies
      <3> QED
        BY <1>0, <3>1, <3>2, StepKeepsTurns
    <2> QED
      BY <2>1, <2>2
  <1>4. ASSUME NEW q \in Procs PROVE TurnInv(q)'
    <2>1. CASE q = p
      BY <1>0, <1>1, <2>1, StartKeepsTurn, StepKeepsTurn
    <2>2. CASE q # p
      <3>1. /\ C(q) # C(p) /\ path'[C(q)] = path[C(q)] /\ disk'[C(q)] = disk[C(q)]
        BY <1>0, <2>2 DEF SerialClients, CacheFrame, C
      <3>2. /\ sfile' = sfile /\ reply' = reply
            /\ pc'[q] = pc[q] /\ op'[q] = op[q] /\ file'[q] = file[q] /\ file2'[q] = file2[q]
            /\ auth'[q] = auth[q] /\ dirty'[q] = dirty[q]
            /\ call'[q] = call[q] /\ hpc'[q] = hpc[q]
        BY <1>0, <2>2 DEF CallFrame, OthersKeep
      <3> QED
        BY <1>1, <3>1, <3>2, TurnBystander
    <2> QED
      BY <2>1, <2>2
  <1>5. ASSUME NEW c \in Clients, NEW f \in Files, Cached(c, f)' PROVE CopyInv(c, f)'
    <2>1. CASE c # C(p)
      <3>1. Cached(c, f) /\ Copy(c, f)' = Copy(c, f)
        BY <1>0, <1>5, <2>1 DEF CacheFrame, Cached, Copy
      <3>2. \A q \in Procs : C(q) = c =>
              pc'[q] = pc[q] /\ file'[q] = file[q] /\ (Modifying(q)' <=> Modifying(q))
        BY <1>0, <2>1 DEF OthersKeep, Modifying
      <3> QED
        BY <1>1, <3>1, <3>2, SameCopy
    <2>2. CASE c = C(p) /\ f # file'[p]
      <3>1. OtherFiles(p)
        <4>1. ~\E g, h \in Files : StartRename(p, g, h)
          BY DEF StartRename, Begin, TakingTurns
        <4> QED
          BY <1>0, <4>1, StepOtherFiles DEF TurnInv, CallInv
      <3>2. Cached(c, f) /\ Copy(c, f)' = Copy(c, f)
        BY <1>5, <2>2, <3>1 DEF OtherFiles, Cached, Copy
      <3>3. \A q \in Procs : C(q) = c => q = p
        BY <1>0, <2>2 DEF SerialClients, C
      <3>4. ~(pc[p] = "stamp" /\ file[p] = f)
        <4>1. CASE StartOp(p)
          BY <4>1, StartCalls
        <4>2. CASE ~StartOp(p)
          BY <1>0, <2>2, <4>2, StepCalls DEF TurnInv
        <4> QED
          BY <4>1, <4>2
      <3> QED
        BY <1>1, <2>2, <3>2, <3>3, <3>4, SameCopy
    <2>3. CASE c = C(p) /\ StartOp(p) /\ f = file'[p]
      <3>1. CASE \E g \in Files : StartTruncate(p, g)
        <4>1. PICK g \in Files : StartTruncate(p, g)
          BY <3>1
        <4>2. g = f
          BY <2>3, <4>1 DEF StartTruncate, Begin, TypeOK, ClientTypeOK
        <4>3. PICK t : disk' = [disk EXCEPT ![c][path[c][f]] = Written(mods + 1, Local(c, t))]
          BY <2>3, <4>1, <4>2 DEF StartTruncate
        <4>4. path' = path /\ path[c][f] \in Inodes
          BY <2>3, <4>1, <4>2, CopyType DEF StartTruncate, TypeOK
        <4>5. Copy(c, f)' = Written(mods + 1, Local(c, t))
          BY <4>3, <4>4 DEF TypeOK, ClientTypeOK, Copy
        <4> QED
          BY <4>5, WrittenCopy
      <3>2. CASE ~\E g \in Files : StartTruncate(p, g)
        <4>1. path' = path /\ disk' = disk /\ pc'[p] \in {"auth", "remove"} \cup {"rename"}
          BY <2>3, <3>2 DEF StartOp, StartFetch, StartLookup, StartUnlink, StartRename, Goto,
                            TypeOK, ClientTypeOK
        <4>2. Cached(c, f) /\ Copy(c, f)' = Copy(c, f)
          BY <1>5, <4>1 DEF Cached, Copy
        <4>3. pc[p] = "idle"
          BY <2>3, StartCalls
        <4>4. \A q \in Procs : C(q) = c => q = p
          BY <1>0, <2>3 DEF SerialClients, C
        <4>5. ~Modifying(p)'
          BY <4>1 DEF Modifying
        <4> QED
          BY <1>1, <4>2, <4>3, <4>4, <4>5, SameCopy
      <3> QED
        BY <3>1, <3>2
    <2>4. CASE c = C(p) /\ ~StartOp(p) /\ f = file'[p]
      <3>1. pc[p] # "rename" /\ file[p] = f
        BY <1>0, <2>4, StepCalls DEF TurnInv, CallInv
      <3> QED
        BY <1>0, <1>1, <1>5, <2>4, <3>1, StepOwnCopy
    <2> QED
      BY <2>1, <2>2, <2>3, <2>4
  <1> QED
    BY <1>2, <1>3, <1>4, <1>5

LEMMA HandlerKeepsTurns ==
    ASSUME TakingTurns, TurnsInv, TypeOK', NEW w \in Procs,
           HandlerStep(w) \/ HandlerFault(w), UNCHANGED clientVars
    PROVE  /\ TimesInv' /\ OneModifier'
           /\ \A q \in Procs : TurnInv(q)'
           /\ \A c \in Clients, f \in Files : Cached(c, f)' => CopyInv(c, f)'
  <1> USE DEF TurnsInv, FetchInv, StableInv
  <1>0. /\ \A q \in Procs : CallInv(q) /\ TurnInv(q) /\ file[q] \in Files
                            /\ C(q)' = C(q) /\ C(q) \in Clients
        /\ call' = call /\ hpc[w] # "none" /\ hpc'[w] # "none"
        /\ \A q \in Procs \ {w} : hpc'[q] = hpc[q] /\ reply'[q] = reply[q]
        /\ UNCHANGED <<path, disk, pc, op, file, file2, auth, dirty>>
    BY HandlerFrame, HandlerEffect, ClientOfType
       DEF TurnInv, TypeOK, ClientTypeOK, C, clientVars
  <1>1. KeepsRecorded
    BY <1>0, HandlerKeepsRecorded DEF KeepsRecorded
  <1>2. TimesInv'
    BY <1>0, HandlerKeepsTimes
  <1>3. OneModifier'
    <2>1. \A q \in Procs : \A f \in Files : Occupies(q, f)' <=> Occupies(q, f)
      BY <1>0 DEF Occupies, Quiet
    <2> QED
      BY <2>1 DEF OneModifier
  <1>4. TurnInv(w)'
    <2>1. Cached(C(w), file[w]) => CopyInv(C(w), file[w])
      BY <1>0
    <2>2. CallMatches(w)
      BY DEF ProcInv
    <2> QED
      BY <1>0, <1>1, <1>2, <2>1, <2>2, HandlerKeepsTurn
  <1>5. ASSUME NEW q \in Procs \ {w} PROVE TurnInv(q)'
    <2>1. ASSUME hpc[q] = "renamed" PROVE sfile'[file[q]] = sfile[file[q]]
      <3>1. CASE sfile' = sfile
        BY <3>1
      <3>2. CASE sfile' # sfile
        <4>1. /\ call[w].kind \in {"Store", "Create", "Remove"}
              /\ Installs(w) \/ Removes(w)
          BY <1>0, <3>2, HandlerEffect
        <4>2. file[q] # file[w]
          BY <1>0, <2>1, <4>1, HandlersTurn
        <4> QED
          BY <1>0, <4>1, <4>2 DEF Installs, Removes, TypeOK, ServerTypeOK
      <3> QED
        BY <3>1, <3>2
    <2> QED
      BY <1>0, <1>1, <2>1, TurnBystander
  <1>6. ASSUME NEW c \in Clients, NEW f \in Files, Cached(c, f)' PROVE CopyInv(c, f)'
    <2>1. Cached(c, f) /\ Copy(c, f)' = Copy(c, f)
      BY <1>0, <1>6 DEF Cached, Copy
    <2>2. \A q \in Procs : Modifying(q)' <=> Modifying(q)
      BY <1>0 DEF Modifying
    <2> QED
      BY <1>0, <1>1, <2>1, <2>2, SameCopy
  <1> QED
    BY <1>2, <1>3, <1>4, <1>5, <1>6

\* A crash of the server, its restart and a crash of a client leave every time as it was.
LEMMA QuietTimes ==
    ASSUME TypeOK, TimesInv, UNCHANGED <<clock, sver, sfile, stmp, call>>,
           \A q \in Procs : hpc'[q] = "tmp" => hpc[q] = "tmp"
    PROVE  TimesInv' /\ KeepsRecorded
  <1>1. \A q \in Procs, f \in Files : Storing(q, f)' => Storing(q, f)
    BY DEF Storing
  <1>2. KeepsRecorded
    BY <1>1 DEF KeepsRecorded, Recorded, Exists, Behind
  <1>3. \A f \in Files : FileInv(f)'
    BY <1>1 DEF TimesInv, FileInv, Recorded, Exists, Behind
  <1> QED
    BY <1>2, <1>3 DEF TimesInv

LEMMA ServerCrashKeepsTurns ==
    ASSUME TurnsInv, TypeOK', Crash \/ Restart, UNCHANGED clientVars
    PROVE  /\ TimesInv' /\ OneModifier'
           /\ \A q \in Procs : TurnInv(q)'
           /\ \A c \in Clients, f \in Files : Cached(c, f)' => CopyInv(c, f)'
  <1> USE DEF TurnsInv, FetchInv, StableInv
  <1>0. /\ \A q \in Procs : TurnInv(q) /\ file[q] \in Files
                            /\ C(q)' = C(q) /\ C(q) \in Clients
        /\ UNCHANGED <<clock, sver, sfile, call, stmp, reply>>
        /\ \A q \in Procs : hpc'[q] = hpc[q] \/ (hpc[q] # "none" /\ hpc'[q] = "failed")
        /\ UNCHANGED <<path, disk, pc, op, file, file2, auth, dirty>>
    BY ClientOfType DEF Crash, Restart, TypeOK, ClientTypeOK, C, clientVars
  <1>1. TimesInv' /\ KeepsRecorded
    BY <1>0, QuietTimes
  <1>2. OneModifier'
    <2>1. \A q \in Procs : \A f \in Files : Occupies(q, f)' => Occupies(q, f)
      BY <1>0 DEF Occupies, Quiet
    <2> QED
      BY <2>1 DEF OneModifier
  <1>3. ASSUME NEW q \in Procs PROVE TurnInv(q)'
    <2>1. CASE hpc'[q] = hpc[q]
      BY <1>0, <1>1, <2>1, TurnBystander
    <2>2. CASE hpc[q] # "none" /\ hpc'[q] = "failed"
      <3>1. CallInv(q)'
        BY <1>0, <2>2 DEF TurnInv, CallInv, Modifying
      <3>2. ReplyInv(q)'
        BY <2>2 DEF ReplyInv
      <3>3. AuthRecorded(q) => AuthRecorded(q)'
        BY <1>0, <1>1, AuthStillRecorded
      <3>4. CheckInv(q)'
        BY <1>0, <3>3 DEF TurnInv, CheckInv, Fresh, Cached, Copy, Behind
      <3> QED
        BY <3>1, <3>2, <3>4 DEF TurnInv
    <2> QED
      BY <1>0, <2>1, <2>2
  <1>4. ASSUME NEW c \in Clients, NEW f \in Files, Cached(c, f)' PROVE CopyInv(c, f)'
    <2>1. Cached(c, f) /\ Copy(c, f)' = Copy(c, f)
      BY <1>0, <1>4 DEF Cached, Copy
    <2>2. \A q \in Procs : Modifying(q)' <=> Modifying(q)
      BY <1>0 DEF Modifying
    <2> QED
      BY <1>0, <1>1, <2>1, <2>2, SameCopy
  <1> QED
    BY <1>1, <1>2, <1>3, <1>4

LEMMA ClientCrashKeepsTurns ==
    ASSUME TurnsInv, TypeOK', NEW d \in Clients, ClientCrash(d)
    PROVE  /\ TimesInv' /\ OneModifier'
           /\ \A q \in Procs : TurnInv(q)'
           /\ \A c \in Clients, f \in Files : Cached(c, f)' => CopyInv(c, f)'
  <1> USE DEF TurnsInv, FetchInv, StableInv
  <1>0. /\ \A q \in Procs : TurnInv(q) /\ file[q] \in Files
                            /\ C(q)' = C(q) /\ C(q) \in Clients
        /\ UNCHANGED <<clock, sver, sfile, call, stmp, reply, hpc>>
        /\ UNCHANGED <<disk, op, file, file2, auth>>
        /\ \A q \in Procs :
              \/ C(q) = d /\ pc'[q] = "idle" /\ dirty'[q] = FALSE
              \/ C(q) # d /\ pc'[q] = pc[q] /\ dirty'[q] = dirty[q]
        /\ \A f \in Files : ~Cached(d, f)'
        /\ \A c \in Clients : c # d => path'[c] = path[c]
    BY ClientOfType DEF ClientCrash, TypeOK, ClientTypeOK, C, serverVars, Cached
  <1>1. TimesInv' /\ KeepsRecorded
    BY <1>0, QuietTimes
  <1>2. OneModifier'
    <2>1. \A q \in Procs : \A f \in Files : Occupies(q, f)' => Occupies(q, f)
      BY <1>0 DEF Occupies, Quiet
    <2> QED
      BY <2>1 DEF OneModifier
  <1>3. ASSUME NEW q \in Procs PROVE TurnInv(q)'
    <2>1. CASE C(q) # d
      BY <1>0, <1>1, <2>1, TurnBystander
    <2>2. CASE C(q) = d
      <3>1. CallInv(q)'
        BY <1>0, <2>2 DEF TurnInv, CallInv, Modifying
      <3>2. /\ AnswerRecorded(q) => AnswerRecorded(q)'
            /\ StoreRecorded(q) => StoreRecorded(q)'
        BY <1>0, <1>1, ReplyStillRecorded
      <3>3. ReplyInv(q)'
        BY <1>0, <2>2, <3>2 DEF TurnInv, ReplyInv, Exists
      <3>4. CheckInv(q)'
        BY <1>0, <2>2 DEF CheckInv
      <3> QED
        BY <3>1, <3>3, <3>4 DEF TurnInv
    <2> QED
      BY <2>1, <2>2
  <1>4. ASSUME NEW c \in Clients, NEW f \in Files, Cached(c, f)' PROVE CopyInv(c, f)'
    <2>1. c # d /\ Cached(c, f) /\ Copy(c, f)' = Copy(c, f)
      BY <1>0, <1>4 DEF Cached, Copy
    <2>2. \A q \in Procs : C(q) = c => pc'[q] = pc[q] /\ (Modifying(q)' <=> Modifying(q))
      BY <1>0, <2>1 DEF Modifying
    <2> QED
      BY <1>0, <1>1, <2>1, <2>2, SameCopy
  <1> QED
    BY <1>1, <1>2, <1>3, <1>4

LEMMA TurnsInvInit == Init => TurnsInv
  <1> SUFFICES ASSUME Init PROVE TurnsInv
    OBVIOUS
  <1>0. FetchInv /\ StableInv
    BY FetchInvInit, StableInvInit
  <1>1. CloseInv
    BY <1>0 DEF StableInv, CloseInv, Init, ClientInit, SessionInv
  <1>2. TimesInv
    BY DEF Init, ServerInit, TimesInv, FileInv, Recorded, Storing, Exists, Absent
  <1>3. OneModifier
    BY DEF Init, ServerInit, ClientInit, OneModifier, Occupies, Quiet
  <1>4. \A p \in Procs : TurnInv(p)
    BY DEF Init, ServerInit, ClientInit, TurnInv, CallInv, ReplyInv, CheckInv, Modifying
  <1>5. \A c \in Clients, f \in Files : ~Cached(c, f)
    BY DEF Init, ClientInit, Cached
  <1> QED
    BY <1>0, <1>1, <1>2, <1>3, <1>4, <1>5 DEF TurnsInv

LEMMA TurnsInvNext ==
    ASSUME TakingTurns, TurnsInv, [Next]_vars, [OrphansWaitedFor]_vars PROVE TurnsInv'
  <1>0. FetchInv' /\ CloseInv' /\ StableInv'
    BY FetchInvNext, CloseInvNext, StableInvNext DEF TurnsInv, TakingTurns
  <1>1. TypeOK'
    BY <1>0 DEF StableInv
  <1>2. CASE OrphansWaitedFor /\ \E p \in Procs : StartOp(p) \/ ProcStep(p) \/ Write(p) \/ Discard(p)
    BY <1>0, <1>1, <1>2, ProcKeepsTurns DEF TurnsInv
  <1>3. CASE /\ \E w \in Procs : HandlerStep(w) \/ HandlerFault(w)
             /\ UNCHANGED clientVars
    BY <1>0, <1>1, <1>3, HandlerKeepsTurns DEF TurnsInv
  <1>4. CASE (Crash \/ Restart) /\ UNCHANGED clientVars
    BY <1>0, <1>1, <1>4, ServerCrashKeepsTurns DEF TurnsInv
  <1>5. CASE \E c \in Clients : ClientCrash(c)
    BY <1>0, <1>1, <1>5, ClientCrashKeepsTurns DEF TurnsInv
  <1>6. CASE UNCHANGED vars
    <2>1. UNCHANGED serverVars /\ UNCHANGED clientVars
      BY <1>6 DEF vars
    <2>2. TimesInv' /\ OneModifier'
      BY <2>1 DEF serverVars, clientVars, TurnsInv, TimesInv, FileInv, Recorded, Storing, Exists,
                  Behind, OneModifier, Occupies, Quiet
    <2>3. \A p \in Procs : TurnInv(p)'
      <3>1. TypeOK /\ TimesInv /\ \A p \in Procs : TurnInv(p)
        BY DEF TurnsInv, StableInv
      <3>2. KeepsRecorded
        BY <2>1, <3>1, QuietTimes DEF serverVars
      <3> QED
        BY <2>1, <3>1, <3>2, TurnBystander DEF serverVars, clientVars
    <2>4. \A c \in Clients, f \in Files : Cached(c, f)' => CopyInv(c, f)'
      BY <2>1 DEF serverVars, clientVars, TurnsInv, CopyInv, CopyRecorded, Recorded, Storing, Exists,
                  Behind, Modifying, Cached, Copy, C
    <2> QED
      BY <1>0, <2>2, <2>3, <2>4 DEF TurnsInv
  <1> QED
    BY <1>2, <1>3, <1>4, <1>5, <1>6 DEF Next, CrashClient

LEMMA TurnsInvImplies == ASSUME SerialClients, TurnsInv PROVE ValidatedIsCurrent
  <1> SUFFICES ASSUME NEW p \in Procs, pc[p] = "check", Fresh(p), auth[p].ver > 0,
                      Copy(C(p), file[p]).ver > 0
               PROVE  Copy(C(p), file[p]).ver >= auth[p].ver
    BY DEF ValidatedIsCurrent
  <1> DEFINE copy == Copy(C(p), file[p])
  <1>0. /\ C(p) \in Clients /\ file[p] \in Files /\ Cached(C(p), file[p])
        /\ copy \in InodeRec /\ auth[p].mtime \in Int /\ auth[p].ver \in Nat
        /\ auth[p].mtime <= copy.mtime
    BY ClientOfType, CopyType DEF TurnsInv, StableInv, TypeOK, ClientTypeOK, AuthRec, Fresh
  <1>1. CopyInv(C(p), file[p]) /\ TurnInv(p)
    BY <1>0 DEF TurnsInv
  <1>2. copy.by # "clock"
    BY <1>0, <1>1 DEF CopyInv, SerialClients, C
  <1>3. Behind(copy.stamp, copy.mtime, auth[p])
    BY <1>0, <1>1, <1>2 DEF TurnInv, CheckInv
  <1>4. copy.stamp = auth[p].ver
    BY <1>0, <1>3 DEF Behind, InodeRec
  <1>5. copy.stamp <= copy.ver
    <2>1. CASE copy.by = "fetch"
      BY <1>0, <2>1, FetchInvImplies DEF TurnsInv, FetchedNotOlder
    <2>2. CASE copy.by = "store"
      BY <1>1, <2>2 DEF CopyInv
    <2> QED
      BY <1>0, <1>2, <2>1, <2>2 DEF InodeRec
  <1> QED
    BY <1>0, <1>4, <1>5 DEF InodeRec

\* A cached copy that passes the check of AfsClient::Fetch holds the version TestAuth
\* saw on the server, or a later one: with one thread per client, clients that take
\* turns in modifying a file, no two stamps of the server within one tick and no rename,
\* for any number of clients and files, any skew of the clients' clocks, failing
\* handlers and crashes of both sides, if nobody begins to modify a file that the call of
\* a crashed client is still at work on.  With renames it does not hold (run stale_rename).
THEOREM ValidatedCopies ==
    ASSUME TakingTurns
    PROVE  Spec /\ [][OrphansWaitedFor]_vars => []ValidatedIsCurrent
  <1>1. Init => TurnsInv
    BY TurnsInvInit
  <1>2. TurnsInv /\ [Next]_vars /\ [OrphansWaitedFor]_vars => TurnsInv'
    BY TurnsInvNext, TakingTurns
  <1>3. TurnsInv => ValidatedIsCurrent
    BY TurnsInvImplies, TakingTurns DEF TakingTurns
  <1> QED
    BY <1>1, <1>2, <1>3, PTL DEF Spec

=============================================================================
