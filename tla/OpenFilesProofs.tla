--------------------------- MODULE OpenFilesProofs ---------------------------
(***************************************************************************)
(* Open files for any number of processes, files, handles, descriptors and *)
(* writes: marks and delayed writes survive the reuse of descriptors.      *)
(***************************************************************************)
EXTENDS OpenFiles, SequenceTheorems, WellFoundedInduction, TLAPS

\* The steps of a flush at which both queues have been emptied, at which one of
\* them has, and all of them.
Drained == {"dup", "copy", "clear", "closeDirty", "closeClean", "store", "flushed"}
Past(k) == IF k = "delay" THEN {"flushReorder"} \cup Drained ELSE Drained
Flushing == {"flushDelay", "flushReorder"} \cup Drained

\* The table has an entry for every descriptor.
Fits == Limit <= Entries

\* A handle between its open and its release, and one with a descriptor of its own.
Opened(h) == fh[h] # NoFd
Proper(h) == fh[h] \notin {NoFd, 0}

\* A flush between dup and close, with a duplicate of its own.
HoldsDup(p) ==
    pc[p] \in {"copy", "clear", "closeDirty", "closeClean"} /\ newfd[p] \notin {NoFd, 0}

\* Who has which descriptor: every number but 0 is that of one open file, or of one
\* duplicate.
FdInv ==
    /\ \A h \in Handles : Proper(h) => hfile[h] \in Files /\ fdt[fh[h]] = hfile[h]
    /\ \A g, h \in Handles : Proper(g) /\ Proper(h) /\ fh[g] = fh[h] => g = h
    /\ \A p \in Procs : HoldsDup(p) => fdt[newfd[p]] # NoFile
    /\ \A p \in Procs, h \in Handles : HoldsDup(p) /\ Proper(h) => fh[h] # newfd[p]
    /\ \A p, q \in Procs : HoldsDup(p) /\ HoldsDup(q) /\ newfd[p] = newfd[q] => p = q

\* Who has which handle: a live one its processes, one that is not yet live the
\* thread that opens it.
HeldInv == \A h \in Handles :
    /\ refs[h] # {} => Live(h)
    /\ hfile[h] = NoFile => ~Opened(h)
OpenerInv ==
    \A p \in Procs : pc[p] = "publish" =>
        /\ cur[p] \in Handles /\ Opened(cur[p]) /\ own[cur[p]] = {}
        /\ \A q \in Procs : pc[q] = "publish" /\ cur[p] = cur[q] => p = q
UserInv ==
    \A p \in Procs :
        /\ pc[p] \notin {"idle", "publish", "mark"} => cur[p] \in Handles /\ p \in refs[cur[p]]
        /\ pc[p] = "mark" => cur[p] \in Handles /\ Live(cur[p])
HandleInv == HeldInv /\ OpenerInv /\ UserInv

\* Which writes are whose.
OwnInv ==
    /\ \A h \in Handles : \A w \in own[h] :
            Opened(h) /\ wfile[w] = hfile[h] /\ (Proper(h) \/ w \in stray)
    /\ \A g, h \in Handles : \A w \in own[g] \cap own[h] : g = h
    /\ \A p \in Procs : pc[p] = "mark" => due[p] # {} /\ due[p] \subseteq own[cur[p]]
    /\ \A p \in Procs : pc[p] \in Flushing => due[p] \subseteq own[cur[p]] \cap Returned

Queued(w, k) == \E e \in Range(queue[k]) : e.write = w

\* A queued write that is not stray names the descriptor of a file that a process
\* still has to flush, and that flush will empty the queue.
Waiting(e, k) ==
    \E h \in Handles : \E p \in refs[h] :
        /\ Proper(h) /\ fh[h] = e.fd /\ e.write \in own[h]
        /\ ~(cur[p] = h /\ pc[p] \in Past(k))

QueueInv ==
    \A k \in Queues : \A e \in Range(queue[k]) : e.write \in stray \/ Waiting(e, k)

\* A write is not lost.
PlaceInv ==
    \A w \in Writes \ stray : wfile[w] # NoFile =>
        w \in content[wfile[w]] \/ \E k \in Queues : Queued(w, k)

\* What a flush or fsync must not miss leaves the queues one after the other.
DueInv ==
    \A p \in Procs :
        /\ \A w \in due[p] : wfile[w] # NoFile
        /\ pc[p] \in {"fsyncReorder", "flushReorder"} => \A w \in due[p] : ~Queued(w, "delay")
        /\ pc[p] \in {"synced"} \cup Drained => \A w \in due[p] \ stray : w \in content[wfile[w]]

\* The table of descriptors, at the descriptor of a handle ...
MarkInv ==
    Fits => \A h \in Handles : Proper(h) =>
        /\ Live(h) /\ fstate[fh[h]] = "written" => own[h] # {}
        /\ own[h] \cap Returned # {} => fstate[fh[h]] = "written"

\* ... and at the duplicate that a flush closes.
DupInv ==
    Fits => \A p \in Procs : HoldsDup(p) =>
        /\ pc[p] = "clear" =>
              /\ fh[cur[p]] # 0 /\ fstate[newfd[p]] = "written" => own[cur[p]] # {}
              /\ due[p] \ stray # {} => fstate[newfd[p]] = "written"
        /\ pc[p] = "closeDirty" /\ fh[cur[p]] # 0 => own[cur[p]] # {}
        /\ pc[p] = "closeClean" => due[p] \ stray = {}

\* What a flush stores.
StoreInv == Fits => CleanCloseStoresNothing /\ FlushStoresWrites

Inv ==
    /\ TypeOK /\ FdInv /\ HandleInv /\ OwnInv /\ QueueInv /\ PlaceInv /\ DueInv
    /\ WritesReachTheirFile /\ MarkInv /\ DupInv /\ StoreInv

-----------------------------------------------------------------------------
(* Operators of the model.                                                 *)

\* The least element of a set of numbers is one of them.
LEMMA MinIn == ASSUME NEW S \in SUBSET Nat, S # {} PROVE Min(S) \in S
<1>1. PICK x \in S : \A y \in S : ~(<<y, x>> \in OpToRel(<, Nat))
  BY WFMin, NatLessThanWellFounded
<1>2. \A y \in S : y < x => <<y, x>> \in OpToRel(<, Nat)
  BY DEF OpToRel
<1>3. \A y \in S : ~(y < x)
  BY <1>1, <1>2, Zenon
<1>4. \A y \in S : x <= y
  BY <1>3
<1>. QED
  BY <1>4 DEF Min

\* RemoveAt keeps all other elements and adds none.
LEMMA RemoveAtEntries ==
    ASSUME NEW S, NEW s \in Seq(S), NEW i \in DOMAIN s
    PROVE  /\ RemoveAt(s, i) \in Seq(S)
           /\ \A j \in DOMAIN RemoveAt(s, i) : \E n \in DOMAIN s : RemoveAt(s, i)[j] = s[n]
           /\ \A n \in DOMAIN s \ {i} : \E j \in DOMAIN RemoveAt(s, i) : RemoveAt(s, i)[j] = s[n]
<1>. DEFINE m == Len(s)
<1>1. m \in Nat /\ i \in 1 .. m /\ DOMAIN s = 1 .. m
  OBVIOUS
<1>2. PICK a : a = SubSeq(s, 1, i - 1)
  OBVIOUS
<1>3. PICK b : b = SubSeq(s, i + 1, m)
  OBVIOUS
<1>4. a \in Seq(S) /\ Len(a) = i - 1 /\ \A j \in 1 .. i - 1 : a[j] = s[j]
  BY <1>1, <1>2, SubSeqProperties
<1>5. b \in Seq(S) /\ Len(b) = m - i /\ \A j \in 1 .. m - i : b[j] = s[i + j]
  BY <1>1, <1>3, SubSeqProperties
<1>6. PICK r : r = a \o b
  OBVIOUS
<1>7. RemoveAt(s, i) = r
  BY <1>2, <1>3, <1>6 DEF RemoveAt
<1>8. /\ r \in Seq(S) /\ Len(r) = m - 1
      /\ \A j \in 1 .. m - 1 : r[j] = IF j <= i - 1 THEN a[j] ELSE b[j - (i - 1)]
  <2>1. /\ r \in Seq(S) /\ Len(r) = Len(a) + Len(b)
        /\ \A j \in 1 .. Len(a) + Len(b) : r[j] = IF j <= Len(a) THEN a[j] ELSE b[j - Len(a)]
    BY <1>4, <1>5, <1>6, ConcatProperties
  <2>2. Len(a) + Len(b) = m - 1
    BY <1>1, <1>4, <1>5
  <2>. QED
    BY <1>4, <2>1, <2>2
<1>. HIDE DEF m
<1>9. DOMAIN r = 1 .. m - 1
  BY <1>8
<1>10. \A j \in 1 .. m - 1 : r[j] = s[IF j < i THEN j ELSE j + 1]
  <2>. TAKE j \in 1 .. m - 1
  <2>1. CASE j < i
    <3>1. j \in 1 .. i - 1 /\ j <= i - 1
      BY <1>1, <2>1
    <3>. QED
      BY <1>4, <1>8, <2>1, <3>1
  <2>2. CASE ~(j < i)
    <3>1. j - (i - 1) \in 1 .. m - i /\ ~(j <= i - 1) /\ i + (j - (i - 1)) = j + 1
      BY <1>1, <2>2
    <3>. QED
      BY <1>5, <1>8, <2>2, <3>1
  <2>. QED
    BY <2>1, <2>2
<1>11. \A j \in 1 .. m - 1 : (IF j < i THEN j ELSE j + 1) \in 1 .. m
  BY <1>1
<1>12. \A n \in 1 .. m \ {i} : \E j \in 1 .. m - 1 : r[j] = s[n]
  <2>. TAKE n \in 1 .. m \ {i}
  <2>1. CASE n < i
    <3>1. n \in 1 .. m - 1
      BY <1>1, <2>1
    <3>. QED
      BY <1>10, <2>1, <3>1
  <2>2. CASE n > i
    <3>1. n - 1 \in 1 .. m - 1 /\ ~(n - 1 < i) /\ (n - 1) + 1 = n
      BY <1>1, <2>2
    <3>. QED
      BY <1>10, <3>1
  <2>. QED
    BY <1>1, <2>1, <2>2
<1>. QED
  BY <1>1, <1>7, <1>8, <1>9, <1>10, <1>11, <1>12

LEMMA RemoveAtRange ==
    ASSUME NEW S, NEW s \in Seq(S), NEW i \in DOMAIN s
    PROVE  /\ RemoveAt(s, i) \in Seq(S)
           /\ Range(RemoveAt(s, i)) \subseteq Range(s)
           /\ Range(s) \ {s[i]} \subseteq Range(RemoveAt(s, i))
<1>. DEFINE r == RemoveAt(s, i)
<1>1. r \in Seq(S)
  BY RemoveAtEntries
<1>2. \A j \in DOMAIN r : \E n \in DOMAIN s : r[j] = s[n]
  BY RemoveAtEntries
<1>3. \A n \in DOMAIN s \ {i} : \E j \in DOMAIN r : r[j] = s[n]
  BY RemoveAtEntries
<1>. HIDE DEF r
<1>4. Range(r) \subseteq Range(s)
  BY <1>2 DEF Range
<1>5. Range(s) \ {s[i]} \subseteq Range(r)
  BY <1>3 DEF Range
<1>. QED
  BY <1>1, <1>4, <1>5 DEF r

LEMMA AppendRange ==
    ASSUME NEW S, NEW s \in Seq(S), NEW e \in S
    PROVE  Append(s, e) \in Seq(S) /\ Range(Append(s, e)) = Range(s) \cup {e}
<1>. DEFINE a == Append(s, e)
<1>1. a \in Seq(S) /\ Len(a) = Len(s) + 1 /\ Len(s) \in Nat
  BY AppendProperties
<1>2. a[Len(s) + 1] = e /\ \A i \in 1 .. Len(s) : a[i] = s[i]
  BY AppendProperties
<1>3. DOMAIN a = 1 .. Len(s) + 1 /\ DOMAIN s = 1 .. Len(s)
  BY <1>1
<1>. HIDE DEF a
<1>4. \A i \in 1 .. Len(s) + 1 : i = Len(s) + 1 \/ i \in 1 .. Len(s)
  BY <1>1
<1>5. Range(a) \subseteq Range(s) \cup {e}
  BY <1>2, <1>3, <1>4 DEF Range
<1>6. Range(s) \cup {e} \subseteq Range(a)
  <2>1. Len(s) + 1 \in DOMAIN a /\ DOMAIN s \subseteq DOMAIN a
    BY <1>1, <1>3
  <2>. QED
    BY <1>2, <1>3, <2>1 DEF Range
<1>. QED
  BY <1>1, <1>5, <1>6 DEF a

LEMMA SeqElements ==
    ASSUME NEW S, NEW s \in Seq(S)
    PROVE  Range(s) \subseteq S
BY LenProperties DEF Range

LEMMA LowestIsFree == Lowest # NoFd => Lowest \in Fds /\ fdt[Lowest] = NoFile
<1>. SUFFICES ASSUME FreeFds # {} PROVE Min(FreeFds) \in FreeFds
  BY DEF Lowest, FreeFds
<1>1. FreeFds \in SUBSET Nat
  BY LimitAssumption DEF FreeFds, Fds
<1>. QED
  BY <1>1, MinIn

LEMMA LowestType == Lowest \in Fds \cup {NoFd}
BY LowestIsFree

LEMMA FdFacts ==
    /\ 0 \in Fds /\ NoFd \notin Fds /\ NoFd # 0
    /\ Fits => Fds \subseteq Slots
BY LimitAssumption, EntriesAssumption DEF NoFd, Fds, Fits, Slots

\* An entry of the table, set and read.
LEMMA EntrySet ==
    ASSUME TypeOK, NEW d, NEW v \in FileStates, SetEntry(d, v)
    PROVE  /\ fstate' \in [Slots -> FileStates]
           /\ d \in Slots => fstate'[d] = v
           /\ \A e \in Slots : e # d => fstate'[e] = fstate[e]
BY DEF TypeOK, SetEntry

LEMMA EntryRead ==
    ASSUME TypeOK, NEW d, NEW v \in Entry(d)
    PROVE  v \in FileStates /\ (d \in Slots => v = fstate[d])
BY DEF TypeOK, Entry

-----------------------------------------------------------------------------
(* The invariant holds initially, and every action preserves it.           *)

LEMMA InitInv == Init => Inv
<1>. SUFFICES ASSUME Init PROVE Inv
  OBVIOUS
<1>1. TypeOK
  BY ProcsAssumption DEF Init, TypeOK, FileStates, Locks, PCs
<1>2. \A h \in Handles : ~Opened(h) /\ ~Proper(h)
  BY DEF Init, Opened, Proper
<1>3. FdInv /\ HandleInv /\ OwnInv
  BY <1>2 DEF Init, FdInv, HandleInv, HeldInv, OpenerInv, UserInv, OwnInv, HoldsDup, Flushing, Drained
<1>4. QueueInv /\ PlaceInv /\ DueInv
  BY DEF Init, QueueInv, PlaceInv, DueInv, Drained, Range
<1>5. MarkInv /\ DupInv
  BY <1>2 DEF Init, MarkInv, DupInv, HoldsDup
<1>6. WritesReachTheirFile /\ StoreInv
  BY DEF Init, WritesReachTheirFile, StoreInv, CleanCloseStoresNothing, FlushStoresWrites
<1>. QED
  BY <1>1, <1>3, <1>4, <1>5, <1>6 DEF Inv

\* A busy process is busy with an open handle, and so is whoever has one.
LEMMA BusyHandles ==
    ASSUME HandleInv
    PROVE  /\ \A p \in Procs : pc[p] # "idle" => cur[p] \in Handles /\ Opened(cur[p])
           /\ \A p \in Procs : pc[p] \notin {"idle", "publish"} => Live(cur[p])
           /\ \A h \in Handles : Live(h) => Opened(h)
           /\ \A h \in Handles : refs[h] # {} => Opened(h)
BY DEF HandleInv, HeldInv, OpenerInv, UserInv, Live, Opened

\* A process that still has to flush a handle keeps its queued writes in order.
LEMMA WaitingKept ==
    ASSUME QueueInv, NEW k \in Queues, NEW e \in Range(queue[k]), e.write \notin stray,
           \A h \in Handles : refs[h] # {} => fh'[h] = fh[h] /\ own[h] \subseteq own'[h],
           \A h \in Handles : \A q \in refs[h] :
                ~(cur[q] = h /\ pc[q] \in Past(k)) =>
                    q \in refs'[h] /\ ~(cur'[q] = h /\ pc'[q] \in Past(k))
    PROVE  Waiting(e, k)'
<1>1. PICK h \in Handles : \E q \in refs[h] :
        /\ Proper(h) /\ fh[h] = e.fd /\ e.write \in own[h]
        /\ ~(cur[q] = h /\ pc[q] \in Past(k))
  BY DEF QueueInv, Waiting
<1>. PICK q \in refs[h] : ~(cur[q] = h /\ pc[q] \in Past(k))
  BY <1>1
<1>2. Proper(h)' /\ fh'[h] = e.fd /\ e.write \in own'[h]
  BY <1>1 DEF Proper
<1>3. q \in refs'[h] /\ ~(cur'[q] = h /\ pc'[q] \in Past(k))
  OBVIOUS
<1>. QED
  BY <1>2, <1>3 DEF Waiting

LEMMA QueueKept ==
    ASSUME QueueInv, \A k \in Queues : Range(queue'[k]) \subseteq Range(queue[k]),
           stray \subseteq stray',
           \A h \in Handles : refs[h] # {} => fh'[h] = fh[h] /\ own[h] \subseteq own'[h],
           \A k \in Queues : \A h \in Handles : \A q \in refs[h] :
                ~(cur[q] = h /\ pc[q] \in Past(k)) =>
                    q \in refs'[h] /\ ~(cur'[q] = h /\ pc'[q] \in Past(k))
    PROVE  QueueInv'
<1>. SUFFICES ASSUME NEW k \in Queues, NEW e \in Range(queue'[k]), e.write \notin stray'
              PROVE  Waiting(e, k)'
  BY DEF QueueInv
<1>. QED
  BY WaitingKept

\* A handle gets the lowest free descriptor.
LEMMA OpenStep ==
    ASSUME Inv, NEW p \in Procs, NEW h \in Handles, NEW f \in Files, Open(p, h, f)
    PROVE  Inv'
<1>. USE DEF Inv, writeVars, aliceVars
<1>1. Lowest \in Fds /\ fdt[Lowest] = NoFile /\ f # NoFile
  BY LowestIsFree, NoFileAssumption DEF Open
<1>2. /\ pc[p] = "idle" /\ ~Opened(h) /\ ~Proper(h) /\ refs[h] = {} /\ own[h] = {}
      /\ \A q \in Procs : pc[q] # "idle" => cur[q] # h
      /\ UNCHANGED <<fstate, refs, own, writeVars, aliceVars, newfd, due, sent>>
  BY BusyHandles DEF Open, HandleInv, HeldInv, OwnInv, Opened, Proper
<1>3. /\ fdt' \in [Fds -> Files \cup {NoFile, Std}] /\ hfile' \in [Handles -> Files \cup {NoFile}]
      /\ fh' \in [Handles -> Fds \cup {NoFd}] /\ cur' \in [Procs -> Handles \cup {NoHandle}]
      /\ pc' \in [Procs -> PCs]
      /\ hfile'[h] = f /\ fh'[h] = Lowest /\ fdt'[Lowest] = f
      /\ pc'[p] = "publish" /\ cur'[p] = h
      /\ \A g \in Handles \ {h} : hfile'[g] = hfile[g] /\ fh'[g] = fh[g]
      /\ \A d \in Fds : d # Lowest => fdt'[d] = fdt[d]
      /\ \A q \in Procs \ {p} : pc'[q] = pc[q] /\ cur'[q] = cur[q]
  BY <1>1 DEF Open, Step, TypeOK, PCs
<1>4. TypeOK'
  <2>1. \A q \in Procs : pc[q] \in DOMAIN Draining => pc'[q] = pc[q]
    BY <1>2, <1>3 DEF Draining
  <2>2. \A k \in Queues : lock'[k] \in Procs =>
            pc'[lock'[k]] \in DOMAIN Draining /\ Draining[pc'[lock'[k]]] = k
    BY <1>2, <2>1 DEF TypeOK
  <2>. QED
    BY <1>2, <1>3, <2>2 DEF TypeOK
<1>5. Returned' = Returned
  BY <1>2, <1>3 DEF Returned
<1>6. \A g \in Handles : /\ Opened(g)' <=> (g = h \/ Opened(g))
                         /\ Live(g)' <=> (g # h /\ Live(g))
                         /\ g # h => (Proper(g)' <=> Proper(g))
  BY <1>1, <1>2, <1>3, FdFacts DEF Live, Opened, Proper
<1>7. FdInv'
  <2>1. \A g \in Handles : Proper(g) => g # h /\ fh[g] \in Fds /\ fh[g] # Lowest
    BY <1>1, <1>2, NoFileAssumption DEF FdInv, Proper, TypeOK
  <2>2. \A q \in Procs : HoldsDup(q) => newfd[q] \in Fds /\ newfd[q] # Lowest
    BY <1>1 DEF FdInv, HoldsDup, TypeOK
  <2>3. \A q \in Procs : HoldsDup(q)' => HoldsDup(q)
    BY <1>2, <1>3 DEF HoldsDup
  <2>. QED
    BY <1>1, <1>2, <1>3, <1>6, <2>1, <2>2, <2>3 DEF FdInv
<1>8. HandleInv'
  <2>1. HeldInv'
    BY <1>1, <1>2, <1>3, <1>6 DEF HandleInv, HeldInv
  <2>2. OpenerInv'
    <3>1. \A q \in Procs \ {p} : pc'[q] = "publish" => pc[q] = "publish" /\ cur'[q] = cur[q] /\ cur[q] # h
      BY <1>2, <1>3
    <3>. QED
      BY <1>2, <1>3, <1>6, <3>1 DEF HandleInv, OpenerInv
  <2>3. UserInv'
    <3>1. \A q \in Procs : pc'[q] \notin {"idle", "publish"} =>
              q # p /\ pc'[q] = pc[q] /\ cur'[q] = cur[q] /\ cur[q] # h
      BY <1>2, <1>3
    <3>. QED
      BY <1>2, <1>6, <3>1 DEF HandleInv, UserInv
  <2>. QED
    BY <2>1, <2>2, <2>3 DEF HandleInv
<1>9. OwnInv'
  BY <1>2, <1>3, <1>5, <1>6 DEF OwnInv, Flushing, Drained
<1>10. QueueInv'
  <2>1. \A g \in Handles : refs[g] # {} => g # h
    BY <1>2
  <2>2. \A k \in Queues : \A g \in Handles : \A q \in refs[g] :
            ~(cur[q] = g /\ pc[q] \in Past(k)) =>
                q \in refs'[g] /\ ~(cur'[q] = g /\ pc'[q] \in Past(k))
    BY <1>2, <1>3, <2>1 DEF Past, Drained, TypeOK
  <2>. QED
    BY <1>2, <1>3, <2>1, <2>2, QueueKept
<1>11. PlaceInv' /\ WritesReachTheirFile'
  BY <1>2 DEF PlaceInv, Queued, WritesReachTheirFile
<1>12. DueInv'
  BY <1>2, <1>3 DEF DueInv, Queued, Drained
<1>13. MarkInv'
  BY <1>2, <1>3, <1>5, <1>6 DEF MarkInv, Fits
<1>14. DupInv'
  <2>1. \A q \in Procs : HoldsDup(q)' => HoldsDup(q) /\ pc'[q] = pc[q] /\ cur'[q] = cur[q] /\ cur[q] # h
    BY <1>2, <1>3 DEF HoldsDup
  <2>2. \A q \in Procs : pc[q] # "idle" => cur[q] \in Handles
    BY BusyHandles
  <2>. QED
    BY <1>2, <1>3, <2>1, <2>2 DEF DupInv, HoldsDup, Fits
<1>15. StoreInv'
  <2>1. \A q \in Procs : pc[q] # "idle" => cur[q] \in Handles
    BY BusyHandles
  <2>. QED
    BY <1>2, <1>3, <2>1 DEF StoreInv, CleanCloseStoresNothing, FlushStoresWrites, Fits
<1>. QED
  BY <1>4, <1>7, <1>8, <1>9, <1>10, <1>11, <1>12, <1>13, <1>14, <1>15

\* A handle on descriptor 0.
LEMMA NoopOpenStep ==
    ASSUME Inv, NEW p \in Procs, NEW h \in Handles, NEW f \in Files, NoopOpen(p, h, f)
    PROVE  Inv'
<1>. USE DEF Inv, writeVars, aliceVars, opVars
<1>1. /\ ~Opened(h) /\ ~Proper(h) /\ refs[h] = {} /\ own[h] = {}
      /\ \A q \in Procs : pc[q] # "idle" => cur[q] # h
      /\ UNCHANGED <<fdt, fstate, writeVars, aliceVars, pc, opVars>>
  BY BusyHandles DEF NoopOpen, HandleInv, HeldInv, OwnInv, Opened, Proper
<1>2. own' = own
  BY <1>1 DEF NoopOpen, TypeOK
<1>3. PICK ps \in SUBSET Procs : refs' = [refs EXCEPT ![h] = ps \cup {p}]
  BY DEF NoopOpen
<1>4. /\ hfile' \in [Handles -> Files \cup {NoFile}] /\ fh' \in [Handles -> Fds \cup {NoFd}]
      /\ refs' \in [Handles -> SUBSET Procs]
      /\ hfile'[h] # NoFile /\ fh'[h] = 0
      /\ \A g \in Handles \ {h} : hfile'[g] = hfile[g] /\ fh'[g] = fh[g] /\ refs'[g] = refs[g]
  BY <1>3, FdFacts, NoFileAssumption DEF NoopOpen, TypeOK
<1>5. TypeOK' /\ Returned' = Returned
  BY <1>1, <1>2, <1>4 DEF TypeOK, Returned
<1>6. \A g \in Handles : /\ Opened(g)' <=> (g = h \/ Opened(g))
                         /\ Live(g)' <=> (g = h \/ Live(g))
                         /\ Proper(g)' <=> Proper(g)
                         /\ Proper(g) => g # h
  BY <1>1, <1>4, FdFacts DEF Live, Opened, Proper
<1>7. FdInv'
  BY <1>1, <1>4, <1>6 DEF FdInv, HoldsDup
<1>8. HandleInv'
  <2>1. HeldInv'
    BY <1>4, <1>6 DEF HandleInv, HeldInv
  <2>2. OpenerInv'
    BY <1>1, <1>2, <1>6 DEF HandleInv, OpenerInv
  <2>3. UserInv'
    BY <1>1, <1>4, <1>6 DEF HandleInv, UserInv
  <2>. QED
    BY <2>1, <2>2, <2>3 DEF HandleInv
<1>9. OwnInv'
  BY <1>1, <1>2, <1>4, <1>5, <1>6 DEF OwnInv
<1>10. QueueInv'
  <2>1. \A k \in Queues : \A g \in Handles : \A q \in refs[g] :
            ~(cur[q] = g /\ pc[q] \in Past(k)) =>
                q \in refs'[g] /\ ~(cur'[q] = g /\ pc'[q] \in Past(k))
    BY <1>1, <1>4
  <2>. QED
    BY <1>1, <1>2, <1>4, <2>1, QueueKept
<1>11. PlaceInv' /\ WritesReachTheirFile' /\ DueInv'
  BY <1>1 DEF PlaceInv, Queued, WritesReachTheirFile, DueInv
<1>12. MarkInv'
  BY <1>1, <1>2, <1>4, <1>5, <1>6 DEF MarkInv, Fits
<1>13. DupInv'
  BY <1>1, <1>2, <1>4, BusyHandles DEF DupInv, HoldsDup, Fits
<1>14. StoreInv'
  BY <1>1, <1>2, <1>4, BusyHandles DEF StoreInv, CleanCloseStoresNothing, FlushStoresWrites, Fits
<1>. QED
  BY <1>5, <1>7, <1>8, <1>9, <1>10, <1>11, <1>12, <1>13, <1>14

\* Descriptor 0 is closed.
LEMMA NoopCreateStep ==
    ASSUME Inv, NEW p \in Procs, NoopCreateFails(p)
    PROVE  Inv'
<1>. USE DEF Inv, handleVars, writeVars, aliceVars, opVars
<1>1. /\ fdt' = [fdt EXCEPT ![0] = NoFile]
      /\ UNCHANGED <<fstate, handleVars, writeVars, aliceVars, pc, opVars>>
  BY DEF NoopCreateFails
<1>2. fdt' \in [Fds -> Files \cup {NoFile, Std}] /\ \A d \in Fds : d # 0 => fdt'[d] = fdt[d]
  BY <1>1, FdFacts DEF TypeOK
<1>3. /\ TypeOK' /\ Returned' = Returned
      /\ \A h \in Handles : (Live(h)' <=> Live(h)) /\ (Opened(h)' <=> Opened(h)) /\ (Proper(h)' <=> Proper(h))
  BY <1>1, <1>2 DEF TypeOK, Returned, Live, Opened, Proper
<1>4. FdInv'
  <2>1. \A h \in Handles : Proper(h) => fh[h] \in Fds /\ fh[h] # 0
    BY DEF Proper, TypeOK
  <2>2. \A q \in Procs : HoldsDup(q) => newfd[q] \in Fds /\ newfd[q] # 0
    BY DEF HoldsDup, TypeOK
  <2>. QED
    BY <1>1, <1>2, <1>3, <2>1, <2>2 DEF FdInv, HoldsDup
<1>5. HandleInv' /\ OwnInv'
  BY <1>1, <1>3 DEF HandleInv, HeldInv, OpenerInv, UserInv, OwnInv
<1>6. QueueInv' /\ PlaceInv' /\ DueInv' /\ WritesReachTheirFile'
  BY <1>1 DEF QueueInv, Waiting, Proper, PlaceInv, DueInv, Queued, WritesReachTheirFile
<1>7. MarkInv' /\ DupInv' /\ StoreInv'
  BY <1>1, <1>3 DEF MarkInv, DupInv, HoldsDup, StoreInv, CleanCloseStoresNothing, FlushStoresWrites, Fits
<1>. QED
  BY <1>3, <1>4, <1>5, <1>6, <1>7

\* The end of an operation, whatever it was.
LEMMA ReturnFrame ==
    ASSUME TypeOK, NEW p \in Procs, Return(p)
    PROVE  /\ pc' \in [Procs -> PCs] /\ cur' \in [Procs -> Handles \cup {NoHandle}]
           /\ newfd' \in [Procs -> Fds \cup {NoFd}]
           /\ due' \in [Procs -> SUBSET Writes] /\ sent' \in [Procs -> SUBSET Writes]
           /\ pc'[p] = "idle" /\ newfd'[p] = NoFd /\ due'[p] = {}
           /\ \A q \in Procs \ {p} :
                /\ pc'[q] = pc[q] /\ cur'[q] = cur[q] /\ newfd'[q] = newfd[q]
                /\ due'[q] = due[q] /\ sent'[q] = sent[q]
BY DEF TypeOK, Return, Step, PCs

\* What Publish, Mark, FsyncReturn and FlushReturn leave of the invariant.
LEMMA ReturnKeeps ==
    ASSUME Inv, NEW p \in Procs, Return(p), pc[p] \notin DOMAIN Draining \cup {"idle"},
           UNCHANGED <<fdt, hfile, fh, own, writeVars, aliceVars>>,
           fstate' \in [Slots -> FileStates], refs' \in [Handles -> SUBSET Procs]
    PROVE  /\ TypeOK' /\ FdInv' /\ OpenerInv' /\ OwnInv' /\ PlaceInv' /\ DueInv'
           /\ WritesReachTheirFile' /\ StoreInv'
           /\ \A h \in Handles : (Opened(h)' <=> Opened(h)) /\ (Proper(h)' <=> Proper(h))
           /\ pc[p] # "publish" => \A h \in Handles : Live(h)' <=> Live(h)
<1>. USE ReturnFrame DEF Inv, writeVars, aliceVars
<1>1. TypeOK'
  <2>1. \A q \in Procs : pc[q] \in DOMAIN Draining => pc'[q] = pc[q]
    OBVIOUS
  <2>2. \A k \in Queues : lock'[k] \in Procs =>
            pc'[lock'[k]] \in DOMAIN Draining /\ Draining[pc'[lock'[k]]] = k
    BY <2>1 DEF TypeOK
  <2>. QED
    BY <2>2 DEF TypeOK
<1>2. \A h \in Handles : (Opened(h)' <=> Opened(h)) /\ (Proper(h)' <=> Proper(h))
  BY DEF Opened, Proper
<1>3. FdInv'
  BY <1>2 DEF FdInv, HoldsDup
<1>4. OwnInv'
  BY <1>2 DEF OwnInv, Flushing, Drained, Returned
<1>5. PlaceInv' /\ WritesReachTheirFile'
  BY DEF PlaceInv, Queued, WritesReachTheirFile
<1>6. DueInv'
  BY DEF DueInv, Queued, Drained
<1>7. StoreInv'
  BY DEF StoreInv, CleanCloseStoresNothing, FlushStoresWrites, Fits
<1>8. OpenerInv'
  <2>. SUFFICES ASSUME NEW q \in Procs, pc'[q] = "publish"
                PROVE  /\ cur'[q] \in Handles /\ Opened(cur[q])' /\ own'[cur'[q]] = {}
                       /\ \A r \in Procs : pc'[r] = "publish" /\ cur'[q] = cur'[r] => q = r
    BY DEF OpenerInv
  <2>1. q # p /\ pc[q] = "publish" /\ cur'[q] = cur[q]
    OBVIOUS
  <2>2. \A r \in Procs : pc'[r] = "publish" => pc[r] = "publish" /\ cur'[r] = cur[r]
    OBVIOUS
  <2>3. /\ cur[q] \in Handles /\ Opened(cur[q]) /\ own[cur[q]] = {}
        /\ \A r \in Procs : pc[r] = "publish" /\ cur[q] = cur[r] => q = r
    BY <2>1 DEF HandleInv, OpenerInv
  <2>4. Opened(cur[q])'
    BY <2>1, <2>3 DEF Opened
  <2>5. own'[cur'[q]] = {}
    BY <2>1, <2>3
  <2>. QED
    BY <2>1, <2>2, <2>3, <2>4, <2>5
<1>9. pc[p] # "publish" => \A h \in Handles : Live(h)' <=> Live(h)
  BY DEF Live
<1>. QED
  BY <1>1, <1>2, <1>3, <1>4, <1>5, <1>6, <1>7, <1>8, <1>9

LEMMA PublishStep ==
    ASSUME Inv, NEW p \in Procs, Publish(p)
    PROVE  Inv'
<1>. DEFINE h == cur[p]
<1>. USE DEF Inv, writeVars, aliceVars
<1>1. /\ pc[p] = "publish" /\ Return(p) /\ SetEntry(fh[h], "valid")
      /\ UNCHANGED <<fdt, hfile, fh, writeVars, aliceVars>>
  BY DEF Publish, HandOut
<1>2. /\ h \in Handles /\ refs[h] = {} /\ own[h] = {} /\ Opened(h)
      /\ \A q \in Procs \ {p} : pc[q] # "idle" => cur[q] # h
  BY <1>1 DEF HandleInv, HeldInv, OpenerInv, UserInv, Live
<1>3. PICK ps \in SUBSET Procs : refs' = [refs EXCEPT ![h] = ps \cup {p}]
  BY DEF Publish, HandOut
<1>4. own' = own
  BY <1>2 DEF Publish, HandOut, TypeOK
<1>5. /\ refs' \in [Handles -> SUBSET Procs] /\ fstate' \in [Slots -> FileStates]
      /\ fh[h] \in Slots => fstate'[fh[h]] = "valid"
      /\ \A e \in Slots : e # fh[h] => fstate'[e] = fstate[e]
  <2>1. "valid" \in FileStates
    BY DEF FileStates
  <2>. QED
    BY <1>1, <1>3, <2>1, EntrySet DEF TypeOK
<1>6. \A g \in Handles : g # h => refs'[g] = refs[g]
  BY <1>3 DEF TypeOK
<1>7. /\ TypeOK' /\ FdInv' /\ OpenerInv' /\ OwnInv' /\ PlaceInv' /\ DueInv'
      /\ WritesReachTheirFile' /\ StoreInv'
      /\ \A g \in Handles : (Opened(g)' <=> Opened(g)) /\ (Proper(g)' <=> Proper(g))
  BY <1>1, <1>4, <1>5, ReturnKeeps DEF Draining
<1>8. \A g \in Handles : Live(g)' <=> g = h \/ Live(g)
  BY <1>1, <1>2, ReturnFrame DEF Live, Opened
<1>9. HandleInv'
  <2>1. HeldInv'
    BY <1>1, <1>6, <1>7, <1>8 DEF HandleInv, HeldInv
  <2>2. UserInv'
    BY <1>1, <1>2, <1>6, <1>8, ReturnFrame DEF HandleInv, UserInv
  <2>. QED
    BY <1>7, <2>1, <2>2 DEF HandleInv
<1>10. QueueInv'
  <2>1. \A g \in Handles : refs[g] # {} => g # h
    BY <1>2
  <2>2. \A k \in Queues : \A g \in Handles : \A q \in refs[g] :
            ~(cur[q] = g /\ pc[q] \in Past(k)) =>
                q \in refs'[g] /\ ~(cur'[q] = g /\ pc'[q] \in Past(k))
    BY <1>1, <1>6, <2>1, ReturnFrame DEF Past, Drained, TypeOK
  <2>. QED
    BY <1>1, <1>4, <2>1, <2>2, QueueKept
<1>11. MarkInv'
  <2>. SUFFICES ASSUME Fits, NEW g \in Handles, Proper(g)
                PROVE  /\ Live(g)' /\ fstate'[fh[g]] = "written" => own[g] # {}
                       /\ own[g] \cap Returned' # {} => fstate'[fh[g]] = "written"
    BY <1>1, <1>4, <1>7 DEF MarkInv, Fits
  <2>1. Returned' = Returned
    BY <1>1, ReturnFrame DEF Returned
  <2>2. fh[g] \in Slots
    BY FdFacts DEF Proper, TypeOK
  <2>3. CASE g = h
    BY <1>2, <1>5, <2>2, <2>3
  <2>4. CASE g # h
    <3>1. fh[g] # fh[h]
      BY <2>4, <1>2 DEF FdInv, Proper
    <3>. QED
      BY <1>5, <1>8, <2>1, <2>2, <2>4, <3>1 DEF MarkInv
  <2>. QED
    BY <2>3, <2>4
<1>12. DupInv'
  <2>. SUFFICES ASSUME Fits, NEW q \in Procs \ {p}, HoldsDup(q)
                PROVE  fstate'[newfd[q]] = fstate[newfd[q]]
    BY <1>1, <1>4, ReturnFrame DEF DupInv, HoldsDup, Fits
  <2>1. newfd[q] \in Slots /\ newfd[q] # 0 /\ newfd[q] # NoFd
    BY FdFacts DEF HoldsDup, TypeOK
  <2>2. newfd[q] # fh[h]
    BY <1>2, <2>1 DEF FdInv, Proper
  <2>. QED
    BY <1>5, <2>1, <2>2
<1>. QED
  BY <1>7, <1>9, <1>10, <1>11, <1>12

LEMMA MarkStep ==
    ASSUME Inv, NEW p \in Procs, Mark(p)
    PROVE  Inv'
<1>. DEFINE h == cur[p]
<1>. USE DEF Inv, writeVars, aliceVars
<1>1. /\ pc[p] = "mark" /\ Return(p) /\ SetEntry(fh[h], "written")
      /\ UNCHANGED <<fdt, hfile, fh, refs, own, writeVars, aliceVars>>
  BY DEF Mark, handleVars
<1>2. /\ h \in Handles /\ Live(h) /\ Opened(h)
      /\ due[p] # {} /\ due[p] \subseteq own[h]
  BY <1>1, BusyHandles DEF OwnInv
<1>3. /\ refs' \in [Handles -> SUBSET Procs] /\ fstate' \in [Slots -> FileStates]
      /\ fh[h] \in Slots => fstate'[fh[h]] = "written"
      /\ \A e \in Slots : e # fh[h] => fstate'[e] = fstate[e]
  <2>1. "written" \in FileStates
    BY DEF FileStates
  <2>. QED
    BY <1>1, <2>1, EntrySet DEF TypeOK
<1>4. /\ TypeOK' /\ FdInv' /\ OpenerInv' /\ OwnInv' /\ PlaceInv' /\ DueInv'
      /\ WritesReachTheirFile' /\ StoreInv'
      /\ \A g \in Handles : (Opened(g)' <=> Opened(g)) /\ (Proper(g)' <=> Proper(g))
      /\ \A g \in Handles : Live(g)' <=> Live(g)
  BY <1>1, <1>3, ReturnKeeps DEF Draining
<1>5. HandleInv'
  <2>1. HeldInv'
    BY <1>1, <1>4 DEF HandleInv, HeldInv
  <2>2. UserInv'
    BY <1>1, <1>4, ReturnFrame DEF HandleInv, UserInv
  <2>. QED
    BY <1>4, <2>1, <2>2 DEF HandleInv
<1>6. QueueInv'
  <2>1. \A k \in Queues : \A g \in Handles : \A q \in refs[g] :
            ~(cur[q] = g /\ pc[q] \in Past(k)) =>
                q \in refs'[g] /\ ~(cur'[q] = g /\ pc'[q] \in Past(k))
    BY <1>1, ReturnFrame DEF Past, Drained, TypeOK
  <2>. QED
    BY <1>1, <2>1, QueueKept
<1>7. MarkInv'
  <2>. SUFFICES ASSUME Fits, NEW g \in Handles, Proper(g)
                PROVE  /\ Live(g) /\ fstate'[fh[g]] = "written" => own[g] # {}
                       /\ own[g] \cap Returned' # {} => fstate'[fh[g]] = "written"
    BY <1>1, <1>4 DEF MarkInv, Fits
  <2>1. fh[g] \in Slots
    BY FdFacts DEF Proper, TypeOK
  <2>2. CASE g = h
    BY <1>2, <1>3, <2>1, <2>2
  <2>3. CASE g # h
    <3>1. fh[g] # fh[h]
      BY <2>3, <1>2 DEF FdInv, Proper
    <3>2. Returned' \subseteq Returned \cup due[p]
      BY <1>1, ReturnFrame DEF Returned
    <3>3. own[g] \cap due[p] = {}
      BY <1>2, <2>3 DEF OwnInv
    <3>. QED
      BY <1>3, <2>1, <3>1, <3>2, <3>3 DEF MarkInv
  <2>. QED
    BY <2>2, <2>3
<1>8. DupInv'
  <2>. SUFFICES ASSUME Fits, NEW q \in Procs \ {p}, HoldsDup(q)
                PROVE  fstate'[newfd[q]] = fstate[newfd[q]]
    BY <1>1, ReturnFrame DEF DupInv, HoldsDup, Fits
  <2>1. newfd[q] \in Slots /\ newfd[q] # 0 /\ newfd[q] # NoFd
    BY FdFacts DEF HoldsDup, TypeOK
  <2>2. newfd[q] # fh[h]
    BY <1>2, <2>1 DEF FdInv, Proper
  <2>. QED
    BY <1>3, <2>1, <2>2
<1>. QED
  BY <1>4, <1>5, <1>6, <1>7, <1>8

\* A flush that returns has emptied both queues of its writes.
LEMMA SyncReturnStep ==
    ASSUME Inv, NEW p \in Procs, FsyncReturn(p) \/ FlushReturn(p)
    PROVE  Inv'
<1>. DEFINE h == cur[p]
<1>. USE DEF Inv, writeVars, aliceVars
<1>1. /\ pc[p] \in {"synced", "flushed", "closeDirty", "closeClean"} /\ Return(p)
      /\ UNCHANGED <<fdt, fstate, hfile, fh, own, writeVars, aliceVars>>
      /\ \/ refs' = refs
         \/ pc[p] # "synced" /\ refs' = [refs EXCEPT ![h] = @ \ {p}]
  BY DEF FsyncReturn, FlushReturn, handleVars
<1>2. \A g \in Handles, q \in Procs : q # p => (q \in refs'[g] <=> q \in refs[g])
  BY <1>1 DEF TypeOK
<1>3. \A g \in Handles : refs'[g] \subseteq refs[g] /\ (g # h => refs'[g] = refs[g])
  BY <1>1 DEF TypeOK
<1>4. refs' \in [Handles -> SUBSET Procs] /\ fstate' \in [Slots -> FileStates]
  BY <1>1 DEF TypeOK
<1>5. /\ TypeOK' /\ FdInv' /\ OpenerInv' /\ OwnInv' /\ PlaceInv' /\ DueInv'
      /\ WritesReachTheirFile' /\ StoreInv'
      /\ \A g \in Handles : (Opened(g)' <=> Opened(g)) /\ (Proper(g)' <=> Proper(g))
      /\ \A g \in Handles : Live(g)' <=> Live(g)
  BY <1>1, <1>4, ReturnKeeps DEF Draining
<1>6. HandleInv'
  <2>1. HeldInv'
    BY <1>1, <1>3, <1>5 DEF HandleInv, HeldInv
  <2>2. UserInv'
    BY <1>1, <1>2, <1>5, ReturnFrame DEF HandleInv, UserInv
  <2>. QED
    BY <1>5, <2>1, <2>2 DEF HandleInv
<1>7. QueueInv'
  <2>1. ASSUME NEW k \in Queues, NEW g \in Handles, NEW q \in refs[g],
               ~(cur[q] = g /\ pc[q] \in Past(k))
        PROVE  q \in refs'[g] /\ ~(cur'[q] = g /\ pc'[q] \in Past(k))
    <3>1. CASE q = p
      <4>1. refs' = refs \/ g # h
        BY <1>1, <2>1, <3>1 DEF Past, Drained
      <4>. QED
        BY <1>1, <1>3, <3>1, <4>1, ReturnFrame DEF Past, Drained
    <3>2. CASE q # p
      <4>1. q \in Procs
        BY DEF TypeOK
      <4>. QED
        BY <1>1, <1>2, <2>1, <3>2, <4>1, ReturnFrame
    <3>. QED
      BY <3>1, <3>2
  <2>. QED
    BY <1>1, <2>1, QueueKept
<1>8. MarkInv'
  <2>1. Returned' = Returned
    BY <1>1, ReturnFrame DEF Returned
  <2>. QED
    BY <1>1, <1>5, <2>1 DEF MarkInv, Fits
<1>9. DupInv'
  BY <1>1, ReturnFrame DEF DupInv, HoldsDup, Fits
<1>. QED
  BY <1>5, <1>6, <1>7, <1>8, <1>9

-----------------------------------------------------------------------------
(* Writes, and the queues they may wait in.                                *)

LEMMA WriteStep ==
    ASSUME Inv, NEW p \in Procs, NEW h \in Handles, NEW w \in Writes, Write(p, h, w)
    PROVE  Inv'
<1>. DEFINE f == hfile[h]
            e == [write |-> w, fd |-> fh[h]]
<1>. USE DEF Inv
<1>1. /\ pc[p] = "idle" /\ Live(h) /\ wfile[w] = NoFile
      /\ wfile' = [wfile EXCEPT ![w] = f]
      /\ stray' = IF fh[h] = 0 \/ p \notin refs[h] THEN stray \cup {w} ELSE stray
      /\ own' = [own EXCEPT ![h] = @ \cup {w}]
      /\ cur' = [cur EXCEPT ![p] = h]
      /\ due' = [due EXCEPT ![p] = {w}]
      /\ pc' = [pc EXCEPT ![p] = "mark"]
      /\ UNCHANGED <<fdt, fstate, hfile, fh, refs, lock, newfd, sent>>
  BY DEF Write, Step
<1>2. /\ Opened(h) /\ f \in Files /\ fh[h] \in Fds /\ f # NoFile
      /\ Proper(h) => fdt[fh[h]] = f
      /\ ~Proper(h) => w \in stray'
  BY <1>1, NoFileAssumption DEF HandleInv, HeldInv, Live, Opened, Proper, FdInv, TypeOK
<1>3. /\ \A v \in Writes \ {w} : wfile'[v] = wfile[v]
      /\ wfile'[w] = f
      /\ pc'[p] = "mark" /\ cur'[p] = h /\ due'[p] = {w}
      /\ own'[h] = own[h] \cup {w}
      /\ \A g \in Handles \ {h} : own'[g] = own[g]
      /\ \A q \in Procs \ {p} : pc'[q] = pc[q] /\ cur'[q] = cur[q] /\ due'[q] = due[q]
      /\ stray' \in SUBSET Writes /\ stray \subseteq stray' /\ stray' \subseteq stray \cup {w}
  BY <1>1 DEF TypeOK
<1>4. /\ \A g \in Handles : w \notin own[g]
      /\ \A q \in Procs : w \notin due[q]
      /\ \A g \in Files : w \in content[g] => w \in stray
  <2>1. \A g \in Handles : w \notin own[g]
    BY <1>1 DEF OwnInv, HandleInv, HeldInv, TypeOK
  <2>. QED
    BY <1>1, <2>1, NoFileAssumption DEF DueInv, WritesReachTheirFile
<1>5. Returned' = Returned
  BY <1>1, <1>3, <1>4 DEF Returned
<1>6. \/ /\ content' = IF fdt[fh[h]] \notin Files THEN content
                        ELSE [content EXCEPT ![fdt[fh[h]]] = @ \cup {w}]
         /\ queue' = queue
      \/ /\ content' = content
         /\ \E k \in Queues :
              queue' = [queue EXCEPT ![k] = Append(@, e)]
  BY DEF Write, Pwrite
<1>7. e \in [write : Writes, fd : Fds] /\ e.write = w /\ e.fd = fh[h]
  BY <1>2
<1>. HIDE DEF f, e
<1>8. /\ content' \in [Files -> SUBSET Writes]
      /\ \A g \in Files : content[g] \subseteq content'[g] /\ content'[g] \subseteq content[g] \cup {w}
      /\ \A g \in Files : w \in content'[g] => g = f \/ w \in stray'
  <2>1. CASE content' = content
    BY <1>3, <1>4, <2>1 DEF TypeOK
  <2>2. CASE fdt[fh[h]] \in Files /\ content' = [content EXCEPT ![fdt[fh[h]]] = @ \cup {w}]
    BY <1>2, <1>3, <1>4, <2>2 DEF TypeOK
  <2>. QED
    BY <1>6, <2>1, <2>2
<1>9. /\ queue' \in [Queues -> Seq([write : Writes, fd : Fds])]
      /\ \A k \in Queues : Range(queue[k]) \subseteq Range(queue'[k])
                              /\ Range(queue'[k]) \subseteq Range(queue[k]) \cup {e}
      /\ Proper(h) => w \in content'[f] \/ \E k \in Queues : e \in Range(queue'[k])
  <2>1. CASE queue' = queue /\ content' = IF fdt[fh[h]] \notin Files THEN content
                                          ELSE [content EXCEPT ![fdt[fh[h]]] = @ \cup {w}]
    BY <1>2, <2>1 DEF TypeOK
  <2>2. ASSUME NEW k \in Queues, queue' = [queue EXCEPT ![k] = Append(@, e)]
        PROVE  <1>9!1 /\ <1>9!2 /\ e \in Range(queue'[k])
    <3>1. /\ Append(queue[k], e) \in Seq([write : Writes, fd : Fds])
          /\ Range(Append(queue[k], e)) = Range(queue[k]) \cup {e}
      <4>. DEFINE E == [write : Writes, fd : Fds]
      <4>1. queue[k] \in Seq(E) /\ e \in E
        BY <1>7 DEF TypeOK
      <4>. HIDE DEF E
      <4>2. Append(queue[k], e) \in Seq(E) /\ Range(Append(queue[k], e)) = Range(queue[k]) \cup {e}
        BY <4>1, AppendRange
      <4>. QED
        BY <4>2 DEF E
    <3>2. queue'[k] = Append(queue[k], e) /\ \A j \in Queues \ {k} : queue'[j] = queue[j]
      BY <2>2 DEF TypeOK
    <3>. QED
      BY <2>2, <3>1, <3>2 DEF TypeOK
  <2>. QED
    BY <1>6, <2>1, <2>2
<1>10. TypeOK'
  <2>1. /\ wfile' \in [Writes -> Files \cup {NoFile}] /\ own' \in [Handles -> SUBSET Writes]
        /\ cur' \in [Procs -> Handles \cup {NoHandle}] /\ due' \in [Procs -> SUBSET Writes]
    BY <1>1, <1>2 DEF TypeOK
  <2>2. pc' \in [Procs -> PCs]
    BY <1>1 DEF TypeOK, PCs
  <2>3. \A k \in Queues : lock'[k] \in Procs =>
            pc'[lock'[k]] \in DOMAIN Draining /\ Draining[pc'[lock'[k]]] = k
    BY <1>1, <1>3 DEF TypeOK, Draining
  <2>. QED
    BY <1>1, <1>3, <1>8, <1>9, <2>1, <2>2, <2>3 DEF TypeOK
<1>11. \A g \in Handles : /\ Live(g)' <=> Live(g)
                          /\ (Opened(g)' <=> Opened(g)) /\ (Proper(g)' <=> Proper(g))
  BY <1>1, <1>3 DEF Live, Opened, Proper
<1>12. FdInv'
  BY <1>1, <1>3, <1>11 DEF FdInv, HoldsDup
<1>13. HandleInv'
  <2>1. HeldInv'
    BY <1>1, <1>11 DEF HandleInv, HeldInv
  <2>2. OpenerInv'
    <3>1. \A q \in Procs : pc[q] = "publish" => q # p /\ cur[q] # h
      BY <1>1 DEF Live
    <3>. QED
      BY <1>1, <1>3, <1>11, <3>1 DEF HandleInv, OpenerInv
  <2>3. UserInv'
    BY <1>1, <1>3, <1>11 DEF HandleInv, UserInv
  <2>. QED
    BY <2>1, <2>2, <2>3 DEF HandleInv
<1>14. OwnInv'
  <2>1. ASSUME NEW g \in Handles, NEW v \in own'[g]
        PROVE  Opened(g)' /\ wfile'[v] = hfile'[g] /\ (Proper(g)' \/ v \in stray')
    <3>1. CASE v = w
      BY <1>1, <1>2, <1>3, <1>4, <1>11, <3>1, <2>1 DEF f
    <3>2. CASE v # w
      <4>1. v \in own[g]
        <5>1. CASE g = h
          BY <1>3, <3>2, <2>1, <5>1
        <5>2. CASE g # h
          BY <1>3, <2>1, <5>2
        <5>. QED
          BY <5>1, <5>2
      <4>2. v \in Writes
        BY <4>1 DEF TypeOK
      <4>. QED
        BY <1>1, <1>3, <1>11, <3>2, <4>1, <4>2 DEF OwnInv
    <3>. QED
      BY <3>1, <3>2
  <2>2. \A g, g2 \in Handles : \A v \in own'[g] \cap own'[g2] : g = g2
    BY <1>3, <1>4 DEF OwnInv
  <2>3. \A q \in Procs : pc'[q] = "mark" => due'[q] # {} /\ due'[q] \subseteq own'[cur'[q]]
    BY <1>3 DEF OwnInv, HandleInv, UserInv
  <2>4. \A q \in Procs : pc'[q] \in Flushing => due'[q] \subseteq own'[cur'[q]] \cap Returned'
    BY <1>3, <1>5 DEF OwnInv, HandleInv, UserInv, Flushing, Drained
  <2>. QED
    BY <2>1, <2>2, <2>3, <2>4 DEF OwnInv
<1>15. QueueInv'
  <2>. SUFFICES ASSUME NEW k \in Queues, NEW x \in Range(queue'[k]), x.write \notin stray'
                PROVE  Waiting(x, k)'
    BY DEF QueueInv
  <2>1. CASE x = e
    <3>1. p \in refs[h] /\ Proper(h)
      BY <1>1, <1>2, <1>7, <2>1 DEF Proper, Opened
    <3>2. /\ fh'[h] = e.fd /\ e.write \in own'[h] /\ p \in refs'[h] /\ Proper(h)'
          /\ ~(pc'[p] \in Past(k))
      BY <1>1, <1>3, <1>7, <1>11, <3>1 DEF Past, Drained
    <3>. QED
      BY <2>1, <3>2 DEF Waiting
  <2>2. CASE x \in Range(queue[k])
    <3>1. \A g \in Handles : refs[g] # {} => fh'[g] = fh[g] /\ own[g] \subseteq own'[g]
      BY <1>1, <1>3
    <3>2. \A g \in Handles : \A q \in refs[g] :
            ~(cur[q] = g /\ pc[q] \in Past(k)) =>
                q \in refs'[g] /\ ~(cur'[q] = g /\ pc'[q] \in Past(k))
      BY <1>1, <1>3 DEF Past, Drained, TypeOK
    <3>3. x.write \notin stray
      BY <1>3
    <3>. QED
      BY <2>2, <3>1, <3>2, <3>3, WaitingKept
  <2>3. x \in Range(queue[k]) \cup {e}
    BY <1>9
  <2>. QED
    BY <2>1, <2>2, <2>3
<1>16. PlaceInv'
  <2>. SUFFICES ASSUME NEW v \in Writes \ stray', wfile'[v] # NoFile
                PROVE  v \in content'[wfile'[v]] \/ \E k \in Queues : Queued(v, k)'
    BY DEF PlaceInv
  <2>1. CASE v = w
    BY <1>2, <1>3, <1>7, <1>9, <2>1 DEF Queued
  <2>2. CASE v # w
    <3>1. wfile'[v] = wfile[v] /\ wfile[v] \in Files /\ v \notin stray
      BY <1>3, <2>2 DEF TypeOK
    <3>2. \A k \in Queues : Queued(v, k) => Queued(v, k)'
      BY <1>9 DEF Queued
    <3>. QED
      BY <1>8, <3>1, <3>2 DEF PlaceInv
  <2>. QED
    BY <2>1, <2>2
<1>17. WritesReachTheirFile'
  <2>. SUFFICES ASSUME NEW g \in Files, NEW v \in content'[g], v \notin stray'
                PROVE  wfile'[v] = g
    BY DEF WritesReachTheirFile
  <2>1. CASE v = w
    BY <1>3, <1>8, <2>1
  <2>2. CASE v # w
    BY <1>3, <1>8, <2>2 DEF WritesReachTheirFile, TypeOK
  <2>. QED
    BY <2>1, <2>2
<1>18. DueInv'
  <2>1. \A v \in Writes, k \in Queues : v # w /\ Queued(v, k)' => Queued(v, k)
    BY <1>7, <1>9 DEF Queued
  <2>. SUFFICES ASSUME NEW q \in Procs, NEW v \in due'[q]
                PROVE  /\ wfile'[v] # NoFile
                       /\ pc'[q] \in {"fsyncReorder", "flushReorder"} => ~Queued(v, "delay")'
                       /\ pc'[q] \in {"synced"} \cup Drained /\ v \notin stray' => v \in content'[wfile'[v]]
    BY DEF DueInv
  <2>2. CASE q = p
    BY <1>2, <1>3, <2>2 DEF Drained
  <2>3. CASE q # p
    <3>1. v \in due[q] /\ v \in Writes /\ v # w /\ wfile'[v] = wfile[v] /\ pc'[q] = pc[q]
      BY <1>3, <1>4, <2>3 DEF TypeOK
    <3>2. wfile[v] \in Files
      BY <3>1 DEF DueInv, TypeOK
    <3>. QED
      BY <1>3, <1>8, <2>1, <3>1, <3>2 DEF DueInv, Queues
  <2>. QED
    BY <2>2, <2>3
<1>19. MarkInv'
  <2>1. \A g \in Handles : own[g] \subseteq own'[g] /\ own'[g] \subseteq own[g] \cup {w}
    BY <1>3
  <2>2. w \notin Returned
    BY <1>1 DEF Returned
  <2>. QED
    BY <1>1, <1>5, <1>11, <2>1, <2>2 DEF MarkInv, Fits
<1>20. DupInv'
  <2>1. \A g \in Handles : own[g] # {} => own'[g] # {}
    BY <1>3
  <2>2. \A q \in Procs : HoldsDup(q)' => HoldsDup(q) /\ q # p /\ cur[q] \in Handles
    BY <1>1, <1>3, BusyHandles DEF HoldsDup
  <2>. QED
    BY <1>1, <1>3, <2>1, <2>2 DEF DupInv, HoldsDup, Fits
<1>21. StoreInv'
  <2>1. \A g \in Handles : own[g] # {} => own'[g] # {}
    BY <1>3
  <2>. QED
    BY <1>1, <1>3, <2>1, BusyHandles DEF StoreInv, CleanCloseStoresNothing, FlushStoresWrites, Fits
<1>. QED
  BY <1>10, <1>12, <1>13, <1>14, <1>15, <1>16, <1>17, <1>18, <1>19, <1>20, <1>21

\* An element of a queue is applied, by the thread of the queue or by a process.
LEMMA ApplyKeeps ==
    ASSUME Inv, NEW k \in Queues, NEW t, Apply(k, t),
           UNCHANGED <<fdt, fstate, handleVars, wfile, stray, pc, opVars>>
    PROVE  Inv'
<1>. USE DEF Inv, handleVars, opVars
<1>1. PICK i \in DOMAIN queue[k] :
        /\ Pwrite(queue[k][i].write, queue[k][i].fd)
        /\ queue' = [queue EXCEPT ![k] = RemoveAt(@, i)]
  BY DEF Apply
<1>. DEFINE e == queue[k][i]
<1>2. /\ queue[k] \in Seq([write : Writes, fd : Fds])
      /\ e \in Range(queue[k]) /\ e \in [write : Writes, fd : Fds]
  <2>1. queue[k] \in Seq([write : Writes, fd : Fds])
    BY DEF TypeOK
  <2>2. e \in Range(queue[k])
    BY DEF Range
  <2>. QED
    BY <2>1, <2>2, SeqElements
<1>3. /\ RemoveAt(queue[k], i) \in Seq([write : Writes, fd : Fds])
      /\ Range(RemoveAt(queue[k], i)) \subseteq Range(queue[k])
      /\ Range(queue[k]) \ {e} \subseteq Range(RemoveAt(queue[k], i))
  BY <1>2, RemoveAtRange
<1>4. queue'[k] = RemoveAt(queue[k], i) /\ \A j \in Queues \ {k} : queue'[j] = queue[j]
  BY <1>1 DEF TypeOK
<1>5. queue' \in [Queues -> Seq([write : Writes, fd : Fds])]
  BY <1>1, <1>3 DEF TypeOK
<1>6. \A j \in Queues : Range(queue'[j]) \subseteq Range(queue[j])
  BY <1>3, <1>4
<1>7. e.write \in Writes /\ e.fd \in Fds
  BY <1>2
<1>8. ASSUME e.write \notin stray
      PROVE  fdt[e.fd] = wfile[e.write] /\ fdt[e.fd] \in Files
  <2>1. PICK h \in Handles : Proper(h) /\ fh[h] = e.fd /\ e.write \in own[h]
    BY <1>2, <1>8 DEF QueueInv, Waiting
  <2>. QED
    BY <2>1 DEF OwnInv, FdInv
<1>9. content' = IF fdt[e.fd] \notin Files THEN content
                 ELSE [content EXCEPT ![fdt[e.fd]] = @ \cup {e.write}]
  BY <1>1 DEF Pwrite
<1>. HIDE DEF e
<1>10. /\ content' \in [Files -> SUBSET Writes]
       /\ \A f \in Files : content[f] \subseteq content'[f]
       /\ e.write \notin stray => wfile[e.write] \in Files /\ e.write \in content'[wfile[e.write]]
       /\ \A f \in Files : \A w \in content'[f] :
            w \in content[f] \/ (w = e.write /\ (w \notin stray => f = wfile[w]))
  BY <1>7, <1>8, <1>9 DEF TypeOK
<1>11. TypeOK'
  BY <1>5, <1>10 DEF TypeOK, Apply
<1>12. FdInv' /\ HandleInv' /\ OwnInv' /\ MarkInv' /\ DupInv'
  <2>1. /\ Returned' = Returned
        /\ \A h \in Handles : (Live(h)' <=> Live(h)) /\ (Opened(h)' <=> Opened(h)) /\ (Proper(h)' <=> Proper(h))
    BY DEF Returned, Live, Opened, Proper
  <2>2. FdInv' /\ HandleInv'
    BY <2>1 DEF FdInv, HandleInv, HeldInv, OpenerInv, UserInv, HoldsDup
  <2>3. OwnInv'
    BY <2>1 DEF OwnInv
  <2>4. MarkInv' /\ DupInv'
    BY <2>1 DEF MarkInv, DupInv, HoldsDup, Fits
  <2>. QED
    BY <2>2, <2>3, <2>4
<1>13. QueueInv'
  BY <1>6, QueueKept
<1>14. PlaceInv'
  <2>. SUFFICES ASSUME NEW w \in Writes \ stray, wfile[w] # NoFile
                PROVE  w \in content'[wfile[w]] \/ \E j \in Queues : Queued(w, j)'
    BY DEF PlaceInv
  <2>1. CASE w \in content[wfile[w]]
    BY <1>10, <2>1 DEF TypeOK
  <2>2. ASSUME NEW j \in Queues, Queued(w, j)
        PROVE  w \in content'[wfile[w]] \/ Queued(w, j)'
    <3>1. PICK x \in Range(queue[j]) : x.write = w
      BY <2>2 DEF Queued
    <3>2. CASE x = e
      BY <1>10, <3>1, <3>2
    <3>3. CASE x # e
      BY <1>3, <1>4, <3>1, <3>3 DEF Queued
    <3>. QED
      BY <3>2, <3>3
  <2>. QED
    BY <2>1, <2>2 DEF PlaceInv
<1>15. WritesReachTheirFile'
  BY <1>10 DEF WritesReachTheirFile
<1>16. DueInv'
  <2>1. \A w : Queued(w, "delay")' => Queued(w, "delay")
    BY <1>6 DEF Queued, Queues
  <2>2. \A w \in Writes : wfile[w] # NoFile /\ w \in content[wfile[w]] => w \in content'[wfile[w]]
    BY <1>10 DEF TypeOK
  <2>3. \A q \in Procs : due[q] \subseteq Writes
    BY DEF TypeOK
  <2>. QED
    BY <2>1, <2>2, <2>3 DEF DueInv
<1>17. StoreInv'
  BY DEF StoreInv, CleanCloseStoresNothing, FlushStoresWrites, Fits
<1>. QED
  BY <1>11, <1>12, <1>13, <1>14, <1>15, <1>16, <1>17

\* Nothing but TypeOK speaks of the mutexes.
LEMMA LockKeeps ==
    ASSUME Inv, UNCHANGED <<fdt, fstate, handleVars, writeVars, queue, pc, opVars>>,
           lock' \in [Queues -> Locks],
           \A k \in Queues : lock'[k] \in Procs =>
                pc[lock'[k]] \in DOMAIN Draining /\ Draining[pc[lock'[k]]] = k
    PROVE  Inv'
<1>. USE DEF Inv, handleVars, writeVars, opVars
<1>1. TypeOK'
  BY DEF TypeOK
<1>2. /\ Returned' = Returned
      /\ \A h \in Handles : (Live(h)' <=> Live(h)) /\ (Opened(h)' <=> Opened(h)) /\ (Proper(h)' <=> Proper(h))
  BY DEF Returned, Live, Opened, Proper
<1>3. FdInv' /\ HandleInv' /\ OwnInv'
  BY <1>2 DEF FdInv, HandleInv, HeldInv, OpenerInv, UserInv, OwnInv, HoldsDup
<1>4. QueueInv' /\ PlaceInv' /\ DueInv'
  BY DEF QueueInv, Waiting, Proper, PlaceInv, DueInv, Queued
<1>5. MarkInv' /\ DupInv'
  BY <1>2 DEF MarkInv, DupInv, HoldsDup, Fits
<1>6. WritesReachTheirFile' /\ StoreInv'
  BY DEF WritesReachTheirFile, StoreInv, CleanCloseStoresNothing, FlushStoresWrites, Fits
<1>. QED
  BY <1>1, <1>3, <1>4, <1>5, <1>6

LEMMA WorkerStep ==
    ASSUME Inv, NEW k \in Queues, Worker(k)
    PROVE  Inv'
<1>1. CASE Apply(k, "worker")
  BY <1>1, ApplyKeeps DEF Worker
<1>2. CASE Take(k, "worker") \/ (lock[k] = "worker" /\ Release(k, "worker"))
  <2>1. /\ UNCHANGED <<fdt, fstate, handleVars, writeVars, queue, pc, opVars>>
        /\ lock' = [lock EXCEPT ![k] = "worker"] \/ lock' = [lock EXCEPT ![k] = "free"]
    BY <1>2 DEF Worker, Take, Release, writeVars
  <2>2. lock' \in [Queues -> Locks]
    BY <2>1 DEF Inv, TypeOK, Locks
  <2>3. \A j \in Queues : lock'[j] \in Procs => lock'[j] = lock[j]
    BY <2>1, ProcsAssumption DEF Inv, TypeOK
  <2>. QED
    BY <2>1, <2>2, <2>3, LockKeeps DEF Inv, TypeOK
<1>. QED
  BY <1>1, <1>2 DEF Worker

\* A process has emptied a queue and goes on.
LEMMA DrainedKeeps ==
    ASSUME Inv, NEW p \in Procs, pc[p] \in DOMAIN Draining, Release(Draining[pc[p]], p),
           Step(p, After[pc[p]]), UNCHANGED <<fdt, fstate, handleVars, wfile, stray, opVars>>
    PROVE  Inv'
<1>. DEFINE k == Draining[pc[p]]
<1>. USE DEF Inv, handleVars, opVars
<1>1. /\ k \in Queues /\ lock[k] \in {p, "free"} /\ queue[k] = <<>>
      /\ lock' = [lock EXCEPT ![k] = "free"]
      /\ pc' = [pc EXCEPT ![p] = After[pc[p]]]
      /\ UNCHANGED <<content, queue>>
  BY DEF Release, Step, Draining, Queues
<1>2. /\ \A q \in Procs \ {p} : pc'[q] = pc[q]
      /\ \/ pc[p] = "fsyncDelay" /\ k = "delay" /\ pc'[p] = "fsyncReorder"
         \/ pc[p] = "fsyncReorder" /\ k = "reorder" /\ pc'[p] = "synced"
         \/ pc[p] = "flushDelay" /\ k = "delay" /\ pc'[p] = "flushReorder"
         \/ pc[p] = "flushReorder" /\ k = "reorder" /\ pc'[p] = "dup"
  BY <1>1 DEF TypeOK, Draining, After
<1>3. \A w : ~Queued(w, k)
  BY <1>1 DEF Queued, Range
<1>. HIDE DEF k
<1>4. TypeOK'
  <2>1. pc' \in [Procs -> PCs] /\ lock' \in [Queues -> Locks]
    BY <1>1, <1>2 DEF TypeOK, PCs, Draining, Locks
  <2>2. ASSUME NEW j \in Queues, lock'[j] \in Procs
        PROVE  pc'[lock'[j]] \in DOMAIN Draining /\ Draining[pc'[lock'[j]]] = j
    <3>1. j # k /\ lock'[j] = lock[j]
      BY <1>1, <2>2, ProcsAssumption DEF TypeOK
    <3>2. lock[j] # p
      BY <1>1, <3>1, <2>2 DEF TypeOK, k
    <3>. QED
      BY <1>2, <2>2, <3>1, <3>2 DEF TypeOK
  <2>. QED
    BY <1>1, <2>1, <2>2 DEF TypeOK
<1>5. /\ Returned' = Returned
      /\ \A h \in Handles : (Live(h)' <=> Live(h)) /\ (Opened(h)' <=> Opened(h)) /\ (Proper(h)' <=> Proper(h))
  BY <1>2 DEF Returned, Live, Opened, Proper
<1>6. FdInv'
  BY <1>2, <1>5 DEF FdInv, HoldsDup
<1>7. HandleInv'
  <2>1. HeldInv'
    BY <1>5 DEF HandleInv, HeldInv
  <2>2. OpenerInv'
    BY <1>2, <1>5 DEF HandleInv, OpenerInv
  <2>3. UserInv'
    BY <1>2, <1>5 DEF HandleInv, UserInv
  <2>. QED
    BY <2>1, <2>2, <2>3 DEF HandleInv
<1>8. OwnInv'
  BY <1>2, <1>5 DEF OwnInv, Flushing, Drained
<1>9. QueueInv'
  <2>. SUFFICES ASSUME NEW j \in Queues, NEW e \in Range(queue[j]), e.write \notin stray
                PROVE  Waiting(e, j)'
    BY <1>1 DEF QueueInv
  <2>1. j # k
    BY <1>1 DEF Range
  <2>2. \A q \in Procs : pc'[q] \in Past(j) => pc[q] \in Past(j)
    BY <1>2, <2>1 DEF Past, Drained, Queues
  <2>. QED
    BY <2>2, WaitingKept DEF TypeOK
<1>10. PlaceInv' /\ WritesReachTheirFile'
  BY <1>1 DEF PlaceInv, Queued, WritesReachTheirFile
<1>11. DueInv'
  <2>. SUFFICES ASSUME NEW q \in Procs, NEW w \in due[q]
                PROVE  /\ wfile[w] # NoFile
                       /\ pc'[q] \in {"fsyncReorder", "flushReorder"} => ~Queued(w, "delay")'
                       /\ pc'[q] \in {"synced"} \cup Drained /\ w \notin stray => w \in content'[wfile[w]]
    BY DEF DueInv
  <2>1. wfile[w] # NoFile /\ (Queued(w, "delay")' <=> Queued(w, "delay")) /\ content' = content
    BY <1>1 DEF DueInv, Queued
  <2>2. CASE q # p
    BY <1>2, <2>1, <2>2 DEF DueInv
  <2>3. CASE q = p /\ k = "delay"
    BY <1>2, <1>3, <2>1, <2>3 DEF Drained
  <2>4. CASE q = p /\ k = "reorder"
    <3>1. pc[p] \in {"fsyncReorder", "flushReorder"} /\ pc'[p] \notin {"fsyncReorder", "flushReorder"}
      BY <1>2, <2>4
    <3>2. w \in Writes /\ ~Queued(w, "delay") /\ ~Queued(w, "reorder")
      BY <1>3, <2>4, <3>1 DEF DueInv, TypeOK
    <3>3. w \notin stray => w \in content[wfile[w]]
      BY <2>1, <3>2 DEF PlaceInv, Queues
    <3>. QED
      BY <2>1, <2>4, <3>1, <3>3
  <2>. QED
    BY <1>1, <2>2, <2>3, <2>4 DEF Queues
<1>12. MarkInv'
  BY <1>5 DEF MarkInv, Fits
<1>13. DupInv' /\ StoreInv'
  BY <1>2 DEF DupInv, HoldsDup, StoreInv, CleanCloseStoresNothing, FlushStoresWrites, Fits
<1>. QED
  BY <1>4, <1>6, <1>7, <1>8, <1>9, <1>10, <1>11, <1>12, <1>13

LEMMA DrainStep ==
    ASSUME Inv, NEW p \in Procs, Drain(p)
    PROVE  Inv'
<1>. DEFINE k == Draining[pc[p]]
<1>1. pc[p] \in DOMAIN Draining /\ k \in Queues
  BY DEF Drain, Draining, Queues
<1>2. CASE Apply(k, p) /\ UNCHANGED pc
  BY <1>1, <1>2, ApplyKeeps DEF Drain
<1>3. CASE Take(k, p) /\ UNCHANGED pc
  <2>1. /\ UNCHANGED <<fdt, fstate, handleVars, writeVars, queue, pc, opVars>>
        /\ lock' = [lock EXCEPT ![k] = p]
    BY <1>3 DEF Drain, Take, writeVars
  <2>2. lock' \in [Queues -> Locks]
    BY <2>1 DEF Inv, TypeOK, Locks
  <2>3. \A j \in Queues : lock'[j] = IF j = k THEN p ELSE lock[j]
    BY <1>1, <2>1 DEF Inv, TypeOK
  <2>. HIDE DEF k
  <2>4. \A j \in Queues : lock'[j] \in Procs =>
                pc[lock'[j]] \in DOMAIN Draining /\ Draining[pc[lock'[j]]] = j
    BY <1>1, <2>3 DEF Inv, TypeOK, k
  <2>. QED
    BY <2>1, <2>2, <2>4, LockKeeps
<1>4. CASE Release(k, p) /\ Step(p, After[pc[p]])
  BY <1>1, <1>4, DrainedKeeps DEF Drain
<1>. QED
  BY <1>2, <1>3, <1>4 DEF Drain

-----------------------------------------------------------------------------
(* fsync and flush.                                                        *)

LEMMA EnterStep ==
    ASSUME Inv, NEW p \in Procs, NEW h \in Handles, Fsync(p, h) \/ Flush(p, h)
    PROVE  Inv'
<1>. USE DEF Inv, handleVars, writeVars, aliceVars
<1>1. PICK s \in {"fsyncDelay", "flushDelay"}, ws \in SUBSET Returned :
        /\ s = "flushDelay" => ws \subseteq own[h]
        /\ Enter(p, h, s, ws)
  BY DEF Fsync, Flush
<1>2. /\ pc[p] = "idle" /\ p \in refs[h]
      /\ pc' \in [Procs -> PCs] /\ cur' \in [Procs -> Handles \cup {NoHandle}]
      /\ due' \in [Procs -> SUBSET Writes]
      /\ pc'[p] = s /\ cur'[p] = h /\ due'[p] = ws
      /\ \A q \in Procs \ {p} : pc'[q] = pc[q] /\ cur'[q] = cur[q] /\ due'[q] = due[q]
      /\ UNCHANGED <<fdt, fstate, hfile, fh, refs, own, content, wfile, stray, queue, lock, newfd, sent>>
  BY <1>1 DEF Enter, Step, TypeOK, PCs, Draining, Returned
<1>3. TypeOK'
  <2>1. \A k \in Queues : lock'[k] \in Procs =>
            pc'[lock'[k]] \in DOMAIN Draining /\ Draining[pc'[lock'[k]]] = k
    BY <1>2 DEF TypeOK, Draining
  <2>. QED
    BY <1>2, <2>1 DEF TypeOK
<1>4. /\ Returned' = Returned
      /\ \A g \in Handles : (Live(g)' <=> Live(g)) /\ (Opened(g)' <=> Opened(g)) /\ (Proper(g)' <=> Proper(g))
  BY <1>2 DEF Returned, Live, Opened, Proper
<1>5. FdInv'
  BY <1>2, <1>4 DEF FdInv, HoldsDup
<1>6. HandleInv'
  <2>1. HeldInv'
    BY <1>2, <1>4 DEF HandleInv, HeldInv
  <2>2. OpenerInv'
    BY <1>2, <1>4 DEF HandleInv, OpenerInv
  <2>3. UserInv'
    BY <1>2, <1>4 DEF HandleInv, UserInv
  <2>. QED
    BY <2>1, <2>2, <2>3 DEF HandleInv
<1>7. OwnInv'
  BY <1>1, <1>2, <1>4 DEF OwnInv, Flushing, Drained
<1>8. QueueInv'
  <2>1. \A k \in Queues : \A g \in Handles : \A q \in refs[g] :
            ~(cur[q] = g /\ pc[q] \in Past(k)) =>
                q \in refs'[g] /\ ~(cur'[q] = g /\ pc'[q] \in Past(k))
    BY <1>2 DEF Past, Drained, TypeOK
  <2>. QED
    BY <1>2, <2>1, QueueKept
<1>9. PlaceInv' /\ WritesReachTheirFile'
  BY <1>2 DEF PlaceInv, Queued, WritesReachTheirFile
<1>10. DueInv'
  BY <1>2 DEF DueInv, Queued, Drained, Returned
<1>11. MarkInv'
  BY <1>2, <1>4 DEF MarkInv, Fits
<1>12. DupInv' /\ StoreInv'
  BY <1>2 DEF DupInv, HoldsDup, StoreInv, CleanCloseStoresNothing, FlushStoresWrites, Fits
<1>. QED
  BY <1>3, <1>5, <1>6, <1>7, <1>8, <1>9, <1>10, <1>11, <1>12

\* The writes of a flush that error injection replaces become stray.
LEMMA InjectedStep ==
    ASSUME Inv, NEW p \in Procs, NEW h \in Handles, FlushInjected(p, h)
    PROVE  Inv'
<1>. USE DEF Inv, aliceVars, opVars
<1>1. /\ pc[p] = "idle" /\ stray' = stray \cup own[h]
      /\ refs' = [refs EXCEPT ![h] = @ \ {p}]
      /\ UNCHANGED <<fdt, fstate, hfile, fh, own, content, wfile, aliceVars, pc, opVars>>
  BY DEF FlushInjected
<1>2. /\ refs' \in [Handles -> SUBSET Procs] /\ stray' \in SUBSET Writes /\ stray \subseteq stray'
      /\ \A g \in Handles : refs'[g] \subseteq refs[g] /\ (g # h => refs'[g] = refs[g])
      /\ \A g \in Handles, q \in Procs : q # p => (q \in refs'[g] <=> q \in refs[g])
  BY <1>1 DEF TypeOK
<1>3. /\ TypeOK' /\ Returned' = Returned
      /\ \A g \in Handles : (Live(g)' <=> Live(g)) /\ (Opened(g)' <=> Opened(g)) /\ (Proper(g)' <=> Proper(g))
  BY <1>1, <1>2 DEF TypeOK, Returned, Live, Opened, Proper
<1>4. FdInv'
  BY <1>1, <1>3 DEF FdInv, HoldsDup
<1>5. HandleInv'
  <2>1. HeldInv'
    BY <1>1, <1>2, <1>3 DEF HandleInv, HeldInv
  <2>2. OpenerInv'
    BY <1>1, <1>3 DEF HandleInv, OpenerInv
  <2>3. UserInv'
    BY <1>1, <1>2, <1>3 DEF HandleInv, UserInv
  <2>. QED
    BY <2>1, <2>2, <2>3 DEF HandleInv
<1>6. OwnInv'
  BY <1>1, <1>2, <1>3 DEF OwnInv
<1>7. QueueInv'
  <2>. SUFFICES ASSUME NEW k \in Queues, NEW e \in Range(queue[k]), e.write \notin stray'
                PROVE  Waiting(e, k)'
    BY <1>1 DEF QueueInv
  <2>1. PICK g \in Handles : \E q \in refs[g] :
            /\ Proper(g) /\ fh[g] = e.fd /\ e.write \in own[g]
            /\ ~(cur[q] = g /\ pc[q] \in Past(k))
    BY <1>2 DEF QueueInv, Waiting
  <2>2. g # h /\ refs'[g] = refs[g]
    BY <1>1, <1>2, <2>1
  <2>. QED
    BY <1>1, <1>3, <2>1, <2>2 DEF Waiting
<1>8. PlaceInv' /\ WritesReachTheirFile' /\ DueInv'
  BY <1>1, <1>2 DEF PlaceInv, Queued, WritesReachTheirFile, DueInv
<1>9. MarkInv'
  BY <1>1, <1>3 DEF MarkInv, Fits
<1>10. DupInv'
  BY <1>1, <1>2 DEF DupInv, HoldsDup, Fits
<1>11. StoreInv'
  BY <1>1, <1>2 DEF StoreInv, CleanCloseStoresNothing, FlushStoresWrites, Fits
<1>. QED
  BY <1>3, <1>4, <1>5, <1>6, <1>7, <1>8, <1>9, <1>10, <1>11

\* What the steps of a flush behind alice_fsync leave of the invariant.
LEMMA FlushKeeps ==
    ASSUME Inv, NEW p \in Procs, NEW s \in Drained, pc[p] \in Drained, Step(p, s),
           UNCHANGED <<handleVars, writeVars, aliceVars, cur, due>>,
           fdt' \in [Fds -> Files \cup {NoFile, Std}], fstate' \in [Slots -> FileStates],
           newfd' \in [Procs -> Fds \cup {NoFd}], sent' \in [Procs -> SUBSET Writes]
    PROVE  /\ TypeOK' /\ HandleInv' /\ OwnInv' /\ QueueInv' /\ PlaceInv' /\ DueInv'
           /\ WritesReachTheirFile'
           /\ pc'[p] = s /\ \A q \in Procs \ {p} : pc'[q] = pc[q]
           /\ Returned' = Returned
           /\ \A g \in Handles : (Live(g)' <=> Live(g)) /\ (Opened(g)' <=> Opened(g)) /\ (Proper(g)' <=> Proper(g))
<1>. USE DEF Inv, handleVars, writeVars, aliceVars
<1>1. /\ pc' \in [Procs -> PCs] /\ pc'[p] = s
      /\ \A q \in Procs \ {p} : pc'[q] = pc[q]
  BY DEF Step, TypeOK, PCs, Drained
<1>2. TypeOK'
  <2>1. \A k \in Queues : lock'[k] \in Procs =>
            pc'[lock'[k]] \in DOMAIN Draining /\ Draining[pc'[lock'[k]]] = k
    BY <1>1 DEF TypeOK, Draining, Drained
  <2>. QED
    BY <1>1, <2>1 DEF TypeOK
<1>3. /\ Returned' = Returned
      /\ \A g \in Handles : (Live(g)' <=> Live(g)) /\ (Opened(g)' <=> Opened(g)) /\ (Proper(g)' <=> Proper(g))
  BY <1>1 DEF Returned, Live, Opened, Proper, Drained
<1>4. HandleInv'
  <2>1. HeldInv'
    BY <1>3 DEF HandleInv, HeldInv
  <2>2. OpenerInv'
    BY <1>1, <1>3 DEF HandleInv, OpenerInv, Drained
  <2>3. UserInv'
    BY <1>1, <1>3 DEF HandleInv, UserInv, Drained
  <2>. QED
    BY <2>1, <2>2, <2>3 DEF HandleInv
<1>5. OwnInv'
  BY <1>1, <1>3 DEF OwnInv, Flushing, Drained
<1>6. QueueInv'
  <2>1. \A k \in Queues : \A g \in Handles : \A q \in refs[g] :
            ~(cur[q] = g /\ pc[q] \in Past(k)) =>
                q \in refs'[g] /\ ~(cur'[q] = g /\ pc'[q] \in Past(k))
    BY <1>1 DEF Past, TypeOK
  <2>. QED
    BY <2>1, QueueKept
<1>7. PlaceInv' /\ WritesReachTheirFile'
  BY DEF PlaceInv, Queued, WritesReachTheirFile
<1>8. DueInv'
  BY <1>1 DEF DueInv, Queued, Drained
<1>. QED
  BY <1>1, <1>2, <1>3, <1>4, <1>5, <1>6, <1>7, <1>8

LEMMA DupStep ==
    ASSUME Inv, NEW p \in Procs, Dup(p)
    PROVE  Inv'
<1>. DEFINE h == cur[p]
<1>. USE DEF Inv, handleVars, writeVars, aliceVars
<1>1. /\ pc[p] = "dup" /\ Step(p, "copy")
      /\ UNCHANGED <<fstate, handleVars, writeVars, aliceVars, cur, due, sent>>
  BY DEF Dup
<1>2. h \in Handles /\ fh[h] \in Fds
  BY <1>1, BusyHandles DEF TypeOK, Opened
<1>3. PICK d \in Fds \cup {NoFd} :
        /\ newfd' = [newfd EXCEPT ![p] = d]
        /\ d # NoFd => d \in Fds /\ fdt[d] = NoFile /\ fdt[fh[h]] # NoFile
        /\ fdt' = IF d = NoFd THEN fdt ELSE [fdt EXCEPT ![d] = fdt[fh[h]]]
  BY LowestIsFree DEF Dup
<1>4. fdt' \in [Fds -> Files \cup {NoFile, Std}] /\ newfd' \in [Procs -> Fds \cup {NoFd}]
  BY <1>2, <1>3 DEF TypeOK
<1>5. /\ TypeOK' /\ HandleInv' /\ OwnInv' /\ QueueInv' /\ PlaceInv' /\ DueInv'
      /\ WritesReachTheirFile'
      /\ pc'[p] = "copy" /\ \A q \in Procs \ {p} : pc'[q] = pc[q]
      /\ Returned' = Returned
      /\ \A g \in Handles : (Live(g)' <=> Live(g)) /\ (Opened(g)' <=> Opened(g)) /\ (Proper(g)' <=> Proper(g))
  BY <1>1, <1>4, FlushKeeps DEF Drained, TypeOK
<1>6. newfd'[p] = d /\ \A q \in Procs \ {p} : newfd'[q] = newfd[q]
  BY <1>3 DEF TypeOK
<1>7. FdInv'
  <2>1. CASE d = NoFd
    BY <1>1, <1>3, <1>5, <1>6, <2>1 DEF FdInv, HoldsDup
  <2>2. CASE d # NoFd
    <3>1. /\ fdt'[d] # NoFile
          /\ \A c \in Fds : c # d => fdt'[c] = fdt[c]
      BY <1>3, <2>2 DEF TypeOK
    <3>2. \A g \in Handles : Proper(g) => fh[g] # d /\ fh[g] \in Fds
      BY <1>3, <2>2, NoFileAssumption DEF FdInv, Proper, TypeOK
    <3>3. \A q \in Procs : HoldsDup(q) => newfd[q] # d /\ newfd[q] \in Fds
      BY <1>3, <2>2 DEF FdInv, HoldsDup, TypeOK
    <3>4. \A q \in Procs \ {p} : HoldsDup(q)' <=> HoldsDup(q)
      BY <1>5, <1>6 DEF HoldsDup
    <3>5. \A g \in Handles : Proper(g)' => hfile'[g] \in Files /\ fdt'[fh'[g]] = hfile'[g]
      BY <1>1, <1>5, <3>1, <3>2 DEF FdInv
    <3>6. \A g, g2 \in Handles : Proper(g)' /\ Proper(g2)' /\ fh'[g] = fh'[g2] => g = g2
      BY <1>1, <1>5 DEF FdInv
    <3>7. \A q \in Procs : HoldsDup(q)' => fdt'[newfd'[q]] # NoFile
      BY <1>6, <3>1, <3>3, <3>4 DEF FdInv
    <3>8. \A q \in Procs, g \in Handles : HoldsDup(q)' /\ Proper(g)' => fh'[g] # newfd'[q]
      BY <1>1, <1>5, <1>6, <3>2, <3>4 DEF FdInv
    <3>9. \A q, r \in Procs : HoldsDup(q)' /\ HoldsDup(r)' /\ newfd'[q] = newfd'[r] => q = r
      BY <1>6, <3>3, <3>4 DEF FdInv
    <3>. QED
      BY <3>5, <3>6, <3>7, <3>8, <3>9 DEF FdInv
  <2>. QED
    BY <2>1, <2>2
<1>8. MarkInv'
  BY <1>1, <1>5 DEF MarkInv, Fits
<1>9. DupInv' /\ StoreInv'
  BY <1>1, <1>5, <1>6 DEF DupInv, HoldsDup, StoreInv, CleanCloseStoresNothing, FlushStoresWrites, Fits
<1>. QED
  BY <1>5, <1>7, <1>8, <1>9

\* The entry of the duplicate is not that of a handle or of another duplicate.
LEMMA SlotOfDup ==
    ASSUME Inv, NEW p \in Procs, pc[p] \in {"copy", "clear"}, NEW v \in FileStates,
           SetEntry(newfd[p], v)
    PROVE  /\ fstate' \in [Slots -> FileStates]
           /\ Fits =>
                /\ HoldsDup(p) => fstate'[newfd[p]] = v
                /\ \A h \in Handles : Proper(h) => fstate'[fh[h]] = fstate[fh[h]]
                /\ \A q \in Procs \ {p} : HoldsDup(q) => fstate'[newfd[q]] = fstate[newfd[q]]
<1>. USE DEF Inv
<1>1. /\ fstate' \in [Slots -> FileStates]
      /\ newfd[p] \in Slots => fstate'[newfd[p]] = v
      /\ \A e \in Slots : e # newfd[p] => fstate'[e] = fstate[e]
  BY EntrySet
<1>2. newfd[p] \in Fds \cup {NoFd}
  BY DEF TypeOK
<1>3. ASSUME Fits, NEW h \in Handles, Proper(h)
      PROVE  fh[h] \in Slots /\ fh[h] # newfd[p]
  BY <1>2, <1>3, FdFacts DEF FdInv, HoldsDup, Proper, TypeOK
<1>4. ASSUME Fits, NEW q \in Procs \ {p}, HoldsDup(q)
      PROVE  newfd[q] \in Slots /\ newfd[q] # newfd[p]
  BY <1>2, <1>4, FdFacts DEF FdInv, HoldsDup, TypeOK
<1>5. ASSUME Fits, HoldsDup(p)
      PROVE  newfd[p] \in Slots
  BY <1>2, <1>5, FdFacts DEF HoldsDup
<1>. QED
  BY <1>1, <1>3, <1>4, <1>5

LEMMA CopyStep ==
    ASSUME Inv, NEW p \in Procs, Copy(p)
    PROVE  Inv'
<1>. DEFINE h == cur[p]
<1>. USE DEF Inv, handleVars, writeVars, aliceVars, opVars
<1>1. /\ pc[p] = "copy" /\ Step(p, "clear")
      /\ UNCHANGED <<fdt, handleVars, writeVars, aliceVars, opVars>>
  BY DEF Copy
<1>2. PICK v \in Entry(fh[h]) : SetEntry(newfd[p], v)
  BY DEF Copy
<1>3. h \in Handles /\ Live(h) /\ Opened(h) /\ v \in FileStates /\ (fh[h] \in Slots => v = fstate[fh[h]])
  BY <1>1, BusyHandles, EntryRead
<1>4. /\ fstate' \in [Slots -> FileStates]
      /\ Fits =>
           /\ HoldsDup(p) => fstate'[newfd[p]] = v
           /\ \A g \in Handles : Proper(g) => fstate'[fh[g]] = fstate[fh[g]]
           /\ \A q \in Procs \ {p} : HoldsDup(q) => fstate'[newfd[q]] = fstate[newfd[q]]
  BY <1>1, <1>2, <1>3, SlotOfDup
<1>5. /\ TypeOK' /\ HandleInv' /\ OwnInv' /\ QueueInv' /\ PlaceInv' /\ DueInv'
      /\ WritesReachTheirFile'
      /\ pc'[p] = "clear" /\ \A q \in Procs \ {p} : pc'[q] = pc[q]
      /\ Returned' = Returned
      /\ \A g \in Handles : (Live(g)' <=> Live(g)) /\ (Opened(g)' <=> Opened(g)) /\ (Proper(g)' <=> Proper(g))
  BY <1>1, <1>4, FlushKeeps DEF Drained, TypeOK
<1>6. FdInv'
  BY <1>1, <1>5 DEF FdInv, HoldsDup
<1>7. MarkInv'
  BY <1>1, <1>4, <1>5 DEF MarkInv, Fits
<1>8. DupInv'
  <2>. SUFFICES ASSUME Fits, HoldsDup(p)
                PROVE  /\ fh[h] # 0 /\ fstate'[newfd[p]] = "written" => own[h] # {}
                       /\ due[p] \ stray # {} => fstate'[newfd[p]] = "written"
    BY <1>1, <1>4, <1>5 DEF DupInv, HoldsDup, Fits
  <2>1. fh[h] \in Slots
    BY <1>3, FdFacts DEF Opened, TypeOK
  <2>2. due[p] \subseteq own[h] \cap Returned
    BY <1>1 DEF OwnInv, Flushing, Drained
  <2>3. due[p] \ stray # {} => Proper(h)
    BY <1>3, <2>2 DEF OwnInv
  <2>. QED
    BY <1>3, <1>4, <2>1, <2>2, <2>3 DEF MarkInv, Proper, Opened
<1>9. StoreInv'
  BY <1>1, <1>5 DEF StoreInv, CleanCloseStoresNothing, FlushStoresWrites, Fits
<1>. QED
  BY <1>5, <1>6, <1>7, <1>8, <1>9

LEMMA ClearStep ==
    ASSUME Inv, NEW p \in Procs, Clear(p)
    PROVE  Inv'
<1>. USE DEF Inv, handleVars, writeVars, aliceVars, opVars
<1>1. /\ pc[p] = "clear" /\ SetEntry(newfd[p], "invalid")
      /\ UNCHANGED <<fdt, handleVars, writeVars, aliceVars, opVars>>
  BY DEF Clear
<1>2. PICK v \in Entry(newfd[p]) : Step(p, IF v = "written" THEN "closeDirty" ELSE "closeClean")
  BY DEF Clear
<1>3. /\ fstate' \in [Slots -> FileStates]
      /\ Fits =>
           /\ \A g \in Handles : Proper(g) => fstate'[fh[g]] = fstate[fh[g]]
           /\ \A q \in Procs \ {p} : HoldsDup(q) => fstate'[newfd[q]] = fstate[newfd[q]]
  <2>1. "invalid" \in FileStates
    BY DEF FileStates
  <2>. QED
    BY <1>1, <2>1, SlotOfDup
<1>. DEFINE s == IF v = "written" THEN "closeDirty" ELSE "closeClean"
<1>4. pc[p] \in Drained /\ s \in Drained /\ s \in {"closeDirty", "closeClean"}
  BY <1>1 DEF Drained
<1>5. /\ TypeOK' /\ HandleInv' /\ OwnInv' /\ QueueInv' /\ PlaceInv' /\ DueInv'
      /\ WritesReachTheirFile'
      /\ pc'[p] = s /\ \A q \in Procs \ {p} : pc'[q] = pc[q]
      /\ Returned' = Returned
      /\ \A g \in Handles : (Live(g)' <=> Live(g)) /\ (Opened(g)' <=> Opened(g)) /\ (Proper(g)' <=> Proper(g))
  <2>1. Step(p, s)
    BY <1>2
  <2>. HIDE DEF s
  <2>. QED
    BY <1>1, <1>3, <1>4, <2>1, FlushKeeps DEF TypeOK
<1>6. \A q \in Procs : HoldsDup(q)' <=> HoldsDup(q)
  BY <1>1, <1>4, <1>5 DEF HoldsDup
<1>7. FdInv'
  BY <1>1, <1>5, <1>6 DEF FdInv
<1>8. MarkInv'
  BY <1>1, <1>3, <1>5 DEF MarkInv, Fits
<1>9. DupInv'
  <2>1. ASSUME Fits, HoldsDup(p)
        PROVE  /\ s = "closeDirty" /\ fh[cur[p]] # 0 => own[cur[p]] # {}
               /\ s = "closeClean" => due[p] \ stray = {}
    <3>1. newfd[p] \in Slots
      BY <2>1, FdFacts DEF HoldsDup, TypeOK
    <3>2. v = fstate[newfd[p]]
      BY <1>2, <3>1, EntryRead
    <3>. QED
      BY <1>1, <2>1, <3>2 DEF DupInv
  <2>. HIDE DEF s
  <2>2. ASSUME Fits, NEW q \in Procs \ {p}, HoldsDup(q)
        PROVE  fstate'[newfd[q]] = fstate[newfd[q]]
    BY <1>3, <2>2
  <2>. QED
    BY <1>1, <1>4, <1>5, <1>6, <2>1, <2>2 DEF DupInv, Fits
<1>10. StoreInv'
  <2>. HIDE DEF s
  <2>. QED
    BY <1>1, <1>4, <1>5 DEF StoreInv, CleanCloseStoresNothing, FlushStoresWrites, Fits
<1>. QED
  BY <1>5, <1>7, <1>8, <1>9, <1>10

LEMMA CloseStep ==
    ASSUME Inv, NEW p \in Procs, Close(p)
    PROVE  Inv'
<1>. DEFINE s == IF pc[p] = "closeDirty" THEN "store" ELSE "flushed"
            d == newfd[p]
<1>. USE DEF Inv, handleVars, writeVars, aliceVars, opVars
<1>1. /\ pc[p] \in {"closeDirty", "closeClean"} /\ d # NoFd /\ Step(p, s)
      /\ fdt' = [fdt EXCEPT ![d] = NoFile]
      /\ UNCHANGED <<fstate, handleVars, writeVars, aliceVars, opVars>>
  BY DEF Close, IsOpen
<1>2. d \in Fds /\ (d # 0 => HoldsDup(p))
  BY <1>1 DEF HoldsDup, TypeOK
<1>3. fdt' \in [Fds -> Files \cup {NoFile, Std}] /\ \A d2 \in Fds : d2 # d => fdt'[d2] = fdt[d2]
  BY <1>1, <1>2 DEF TypeOK
<1>4. /\ TypeOK' /\ HandleInv' /\ OwnInv' /\ QueueInv' /\ PlaceInv' /\ DueInv'
      /\ WritesReachTheirFile'
      /\ pc'[p] = s /\ \A q \in Procs \ {p} : pc'[q] = pc[q]
      /\ Returned' = Returned
      /\ \A g \in Handles : (Live(g)' <=> Live(g)) /\ (Opened(g)' <=> Opened(g)) /\ (Proper(g)' <=> Proper(g))
  <2>1. s \in Drained /\ pc[p] \in Drained
    BY <1>1 DEF Drained
  <2>. HIDE DEF s
  <2>. QED
    BY <1>1, <1>3, <2>1, FlushKeeps DEF TypeOK
<1>5. FdInv'
  <2>1. \A h \in Handles : Proper(h) => fh[h] \in Fds /\ fh[h] # d
    BY <1>2 DEF FdInv, Proper, TypeOK
  <2>2. \A q \in Procs : HoldsDup(q)' => HoldsDup(q) /\ newfd[q] \in Fds /\ newfd[q] # d
    BY <1>1, <1>2, <1>4 DEF FdInv, HoldsDup, TypeOK
  <2>. QED
    BY <1>1, <1>3, <1>4, <2>1, <2>2 DEF FdInv
<1>6. MarkInv'
  BY <1>1, <1>4 DEF MarkInv, Fits
<1>7. DupInv' /\ StoreInv'
  <2>1. Fits /\ d # 0 =>
            /\ s = "store" /\ fh[cur[p]] # 0 => own[cur[p]] # {}
            /\ s = "flushed" => due[p] \ stray = {}
    BY <1>1, <1>2 DEF DupInv
  <2>2. s \in {"store", "flushed"}
    OBVIOUS
  <2>. HIDE DEF s
  <2>3. DupInv'
    BY <1>1, <1>4, <2>2 DEF DupInv, HoldsDup, Fits
  <2>4. StoreInv'
    BY <1>1, <1>4, <2>1, <2>2 DEF StoreInv, CleanCloseStoresNothing, FlushStoresWrites, Fits
  <2>. QED
    BY <2>3, <2>4
<1>. QED
  BY <1>4, <1>5, <1>6, <1>7

LEMMA StoreStep ==
    ASSUME Inv, NEW p \in Procs, Store(p)
    PROVE  Inv'
<1>. DEFINE h == cur[p]
<1>. USE DEF Inv, handleVars, writeVars, aliceVars
<1>1. /\ pc[p] = "store" /\ Step(p, "flushed")
      /\ sent' = [sent EXCEPT ![p] = content[hfile[h]]]
      /\ UNCHANGED <<fdt, fstate, handleVars, writeVars, aliceVars, cur, newfd, due>>
  BY DEF Store
<1>2. h \in Handles /\ hfile[h] \in Files
  BY <1>1, BusyHandles DEF HandleInv, HeldInv, TypeOK
<1>3. /\ sent' \in [Procs -> SUBSET Writes] /\ sent'[p] = content[hfile[h]]
      /\ \A q \in Procs \ {p} : sent'[q] = sent[q]
  BY <1>1, <1>2 DEF TypeOK
<1>4. /\ TypeOK' /\ HandleInv' /\ OwnInv' /\ QueueInv' /\ PlaceInv' /\ DueInv'
      /\ WritesReachTheirFile'
      /\ pc'[p] = "flushed" /\ \A q \in Procs \ {p} : pc'[q] = pc[q]
      /\ Returned' = Returned
      /\ \A g \in Handles : (Live(g)' <=> Live(g)) /\ (Opened(g)' <=> Opened(g)) /\ (Proper(g)' <=> Proper(g))
  BY <1>1, <1>3, FlushKeeps DEF Drained, TypeOK
<1>5. FdInv'
  BY <1>1, <1>4 DEF FdInv, HoldsDup
<1>6. MarkInv'
  BY <1>1, <1>4 DEF MarkInv, Fits
<1>7. DupInv'
  BY <1>1, <1>4 DEF DupInv, HoldsDup, Fits
<1>8. StoreInv'
  <2>1. due[p] \ stray \subseteq content[hfile[h]]
    BY <1>1, <1>2 DEF DueInv, OwnInv, Flushing, Drained
  <2>. QED
    BY <1>1, <1>3, <1>4, <2>1 DEF StoreInv, CleanCloseStoresNothing, FlushStoresWrites, Fits
<1>. QED
  BY <1>4, <1>5, <1>6, <1>7, <1>8

\* Nothing refers to a handle whose last process has flushed it.
LEMMA ReleaseFileStep ==
    ASSUME Inv, NEW h \in Handles, ReleaseFile(h)
    PROVE  Inv'
<1>. USE DEF Inv, writeVars, aliceVars, opVars
<1>1. /\ refs[h] = {} /\ Live(h) /\ Opened(h) /\ fh[h] \in Fds
      /\ \A p \in Procs : pc[p] # "idle" => cur[p] # h
      /\ UNCHANGED <<fstate, hfile, refs, writeVars, aliceVars, pc, opVars>>
  BY DEF ReleaseFile, Live, Opened, HandleInv, UserInv, TypeOK
<1>2. /\ fdt' \in [Fds -> Files \cup {NoFile, Std}]
      /\ fh' \in [Handles -> Fds \cup {NoFd}] /\ own' \in [Handles -> SUBSET Writes]
      /\ fh'[h] = NoFd /\ own'[h] = {}
      /\ \A g \in Handles \ {h} : fh'[g] = fh[g] /\ own'[g] = own[g]
      /\ \A d \in Fds : d # fh[h] => fdt'[d] = fdt[d]
  BY <1>1 DEF ReleaseFile, TypeOK
<1>3. TypeOK'
  BY <1>1, <1>2 DEF TypeOK
<1>4. Returned' = Returned
  BY <1>1 DEF Returned
<1>5. \A g \in Handles : /\ Opened(g)' <=> (g # h /\ Opened(g))
                         /\ Live(g)' <=> (g # h /\ Live(g))
                         /\ Proper(g)' <=> (g # h /\ Proper(g))
  BY <1>1, <1>2 DEF Live, Opened, Proper
<1>6. FdInv'
  <2>1. \A g \in Handles : Proper(g)' => fh[g] \in Fds /\ fh[g] # fh[h]
    BY <1>5 DEF FdInv, Proper, TypeOK
  <2>2. \A p \in Procs : HoldsDup(p)' <=> HoldsDup(p)
    BY <1>1 DEF HoldsDup
  <2>3. \A p \in Procs : HoldsDup(p) => newfd[p] \in Fds /\ newfd[p] # fh[h]
    BY <1>1 DEF FdInv, HoldsDup, Proper, TypeOK
  <2>. QED
    BY <1>1, <1>2, <1>5, <2>1, <2>2, <2>3 DEF FdInv
<1>7. HandleInv'
  <2>1. HeldInv'
    BY <1>1, <1>5 DEF HandleInv, HeldInv
  <2>2. OpenerInv'
    BY <1>1, <1>2, <1>5 DEF HandleInv, OpenerInv
  <2>3. UserInv'
    BY <1>1, <1>5 DEF HandleInv, UserInv
  <2>. QED
    BY <2>1, <2>2, <2>3 DEF HandleInv
<1>8. OwnInv'
  <2>1. \A g \in Handles : \A w \in own'[g] :
            Opened(g)' /\ wfile'[w] = hfile'[g] /\ (Proper(g)' \/ w \in stray')
    BY <1>1, <1>2, <1>5 DEF OwnInv
  <2>2. \A f, g \in Handles : \A w \in own'[f] \cap own'[g] : f = g
    BY <1>2 DEF OwnInv
  <2>3. \A p \in Procs : pc'[p] = "mark" => due'[p] # {} /\ due'[p] \subseteq own'[cur'[p]]
    BY <1>1, <1>2, BusyHandles DEF OwnInv
  <2>4. \A p \in Procs : pc'[p] \in Flushing => due'[p] \subseteq own'[cur'[p]] \cap Returned'
    BY <1>1, <1>2, <1>4, BusyHandles DEF OwnInv, Flushing, Drained
  <2>. QED
    BY <2>1, <2>2, <2>3, <2>4 DEF OwnInv
<1>9. QueueInv'
  <2>1. \A g \in Handles : refs[g] # {} => g # h
    BY <1>1
  <2>. QED
    BY <1>1, <1>2, <2>1, QueueKept
<1>10. PlaceInv' /\ DueInv' /\ WritesReachTheirFile'
  BY <1>1 DEF PlaceInv, DueInv, Queued, WritesReachTheirFile
<1>11. MarkInv'
  BY <1>1, <1>2, <1>4, <1>5 DEF MarkInv, Fits
<1>12. DupInv'
  BY <1>1, <1>2, BusyHandles DEF DupInv, HoldsDup, Fits
<1>13. StoreInv'
  BY <1>1, <1>2, BusyHandles DEF StoreInv, CleanCloseStoresNothing, FlushStoresWrites, Fits
<1>. QED
  BY <1>3, <1>6, <1>7, <1>8, <1>9, <1>10, <1>11, <1>12, <1>13

LEMMA StutterStep ==
    ASSUME Inv, UNCHANGED vars
    PROVE  Inv'
<1>1. UNCHANGED <<fdt, fstate, handleVars, writeVars, queue, pc, opVars>> /\ lock' = lock
  BY DEF vars, aliceVars
<1>. QED
  BY <1>1, LockKeeps DEF Inv, TypeOK

-----------------------------------------------------------------------------
(* The theorems.                                                           *)

\* The invariant, for any number of processes, files, descriptors and writes.
THEOREM Invariance == Spec => []Inv
<1>1. ASSUME Inv, [Next]_vars PROVE Inv'
  <2>1. CASE UNCHANGED vars
    BY <1>1, <2>1, StutterStep
  <2>2. ASSUME NEW p \in Procs, NEW h \in Handles,
               \/ \E f \in Files : Open(p, h, f) \/ NoopOpen(p, h, f)
               \/ \E w \in Writes : Write(p, h, w)
               \/ Fsync(p, h) \/ Flush(p, h) \/ FlushInjected(p, h)
        PROVE  Inv'
    BY <1>1, <2>2, OpenStep, NoopOpenStep, WriteStep, EnterStep, InjectedStep
  <2>3. ASSUME NEW p \in Procs,
               \/ OpenFails(p) \/ NoopCreateFails(p) \/ Publish(p) \/ Mark(p) \/ Drain(p)
               \/ FsyncReturn(p) \/ Dup(p) \/ Copy(p) \/ Clear(p) \/ Close(p) \/ Store(p)
               \/ FlushReturn(p)
        PROVE  Inv'
    <3>1. CASE OpenFails(p)
      BY <1>1, <3>1, StutterStep DEF OpenFails
    <3>2. CASE Publish(p) \/ Mark(p) \/ Drain(p) \/ FsyncReturn(p) \/ FlushReturn(p)
      BY <1>1, <3>2, PublishStep, MarkStep, DrainStep, SyncReturnStep
    <3>3. CASE Dup(p) \/ Copy(p) \/ Clear(p) \/ Close(p) \/ Store(p)
      BY <1>1, <3>3, DupStep, CopyStep, ClearStep, CloseStep, StoreStep
    <3>4. CASE NoopCreateFails(p)
      BY <1>1, <3>4, NoopCreateStep
    <3>. QED
      BY <2>3, <3>1, <3>2, <3>3, <3>4
  <2>4. ASSUME NEW k \in Queues, Worker(k) PROVE Inv'
    BY <1>1, <2>4, WorkerStep
  <2>5. ASSUME NEW h \in Handles, ReleaseFile(h) PROVE Inv'
    BY <1>1, <2>5, ReleaseFileStep
  <2>. QED
    BY <1>1, <2>1, <2>2, <2>3, <2>4, <2>5 DEF Next
<1>. QED
  BY <1>1, InitInv, PTL DEF Spec

\* Descriptors, handles, queues and mutexes have their types; a process that
\* owns the mutex of a queue is emptying that queue.
THEOREM TypeCorrect == Spec => []TypeOK
<1>1. Inv => TypeOK
  BY DEF Inv
<1>. QED
  BY <1>1, Invariance, PTL

\* No delayed write reaches a file other than the one it was issued on, however
\* descriptor numbers are used again, unless it is stray.
THEOREM DelayedWritesReachTheirFile == Spec => []WritesReachTheirFile
<1>1. Inv => WritesReachTheirFile
  BY DEF Inv
<1>. QED
  BY <1>1, Invariance, PTL

\* fsync is a barrier for the writes of both queues.
THEOREM FsyncCatchesUp == Spec => []FsyncIsBarrier
<1>1. Inv => FsyncIsBarrier
  BY DEF Inv, DueInv, FsyncIsBarrier
<1>. QED
  BY <1>1, Invariance, PTL

\* A flush that succeeds stores what was written through the handle, where the
\* table has an entry for every descriptor.
THEOREM FlushStores == ASSUME Limit <= Entries PROVE Spec => []FlushStoresWrites
<1>1. Inv => FlushStoresWrites
  BY DEF Inv, StoreInv, Fits
<1>. QED
  BY <1>1, Invariance, PTL

\* A flush of a handle without a write stores nothing, where the table has an
\* entry for every descriptor.
THEOREM CleanClose == ASSUME Limit <= Entries PROVE Spec => []CleanCloseStoresNothing
<1>1. Inv => CleanCloseStoresNothing
  BY DEF Inv, StoreInv, Fits
<1>. QED
  BY <1>1, Invariance, PTL
=============================================================================
