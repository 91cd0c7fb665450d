--------------------------- MODULE StreamsProofs ---------------------------
(***************************************************************************)
(* Streams implements AtomicFiles when no two threads share a buffer, no   *)
(* file is created under a handler that reads it, and writes are complete  *)
(* (Separate).                                                             *)
(***************************************************************************)
EXTENDS Streams, TLAPS

Whole == Contents \cup {EmptyFile}

\* What has been sent of the open file: its blocks in order, the last marked.
Sent(p) ==
    \A i \in 1 .. Len(stream[p]) :
        /\ i <= Len(src[p])
        /\ stream[p][i] = [block |-> src[p][i], last |-> i = Len(src[p])]

\* A block in the buffer is the next one.
NextBlock(p) ==
    LET n == Len(stream[p]) + 1
    IN  buf[p] # None => buf[p] = [block |-> src[p][n], last |-> n = Len(src[p])]

\* Which calls, handlers and roles go together.
RoleInv(p) ==
    \/ Quiet(p)
    \/ /\ req[p].kind = "Fetch" /\ p \in Fetchers
       /\ pc[p] \in {"idle", "fetch"}
       /\ hpc[p] \in {"call", "sending", "done", "failed"}
    \/ /\ req[p].kind = "Store" /\ p \in Storers
       /\ pc[p] \in {"idle", "store", "wait"}
       /\ hpc[p] \in {"reading", "done", "failed"}
    \/ /\ req[p].kind \in {"Create", "Remove"} /\ p \in Namers
       /\ pc[p] \in {"idle", "name"}
       /\ hpc[p] \in {"call", "done", "failed"}

StreamInv(p) ==
    /\ Reading(p) => Len(stream[p]) < Len(src[p]) /\ src[p] \in Whole /\ NextBlock(p)
    /\ Reading(p) \/ hpc[p] = "reading" \/ (hpc[p] = "done" /\ pc[p] = "fetch")
           => src[p] \in Whole /\ Sent(p)
    /\ hpc[p] = "reading" => src[p] \in Contents
    /\ hpc[p] = "done" /\ pc[p] = "fetch" => Len(stream[p]) = Len(src[p])
    /\ hpc[p] = "call" => stream[p] = <<>> /\ (pc[p] = "fetch" => src[p] = None)
    /\ buf[p] # None \/ p \in linked => Reading(p)

Inv ==
    /\ TypeOK
    /\ \A f \in Files : sfile[f] \in Whole \cup {None}
    /\ \A p \in Procs : RoleInv(p) /\ StreamInv(p)

-----------------------------------------------------------------------------
(* Sequences of messages.                                                  *)

LEMMA ContentFacts ==
    /\ Whole \subseteq Seq(Blocks)
    /\ \A s \in Whole : Len(s) \in Nat \ {0}
    /\ None \notin Whole
    /\ None \notin Message
    /\ EmptyFile \in Whole
<1>1. NoBytes \in Blocks
  BY DEF Blocks
<1>2. EmptyFile \in Seq(Blocks) /\ Len(EmptyFile) = 1
  BY <1>1 DEF EmptyFile
<1>3. \A s \in Contents : s \in Seq(Blocks) /\ s # <<>>
  BY ContentsAssumption
<1>4. \A s \in Seq(Blocks) : s # <<>> => Len(s) \in Nat \ {0}
  OBVIOUS
<1> QED
  BY <1>2, <1>3, <1>4, NoneAssumption DEF Whole

\* A temporary file holds the blocks of the messages appended to it.
LEMMA ReceivedContent ==
    ASSUME NEW s \in Seq(Blocks), NEW m \in Seq(Message), Len(m) = Len(s),
           \A i \in 1 .. Len(m) : m[i].block = s[i]
    PROVE  Received(m) = s
BY DEF Received

-----------------------------------------------------------------------------
(* What a step does not touch keeps its invariant and its abstraction.     *)

Same(q) ==
    /\ pc'[q] = pc[q] /\ hpc'[q] = hpc[q] /\ req'[q] = req[q] /\ src'[q] = src[q]
    /\ buf'[q] = buf[q] /\ stream'[q] = stream[q]
    /\ q \in linked' => q \in linked

LEMMA Frame ==
    ASSUME NEW q \in Procs, Same(q), RoleInv(q), StreamInv(q)
    PROVE  RoleInv(q)' /\ StreamInv(q)' /\ AbstractOp(q)' = AbstractOp(q)
<1>1. RoleInv(q)'
  BY DEF Same, RoleInv, Quiet
<1>2. Reading(q)' = Reading(q)
  BY DEF Same, Reading
<1>3. NextBlock(q)' = NextBlock(q) /\ Sent(q)' = Sent(q)
  BY DEF Same, NextBlock, Sent
<1>4. StreamInv(q)'
  BY <1>2, <1>3 DEF Same, StreamInv, Whole
<1>5. AbstractOp(q)' = AbstractOp(q)
  BY DEF Same, AbstractOp
<1> QED
  BY <1>1, <1>4, <1>5

\* With the roles of Separate, nobody else has a block in p's buffer.
LEMMA OwnBuffer ==
    ASSUME Separate, Inv, NEW p \in Procs, Reading(p), NEW q \in Procs \ {p}, buf[q] # None
    PROVE  ~SharesBuffer(p, q)
<1>1. Reading(q)
  BY DEF Inv, StreamInv
<1>2. req[p].kind = "Fetch" => p \in Fetchers
  BY DEF Inv, RoleInv, Quiet, Reading
<1>3. req[q].kind = "Fetch" => q \in Fetchers
  BY <1>1 DEF Inv, RoleInv, Quiet, Reading
<1>4. req[p].kind \in {"Fetch", "Store"} /\ (req[p].kind = "Store" => p \in Storers)
  BY DEF Inv, RoleInv, Quiet, Reading
<1>5. req[q].kind = "Store" => q \in Storers
  BY <1>1 DEF Inv, RoleInv, Quiet, Reading
<1> QED
  BY <1>2, <1>3, <1>4, <1>5 DEF Separate, SharesBuffer

\* Nobody has a cached file open that another process of its client closes,
LEMMA NoCacheReaders ==
    ASSUME Separate, Inv, NEW p \in Storers, Quiet(p), NEW f \in Files
    PROVE  CacheReaders(C(p), f) = {}
<1> SUFFICES ASSUME NEW q \in CacheReaders(C(p), f) PROVE FALSE
  OBVIOUS
<1>1. q \in Procs /\ q \in linked /\ req[q].kind = "Store" /\ C(q) = C(p)
  BY DEF CacheReaders, Inv, TypeOK
<1>2. Reading(q)
  BY <1>1 DEF Inv, StreamInv
<1>3. q \in Storers
  BY <1>1, <1>2 DEF Inv, RoleInv, Quiet, Reading
<1>4. q = p
  BY <1>1, <1>3 DEF Separate
<1> QED
  BY <1>2, <1>4 DEF Reading, Quiet

\* and no handler reads a file that is being created.
LEMMA NoServerReaders ==
    ASSUME Separate, Inv, NEW p \in Procs, hpc[p] = "call", req[p].kind = "Create",
           NEW f \in Files
    PROVE  ServerReaders(f) = {}
<1> SUFFICES ASSUME NEW q \in ServerReaders(f) PROVE FALSE
  OBVIOUS
<1>1. q \in Procs /\ q \in linked /\ req[q].kind = "Fetch"
  BY DEF ServerReaders, Inv, TypeOK
<1>2. Reading(q)
  BY <1>1 DEF Inv, StreamInv
<1>3. q \in Fetchers
  BY <1>1, <1>2 DEF Inv, RoleInv, Quiet, Reading
<1>4. p \in Namers
  BY DEF Inv, RoleInv, Quiet
<1> QED
  BY <1>1, <1>3, <1>4 DEF Separate

-----------------------------------------------------------------------------
(* One process at a time.                                                  *)

Ops == [q \in Procs |-> AbstractOp(q)]

Simulates == Atomic!AtomicNext \/ UNCHANGED Atomic!absVars

\* A step of p that leaves the others alone keeps the invariant if it keeps
\* p's part of it, and changes the abstract state at p only.
LEMMA OneProcess ==
    ASSUME Inv, TypeOK', NEW p \in Procs,
           \A f \in Files : sfile'[f] \in Whole \cup {None},
           \A q \in Procs \ {p} : Same(q),
           RoleInv(p)', StreamInv(p)'
    PROVE  Inv' /\ Ops' = [Ops EXCEPT ![p] = AbstractOp(p)']
<1>1. ASSUME NEW q \in Procs \ {p}
      PROVE  RoleInv(q)' /\ StreamInv(q)' /\ AbstractOp(q)' = AbstractOp(q)
  BY Frame DEF Inv
<1>2. \A q \in Procs : RoleInv(q)' /\ StreamInv(q)'
  BY <1>1
<1>3. Ops' = [Ops EXCEPT ![p] = AbstractOp(p)']
  BY <1>1 DEF Ops
<1>4. (\A f \in Files : sfile[f] \in Whole \cup {None})'
  BY DEF Whole
<1> QED
  BY <1>2, <1>3, <1>4 DEF Inv

\* Without a change of the files or of p's abstract operation: a stutter.
LEMMA Stutter ==
    ASSUME NEW p \in Procs, Ops' = [Ops EXCEPT ![p] = AbstractOp(p)'],
           AbstractOp(p)' = AbstractOp(p), UNCHANGED <<sfile, copy>>
    PROVE  Simulates
<1>1. Ops' = Ops
  BY DEF Ops
<1> QED
  BY <1>1 DEF Simulates, Ops, Atomic!absVars

LEMMA GivesUp ==
    ASSUME NEW p \in Procs, Ops' = [Ops EXCEPT ![p] = AbstractOp(p)'],
           AbstractOp(p)' = Atomic!Idle, UNCHANGED <<sfile, copy>>
    PROVE  Simulates
<1>1. Ops' = [q \in Procs |-> IF q \in {p} THEN Atomic!Idle ELSE Ops[q]]
  BY DEF Ops
<1>2. Atomic!GiveUp({p})
  BY <1>1 DEF Ops, Atomic!GiveUp, Atomic!Abandon
<1> QED
  BY <1>2 DEF Simulates, Atomic!AtomicNext

-----------------------------------------------------------------------------
(* Store.                                                                  *)

LEMMA StartStoreStep ==
    ASSUME Separate, Inv, NEW p \in Procs, NEW f \in Files, NEW d \in Contents,
           StartStore(p, f, d)
    PROVE  Inv' /\ Simulates
<1>1. p \in Storers /\ Quiet(p) /\ d \in Seq(Blocks) /\ d \in Whole /\ C(p) \in Clients
  BY ContentFacts, ClientOfAssumption DEF StartStore, Begin, C, Whole
<1>2. CacheReaders(C(p), f) = {}
  BY <1>1, NoCacheReaders
<1>3. AbstractOp(p) = Atomic!Idle
  BY <1>1 DEF AbstractOp, Quiet, Atomic!Idle
<1>4. copy' = [copy EXCEPT ![C(p)][f] = d] /\ UNCHANGED <<up, sfile, buf>>
  BY DEF StartStore
<1>5. buf[p] = None /\ p \notin linked
  BY <1>1 DEF Inv, StreamInv, Reading, Quiet
<1>6. CASE Begin(p, "Store", f, "store", "reading")
  <2>1. /\ src' = [src EXCEPT ![p] = d]
        /\ linked' = linked \cup {p}
        /\ req' = [req EXCEPT ![p] = [kind |-> "Store", file |-> f]]
        /\ pc' = [pc EXCEPT ![p] = "store"]
        /\ hpc' = [hpc EXCEPT ![p] = "reading"]
        /\ stream' = [stream EXCEPT ![p] = <<>>]
    BY <1>2, <1>6 DEF StartStore, Begin, Inv, TypeOK
  <2>2. TypeOK'
    BY <1>1, <1>4, <2>1 DEF Inv, TypeOK
  <2>3. RoleInv(p)'
    BY <1>1, <2>1 DEF Inv, TypeOK, RoleInv, Quiet
  <2>4. StreamInv(p)'
    BY <1>1, <1>4, <1>5, <2>1, ContentFacts
    DEF Inv, TypeOK, StreamInv, Reading, Sent, NextBlock, Whole
  <2>5. \A q \in Procs \ {p} : Same(q)
    BY <1>4, <2>1 DEF Inv, TypeOK, Same
  <2>6. Inv' /\ Ops' = [Ops EXCEPT ![p] = AbstractOp(p)']
    BY <1>4, <2>2, <2>3, <2>4, <2>5, OneProcess DEF Inv
  <2>7. AbstractOp(p)' = Atomic!Storing(f, d)
    BY <2>1 DEF Inv, TypeOK, AbstractOp, Atomic!Storing
  <2>8. Atomic!Write(p, f, d)
    BY <1>3, <1>4, <2>6, <2>7 DEF Ops, Atomic!Write, Atomic!Put, C
  <2> QED
    BY <2>6, <2>8 DEF Simulates, Atomic!AtomicNext
<1>7. CASE ~up
  <2>1. src' = src /\ UNCHANGED <<pc, hpc, req, linked, stream>>
    BY <1>2, <1>7 DEF StartStore, Begin, Inv, TypeOK
  <2>2. TypeOK'
    BY <1>1, <1>4, <2>1 DEF Inv, TypeOK
  <2>3. \A q \in Procs : Same(q)
    BY <1>4, <2>1 DEF Same
  <2>4. RoleInv(p)' /\ StreamInv(p)' /\ AbstractOp(p)' = AbstractOp(p)
    BY <2>3, Frame DEF Inv
  <2>5. Inv' /\ Ops' = [Ops EXCEPT ![p] = AbstractOp(p)']
    BY <1>4, <2>2, <2>3, <2>4, OneProcess DEF Inv
  <2>6. Ops' = Ops
    BY <2>4, <2>5 DEF Ops
  <2>7. Atomic!Write(p, f, d)
    BY <1>3, <1>4, <2>6 DEF Ops, Atomic!Write, Atomic!Put, C
  <2> QED
    BY <2>5, <2>7 DEF Simulates, Atomic!AtomicNext
<1> QED
  BY <1>6, <1>7 DEF StartStore

LEMMA FillBlockStep ==
    ASSUME Separate, Inv, NEW p \in Procs, FillBlock(p)
    PROVE  Inv' /\ Simulates
<1> DEFINE n == Len(stream[p]) + 1
           block == [block |-> src[p][n], last |-> n = Len(src[p])]
<1>1. Reading(p) /\ buf[p] = None
  BY DEF FillBlock
<1>2. src[p] \in Whole /\ src[p] \in Seq(Blocks) /\ n \in 1 .. Len(src[p])
  BY <1>1, ContentFacts DEF Inv, TypeOK, StreamInv
<1>3. block \in Message
  BY <1>2 DEF Message
<1>4. \A q \in Procs \ {p} : buf[q] # None => ~SharesBuffer(p, q)
  BY <1>1, OwnBuffer
<1>5. block = [block |-> IF n <= Len(src[p]) THEN src[p][n] ELSE NoBytes,
               last |-> n >= Len(src[p])]
  BY <1>2
<1>6. buf' = [buf EXCEPT ![p] = block]
  BY <1>4, <1>5 DEF FillBlock, Inv, TypeOK
<1>7. UNCHANGED <<up, sfile, copy, pc, hpc, req, src, linked, stream>>
  BY DEF FillBlock
<1>8. TypeOK'
  BY <1>3, <1>6, <1>7 DEF Inv, TypeOK
<1>9. RoleInv(p)' /\ AbstractOp(p)' = AbstractOp(p)
  BY <1>7 DEF Inv, RoleInv, Quiet, AbstractOp
<1>10. StreamInv(p)'
  <2>1. Reading(p)' /\ NextBlock(p)'
    BY <1>1, <1>6, <1>7 DEF Reading, NextBlock, Inv, TypeOK
  <2>2. Sent(p)' = Sent(p)
    BY <1>7 DEF Sent
  <2> QED
    BY <1>1, <1>7, <2>1, <2>2 DEF Inv, StreamInv, Whole
<1>11. \A q \in Procs \ {p} : Same(q)
  BY <1>6, <1>7 DEF Inv, TypeOK, Same
<1>12. Inv' /\ Ops' = [Ops EXCEPT ![p] = AbstractOp(p)']
  BY <1>7, <1>8, <1>9, <1>10, <1>11, OneProcess DEF Inv
<1> QED
  BY <1>7, <1>9, <1>12, Stutter

\* What is sent is the next block, and the last one is known by its position.
LEMMA SendNext ==
    ASSUME Separate, Inv, NEW p \in Procs, Reading(p), Send(p), UNCHANGED src
    PROVE  /\ stream' = [stream EXCEPT ![p] = Append(@, buf[p])]
           /\ buf[p] \in Message
           /\ Sent(p)'
           /\ Len(stream'[p]) = Len(stream[p]) + 1
           /\ IF buf[p].last THEN Len(stream'[p]) = Len(src[p])
                             ELSE Len(stream'[p]) < Len(src[p])
<1>1. buf[p] # None /\ buf[p] \in Message
  BY DEF Send, Inv, TypeOK
<1>2. Arriving(p) = {buf[p]}
  BY DEF Arriving, Separate
<1>3. stream' = [stream EXCEPT ![p] = Append(@, buf[p])]
  BY <1>2 DEF Send
<1>4. stream[p] \in Seq(Message) /\ stream'[p] = Append(stream[p], buf[p])
  BY <1>3 DEF Inv, TypeOK
<1>5. /\ src[p] \in Whole
      /\ Sent(p)
      /\ Len(stream[p]) < Len(src[p])
      /\ buf[p] = [block |-> src[p][Len(stream[p]) + 1],
                   last |-> Len(stream[p]) + 1 = Len(src[p])]
  BY <1>1 DEF Inv, StreamInv, NextBlock
<1>6. Len(src[p]) \in Nat
  BY <1>5, ContentFacts
<1>7. Sent(p)'
  <2> SUFFICES ASSUME NEW i \in 1 .. Len(stream'[p])
               PROVE  /\ i <= Len(src[p])
                      /\ stream'[p][i] = [block |-> src[p][i], last |-> i = Len(src[p])]
    BY DEF Sent
  <2>1. CASE i \in 1 .. Len(stream[p])
    BY <1>1, <1>4, <1>5, <2>1 DEF Sent
  <2>2. CASE i = Len(stream[p]) + 1
    BY <1>1, <1>4, <1>5, <1>6, <2>2
  <2> QED
    BY <1>4, <1>1, <2>1, <2>2
<1>8. Len(stream'[p]) = Len(stream[p]) + 1
  BY <1>1, <1>4
<1>9. buf[p].last = (Len(stream[p]) + 1 = Len(src[p]))
  BY <1>5
<1>10. CASE buf[p].last
  <2>1. Len(stream[p]) + 1 = Len(src[p])
    BY <1>9, <1>10
  <2> QED
    BY <1>1, <1>3, <1>7, <1>8, <1>10, <2>1
<1>11. CASE ~buf[p].last
  <2>1. Len(stream[p]) + 1 # Len(src[p])
    BY <1>9, <1>11
  <2>2. Len(stream'[p]) < Len(src[p])
    BY <1>4, <1>5, <1>6, <1>8, <2>1
  <2> QED
    BY <1>1, <1>3, <1>7, <1>8, <1>11, <2>2
<1> QED
  BY <1>10, <1>11

LEMMA StoreSendStep ==
    ASSUME Separate, Inv, NEW p \in Procs, StoreSend(p)
    PROVE  Inv' /\ Simulates
<1>1. /\ pc[p] = "store" /\ hpc[p] = "reading" /\ Send(p) /\ Reading(p)
      /\ buf' = [buf EXCEPT ![p] = None]
      /\ linked' = IF buf[p].last THEN linked \ {p} ELSE linked
      /\ pc' = IF buf[p].last THEN [pc EXCEPT ![p] = "wait"] ELSE pc
      /\ UNCHANGED <<up, sfile, copy, hpc, req, src>>
  BY DEF StoreSend, Send, Reading
<1>2. /\ stream' = [stream EXCEPT ![p] = Append(@, buf[p])]
      /\ buf[p] \in Message
      /\ Sent(p)'
      /\ Len(stream'[p]) = Len(stream[p]) + 1
      /\ IF buf[p].last THEN Len(stream'[p]) = Len(src[p])
                        ELSE Len(stream'[p]) < Len(src[p])
  BY <1>1, SendNext
<1>3. TypeOK'
  BY <1>1, <1>2 DEF Inv, TypeOK
<1>4. RoleInv(p)' /\ AbstractOp(p)' = AbstractOp(p)
  BY <1>1 DEF Inv, TypeOK, RoleInv, Quiet, AbstractOp
<1>5. src[p] \in Contents /\ Len(src[p]) \in Nat /\ Len(stream'[p]) \in Nat
  BY <1>1, <1>3, ContentFacts DEF Inv, TypeOK, StreamInv, Whole
<1>6. StreamInv(p)'
  <2>1. Reading(p)' => ~buf[p].last /\ buf'[p] = None /\ NextBlock(p)'
    BY <1>1 DEF Reading, NextBlock, Inv, TypeOK
  <2>2. pc'[p] \in {"store", "wait"} /\ hpc'[p] = "reading"
    BY <1>1 DEF Inv, TypeOK
  <2>3. buf'[p] = None /\ (p \in linked' => ~buf[p].last)
    BY <1>1 DEF Inv, TypeOK
  <2>4. ~buf[p].last => pc'[p] = "store"
    BY <1>1 DEF Inv, TypeOK
  <2>5. (Reading(p) => Len(stream[p]) < Len(src[p]) /\ src[p] \in Whole /\ NextBlock(p))'
    BY <1>1, <1>2, <1>5, <2>1 DEF Whole
  <2>6. p \in linked' => Reading(p)'
    BY <2>3, <2>4 DEF Reading
  <2> QED
    BY <1>1, <1>2, <1>5, <2>2, <2>3, <2>5, <2>6 DEF StreamInv, Whole
<1>7. \A q \in Procs \ {p} : Same(q)
  BY <1>1, <1>2 DEF Inv, TypeOK, Same
<1>8. Inv' /\ Ops' = [Ops EXCEPT ![p] = AbstractOp(p)']
  BY <1>1, <1>3, <1>4, <1>6, <1>7, OneProcess DEF Inv
<1> QED
  BY <1>1, <1>4, <1>8, Stutter

LEMMA StoreReadErrorStep ==
    ASSUME Separate, Inv, NEW p \in Procs, StoreReadError(p)
    PROVE  Inv' /\ Simulates
<1> USE DEF StoreReadError
<1>1. TypeOK'
  BY DEF Inv, TypeOK
<1>2. RoleInv(p)' /\ AbstractOp(p)' = AbstractOp(p)
  BY DEF Inv, TypeOK, RoleInv, Quiet, AbstractOp
<1>3. hpc[p] # "sending"
  BY DEF Inv, RoleInv, Quiet
<1>4. StreamInv(p)'
  BY <1>3 DEF Inv, TypeOK, StreamInv, Reading, Sent, Whole
<1>5. \A q \in Procs \ {p} : Same(q)
  BY DEF Inv, TypeOK, Same
<1>6. Inv' /\ Ops' = [Ops EXCEPT ![p] = AbstractOp(p)']
  BY <1>1, <1>2, <1>4, <1>5, OneProcess DEF Inv
<1> QED
  BY <1>2, <1>6, Stutter

\* The heart of it: a stream that ends with laststore is the whole content.
LEMMA StoreEndStep ==
    ASSUME Separate, Inv, NEW p \in Procs, StoreEnd(p)
    PROVE  Inv' /\ Simulates
<1> DEFINE f == req[p].file
<1>1. /\ hpc[p] = "reading" /\ pc[p] # "store" /\ f \in Files
      /\ UNCHANGED <<up, copy, pc, req, src, buf, stream>>
      /\ src[p] \in Contents /\ src[p] \in Seq(Blocks) /\ src[p] \in Whole /\ Sent(p)
  BY ContentsAssumption DEF StoreEnd, Inv, TypeOK, StreamInv
<1>2. AbstractOp(p) = Atomic!Storing(f, src[p])
  BY <1>1 DEF AbstractOp, Atomic!Storing
<1>3. pc[p] \in {"idle", "wait"}
  BY <1>1 DEF Inv, RoleInv, Quiet
<1>4. ~Reading(p) /\ buf[p] = None /\ p \notin linked
  BY <1>1 DEF Inv, StreamInv, Reading
<1>5. CASE \E n \in 1 .. Len(stream[p]) :
              /\ stream[p][n].last
              /\ sfile' = [sfile EXCEPT ![f] = Received(SubSeq(stream[p], 1, n))]
              /\ linked' = linked \ ServerReaders(f)
              /\ Handler(p, "done")
  <2>1. PICK n \in 1 .. Len(stream[p]) :
              /\ stream[p][n].last
              /\ sfile' = [sfile EXCEPT ![f] = Received(SubSeq(stream[p], 1, n))]
              /\ linked' = linked \ ServerReaders(f)
              /\ Handler(p, "done")
    BY <1>5
  <2>2. n = Len(src[p])
    <3>1. stream[p][n] = [block |-> src[p][n], last |-> n = Len(src[p])]
      BY <1>1 DEF Sent
    <3>2. stream[p][n].last = (n = Len(src[p]))
      BY <3>1
    <3> QED
      BY <2>1, <3>2
  <2>3. stream[p] \in Seq(Message) /\ Len(stream[p]) \in Nat
    BY DEF Inv, TypeOK
  <2>4. /\ SubSeq(stream[p], 1, n) \in Seq(Message)
        /\ Len(SubSeq(stream[p], 1, n)) = n
        /\ \A i \in 1 .. n : SubSeq(stream[p], 1, n)[i] = stream[p][i]
    BY <2>3
  <2>5. \A i \in 1 .. n : SubSeq(stream[p], 1, n)[i].block = src[p][i]
    <3> TAKE i \in 1 .. n
    <3>1. i \in 1 .. Len(stream[p])
      BY <2>3
    <3>2. stream[p][i] = [block |-> src[p][i], last |-> i = Len(src[p])]
      BY <1>1, <3>1 DEF Sent
    <3> QED
      BY <2>4, <3>2
  <2>6. Received(SubSeq(stream[p], 1, n)) = src[p]
    BY <1>1, <2>2, <2>4, <2>5, ReceivedContent
  <2>7. sfile' = [sfile EXCEPT ![f] = src[p]] /\ hpc' = [hpc EXCEPT ![p] = "done"]
    BY <2>1, <2>6 DEF Handler
  <2>8. TypeOK'
    BY <1>1, <2>1, <2>7 DEF Inv, TypeOK
  <2>9. RoleInv(p)' /\ AbstractOp(p)' = Atomic!Idle
    BY <1>1, <1>3, <2>7 DEF Inv, TypeOK, RoleInv, Quiet, AbstractOp, Atomic!Idle
  <2>10. StreamInv(p)'
    BY <1>1, <1>3, <1>4, <2>1, <2>7 DEF Inv, TypeOK, StreamInv, Reading
  <2>11. \A q \in Procs \ {p} : Same(q)
    BY <1>1, <2>1, <2>7 DEF Inv, TypeOK, Same
  <2>12. \A g \in Files : sfile'[g] \in Whole \cup {None}
    BY <1>1, <2>7 DEF Inv, TypeOK
  <2>13. Inv' /\ Ops' = [Ops EXCEPT ![p] = AbstractOp(p)']
    BY <2>8, <2>9, <2>10, <2>11, <2>12, OneProcess
  <2>14. Atomic!Install(p, f, src[p])
    BY <1>1, <1>2, <2>7, <2>9, <2>13 DEF Ops, Atomic!Install
  <2> QED
    BY <1>1, <2>13, <2>14 DEF Simulates, Atomic!AtomicNext
<1>6. CASE Handler(p, "failed") /\ UNCHANGED <<sfile, linked>>
  <2>1. TypeOK'
    BY <1>1, <1>6 DEF Inv, TypeOK, Handler
  <2>2. RoleInv(p)' /\ AbstractOp(p)' = Atomic!Idle
    BY <1>1, <1>3, <1>6 DEF Inv, TypeOK, RoleInv, Quiet, AbstractOp, Atomic!Idle, Handler
  <2>3. StreamInv(p)'
    BY <1>1, <1>3, <1>4, <1>6 DEF Inv, TypeOK, StreamInv, Reading, Handler
  <2>4. \A q \in Procs \ {p} : Same(q)
    BY <1>1, <1>6 DEF Inv, TypeOK, Same, Handler
  <2>5. Inv' /\ Ops' = [Ops EXCEPT ![p] = AbstractOp(p)']
    BY <1>6, <2>1, <2>2, <2>3, <2>4, OneProcess DEF Inv
  <2> QED
    BY <1>1, <1>6, <2>2, <2>5, GivesUp
<1>7. PICK n \in 0 .. Len(stream[p]) :
        \/ /\ n > 0 /\ stream[p][n].last
           /\ sfile' = [sfile EXCEPT ![f] = Received(SubSeq(stream[p], 1, n))]
           /\ linked' = linked \ ServerReaders(f)
           /\ Handler(p, "done")
        \/ Handler(p, "failed") /\ UNCHANGED <<sfile, linked>>
  BY DEF StoreEnd
<1>8. Len(stream[p]) \in Nat
  BY DEF Inv, TypeOK
<1> QED
  BY <1>5, <1>6, <1>7, <1>8

LEMMA StoreAbortStep ==
    ASSUME Separate, Inv, NEW p \in Procs, StoreAbort(p)
    PROVE  Inv' /\ Simulates
<1> USE DEF StoreAbort, Handler
<1>1. TypeOK'
  BY DEF Inv, TypeOK
<1>2. pc[p] \in {"idle", "store", "wait"}
  BY DEF Inv, RoleInv, Quiet
<1>3. RoleInv(p)' /\ AbstractOp(p)' = Atomic!Idle
  BY <1>2 DEF Inv, TypeOK, RoleInv, Quiet, AbstractOp, Atomic!Idle
<1>4. NextBlock(p)' = NextBlock(p) /\ Sent(p)' = Sent(p)
  BY DEF NextBlock, Sent
<1>5. StreamInv(p)'
  BY <1>2, <1>4 DEF Inv, TypeOK, StreamInv, Reading, Whole
<1>6. \A q \in Procs \ {p} : Same(q)
  BY DEF Inv, TypeOK, Same
<1>7. Inv' /\ Ops' = [Ops EXCEPT ![p] = AbstractOp(p)']
  BY <1>1, <1>3, <1>5, <1>6, OneProcess DEF Inv
<1> QED
  BY <1>3, <1>7, GivesUp

LEMMA StoreReturnStep ==
    ASSUME Separate, Inv, NEW p \in Procs, StoreReturn(p)
    PROVE  Inv' /\ Simulates
<1> USE DEF StoreReturn, Return, Handler, Ended
<1>1. TypeOK'
  BY DEF Inv, TypeOK
<1>2. RoleInv(p)' /\ AbstractOp(p)' = AbstractOp(p)
  BY DEF Inv, TypeOK, RoleInv, Quiet, AbstractOp
<1>3. StreamInv(p)'
  BY DEF Inv, TypeOK, StreamInv, Reading
<1>4. \A q \in Procs \ {p} : Same(q)
  BY DEF Inv, TypeOK, Same
<1>5. Inv' /\ Ops' = [Ops EXCEPT ![p] = AbstractOp(p)']
  BY <1>1, <1>2, <1>3, <1>4, OneProcess DEF Inv
<1> QED
  BY <1>2, <1>5, Stutter

-----------------------------------------------------------------------------
(* Fetch.                                                                  *)

LEMMA StartFetchStep ==
    ASSUME Separate, Inv, NEW p \in Procs, NEW f \in Files, StartFetch(p, f)
    PROVE  Inv' /\ Simulates
<1> USE DEF StartFetch, Begin
<1>1. TypeOK'
  BY DEF Inv, TypeOK
<1>2. AbstractOp(p) = Atomic!Idle /\ AbstractOp(p)' = Atomic!Fetching(f, None)
  BY DEF Inv, TypeOK, AbstractOp, Quiet, Atomic!Idle, Atomic!Fetching
<1>3. RoleInv(p)'
  BY DEF Inv, TypeOK, RoleInv, Quiet
<1>4. StreamInv(p)'
  BY DEF Inv, TypeOK, StreamInv, Reading, Quiet
<1>5. \A q \in Procs \ {p} : Same(q)
  BY DEF Inv, TypeOK, Same
<1>6. Inv' /\ Ops' = [Ops EXCEPT ![p] = AbstractOp(p)']
  BY <1>1, <1>3, <1>4, <1>5, OneProcess DEF Inv
<1>7. Atomic!BeginFetch(p, f)
  BY <1>2, <1>6 DEF Ops, Atomic!BeginFetch
<1> QED
  BY <1>6, <1>7 DEF Simulates, Atomic!AtomicNext

LEMMA FetchOpenStep ==
    ASSUME Separate, Inv, NEW p \in Procs, FetchOpen(p)
    PROVE  Inv' /\ Simulates
<1> DEFINE f == req[p].file
<1>1. /\ hpc[p] = "call" /\ req[p].kind = "Fetch" /\ f \in Files
      /\ UNCHANGED <<up, sfile, copy, pc, req, buf, stream>>
  BY DEF FetchOpen, Inv, TypeOK
<1>2. pc[p] \in {"idle", "fetch"} /\ p \in Fetchers
  BY <1>1 DEF Inv, RoleInv, Quiet
<1>3. buf[p] = None /\ p \notin linked
  BY <1>1, <1>2 DEF Inv, StreamInv, Reading
<1>4. CASE sfile[f] # None /\ src' = [src EXCEPT ![p] = sfile[f]]
           /\ linked' = linked \cup {p} /\ Handler(p, "sending")
  <2>1. sfile[f] \in Whole /\ sfile[f] \in Seq(Blocks) /\ Len(sfile[f]) \in Nat \ {0}
    BY <1>1, <1>4, ContentFacts DEF Inv
  <2>2. TypeOK'
    BY <1>1, <1>4, <2>1 DEF Inv, TypeOK, Handler
  <2>3. RoleInv(p)'
    BY <1>1, <1>2, <1>4 DEF Inv, TypeOK, RoleInv, Quiet, Handler
  <2>4. StreamInv(p)'
    <3>1. hpc'[p] = "sending" /\ src'[p] = sfile[f] /\ pc'[p] = pc[p] /\ buf'[p] = None
      BY <1>1, <1>3, <1>4 DEF Inv, TypeOK, Handler
    <3>2. stream'[p] = <<>>
      BY <1>1 DEF Inv, StreamInv
    <3> QED
      BY <1>2, <2>1, <3>1, <3>2 DEF StreamInv, Reading, Sent, NextBlock, Whole
  <2>5. \A q \in Procs \ {p} : Same(q)
    BY <1>1, <1>4 DEF Inv, TypeOK, Same, Handler
  <2>6. Inv' /\ Ops' = [Ops EXCEPT ![p] = AbstractOp(p)']
    BY <1>1, <2>2, <2>3, <2>4, <2>5, OneProcess DEF Inv
  <2>7. CASE pc[p] = "fetch"
    <3>1. AbstractOp(p) = Atomic!Fetching(f, None)
      BY <1>1, <2>7 DEF AbstractOp, Atomic!Fetching, Inv, StreamInv
    <3>2. AbstractOp(p)' = Atomic!Fetching(f, sfile[f])
      BY <1>1, <1>4, <2>7 DEF AbstractOp, Atomic!Fetching, Inv, TypeOK, Handler
    <3>3. Atomic!Read(p, f)
      BY <1>1, <2>6, <3>1, <3>2 DEF Ops, Atomic!Read
    <3> QED
      BY <1>1, <2>6, <3>3 DEF Simulates, Atomic!AtomicNext
  <2>8. CASE pc[p] = "idle"
    <3>1. AbstractOp(p)' = AbstractOp(p)
      BY <1>1, <1>4, <2>8 DEF AbstractOp, Inv, TypeOK, Handler
    <3> QED
      BY <1>1, <2>6, <3>1, Stutter
  <2> QED
    BY <1>2, <2>7, <2>8
<1>5. CASE Handler(p, "failed") /\ UNCHANGED <<src, linked>>
  <2>1. TypeOK'
    BY <1>1, <1>5 DEF Inv, TypeOK, Handler
  <2>2. RoleInv(p)' /\ AbstractOp(p)' = AbstractOp(p)
    BY <1>1, <1>2, <1>5 DEF Inv, TypeOK, RoleInv, Quiet, AbstractOp, Handler
  <2>3. StreamInv(p)'
    BY <1>1, <1>2, <1>3, <1>5 DEF Inv, TypeOK, StreamInv, Reading, Handler
  <2>4. \A q \in Procs \ {p} : Same(q)
    BY <1>1, <1>5 DEF Inv, TypeOK, Same, Handler
  <2>5. Inv' /\ Ops' = [Ops EXCEPT ![p] = AbstractOp(p)']
    BY <1>1, <2>1, <2>2, <2>3, <2>4, OneProcess DEF Inv
  <2> QED
    BY <1>1, <2>2, <2>5, Stutter
<1> QED
  BY <1>4, <1>5 DEF FetchOpen

LEMMA FetchSendStep ==
    ASSUME Separate, Inv, NEW p \in Procs, FetchSend(p)
    PROVE  Inv' /\ Simulates
<1>1. /\ hpc[p] = "sending" /\ Send(p) /\ Reading(p)
      /\ buf' = [buf EXCEPT ![p] = None]
      /\ linked' = IF buf[p].last THEN linked \ {p} ELSE linked
      /\ hpc' = IF buf[p].last THEN [hpc EXCEPT ![p] = "done"] ELSE hpc
      /\ UNCHANGED <<up, sfile, copy, pc, req, src>>
  BY DEF FetchSend, Send, Reading
<1>2. /\ stream' = [stream EXCEPT ![p] = Append(@, buf[p])]
      /\ buf[p] \in Message
      /\ Sent(p)'
      /\ Len(stream'[p]) = Len(stream[p]) + 1
      /\ IF buf[p].last THEN Len(stream'[p]) = Len(src[p])
                        ELSE Len(stream'[p]) < Len(src[p])
  BY <1>1, SendNext
<1>3. TypeOK'
  BY <1>1, <1>2 DEF Inv, TypeOK
<1>4. RoleInv(p)' /\ AbstractOp(p)' = AbstractOp(p)
  BY <1>1 DEF Inv, TypeOK, RoleInv, Quiet, AbstractOp
<1>5. src[p] \in Whole /\ pc[p] \in {"idle", "fetch"}
  BY <1>1 DEF Inv, StreamInv, RoleInv, Quiet
<1>6. StreamInv(p)'
  <2>1. hpc'[p] = IF buf[p].last THEN "done" ELSE "sending"
    BY <1>1 DEF Inv, TypeOK
  <2>2. buf'[p] = None /\ (p \in linked' => ~buf[p].last)
    BY <1>1 DEF Inv, TypeOK
  <2>3. (Reading(p) => Len(stream[p]) < Len(src[p]) /\ src[p] \in Whole /\ NextBlock(p))'
    BY <1>1, <1>2, <1>5, <2>1, <2>2 DEF Whole, Reading, NextBlock
  <2>4. p \in linked' => Reading(p)'
    BY <2>1, <2>2 DEF Reading
  <2> QED
    BY <1>1, <1>2, <1>5, <2>1, <2>2, <2>3, <2>4 DEF StreamInv, Whole
<1>7. \A q \in Procs \ {p} : Same(q)
  BY <1>1, <1>2 DEF Inv, TypeOK, Same
<1>8. Inv' /\ Ops' = [Ops EXCEPT ![p] = AbstractOp(p)']
  BY <1>1, <1>3, <1>4, <1>6, <1>7, OneProcess DEF Inv
<1> QED
  BY <1>1, <1>4, <1>8, Stutter

LEMMA FetchReadErrorStep ==
    ASSUME Separate, Inv, NEW p \in Procs, FetchReadError(p)
    PROVE  Inv' /\ Simulates
<1> USE DEF FetchReadError, Handler
<1>1. TypeOK'
  BY DEF Inv, TypeOK
<1>2. pc[p] \in {"idle", "fetch"}
  BY DEF Inv, RoleInv, Quiet
<1>3. RoleInv(p)' /\ AbstractOp(p)' = AbstractOp(p)
  BY DEF Inv, TypeOK, RoleInv, Quiet, AbstractOp
<1>4. StreamInv(p)'
  BY <1>2 DEF Inv, TypeOK, StreamInv, Reading
<1>5. \A q \in Procs \ {p} : Same(q)
  BY DEF Inv, TypeOK, Same
<1>6. Inv' /\ Ops' = [Ops EXCEPT ![p] = AbstractOp(p)']
  BY <1>1, <1>3, <1>4, <1>5, OneProcess DEF Inv
<1> QED
  BY <1>3, <1>6, Stutter

\* A stream that was sent to its end is the content that was opened.
LEMMA FetchReturnStep ==
    ASSUME Separate, Inv, NEW p \in Procs, FetchReturn(p)
    PROVE  Inv' /\ Simulates
<1> DEFINE f == req[p].file
<1>1. /\ pc[p] = "fetch" /\ hpc[p] \in {"done", "failed"} /\ f \in Files /\ C(p) \in Clients
      /\ pc' = [pc EXCEPT ![p] = "idle"] /\ hpc' = [hpc EXCEPT ![p] = "none"]
      /\ UNCHANGED <<up, sfile, req, src, buf, stream>>
  BY ClientOfAssumption DEF FetchReturn, Ended, Return, Handler, Inv, TypeOK, C
<1>2. AbstractOp(p) = Atomic!Fetching(f, src[p]) /\ AbstractOp(p)' = Atomic!Idle
  BY <1>1 DEF Inv, TypeOK, AbstractOp, Atomic!Fetching, Atomic!Idle
<1>3. RoleInv(p)'
  BY <1>1 DEF Inv, TypeOK, RoleInv, Quiet
<1>4. buf[p] = None /\ p \notin linked
  BY <1>1 DEF Inv, StreamInv, Reading
<1>5. linked' \subseteq linked
  BY DEF FetchReturn
<1>6. StreamInv(p)'
  BY <1>1, <1>4, <1>5 DEF Inv, TypeOK, StreamInv, Reading
<1>7. \A q \in Procs \ {p} : Same(q)
  BY <1>1, <1>5 DEF Inv, TypeOK, Same
<1>8. CASE /\ hpc[p] = "done"
           /\ copy' = [copy EXCEPT ![C(p)][f] = Received(stream[p])]
  <2>1. src[p] \in Whole /\ Sent(p) /\ Len(stream[p]) = Len(src[p])
    BY <1>1, <1>8 DEF Inv, StreamInv
  <2>2. src[p] \in Seq(Blocks) /\ src[p] # None /\ stream[p] \in Seq(Message)
    BY <2>1, ContentFacts DEF Inv, TypeOK
  <2>3. \A i \in 1 .. Len(stream[p]) : stream[p][i].block = src[p][i]
    <3> TAKE i \in 1 .. Len(stream[p])
    <3>1. stream[p][i] = [block |-> src[p][i], last |-> i = Len(src[p])]
      BY <2>1 DEF Sent
    <3> QED
      BY <3>1
  <2>4. Received(stream[p]) = src[p]
    BY <2>1, <2>2, <2>3, ReceivedContent
  <2>5. copy' = [copy EXCEPT ![C(p)][f] = src[p]]
    BY <1>8, <2>4
  <2>6. TypeOK'
    BY <1>1, <1>5, <2>2, <2>5 DEF Inv, TypeOK
  <2>7. Inv' /\ Ops' = [Ops EXCEPT ![p] = AbstractOp(p)']
    BY <1>1, <1>3, <1>6, <1>7, <2>6, OneProcess DEF Inv
  <2>8. Atomic!Deliver(p, f, src[p])
    BY <1>1, <1>2, <2>2, <2>5, <2>7 DEF Ops, Atomic!Deliver, Atomic!Put, C
  <2> QED
    BY <1>1, <2>1, <2>7, <2>8 DEF Simulates, Atomic!AtomicNext, Whole
<1>9. CASE UNCHANGED <<copy, linked>>
  <2>1. TypeOK'
    BY <1>1, <1>9 DEF Inv, TypeOK
  <2>2. Inv' /\ Ops' = [Ops EXCEPT ![p] = AbstractOp(p)']
    BY <1>1, <1>3, <1>6, <1>7, <2>1, OneProcess DEF Inv
  <2> QED
    BY <1>1, <1>2, <1>9, <2>2, GivesUp
<1> QED
  BY <1>8, <1>9 DEF FetchReturn

-----------------------------------------------------------------------------
(* Create and Remove.                                                      *)

LEMMA StartNameStep ==
    ASSUME Separate, Inv, NEW p \in Procs, NEW f \in Files,
           StartCreate(p, f) \/ StartRemove(p, f)
    PROVE  Inv' /\ Simulates
<1>1. PICK k \in {"Create", "Remove"} : Begin(p, k, f, "name", "call")
  BY DEF StartCreate, StartRemove
<1>2. UNCHANGED <<up, sfile, copy, src, linked, buf>> /\ p \in Namers
  BY DEF StartCreate, StartRemove
<1> USE DEF Begin
<1>3. TypeOK'
  BY <1>1, <1>2 DEF Inv, TypeOK
<1>4. RoleInv(p)' /\ AbstractOp(p)' = AbstractOp(p)
  BY <1>1, <1>2 DEF Inv, TypeOK, RoleInv, Quiet, AbstractOp
<1>5. StreamInv(p)'
  BY <1>1, <1>2 DEF Inv, TypeOK, StreamInv, Reading, Quiet
<1>6. \A q \in Procs \ {p} : Same(q)
  BY <1>1, <1>2 DEF Inv, TypeOK, Same
<1>7. Inv' /\ Ops' = [Ops EXCEPT ![p] = AbstractOp(p)']
  BY <1>2, <1>3, <1>4, <1>5, <1>6, OneProcess DEF Inv
<1> QED
  BY <1>2, <1>4, <1>7, Stutter

\* The handler of Create or Remove: nobody's open file changes.
LEMMA NameFileStep ==
    ASSUME Separate, Inv, NEW p \in Procs, CreateFile(p) \/ RemoveFile(p)
    PROVE  Inv' /\ Simulates
<1> DEFINE f == req[p].file
<1>1. /\ hpc[p] = "call" /\ req[p].kind \in {"Create", "Remove"} /\ f \in Files
      /\ hpc' = [hpc EXCEPT ![p] = "done"]
      /\ UNCHANGED <<up, copy, pc, req, buf, stream>>
      /\ linked' \subseteq linked
  BY DEF CreateFile, RemoveFile, Handler, Inv, TypeOK
<1>2. src' = src
  <2>1. CASE CreateFile(p)
    <3>1. req[p].kind = "Create"
      BY <2>1 DEF CreateFile
    <3>2. ServerReaders(f) = {}
      BY <1>1, <3>1, NoServerReaders
    <3> QED
      BY <2>1, <3>2 DEF CreateFile, Inv, TypeOK
  <2>2. CASE RemoveFile(p)
    BY <2>2 DEF RemoveFile
  <2> QED
    BY <2>1, <2>2
<1>3. PICK d \in {EmptyFile, None} : sfile' = [sfile EXCEPT ![f] = d]
  BY DEF CreateFile, RemoveFile
<1>4. d \in Whole \cup {None} /\ d \in Seq(Blocks) \cup {None}
  BY ContentFacts
<1>5. TypeOK'
  BY <1>1, <1>2, <1>3, <1>4 DEF Inv, TypeOK
<1>6. pc[p] \in {"idle", "name"}
  BY <1>1 DEF Inv, RoleInv, Quiet
<1>7. RoleInv(p)' /\ AbstractOp(p)' = AbstractOp(p)
  BY <1>1, <1>2, <1>6 DEF Inv, TypeOK, RoleInv, Quiet, AbstractOp
<1>8. StreamInv(p)'
  BY <1>1, <1>2, <1>6 DEF Inv, TypeOK, StreamInv, Reading
<1>9. \A q \in Procs \ {p} : Same(q)
  BY <1>1, <1>2 DEF Inv, TypeOK, Same
<1>10. \A g \in Files : sfile'[g] \in Whole \cup {None}
  BY <1>3, <1>4 DEF Inv, TypeOK
<1>11. Inv' /\ Ops' = [Ops EXCEPT ![p] = AbstractOp(p)']
  BY <1>5, <1>7, <1>8, <1>9, <1>10, OneProcess
<1>12. Ops' = Ops
  BY <1>7, <1>11 DEF Ops
<1>13. Atomic!SetName(f, d)
  BY <1>1, <1>3, <1>12 DEF Ops, Atomic!SetName
<1> QED
  BY <1>1, <1>11, <1>13 DEF Simulates, Atomic!AtomicNext

LEMMA NameReturnStep ==
    ASSUME Separate, Inv, NEW p \in Procs, NameReturn(p)
    PROVE  Inv' /\ Simulates
<1> DEFINE f == req[p].file
<1>1. /\ pc[p] = "name" /\ hpc[p] \in {"done", "failed"} /\ f \in Files /\ C(p) \in Clients
      /\ pc' = [pc EXCEPT ![p] = "idle"] /\ hpc' = [hpc EXCEPT ![p] = "none"]
      /\ UNCHANGED <<up, sfile, req, src, buf, stream>>
      /\ linked' \subseteq linked
  BY ClientOfAssumption DEF NameReturn, Ended, Return, Handler, Inv, TypeOK, C
<1>2. RoleInv(p)' /\ AbstractOp(p)' = AbstractOp(p)
  BY <1>1 DEF Inv, TypeOK, RoleInv, Quiet, AbstractOp
<1>3. StreamInv(p)'
  BY <1>1 DEF Inv, TypeOK, StreamInv, Reading
<1>4. \A q \in Procs \ {p} : Same(q)
  BY <1>1 DEF Inv, TypeOK, Same
<1>5. copy' = copy \/ copy' = [copy EXCEPT ![C(p)][f] = None]
  BY DEF NameReturn
<1>6. TypeOK'
  <2> DEFINE Cached == Seq(Blocks) \cup {None}
  <2>1. copy \in [Clients -> [Files -> Cached]] /\ None \in Cached
    BY DEF Inv, TypeOK
  <2>2. copy' \in [Clients -> [Files -> Cached]]
    <3> HIDE DEF Cached, f
    <3> QED
      BY <1>1, <1>5, <2>1
  <2> QED
    BY <1>1, <2>2 DEF Inv, TypeOK
<1>7. Inv' /\ Ops' = [Ops EXCEPT ![p] = AbstractOp(p)']
  BY <1>1, <1>2, <1>3, <1>4, <1>6, OneProcess DEF Inv
<1>8. Ops' = Ops
  BY <1>2, <1>7 DEF Ops
<1>9. CASE copy' = [copy EXCEPT ![C(p)][f] = None]
  <2>1. Atomic!Forget(C(p), f)
    BY <1>1, <1>8, <1>9 DEF Ops, Atomic!Forget, Atomic!Put
  <2> QED
    BY <1>1, <1>7, <2>1 DEF Simulates, Atomic!AtomicNext
<1>10. CASE copy' = copy
  BY <1>1, <1>2, <1>7, <1>10, Stutter
<1> QED
  BY <1>5, <1>9, <1>10

LEMMA DiscardStep ==
    ASSUME Separate, Inv, NEW p \in Procs, Discard(p)
    PROVE  Inv' /\ Simulates
<1> USE DEF Discard, Handler, Ended
<1>1. TypeOK'
  BY DEF Inv, TypeOK
<1>2. RoleInv(p)' /\ AbstractOp(p)' = AbstractOp(p)
  BY DEF Inv, TypeOK, RoleInv, Quiet, AbstractOp
<1>3. StreamInv(p)'
  BY DEF Inv, TypeOK, StreamInv, Reading
<1>4. \A q \in Procs \ {p} : Same(q)
  BY DEF Inv, TypeOK, Same
<1>5. Inv' /\ Ops' = [Ops EXCEPT ![p] = AbstractOp(p)']
  BY <1>1, <1>2, <1>3, <1>4, OneProcess DEF Inv
<1> QED
  BY <1>2, <1>5, Stutter

-----------------------------------------------------------------------------
(* Crashes.                                                                *)

LEMMA CrashStep ==
    ASSUME Separate, Inv, Crash
    PROVE  Inv' /\ Simulates
<1>1. /\ UNCHANGED <<sfile, copy, pc, req, src, stream>>
      /\ up' = FALSE
      /\ buf' = [p \in Procs |-> IF hpc[p] = "sending" THEN None ELSE buf[p]]
      /\ linked' = {p \in linked : req[p].kind = "Store"}
  BY DEF Crash
<1>2. \A p \in Procs :
        \/ hpc'[p] = hpc[p] /\ hpc[p] \in {"none", "failed", "done"}
        \/ hpc'[p] = "failed" /\ hpc[p] # "none"
  BY DEF Crash
<1>3. hpc' \in [Procs -> {"none", "call", "reading", "sending", "done", "failed"}]
  BY DEF Crash, Inv, TypeOK
<1>4. TypeOK'
  BY <1>1, <1>3 DEF Inv, TypeOK
<1>5. ASSUME NEW p \in Procs
      PROVE  RoleInv(p)' /\ StreamInv(p)' /\ AbstractOp(p)' \in {AbstractOp(p), Atomic!Idle}
  <2>1. RoleInv(p)'
    BY <1>1, <1>2 DEF Inv, RoleInv, Quiet
  <2>2. hpc[p] = "sending" => pc[p] \in {"idle", "fetch"}
    BY DEF Inv, RoleInv, Quiet
  <2>3. hpc'[p] # "sending" /\ hpc'[p] # "reading" /\ hpc'[p] # "call"
    BY <1>2
  <2>4. buf'[p] # None => buf'[p] = buf[p] /\ pc[p] = "store"
    BY <1>1 DEF Inv, StreamInv, Reading
  <2>5. p \in linked' => pc[p] = "store"
    BY <1>1, <2>2 DEF Inv, StreamInv, Reading, RoleInv, Quiet
  <2>6. Sent(p)' = Sent(p)
    BY <1>1 DEF Sent
  <2>7. NextBlock(p) => NextBlock(p)'
    BY <1>1, <2>4 DEF NextBlock
  <2>8. StreamInv(p)'
    BY <1>1, <1>2, <2>3, <2>4, <2>5, <2>6, <2>7 DEF Inv, StreamInv, Reading, Whole
  <2>9. pc[p] = "fetch" => hpc[p] # "reading"
    BY DEF Inv, RoleInv, Quiet
  <2>10. AbstractOp(p)' \in {AbstractOp(p), Atomic!Idle}
    BY <1>1, <2>3, <2>9 DEF AbstractOp, Atomic!Idle
  <2> QED
    BY <2>1, <2>8, <2>10
<1>6. Inv'
  BY <1>1, <1>4, <1>5 DEF Inv, Whole
<1>7. Atomic!GiveUp({p \in Procs : AbstractOp(p)' = Atomic!Idle})
  BY <1>1, <1>5 DEF Atomic!GiveUp, Atomic!Abandon
<1> QED
  BY <1>6, <1>7 DEF Simulates, Atomic!AtomicNext

LEMMA RestartStep ==
    ASSUME Separate, Inv, Restart
    PROVE  Inv' /\ Simulates
<1>1. UNCHANGED <<sfile, copy, pc, hpc, req, src, linked, buf, stream>> /\ up' = TRUE
  BY DEF Restart
<1>2. TypeOK'
  BY <1>1 DEF Inv, TypeOK
<1>3. \A q \in Procs : RoleInv(q)' /\ StreamInv(q)' /\ AbstractOp(q)' = AbstractOp(q)
  BY <1>1, Frame DEF Inv, Same
<1> QED
  BY <1>1, <1>2, <1>3 DEF Inv, Whole, Simulates, Atomic!absVars

LEMMA ClientCrashStep ==
    ASSUME Separate, Inv, NEW c \in Clients, ClientCrash(c)
    PROVE  Inv' /\ Simulates
<1> DEFINE lost == {p \in Procs : C(p) = c /\ pc[p] = "store"}
<1>1. /\ pc' = [p \in Procs |-> IF C(p) = c THEN "idle" ELSE pc[p]]
      /\ copy' = [copy EXCEPT ![c] = [f \in Files |-> None]]
      /\ buf' = [p \in Procs |-> IF p \in lost THEN None ELSE buf[p]]
      /\ linked' = linked \ lost
      /\ UNCHANGED <<up, sfile, hpc, req, src, stream>>
  BY DEF ClientCrash
<1>2. TypeOK'
  BY <1>1 DEF Inv, TypeOK
<1>3. ASSUME NEW p \in Procs
      PROVE  RoleInv(p)' /\ StreamInv(p)' /\ AbstractOp(p)' \in {AbstractOp(p), Atomic!Idle}
  <2>1. RoleInv(p)'
    BY <1>1 DEF Inv, RoleInv, Quiet
  <2>2. Sent(p)' = Sent(p)
    BY <1>1 DEF Sent
  <2>3. NextBlock(p) => NextBlock(p)'
    BY <1>1 DEF NextBlock
  <2>4. StreamInv(p)'
    BY <1>1, <2>2, <2>3 DEF Inv, StreamInv, Reading, Whole
  <2>5. AbstractOp(p)' \in {AbstractOp(p), Atomic!Idle}
    BY <1>1 DEF AbstractOp, Atomic!Idle
  <2> QED
    BY <2>1, <2>4, <2>5
<1>4. Inv'
  BY <1>1, <1>2, <1>3 DEF Inv, Whole
<1>5. Atomic!LoseClient(c, {p \in Procs : AbstractOp(p)' = Atomic!Idle})
  BY <1>1, <1>3 DEF Atomic!LoseClient, Atomic!Abandon
<1> QED
  BY <1>4, <1>5 DEF Simulates, Atomic!AtomicNext

-----------------------------------------------------------------------------
(* The theorem.                                                            *)

LEMMA InitInv == Init => Inv /\ Atomic!AtomicInit
<1> SUFFICES ASSUME Init PROVE Inv /\ Atomic!AtomicInit
  OBVIOUS
<1>1. EmptyFile \in Seq(Blocks) /\ EmptyFile \in Whole
  BY ContentFacts
<1>2. TypeOK
  BY <1>1, FilesAssumption DEF Init, TypeOK
<1>3. \A f \in Files : sfile[f] \in Whole \cup {None}
  BY <1>1 DEF Init
<1>4. \A p \in Procs : RoleInv(p) /\ StreamInv(p)
  BY DEF Init, RoleInv, StreamInv, Quiet, Reading
<1>5. Atomic!AtomicInit
  BY DEF Init, Atomic!AtomicInit, AbstractOp, Atomic!Idle
<1> QED
  BY <1>2, <1>3, <1>4, <1>5 DEF Inv

LEMMA NextStep ==
    ASSUME Separate, Inv, [Next]_vars
    PROVE  Inv' /\ Simulates
<1>1. CASE UNCHANGED vars
  <2>1. \A q \in Procs : RoleInv(q)' /\ StreamInv(q)' /\ AbstractOp(q)' = AbstractOp(q)
    BY <1>1, Frame DEF Inv, Same, vars
  <2>2. TypeOK'
    BY <1>1 DEF Inv, TypeOK, vars
  <2> QED
    BY <1>1, <2>1, <2>2 DEF Inv, Whole, Simulates, Atomic!absVars, vars
<1>2. ASSUME NEW p \in Procs, Step(p)
      PROVE  Inv' /\ Simulates
  BY <1>2, StartStoreStep, StartFetchStep, StartNameStep, FillBlockStep, StoreSendStep,
     FetchSendStep, StoreReadErrorStep, StoreEndStep, StoreAbortStep, StoreReturnStep,
     FetchOpenStep, FetchReadErrorStep, FetchReturnStep, NameFileStep, NameReturnStep,
     DiscardStep
  DEF Step
<1> QED
  BY <1>1, <1>2, CrashStep, RestartStep, ClientCrashStep DEF Next

\* Store and Fetch are atomic: for every number of clients, files and blocks,
\* with crashes and failures at any step, the block transfer implements
\* AtomicFiles.
THEOREM TransfersImplementAtomicFiles ==
    ASSUME Separate PROVE Spec => TransfersAreAtomic
<1>1. Init => Inv /\ Atomic!AtomicInit
  BY InitInv
<1>2. Inv /\ [Next]_vars => Inv' /\ [Atomic!AtomicNext]_(Atomic!absVars)
  BY NextStep DEF Simulates
<1> QED
  BY <1>1, <1>2, PTL DEF Spec, TransfersAreAtomic, Atomic!AtomicSpec
=============================================================================
