---------------------------- MODULE ErrInjProofs ----------------------------
(***************************************************************************)
(* Error injection for any number of threads and configurations: types and *)
(* the mutual exclusion of conf.mutex, and what follows from it for the    *)
(* list of injections and for operations on the configuration file.        *)
(***************************************************************************)
EXTENDS ErrInj, WellFoundedInduction, TLAPS

\* Lines and entries are counted from 1.
CursorInv ==
    \A p \in Procs :
        /\ pc[p] = "parse" => parser.next >= 1
        /\ pc[p] \in {"scan", "sleep"} => pos[p] >= 1

\* A list that is being read is not there for anybody else; one that could not be
\* read is empty.
LiveInv ==
    /\ ListInUse
    /\ \A p \in Procs : pc[p] = "parse" => ~live
    /\ ~live /\ list # <<>> => \E p \in Procs : pc[p] = "parse" /\ parser.next > 1

\* error_inject decides nothing about an operation on the configuration, and
\* nothing is decided between two operations.
EditInv ==
    \A p \in Procs :
        /\ path[p] = "conf" => rc[p] = "none" /\ pc[p] \notin {"scan", "sleep"}
        /\ pc[p] \in {"delete", "parse"} => path[p] = "conf"
        /\ pc[p] = "idle" => rc[p] = "none"

\* The entries behind a thread that must be triggered have been.
Certain(p, i) == list[i].prob >= MAX_PROBABILITY /\ Matches(p, list[i])

HitInv ==
    \A p \in Procs : path[p] # "conf" =>
        \A i \in DOMAIN list :
            Certain(p, i) /\ (pc[p] = "unlock" \/ (pc[p] \in {"scan", "sleep"} /\ i < pos[p]))
                => list[i].type \in hits[p]

-----------------------------------------------------------------------------
(* One line of the configuration.                                          *)

State == [entries : Seq(Entry), section : Words, prev : Words]

LEMMA OptionType ==
    ASSUME NEW entry \in Entry, NEW key, NEW value \in Value
    PROVE  Option(entry, key, value) \in Entry
<1>1. Unsigned(value.num) \in Int
  BY DEF Unsigned, Value, MAX_PROBABILITY
<1>2. value.match \in SUBSET Names
  BY DEF Value
<1>. QED
  BY <1>1, <1>2 DEF Option, Entry

LEMMA HandlerType ==
    ASSUME NEW entries \in Seq(Entry), NEW section, NEW key, NEW value \in Value
    PROVE  Handler(entries, section, key, value) \in Seq(Entry)
<1>. DEFINE known == {i \in DOMAIN entries : entries[i].type = section}
<1>1. CASE section \notin Types
  BY <1>1 DEF Handler
<1>2. CASE section \in Types /\ known = {}
  <2>1. NewEntry(section) \in Entry
    BY <1>2 DEF NewEntry, Entry
  <2>2. Option(NewEntry(section), key, value) \in Entry
    BY <2>1, OptionType
  <2>3. Append(entries, Option(NewEntry(section), key, value)) \in Seq(Entry)
    BY <2>2
  <2>. QED
    BY <1>2, <2>3 DEF Handler
<1>3. CASE section \in Types /\ known # {}
  <2>. DEFINE new == [i \in DOMAIN entries |->
                        IF i \in known THEN Option(entries[i], key, value) ELSE entries[i]]
  <2>1. \A i \in DOMAIN entries : entries[i] \in Entry
    OBVIOUS
  <2>2. \A i \in DOMAIN entries : Option(entries[i], key, value) \in Entry
    BY <2>1, OptionType
  <2>3. new \in [1 .. Len(entries) -> Entry]
    BY <2>1, <2>2
  <2>4. new \in Seq(Entry)
    BY <2>3
  <2>. QED
    BY <1>3, <2>4 DEF Handler
<1>. QED
  BY <1>1, <1>2, <1>3

LEMMA ParseLineType ==
    ASSUME NEW s \in State, NEW line \in Line
    PROVE  ParseLine(s, line) \in State
<1>1. /\ s.entries \in Seq(Entry) /\ s.section \in Words /\ s.prev \in Words
      /\ line.name \in Words /\ line.value \in Value /\ line.whole \in Value
  BY DEF State, Line
<1>2. /\ Handler(s.entries, s.section, s.prev, line.whole) \in Seq(Entry)
      /\ Handler(s.entries, s.section, line.name, line.value) \in Seq(Entry)
  BY <1>1, HandlerType
<1>3. "" \in Words
  BY DEF Words
<1>. QED
  BY <1>1, <1>2, <1>3 DEF ParseLine, State

-----------------------------------------------------------------------------
(* A whole file, line by line.                                             *)

LEMMA EmptyTyped == <<>> \in Seq(Entry) /\ "" \in Words
BY DEF Words

\* A set of numbers without a least element is empty: the form of induction that
\* the proofs of this module use.
LEMMA LeastOf ==
    ASSUME NEW S \in SUBSET Nat, S # {}
    PROVE  \E x \in S : \A y \in S : x <= y
<1>1. PICK x \in S : \A y \in S : ~(<<y, x>> \in OpToRel(<, Nat))
  BY WFMin, NatLessThanWellFounded
<1>2. \A y \in S : y < x => <<y, x>> \in OpToRel(<, Nat)
  BY DEF OpToRel
<1>3. \A y \in S : ~(y < x)
  BY <1>1, <1>2, Zenon
<1>. QED
  BY <1>3

\* The equation of a parser that reads n lines.
Reads(lines, n, f) ==
    f = [i \in 0 .. n |-> IF i = 0 THEN Begin ELSE ParseLine(f[i - 1], lines[i])]

LEMMA ReadsExists ==
    ASSUME NEW lines, NEW n \in Nat
    PROVE  \E f : Reads(lines, n, f)
<1>. DEFINE S == {m \in Nat : ~\E f : Reads(lines, m, f)}
<1>. SUFFICES ASSUME S # {} PROVE FALSE
  OBVIOUS
<1>1. PICK m \in S : \A y \in S : m <= y
  BY LeastOf
<1>. HIDE DEF S
<1>2. m \in Nat /\ ~\E f : Reads(lines, m, f)
  BY DEF S
<1>3. CASE m = 0
  <2>1. Reads(lines, 0, [i \in 0 .. 0 |-> Begin])
    BY DEF Reads
  <2>. QED
    BY <1>2, <1>3, <2>1
<1>4. CASE m # 0
  <2>1. m - 1 \in Nat /\ m - 1 \notin S
    BY <1>1, <1>2, <1>4
  <2>2. PICK f : Reads(lines, m - 1, f)
    BY <2>1 DEF S
  <2>. DEFINE g == [i \in 0 .. m |-> IF i = m THEN ParseLine(f[m - 1], lines[m]) ELSE f[i]]
  <2>3. \A i \in 0 .. m :
           g[i] = IF i = 0 THEN Begin ELSE ParseLine(g[i - 1], lines[i])
    <3>. TAKE i \in 0 .. m
    <3>1. CASE i = m
      BY <3>1, <1>4, <1>2
    <3>2. CASE i # m
      <4>1. i \in 0 .. m - 1 /\ (i # 0 => i - 1 \in 0 .. m - 1)
        BY <3>2, <1>2
      <4>2. f[i] = IF i = 0 THEN Begin ELSE ParseLine(f[i - 1], lines[i])
        BY <4>1, <2>2 DEF Reads
      <4>3. g[i] = f[i] /\ (i # 0 => g[i - 1] = f[i - 1])
        BY <3>2, <4>1, <1>2
      <4>. HIDE DEF g
      <4>. QED
        BY <4>2, <4>3
    <3>. QED
      BY <3>1, <3>2
  <2>4. g = [i \in 0 .. m |-> g[i]]
    OBVIOUS
  <2>. HIDE DEF g
  <2>5. Reads(lines, m, g)
    BY <2>3, <2>4 DEF Reads
  <2>. QED
    BY <1>2, <2>5
<1>. QED
  BY <1>3, <1>4

\* What Parsed is.
LEMMA ParsedDef ==
    ASSUME NEW S, NEW lines \in Seq(S)
    PROVE  /\ Parsed(lines)[0] = Begin
           /\ \A i \in 1 .. Len(lines) :
                Parsed(lines)[i] = ParseLine(Parsed(lines)[i - 1], lines[i])
<1>1. Len(lines) \in Nat
  OBVIOUS
<1>2. PICK f : Reads(lines, Len(lines), f)
  BY <1>1, ReadsExists
<1>3. Parsed(lines) = CHOOSE g : Reads(lines, Len(lines), g)
  BY DEF Parsed, Reads
<1>4. Reads(lines, Len(lines), Parsed(lines))
  BY <1>2, <1>3
<1>. QED
  BY <1>1, <1>4 DEF Reads

LEMMA ParsedType ==
    ASSUME NEW lines \in Seq(Line), NEW n \in 0 .. Len(lines)
    PROVE  Parsed(lines)[n] \in State
<1>. DEFINE S == {m \in 0 .. Len(lines) : Parsed(lines)[m] \notin State}
<1>. SUFFICES ASSUME S # {} PROVE FALSE
  OBVIOUS
<1>0. S \in SUBSET Nat
  OBVIOUS
<1>1. PICK m \in S : \A y \in S : m <= y
  BY <1>0, LeastOf
<1>2. m # 0
  <2>1. Begin \in State
    BY EmptyTyped DEF Begin, State
  <2>2. Parsed(lines)[0] = Begin
    BY ParsedDef
  <2>. QED
    BY <1>1, <2>1, <2>2
<1>3. Parsed(lines)[m - 1] \in State /\ lines[m] \in Line
  BY <1>1, <1>2
<1>4. Parsed(lines)[m] = ParseLine(Parsed(lines)[m - 1], lines[m])
  BY <1>2, ParsedDef
<1>. QED
  BY <1>3, <1>4, ParseLineType

LEMMA ParseType == ASSUME NEW lines \in Seq(Line) PROVE Parse(lines) \in Seq(Entry)
<1>1. Len(lines) \in 0 .. Len(lines)
  OBVIOUS
<1>. QED
  BY <1>1, ParsedType DEF Parse, State

-----------------------------------------------------------------------------
(* Type correctness and mutual exclusion.                                  *)

Inv == TypeOK /\ CursorInv /\ LiveInv /\ EditInv /\ HitInv

LEMMA InitInv == Init => Inv
<1>. SUFFICES ASSUME Init PROVE Inv
  OBVIOUS
<1>1. list \in Seq(Entry)
  <2>1. PICK lines \in Startup : list = Parse(lines)
    BY DEF Init
  <2>2. lines \in Seq(Line)
    BY LinesAssumption
  <2>. QED
    BY <2>1, <2>2, ParseType
<1>2. <<>> \in Seq(Lines) /\ Len(<<>>) <= MaxLines
  BY MaxLinesAssumption
<1>3. TypeOK
  <2>1. parser \in [next : Nat, section : Words, prev : Words]
    BY DEF Init, Words
  <2>2. owner \in Procs \cup {None} /\ \A p \in Procs : owner = p <=> pc[p] \in Holding
    BY NoneAssumption DEF Init, Holding
  <2>3. pc \in [Procs -> PCs] /\ op \in [Procs -> Ops \cup ConfOps] /\ rc \in [Procs -> Results]
    BY DEF Init, PCs, ConfOps, Results
  <2>. QED
    BY <1>1, <1>2, <2>1, <2>2, <2>3 DEF TypeOK, Init
<1>4. CursorInv /\ LiveInv /\ EditInv /\ HitInv
  BY DEF CursorInv, LiveInv, ListInUse, EditInv, HitInv, Init
<1>. QED
  BY <1>3, <1>4 DEF Inv

\* An operation begins.
LEMMA CallStep ==
    ASSUME Inv, NEW p \in Procs, NEW o \in Ops \cup ConfOps, NEW f \in Paths \cup {"conf"},
           Call(p, o, f)
    PROVE  Inv'
<1>. USE DEF Inv, Call, Step, confVars, listVars, scanVars
<1>1. TypeOK'
  BY DEF TypeOK, PCs, Holding
<1>2. LiveInv'
  BY DEF LiveInv, ListInUse, TypeOK
<1>3. CursorInv'
  BY DEF CursorInv, TypeOK
<1>4. EditInv'
  BY DEF EditInv, TypeOK
<1>5. HitInv'
  BY DEF HitInv, Certain, Matches, TypeOK
<1>. QED
  BY <1>1, <1>2, <1>3, <1>4, <1>5

\* The mutex: taken, kept and given back.
LEMMA LockStep ==
    ASSUME Inv, NEW p \in Procs, Lock(p)
    PROVE  Inv'
<1>1. PICK s \in {"delete", "scan", "unlock"} :
        /\ pc' = [pc EXCEPT ![p] = s]
        /\ s = "delete" <=> path[p] = "conf"
        /\ s = "scan" => live
        /\ s = "unlock" => ~live
  <2>1. Step(p, IF path[p] = "conf" THEN "delete" ELSE IF live THEN "scan" ELSE "unlock")
    BY DEF Lock
  <2>2. CASE path[p] = "conf"
    BY <2>1, <2>2 DEF Step
  <2>3. CASE path[p] # "conf" /\ live
    BY <2>1, <2>3 DEF Step
  <2>4. CASE path[p] # "conf" /\ ~live
    BY <2>1, <2>4 DEF Step
  <2>. QED
    BY <2>2, <2>3, <2>4
<1>2. /\ pc[p] = "lock" /\ owner = None /\ owner' = p /\ pos' = [pos EXCEPT ![p] = 1]
      /\ UNCHANGED <<file, session, edited, list, live, parser, op, path, rc, hits>>
  BY DEF Lock, confVars, listVars, callVars
<1>. USE <1>1, <1>2 DEF Inv
<1>3. TypeOK'
  BY NoneAssumption DEF TypeOK, PCs, Holding
<1>4. LiveInv'
  BY DEF LiveInv, ListInUse, TypeOK
<1>5. CursorInv'
  BY DEF CursorInv, TypeOK
<1>6. EditInv'
  BY DEF EditInv, TypeOK
<1>7. HitInv'
  <2>. SUFFICES ASSUME NEW q \in Procs, path'[q] # "conf", NEW i \in DOMAIN list',
                       Certain(q, i)',
                       pc'[q] = "unlock" \/ (pc'[q] \in {"scan", "sleep"} /\ i < pos'[q])
                PROVE  list'[i].type \in hits'[q]
    BY DEF HitInv
  <2>1. CASE q = p
    <3>1. pos'[q] = 1 /\ i \in Nat /\ i >= 1
      BY <2>1 DEF TypeOK
    <3>2. pc'[q] = "unlock" /\ s = "unlock"
      BY <2>1, <3>1 DEF TypeOK
    <3>3. \A r \in Procs : pc[r] # "parse"
      BY NoneAssumption DEF TypeOK, Holding
    <3>4. list = <<>>
      BY <3>2, <3>3 DEF LiveInv
    <3>. QED
      BY <3>4
  <2>2. CASE q # p
    BY <2>2 DEF HitInv, Certain, Matches, TypeOK
  <2>. QED
    BY <2>1, <2>2
<1>. QED
  BY <1>3, <1>4, <1>5, <1>6, <1>7

LEMMA UnlockStep ==
    ASSUME Inv, NEW p \in Procs, Unlock(p)
    PROVE  Inv'
<1>. USE DEF Inv, Unlock, Step, confVars, listVars, callVars, scanVars
<1>1. TypeOK'
  BY NoneAssumption DEF TypeOK, PCs, Holding
<1>2. LiveInv'
  BY DEF LiveInv, ListInUse, TypeOK
<1>3. CursorInv'
  BY DEF CursorInv, TypeOK
<1>4. EditInv'
  BY DEF EditInv, TypeOK
<1>5. HitInv'
  BY DEF HitInv, Certain, Matches, TypeOK
<1>. QED
  BY <1>1, <1>2, <1>3, <1>4, <1>5

\* The file is read.
LEMMA DeleteStep ==
    ASSUME Inv, NEW p \in Procs, Delete(p)
    PROVE  Inv'
<1>. USE DEF confVars, callVars, scanVars
<1>1. TypeOK'
  <2>1. list' \in Seq(Entry) /\ parser' \in [next : Nat, section : Words, prev : Words]
    BY EmptyTyped DEF Delete
  <2>. QED
    BY <2>1 DEF Inv, Delete, Step, TypeOK, PCs, Holding
<1>2. LiveInv'
  BY DEF Inv, Delete, Step, LiveInv, ListInUse, TypeOK, Holding
<1>3. CursorInv'
  <2>1. parser'.next >= 1
    <3>1. parser' = [next |-> 1, section |-> "", prev |-> ""]
      BY DEF Delete
    <3>2. parser'.next = 1
      BY <3>1
    <3>. QED
      BY <3>2
  <2>2. \A q \in Procs : pc'[q] \in {"scan", "sleep"} => pc[q] = pc'[q]
    BY DEF Inv, Delete, Step, TypeOK
  <2>3. \A q \in Procs : pc'[q] \in {"scan", "sleep"} => pos'[q] >= 1
    BY <2>2 DEF Inv, Delete, CursorInv
  <2>. QED
    BY <2>1, <2>3 DEF CursorInv
<1>4. EditInv'
  BY DEF Inv, Delete, Step, EditInv, TypeOK
<1>5. HitInv'
  <2>1. list' = <<>>
    BY DEF Delete
  <2>2. DOMAIN list' = {}
    BY <2>1
  <2>. QED
    BY <2>2 DEF HitInv
<1>. QED
  BY <1>1, <1>2, <1>3, <1>4, <1>5 DEF Inv

LEMMA ReadLineStep ==
    ASSUME Inv, NEW p \in Procs, ReadLine(p)
    PROVE  Inv'
<1>. USE DEF Inv, ReadLine, confVars, callVars, scanVars
<1>1. TypeOK'
  <2>. DEFINE s == [entries |-> list, section |-> parser.section, prev |-> parser.prev]
              line == file[parser.next]
              read == ParseLine(s, line)
  <2>1. parser.next \in Nat /\ parser.next >= 1
    BY DEF TypeOK, CursorInv
  <2>2. line \in Line
    BY <2>1, LinesAssumption DEF TypeOK
  <2>3. s \in State
    BY DEF State, TypeOK
  <2>4. read \in State
    BY <2>2, <2>3, ParseLineType
  <2>5. list' \in Seq(Entry) /\ parser' \in [next : Nat, section : Words, prev : Words]
    BY <2>1, <2>4 DEF State
  <2>. QED
    BY <2>5 DEF TypeOK
<1>2. LiveInv'
  <2>. DEFINE n == parser.next
  <2>1. n \in Nat /\ n >= 1
    BY DEF TypeOK, CursorInv
  <2>2. parser'.next = n + 1
    BY DEF Step
  <2>. HIDE DEF n
  <2>3. parser'.next > 1
    BY <2>1, <2>2
  <2>. QED
    BY <2>3 DEF LiveInv, ListInUse
<1>3. CursorInv'
  BY DEF CursorInv, TypeOK
<1>4. EditInv'
  BY DEF EditInv
<1>5. HitInv'
  BY DEF HitInv, EditInv, TypeOK, Holding
<1>. QED
  BY <1>1, <1>2, <1>3, <1>4, <1>5

LEMMA ReadEndStep ==
    ASSUME Inv, NEW p \in Procs, ReadEnd(p)
    PROVE  Inv'
<1>. USE DEF Inv, ReadEnd, Step, confVars, callVars, scanVars
<1>1. TypeOK'
  <2>1. parser' \in [next : Nat, section : Words, prev : Words]
    BY EmptyTyped
  <2>. QED
    BY <2>1 DEF TypeOK, PCs, Holding
<1>2. LiveInv'
  BY DEF LiveInv, ListInUse, TypeOK, Holding
<1>3. CursorInv'
  BY DEF CursorInv, TypeOK, Holding
<1>4. EditInv'
  BY DEF EditInv, TypeOK
<1>5. HitInv'
  BY DEF HitInv, Certain, Matches, EditInv, TypeOK
<1>. QED
  BY <1>1, <1>2, <1>3, <1>4, <1>5

LEMMA AtFirst == ASSUME NEW n, n = 1 PROVE ~(n > 1)
OBVIOUS

LEMMA ReadFailsStep ==
    ASSUME Inv, NEW p \in Procs, ReadFails(p)
    PROVE  Inv'
<1>. USE DEF Inv, ReadFails, Step, confVars, callVars, scanVars
<1>1. TypeOK'
  <2>1. parser' \in [next : Nat, section : Words, prev : Words]
    BY EmptyTyped
  <2>. QED
    BY <2>1 DEF TypeOK, PCs, Holding
<1>2. LiveInv'
  <2>1. \A q \in Procs \ {p} : pc[q] \notin Holding
    BY DEF TypeOK, Holding
  <2>2. ~live /\ list = <<>>
    <3>1. \A q \in Procs : pc[q] = "parse" => q = p
      BY <2>1 DEF Holding
    <3>2. ~(parser.next > 1)
      <4>1. parser.next = 1
        OBVIOUS
      <4>. QED
        BY <4>1, AtFirst
    <3>. QED
      BY <3>2 DEF LiveInv
  <2>3. \A q \in Procs : pc'[q] \notin {"parse", "scan", "sleep"}
    BY <2>1 DEF TypeOK, Holding
  <2>. QED
    BY <2>2, <2>3 DEF LiveInv, ListInUse
<1>3. CursorInv'
  BY DEF CursorInv, TypeOK, Holding
<1>4. EditInv'
  BY DEF EditInv, TypeOK
<1>5. HitInv'
  BY DEF HitInv, Certain, Matches, EditInv, TypeOK
<1>. QED
  BY <1>1, <1>2, <1>3, <1>4, <1>5

\* The list is walked through.
LEMMA VisitStep ==
    ASSUME Inv, NEW p \in Procs, Visit(p)
    PROVE  Inv'
<1>. USE DEF Inv
<1>. DEFINE e == list[pos[p]]
            out == Injected(e.type, op[p])
<1>1. PICK draw \in Draws :
        IF Triggers(draw, e) /\ Matches(p, e)
        THEN /\ hits' = [hits EXCEPT ![p] = @ \cup {e.type}]
             /\ \E r \in IF out = {} THEN {rc[p]} ELSE out : rc' = [rc EXCEPT ![p] = r]
             /\ Step(p, IF e.type = "slowdown" THEN "sleep" ELSE "scan")
        ELSE UNCHANGED <<pc, rc, hits>>
  BY DEF Visit
<1>2. pos[p] \in Nat /\ pos[p] >= 1 /\ e \in Entry
  BY DEF Visit, TypeOK, CursorInv
<1>3. out \subseteq Results /\ e.type \in Types
  BY <1>2 DEF Injected, Results, Entry
<1>4. /\ hits' \in [Procs -> SUBSET Types] /\ rc' \in [Procs -> Results]
      /\ pc' \in [Procs -> PCs] /\ pc'[p] \in {"scan", "sleep"}
      /\ \A q \in Procs \ {p} : pc'[q] = pc[q] /\ rc'[q] = rc[q]
  <2>1. CASE Triggers(draw, e) /\ Matches(p, e)
    <3>1. PICK r \in IF out = {} THEN {rc[p]} ELSE out : rc' = [rc EXCEPT ![p] = r]
      BY <1>1, <2>1
    <3>2. r \in Results
      BY <1>3, <3>1 DEF TypeOK
    <3>3. rc' \in [Procs -> Results] /\ \A q \in Procs \ {p} : rc'[q] = rc[q]
      BY <3>1, <3>2 DEF TypeOK
    <3>4. hits' = [hits EXCEPT ![p] = @ \cup {e.type}]
      BY <1>1, <2>1
    <3>5. hits' \in [Procs -> SUBSET Types]
      BY <3>4, <1>3 DEF TypeOK
    <3>6. pc' = [pc EXCEPT ![p] = IF e.type = "slowdown" THEN "sleep" ELSE "scan"]
      BY <1>1, <2>1 DEF Step
    <3>. QED
      BY <3>3, <3>5, <3>6 DEF TypeOK, PCs, Holding
  <2>2. CASE ~(Triggers(draw, e) /\ Matches(p, e))
    <3>1. UNCHANGED <<pc, rc, hits>>
      BY <1>1, <2>2
    <3>. QED
      BY <3>1 DEF Visit, TypeOK
  <2>. QED
    BY <2>1, <2>2
<1>5. TypeOK'
  <2>1. \A q \in Procs : owner' = q <=> pc'[q] \in Holding
    BY <1>4 DEF Visit, TypeOK, Holding
  <2>2. pos' \in [Procs -> Nat]
    BY <1>2 DEF Visit, TypeOK
  <2>. QED
    BY <1>4, <2>1, <2>2 DEF Visit, TypeOK, confVars, listVars, callVars
<1>6. LiveInv'
  BY <1>4 DEF LiveInv, ListInUse, Visit, TypeOK, listVars
<1>7. CursorInv'
  BY <1>2, <1>4 DEF CursorInv, Visit, TypeOK, listVars
<1>8. EditInv'
  BY <1>4 DEF EditInv, Visit, TypeOK, callVars
<1>9. HitInv'
  <2>1. UNCHANGED <<list, op, path>> /\ pos' = [pos EXCEPT ![p] = @ + 1] /\ pc[p] = "scan"
    BY DEF Visit, listVars, callVars
  <2>2. \A q \in Procs : hits[q] \subseteq hits'[q]
    <3>1. hits' = [hits EXCEPT ![p] = @ \cup {e.type}] \/ hits' = hits
      BY <1>1
    <3>. QED
      BY <3>1 DEF TypeOK
  <2>3. Certain(p, pos[p]) => e.type \in hits'[p]
    <3>. SUFFICES ASSUME Certain(p, pos[p]) PROVE e.type \in hits'[p]
      OBVIOUS
    <3>1. e.prob >= MAX_PROBABILITY /\ Matches(p, e)
      BY DEF Certain
    <3>2. draw \in Int /\ draw <= MAX_PROBABILITY /\ e.prob \in Int /\ MAX_PROBABILITY \in Int
      BY <1>2, DrawsAssumption DEF MIN_PROBABILITY, MAX_PROBABILITY, Entry
    <3>3. Triggers(draw, e)
      BY <3>1, <3>2 DEF Triggers
    <3>4. hits' = [hits EXCEPT ![p] = @ \cup {e.type}]
      BY <1>1, <3>1, <3>3
    <3>. QED
      BY <3>4 DEF TypeOK
  <2>. SUFFICES ASSUME NEW q \in Procs, path[q] # "conf", NEW i \in DOMAIN list,
                       Certain(q, i),
                       pc'[q] = "unlock" \/ (pc'[q] \in {"scan", "sleep"} /\ i < pos'[q])
                PROVE  list[i].type \in hits'[q]
    BY <2>1 DEF HitInv, Certain, Matches
  <2>4. CASE q = p /\ i = pos[p]
    BY <2>3, <2>4
  <2>5. CASE q = p /\ i # pos[p]
    <3>1. i \in Nat /\ i < pos[p]
      BY <1>2, <1>4, <2>1, <2>5 DEF TypeOK
    <3>. QED
      BY <3>1, <2>1, <2>2, <2>5 DEF HitInv
  <2>6. CASE q # p
    <3>1. pc'[q] = pc[q] /\ pos'[q] = pos[q]
      BY <1>4, <2>1, <2>6 DEF TypeOK
    <3>. QED
      BY <3>1, <2>2 DEF HitInv
  <2>. QED
    BY <2>4, <2>5, <2>6
<1>. QED
  BY <1>5, <1>6, <1>7, <1>8, <1>9

LEMMA WalkStep ==
    ASSUME Inv, NEW p \in Procs, Wake(p) \/ ScanEnd(p)
    PROVE  Inv'
<1>. USE DEF Inv, Wake, ScanEnd, Step, confVars, listVars, callVars, scanVars
<1>1. TypeOK'
  BY DEF TypeOK, PCs, Holding
<1>2. LiveInv'
  BY DEF LiveInv, ListInUse, TypeOK
<1>3. CursorInv'
  BY DEF CursorInv, TypeOK
<1>4. EditInv'
  BY DEF EditInv, TypeOK
<1>5. HitInv'
  BY DEF HitInv, Certain, Matches, TypeOK
<1>. QED
  BY <1>1, <1>2, <1>3, <1>4, <1>5

\* The operation is performed, or what stands in for it.
LEMMA PerformStep ==
    ASSUME Inv, NEW p \in Procs, Perform(p)
    PROVE  Inv'
<1>. USE DEF Inv, Perform, Return, Step, listVars
<1>1. session' \in [Procs -> {"closed", "open", "flushed"}]
  BY DEF TypeOK, Progress
<1>2. file' \in Seq(Lines) /\ Len(file') <= MaxLines /\ edited' \in BOOLEAN
  <2>1. CASE path[p] = "conf" /\ rc[p] = "none"
    <3>1. Edit(p)
      BY <2>1
    <3>2. CASE op[p] = "write" /\ Len(file) < MaxLines
      <4>1. PICK line \in Lines : file' = Append(file, line)
        BY <3>1, <3>2 DEF Edit
      <4>. QED
        BY <3>1, <4>1, <3>2, MaxLinesAssumption DEF TypeOK, Edit
    <3>3. CASE op[p] = "truncate"
      <4>1. file' = <<>>
        BY <3>1, <3>3 DEF Edit
      <4>. QED
        BY <3>1, <4>1, MaxLinesAssumption DEF TypeOK, Edit
    <3>4. CASE ~(op[p] = "write" /\ Len(file) < MaxLines) /\ op[p] # "truncate"
      <4>1. file' = file
        BY <3>1, <3>4 DEF Edit
      <4>. QED
        BY <3>1, <4>1 DEF TypeOK, Edit
    <3>. QED
      BY <3>2, <3>3, <3>4
  <2>2. CASE ~(path[p] = "conf" /\ rc[p] = "none")
    BY <2>2 DEF TypeOK
  <2>. QED
    BY <2>1, <2>2
<1>3. TypeOK'
  BY <1>1, <1>2 DEF TypeOK, PCs, Holding, ConfOps, Results
<1>4. LiveInv'
  BY DEF LiveInv, ListInUse, TypeOK
<1>5. CursorInv'
  BY DEF CursorInv, TypeOK
<1>6. EditInv'
  BY DEF EditInv, TypeOK
<1>7. HitInv'
  BY DEF HitInv, Certain, Matches, TypeOK
<1>. QED
  BY <1>3, <1>4, <1>5, <1>6, <1>7

LEMMA NextInv == Inv /\ [Next]_vars => Inv'
<1>. SUFFICES ASSUME Inv, [Next]_vars PROVE Inv'
  OBVIOUS
<1>1. CASE UNCHANGED vars
  BY <1>1 DEF Inv, TypeOK, CursorInv, LiveInv, ListInUse, EditInv, HitInv, Certain, Matches, vars
<1>2. ASSUME NEW p \in Procs, ConfCall(p) PROVE Inv'
  <2>1. PICK o \in ConfOps : Call(p, o, "conf")
    BY <1>2 DEF ConfCall, ConfOps
  <2>. QED
    BY <2>1, CallStep
<1>3. ASSUME NEW p \in Procs, FileCall(p) PROVE Inv'
  BY <1>3, CallStep DEF FileCall
<1>. QED
  BY <1>1, <1>2, <1>3, LockStep, UnlockStep, DeleteStep, ReadLineStep, ReadEndStep, ReadFailsStep,
     VisitStep, WalkStep, PerformStep DEF Next

THEOREM Invariance == Spec => []Inv
BY InitInv, NextInv, PTL DEF Spec

-----------------------------------------------------------------------------
\* Every variable keeps its type, and a thread is between the locking and the
\* unlocking of conf.mutex exactly if it is the owner.
THEOREM TypeCorrect == Spec => []TypeOK
BY Invariance, PTL DEF Inv

\* No thread walks through a list that another one is deleting or reading.
THEOREM ListIsInUse == Spec => []ListInUse
<1>1. Inv => ListInUse
  BY DEF Inv, LiveInv
<1>. QED
  BY <1>1, Invariance, PTL

\* An entry with a probability of 100 that matches an operation is triggered.
THEOREM CertainInjection == Spec => []CertainInjectionHappens
<1>1. Inv => CertainInjectionHappens
  BY DEF Inv, HitInv, Certain, CertainInjectionHappens
<1>. QED
  BY <1>1, Invariance, PTL

\* No configuration can prevent its own change through an open file.
THEOREM ConfigIsEditable == Spec => []ConfigCanBeEdited
<1>1. Inv => ConfigCanBeEdited
  BY DEF Inv, EditInv, ConfigCanBeEdited
<1>. QED
  BY <1>1, Invariance, PTL

-----------------------------------------------------------------------------
(* What a file means.                                                      *)

\* The entries of a type, and the options up to a line.
Made(entries, t) == {i \in DOMAIN entries : entries[i].type = t}

OptionsTo(lines, t, n) == {i \in OptionsOf(lines, t) : i <= n}
ProbabilitiesTo(lines, t, n) == {i \in ProbabilitiesOf(lines, t) : i <= n}

\* A probability is that of the last of these lines.
IsLast(lines, probs, x) ==
    IF probs = {} THEN x = 0
    ELSE \E i \in probs : (\A k \in probs : k <= i) /\ x = Unsigned(TextOf(lines, i).num)

EntryMeans(lines, t, n, entries) ==
    /\ Made(entries, t) = {} <=> OptionsTo(lines, t, n) = {}
    /\ \A i, j \in Made(entries, t) : i = j
    /\ \A i \in Made(entries, t) : IsLast(lines, ProbabilitiesTo(lines, t, n), entries[i].prob)

\* What the state of the parser says of the lines that it has read.
Means(lines, n, s) ==
    /\ s.prev # "" <=> UnderOption(lines, n)
    /\ s.prev # "" => \A key : Under(lines, n, "pair", key) <=> key = s.prev
    /\ \A t \in Types : Under(lines, n, "section", t) <=> s.section = t
    /\ \A t \in Types : EntryMeans(lines, t, n, s.entries)

LEMMA UnderStep ==
    ASSUME NEW lines, NEW n \in Nat \ {0}, NEW kind, NEW name
    PROVE  Under(lines, n, kind, name) <=>
             IF Starts(lines, n, kind) THEN lines[n].name = name
             ELSE Under(lines, n - 1, kind, name)
<1>. DEFINE At(j, m) == /\ Starts(lines, j, kind) /\ lines[j].name = name
                        /\ \A k \in j + 1 .. m : ~Starts(lines, k, kind)
<1>1. \A j \in 1 .. n - 1 : At(j, n) <=> At(j, n - 1) /\ ~Starts(lines, n, kind)
  <2>. TAKE j \in 1 .. n - 1
  <2>1. j + 1 .. n = (j + 1 .. n - 1) \cup {n}
    OBVIOUS
  <2>. QED
    BY <2>1
<1>2. At(n, n) <=> Starts(lines, n, kind) /\ lines[n].name = name
  OBVIOUS
<1>3. 1 .. n = (1 .. n - 1) \cup {n}
  OBVIOUS
<1>4. \A m \in {n - 1, n} : Under(lines, m, kind, name) <=> \E j \in 1 .. m : At(j, m)
  BY DEF Under
<1>. HIDE DEF At
<1>. QED
  BY <1>1, <1>2, <1>3, <1>4

LEMMA UnderOptionStep ==
    ASSUME NEW lines, NEW n \in Nat \ {0}
    PROVE  UnderOption(lines, n) <=>
             Opens(lines[n]) \/ (UnderOption(lines, n - 1) /\ ~Closes(lines[n]))
<1>. DEFINE At(j, m) == Opens(lines[j]) /\ \A k \in j + 1 .. m : ~Closes(lines[k])
<1>1. \A j \in 1 .. n - 1 : At(j, n) <=> At(j, n - 1) /\ ~Closes(lines[n])
  <2>. TAKE j \in 1 .. n - 1
  <2>1. j + 1 .. n = (j + 1 .. n - 1) \cup {n}
    OBVIOUS
  <2>. QED
    BY <2>1
<1>2. At(n, n) <=> Opens(lines[n])
  OBVIOUS
<1>3. 1 .. n = (1 .. n - 1) \cup {n}
  OBVIOUS
<1>4. \A m \in {n - 1, n} : UnderOption(lines, m) <=> \E j \in 1 .. m : At(j, m)
  BY DEF UnderOption
<1>. HIDE DEF At
<1>. QED
  BY <1>1, <1>2, <1>3, <1>4

\* The handler leaves the other types alone.
LEMMA HandlerOthers ==
    ASSUME NEW entries \in Seq(Entry), NEW section, NEW key, NEW value \in Value,
           NEW t \in Types, t # section
    PROVE  /\ Made(Handler(entries, section, key, value), t) = Made(entries, t)
           /\ \A i \in Made(entries, t) : Handler(entries, section, key, value)[i] = entries[i]
<1>. DEFINE known == {i \in DOMAIN entries : entries[i].type = section}
            new == Handler(entries, section, key, value)
<1>1. CASE section \notin Types
  BY <1>1 DEF Handler
<1>2. CASE section \in Types /\ known = {}
  <2>. DEFINE e == Option(NewEntry(section), key, value)
  <2>1. new = Append(entries, e)
    BY <1>2 DEF Handler
  <2>2. e.type = section
    BY DEF Option, NewEntry
  <2>3. /\ DOMAIN new = DOMAIN entries \cup {Len(entries) + 1}
        /\ new[Len(entries) + 1] = e
        /\ \A i \in DOMAIN entries : new[i] = entries[i]
    BY <2>1
  <2>. HIDE DEF e, new
  <2>. QED
    BY <2>2, <2>3 DEF Made, new
<1>3. CASE section \in Types /\ known # {}
  <2>1. new = [i \in DOMAIN entries |->
                 IF i \in known THEN Option(entries[i], key, value) ELSE entries[i]]
    BY <1>3 DEF Handler
  <2>2. \A i \in known : Option(entries[i], key, value).type = section
    <3>. TAKE i \in known
    <3>1. entries[i] \in Entry /\ entries[i].type = section
      OBVIOUS
    <3>. QED
      BY <3>1 DEF Option, Entry
  <2>. HIDE DEF new
  <2>. QED
    BY <2>1, <2>2 DEF Made, new
<1>. QED
  BY <1>1, <1>2, <1>3

\* The handler makes one entry of the section, and gives it the value.
LEMMA HandlerOwn ==
    ASSUME NEW entries \in Seq(Entry), NEW t \in Types, NEW key, NEW value \in Value,
           \A i, j \in Made(entries, t) : i = j
    PROVE  /\ Made(Handler(entries, t, key, value), t) # {}
           /\ \A i, j \in Made(Handler(entries, t, key, value), t) : i = j
           /\ \A i \in Made(Handler(entries, t, key, value), t) :
                /\ Made(entries, t) # {} => i \in Made(entries, t)
                /\ Handler(entries, t, key, value)[i].prob =
                     IF key = "probability" THEN Unsigned(value.num)
                     ELSE IF i \in Made(entries, t) THEN entries[i].prob ELSE 0
<1>. DEFINE known == Made(entries, t)
            new == Handler(entries, t, key, value)
<1>1. CASE known = {}
  <2>. DEFINE e == Option(NewEntry(t), key, value)
  <2>1. new = Append(entries, e)
    BY <1>1 DEF Handler, Made
  <2>2. e.type = t /\ e.prob = IF key = "probability" THEN Unsigned(value.num) ELSE 0
    BY DEF Option, NewEntry
  <2>3. /\ DOMAIN new = DOMAIN entries \cup {Len(entries) + 1}
        /\ new[Len(entries) + 1] = e
        /\ \A i \in DOMAIN entries : new[i] = entries[i]
    BY <2>1
  <2>. HIDE DEF e, new
  <2>4. Made(new, t) = {Len(entries) + 1}
    BY <2>2, <2>3, <1>1 DEF Made
  <2>. QED
    BY <2>2, <2>3, <2>4, <1>1 DEF new
<1>2. CASE known # {}
  <2>1. new = [i \in DOMAIN entries |->
                 IF i \in known THEN Option(entries[i], key, value) ELSE entries[i]]
    BY <1>2 DEF Handler, Made
  <2>2. \A i \in known :
          /\ Option(entries[i], key, value).type = t
          /\ Option(entries[i], key, value).prob =
               IF key = "probability" THEN Unsigned(value.num) ELSE entries[i].prob
    <3>. TAKE i \in known
    <3>1. entries[i] \in Entry /\ entries[i].type = t
      BY DEF Made
    <3>. QED
      BY <3>1 DEF Option, Entry
  <2>3. known \subseteq DOMAIN entries
    BY DEF Made
  <2>. HIDE DEF new
  <2>4. Made(new, t) = known
    BY <2>1, <2>2, <2>3 DEF Made
  <2>. QED
    BY <2>1, <2>2, <2>3, <2>4, <1>2 DEF new
<1>. QED
  BY <1>1, <1>2

\* The sets of options grow only by a line that is one.
LEMMA OptionsStep ==
    ASSUME NEW lines \in Seq(Line), NEW n \in 1 .. Len(lines), NEW t \in Types
    PROVE  /\ n \notin OptionsOf(lines, t) => OptionsTo(lines, t, n) = OptionsTo(lines, t, n - 1)
           /\ n \notin ProbabilitiesOf(lines, t) =>
                ProbabilitiesTo(lines, t, n) = ProbabilitiesTo(lines, t, n - 1)
<1>1. OptionsOf(lines, t) \subseteq Nat /\ ProbabilitiesOf(lines, t) \subseteq Nat
  BY DEF OptionsOf, ProbabilitiesOf
<1>. QED
  BY <1>1 DEF OptionsTo, ProbabilitiesTo

\* A line that is no option of a type leaves the meaning of its entry.
LEMMA OtherLine ==
    ASSUME NEW lines \in Seq(Line), NEW n \in 1 .. Len(lines), NEW t \in Types,
           NEW old, NEW new, EntryMeans(lines, t, n - 1, old),
           n \notin OptionsOf(lines, t),
           Made(new, t) = Made(old, t), \A i \in Made(old, t) : new[i] = old[i]
    PROVE  EntryMeans(lines, t, n, new)
<1>1. n \notin ProbabilitiesOf(lines, t)
  BY DEF ProbabilitiesOf
<1>2. /\ OptionsTo(lines, t, n) = OptionsTo(lines, t, n - 1)
      /\ ProbabilitiesTo(lines, t, n) = ProbabilitiesTo(lines, t, n - 1)
  BY <1>1, OptionsStep
<1>. QED
  BY <1>2 DEF EntryMeans

\* A line that is an option.
LEMMA OptionLine ==
    ASSUME NEW lines \in Seq(Line), NEW n \in 1 .. Len(lines), NEW entries \in Seq(Entry),
           NEW section, NEW key,
           \A t \in Types : EntryMeans(lines, t, n - 1, entries),
           lines[n].kind = "pair" \/ Continues(lines, n),
           \A t \in Types : Under(lines, n, "section", t) <=> section = t,
           Under(lines, n, "pair", "probability") <=> key = "probability"
    PROVE  \A t \in Types :
             EntryMeans(lines, t, n, Handler(entries, section, key, TextOf(lines, n)))
<1>. DEFINE value == TextOf(lines, n)
            new == Handler(entries, section, key, value)
<1>. TAKE t \in Types
<1>1. value \in Value
  <2>1. lines[n] \in Line
    OBVIOUS
  <2>. QED
    BY <2>1 DEF TextOf, Line
<1>2. n \in OptionsOf(lines, t) <=> section = t
  BY DEF OptionsOf
<1>. HIDE DEF value
<1>3. CASE section # t
  <2>1. /\ Made(new, t) = Made(entries, t)
        /\ \A i \in Made(entries, t) : new[i] = entries[i]
    BY <1>1, <1>3, HandlerOthers
  <2>2. n \notin OptionsOf(lines, t) /\ EntryMeans(lines, t, n - 1, entries)
    BY <1>2, <1>3
  <2>. HIDE DEF new
  <2>3. EntryMeans(lines, t, n, new)
    BY <2>1, <2>2, OtherLine
  <2>. QED
    BY <2>3 DEF new, value
<1>4. CASE section = t
  <2>1. /\ \A i, j \in Made(entries, t) : i = j
        /\ \A i \in Made(entries, t) :
             IsLast(lines, ProbabilitiesTo(lines, t, n - 1), entries[i].prob)
        /\ Made(entries, t) = {} <=> OptionsTo(lines, t, n - 1) = {}
    BY DEF EntryMeans
  <2>2. /\ Made(new, t) # {}
        /\ \A i, j \in Made(new, t) : i = j
        /\ \A i \in Made(new, t) :
             /\ Made(entries, t) # {} => i \in Made(entries, t)
             /\ new[i].prob = IF key = "probability" THEN Unsigned(value.num)
                              ELSE IF i \in Made(entries, t) THEN entries[i].prob ELSE 0
    BY <1>1, <1>4, <2>1, HandlerOwn
  <2>3. n \in OptionsTo(lines, t, n)
    BY <1>2, <1>4 DEF OptionsTo
  <2>4. n \in ProbabilitiesOf(lines, t) <=> key = "probability"
    BY <1>2, <1>4 DEF ProbabilitiesOf
  <2>5. ASSUME NEW i \in Made(new, t)
        PROVE  IsLast(lines, ProbabilitiesTo(lines, t, n), new[i].prob)
    <3>1. CASE key = "probability"
      <4>1. n \in ProbabilitiesTo(lines, t, n)
        BY <2>4, <3>1 DEF ProbabilitiesTo
      <4>2. \A k \in ProbabilitiesTo(lines, t, n) : k <= n
        BY DEF ProbabilitiesTo
      <4>3. new[i].prob = Unsigned(value.num)
        BY <2>2, <2>5, <3>1
      <4>. QED
        BY <4>1, <4>2, <4>3 DEF IsLast, value
    <3>2. CASE key # "probability"
      <4>1. ProbabilitiesTo(lines, t, n) = ProbabilitiesTo(lines, t, n - 1)
        BY <2>4, <3>2, OptionsStep
      <4>2. CASE Made(entries, t) = {}
        <5>1. OptionsTo(lines, t, n - 1) = {}
          BY <2>1, <4>2
        <5>2. ProbabilitiesTo(lines, t, n) = {}
          BY <4>1, <5>1 DEF ProbabilitiesTo, ProbabilitiesOf, OptionsTo
        <5>3. new[i].prob = 0
          BY <2>2, <2>5, <3>2, <4>2
        <5>. QED
          BY <5>2, <5>3 DEF IsLast
      <4>3. CASE Made(entries, t) # {}
        <5>1. i \in Made(entries, t) /\ new[i].prob = entries[i].prob
          BY <2>2, <2>5, <3>2, <4>3
        <5>. QED
          BY <5>1, <4>1, <2>1
      <4>. QED
        BY <4>2, <4>3
    <3>. QED
      BY <3>1, <3>2
  <2>. HIDE DEF new
  <2>6. EntryMeans(lines, t, n, new)
    BY <2>2, <2>3, <2>5 DEF EntryMeans
  <2>. QED
    BY <2>6 DEF new, value
<1>. QED
  BY <1>3, <1>4

LEMMA BeginMeans == ASSUME NEW lines \in Seq(Line) PROVE Means(lines, 0, Begin)
<1>1. ~UnderOption(lines, 0) /\ \A t \in Types : ~Under(lines, 0, "section", t)
  BY DEF UnderOption, Under
<1>2. \A t \in Types : OptionsTo(lines, t, 0) = {} /\ Made(<<>>, t) = {}
  BY DEF OptionsTo, OptionsOf, Made
<1>3. "" \notin Types
  BY DEF Types
<1>. QED
  BY <1>1, <1>2, <1>3 DEF Means, EntryMeans, Begin

\* One line keeps the meaning.
LEMMA LineMeans ==
    ASSUME NEW lines \in Seq(Line), NEW n \in 1 .. Len(lines), NEW s \in State,
           Means(lines, n - 1, s)
    PROVE  Means(lines, n, ParseLine(s, lines[n]))
<1>. DEFINE line == lines[n]
            r == ParseLine(s, line)
<1>1. /\ line \in Line /\ n \in Nat \ {0} /\ s.entries \in Seq(Entry)
      /\ s.section \in Words /\ s.prev \in Words
  BY DEF State
<1>2. /\ line.indent \in BOOLEAN /\ line.kind \in {"section", "pair", "text", "blank"}
      /\ line.name \in Words
  BY <1>1 DEF Line
<1>3. /\ s.prev # "" <=> UnderOption(lines, n - 1)
      /\ s.prev # "" => \A key : Under(lines, n - 1, "pair", key) <=> key = s.prev
      /\ \A t \in Types : Under(lines, n - 1, "section", t) <=> s.section = t
      /\ \A t \in Types : EntryMeans(lines, t, n - 1, s.entries)
  BY DEF Means
<1>4. Continues(lines, n) <=> line.indent /\ line.kind # "blank" /\ s.prev # ""
  BY <1>3 DEF Continues
<1>5. \A kind, name : Under(lines, n, kind, name) <=>
        IF Starts(lines, n, kind) THEN line.name = name ELSE Under(lines, n - 1, kind, name)
  BY <1>1, UnderStep
<1>6. UnderOption(lines, n) <=> Opens(line) \/ (UnderOption(lines, n - 1) /\ ~Closes(line))
  BY <1>1, UnderOptionStep
<1>7. \A kind : Starts(lines, n, kind) <=> line.kind = kind /\ ~Continues(lines, n)
  BY DEF Starts
<1>8. (line.kind # "pair" /\ ~Continues(lines, n)) =>
        \A t \in Types : EntryMeans(lines, t, n, s.entries)
  <2>. SUFFICES ASSUME line.kind # "pair", ~Continues(lines, n), NEW t \in Types
                PROVE  EntryMeans(lines, t, n, s.entries)
    OBVIOUS
  <2>1. n \notin OptionsOf(lines, t)
    BY DEF OptionsOf
  <2>. QED
    BY <1>3, <2>1, OtherLine
<1>. HIDE DEF line
<1>9. CASE Continues(lines, n)
  <2>1. r = [s EXCEPT !.entries = Handler(s.entries, s.section, s.prev, line.whole)]
    BY <1>4, <1>9 DEF ParseLine
  <2>2. TextOf(lines, n) = line.whole
    BY <1>9 DEF TextOf, line
  <2>3. \A kind, name : Under(lines, n, kind, name) <=> Under(lines, n - 1, kind, name)
    BY <1>5, <1>7, <1>9
  <2>4. \A t \in Types :
          EntryMeans(lines, t, n, Handler(s.entries, s.section, s.prev, line.whole))
    BY <1>1, <1>3, <1>4, <1>9, <2>2, <2>3, OptionLine
  <2>5. UnderOption(lines, n) /\ s.prev # ""
    BY <1>3, <1>4, <1>6, <1>9 DEF Closes
  <2>6. /\ r.prev = s.prev /\ r.section = s.section
        /\ r.entries = Handler(s.entries, s.section, s.prev, line.whole)
    BY <2>1 DEF State
  <2>. HIDE DEF r
  <2>7. Means(lines, n, r)
    BY <1>3, <2>3, <2>4, <2>5, <2>6 DEF Means
  <2>. QED
    BY <2>7 DEF r, line
<1>10. CASE line.kind = "blank"
  <2>1. r = s
    BY <1>10 DEF ParseLine
  <2>2. \A kind \in {"pair", "section"} : \A name :
            Under(lines, n, kind, name) <=> Under(lines, n - 1, kind, name)
    BY <1>5, <1>7, <1>10
  <2>3. UnderOption(lines, n) <=> UnderOption(lines, n - 1)
    BY <1>6, <1>10 DEF Opens, Closes
  <2>4. \A t \in Types : EntryMeans(lines, t, n, s.entries)
    BY <1>4, <1>8, <1>10
  <2>5. Means(lines, n, s)
    BY <1>3, <2>2, <2>3, <2>4 DEF Means
  <2>. QED
    BY <2>1, <2>5 DEF line
<1>11. CASE line.kind = "section" /\ ~Continues(lines, n)
  <2>1. r = [s EXCEPT !.section = line.name, !.prev = ""]
    BY <1>4, <1>11 DEF ParseLine
  <2>2. r.section = line.name /\ r.prev = "" /\ r.entries = s.entries
    BY <2>1 DEF State
  <2>3. \A t \in Types : Under(lines, n, "section", t) <=> line.name = t
    BY <1>5, <1>7, <1>11
  <2>4. ~UnderOption(lines, n)
    BY <1>2, <1>3, <1>4, <1>6, <1>11 DEF Opens, Closes
  <2>5. \A t \in Types : EntryMeans(lines, t, n, s.entries)
    BY <1>8, <1>11
  <2>. HIDE DEF r
  <2>6. Means(lines, n, r)
    BY <2>2, <2>3, <2>4, <2>5 DEF Means
  <2>. QED
    BY <2>6 DEF r, line
<1>12. CASE line.kind = "pair" /\ ~Continues(lines, n)
  <2>1. r = [s EXCEPT !.prev = line.name,
                      !.entries = Handler(s.entries, s.section, line.name, line.value)]
    BY <1>4, <1>12 DEF ParseLine
  <2>2. /\ r.section = s.section /\ r.prev = line.name
        /\ r.entries = Handler(s.entries, s.section, line.name, line.value)
    BY <2>1 DEF State
  <2>3. \A t \in Types : Under(lines, n, "section", t) <=> s.section = t
    <3>1. ~Starts(lines, n, "section")
      BY <1>7, <1>12
    <3>. QED
      BY <1>3, <1>5, <3>1
  <2>4. \A key : Under(lines, n, "pair", key) <=> key = line.name
    BY <1>5, <1>7, <1>12
  <2>5. UnderOption(lines, n) <=> line.name # ""
    BY <1>2, <1>3, <1>4, <1>6, <1>12 DEF Opens, Closes
  <2>6. TextOf(lines, n) = line.value
    BY <1>12 DEF TextOf, line
  <2>7. \A t \in Types :
          EntryMeans(lines, t, n, Handler(s.entries, s.section, line.name, line.value))
    <3>1. lines[n].kind = "pair"
      BY <1>12 DEF line
    <3>. QED
      BY <1>1, <1>3, <2>3, <2>4, <2>6, <3>1, OptionLine
  <2>. HIDE DEF r
  <2>8. Means(lines, n, r)
    BY <2>2, <2>3, <2>4, <2>5, <2>7 DEF Means
  <2>. QED
    BY <2>8 DEF r, line
<1>13. CASE line.kind = "text" /\ ~Continues(lines, n)
  <2>1. r = s
    BY <1>4, <1>13 DEF ParseLine
  <2>2. \A kind \in {"pair", "section"} : \A name :
            Under(lines, n, kind, name) <=> Under(lines, n - 1, kind, name)
    BY <1>5, <1>7, <1>13
  <2>3. UnderOption(lines, n) <=> UnderOption(lines, n - 1)
    BY <1>6, <1>13 DEF Opens, Closes
  <2>4. Means(lines, n, s)
    BY <1>3, <1>8, <1>13, <2>2, <2>3 DEF Means
  <2>. QED
    BY <2>1, <2>4 DEF line
<1>. QED
  BY <1>2, <1>9, <1>10, <1>11, <1>12, <1>13

LEMMA ParsedMeans ==
    ASSUME NEW lines \in Seq(Line), NEW n \in 0 .. Len(lines)
    PROVE  Means(lines, n, Parsed(lines)[n])
<1>. DEFINE S == {m \in 0 .. Len(lines) : ~Means(lines, m, Parsed(lines)[m])}
<1>. SUFFICES ASSUME S # {} PROVE FALSE
  OBVIOUS
<1>0. S \in SUBSET Nat
  OBVIOUS
<1>1. PICK m \in S : \A y \in S : m <= y
  BY <1>0, LeastOf
<1>2. m # 0
  BY BeginMeans, ParsedDef
<1>3. m - 1 \in 0 .. Len(lines) /\ m - 1 \notin S /\ m \in 1 .. Len(lines)
  BY <1>1, <1>2
<1>4. Means(lines, m - 1, Parsed(lines)[m - 1]) /\ Parsed(lines)[m - 1] \in State
  BY <1>3, ParsedType
<1>5. Parsed(lines)[m] = ParseLine(Parsed(lines)[m - 1], lines[m])
  BY <1>3, ParsedDef
<1>. QED
  BY <1>3, <1>4, <1>5, LineMeans

\* What LastWins says of one file.
LEMMA LastOfFile ==
    ASSUME NEW lines \in Seq(Line), NEW t \in Types
    PROVE  /\ OptionsOf(lines, t) = {} <=> {e \in Range(Parse(lines)) : e.type = t} = {}
           /\ \A d, e \in {e \in Range(Parse(lines)) : e.type = t} : d = e
           /\ \A e \in {e \in Range(Parse(lines)) : e.type = t} :
                IsLast(lines, ProbabilitiesOf(lines, t), e.prob)
<1>1. Len(lines) \in Nat
  OBVIOUS
<1>2. EntryMeans(lines, t, Len(lines), Parse(lines))
  <2>1. Len(lines) \in 0 .. Len(lines)
    BY <1>1
  <2>2. Means(lines, Len(lines), Parsed(lines)[Len(lines)])
    BY <2>1, ParsedMeans
  <2>. QED
    BY <2>2 DEF Means, Parse
<1>3. /\ OptionsTo(lines, t, Len(lines)) = OptionsOf(lines, t)
      /\ ProbabilitiesTo(lines, t, Len(lines)) = ProbabilitiesOf(lines, t)
  BY <1>1 DEF OptionsTo, ProbabilitiesTo, OptionsOf, ProbabilitiesOf
<1>4. {e \in Range(Parse(lines)) : e.type = t} = {Parse(lines)[i] : i \in Made(Parse(lines), t)}
  BY DEF Range, Made
<1>. QED
  BY <1>2, <1>3, <1>4 DEF EntryMeans

\* Of the lines about a probability the last one counts, in every configuration.
THEOREM LastLineWins == Spec => []LastWins
<1>1. Inv => LastWins
  <2>. SUFFICES ASSUME Inv PROVE LastWins
    OBVIOUS
  <2>1. file \in Seq(Line)
    BY LinesAssumption DEF Inv, TypeOK
  <2>. QED
    BY <2>1, LastOfFile DEF LastWins, IsLast
<1>. QED
  BY <1>1, Invariance, PTL

-----------------------------------------------------------------------------
(* The list in force.                                                      *)

\* How far a session is with the calls of its kernel.
SessionInv ==
    \A p \in Procs :
        /\ session[p] # "closed" => edited
        /\ pc[p] # "idle" /\ path[p] = "conf" =>
              \/ op[p] = "open" /\ session[p] = "closed"
              \/ op[p] \in {"write", "truncate", "flush"} /\ session[p] = "open"
              \/ op[p] = "release" /\ session[p] = "flushed"

\* A thread that has the file open and has not begun to read it for the flush.
Pending(p) ==
    /\ session[p] = "open"
    /\ ~(pc[p] \in {"parse", "unlock", "call"} /\ path[p] = "conf" /\ op[p] = "flush")

Current == (live => list = Parse(file)) /\ \A p \in Procs : pc[p] # "parse"

\* The lines that have been read are those that the file has now.
Reading ==
    /\ \E p \in Procs : pc[p] = "parse"
    /\ parser.next - 1 \in 0 .. Len(file)
    /\ [entries |-> list, section |-> parser.section, prev |-> parser.prev]
            = Parsed(file)[parser.next - 1]

\* The list is that of the file, or will be at the end of a reading that has
\* begun or is still due.
ForceInv == edited => Current \/ Reading \/ \E p \in Procs : Pending(p)

ReadInv == SessionInv /\ ForceInv

LEMMA InitRead == Init => ReadInv
BY DEF Init, ReadInv, SessionInv, ForceInv

\* A step that changes neither the file nor the list, nor who reads it.
LEMMA ForceFrame ==
    ASSUME Inv, ReadInv, NEW p \in Procs,
           UNCHANGED <<file, session, edited, list, live, parser>>,
           \A q \in Procs \ {p} : pc'[q] = pc[q] /\ op'[q] = op[q] /\ path'[q] = path[q],
           pc[p] # "parse", pc'[p] # "parse",
           Pending(p) => Pending(p)'
    PROVE  ForceInv'
<1>1. Current => Current'
  BY DEF Current
<1>2. Reading => Reading'
  BY DEF Reading
<1>3. \A q \in Procs : Pending(q) => Pending(q)'
  BY DEF Pending
<1>. QED
  BY <1>1, <1>2, <1>3 DEF ReadInv, ForceInv

LEMMA CallRead ==
    ASSUME Inv, ReadInv, NEW p \in Procs, ConfCall(p) \/ FileCall(p)
    PROVE  ReadInv'
<1>1. PICK o, f : /\ Call(p, o, f)
                  /\ f = "conf" =>
                       \/ o = "open" /\ session[p] = "closed"
                       \/ o \in {"write", "truncate", "flush"} /\ session[p] = "open"
                       \/ o = "release" /\ session[p] = "flushed"
  <2>1. CASE ConfCall(p)
    BY <2>1 DEF ConfCall
  <2>2. CASE FileCall(p)
    BY <2>2, PathsAssumption DEF FileCall
  <2>. QED
    BY <2>1, <2>2
<1>2. /\ pc' = [pc EXCEPT ![p] = "lock"] /\ op' = [op EXCEPT ![p] = o]
      /\ path' = [path EXCEPT ![p] = f]
      /\ UNCHANGED <<file, session, edited, list, live, parser>> /\ pc[p] = "idle"
  BY <1>1 DEF Call, Step, confVars, listVars
<1>3. SessionInv'
  BY <1>1, <1>2 DEF Inv, TypeOK, ReadInv, SessionInv
<1>4. ForceInv'
  <2>1. /\ pc[p] # "parse" /\ pc'[p] # "parse" /\ Pending(p) => Pending(p)'
        /\ \A q \in Procs \ {p} : pc'[q] = pc[q] /\ op'[q] = op[q] /\ path'[q] = path[q]
    BY <1>2 DEF Inv, TypeOK, Pending
  <2>. QED
    BY <1>2, <2>1, ForceFrame
<1>. QED
  BY <1>3, <1>4 DEF ReadInv

\* Every step of a thread inside error_inject but the reading of the file.
LEMMA WalkRead ==
    ASSUME Inv, ReadInv, NEW p \in Procs,
           Lock(p) \/ Visit(p) \/ Wake(p) \/ ScanEnd(p) \/ Unlock(p)
    PROVE  ReadInv'
<1>1. UNCHANGED <<file, session, edited, list, live, parser, op, path>>
  BY DEF Lock, Visit, Wake, ScanEnd, Unlock, confVars, listVars, callVars
<1>2. /\ pc[p] \in {"lock", "scan", "sleep", "unlock"}
      /\ pc'[p] \in {"delete", "scan", "sleep", "unlock", "call"}
      /\ pc[p] # "unlock" => pc'[p] # "call" 
      /\ pc[p] = "lock" /\ path[p] = "conf" => pc'[p] # "unlock"
      /\ pc[p] \in {"scan", "sleep"} => path[p] # "conf"
      /\ \A q \in Procs \ {p} : pc'[q] = pc[q]
  <2>1. CASE Visit(p)
    <3>1. \/ \E s \in {"sleep", "scan"} : pc' = [pc EXCEPT ![p] = s]
          \/ pc' = pc
      BY <2>1 DEF Visit, Step
    <3>. QED
      BY <2>1, <3>1 DEF Inv, TypeOK, EditInv, Visit
  <2>2. CASE Lock(p) \/ Wake(p) \/ ScanEnd(p) \/ Unlock(p)
    BY <2>2 DEF Lock, Wake, ScanEnd, Unlock, Step, Inv, TypeOK, EditInv
  <2>. QED
    BY <2>1, <2>2
<1>3. SessionInv'
  BY <1>1, <1>2 DEF ReadInv, SessionInv
<1>4. ForceInv'
  <2>1. Pending(p) => Pending(p)'
    BY <1>1, <1>2 DEF Pending
  <2>. QED
    BY <1>1, <1>2, <2>1, ForceFrame
<1>. QED
  BY <1>3, <1>4 DEF ReadInv

LEMMA DeleteRead ==
    ASSUME Inv, ReadInv, NEW p \in Procs, Delete(p)
    PROVE  ReadInv'
<1>1. /\ UNCHANGED <<file, session, edited, op, path>>
      /\ pc[p] = "delete" /\ pc' = [pc EXCEPT ![p] = "parse"]
  BY DEF Delete, Step, confVars, callVars
<1>2. SessionInv'
  BY <1>1 DEF Inv, TypeOK, ReadInv, SessionInv
<1>3. Reading'
  <2>1. pc'[p] = "parse"
    BY <1>1 DEF Inv, TypeOK
  <2>2. parser' = [next |-> 1, section |-> "", prev |-> ""] /\ list' = <<>>
    BY DEF Delete
  <2>3. parser'.next = 1 /\ parser'.section = "" /\ parser'.prev = ""
    BY <2>2
  <2>4. file \in Seq(Lines) /\ Len(file) \in Nat
    BY DEF Inv, TypeOK
  <2>5. Parsed(file)[0] = Begin
    BY <2>4, ParsedDef
  <2>6. parser'.next - 1 = 0
    <3>. DEFINE n == parser'.next
    <3>1. n = 1
      BY <2>3
    <3>. HIDE DEF n
    <3>2. n - 1 = 0
      BY <3>1
    <3>. QED
      BY <3>2 DEF n
  <2>7. 0 \in 0 .. Len(file)
    BY <2>4
  <2>. QED
    BY <1>1, <2>1, <2>2, <2>3, <2>5, <2>6, <2>7 DEF Reading, Begin
<1>. QED
  BY <1>2, <1>3 DEF ReadInv, ForceInv

LEMMA ReadLineRead ==
    ASSUME Inv, ReadInv, NEW p \in Procs, ReadLine(p)
    PROVE  ReadInv'
<1>1. /\ UNCHANGED <<file, session, edited, op, path, pc>>
      /\ pc[p] = "parse" /\ parser.next <= Len(file)
  BY DEF ReadLine, confVars, callVars
<1>2. SessionInv'
  BY <1>1 DEF ReadInv, SessionInv
<1>3. ~Current
  BY <1>1 DEF Current
<1>4. \A q \in Procs : Pending(q) => Pending(q)'
  BY <1>1 DEF Pending
<1>5. ASSUME Reading PROVE Reading'
  <2>. DEFINE s == [entries |-> list, section |-> parser.section, prev |-> parser.prev]
              n == parser.next
              read == ParseLine(s, file[n])
  <2>1. n \in Nat /\ n >= 1 /\ Len(file) \in Nat /\ file \in Seq(Lines)
    BY <1>1 DEF Inv, TypeOK, CursorInv
  <2>2. s = Parsed(file)[n - 1]
    BY <1>5 DEF Reading
  <2>3. n \in 1 .. Len(file)
    BY <1>1, <2>1
  <2>4. Parsed(file)[n] = read
    BY <2>1, <2>2, <2>3, ParsedDef
  <2>5. s \in State
    BY DEF Inv, TypeOK, State
  <2>6. read \in State
    <3>1. file[n] \in Line
      BY <2>1, <2>3, LinesAssumption
    <3>. QED
      BY <2>5, <3>1, ParseLineType
  <2>7. /\ list' = read.entries
        /\ parser' = [next |-> n + 1, section |-> read.section, prev |-> read.prev]
    BY DEF ReadLine
  <2>. HIDE DEF read
  <2>8. parser'.next = n + 1 /\ parser'.section = read.section /\ parser'.prev = read.prev
    BY <2>7
  <2>9. [entries |-> list', section |-> parser'.section, prev |-> parser'.prev] = read
    BY <2>6, <2>7, <2>8 DEF State
  <2>10. parser'.next - 1 = n
    BY <2>1, <2>8
  <2>. QED
    BY <1>1, <2>1, <2>3, <2>4, <2>9, <2>10 DEF Reading
<1>6. ForceInv'
  BY <1>1, <1>3, <1>4, <1>5 DEF ReadInv, ForceInv
<1>. QED
  BY <1>2, <1>6 DEF ReadInv

LEMMA ReadEndRead ==
    ASSUME Inv, ReadInv, NEW p \in Procs, ReadEnd(p)
    PROVE  ReadInv'
<1>1. /\ UNCHANGED <<file, session, edited, list, op, path>>
      /\ pc[p] = "parse" /\ parser.next > Len(file) /\ pc' = [pc EXCEPT ![p] = "unlock"]
  BY DEF ReadEnd, Step, confVars, callVars
<1>2. SessionInv'
  BY <1>1 DEF Inv, TypeOK, ReadInv, SessionInv
<1>3. ~Current
  BY <1>1 DEF Current
<1>4. \A q \in Procs : Pending(q) => Pending(q)'
  BY <1>1 DEF Inv, TypeOK, Pending
<1>5. ASSUME Reading PROVE Current'
  <2>1. \A q \in Procs : pc'[q] # "parse"
    BY <1>1 DEF Inv, TypeOK, Holding
  <2>2. parser.next \in Nat /\ Len(file) \in Nat
    BY DEF Inv, TypeOK
  <2>3. parser.next - 1 = Len(file)
    BY <1>1, <1>5, <2>2 DEF Reading
  <2>4. list = Parsed(file)[Len(file)].entries
    BY <1>5, <2>3 DEF Reading
  <2>. QED
    BY <1>1, <2>1, <2>4 DEF Current, Parse
<1>6. ForceInv'
  BY <1>1, <1>3, <1>4, <1>5 DEF ReadInv, ForceInv
<1>. QED
  BY <1>2, <1>6 DEF ReadInv

\* After a reading that fails there is no list.
LEMMA ReadFailsRead ==
    ASSUME Inv, ReadInv, NEW p \in Procs, ReadFails(p)
    PROVE  ReadInv'
<1>1. /\ UNCHANGED <<file, session, edited, list, live, op, path>>
      /\ pc[p] = "parse" /\ pc' = [pc EXCEPT ![p] = "unlock"]
  BY DEF ReadFails, Step, confVars, callVars
<1>2. SessionInv'
  BY <1>1 DEF Inv, TypeOK, ReadInv, SessionInv
<1>3. Current'
  <2>1. \A q \in Procs : pc'[q] # "parse"
    BY <1>1 DEF Inv, TypeOK, Holding
  <2>2. ~live'
    BY <1>1 DEF Inv, LiveInv
  <2>. QED
    BY <2>1, <2>2 DEF Current
<1>. QED
  BY <1>2, <1>3 DEF ReadInv, ForceInv

LEMMA PerformRead ==
    ASSUME Inv, ReadInv, NEW p \in Procs, Perform(p)
    PROVE  ReadInv'
<1>1. /\ pc[p] = "call" /\ pc' = [pc EXCEPT ![p] = "idle"]
      /\ op' = [op EXCEPT ![p] = "flush"] /\ path' = [path EXCEPT ![p] = "conf"]
      /\ UNCHANGED <<list, live, parser>>
  BY DEF Perform, Return, Step, listVars
<1>2. CASE path[p] # "conf"
  <2>1. UNCHANGED <<file, session, edited>>
    BY <1>2 DEF Perform
  <2>2. SessionInv'
    BY <1>1, <2>1 DEF Inv, TypeOK, ReadInv, SessionInv
  <2>3. /\ pc[p] # "parse" /\ pc'[p] # "parse" /\ Pending(p) => Pending(p)'
        /\ \A q \in Procs \ {p} : pc'[q] = pc[q] /\ op'[q] = op[q] /\ path'[q] = path[q]
    BY <1>1, <2>1 DEF Inv, TypeOK, Pending
  <2>. QED
    BY <1>1, <2>1, <2>2, <2>3, ForceFrame DEF ReadInv
<1>3. CASE path[p] = "conf"
  <2>1. Edit(p) /\ Progress(p)
    BY <1>3 DEF Perform, Inv, EditInv
  <2>2. edited'
    BY <2>1 DEF Edit
  <2>3. /\ \A q \in Procs \ {p} : /\ session'[q] = session[q] /\ pc'[q] = pc[q]
                                  /\ op'[q] = op[q] /\ path'[q] = path[q]
        /\ pc'[p] = "idle"
    BY <1>1, <2>1 DEF Progress, Inv, TypeOK
  <2>4. SessionInv'
    BY <2>2, <2>3 DEF ReadInv, SessionInv
  <2>5. CASE op[p] \in {"open", "write", "truncate"}
    <3>1. session'[p] = "open"
      BY <1>1, <1>3, <2>1, <2>5 DEF Progress, Inv, TypeOK, ReadInv, SessionInv
    <3>2. Pending(p)'
      BY <2>3, <3>1 DEF Pending
    <3>. QED
      BY <2>4, <3>2 DEF ReadInv, ForceInv
  <2>6. CASE op[p] \in {"flush", "release"}
    <3>1. edited /\ ~Pending(p)
      BY <1>1, <1>3, <2>6 DEF Pending, ReadInv, SessionInv
    <3>2. file' = file
      BY <2>1, <2>6 DEF Edit
    <3>3. \A q \in Procs : Pending(q) => Pending(q)'
      BY <2>3, <3>1 DEF Pending
    <3>4. Current => Current'
      BY <1>1, <2>3, <3>2 DEF Current
    <3>5. Reading => Reading'
      BY <1>1, <2>3, <3>2 DEF Reading
    <3>. QED
      BY <2>4, <3>1, <3>3, <3>4, <3>5 DEF ReadInv, ForceInv
  <2>. QED
    BY <1>1, <1>3, <2>5, <2>6 DEF ReadInv, SessionInv
<1>. QED
  BY <1>2, <1>3

LEMMA NextRead == Inv /\ ReadInv /\ [Next]_vars => ReadInv'
<1>. SUFFICES ASSUME Inv, ReadInv, [Next]_vars PROVE ReadInv'
  OBVIOUS
<1>1. CASE UNCHANGED vars
  BY <1>1 DEF ReadInv, SessionInv, ForceInv, Current, Reading, Pending, vars
<1>2. CASE Next
  BY <1>2, CallRead, WalkRead, DeleteRead, ReadLineRead, ReadEndRead, ReadFailsRead, PerformRead DEF Next
<1>. QED
  BY <1>1, <1>2

\* When every session on the configuration file is over, the list in force is
\* that of the file.
THEOREM ConfigIsInForce == Spec => []ConfigInForce
<1>1. Inv /\ ReadInv => ConfigInForce
  BY DEF Inv, EditInv, ReadInv, ForceInv, Reading, Pending, Current, ConfigInForce, NobodyEdits
<1>. QED
  BY <1>1, Invariance, InitRead, NextRead, PTL DEF Spec

=============================================================================
