------------------------------- MODULE ErrInj -------------------------------
(***************************************************************************)
(* Error injection: error_inject of unreliablefs_errinj.c, which every     *)
(* FUSE operation calls first, the list of injections it walks through,    *)
(* and the reading of that list from the configuration file, which lies in *)
(* the mounted file system itself (conf.c).                                *)
(***************************************************************************)
EXTENDS Integers, Sequences, Functions

CONSTANTS
    Procs,    \* threads of libfuse
    Ops,      \* operations, by their names in fuse_op_name
    Paths,    \* files other than the configuration
    Lines,    \* lines that a configuration may have
    Startup,  \* configurations that the program may find when it starts
    Draws,    \* results of rand_range(MIN_PROBABLITY, MAX_PROBABLITY)
    MaxLines, \* bound: the disk is full with a configuration of that many lines
    None

ConfOps == {"open", "write", "truncate", "flush", "release"}
Names == Ops \cup ConfOps \cup Paths \cup {"conf"}

MIN_PROBABILITY == 0
MAX_PROBABILITY == 100
Types == {"errno", "kill_caller", "noop", "slowdown", "delay", "reorder"}
Keys == {"path_regexp", "op_regexp", "probability", "duration"}

\* A value is a text: what atoi makes of it, and the names and paths that it
\* matches as a regular expression.
Value == [num : Int, match : SUBSET Names]

\* Names of sections and options; the others mean nothing.
Words == Types \cup Keys \cup {"", "unknown"}

\* A line of the file: "[name]", "name = value", anything else; indented or not.
\* "whole" is the line itself, taken as a value.
Line == [indent : BOOLEAN, kind : {"section", "pair", "text", "blank"},
         name : Words, value : Value, whole : Value]

ASSUME LinesAssumption == Lines \subseteq Line /\ Startup \subseteq Seq(Line)
ASSUME DrawsAssumption == Draws \subseteq MIN_PROBABILITY .. MAX_PROBABILITY
ASSUME MaxLinesAssumption == MaxLines \in Nat
ASSUME NoneAssumption == None \notin Procs
ASSUME PathsAssumption == "conf" \notin Paths

VARIABLES
    file,     \* the cached configuration file: a sequence of lines
    session,  \* process -> how far it is with the file: "closed", "open", "flushed"
    edited,   \* has an operation on the file come to its end?
    list,     \* conf.errors
    live,     \* is it allocated? (not while it is read, nor after a failed reading)
    owner,    \* who holds conf.mutex
    parser,   \* ini_parse: the next line, the section, the previous name
    pc, op, path, pos, rc,  \* per thread: its operation and its error_inject
    hits      \* per thread: the injections triggered

vars == <<file, session, edited, list, live, owner, parser, pc, op, path, pos,
          rc, hits>>

Entry == [type : Types, prob : Int, ops : SUBSET Names, paths : SUBSET Names]
Holding == {"delete", "parse", "scan", "sleep", "unlock"}
PCs == {"idle", "lock", "call"} \cup Holding
Results == {"none", "noop", "errno", "delay", "reorder"}

-----------------------------------------------------------------------------
(* ini_parse_stream and conf_option_handler, one line at a time.           *)

\* An entry without a regular expression matches everything.
NewEntry(t) == [type |-> t, prob |-> 0, ops |-> Names, paths |-> Names]

\* probability is an unsigned int: a negative number becomes a large one.
Unsigned(n) == IF n < 0 THEN MAX_PROBABILITY + 1 ELSE n

Option(entry, key, value) ==
    CASE key = "probability" -> [entry EXCEPT !.prob = Unsigned(value.num)]
      [] key = "op_regexp" -> [entry EXCEPT !.ops = value.match]
      [] key = "path_regexp" -> [entry EXCEPT !.paths = value.match]
      [] OTHER -> entry

\* Mutant: every option line makes an entry of its own.
HandlerAppends(entries, section, key, value) ==
    IF section \notin Types THEN entries
    ELSE Append(entries, Option(NewEntry(section), key, value))

\* conf_option_handler: one entry per type, in the order of their first options.
Handler(entries, section, key, value) ==
    LET known == {i \in DOMAIN entries : entries[i].type = section}
    IN  IF section \notin Types THEN entries
        ELSE IF known = {} THEN Append(entries, Option(NewEntry(section), key, value))
        ELSE [i \in DOMAIN entries |->
                IF i \in known THEN Option(entries[i], key, value) ELSE entries[i]]

Begin == [entries |-> <<>>, section |-> "", prev |-> ""]

\* An indented line after an option continues it: the handler is called again
\* for that option, with the whole line as its value.
ParseLine(s, line) ==
    IF line.kind = "blank" THEN s
    ELSE IF line.indent /\ s.prev # ""
         THEN [s EXCEPT !.entries = Handler(s.entries, s.section, s.prev, line.whole)]
    ELSE IF line.kind = "section" THEN [s EXCEPT !.section = line.name, !.prev = ""]
    ELSE IF line.kind = "pair"
         THEN [s EXCEPT !.prev = line.name,
                        !.entries = Handler(s.entries, s.section, line.name, line.value)]
    ELSE s

\* The state after each line.
Parsed(lines) ==
    LET after[n \in 0 .. Len(lines)] ==
            IF n = 0 THEN Begin ELSE ParseLine(after[n - 1], lines[n])
    IN  after

Parse(lines) == Parsed(lines)[Len(lines)].entries

-----------------------------------------------------------------------------
TypeOK ==
    /\ file \in Seq(Lines) /\ Len(file) <= MaxLines
    /\ session \in [Procs -> {"closed", "open", "flushed"}]
    /\ edited \in BOOLEAN /\ live \in BOOLEAN
    /\ list \in Seq(Entry)
    /\ owner \in Procs \cup {None}
    /\ \A p \in Procs : owner = p <=> pc[p] \in Holding
    /\ parser \in [next : Nat, section : Words, prev : Words]
    /\ pc \in [Procs -> PCs]
    /\ op \in [Procs -> Ops \cup ConfOps]
    /\ path \in [Procs -> Paths \cup {"conf"}]
    /\ pos \in [Procs -> Nat]
    /\ rc \in [Procs -> Results]
    /\ hits \in [Procs -> SUBSET Types]

\* main reads the configuration; afs_fuse_setup then empties the directory that
\* holds it.
Init ==
    /\ file = <<>>
    /\ session = [p \in Procs |-> "closed"]
    /\ edited = FALSE /\ live = TRUE
    /\ \E lines \in Startup : list = Parse(lines)
    /\ owner = None
    /\ parser = [next |-> 0, section |-> "", prev |-> ""]
    /\ pc = [p \in Procs |-> "idle"]
    /\ op = [p \in Procs |-> "flush"]
    /\ path = [p \in Procs |-> "conf"]
    /\ pos = [p \in Procs |-> 0]
    /\ rc = [p \in Procs |-> "none"]
    /\ hits = [p \in Procs |-> {}]

confVars == <<file, session, edited>>
listVars == <<list, live, parser>>
callVars == <<op, path>>
scanVars == <<pos, rc, hits>>

Step(p, s) == pc' = [pc EXCEPT ![p] = s]

Call(p, o, f) ==
    /\ pc[p] = "idle"
    /\ op' = [op EXCEPT ![p] = o]
    /\ path' = [path EXCEPT ![p] = f]
    /\ Step(p, "lock")
    /\ UNCHANGED <<confVars, listVars, owner, scanVars>>

\* What the kernel asks for when a process edits the configuration: open, any
\* number of changes, a flush when it closes the file, and a release.
ConfCall(p) ==
    \/ session[p] = "closed" /\ Call(p, "open", "conf")
    \/ session[p] = "open" /\ \E o \in {"write", "truncate", "flush"} : Call(p, o, "conf")
    \/ session[p] = "flushed" /\ Call(p, "release", "conf")

FileCall(p) == \E o \in Ops, f \in Paths : Call(p, o, f)

-----------------------------------------------------------------------------
(* error_inject.                                                           *)

\* Mutant: the file is read when it is opened, not at every operation.
LockOnOpen(p) ==
    /\ pc[p] = "lock" /\ owner = None
    /\ owner' = p
    /\ pos' = [pos EXCEPT ![p] = 1]
    /\ Step(p, CASE path[p] # "conf" /\ live -> "scan"
                 [] path[p] = "conf" /\ op[p] = "open" -> "delete"
                 [] OTHER -> "unlock")
    /\ UNCHANGED <<confVars, listVars, callVars, rc, hits>>

\* Mutant: reading the file again does not wait for the mutex.
LockUnlessConf(p) ==
    /\ pc[p] = "lock" /\ (owner = None \/ path[p] = "conf")
    /\ owner' = p
    /\ pos' = [pos EXCEPT ![p] = 1]
    /\ Step(p, IF path[p] = "conf" THEN "delete" ELSE IF live THEN "scan" ELSE "unlock")
    /\ UNCHANGED <<confVars, listVars, callVars, rc, hits>>

Lock(p) ==
    /\ pc[p] = "lock" /\ owner = None
    /\ owner' = p
    /\ pos' = [pos EXCEPT ![p] = 1]
    /\ Step(p, IF path[p] = "conf" THEN "delete" ELSE IF live THEN "scan" ELSE "unlock")
    /\ UNCHANGED <<confVars, listVars, callVars, rc, hits>>

\* config_delete.
Delete(p) ==
    /\ pc[p] = "delete"
    /\ live' = FALSE /\ list' = <<>>
    /\ parser' = [next |-> 1, section |-> "", prev |-> ""]
    /\ Step(p, "parse")
    /\ UNCHANGED <<confVars, owner, callVars, scanVars>>

\* config_init: the file is read line by line while another thread, which has
\* left error_inject, may be writing to it.
ReadLine(p) ==
    /\ pc[p] = "parse" /\ parser.next <= Len(file)
    /\ LET s == ParseLine([entries |-> list, section |-> parser.section,
                           prev |-> parser.prev], file[parser.next])
       IN  /\ list' = s.entries
           /\ parser' = [next |-> parser.next + 1, section |-> s.section, prev |-> s.prev]
    /\ UNCHANGED <<confVars, live, owner, pc, callVars, scanVars>>

\* Mutant: after reading the file, an operation on it is treated as any other.
ReadEndScans(p) ==
    /\ pc[p] = "parse" /\ parser.next > Len(file)
    /\ live' = TRUE
    /\ parser' = [next |-> 0, section |-> "", prev |-> ""]
    /\ Step(p, "scan")
    /\ UNCHANGED <<confVars, list, owner, callVars, scanVars>>

ReadEnd(p) ==
    /\ pc[p] = "parse" /\ parser.next > Len(file)
    /\ live' = TRUE
    /\ parser' = [next |-> 0, section |-> "", prev |-> ""]
    /\ Step(p, "unlock")
    /\ UNCHANGED <<confVars, list, owner, callVars, scanVars>>

\* There is no memory for the list, or the file cannot be opened (access needs no
\* descriptor, ini_parse does): config_init returns NULL, and no operation is
\* injected into until one on the file reads it again.
ReadFails(p) ==
    /\ pc[p] = "parse" /\ parser.next = 1
    /\ parser' = [next |-> 0, section |-> "", prev |-> ""]
    /\ Step(p, "unlock")
    /\ UNCHANGED <<confVars, list, live, owner, callVars, scanVars>>

Matches(p, e) == op[p] \in e.ops /\ path[p] \in e.paths

\* The result of an injection that is triggered: a random errno may be the word
\* behind the end of its array (RANDOM_ELEMENT), perhaps 0.
Injected(t, o) ==
    CASE t = "noop" -> {"noop"}
      [] t = "errno" -> {"errno", "none"}
      [] t \in {"delay", "reorder"} /\ o = "write" -> {t}
      [] OTHER -> {}

\* Mutant: strictly less.
TriggersBelow(draw, e) == draw < e.prob

Triggers(draw, e) == draw <= e.prob

\* One entry of the list; a slowdown sleeps with the mutex held.
Visit(p) ==
    /\ pc[p] = "scan" /\ pos[p] <= Len(list)
    /\ LET e == list[pos[p]]
           out == Injected(e.type, op[p])
       IN  \E draw \in Draws :
            IF Triggers(draw, e) /\ Matches(p, e)
            THEN /\ hits' = [hits EXCEPT ![p] = @ \cup {e.type}]
                 /\ \E r \in IF out = {} THEN {rc[p]} ELSE out : rc' = [rc EXCEPT ![p] = r]
                 /\ Step(p, IF e.type = "slowdown" THEN "sleep" ELSE "scan")
            ELSE UNCHANGED <<pc, rc, hits>>
    /\ pos' = [pos EXCEPT ![p] = @ + 1]
    /\ UNCHANGED <<confVars, listVars, owner, callVars>>

\* Mutant: a sleep that fails (EINVAL, from a second on) is tried again.
WakeNever(p) == pc[p] = "sleep" /\ UNCHANGED vars

Wake(p) ==
    /\ pc[p] = "sleep"
    /\ Step(p, "scan")
    /\ UNCHANGED <<confVars, listVars, owner, callVars, scanVars>>

\* Mutant: the end of the list is a return that leaves the mutex locked.
ScanEndReturns(p) ==
    /\ pc[p] = "scan" /\ pos[p] > Len(list)
    /\ Step(p, "call")
    /\ UNCHANGED <<confVars, listVars, owner, callVars, scanVars>>

ScanEnd(p) ==
    /\ pc[p] = "scan" /\ pos[p] > Len(list)
    /\ Step(p, "unlock")
    /\ UNCHANGED <<confVars, listVars, owner, callVars, scanVars>>

Unlock(p) ==
    /\ pc[p] = "unlock"
    /\ owner' = None
    /\ Step(p, "call")
    /\ UNCHANGED <<confVars, listVars, callVars, scanVars>>

-----------------------------------------------------------------------------
\* The operation returns to the kernel.
Return(p) ==
    /\ Step(p, "idle")
    /\ pos' = [pos EXCEPT ![p] = 0]
    /\ rc' = [rc EXCEPT ![p] = "none"]
    /\ hits' = [hits EXCEPT ![p] = {}]
    /\ op' = [op EXCEPT ![p] = "flush"]
    /\ path' = [path EXCEPT ![p] = "conf"]
    /\ UNCHANGED <<listVars, owner>>

\* What the operation does to the configuration file (at the bound, the disk is
\* full), and how far the kernel is with it.
Edit(p) ==
    /\ CASE op[p] = "write" /\ Len(file) < MaxLines ->
                \E line \in Lines : file' = Append(file, line)
         [] op[p] = "truncate" -> file' = <<>>
         [] OTHER -> UNCHANGED file
    /\ edited' = TRUE

Progress(p) ==
    session' = [session EXCEPT ![p] = CASE op[p] = "open" -> "open"
                                        [] op[p] = "flush" -> "flushed"
                                        [] op[p] = "release" -> "closed"
                                        [] OTHER -> @]

\* The wrapper: an injection stands in for the operation, or it is performed.
Perform(p) ==
    /\ pc[p] = "call"
    /\ IF path[p] = "conf" THEN Progress(p) ELSE UNCHANGED session
    /\ IF path[p] = "conf" /\ rc[p] = "none" THEN Edit(p) ELSE UNCHANGED <<file, edited>>
    /\ Return(p)

Next ==
    \E p \in Procs :
        \/ ConfCall(p) \/ FileCall(p)
        \/ Lock(p) \/ Delete(p) \/ ReadLine(p) \/ ReadEnd(p) \/ ReadFails(p)
        \/ Visit(p) \/ Wake(p) \/ ScanEnd(p) \/ Unlock(p) \/ Perform(p)

\* A thread that holds the mutex runs on; nobody is obliged to call.
Inside(p) ==
    \/ Delete(p) \/ ReadLine(p) \/ ReadEnd(p) \/ ReadFails(p)
    \/ Visit(p) \/ Wake(p) \/ ScanEnd(p) \/ Unlock(p)

Spec == Init /\ [][Next]_vars /\ \A p \in Procs : WF_vars(Inside(p))

-----------------------------------------------------------------------------
(* Properties.                                                             *)

NobodyEdits ==
    \A p \in Procs : session[p] = "closed" /\ (pc[p] # "idle" => path[p] # "conf")

\* When every session on the configuration file is over, the list in force is
\* that of the file, or there is none, its last reading having failed: each operation on the file reads it before it changes it
\* ("read configuration file on change"), and the flush and the release of a
\* session come after its changes.
ConfigInForce ==
    edited /\ NobodyEdits /\ live => list = Parse(file)

\* No thread walks through a list that another one is deleting or reading.
ListInUse ==
    \A p \in Procs : pc[p] \in {"scan", "sleep"} => live

\* "Probability equal to 100 means that error injection will happen on each
\* file operation" that the entry matches.
CertainInjectionHappens ==
    \A p \in Procs : pc[p] = "unlock" /\ path[p] # "conf" =>
        \A i \in DOMAIN list :
            list[i].prob >= MAX_PROBABILITY /\ Matches(p, list[i]) => list[i].type \in hits[p]

\* No configuration can prevent its own change through an open file: the
\* operations of a session on it are never injected into. (Those that replace the
\* file by its name, a rename or a link onto it, are injected by their old path.)
ConfigCanBeEdited ==
    \A p \in Procs : pc[p] = "call" /\ path[p] = "conf" => rc[p] = "none"

\* What a file means, said without the parser's state: a section has an entry if
\* it has an option; the last line about its probability counts, over all
\* sections of that name; an indented line under an option is a value of it.
Opens(line) == line.kind = "pair" /\ line.name # ""
Closes(line) ==
    /\ ~line.indent
    /\ line.kind = "section" \/ (line.kind = "pair" /\ line.name = "")

UnderOption(lines, i) ==
    \E j \in 1 .. i : Opens(lines[j]) /\ \A k \in j + 1 .. i : ~Closes(lines[k])

Continues(lines, i) ==
    lines[i].indent /\ lines[i].kind # "blank" /\ UnderOption(lines, i - 1)

Starts(lines, i, kind) == lines[i].kind = kind /\ ~Continues(lines, i)

\* The last line of that kind, up to line i, has that name.
Under(lines, i, kind, name) ==
    \E j \in 1 .. i : /\ Starts(lines, j, kind) /\ lines[j].name = name
                     /\ \A k \in j + 1 .. i : ~Starts(lines, k, kind)

OptionsOf(lines, t) ==
    {i \in DOMAIN lines : /\ lines[i].kind = "pair" \/ Continues(lines, i)
                         /\ Under(lines, i, "section", t)}

ProbabilitiesOf(lines, t) ==
    {i \in OptionsOf(lines, t) : Under(lines, i, "pair", "probability")}

TextOf(lines, i) == IF Continues(lines, i) THEN lines[i].whole ELSE lines[i].value

LastWins ==
    \A t \in Types :
        LET probs == ProbabilitiesOf(file, t)
            made == {e \in Range(Parse(file)) : e.type = t}
        IN  /\ OptionsOf(file, t) = {} <=> made = {}
            /\ \A d, e \in made : d = e
            /\ \A e \in made :
                    IF probs = {} THEN e.prob = 0
                    ELSE \E i \in probs : /\ \A k \in probs : k <= i
                                         /\ e.prob = Unsigned(TextOf(file, i).num)

\* The mutex that every operation needs does not stay taken, whatever the list
\* makes of the operation that holds it.
MutexIsReleased == \A p \in Procs : owner = p ~> owner # p
=============================================================================
