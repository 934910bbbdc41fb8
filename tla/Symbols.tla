------------------------------ MODULE Symbols ------------------------------
(***************************************************************************)
(* How an address gets a name.  The JVM announces the code it has compiled *)
(* by callbacks, on whatever thread it likes; a callback prints a line to  *)
(* the perf map, a file, and then stores the name in SYM_MAP, without a    *)
(* lock.  setup_jvmti enables the callbacks and has the JVM repeat them    *)
(* for the code it has already.  At the end of a window the perf map is    *)
(* flushed, then the sampling stops, and a report names the rows of the    *)
(* count table from SYM_MAP, and where that has nothing from the stack of  *)
(* the row: BCC resolves a user frame by the perf map and a kernel frame   *)
(* by itself, and a row of which no stack was got has no name; a flame     *)
(* report names all its frames by BCC.  Agent_OnUnload disables the        *)
(* callbacks and closes the file.                                          *)
(*                                                                         *)
(* Code is freed and its address used again; CompiledMethodUnload does     *)
(* nothing about it.  Accesses to SYM_MAP that overlap are undefined: here *)
(* entries may get lost, in the map (damaged) or for the one search.       *)
(***************************************************************************)
EXTENDS Naturals, FiniteSets

CONSTANTS
    Threads,    \* the threads that run callbacks
    Loader,     \* the one of them that loads the agent
    Addrs,      \* the addresses of code
    Methods,    \* the methods, each with a name of its own
    MaxCode,    \* bound: the pieces of code installed
    MaxRows,    \* bound: the rows of a count table
    MaxRounds   \* bound: the windows

None    == "none"       \* no code, no entry
Empty   == "empty"      \* the string an operator[] inserts
Unknown == "[UNKNOWN]"  \* what BCC has for an address it does not know
Kernel  == "[k]"        \* the name of a kernel function, marked as one

ASSUME LoaderAssumption == Loader \in Threads
ASSUME NamesAssumption == {None, Empty, Unknown, Kernel} \cap Methods = {} /\ None \notin Addrs
ASSUME SymbolBounds == MaxCode \in Nat /\ MaxRows \in Nat /\ MaxRounds \in Nat

VARIABLES
    code,       \* the code of the JVM: the method at an address
    lived,      \* history: the methods an address has had
    installed,  \* the pieces of code so far
    pending,    \* the addresses whose callback the JVM still has to run
    event,      \* the callbacks are enabled
    todo,       \* the addresses GenerateEvents has still to go through
    cb,         \* the callback of each thread: where it is, and its arguments
    SYM_MAP, damaged,
    out_perf,   \* "open", "closed"
    buffer,     \* the lines printed and not flushed
    file,       \* the lines in the file
    pc, round,  \* where profile(), or before it setup_jvmti, is
    rows,       \* the rows of the count table: address, method it was, stack got
    row,        \* the row being named, and what find said
    due,        \* history: the lines announced, and still true, at the flush
    named,      \* history: the last row named
    unload,     \* "no", "disabled", "closed": where Agent_OnUnload is
    inflight,   \* history: the threads in a callback when it disabled them
    late        \* history: the threads that used the closed file

jvmVars  == <<code, lived, installed, pending>>
mapVars  == <<SYM_MAP, damaged>>
fileVars == <<out_perf, buffer, file>>
rowVars  == <<rows, row, due, named>>
endVars  == <<unload, inflight, late>>
vars == <<jvmVars, event, todo, cb, mapVars, fileVars, pc, round, rowVars, endVars>>

Idle     == [at |-> "idle", addr |-> None, name |-> None]
NoRow    == [addr |-> None, method |-> None, stack |-> "none", hit |-> FALSE]
NotNamed == [method |-> None, stack |-> "none", name |-> None, map |-> FALSE, owed |-> FALSE]

Init ==
    /\ code \in [Addrs -> Methods \cup {None}]
    /\ lived = [a \in Addrs |-> {code[a]} \ {None}]
    /\ installed = Cardinality({a \in Addrs : code[a] # None}) /\ installed <= MaxCode
    /\ pending = {} /\ event = FALSE /\ todo = {}
    /\ cb = [t \in Threads |-> Idle]
    /\ SYM_MAP = [a \in Addrs |-> None] /\ damaged = FALSE
    /\ out_perf = "open" /\ buffer = {} /\ file = {}
    /\ pc = "setup" /\ round = 0
    /\ rows = {} /\ row = NoRow /\ due = {} /\ named = NotNamed
    /\ unload = "no" /\ inflight = {} /\ late = {}

Running(t) == cb[t].at # "idle"

\* The JVM has nothing more to say about the code at an address.
Quiet(a) == a \notin pending /\ \A t \in Threads : cb[t].addr # a

Lines == buffer \cup file

-----------------------------------------------------------------------------
\* The code of the JVM

Install(a, m) ==
    /\ code[a] = None /\ installed < MaxCode
    /\ code' = [code EXCEPT ![a] = m]
    /\ lived' = [lived EXCEPT ![a] = @ \cup {m}]
    /\ installed' = installed + 1

\* The callback is put off, if there is to be one.
Compile(a, m) ==
    /\ Install(a, m)
    /\ pending' = IF event THEN pending \cup {a} ELSE pending
    /\ UNCHANGED <<event, todo, cb, mapVars, fileVars, pc, round, rowVars, endVars>>

CompiledMethodUnload_Erases(a) ==
    /\ code[a] # None /\ Quiet(a)
    /\ code' = [code EXCEPT ![a] = None]
    /\ SYM_MAP' = [SYM_MAP EXCEPT ![a] = None]
    /\ UNCHANGED <<lived, installed, pending, event, todo, cb, damaged, fileVars, pc, round,
                   rowVars, endVars>>

\* Code is freed; a callback about it, running or put off, keeps it.
CompiledMethodUnload(a) ==
    /\ code[a] # None /\ Quiet(a)
    /\ code' = [code EXCEPT ![a] = None]
    /\ UNCHANGED <<lived, installed, pending, event, todo, cb, mapVars, fileVars, pc, round,
                   rowVars, endVars>>

-----------------------------------------------------------------------------
\* The callbacks.  Both check out_perf, which InitFile has set, and
\* writing_perf, which nothing sets.

\* The loading thread runs the callbacks of GenerateEvents first.
Available(t) == ~Running(t) /\ (t = Loader => pc \notin {"setup", "generate"})

Begin(t, a, m) == cb' = [cb EXCEPT ![t] = [at |-> "print", addr |-> a, name |-> m]]

CompiledMethodLoad(t) ==
    /\ Available(t)
    /\ \E a \in pending :
          /\ pending' = pending \ {a}
          /\ IF event THEN Begin(t, a, code[a]) ELSE UNCHANGED cb
    /\ UNCHANGED <<code, lived, installed, event, todo, mapVars, fileVars, pc, round, rowVars,
                   endVars>>

\* The thread that has generated the code runs the callback itself.
DynamicCodeGenerated(t) ==
    /\ Available(t) /\ event
    /\ \E a \in Addrs, m \in Methods : Install(a, m) /\ Begin(t, a, m)
    /\ UNCHANGED <<pending, event, todo, mapVars, fileVars, pc, round, rowVars, endVars>>

\* fprintf
PrintLine(t) ==
    /\ cb[t].at = "print"
    /\ cb' = [cb EXCEPT ![t].at = "printed"]
    /\ IF out_perf = "open"
       THEN buffer' = buffer \cup {<<cb[t].addr, cb[t].name>>} /\ UNCHANGED late
       ELSE late' = late \cup {t} /\ UNCHANGED buffer
    /\ UNCHANGED <<jvmVars, event, todo, mapVars, out_perf, file, pc, round, rowVars, unload,
                   inflight>>

\* An access to SYM_MAP: it overlaps a store.
Access == damaged' = (damaged \/ \E t \in Threads : cb[t].at = "store")

\* SYM_MAP[key] = method_name begins ...
StartStore(t) ==
    /\ cb[t].at = "printed"
    /\ cb' = [cb EXCEPT ![t].at = "store"]
    /\ Access
    /\ UNCHANGED <<jvmVars, event, todo, SYM_MAP, fileVars, pc, round, rowVars, endVars>>

\* ... and ends, as does the callback.
EndStore(t) ==
    /\ cb[t].at = "store"
    /\ \E lost \in IF damaged THEN SUBSET Addrs ELSE {{}} :
          SYM_MAP' = [a \in Addrs |-> IF a \in lost THEN None
                                      ELSE IF a = cb[t].addr THEN cb[t].name ELSE SYM_MAP[a]]
    /\ cb' = [cb EXCEPT ![t] = Idle]
    /\ UNCHANGED <<jvmVars, event, todo, damaged, fileVars, pc, round, rowVars, endVars>>

Flush == file' = Lines /\ buffer' = {}

\* The buffer of the file is full.
Spill ==
    /\ out_perf = "open" /\ buffer # {} /\ Flush
    /\ UNCHANGED <<jvmVars, event, todo, cb, mapVars, out_perf, pc, round, rowVars, endVars>>

-----------------------------------------------------------------------------
\* setup_jvmti, on the loading thread

EnableEvent_NoReplay ==
    /\ pc = "setup" /\ pc' = "generate"
    /\ event' = TRUE
    /\ UNCHANGED <<jvmVars, todo, cb, mapVars, fileVars, round, rowVars, endVars>>

EnableEvent ==
    /\ pc = "setup" /\ pc' = "generate"
    /\ event' = TRUE
    /\ todo' = {a \in Addrs : code[a] # None}
    /\ UNCHANGED <<jvmVars, cb, mapVars, fileVars, round, rowVars, endVars>>

\* The JVM repeats the callbacks, for the code that is still there.
GenerateEvents ==
    /\ pc = "generate" /\ ~Running(Loader)
    /\ \E a \in todo :
          /\ todo' = todo \ {a}
          /\ IF code[a] # None THEN Begin(Loader, a, code[a]) ELSE UNCHANGED cb
    /\ UNCHANGED <<jvmVars, event, mapVars, fileVars, pc, round, rowVars, endVars>>

EndSetup ==
    /\ pc = "generate" /\ pc' = "between"
    /\ ~Running(Loader) /\ todo = {}
    /\ UNCHANGED <<jvmVars, event, todo, cb, mapVars, fileVars, round, rowVars, endVars>>

-----------------------------------------------------------------------------
\* A window and its report, on the thread of profile()

StartBPF ==
    /\ pc = "between" /\ pc' = "sampling"
    /\ round < MaxRounds /\ round' = round + 1
    /\ UNCHANGED <<jvmVars, event, todo, cb, mapVars, fileVars, rowVars, endVars>>

\* Code is sampled while it runs.  The stack a row is named by is the user one
\* if both were got; each of the two get_stackid may fail.
Sample ==
    /\ pc \in {"sampling", "flushed"} /\ Cardinality(rows) < MaxRows
    /\ \E a \in {b \in Addrs : code[b] # None}, stack \in {"user", "kernel", "none"} :
          rows' = rows \cup {[addr |-> a, method |-> code[a], stack |-> stack]}
    /\ UNCHANGED <<jvmVars, event, todo, cb, mapVars, fileVars, pc, round, row, due, named,
                   endVars>>

Announced == {l \in Lines : code[l[1]] = l[2] /\ Quiet(l[1])}

StopBPF_NoFlush ==
    /\ pc = "sampling" /\ pc' = "flushed"
    /\ due' = Announced
    /\ UNCHANGED <<jvmVars, event, todo, cb, mapVars, fileVars, round, rows, row, named, endVars>>

\* sleep(DURATION) is over, and the perf map is flushed ...
StopBPF ==
    /\ pc = "sampling" /\ pc' = "flushed"
    /\ due' = Announced
    /\ IF out_perf = "open" THEN Flush ELSE UNCHANGED <<file, buffer>>
    /\ UNCHANGED <<jvmVars, event, todo, cb, mapVars, out_perf, round, rows, row, named, endVars>>

\* ... and only then the event is detached.
Detach ==
    /\ pc = "flushed" /\ pc' = "report"
    /\ UNCHANGED <<jvmVars, event, todo, cb, mapVars, fileVars, round, rowVars, endVars>>

\* SYM_MAP.find.  The address of a row is where a call goes, which may be another
\* entry of the code than the one announced.
Find ==
    /\ pc = "report" /\ row = NoRow
    /\ \E r \in rows, hit \in BOOLEAN :
          /\ hit => SYM_MAP[r.addr] # None
          /\ row' = [addr |-> r.addr, method |-> r.method, stack |-> r.stack, hit |-> hit]
          /\ rows' = rows \ {r}
    /\ named' = NotNamed
    /\ Access
    /\ UNCHANGED <<jvmVars, event, todo, cb, SYM_MAP, fileVars, pc, round, due, endVars>>

\* The row is named n, with the suffix "[MAP]" if this is from SYM_MAP.  It had to
\* be its method if a source had it for sure: the map or the file when nothing else
\* was ever at the address, and the map when nothing was since it was announced (an
\* unloaded agent hears of nothing).
Name(n) ==
    /\ named' = [method |-> row.method, stack |-> row.stack, name |-> n, map |-> row.hit,
                 owed |-> /\ <<row.addr, row.method>> \in due
                          /\ \/ /\ row.hit \/ row.stack = "user"
                                /\ lived[row.addr] = {row.method}
                             \/ /\ row.hit /\ ~damaged /\ unload = "no"
                                /\ code[row.addr] = row.method /\ Quiet(row.addr)]
    /\ row' = NoRow
    /\ UNCHANGED <<jvmVars, event, todo, cb, fileVars, pc, round, rows, due, endVars>>

\* operator[] of SYM_MAP inserts what it does not find.
NameFromMap ==
    /\ row.hit
    /\ SYM_MAP' = [SYM_MAP EXCEPT ![row.addr] = IF @ = None THEN Empty ELSE @]
    /\ Access
    /\ Name(SYM_MAP'[row.addr])

\* What BCC has for an address: one of the lines with it.
PerfMap(a) ==
    LET known == {m \in Methods : <<a, m>> \in file}
    IN  IF known = {} THEN {Unknown} ELSE known

NameFromStack ==
    /\ row # NoRow /\ ~row.hit
    /\ \/ row.stack = "user" /\ \E n \in PerfMap(row.addr) : Name(n)
       \/ row.stack = "kernel" /\ Name(Kernel)
       \/ row.stack = "none" /\ Name(Empty)
    /\ UNCHANGED mapVars

EndReport ==
    /\ pc = "report" /\ pc' = "between"
    /\ row = NoRow /\ rows = {}
    /\ due' = {} /\ named' = NotNamed
    /\ UNCHANGED <<jvmVars, event, todo, cb, mapVars, fileVars, round, rows, row, endVars>>

-----------------------------------------------------------------------------
\* The end of the JVM, whatever profile() does

Agent_OnUnload_Forgets ==
    /\ unload = "no" /\ pc \notin {"setup", "generate"}
    /\ unload' = "disabled"
    /\ inflight' = {t \in Threads : Running(t)}
    /\ UNCHANGED <<jvmVars, event, todo, cb, mapVars, fileVars, pc, round, rowVars, late>>

\* disableAllEvents
Agent_OnUnload ==
    /\ unload = "no" /\ pc \notin {"setup", "generate"}
    /\ unload' = "disabled"
    /\ event' = FALSE
    /\ inflight' = {t \in Threads : Running(t)}
    /\ UNCHANGED <<jvmVars, todo, cb, mapVars, fileVars, pc, round, rowVars, late>>

closeAllFiles ==
    /\ unload = "disabled" /\ unload' = "closed"
    /\ out_perf' = "closed" /\ Flush
    /\ UNCHANGED <<jvmVars, event, todo, cb, mapVars, pc, round, rowVars, inflight, late>>

VMExit == unload = "closed" /\ UNCHANGED vars

-----------------------------------------------------------------------------
Callback(t) ==
    \/ CompiledMethodLoad(t) \/ DynamicCodeGenerated(t)
    \/ PrintLine(t) \/ StartStore(t) \/ EndStore(t)

Profile ==
    \/ EnableEvent \/ GenerateEvents \/ EndSetup
    \/ StartBPF \/ StopBPF \/ Detach \/ Find \/ NameFromMap \/ NameFromStack \/ EndReport

Next ==
    \/ \E a \in Addrs : CompiledMethodUnload(a) \/ \E m \in Methods : Compile(a, m)
    \/ \E t \in Threads : Callback(t)
    \/ Spill \/ Sample \/ Profile
    \/ Agent_OnUnload \/ closeAllFiles \/ VMExit

Spec == Init /\ [][Next]_vars

-----------------------------------------------------------------------------
\* Properties

\* A row whose callback was over at the flush, and whose address nobody has used
\* otherwise, gets the name of the method that was sampled, with callbacks going
\* on: from SYM_MAP if that has it, and if not from the file, if there is a user
\* stack.  Nothing less than a damaged SYM_MAP takes it away.
RowsGetTheirNames ==
    named.owed => named.name = named.method \/ (damaged /\ named.name = Empty)

\* Between find and operator[] of a row nothing disappears from SYM_MAP: unless
\* accesses to the map overlapped, only a row that was not in the map, and of which
\* no stack was got, has an empty name.
NoEmptyName == named.name = Empty => damaged \/ (~named.map /\ named.stack = "none")

\* Once GenerateEvents is over, no code is forgotten: a callback about it is to
\* come, is running or has printed it, however compilation went on meanwhile.
EveryMethodAnnounced ==
    (pc \notin {"setup", "generate"} /\ event) =>
        \A a \in Addrs : code[a] # None => ~Quiet(a) \/ <<a, code[a]>> \in Lines

\* Only the callbacks that were running when Agent_OnUnload disabled them can
\* write to the closed file, each of them once.
LateLinesWereInFlight == late \subseteq inflight

\* tune.cfg:1 "M:java.util.HashMap.resize": a row that got the name of its
\* method goes under this name to the rules.
RulesKnowTheName == named.name \in Methods => ~named.map
=============================================================================
