--------------------------- MODULE SymbolsProofs ---------------------------
(***************************************************************************)
(* Proofs about module Symbols, for any threads, addresses, methods and    *)
(* bounds: no code is forgotten, a row gets the name it is owed and an     *)
(* empty one only for the two reasons there are, and only the callbacks in *)
(* flight at the end of the JVM find the perf map closed.                  *)
(***************************************************************************)
EXTENDS Symbols, TLAPS

\* What a row may be named by.
Stacks == {"user", "kernel", "none"}

\* The row being named, and none.
Row == [addr : Addrs \cup {None}, method : Methods \cup {None}, stack : Stacks, hit : BOOLEAN]

Types ==
    /\ code \in [Addrs -> Methods \cup {None}]
    /\ pending \in SUBSET Addrs /\ todo \in SUBSET Addrs
    /\ event \in BOOLEAN /\ damaged \in BOOLEAN
    /\ cb \in [Threads -> [at : {"idle", "print", "printed", "store"},
                           addr : Addrs \cup {None}, name : Methods \cup {None}]]
    /\ SYM_MAP \in [Addrs -> Methods \cup {None, Empty}]
    /\ rows \in SUBSET [addr : Addrs, method : Methods, stack : Stacks]
    /\ row \in Row

\* A callback, to come or running, keeps the code it is about.
Pinned ==
    /\ \A a \in pending : code[a] # None
    /\ \A t \in Threads :
          /\ ~Running(t) => cb[t].addr = None
          /\ Running(t) => /\ cb[t].addr \in Addrs /\ cb[t].name \in Methods
                           /\ code[cb[t].addr] = cb[t].name

\* The order of setup_jvmti, of the session and of the end of the JVM.
Phases ==
    /\ event <=> pc # "setup" /\ unload = "no"
    /\ pc \notin {"setup", "generate"} => todo = {}
    /\ unload # "no" => pc \notin {"setup", "generate"}
    /\ out_perf = "closed" => unload = "closed"
    /\ out_perf \in {"open", "closed"}

\* What a callback has printed is there, while the file is open.
Printed ==
    out_perf = "open" =>
        \A t \in Threads : cb[t].at \in {"printed", "store"} => <<cb[t].addr, cb[t].name>> \in Lines

\* Code has been announced, or will be.
Covered ==
    event => \A a \in Addrs :
        code[a] # None => a \in todo \/ ~Quiet(a) \/ <<a, code[a]>> \in Lines

\* After disableAllEvents no callback begins.
InFlight ==
    /\ unload # "no" => \A t \in Threads : Running(t) => t \in inflight
    /\ unload = "no" => late = {}
    /\ late \subseteq inflight

\* An undamaged map has methods only, and what find found.
MapSound ==
    ~damaged => /\ \A a \in Addrs : SYM_MAP[a] # Empty
                /\ row.hit => row.addr \in Addrs /\ SYM_MAP[row.addr] # None
                /\ named.name = Empty => ~named.map /\ named.stack = "none"

\* Whatever is said about an address is about a method it has had.
Lived ==
    /\ lived \in [Addrs -> SUBSET Methods]
    /\ \A a \in Addrs : /\ code[a] # None => code[a] \in lived[a]
                       /\ SYM_MAP[a] \in lived[a] \cup {None, Empty}
                       /\ \A m : <<a, m>> \in Lines => m \in lived[a]

\* An undamaged map has the newest code of every address.
Fresh ==
    event /\ ~damaged =>
        \A a \in Addrs : code[a] # None /\ a \notin todo /\ Quiet(a) => SYM_MAP[a] = code[a]

\* The rows a report owes a name to are in the file BCC reads.
Owed ==
    /\ due \subseteq file
    /\ out_perf = "closed" => buffer = {}
    /\ row # NoRow => pc = "report" /\ row.addr \in Addrs

-----------------------------------------------------------------------------
\* The types hold at the start.
LEMMA TypesInit == Init => Types
<1> SUFFICES ASSUME Init PROVE Types
  OBVIOUS
<1>1. Idle \in [at : {"idle", "print", "printed", "store"},
                addr : Addrs \cup {None}, name : Methods \cup {None}]
  BY DEF Idle
<1>2. NoRow \in Row
  BY DEF NoRow, Row, Stacks
<1> QED
  BY <1>1, <1>2 DEF Init, Types

\* A callback that begins is a callback.
LEMMA BeginTyped ==
    ASSUME Types, NEW t \in Threads, NEW a \in Addrs, NEW m \in Methods, Begin(t, a, m)
    PROVE  cb' \in [Threads -> [at : {"idle", "print", "printed", "store"},
                                addr : Addrs \cup {None}, name : Methods \cup {None}]]
<1>1. [at |-> "print", addr |-> a, name |-> m]
          \in [at : {"idle", "print", "printed", "store"},
               addr : Addrs \cup {None}, name : Methods \cup {None}]
  OBVIOUS
<1> QED
  BY <1>1 DEF Types, Begin

\* The variables keep their types.
LEMMA TypesStep == Types /\ Pinned /\ [Next]_vars => Types'
<1> SUFFICES ASSUME Types, Pinned, [Next]_vars PROVE Types'
  OBVIOUS
<1> USE DEF Types, jvmVars, mapVars, fileVars, rowVars, endVars
<1>1. ASSUME NEW a \in Addrs, CompiledMethodUnload(a) PROVE Types'
  BY <1>1 DEF CompiledMethodUnload
<1>2. ASSUME NEW a \in Addrs, NEW m \in Methods, Compile(a, m) PROVE Types'
  BY <1>2 DEF Compile, Install
<1>3. ASSUME NEW t \in Threads, CompiledMethodLoad(t) PROVE Types'
  <2>1. PICK a \in pending : /\ pending' = pending \ {a}
                             /\ IF event THEN Begin(t, a, code[a]) ELSE UNCHANGED cb
    BY <1>3 DEF CompiledMethodLoad
  <2>2. a \in Addrs /\ code[a] \in Methods
    BY DEF Pinned
  <2>3. cb' \in [Threads -> [at : {"idle", "print", "printed", "store"},
                             addr : Addrs \cup {None}, name : Methods \cup {None}]]
    BY <2>1, <2>2, BeginTyped
  <2> QED
    BY <1>3, <2>1, <2>3 DEF CompiledMethodLoad
<1>4. ASSUME NEW t \in Threads, DynamicCodeGenerated(t) PROVE Types'
  <2>1. PICK a \in Addrs, m \in Methods : Install(a, m) /\ Begin(t, a, m)
    BY <1>4 DEF DynamicCodeGenerated
  <2>2. cb' \in [Threads -> [at : {"idle", "print", "printed", "store"},
                             addr : Addrs \cup {None}, name : Methods \cup {None}]]
    BY <2>1, BeginTyped
  <2> QED
    BY <1>4, <2>1, <2>2 DEF DynamicCodeGenerated, Install
<1>5. ASSUME NEW t \in Threads, PrintLine(t) PROVE Types'
  BY <1>5 DEF PrintLine
<1>6. ASSUME NEW t \in Threads, StartStore(t) PROVE Types'
  BY <1>6 DEF StartStore, Access
<1>7. ASSUME NEW t \in Threads, EndStore(t) PROVE Types'
  <2>1. cb' \in [Threads -> [at : {"idle", "print", "printed", "store"},
                             addr : Addrs \cup {None}, name : Methods \cup {None}]]
    BY <1>7 DEF EndStore, Idle
  <2>2. SYM_MAP' \in [Addrs -> Methods \cup {None, Empty}]
    BY <1>7 DEF EndStore
  <2> QED
    BY <1>7, <2>1, <2>2 DEF EndStore
<1>8. CASE Spill
  BY <1>8 DEF Spill, Flush
<1>9. CASE Sample
  <2>1. PICK a \in {b \in Addrs : code[b] # None}, stack \in Stacks :
            rows' = rows \cup {[addr |-> a, method |-> code[a], stack |-> stack]}
    BY <1>9 DEF Sample, Stacks
  <2>2. [addr |-> a, method |-> code[a], stack |-> stack]
            \in [addr : Addrs, method : Methods, stack : Stacks]
    BY <2>1
  <2> QED
    BY <1>9, <2>1, <2>2 DEF Sample
<1>10. CASE EnableEvent
  BY <1>10 DEF EnableEvent
<1>11. CASE GenerateEvents
  <2>1. PICK a \in todo : /\ todo' = todo \ {a}
                          /\ IF code[a] # None THEN Begin(Loader, a, code[a]) ELSE UNCHANGED cb
    BY <1>11 DEF GenerateEvents
  <2>2. cb' \in [Threads -> [at : {"idle", "print", "printed", "store"},
                             addr : Addrs \cup {None}, name : Methods \cup {None}]]
    BY <2>1, BeginTyped, LoaderAssumption
  <2> QED
    BY <1>11, <2>1, <2>2 DEF GenerateEvents
<1>12. CASE EndSetup \/ StartBPF \/ StopBPF \/ Detach \/ EndReport
  BY <1>12 DEF EndSetup, StartBPF, StopBPF, Detach, EndReport, Flush
<1>13. CASE Find
  <2>1. PICK r \in rows, hit \in BOOLEAN :
            /\ row' = [addr |-> r.addr, method |-> r.method, stack |-> r.stack, hit |-> hit]
            /\ rows' = rows \ {r}
    BY <1>13 DEF Find
  <2>2. row' \in Row
    BY <2>1 DEF Row
  <2> QED
    BY <1>13, <2>1, <2>2 DEF Find, Access
<1>14. CASE NameFromMap
  <2>1. row' \in Row
    BY <1>14 DEF NameFromMap, Name, NoRow, Row, Stacks
  <2>2. SYM_MAP' \in [Addrs -> Methods \cup {None, Empty}]
    BY <1>14 DEF NameFromMap
  <2> QED
    BY <1>14, <2>1, <2>2 DEF NameFromMap, Name, Access
<1>15. CASE NameFromStack
  <2>1. PICK n : Name(n)
    BY <1>15 DEF NameFromStack
  <2>2. row' \in Row
    BY <2>1 DEF Name, NoRow, Row, Stacks
  <2>3. UNCHANGED mapVars
    BY <1>15 DEF NameFromStack
  <2> QED
    BY <2>1, <2>2, <2>3 DEF Name
<1>16. CASE Agent_OnUnload
  BY <1>16 DEF Agent_OnUnload
<1>17. CASE closeAllFiles \/ VMExit \/ UNCHANGED vars
  BY <1>17 DEF closeAllFiles, Flush, VMExit, vars
<1> QED
  BY <1>1, <1>2, <1>3, <1>4, <1>5, <1>6, <1>7, <1>8, <1>9, <1>10, <1>11, <1>12, <1>13, <1>14,
     <1>15, <1>16, <1>17 DEF Next, Callback, Profile

-----------------------------------------------------------------------------
\* Freed code has nothing to come; new code is at an address without code.
LEMMA PinnedStep == Types /\ Pinned /\ [Next]_vars => Pinned'
<1> SUFFICES ASSUME Types, Pinned, [Next]_vars PROVE Pinned'
  OBVIOUS
<1> USE NamesAssumption DEF Types, Pinned, Running, jvmVars, mapVars, fileVars, rowVars, endVars
<1>k. ASSUME UNCHANGED <<code, pending, cb>> PROVE Pinned'
  BY <1>k
<1>b. ASSUME NEW t \in Threads, NEW a \in Addrs, NEW m \in Methods, Begin(t, a, m),
             code'[a] = m, \A b \in Addrs : code[b] # None => code'[b] = code[b],
             pending' \subseteq pending
      PROVE  Pinned'
  <2>1. cb'[t] = [at |-> "print", addr |-> a, name |-> m]
    BY <1>b DEF Begin
  <2>2. \A u \in Threads : u # t => cb'[u] = cb[u]
    BY <1>b DEF Begin
  <2>3. \A u \in Threads : cb[u].at # "idle" => code'[cb[u].addr] = cb[u].name
    BY <1>b
  <2>4. \A b \in pending' : code'[b] # None
    BY <1>b
  <2> QED
    BY <1>b, <2>1, <2>2, <2>3, <2>4
<1>1. ASSUME NEW a \in Addrs, CompiledMethodUnload(a) PROVE Pinned'
  BY <1>1 DEF CompiledMethodUnload, Quiet
<1>2. ASSUME NEW a \in Addrs, NEW m \in Methods, Compile(a, m) PROVE Pinned'
  BY <1>2 DEF Compile, Install
<1>3. ASSUME NEW t \in Threads, CompiledMethodLoad(t) PROVE Pinned'
  <2>1. PICK a \in pending : /\ pending' = pending \ {a}
                             /\ IF event THEN Begin(t, a, code[a]) ELSE UNCHANGED cb
    BY <1>3 DEF CompiledMethodLoad
  <2>2. code' = code
    BY <1>3 DEF CompiledMethodLoad
  <2>3. CASE event
    BY <1>b, <2>1, <2>2, <2>3
  <2>4. CASE ~event
    BY <2>1, <2>2, <2>4
  <2> QED
    BY <2>3, <2>4
<1>4. ASSUME NEW t \in Threads, DynamicCodeGenerated(t) PROVE Pinned'
  <2>1. PICK a \in Addrs, m \in Methods : Install(a, m) /\ Begin(t, a, m)
    BY <1>4 DEF DynamicCodeGenerated
  <2>2. pending' = pending
    BY <1>4 DEF DynamicCodeGenerated
  <2> QED
    BY <1>b, <2>1, <2>2 DEF Install
<1>5. ASSUME NEW t \in Threads, PrintLine(t) \/ StartStore(t) \/ EndStore(t) PROVE Pinned'
  BY <1>5 DEF PrintLine, StartStore, EndStore, Idle
<1>6. CASE GenerateEvents
  <2>1. PICK a \in todo : /\ todo' = todo \ {a}
                          /\ IF code[a] # None THEN Begin(Loader, a, code[a]) ELSE UNCHANGED cb
    BY <1>6 DEF GenerateEvents
  <2>2. code' = code /\ pending' = pending
    BY <1>6 DEF GenerateEvents
  <2>3. CASE code[a] # None
    BY <1>b, <2>1, <2>2, <2>3, LoaderAssumption
  <2>4. CASE code[a] = None
    BY <1>k, <2>1, <2>2, <2>4
  <2> QED
    BY <2>3, <2>4
<1>7. CASE Spill \/ Sample \/ EnableEvent \/ EndSetup \/ StartBPF \/ StopBPF \/ Detach \/ EndReport
  BY <1>7, <1>k DEF Spill, Sample, EnableEvent, EndSetup, StartBPF, StopBPF, Detach, EndReport
<1>8. CASE Find \/ NameFromMap \/ NameFromStack
  BY <1>8, <1>k DEF Find, NameFromMap, NameFromStack, Name
<1>9. CASE Agent_OnUnload \/ closeAllFiles \/ VMExit \/ UNCHANGED vars
  BY <1>9, <1>k DEF Agent_OnUnload, closeAllFiles, VMExit, vars
<1> QED
  BY <1>1, <1>2, <1>3, <1>4, <1>5, <1>6, <1>7, <1>8, <1>9 DEF Next, Callback, Profile

\* The phases come one after the other.
LEMMA PhasesStep == Phases /\ [Next]_vars => Phases'
<1> SUFFICES ASSUME Phases, [Next]_vars PROVE Phases'
  OBVIOUS
<1> USE DEF Phases, jvmVars, mapVars, fileVars, rowVars, endVars
<1>k. ASSUME UNCHANGED <<event, todo, pc, unload, out_perf>> PROVE Phases'
  BY <1>k
<1>1. ASSUME NEW a \in Addrs, CompiledMethodUnload(a) \/ \E m \in Methods : Compile(a, m)
      PROVE  Phases'
  BY <1>1, <1>k DEF CompiledMethodUnload, Compile
<1>2. ASSUME NEW t \in Threads, Callback(t) PROVE Phases'
  BY <1>2, <1>k DEF Callback, CompiledMethodLoad, DynamicCodeGenerated, PrintLine, StartStore,
                    EndStore
<1>3. CASE Spill \/ Sample \/ Find \/ NameFromMap \/ NameFromStack \/ VMExit \/ UNCHANGED vars
  BY <1>3, <1>k DEF Spill, Sample, Find, NameFromMap, NameFromStack, Name, VMExit, vars
<1>4. CASE EnableEvent \/ GenerateEvents \/ EndSetup
  BY <1>4 DEF EnableEvent, GenerateEvents, EndSetup
<1>5. CASE StartBPF \/ StopBPF \/ Detach \/ EndReport
  BY <1>5 DEF StartBPF, StopBPF, Detach, EndReport
<1>6. CASE Agent_OnUnload \/ closeAllFiles
  BY <1>6 DEF Agent_OnUnload, closeAllFiles
<1> QED
  BY <1>1, <1>2, <1>3, <1>4, <1>5, <1>6 DEF Next, Profile

\* No line gets lost.
LEMMA LinesStay == [Next]_vars => Lines \subseteq Lines'
<1> SUFFICES ASSUME [Next]_vars PROVE Lines \subseteq Lines'
  OBVIOUS
<1> USE DEF Lines, jvmVars, mapVars, fileVars, rowVars, endVars
<1>1. ASSUME NEW a \in Addrs, CompiledMethodUnload(a) \/ \E m \in Methods : Compile(a, m)
      PROVE  Lines \subseteq Lines'
  BY <1>1 DEF CompiledMethodUnload, Compile
<1>2. ASSUME NEW t \in Threads, Callback(t) PROVE Lines \subseteq Lines'
  BY <1>2 DEF Callback, CompiledMethodLoad, DynamicCodeGenerated, PrintLine, StartStore, EndStore
<1>3. CASE Spill \/ Sample \/ Profile
  BY <1>3 DEF Profile, Spill, Flush, Sample, EnableEvent, GenerateEvents, EndSetup, StartBPF,
              StopBPF, Detach, Find, NameFromMap, NameFromStack, Name, EndReport
<1>4. CASE Agent_OnUnload \/ closeAllFiles \/ VMExit \/ UNCHANGED vars
  BY <1>4 DEF Agent_OnUnload, closeAllFiles, Flush, VMExit, vars
<1> QED
  BY <1>1, <1>2, <1>3, <1>4 DEF Next

\* What a callback has printed stays printed.
LEMMA PrintedStep == Types /\ Printed /\ [Next]_vars => Printed'
<1> SUFFICES ASSUME Types, Printed, [Next]_vars, out_perf' = "open", NEW t \in Threads,
                    cb'[t].at \in {"printed", "store"}
             PROVE  <<cb'[t].addr, cb'[t].name>> \in Lines'
  BY DEF Printed
<1> USE DEF jvmVars, mapVars, fileVars, rowVars, endVars
<1>0. out_perf = "open"
  BY DEF Next, Callback, Profile, CompiledMethodUnload, Compile, CompiledMethodLoad,
         DynamicCodeGenerated, PrintLine, StartStore, EndStore, Spill, Sample, EnableEvent,
         GenerateEvents, EndSetup, StartBPF, StopBPF, Detach, Find, NameFromMap, NameFromStack, Name,
         EndReport, Agent_OnUnload, closeAllFiles, VMExit, vars
<1>k. ASSUME cb[t].at \in {"printed", "store"}, cb'[t].addr = cb[t].addr, cb'[t].name = cb[t].name
      PROVE  <<cb'[t].addr, cb'[t].name>> \in Lines'
  BY <1>0, <1>k, LinesStay DEF Printed
<1>1. ASSUME NEW u \in Threads, NEW a, NEW m, Begin(u, a, m)
      PROVE  <<cb'[t].addr, cb'[t].name>> \in Lines'
  <2>1. u # t /\ cb'[t] = cb[t]
    BY <1>1 DEF Begin, Types
  <2> QED
    BY <2>1, <1>k
<1>2. ASSUME NEW u \in Threads, PrintLine(u) PROVE <<cb'[t].addr, cb'[t].name>> \in Lines'
  <2>1. cb'[t].addr = cb[t].addr /\ cb'[t].name = cb[t].name
    BY <1>2 DEF PrintLine, Types
  <2>2. CASE u = t
    BY <1>0, <1>2, <2>1, <2>2 DEF PrintLine, Lines
  <2>3. CASE u # t
    BY <1>2, <1>k, <2>1, <2>3 DEF PrintLine, Types
  <2> QED
    BY <2>2, <2>3
<1>3. ASSUME NEW u \in Threads, StartStore(u) \/ EndStore(u)
      PROVE  <<cb'[t].addr, cb'[t].name>> \in Lines'
  BY <1>3, <1>k DEF StartStore, EndStore, Idle, Types
<1>4. ASSUME cb' = cb PROVE <<cb'[t].addr, cb'[t].name>> \in Lines'
  BY <1>4, <1>k
<1>5. ASSUME NEW u \in Threads, Callback(u) PROVE <<cb'[t].addr, cb'[t].name>> \in Lines'
  BY <1>5, <1>1, <1>2, <1>3, <1>4 DEF Callback, CompiledMethodLoad, DynamicCodeGenerated
<1>6. CASE Profile
  BY <1>6, <1>1, <1>4, LoaderAssumption
     DEF Profile, EnableEvent, GenerateEvents, EndSetup, StartBPF, StopBPF, Detach, Find, NameFromMap,
         NameFromStack, Name, EndReport
<1>7. ASSUME NEW a \in Addrs, CompiledMethodUnload(a) \/ \E m \in Methods : Compile(a, m)
      PROVE  <<cb'[t].addr, cb'[t].name>> \in Lines'
  BY <1>7, <1>4 DEF CompiledMethodUnload, Compile
<1>8. CASE Spill \/ Sample \/ Agent_OnUnload \/ closeAllFiles \/ VMExit \/ UNCHANGED vars
  BY <1>8, <1>4 DEF Spill, Sample, Agent_OnUnload, closeAllFiles, VMExit, vars
<1> QED
  BY <1>5, <1>6, <1>7, <1>8 DEF Next

\* Only a running callback uses the closed file, and none begins after the event
\* is disabled.
LEMMA InFlightStep == Types /\ Phases /\ InFlight /\ [Next]_vars => InFlight'
<1> SUFFICES ASSUME Types, Phases, InFlight, [Next]_vars PROVE InFlight'
  OBVIOUS
<1> USE DEF InFlight, Running, jvmVars, mapVars, fileVars, rowVars, endVars
<1>k. ASSUME UNCHANGED <<cb, unload, inflight, late>> PROVE InFlight'
  BY <1>k
<1>1. ASSUME NEW t \in Threads, CompiledMethodLoad(t) \/ DynamicCodeGenerated(t) PROVE InFlight'
  <2>1. CASE event
    BY <1>1, <2>1 DEF CompiledMethodLoad, DynamicCodeGenerated, Phases
  <2>2. CASE ~event
    BY <1>1, <1>k, <2>2 DEF CompiledMethodLoad, DynamicCodeGenerated
  <2> QED
    BY <2>1, <2>2
<1>2. ASSUME NEW t \in Threads, PrintLine(t) PROVE InFlight'
  <2>1. \A u \in Threads : Running(u)' = Running(u)
    BY <1>2 DEF PrintLine, Types
  <2>2. Running(t)
    BY <1>2 DEF PrintLine
  <2>3. late' = late \/ (unload # "no" /\ late' = late \cup {t})
    BY <1>2 DEF PrintLine, Phases
  <2>4. UNCHANGED <<unload, inflight>>
    BY <1>2 DEF PrintLine
  <2> QED
    BY <2>1, <2>2, <2>3, <2>4
<1>3. ASSUME NEW t \in Threads, StartStore(t) \/ EndStore(t) PROVE InFlight'
  BY <1>3 DEF StartStore, EndStore, Idle, Types
<1>4. CASE GenerateEvents
  BY <1>4 DEF GenerateEvents, Phases
<1>5. CASE EnableEvent \/ EndSetup \/ StartBPF \/ StopBPF \/ Detach \/ EndReport
  BY <1>5, <1>k DEF EnableEvent, EndSetup, StartBPF, StopBPF, Detach, EndReport
<1>6. CASE Find \/ NameFromMap \/ NameFromStack
  BY <1>6, <1>k DEF Find, NameFromMap, NameFromStack, Name
<1>7. ASSUME NEW a \in Addrs, CompiledMethodUnload(a) \/ \E m \in Methods : Compile(a, m)
      PROVE  InFlight'
  BY <1>7, <1>k DEF CompiledMethodUnload, Compile
<1>8. CASE Agent_OnUnload
  BY <1>8 DEF Agent_OnUnload
<1>9. CASE closeAllFiles
  BY <1>9 DEF closeAllFiles
<1>10. CASE Spill \/ Sample \/ VMExit \/ UNCHANGED vars
  BY <1>10, <1>k DEF Spill, Sample, VMExit, vars
<1> QED
  BY <1>1, <1>2, <1>3, <1>4, <1>5, <1>6, <1>7, <1>8, <1>9, <1>10 DEF Next, Callback, Profile

\* Code that is announced, or to be announced, stays so: GenerateEvents hands an
\* address to a callback, and a callback ends when its line is printed.
LEMMA CoveredStep ==
    Types /\ Pinned /\ Phases /\ Printed /\ Covered /\ [Next]_vars => Covered'
<1> SUFFICES ASSUME Types, Pinned, Phases, Printed, Covered, [Next]_vars, event',
                    NEW a \in Addrs, code'[a] # None
             PROVE  a \in todo' \/ ~Quiet(a)' \/ <<a, code'[a]>> \in Lines'
  BY DEF Covered
<1> DEFINE Goal == a \in todo' \/ ~Quiet(a)' \/ <<a, code'[a]>> \in Lines'
<1> USE NamesAssumption, LinesStay DEF Types, Quiet, jvmVars, mapVars, fileVars, rowVars, endVars
<1>k. ASSUME event, code'[a] = code[a], a \in todo => a \in todo' \/ ~Quiet(a)',
             a \in pending => ~Quiet(a)',
             \A t \in Threads : cb[t].addr = a => ~Quiet(a)' \/ <<a, code[a]>> \in Lines
      PROVE  Goal
  BY <1>k DEF Covered
<1>u. ASSUME UNCHANGED <<code, pending, event, todo, cb>> PROVE Goal
  BY <1>u, <1>k
<1>b. ASSUME NEW t \in Threads, NEW b \in Addrs, NEW m, Begin(t, b, m), ~Running(t)
      PROVE  /\ cb'[t].addr = b
             /\ \A u \in Threads : cb[u].addr = a => cb'[u].addr = a
  BY <1>b DEF Begin, Pinned
<1>1. ASSUME NEW b \in Addrs, CompiledMethodUnload(b) PROVE Goal
  BY <1>1, <1>k DEF CompiledMethodUnload
<1>2. ASSUME NEW b \in Addrs, NEW m \in Methods, Compile(b, m) PROVE Goal
  <2>1. CASE a = b
    BY <1>2, <2>1 DEF Compile
  <2>2. CASE a # b
    BY <1>2, <1>k, <2>2 DEF Compile, Install
  <2> QED
    BY <2>1, <2>2
<1>3. ASSUME NEW t \in Threads, CompiledMethodLoad(t) PROVE Goal
  <2>1. PICK b \in pending : /\ pending' = pending \ {b}
                             /\ IF event THEN Begin(t, b, code[b]) ELSE UNCHANGED cb
    BY <1>3 DEF CompiledMethodLoad
  <2>2. event /\ code' = code /\ todo' = todo /\ ~Running(t)
    BY <1>3 DEF CompiledMethodLoad, Available
  <2>3. cb'[t].addr = b /\ \A u \in Threads : cb[u].addr = a => cb'[u].addr = a
    BY <1>b, <2>1, <2>2
  <2>4. a \in pending => ~Quiet(a)'
    BY <2>1, <2>3
  <2> QED
    BY <1>k, <2>2, <2>3, <2>4
<1>4. ASSUME NEW t \in Threads, DynamicCodeGenerated(t) PROVE Goal
  <2>1. PICK b \in Addrs, m \in Methods : Install(b, m) /\ Begin(t, b, m)
    BY <1>4 DEF DynamicCodeGenerated
  <2>2. event /\ todo' = todo /\ pending' = pending /\ ~Running(t)
    BY <1>4 DEF DynamicCodeGenerated, Available
  <2>3. cb'[t].addr = b /\ \A u \in Threads : cb[u].addr = a => cb'[u].addr = a
    BY <1>b, <2>1, <2>2
  <2>4. CASE a = b
    BY <2>3, <2>4
  <2>5. CASE a # b
    BY <1>k, <2>1, <2>2, <2>3, <2>5 DEF Install
  <2> QED
    BY <2>4, <2>5
<1>5. ASSUME NEW t \in Threads, PrintLine(t) \/ StartStore(t) PROVE Goal
  <2>1. \E at : cb' = [cb EXCEPT ![t].at = at]
    BY <1>5 DEF PrintLine, StartStore
  <2>2. \A u \in Threads : cb'[u].addr = cb[u].addr
    BY <2>1
  <2>3. UNCHANGED <<code, pending, event, todo>>
    BY <1>5 DEF PrintLine, StartStore
  <2> QED
    BY <1>k, <2>2, <2>3
<1>6. ASSUME NEW t \in Threads, EndStore(t) PROVE Goal
  <2>1. UNCHANGED <<code, pending, event, todo>>
    BY <1>6 DEF EndStore
  <2>2. \A u \in Threads : u # t => cb'[u] = cb[u]
    BY <1>6 DEF EndStore
  <2>3. <<cb[t].addr, cb[t].name>> \in Lines /\ code[cb[t].addr] = cb[t].name
    BY <1>6, <2>1 DEF EndStore, Phases, Printed, Pinned, Running
  <2> QED
    BY <1>k, <2>1, <2>2, <2>3
<1>7. CASE EnableEvent
  BY <1>7 DEF EnableEvent
<1>8. CASE GenerateEvents
  <2>1. PICK b \in todo : /\ todo' = todo \ {b}
                          /\ IF code[b] # None THEN Begin(Loader, b, code[b]) ELSE UNCHANGED cb
    BY <1>8 DEF GenerateEvents
  <2>2. UNCHANGED <<code, pending, event>> /\ ~Running(Loader)
    BY <1>8 DEF GenerateEvents
  <2>3. CASE code[b] # None
    <3>1. cb'[Loader].addr = b /\ \A u \in Threads : cb[u].addr = a => cb'[u].addr = a
      BY <1>b, <2>1, <2>2, <2>3, LoaderAssumption
    <3> QED
      BY <1>k, <2>1, <2>2, <3>1, LoaderAssumption
  <2>4. CASE code[b] = None
    BY <1>k, <2>1, <2>2, <2>4
  <2> QED
    BY <2>3, <2>4
<1>9. CASE EndSetup
  BY <1>9, <1>u DEF EndSetup
<1>10. CASE StartBPF \/ StopBPF \/ Detach \/ EndReport \/ Find \/ NameFromMap \/ NameFromStack
  BY <1>10, <1>u DEF StartBPF, StopBPF, Detach, EndReport, Find, NameFromMap, NameFromStack, Name
<1>11. CASE Spill \/ Sample \/ closeAllFiles \/ VMExit \/ UNCHANGED vars
  BY <1>11, <1>u DEF Spill, Sample, closeAllFiles, VMExit, vars
<1>12. CASE Agent_OnUnload
  BY <1>12 DEF Agent_OnUnload
<1> QED
  BY <1>1, <1>2, <1>3, <1>4, <1>5, <1>6, <1>7, <1>8, <1>9, <1>10, <1>11, <1>12
     DEF Next, Callback, Profile

\* While no accesses overlap, entries are only added, and they are methods.
LEMMA MapSoundStep == Types /\ Pinned /\ MapSound /\ [Next]_vars => MapSound'
<1> SUFFICES ASSUME Types, Pinned, MapSound, [Next]_vars PROVE MapSound'
  OBVIOUS
<1> USE NamesAssumption DEF Types, MapSound, jvmVars, mapVars, fileVars, rowVars, endVars
<1>k. ASSUME UNCHANGED <<SYM_MAP, row, named>>, damaged => damaged' PROVE MapSound'
  BY <1>k
<1>1. ASSUME NEW a \in Addrs, CompiledMethodUnload(a) \/ \E m \in Methods : Compile(a, m)
      PROVE  MapSound'
  BY <1>1, <1>k DEF CompiledMethodUnload, Compile
<1>2. ASSUME NEW t \in Threads, CompiledMethodLoad(t) \/ DynamicCodeGenerated(t) \/ PrintLine(t)
                                \/ StartStore(t)
      PROVE  MapSound'
  BY <1>2, <1>k DEF CompiledMethodLoad, DynamicCodeGenerated, PrintLine, StartStore, Access
<1>3. ASSUME NEW t \in Threads, EndStore(t) PROVE MapSound'
  <2>1. CASE damaged
    BY <1>3, <2>1 DEF EndStore
  <2>2. CASE ~damaged
    <3>1. SYM_MAP' = [a \in Addrs |-> IF a = cb[t].addr THEN cb[t].name ELSE SYM_MAP[a]]
      BY <1>3, <2>2 DEF EndStore
    <3>2. cb[t].name \in Methods
      BY <1>3 DEF EndStore, Pinned, Running
    <3>3. UNCHANGED <<row, named, damaged>>
      BY <1>3 DEF EndStore
    <3> QED
      BY <2>2, <3>1, <3>2, <3>3
  <2> QED
    BY <2>1, <2>2
<1>4. CASE Spill \/ Sample
  BY <1>4, <1>k DEF Spill, Sample
<1>5. CASE EnableEvent \/ GenerateEvents \/ EndSetup \/ StartBPF \/ StopBPF \/ Detach
  BY <1>5, <1>k DEF EnableEvent, GenerateEvents, EndSetup, StartBPF, StopBPF, Detach
<1>6. CASE Find
  <2>1. PICK r \in rows, hit \in BOOLEAN :
            /\ hit => SYM_MAP[r.addr] # None
            /\ row' = [addr |-> r.addr, method |-> r.method, stack |-> r.stack, hit |-> hit]
    BY <1>6 DEF Find
  <2>2. named'.name # Empty
    BY <1>6 DEF Find, NotNamed, None, Empty
  <2> QED
    BY <1>6, <2>1, <2>2 DEF Find, Access
<1>7. CASE NameFromMap
  <2>1. ~row'.hit
    BY <1>7 DEF NameFromMap, Name, NoRow
  <2>2. CASE damaged
    BY <1>7, <2>2 DEF NameFromMap, Access
  <2>3. CASE ~damaged
    <3>1. SYM_MAP' = SYM_MAP /\ named'.name = SYM_MAP[row.addr]
      BY <1>7, <2>3 DEF NameFromMap, Name
    <3> QED
      BY <1>7, <2>1, <2>3, <3>1 DEF NameFromMap
  <2> QED
    BY <2>2, <2>3
<1>8. CASE NameFromStack
  <2>1. PICK n : Name(n) /\ (n = Empty => row.stack = "none")
    <3>1. \A n \in PerfMap(row.addr) : n # Empty
      BY DEF PerfMap, Unknown, Empty
    <3>2. Kernel # Empty
      BY DEF Kernel, Empty
    <3> QED
      BY <1>8, <3>1, <3>2 DEF NameFromStack
  <2>2. ~row.hit /\ named'.name = n /\ named'.stack = row.stack /\ named'.map = row.hit
    BY <1>8, <2>1 DEF NameFromStack, Name
  <2>3. ~row'.hit
    BY <2>1 DEF Name, NoRow
  <2> QED
    BY <1>8, <2>1, <2>2, <2>3 DEF NameFromStack
<1>9. CASE EndReport
  BY <1>9 DEF EndReport, NotNamed, None, Empty
<1>10. CASE Agent_OnUnload \/ closeAllFiles \/ VMExit \/ UNCHANGED vars
  BY <1>10, <1>k DEF Agent_OnUnload, closeAllFiles, VMExit, vars
<1> QED
  BY <1>1, <1>2, <1>3, <1>4, <1>5, <1>6, <1>7, <1>8, <1>9, <1>10 DEF Next, Callback, Profile


\* A callback, the map and the lines are about methods of their address.
LEMMA LivedStep == Types /\ Pinned /\ Lived /\ [Next]_vars => Lived'
<1> SUFFICES ASSUME Types, Pinned, Lived, [Next]_vars PROVE Lived'
  OBVIOUS
<1> USE NamesAssumption DEF Types, Lived, Lines, jvmVars, mapVars, fileVars, rowVars, endVars
<1>k. ASSUME UNCHANGED <<code, lived, SYM_MAP>>, Lines' = Lines PROVE Lived'
  BY <1>k
<1>i. ASSUME NEW a \in Addrs, NEW m \in Methods, Install(a, m), SYM_MAP' = SYM_MAP, Lines' = Lines
      PROVE  Lived'
  <2>1. lived' \in [Addrs -> SUBSET Methods]
    BY <1>i DEF Install
  <2>2. lived'[a] = lived[a] \cup {m} /\ code'[a] = m
    BY <1>i DEF Install
  <2>3. \A b \in Addrs : b # a => lived'[b] = lived[b] /\ code'[b] = code[b]
    BY <1>i DEF Install
  <2> QED
    BY <1>i, <2>1, <2>2, <2>3
<1>1. ASSUME NEW a \in Addrs, CompiledMethodUnload(a) PROVE Lived'
  BY <1>1 DEF CompiledMethodUnload
<1>2. ASSUME NEW a \in Addrs, NEW m \in Methods, Compile(a, m) PROVE Lived'
  BY <1>2, <1>i DEF Compile
<1>3. ASSUME NEW t \in Threads, CompiledMethodLoad(t) \/ StartStore(t) PROVE Lived'
  BY <1>3, <1>k DEF CompiledMethodLoad, StartStore
<1>4. ASSUME NEW t \in Threads, DynamicCodeGenerated(t) PROVE Lived'
  BY <1>4, <1>i DEF DynamicCodeGenerated
<1>5. ASSUME NEW t \in Threads, PrintLine(t) PROVE Lived'
  <2>1. cb[t].addr \in Addrs /\ cb[t].name = code[cb[t].addr] /\ cb[t].name # None
    BY <1>5 DEF PrintLine, Pinned, Running
  <2>2. Lines' \subseteq Lines \cup {<<cb[t].addr, cb[t].name>>}
    BY <1>5 DEF PrintLine
  <2>3. UNCHANGED <<code, lived, SYM_MAP>>
    BY <1>5 DEF PrintLine
  <2>4. \A a \in Addrs : \A m : <<a, m>> \in Lines' => m \in lived[a]
    BY <2>1, <2>2
  <2> QED
    BY <2>3, <2>4
<1>6. ASSUME NEW t \in Threads, EndStore(t) PROVE Lived'
  <2>1. cb[t].addr \in Addrs /\ cb[t].name = code[cb[t].addr] /\ cb[t].name # None
    BY <1>6 DEF EndStore, Pinned, Running
  <2>2. UNCHANGED <<code, lived, buffer, file>>
    BY <1>6 DEF EndStore
  <2>3. \A a \in Addrs : SYM_MAP'[a] \in {None, SYM_MAP[a]} \/ (a = cb[t].addr /\ SYM_MAP'[a] = cb[t].name)
    BY <1>6 DEF EndStore
  <2> QED
    BY <2>1, <2>2, <2>3
<1>7. CASE Spill \/ StopBPF \/ closeAllFiles
  <2>1. Lines' = Lines
    BY <1>7 DEF Spill, StopBPF, closeAllFiles, Flush
  <2> QED
    BY <1>7, <1>k, <2>1 DEF Spill, StopBPF, closeAllFiles
<1>8. CASE Sample \/ EnableEvent \/ GenerateEvents \/ EndSetup \/ StartBPF \/ Detach \/ Find \/ EndReport
  BY <1>8, <1>k DEF Sample, EnableEvent, GenerateEvents, EndSetup, StartBPF, Detach, Find, EndReport
<1>9. CASE NameFromMap
  <2>1. UNCHANGED <<code, lived, buffer, file>>
    BY <1>9 DEF NameFromMap, Name
  <2>2. \A a \in Addrs : SYM_MAP'[a] \in {Empty, SYM_MAP[a]}
    BY <1>9 DEF NameFromMap
  <2> QED
    BY <2>1, <2>2
<1>10. CASE NameFromStack \/ Agent_OnUnload \/ VMExit \/ UNCHANGED vars
  BY <1>10, <1>k DEF NameFromStack, Name, Agent_OnUnload, VMExit, vars
<1> QED
  BY <1>1, <1>2, <1>3, <1>4, <1>5, <1>6, <1>7, <1>8, <1>9, <1>10 DEF Next, Callback, Profile

\* The callback about the newest code of an address is the last to store there.
LEMMA FreshStep ==
    Types /\ Pinned /\ Phases /\ MapSound /\ Fresh /\ [Next]_vars => Fresh'
<1> SUFFICES ASSUME Types, Pinned, Phases, MapSound, Fresh, [Next]_vars, event', ~damaged',
                    NEW a \in Addrs, code'[a] # None, a \notin todo', Quiet(a)'
             PROVE  SYM_MAP'[a] = code'[a]
  BY DEF Fresh
<1> USE NamesAssumption DEF Types, Quiet, jvmVars, mapVars, fileVars, rowVars, endVars
<1>k. ASSUME event, ~damaged, code'[a] = code[a], SYM_MAP'[a] = SYM_MAP[a],
             a \notin todo, Quiet(a)
      PROVE  SYM_MAP'[a] = code'[a]
  BY <1>k DEF Fresh
<1>u. ASSUME UNCHANGED <<code, pending, event, todo, cb, SYM_MAP>>, damaged => damaged'
      PROVE  SYM_MAP'[a] = code'[a]
  BY <1>u, <1>k
<1>b. ASSUME NEW t \in Threads, NEW b \in Addrs, NEW m, Begin(t, b, m), ~Running(t)
      PROVE  /\ b # a
             /\ \A u \in Threads : cb[u].addr # a
  <2>1. cb'[t].addr = b /\ cb[t].addr # a
    BY <1>b DEF Begin, Pinned
  <2>2. \A u \in Threads : u # t => cb'[u] = cb[u]
    BY <1>b DEF Begin
  <2> QED
    BY <2>1, <2>2
<1>1. ASSUME NEW b \in Addrs, CompiledMethodUnload(b) PROVE SYM_MAP'[a] = code'[a]
  BY <1>1, <1>k DEF CompiledMethodUnload
<1>2. ASSUME NEW b \in Addrs, NEW m \in Methods, Compile(b, m) PROVE SYM_MAP'[a] = code'[a]
  <2>1. a # b
    BY <1>2 DEF Compile
  <2> QED
    BY <1>2, <1>k, <2>1 DEF Compile, Install
<1>3. ASSUME NEW t \in Threads, CompiledMethodLoad(t) PROVE SYM_MAP'[a] = code'[a]
  <2>1. PICK b \in pending : /\ pending' = pending \ {b}
                             /\ IF event THEN Begin(t, b, code[b]) ELSE UNCHANGED cb
    BY <1>3 DEF CompiledMethodLoad
  <2>2. ~Running(t) /\ UNCHANGED <<code, event, todo, SYM_MAP, damaged>>
    BY <1>3 DEF CompiledMethodLoad, Available
  <2>3. b # a /\ \A u \in Threads : cb[u].addr # a
    BY <1>b, <2>1, <2>2
  <2> QED
    BY <1>k, <2>1, <2>2, <2>3
<1>4. ASSUME NEW t \in Threads, DynamicCodeGenerated(t) PROVE SYM_MAP'[a] = code'[a]
  <2>1. PICK b \in Addrs, m \in Methods : Install(b, m) /\ Begin(t, b, m)
    BY <1>4 DEF DynamicCodeGenerated
  <2>2. ~Running(t) /\ UNCHANGED <<pending, event, todo, SYM_MAP, damaged>>
    BY <1>4 DEF DynamicCodeGenerated, Available
  <2>3. b # a /\ \A u \in Threads : cb[u].addr # a
    BY <1>b, <2>1, <2>2
  <2> QED
    BY <1>k, <2>1, <2>2, <2>3 DEF Install
<1>5. ASSUME NEW t \in Threads, PrintLine(t) \/ StartStore(t) PROVE SYM_MAP'[a] = code'[a]
  <2>1. \E at : cb' = [cb EXCEPT ![t].at = at]
    BY <1>5 DEF PrintLine, StartStore
  <2>2. \A u \in Threads : cb'[u].addr = cb[u].addr
    BY <2>1
  <2>3. UNCHANGED <<code, pending, event, todo, SYM_MAP>> /\ (damaged => damaged')
    BY <1>5 DEF PrintLine, StartStore, Access
  <2> QED
    BY <1>k, <2>2, <2>3
<1>6. ASSUME NEW t \in Threads, EndStore(t) PROVE SYM_MAP'[a] = code'[a]
  <2>1. UNCHANGED <<code, pending, event, todo, damaged>>
    BY <1>6 DEF EndStore
  <2>2. \A u \in Threads : u # t => cb'[u] = cb[u]
    BY <1>6 DEF EndStore
  <2>3. SYM_MAP' = [b \in Addrs |-> IF b = cb[t].addr THEN cb[t].name ELSE SYM_MAP[b]]
    BY <1>6, <2>1 DEF EndStore
  <2>4. code[cb[t].addr] = cb[t].name
    BY <1>6 DEF EndStore, Pinned, Running
  <2>5. CASE a = cb[t].addr
    BY <2>1, <2>3, <2>4, <2>5
  <2>6. CASE a # cb[t].addr
    <3>1. Quiet(a)
      BY <2>1, <2>2, <2>6
    <3> QED
      BY <1>k, <2>1, <2>3, <2>6, <3>1
  <2> QED
    BY <2>5, <2>6
<1>7. CASE EnableEvent
  BY <1>7 DEF EnableEvent
<1>8. CASE GenerateEvents
  <2>1. PICK b \in todo : /\ todo' = todo \ {b}
                          /\ IF code[b] # None THEN Begin(Loader, b, code[b]) ELSE UNCHANGED cb
    BY <1>8 DEF GenerateEvents
  <2>2. ~Running(Loader) /\ UNCHANGED <<code, pending, event, SYM_MAP, damaged>>
    BY <1>8 DEF GenerateEvents
  <2>3. CASE code[b] # None
    BY <1>b, <1>k, <2>1, <2>2, <2>3, LoaderAssumption
  <2>4. CASE code[b] = None
    BY <1>k, <2>1, <2>2, <2>4
  <2> QED
    BY <2>3, <2>4
<1>9. CASE EndSetup
  BY <1>9, <1>u DEF EndSetup
<1>10. CASE StartBPF \/ StopBPF \/ Detach \/ EndReport \/ Find \/ NameFromStack
  BY <1>10, <1>u DEF StartBPF, StopBPF, Detach, EndReport, Find, NameFromStack, Name, Access
<1>11. CASE NameFromMap
  <2>1. damaged => damaged'
    BY <1>11 DEF NameFromMap, Access
  <2>2. SYM_MAP' = SYM_MAP
    BY <1>11, <2>1 DEF NameFromMap, MapSound
  <2> QED
    BY <1>11, <1>u, <2>1, <2>2 DEF NameFromMap, Name
<1>12. CASE Spill \/ Sample \/ closeAllFiles \/ VMExit \/ UNCHANGED vars
  BY <1>12, <1>u DEF Spill, Sample, closeAllFiles, VMExit, vars
<1>13. CASE Agent_OnUnload
  BY <1>13 DEF Agent_OnUnload
<1> QED
  BY <1>1, <1>2, <1>3, <1>4, <1>5, <1>6, <1>7, <1>8, <1>9, <1>10, <1>11, <1>12, <1>13
     DEF Next, Callback, Profile

\* What is flushed at the end of a window stays in the file.
LEMMA OwedStep == Types /\ Phases /\ Owed /\ [Next]_vars => Owed'
<1> SUFFICES ASSUME Types, Phases, Owed, [Next]_vars PROVE Owed'
  OBVIOUS
<1> USE DEF Types, Owed, Lines, jvmVars, mapVars, fileVars, rowVars, endVars
<1>k. ASSUME UNCHANGED <<due, row, file>>, pc = "report" => pc' = "report",
             out_perf' = "closed" => out_perf = "closed" /\ buffer' = buffer
      PROVE  Owed'
  BY <1>k
<1>1. ASSUME NEW a \in Addrs, CompiledMethodUnload(a) \/ \E m \in Methods : Compile(a, m)
      PROVE  Owed'
  BY <1>1, <1>k DEF CompiledMethodUnload, Compile
<1>2. ASSUME NEW t \in Threads, Callback(t) PROVE Owed'
  BY <1>2, <1>k DEF Callback, CompiledMethodLoad, DynamicCodeGenerated, PrintLine, StartStore,
                    EndStore
<1>3. CASE Spill \/ closeAllFiles
  BY <1>3 DEF Spill, closeAllFiles, Flush
<1>4. CASE EnableEvent \/ GenerateEvents \/ EndSetup \/ StartBPF \/ Sample \/ Detach
  BY <1>4, <1>k DEF EnableEvent, GenerateEvents, EndSetup, StartBPF, Sample, Detach
<1>5. CASE StopBPF
  <2>1. due' \subseteq Lines
    BY <1>5 DEF StopBPF, Announced
  <2>2. Lines = file' /\ (out_perf' = "closed" => buffer' = {})
    BY <1>5 DEF StopBPF, Flush, Phases
  <2>3. row' = row /\ pc' = "flushed" /\ row = NoRow
    BY <1>5 DEF StopBPF
  <2> QED
    BY <2>1, <2>2, <2>3
<1>6. CASE Find
  <2>1. UNCHANGED <<due, file, buffer, out_perf>> /\ pc' = "report"
    BY <1>6 DEF Find
  <2>2. row'.addr \in Addrs
    BY <1>6 DEF Find
  <2> QED
    BY <2>1, <2>2
<1>7. CASE NameFromMap \/ NameFromStack
  BY <1>7 DEF NameFromMap, NameFromStack, Name
<1>8. CASE EndReport
  BY <1>8 DEF EndReport
<1>9. CASE Agent_OnUnload \/ VMExit \/ UNCHANGED vars
  BY <1>9, <1>k DEF Agent_OnUnload, VMExit, vars
<1> QED
  BY <1>1, <1>2, <1>3, <1>4, <1>5, <1>6, <1>7, <1>8, <1>9 DEF Next, Profile

-----------------------------------------------------------------------------
\* The invariant.
SInv ==
    /\ Types /\ Pinned /\ Phases /\ Printed /\ Covered /\ InFlight /\ MapSound
    /\ Lived /\ Fresh /\ Owed

LEMMA SInvInit == Init => SInv
<1> SUFFICES ASSUME Init PROVE SInv
  OBVIOUS
<1> USE DEF Init
<1>1. Pinned
  BY DEF Pinned, Running, Idle
<1>2. Phases /\ Printed /\ Covered
  BY DEF Phases, Printed, Covered, Idle
<1>3. InFlight /\ MapSound
  BY DEF InFlight, Running, Idle, MapSound, NoRow, NotNamed, None, Empty
<1>4. Lived /\ Fresh /\ Owed
  BY DEF Lived, Lines, Fresh, Owed
<1> QED
  BY <1>1, <1>2, <1>3, <1>4, TypesInit DEF SInv

LEMMA SInvStep == SInv /\ [Next]_vars => SInv'
  BY TypesStep, PinnedStep, PhasesStep, PrintedStep, CoveredStep, InFlightStep, MapSoundStep,
     LivedStep, FreshStep, OwedStep
     DEF SInv

LEMMA SymbolsInvariant == Spec => []SInv
  BY SInvInit, SInvStep, PTL DEF Spec

\* A row that is owed its name gets it, from the map or from the file.
LEMMA NamesStep == SInv /\ RowsGetTheirNames /\ [Next]_vars => RowsGetTheirNames'
<1> SUFFICES ASSUME SInv, RowsGetTheirNames, [Next]_vars PROVE RowsGetTheirNames'
  OBVIOUS
<1> USE NamesAssumption DEF RowsGetTheirNames, jvmVars, mapVars, fileVars, rowVars, endVars
<1>k. ASSUME named' = named, damaged => damaged' PROVE RowsGetTheirNames'
  BY <1>k
<1>1. ASSUME NEW a \in Addrs, CompiledMethodUnload(a) \/ \E m \in Methods : Compile(a, m)
      PROVE  RowsGetTheirNames'
  BY <1>1, <1>k DEF CompiledMethodUnload, Compile
<1>2. ASSUME NEW t \in Threads, Callback(t) PROVE RowsGetTheirNames'
  BY <1>2, <1>k DEF Callback, CompiledMethodLoad, DynamicCodeGenerated, PrintLine, StartStore,
                    Access, EndStore
<1>3. CASE Spill \/ Sample \/ EnableEvent \/ GenerateEvents \/ EndSetup \/ StartBPF \/ StopBPF \/ Detach
  BY <1>3, <1>k DEF Spill, Sample, EnableEvent, GenerateEvents, EndSetup, StartBPF, StopBPF, Detach
<1>4. CASE Find \/ EndReport
  BY <1>4 DEF Find, EndReport, NotNamed
<1>5. CASE NameFromMap
  <2>1. /\ damaged => damaged'
        /\ named'.method = row.method /\ named'.name = SYM_MAP'[row.addr]
        /\ row.hit /\ row.addr \in Addrs
    <3>1. damaged => damaged'
      BY <1>5 DEF NameFromMap, Access
    <3>2. named'.method = row.method /\ named'.name = SYM_MAP'[row.addr]
      BY <1>5 DEF NameFromMap, Name
    <3>3. row.hit /\ row.addr \in Addrs
      BY <1>5 DEF NameFromMap, NoRow, SInv, Owed
    <3> QED
      BY <3>1, <3>2, <3>3
  <2>2. ASSUME SYM_MAP[row.addr] \in {None, Empty} PROVE RowsGetTheirNames'
    <3>1. damaged' /\ SYM_MAP'[row.addr] = Empty
      BY <1>5, <2>1, <2>2 DEF NameFromMap, SInv, MapSound, Types
    <3> QED
      BY <2>1, <3>1
  <2>3. ASSUME SYM_MAP[row.addr] \notin {None, Empty} PROVE RowsGetTheirNames'
    <3>1. SYM_MAP'[row.addr] = SYM_MAP[row.addr]
      BY <1>5, <2>1, <2>3 DEF NameFromMap, SInv, Types
    <3>2. CASE lived[row.addr] = {row.method}
      BY <2>1, <2>3, <3>1, <3>2 DEF SInv, Lived
    <3>3. CASE /\ ~damaged /\ unload = "no"
               /\ code[row.addr] = row.method /\ Quiet(row.addr) /\ row.method # None
      <4>1. event /\ row.addr \notin todo
        BY <2>1, <3>3 DEF SInv, Owed, Phases, NoRow
      <4> QED
        BY <2>1, <3>1, <3>3, <4>1 DEF SInv, Fresh
    <3>4. CASE ~named'.owed
      BY <3>4
    <3>5. named'.owed => lived[row.addr] = {row.method}
                          \/ /\ ~damaged /\ unload = "no"
                             /\ code[row.addr] = row.method /\ Quiet(row.addr)
      BY <1>5 DEF NameFromMap, Name
    <3>6. CASE row.method = None
      <4>1. CASE named'.owed
        <5>1. <<row.addr, row.method>> \in file
          BY <1>5, <4>1 DEF NameFromMap, Name, SInv, Owed
        <5> QED
          BY <2>1, <3>6, <5>1 DEF SInv, Lived, Lines
      <4> QED
        BY <3>4, <4>1
    <3> QED
      BY <3>2, <3>3, <3>4, <3>5, <3>6
  <2> QED
    BY <2>2, <2>3
<1>6. CASE NameFromStack
  <2>1. PICK n : Name(n) /\ (row.stack = "user" => n \in PerfMap(row.addr))
    BY <1>6 DEF NameFromStack
  <2>2. ~row.hit /\ row.addr \in Addrs
    BY <1>6 DEF NameFromStack, SInv, Owed
  <2>3. CASE named'.owed
    <3>1. /\ <<row.addr, row.method>> \in file /\ lived[row.addr] = {row.method}
          /\ row.stack = "user"
      BY <2>1, <2>2, <2>3 DEF Name, SInv, Owed
    <3>2. n = row.method
      BY <2>1, <2>2, <3>1 DEF PerfMap, SInv, Lived, Lines
    <3> QED
      BY <2>1, <3>2 DEF Name
  <2>4. CASE ~named'.owed
    BY <2>4
  <2> QED
    BY <2>3, <2>4
<1>7. CASE Agent_OnUnload \/ closeAllFiles \/ VMExit \/ UNCHANGED vars
  BY <1>7, <1>k DEF Agent_OnUnload, closeAllFiles, VMExit, vars
<1> QED
  BY <1>1, <1>2, <1>3, <1>4, <1>5, <1>6, <1>7 DEF Next, Profile

\* A row whose method was announced at the flush, and whose address has not been
\* used otherwise, is printed under the name of its method, unless SYM_MAP broke.
THEOREM NamesRight == Spec => []RowsGetTheirNames
<1>1. Init => RowsGetTheirNames
  BY DEF Init, RowsGetTheirNames, NotNamed
<1> QED
  BY <1>1, NamesStep, SymbolsInvariant, PTL DEF Spec

\* Once setup_jvmti is over, all the code there is has been announced or is about
\* to be, however much is compiled and freed, before and after.
THEOREM AllAnnounced == Spec => []EveryMethodAnnounced
<1>1. SInv => EveryMethodAnnounced
  BY DEF SInv, Phases, Covered, EveryMethodAnnounced
<1> QED
  BY <1>1, SymbolsInvariant, PTL

\* A row has an empty name only where accesses to SYM_MAP have overlapped.
THEOREM NamesNotEmpty == Spec => []NoEmptyName
<1>1. SInv => NoEmptyName
  BY DEF SInv, MapSound, NoEmptyName
<1> QED
  BY <1>1, SymbolsInvariant, PTL

\* Whoever uses the closed perf map was in a callback when Agent_OnUnload disabled
\* them: closing after disabling is not enough, but nothing new begins.
THEOREM LateOnlyInFlight == Spec => []LateLinesWereInFlight
<1>1. SInv => LateLinesWereInFlight
  BY DEF SInv, InFlight, LateLinesWereInFlight
<1> QED
  BY <1>1, SymbolsInvariant, PTL
=============================================================================
