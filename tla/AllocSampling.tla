--------------------------- MODULE AllocSampling ---------------------------
(***************************************************************************)
(* Allocation sampling (sample_alloc): the JVM calls SampledObjectAlloc on *)
(* the allocating thread; profile() sleeps, and PrintAlloc goes through    *)
(* the two maps and closes the log while the callbacks go on.              *)
(*                                                                         *)
(* operator[] of a std::map inserts a node for a key without one and then  *)
(* gives access to its count.  MEM_MAP is changed under the raw monitor    *)
(* tree_lock; ALLOC_SIZE_MAP, kept for the objects of one watched class,   *)
(* without it: loads and stores of two threads may interleave, and so may  *)
(* insertions, which is undefined: here the tree is damaged, and nodes may *)
(* get lost.  PrintAlloc takes no lock: its iterator may move while a tree *)
(* is rebalanced, and then it may get to any node, or to the end.  (Either *)
(* can also crash the process or go round in circles for ever.)            *)
(***************************************************************************)
EXTENDS Integers, Sequences, FiniteSets

CONSTANTS
    Threads,    \* the allocating threads
    Rows,       \* the keys of MEM_MAP, "method(class)", numbered in their order
    Watched,    \* the rows of the class in alloc_class_size
    Sizes,      \* the sizes of its objects
    MaxInt,     \* the largest int (2^31 - 1 in the code)
    N,          \* SAMPLE_ALLOC_N, the rows to be printed
    MaxLines,   \* bound: the sizes printed
    MaxEvents   \* bound: the callbacks

\* A size is a jlong, and the key of ALLOC_SIZE_MAP an int.
Key(s) == ((s + MaxInt + 1) % (2 * MaxInt + 2)) - (MaxInt + 1)
Keys   == {Key(s) : s \in Sizes}
Nobody == "nobody"

ASSUME KeysAssumption == Rows \subseteq Nat \ {0} /\ Watched \subseteq Rows
ASSUME SizesAssumption == Sizes \subseteq Nat /\ MaxInt \in Nat
ASSUME AllocBounds == N \in Nat /\ MaxLines \in Nat /\ MaxEvents \in Nat
ASSUME NobodyAssumption == Nobody \notin Threads

VARIABLES
    at,         \* where the callback of each thread is
    row,        \* the row of its object
    size,       \* the size of its object
    seen,       \* the count it has loaded
    lock,       \* the owner of tree_lock
    rowNodes, MEM_MAP,          \* the nodes of MEM_MAP, and the counts, 0 without a node
    sizeNodes, ALLOC_SIZE_MAP,  \* those of ALLOC_SIZE_MAP
    damaged,    \* insertions into ALLOC_SIZE_MAP have overlapped
    printer,    \* where profile() is: "sleep", "rows", "sizes", "done"
    pos,        \* the key its iterator is at
    torn,       \* history: it has moved in MEM_MAP during an insertion
    printedRows, printedSizes,
    events,     \* history: the callbacks begun
    sampled,    \* history: the callbacks that have counted their row
    ofSize,     \* history: the callbacks for the watched class, by the key of the size
    atStart     \* history: MEM_MAP when PrintAlloc began

rowVars   == <<lock, rowNodes, MEM_MAP, sampled>>
sizeVars  == <<sizeNodes, ALLOC_SIZE_MAP, damaged, ofSize>>
objVars   == <<row, size, events>>
callVars  == <<at, seen, objVars, rowVars, sizeVars>>
printVars == <<printer, pos, torn, printedRows, printedSizes, atStart>>
vars == <<callVars, printVars>>

Zero(S) == [x \in S |-> 0]
Before  == -(MaxInt + 2)    \* less than any key

Init ==
    /\ at = [t \in Threads |-> "run"]
    /\ row = Zero(Threads) /\ size = Zero(Threads) /\ seen = Zero(Threads)
    /\ lock = Nobody
    /\ rowNodes = {} /\ MEM_MAP = Zero(Rows)
    /\ sizeNodes = {} /\ ALLOC_SIZE_MAP = Zero(Keys) /\ damaged = FALSE
    /\ printer = "sleep" /\ pos = Before /\ torn = FALSE
    /\ printedRows = <<>> /\ printedSizes = <<>>
    /\ events = 0 /\ sampled = Zero(Rows) /\ atStart = Zero(Rows)
    /\ ofSize = Zero(Keys)

-----------------------------------------------------------------------------
\* SampledObjectAlloc

Goto(t, from, to) == at[t] = from /\ at' = [at EXCEPT ![t] = to]

KeyOf(t) == Key(size[t])

\* A map whose operator[] puts callbacks at p is being changed.
Inserting(p) == \E t \in Threads : at[t] = p

\* An object is sampled: the names of its class and of the method are looked up.
SampledObjectAlloc(t) ==
    /\ events < MaxEvents
    /\ events' = events + 1
    /\ \E r \in Rows :
          /\ row' = [row EXCEPT ![t] = r]
          /\ \/ /\ r \in Watched /\ Goto(t, "run", "index")
                /\ \E s \in Sizes : /\ size' = [size EXCEPT ![t] = s]
                                   /\ ofSize' = [ofSize EXCEPT ![Key(s)] = @ + 1]
             \/ r \notin Watched /\ Goto(t, "run", "enter") /\ UNCHANGED <<size, ofSize>>
    /\ UNCHANGED <<seen, rowVars, sizeNodes, ALLOC_SIZE_MAP, damaged, printVars>>

\* operator[] finds the node, and its count is loaded ...
FindSize(t) ==
    /\ Goto(t, "index", "store")
    /\ KeyOf(t) \in sizeNodes
    /\ seen' = [seen EXCEPT ![t] = ALLOC_SIZE_MAP[KeyOf(t)]]
    /\ UNCHANGED <<objVars, rowVars, sizeVars, printVars>>

\* ... or it finds none, as it may when another thread is inserting, and begins to
\* insert one.
MissSize(t) ==
    /\ Goto(t, "index", "insert size")
    /\ KeyOf(t) \notin sizeNodes \/ Inserting("insert size")
    /\ damaged' = (damaged \/ Inserting("insert size"))
    /\ UNCHANGED <<objVars, seen, rowVars, sizeNodes, ALLOC_SIZE_MAP, ofSize, printVars>>

InsertSize(t) ==
    /\ Goto(t, "insert size", "store")
    /\ \E lost \in IF damaged THEN SUBSET (sizeNodes \cup {KeyOf(t)}) ELSE {{}} :
          /\ sizeNodes' = (sizeNodes \cup {KeyOf(t)}) \ lost
          /\ ALLOC_SIZE_MAP' = [k \in Keys |-> IF k \in lost THEN 0 ELSE ALLOC_SIZE_MAP[k]]
          /\ seen' = [seen EXCEPT ![t] = ALLOC_SIZE_MAP'[KeyOf(t)]]
    /\ UNCHANGED <<objVars, rowVars, damaged, ofSize, printVars>>

StoreSize_Twice(t) ==
    /\ Goto(t, "store", "enter")
    /\ ALLOC_SIZE_MAP' = [ALLOC_SIZE_MAP EXCEPT ![KeyOf(t)] = seen[t] + 2]
    /\ UNCHANGED <<objVars, seen, rowVars, sizeNodes, damaged, ofSize, printVars>>

\* The node may have got lost meanwhile.
StoreSize(t) ==
    /\ Goto(t, "store", "enter")
    /\ \/ /\ KeyOf(t) \in sizeNodes
          /\ ALLOC_SIZE_MAP' = [ALLOC_SIZE_MAP EXCEPT ![KeyOf(t)] = seen[t] + 1]
       \/ damaged /\ UNCHANGED ALLOC_SIZE_MAP
    /\ UNCHANGED <<objVars, seen, rowVars, sizeNodes, damaged, ofSize, printVars>>

\* operator[] of MEM_MAP, up to an insertion or to the load of the count.
IndexRow(t) ==
    /\ IF row[t] \in rowNodes
       THEN Goto(t, "enter", "locked") /\ seen' = [seen EXCEPT ![t] = MEM_MAP[row[t]]]
       ELSE Goto(t, "enter", "insert row") /\ UNCHANGED seen
    /\ UNCHANGED <<objVars, rowNodes, MEM_MAP, sampled, sizeVars, printVars>>

RawMonitorEnter_NoLock(t) == IndexRow(t) /\ UNCHANGED lock

RawMonitorEnter(t) == IndexRow(t) /\ lock = Nobody /\ lock' = t

InsertRow(t) ==
    /\ Goto(t, "insert row", "locked")
    /\ rowNodes' = rowNodes \cup {row[t]}
    /\ seen' = [seen EXCEPT ![t] = MEM_MAP[row[t]]]
    /\ UNCHANGED <<objVars, lock, MEM_MAP, sampled, sizeVars, printVars>>

\* The row's count is stored.
CountRow(t) ==
    /\ Goto(t, "locked", "exit")
    /\ MEM_MAP' = [MEM_MAP EXCEPT ![row[t]] = seen[t] + 1]
    /\ sampled' = [sampled EXCEPT ![row[t]] = @ + 1]
    /\ UNCHANGED <<objVars, seen, lock, rowNodes, sizeVars, printVars>>

\* The callback returns, and its local variables are gone.
Return(t) ==
    /\ Goto(t, "exit", "run")
    /\ row' = [row EXCEPT ![t] = 0]
    /\ size' = [size EXCEPT ![t] = 0]
    /\ seen' = [seen EXCEPT ![t] = 0]
    /\ UNCHANGED <<events, rowNodes, MEM_MAP, sampled, sizeVars, printVars>>

RawMonitorExit_Missing(t) == Return(t) /\ UNCHANGED lock

RawMonitorExit(t) == Return(t) /\ lock' = Nobody

-----------------------------------------------------------------------------
\* StopAlloc and PrintAlloc

\* sleep(DURATION) is over.
StartPrint ==
    /\ printer = "sleep"
    /\ printer' = "rows"
    /\ atStart' = MEM_MAP
    /\ UNCHANGED <<callVars, pos, torn, printedRows, printedSizes>>

\* The node behind the iterator.
NextNode(nodes) == {k \in nodes : k > pos /\ \A l \in nodes : l > pos => k <= l}

\* The nodes of MEM_MAP that the iterator may get to.
RowSteps ==
    IF Inserting("insert row")
    THEN rowNodes \cup {row[t] : t \in {u \in Threads : at[u] = "insert row"}}
    ELSE NextNode(rowNodes)

PrintRow_SameNode ==
    /\ printer = "rows" /\ Len(printedRows) < N
    /\ \E r \in RowSteps :
          printedRows' = Append(printedRows, [row |-> r, count |-> MEM_MAP[r]])
    /\ torn' = (torn \/ Inserting("insert row"))
    /\ UNCHANGED <<callVars, printer, pos, printedSizes, atStart>>

\* The iterator moves, and the node it is at is printed.
PrintRow ==
    /\ printer = "rows" /\ Len(printedRows) < N
    /\ \E r \in RowSteps :
          /\ pos' = r
          /\ printedRows' = Append(printedRows, [row |-> r, count |-> MEM_MAP[r]])
    /\ torn' = (torn \/ Inserting("insert row"))
    /\ UNCHANGED <<callVars, printer, printedSizes, atStart>>

RowsPrinted ==
    /\ printer = "rows"
    /\ \/ Len(printedRows) >= N /\ UNCHANGED torn
       \/ Inserting("insert row") /\ torn' = TRUE
       \/ NextNode(rowNodes) = {} /\ ~Inserting("insert row") /\ UNCHANGED torn
    /\ printer' = "sizes" /\ pos' = Before
    /\ UNCHANGED <<callVars, printedRows, printedSizes, atStart>>

\* ALLOC_SIZE_MAP is in no order.
SizesBroken == damaged \/ Inserting("insert size")

SizeSteps ==
    IF SizesBroken
    THEN sizeNodes \cup {KeyOf(t) : t \in {u \in Threads : at[u] = "insert size"}}
    ELSE NextNode(sizeNodes)

PrintSize ==
    /\ printer = "sizes" /\ Len(printedSizes) < MaxLines
    /\ \E k \in SizeSteps :
          /\ pos' = k
          /\ printedSizes' = Append(printedSizes, [size |-> k, count |-> ALLOC_SIZE_MAP[k]])
    /\ UNCHANGED <<callVars, printer, torn, printedRows, atStart>>

\* The log is closed and profile() returns.
EndPrint ==
    /\ printer = "sizes"
    /\ SizesBroken \/ NextNode(sizeNodes) = {} \/ Len(printedSizes) = MaxLines
    /\ printer' = "done" /\ pos' = Before
    /\ UNCHANGED <<callVars, torn, printedRows, printedSizes, atStart>>

Callback(t) ==
    \/ FindSize(t) \/ MissSize(t) \/ InsertSize(t) \/ StoreSize(t)
    \/ RawMonitorEnter(t) \/ InsertRow(t) \/ CountRow(t) \/ RawMonitorExit(t)

PrintAlloc == StartPrint \/ PrintRow \/ RowsPrinted \/ PrintSize \/ EndPrint

Idle == \A t \in Threads : at[t] = "run"

Finished == Idle /\ events = MaxEvents /\ printer = "done" /\ UNCHANGED vars

Next ==
    \/ \E t \in Threads : SampledObjectAlloc(t) \/ Callback(t)
    \/ PrintAlloc
    \/ Finished

Spec == Init /\ [][Next]_vars

\* A thread of the JVM that is in a callback goes on with it.
FairSpec == Spec /\ \A t \in Threads : WF_vars(Callback(t))

-----------------------------------------------------------------------------
\* Properties

\* The type invariant; a report has lines for keys of the maps only.
TypeOK ==
    /\ at \in [Threads -> {"run", "index", "insert size", "store",
                           "enter", "insert row", "locked", "exit"}]
    /\ row \in [Threads -> Rows \cup {0}] /\ size \in [Threads -> Sizes \cup {0}]
    /\ \A t \in Threads :
          /\ at[t] # "run" => row[t] \in Rows
          /\ at[t] \in {"index", "insert size", "store"} => size[t] \in Sizes
    /\ seen \in [Threads -> Nat] /\ lock \in Threads \cup {Nobody}
    /\ rowNodes \subseteq Rows /\ MEM_MAP \in [Rows -> Nat]
    /\ sizeNodes \subseteq Keys /\ ALLOC_SIZE_MAP \in [Keys -> Nat] /\ damaged \in BOOLEAN
    /\ printer \in {"sleep", "rows", "sizes", "done"} /\ pos \in Int /\ torn \in BOOLEAN
    /\ printedRows \in Seq([row : Rows, count : Nat]) /\ Len(printedRows) <= N
    /\ printedSizes \in Seq([size : Keys, count : Nat])
    /\ events \in 0..MaxEvents /\ sampled \in [Rows -> Nat] /\ ofSize \in [Keys -> Nat]
    /\ atStart \in [Rows -> Nat]

\* The count of a row is exact however many threads allocate at once: no
\* increment of MEM_MAP is lost.
RowsExact == MEM_MAP = sampled

\* The callbacks that have still to count an object with a key.
Pending(k) == {t \in Threads : at[t] \in {"index", "insert size", "store"} /\ KeyOf(t) = k}

\* Increments of ALLOC_SIZE_MAP can be lost, and its counts even fall; but a key is
\* never counted, nor printed, more often than objects of the class had a size with
\* it, and unless insertions overlapped no key that a callback has counted is missing.
SizesNeverOvercount ==
    /\ \A k \in Keys :
          /\ ALLOC_SIZE_MAP[k] + Cardinality(Pending(k)) <= ofSize[k]
          /\ ~damaged =>
                (Cardinality(Pending(k)) < ofSize[k] => ALLOC_SIZE_MAP[k] > 0 /\ k \in sizeNodes)
    /\ \A i \in DOMAIN printedSizes : printedSizes[i].count <= ofSize[printedSizes[i].size]

\* The rows the report has gone past: with fewer than N lines it has seen them all.
Passed ==
    CASE printer = "sleep" -> {}
      [] printer = "rows"  -> {r \in Rows : r <= pos}
      [] OTHER             -> IF Len(printedRows) < N THEN Rows ELSE {}

\* PrintAlloc reads the map while it grows.  Unless its iterator moved during an
\* insertion, the rows it prints are nevertheless different rows, each with a count
\* the row had between the beginning of the report and now, and until the limit is
\* reached no row passed is missing that had been counted when it began.
ReportIsConsistent ==
    ~torn =>
        /\ \A i \in DOMAIN printedRows :
              /\ atStart[printedRows[i].row] <= printedRows[i].count
              /\ printedRows[i].count <= MEM_MAP[printedRows[i].row]
              /\ \A j \in 1..(i - 1) : printedRows[i].row # printedRows[j].row
        /\ \A r \in Passed : atStart[r] > 0 => \E i \in DOMAIN printedRows : printedRows[i].row = r

\* A callback that has begun ends, unless it searches in a damaged ALLOC_SIZE_MAP:
\* tree_lock is always given back, and the thread of the program goes on.
CallbacksEnd == \A t \in Threads : (at[t] # "run") ~> (at[t] = "run" \/ damaged)

=============================================================================
