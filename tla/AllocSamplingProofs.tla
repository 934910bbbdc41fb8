------------------------ MODULE AllocSamplingProofs ------------------------
(***************************************************************************)
(* Proofs about module AllocSampling, for any number of threads, rows,     *)
(* sizes and callbacks: tree_lock makes the counts of MEM_MAP exact, a     *)
(* report is consistent unless its iterator moved during an insertion, and *)
(* the counts of ALLOC_SIZE_MAP are lower bounds, of all that was counted  *)
(* unless insertions overlapped.                                           *)
(***************************************************************************)
EXTENDS AllocSampling, FiniteSetTheorems, NaturalsInduction, TLAPS

Places == {"run", "index", "insert size", "store", "enter", "insert row", "locked", "exit"}

\* The two halves of TypeOK.
CallTypes ==
    /\ at \in [Threads -> Places]
    /\ row \in [Threads -> Rows \cup {0}] /\ size \in [Threads -> Sizes \cup {0}]
    /\ \A t \in Threads :
          /\ at[t] # "run" => row[t] \in Rows
          /\ at[t] \in {"index", "insert size", "store"} => size[t] \in Sizes
    /\ seen \in [Threads -> Nat] /\ lock \in Threads \cup {Nobody}
    /\ rowNodes \subseteq Rows /\ MEM_MAP \in [Rows -> Nat]
    /\ sizeNodes \subseteq Keys /\ ALLOC_SIZE_MAP \in [Keys -> Nat] /\ damaged \in BOOLEAN
    /\ events \in 0..MaxEvents /\ sampled \in [Rows -> Nat] /\ ofSize \in [Keys -> Nat]

PrintTypes ==
    /\ printer \in {"sleep", "rows", "sizes", "done"} /\ pos \in Int /\ torn \in BOOLEAN
    /\ printedRows \in Seq([row : Rows, count : Nat]) /\ Len(printedRows) <= N
    /\ printedSizes \in Seq([size : Keys, count : Nat])
    /\ atStart \in [Rows -> Nat]

\* Only the owner of the monitor is in MEM_MAP, so what it has loaded is still the
\* count, and what is counted has a node.
IInv ==
    /\ RowsExact
    /\ \A t \in Threads : at[t] \in {"insert row", "locked", "exit"} => lock = t
    /\ \A t \in Threads :
          at[t] = "locked" => seen[t] = MEM_MAP[row[t]] /\ row[t] \in rowNodes
    /\ \A r \in Rows : MEM_MAP[r] > 0 => r \in rowNodes

\* What PrintAlloc has printed so far, against the map it goes through.
Printed ==
    /\ printer = "sleep" => printedRows = <<>> /\ pos = Before /\ ~torn
    /\ printer # "sleep" => \A r \in Rows : atStart[r] <= MEM_MAP[r]
    /\ printer = "rows" /\ ~torn => \A i \in DOMAIN printedRows : printedRows[i].row <= pos

PInv == CallTypes /\ PrintTypes /\ IInv /\ Printed /\ ReportIsConsistent

-----------------------------------------------------------------------------
\* A size has an int for a key.
LEMMA KeysInt == Before \in Int /\ Keys \subseteq Int
<1>1. ASSUME NEW s \in Sizes PROVE Key(s) \in Int
  <2>1. s \in Nat /\ MaxInt \in Nat
    BY SizesAssumption
  <2>2. (s + MaxInt + 1) % (2 * MaxInt + 2) \in Int
    BY <2>1
  <2> QED
    BY <2>1, <2>2 DEF Key
<1> QED
  BY <1>1, SizesAssumption DEF Keys, Before

\* The rows are numbered.
LEMMA RowsNat == Rows \subseteq Nat /\ Rows \subseteq Int /\ \A r \in Rows : r > 0
  BY KeysAssumption

\* A set of numbers that is not empty has a least one.
LEMMA Smallest ==
    ASSUME NEW S \in SUBSET Nat, S # {}
    PROVE  \E i \in S : \A j \in S : i <= j
<1>1. PICK i \in S : \A j \in S : <<j, i>> \notin OpToRel(<, Nat)
  BY WFMin, NatLessThanWellFounded, Zenon
<1>2. \A j \in S : ~(j < i)
  BY <1>1, Zenon DEF OpToRel
<1> QED
  BY <1>2

\* A sequence as a function.
LEMMA SeqElements ==
    ASSUME NEW S, NEW s \in Seq(S)
    PROVE  Len(s) \in Nat /\ DOMAIN s = 1..Len(s) /\ \A i \in DOMAIN s : s[i] \in S
  OBVIOUS

\* Appending to a sequence.
LEMMA SeqAppend ==
    ASSUME NEW S, NEW s \in Seq(S), NEW e \in S
    PROVE  /\ Append(s, e) \in Seq(S)
           /\ Len(Append(s, e)) = Len(s) + 1
           /\ DOMAIN Append(s, e) = DOMAIN s \cup {Len(s) + 1}
           /\ Append(s, e)[Len(s) + 1] = e
           /\ \A i \in DOMAIN s : Append(s, e)[i] = s[i]
  OBVIOUS

\* The rows printed, as a function.
LEMMA PrintedRows ==
    PrintTypes => /\ Len(printedRows) \in Nat /\ DOMAIN printedRows = 1..Len(printedRows)
                  /\ \A i \in DOMAIN printedRows : /\ printedRows[i].row \in Rows
                                                   /\ printedRows[i].count \in Nat
<1> SUFFICES ASSUME PrintTypes
             PROVE  /\ Len(printedRows) \in Nat /\ DOMAIN printedRows = 1..Len(printedRows)
                    /\ \A i \in DOMAIN printedRows : /\ printedRows[i].row \in Rows
                                                     /\ printedRows[i].count \in Nat
  OBVIOUS
<1>1. printedRows \in Seq([row : Rows, count : Nat])
  BY DEF PrintTypes
<1>2. /\ Len(printedRows) \in Nat /\ DOMAIN printedRows = 1..Len(printedRows)
      /\ \A i \in DOMAIN printedRows : printedRows[i] \in [row : Rows, count : Nat]
  BY <1>1, SeqElements, Zenon
<1> QED
  BY <1>2

-----------------------------------------------------------------------------
\* The steps of a callback

\* What a callback leaves alone.
LEMMA CallbackLeaves ==
    ASSUME NEW t \in Threads, SampledObjectAlloc(t) \/ Callback(t)
    PROVE  UNCHANGED printVars
  BY DEF SampledObjectAlloc, Callback, FindSize, MissSize, InsertSize, StoreSize,
         RawMonitorEnter, IndexRow, InsertRow, CountRow, RawMonitorExit, Return

\* The types of a callback.
LEMMA CallbackTypes ==
    ASSUME CallTypes, NEW t \in Threads, SampledObjectAlloc(t) \/ Callback(t)
    PROVE  CallTypes'
<1>a. /\ at \in [Threads -> Places]
      /\ row \in [Threads -> Rows \cup {0}] /\ size \in [Threads -> Sizes \cup {0}]
      /\ \A u \in Threads : at[u] # "run" => row[u] \in Rows
      /\ \A u \in Threads : at[u] \in {"index", "insert size", "store"} => size[u] \in Sizes
  BY DEF CallTypes
<1>s. seen \in [Threads -> Nat] /\ lock \in Threads \cup {Nobody}
  BY DEF CallTypes
<1>m. rowNodes \subseteq Rows /\ MEM_MAP \in [Rows -> Nat] /\ sampled \in [Rows -> Nat]
  BY DEF CallTypes
<1>z. /\ sizeNodes \subseteq Keys /\ ALLOC_SIZE_MAP \in [Keys -> Nat] /\ damaged \in BOOLEAN
      /\ ofSize \in [Keys -> Nat]
  BY DEF CallTypes
<1>e. events \in 0..MaxEvents
  BY DEF CallTypes
<1>k. ASSUME at' \in [Threads -> Places],
             at'[t] \in {"index", "insert size", "store"} => at[t] \in {"index", "insert size", "store"},
             at[t] # "run", \A u \in Threads : u # t => at'[u] = at[u], UNCHANGED objVars
      PROVE  /\ at' \in [Threads -> Places]
             /\ row' \in [Threads -> Rows \cup {0}] /\ size' \in [Threads -> Sizes \cup {0}]
             /\ \A u \in Threads :
                   /\ at'[u] # "run" => row'[u] \in Rows
                   /\ at'[u] \in {"index", "insert size", "store"} => size'[u] \in Sizes
             /\ events' \in 0..MaxEvents
  BY <1>a, <1>e, <1>k DEF objVars
<1>1. CASE SampledObjectAlloc(t)
  <2>1. PICK r \in Rows :
          /\ row' = [row EXCEPT ![t] = r]
          /\ \/ /\ r \in Watched /\ Goto(t, "run", "index")
                /\ \E s \in Sizes : /\ size' = [size EXCEPT ![t] = s]
                                    /\ ofSize' = [ofSize EXCEPT ![Key(s)] = @ + 1]
             \/ r \notin Watched /\ Goto(t, "run", "enter") /\ UNCHANGED <<size, ofSize>>
    BY <1>1 DEF SampledObjectAlloc
  <2>2. events' \in 0..MaxEvents
    BY <1>1, <1>e, AllocBounds DEF SampledObjectAlloc
  <2>3. ofSize' \in [Keys -> Nat]
    BY <1>z, <2>1 DEF Keys
  <2>4. /\ size' \in [Threads -> Sizes \cup {0}]
        /\ at'[t] = "index" => size'[t] \in Sizes
        /\ \A u \in Threads : u # t => size'[u] = size[u]
    BY <1>a, <2>1 DEF Goto
  <2>5. /\ at' \in [Threads -> Places] /\ at'[t] \in {"index", "enter"}
        /\ \A u \in Threads : u # t => at'[u] = at[u] /\ row'[u] = row[u]
        /\ row'[t] = r /\ row' \in [Threads -> Rows \cup {0}]
    BY <1>a, <2>1 DEF Goto, Places
  <2>6. \A u \in Threads :
          /\ at'[u] # "run" => row'[u] \in Rows
          /\ at'[u] \in {"index", "insert size", "store"} => size'[u] \in Sizes
    BY <1>a, <2>4, <2>5
  <2>7. UNCHANGED <<seen, rowVars, sizeNodes, ALLOC_SIZE_MAP, damaged>>
    BY <1>1 DEF SampledObjectAlloc
  <2> QED
    BY <1>s, <1>m, <1>z, <2>2, <2>3, <2>4, <2>5, <2>6, <2>7 DEF CallTypes, rowVars
<1>2. CASE FindSize(t)
  <2>1. at[t] = "index" /\ at' \in [Threads -> Places] /\ at'[t] = "store"
        /\ \A u \in Threads : u # t => at'[u] = at[u]
    BY <1>2, <1>a DEF FindSize, Goto, Places
  <2>2. seen' \in [Threads -> Nat]
    BY <1>2, <1>s, <1>z DEF FindSize
  <2>3. UNCHANGED <<objVars, rowVars, sizeVars>>
    BY <1>2 DEF FindSize
  <2> QED
    BY <1>k, <1>s, <1>m, <1>z, <2>1, <2>2, <2>3 DEF CallTypes, rowVars, sizeVars
<1>3. CASE MissSize(t)
  <2>1. at[t] = "index" /\ at' \in [Threads -> Places] /\ at'[t] = "insert size"
        /\ \A u \in Threads : u # t => at'[u] = at[u]
    BY <1>3, <1>a DEF MissSize, Goto, Places
  <2>2. damaged' \in BOOLEAN
    BY <1>3, <1>z DEF MissSize, Inserting
  <2>3. UNCHANGED <<objVars, seen, rowVars, sizeNodes, ALLOC_SIZE_MAP, ofSize>>
    BY <1>3 DEF MissSize
  <2> QED
    BY <1>k, <1>s, <1>m, <1>z, <2>1, <2>2, <2>3 DEF CallTypes, rowVars
<1>4. CASE InsertSize(t)
  <2>1. at[t] = "insert size" /\ at' \in [Threads -> Places] /\ at'[t] = "store"
        /\ \A u \in Threads : u # t => at'[u] = at[u]
    BY <1>4, <1>a DEF InsertSize, Goto, Places
  <2>2. KeyOf(t) \in Keys
    BY <1>a, <2>1 DEF KeyOf, Keys
  <2>3. PICK lost \in SUBSET (sizeNodes \cup {KeyOf(t)}) :
          /\ sizeNodes' = (sizeNodes \cup {KeyOf(t)}) \ lost
          /\ ALLOC_SIZE_MAP' = [k \in Keys |-> IF k \in lost THEN 0 ELSE ALLOC_SIZE_MAP[k]]
          /\ seen' = [seen EXCEPT ![t] = ALLOC_SIZE_MAP'[KeyOf(t)]]
    BY <1>4 DEF InsertSize
  <2>4. sizeNodes' \subseteq Keys /\ ALLOC_SIZE_MAP' \in [Keys -> Nat]
    BY <1>z, <2>2, <2>3
  <2>5. seen' \in [Threads -> Nat]
    BY <1>s, <2>2, <2>3, <2>4
  <2>6. UNCHANGED <<objVars, rowVars, damaged, ofSize>>
    BY <1>4 DEF InsertSize
  <2> QED
    BY <1>k, <1>s, <1>m, <1>z, <2>1, <2>4, <2>5, <2>6 DEF CallTypes, rowVars
<1>5. CASE StoreSize(t)
  <2>1. at[t] = "store" /\ at' \in [Threads -> Places] /\ at'[t] = "enter"
        /\ \A u \in Threads : u # t => at'[u] = at[u]
    BY <1>5, <1>a DEF StoreSize, Goto, Places
  <2>2. ALLOC_SIZE_MAP' \in [Keys -> Nat]
    BY <1>5, <1>s, <1>z DEF StoreSize
  <2>3. UNCHANGED <<objVars, seen, rowVars, sizeNodes, damaged, ofSize>>
    BY <1>5 DEF StoreSize
  <2> QED
    BY <1>k, <1>s, <1>m, <1>z, <2>1, <2>2, <2>3 DEF CallTypes, rowVars
<1>6. CASE RawMonitorEnter(t)
  <2>1. at[t] = "enter" /\ at' \in [Threads -> Places] /\ at'[t] \in {"insert row", "locked"}
        /\ \A u \in Threads : u # t => at'[u] = at[u]
    BY <1>6, <1>a DEF RawMonitorEnter, IndexRow, Goto, Places
  <2>2. seen' \in [Threads -> Nat]
    BY <1>6, <1>s, <1>m DEF RawMonitorEnter, IndexRow
  <2>3. UNCHANGED <<objVars, rowNodes, MEM_MAP, sampled, sizeVars>> /\ lock' = t
    BY <1>6 DEF RawMonitorEnter, IndexRow
  <2> QED
    BY <1>k, <1>s, <1>m, <1>z, <2>1, <2>2, <2>3 DEF CallTypes, sizeVars
<1>7. CASE InsertRow(t)
  <2>1. at[t] = "insert row" /\ at' \in [Threads -> Places] /\ at'[t] = "locked"
        /\ \A u \in Threads : u # t => at'[u] = at[u]
    BY <1>7, <1>a DEF InsertRow, Goto, Places
  <2>2. row[t] \in Rows
    BY <1>a, <2>1
  <2>3. seen' \in [Threads -> Nat] /\ rowNodes' \subseteq Rows
    BY <1>7, <1>s, <1>m, <2>2 DEF InsertRow
  <2>4. UNCHANGED <<objVars, lock, MEM_MAP, sampled, sizeVars>>
    BY <1>7 DEF InsertRow
  <2> QED
    BY <1>k, <1>s, <1>m, <1>z, <2>1, <2>3, <2>4 DEF CallTypes, sizeVars
<1>8. CASE CountRow(t)
  <2>1. at[t] = "locked" /\ at' \in [Threads -> Places] /\ at'[t] = "exit"
        /\ \A u \in Threads : u # t => at'[u] = at[u]
    BY <1>8, <1>a DEF CountRow, Goto, Places
  <2>a. seen[t] + 1 \in Nat
    BY <1>s
  <2>b. /\ MEM_MAP' = [MEM_MAP EXCEPT ![row[t]] = seen[t] + 1]
        /\ sampled' = [sampled EXCEPT ![row[t]] = sampled[row[t]] + 1]
    BY <1>8 DEF CountRow
  <2>c. MEM_MAP' \in [Rows -> Nat]
    BY <1>m, <2>a, <2>b
  <2>d. sampled' \in [Rows -> Nat]
    <3>1. row[t] \in Rows
      BY <1>a, <2>1
    <3>2. sampled[row[t]] + 1 \in Nat
      BY <1>m, <3>1
    <3>3. sampled' = [sampled EXCEPT ![row[t]] = sampled[row[t]] + 1]
      BY <2>b
    <3> QED
      BY <1>m, <3>2, <3>3
  <2>2. MEM_MAP' \in [Rows -> Nat] /\ sampled' \in [Rows -> Nat]
    BY <2>c, <2>d
  <2>3. UNCHANGED <<objVars, seen, lock, rowNodes, sizeVars>>
    BY <1>8 DEF CountRow
  <2> QED
    BY <1>k, <1>s, <1>m, <1>z, <2>1, <2>2, <2>3 DEF CallTypes, sizeVars
<1>9. CASE RawMonitorExit(t)
  <2>1. /\ at' \in [Threads -> Places] /\ at'[t] = "run"
        /\ row' \in [Threads -> Rows \cup {0}] /\ size' \in [Threads -> Sizes \cup {0}]
        /\ \A u \in Threads : u # t => at'[u] = at[u] /\ row'[u] = row[u] /\ size'[u] = size[u]
    BY <1>9, <1>a DEF RawMonitorExit, Return, Goto, Places
  <2>2. seen' \in [Threads -> Nat] /\ lock' \in Threads \cup {Nobody}
    BY <1>9, <1>s DEF RawMonitorExit, Return
  <2>3. UNCHANGED <<events, rowNodes, MEM_MAP, sampled, sizeVars>>
    BY <1>9 DEF RawMonitorExit, Return
  <2>4. \A u \in Threads :
          /\ at'[u] # "run" => row'[u] \in Rows
          /\ at'[u] \in {"index", "insert size", "store"} => size'[u] \in Sizes
    BY <1>a, <2>1
  <2> QED
    BY <1>e, <1>m, <1>z, <2>1, <2>2, <2>3, <2>4 DEF CallTypes, sizeVars
<1> QED
  BY <1>1, <1>2, <1>3, <1>4, <1>5, <1>6, <1>7, <1>8, <1>9 DEF Callback

\* A callback loses no increment of MEM_MAP.
LEMMA CallbackRows ==
    ASSUME CallTypes, IInv, NEW t \in Threads, SampledObjectAlloc(t) \/ Callback(t)
    PROVE  IInv' /\ \A r \in Rows : MEM_MAP[r] <= MEM_MAP'[r]
<1>t. /\ at \in [Threads -> Places] /\ row \in [Threads -> Rows \cup {0}]
      /\ \A u \in Threads : at[u] # "run" => row[u] \in Rows
      /\ seen \in [Threads -> Nat]
  BY DEF CallTypes
<1>m. MEM_MAP \in [Rows -> Nat] /\ rowNodes \subseteq Rows /\ sampled \in [Rows -> Nat]
  BY DEF CallTypes
<1>g. ASSUME MEM_MAP' = MEM_MAP, sampled' = sampled, rowNodes \subseteq rowNodes'
      PROVE  /\ RowsExact' /\ \A r \in Rows : MEM_MAP[r] <= MEM_MAP'[r]
             /\ \A r \in Rows : MEM_MAP'[r] > 0 => r \in rowNodes'
  <2>1. \A r \in Rows : MEM_MAP[r] <= MEM_MAP'[r]
    BY <1>g, <1>m
  <2> QED
    BY <1>g, <2>1 DEF IInv, RowsExact
<1>k. ASSUME at[t] \notin {"insert row", "locked"}, at'[t] \notin {"insert row", "locked", "exit"},
             \A u \in Threads : u # t => at'[u] = at[u] /\ row'[u] = row[u] /\ seen'[u] = seen[u],
             UNCHANGED rowVars
      PROVE  IInv' /\ \A r \in Rows : MEM_MAP[r] <= MEM_MAP'[r]
  <2>1. UNCHANGED <<lock, rowNodes, MEM_MAP, sampled>>
    BY <1>k DEF rowVars
  <2>2. \A u \in Threads :
          /\ at'[u] \in {"insert row", "locked", "exit"} => lock' = u
          /\ at'[u] = "locked" => seen'[u] = MEM_MAP'[row'[u]] /\ row'[u] \in rowNodes'
    BY <1>k, <2>1 DEF IInv
  <2> QED
    BY <1>g, <2>1, <2>2 DEF IInv
<1>1. CASE SampledObjectAlloc(t)
  <2>1. at[t] = "run" /\ at'[t] \in {"index", "enter"}
        /\ \A u \in Threads : u # t => at'[u] = at[u] /\ row'[u] = row[u]
    BY <1>1, <1>t DEF SampledObjectAlloc, Goto
  <2>2. seen' = seen /\ UNCHANGED rowVars
    BY <1>1 DEF SampledObjectAlloc
  <2> QED
    BY <1>k, <2>1, <2>2
<1>2. CASE FindSize(t) \/ MissSize(t) \/ InsertSize(t) \/ StoreSize(t)
  <2>1. at[t] \in {"index", "insert size", "store"} /\ at'[t] \in {"insert size", "store", "enter"}
        /\ \A u \in Threads : u # t => at'[u] = at[u]
    BY <1>2, <1>t DEF FindSize, MissSize, InsertSize, StoreSize, Goto
  <2>2. \A u \in Threads : u # t => seen'[u] = seen[u]
    BY <1>2, <1>t DEF FindSize, MissSize, InsertSize, StoreSize
  <2>3. row' = row /\ UNCHANGED rowVars
    BY <1>2 DEF FindSize, MissSize, InsertSize, StoreSize, objVars
  <2> QED
    BY <1>k, <2>1, <2>2, <2>3
<1>3. CASE RawMonitorEnter(t)
  \* The monitor was free, so nobody else is inside.
  <2>1. \A u \in Threads : at[u] \notin {"insert row", "locked", "exit"}
    BY <1>3, NobodyAssumption DEF RawMonitorEnter, IInv
  <2>2. /\ at[t] = "enter" /\ at'[t] \in {"insert row", "locked"}
        /\ \A u \in Threads : u # t => at'[u] = at[u]
        /\ at'[t] = "locked" => seen'[t] = MEM_MAP[row[t]] /\ row[t] \in rowNodes
    BY <1>3, <1>t DEF RawMonitorEnter, IndexRow, Goto
  <2>3. UNCHANGED <<row, rowNodes, MEM_MAP, sampled>> /\ lock' = t
    BY <1>3 DEF RawMonitorEnter, IndexRow, objVars
  <2>4. \A u \in Threads :
          /\ at'[u] \in {"insert row", "locked", "exit"} => lock' = u
          /\ at'[u] = "locked" => seen'[u] = MEM_MAP'[row'[u]] /\ row'[u] \in rowNodes'
    BY <2>1, <2>2, <2>3
  <2> QED
    BY <1>g, <2>3, <2>4 DEF IInv
<1>4. CASE InsertRow(t)
  <2>1. /\ at[t] = "insert row" /\ at'[t] = "locked" /\ seen'[t] = MEM_MAP[row[t]]
        /\ \A u \in Threads : u # t => at'[u] = at[u] /\ seen'[u] = seen[u]
    BY <1>4, <1>t DEF InsertRow, Goto
  <2>2. UNCHANGED <<row, lock, MEM_MAP, sampled>> /\ rowNodes' = rowNodes \cup {row[t]}
    BY <1>4 DEF InsertRow, objVars
  <2>3. \A u \in Threads :
          /\ at'[u] \in {"insert row", "locked", "exit"} => lock' = u
          /\ at'[u] = "locked" => seen'[u] = MEM_MAP'[row'[u]] /\ row'[u] \in rowNodes'
    BY <2>1, <2>2 DEF IInv
  <2> QED
    BY <1>g, <2>2, <2>3 DEF IInv
<1>5. CASE CountRow(t)
  \* Nobody else has loaded the count that changes.
  <2>1. /\ at[t] = "locked" /\ at'[t] = "exit"
        /\ \A u \in Threads : u # t => at'[u] = at[u]
        /\ \A u \in Threads : u # t => at[u] \notin {"insert row", "locked", "exit"}
    BY <1>5, <1>t DEF CountRow, Goto, IInv
  <2>2. seen[t] = MEM_MAP[row[t]] /\ row[t] \in Rows /\ row[t] \in rowNodes
    BY <1>t, <2>1 DEF IInv
  <2>3. UNCHANGED <<row, lock, seen, rowNodes>>
        /\ MEM_MAP' = [MEM_MAP EXCEPT ![row[t]] = seen[t] + 1]
        /\ sampled' = [sampled EXCEPT ![row[t]] = @ + 1]
    BY <1>5 DEF CountRow, objVars
  <2>4. RowsExact'
    BY <2>2, <2>3 DEF IInv, RowsExact
  <2>5. ASSUME NEW r \in Rows
        PROVE  MEM_MAP[r] <= MEM_MAP'[r] /\ (MEM_MAP'[r] > 0 => r \in rowNodes)
    <3>1. MEM_MAP[r] \in Nat
      BY <1>m
    <3>2. CASE r = row[t]
      <4>1. MEM_MAP'[r] = MEM_MAP[r] + 1
        BY <1>m, <2>2, <2>3, <3>2
      <4> QED
        BY <2>2, <3>1, <3>2, <4>1
    <3>3. CASE r # row[t]
      <4>1. MEM_MAP'[r] = MEM_MAP[r]
        BY <1>m, <2>3, <3>3
      <4>2. MEM_MAP[r] > 0 => r \in rowNodes
        BY DEF IInv
      <4> QED
        BY <3>1, <4>1, <4>2
    <3> QED
      BY <3>2, <3>3
  <2>6. \A u \in Threads : at'[u] \in {"insert row", "locked", "exit"} => u = t
    BY <2>1
  <2>7. lock = t
    BY <2>1 DEF IInv
  <2> QED
    BY <2>1, <2>3, <2>4, <2>5, <2>6, <2>7 DEF IInv
<1>6. CASE RawMonitorExit(t)
  <2>1. /\ at[t] = "exit" /\ at'[t] = "run"
        /\ \A u \in Threads : u # t => at'[u] = at[u] /\ at[u] \notin {"insert row", "locked", "exit"}
    BY <1>6, <1>t DEF RawMonitorExit, Return, Goto, IInv
  <2>2. UNCHANGED <<rowNodes, MEM_MAP, sampled>>
    BY <1>6 DEF RawMonitorExit, Return
  <2>3. \A u \in Threads : at'[u] \notin {"insert row", "locked", "exit"}
    BY <2>1
  <2> QED
    BY <1>g, <2>2, <2>3 DEF IInv
<1> QED
  BY <1>1, <1>2, <1>3, <1>4, <1>5, <1>6 DEF Callback

\* A callback leaves the report alone.
LEMMA CallbackReport ==
    ASSUME PInv, \A r \in Rows : MEM_MAP[r] <= MEM_MAP'[r], MEM_MAP' \in [Rows -> Nat],
           UNCHANGED printVars
    PROVE  PrintTypes' /\ Printed' /\ ReportIsConsistent'
<1>0. UNCHANGED <<printer, pos, torn, printedRows, printedSizes, atStart>>
  BY DEF printVars
<1>1. PrintTypes'
  BY <1>0 DEF PInv, PrintTypes
<1>2. /\ MEM_MAP \in [Rows -> Nat] /\ atStart \in [Rows -> Nat]
      /\ \A r \in Rows : MEM_MAP[r] \in Nat /\ MEM_MAP'[r] \in Nat /\ atStart[r] \in Nat
  BY DEF PInv, CallTypes, PrintTypes
<1>3. Printed'
  BY <1>0, <1>2 DEF PInv, Printed
<1>4. ASSUME ~torn
      PROVE  \A i \in DOMAIN printedRows : printedRows[i].count <= MEM_MAP'[printedRows[i].row]
  <2> SUFFICES ASSUME NEW i \in DOMAIN printedRows
               PROVE  printedRows[i].count <= MEM_MAP'[printedRows[i].row]
    OBVIOUS
  <2>1. printedRows[i].row \in Rows /\ printedRows[i].count \in Nat
    BY PrintedRows DEF PInv
  <2>2. printedRows[i].count <= MEM_MAP[printedRows[i].row]
    BY <1>4 DEF PInv, ReportIsConsistent
  <2> QED
    BY <1>2, <2>1, <2>2
<1>5. ReportIsConsistent'
  <2>1. Passed' = Passed
    BY <1>0 DEF Passed
  <2> QED
    BY <1>0, <1>4, <2>1 DEF PInv, ReportIsConsistent
<1> QED
  BY <1>1, <1>3, <1>5

-----------------------------------------------------------------------------
\* The steps of the report

\* The types of a report.
LEMMA PrintStepTypes ==
    ASSUME CallTypes, PrintTypes, PrintAlloc
    PROVE  PrintTypes'
<1>t. /\ rowNodes \subseteq Rows /\ MEM_MAP \in [Rows -> Nat]
      /\ sizeNodes \subseteq Keys /\ ALLOC_SIZE_MAP \in [Keys -> Nat]
  BY DEF CallTypes
<1>i. Rows \subseteq Int /\ Keys \subseteq Int /\ Before \in Int
  BY KeysInt, RowsNat
<1>1. CASE StartPrint
  BY <1>1, <1>t DEF StartPrint, PrintTypes
<1>2. CASE PrintRow
  <2>1. PICK r \in RowSteps :
          /\ pos' = r
          /\ printedRows' = Append(printedRows, [row |-> r, count |-> MEM_MAP[r]])
    BY <1>2 DEF PrintRow
  <2>2. r \in Rows
    <3>1. \A u \in Threads : at[u] = "insert row" => row[u] \in Rows
      BY DEF CallTypes
    <3> QED
      BY <1>t, <3>1 DEF RowSteps, NextNode
  <2>3. [row |-> r, count |-> MEM_MAP[r]] \in [row : Rows, count : Nat]
    BY <1>t, <2>2
  <2>4. printedRows \in Seq([row : Rows, count : Nat]) /\ Len(printedRows) < N
    BY <1>2 DEF PrintRow, PrintTypes
  <2>5. printedRows' \in Seq([row : Rows, count : Nat]) /\ Len(printedRows') = Len(printedRows) + 1
        /\ Len(printedRows) \in Nat
    BY <2>1, <2>3, <2>4, SeqAppend, SeqElements, Zenon
  <2>6. Len(printedRows') <= N
    BY <2>4, <2>5, AllocBounds
  <2>7. pos' \in Int /\ torn' \in BOOLEAN /\ UNCHANGED <<printer, printedSizes, atStart>>
    BY <1>2, <1>i, <2>1, <2>2 DEF PrintRow, PrintTypes, Inserting
  <2> QED
    BY <2>5, <2>6, <2>7 DEF PrintTypes
<1>3. CASE RowsPrinted
  BY <1>3, <1>i DEF RowsPrinted, PrintTypes
<1>4. CASE PrintSize
  <2>1. PICK k \in SizeSteps :
          /\ pos' = k
          /\ printedSizes' = Append(printedSizes, [size |-> k, count |-> ALLOC_SIZE_MAP[k]])
    BY <1>4 DEF PrintSize
  <2>2. k \in Keys
    <3>1. \A u \in Threads : at[u] = "insert size" => KeyOf(u) \in Keys
      BY DEF CallTypes, KeyOf, Keys
    <3> QED
      BY <1>t, <3>1 DEF SizeSteps, NextNode
  <2>3. [size |-> k, count |-> ALLOC_SIZE_MAP[k]] \in [size : Keys, count : Nat]
    BY <1>t, <2>2
  <2>4. printedSizes \in Seq([size : Keys, count : Nat])
    BY DEF PrintTypes
  <2>5. printedSizes' \in Seq([size : Keys, count : Nat])
    BY <2>1, <2>3, <2>4, SeqAppend, Zenon
  <2>6. pos' \in Int /\ UNCHANGED <<printer, torn, printedRows, atStart>>
    BY <1>4, <1>i, <2>1, <2>2 DEF PrintSize
  <2> QED
    BY <2>5, <2>6 DEF PrintTypes
<1>5. CASE EndPrint
  BY <1>5, <1>i DEF EndPrint, PrintTypes
<1> QED
  BY <1>1, <1>2, <1>3, <1>4, <1>5 DEF PrintAlloc

\* A row goes into the report.
LEMMA PrintRowStep ==
    ASSUME PInv, PrintRow
    PROVE  Printed' /\ ReportIsConsistent'
<1>0. /\ printer = "rows" /\ printer' = "rows" /\ Len(printedRows) < N
      /\ atStart' = atStart /\ MEM_MAP' = MEM_MAP /\ torn' = (torn \/ Inserting("insert row"))
  BY DEF PrintRow, callVars, rowVars
<1>a. \A r \in Rows : atStart'[r] <= MEM_MAP'[r]
  BY <1>0 DEF PInv, Printed
<1>1. CASE torn'
  BY <1>0, <1>1, <1>a DEF Printed, ReportIsConsistent
<1>2. CASE ~torn'
  <2>0. ~torn /\ ~Inserting("insert row")
    BY <1>0, <1>2
  <2>1. PICK r \in NextNode(rowNodes) :
          /\ pos' = r
          /\ printedRows' = Append(printedRows, [row |-> r, count |-> MEM_MAP[r]])
    BY <2>0 DEF PrintRow, RowSteps
  <2> DEFINE line == [row |-> r, count |-> MEM_MAP[r]]
  <2>a. /\ r \in rowNodes /\ r > pos
        /\ \A l \in rowNodes : l > pos => r <= l
    BY DEF NextNode
  <2>b. rowNodes \subseteq Rows /\ pos \in Int
    BY DEF PInv, CallTypes, PrintTypes
  <2>2. r \in Rows /\ r \in Int
    BY <2>a, <2>b, RowsNat
  <2>t. MEM_MAP \in [Rows -> Nat] /\ atStart \in [Rows -> Nat]
        /\ printedRows \in Seq([row : Rows, count : Nat])
    BY DEF PInv, CallTypes, PrintTypes
  <2>3. line \in [row : Rows, count : Nat] /\ line.row = r /\ line.count = MEM_MAP[r]
    BY <2>2, <2>t
  <2> HIDE DEF line
  <2>4. /\ Len(printedRows') = Len(printedRows) + 1
        /\ DOMAIN printedRows' = DOMAIN printedRows \cup {Len(printedRows) + 1}
        /\ printedRows'[Len(printedRows) + 1] = line
        /\ \A i \in DOMAIN printedRows : printedRows'[i] = printedRows[i]
    <3>1. printedRows' = Append(printedRows, line)
      BY <2>1 DEF line
    <3> QED
      BY <2>3, <2>t, <3>1, SeqAppend
  <2>5. /\ Len(printedRows) \in Nat /\ DOMAIN printedRows = 1..Len(printedRows)
        /\ \A i \in DOMAIN printedRows : printedRows[i].row \in Rows
    BY PrintedRows DEF PInv
  <2>6. \A i \in DOMAIN printedRows : printedRows[i].row <= pos
    BY <1>0, <2>0 DEF PInv, Printed
  <2>7. \A i \in DOMAIN printedRows : printedRows[i].row # r /\ printedRows[i].row <= r
    <3> TAKE i \in DOMAIN printedRows
    <3>1. printedRows[i].row \in Int
      BY <2>5, RowsNat
    <3>2. printedRows[i].row <= pos
      BY <2>6
    <3> QED
      BY <2>2, <2>a, <2>b, <3>1, <3>2
  <2>8. Printed'
    <3>1. \A i \in DOMAIN printedRows' : printedRows'[i].row <= pos'
      BY <2>1, <2>2, <2>3, <2>4, <2>7
    <3> QED
      BY <1>0, <1>a, <3>1 DEF Printed
  <2>9. \A i \in DOMAIN printedRows' :
          /\ atStart'[printedRows'[i].row] <= printedRows'[i].count
          /\ printedRows'[i].count <= MEM_MAP'[printedRows'[i].row]
    <3>1. \A i \in DOMAIN printedRows :
              /\ atStart[printedRows[i].row] <= printedRows[i].count
              /\ printedRows[i].count <= MEM_MAP[printedRows[i].row]
      BY <2>0 DEF PInv, ReportIsConsistent
    <3>2. atStart[r] <= MEM_MAP[r] /\ MEM_MAP[r] \in Nat
      BY <1>0, <1>a, <2>2, <2>t
    <3> TAKE i \in DOMAIN printedRows'
    <3>3. CASE i \in DOMAIN printedRows
      BY <1>0, <2>4, <3>1, <3>3
    <3>4. CASE i = Len(printedRows) + 1
      <4>1. printedRows'[i] = line
        BY <2>4, <3>4
      <4>2. printedRows'[i].row = r /\ printedRows'[i].count = MEM_MAP[r]
        BY <2>3, <4>1
      <4>3. atStart'[printedRows'[i].row] = atStart[r] /\ MEM_MAP'[printedRows'[i].row] = MEM_MAP[r]
        BY <1>0, <4>2
      <4> QED
        BY <3>2, <4>2, <4>3
    <3> QED
      BY <2>4, <3>3, <3>4
  <2>10. \A i \in DOMAIN printedRows' : \A j \in 1..(i - 1) :
            printedRows'[i].row # printedRows'[j].row
    <3>1. \A i \in DOMAIN printedRows : \A j \in 1..(i - 1) :
              printedRows[i].row # printedRows[j].row
      BY <2>0 DEF PInv, ReportIsConsistent
    <3> TAKE i \in DOMAIN printedRows'
    <3> TAKE j \in 1..(i - 1)
    <3>2. i \in 1..Len(printedRows) \/ i = Len(printedRows) + 1
      BY <2>4, <2>5
    <3>3. j \in DOMAIN printedRows /\ printedRows'[j] = printedRows[j]
      <4>1. j \in 1..Len(printedRows)
        BY <3>2, <2>5
      <4> QED
        BY <4>1, <2>4, <2>5
    <3>4. CASE i \in DOMAIN printedRows
      BY <2>4, <3>1, <3>3, <3>4
    <3>5. CASE i = Len(printedRows) + 1
      BY <2>3, <2>4, <2>7, <3>3, <3>5
    <3> QED
      BY <2>4, <3>4, <3>5
  <2>11. \A q \in Passed' : atStart'[q] > 0 =>
            \E i \in DOMAIN printedRows' : printedRows'[i].row = q
    <3> SUFFICES ASSUME NEW q \in Rows, q <= r, atStart[q] > 0
                 PROVE  \E i \in DOMAIN printedRows' : printedRows'[i].row = q
      BY <1>0, <2>1 DEF Passed
    <3>1. CASE q <= pos
      <4>1. q \in Passed
        BY <1>0, <3>1 DEF Passed
      <4> QED
        BY <2>0, <2>4, <4>1 DEF PInv, ReportIsConsistent
    <3>2. CASE ~(q <= pos)
      <4>1. q > pos /\ q \in Int
        BY <2>b, <3>2, RowsNat
      <4>a. atStart[q] <= MEM_MAP[q]
        BY <1>0, <1>a
      <4>b. atStart[q] \in Nat /\ MEM_MAP[q] \in Nat
        BY <2>t
      <4>2. MEM_MAP[q] > 0
        BY <4>a, <4>b
      <4>3. q \in rowNodes
        BY <4>2 DEF PInv, IInv
      <4>4. q = r
        BY <2>2, <2>a, <4>1, <4>3
      <4> QED
        BY <2>3, <2>4, <4>4
    <3> QED
      BY <3>1, <3>2
  <2>12. ReportIsConsistent'
    BY <2>9, <2>10, <2>11 DEF ReportIsConsistent
  <2> QED
    BY <2>8, <2>12
<1> QED
  BY <1>1, <1>2

\* The other steps of PrintAlloc leave the rows printed alone; the one that ends
\* them does so at the end of the map, or of the report.
LEMMA OtherPrintSteps ==
    ASSUME PInv, StartPrint \/ RowsPrinted \/ PrintSize \/ EndPrint
    PROVE  Printed' /\ ReportIsConsistent'
<1>t. /\ MEM_MAP \in [Rows -> Nat] /\ atStart \in [Rows -> Nat] /\ rowNodes \subseteq Rows
      /\ pos \in Int
  BY DEF PInv, CallTypes, PrintTypes
<1>m. MEM_MAP' = MEM_MAP
  BY DEF StartPrint, RowsPrinted, PrintSize, EndPrint, callVars, rowVars
<1>1. CASE StartPrint
  <2>1. printedRows' = <<>> /\ DOMAIN printedRows' = {} /\ pos' = Before
        /\ printer' = "rows" /\ atStart' = MEM_MAP
    BY <1>1 DEF StartPrint, PInv, Printed
  <2>2. Passed' = {}
    <3>1. \A r \in Rows : ~(r <= Before)
      BY RowsNat, SizesAssumption DEF Before
    <3> QED
      BY <2>1, <3>1 DEF Passed
  <2>3. \A r \in Rows : atStart'[r] <= MEM_MAP'[r]
    BY <1>m, <1>t, <2>1
  <2> QED
    BY <2>1, <2>2, <2>3 DEF Printed, ReportIsConsistent
<1>2. CASE RowsPrinted
  <2>0. printer = "rows" /\ printer' = "sizes" /\ UNCHANGED <<printedRows, atStart>>
    BY <1>2 DEF RowsPrinted
  <2>1. Printed'
    BY <1>m, <2>0 DEF PInv, Printed
  <2>2. CASE torn'
    BY <2>1, <2>2 DEF ReportIsConsistent
  <2>3. CASE ~torn' /\ Len(printedRows) >= N
    <3>1. ~torn
      BY <1>2, <2>3 DEF RowsPrinted
    <3>2. Passed' = {}
      <4>1. Len(printedRows) \in Nat
        BY PrintedRows DEF PInv
      <4>2. ~(Len(printedRows') < N)
        BY <2>0, <2>3, <4>1, AllocBounds
      <4> QED
        BY <2>0, <4>2 DEF Passed
    <3> QED
      BY <1>m, <2>0, <2>1, <3>1, <3>2 DEF PInv, ReportIsConsistent
  <2>4. CASE ~torn' /\ ~(Len(printedRows) >= N)
    <3>1. ~torn /\ NextNode(rowNodes) = {}
      <4>1. CASE Inserting("insert row") /\ torn' = TRUE
        BY <2>4, <4>1
      <4>2. CASE NextNode(rowNodes) = {} /\ UNCHANGED torn
        BY <2>4, <4>2
      <4> QED
        BY <1>2, <2>4, <4>1, <4>2 DEF RowsPrinted
    <3>2. ASSUME NEW q \in Rows, atStart[q] > 0
          PROVE  \E i \in DOMAIN printedRows : printedRows[i].row = q
      <4>1. q \in rowNodes
        <5>1. atStart[q] <= MEM_MAP[q]
          BY <2>0 DEF PInv, Printed
        <5>2. MEM_MAP[q] > 0
          BY <1>t, <3>2, <5>1
        <5> QED
          BY <5>2 DEF PInv, IInv
      <4>2. CASE q <= pos
        <5>1. q \in Passed
          BY <2>0, <4>2 DEF Passed
        <5> QED
          BY <3>1, <3>2, <5>1 DEF PInv, ReportIsConsistent
      <4>3. CASE ~(q <= pos)
        <5> DEFINE S == {l \in rowNodes : l > pos}
        <5>a. q \in Int
          BY RowsNat
        <5>b. q > pos
          BY <1>t, <4>3, <5>a
        <5>1. S \in SUBSET Nat /\ S # {}
          BY <1>t, <4>1, <5>b, RowsNat
        <5>2. PICK i \in S : \A j \in S : i <= j
          <6> HIDE DEF S
          <6> QED
            BY <5>1, Smallest
        <5>3. i \in NextNode(rowNodes)
          BY <5>2 DEF NextNode
        <5> QED
          BY <3>1, <5>3
      <4> QED
        BY <4>2, <4>3
    <3>3. Passed' \subseteq Rows
      BY <2>0 DEF Passed
    <3> QED
      BY <1>m, <2>0, <2>1, <3>1, <3>2, <3>3 DEF PInv, ReportIsConsistent
  <2> QED
    BY <2>2, <2>3, <2>4
<1>3. CASE PrintSize \/ EndPrint
  <2>1. /\ printer = "sizes" /\ printer' \in {"sizes", "done"}
        /\ UNCHANGED <<torn, printedRows, atStart>>
    BY <1>3 DEF PrintSize, EndPrint
  <2>2. Passed' = Passed
    BY <2>1 DEF Passed
  <2> QED
    BY <1>m, <2>1, <2>2 DEF PInv, Printed, ReportIsConsistent
<1> QED
  BY <1>1, <1>2, <1>3

-----------------------------------------------------------------------------
LEMMA PInvInit == Init => PInv
<1> SUFFICES ASSUME Init PROVE PInv
  OBVIOUS
<1>1. CallTypes
  <2>1. events \in 0..MaxEvents
    BY AllocBounds DEF Init
  <2>2. /\ seen \in [Threads -> Nat] /\ MEM_MAP \in [Rows -> Nat] /\ sampled \in [Rows -> Nat]
        /\ ALLOC_SIZE_MAP \in [Keys -> Nat] /\ ofSize \in [Keys -> Nat]
    BY DEF Init, Zero
  <2>3. /\ at \in [Threads -> Places] /\ \A t \in Threads : at[t] = "run"
        /\ row \in [Threads -> Rows \cup {0}] /\ size \in [Threads -> Sizes \cup {0}]
        /\ lock = Nobody /\ rowNodes = {} /\ sizeNodes = {} /\ damaged = FALSE
    BY DEF Init, Zero, Places
  <2> QED
    BY <2>1, <2>2, <2>3 DEF CallTypes
<1>2. PrintTypes
  <2>1. printedRows \in Seq([row : Rows, count : Nat]) /\ Len(printedRows) = 0
        /\ printedSizes \in Seq([size : Keys, count : Nat])
    BY DEF Init
  <2>2. printer = "sleep" /\ pos \in Int /\ torn \in BOOLEAN /\ atStart \in [Rows -> Nat]
    BY KeysInt DEF Init, Zero
  <2>3. Len(printedRows) <= N
    BY <2>1, AllocBounds
  <2> QED
    BY <2>1, <2>2, <2>3 DEF PrintTypes
<1>3. DOMAIN printedRows = {} /\ Passed = {}
  BY DEF Init, Passed
<1>4. IInv
  BY DEF Init, Zero, IInv, RowsExact
<1> QED
  BY <1>1, <1>2, <1>3, <1>4 DEF Init, PInv, Printed, ReportIsConsistent

LEMMA PInvStep == PInv /\ [Next]_vars => PInv'
<1> SUFFICES ASSUME PInv, [Next]_vars PROVE PInv'
  OBVIOUS
<1>1. ASSUME NEW t \in Threads, SampledObjectAlloc(t) \/ Callback(t) PROVE PInv'
  <2>1. CallTypes' /\ IInv' /\ \A r \in Rows : MEM_MAP[r] <= MEM_MAP'[r]
    BY <1>1, CallbackTypes, CallbackRows DEF PInv
  <2>2. UNCHANGED printVars /\ MEM_MAP' \in [Rows -> Nat]
    BY <1>1, <2>1, CallbackLeaves DEF CallTypes
  <2> QED
    BY <2>1, <2>2, CallbackReport DEF PInv
<1>2. CASE PrintAlloc
  <2>1. UNCHANGED callVars
    BY <1>2 DEF PrintAlloc, StartPrint, PrintRow, RowsPrinted, PrintSize, EndPrint
  <2>2. CallTypes' /\ IInv'
    BY <2>1 DEF callVars, objVars, rowVars, sizeVars, PInv, CallTypes, IInv, RowsExact
  <2>3. PrintTypes'
    BY <1>2, PrintStepTypes DEF PInv
  <2>4. Printed' /\ ReportIsConsistent'
    BY <1>2, PrintRowStep, OtherPrintSteps DEF PrintAlloc
  <2> QED
    BY <2>2, <2>3, <2>4 DEF PInv
<1>3. CASE UNCHANGED vars
  <2>1. UNCHANGED callVars /\ UNCHANGED printVars
    BY <1>3 DEF vars
  <2>2. CallTypes' /\ IInv'
    BY <2>1 DEF callVars, objVars, rowVars, sizeVars, PInv, CallTypes, IInv, RowsExact
  <2>3. \A r \in Rows : MEM_MAP[r] <= MEM_MAP'[r]
    <3>1. MEM_MAP' = MEM_MAP /\ MEM_MAP \in [Rows -> Nat]
      BY <2>1 DEF callVars, rowVars, PInv, CallTypes
    <3> QED
      BY <3>1
  <2> QED
    BY <2>1, <2>2, <2>3, CallbackReport DEF PInv, CallTypes
<1> QED
  BY <1>1, <1>2, <1>3 DEF Next, Finished

LEMMA AllocInvariant == Spec => []PInv
  BY PInvInit, PInvStep, PTL DEF Spec

\* The variables keep their types, and a report is about keys of the maps.
THEOREM TypeCorrect == Spec => []TypeOK
<1>1. PInv => TypeOK
  BY DEF PInv, CallTypes, PrintTypes, TypeOK, Places
<1> QED
  BY <1>1, AllocInvariant, PTL

\* SampledObjectAlloc never loses an increment of MEM_MAP, whatever the threads
\* and the report do.
THEOREM ExactRows == Spec => []RowsExact
<1>1. PInv => RowsExact
  BY DEF PInv, IInv
<1> QED
  BY <1>1, AllocInvariant, PTL

\* The report PrintAlloc makes without a lock is consistent, whatever the callbacks
\* do meanwhile, unless its iterator moved while one was inserting.
THEOREM ReportConsistent == Spec => []ReportIsConsistent
<1>1. PInv => ReportIsConsistent
  BY DEF PInv
<1> QED
  BY <1>1, AllocInvariant, PTL

-----------------------------------------------------------------------------
\* The sizes

\* SizesNeverOvercount, of the map and of what a callback has loaded from it: with
\* the callbacks that are still to count, that one among them, it is at most the
\* objects with the key.
SizeCounts(k) ==
    /\ IsFiniteSet(Pending(k))
    /\ ALLOC_SIZE_MAP[k] + Cardinality(Pending(k)) <= ofSize[k]
    /\ ~damaged =>
          (Cardinality(Pending(k)) < ofSize[k] => ALLOC_SIZE_MAP[k] > 0 /\ k \in sizeNodes)
    /\ \A t \in Pending(k) : at[t] = "store" => seen[t] + Cardinality(Pending(k)) <= ofSize[k]

SizesPrinted ==
    \A i \in DOMAIN printedSizes : printedSizes[i].count <= ofSize[printedSizes[i].size]

SInv == SizesPrinted /\ \A k \in Keys : SizeCounts(k)

\* The sizes printed, as a function.
LEMMA PrintedSizes ==
    ASSUME PrintTypes
    PROVE  \A i \in DOMAIN printedSizes : /\ printedSizes[i].size \in Keys
                                          /\ printedSizes[i].count \in Nat
<1>1. printedSizes \in Seq([size : Keys, count : Nat])
  BY DEF PrintTypes
<1>2. \A i \in DOMAIN printedSizes : printedSizes[i] \in [size : Keys, count : Nat]
  BY <1>1, SeqElements, Zenon
<1> QED
  BY <1>2

\* A callback that begins or has counted changes the pending ones by itself.
LEMMA PendingChanges ==
    ASSUME NEW S, IsFiniteSet(S), NEW t
    PROVE  /\ Cardinality(S) \in Nat
           /\ IsFiniteSet(S \cup {t}) /\ IsFiniteSet(S \ {t})
           /\ t \notin S => Cardinality(S \cup {t}) = Cardinality(S) + 1
           /\ t \in S => Cardinality(S) > 0 /\ Cardinality(S \ {t}) = Cardinality(S) - 1
<1>1. Cardinality(S) \in Nat /\ Cardinality(S \ {t}) \in Nat
  BY FS_CardinalityType, FS_RemoveElement
<1> QED
  BY <1>1, FS_AddElement, FS_RemoveElement

\* A step that changes neither what is pending for a key nor what it should count.
\* A count may fall, but only in a damaged tree.
LEMMA SizeKept ==
    ASSUME CallTypes, NEW k \in Keys, SizeCounts(k),
           Pending(k)' = Pending(k), ofSize'[k] = ofSize[k],
           ALLOC_SIZE_MAP'[k] \in Nat, ALLOC_SIZE_MAP'[k] <= ALLOC_SIZE_MAP[k],
           ~damaged' => /\ ~damaged /\ ALLOC_SIZE_MAP'[k] = ALLOC_SIZE_MAP[k]
                        /\ k \in sizeNodes => k \in sizeNodes',
           \A t \in Pending(k) :
              at'[t] = "store" => \/ seen'[t] = ALLOC_SIZE_MAP'[k]
                                  \/ at[t] = "store" /\ seen'[t] = seen[t]
    PROVE  SizeCounts(k)'
<1> DEFINE c == Cardinality(Pending(k))
<1>1. IsFiniteSet(Pending(k)) /\ c \in Nat
  BY FS_CardinalityType DEF SizeCounts
<1>2. Cardinality(Pending(k))' = c /\ IsFiniteSet(Pending(k))'
  BY <1>1
<1>3. ALLOC_SIZE_MAP[k] \in Nat /\ ofSize[k] \in Nat
  BY DEF CallTypes
<1>4. ALLOC_SIZE_MAP[k] + c <= ofSize[k]
  BY DEF SizeCounts
<1>5. ~damaged => (c < ofSize[k] => ALLOC_SIZE_MAP[k] > 0 /\ k \in sizeNodes)
  BY DEF SizeCounts
<1>6. \A t \in Pending(k) : at[t] = "store" => seen[t] + c <= ofSize[k]
  BY DEF SizeCounts
<1> HIDE DEF c
<1>7. ALLOC_SIZE_MAP'[k] + c <= ofSize'[k]
  BY <1>1, <1>3, <1>4
<1>8. ~damaged' => (c < ofSize'[k] => ALLOC_SIZE_MAP'[k] > 0 /\ k \in sizeNodes')
  BY <1>5
<1>9. \A t \in Pending(k)' : at'[t] = "store" => seen'[t] + c <= ofSize'[k]
  BY <1>6, <1>7
<1> QED
  BY <1>2, <1>7, <1>8, <1>9 DEF SizeCounts

\* The callbacks, where they are after one has moved.
LEMMA PendingAfter ==
    ASSUME CallTypes, NEW t \in Threads, NEW from, NEW to, Goto(t, from, to), NEW k,
           \A u \in Threads \ {t} : size'[u] = size[u]
    PROVE  Pending(k)' = IF to \in {"index", "insert size", "store"} /\ Key(size'[t]) = k
                         THEN Pending(k) \cup {t} ELSE Pending(k) \ {t}
  BY DEF CallTypes, Goto, Pending, KeyOf

LEMMA PendingWithout ==
    ASSUME CallTypes, NEW t \in Threads, NEW from, Goto(t, from, "enter"), NEW k,
           \A u \in Threads \ {t} : size'[u] = size[u]
    PROVE  Pending(k)' = Pending(k) \ {t}
  BY DEF CallTypes, Goto, Pending, KeyOf

\* What begins counts.
LEMMA SizesSampled ==
    ASSUME CallTypes, SInv, NEW t \in Threads, SampledObjectAlloc(t)
    PROVE  \A k \in Keys : SizeCounts(k)'
<1>t. /\ size \in [Threads -> Sizes \cup {0}] /\ ofSize \in [Keys -> Nat]
      /\ ALLOC_SIZE_MAP \in [Keys -> Nat] /\ seen \in [Threads -> Nat]
      /\ at \in [Threads -> Places]
  BY DEF CallTypes
<1>u. seen' = seen /\ UNCHANGED <<ALLOC_SIZE_MAP, sizeNodes, damaged>> /\ at[t] = "run"
  BY DEF SampledObjectAlloc, Goto
<1>k. ASSUME NEW k \in Keys, Pending(k)' = Pending(k), ofSize'[k] = ofSize[k],
             \A u \in Threads : u # t => at'[u] = at[u]
      PROVE  SizeCounts(k)'
  <2>1. SizeCounts(k) /\ ALLOC_SIZE_MAP'[k] \in Nat /\ ALLOC_SIZE_MAP'[k] <= ALLOC_SIZE_MAP[k]
    BY <1>t, <1>u DEF SInv
  <2>2. \A u \in Pending(k) : at'[u] = "store" => at[u] = "store" /\ seen'[u] = seen[u]
    BY <1>k, <1>u DEF Pending
  <2> QED
    BY <1>k, <1>u, <2>1, <2>2, SizeKept
<1>1. ASSUME NEW z \in Sizes, Goto(t, "run", "index"), size' = [size EXCEPT ![t] = z],
             ofSize' = [ofSize EXCEPT ![Key(z)] = @ + 1], NEW k \in Keys
      PROVE  SizeCounts(k)'
  <2>1. Pending(k)' = IF Key(z) = k THEN Pending(k) \cup {t} ELSE Pending(k) \ {t}
    <3>1. size'[t] = z /\ \A u \in Threads \ {t} : size'[u] = size[u]
      BY <1>1, <1>t
    <3> QED
      BY <1>1, <3>1, PendingAfter
  <2>2. t \notin Pending(k) /\ SizeCounts(k)
    BY <1>u DEF SInv, Pending
  <2>3. \A u \in Threads : u # t => at'[u] = at[u]
    BY <1>1, <1>t DEF Goto
  <2>4. CASE Key(z) # k
    <3>1. Pending(k)' = Pending(k)
      BY <2>1, <2>2, <2>4
    <3>2. ofSize'[k] = ofSize[k]
      BY <1>1, <1>t, <2>4
    <3> QED
      BY <1>k, <2>3, <3>1, <3>2
  <2>5. CASE Key(z) = k
    <3> DEFINE c == Cardinality(Pending(k))
    <3>c. c \in Nat /\ IsFiniteSet(Pending(k) \cup {t})
          /\ Cardinality(Pending(k) \cup {t}) = c + 1
      BY <2>2, PendingChanges DEF SizeCounts
    <3>0. Pending(k)' = Pending(k) \cup {t}
      BY <2>1, <2>5
    <3>1. Cardinality(Pending(k))' = c + 1 /\ IsFiniteSet(Pending(k))'
      BY <3>0, <3>c
    <3>2. ofSize'[k] = ofSize[k] + 1 /\ ofSize[k] \in Nat
          /\ ALLOC_SIZE_MAP'[k] = ALLOC_SIZE_MAP[k] /\ ALLOC_SIZE_MAP[k] \in Nat
      BY <1>1, <1>t, <1>u, <2>5
    <3>3. /\ ALLOC_SIZE_MAP[k] + c <= ofSize[k]
          /\ ~damaged => (c < ofSize[k] => ALLOC_SIZE_MAP[k] > 0 /\ k \in sizeNodes)
          /\ \A u \in Pending(k) : at[u] = "store" => seen[u] + c <= ofSize[k]
      BY <2>2 DEF SizeCounts
    <3> HIDE DEF c
    <3>4. ASSUME NEW u \in Pending(k)', at'[u] = "store"
          PROVE  seen'[u] + (c + 1) <= ofSize'[k]
      <4>1. at'[t] = "index" /\ u # t /\ u \in Threads
        BY <1>1, <1>t, <3>4 DEF Goto, Pending
      <4>2. at[u] = "store" /\ u \in Pending(k) /\ seen'[u] = seen[u] /\ seen[u] \in Nat
        BY <1>t, <1>u, <2>3, <3>0, <3>4, <4>1
      <4>3. seen[u] + c <= ofSize[k]
        BY <3>3, <4>2
      <4> QED
        BY <3>c, <3>2, <4>2, <4>3
    <3>5. ALLOC_SIZE_MAP'[k] + (c + 1) <= ofSize'[k]
      BY <3>c, <3>2, <3>3
    <3>6. c + 1 < ofSize'[k] => c < ofSize[k]
      BY <3>c, <3>2
    <3>7. ~damaged' => (c + 1 < ofSize'[k] => ALLOC_SIZE_MAP'[k] > 0 /\ k \in sizeNodes')
      BY <1>u, <3>2, <3>3, <3>6
    <3> QED
      BY <3>1, <3>4, <3>5, <3>7 DEF SizeCounts
  <2> QED
    BY <2>4, <2>5
<1>2. ASSUME Goto(t, "run", "enter"), UNCHANGED <<size, ofSize>>, NEW k \in Keys
      PROVE  SizeCounts(k)'
  <2>0. \A u \in Threads \ {t} : size'[u] = size[u]
    BY <1>2
  <2>1. Pending(k)' = Pending(k) \ {t}
    BY <1>2, <2>0, PendingWithout
  <2>a. t \notin Pending(k)
    BY <1>u DEF Pending
  <2>2. Pending(k)' = Pending(k) /\ ofSize'[k] = ofSize[k]
    BY <1>2, <2>1, <2>a
  <2>3. \A u \in Threads : u # t => at'[u] = at[u]
    BY <1>2, <1>t DEF Goto
  <2> QED
    BY <1>k, <2>2, <2>3
<1>3. \/ Goto(t, "run", "index") /\ \E z \in Sizes : /\ size' = [size EXCEPT ![t] = z]
                                                     /\ ofSize' = [ofSize EXCEPT ![Key(z)] = @ + 1]
      \/ Goto(t, "run", "enter") /\ UNCHANGED <<size, ofSize>>
  BY DEF SampledObjectAlloc
<1> QED
  BY <1>1, <1>2, <1>3

\* What finds a node or inserts one has the count the map has; in a damaged tree
\* counts may get lost then.
LEMMA SizesIndexed ==
    ASSUME CallTypes, SInv, NEW t \in Threads, FindSize(t) \/ MissSize(t) \/ InsertSize(t)
    PROVE  \A k \in Keys : SizeCounts(k)'
<1>t. /\ size \in [Threads -> Sizes \cup {0}] /\ ofSize \in [Keys -> Nat]
      /\ ALLOC_SIZE_MAP \in [Keys -> Nat] /\ seen \in [Threads -> Nat]
      /\ at \in [Threads -> Places]
  BY DEF CallTypes
<1>0. size' = size /\ ofSize' = ofSize
  BY DEF FindSize, MissSize, InsertSize, objVars, sizeVars
<1>p. at[t] \in {"index", "insert size"} /\ at'[t] \in {"insert size", "store"}
      /\ \A u \in Threads : u # t => at'[u] = at[u]
  BY <1>t DEF FindSize, MissSize, InsertSize, Goto
<1> SUFFICES ASSUME NEW k \in Keys PROVE SizeCounts(k)'
  OBVIOUS
<1>1. Pending(k)' = Pending(k) /\ SizeCounts(k) /\ ofSize'[k] = ofSize[k]
  BY <1>0, <1>p DEF Pending, KeyOf, SInv
<1>2. t \in Pending(k) => KeyOf(t) = k
  BY DEF Pending
<1>3. CASE FindSize(t)
  <2>1. UNCHANGED <<ALLOC_SIZE_MAP, sizeNodes, damaged>>
        /\ seen' = [seen EXCEPT ![t] = ALLOC_SIZE_MAP[KeyOf(t)]]
    BY <1>3 DEF FindSize, sizeVars
  <2>2. \A u \in Pending(k) : \/ seen'[u] = ALLOC_SIZE_MAP'[k]
                              \/ at'[u] = at[u] /\ seen'[u] = seen[u]
    BY <1>t, <1>p, <1>2, <2>1 DEF Pending
  <2>3. ALLOC_SIZE_MAP'[k] \in Nat /\ ALLOC_SIZE_MAP'[k] <= ALLOC_SIZE_MAP[k]
    BY <1>t, <2>1
  <2> QED
    BY <1>1, <2>1, <2>2, <2>3, SizeKept
<1>4. CASE MissSize(t)
  <2>1. UNCHANGED <<ALLOC_SIZE_MAP, sizeNodes, seen>> /\ (~damaged' => ~damaged)
        /\ at'[t] = "insert size"
    BY <1>4, <1>t DEF MissSize, Goto
  <2>a. ALLOC_SIZE_MAP'[k] = ALLOC_SIZE_MAP[k] /\ ALLOC_SIZE_MAP[k] \in Nat
    BY <1>t, <2>1
  <2>2. \A u \in Pending(k) : at'[u] = "store" => at[u] = "store" /\ seen'[u] = seen[u]
    BY <1>p, <2>1 DEF Pending
  <2>3. ALLOC_SIZE_MAP'[k] \in Nat /\ ALLOC_SIZE_MAP'[k] <= ALLOC_SIZE_MAP[k]
    BY <2>a
  <2> QED
    BY <1>1, <2>1, <2>2, <2>3, SizeKept
<1>5. CASE InsertSize(t)
  <2>1. PICK lost \in IF damaged THEN SUBSET (sizeNodes \cup {KeyOf(t)}) ELSE {{}} :
          /\ sizeNodes' = (sizeNodes \cup {KeyOf(t)}) \ lost
          /\ ALLOC_SIZE_MAP' = [j \in Keys |-> IF j \in lost THEN 0 ELSE ALLOC_SIZE_MAP[j]]
          /\ seen' = [seen EXCEPT ![t] = ALLOC_SIZE_MAP'[KeyOf(t)]]
    BY <1>5 DEF InsertSize
  <2>2. damaged' = damaged /\ (~damaged => lost = {})
    BY <1>5, <2>1 DEF InsertSize
  <2>3. ALLOC_SIZE_MAP'[k] \in Nat /\ ALLOC_SIZE_MAP'[k] <= ALLOC_SIZE_MAP[k]
    BY <1>t, <2>1
  <2>4. ~damaged' => /\ ~damaged /\ ALLOC_SIZE_MAP'[k] = ALLOC_SIZE_MAP[k]
                     /\ k \in sizeNodes => k \in sizeNodes'
    BY <2>1, <2>2
  <2>5. \A u \in Pending(k) : \/ seen'[u] = ALLOC_SIZE_MAP'[k]
                              \/ at'[u] = at[u] /\ seen'[u] = seen[u]
    BY <1>t, <1>p, <1>2, <2>1 DEF Pending
  <2> QED
    BY <1>1, <2>3, <2>4, <2>5, SizeKept
<1> QED
  BY <1>3, <1>4, <1>5

\* What stores is not pending any more.
LEMMA SizesStored ==
    ASSUME CallTypes, SInv, NEW t \in Threads, StoreSize(t)
    PROVE  \A k \in Keys : SizeCounts(k)'
<1>t. /\ size \in [Threads -> Sizes \cup {0}] /\ ofSize \in [Keys -> Nat]
      /\ ALLOC_SIZE_MAP \in [Keys -> Nat] /\ seen \in [Threads -> Nat]
      /\ at \in [Threads -> Places]
  BY DEF CallTypes
<1>0. /\ size' = size /\ ofSize' = ofSize /\ seen' = seen
      /\ damaged' = damaged /\ sizeNodes' = sizeNodes
      /\ Goto(t, "store", "enter") /\ at[t] = "store"
  BY DEF StoreSize, objVars, Goto
<1>1. \/ /\ KeyOf(t) \in sizeNodes
         /\ ALLOC_SIZE_MAP' = [ALLOC_SIZE_MAP EXCEPT ![KeyOf(t)] = seen[t] + 1]
      \/ damaged /\ ALLOC_SIZE_MAP' = ALLOC_SIZE_MAP
  BY DEF StoreSize
<1> SUFFICES ASSUME NEW k \in Keys PROVE SizeCounts(k)'
  OBVIOUS
<1>a. \A u \in Threads \ {t} : size'[u] = size[u]
  BY <1>0
<1>b. Pending(k)' = Pending(k) \ {t}
  <2>1. Goto(t, "store", "enter")
    BY <1>0
  <2> QED
    BY <1>a, <2>1, PendingWithout
<1>2. Pending(k)' = Pending(k) \ {t} /\ SizeCounts(k)
  BY <1>b DEF SInv
<1>3. \A u \in Threads : u # t => at'[u] = at[u]
  BY <1>0, <1>t DEF Goto
<1>4. CASE KeyOf(t) = k
  <2> DEFINE c == Cardinality(Pending(k))
  <2>1. t \in Pending(k)
    BY <1>0, <1>4 DEF Pending
  <2>2. c \in Nat /\ c - 1 \in Nat
        /\ Cardinality(Pending(k))' = c - 1 /\ IsFiniteSet(Pending(k))'
    BY <1>2, <2>1, PendingChanges DEF SizeCounts
  <2>3. seen[t] \in Nat /\ ofSize[k] \in Nat /\ ALLOC_SIZE_MAP[k] \in Nat
    BY <1>t
  <2>4. /\ seen[t] + c <= ofSize[k] /\ ALLOC_SIZE_MAP[k] + c <= ofSize[k]
        /\ \A u \in Pending(k) : at[u] = "store" => seen[u] + c <= ofSize[k]
    BY <1>0, <1>2, <2>1 DEF SizeCounts
  <2> HIDE DEF c
  <2>5. ALLOC_SIZE_MAP'[k] \in {seen[t] + 1, ALLOC_SIZE_MAP[k]}
    BY <1>t, <1>1, <1>4
  <2>6. ALLOC_SIZE_MAP'[k] + (c - 1) <= ofSize'[k]
    <3>1. CASE ALLOC_SIZE_MAP'[k] = seen[t] + 1
      BY <1>0, <2>2, <2>3, <2>4, <3>1
    <3>2. CASE ALLOC_SIZE_MAP'[k] = ALLOC_SIZE_MAP[k]
      BY <1>0, <2>2, <2>3, <2>4, <3>2
    <3> QED
      BY <2>5, <3>1, <3>2
  <2>7. ~damaged' => ALLOC_SIZE_MAP'[k] > 0 /\ k \in sizeNodes'
    <3>1. ~damaged' => ALLOC_SIZE_MAP'[k] = seen[t] + 1 /\ k \in sizeNodes'
      BY <1>t, <1>0, <1>1, <1>4
    <3> QED
      BY <2>3, <3>1
  <2>8. ASSUME NEW u \in Pending(k)', at'[u] = "store"
        PROVE  seen'[u] + (c - 1) <= ofSize'[k]
    <3>1. u \in Pending(k) /\ u \in Threads /\ at[u] = "store" /\ seen'[u] = seen[u]
      BY <1>0, <1>2, <1>3, <2>8 DEF Pending
    <3>2. seen[u] \in Nat /\ seen[u] + c <= ofSize[k]
      BY <1>t, <2>4, <3>1
    <3> QED
      BY <1>0, <2>2, <2>3, <3>1, <3>2
  <2> QED
    BY <2>2, <2>6, <2>7, <2>8 DEF SizeCounts
<1>5. CASE KeyOf(t) # k
  <2>1. Pending(k)' = Pending(k)
    BY <1>2, <1>5 DEF Pending
  <2>2. ALLOC_SIZE_MAP'[k] = ALLOC_SIZE_MAP[k] /\ ALLOC_SIZE_MAP[k] \in Nat
    BY <1>t, <1>1, <1>5
  <2>3. \A u \in Pending(k) : at'[u] = "store" => at[u] = "store" /\ seen'[u] = seen[u]
    BY <1>0, <1>3, <1>5 DEF Pending
  <2>4. ALLOC_SIZE_MAP'[k] <= ALLOC_SIZE_MAP[k]
    BY <2>2
  <2> QED
    BY <1>0, <1>2, <2>1, <2>2, <2>3, <2>4, SizeKept
<1> QED
  BY <1>4, <1>5

\* The rest of a callback is not about sizes.
LEMMA SizesLeft ==
    ASSUME CallTypes, SInv, NEW t \in Threads,
           RawMonitorEnter(t) \/ InsertRow(t) \/ CountRow(t) \/ RawMonitorExit(t)
    PROVE  \A k \in Keys : SizeCounts(k)'
<1>t. /\ size \in [Threads -> Sizes \cup {0}] /\ ALLOC_SIZE_MAP \in [Keys -> Nat]
      /\ seen \in [Threads -> Nat] /\ at \in [Threads -> Places]
  BY DEF CallTypes
<1>1. at[t] \in {"enter", "insert row", "locked", "exit"}
      /\ UNCHANGED <<ALLOC_SIZE_MAP, sizeNodes, damaged, ofSize>>
  BY DEF RawMonitorEnter, IndexRow, InsertRow, CountRow, RawMonitorExit, Return, Goto, sizeVars
<1>2. \A u \in Threads \ {t} : size'[u] = size[u] /\ seen'[u] = seen[u]
  BY <1>t DEF RawMonitorEnter, IndexRow, InsertRow, CountRow, RawMonitorExit, Return, objVars
<1>3. \E from, to \in {"enter", "insert row", "locked", "exit", "run"} : Goto(t, from, to)
  BY DEF RawMonitorEnter, IndexRow, InsertRow, CountRow, RawMonitorExit, Return
<1>4. \A u \in Threads : u # t => at'[u] = at[u]
  BY <1>3, <1>t DEF Goto
<1> SUFFICES ASSUME NEW k \in Keys PROVE SizeCounts(k)'
  OBVIOUS
<1>5. t \notin Pending(k) /\ SizeCounts(k)
  BY <1>1 DEF Pending, SInv
<1>6. Pending(k)' = Pending(k)
  <2>1. PICK from, to \in {"enter", "insert row", "locked", "exit", "run"} : Goto(t, from, to)
    BY <1>3
  <2>2. Pending(k)' = Pending(k) \ {t}
    BY <1>2, <2>1, PendingAfter
  <2> QED
    BY <1>5, <2>2
<1>7. \A u \in Pending(k) : at'[u] = "store" => at[u] = "store" /\ seen'[u] = seen[u]
  BY <1>2, <1>4, <1>5 DEF Pending
<1>a. ALLOC_SIZE_MAP'[k] = ALLOC_SIZE_MAP[k] /\ ALLOC_SIZE_MAP[k] \in Nat
  BY <1>t, <1>1
<1>8. ALLOC_SIZE_MAP'[k] \in Nat /\ ALLOC_SIZE_MAP'[k] <= ALLOC_SIZE_MAP[k]
  BY <1>a
<1> QED
  BY <1>1, <1>5, <1>6, <1>7, <1>8, SizeKept

\* The objects of a key only get more.
LEMMA SizesGrow ==
    ASSUME CallTypes, NEW t \in Threads, SampledObjectAlloc(t) \/ Callback(t)
    PROVE  \A k \in Keys : ofSize[k] \in Nat /\ ofSize'[k] \in Nat /\ ofSize[k] <= ofSize'[k]
<1>1. ofSize \in [Keys -> Nat]
  BY DEF CallTypes
<1>2. CASE ofSize' = ofSize
  BY <1>1, <1>2
<1>3. ASSUME NEW s \in Sizes, ofSize' = [ofSize EXCEPT ![Key(s)] = @ + 1], NEW k \in Keys
      PROVE  ofSize[k] \in Nat /\ ofSize'[k] \in Nat /\ ofSize[k] <= ofSize'[k]
  <2>1. ofSize[k] \in Nat
    BY <1>1
  <2>2. ofSize'[k] \in {ofSize[k], ofSize[k] + 1}
    BY <1>1, <1>3
  <2> QED
    BY <2>1, <2>2
<1>4. CASE SampledObjectAlloc(t)
  BY <1>2, <1>3, <1>4 DEF SampledObjectAlloc
<1>5. CASE Callback(t)
  BY <1>2, <1>5 DEF Callback, FindSize, MissSize, InsertSize, StoreSize, RawMonitorEnter,
                    IndexRow, InsertRow, CountRow, RawMonitorExit, Return, sizeVars
<1> QED
  BY <1>4, <1>5

\* A callback prints nothing.
LEMMA PrintedLeft ==
    ASSUME PInv, SizesPrinted, NEW t \in Threads, SampledObjectAlloc(t) \/ Callback(t)
    PROVE  SizesPrinted'
<1>1. printedSizes' = printedSizes
  BY CallbackLeaves DEF printVars
<1>2. ASSUME NEW i \in DOMAIN printedSizes
      PROVE  printedSizes[i].count <= ofSize'[printedSizes[i].size]
  <2>1. printedSizes[i].size \in Keys /\ printedSizes[i].count \in Nat
    BY PrintedSizes DEF PInv
  <2>2. printedSizes[i].count <= ofSize[printedSizes[i].size]
    BY DEF SizesPrinted
  <2>3. ofSize[printedSizes[i].size] \in Nat /\ ofSize'[printedSizes[i].size] \in Nat
        /\ ofSize[printedSizes[i].size] <= ofSize'[printedSizes[i].size]
    BY <2>1, SizesGrow DEF PInv
  <2> QED
    BY <2>1, <2>2, <2>3
<1> QED
  BY <1>1, <1>2 DEF SizesPrinted

\* A size is printed with the count in the map.
LEMMA SizePrinted ==
    ASSUME PInv, SInv, PrintSize
    PROVE  SizesPrinted'
<1>1. PICK k \in SizeSteps :
        printedSizes' = Append(printedSizes, [size |-> k, count |-> ALLOC_SIZE_MAP[k]])
  BY DEF PrintSize
<1> DEFINE line == [size |-> k, count |-> ALLOC_SIZE_MAP[k]]
<1>2. k \in Keys
  <2>1. \A u \in Threads : at[u] = "insert size" => KeyOf(u) \in Keys
    BY DEF PInv, CallTypes, KeyOf, Keys
  <2>2. sizeNodes \subseteq Keys
    BY DEF PInv, CallTypes
  <2> QED
    BY <2>1, <2>2 DEF SizeSteps, NextNode
<1>3. /\ printedSizes \in Seq([size : Keys, count : Nat])
      /\ ALLOC_SIZE_MAP[k] \in Nat /\ ofSize[k] \in Nat /\ ofSize' = ofSize
  BY <1>2 DEF PInv, CallTypes, PrintTypes, PrintSize, callVars, sizeVars
<1>4. line \in [size : Keys, count : Nat] /\ line.count <= ofSize[line.size]
  <2>1. Cardinality(Pending(k)) \in Nat
        /\ ALLOC_SIZE_MAP[k] + Cardinality(Pending(k)) <= ofSize[k]
    BY <1>2, FS_CardinalityType DEF SInv, SizeCounts
  <2> QED
    BY <1>2, <1>3, <2>1
<1>5. printedSizes' = Append(printedSizes, line)
  BY <1>1
<1> HIDE DEF line
<1>6. /\ DOMAIN printedSizes' = DOMAIN printedSizes \cup {Len(printedSizes) + 1}
      /\ printedSizes'[Len(printedSizes) + 1] = line
      /\ \A i \in DOMAIN printedSizes : printedSizes'[i] = printedSizes[i]
  BY <1>3, <1>4, <1>5, SeqAppend
<1> QED
  BY <1>3, <1>4, <1>6 DEF SInv, SizesPrinted

LEMMA SInvStep == PInv /\ SInv /\ [Next]_vars => SInv'
<1> SUFFICES ASSUME PInv, SInv, [Next]_vars PROVE SInv'
  OBVIOUS
<1>1. ASSUME NEW t \in Threads, SampledObjectAlloc(t) \/ Callback(t) PROVE SInv'
  <2>1. \A k \in Keys : SizeCounts(k)'
    BY <1>1, SizesSampled, SizesIndexed, SizesStored, SizesLeft DEF Callback, PInv
  <2> QED
    BY <1>1, <2>1, PrintedLeft DEF SInv
<1>2. CASE PrintAlloc \/ UNCHANGED vars
  <2>1. UNCHANGED callVars
    BY <1>2 DEF PrintAlloc, StartPrint, PrintRow, RowsPrinted, PrintSize, EndPrint, vars
  <2>2. \A k \in Keys : SizeCounts(k)'
    BY <2>1 DEF callVars, objVars, sizeVars, SInv, SizeCounts, Pending, KeyOf
  <2>3. CASE printedSizes' = printedSizes
    BY <2>1, <2>2, <2>3 DEF callVars, sizeVars, SInv, SizesPrinted
  <2>4. CASE PrintSize
    BY <2>2, <2>4, SizePrinted DEF SInv
  <2> QED
    BY <1>2, <2>3, <2>4 DEF PrintAlloc, StartPrint, PrintRow, RowsPrinted, EndPrint,
                            vars, printVars
<1> QED
  BY <1>1, <1>2 DEF Next, Finished

\* The counts of ALLOC_SIZE_MAP are lower bounds, whatever increments the threads of
\* SampledObjectAlloc lose and however they damage the tree; and unless insertions
\* into it overlapped, no key that a callback has counted is missing.
THEOREM SizesLowerBounds == Spec => []SizesNeverOvercount
<1>1. ASSUME Init PROVE SInv
  <2>1. \A k : Pending(k) = {}
    BY <1>1 DEF Init, Pending
  <2>2. \A k \in Keys : ALLOC_SIZE_MAP[k] = 0 /\ ofSize[k] = 0
    BY <1>1 DEF Init, Zero
  <2>3. DOMAIN printedSizes = {}
    BY <1>1 DEF Init
  <2>4. ASSUME NEW k \in Keys PROVE SizeCounts(k)
    <3>1. Cardinality(Pending(k)) = 0 /\ IsFiniteSet(Pending(k))
      BY <2>1, FS_EmptySet
    <3> QED
      BY <2>1, <2>2, <3>1 DEF SizeCounts
  <2> QED
    BY <2>3, <2>4 DEF SInv, SizesPrinted
<1>2. SInv => SizesNeverOvercount
  BY DEF SInv, SizeCounts, SizesPrinted, SizesNeverOvercount
<1> QED
  BY <1>1, <1>2, PInvInit, PInvStep, SInvStep, PTL DEF Spec
=============================================================================
