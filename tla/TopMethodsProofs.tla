-------------------------- MODULE TopMethodsProofs --------------------------
(***************************************************************************)
(* Proofs about the report of PrintTopMethods, for any addresses, names,   *)
(* counts and limits and a table of any size: what its sums and its gaps   *)
(* mean, which result a name gets, and that what is monitored was set.     *)
(***************************************************************************)
EXTENDS TopMethods, FiniteSetTheorems, WellFoundedInduction, TLAPS

\* The samples of a method in the rows before the k-th.
SamplesTo(a, k) == SamplesIn({i \in RowsOf(a) : i < k})

Types ==
    /\ options \in [count_top : {0, Top}, lat_top : {0, Top}, lat_name : Patterns]
    /\ N \in Nat \ {0}
    /\ table \in Seq(Row) /\ Sorted(table)
    /\ pos \in 1..(Len(table) + 1)
    /\ mout \in [DOMAIN mout -> [name : Names, count : Nat]]
    /\ printed \in Seq(Addrs) /\ methods \in Seq(Addrs)
    /\ results \in [DOMAIN results -> Nat]
    /\ measured \in Seq([name : Names \cup {Unset}, lat : Latencies])
    /\ pc \in {"merge", "print", "count", "lat", "name", "done"}

\* The entries are those of the rows passed, with the samples these rows have.
Merged ==
    /\ DOMAIN mout = {table[i].addr : i \in 1..(pos - 1)}
    /\ IsFiniteSet(DOMAIN mout) /\ Cardinality(DOMAIN mout) <= N + 1
    /\ \A a \in DOMAIN mout : mout[a].count = Cardinality(SamplesTo(a, pos))
    /\ pc # "merge" => pos > Len(table) \/ Full(mout)

\* The entries printed are the first ones, in their order, and methods[] holds
\* the first of them.
Printed ==
    /\ InReport \subseteq DOMAIN mout /\ Cardinality(InReport) = Len(printed)
    /\ \A i, j \in DOMAIN printed : i < j => Before(mout, printed[i], printed[j])
    /\ \A i \in DOMAIN printed : \A b \in Left : Before(mout, printed[i], b)
    /\ pc = "merge" => printed = <<>>
    /\ pc \notin {"merge", "print"} => Left = {}
    /\ Len(methods) = IF Len(printed) < N THEN Len(printed) ELSE N
    /\ \A i \in DOMAIN methods : methods[i] = printed[i]

\* Before lat_top clears them, the results are the largest sums by name.
Summed ==
    options.lat_top = 0 \/ pc \in {"merge", "print", "count"} =>
        /\ DOMAIN results = {mout[a].name : a \in InReport}
        /\ \A n \in DOMAIN results : \E a \in InReport :
              /\ mout[a].name = n /\ results[n] = mout[a].count
              /\ \A b \in InReport : mout[b].name = n => mout[b].count <= results[n]

\* Afterwards they are the first latencies by name.
Measured ==
    /\ \A i \in DOMAIN measured : measured[i].name \in NamesAt(i)
    /\ pc \in {"merge", "print", "count"} => measured = <<>>
    /\ Len(measured) <= options.lat_top
    /\ pc \in {"name", "done"} => Len(measured) = options.lat_top
    /\ pc \in {"lat", "name", "done"} /\ options.lat_top > 0 =>
          /\ DOMAIN results = {measured[i].name : i \in DOMAIN measured}
          /\ \A n \in DOMAIN results : \E i \in MeasuredAs(n) :
                results[n] = measured[i].lat /\ \A j \in MeasuredAs(n) : i <= j

Monitored ==
    /\ counted = IF pc \in {"lat", "name", "done"} THEN 1..options.count_top ELSE {}
    /\ named = IF pc = "done" THEN {i \in 1..N : NameAt(i) \in options.lat_name} ELSE {}

IInv == Types /\ Merged /\ Printed /\ Summed /\ Measured /\ Monitored

-----------------------------------------------------------------------------
\* The operators

\* A set of numbers that is not empty has a smallest element.
LEMMA Smallest ==
    ASSUME NEW S \in SUBSET Nat, S # {}
    PROVE  \E i \in S : \A j \in S : i <= j
<1>1. PICK i \in S : \A j \in S : <<j, i>> \notin OpToRel(<, Nat)
  BY WFMin, NatLessThanWellFounded, Zenon
<1>2. \A j \in S : ~(j < i)
  BY <1>1, Zenon DEF OpToRel
<1> QED
  BY <1>2

\* So induction holds: a set that has 0, and n + 1 with every n, has all numbers.
LEMMA Induction ==
    ASSUME NEW S \in SUBSET Nat, 0 \in S, \A n \in S : n + 1 \in S
    PROVE  S = Nat
<1> SUFFICES ASSUME S # Nat PROVE FALSE
  OBVIOUS
<1>1. PICK i \in Nat \ S : \A j \in Nat \ S : i <= j
  BY Smallest
<1>2. i - 1 \in Nat \ S \/ i = 0
  BY <1>1
<1> QED
  BY <1>1, <1>2

\* The parts of a row, and where the rows of a method are.
LEMMA RowTypes ==
    ASSUME Types
    PROVE  /\ \A i \in DOMAIN table : table[i].addr \in Addrs /\ table[i].addr \in Nat
                    /\ table[i].name \in Names /\ table[i].samples \in Nat \ {0}
           /\ DOMAIN table = 1..Len(table) /\ Len(table) \in Nat
           /\ \A a : RowsOf(a) \subseteq DOMAIN table
<1>1. \A i \in DOMAIN table : table[i] \in Row
  BY DEF Types
<1>2. \A i \in DOMAIN table : table[i].addr \in Addrs /\ table[i].name \in Names
                              /\ table[i].samples \in Samples
  BY <1>1 DEF Row
<1> QED
  BY <1>2, RowsAssumption DEF Types, RowsOf

\* A row of m samples has m samples.
LEMMA RowSize ==
    ASSUME NEW i, NEW m \in Nat
    PROVE  IsFiniteSet({i} \X (1..m)) /\ Cardinality({i} \X (1..m)) = m
<1>1. IsFiniteSet({i}) /\ Cardinality({i}) = 1
  BY FS_Singleton
<1>2. IsFiniteSet(1..m) /\ Cardinality(1..m) = m
  BY FS_Interval
<1>3. /\ IsFiniteSet({i} \X (1..m))
      /\ Cardinality({i} \X (1..m)) = Cardinality({i}) * Cardinality(1..m)
  BY <1>1, <1>2, FS_Product, Zenon
<1> QED
  BY <1>1, <1>2, <1>3

\* One row more adds its samples to its method and to no other.
LEMMA SamplesStep ==
    ASSUME Types, NEW a, NEW k \in DOMAIN table, IsFiniteSet(SamplesTo(a, k))
    PROVE  /\ IsFiniteSet(SamplesTo(a, k + 1))
           /\ Cardinality(SamplesTo(a, k + 1)) =
                Cardinality(SamplesTo(a, k))
                + (IF table[k].addr = a THEN table[k].samples ELSE 0)
<1>t. k \in Nat /\ DOMAIN table \subseteq Nat
  BY RowTypes
<1>1. CASE table[k].addr # a
  <2>1. {i \in RowsOf(a) : i < k + 1} = {i \in RowsOf(a) : i < k}
    BY <1>1, <1>t DEF RowsOf
  <2>2. SamplesTo(a, k + 1) = SamplesTo(a, k)
    BY <2>1, Zenon DEF SamplesTo
  <2>3. Cardinality(SamplesTo(a, k)) \in Nat
    BY FS_CardinalityType
  <2> QED
    BY <1>1, <2>2, <2>3
<1>2. CASE table[k].addr = a
  <2> DEFINE R == {k} \X (1..table[k].samples)
  <2>0. table[k].samples \in Nat
    BY RowTypes
  <2>1. {i \in RowsOf(a) : i < k + 1} = {i \in RowsOf(a) : i < k} \cup {k}
    BY <1>2, <1>t DEF RowsOf
  <2>2. SamplesTo(a, k + 1) = SamplesTo(a, k) \cup R
    BY <2>1 DEF SamplesTo, SamplesIn
  <2>3. SamplesTo(a, k) \cap R = {}
    <3>1. \A s \in SamplesTo(a, k) : s[1] < k
      BY <1>t DEF SamplesTo, SamplesIn
    <3>2. \A s \in R : s[1] = k
      OBVIOUS
    <3> QED
      BY <3>1, <3>2, <1>t
  <2>4. IsFiniteSet(R) /\ Cardinality(R) = table[k].samples
    BY <2>0, RowSize
  <2> HIDE DEF R
  <2>5. Cardinality({}) = 0
    BY FS_EmptySet
  <2>6. /\ IsFiniteSet(SamplesTo(a, k) \cup R)
        /\ Cardinality(SamplesTo(a, k) \cup R) =
             Cardinality(SamplesTo(a, k)) + Cardinality(R) - Cardinality(SamplesTo(a, k) \cap R)
    BY <2>4, FS_Union
  <2>7. Cardinality(SamplesTo(a, k)) \in Nat
    BY FS_CardinalityType
  <2>8. Cardinality(SamplesTo(a, k) \cap R) = 0
    BY <2>3, <2>5, Zenon
  <2>9. Cardinality(SamplesTo(a, k) \cup R)
          = Cardinality(SamplesTo(a, k)) + table[k].samples - 0
    BY <2>4, <2>6, <2>8, Zenon
  <2>10. /\ IsFiniteSet(SamplesTo(a, k + 1))
         /\ Cardinality(SamplesTo(a, k + 1))
              = Cardinality(SamplesTo(a, k)) + table[k].samples - 0
    BY <2>2, <2>6, <2>9, Zenon
  <2> QED
    BY <1>2, <2>0, <2>7, <2>10
<1> QED
  BY <1>1, <1>2

\* Before the first row there are no samples.
LEMMA SamplesNone ==
    ASSUME Types, NEW a, NEW k, \A i \in RowsOf(a) : ~(i < k)
    PROVE  SamplesTo(a, k) = {}
  BY DEF SamplesTo, SamplesIn

\* The samples of a method are finitely many, up to any row.
LEMMA SamplesFinite ==
    ASSUME Types, NEW a, NEW k \in 1..(Len(table) + 1)
    PROVE  IsFiniteSet(SamplesTo(a, k)) /\ Cardinality(SamplesTo(a, k)) \in Nat
<1> DEFINE S == {n \in Nat : n + 1 <= Len(table) + 1 => IsFiniteSet(SamplesTo(a, n + 1))}
<1>t. DOMAIN table = 1..Len(table) /\ Len(table) \in Nat /\ RowsOf(a) \subseteq DOMAIN table
  BY RowTypes
<1>1. 0 \in S
  <2>1. SamplesTo(a, 0 + 1) = {}
    BY <1>t, SamplesNone
  <2> QED
    BY <2>1, FS_EmptySet
<1>2. ASSUME NEW n \in S PROVE n + 1 \in S
  <2> SUFFICES ASSUME n + 1 + 1 <= Len(table) + 1
               PROVE  IsFiniteSet(SamplesTo(a, n + 1 + 1))
    OBVIOUS
  <2>1. n + 1 \in DOMAIN table /\ IsFiniteSet(SamplesTo(a, n + 1))
    BY <1>t
  <2> QED
    BY <2>1, SamplesStep
<1>3. S = Nat
  <2>1. S \in SUBSET Nat
    OBVIOUS
  <2> HIDE DEF S
  <2> QED
    BY <1>1, <1>2, <2>1, Induction
<1>4. k - 1 \in Nat /\ (k - 1) + 1 = k /\ k <= Len(table) + 1
  BY <1>t
<1>5. IsFiniteSet(SamplesTo(a, k))
  <2>1. k - 1 \in S
    BY <1>3, <1>4
  <2>2. (k - 1) + 1 <= Len(table) + 1 => IsFiniteSet(SamplesTo(a, (k - 1) + 1))
    BY <2>1
  <2> HIDE DEF S
  <2> QED
    BY <1>4, <2>2
<1> QED
  BY <1>5, FS_CardinalityType

\* After the last row they are all samples of the method.
LEMMA SamplesAll ==
    ASSUME Types, NEW a
    PROVE  /\ SamplesTo(a, Len(table) + 1) = SamplesIn(RowsOf(a))
           /\ \A k \in 1..(Len(table) + 1) : SamplesTo(a, k) \subseteq SamplesIn(RowsOf(a))
           /\ IsFiniteSet(SamplesIn(RowsOf(a))) /\ Total(a) \in Nat
<1>t. DOMAIN table = 1..Len(table) /\ Len(table) \in Nat /\ RowsOf(a) \subseteq DOMAIN table
  BY RowTypes
<1>1. {i \in RowsOf(a) : i < Len(table) + 1} = RowsOf(a)
  BY <1>t
<1>2. SamplesTo(a, Len(table) + 1) = SamplesIn(RowsOf(a))
  BY <1>1, Zenon DEF SamplesTo
<1>3. \A k : SamplesTo(a, k) \subseteq SamplesIn(RowsOf(a))
  BY DEF SamplesTo, SamplesIn
<1>4. Len(table) + 1 \in 1..(Len(table) + 1)
  BY <1>t
<1> QED
  BY <1>2, <1>3, <1>4, SamplesFinite DEF Total

\* The table is sorted, so the first row of a method is its largest.
LEMMA LargestIsFirst ==
    ASSUME Types, NEW a \in Sampled
    PROVE  \E i \in RowsOf(a) : (\A j \in RowsOf(a) : i <= j) /\ Largest(a) = table[i].samples
<1>t. /\ \A i \in DOMAIN table : table[i].samples \in Nat
      /\ DOMAIN table = 1..Len(table) /\ Len(table) \in Nat /\ RowsOf(a) \subseteq DOMAIN table
  BY RowTypes
<1>1. RowsOf(a) # {} /\ RowsOf(a) \in SUBSET Nat
  BY <1>t DEF Sampled, RowsOf
<1>2. PICK i \in RowsOf(a) : \A j \in RowsOf(a) : i <= j
  BY <1>1, Smallest
<1> DEFINE T == {table[j].samples : j \in RowsOf(a)}
<1>3. table[i].samples \in T /\ \A s \in T : table[i].samples >= s
  <2> SUFFICES ASSUME NEW j \in RowsOf(a) PROVE table[i].samples >= table[j].samples
    OBVIOUS
  <2>1. i \in DOMAIN table /\ j \in DOMAIN table /\ (i = j \/ i < j)
    BY <1>1, <1>2, <1>t
  <2> QED
    BY <1>t, <2>1 DEF Types, Sorted
<1>4. T \subseteq Nat
  BY <1>t
<1> HIDE DEF T
<1>5. Max(T) \in T /\ \A s \in T : Max(T) >= s
  BY <1>3, Zenon DEF Max
<1>6. Max(T) = table[i].samples
  <2>1. Max(T) \in Nat /\ table[i].samples \in Nat
    BY <1>3, <1>4, <1>5
  <2>2. Max(T) >= table[i].samples /\ table[i].samples >= Max(T)
    BY <1>3, <1>5, Zenon
  <2> QED
    BY <2>1, <2>2
<1> QED
  BY <1>2, <1>6 DEF T, Largest

\* The methods sampled are finitely many.
LEMMA SampledFinite ==
    ASSUME Types
    PROVE  IsFiniteSet(Sampled)
<1> DEFINE f == [i \in DOMAIN table |-> table[i].addr]
<1>1. IsFiniteSet(DOMAIN table)
  BY RowTypes, FS_Interval
<1>2. f \in Surjection(DOMAIN table, Sampled)
  BY DEF Sampled, Surjection
<1> QED
  BY <1>1, <1>2, FS_Surjection

-----------------------------------------------------------------------------
\* The inductive invariant

LEMMA IInvInit == Init => IInv
<1> SUFFICES ASSUME Init PROVE IInv
  OBVIOUS
<1>1. Types
  <2>1. table \in Seq(Row) /\ Sorted(table)
    <3>1. table \in BoundedSeq(Row, MaxRows) /\ Sorted(table)
      BY DEF Init
    <3>2. PICK m \in 0..MaxRows : table \in [1..m -> Row]
      BY <3>1 DEF BoundedSeq, SeqOf
    <3>3. m \in Nat
      BY <3>2, TopBounds
    <3> QED
      BY <3>1, <3>2, <3>3
  <2>2. pos \in 1..(Len(table) + 1) /\ N \in Nat \ {0}
    BY <2>1, TopBounds DEF Init
  <2> QED
    BY <2>1, <2>2 DEF Init, Types
<1>e. DOMAIN mout = {} /\ InReport = {} /\ DOMAIN results = {} /\ Left = {}
  BY DEF Init, InReport, Left, Range
<1>2. Merged
  <2>1. IsFiniteSet({}) /\ Cardinality({}) = 0
    BY FS_EmptySet
  <2> QED
    BY <1>1, <1>e, <2>1 DEF Init, Merged, Types
<1>3. Printed
  <2>1. Cardinality({}) = 0
    BY FS_EmptySet
  <2> QED
    BY <1>1, <1>e, <2>1 DEF Init, Printed, Types
<1>4. Summed
  BY <1>e DEF Init, Summed
<1>5. Measured /\ Monitored
  <2>1. options.lat_top \in Nat
    BY <1>1, TopBounds DEF Types
  <2>2. measured = <<>> /\ Len(measured) = 0 /\ DOMAIN measured = {}
    BY DEF Init
  <2> QED
    BY <2>1, <2>2 DEF Init, Measured, Monitored
<1> QED
  BY <1>1, <1>2, <1>3, <1>4, <1>5 DEF IInv

\* What depends on the table and on the rows passed stays with them.
LEMMA MergedKept ==
    ASSUME Merged, table' = table, pos' = pos, mout' = mout, N' = N,
           pc # "merge" \/ pc' = "merge"
    PROVE  Merged'
<1>1. \A a : RowsOf(a)' = RowsOf(a)
  BY DEF RowsOf
<1>2. \A a : SamplesTo(a, pos)' = SamplesTo(a, pos)
  BY <1>1 DEF SamplesTo, SamplesIn
<1> QED
  BY <1>2 DEF Merged, Full

\* MergeRow adds the samples of the row to its method.
LEMMA MergeStep == IInv /\ MergeRow => IInv'
<1> SUFFICES ASSUME IInv, MergeRow PROVE IInv'
  OBVIOUS
<1>i. Types /\ Merged /\ Printed /\ Summed /\ Measured /\ Monitored
  BY DEF IInv
<1> DEFINE r == table[pos]
<1>u. /\ pc = "merge" /\ pos <= Len(table) /\ ~Full(mout)
      /\ mout' = Merge(mout, r) /\ pos' = pos + 1
      /\ UNCHANGED <<options, N, table, printed, results, methods, counted, measured, named, pc>>
  BY DEF MergeRow, monitorVars
<1>r. /\ pos \in DOMAIN table /\ pos \in Nat /\ r.addr \in Addrs /\ r.name \in Names
      /\ r.samples \in Nat \ {0} /\ DOMAIN table = 1..Len(table) /\ Len(table) \in Nat
  BY <1>i, <1>u, RowTypes DEF Types
<1>d. DOMAIN mout' = DOMAIN mout \cup {r.addr}
  BY <1>u DEF Merge
<1>m. \A a \in DOMAIN mout' :
        mout'[a] = IF a \notin DOMAIN mout THEN [name |-> r.name, count |-> r.samples]
                   ELSE IF a = r.addr THEN [mout[a] EXCEPT !.count = @ + r.samples]
                   ELSE mout[a]
  BY <1>u, <1>d DEF Merge
<1> HIDE DEF r
<1>t. \A a \in DOMAIN mout : mout[a] \in [name : Names, count : Nat]
  BY <1>i DEF Types
<1>1. Types'
  <2>1. mout' \in [DOMAIN mout' -> [name : Names, count : Nat]]
    <3>1. \A a \in DOMAIN mout' : mout'[a] \in [name : Names, count : Nat]
      BY <1>t, <1>m, <1>r
    <3>2. mout' = [a \in DOMAIN mout' |-> mout'[a]]
      BY <1>u, <1>d DEF Merge
    <3> QED
      BY <3>1, <3>2
  <2>2. pos' \in 1..(Len(table') + 1)
    BY <1>u, <1>r
  <2>3. Sorted(table)'
    BY <1>i, <1>u DEF Types, Sorted
  <2> QED
    BY <1>i, <1>u, <2>1, <2>2, <2>3 DEF Types
<1>2. Merged'
  <2>1. DOMAIN mout' = {table'[i].addr : i \in 1..(pos' - 1)}
    <3>1. 1..(pos' - 1) = (1..(pos - 1)) \cup {pos}
      BY <1>u, <1>r
    <3>2. DOMAIN mout = {table[i].addr : i \in 1..(pos - 1)}
      BY <1>i DEF Merged
    <3> QED
      BY <1>d, <1>u, <3>1, <3>2 DEF r
  <2>2. IsFiniteSet(DOMAIN mout') /\ Cardinality(DOMAIN mout') <= N + 1
    <3>1. /\ IsFiniteSet(DOMAIN mout \cup {r.addr})
          /\ Cardinality(DOMAIN mout \cup {r.addr}) =
               IF r.addr \in DOMAIN mout THEN Cardinality(DOMAIN mout)
               ELSE Cardinality(DOMAIN mout) + 1
      BY <1>i, FS_AddElement DEF Merged
    <3>2. Cardinality(DOMAIN mout) \in Nat /\ Cardinality(DOMAIN mout) <= N
      <4>1. Cardinality(DOMAIN mout) \in Nat
        BY <1>i, FS_CardinalityType DEF Merged
      <4> QED
        BY <1>i, <1>u, <4>1 DEF Full, Types
    <3>3. /\ IsFiniteSet(DOMAIN mout')
          /\ Cardinality(DOMAIN mout') =
               IF r.addr \in DOMAIN mout THEN Cardinality(DOMAIN mout)
               ELSE Cardinality(DOMAIN mout) + 1
      BY <1>d, <3>1, Zenon
    <3> QED
      BY <1>i, <3>2, <3>3 DEF Types
  <2>3. ASSUME NEW a \in DOMAIN mout'
        PROVE  mout'[a].count = Cardinality(SamplesTo(a, pos + 1))
    <3>1. pos \in 1..(Len(table) + 1)
      BY <1>r
    <3>2. IsFiniteSet(SamplesTo(a, pos)) /\ Cardinality(SamplesTo(a, pos)) \in Nat
      BY <1>i, <3>1, SamplesFinite
    <3>3. Cardinality(SamplesTo(a, pos + 1)) =
            Cardinality(SamplesTo(a, pos)) + (IF r.addr = a THEN r.samples ELSE 0)
      BY <1>i, <1>r, <3>2, SamplesStep DEF r
    <3>4. CASE a \notin DOMAIN mout
      <4>1. \A i \in RowsOf(a) : ~(i < pos)
        BY <1>i, <1>r, <3>4, RowTypes DEF Merged, RowsOf
      <4>2. SamplesTo(a, pos) = {}
        BY <1>i, <4>1, SamplesNone
      <4>3. Cardinality(SamplesTo(a, pos)) = 0
        BY <4>2, FS_EmptySet, Zenon
      <4>4. a = r.addr /\ mout'[a] = [name |-> r.name, count |-> r.samples]
        BY <1>d, <1>m, <3>4
      <4> QED
        BY <1>r, <3>3, <4>3, <4>4
    <3>5. CASE a \in DOMAIN mout
      <4>1. mout[a].count = Cardinality(SamplesTo(a, pos))
        BY <1>i, <3>5 DEF Merged
      <4>2. mout[a].count \in Nat
        BY <1>t, <3>5
      <4>3. mout'[a].count = IF a = r.addr THEN mout[a].count + r.samples ELSE mout[a].count
        BY <1>t, <1>m, <3>5
      <4> QED
        BY <1>r, <3>3, <4>1, <4>2, <4>3
    <3> QED
      BY <3>4, <3>5
  <2>4. \A a \in DOMAIN mout' : mout'[a].count = Cardinality(SamplesTo(a, pos))'
    <3>1. \A a : RowsOf(a)' = RowsOf(a)
      BY <1>u DEF RowsOf
    <3>2. \A a : SamplesTo(a, pos)' = SamplesTo(a, pos + 1)
      BY <1>u, <3>1 DEF SamplesTo, SamplesIn
    <3> QED
      BY <2>3, <3>2
  <2> QED
    BY <1>u, <2>1, <2>2, <2>4 DEF Merged
<1>e. printed = <<>> /\ InReport = {} /\ InReport' = {}
  BY <1>i, <1>u DEF Printed, InReport, Range
<1>3. Printed'
  BY <1>i, <1>u, <1>e DEF Printed, InReport, Left
<1>4. Summed'
  BY <1>i, <1>u, <1>e DEF Summed
<1>5. Measured' /\ Monitored'
  BY <1>i, <1>u DEF Measured, Monitored
<1> QED
  BY <1>1, <1>2, <1>3, <1>4, <1>5 DEF IInv

\* The walk ends at the end of the table, or with one entry more than N.
LEMMA EndMergeStep == IInv /\ EndMerge => IInv'
<1> SUFFICES ASSUME IInv, EndMerge PROVE IInv'
  OBVIOUS
<1>i. Types /\ Merged /\ Printed /\ Summed /\ Measured /\ Monitored
  BY DEF IInv
<1>u. /\ pc = "merge" /\ pc' = "print" /\ (pos > Len(table) \/ Full(mout))
      /\ UNCHANGED <<options, N, table, pos, mout, printed, results, methods, counted, measured, named>>
  BY DEF EndMerge, monitorVars
<1>1. Types'
  BY <1>i, <1>u DEF Types, Sorted
<1>2. Merged'
  <2>1. \A a : RowsOf(a)' = RowsOf(a)
    BY <1>u DEF RowsOf
  <2>2. \A a : SamplesTo(a, pos)' = SamplesTo(a, pos)
    BY <1>u, <2>1 DEF SamplesTo, SamplesIn
  <2> QED
    BY <1>i, <1>u, <2>2 DEF Merged, Full
<1>3. Printed'
  BY <1>i, <1>u DEF Printed, InReport, Left, Before
<1>4. Summed'
  BY <1>i, <1>u DEF Summed, InReport
<1>5. Measured' /\ Monitored'
  BY <1>i, <1>u DEF Measured, Monitored
<1> QED
  BY <1>1, <1>2, <1>3, <1>4, <1>5 DEF IInv

\* PrintRow prints the first of the entries that are left.
LEMMA PrintStep == IInv /\ PrintRow => IInv'
<1> SUFFICES ASSUME IInv, PrintRow PROVE IInv'
  OBVIOUS
<1>i. Types /\ Merged /\ Printed /\ Summed /\ Measured /\ Monitored
  BY DEF IInv
<1>p. PICK a \in Left : /\ Entry(a)
                        /\ printed' = Append(printed, a)
                        /\ results' = Insert(results, mout[a].name, mout[a].count)
                        /\ methods' = IF Kept THEN Append(methods, a) ELSE methods
  BY DEF PrintRow
<1>u. /\ pc = "print" /\ pc' = "print"
      /\ UNCHANGED <<options, N, table, pos, mout, counted, measured, named>>
  BY DEF PrintRow, monitorVars
<1>a. a \in DOMAIN mout /\ a \notin InReport /\ a \in Addrs
  <2>1. \A i \in 1..(pos - 1) : i \in DOMAIN table
    BY <1>i, RowTypes DEF Types
  <2> QED
    BY <1>i, <2>1, RowTypes DEF Left, Merged
<1>c. /\ \A b \in DOMAIN mout : mout[b] \in [name : Names, count : Nat]
      /\ \A b \in DOMAIN mout : mout[b].count \in Nat /\ mout[b].name \in Names
  BY <1>i DEF Types
<1>l. /\ printed \in Seq(Addrs) /\ Len(printed) \in Nat /\ DOMAIN printed = 1..Len(printed)
      /\ Len(printed') = Len(printed) + 1 /\ DOMAIN printed' = 1..(Len(printed) + 1)
      /\ \A i \in DOMAIN printed : printed'[i] = printed[i]
      /\ printed'[Len(printed) + 1] = a
  BY <1>i, <1>p, <1>a DEF Types
<1>r. InReport' = InReport \cup {a} /\ Left' = Left \ {a}
  <2>1. InReport' = InReport \cup {a}
    BY <1>l DEF InReport, Range
  <2> QED
    BY <1>u, <2>1 DEF Left
<1>n. /\ DOMAIN results' = DOMAIN results \cup {mout[a].name}
      /\ \A x \in DOMAIN results' :
            results'[x] = IF x \in DOMAIN results THEN results[x] ELSE mout[a].count
  BY <1>p DEF Insert
<1>1. Types'
  <2>1. results' \in [DOMAIN results' -> Nat]
    <3>1. \A x \in DOMAIN results' : results'[x] \in Nat
      BY <1>i, <1>n, <1>c, <1>a DEF Types
    <3>2. results' = [x \in DOMAIN results' |-> results'[x]]
      BY <1>p, <1>n DEF Insert
    <3> QED
      BY <3>1, <3>2
  <2>2. printed' \in Seq(Addrs) /\ methods' \in Seq(Addrs)
    BY <1>i, <1>p, <1>a DEF Types
  <2> QED
    BY <1>i, <1>u, <2>1, <2>2 DEF Types, Sorted
<1>2. Merged'
  BY <1>i, <1>u, MergedKept
<1>3. Printed'
  <2>1. InReport' \subseteq DOMAIN mout' /\ Cardinality(InReport') = Len(printed')
    <3>1. IsFiniteSet(InReport)
      BY <1>i, FS_Subset DEF Merged, Printed
    <3>2. Cardinality(InReport \cup {a}) = IF a \in InReport THEN Cardinality(InReport)
                                           ELSE Cardinality(InReport) + 1
      BY <3>1, FS_AddElement
    <3>3. Cardinality(InReport') = Cardinality(InReport) + 1
      BY <1>r, <1>a, <3>2, Zenon
    <3> QED
      BY <1>i, <1>u, <1>a, <1>r, <1>l, <3>3 DEF Printed
  <2>2. ASSUME NEW i \in DOMAIN printed', NEW j \in DOMAIN printed', i < j
        PROVE  Before(mout', printed'[i], printed'[j])
    <3>1. i \in DOMAIN printed
      BY <1>l, <2>2
    <3>2. CASE j \in DOMAIN printed
      BY <1>i, <1>u, <1>l, <2>2, <3>1, <3>2 DEF Printed, Before
    <3>3. CASE j \notin DOMAIN printed
      <4>1. j = Len(printed) + 1
        BY <1>l, <3>3
      <4>2. Before(mout, printed[i], a)
        BY <1>i, <3>1 DEF Printed
      <4> QED
        BY <1>u, <1>l, <3>1, <4>1, <4>2 DEF Before
    <3> QED
      BY <3>2, <3>3
  <2>3. ASSUME NEW i \in DOMAIN printed', NEW b \in Left'
        PROVE  Before(mout', printed'[i], b)
    <3>0. b \in Left /\ b # a
      BY <1>r
    <3>1. CASE i \in DOMAIN printed
      BY <1>i, <1>u, <1>l, <3>0, <3>1 DEF Printed, Before
    <3>2. CASE i \notin DOMAIN printed
      <4>1. printed'[i] = a
        BY <1>l, <3>2
      <4>2. Before(mout, a, b)
        BY <1>p, <3>0 DEF Entry
      <4> QED
        BY <1>u, <4>1, <4>2 DEF Before
    <3> QED
      BY <3>1, <3>2
  <2>4. /\ Len(methods') = IF Len(printed') < N THEN Len(printed') ELSE N
        /\ \A i \in DOMAIN methods' : methods'[i] = printed'[i]
    <3>t. /\ methods \in Seq(Addrs) /\ Len(methods) \in Nat /\ N \in Nat
          /\ DOMAIN methods = 1..Len(methods)
          /\ Len(methods) = IF Len(printed) < N THEN Len(printed) ELSE N
          /\ \A i \in DOMAIN methods : methods[i] = printed[i]
      BY <1>i DEF Types, Printed
    <3>s. /\ Len(methods) \in Nat /\ N \in Nat /\ Len(printed) \in Nat
          /\ Len(printed') = Len(printed) + 1
          /\ Len(printed) < N => Len(methods) = Len(printed)
          /\ ~(Len(printed) < N) => Len(methods) = N
      BY <1>l, <3>t
    <3>1. CASE Kept
      <4>0. methods' = Append(methods, a) /\ Len(methods) < N
        BY <1>p, <3>1 DEF Kept
      <4>1. Len(methods) = Len(printed) /\ Len(printed) < N
        BY <3>s, <4>0
      <4>2. /\ Len(methods') = Len(methods) + 1 /\ DOMAIN methods' = 1..(Len(methods) + 1)
            /\ \A i \in DOMAIN methods : methods'[i] = methods[i]
            /\ methods'[Len(methods) + 1] = a
        BY <1>a, <3>t, <4>0
      <4> QED
        BY <1>l, <3>t, <4>1, <4>2
    <3>2. CASE ~Kept
      <4>1. methods' = methods /\ ~(Len(methods) < N)
        BY <1>p, <3>2 DEF Kept
      <4>2. Len(methods) = N /\ N <= Len(printed)
        BY <3>s, <4>1
      <4>3. \A i \in DOMAIN methods : i \in DOMAIN printed
        BY <1>l, <3>t, <4>2
      <4>4. Len(methods') = N /\ ~(Len(printed') < N)
        BY <3>s, <4>1, <4>2
      <4> QED
        BY <1>l, <3>t, <4>1, <4>3, <4>4
    <3> QED
      BY <3>1, <3>2
  <2> QED
    BY <1>u, <2>1, <2>2, <2>3, <2>4 DEF Printed
<1>4. Summed'
  <2>1. /\ DOMAIN results = {mout[b].name : b \in InReport}
        /\ \A n \in DOMAIN results : \E b \in InReport :
              /\ mout[b].name = n /\ results[n] = mout[b].count
              /\ \A c \in InReport : mout[c].name = n => mout[c].count <= results[n]
    BY <1>i, <1>u DEF Summed
  <2>2. DOMAIN results' = {mout'[b].name : b \in InReport'}
    BY <1>n, <1>r, <1>u, <2>1
  <2>3. ASSUME NEW n \in DOMAIN results'
        PROVE  \E b \in InReport' :
                  /\ mout'[b].name = n /\ results'[n] = mout'[b].count
                  /\ \A c \in InReport' : mout'[c].name = n => mout'[c].count <= results'[n]
    <3>1. CASE n \in DOMAIN results
      <4>1. PICK b \in InReport :
              /\ mout[b].name = n /\ results[n] = mout[b].count
              /\ \A c \in InReport : mout[c].name = n => mout[c].count <= results[n]
        BY <2>1, <3>1
      <4>2. mout[a].count <= mout[b].count
        <5>1. PICK i \in DOMAIN printed : b = printed[i]
          BY DEF InReport, Range
        <5>2. Before(mout, b, a)
          BY <1>i, <5>1 DEF Printed
        <5>3. b \in DOMAIN mout
          BY <1>i DEF Printed
        <5> QED
          BY <1>c, <1>a, <5>2, <5>3 DEF Before
      <4>3. results'[n] = results[n]
        BY <1>n, <3>1
      <4> QED
        BY <1>u, <1>r, <4>1, <4>2, <4>3
    <3>2. CASE n \notin DOMAIN results
      <4>1. n = mout[a].name /\ results'[n] = mout[a].count
        BY <1>n, <3>2
      <4>2. \A c \in InReport : mout[c].name # n
        BY <2>1, <3>2
      <4>3. mout[a].count <= mout[a].count
        BY <1>c, <1>a
      <4> QED
        BY <1>u, <1>r, <4>1, <4>2, <4>3
    <3> QED
      BY <3>1, <3>2
  <2> QED
    BY <2>2, <2>3 DEF Summed
<1>5. Measured' /\ Monitored'
  <2>1. measured = <<>> /\ DOMAIN measured = {}
    BY <1>i, <1>u DEF Measured
  <2> QED
    BY <1>i, <1>u, <2>1 DEF Measured, Monitored
<1> QED
  BY <1>1, <1>2, <1>3, <1>4, <1>5 DEF IInv

\* The report ends when no entry is left.
LEMMA EndPrintStep == IInv /\ EndPrint => IInv'
<1> SUFFICES ASSUME IInv, EndPrint PROVE IInv'
  OBVIOUS
<1>i. Types /\ Merged /\ Printed /\ Summed /\ Measured /\ Monitored
  BY DEF IInv
<1>u. /\ pc = "print" /\ pc' = "count" /\ Left = {}
      /\ UNCHANGED <<options, N, table, pos, mout, printed, results, methods, counted, measured, named>>
  BY DEF EndPrint, monitorVars
<1>1. Types'
  BY <1>i, <1>u DEF Types, Sorted
<1>2. Merged'
  BY <1>i, <1>u, MergedKept
<1>3. Printed'
  BY <1>i, <1>u DEF Printed, InReport, Left, Before
<1>4. Summed'
  BY <1>i, <1>u DEF Summed, InReport
<1>5. Measured' /\ Monitored'
  BY <1>i, <1>u DEF Measured, Monitored
<1> QED
  BY <1>1, <1>2, <1>3, <1>4, <1>5 DEF IInv

\* The results that lat_top works on start empty.
LEMMA CountStep == IInv /\ Count => IInv'
<1> SUFFICES ASSUME IInv, Count PROVE IInv'
  OBVIOUS
<1>i. Types /\ Merged /\ Printed /\ Summed /\ Measured /\ Monitored
  BY DEF IInv
<1>u. /\ pc = "count" /\ pc' = "lat" /\ counted' = 1..options.count_top
      /\ results' = IF options.lat_top > 0 THEN [x \in {} |-> 0] ELSE results
      /\ UNCHANGED <<options, N, table, pos, mout, printed, methods, measured, named>>
  BY DEF Count
<1>o. options.lat_top \in Nat
  BY <1>i, TopBounds DEF Types
<1>1. Types'
  BY <1>i, <1>u DEF Types, Sorted
<1>2. Merged'
  BY <1>i, <1>u, MergedKept
<1>3. Printed'
  BY <1>i, <1>u DEF Printed, InReport, Left, Before
<1>4. Summed'
  <2>1. CASE options.lat_top = 0
    BY <1>i, <1>u, <2>1 DEF Summed, InReport
  <2>2. CASE options.lat_top # 0
    BY <1>u, <2>2 DEF Summed
  <2> QED
    BY <2>1, <2>2
<1>5. Measured'
  <2>1. measured = <<>> /\ measured' = <<>>
    BY <1>i, <1>u DEF Measured
  <2>2. options.lat_top > 0 => DOMAIN results' = {}
    BY <1>u
  <2> QED
    BY <1>o, <1>u, <2>1, <2>2 DEF Measured
<1>6. Monitored'
  BY <1>i, <1>u DEF Monitored
<1> QED
  BY <1>1, <1>2, <1>3, <1>4, <1>5, <1>6 DEF IInv

\* A latency becomes the result of its name unless the name has one.
LEMMA MeasureStep == IInv /\ MeasureTop => IInv'
<1> SUFFICES ASSUME IInv, MeasureTop PROVE IInv'
  OBVIOUS
<1>i. Types /\ Merged /\ Printed /\ Summed /\ Measured /\ Monitored
  BY DEF IInv
<1> DEFINE k == Len(measured) + 1
<1>p. PICK name \in NamesAt(k), maxLat \in Latencies :
          /\ measured' = Append(measured, [name |-> name, lat |-> maxLat])
          /\ results' = Insert(results, name, maxLat)
  BY DEF MeasureTop
<1>u. /\ pc = "lat" /\ pc' = "lat" /\ Len(measured) < options.lat_top
      /\ UNCHANGED <<options, N, table, pos, mout, printed, methods, counted, named>>
  BY DEF MeasureTop
<1>o. options.lat_top \in Nat /\ maxLat \in Nat
  BY <1>i, TopBounds, MonitorAssumption DEF Types
<1>t. name \in Names \cup {Unset}
  <2>1. k \in Nat \ {0}
    BY <1>i DEF Types
  <2>2. k <= Len(methods) => NameAt(k) \in Names
    <3> SUFFICES ASSUME k <= Len(methods) PROVE NameAt(k) \in Names
      OBVIOUS
    <3>1. k \in DOMAIN methods /\ k \in DOMAIN printed
      <4>1. /\ Len(methods) \in Nat /\ DOMAIN methods = 1..Len(methods)
            /\ Len(printed) \in Nat /\ DOMAIN printed = 1..Len(printed) /\ N \in Nat
        BY <1>i DEF Types
      <4>2. Len(methods) <= Len(printed)
        BY <1>i, <4>1 DEF Printed
      <4> QED
        BY <2>1, <4>1, <4>2
    <3>2. methods[k] \in DOMAIN mout
      BY <1>i, <3>1 DEF Printed, InReport, Range
    <3>3. mout[methods[k]] \in [name : Names, count : Nat]
      BY <1>i, <3>2 DEF Types
    <3> QED
      BY <3>3 DEF NameAt
  <2> QED
    BY <2>1, <2>2 DEF NamesAt, NameAt
<1>l. /\ k \in Nat \ {0} /\ k = Len(measured) + 1 /\ DOMAIN measured = 1..Len(measured)
      /\ Len(measured) \in Nat
      /\ Len(measured') = k /\ DOMAIN measured' = 1..k
      /\ \A i \in DOMAIN measured : measured'[i] = measured[i] /\ i < k
      /\ measured'[k].name = name /\ measured'[k].lat = maxLat
  BY <1>i, <1>p, <1>t DEF Types
<1>n. /\ DOMAIN results' = DOMAIN results \cup {name}
      /\ \A x \in DOMAIN results' :
            results'[x] = IF x \in DOMAIN results THEN results[x] ELSE maxLat
  BY <1>p DEF Insert
<1>1. Types'
  <2>1. results' \in [DOMAIN results' -> Nat]
    <3>1. \A x \in DOMAIN results' : results'[x] \in Nat
      BY <1>i, <1>n, <1>o DEF Types
    <3>2. results' = [x \in DOMAIN results' |-> results'[x]]
      BY <1>p, <1>n DEF Insert
    <3> QED
      BY <3>1, <3>2
  <2>2. measured' \in Seq([name : Names \cup {Unset}, lat : Latencies])
    BY <1>i, <1>p, <1>t DEF Types
  <2> QED
    BY <1>i, <1>u, <2>1, <2>2 DEF Types, Sorted
<1>2. Merged'
  BY <1>i, <1>u, MergedKept
<1>3. Printed'
  BY <1>i, <1>u DEF Printed, InReport, Left, Before
<1>4. Summed'
  BY <1>o, <1>u, <1>l DEF Summed
<1>5. Measured'
  <2> HIDE DEF k
  <2>1. \A i \in DOMAIN measured' : measured'[i].name \in NamesAt(i)'
    <3>1. \A i : NamesAt(i)' = NamesAt(i)
      BY <1>u DEF NamesAt, NameAt
    <3>2. \A i \in DOMAIN measured : measured[i].name \in NamesAt(i)
      BY <1>i DEF Measured
    <3> QED
      BY <1>p, <1>l, <3>1, <3>2
  <2>2. /\ DOMAIN results = {measured[i].name : i \in DOMAIN measured}
        /\ \A n \in DOMAIN results : \E i \in MeasuredAs(n) :
              results[n] = measured[i].lat /\ \A j \in MeasuredAs(n) : i <= j
    BY <1>i, <1>u, <1>o, <1>l DEF Measured
  <2>3. DOMAIN results' = {measured'[i].name : i \in DOMAIN measured'}
    <3>1. DOMAIN measured' = DOMAIN measured \cup {k}
      BY <1>l
    <3> QED
      BY <1>n, <1>l, <2>2, <3>1
  <2>4. \A n : MeasuredAs(n)' = MeasuredAs(n) \cup (IF n = name THEN {k} ELSE {})
    <3>1. DOMAIN measured' = DOMAIN measured \cup {k}
      BY <1>l
    <3> QED
      BY <1>l, <3>1 DEF MeasuredAs
  <2>5. ASSUME NEW n \in DOMAIN results'
        PROVE  \E i \in MeasuredAs(n)' :
                  results'[n] = measured'[i].lat /\ \A j \in MeasuredAs(n)' : i <= j
    <3>1. CASE n \in DOMAIN results
      <4>1. PICK i \in MeasuredAs(n) :
              results[n] = measured[i].lat /\ \A j \in MeasuredAs(n) : i <= j
        BY <2>2, <3>1
      <4>2. i \in DOMAIN measured /\ i <= k
        BY <1>l DEF MeasuredAs
      <4> QED
        BY <1>l, <1>n, <2>4, <3>1, <4>1, <4>2
    <3>2. CASE n \notin DOMAIN results
      <4>1. n = name /\ results'[n] = maxLat
        BY <1>n, <3>2
      <4>2. MeasuredAs(n) = {}
        BY <2>2, <3>2 DEF MeasuredAs
      <4>3. MeasuredAs(n)' = {k}
        BY <2>4, <4>1, <4>2
      <4> QED
        BY <1>l, <4>1, <4>3
    <3> QED
      BY <3>1, <3>2
  <2> QED
    BY <1>o, <1>u, <1>l, <2>1, <2>3, <2>5 DEF Measured
<1>6. Monitored'
  BY <1>i, <1>u DEF Monitored
<1> QED
  BY <1>1, <1>2, <1>3, <1>4, <1>5, <1>6 DEF IInv

\* lat_name measures among the elements of methods[].
LEMMA LastSteps == IInv /\ (EndLat \/ MeasureNamed \/ UNCHANGED vars) => IInv'
<1> SUFFICES ASSUME IInv, EndLat \/ MeasureNamed \/ UNCHANGED vars PROVE IInv'
  OBVIOUS
<1>i. Types /\ Merged /\ Printed /\ Summed /\ Measured /\ Monitored
  BY DEF IInv
<1>u. UNCHANGED <<options, N, table, pos, mout, printed, results, methods, counted, measured>>
  BY DEF EndLat, MeasureNamed, vars, monitorVars
<1>p. \/ pc = "lat" /\ pc' = "name" /\ Len(measured) = options.lat_top /\ named' = named
      \/ pc = "name" /\ pc' = "done"
         /\ named' = {i \in 1..N : NameAt(i) \in options.lat_name}
      \/ pc' = pc /\ named' = named
  BY DEF EndLat, MeasureNamed, vars, monitorVars
<1>1. Types'
  BY <1>i, <1>u, <1>p DEF Types, Sorted
<1>2. Merged'
  BY <1>i, <1>u, <1>p, MergedKept
<1>3. Printed'
  BY <1>i, <1>u, <1>p DEF Printed, InReport, Left, Before
<1>4. Summed'
  BY <1>i, <1>u, <1>p DEF Summed, InReport
<1>n. \A i : NameAt(i)' = NameAt(i) /\ NamesAt(i)' = NamesAt(i)
  BY <1>u DEF NamesAt, NameAt
<1>5. Measured'
  <2>1. \A n : MeasuredAs(n)' = MeasuredAs(n)
    BY <1>u DEF MeasuredAs
  <2> QED
    BY <1>i, <1>u, <1>p, <1>n, <2>1 DEF Measured
<1>6. Monitored'
  BY <1>i, <1>u, <1>p, <1>n DEF Monitored
<1> QED
  BY <1>1, <1>2, <1>3, <1>4, <1>5, <1>6 DEF IInv

THEOREM Invariance == Spec => []IInv
<1>1. IInv /\ [Next]_vars => IInv'
  BY MergeStep, EndMergeStep, PrintStep, EndPrintStep, CountStep, MeasureStep, LastSteps
     DEF Next, Finished
<1> QED
  BY IInvInit, <1>1, PTL DEF Spec

-----------------------------------------------------------------------------
\* The properties

\* At the end the report has the methods of the rows passed, and only they have
\* been left out whose rows all lie behind.
LEMMA AtTheEnd ==
    ASSUME IInv, pc = "done"
    PROVE  /\ InReport = DOMAIN mout
           /\ \A a \in InReport : a \in Sampled /\ \E i \in RowsOf(a) : i < pos
           /\ \A a : a \notin InReport => \A i \in RowsOf(a) : pos <= i
<1>i. Types /\ Merged /\ Printed
  BY DEF IInv
<1>t. DOMAIN table = 1..Len(table) /\ Len(table) \in Nat /\ \A a : RowsOf(a) \subseteq DOMAIN table
  BY <1>i, RowTypes
<1>1. InReport = DOMAIN mout
  BY <1>i DEF Printed, Left
<1>2. DOMAIN mout = {table[i].addr : i \in 1..(pos - 1)} /\ pos \in 1..(Len(table) + 1)
  BY <1>i DEF Merged, Types
<1>3. ASSUME NEW a \in InReport PROVE a \in Sampled /\ \E i \in RowsOf(a) : i < pos
  <2>1. PICK i \in 1..(pos - 1) : a = table[i].addr
    BY <1>1, <1>2
  <2>2. i \in DOMAIN table /\ i < pos
    BY <1>2, <1>t
  <2> QED
    BY <2>1, <2>2 DEF Sampled, RowsOf
<1>4. ASSUME NEW a, a \notin InReport, NEW i \in RowsOf(a) PROVE pos <= i
  <2>1. i \in 1..Len(table) /\ table[i].addr = a
    BY <1>t DEF RowsOf
  <2> QED
    BY <1>1, <1>2, <1>4, <1>t, <2>1
<1> QED
  BY <1>1, <1>3, <1>4

\* The sum printed for a method is at least its largest row, at most its
\* samples, and exact when the report has all methods: for every table.
THEOREM SumsBounded == Spec => []SumsAreLowerBounds
<1>1. ASSUME IInv PROVE SumsAreLowerBounds
  <2> SUFFICES ASSUME pc = "done", NEW a \in InReport
               PROVE  /\ Largest(a) <= mout[a].count /\ mout[a].count <= Total(a)
                      /\ Cardinality(Sampled) <= N => mout[a].count = Total(a)
    BY DEF SumsAreLowerBounds
  <2>i. Types /\ Merged
    BY <1>1 DEF IInv
  <2>e. /\ InReport = DOMAIN mout /\ a \in Sampled /\ \E i \in RowsOf(a) : i < pos
        /\ \A b : b \notin InReport => \A i \in RowsOf(b) : pos <= i
    BY <1>1, AtTheEnd
  <2>t. /\ DOMAIN table = 1..Len(table) /\ Len(table) \in Nat /\ pos \in 1..(Len(table) + 1)
        /\ RowsOf(a) \subseteq DOMAIN table
        /\ \A i \in DOMAIN table : table[i].samples \in Nat
    BY <2>i, RowTypes DEF Types
  <2>1. /\ mout[a].count = Cardinality(SamplesTo(a, pos))
        /\ IsFiniteSet(SamplesTo(a, pos)) /\ Cardinality(SamplesTo(a, pos)) \in Nat
    BY <2>i, <2>e, <2>t, SamplesFinite DEF Merged
  <2>2. mout[a].count <= Total(a)
    <3>1. SamplesTo(a, pos) \subseteq SamplesIn(RowsOf(a)) /\ IsFiniteSet(SamplesIn(RowsOf(a)))
      BY <2>i, <2>t, SamplesAll
    <3>2. Cardinality(SamplesTo(a, pos)) <= Cardinality(SamplesIn(RowsOf(a)))
      BY <3>1, FS_Subset
    <3> QED
      BY <2>1, <3>2 DEF Total
  <2>3. Largest(a) <= mout[a].count
    <3>1. PICK i \in RowsOf(a) : (\A j \in RowsOf(a) : i <= j) /\ Largest(a) = table[i].samples
      BY <2>i, <2>e, LargestIsFirst
    <3>2. i < pos /\ table[i].samples \in Nat
      BY <2>e, <2>t, <3>1
    <3> DEFINE R == {i} \X (1..table[i].samples)
    <3>3. R \subseteq SamplesTo(a, pos)
      BY <3>2 DEF SamplesTo, SamplesIn
    <3>4. Cardinality(R) = table[i].samples
      BY <3>2, RowSize
    <3> HIDE DEF R
    <3>5. Cardinality(R) <= Cardinality(SamplesTo(a, pos))
      BY <2>1, <3>3, FS_Subset
    <3> QED
      BY <2>1, <3>1, <3>4, <3>5
  <2>4. ASSUME Cardinality(Sampled) <= N PROVE mout[a].count = Total(a)
    <3>1. pos = Len(table) + 1
      <4>1. DOMAIN mout \subseteq Sampled
        BY <1>1, AtTheEnd
      <4>2. IsFiniteSet(Sampled)
        BY <2>i, SampledFinite
      <4>3. Cardinality(DOMAIN mout) <= Cardinality(Sampled)
        BY <4>1, <4>2, FS_Subset
      <4>4. Cardinality(DOMAIN mout) \in Nat /\ Cardinality(Sampled) \in Nat /\ N \in Nat
        BY <2>i, <4>2, FS_CardinalityType DEF Merged, Types
      <4>5. ~Full(mout)
        BY <2>4, <4>3, <4>4 DEF Full
      <4> QED
        BY <2>i, <2>t, <4>5 DEF Merged
    <3>2. SamplesTo(a, pos) = SamplesIn(RowsOf(a))
      BY <2>i, <3>1, SamplesAll
    <3> QED
      BY <2>1, <3>2 DEF Total
  <2> QED
    BY <2>2, <2>3, <2>4
<1> QED
  BY <1>1, Invariance, PTL

\* A method is left out of the report only behind N + 1 others, each of which
\* has a row that is at least as large as all of its own.
THEOREM OmittedSmall == Spec => []OmittedAreSmall
<1>1. ASSUME IInv PROVE OmittedAreSmall
  <2> SUFFICES ASSUME pc = "done", NEW a \in Sampled \ InReport
               PROVE  /\ Cardinality(InReport) = N + 1
                      /\ \A b \in InReport : Largest(a) <= Largest(b)
    BY DEF OmittedAreSmall
  <2>i. Types /\ Merged
    BY <1>1 DEF IInv
  <2>e. /\ InReport = DOMAIN mout
        /\ \A b \in InReport : b \in Sampled /\ \E i \in RowsOf(b) : i < pos
        /\ \A i \in RowsOf(a) : pos <= i
    BY <1>1, AtTheEnd
  <2>t. /\ DOMAIN table = 1..Len(table) /\ Len(table) \in Nat /\ pos \in 1..(Len(table) + 1)
        /\ \A b : RowsOf(b) \subseteq DOMAIN table
        /\ \A i \in DOMAIN table : table[i].samples \in Nat
    BY <2>i, RowTypes DEF Types
  <2>1. PICK i \in RowsOf(a) : Largest(a) = table[i].samples
    BY <2>i, LargestIsFirst
  <2>2. Cardinality(InReport) = N + 1
    <3>1. pos <= Len(table)
      BY <2>e, <2>t, <2>1
    <3>2. Full(mout)
      BY <2>i, <2>t, <3>1 DEF Merged
    <3>3. Cardinality(DOMAIN mout) \in Nat /\ N \in Nat /\ Cardinality(DOMAIN mout) <= N + 1
      BY <2>i, FS_CardinalityType DEF Merged, Types
    <3> QED
      BY <2>e, <3>2, <3>3 DEF Full
  <2>3. ASSUME NEW b \in InReport PROVE Largest(a) <= Largest(b)
    <3>1. PICK j \in RowsOf(b) : (\A k \in RowsOf(b) : j <= k) /\ Largest(b) = table[j].samples
      BY <2>i, <2>e, LargestIsFirst
    <3>2. j < i /\ j \in DOMAIN table /\ i \in DOMAIN table
      BY <2>e, <2>t, <2>1, <3>1
    <3> QED
      BY <2>i, <2>t, <2>1, <3>1, <3>2 DEF Types, Sorted
  <2> QED
    BY <2>2, <2>3
<1> QED
  BY <1>1, Invariance, PTL

\* The largest and the smallest element of a set of numbers are the only ones.
LEMMA Extremes ==
    ASSUME NEW S \in SUBSET Nat, NEW x \in S
    PROVE  /\ (\A y \in S : y <= x) => Max(S) = x
           /\ (\A y \in S : x <= y) => Min(S) = x
<1>1. ASSUME \A y \in S : y <= x PROVE Max(S) = x
  <2>1. \A y \in S : x >= y
    BY <1>1
  <2>2. Max(S) \in S /\ \A y \in S : Max(S) >= y
    BY <2>1, Zenon DEF Max
  <2>3. Max(S) \in Nat /\ Max(S) >= x /\ x >= Max(S)
    BY <2>1, <2>2
  <2> QED
    BY <2>3
<1>2. ASSUME \A y \in S : x <= y PROVE Min(S) = x
  <2>1. \A y \in S : x =< y
    BY <1>2
  <2>2. Min(S) \in S /\ \A y \in S : Min(S) =< y
    BY <2>1, Zenon DEF Min
  <2>3. Min(S) \in Nat /\ Min(S) =< x /\ x =< Min(S)
    BY <2>1, <2>2
  <2> QED
    BY <2>3
<1> QED
  BY <1>1, <1>2

\* What methods[] holds at the end.
LEMMA MethodsAtTheEnd ==
    ASSUME IInv
    PROVE  /\ Len(methods) \in Nat /\ DOMAIN methods = 1..Len(methods) /\ N \in Nat \ {0}
           /\ Len(printed) \in Nat /\ DOMAIN printed = 1..Len(printed)
           /\ Len(methods) = IF Len(printed) < N THEN Len(printed) ELSE N
           /\ \A i \in 1..Len(methods) : /\ methods[i] = printed[i] /\ methods[i] \in InReport
                                         /\ mout[methods[i]].name \in Names
<1>i. Types /\ Printed
  BY DEF IInv
<1>1. /\ Len(methods) \in Nat /\ DOMAIN methods = 1..Len(methods) /\ N \in Nat \ {0}
      /\ Len(printed) \in Nat /\ DOMAIN printed = 1..Len(printed)
      /\ Len(methods) = IF Len(printed) < N THEN Len(printed) ELSE N
      /\ \A i \in 1..Len(methods) : methods[i] = printed[i]
  BY <1>i DEF Types, Printed
<1>2. Len(methods) <= Len(printed)
  BY <1>1
<1>3. ASSUME NEW i \in 1..Len(methods)
      PROVE  methods[i] \in InReport /\ mout[methods[i]].name \in Names
  <2>1. i \in DOMAIN printed /\ methods[i] = printed[i]
    BY <1>1, <1>2
  <2>2. methods[i] \in InReport /\ methods[i] \in DOMAIN mout
    BY <1>i, <2>1 DEF InReport, Range, Printed
  <2>3. mout[methods[i]] \in [name : Names, count : Nat]
    BY <1>i, <2>2 DEF Types
  <2> QED
    BY <2>2, <2>3
<1> QED
  BY <1>1, <1>3

\* The result of a name is the largest sum printed under it, or the latency of
\* the first method measured under it; a result without a name tells that fewer
\* methods were found than asked for, or that one of them has no name.
THEOREM FirstResult == Spec => []ResultIsFirst
<1>1. ASSUME IInv PROVE ResultIsFirst
  <2> SUFFICES ASSUME pc = "done" PROVE ResultIsFirst
    BY DEF ResultIsFirst
  <2>i. Types /\ Printed /\ Summed /\ Measured
    BY <1>1 DEF IInv
  <2>m. \A b \in InReport : mout[b].count \in Nat
    <3>1. \A b \in DOMAIN mout : mout[b] \in [name : Names, count : Nat]
      BY <2>i DEF Types
    <3>2. InReport \subseteq DOMAIN mout
      BY <2>i DEF Printed
    <3> QED
      BY <3>1, <3>2
  <2>1. CASE options.lat_top = 0
    <3>1. DOMAIN results = {mout[a].name : a \in InReport}
      BY <2>i, <2>1 DEF Summed
    <3>2. ASSUME NEW n \in DOMAIN results
          PROVE  results[n] = Max({mout[a].count : a \in {b \in InReport : mout[b].name = n}})
      <4> DEFINE S == {mout[a].count : a \in {b \in InReport : mout[b].name = n}}
      <4>1. PICK a \in InReport :
              /\ mout[a].name = n /\ results[n] = mout[a].count
              /\ \A b \in InReport : mout[b].name = n => mout[b].count <= results[n]
        BY <2>i, <2>1 DEF Summed
      <4>2. S \in SUBSET Nat /\ results[n] \in S /\ \A y \in S : y <= results[n]
        BY <2>m, <4>1
      <4> HIDE DEF S
      <4>3. Max(S) = results[n]
        BY <4>2, Extremes
      <4> QED
        BY <4>3 DEF S
    <3> QED
      BY <2>1, <3>1, <3>2 DEF ResultIsFirst
  <2>2. CASE options.lat_top # 0
    <3>0. options.lat_top \in Nat /\ options.lat_top > 0 /\ Len(measured) = options.lat_top
          /\ DOMAIN measured = 1..options.lat_top
      BY <2>i, <2>2, TopBounds DEF Types, Measured
    <3>1. /\ DOMAIN results = {measured[i].name : i \in DOMAIN measured}
          /\ \A n \in DOMAIN results : \E i \in MeasuredAs(n) :
                results[n] = measured[i].lat /\ \A j \in MeasuredAs(n) : i <= j
      BY <2>i, <3>0 DEF Measured
    <3>2. ASSUME NEW n \in DOMAIN results PROVE results[n] = measured[Min(MeasuredAs(n))].lat
      <4>1. PICK i \in MeasuredAs(n) :
              results[n] = measured[i].lat /\ \A j \in MeasuredAs(n) : i <= j
        BY <3>1
      <4>2. MeasuredAs(n) \in SUBSET Nat
        BY <3>0 DEF MeasuredAs
      <4>3. Min(MeasuredAs(n)) = i
        BY <4>1, <4>2, Extremes
      <4> QED
        BY <4>1, <4>3
    <3>3. ASSUME options.lat_top <= N
          PROVE  Unset \in DOMAIN results <=>
                    \/ options.lat_top > Len(methods)
                    \/ \E i \in 1..options.lat_top : mout[printed[i]].name = Unset
      <4>0. /\ Len(methods) \in Nat /\ N \in Nat
            /\ \A i \in 1..Len(methods) : methods[i] = printed[i]
        BY <1>1, MethodsAtTheEnd
      <4>1. \A i \in 1..options.lat_top : measured[i].name = NameAt(i)
        <5>1. \A i \in DOMAIN measured : measured[i].name \in NamesAt(i)
          BY <2>i DEF Measured
        <5> SUFFICES ASSUME NEW i \in 1..options.lat_top PROVE measured[i].name = NameAt(i)
          OBVIOUS
        <5>2. i \in DOMAIN measured /\ i <= N
          BY <3>0, <3>1, <3>3, <4>0
        <5>3. NamesAt(i) = {NameAt(i)}
          BY <5>2 DEF NamesAt
        <5> QED
          BY <5>1, <5>2, <5>3
      <4>2. DOMAIN results = {NameAt(i) : i \in 1..options.lat_top}
        BY <3>0, <3>1, <4>1
      <4>3. CASE options.lat_top > Len(methods)
        <5>1. options.lat_top \in 1..options.lat_top /\ NameAt(options.lat_top) = Unset
          BY <3>0, <4>0, <4>3 DEF NameAt
        <5> QED
          BY <4>2, <4>3, <5>1
      <4>4. CASE ~(options.lat_top > Len(methods))
        <5>1. \A i \in 1..options.lat_top : NameAt(i) = mout[printed[i]].name
          BY <3>0, <4>0, <4>4 DEF NameAt
        <5> QED
          BY <4>2, <4>4, <5>1
      <4> QED
        BY <4>3, <4>4
    <3> QED
      BY <2>2, <3>1, <3>2, <3>3 DEF ResultIsFirst
  <2> QED
    BY <2>1, <2>2
<1> QED
  BY <1>1, Invariance, PTL

\* When no more methods are asked for than the report keeps and finds, what is
\* counted and measured was set, and they are the first of the report; lat_name
\* never measures an element that was not set.
THEOREM MonitoredSet == Spec => []MonitoredAreSet
<1>1. ASSUME IInv PROVE MonitoredAreSet
  <2> SUFFICES ASSUME pc = "done" PROVE MonitoredAreSet
    BY DEF MonitoredAreSet
  <2>i. Types /\ Merged /\ Printed /\ Measured /\ Monitored
    BY <1>1 DEF IInv
  <2>m. /\ Len(methods) \in Nat /\ N \in Nat /\ Len(printed) \in Nat
        /\ Len(methods) = IF Len(printed) < N THEN Len(printed) ELSE N
        /\ \A i \in 1..Len(methods) : methods[i] = printed[i]
    BY <1>1, MethodsAtTheEnd
  <2>1. ASSUME Top <= N, Top <= Cardinality(Sampled), NEW i \in counted \cup DOMAIN measured
        PROVE  i <= Len(methods) /\ methods[i] = printed[i]
    <3>1. Top \in Nat /\ i \in 1..Top
      BY <2>i, TopBounds DEF Types, Measured, Monitored
    <3>2. Top <= Len(printed)
      <4>1. InReport = DOMAIN mout /\ Cardinality(InReport) = Len(printed)
        BY <2>i, <1>1, AtTheEnd DEF Printed
      <4>2. CASE Full(mout)
        BY <2>1, <2>m, <3>1, <4>1, <4>2 DEF Full
      <4>3. CASE ~Full(mout)
        <5>1. pos > Len(table)
          BY <2>i, <4>3 DEF Merged
        <5>2. pos - 1 = Len(table) /\ DOMAIN table = 1..Len(table)
          BY <2>i, <5>1 DEF Types
        <5>3. DOMAIN mout = Sampled
          BY <2>i, <5>2 DEF Merged, Sampled
        <5> QED
          BY <2>1, <4>1, <5>3
      <4> QED
        BY <4>2, <4>3
    <3>3. Top <= Len(methods)
      BY <2>1, <2>m, <3>1, <3>2
    <3> QED
      BY <2>m, <3>1, <3>3
  <2>2. ASSUME NEW i \in named PROVE methods[i] = printed[i]
    <3>1. i \in 1..N /\ NameAt(i) \in options.lat_name
      BY <2>i DEF Monitored
    <3>2. options.lat_name \subseteq Names \ {Unset}
      BY <2>i, MonitorAssumption DEF Types
    <3>3. i \in 1..Len(methods)
      BY <2>m, <3>1, <3>2 DEF NameAt
    <3> QED
      BY <2>m, <3>3
  <2> QED
    BY <2>1, <2>2 DEF MonitoredAreSet
<1> QED
  BY <1>1, Invariance, PTL
=============================================================================
