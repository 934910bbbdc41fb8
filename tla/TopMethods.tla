----------------------------- MODULE TopMethods -----------------------------
(***************************************************************************)
(* The report of PrintTopMethods: the rows of the kernel's count table, one *)
(* for every stack a method was sampled with, sorted by their counts, are  *)
(* merged into one entry per method address until more than N entries have *)
(* been made; the entries are printed by their sums, the first N become    *)
(* the methods that can be monitored, and the names with their sums become *)
(* the results for the tuning rules.  Then methods are monitored, the      *)
(* first ones by count_top and lat_top, those with a certain name by       *)
(* lat_name; with lat_top the results are latencies instead of sums.       *)
(*                                                                         *)
(* A row's address is its "bp"; its name comes from SYM_MAP or, for an     *)
(* address that is not there, from the stack it was sampled with, and      *)
(* SYM_MAP grows while the report is made: rows of one address may have    *)
(* different names, and a row without stacks has none.                     *)
(***************************************************************************)
EXTENDS Naturals, Sequences, FiniteSets, SequencesExt, FiniteSetsExt

CONSTANTS
    Addrs,      \* the addresses, numbers
    Names,      \* the names
    Samples,    \* the counts a row may have
    MaxRows,    \* bound: the rows of the table
    MaxN,       \* bound: SAMPLE_TOP_N
    Top,        \* the methods asked for by count_top, or by lat_top
    Patterns,   \* the names that LAT_NAME is a part of: sets of names
    Latencies   \* what LatencyMethod may return

ASSUME RowsAssumption == Addrs \subseteq Nat /\ Samples \subseteq Nat \ {0}
ASSUME TopBounds == MaxRows \in Nat /\ MaxN \in Nat /\ Top \in Nat \ {0}
Row == [addr : Addrs, name : Names, samples : Samples]

Unset == ""     \* the name in an element of methods[] that was not assigned

\* LAT_NAME is not looked for when it is empty, so it is not part of "".
ASSUME MonitorAssumption == Patterns \subseteq SUBSET (Names \ {Unset}) /\ Latencies \subseteq Nat

VARIABLES
    options,    \* COUNT_TOP_N, LAT_TOP_N, LAT_NAME
    N,          \* SAMPLE_TOP_N
    table,      \* the rows, sorted
    pos,        \* the row PrintTopMethods has come to
    mout,       \* the entries, by address
    printed,    \* the addresses in the order of the report
    results,    \* what tune_all_fields is given
    methods,    \* the array of the methods to be monitored
    counted,    \* the elements of it that CountMethods was to count
    measured,   \* what lat_top has measured, in order: [name, lat]
    named,      \* the elements measured by lat_name
    pc          \* "merge", "print", "count", "lat", "name" or "done"

monitorVars == <<counted, measured, named>>
vars == <<options, N, table, pos, mout, printed, results, methods, monitorVars, pc>>

Sorted(s) == \A i, j \in DOMAIN s : i < j => s[i].samples >= s[j].samples

Init ==
    /\ options \in [count_top : {0, Top}, lat_top : {0, Top}, lat_name : Patterns]
    /\ N \in 1..MaxN
    /\ table \in {s \in BoundedSeq(Row, MaxRows) : Sorted(s)}
    /\ pos = 1 /\ mout = [a \in {} |-> 0] /\ printed = <<>>
    /\ results = [n \in {} |-> 0] /\ methods = <<>> /\ pc = "merge"
    /\ counted = {} /\ measured = <<>> /\ named = {}

\* The entries after a row: the first row of an address gives the name.
Merge_NoSum(m, r) ==
    [a \in DOMAIN m \cup {r.addr} |->
        IF a \in DOMAIN m THEN m[a] ELSE [name |-> r.name, count |-> r.samples]]

Merge(m, r) ==
    [a \in DOMAIN m \cup {r.addr} |->
        IF a \notin DOMAIN m THEN [name |-> r.name, count |-> r.samples]
        ELSE IF a = r.addr THEN [m[a] EXCEPT !.count = @ + r.samples]
        ELSE m[a]]

Full_Early(m) == Cardinality(DOMAIN m) > N - 1

\* One entry more than N ends the walk.
Full(m) == Cardinality(DOMAIN m) > N

MergeRow ==
    /\ pc = "merge" /\ pos <= Len(table) /\ ~Full(mout)
    /\ mout' = Merge(mout, table[pos])
    /\ pos' = pos + 1
    /\ UNCHANGED <<options, N, table, printed, results, methods, monitorVars, pc>>

\* flip_map and its reverse iterator: by count, and by address from the last
\* one where counts are equal.
Before(m, a, b) ==
    \/ m[a].count > m[b].count
    \/ m[a].count = m[b].count /\ a > b

InReport == Range(printed)
Left     == DOMAIN mout \ InReport

\* The entry the iterator has come to.
Entry(a) == \A b \in Left \ {a} : Before(mout, a, b)

EndMerge ==
    /\ pc = "merge" /\ (pos > Len(table) \/ Full(mout))
    /\ pc' = "print"
    /\ UNCHANGED <<options, N, table, pos, mout, printed, results, methods, monitorVars>>

Insert_Overwrites(f, k, v) == [x \in DOMAIN f \cup {k} |-> IF x = k THEN v ELSE f[x]]

\* map::insert keeps what is there.
Insert(f, k, v) == [x \in DOMAIN f \cup {k} |-> IF x \in DOMAIN f THEN f[x] ELSE v]

Kept_OffByOne == Len(methods) < N - 1

Kept == Len(methods) < N

PrintRow ==
    /\ pc = "print"
    /\ \E a \in Left :
          /\ Entry(a)
          /\ printed' = Append(printed, a)
          /\ results' = Insert(results, mout[a].name, mout[a].count)
          /\ methods' = IF Kept THEN Append(methods, a) ELSE methods
    /\ UNCHANGED <<options, N, table, pos, mout, monitorVars, pc>>

EndPrint ==
    /\ pc = "print" /\ Left = {}
    /\ pc' = "count"
    /\ UNCHANGED <<options, N, table, pos, mout, printed, results, methods, monitorVars>>

-----------------------------------------------------------------------------
\* The monitoring

\* The name in an element of methods[].
NameAt(i) == IF i <= Len(methods) THEN mout[methods[i]].name ELSE Unset

\* methods[] has N elements: behind its end, any name may be read.
NamesAt(i) == IF i <= N THEN {NameAt(i)} ELSE Names \cup {Unset}

\* CountMethods (module CountMethods) reads the elements, set or not; lat_top
\* clears the results.
Count ==
    /\ pc = "count"
    /\ counted' = 1..options.count_top
    /\ results' = IF options.lat_top > 0 THEN [n \in {} |-> 0] ELSE results
    /\ pc' = "lat"
    /\ UNCHANGED <<options, N, table, pos, mout, printed, methods, measured, named>>

\* LatencyMethod (module Latency) of the next element, set or not.
MeasureTop ==
    /\ pc = "lat" /\ Len(measured) < options.lat_top
    /\ \E name \in NamesAt(Len(measured) + 1), maxLat \in Latencies :
          /\ measured' = Append(measured, [name |-> name, lat |-> maxLat])
          /\ results' = Insert(results, name, maxLat)
    /\ UNCHANGED <<options, N, table, pos, mout, printed, methods, counted, named, pc>>

EndLat ==
    /\ pc = "lat" /\ Len(measured) = options.lat_top
    /\ pc' = "name"
    /\ UNCHANGED <<options, N, table, pos, mout, printed, results, methods, monitorVars>>

\* The latencies of lat_name are printed and dropped.
MeasureNamed ==
    /\ pc = "name"
    /\ named' = {i \in 1..N : NameAt(i) \in options.lat_name}
    /\ pc' = "done"
    /\ UNCHANGED <<options, N, table, pos, mout, printed, results, methods, counted, measured>>

Finished == pc = "done" /\ UNCHANGED vars

Next ==
    \/ MergeRow \/ EndMerge \/ PrintRow \/ EndPrint
    \/ Count \/ MeasureTop \/ EndLat \/ MeasureNamed \/ Finished

Spec == Init /\ [][Next]_vars

-----------------------------------------------------------------------------
\* What the table says

RowsOf(a) == {i \in DOMAIN table : table[i].addr = a}

\* The samples of some rows, each numbered within its row.
SamplesIn(rows) == UNION {{i} \X (1..table[i].samples) : i \in rows}

\* How many samples a method has, and how many its largest row.
Total(a)   == Cardinality(SamplesIn(RowsOf(a)))
Largest(a) == Max({table[i].samples : i \in RowsOf(a)})

Sampled == {table[i].addr : i \in DOMAIN table}

-----------------------------------------------------------------------------
\* Properties

\* The sum printed for a method lies between its largest row and its samples,
\* and is exact for every method when at most N methods were sampled.
SumsAreLowerBounds ==
    pc = "done" => \A a \in InReport :
        /\ Largest(a) <= mout[a].count /\ mout[a].count <= Total(a)
        /\ Cardinality(Sampled) <= N => mout[a].count = Total(a)

\* A method that the report leaves out has no row larger than the largest row of
\* any method in it, and is left out only if N + 1 are in.
OmittedAreSmall ==
    pc = "done" => \A a \in Sampled \ InReport :
        /\ Cardinality(InReport) = N + 1
        /\ \A b \in InReport : Largest(a) <= Largest(b)

\* The elements that were measured under a name.
MeasuredAs(n) == {i \in DOMAIN measured : measured[i].name = n}

\* Methods with one name are one result: the largest sum printed under it; or, with
\* lat_top, the latency of the one with the most samples, not the largest latency.
\* If no more are asked for than methods[] has elements, there is a result without a
\* name when more are asked for than are in the report, or one there has no name.
ResultIsFirst ==
    pc = "done" =>
        IF options.lat_top = 0
        THEN /\ DOMAIN results = {mout[a].name : a \in InReport}
             /\ \A n \in DOMAIN results :
                   results[n] = Max({mout[a].count : a \in {b \in InReport : mout[b].name = n}})
        ELSE /\ \A n \in DOMAIN results : results[n] = measured[Min(MeasuredAs(n))].lat
             /\ options.lat_top <= N =>
                   (Unset \in DOMAIN results <=>
                       options.lat_top > Len(methods)
                       \/ \E i \in 1..options.lat_top : mout[printed[i]].name = Unset)

\* What is monitored was set, if no more methods are asked for than are in the
\* report, and are its first lines; what lat_name finds was always set.
MonitoredAreSet ==
    pc = "done" =>
        /\ Top <= N /\ Top <= Cardinality(Sampled) =>
              \A i \in counted \cup DOMAIN measured :
                  i <= Len(methods) /\ methods[i] = printed[i]
        /\ \A i \in named : methods[i] = printed[i]
=============================================================================
