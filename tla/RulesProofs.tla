---------------------------- MODULE RulesProofs ----------------------------
(***************************************************************************)
(* Proofs that the bounds of the tuning rules hold, and that the rules on  *)
(* latencies fire within a factor of two of their thresholds, for every    *)
(* rule file, every sequence of reports and every interleaving with the    *)
(* program.                                                                *)
(***************************************************************************)
EXTENDS Rules, SequenceTheorems, TLAPS

\* v is between two of the values the field is given as such.
Within(f, v) == \E low, high \in Given(f) : low <= v /\ v <= high

\* The inductive invariant: FieldsWithinBounds, and the same of the value that
\* modify_field has read and not yet written back.
IInv ==
    /\ line \in 0..Len(Lines)
    /\ values \in [Fields -> Int]
    /\ got \in Int /\ tuning \in BOOLEAN
    /\ tuning => line > 0 /\ Lines[line].act = "field"
                 /\ (Tame(Lines[line].field) => Within(Lines[line].field, got))
    /\ \A f \in Fields : Tame(f) => Within(f, values[f])

\* A line has the fields of its record, with their types.
LEMMA LineTypes ==
    ASSUME NEW i \in DOMAIN Lines
    PROVE  /\ Lines[i] \in Line
           /\ Lines[i].field \in Fields /\ Lines[i].by \in Int
           /\ Lines[i].max \in Int /\ Lines[i].algo \in Algos
  <1>1. Lines[i] \in Line
    BY LinesAssumption
  <1> QED
    BY <1>1 DEF Line

\* What the program or a bound gives a field is an integer.
LEMMA GivenInt ==
    ASSUME NEW f \in Fields
    PROVE  Given(f) \subseteq Int /\ Assigned[f] \subseteq Given(f)
  <1>1. Assigned[f] \subseteq Int
    BY FieldsAssumption DEF Int32
  <1> QED
    BY <1>1, LineTypes DEF Given, Tuners

\* int arithmetic gives an integer, and is exact where it does not overflow.
LEMMA WrapInt ==
    ASSUME NEW n \in Int
    PROVE  Wrap(n) \in Int /\ (n \in Int32 => Wrap(n) = n)
  <1>1. MaxInt \in Nat
    BY FieldsAssumption
  <1>2. (n + MaxInt + 1) % (2 * MaxInt + 2) \in Int
    BY <1>1
  <1> QED
    BY <1>1, <1>2 DEF Wrap, Int32

\* Division by a number other than 0 gives an integer, and by a positive number,
\* of one that is not negative, one between 0 and the number.
LEMMA QuotInt ==
    ASSUME NEW a \in Int, NEW b \in Int, b # 0
    PROVE  Quot(a, b) \in Int /\ (a >= 0 /\ b > 0 => 0 <= Quot(a, b) /\ Quot(a, b) <= a)
  <1>1. Abs(a) \in Nat /\ Abs(b) \in Nat /\ Abs(b) > 0
    BY DEF Abs
  <1>2. Abs(a) \div Abs(b) \in Int
    BY <1>1
  <1>3. Quot(a, b) \in Int
    BY <1>2 DEF Quot
  <1>4. ASSUME a >= 0, b > 0 PROVE 0 <= Quot(a, b) /\ Quot(a, b) <= a
    <2> DEFINE q == a \div b
    <2>0. Quot(a, b) = q
      BY <1>4 DEF Quot, Abs
    <2>1. q \in Int /\ b * q <= a /\ a < b * (q + 1)
      BY <1>4
    <2>2. q >= 0
      BY <2>1, <1>4
    <2>3. q <= b * q
      BY <2>1, <2>2, <1>4
    <2> QED
      BY <1>4, <2>0, <2>1, <2>2, <2>3
  <1> QED
    BY <1>3, <1>4

\* Products of naturals are monotone in the first factor.
LEMMA Monotone ==
    ASSUME NEW v \in Nat, NEW h \in Nat, v <= h, NEW b \in Nat \ {0}
    PROVE  v * b \in Nat /\ v <= v * b /\ v * b <= h * b
  OBVIOUS

\* Whatever a line makes of an integer is an integer, unless it divides by 0.
LEMMA TuneInt ==
    ASSUME NEW i \in DOMAIN Lines, NEW v \in Int, Lines[i].algo = "/" => Lines[i].by # 0
    PROVE  tune(v, Lines[i].algo, Lines[i].by, Lines[i].max) \in Int
  <1> DEFINE by == Lines[i].by
             max == Lines[i].max
             algo == Lines[i].algo
  <1>1. by \in Int /\ max \in Int
    BY LineTypes
  <1>2. v * by \in Int /\ v + by \in Int /\ v - by \in Int
    BY <1>1
  <1>3. Wrap(v * by) \in Int /\ Wrap(v + by) \in Int /\ Wrap(v - by) \in Int
    BY <1>2, WrapInt
  <1>4. algo = "/" => Quot(v, by) \in Int
    BY <1>1, QuotInt
  <1> HIDE DEF by, max, algo
  <1>5. tune(v, algo, by, max) \in Int
    BY <1>1, <1>3, <1>4 DEF tune, Least, Greatest
  <1> QED
    BY <1>5 DEF by, max, algo

\* The heart of it: a line moves a value that is within the given values to
\* one that is, be it the value it was moved to or the bound.
LEMMA TuneStays ==
    ASSUME NEW f \in Fields, Tame(f), NEW i \in Tuners(f),
           NEW v \in Int, Within(f, v)
    PROVE  Within(f, tune(v, Lines[i].algo, Lines[i].by, Lines[i].max))
  <1> DEFINE by == Lines[i].by
             max == Lines[i].max
             algo == Lines[i].algo
  <1>1. PICK low \in Given(f), high \in Given(f) : low <= v /\ v <= high
    BY DEF Within
  <1>2. i \in DOMAIN Lines /\ by \in Nat \ {0} /\ max \in Int
    <2>1. i \in DOMAIN Lines /\ max \in Int
      BY LineTypes DEF Tuners
    <2>2. by \in 1..MaxInt
      BY DEF Tame
    <2> QED
      BY <2>1, <2>2, FieldsAssumption
  <1>3. MaxInt \in Nat
    BY FieldsAssumption
  <1>4. max \in Given(f)
    BY DEF Given
  <1>5. low \in 0..MaxInt /\ high \in 0..MaxInt /\ max \in 0..MaxInt
    BY <1>1, <1>4 DEF Tame
  <1>6. algo \in {"*", "/", "+", "-"} /\ by <= MaxInt
        /\ high * by <= MaxInt /\ high + by <= MaxInt
    BY <1>1 DEF Tame
  <1>7. v \in Nat /\ high \in Nat
    BY <1>1, <1>3, <1>5
  <1> HIDE DEF by, max, algo
  <1>8. v * by \in Nat /\ v <= v * by /\ v * by <= high * by
    BY <1>1, <1>2, <1>7, Monotone
  <1>9. high * by \in Int
    BY <1>2, <1>7
  <1>a. v * by \in Int32 /\ v + by \in Int32 /\ v - by \in Int32
    BY <1>1, <1>2, <1>3, <1>6, <1>7, <1>8, <1>9 DEF Int32
  <1>b. Wrap(v * by) = v * by /\ Wrap(v + by) = v + by /\ Wrap(v - by) = v - by
    <2>1. v * by \in Int /\ v + by \in Int /\ v - by \in Int
      BY <1>2, <1>7
    <2> QED
      BY <1>a, <2>1, WrapInt
  <1>c. Quot(v, by) \in Int /\ 0 <= Quot(v, by) /\ Quot(v, by) <= v
    BY <1>2, <1>7, QuotInt, SMT
  <1> DEFINE new == tune(v, algo, by, max)
  <1>d. new \in Int /\ (new = max \/ (low <= new /\ new <= max) \/ (max <= new /\ new <= high))
    <2>1. CASE algo = "*"
      <3>1. new = Least(v * by, max)
        BY <2>1, <1>b DEF tune
      <3> QED
        BY <3>1, <1>1, <1>2, <1>5, <1>7, <1>8 DEF Least
    <2>2. CASE algo = "/"
      <3>1. new = Greatest(Quot(v, by), max)
        BY <2>2 DEF tune
      <3> QED
        BY <3>1, <1>1, <1>2, <1>5, <1>7, <1>c DEF Greatest
    <2>3. CASE algo = "+"
      <3>1. new = Least(v + by, max)
        BY <2>3, <1>b DEF tune
      <3> QED
        BY <3>1, <1>1, <1>2, <1>5, <1>7 DEF Least
    <2>4. CASE algo = "-"
      <3>1. new = Greatest(v - by, max)
        BY <2>4, <1>b DEF tune
      <3> QED
        BY <3>1, <1>1, <1>2, <1>5, <1>7 DEF Greatest
    <2> QED
      BY <1>6, <2>1, <2>2, <2>3, <2>4
  <1> HIDE DEF new
  <1>e. Within(f, new)
    BY <1>1, <1>2, <1>4, <1>5, <1>d DEF Within
  <1> QED
    BY <1>e DEF new, algo, by, max

\* The lines are in a sequence.
LEMMA LinesDomain == Len(Lines) \in Nat /\ DOMAIN Lines = 1..Len(Lines)
  BY LinesAssumption

\* The fields start within the given values.
LEMMA InitIInv == Init => IInv
  <1> SUFFICES ASSUME Init PROVE IInv
    OBVIOUS
  <1>1. \A f \in Fields : Initial[f] \in Given(f) /\ Initial[f] \in Int
    BY GivenInt, FieldsAssumption
  <1>2. \A f \in Fields : Within(f, values[f])
    BY <1>1 DEF Within, Init
  <1>3. values \in [Fields -> Int]
    BY FieldsAssumption DEF Init, Int32
  <1>4. line \in 0..Len(Lines) /\ got \in Int
    BY LinesDomain DEF Init
  <1>5. tuning \in BOOLEAN /\ ~tuning
    BY DEF Init
  <1> QED
    BY <1>2, <1>3, <1>4, <1>5, Zenon DEF IInv

\* No step takes a field, or the value read, out of the given values.
LEMMA NextIInv == IInv /\ [Next]_vars => IInv'
  <1> SUFFICES ASSUME IInv, [Next]_vars PROVE IInv'
    OBVIOUS
  <1> USE LinesDomain
  <1>1. CASE Report
    BY <1>1 DEF Report, IInv, Within
  <1>2. CASE FieldAssigned
    <2>0. PICK f \in Fields : \E v \in Assigned[f] : values' = [values EXCEPT ![f] = v]
      BY <1>2 DEF FieldAssigned
    <2>1. PICK v \in Assigned[f] : values' = [values EXCEPT ![f] = v]
      BY <2>0
    <2>2. v \in Given(f) /\ v \in Int
      BY <2>1, GivenInt
    <2>3. Within(f, v)
      BY <2>2 DEF Within
    <2>4. \A g \in Fields : Tame(g) => Within(g, values'[g])
      BY <2>1, <2>3 DEF IInv
    <2>5. values' \in [Fields -> Int]
      BY <2>1, <2>2 DEF IInv
    <2> QED
      BY <1>2, <2>4, <2>5 DEF FieldAssigned, IInv
  <1>3. CASE OutOfRange
    BY <1>3 DEF OutOfRange, At, NextLine, IInv
  <1>4. CASE Skip
    BY <1>4 DEF Skip, At, NextLine, IInv
  <1>5. CASE exec_method
    BY <1>5 DEF exec_method, At, NextLine, IInv
  <1>9. CASE Divide
    <2>1. UNCHANGED <<line, values, got, tuning>>
      BY <1>9 DEF Divide
    <2> QED
      BY <2>1 DEF IInv, Within
  <1>6. CASE GetField
    <2>1. line \in DOMAIN Lines /\ Lines[line].act = "field"
      BY <1>6 DEF GetField, At, Current
    <2>2. Lines[line].field \in Fields
      BY <2>1, LineTypes
    <2>3. got' = values[Lines[line].field] /\ line' = line /\ values' = values
          /\ tuning' = TRUE
      BY <1>6 DEF GetField, Current
    <2>4. Tame(Lines[line].field) => Within(Lines[line].field, got')
      BY <2>2, <2>3 DEF IInv
    <2> QED
      BY <2>1, <2>2, <2>3, <2>4 DEF IInv
  <1>7. CASE SetField
    <2> DEFINE f == Lines[line].field
               new == tune(got, Lines[line].algo, Lines[line].by, Lines[line].max)
    <2>1. tuning /\ line \in DOMAIN Lines /\ Lines[line].act = "field" /\ got \in Int
      BY <1>7 DEF SetField, IInv
    <2>2. f \in Fields /\ line \in Tuners(f)
      BY <2>1, LineTypes DEF Tuners
    <2>3. values' = [values EXCEPT ![f] = new]
      BY <1>7 DEF SetField, Current
    <2>4. new \in Int
      <3>1. Lines[line].algo = "/" => Lines[line].by # 0
        BY <1>7 DEF SetField, Current, Divisible
      <3> QED
        BY <2>1, <3>1, TuneInt
    <2>5. Tame(f) => Within(f, got)
      BY <2>1 DEF IInv
    <2>6. Tame(f) => Within(f, new)
      BY <2>1, <2>2, <2>5, TuneStays
    <2> HIDE DEF f, new
    <2>7. values' \in [Fields -> Int]
      BY <2>3, <2>4 DEF IInv
    <2>8. \A g \in Fields : Tame(g) => Within(g, values'[g])
      BY <2>2, <2>3, <2>6 DEF IInv
    <2>9. line' \in 0..Len(Lines) /\ got' \in Int
      BY <1>7, <2>1 DEF SetField, NextLine
    <2>10. tuning' \in BOOLEAN /\ ~tuning'
      BY <1>7 DEF SetField
    <2> QED
      BY <2>7, <2>8, <2>9, <2>10, Zenon DEF IInv
  <1>8. CASE UNCHANGED vars
    BY <1>8 DEF vars, IInv, Within
  <1> QED
    BY <1>1, <1>2, <1>3, <1>4, <1>5, <1>6, <1>7, <1>8, <1>9 DEF Next

\* The bounds of the rules hold in every state: tune_int, modify_field and
\* tune_all_fields never take a field out of the values that the program and
\* the lines give it, for every rule file without overflowing lines.
THEOREM BoundsHold == Spec => []FieldsWithinBounds
  <1>1. IInv => FieldsWithinBounds
    BY DEF IInv, FieldsWithinBounds, TameFields, Within
  <1> QED
    BY <1>1, InitIInv, NextIInv, PTL DEF Spec
-----------------------------------------------------------------------------
\* Types

\* What the fields of IInv leave open: the round, the reports and the lines fired.
ReportTypes ==
    /\ round \in 0..MaxRounds
    /\ DOMAIN recorded \subseteq Names /\ DOMAIN results = DOMAIN recorded
    /\ fired \subseteq DOMAIN Lines /\ fault \in BOOLEAN /\ died \in BOOLEAN

\* A report names what is listed, and only lines of the file fire.
LEMMA ReportTypesStep == IInv /\ ReportTypes /\ [Next]_vars => ReportTypes'
  <1> SUFFICES ASSUME IInv, ReportTypes, [Next]_vars PROVE ReportTypes'
    OBVIOUS
  <1> USE DEF ReportTypes
  <1>1. CASE Report
    <2>1. round' \in 0..MaxRounds
      BY <1>1, FieldsAssumption DEF Report
    <2> QED
      BY <1>1, <2>1 DEF Report
  <1>2. CASE FieldAssigned
    BY <1>2 DEF FieldAssigned
  <1>3. CASE OutOfRange \/ Skip \/ GetField \/ Divide
    BY <1>3 DEF OutOfRange, Skip, GetField, Divide
  <1>4. CASE SetField
    <2>1. line \in DOMAIN Lines
      BY <1>4, LinesDomain DEF SetField, IInv
    <2> QED
      BY <1>4, <2>1 DEF SetField
  <1>5. CASE exec_method
    BY <1>5 DEF exec_method, At
  <1>6. CASE UNCHANGED vars
    BY <1>6 DEF vars
  <1> QED
    BY <1>1, <1>2, <1>3, <1>4, <1>5, <1>6 DEF Next

\* Every reachable state is well typed: the position in the rule file, the
\* report, the value read and the fields keep their types.
THEOREM TypeCorrect == Spec => []TypeOK
  <1>1. ASSUME Init PROVE ReportTypes
    <2>1. DOMAIN recorded = {} /\ DOMAIN results = {}
      BY <1>1 DEF Init
    <2>2. round \in 0..MaxRounds /\ fired = {} /\ fault = FALSE /\ died = FALSE
      BY <1>1, FieldsAssumption DEF Init
    <2> QED
      BY <2>1, <2>2 DEF ReportTypes
  <1>2. IInv /\ ReportTypes => TypeOK
    BY DEF IInv, ReportTypes, TypeOK
  <1> QED
    BY <1>1, <1>2, InitIInv, NextIInv, ReportTypesStep, PTL DEF Spec
-----------------------------------------------------------------------------
\* The latency rules

\* The report gives for every number listed the end of its slot.
Read == \A n \in DOMAIN recorded : recorded[n] \in Nat /\ Reported(recorded[n], results[n])

\* Of the lines passed, those have fired whose condition the results meet, and a
\* field is tuned only by such a line.
Decided ==
    /\ \A i \in DOMAIN Lines : Passed(i) => (i \in fired <=> Fires(Lines[i]))
    /\ \A i \in fired : Passed(i)
    /\ tuning => Fires(Lines[line])

\* A step to the next line passes the line it leaves, and no other.
LEMMA NextPassed ==
    ASSUME line \in DOMAIN Lines, NextLine, NEW i \in DOMAIN Lines
    PROVE  Passed(i)' <=> Passed(i) \/ i = line
  <1>1. Len(Lines) \in Nat /\ line \in 1..Len(Lines) /\ i \in 1..Len(Lines)
    BY LinesDomain
  <1>2. line' = IF line = Len(Lines) THEN 0 ELSE line + 1
    BY DEF NextLine
  <1> QED
    BY <1>1, <1>2 DEF Passed

\* A report is read off the histogram.
LEMMA ReadStep == Read /\ [Next]_vars => Read'
  <1> SUFFICES ASSUME Read, [Next]_vars PROVE Read'
    OBVIOUS
  <1>1. CASE Report
    <2>1. PICK listed \in SUBSET Names : \E reading \in [listed -> Readings] :
            /\ recorded' = [n \in listed |-> reading[n][1]]
            /\ results' = [n \in listed |-> reading[n][2]]
      BY <1>1 DEF Report
    <2>2. PICK reading \in [listed -> Readings] :
            /\ recorded' = [n \in listed |-> reading[n][1]]
            /\ results' = [n \in listed |-> reading[n][2]]
      BY <2>1
    <2>3. ASSUME NEW n \in DOMAIN recorded'
          PROVE  recorded'[n] \in Nat /\ Reported(recorded'[n], results'[n])
      <3>1. n \in listed /\ reading[n] \in Readings
        BY <2>2, <2>3
      <3>2. reading[n][1] \in Numbers /\ Reported(reading[n][1], reading[n][2])
        BY <3>1 DEF Readings
      <3> QED
        BY <2>2, <3>1, <3>2, NumbersAssumption
    <2> QED
      BY <2>3 DEF Read, Reported, InSlot
  <1>2. CASE ~Report
    <2>1. UNCHANGED <<recorded, results>>
      BY <1>2 DEF Next, FieldAssigned, OutOfRange, Skip, GetField, SetField, Divide,
                  exec_method, vars
    <2> QED
      BY <2>1 DEF Read, Reported, InSlot
  <1> QED
    BY <1>1, <1>2

\* Every line is decided when it is passed, by what the report says.
LEMMA DecidedStep == IInv /\ ReportTypes /\ Decided /\ [Next]_vars => Decided'
  <1> SUFFICES ASSUME IInv, ReportTypes, Decided, [Next]_vars PROVE Decided'
    OBVIOUS
  <1>t. line \in 0..Len(Lines) /\ tuning \in BOOLEAN /\ (tuning => line > 0)
    BY DEF IInv
  <1>f. UNCHANGED results => \A r : Fires(r)' <=> Fires(r)
    BY DEF Fires
  <1>l. Len(Lines) \in Nat /\ DOMAIN Lines = 1..Len(Lines)
    BY LinesDomain
  <1>s. fired \subseteq DOMAIN Lines
    BY DEF ReportTypes
  <1>1. CASE Report
    <2>1. fired' = {} /\ line' = (IF Lines = <<>> THEN 0 ELSE 1) /\ tuning' = tuning
          /\ ~tuning
      BY <1>1, <1>t DEF Report
    <2>2. \A i \in DOMAIN Lines : ~Passed(i)'
      BY <2>1, <1>l DEF Passed
    <2> QED
      BY <2>1, <2>2 DEF Decided
  <1>2. CASE FieldAssigned \/ Divide \/ UNCHANGED vars
    <2>1. UNCHANGED <<line, results, fired, tuning>>
      BY <1>2 DEF FieldAssigned, Divide, vars
    <2> QED
      BY <2>1, <1>f DEF Decided, Passed
  <1>3. CASE OutOfRange \/ Skip
    <2>1. line \in DOMAIN Lines /\ NextLine /\ ~tuning
          /\ UNCHANGED <<results, fired, tuning>>
      BY <1>3 DEF OutOfRange, Skip, At
    <2>2. ~Fires(Lines[line])
      BY <1>3, <1>l, <2>1 DEF OutOfRange, Skip, Current, Fires
    <2>3. line \notin fired
      BY <2>1, <1>l, <1>t DEF Decided, Passed
    <2>4. \A i \in DOMAIN Lines : Passed(i)' <=> Passed(i) \/ i = line
      BY <2>1, NextPassed
    <2> QED
      BY <2>1, <2>2, <2>3, <2>4, <1>f, <1>s DEF Decided
  <1>4. CASE GetField
    <2>1. UNCHANGED <<line, results, fired>> /\ Fires(Lines[line])
      BY <1>4 DEF GetField, Current
    <2> QED
      BY <2>1, <1>f DEF Decided, Passed
  <1>5. CASE SetField \/ exec_method
    <2>1. line \in DOMAIN Lines /\ NextLine /\ ~tuning'
          /\ fired' = fired \cup {line} /\ UNCHANGED results
      BY <1>5, <1>t, <1>l DEF SetField, exec_method, At
    <2>2. Fires(Lines[line])
      BY <1>5 DEF SetField, exec_method, Current, Decided
    <2>3. \A i \in DOMAIN Lines : Passed(i)' <=> Passed(i) \/ i = line
      BY <2>1, NextPassed
    <2> QED
      BY <2>1, <2>2, <2>3, <1>f, <1>s DEF Decided
  <1> QED
    BY <1>1, <1>2, <1>3, <1>4, <1>5 DEF Next

\* The end of the slot of a number is above it, and at most its double: half of it
\* is an end too, unless it is the first.
LEMMA SlotWithinTwo ==
    ASSUME NEW n \in Nat \ {0}, NEW p, InSlot(n, p)
    PROVE  p \in Nat /\ n < p /\ p <= 2 * n
  <1>1. p \in Nat /\ n < p /\ \A q \in SlotEnds : q \in Nat /\ (q <= n \/ p <= q)
    BY SlotsAssumption DEF InSlot
  <1>2. CASE p = 2
    BY <1>1, <1>2
  <1>3. CASE p # 2
    <2>1. PICK q \in SlotEnds : p = 2 * q
      BY <1>3, SlotsAssumption DEF InSlot
    <2> QED
      BY <1>1, <2>1
  <1> QED
    BY <1>2, <1>3

\* What the threshold of a line counts as.
Threshold(r) == IF r.unit = None THEN 0 ELSE r.num * Factor[r.unit]

\* A unit is one of those that get_num_from_str knows, or none.
LEMMA ThresholdIsRead ==
    ASSUME NEW i \in DOMAIN Lines
    PROVE  /\ Threshold(Lines[i]) \in Nat
           /\ get_num_from_str(Lines[i].num, Lines[i].unit) = Threshold(Lines[i])
  <1> DEFINE r == Lines[i]
             Known == {"ns", "us", "ms", "s", "k", "m", "g"}
  <1>1. r.num \in Nat /\ r.unit \in Units
    BY LineTypes DEF Line
  <1>2. DOMAIN Factor = Known /\ \A u \in Known : Factor[u] \in Nat
    BY SMT DEF Factor
  <1>3. r.unit \in Known \/ r.unit = None
    BY <1>1 DEF Units
  <1>4. None \notin Known
    BY Zenon DEF None
  <1> HIDE DEF Known
  <1>5. CASE r.unit \in Known
    <2>1. r.unit # None
      BY <1>4, <1>5
    <2> QED
      BY <1>1, <1>2, <1>5, <2>1 DEF Threshold, get_num_from_str
  <1>6. CASE r.unit = None
    BY <1>2, <1>4, <1>6 DEF Threshold, get_num_from_str
  <1> QED
    BY <1>3, <1>5, <1>6

\* In a line with a prefix and a condition, the result of its name is compared with
\* its threshold.
LEMMA Comparison ==
    ASSUME NEW i \in DOMAIN Lines, Lines[i].prefix # None, Lines[i].op # None
    PROVE  /\ Lines[i].op \in {">", "<"}
           /\ Fires(Lines[i]) <=>
                 /\ Lines[i].name \in DOMAIN results
                 /\ results[Lines[i].name] > 0 =>
                       IF Lines[i].op = ">" THEN results[Lines[i].name] >= Threshold(Lines[i])
                       ELSE results[Lines[i].name] <= Threshold(Lines[i])
  <1> DEFINE r == Lines[i]
  <1>1. r.op \in {">", "<", None}
    BY LineTypes DEF Line
  <1>2. r.op \in {">", "<"}
    BY <1>1
  <1>5. Len(parse_cond(r)) = 4 /\ parse_cond(r)[2] = r.name
    <2> DEFINE S == {r.prefix, r.name, r.text, r.op}
               s == <<r.prefix>>
               c == <<r.name, r.text, r.op>>
    <2>2. parse_cond(r) = s \o c
      BY DEF parse_cond
    <2>3. s \in Seq(S) /\ Len(s) = 1 /\ c \in Seq(S) /\ Len(c) = 3 /\ c[1] = r.name
      OBVIOUS
    <2> HIDE DEF s, c, S
    <2>4. /\ Len(s \o c) = Len(s) + Len(c)
          /\ \A k \in 1..Len(s) + Len(c) :
                (s \o c)[k] = IF k <= Len(s) THEN s[k] ELSE c[k - Len(s)]
      BY <2>3, ConcatProperties
    <2>5. Len(s \o c) = 4 /\ (s \o c)[2] = c[1]
      BY <2>3, <2>4
    <2> QED
      BY <2>2, <2>3, <2>5
  <1>8. get_num_from_str(r.num, r.unit) = Threshold(r)
    BY ThresholdIsRead
  <1> QED
    BY <1>2, <1>5, <1>8 DEF Fires, Met

\* What the rules on latencies do is within a factor two of the longest latency
\* recorded, for every rule file, in every round and for all recorded numbers, in
\* both directions; and they fire for a method without one.
THEOREM WithinTwo == Spec => []LatencyRulesWithinTwo
  <1>1. ASSUME Init PROVE ReportTypes /\ Read /\ Decided
    <2>1. DOMAIN recorded = {} /\ DOMAIN results = {} /\ fired = {} /\ tuning = FALSE
          /\ round = 0 /\ fault = FALSE /\ died = FALSE
      BY <1>1 DEF Init
    <2>2. \A i \in DOMAIN Lines : ~Fires(Lines[i])
      BY <2>1 DEF Fires
    <2>0. round \in 0..MaxRounds
      BY <2>1, FieldsAssumption
    <2>3. ReportTypes
      BY <2>0, <2>1 DEF ReportTypes
    <2>4. Read
      BY <2>1 DEF Read
    <2> QED
      BY <2>1, <2>2, <2>3, <2>4 DEF Decided
  <1>2. ASSUME ReportTypes, Read, Decided PROVE LatencyRulesWithinTwo
    <2> SUFFICES ASSUME NEW i \in DOMAIN Lines, LatTop,
                        Lines[i].prefix # None, Lines[i].op # None,
                        Lines[i].name \in DOMAIN recorded, Passed(i)
                 PROVE  LET n == recorded[Lines[i].name]
                            t == Threshold(Lines[i])
                        IN  /\ n = 0 => i \in fired
                            /\ n > 0 /\ Lines[i].op = ">" =>
                                  (i \in fired => 2 * n >= t) /\ (n >= t => i \in fired)
                            /\ n > 0 /\ Lines[i].op = "<" =>
                                  (i \in fired => n < t) /\ (2 * n <= t => i \in fired)
      BY Zenon DEF LatencyRulesWithinTwo, Threshold
    <2> DEFINE n == recorded[Lines[i].name]
               p == results[Lines[i].name]
               t == Threshold(Lines[i])
    <2>1. n \in Nat /\ Reported(n, p)
      BY <1>2 DEF Read
    <2>2. t \in Nat
      BY ThresholdIsRead
    <2>3. Lines[i].op \in {">", "<"} /\ ">" # "<"
      BY Comparison
    <2>4. i \in fired <=> (p > 0 => IF Lines[i].op = ">" THEN p >= t ELSE p <= t)
      BY <1>2, Comparison DEF Decided, ReportTypes
    <2> HIDE DEF n, p, t
    <2>5. CASE n = 0
      <3>1. p = 0
        BY <2>1, <2>5 DEF Reported
      <3> QED
        BY <2>4, <2>5, <3>1 DEF n
    <2>6. CASE n > 0
      <3>1. p \in Nat /\ n < p /\ p <= 2 * n
        <4>1. n # 0 /\ n \in Nat \ {0}
          BY <2>1, <2>6
        <4>2. InSlot(n, p)
          BY <2>1, <4>1 DEF Reported
        <4> QED
          BY <4>1, <4>2, SlotWithinTwo
      <3>2. /\ n # 0
            /\ Lines[i].op = ">" => (i \in fired => 2 * n >= t) /\ (n >= t => i \in fired)
            /\ Lines[i].op = "<" => (i \in fired => n < t) /\ (2 * n <= t => i \in fired)
        BY <2>1, <2>2, <2>3, <2>4, <2>6, <3>1
      <3> QED
        BY <3>2 DEF n, t
    <2> QED
      BY <2>1, <2>5, <2>6
  <1> QED
    BY <1>1, <1>2, InitIInv, NextIInv, ReportTypesStep, ReadStep, DecidedStep, PTL DEF Spec
=============================================================================
