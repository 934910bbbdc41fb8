------------------------------- MODULE Rules -------------------------------
(***************************************************************************)
(* The tuning rules: after every round profile() hands the results of the  *)
(* report (a number for every method or thread in it) to tune_all_fields,  *)
(* which goes through the lines of the rule file in order.  A line whose   *)
(* condition is met changes a static field by an arithmetic step that is   *)
(* clamped at a bound, or calls a static method.                           *)
(*                                                                         *)
(* A line is a record of its parts.  A result is what the report gives: a  *)
(* number it has counted, or with lat_top what LatencyMethod returns, the  *)
(* upper end of the histogram slot of the longest latency it has recorded, *)
(* and 0 when it has recorded none.  (How that latency compares with what  *)
(* a call took is the matter of module Latency.)                           *)
(* A field is read and written in two JNI calls, while the threads of the  *)
(* program go on and may assign it.  int arithmetic wraps, as the compiled *)
(* code does (its overflow is undefined in C++).                           *)
(***************************************************************************)
EXTENDS Integers, Sequences

CONSTANTS
    Lines,      \* the rule file
    Names,      \* the names that may appear in a report
    Numbers,    \* the recorded numbers explored
    LatTop,     \* the results are latencies
    SlotEnds,   \* the ends of the histogram's slots: 2, 4, 8, ...
    Fields,     \* the static fields of the program
    Initial,    \* their values at the start
    Assigned,   \* the values the program itself gives them
    MaxInt,     \* the largest int (2^31 - 1 in the code)
    MaxRounds   \* bound: the rounds

None   == ""    \* a part that a line does not have
Units  == {None, "ns", "us", "ms", "s", "k", "m", "g"}
Algos  == {"*", "/", "+", "-", "x"}
Line   == [prefix : {"M", "T", None}, name : Names, op : {">", "<", None},
           num : Nat, unit : Units, text : STRING,
           act : {"field", "method"}, field : Fields, algo : Algos,
           by : Int, max : Int]
Int32  == -(MaxInt + 1)..MaxInt

ASSUME LinesAssumption == Lines \in Seq(Line)
ASSUME FieldsAssumption ==
    /\ MaxInt \in Nat /\ MaxRounds \in Nat
    /\ Initial \in [Fields -> Int32]
    /\ \A f \in Fields : Assigned[f] \subseteq Int32 /\ Initial[f] \in Assigned[f]
ASSUME NumbersAssumption == Numbers \subseteq Nat
ASSUME SlotsAssumption ==
    /\ SlotEnds \subseteq Nat
    /\ \A p \in SlotEnds : p = 2 \/ \E q \in SlotEnds : p = 2 * q

VARIABLES
    round,      \* the rounds begun
    line,       \* the line tune_all_fields is at; 0 between two rounds
    recorded,   \* history: the numbers recorded in this round, by name
    results,    \* what the report of this round says of them
    values,     \* the static fields
    got,        \* the value modify_field has read
    tuning,     \* between its read and its write
    fired,      \* history: the lines that have fired in this round
    fault,      \* history: an element past the end of a vector was read
    died        \* an integer division has ended the process

vars == <<round, line, recorded, results, values, got, tuning, fired, fault, died>>

\* n is counted in the slot that ends at p: the least end above it.
InSlot(n, p) == p \in SlotEnds /\ n < p /\ \A q \in SlotEnds : q <= n \/ p <= q

\* What the report says of a number recorded.
Reported(n, p) == IF ~LatTop \/ n = 0 THEN p = n ELSE InSlot(n, p)

Readings == {r \in Numbers \X (Numbers \cup SlotEnds) : Reported(r[1], r[2])}

-----------------------------------------------------------------------------
\* Parsing

Factor == [ns |-> 1, us |-> 1000, ms |-> 1000000, s |-> 1000000000,
           k |-> 1024, m |-> 1048576, g |-> 1073741824]

get_num_from_str_NoScale(num, unit) == IF unit \in DOMAIN Factor THEN num ELSE 0

\* A number without a unit counts as 0.
get_num_from_str(num, unit) == IF unit \in DOMAIN Factor THEN num * Factor[unit] ELSE 0

\* The elements of the vector; a threshold stands for its text.
parse_cond(r) ==
    (IF r.prefix = None THEN <<>> ELSE <<r.prefix>>)
    \o (IF r.op = None THEN <<r.name>> ELSE <<r.name, r.text, r.op>>)

-----------------------------------------------------------------------------
\* Tuning

Least(a, b)    == IF a < b THEN a ELSE b
Greatest(a, b) == IF a > b THEN a ELSE b

\* int arithmetic
Wrap(n) == IF n \in Int32 THEN n
           ELSE ((n + MaxInt + 1) % (2 * MaxInt + 2)) - (MaxInt + 1)
Abs(a)     == IF a >= 0 THEN a ELSE -a
Quot(a, b) == IF (a >= 0) = (b > 0) THEN Abs(a) \div Abs(b) ELSE -(Abs(a) \div Abs(b))

\* A division by 0, or one whose result is no int, is a signal of the processor.
Divisible(a, b) == b # 0 /\ ~ (b = -1 /\ a = -(MaxInt + 1))

tune_NoClamp(v, algo, by, max) ==
    CASE algo = "*" -> Wrap(v * by)
      [] algo = "/" -> Quot(v, by)
      [] algo = "+" -> Wrap(v + by)
      [] algo = "-" -> Wrap(v - by)
      [] OTHER -> 0

\* tune_int, and tune_float up to the rounding of floats
tune(v, algo, by, max) ==
    CASE algo = "*" -> Least(Wrap(v * by), max)
      [] algo = "/" -> Greatest(Quot(v, by), max)
      [] algo = "+" -> Least(Wrap(v + by), max)
      [] algo = "-" -> Greatest(Wrap(v - by), max)
      [] OTHER -> 0

\* The condition is looked at only in a vector of four, and for a result that
\* is not 0.
Met(r, num) ==
    Len(parse_cond(r)) > 3 /\ num > 0 =>
        LET threshold == get_num_from_str(r.num, r.unit) IN
        IF r.op = ">" THEN num >= threshold ELSE num <= threshold

Init ==
    /\ round = 0 /\ line = 0
    /\ recorded = [n \in {} |-> 0] /\ results = [n \in {} |-> 0]
    /\ values = Initial /\ got = 0 /\ tuning = FALSE
    /\ fired = {} /\ fault = FALSE /\ died = FALSE

\* A report lists some of the names.
Report ==
    /\ line = 0 /\ round < MaxRounds
    /\ \E listed \in SUBSET Names : \E reading \in [listed -> Readings] :
          /\ recorded' = [n \in listed |-> reading[n][1]]
          /\ results' = [n \in listed |-> reading[n][2]]
    /\ round' = round + 1
    /\ line' = IF Lines = <<>> THEN 0 ELSE 1
    /\ fired' = {}
    /\ UNCHANGED <<values, got, tuning, fault, died>>

\* A thread of the program assigns a field, at any time.
FieldAssigned ==
    /\ \E f \in Fields : \E v \in Assigned[f] : values' = [values EXCEPT ![f] = v]
    /\ UNCHANGED <<round, line, recorded, results, got, tuning, fired, fault, died>>

Current == Lines[line]

\* tune_all_fields is at the start of a line.
At == line \in DOMAIN Lines /\ ~tuning

NextLine == line' = IF line = Len(Lines) THEN 0 ELSE line + 1

\* vec_cond[1] is read, counted from 0, and a vector of one has none.
OutOfRange ==
    /\ At /\ Len(parse_cond(Current)) < 2
    /\ fault' = TRUE
    /\ NextLine
    /\ UNCHANGED <<round, recorded, results, values, got, tuning, fired, died>>

Fires(r) ==
    LET cond == parse_cond(r) IN
    Len(cond) >= 2 /\ cond[2] \in DOMAIN results /\ Met(r, results[cond[2]])

Skip ==
    /\ At /\ Len(parse_cond(Current)) >= 2 /\ ~Fires(Current)
    /\ NextLine
    /\ UNCHANGED <<round, recorded, results, values, got, tuning, fired, fault, died>>

\* modify_field and tune_static, up to the read of the field
GetField ==
    /\ At /\ Fires(Current) /\ Current.act = "field"
    /\ got' = values[Current.field]
    /\ tuning' = TRUE
    /\ UNCHANGED <<round, line, recorded, results, values, fired, fault, died>>

\* the rest of tune_static
SetField ==
    /\ tuning /\ (Current.algo = "/" => Divisible(got, Current.by))
    /\ values' = [values EXCEPT ![Current.field] =
                    tune(got, Current.algo, Current.by, Current.max)]
    /\ fired' = fired \cup {line}
    /\ tuning' = FALSE /\ got' = 0
    /\ NextLine
    /\ UNCHANGED <<round, recorded, results, fault, died>>

Divide ==
    /\ tuning /\ Current.algo = "/" /\ ~Divisible(got, Current.by)
    /\ died' = TRUE
    /\ UNCHANGED <<round, line, recorded, results, values, got, tuning, fired, fault>>

exec_method ==
    /\ At /\ Fires(Current) /\ Current.act = "method"
    /\ fired' = fired \cup {line}
    /\ NextLine
    /\ UNCHANGED <<round, recorded, results, values, got, tuning, fault, died>>

Next ==
    \/ /\ ~died
       /\ \/ Report \/ FieldAssigned \/ OutOfRange \/ Skip
          \/ GetField \/ SetField \/ Divide \/ exec_method
    \/ died /\ UNCHANGED vars

Spec == Init /\ [][Next]_vars

-----------------------------------------------------------------------------
\* Properties

\* The lines that tune a field, and the values it can be given as such: by the
\* program, or as the bound of a line.
Tuners(f) == {i \in DOMAIN Lines : Lines[i].act = "field" /\ Lines[i].field = f}
Given(f)  == Assigned[f] \cup {Lines[i].max : i \in Tuners(f)}

\* No value is negative, no step from a value given overflows, and every line
\* has one of the four operations, by a positive number.
Tame(f) ==
    /\ \A b \in Given(f) : b \in 0..MaxInt
    /\ \A i \in Tuners(f) :
          /\ Lines[i].algo \in {"*", "/", "+", "-"} /\ Lines[i].by \in 1..MaxInt
          /\ \A b \in Given(f) : b * Lines[i].by <= MaxInt /\ b + Lines[i].by <= MaxInt

\* The fields for which the bounds can be promised.
TameFields == {f \in Fields : Tame(f)}

\* The type invariant: the position in the rule file, the results of the
\* report and the fields have values of their types.
TypeOK ==
    /\ round \in 0..MaxRounds /\ line \in 0..Len(Lines)
    /\ DOMAIN recorded \subseteq Names /\ DOMAIN results = DOMAIN recorded
    /\ values \in [Fields -> Int]
    /\ got \in Int /\ tuning \in BOOLEAN /\ (tuning => line > 0)
    /\ fired \subseteq DOMAIN Lines /\ fault \in BOOLEAN /\ died \in BOOLEAN

\* The bounds hold whatever order the lines fire in, however many rounds run
\* and whatever the program assigns between the read and the write of a field:
\* tune_int never takes a field out of the range of the values that the
\* program and the bounds of the lines give it.
FieldsWithinBounds ==
    \A f \in TameFields :
        \E low, high \in Given(f) : low <= values[f] /\ values[f] <= high

\* tune_all_fields has come past a line since the last report.
Passed(i) == line = 0 \/ line > i

\* What a line with a condition does with a latency recorded, when it has been
\* passed.  The histogram costs it at most a factor of two: ">t" fires for every
\* latency from t on and for none below half of t, "<t" for none from t on and for
\* every one up to half of t.  A threshold without a unit is 0, and of a method of
\* which no call was recorded no condition is looked at.
LatencyRulesWithinTwo ==
    \A i \in DOMAIN Lines :
        LET r == Lines[i]
            n == recorded[r.name]
            t == IF r.unit = None THEN 0 ELSE r.num * Factor[r.unit]
        IN
        LatTop /\ r.prefix # None /\ r.op # None /\ r.name \in DOMAIN recorded /\ Passed(i) =>
            /\ n = 0 => i \in fired
            /\ n > 0 /\ r.op = ">" => (i \in fired => 2 * n >= t) /\ (n >= t => i \in fired)
            /\ n > 0 /\ r.op = "<" => (i \in fired => n < t) /\ (2 * n <= t => i \in fired)

\* tune.cfg:6 "T:java>99": a line with a number and no unit fires only for a
\* result that is not below the number (a number without a unit is one).
UnitlessThreshold ==
    \A i \in fired :
        LET r == Lines[i] IN
        r.op = ">" /\ r.unit = None => results[r.name] >= r.num

=============================================================================
