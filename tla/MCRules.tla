------------------------------ MODULE MCRules ------------------------------
(***************************************************************************)
(* The instances of Rules for TLC: two rule files.                         *)
(***************************************************************************)
EXTENDS Rules

\* As far as the integers of TLC go (up to 2^62 for a long).
MCSlotEnds == {2 ^ k : k \in 1..30}

\* HashMap.DEFAULT_INITIAL_CAPACITY, ArrayList.DEFAULT_CAPACITY and
\* HashMap.DEFAULT_LOAD_FACTOR, the last in twentieths
MCFields   == {"map", "list", "load"}
MCInitial  == [map |-> 16, list |-> 10, load |-> 15]
MCAssigned == [map |-> {16, 32}, list |-> {10}, load |-> {15}]
MCNames    == {"resize", "grow", "java"}

\* A line that tunes a field, and one that calls a method.
FieldLine(p, n, o, t, u, x, f, a, b, m) ==
    [prefix |-> p, name |-> n, op |-> o, num |-> t, unit |-> u, text |-> x,
     act |-> "field", field |-> f, algo |-> a, by |-> b, max |-> m]
MethodLine(p, n, o, t, u, x) ==
    [prefix |-> p, name |-> n, op |-> o, num |-> t, unit |-> u, text |-> x,
     act |-> "method", field |-> "map", algo |-> "*", by |-> 1, max |-> 0]

\* All operations, conditions in both directions, two lines on one field, a
\* line that overflows in a narrow int, a line without prefix, a threshold without
\* a unit, steps by a negative number and by 0.
MixedLines ==
    << FieldLine("M", "resize", "", 0, "", "", "map", "*", 4, 256),
       MethodLine("M", "resize", ">", 1, "us", "1us"),
       FieldLine("M", "resize", "<", 600, "ns", "600ns", "map", "/", 3, 8),
       FieldLine("M", "grow", "", 0, "", "", "list", "*", 300, 1000),
       FieldLine("M", "grow", ">", 1, "us", "1us", "load", "-", 4, 4),
       FieldLine("M", "grow", "<", 1, "us", "1us", "load", "+", 6, 20),
       MethodLine("", "resize", "", 0, "", ""),
       MethodLine("T", "java", ">", 99, "", "99"),
       FieldLine("T", "java", "<", 99, "", "99", "list", "/", -2, -3),
       FieldLine("T", "java", "<", 1, "us", "1us", "list", "/", 0, 1) >>

\* The rules of tune.cfg about HashMap.resize and about the threads.
TuneCfg ==
    << FieldLine("M", "resize", "", 0, "", "", "map", "*", 4, 2048),
       MethodLine("M", "resize", "", 0, "", ""),
       MethodLine("M", "resize", ">", 1, "us", "1us"),
       MethodLine("T", "java", ">", 99, "", "99") >>
=============================================================================
