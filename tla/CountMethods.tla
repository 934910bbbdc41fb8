---------------------------- MODULE CountMethods ----------------------------
(***************************************************************************)
(* Method counting (count_top): in every round CountMethods puts two       *)
(* hardware breakpoints on each of the first n methods of the report, on   *)
(* its entry and on the address it returns to, sleeps, removes them and    *)
(* prints the counters.                                                    *)
(*                                                                         *)
(* The counters are elements of two kernel arrays, numbered by the         *)
(* position of the method in this round's report; they are incremented by  *)
(* a load and a store on whatever CPU runs into the breakpoint, and        *)
(* nothing ever resets them.  A CPU has DebugRegs registers for            *)
(* breakpoints, and there are BPF functions for Functions counters; the    *)
(* kernel may also refuse a breakpoint for another reason.  An attach that *)
(* fails is reported on stderr and otherwise ignored.  (CPUs are armed one *)
(* by one; a hit on the first of them is counted like any other.)          *)
(***************************************************************************)
EXTENDS Naturals, Sequences, FiniteSets

CONSTANTS
    Methods,    \* the methods of the profiled program
    Cpus,       \* the CPUs its threads run on
    n,          \* COUNT_TOP_N
    DebugRegs,  \* the breakpoint registers of a CPU (4 on x86)
    Functions,  \* do_bp_count0 ... (5 in the code)
    MaxRounds,  \* bound: the rounds
    MaxHits     \* bound: the hits of a breakpoint

ASSUME CountAssumption == n \in Nat \ {0} /\ DebugRegs \in Nat /\ Functions \in Nat
ASSUME CountBounds == MaxRounds \in Nat /\ MaxHits \in Nat
ASSUME CpusAssumption == IsFiniteSet(Cpus)

Kinds    == {"entry", "return"}
Counters == 1..n
Free     == [kind |-> "none", i |-> 1]

VARIABLES
    pc,         \* where CountMethods is
    round,      \* the rounds begun
    methods,    \* the methods monitored in this round
    step,       \* the breakpoint to be attached or detached next
    attached,   \* the breakpoints, as pairs of a kind and a position
    refused,    \* history: those refused in this round for another reason
    counter,    \* top_counter and top_ret_counter
    cpu,        \* the counter a CPU is incrementing, and the value it loaded
    printed,    \* what this round has printed, by breakpoint
    hits,       \* history: the hits of a breakpoint in this round
    allHits     \* history: ... in all rounds

vars == <<pc, round, methods, step, attached, refused, counter, cpu, printed, hits, allHits>>

BPs     == [kind : Kinds, i : Counters]
NoBP    == [bp |-> Free, val |-> 0]
Zero    == [b \in BPs |-> 0]

BP_EntriesFirst(k) ==
    [kind |-> IF k <= n THEN "entry" ELSE "return", i |-> IF k <= n THEN k ELSE k - n]

\* The breakpoints in the order of CountMethods: entry and return in turn.
BP(k) == [kind |-> IF k % 2 = 1 THEN "entry" ELSE "return", i |-> (k + 1) \div 2]

Init ==
    /\ pc = "idle" /\ round = 0 /\ step = 1
    /\ methods = <<>> /\ attached = {} /\ refused = {}
    /\ counter = Zero /\ printed = Zero
    /\ cpu = [c \in Cpus |-> NoBP]
    /\ hits = Zero /\ allHits = Zero

-----------------------------------------------------------------------------
\* The CPUs

\* A thread runs into a breakpoint, and inc or incr loads the counter.
Hit(c, b) ==
    /\ b \in attached /\ cpu[c] = NoBP /\ allHits[b] < MaxHits
    /\ cpu' = [cpu EXCEPT ![c] = [bp |-> b, val |-> counter[b]]]
    /\ hits' = [hits EXCEPT ![b] = @ + 1]
    /\ allHits' = [allHits EXCEPT ![b] = @ + 1]
    /\ UNCHANGED <<pc, round, methods, step, attached, refused, counter, printed>>

Store_Swapped(c) ==
    /\ cpu[c] # NoBP
    /\ counter' = [counter EXCEPT ![[cpu[c].bp EXCEPT !.kind = "entry"]] = cpu[c].val + 1]
    /\ cpu' = [cpu EXCEPT ![c] = NoBP]
    /\ UNCHANGED <<pc, round, methods, step, attached, refused, printed, hits, allHits>>

\* ... and stores it.
Store(c) ==
    /\ cpu[c] # NoBP
    /\ counter' = [counter EXCEPT ![cpu[c].bp] = cpu[c].val + 1]
    /\ cpu' = [cpu EXCEPT ![c] = NoBP]
    /\ UNCHANGED <<pc, round, methods, step, attached, refused, printed, hits, allHits>>

-----------------------------------------------------------------------------
\* CountMethods

\* PrintTopMethods has a new report and calls CountMethods.
CountMethods ==
    /\ pc = "idle" /\ round < MaxRounds
    /\ methods' \in {s \in [Counters -> Methods] : \A i, j \in Counters : s[i] = s[j] => i = j}
    /\ round' = round + 1 /\ step' = 1 /\ pc' = "attach"
    /\ hits' = Zero /\ printed' = Zero /\ refused' = {}
    /\ UNCHANGED <<attached, counter, cpu, allHits>>

\* There is a register left, and a function to call.
Permitted == Cardinality(attached) < DebugRegs /\ BP(step).i <= Functions

\* attach_perf_event_raw: the result is the same whatever the kernel did not like,
\* the address, a register that another tool holds, the number of open files.
Attach(b) ==
    \/ Permitted /\ attached' = attached \cup {b} /\ UNCHANGED refused
    \/ ~ Permitted /\ UNCHANGED <<attached, refused>>
    \/ refused' = refused \cup {b} /\ UNCHANGED attached

AttachBreakPoint_OneMore ==
    /\ pc = "attach" /\ step <= 2 * n + 1
    /\ Attach(BP(step))
    /\ step' = step + 1
    /\ UNCHANGED <<pc, round, methods, counter, cpu, printed, hits, allHits>>

AttachBreakPoint ==
    /\ pc = "attach" /\ step <= 2 * n
    /\ Attach(BP(step))
    /\ step' = step + 1
    /\ UNCHANGED <<pc, round, methods, counter, cpu, printed, hits, allHits>>

Sleep ==
    /\ pc = "attach" /\ step > 2 * n
    /\ pc' = "sleep"
    /\ UNCHANGED <<round, methods, step, attached, refused, counter, cpu, printed, hits, allHits>>

EndSleep ==
    /\ pc = "sleep"
    /\ pc' = "detach" /\ step' = 1
    /\ UNCHANGED <<round, methods, attached, refused, counter, cpu, printed, hits, allHits>>

DetachBreakPoint_EntriesOnly ==
    /\ pc = "detach" /\ step <= 2 * n
    /\ attached' = IF BP(step).kind = "entry" THEN attached \ {BP(step)} ELSE attached
    /\ step' = step + 1
    /\ UNCHANGED <<pc, round, methods, refused, counter, cpu, printed, hits, allHits>>

\* The kernel waits for a BPF function that is running before an event is gone.
DetachBreakPoint ==
    /\ pc = "detach" /\ step <= 2 * n
    /\ \A c \in Cpus : cpu[c].bp # BP(step)
    /\ attached' = attached \ {BP(step)}
    /\ step' = step + 1
    /\ UNCHANGED <<pc, round, methods, refused, counter, cpu, printed, hits, allHits>>

\* PrintTopMethodCount and PrintTopMethodRetCount
PrintCounts ==
    /\ pc = "detach" /\ step > 2 * n
    /\ printed' = counter
    /\ pc' = "idle"
    /\ UNCHANGED <<round, methods, step, attached, refused, counter, cpu, hits, allHits>>

Finished == pc = "idle" /\ round = MaxRounds /\ UNCHANGED vars

Next ==
    \/ \E c \in Cpus : Store(c) \/ \E b \in BPs : Hit(c, b)
    \/ CountMethods \/ AttachBreakPoint \/ Sleep \/ EndSleep \/ DetachBreakPoint
    \/ PrintCounts \/ Finished

Spec == Init /\ [][Next]_vars

-----------------------------------------------------------------------------
\* Properties

Busy(b) == Cardinality({c \in Cpus : cpu[c].bp = b})

\* The type invariant; no breakpoint beyond the n methods is ever attached.
TypeOK ==
    /\ pc \in {"idle", "attach", "sleep", "detach"}
    /\ round \in 0..MaxRounds /\ step \in 1..(2 * n + 1)
    /\ methods = <<>> \/ methods \in [Counters -> Methods]
    /\ attached \subseteq BPs /\ refused \subseteq BPs
    /\ counter \in [BPs -> Nat] /\ printed \in [BPs -> Nat]
    /\ cpu \in [Cpus -> [bp : BPs \cup {Free}, val : Nat]]
    /\ hits \in [BPs -> Nat] /\ allHits \in [BPs -> Nat]

\* However the CPUs interleave, a counter never exceeds the hits of its own
\* breakpoint: increments are lost, never invented, and never land in another
\* counter.
CountsNeverOverstated == \A b \in BPs : counter[b] + Busy(b) <= allHits[b]

\* While CountMethods sleeps, the registers belong to the first methods of the
\* report, in this round as in those before: a breakpoint is missing only if the
\* kernel refused it, or it has no function, or the breakpoints of its own method
\* and of those before it hold all registers.
FirstMethodsCounted ==
    pc = "sleep" =>
        \A b \in BPs \ attached :
            \/ b \in refused \/ b.i > Functions
            \/ Cardinality({a \in attached : a.i <= b.i}) >= DebugRegs

\* Between two rounds the program runs untouched: every breakpoint of the round
\* is gone, no BPF function is running, and the registers are free for the next
\* round.
NothingLeftAttached == pc = "idle" => attached = {} /\ \A c \in Cpus : cpu[c] = NoBP

\* profiler.cpp:732 "counting n methods for MON_DURATION second": what a round
\* prints for a method was counted in that round.
CountsOfThisRound ==
    pc = "idle" /\ round > 0 => \A b \in BPs : printed[b] <= hits[b]

=============================================================================
