------------------------------ MODULE Latency ------------------------------
(***************************************************************************)
(* Method latency: LatencyMethod puts one hardware breakpoint on the entry *)
(* of a method and one on the address a sampled call of it returns to,     *)
(* sleeps, removes both, and prints the histogram the two BPF functions    *)
(* have filled in the meantime.  PrintTopMethods calls it for one method   *)
(* after the other (lat_top, lat_name).                                    *)
(*                                                                         *)
(* func_entry0 keeps one entry time per thread in "start"; func_return0    *)
(* takes it out and counts the difference in a power-of-two slot of "dist".*)
(* "start" is never cleared between methods.  Threads run independently of *)
(* the profiler and are modelled by their call stacks; a call is seen by   *)
(* the return breakpoint only when it was made from the caller that the    *)
(* breakpoint belongs to.  A breakpoint is attached and detached CPU after *)
(* CPU: in between it traps a thread or not, as the thread happens to run. *)
(***************************************************************************)
EXTENDS Naturals, Integers, Sequences, FiniteSets

CONSTANTS
    Threads,    \* the threads of the profiled JVM
    Methods,    \* the methods they call
    Root,       \* the caller of the outermost frame
    Targets,    \* the methods measured, in order: [m |-> method, from |-> caller]
    Slots,      \* the capacity of the hash table "start"
    MaxTime,    \* bound: the clock
    MaxEntries, \* bound: the calls trapped by the entry breakpoints
    MaxDepth    \* bound: the frames of a stack

ASSUME ThreadsAssumption == IsFiniteSet(Threads)
ASSUME TargetsAssumption == Targets \in Seq([m : Methods, from : Methods \cup {Root}])
ASSUME LatencyBounds == Slots \in Nat /\ MaxTime \in Nat /\ MaxEntries \in Nat
                         /\ MaxDepth \in Nat

VARIABLES
    now,        \* bpf_ktime_get_ns
    stack,      \* the frames of every thread, innermost last
    start,      \* the hash table: the entry time kept for a thread
    dist,       \* the histogram
    pc,         \* where LatencyMethod is
    target,     \* the number of the target measured, or to be measured next
    entryBP,    \* the entry breakpoint of the target is armed: "on" all CPUs,
    returnBP,   \*   "partly", "off"; and the return breakpoint of the target
    maxLat,     \* what LatencyMethod returned, by target
    entries,    \* history: the calls of func_entry0
    records,    \* history: the increments of dist, in all windows
    longest,    \* history: the longest time recorded in this window
    inexact     \* history: the records that differ from what the call took
                \*   (from its entry to its return)

stackVars == <<stack, now>>
tableVars == <<start, dist, entries, records, longest, inexact>>
vars == <<now, stack, start, dist, pc, target, entryBP, returnBP, maxLat,
          entries, records, longest, inexact>>

NoTime   == -1
Keys     == 0..(MaxTime + 1)

Exp2[k \in Nat] == IF k = 0 THEN 1 ELSE 2 * Exp2[k - 1]

\* bpf_log2l: one more than the integer part of the logarithm, or than 0.
Log2(v) == IF v = 0 THEN 0 ELSE CHOOSE k \in 0..v : Exp2[k] <= v /\ v < Exp2[k + 1]
bpf_log2l(v) == Log2(v) + 1

SlotsUsed == {t \in Threads : start[t] # NoTime}

Init ==
    /\ now = 0
    /\ stack = [t \in Threads |-> <<>>]
    /\ start = [t \in Threads |-> NoTime]
    /\ dist = [k \in Keys |-> 0]
    /\ pc = "idle" /\ target = 1
    /\ entryBP = "off" /\ returnBP = "off"
    /\ maxLat = [i \in 1..Len(Targets) |-> NoTime]
    /\ entries = 0 /\ records = 0 /\ longest = NoTime /\ inexact = {}

-----------------------------------------------------------------------------
\* The threads of the JVM, and the BPF functions their breakpoints run

Tick ==
    /\ now < MaxTime
    /\ now' = now + 1
    /\ UNCHANGED <<stack, tableVars, pc, target, entryBP, returnBP, maxLat>>

func_entry0_KeepsFirst(t) ==
    /\ start' = IF start[t] = NoTime /\ Cardinality(SlotsUsed) < Slots
                THEN [start EXCEPT ![t] = now] ELSE start
    /\ entries' = entries + 1
    /\ UNCHANGED <<dist, records, longest, inexact>>

\* start.update: overwrites the time of an outer call; a new thread is dropped
\* when the table is full.
func_entry0(t) ==
    /\ start' = IF start[t] # NoTime \/ Cardinality(SlotsUsed) < Slots
                THEN [start EXCEPT ![t] = now] ELSE start
    /\ entries' = entries + 1
    /\ UNCHANGED <<dist, records, longest, inexact>>

Inexact(delta, frame) ==
    IF delta = now - frame.at THEN {}
    ELSE {[delta |-> delta, took |-> now - frame.at, trapped |-> frame.trapped,
           shadowed |-> frame.shadowed]}

func_return0_NoDelete(t, frame) ==
    IF start[t] = NoTime
    THEN UNCHANGED tableVars
    ELSE LET delta == now - start[t] IN
         /\ dist' = [dist EXCEPT ![bpf_log2l(delta)] = @ + 1]
         /\ records' = records + 1
         /\ longest' = IF delta > longest THEN delta ELSE longest
         /\ inexact' = inexact \cup Inexact(delta, frame)
         /\ UNCHANGED <<start, entries>>

\* Does nothing for a thread without an entry time.
func_return0(t, frame) ==
    IF start[t] = NoTime
    THEN UNCHANGED tableVars
    ELSE LET delta == now - start[t] IN
         /\ start' = [start EXCEPT ![t] = NoTime]
         /\ dist' = [dist EXCEPT ![bpf_log2l(delta)] = @ + 1]
         /\ records' = records + 1
         /\ longest' = IF delta > longest THEN delta ELSE longest
         /\ inexact' = inexact \cup Inexact(delta, frame)
         /\ UNCHANGED entries

Caller(t) == IF stack[t] = <<>> THEN Root ELSE stack[t][Len(stack[t])].m

\* Whether a breakpoint that a thread comes to traps it.
Hits(bp) == IF bp = "on" THEN {TRUE} ELSE BOOLEAN

\* The frames below a call that was trapped on entry are marked.
Shadowed(s) == [i \in DOMAIN s |-> [s[i] EXCEPT !.shadowed = TRUE]]

Call(t, m) ==
    /\ Len(stack[t]) < MaxDepth
    /\ \E hit \in IF entryBP # "off" /\ m = Targets[target].m THEN Hits(entryBP) ELSE {FALSE} :
          /\ stack' = [stack EXCEPT ![t] = Append(IF hit THEN Shadowed(@) ELSE @,
                          [m |-> m, from |-> Caller(t), at |-> now,
                           trapped |-> hit, shadowed |-> FALSE])]
          /\ IF hit THEN entries < MaxEntries /\ func_entry0(t) ELSE UNCHANGED tableVars
    /\ UNCHANGED <<now, pc, target, entryBP, returnBP, maxLat>>

\* The frame returns to the address of the return breakpoint.
ReturnsToTarget(frame) ==
    frame.m = Targets[target].m /\ frame.from = Targets[target].from

Return(t) ==
    /\ stack[t] # <<>>
    /\ LET frame == stack[t][Len(stack[t])] IN
       /\ stack' = [stack EXCEPT ![t] = SubSeq(@, 1, Len(@) - 1)]
       /\ \E hit \in IF returnBP # "off" /\ ReturnsToTarget(frame) THEN Hits(returnBP)
                      ELSE {FALSE} :
             IF hit THEN func_return0(t, frame) ELSE UNCHANGED tableVars
    /\ UNCHANGED <<now, pc, target, entryBP, returnBP, maxLat>>

-----------------------------------------------------------------------------
\* LatencyMethod

\* AttachBreakPoint, for all threads and CPUs (pid = cpu = -1): BCC opens an event
\* on one CPU after the other, and closes them again when one of them is refused.
\* The error is printed and otherwise ignored.
AttachEntry ==
    /\ pc = "idle" /\ target <= Len(Targets)
    /\ entryBP' = "partly"
    /\ pc' = "entry"
    /\ UNCHANGED <<stackVars, tableVars, target, returnBP, maxLat>>

AttachReturn ==
    /\ pc = "entry"
    /\ entryBP' \in {"on", "off"}
    /\ returnBP' = "partly"
    /\ pc' = "return"
    /\ UNCHANGED <<stackVars, tableVars, target, maxLat>>

\* sleep(MON_DURATION)
Monitor ==
    /\ pc = "return"
    /\ returnBP' \in {"on", "off"}
    /\ pc' = "measuring"
    /\ UNCHANGED <<stackVars, tableVars, target, entryBP, maxLat>>

\* A breakpoint that is attached is closed on one CPU after the other.
Closing(bp) == IF bp = "on" THEN "partly" ELSE bp

\* DetachBreakPoint
DetachEntry ==
    /\ pc = "measuring"
    /\ entryBP' = Closing(entryBP)
    /\ pc' = "unentry"
    /\ UNCHANGED <<stackVars, tableVars, target, returnBP, maxLat>>

DetachReturn ==
    /\ pc = "unentry"
    /\ entryBP' = "off"
    /\ returnBP' = Closing(returnBP)
    /\ pc' = "unreturn"
    /\ UNCHANGED <<stackVars, tableVars, target, maxLat>>

Detached ==
    /\ pc = "unreturn"
    /\ returnBP' = "off"
    /\ pc' = "printing"
    /\ UNCHANGED <<stackVars, tableVars, target, entryBP, maxLat>>

\* A slot is printed by its upper end, Exp2 of the key.
KeysUsed == {k \in Keys : dist[k] > 0}

Largest(S) == CHOOSE k \in S : \A j \in S : j <= k

PrintLatency_KeepsDist ==
    /\ pc = "printing"
    /\ maxLat' = [maxLat EXCEPT ![target] =
                    IF KeysUsed = {} THEN 0 ELSE Exp2[Largest(KeysUsed)]]
    /\ longest' = NoTime
    /\ target' = target + 1
    /\ pc' = "idle"
    /\ UNCHANGED <<stackVars, dist, start, entries, records, inexact, entryBP, returnBP>>

\* The slots are printed in order and the last bound is returned; then dist is
\* cleared, and start is not.
PrintLatency ==
    /\ pc = "printing"
    /\ maxLat' = [maxLat EXCEPT ![target] =
                    IF KeysUsed = {} THEN 0 ELSE Exp2[Largest(KeysUsed)]]
    /\ dist' = [k \in Keys |-> 0]
    /\ longest' = NoTime
    /\ target' = target + 1
    /\ pc' = "idle"
    /\ UNCHANGED <<stackVars, start, entries, records, inexact, entryBP, returnBP>>

Finished == pc = "idle" /\ target > Len(Targets) /\ UNCHANGED vars

Next ==
    \/ Tick
    \/ \E t \in Threads : Return(t) \/ \E m \in Methods : Call(t, m)
    \/ AttachEntry \/ AttachReturn \/ Monitor
    \/ DetachEntry \/ DetachReturn \/ Detached
    \/ PrintLatency
    \/ Finished

Spec == Init /\ [][Next]_vars

-----------------------------------------------------------------------------
\* Properties

Frames == [m : Methods, from : Methods \cup {Root}, at : Nat,
           trapped : BOOLEAN, shadowed : BOOLEAN]
Armed  == {"off", "partly", "on"}

\* A method is measured only while there is one to measure.
TypeOK ==
    /\ now \in Nat
    /\ stack \in [Threads -> Seq(Frames)]
    /\ start \in [Threads -> Nat \cup {NoTime}]
    /\ dist \in [Keys -> Nat]
    /\ pc \in {"idle", "entry", "return", "measuring", "unentry", "unreturn", "printing"}
    /\ target \in 1..(Len(Targets) + IF pc = "idle" THEN 1 ELSE 0)
    /\ entryBP \in Armed /\ returnBP \in Armed
    /\ DOMAIN maxLat = 1..Len(Targets)
    /\ entries \in Nat /\ records \in Nat /\ longest \in Nat \cup {NoTime}
    /\ inexact \subseteq [delta : Nat, took : Nat, trapped : BOOLEAN, shadowed : BOOLEAN]

\* Every time recorded goes back to a call that was trapped on entry, and no
\* trapped call is recorded twice.
EachEntryRecordedOnce == records + Cardinality(SlotsUsed) <= entries

\* What is recorded for a call whose own entry was trapped is what the call took;
\* less only if a call made inside it was trapped as well, and never more.  So the
\* times that are too long are those of calls that entered while the breakpoint was
\* not armed on their CPU: they are counted from an older entry of their thread,
\* of this window or, as start is never cleared, of one before it.
TrappedCallsNotOverstated ==
    \A r \in inexact : r.trapped => r.shadowed /\ r.delta < r.took

\* The value returned to the tuning rules bounds every latency recorded in this
\* window from above, and is at most twice the longest: records of the windows
\* before it never count.
MaxLatBoundsWindow ==
    pc = "printing" =>
        IF longest = NoTime THEN KeysUsed = {}
        ELSE /\ KeysUsed # {}
             /\ longest < Exp2[Largest(KeysUsed)]
             /\ longest > 0 => Exp2[Largest(KeysUsed)] <= 2 * longest
=============================================================================
