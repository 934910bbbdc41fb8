-------------------------------- MODULE Freq --------------------------------
(***************************************************************************)
(* The CPU frequency utility (freq/freq.c): it goes through the NUMA nodes *)
(* and shows the frequency of the CPUs of each.  It asks how many CPUs it  *)
(* may run on, not which, and what the largest node is, and takes every    *)
(* node to have an equal share of them: the array of a node's CPUs has     *)
(* that length, is filled without looking at it, and is shown whole.  What *)
(* happens after an element behind the array was assigned is undefined.    *)
(***************************************************************************)
EXTENDS Integers, FiniteSets, Sequences

CONSTANTS
    NumCpus,    \* the CPUs of the machine
    MaxNodes    \* bound: the nodes of the machine

ASSUME FreqBounds == NumCpus \in Nat \ {0} /\ MaxNodes \in Nat \ {0}

VARIABLES
    nodes,      \* the machine: the CPUs of each node, from 0 to the largest
    allowed,    \* the CPUs the process may run on
    n_cpus,     \* numa_num_task_cpus: how many these are
    at,         \* "node", "cpu", "end", "undefined": where main is in its loops
    node,       \* the node it has come to
    cpus, i,    \* the array of the node's CPUs, and the element to show next
    shown       \* what was printed: nodes and CPUs

freqVars == <<nodes, allowed, n_cpus, at, node, cpus, i, shown>>

Cpus == 0..(NumCpus - 1)

\* Nodes may have no CPUs, only memory; the process may have less than all CPUs,
\* and any of them.
FreqInit ==
    /\ \E n \in 1..MaxNodes : \E home \in [Cpus -> 0..(n - 1)] :
          nodes = [k \in 0..(n - 1) |-> {c \in Cpus : home[c] = k}]
    /\ allowed \in SUBSET Cpus \ {{}}
    /\ n_cpus = Cardinality(allowed)
    /\ at = "node" /\ node = 0 /\ cpus = <<>> /\ i = 0
    /\ shown = <<>>

n_numas == Cardinality(DOMAIN nodes) - 1

len == n_cpus \div (n_numas + 1)

\* numa_node_to_cpus: the bitmask has n_cpus bits, and what is behind is cut off.
numa_node_to_cpus(n) == {c \in nodes[n] : c < n_cpus}

\* The CPU at position j of a bitmask.
Nth(bm, j) == CHOOSE c \in bm : Cardinality({d \in bm : d < c}) = j

Filled(bm, rest) ==
    [j \in 0..(len - 1) |-> IF j < Cardinality(bm) THEN Nth(bm, j)
                            ELSE IF rest = <<>> THEN 0 ELSE rest[j]]

get_node_cpus_NoMemset(bm) == Filled(bm, cpus)

\* memset leaves CPU 0 where the node has no more.
get_node_cpus(bm) == Filled(bm, <<>>)

\* The loop over the nodes.
Node ==
    /\ at = "node" /\ node <= n_numas
    /\ LET bm == numa_node_to_cpus(node) IN
          /\ cpus' = get_node_cpus(bm)
          /\ at' = IF Cardinality(bm) > len THEN "undefined" ELSE "cpu"
    /\ i' = 0
    /\ UNCHANGED <<nodes, allowed, n_cpus, node, shown>>

\* The loop over its array.
Cpu ==
    /\ at = "cpu" /\ i < len
    /\ shown' = Append(shown, <<node, cpus[i]>>)
    /\ i' = i + 1
    /\ UNCHANGED <<nodes, allowed, n_cpus, at, node, cpus>>

EndCpus ==
    /\ at = "cpu" /\ i = len
    /\ at' = "node" /\ node' = node + 1
    /\ UNCHANGED <<nodes, allowed, n_cpus, cpus, i, shown>>

EndNodes_OneLess ==
    /\ at = "node" /\ node >= n_numas
    /\ at' = "end"
    /\ UNCHANGED <<nodes, allowed, n_cpus, node, cpus, i, shown>>

EndNodes ==
    /\ at = "node" /\ node > n_numas
    /\ at' = "end"
    /\ UNCHANGED <<nodes, allowed, n_cpus, node, cpus, i, shown>>

Stopped == at \in {"end", "undefined"} /\ UNCHANGED freqVars

FreqNext == Node \/ Cpu \/ EndCpus \/ EndNodes \/ Stopped

FreqSpec == FreqInit /\ [][FreqNext]_freqVars

-----------------------------------------------------------------------------
\* Properties

\* Every node has the share of the first n_cpus CPUs that main takes it to have.
EqualShares == \A n \in DOMAIN nodes : Cardinality(numa_node_to_cpus(n)) = len

\* main overruns an array on the machines without equal shares (those with a node
\* of memory only, say), and on no others.  On the others it shows each of the
\* first n_cpus CPUs once, under its node: these are the CPUs of the process only
\* if it may run on the first ones.
FirstCpusOrOverrun ==
    /\ at = "undefined" => ~ EqualShares
    /\ at = "end" =>
          /\ EqualShares
          /\ Len(shown) = n_cpus
          /\ \A c \in 0..(n_cpus - 1) : \E k \in 1..Len(shown) :
                shown[k][2] = c /\ c \in nodes[shown[k][1]]
          /\ {shown[k][2] : k \in 1..Len(shown)} = allowed <=> allowed = 0..(n_cpus - 1)

\* At no time a CPU was shown under a node that it does not belong to, other than
\* CPU 0, which stands for the CPUs that a node lacks.
ShownOnItsNode ==
    \A k \in 1..Len(shown) : shown[k][2] \in nodes[shown[k][1]] \cup {0}
=============================================================================
