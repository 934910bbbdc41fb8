----------------------------- MODULE MCLatency -----------------------------
(***************************************************************************)
(* Instances of Latency for TLC: two methods, measured one after the       *)
(* other; the first is called from the root, the second from the first.    *)
(***************************************************************************)
EXTENDS Latency

A == "A"
B == "B"
MCMethods   == {A, B}
RootThenCallee == <<[m |-> A, from |-> "root"], [m |-> B, from |-> A]>>
TwoThreads  == {"t1", "t2"}
=============================================================================
