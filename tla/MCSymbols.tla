----------------------------- MODULE MCSymbols -----------------------------
EXTENDS Symbols, TLC

\* Addresses and methods are interchangeable, and only initial states and
\* safety are explored.
Symmetric == Permutations(Addrs) \cup Permutations(Methods)
=============================================================================
