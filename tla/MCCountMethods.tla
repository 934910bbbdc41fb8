--------------------------- MODULE MCCountMethods ---------------------------
EXTENDS CountMethods, TLC

\* The methods are interchangeable, and so are the CPUs.
MethodCpuSymmetry == Permutations(Methods) \cup Permutations(Cpus)
=============================================================================
