-------------------------- MODULE MCAllocSampling --------------------------
EXTENDS AllocSampling

\* A row of another class and one of the watched class.
MCRows    == {1, 2}
MCWatched == {2}

\* With ints of 6 bits: a size that gets the key of a smaller one, 24, and a size
\* with a negative key.
MCMaxInt == 31
MCSizes  == {88, 40}

TwoThreads == {"t1", "t2"}
=============================================================================
