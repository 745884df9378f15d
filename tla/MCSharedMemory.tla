--------------------------- MODULE MCSharedMemory ---------------------------
EXTENDS SharedMemory, TLC

\* Three objects, two names, and a segment for each of them and each name.
Symmetry == Permutations(Objects) \cup Permutations(Names) \cup Permutations(Segments)
=============================================================================
