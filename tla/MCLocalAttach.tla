--------------------------- MODULE MCLocalAttach ---------------------------
EXTENDS LocalAttach, TLC

\* Objects and channels differ only in their names.
Names == Permutations(Obj) \cup Permutations(Chan)
=============================================================================
