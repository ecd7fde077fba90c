------------------------------- MODULE MCRows -------------------------------
EXTENDS Rows, TLC

\* Workspaces, requests to close, stop or remove, and conversations of one
\* kind differ only in their names.
Names == Permutations(Ws) \cup Permutations(Call) \cup Permutations(Pinned)
=============================================================================
