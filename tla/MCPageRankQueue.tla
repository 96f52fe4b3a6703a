-------------------------- MODULE MCPageRankQueue --------------------------
(* Small instances of PageRankQueue for TLC. *)
EXTENDS PageRankQueue, TLC

CONSTANTS j1, j2, o1, o2, o3, o4, p1, p2, a1, a2, r1, r2

\* Owner tokens, processes and resources are interchangeable.
Symmetry == Permutations(Owners) \cup Permutations(Processes) \cup Permutations(Jobs)
              \cup Permutations(Admins)

============================================================================
