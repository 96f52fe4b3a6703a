-------------------------- MODULE MCAdventureState --------------------------
(* Small instances of AdventureState for TLC. *)
EXTENDS AdventureState, TLC

CONSTANTS d1, d2

\* Sessions: playing, coming and going around the access right with saves of the
\* screen, and the same with reloads.
MCSessions == {{"get", "put", "buy", "drink", "chest", "use", "import", "claim"},
               {"put", "recover", "consume", "abandon"}, {"get", "recover", "consume"}}

\* The screens of a user are interchangeable.
Symmetry == Permutations(Devices)

============================================================================
