------------------------- MODULE MCQuizPreparation -------------------------
(* Small instances of QuizPreparation: every dungeon is of one user. *)
EXTENDS QuizPreparation

CONSTANTS u1, d1, j1, j2

MCUsers == {u1}
MCDungeons == {d1}
MCOwner == [d \in MCDungeons |-> u1]
============================================================================
