----------------------------- MODULE MCCombatTurn -----------------------------
(* Small instances of CombatTurn. *)
EXTENDS CombatTurn

CONSTANTS d1, d2, e1, e2

MCDevices == {d1, d2}
MCDevice  == {d1}
MCEnemies == {e1, e2}
MCFacts   == {"answer", "skill", "skillAnswer", "end", "endAnswer", "gambit", "fall"}

=============================================================================
