---------------------------- MODULE BattleLedger ----------------------------
(* What a battle promises, whatever requests are lost, repeated or raced: its
   turns are settled one after the other, each of them at most once, and the
   receipt that answers repeated requests is the one of the last settled turn,
   with the enemies answered in it.                                         *)
EXTENDS Naturals

CONSTANTS Enemies, None

VARIABLES turn,      \* <<battle, turn>> at hand, or None between battles
          begun,     \* number of battles begun
          receipt    \* [id |-> <<battle, turn>>, results |-> enemies] or None

ledgerVars == <<turn, begun, receipt>>

Init == turn = None /\ begun = 0 /\ receipt = None

\* A battle begins at its turn 0, under an id no receipt has.
Begin == /\ turn = None
         /\ begun' = begun + 1
         /\ turn' = <<begun', 0>>
         /\ UNCHANGED receipt

Following == {<<turn[1], turn[2] + 1>>, None}

\* The turn at hand is settled: its receipt replaces the one before, and the
\* battle goes on with the next turn or is over.
Settle == /\ turn # None
          /\ \E A \in SUBSET Enemies : receipt' = [id |-> turn, results |-> A]
          /\ turn' \in Following
          /\ UNCHANGED begun

\* A skill counts as a turn, and a battle may be left, with no such receipt.
Pass == turn # None /\ turn' \in Following /\ UNCHANGED <<begun, receipt>>

Next == Begin \/ Settle \/ Pass

Spec == Init /\ [][Next]_ledgerVars
=============================================================================
