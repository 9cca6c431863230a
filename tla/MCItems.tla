------------------------------- MODULE MCItems -------------------------------
(* An instance of Trade for TLC with one player, who has nobody to trade     *)
(* with, and containers that can be put into each other.                    *)
EXTENDS Trade, TLC

CONSTANTS carrier, bag, box, coins, more, spare, sword

MCTiles == {0, 1}
MCSlots == {1, 2}
MCFits == [i \in {bag, box, coins, more, spare, sword} |->
            IF i \in {bag, box} THEN {1, 2} ELSE {2}]
MCStartTile == [i \in {bag, box, coins, more, spare, sword} |-> 0]
MCStartCount == coins :> 2 @@ more :> 1 @@ spare :> 0
(* Which of the objects of a stack, and which container, makes no difference.*)
Symmetry == Permutations(Stacks) \cup Permutations(Bags)
MCStartAt == carrier :> 0
=============================================================================
