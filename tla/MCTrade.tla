------------------------------- MODULE MCTrade -------------------------------
(* A small instance of Trade for TLC: two players on a row of tiles, with a  *)
(* slot for backpacks and a hand.                                           *)
EXTENDS Trade, TLC

CONSTANTS a, b, bag, coins, more

(* Next to each other, within two tiles, and out of reach of each other.     *)
MCTiles == {0, 1, 3}
MCSlots == {1, 2}
MCFits == [i \in {bag, coins, more} |-> IF i = bag THEN {1, 2} ELSE {2}]
MCStartTile == bag :> 0 @@ coins :> 0 @@ more :> 1
MCStartCount == coins :> 1 @@ more :> 1
(* Which of the objects of a stack is used makes no difference.             *)
Symmetry == Permutations(Stacks)
MCStartAt == a :> 0 @@ b :> 1
=============================================================================
