------------------------------- MODULE MCMarket -------------------------------
(* A small instance of Market for TLC: alice can pay for an offer to buy two    *)
(* items, and bob has one of them.  Then alice can offer to sell it again while *)
(* the rest of the first offer is still open, and bob can buy it.              *)
EXTENDS Market

CONSTANTS alice, bob

TwoPlayers == {alice, bob}

AliceHasMoney ==
  [p \in TwoPlayers |-> IF p = alice THEN [money |-> 60, goods |-> 0]
                        ELSE [money |-> 0, goods |-> 1]]
=============================================================================
