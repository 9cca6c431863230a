------------------------------- MODULE MCParty -------------------------------
(* A small instance of Party for TLC.                                       *)
EXTENDS Party

Symmetry == Permutations(Players) \cup Permutations(Parties)
=============================================================================
