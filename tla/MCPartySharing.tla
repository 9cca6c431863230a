--------------------------- MODULE MCPartySharing ---------------------------
(* A small instance of PartySharing for TLC.                                *)
EXTENDS PartySharing

Symmetry == Permutations(Players \ Exempt) \cup Permutations(Places)
=============================================================================
