----------------------------- MODULE MCScheduler -----------------------------
(* Small instances of Scheduler for TLC.                                    *)
EXTENDS Scheduler, TLC

MCDelays == {0, 2}

Symmetry == Permutations(Clients) \cup Permutations(Events)
=============================================================================
