--------------------------- MODULE TailorBatchMC ---------------------------
(* Two tabs that ask for the same job.                                     *)
EXTENDS TailorBatch, TLC

Tabs == Permutations(Requests)
=============================================================================
