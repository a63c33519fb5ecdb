----------------------------- MODULE MCAggQueue ------------------------------
(* Instances of AggQueue for TLC. *)
EXTENDS AggQueue, TLC

\* Handlers are interchangeable: sound for safety.
Symmetry == Permutations(Batches)
=============================================================================
