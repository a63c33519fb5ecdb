---------------------------- MODULE MCHealthGauge ----------------------------
(* Instances of HealthGauge for TLC. *)
EXTENDS HealthGauge, TLC

Symmetry == Permutations(Regions) \cup Permutations(IPs) \cup Permutations(Versions)
=============================================================================
