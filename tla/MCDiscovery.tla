----------------------------- MODULE MCDiscovery -----------------------------
(* Instances of Discovery for TLC. *)
EXTENDS Discovery

CONSTANTS r1, a1

\* No entry, and a region with configured entries of both types.
MCConfigs == {
    <<>>,
    <<[region |-> r1, ptype |-> "icmp", targets |-> {}],
      [region |-> r1, ptype |-> "http", targets |-> {a1}]>> }
=============================================================================
