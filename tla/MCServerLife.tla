----------------------------- MODULE MCServerLife -----------------------------
(* Instances of ServerLife for TLC. *)
EXTENDS ServerLife

CONSTANTS r1, a1

E(r, t, T) == [region |-> r, ptype |-> t, targets |-> T]

\* Nothing; a region listed twice for each type, where the later entry wins.
MCConfigs == {
    <<>>,
    <<E(r1, "icmp", {}), E(r1, "http", {a1}), E(r1, "icmp", {a1}), E(r1, "http", {})>> }
=============================================================================
