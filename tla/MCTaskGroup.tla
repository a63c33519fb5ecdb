----------------------------- MODULE MCTaskGroup -----------------------------
(* Instances of TaskGroup for TLC. *)
EXTENDS TaskGroup, TLC

CONSTANTS a1, a2, p1, p2, p3, r1, i1, i2

\* One agent with the flag; two tasks with the same region text, and one for the
\* agent whose ident it spells.
MCFlag == (a1 :> r1) @@ (a2 :> NoFlag)
MCIdent == (a1 :> i1) @@ (a2 :> i2)
MCTask == (p1 :> [region |-> r1, expr |-> "=~"])
       @@ (p2 :> [region |-> r1, expr |-> "!~"])
       @@ (p3 :> [region |-> i1, expr |-> "="])
=============================================================================
