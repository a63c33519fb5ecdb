----------------------------- MODULE MCUpgrade ------------------------------
(* A forced order, a newer one that is not forced, and a body that only stops *)
(* forcing the order before: an old order, not forced.                        *)
EXTENDS Upgrade

Whole(v, f) == [version |-> v, md5Check |-> v, downloadURL |-> v, force |-> f]
MCOrders == {Whole(1, TRUE), Whole(2, FALSE), [force |-> FALSE]}
=============================================================================
