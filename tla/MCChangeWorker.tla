--------------------------- MODULE MCChangeWorker ---------------------------
(* Constants of the ChangeWorker runs: the two calls with which the        *)
(* handler that removes a member from a group records one and the same     *)
(* change, for the peers of the group and for the peer that left it, with  *)
(* a queue that one item fills.                                            *)
EXTENDS ChangeWorker, TLC

CONSTANTS w1, w2, p1, p2, k1

MCKeyOf == [w \in Works |-> k1]
MCAffected == (w1 :> {p1, p2}) @@ (w2 :> {p1, p2})
=============================================================================
