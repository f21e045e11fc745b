-------------------------- MODULE MCPendingChanges --------------------------
(* Constants of the PendingChanges runs.                                   *)
EXTENDS PendingChanges, TLC

CONSTANTS p1, p2, q1, q2, h1

(* Two interchangeable peers.                                              *)
MCSymmetry == Permutations({p1, p2})

MCScopes == {{p1}, {p2}, {p1, p2}}
=============================================================================
