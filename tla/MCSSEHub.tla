------------------------------ MODULE MCSSEHub ------------------------------
(* Constants of the SSEHub runs: one host that connects twice, two timed   *)
(* notifications and one non-blocking one.                                 *)
EXTENDS SSEHub, TLC

CONSTANTS h1, c1, c2, s1, s2, s3

MCHostOf == [c \in Conns |-> h1]
MCSendsTo == [s \in Senders |-> h1]
=============================================================================
