------------------------------- MODULE MCPush -------------------------------
(* A push to all, which is followed, beside a push to one agent; or an     *)
(* update of all agents.                                                   *)
EXTENDS Push, TLC

CONSTANTS j1, j2, u, a, b

MCPushJobs == {j1, j2}
MCAgents == {a, b}
MCRequests == {j1 :> {a, b} @@ j2 :> {b}, u :> {a, b}}
MCWatched == {j1}
=============================================================================
