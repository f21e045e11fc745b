----------------------------- MODULE MCIdentity -----------------------------
(* One host with a registration token, and two requests at the server: the *)
(* agent's, and one that an earlier run of the agent left behind.          *)
EXTENDS Identity

MCJWTs == {"t1", "t2", "t3", "t4", "t5", "t6"}
=============================================================================
