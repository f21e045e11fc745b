---------------------------- MODULE MCAgentApply ----------------------------
(* Constants of the AgentApply runs.                                       *)
EXTENDS AgentApply, TLC

CONSTANTS c1, c2

(* Bundles without ipset lines.                                            *)
MCPlain == [v \in 0..MaxVersion |-> "plain"]

(* Bundle 1 has no ipset lines, the following ones define group sets.      *)
MCGroups == [v \in 0..MaxVersion |-> IF v < 2 THEN "plain" ELSE "groups"]

(* Only the last bundle defines group sets: what it replaces can be loaded *)
(* again whatever happens to the sets.                                     *)
MCLastGroups == [v \in 0..MaxVersion |-> IF v < MaxVersion THEN "plain" ELSE "groups"]

(* Bundle 1 has no ipset lines; then the peer reports ipset support, and   *)
(* no policy of it uses a group.                                           *)
MCPrivate == [v \in 0..MaxVersion |-> IF v < 2 THEN "plain" ELSE "private"]

(* The two connections are interchangeable.                                *)
MCSymmetry == Permutations({c1, c2})
=============================================================================
