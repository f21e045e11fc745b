---------------------------- MODULE ChangeHandoff ----------------------------
(***************************************************************************)
(* What QueuePeerChange and QueueGroupChange promise an HTTP handler,      *)
(* without channels, locks or goroutines: a submitted item is either taken *)
(* over for background processing, in which case the answer nil is given   *)
(* before it runs, or it runs first and the answer is its outcome.  No     *)
(* item runs twice and no answer changes.                                  *)
(***************************************************************************)
CONSTANT Works
VARIABLES exec, reply

vars == <<exec, reply>>

Init ==
    /\ exec = [w \in Works |-> "none"]
    /\ reply = [w \in Works |-> "none"]

(* The item is taken over and the caller is told so.                       *)
Accept(w) ==
    /\ exec[w] = "none" /\ reply[w] = "none"
    /\ exec' = [exec EXCEPT ![w] = "queued"]
    /\ reply' = [reply EXCEPT ![w] = "nil"]

(* Processing begins, of a queued item or of one the caller runs itself.   *)
Run(w) ==
    /\ exec[w] \in {"none", "queued"}
    /\ exec' = [exec EXCEPT ![w] = "running"]
    /\ UNCHANGED reply

(* Processing ends; a caller that still waits gets the outcome.            *)
End(w) ==
    /\ exec[w] = "running"
    /\ exec' = [exec EXCEPT ![w] = "finished"]
    /\ IF reply[w] = "none"
         THEN \E r \in {"nil", "error"} : reply' = [reply EXCEPT ![w] = r]
         ELSE UNCHANGED reply

Next == \E w \in Works : Accept(w) \/ Run(w) \/ End(w)

Spec == Init /\ [][Next]_vars
=============================================================================
