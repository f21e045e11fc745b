------------------------------ MODULE MCAlerts ------------------------------
(* An instance of the alert system for TLC. *)
EXTENDS Alerts, TLC

MCThreshold == [t \in Types |-> IF t = "blocked_spike" THEN 10 ELSE 0]

\* The seeded rules about an agent's silence.
MCPeerRules == {"peer_offline" :> AnyPeer @@ "peer_online" :> AnyPeer}

\* The other types of rules, one at a time; those the scheduler evaluates by
\* counting are for one agent.
MCOtherRules ==
    {t :> AnyPeer : t \in {"bundle_deployed", "new_peer", "bundle_notified"}}
    \cup {t :> p : t \in {"bundle_failed", "blocked_spike"}, p \in Agents}

MCAllRules == MCPeerRules \cup MCOtherRules

\* The rule of the alerts that registrations trigger.
MCDirectRules == {"new_peer" :> AnyPeer}

\* CheckBlockedSpike's truncated percentage against the comparison it stands
\* for: the increase is at least threshold percent of the previous count.
ASSUME SpikeIsAnIncrease ==
    \A recent \in 0..25, previous \in 1..12, threshold \in 1..120 :
        IsSpike(recent, previous, threshold)
            <=> recent * 100 >= previous * (100 + threshold)
=============================================================================
