------------------------------ MODULE MCCatalog ------------------------------
(***************************************************************************)
(* Three peers (one with group sets, one with docker, one without an agent *)
(* whose address changes), a group that may gain, lose and change members, *)
(* a service of which there are two versions, and policies of each shape.  *)
(***************************************************************************)
EXTENDS Catalog

PRow(ip, docker, ipset) == [ip |-> ip, docker |-> docker, ipset |-> ipset]
MCPeerRows ==
    ("a" :> {PRow("10.0.0.1", FALSE, TRUE)})
    @@ ("b" :> {PRow("10.0.0.2", TRUE, FALSE)})
    @@ ("c" :> {PRow("10.0.0.3", FALSE, FALSE), PRow("10.0.0.4", FALSE, FALSE)})
MCFirstPeers ==
    ("a" :> PRow("10.0.0.1", FALSE, TRUE)) @@ ("b" :> PRow("10.0.0.2", TRUE, FALSE))

SvcRow(dst, src, protos) ==
    [kind |-> "ports", protos |-> protos, dst |-> dst, src |-> src, ct |-> TRUE, del |-> FALSE]
MCServiceRows ==
    ("s" :> {SvcRow(TRUE, FALSE, {"tcp"}), SvcRow(TRUE, TRUE, {"tcp", "udp"})})
    @@ ("t" :> {SvcRow(TRUE, FALSE, {"tcp"})})
    @@ ("ping" :> {SvcRow(FALSE, FALSE, {"icmp"})})
    @@ [k \in {"igmp", "vrrp", "multicast", "broadcast"} |->
            {[SvcRow(k = "broadcast", FALSE, {"udp"}) EXCEPT !.kind = k]}]

MCFirstServices ==
    [s \in DOMAIN MCServiceRows \ {"t"} |->
        CHOOSE row \in MCServiceRows[s] : s = "s" => row.src]
MCFirstMembers == {<<"g", "a">>}

P(id) == [type |-> "peer", id |-> id, ip |-> NoIP]
G(id) == [type |-> "group", id |-> id, ip |-> NoIP]
S(id) == [type |-> "special", id |-> id, ip |-> NoIP]
Policy(src, tgt, svc, act, scope, dir, prio) ==
    [src |-> src, tgt |-> tgt, svc |-> svc, act |-> act, scope |-> scope, dir |-> dir,
     on |-> TRUE, prio |-> prio, del |-> FALSE]
MCPolicyRows ==
    { Policy(G("g"), P("b"), "s", "ACCEPT", "host", "both", 2),
      Policy(S("any_ip"), P("b"), "s", "LOG_DROP", "both", "backward", 1) }
MCFirstPolicies ==
    MCPolicyRows \cup
    { Policy(P("a"), G("g"), "s", "ACCEPT", "both", "forward", 2),
      Policy(G("g"), S("all_peers"), "s", "ACCEPT", "both", "both", 2),
      Policy(P("b"), G("g"), "s", "ACCEPT", "host", "both", 3),
      Policy(G("g"), S("internet"), "s", "ACCEPT", "both", "both", 2),
      Policy(P("b"), S("mdns"), "s", "ACCEPT", "host", "both", 2),
      Policy(G("g"), P("b"), "ping", "ACCEPT", "host", "both", 2),
      Policy(P("b"), S("mdns"), "multicast", "ACCEPT", "host", "both", 2),
      Policy(S("all_hosts"), P("b"), "multicast", "ACCEPT", "both", "backward", 2),
      Policy(S("subnet_broadcast"), P("b"), "broadcast", "ACCEPT", "both", "backward", 2),
      Policy(P("b"), S("igmpv3"), "igmp", "ACCEPT", "both", "both", 2),
      Policy(G("g"), P("b"), "vrrp", "ACCEPT", "host", "both", 2) }

\* Few rows, for longer sequences: a policy between a group and a peer.
MCFewPeerRows == [p \in {"a", "b"} |-> MCPeerRows[p]]
MCFewServiceRows == [s \in {"s"} |-> MCServiceRows[s]]
MCFewServices == [s \in {"s"} |-> MCFirstServices[s]]
MCFewPolicies == {Policy(G("g"), P("b"), "s", "ACCEPT", "host", "both", 2)}

\* These rows are plain: where Usable fails, something is missing.
ASSUME RowsArePlain == PlainRows

=============================================================================
