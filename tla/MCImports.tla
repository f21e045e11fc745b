------------------------------ MODULE MCImports ------------------------------
(***************************************************************************)
(* The importing peer a (two addresses, docker, sets), an agent b, a peer  *)
(* c without an agent, a group of b and one of c; services with one port   *)
(* and with two, and the system services.                                  *)
(***************************************************************************)
EXTENDS Imports, TLC

PeerRow(ip, docker, ipset) == [ip |-> ip, docker |-> docker, ipset |-> ipset]
Svc(name, rank, kind, proto, ports, sys) ==
    [name |-> name, rank |-> rank, kind |-> kind, proto |-> proto, ports |-> ports, sys |-> sys,
     protos |-> {proto}, dst |-> ports # {}, src |-> FALSE, ct |-> TRUE, del |-> FALSE]
MCDB ==
    [peers |-> ("a" :> PeerRow("10.0.0.1", TRUE, TRUE)) @@ ("b" :> PeerRow("10.0.0.2", FALSE, FALSE))
               @@ ("c" :> PeerRow("10.0.0.3", FALSE, FALSE)),
     groups |-> ("g" :> [del |-> FALSE, rank |-> 1]) @@ ("web" :> [del |-> FALSE, rank |-> 2]),
     members |-> {<<"g", "b">>, <<"web", "c">>},
     services |-> [s \in {"ssh", "web2", "icmp", "igmp", "multicast", "limited_broadcast",
                          "subnet_broadcast"} |->
        CASE s = "ssh" -> Svc(s, 8, "ports", "tcp", {22}, FALSE)
          [] s = "web2" -> Svc(s, 9, "ports", "tcp", {80, 443}, FALSE)
          [] s = "icmp" -> Svc(s, 1, "ports", "icmp", {}, TRUE)
          [] s = "igmp" -> Svc(s, 2, "igmp", "igmp", {}, TRUE)
          [] s = "multicast" -> Svc(s, 3, "multicast", "udp", {}, TRUE)
          [] s = "subnet_broadcast" -> Svc(s, 4, "broadcast", "udp", {}, TRUE)
          [] OTHER -> Svc(s, 5, "broadcast", "udp", {}, TRUE)],
     policies |-> <<>>]

R == [chain |-> "INPUT", proto |-> "", src |-> NoIP, dst |-> NoIP, ports |-> {}, set |-> <<>>,
      iface |-> "", ct |-> {}, mod |-> "", pkt |-> "", target |-> "ACCEPT", rest |-> ""]
SSH == [R EXCEPT !.proto = "tcp", !.ports = {22}]
New == "10.0.0.9"
Sets == ("office" :> {"10.0.0.2", New}) @@ ("web" :> {"10.0.0.2"}) @@ ("all" :> {"10.0.0.2", "10.0.0.3", New})
        @@ ("runic_group_g" :> {"10.0.0.2"})
Pairs ==
    { << [SSH EXCEPT !.src = "10.0.0.2", !.ct = {"NEW"}], [SSH EXCEPT !.chain = "OUTPUT", !.dst = New] >>,
      << [SSH EXCEPT !.src = New, !.dst = "10.0.1.1"], [SSH EXCEPT !.set = <<"all", "src">>, !.target = "DROP"] >>,
      << [SSH EXCEPT !.chain = "DOCKER-USER", !.iface = "docker0", !.src = "10.0.0.3"],
         [R EXCEPT !.chain = "OUTPUT", !.proto = "icmp"] >>,
      << [SSH EXCEPT !.chain = "OUTPUT", !.set = <<"web", "dst">>], [SSH EXCEPT !.ports = {443}] >>,
      << [SSH EXCEPT !.set = <<"office", "src">>], [SSH EXCEPT !.chain = "OUTPUT", !.set = <<"office", "dst">>] >>,
      << [R EXCEPT !.proto = "igmp"], [R EXCEPT !.pkt = "multicast"] >>,
      << [R EXCEPT !.proto = "udp", !.dst = "limited"], [R EXCEPT !.proto = "udp", !.dst = "subnet", !.ports = {67}] >>,
      << [SSH EXCEPT !.ports = {25}], [SSH EXCEPT !.ports = {22, 25}] >>,
      << [R EXCEPT !.iface = "lo"], [R EXCEPT !.proto = "tcp"], [SSH EXCEPT !.mod = "limit"] >>,
      << [SSH EXCEPT !.set = <<"runic_group_g", "src">>], [SSH EXCEPT !.chain = "OUTPUT", !.dst = Multicast] >> }
AllBackups == {[rules |-> p, sets |-> Sets] : p \in Pairs}

\* Any backup, and a second one with other rules.
SecondBackups == {b \in AllBackups : \E i \in DOMAIN b.rules : b.rules[i].set = <<"runic_group_g", "src">>}
MCBackups == ("h1" :> AllBackups) @@ ("h2" :> SecondBackups)
NegatedBackups ==
    [h \in Submitters |-> {[rules |-> << [SSH EXCEPT !.src = New, !.rest = "not"] >>, sets |-> Sets]}]

\* The apply requests are interchangeable.
MCSymmetry == Permutations(Appliers)

=============================================================================
