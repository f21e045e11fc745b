------------------------------ MODULE Compiler ------------------------------
(***************************************************************************)
(* The policy compiler of internal/engine: which policies concern a peer,  *)
(* what rules they become, and which peers a policy or a group touches.    *)
(* Everything here is a function of a database d, a record of tables:      *)
(*                                                                         *)
(*   d.peers     peer id    -> [ip, docker, ipset]                         *)
(*   d.groups    group id   -> [del]                                       *)
(*   d.members   set of <<group id, peer id>>                              *)
(*   d.services  service id -> [kind, protos, dst, src, ct, del]           *)
(*   d.policies  policy id  -> [src, tgt, svc, act, scope, dir, on, prio,  *)
(*                              del]                                       *)
(*                                                                         *)
(* A table is a function on the ids it has rows for; del is the column     *)
(* is_pending_delete.  An end point is [type, id, ip] (ip the optional     *)
(* override).  The text of a bundle is abstracted to the rules of each     *)
(* policy in priority order; comments, LOG rules and the signature are     *)
(* left out, and a group's set is known by the group's id (set names are   *)
(* made from group names; names that differ are assumed to stay apart).    *)
(* All rules one policy adds to a chain have the same verdict,  *)
(* so their order among each other means nothing and they form a set.      *)
(***************************************************************************)
EXTENDS Integers, FiniteSets, SequencesExt

NoIP == "none"            \* an empty ip_address, or no override
AnyIP == "0.0.0.0/0"
SixIP == "v6"             \* an IPv6 address
Multicast == "224/4"
Broadcast == "bcast"
Loopback == "127/8"

MulticastIDs == {"all_hosts", "mdns", "igmpv3"}
BroadcastIDs == {"subnet_broadcast", "limited_broadcast"}
SpecialIDs == MulticastIDs \cup BroadcastIDs
                \cup {"loopback", "any_ip", "all_peers", "internet"}

Special(e, ids) == e.type = "special" /\ e.id \in ids

(***************************************************************************)
(* A result is a set of values, or an error; the compiler gives up at the  *)
(* first error and keeps nothing of the bundle.                            *)
(***************************************************************************)
Failed == [ok |-> FALSE, val |-> {}]
Gives(v) == [ok |-> TRUE, val |-> v]

-----------------------------------------------------------------------------
(***************************************************************************)
(* Resolution of end points (resolver.go).                                 *)
(***************************************************************************)
LiveGroup(d, g) == g \in DOMAIN d.groups /\ ~d.groups[g].del

Members(d, g) ==
    IF LiveGroup(d, g) THEN {p \in DOMAIN d.peers : <<g, p>> \in d.members} ELSE {}

ValidPeerCIDR(ip) == ip \notin {NoIP, AnyIP}

\* A missing or soft-deleted group resolves to nothing, without an error.
ResolveGroup(d, g) ==
    LET ips == {d.peers[p].ip : p \in Members(d, g)}
    IN  IF NoIP \in ips THEN Failed ELSE Gives(ips)

ResolvePeer(d, p) ==
    IF p \in DOMAIN d.peers /\ ValidPeerCIDR(d.peers[p].ip)
    THEN Gives({d.peers[p].ip}) ELSE Failed

ResolveAllPeers(d) ==
    LET ips == {d.peers[p].ip : p \in DOMAIN d.peers}
    IN  IF \A ip \in ips : ValidPeerCIDR(ip) THEN Gives(ips) ELSE Failed

\* __internet__ resolves to a sentinel that every caller refuses.
ResolveSpecialTarget(d, id, ip) ==
    CASE id = "subnet_broadcast" ->
            IF ip \notin {NoIP, SixIP} THEN Gives({Broadcast}) ELSE Failed
      [] id = "limited_broadcast" -> Gives({Broadcast})
      [] id \in MulticastIDs -> Gives({Multicast})
      [] id = "loopback" -> Gives({Loopback})
      [] id = "any_ip" -> Gives({AnyIP})
      [] id = "all_peers" -> ResolveAllPeers(d)
      [] OTHER -> Failed

ResolveEntityCIDRs(d, e, ip) ==
    CASE e.ip # NoIP -> IF e.type = "peer" /\ ValidPeerCIDR(e.ip)
                        THEN Gives({e.ip}) ELSE Failed
      [] e.ip = NoIP /\ e.type = "special" -> ResolveSpecialTarget(d, e.id, ip)
      [] e.ip = NoIP /\ e.type = "peer" -> ResolvePeer(d, e.id)
      [] OTHER -> ResolveGroup(d, e.id)

\* Rules between a peer and itself are left out.
FilterSelf(cidrs, ip) == cidrs \ {ip}

-----------------------------------------------------------------------------
(***************************************************************************)
(* Rules.  side says which address of a packet addr is compared with; addr *)
(* is a CIDR, a group's set, or everything but the private ranges.  dp and *)
(* sp are a service's destination or source ports, or no match.            *)
(***************************************************************************)
NoPort == <<"-">>
CIDR(c) == <<"cidr", c>>
GroupSet(g) == <<"set", g>>
Public == <<"public">>

Rule(chain, side, addr, proto, dp, sp, act) ==
    [chain |-> chain, side |-> side, addr |-> addr, proto |-> proto,
     dp |-> dp, sp |-> sp, act |-> IF act = "LOG_DROP" THEN "DROP" ELSE act]

\* One clause per protocol; special services have none.
ExpandPorts(s, row) ==
    {[proto |-> pr, dp |-> IF row.dst THEN <<s, "d">> ELSE NoPort,
                    sp |-> IF row.src THEN <<s, "s">> ELSE NoPort] : pr \in row.protos}

\* Variant: return traffic with the ports of the traffic itself.
KeepPortMatch(c) == c

\* Return traffic swaps the two port matches.
InvertPortMatch(c) == [c EXCEPT !.dp = c.sp, !.sp = c.dp]

\* The chains a policy's scope writes to: the host's own, DOCKER-USER, or both.
ScopeFlags(scope, hasDocker) ==
    (IF scope \in {"host", "both"} THEN {"host"} ELSE {})
    \cup (IF hasDocker /\ scope \in {"docker", "both"} THEN {"docker"} ELSE {})

PrimarySide(rd) == IF rd = "target" THEN "src" ELSE "dst"
PrimaryChain(rd, w) ==
    CASE w = "docker" -> "DOCKER-USER"
      [] w = "host" /\ rd = "target" -> "INPUT"
      [] OTHER -> "OUTPUT"

\* The rule for the traffic itself, in every chain of the scope.
Primary(c, rd, addr, ws, sp, act) ==
    {Rule(PrimaryChain(rd, w), PrimarySide(rd), addr, c.proto, c.dp, sp, act) : w \in ws}

\* The rule for the answers, in the host's opposite chain.
Return(c, rd, addr) ==
    LET r == InvertPortMatch(c)
    IN  Rule(IF rd = "target" THEN "OUTPUT" ELSE "INPUT",
             IF rd = "target" THEN "dst" ELSE "src", addr, r.proto, r.dp, r.sp, "ACCEPT")

\* Answers from a multicast group come from anywhere, or are not tracked at all.
ReturnCIDRs(cidrs, mcast, tracked) ==
    IF ~mcast THEN cidrs ELSE IF tracked THEN {AnyIP} ELSE {}

(***************************************************************************)
(* buildAcceptRules on the CIDR path: the return rules of an ingress rule  *)
(* depend on the scope, those of an egress rule do not.                    *)
(***************************************************************************)
BuildAcceptRules(clauses, rd, cidrs, ip, ws, tracked, mcast) ==
    (UNION {UNION {Primary(c, rd, CIDR(a), ws, c.sp, "ACCEPT") : a \in FilterSelf(cidrs, ip)}
            : c \in clauses})
    \cup IF rd = "target"
         THEN {Return(c, rd, CIDR(a)) : c \in clauses,
                    a \in IF "host" \in ws THEN FilterSelf(cidrs, ip) ELSE {}}
         ELSE {Return(c, rd, CIDR(a)) : c \in clauses,
                    a \in FilterSelf(ReturnCIDRs(cidrs, mcast, tracked), ip)}

\* buildAcceptRules with a set (a group's, or the public ranges).
BuildAcceptSetRules(clauses, rd, addr, ws) ==
    (UNION {Primary(c, rd, addr, ws, c.sp, "ACCEPT") : c \in clauses})
    \cup {Return(c, rd, addr) : c \in IF "host" \in ws THEN clauses ELSE {}}

\* buildLogDropRules: no return rules, and no match on source ports.
BuildLogDropRules(clauses, rd, addrs, ws, act) ==
    UNION {UNION {Primary(c, rd, a, ws, NoPort, act) : a \in addrs} : c \in clauses}

\* A peer whose own address is an allow-all CIDR is not compiled.
WriteRules(pol, clauses, rd, cidrs, ip, ws, tracked, mcast) ==
    CASE ip = AnyIP /\ clauses # {} -> Failed
      [] OTHER -> Gives(
            IF pol.act = "ACCEPT"
            THEN BuildAcceptRules(clauses, rd, cidrs, ip, ws, tracked, mcast)
            ELSE BuildLogDropRules(clauses, rd, {CIDR(a) : a \in FilterSelf(cidrs, ip)},
                                   ws, pol.act))

WriteSetRules(pol, clauses, rd, addr, ws) ==
    IF pol.act = "ACCEPT" THEN BuildAcceptSetRules(clauses, rd, addr, ws)
    ELSE BuildLogDropRules(clauses, rd, {addr}, ws, pol.act)

\* Egress to the internet: the private set negated, or its four ranges.
BuildInternetRules(pol, clauses, ws) == WriteSetRules(pol, clauses, "source", Public, ws)

(***************************************************************************)
(* The fixed rules of the system services.                                 *)
(***************************************************************************)
IGMPRules(ws) ==
    {Rule(PrimaryChain("target", w), "dst", CIDR(Multicast), "igmp", NoPort, NoPort, "ACCEPT")
        : w \in ws}
    \cup {Rule(PrimaryChain("source", w), "dst", CIDR(Multicast), "igmp", NoPort, NoPort, "ACCEPT")
        : w \in ws}

VRRPRules(ws) ==
    {Rule(PrimaryChain("source", w), "dst", CIDR(Multicast), "vrrp", NoPort, NoPort, "ACCEPT")
        : w \in ws}

MulticastRule(act, ws) ==
    {Rule(PrimaryChain("target", w), "dst", CIDR(Multicast), "any", NoPort, NoPort, act) : w \in ws}

MulticastSend(ws) ==
    {Rule(PrimaryChain("source", w), "dst", CIDR(Multicast), "any", NoPort, NoPort, "ACCEPT")
        : w \in ws}

\* Always ACCEPT, whatever the policy's action.
BroadcastRule(ws) ==
    {Rule(PrimaryChain("target", w), "dst", CIDR(Broadcast), "udp", NoPort, NoPort, "ACCEPT")
        : w \in ws}

-----------------------------------------------------------------------------
(***************************************************************************)
(* Which policies concern a peer (loadApplicablePolicies).                 *)
(***************************************************************************)
Has(d, e, p) ==
    \/ e.type = "peer" /\ e.id = p
    \/ e.type = "group" /\ p \in Members(d, e.id)

IsTarget(d, pol, p) ==
    Has(d, pol.tgt, p) \/ (pol.tgt.type = "special" /\ Has(d, pol.src, p))

IsSource(d, pol, p) ==
    \/ Has(d, pol.src, p)
    \/ /\ pol.src.type = "special" /\ ~Special(pol.src, MulticastIDs \cup BroadcastIDs)
       /\ Has(d, pol.tgt, p)

\* Variant: disabled policies too.
ApplicableWhenOff(d, pol, p) == ~pol.del /\ (Has(d, pol.tgt, p) \/ Has(d, pol.src, p))

Applicable(d, pol, p) == pol.on /\ ~pol.del /\ (Has(d, pol.tgt, p) \/ Has(d, pol.src, p))

LoadApplicablePolicies(d, p) ==
    {n \in DOMAIN d.policies : Applicable(d, d.policies[n], p)}

LiveService(d, s) == s \in DOMAIN d.services /\ ~d.services[s].del

GroupsNamed(d, names) ==
    {e.id : e \in {x \in UNION {{d.policies[n].src, d.policies[n].tgt} : n \in names} :
                        x.type = "group" /\ LiveGroup(d, x.id)}}

\* Only a group that is still there has a name, and with it a set.
UsesSet(d, p, e) == d.peers[p].ipset /\ e.type = "group" /\ LiveGroup(d, e.id)

\* With ipset support every group becomes a set, and a set holds IPv4 only.
IPSetsFit(d, p, names) ==
    d.peers[p].ipset =>
        \A g \in GroupsNamed(d, names) : \A q \in Members(d, g) :
            d.peers[q].ip \notin {NoIP, SixIP}

(***************************************************************************)
(* The ingress and the egress part of one policy.                          *)
(***************************************************************************)
TargetSection(d, p, pol, svc, clauses, ws) ==
    LET me == d.peers[p]
        src == ResolveEntityCIDRs(d, pol.src, me.ip)
    IN  CASE \/ ~IsTarget(d, pol, p)
             \/ pol.dir \notin {"both", "backward"}
             \/ Special(pol.tgt, MulticastIDs \cup BroadcastIDs) -> Gives({})
          [] OTHER ->
             CASE Special(pol.src, {"internet"}) -> Failed
               [] Special(pol.src, MulticastIDs) -> Gives(MulticastRule(pol.act, ws))
               [] Special(pol.src, BroadcastIDs) ->
                    IF src.ok THEN Gives(BroadcastRule(ws)) ELSE Failed
               [] UsesSet(d, p, pol.src) ->
                    Gives(IF svc.kind = "multicast" THEN MulticastRule(pol.act, ws)
                          ELSE WriteSetRules(pol, clauses, "target", GroupSet(pol.src.id), ws))
               [] OTHER ->
                    CASE ~src.ok -> Failed
                      [] src.ok /\ svc.kind = "multicast" -> Gives(MulticastRule(pol.act, ws))
                      [] OTHER -> WriteRules(pol, clauses, "target", src.val, me.ip, ws,
                                             svc.ct, FALSE)

SourceSection(d, p, pol, svc, clauses, ws) ==
    LET me == d.peers[p]
        tgt == ResolveEntityCIDRs(d, pol.tgt, me.ip)
        mcast == Special(pol.tgt, MulticastIDs)
        send == IF mcast /\ pol.act = "ACCEPT" THEN MulticastSend(ws) ELSE {}
    IN  CASE ~IsSource(d, pol, p) \/ pol.dir \notin {"both", "forward"} -> Gives({})
          [] OTHER ->
             CASE Special(pol.tgt, {"internet"}) ->
                    IF me.ip \in {NoIP, SixIP} THEN Failed
                    ELSE Gives(BuildInternetRules(pol, clauses, ws))
               [] UsesSet(d, p, pol.tgt) ->
                    Gives(IF svc.kind = "multicast" THEN {}
                          ELSE WriteSetRules(pol, clauses, "source", GroupSet(pol.tgt.id), ws))
               [] OTHER ->
                    CASE ~tgt.ok -> Failed
                      [] tgt.ok /\ svc.kind = "multicast" -> Gives(send)
                      [] OTHER -> WriteRules(pol, clauses, "source", tgt.val, me.ip, ws,
                                             svc.ct, mcast)

SinglePolicy(d, p, pol) ==
    LET ws == ScopeFlags(pol.scope, d.peers[p].docker)
        svc == d.services[pol.svc]
        clauses == IF svc.kind = "ports" THEN ExpandPorts(pol.svc, svc) ELSE {}
        in == TargetSection(d, p, pol, svc, clauses, ws)
        out == SourceSection(d, p, pol, svc, clauses, ws)
    IN  CASE ~LiveService(d, pol.svc) -> Failed
          [] OTHER -> CASE svc.kind = "igmp" -> Gives(IF "host" \in ws THEN IGMPRules(ws) ELSE {})
                        [] svc.kind = "vrrp" -> Gives(IF "host" \in ws THEN VRRPRules(ws) ELSE {})
                        [] OTHER -> IF in.ok /\ out.ok THEN Gives(in.val \cup out.val) ELSE Failed

(***************************************************************************)
(* Compile: the rules of every policy that concerns the peer, or an error. *)
(* The order of the policies is that of their priorities, which the policy *)
(* rows carry, so the bundle is the function below.                        *)
(***************************************************************************)
Compile(d, p) ==
    LET names == LoadApplicablePolicies(d, p)
        of == [n \in names |-> SinglePolicy(d, p, d.policies[n])]
    IN  IF IPSetsFit(d, p, names) /\ \A n \in names : of[n].ok
        THEN [ok |-> TRUE, rules |-> [n \in names |-> of[n].val],
              sets |-> IF d.peers[p].ipset
                       THEN [g \in GroupsNamed(d, names) |-> {d.peers[q].ip : q \in Members(d, g)}]
                       ELSE <<>>,
              prio |-> [n \in names |-> d.policies[n].prio]]
        ELSE [ok |-> FALSE]

-----------------------------------------------------------------------------
(***************************************************************************)
(* What the rules do to a packet (the packet filter, external).  A packet  *)
(* is in conntrack state NEW or ESTABLISHED and not on the loopback        *)
(* device; the standard rules then decide about the control plane's port   *)
(* only, and the catch-all at the end drops.                               *)
(***************************************************************************)
ControlPort == <<"cp">>
PublicHost == "198.51.100.1"

AddrMatches(b, addr, a) ==
    CASE addr[1] = "cidr" -> addr[2] \in {AnyIP, a}
      [] addr[1] = "set" -> {AnyIP, a} \cap b.sets[addr[2]] # {}
      [] OTHER -> a = PublicHost

Matches(b, r, pkt) ==
    /\ r.chain = pkt.chain
    /\ r.proto \in {"any", pkt.proto}
    /\ r.dp \in {NoPort, pkt.dp} /\ r.sp \in {NoPort, pkt.sp}
    /\ AddrMatches(b, r.addr, IF r.side = "src" THEN pkt.src ELSE pkt.dst)

StandardRules(pkt) == ControlPort \in {pkt.dp, pkt.sp} /\ pkt.chain # "DOCKER-USER"

\* Policies of equal priority come in any order: the verdicts a packet may meet.
Verdicts(b, pkt) ==
    LET hits == {n \in DOMAIN b.rules : \E r \in b.rules[n] : Matches(b, r, pkt)}
        first == {n \in hits : \A m \in hits : b.prio[n] <= b.prio[m]}
    IN  CASE StandardRules(pkt) -> {"ACCEPT"}
          [] ~StandardRules(pkt) /\ hits = {} ->
                {IF pkt.chain = "DOCKER-USER" THEN "RETURN" ELSE "DROP"}
          [] OTHER -> {r.act : r \in {x \in UNION {b.rules[n] : n \in first} : Matches(b, x, pkt)}}

-----------------------------------------------------------------------------
(***************************************************************************)
(* PreviewCompile: one policy, shown for a peer, whichever side the peer   *)
(* is on and whether it has docker or not.  It asks for no membership and  *)
(* always writes addresses, never a group's set.                           *)
(***************************************************************************)
PreviewForward(d, p, pol, svc, clauses, w) ==
    LET me == d.peers[p]
        tgt == ResolveEntityCIDRs(d, pol.tgt, me.ip)
        mcast == Special(pol.tgt, MulticastIDs)
    IN  CASE svc.kind = "igmp" -> Gives(IGMPRules({w}))
          [] svc.kind = "vrrp" -> Gives(VRRPRules({w}))
          [] OTHER ->
             CASE pol.dir \notin {"both", "forward"} -> Gives({})
               [] OTHER ->
                  CASE svc.kind = "multicast" /\ mcast -> Gives(MulticastSend({w}))
                    [] Special(pol.tgt, {"internet"}) ->
                         IF me.ip \in {NoIP, SixIP} THEN Failed
                         ELSE Gives(BuildInternetRules(pol, clauses, {w}))
                    [] OTHER -> IF ~tgt.ok THEN Failed
                                ELSE WriteRules(pol, clauses, "source", tgt.val, me.ip, {w},
                                                svc.ct, mcast)

PreviewBackward(d, p, pol, svc, clauses, w) ==
    LET me == d.peers[p]
        src == ResolveEntityCIDRs(d, pol.src, me.ip)
    IN  CASE svc.kind \in {"igmp", "vrrp"} \/ pol.dir \notin {"both", "backward"} -> Gives({})
          [] OTHER ->
             IF ~src.ok \/ Special(pol.src, {"internet"}) THEN Failed
             ELSE CASE Special(pol.src, MulticastIDs) /\ svc.kind = "multicast" ->
                         Gives(MulticastRule("ACCEPT", {w}))
                    [] Special(pol.src, BroadcastIDs) -> Gives(BroadcastRule({w}))
                    [] OTHER -> WriteRules(pol, clauses, "target", src.val, me.ip, {w}, svc.ct,
                                           FALSE)

\* Variant: previewed as for a peer without docker.
PreviewScopesHost(scope) == ScopeFlags(scope, FALSE)

PreviewScopes(scope) == ScopeFlags(scope, TRUE)

\* Port clauses are made for the broadcast services too, which have ports.
PreviewCompile(d, p, pol) ==
    LET svc == d.services[pol.svc]
        clauses == IF svc.kind \in {"ports", "broadcast"} THEN ExpandPorts(pol.svc, svc) ELSE {}
        ws == PreviewScopes(pol.scope)
        parts == {PreviewForward(d, p, pol, svc, clauses, w) : w \in ws}
                 \cup {PreviewBackward(d, p, pol, svc, clauses, w) : w \in ws}
    IN  IF /\ LiveService(d, pol.svc)
           /\ ResolveEntityCIDRs(d, pol.src, d.peers[p].ip).ok
           /\ ResolveEntityCIDRs(d, pol.tgt, d.peers[p].ip).ok \/ Special(pol.tgt, {"internet"})
           /\ \A r \in parts : r.ok
        THEN Gives(UNION {r.val : r \in parts}) ELSE Failed

-----------------------------------------------------------------------------
(***************************************************************************)
(* Which peers a change touches.  A policy whose end point is gone is an   *)
(* error and not an empty set.                                             *)
(***************************************************************************)
EndPeers(d, e) ==
    CASE e.type = "peer" -> IF e.id \in DOMAIN d.peers THEN Gives({e.id}) ELSE Failed
      [] e.type = "group" -> IF LiveGroup(d, e.id) THEN Gives(Members(d, e.id)) ELSE Failed
      [] OTHER -> Gives(IF e.id = "all_peers" THEN DOMAIN d.peers ELSE {})

GetAffectedPeersByPolicy(d, n) ==
    IF n \notin DOMAIN d.policies \/ d.policies[n].del THEN Failed
    ELSE LET s == EndPeers(d, d.policies[n].src)
             t == EndPeers(d, d.policies[n].tgt)
         IN  IF s.ok /\ t.ok THEN Gives(s.val \cup t.val) ELSE Failed

FindPoliciesByGroup(d, g) ==
    {n \in DOMAIN d.policies :
        ~d.policies[n].del /\ \E e \in {d.policies[n].src, d.policies[n].tgt} :
            e.type = "group" /\ e.id = g}

\* A failing policy does not drop the peers of the others.
GetAffectedPeersByPolicies(d, names) == UNION {GetAffectedPeersByPolicy(d, n).val : n \in names}

=============================================================================
