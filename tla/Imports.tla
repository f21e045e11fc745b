------------------------------- MODULE Imports -------------------------------
(***************************************************************************)
(* Importing the firewall rules a peer had before it was managed           *)
(* (internal/importer, internal/iptparse, internal/api/imports): the agent *)
(* submits a backup of its rules and sets, the control plane parses it     *)
(* into a session, resolves every rule to peers, groups and services that  *)
(* exist or are staged, a user approves rules and corrects the mapping,    *)
(* and the approved rules become policies.  The tables peers, groups,      *)
(* services and policies are the database d of Compiler.                   *)
(*                                                                         *)
(* A rule of a backup is a record: chain, proto ("" for none), src and dst *)
(* (NoIP for none), ports (a set), set (<<>> or <<name, side>>), iface,    *)
(* ct (conntrack states), mod (a module the parser does not know, or ""),  *)
(* pkt (packet type), target, and rest: a part of the rule that the parser *)
(* reads over ("not" is a negated source).  A row of d.services also has   *)
(* the columns name, ports, proto, sys and rank (its place in the table),   *)
(* a row of d.groups rank.  Ids and addresses are strings, and a peer,     *)
(* group or policy the import creates gets an id of its own.               *)
(***************************************************************************)
EXTENDS Compiler

CONSTANTS
    Self,        \* the peer whose rules are imported
    OwnIPs,      \* its addresses (peer_ips)
    FirstDB,     \* the tables before the import
    Manual,      \* the peers of FirstDB without an agent
    Backups,     \* what the agent can submit in each of them: [rules, sets]
    Submitters,  \* concurrent SubmitBackup requests
    Appliers,    \* concurrent apply requests
    MaxSessions, \* bound on sessions
    MaxAsked,    \* bound on concurrent initiations
    MaxUpdates,  \* bound on what users change, in the session and in groups
    MaxEdits,    \* bound on what others change in groups
    Moved,       \* the peers they add and remove
    MaxFaults,   \* bound on failures after the commit
    Faults       \* what can fail after the commit: "resolve", "queue"

ASSUME ImportsAssumption ==
    /\ Self \in DOMAIN FirstDB.peers \ Manual /\ FirstDB.peers[Self].ip \in OwnIPs
    /\ \A h \in Submitters : \A b \in Backups[h] : \A i \in DOMAIN b.rules :
          b.rules[i].set # <<>> => b.rules[i].set[1] \in DOMAIN b.sets
    /\ MaxSessions \in Nat /\ MaxAsked \in Nat /\ MaxUpdates \in Nat
    /\ MaxEdits \in Nat /\ MaxFaults \in Nat
    /\ Faults \subseteq {"resolve", "queue"}

VARIABLES
    d,         \* peers, groups, group_members, services, policies
    sessions,  \* import_sessions with the rows of the four tables below them
    lastID,    \* the last session id given out
    asked,     \* initiations that found no session and are about to insert one
    sub,       \* the SubmitBackup requests: [pc, sid, todo]
    app,       \* the apply requests: [pc, sid, created, todo, err]
    signalled, \* peers a pending change was queued for
    told,      \* peers of an apply that was answered 500 (history)
    unresolved, \* peers of an entity whose resolution failed (history)
    updates,   \* number of changes made by the user
    edits,     \* number of changes made by others
    faults,    \* number of failures
    made       \* policies made by imports, with the rule they stand for (history)

vars == <<d, sessions, lastID, asked, sub, app, signalled, told, unresolved, updates, edits, faults, made>>

NoID == ""
NoBackup == [rules |-> <<>>, sets |-> <<>>]
Active == {"pending", "parsed", "reviewing"}
ActiveSessions == {s \in DOMAIN sessions : sessions[s].status \in Active}
NewSession(b) ==
    [status |-> "pending", raw |-> b, rows |-> <<>>, peers |-> <<>>, groups |-> <<>>,
     svcs |-> <<>>, touched |-> FALSE]
Put(f, k, v) == [x \in DOMAIN f \cup {k} |-> IF x = k THEN v ELSE f[x]]

Init ==
    /\ d = FirstDB
    /\ sessions = <<>> /\ lastID = 0 /\ asked = 0
    /\ sub = [h \in Submitters |-> [pc |-> "idle", sid |-> 0, todo |-> {}]]
    /\ app = [a \in Appliers |-> [pc |-> "idle", sid |-> 0, created |-> {}, todo |-> {}, err |-> FALSE]]
    /\ signalled = {} /\ told = {} /\ unresolved = {} /\ updates = 0 /\ edits = 0 /\ faults = 0 /\ made = <<>>

-----------------------------------------------------------------------------
(***************************************************************************)
(* The parser.  What it knows nothing of it warns about and reads over.    *)
(***************************************************************************)
IsRunicStandard(r) ==
    \/ r.target = "ACCEPT" /\ r.iface = "lo"
    \/ r.target = "ACCEPT" /\ r.proto = "icmp" /\ "RELATED" \in r.ct
    \/ r.target = "ACCEPT" /\ {"ESTABLISHED", "RELATED"} \subseteq r.ct
    \/ r.target = "DROP" /\ "INVALID" \in r.ct
    \/ r.set # <<>> /\ r.set[1] = "runic_group_g"

IsClean(r) ==
    /\ ~IsRunicStandard(r)
    /\ r.iface = "" \/ (r.iface = "docker0" /\ r.chain = "DOCKER-USER")
    /\ r.target \in {"ACCEPT", "DROP"}
    /\ r.ct \subseteq {"NEW"}
    /\ r.mod = ""

Unresolved == [type |-> "", id |-> NoID, stg |-> NoID, ip |-> NoIP]

\* What the parser makes of a rule: all but the tokens it does not know.
ParseRule(r) == [f \in DOMAIN r \ {"rest"} |-> r[f]]

\* The place of a rule in its chain.
Order(rules, i) == Cardinality({j \in 1..i : rules[j].chain = rules[i].chain})

\* The row of a rule as ParseSession inserts it.
ParsedRow(rules, i) ==
    LET r == rules[i]
    IN  [raw |-> r, status |-> IF IsClean(ParseRule(r)) THEN "pending" ELSE "skipped",
         src |-> Unresolved, tgt |-> Unresolved, svc |-> NoID, svcStg |-> 0,
         act |-> IF r.target \in {"ACCEPT", "DROP"} THEN r.target ELSE "",
         scope |-> IF r.chain = "DOCKER-USER" THEN "docker" ELSE "both",
         dir |-> IF r.chain = "OUTPUT" THEN "forward" ELSE "backward",
         prio |-> 100 * Order(rules, i)]

-----------------------------------------------------------------------------
(***************************************************************************)
(* Sessions: initiation (the check and the insert are two statements), and *)
(* the submission of a backup, which replaces what a session that is not   *)
(* parsed yet holds.                                                       *)
(***************************************************************************)
InitiateImport ==
    /\ asked < MaxAsked /\ ActiveSessions = {}
    /\ asked' = asked + 1
    /\ UNCHANGED <<d, sessions, lastID, sub, app, signalled, told, unresolved, updates, edits, faults, made>>

CreateSession ==
    /\ asked > 0 /\ lastID < MaxSessions
    /\ asked' = asked - 1
    /\ lastID' = lastID + 1
    /\ sessions' = Put(sessions, lastID + 1, NewSession(NoBackup))
    /\ UNCHANGED <<d, sub, app, signalled, told, unresolved, updates, edits, faults, made>>

\* Variant: a backup replaces the data of any session that is still active.
Replaces(s, b) == [sessions EXCEPT ![s].raw = b]

ReplaceData(s, b) ==
    IF sessions[s].status = "pending" THEN Put(sessions, s, NewSession(b)) ELSE sessions

SubmitBackupSession(h, b) ==
    /\ sub[h].pc = "idle"
    /\ \/ /\ ActiveSessions = {} /\ lastID < MaxSessions
          /\ lastID' = lastID + 1
          /\ sessions' = Put(sessions, lastID + 1, NewSession(b))
          /\ sub' = [sub EXCEPT ![h] = [@ EXCEPT !.pc = "parse", !.sid = lastID + 1]]
       \/ \E s \in ActiveSessions :
              /\ sessions' = ReplaceData(s, b)
              /\ sub' = [sub EXCEPT ![h] = [@ EXCEPT !.pc = "parse", !.sid = s]]
              /\ UNCHANGED lastID
    /\ UNCHANGED <<d, asked, app, signalled, told, unresolved, updates, edits, faults, made>>

\* Nothing happens unless the session is there and pending.
ParseSession(h) ==
    LET s == sub[h].sid
        go == s \in DOMAIN sessions /\ sessions[s].status = "pending"
        rules == sessions[s].raw.rules
    IN  /\ sub[h].pc = "parse"
        /\ sub' = [sub EXCEPT ![h].pc = IF go THEN "load" ELSE "idle"]
        /\ sessions' = IF go
                       THEN [sessions EXCEPT ![s].status = "parsed",
                                ![s].rows = [i \in DOMAIN rules |-> ParsedRow(rules, i)]]
                       ELSE sessions
        /\ UNCHANGED <<d, lastID, asked, app, signalled, told, unresolved, updates, edits, faults, made>>

\* The resolver reads which rows are pending, once, outside the transaction.
LoadRules(h) ==
    LET s == sub[h].sid
    IN  /\ sub[h].pc = "load"
        /\ sub' = [sub EXCEPT ![h].pc = "resolve", ![h].todo =
                        IF s \notin DOMAIN sessions THEN {}
                        ELSE {i \in DOMAIN sessions[s].rows : sessions[s].rows[i].status = "pending"}]
        /\ UNCHANGED <<d, sessions, lastID, asked, app, signalled, told, unresolved, updates, edits, faults, made>>

-----------------------------------------------------------------------------
(***************************************************************************)
(* The resolver.  An end point is a peer, group or special target that     *)
(* exists (id) or is staged (stg: the address or the name of the set).     *)
(***************************************************************************)
End(type, id, stg, ip) == [type |-> type, id |-> id, stg |-> stg, ip |-> ip]
Received(r) == r.chain \in {"INPUT", "DOCKER-USER"}
Me == End("peer", Self, NoID, d.peers[Self].ip)
OwnerOf(ip) == {p \in DOMAIN d.peers : d.peers[p].ip = ip \/ (p = Self /\ ip \in OwnIPs)}
Members4(ips) == UNION {OwnerOf(ip) : ip \in ips}
Unknown(ips) == {ip \in ips : OwnerOf(ip) = {}}

\* Staging a peer twice gives the same row.
StagePeers(S, ips) ==
    [S EXCEPT !.peers = [ip \in DOMAIN @ \cup ips |-> IF ip \in DOMAIN @ THEN @[ip] ELSE NoID]]

\* The group with the name, or else the first group with the known members of
\* the set, if it has no others; addresses of unknown peers are not compared.
MatchingGroup(S, name) ==
    LET known == Members4(S.raw.sets[name])
        of(g) == {p \in DOMAIN d.peers : <<g, p>> \in d.members}
        all == {g \in DOMAIN d.groups : known # {} /\ known \subseteq of(g)}
        first == {g \in all : \A h \in all : d.groups[g].rank <= d.groups[h].rank}
    IN  IF name \in DOMAIN d.groups /\ of(name) = known THEN {name}
        ELSE {g \in first : of(g) = known}

ResolveIpset(S, name) ==
    LET ips == S.raw.sets[name]
        ids == MatchingGroup(S, name)
        id == IF ids = {} THEN NoID ELSE CHOOSE g \in ids : TRUE
    IN  IF name \in DOMAIN S.groups THEN <<S, End("group", NoID, name, NoIP)>>
        ELSE << [StagePeers(S, Unknown(ips)) EXCEPT !.groups =
                    Put(@, name, [ex |-> id, known |-> Members4(ips), unknown |-> Unknown(ips)])],
                End("group", id, name, NoIP) >>

\* The session with what had to be staged, and the end point.
ResolveEndpoint(S, r, side) ==
    LET ip == IF side = "src" THEN r.src ELSE r.dst
        own == IF Received(r) THEN side = "dst" ELSE side = "src"
    IN  CASE r.set # <<>> /\ r.set[2] = side -> ResolveIpset(S, r.set[1])
          [] OTHER ->
             CASE own /\ ip = NoIP -> <<S, Me>>
               [] ip \in OwnIPs -> <<S, End("peer", Self, NoID, ip)>>
               [] ~own /\ ip = NoIP -> <<S, End("special", "any_ip", NoID, NoIP)>>
               [] ip = Multicast -> <<S, End("special", "mdns", NoID, NoIP)>>
               [] OTHER ->
                  IF OwnerOf(ip) # {}
                  THEN <<S, End("peer", CHOOSE p \in OwnerOf(ip) : TRUE, NoID, NoIP)>>
                  ELSE <<StagePeers(S, {ip}), End("peer", NoID, ip, NoIP)>>

\* Services with the ports and protocol; with one port of many; with one of the ports.
ServiceMatches(r) ==
    LET pr == IF r.proto = "" THEN "both" ELSE r.proto
        of(P(_)) == {s \in DOMAIN d.services : d.services[s].proto = pr /\ P(d.services[s].ports)}
        exact == of(LAMBDA x : x = r.ports)
        wider == of(LAMBDA x : Cardinality(r.ports) = 1 /\ r.ports \subseteq x)
        narrower == of(LAMBDA x : Cardinality(x) = 1 /\ x \subseteq r.ports)
    IN  IF r.ports = {} THEN {s \in exact : d.services[s].sys}
        ELSE IF exact # {} THEN exact ELSE IF wider # {} THEN wider ELSE narrower

\* Every rule with an unknown service stages one of its own.
ResolveService(S, r) ==
    LET all == ServiceMatches(r)
    IN  CASE all # {} -> <<S, CHOOSE s \in all : \A t \in all : d.services[s].rank <= d.services[t].rank, 0>>
          [] all = {} /\ r.ports = {} -> <<S, NoID, 0>>
          [] OTHER -> <<[S EXCEPT !.svcs = Append(@, NoID)], NoID, Len(S.svcs) + 1>>

\* Variant: the importing peer is always taken for the target.
DirectionBackward(r, remote) ==
    IF remote.type # "peer" \/ (remote.id # NoID /\ remote.id \notin Manual) THEN "both" ELSE "backward"

DetermineDirection(r, remote) ==
    IF remote.type # "peer" \/ (remote.id # NoID /\ remote.id \notin Manual) THEN "both"
    ELSE IF Received(r) THEN "backward" ELSE "forward"

SystemService(name) == CHOOSE s \in DOMAIN d.services : d.services[s].name = name

Resolved(row, src, tgt, svc, stg, dir) ==
    [row EXCEPT !.src = src, !.tgt = tgt, !.svc = svc, !.svcStg = stg, !.dir = dir,
                !.status = "resolved"]

\* Received multicast, IGMP and broadcast: the special target is the source.
ResolveReceived(row, special, svc, dir) ==
    Resolved(row, End("special", special, NoID, NoIP), Me, svc, 0, dir)

BroadcastID(r) ==
    CASE r.dst = "limited" -> "limited_broadcast" [] r.dst = "subnet" -> "subnet_broadcast"
      [] OTHER -> NoID

\* The staged service of a broadcast rule is not kept.
ResolveBroadcastRule(S, row) ==
    LET r == row.raw
        svc == ResolveService(S, r)
    IN  IF r.ports = {}
        THEN <<S, ResolveReceived(row, BroadcastID(r), SystemService(BroadcastID(r)), "both")>>
        ELSE <<svc[1], ResolveReceived(row, BroadcastID(r), svc[2], row.dir)>>

ResolveRow(S, row) ==
    LET r == row.raw
        src == ResolveEndpoint(S, r, "src")
        tgt == ResolveEndpoint(src[1], r, "dst")
        svc == ResolveService(tgt[1], r)
        remote == IF Received(r) THEN src[2] ELSE tgt[2]
    IN  CASE Received(r) /\ r.pkt = "multicast" ->
                <<S, ResolveReceived(row, "all_hosts", SystemService("multicast"), "both")>>
          [] Received(r) /\ r.pkt # "multicast" /\ r.proto = "igmp" ->
                <<S, ResolveReceived(row, "all_hosts", SystemService("igmp"), "both")>>
          [] OTHER ->
             IF Received(r) /\ BroadcastID(r) # NoID THEN ResolveBroadcastRule(S, row)
             ELSE <<svc[1], Resolved(row, src[2], tgt[2], svc[2], svc[3],
                                     DetermineDirection(r, remote))>>

\* Rules are resolved one by one; the row becomes resolved whatever it was.
ResolveRules(h) ==
    LET s == sub[h].sid
        i == CHOOSE x \in sub[h].todo : \A y \in sub[h].todo : x <= y
        res == ResolveRow(sessions[s], sessions[s].rows[i])
    IN  /\ sub[h].pc = "resolve"
        /\ IF sub[h].todo = {}
           THEN sub' = [sub EXCEPT ![h].pc = "idle"] /\ UNCHANGED sessions
           ELSE /\ sub' = [sub EXCEPT ![h].todo = @ \ {i}]
                /\ sessions' = IF s \in DOMAIN sessions
                               THEN [sessions EXCEPT ![s] = [res[1] EXCEPT !.rows[i] = res[2]]]
                               ELSE sessions
        /\ UNCHANGED <<d, lastID, asked, app, signalled, told, unresolved, updates, edits, faults, made>>

-----------------------------------------------------------------------------
(***************************************************************************)
(* The user, who may act at any time and on rows of any status.            *)
(***************************************************************************)
Update(s) ==
    /\ updates + edits < MaxUpdates /\ s \in DOMAIN sessions
    /\ updates' = updates + 1
    /\ UNCHANGED <<d, lastID, asked, sub, app, signalled, told, unresolved, edits, faults, made>>

UpdateRule(s, i, status) ==
    /\ Update(s) /\ i \in DOMAIN sessions[s].rows
    /\ sessions' = [sessions EXCEPT ![s].rows[i].status = status]

\* Staged entities mapped to existing ones.
UpdatePeer(s, ip, p) ==
    /\ Update(s) /\ ip \in DOMAIN sessions[s].peers
    /\ sessions' = [sessions EXCEPT ![s].peers[ip] = p, ![s].touched = TRUE]

UpdateGroup(s, name, g) ==
    /\ Update(s) /\ name \in DOMAIN sessions[s].groups
    /\ sessions' = [sessions EXCEPT ![s].groups[name].ex = g, ![s].touched = TRUE]

UpdateService(s, k, svc) ==
    /\ Update(s) /\ k \in DOMAIN sessions[s].svcs
    /\ sessions' = [sessions EXCEPT ![s].svcs[k] = svc, ![s].touched = TRUE]

CancelSession(s) ==
    /\ Update(s)
    /\ sessions' = [x \in DOMAIN sessions \ {s} |-> sessions[x]]

-----------------------------------------------------------------------------
(***************************************************************************)
(* Applying: two checks, the mark, the transaction, the fan-out.  Only     *)
(* what approved rules refer to is created.                                *)
(***************************************************************************)
Approved(S) == {i \in DOMAIN S.rows : S.rows[i].status = "approved"}
Ends(S) == UNION {{S.rows[i].src, S.rows[i].tgt} : i \in Approved(S)}
StagedGroups(S) == {e.stg : e \in {x \in Ends(S) : x.type = "group" /\ x.stg # NoID}}
StagedPeers(S) ==
    {e.stg : e \in {x \in Ends(S) : x.type = "peer" /\ x.stg # NoID}}
    \cup UNION {S.groups[n].unknown : n \in StagedGroups(S)}
StagedServices(S) == {S.rows[i].svcStg : i \in Approved(S)} \ {0}
NewPeers(S) == {ip \in StagedPeers(S) : S.peers[ip] = NoID}
NewGroups(S) == {n \in StagedGroups(S) : S.groups[n].ex = NoID}

\* A peer created for an address has that address for an id, a group its name.
RealPeer(S, ip) == IF S.peers[ip] = NoID THEN ip ELSE S.peers[ip]
RealGroup(S, n) == IF S.groups[n].ex = NoID THEN n ELSE S.groups[n].ex

ResolveID(S, e) ==
    [type |-> e.type, ip |-> e.ip,
     id |-> CASE e.id # NoID -> e.id
              [] e.id = NoID /\ e.type = "peer" -> RealPeer(S, e.stg)
              [] OTHER -> RealGroup(S, e.stg)]

ServiceOf(S, row) == IF row.svc # NoID \/ row.svcStg = 0 THEN row.svc ELSE S.svcs[row.svcStg]

PolicyOf(S, row) ==
    [src |-> ResolveID(S, row.src), tgt |-> ResolveID(S, row.tgt), svc |-> ServiceOf(S, row),
     act |-> row.act, scope |-> row.scope, dir |-> row.dir, on |-> TRUE, prio |-> row.prio,
     del |-> FALSE]

(***************************************************************************)
(* What makes the transaction fail: an approved row that is not resolved   *)
(* (a NULL is read into a string), a staged service that is not mapped     *)
(* (the resolver leaves two columns NULL, which are read into strings), a  *)
(* peer or a group that exists by now under the name to be created, and a  *)
(* rule without a service (a foreign key).                                 *)
(***************************************************************************)
ApplyFails(S) ==
    \/ \E i \in Approved(S) : S.rows[i].src.type = ""
    \/ \E k \in StagedServices(S) : S.svcs[k] = NoID
    \/ NewPeers(S) \cap DOMAIN d.peers # {} \/ NewGroups(S) \cap DOMAIN d.groups # {}
    \/ \E i \in Approved(S) : ServiceOf(S, S.rows[i]) = NoID

PolicyID(S, i) == Cardinality(DOMAIN d.policies) + Cardinality({j \in Approved(S) : j <= i})
RowOf(S, n) == CHOOSE i \in Approved(S) : PolicyID(S, i) = n
PolicyIDs(S) == {PolicyID(S, i) : i \in Approved(S)}

Created(S) ==
    [peers |-> [p \in DOMAIN d.peers \cup NewPeers(S) |->
                    IF p \in DOMAIN d.peers THEN d.peers[p]
                    ELSE [ip |-> p, docker |-> FALSE, ipset |-> FALSE]],
     groups |-> [g \in DOMAIN d.groups \cup NewGroups(S) |->
                    IF g \in DOMAIN d.groups THEN d.groups[g]
                    ELSE [del |-> FALSE, rank |-> Cardinality(DOMAIN d.groups) + 1]],
     members |-> d.members
        \cup UNION {{n} \X (S.groups[n].known \cup {RealPeer(S, ip) : ip \in S.groups[n].unknown})
                        : n \in NewGroups(S)},
     services |-> d.services,
     policies |-> [n \in DOMAIN d.policies \cup PolicyIDs(S) |->
                    IF n \in DOMAIN d.policies THEN d.policies[n] ELSE PolicyOf(S, S.rows[RowOf(S, n)])]]

Entities(S) ==
    {<<"peer", p>> : p \in NewPeers(S)} \cup {<<"group", g>> : g \in NewGroups(S)}
    \cup {<<"policy", n>> : n \in PolicyIDs(S)}

\* What a policy stands for; and whether its group was matched without the
\* members nobody is known for.
Origin(S, i) ==
    LET row == S.rows[i]
        g == {e.stg : e \in {x \in {row.src, row.tgt} : x.type = "group"}}
    IN  [raw |-> row.raw, ips |-> UNION {S.raw.sets[n] : n \in g}, asis |-> ~S.touched,
         lost |-> \E n \in g : S.groups[n].ex # NoID /\ S.groups[n].unknown # {}]

ApplyCheck(a, s) ==
    /\ app[a].pc = "idle" /\ s \in DOMAIN sessions
    /\ sessions[s].status \in {"parsed", "pending"} /\ Approved(sessions[s]) # {}
    /\ app' = [app EXCEPT ![a] = [@ EXCEPT !.pc = "mark", !.sid = s]]
    /\ UNCHANGED <<d, sessions, lastID, asked, sub, signalled, told, unresolved, updates, edits, faults, made>>

ApplyMark(a) ==
    LET s == app[a].sid
    IN  /\ app[a].pc = "mark"
        /\ app' = [app EXCEPT ![a].pc = "tx"]
        /\ sessions' = IF s \in DOMAIN sessions THEN [sessions EXCEPT ![s].status = "reviewing"]
                       ELSE sessions
        /\ UNCHANGED <<d, lastID, asked, sub, signalled, told, unresolved, updates, edits, faults, made>>

\* A session that is gone fails too.  A failed session stays in reviewing.
ApplySession(a) ==
    LET s == app[a].sid
        S == sessions[s]
    IN  /\ app[a].pc = "tx"
        /\ IF s \notin DOMAIN sessions \/ ApplyFails(S)
           THEN /\ app' = [app EXCEPT ![a].pc = "idle"]
                /\ UNCHANGED <<d, sessions, made>>
           ELSE /\ d' = Created(S)
                /\ sessions' = [sessions EXCEPT ![s].status = "applied"]
                /\ app' = [app EXCEPT ![a].pc = "queue", ![a].created = Entities(S),
                                          ![a].todo = Entities(S)]
                /\ made' = [n \in DOMAIN made \cup PolicyIDs(S) |->
                                IF n \in PolicyIDs(S) THEN Origin(S, RowOf(S, n)) ELSE made[n]]
        /\ UNCHANGED <<lastID, asked, sub, signalled, told, unresolved, updates, edits, faults>>

\* Variant: only the importing peer.
SessionPeerOnly(e) == {Self}

AffectedPeers(e) ==
    {Self} \cup
    CASE e[1] = "peer" -> {e[2]}
      [] e[1] = "group" -> GetAffectedPeersByPolicies(d, FindPoliciesByGroup(d, e[2]))
      [] OTHER -> GetAffectedPeersByPolicy(d, e[2]).val

\* Peers first, then groups, then policies, as they were created.
Turn(kind) == CASE kind = "peer" -> 1 [] kind = "group" -> 2 [] OTHER -> 3
FirstOf(E) == CHOOSE e \in E : \A f \in E : Turn(e[1]) <= Turn(f[1])

Fault(f) == f \in Faults /\ faults < MaxFaults /\ faults' = faults + 1

\* The next entity.  A resolution that fails or takes too long is logged and
\* falls back to the importing peer; a queue error (some peers may have got
\* their row) is kept for the answer.
ApplyQueue(a) ==
    LET e == FirstOf(app[a].todo)
    IN  /\ app[a].pc = "queue" /\ app[a].todo # {}
        /\ \/ /\ signalled' = signalled \cup AffectedPeers(e)
              /\ app' = [app EXCEPT ![a].todo = @ \ {e}]
              /\ UNCHANGED <<unresolved, faults>>
           \/ /\ Fault("resolve")
              /\ signalled' = signalled \cup {Self}
              /\ unresolved' = unresolved \cup AffectedPeers(e)
              /\ app' = [app EXCEPT ![a].todo = @ \ {e}]
           \/ /\ Fault("queue")
              /\ \E rows \in SUBSET AffectedPeers(e) : signalled' = signalled \cup rows
              /\ app' = [app EXCEPT ![a].todo = @ \ {e}, ![a].err = TRUE]
              /\ UNCHANGED unresolved
        /\ UNCHANGED <<d, sessions, lastID, asked, sub, told, updates, edits, made>>

\* 500 when a queue error was met, though all was committed; otherwise 200.
ApplyAnswer(a) ==
    /\ app[a].pc = "queue" /\ app[a].todo = {}
    /\ told' = IF app[a].err THEN told \cup UNION {AffectedPeers(e) : e \in app[a].created} ELSE told
    /\ app' = [app EXCEPT ![a] = [@ EXCEPT !.pc = "idle", !.created = {}, !.err = FALSE]]
    /\ UNCHANGED <<d, sessions, lastID, asked, sub, signalled, unresolved, updates, edits, faults, made>>

\* AddGroupMember and DeleteGroupMember of somebody else, at any time, with
\* the rows the change worker makes of them.
EditMembers(g, p) ==
    LET m == <<g, p>>
        db == [d EXCEPT !.members = IF m \in @ THEN @ \ {m} ELSE @ \cup {m}]
    IN  /\ edits < MaxEdits /\ updates + edits < MaxUpdates /\ edits' = edits + 1
        /\ d' = db
        /\ signalled' = signalled \cup GetAffectedPeersByPolicies(db, FindPoliciesByGroup(db, g))
                           \cup IF m \in d.members THEN {p} ELSE {}
        /\ UNCHANGED <<sessions, lastID, asked, sub, app, told, unresolved, updates, faults, made>>

Next ==
    \/ InitiateImport \/ CreateSession
    \/ \E h \in Submitters :
          \/ \E b \in Backups[h] : SubmitBackupSession(h, b)
          \/ ParseSession(h) \/ LoadRules(h) \/ ResolveRules(h)
    \/ \E s \in DOMAIN sessions :
          \/ \E i \in DOMAIN sessions[s].rows, st \in {"approved", "rejected"} : UpdateRule(s, i, st)
          \/ \E ip \in DOMAIN sessions[s].peers, p \in DOMAIN FirstDB.peers : UpdatePeer(s, ip, p)
          \/ \E n \in DOMAIN sessions[s].groups, g \in DOMAIN FirstDB.groups : UpdateGroup(s, n, g)
          \/ \E k \in DOMAIN sessions[s].svcs, v \in DOMAIN FirstDB.services : UpdateService(s, k, v)
          \/ CancelSession(s)
    \/ \E a \in Appliers :
          \/ \E s \in DOMAIN sessions : ApplyCheck(a, s)
          \/ ApplyMark(a) \/ ApplySession(a) \/ ApplyQueue(a) \/ ApplyAnswer(a)
    \/ \E g \in DOMAIN d.groups, p \in Moved \cap DOMAIN d.peers : EditMembers(g, p)

Spec == Init /\ [][Next]_vars

-----------------------------------------------------------------------------
(***************************************************************************)
(* Properties.                                                             *)
(***************************************************************************)

\* The rows of a session that is past its parsing are those of the backup it
\* holds, rule for rule: a second submission, before, during or after the
\* parsing of the first, never leaves the rows of one backup with the text
\* and the sets of another (session.go, import_store.go).
RowsMatchBackup ==
    \A s \in DOMAIN sessions : LET S == sessions[s] IN
        S.status # "pending" => [i \in DOMAIN S.rows |-> S.rows[i].raw] = S.raw.rules

\* Once no apply is in its fan-out, every peer with an agent whose rules the
\* imports changed, not only the importing peer, has a pending change, or the
\* apply was answered 500: though the peers are resolved entity by entity
\* after the commit, while others apply and edit groups, and queueing may
\* fail for any of them.  (Policies with all peers as an end point are not
\* refreshed for the peers that an import creates.)  Not claimed of peers
\* of an entity whose resolution failed, which is only logged.
Affected == {p \in DOMAIN FirstDB.peers \ Manual : Compile(d, p) # Compile(FirstDB, p)}
FannedOut == \A a \in Appliers : app[a].pc # "queue"
AffectedSignalled == FannedOut => Affected \subseteq signalled \cup told \cup unresolved

\* "A synchronous queue failure (nil/stopped/full worker, resolution failure)
\* fails the request" (ARCHITECTURE.md): the same without the exception.
FailClosed == FannedOut => Affected \subseteq signalled \cup told

-----------------------------------------------------------------------------
(***************************************************************************)
(* The meaning of a rule and of the policy made from it, for the packets   *)
(* of the rule's chain between the peer and another host.                  *)
(***************************************************************************)
Hosts == {d.peers[p].ip : p \in DOMAIN d.peers \ {Self}} \cup {PublicHost}
Ports == {0} \cup UNION {d.services[s].ports : s \in DOMAIN d.services}
DestOf(r) == IF r.dst \in {"limited", "subnet"} THEN Broadcast ELSE r.dst

PacketsOf(r) ==
    LET near == IF r.src = NoIP THEN {d.peers[Self].ip} ELSE {r.src}
        there == IF r.dst # NoIP THEN {DestOf(r)}
                 ELSE {d.peers[Self].ip, Multicast, Broadcast}
    IN  { pkt \in [src : IF Received(r) THEN Hosts ELSE near,
                   dst : IF Received(r) THEN there ELSE Hosts \cup {Multicast},
                   proto : {"tcp", "udp", "icmp", "igmp"}, port : Ports] :
              pkt.proto = "igmp" => pkt.dst = Multicast /\ pkt.port = 0 }

RawMatches(o, pkt) ==
    LET r == o.raw
    IN  /\ r.proto \in {"", pkt.proto}
        /\ r.ports = {} \/ pkt.port \in r.ports
        /\ (r.rest = "not") # (r.src \in {NoIP, pkt.src})
        /\ r.dst = NoIP \/ DestOf(r) = pkt.dst
        /\ r.set # <<>> => (IF r.set[2] = "src" THEN pkt.src ELSE pkt.dst) \in o.ips
        /\ r.pkt = "multicast" => pkt.dst = Multicast

PolicyMatches(n, rule, chain, pkt) ==
    /\ rule.chain = chain /\ rule.proto \in {"any", pkt.proto}
    /\ rule.dp = NoPort \/ pkt.port \in d.services[rule.dp[1]].ports
    /\ AddrMatches([sets |-> [g \in DOMAIN d.groups |-> {d.peers[q].ip : q \in Members(d, g)}]],
                   rule.addr, IF rule.side = "src" THEN pkt.src ELSE pkt.dst)

SameMeaning(n) ==
    LET o == made[n]
        pol == SinglePolicy(d, Self, d.policies[n])
    IN  /\ pol.ok
        /\ \A pkt \in PacketsOf(o.raw) :
               LET hits == {x \in pol.val : PolicyMatches(n, x, o.raw.chain, pkt)}
               IN  /\ RawMatches(o, pkt) <=> hits # {}
                   /\ \A x \in hits : x.act = o.raw.target

\* The rules the importer has a policy for: ports of a service that has just
\* these; ICMP; and received IGMP, multicast and broadcast without a further
\* match.  A set must not have been matched with a group that lacks members.
Expressible(n) ==
    LET r == made[n].raw
        own == IF Received(r) THEN r.dst ELSE r.src
        plain == r.src = NoIP /\ r.set = <<>> /\ r.ports = {} /\ r.target = "ACCEPT"
    IN  /\ r.rest = "" /\ ~made[n].lost
        /\ own \in OwnIPs \cup {NoIP} \/ BroadcastID(r) # NoID
        /\ r.set # <<>> => (IF r.set[2] = "src" THEN r.src ELSE r.dst) = NoIP
        /\ CASE r.pkt = "multicast" -> plain /\ r.proto = "" /\ Received(r)
             [] r.proto = "igmp" -> plain /\ r.chain = "INPUT"
             [] OTHER -> IF BroadcastID(r) # NoID THEN plain /\ r.proto = "udp" /\ Received(r)
                         ELSE /\ r.proto = "icmp" \/ r.ports # {}
                              /\ d.services[d.policies[n].svc].ports = r.ports

\* A rule that was imported as the resolver mapped it decides, as a policy
\* compiled for the importing peer, about the same packets of its chain in the
\* same way, whatever was staged, created or matched on the way (resolver.go,
\* applier.go, and the compiler behind them), until somebody edits a group.
KeepsMeaning ==
    edits = 0 => \A n \in DOMAIN made : made[n].asis /\ Expressible(n) => SameMeaning(n)

\* Every rule the parser calls clean can be fully mapped to a policy
\* (types.go): what is imported as the resolver mapped it keeps its meaning.
CleanKeepsMeaning == \A n \in DOMAIN made : made[n].asis => SameMeaning(n)

=============================================================================
