------------------------------- MODULE Catalog -------------------------------
(***************************************************************************)
(* Editing what the firewall rules are made from: the handlers of peers,   *)
(* groups, services and policies, the queue of changes they feed, the      *)
(* worker that turns queued changes into rows of pending_changes, and the  *)
(* approval and the rollback of pending changes.  What the rules are is    *)
(* Compiler's; here it matters which peers an edit leaves with rules that  *)
(* are no longer those of the database.                                    *)
(*                                                                         *)
(* A handler is one step here (PendingChanges takes the policy handlers    *)
(* apart); the worker runs later and resolves the peers of a group change  *)
(* against the database as it is then.                                     *)
(***************************************************************************)
EXTENDS Compiler

CONSTANTS
    PeerRows,      \* rows a peer can have: peer id -> set of rows
    FirstPeers,    \* the peers registered at first, with their first rows
    Manual,        \* peers without an agent, which alone can be edited
    Groups,        \* group ids
    FirstGroups,   \* the groups there at first
    FirstMembers,  \* the members of the groups at first
    ServiceRows,   \* rows a service can have: service id -> set of rows
    FirstServices, \* the services there at first, with their rows
    PolicyRows,    \* what a policy can be made: set of rows
    FirstPolicies, \* the policy that may be there at first is one of these
    MaxPolicies,   \* bound on the policies created
    MaxEdits,      \* bound on the edits
    Rollbacks      \* whether changes are rolled back

\* The columns of the tables.
PeerRow == [ip : STRING, docker : BOOLEAN, ipset : BOOLEAN]
GroupRow == [del : BOOLEAN]
Protocols == {"tcp", "udp", "icmp", "igmp", "vrrp"}
ServiceRow ==
    [kind : {"ports", "igmp", "vrrp", "multicast", "broadcast"}, protos : SUBSET Protocols,
     dst : BOOLEAN, src : BOOLEAN, ct : BOOLEAN, del : BOOLEAN]
EndPoint ==
    [type : {"peer", "group", "special"}, id : DOMAIN PeerRows \cup Groups \cup SpecialIDs,
     ip : STRING]
PolicyRow ==
    [src : EndPoint, tgt : EndPoint, svc : DOMAIN ServiceRows,
     act : {"ACCEPT", "DROP", "LOG_DROP"}, scope : {"host", "docker", "both"},
     dir : {"both", "forward", "backward"}, on : BOOLEAN, prio : Nat, del : BOOLEAN]

IsTable(t, ids, rows) == DOMAIN t \subseteq ids /\ t \in [DOMAIN t -> rows]

ASSUME CatalogAssumption ==
    /\ \A p \in DOMAIN PeerRows : PeerRows[p] \subseteq PeerRow
    /\ \A s \in DOMAIN ServiceRows : ServiceRows[s] \subseteq ServiceRow
    /\ \A s \in DOMAIN ServiceRows : \A row \in ServiceRows[s] : ~row.del
    /\ IsTable(FirstPeers, DOMAIN PeerRows, PeerRow) /\ Manual \subseteq DOMAIN PeerRows
    /\ FirstGroups \subseteq Groups /\ FirstMembers \subseteq FirstGroups \X DOMAIN FirstPeers
    /\ IsTable(FirstServices, DOMAIN ServiceRows, ServiceRow)
    /\ PolicyRows \cup FirstPolicies \subseteq PolicyRow
    /\ MaxPolicies \in Nat /\ MaxEdits \in Nat /\ Rollbacks \in BOOLEAN

VARIABLES
    d,        \* the tables peers, groups, group_members, services, policies
    snaps,    \* change_snapshots, oldest first: [ent, action, row, members]
    pending,  \* pending_changes: <<peer, entity>>
    queue,    \* changes the worker has not processed yet
    bundle,   \* what each peer's newest bundle was compiled to
    used,     \* entities whose ids are given out; AUTOINCREMENT keeps them so
    edits,    \* number of edits so far
    adrift,   \* peers whose rules changed without any signal (history)
    partial,  \* a change was approved alone, so that its snapshot is gone and
              \* those of others are kept (history)
    forced    \* a rollback or a stale request made a reference (history)

vars == <<d, snaps, pending, queue, bundle, used, edits, adrift, partial, forced>>

Peer == DOMAIN d.peers
Without(f, k) == [x \in DOMAIN f \ {k} |-> f[x]]
With(f, k, v) == [x \in DOMAIN f \cup {k} |-> IF x = k THEN v ELSE f[x]]

NamesMissingPeer(db, row) ==
    \E e \in {row.src, row.tgt} : e.type = "peer" /\ e.id \notin DOMAIN db.peers

Dangling(db, row) ==
    \/ ~LiveService(db, row.svc)
    \/ NamesMissingPeer(db, row)
    \/ \E e \in {row.src, row.tgt} : e.type = "group" /\ ~LiveGroup(db, e.id)

\* A database with at most one policy, everything applied.
Init ==
    /\ \E rows \in {<<>>} \cup {<<row>> : row \in FirstPolicies} :
           /\ d = [peers |-> FirstPeers, groups |-> [g \in FirstGroups |-> [del |-> FALSE]],
                   members |-> FirstMembers, services |-> FirstServices, policies |-> rows]
           /\ \A n \in DOMAIN rows : ~Dangling(d, rows[n])
    /\ snaps = <<>> /\ pending = {} /\ queue = <<>>
    /\ bundle = [p \in Peer |-> Compile(d, p)]
    /\ used = {<<"peer", p>> : p \in Peer} \cup {<<"group", g>> : g \in FirstGroups}
                \cup {<<"service", s>> : s \in DOMAIN FirstServices}
                \cup {<<"policy", n>> : n \in DOMAIN d.policies}
    /\ edits = 0
    /\ adrift = {} /\ partial = FALSE /\ forced = FALSE

-----------------------------------------------------------------------------
(***************************************************************************)
(* Snapshots and the queue.                                                *)
(***************************************************************************)

\* The first change of an entity is kept, for a rollback to undo them all.
Snapshot(ent, action, row, members) ==
    snaps' = IF \E i \in DOMAIN snaps : snaps[i].ent = ent THEN snaps
             ELSE Append(snaps, [ent |-> ent, action |-> action, row |-> row,
                                 members |-> members])

SnapshotPolicy(n, action, row) == Snapshot(<<"policy", n>>, action, row, {})
SnapshotService(s, action, row) == Snapshot(<<"service", s>>, action, row, {})
SnapshotGroup(g, action) ==
    Snapshot(<<"group", g>>, action, [del |-> FALSE], {m \in d.members : m[1] = g})

PeersOf(ent, peers) == [kind |-> "peers", ent |-> ent, peers |-> peers]
GroupOf(ent) == [kind |-> "group", ent |-> ent, peers |-> {}]

Edit == edits < MaxEdits /\ edits' = edits + 1
NewID(ent) == ent \notin used /\ used' = used \cup {ent}

\* Queueing no peers queues nothing.
QueuePeers(ent, peers) ==
    queue' = IF peers = {} THEN queue ELSE Append(queue, PeersOf(ent, peers))

QueueGroup(ent) == queue' = Append(queue, GroupOf(ent))

Kept == UNCHANGED <<pending, bundle, adrift, partial>>

-----------------------------------------------------------------------------
(***************************************************************************)
(* Policies.  A reference to a service is a foreign key; the others, and   *)
(* whether the service is marked as deleted, are not looked at.            *)
(***************************************************************************)
References(row) == row.svc \in DOMAIN d.services

LivePolicies == {n \in DOMAIN d.policies : ~d.policies[n].del}

\* A policy whose peers cannot be resolved is there, without a signal (500).
CreatePolicy(row) ==
    LET n == Cardinality({u \in used : u[1] = "policy"}) + 1
        ent == <<"policy", n>>
        db == [d EXCEPT !.policies = With(@, n, row)]
    IN  /\ Edit /\ n <= MaxPolicies /\ NewID(ent) /\ References(row)
        /\ d' = db
        /\ SnapshotPolicy(n, "create", row)
        /\ QueuePeers(ent, GetAffectedPeersByPolicy(db, n).val)
        /\ forced' = (forced \/ Dangling(d, row))
        /\ Kept

\* The peers before and after the change; when only the first are known, those.
PoliciesFanOut(n, db) ==
    GetAffectedPeersByPolicy(d, n).val \cup GetAffectedPeersByPolicy(db, n).val

\* UpdatePolicy, and PatchPolicy where only enabled changes.
UpdatePolicy(n, row) ==
    LET db == [d EXCEPT !.policies[n] = row]
    IN  /\ Edit /\ n \in LivePolicies /\ References(row)
        /\ row # d.policies[n]
        /\ GetAffectedPeersByPolicy(d, n).ok
        /\ d' = db
        /\ SnapshotPolicy(n, "update", d.policies[n])
        /\ QueuePeers(<<"policy", n>>, PoliciesFanOut(n, db))
        /\ forced' = (forced \/ Dangling(d, row))
        /\ UNCHANGED used /\ Kept

PatchPolicy(n) ==
    n \in LivePolicies /\ UpdatePolicy(n, [d.policies[n] EXCEPT !.on = ~@])

DeletePolicy(n) ==
    /\ Edit /\ n \in LivePolicies
    /\ GetAffectedPeersByPolicy(d, n).ok
    /\ d' = [d EXCEPT !.policies[n].del = TRUE]
    /\ SnapshotPolicy(n, "delete", d.policies[n])
    /\ QueuePeers(<<"policy", n>>, GetAffectedPeersByPolicy(d, n).val)
    /\ UNCHANGED <<used, forced>> /\ Kept

-----------------------------------------------------------------------------
(***************************************************************************)
(* Groups.  Their snapshots hold the members as they were.                 *)
(***************************************************************************)
CreateGroup(g) ==
    /\ Edit /\ NewID(<<"group", g>>)
    /\ d' = [d EXCEPT !.groups = With(@, g, [del |-> FALSE])]
    /\ SnapshotGroup(g, "create")
    /\ QueueGroup(<<"group", g>>)
    /\ UNCHANGED forced /\ Kept

\* UpdateGroup gives another name or description, neither of which is modelled.
UpdateGroup(g) ==
    /\ Edit /\ LiveGroup(d, g)
    /\ SnapshotGroup(g, "update")
    /\ QueueGroup(<<"group", g>>)
    /\ UNCHANGED <<d, used, forced>> /\ Kept

\* Variant: only the policies with the group as target.
GroupIsTarget(g) ==
    \E n \in FindPoliciesByGroup(d, g) : d.policies[n].tgt.type = "group" /\ d.policies[n].tgt.id = g

GroupInUse(g) == FindPoliciesByGroup(d, g) # {}

DeleteGroup(g) ==
    /\ Edit /\ LiveGroup(d, g) /\ ~GroupInUse(g)
    /\ d' = [d EXCEPT !.groups[g].del = TRUE]
    /\ SnapshotGroup(g, "delete")
    /\ QueueGroup(<<"group", g>>)
    /\ UNCHANGED <<used, forced>> /\ Kept

AddGroupMember(g, p) ==
    /\ Edit /\ LiveGroup(d, g) /\ p \in Peer /\ <<g, p>> \notin d.members
    /\ d' = [d EXCEPT !.members = @ \cup {<<g, p>>}]
    /\ SnapshotGroup(g, "update")
    /\ QueueGroup(<<"group", g>>)
    /\ UNCHANGED <<used, forced>> /\ Kept

\* Variant: the group's change is thought to reach the removed peer too.
RemovedPeerForgotten(g, p) == queue' = queue \o << GroupOf(<<"group", g>>) >>

\* The removed peer is no longer a member when the worker resolves the group.
RemovedPeerQueue(g, p) ==
    queue' = queue \o << GroupOf(<<"group", g>>), PeersOf(<<"group", g>>, {p}) >>

DeleteGroupMember(g, p) ==
    /\ Edit /\ LiveGroup(d, g) /\ <<g, p>> \in d.members
    /\ d' = [d EXCEPT !.members = @ \ {<<g, p>>}]
    /\ SnapshotGroup(g, "update")
    /\ RemovedPeerQueue(g, p)
    /\ UNCHANGED <<used, forced>> /\ Kept

-----------------------------------------------------------------------------
(***************************************************************************)
(* Services.  System services (the kinds other than ports) are read-only.  *)
(***************************************************************************)
FindPoliciesUsingService(s) == {n \in LivePolicies : d.policies[n].svc = s}

QueueServiceChange(s) ==
    QueuePeers(<<"service", s>>, GetAffectedPeersByPolicies(d, FindPoliciesUsingService(s)))

CreateService(s, row) ==
    /\ Edit /\ NewID(<<"service", s>>) /\ row.kind = "ports"
    /\ d' = [d EXCEPT !.services = With(@, s, row)]
    /\ SnapshotService(s, "create", row)
    /\ QueueServiceChange(s)
    /\ UNCHANGED forced /\ Kept

UpdateService(s, row) ==
    /\ Edit /\ LiveService(d, s) /\ d.services[s].kind = "ports"
    /\ row.kind = "ports" /\ row # d.services[s]
    /\ d' = [d EXCEPT !.services[s] = row]
    /\ SnapshotService(s, "update", d.services[s])
    /\ QueueServiceChange(s)
    /\ UNCHANGED <<used, forced>> /\ Kept

ServiceInUse(s) == FindPoliciesUsingService(s) # {}

DeleteService(s) ==
    /\ Edit /\ LiveService(d, s) /\ d.services[s].kind = "ports"
    /\ ~ServiceInUse(s)
    /\ d' = [d EXCEPT !.services[s].del = TRUE]
    /\ SnapshotService(s, "delete", d.services[s])
    /\ QueueServiceChange(s)
    /\ UNCHANGED <<used, forced>> /\ Kept

-----------------------------------------------------------------------------
(***************************************************************************)
(* Peers.  Edits of peers take effect at once, have no snapshot and signal *)
(* nobody, although the rules of other peers may name the address.         *)
(***************************************************************************)
Changed(db) == {q \in DOMAIN db.peers \cap Peer : Compile(db, q) # Compile(d, q)}

InsertPeer(p, row) == [d EXCEPT !.peers = With(@, p, row)]

CreatePeer(p, row) ==
    LET db == InsertPeer(p, row)
    IN  /\ Edit /\ NewID(<<"peer", p>>) /\ ValidPeerCIDR(row.ip)
        /\ d' = db
        /\ bundle' = With(bundle, p, [ok |-> FALSE])
        /\ adrift' = adrift \cup Changed(db) \cup {p}
        /\ UNCHANGED <<snaps, pending, queue, partial, forced>>

ReplacePeer(p, row) == [d EXCEPT !.peers[p] = row]

UpdatePeer(p, row) ==
    LET db == ReplacePeer(p, row)
    IN  /\ Edit /\ p \in Peer \cap Manual /\ row # d.peers[p] /\ ValidPeerCIDR(row.ip)
        /\ d' = db
        /\ adrift' = adrift \cup Changed(db)
        /\ UNCHANGED <<snaps, pending, queue, bundle, used, partial, forced>>

PeerInUse(p) ==
    \E n \in LivePolicies : \E e \in {d.policies[n].src, d.policies[n].tgt} :
        \/ e.type = "peer" /\ e.id = p
        \/ e.type = "group" /\ <<e.id, p>> \in d.members

RemovePeer(p) == [d EXCEPT !.peers = Without(@, p), !.members = {m \in @ : m[2] # p}]

DeletePeer(p) ==
    LET db == RemovePeer(p)
    IN  /\ Edit /\ p \in Peer /\ ~PeerInUse(p)
        /\ d' = db
        /\ pending' = {r \in pending : r[1] # p}
        /\ bundle' = Without(bundle, p)
        /\ adrift' = (adrift \cup Changed(db)) \ {p}
        /\ UNCHANGED <<snaps, queue, used, partial, forced>>

-----------------------------------------------------------------------------
(***************************************************************************)
(* The worker, approval and rollback.                                      *)
(***************************************************************************)

\* Rows are inserted for the peers that still exist.
ProcessChange ==
    LET c == Head(queue)
        peers == IF c.kind = "peers" THEN c.peers
                 ELSE GetAffectedPeersByPolicies(d, FindPoliciesByGroup(d, c.ent[2]))
    IN  /\ queue # <<>>
        /\ pending' = pending \cup {<<p, c.ent>> : p \in peers \cap Peer}
        /\ queue' = Tail(queue)
        /\ UNCHANGED <<d, snaps, bundle, used, edits, adrift, partial, forced>>

\* Rows marked as deleted go; the foreign key keeps a service that is in use,
\* and with it everything else, as the transaction fails.
Purged(db) ==
    LET kept(t) == [x \in {y \in DOMAIN t : ~t[y].del} |-> t[x]]
    IN  [peers |-> db.peers,
         groups |-> kept(db.groups),
         members |-> {m \in db.members : LiveGroup(db, m[1])},
         services |-> kept(db.services),
         policies |-> kept(db.policies)]

PurgeFails(db) ==
    \E n \in DOMAIN db.policies : /\ ~db.policies[n].del
                                  /\ db.policies[n].svc \in DOMAIN db.services
                                  /\ db.services[db.policies[n].svc].del

\* CompileAndStore for a peer, then the rows and the snapshots that are left,
\* then CleanupIfComplete, which does nothing as long as there are rows.
Approve(p, rest, left) ==
    LET done == rest = {} /\ ~PurgeFails(d)
    IN  /\ p \in Peer /\ Compile(d, p).ok
        /\ bundle' = [bundle EXCEPT ![p] = Compile(d, p)]
        /\ pending' = rest
        /\ d' = IF done THEN Purged(d) ELSE d
        /\ snaps' = IF done THEN <<>> ELSE left
        /\ partial' = (snaps' # <<>> /\ (partial \/ left # snaps))
        /\ adrift' = adrift \ {p}
        /\ UNCHANGED <<queue, used, edits, forced>>

\* ApplyPeerPendingBundle, whether there are rows of the peer or not.
Apply(p) == Approve(p, {r \in pending : r[1] # p}, snaps)

SnapshotOf(ent) == CHOOSE i \in DOMAIN snaps : snaps[i].ent = ent

\* DeleteSnapshotTx
SnapshotDeleted(ent) ==
    IF \E i \in DOMAIN snaps : snaps[i].ent = ent THEN RemoveAt(snaps, SnapshotOf(ent)) ELSE snaps

\* ApplyEntityPendingChanges: the bundle of the peer is compiled from all that
\* has changed; the row of one entity goes, and its snapshot with it, though
\* other peers may wait for the same change and other entities for theirs.
ApplyEntity(p, ent) ==
    <<p, ent>> \in pending /\ Approve(p, pending \ {<<p, ent>>}, SnapshotDeleted(ent))

\* Undoing a creation needs that no policy at all, deleted or not, refers to it.
CreateRollbackBlocked(db, ent) ==
    \/ ent[1] = "group" /\ \E n \in DOMAIN db.policies :
           \E e \in {db.policies[n].src, db.policies[n].tgt} : e.type = "group" /\ e.id = ent[2]
    \/ ent[1] = "service" /\ \E n \in DOMAIN db.policies : db.policies[n].svc = ent[2]

\* The rows of members refer to peers; a missing one fails the transaction.
RestoreBlocked(db, s) ==
    s.ent[1] = "group" /\ \E m \in s.members : m[2] \notin DOMAIN db.peers

CanRollback(db, s) ==
    IF s.action = "create" THEN ~CreateRollbackBlocked(db, s.ent) ELSE ~RestoreBlocked(db, s)

\* A table with a set of snapshots, at most one of each entity, undone: what
\* was created is deleted, what is still there gets its old row back.
RolledBackRows(kind, rows, S) ==
    LET of(k) == {s \in S : s.ent = <<kind, k>>}
    IN  [k \in {x \in DOMAIN rows : \A s \in of(x) : s.action # "create"} |->
            IF of(k) = {} THEN rows[k] ELSE (CHOOSE s \in of(k) : TRUE).row]

\* The members of a group are replaced.
RolledBack(db, S) ==
    [peers |-> db.peers,
     groups |-> RolledBackRows("group", db.groups, S),
     members |-> {m \in db.members : \A s \in S : s.ent # <<"group", m[1]>>}
                    \cup UNION {s.members : s \in {x \in S : x.action # "create"}},
     services |-> RolledBackRows("service", db.services, S),
     policies |-> RolledBackRows("policy", db.policies, S)]

\* What a rollback leaves behind: nobody is told, and a policy may come back
\* to refer to something that is gone.
AfterRollback(db) ==
    /\ d' = db
    /\ adrift' = adrift \cup {q \in Peer : Compile(db, q) # bundle[q]}
    /\ UNCHANGED <<queue, bundle, used, edits>>

\* One entity goes back to its snapshot and its rows go.
RollbackEntitySnapshot(i) ==
    /\ Rollbacks /\ CanRollback(d, snaps[i])
    /\ AfterRollback(RolledBack(d, {snaps[i]}))
    /\ snaps' = RemoveAt(snaps, i)
    /\ pending' = {r \in pending : r[2] # snaps[i].ent}
    /\ forced' = TRUE /\ UNCHANGED partial

\* Everything goes back, the youngest snapshot first; one failure undoes it all.
RollbackSnapshots ==
    LET younger(i) == {snaps[j] : j \in {k \in DOMAIN snaps : k > i}}
        db == RolledBack(d, younger(0))
    IN  /\ Rollbacks /\ snaps # <<>>
        /\ \A i \in DOMAIN snaps : CanRollback(RolledBack(d, younger(i)), snaps[i])
        /\ AfterRollback(db)
        /\ snaps' = <<>> /\ pending' = {} /\ partial' = FALSE
        /\ forced' = (forced \/ \E n \in DOMAIN db.policies :
                                \/ NamesMissingPeer(db, db.policies[n])
                                \/ partial /\ Dangling(db, db.policies[n]))

-----------------------------------------------------------------------------
\* A request may name what is gone, but no id that was never given out.
Given(row) ==
    \A e \in {row.src, row.tgt} : e.type # "special" => <<e.type, e.id>> \in used

Requests == {row \in PolicyRows : Given(row)}

EntityEdit ==
    \/ \E row \in Requests : CreatePolicy(row)
    \/ \E n \in LivePolicies, row \in Requests : UpdatePolicy(n, row)
    \/ \E n \in LivePolicies : PatchPolicy(n)
    \/ \E n \in LivePolicies : DeletePolicy(n)
    \/ \E g \in Groups : CreateGroup(g)
    \/ \E g \in Groups : UpdateGroup(g)
    \/ \E g \in Groups : DeleteGroup(g)
    \/ \E g \in Groups, p \in Peer : AddGroupMember(g, p)
    \/ \E g \in Groups, p \in Peer : DeleteGroupMember(g, p)
    \/ \E s \in DOMAIN ServiceRows : \E row \in ServiceRows[s] : CreateService(s, row)
    \/ \E s \in DOMAIN ServiceRows : \E row \in ServiceRows[s] : UpdateService(s, row)
    \/ \E s \in DOMAIN ServiceRows : DeleteService(s)

PeerEdit ==
    \/ \E p \in DOMAIN PeerRows : \E row \in PeerRows[p] : CreatePeer(p, row)
    \/ \E p \in Peer : \E row \in PeerRows[p] : UpdatePeer(p, row)
    \/ \E p \in Peer : DeletePeer(p)

Next ==
    \/ EntityEdit
    \/ PeerEdit
    \/ ProcessChange
    \/ \E p \in Peer : Apply(p)
    \/ \E r \in pending : ApplyEntity(r[1], r[2])
    \/ \E i \in DOMAIN snaps : RollbackEntitySnapshot(i)
    \/ RollbackSnapshots

Spec == Init /\ [][Next]_vars

-----------------------------------------------------------------------------
(***************************************************************************)
(* Properties.                                                             *)
(***************************************************************************)
Entity ==
    ({"policy"} \X Nat) \cup ({"group"} \X Groups) \cup ({"service"} \X DOMAIN ServiceRows)
Change == [kind : {"peers", "group"}, ent : Entity, peers : SUBSET DOMAIN PeerRows]
SnapshotRow ==
    [ent : Entity, action : {"create", "update", "delete"},
     row : PolicyRow \cup ServiceRow \cup GroupRow, members : SUBSET (Groups \X DOMAIN PeerRows)]

\* The types of the tables, the queue and the history.
TypeOK ==
    /\ d = [peers |-> d.peers, groups |-> d.groups, members |-> d.members,
            services |-> d.services, policies |-> d.policies]
    /\ IsTable(d.peers, DOMAIN PeerRows, PeerRow) /\ IsTable(d.groups, Groups, GroupRow)
    /\ d.members \subseteq Groups \X DOMAIN PeerRows
    /\ IsTable(d.services, DOMAIN ServiceRows, ServiceRow) /\ IsTable(d.policies, Nat, PolicyRow)
    /\ snaps \in Seq(SnapshotRow) /\ queue \in Seq(Change)
    /\ pending \subseteq (DOMAIN PeerRows) \X Entity
    /\ DOMAIN bundle = Peer
    /\ used \subseteq Entity \cup ({"peer"} \X DOMAIN PeerRows)
    /\ edits \in 0..MaxEdits /\ adrift \subseteq DOMAIN PeerRows
    /\ partial \in BOOLEAN /\ forced \in BOOLEAN

Affects(c) ==
    IF c.kind = "peers" THEN c.peers
    ELSE GetAffectedPeersByPolicies(d, FindPoliciesByGroup(d, c.ent[2]))

Signalled(p) ==
    \/ \E r \in pending : r[1] = p
    \/ \E i \in DOMAIN queue : p \in Affects(queue[i])

\* A peer whose rules in the database are not those of its newest bundle has
\* a pending change, or one is on its way: whatever was edited, in whatever
\* order the worker catches up, and whoever left a group in between.  Exempt
\* are peers that edits of peers or a rollback changed (these signal nobody)
\* and peers of a policy that refers to something gone.
StaleIsPending ==
    \A p \in Peer \ adrift :
        \/ Compile(d, p) = bundle[p]
        \/ \E n \in LoadApplicablePolicies(d, p) : Dangling(d, d.policies[n])
        \/ Signalled(p)

\* Edits, deletions, approvals (of a peer, or of one change for a peer) and a
\* rollback of everything never leave a policy whose peers cannot be resolved
\* (it could not be edited or deleted any more) or a peer that cannot be
\* compiled, because it needs something that is gone.  Four things can
\* (forced): a rollback of one change alone, a request that names what was
\* just deleted, a rollback that brings back a policy of a deleted peer, and
\* one that does so after some change was approved alone (partial), which
\* then is missing from what is rolled back.
Usable ==
    ~forced => /\ \A n \in LivePolicies : GetAffectedPeersByPolicy(d, n).ok
               /\ \A p \in Peer : Compile(d, p).ok

\* What Usable leaves out of a rollback of everything: that it leads from
\* sound tables to sound ones, deleted peers aside.  It does not after
\* ApplyEntityPendingChanges, which deletes the snapshot of one change while
\* others stay (MCCatalogApproved.cfg): update a group or service, delete its
\* policy, delete it, approve it alone, roll back the rest.
RollbackSound ==
    [][ RollbackSnapshots /\ ~forced /\ (\A n \in DOMAIN d'.policies : ~NamesMissingPeer(d', d'.policies[n]))
        => \A n \in DOMAIN d'.policies : d'.policies[n].del \/ ~Dangling(d', d'.policies[n]) ]_vars

\* Rows the compiler has rules for whatever else is there.  The handlers take
\* others too: a source "internet", and agents without an IPv4 address.
PlainPeer(row) == row.ip \notin {NoIP, AnyIP, SixIP}
PlainEnd(e) ==
    /\ e.ip = NoIP \/ (e.type = "peer" /\ ValidPeerCIDR(e.ip))
    /\ e.type = "special" => e.id \in SpecialIDs
PlainPolicy(row) == PlainEnd(row.src) /\ PlainEnd(row.tgt) /\ ~Special(row.src, {"internet"})
PlainRows ==
    /\ \A p \in DOMAIN PeerRows : \A row \in PeerRows[p] : PlainPeer(row)
    /\ \A p \in DOMAIN FirstPeers : PlainPeer(FirstPeers[p])
    /\ \A row \in PolicyRows \cup FirstPolicies : PlainPolicy(row)

Ephemeral == <<"eph">>
Port(s, row, dst) ==
    IF dst THEN (IF row.dst THEN <<s, "d">> ELSE Ephemeral) ELSE (IF row.src THEN <<s, "s">> ELSE Ephemeral)

\* A packet of a service from address a to address b, and the answer to it.
Request(chain, s, pr, a, b) ==
    [chain |-> chain, src |-> a, dst |-> b, proto |-> pr,
     dp |-> Port(s, d.services[s], TRUE), sp |-> Port(s, d.services[s], FALSE)]
Reply(chain, s, pr, a, b) ==
    LET r == Request(chain, s, pr, a, b)
    IN  [r EXCEPT !.dp = r.sp, !.sp = r.dp]

Accepted(b, pkt) == Verdicts(b, pkt) = {"ACCEPT"}

\* A policy drops what another accepts only if it comes first.
NotOverruled(n) ==
    \A m \in LivePolicies \ {n} :
        d.policies[m].on => d.policies[m].act = "ACCEPT" \/ d.policies[m].prio > d.policies[n].prio

\* What a policy allows works end to end: for an enabled ACCEPT policy between
\* two peers, on the host and in both directions, that no policy of the same
\* or a lower priority number may drop, the request leaves the source, enters
\* the target, and the answer leaves the target and enters the source.  The
\* two firewalls are compiled apart, one with group sets and one without.
EndToEnd ==
    \A n \in LivePolicies : \A p, q \in Peer :
        LET pol == d.policies[n]
            s == pol.svc
            a == d.peers[p].ip
            b == d.peers[q].ip
            bp == Compile(d, p)
            bq == Compile(d, q)
        IN  ( /\ pol.on /\ pol.act = "ACCEPT" /\ pol.dir = "both" /\ pol.scope # "docker"
              /\ LiveService(d, s) /\ d.services[s].kind = "ports"
              /\ pol.src.ip = NoIP /\ pol.tgt.ip = NoIP
              /\ Has(d, pol.src, p) /\ a # b
              /\ Has(d, pol.tgt, q) \/ (Special(pol.tgt, {"all_peers"}) /\ Has(d, pol.src, q))
              /\ NotOverruled(n) /\ bp.ok /\ bq.ok )
            => \A pr \in d.services[s].protos :
                   /\ Accepted(bp, Request("OUTPUT", s, pr, a, b))
                   /\ Accepted(bq, Request("INPUT", s, pr, a, b))
                   /\ Accepted(bq, Reply("OUTPUT", s, pr, b, a))
                   /\ Accepted(bp, Reply("INPUT", s, pr, b, a))

\* The address of a host, not a range of them.
Unicast(ip) == ip \notin {AnyIP, Multicast, Broadcast, Loopback}

\* An override counts for a peer only.  Answers to a multicast request come
\* from anywhere.
Covers(e, x) ==
    \/ e.ip = x
    \/ /\ e.ip = NoIP \/ e.type # "peer"
       /\ \/ Special(e, {"any_ip"} \cup MulticastIDs)
          \/ Special(e, {"internet"}) /\ x = PublicHost
          \/ \E p \in Peer : d.peers[p].ip = x /\ (Has(d, e, p) \/ Special(e, {"all_peers"}))

\* A service without ports is its protocols as a whole.
Includes(t, s, pr) ==
    t = s \/ (pr \in d.services[t].protos /\ ~d.services[t].dst /\ ~d.services[t].src)

\* Nothing else gets in: a request of a service that a peer accepts from an
\* address is explained by an enabled policy that is not deleted, accepts
\* that service, names the peer at one end and covers the address at the
\* other (or, where one end is special, at the peer's own end too).  (That
\* all peers have the address of a host is the user's affair: a peer may be
\* registered with a range.)
OnlyRelated ==
    (\A p \in Peer : Unicast(d.peers[p].ip)) =>
    \A q \in Peer : LET b == Compile(d, q) IN b.ok =>
        \A s \in {x \in DOMAIN d.services : d.services[x].kind = "ports"} :
        \A pr \in d.services[s].protos, x \in {d.peers[p].ip : p \in Peer} \cup {PublicHost} :
        \A pkt \in {Request("INPUT", s, pr, x, d.peers[q].ip),
                    Reply("INPUT", s, pr, x, d.peers[q].ip)} :
            "ACCEPT" \in Verdicts(b, pkt) =>
                \E n \in LivePolicies :
                    LET pol == d.policies[n]
                        special == "special" \in {pol.src.type, pol.tgt.type}
                    IN  /\ pol.on /\ pol.act = "ACCEPT" /\ Includes(pol.svc, s, pr)
                        /\ \/ Has(d, pol.tgt, q) /\ Covers(pol.src, x)
                           \/ Has(d, pol.src, q) /\ Covers(pol.tgt, x)
                           \/ /\ special
                              /\ Has(d, pol.src, q) \/ Has(d, pol.tgt, q)
                              /\ Covers(pol.src, x) \/ Covers(pol.tgt, x)

\* The compiler lets every policy of the multicast service, and every policy
\* with a multicast source, receive by packet type; the preview shows this for
\* an ACCEPT policy that has both.  A multicast target receives nothing.
MulticastShown(pol) ==
    LET service == d.services[pol.svc].kind = "multicast"
        source == Special(pol.src, MulticastIDs)
    IN  service \/ source =>
            (service /\ source /\ pol.act = "ACCEPT") \/ Special(pol.tgt, MulticastIDs)

\* The preview of a policy for a peer without group sets, whose own address
\* is not a range over everything, shows every rule the policy has in the
\* peer's bundle, as long as both ends resolve (the preview resolves both,
\* the compiler only what it needs) and multicast is no exception.
PreviewShowsAll ==
    \A n \in LivePolicies : \A p \in Peer :
        LET pol == d.policies[n]
            me == d.peers[p]
        IN  ( /\ n \in LoadApplicablePolicies(d, p) /\ Compile(d, p).ok
              /\ ~me.ipset /\ me.ip # AnyIP /\ MulticastShown(pol)
              /\ ResolveEntityCIDRs(d, pol.src, me.ip).ok
              /\ ResolveEntityCIDRs(d, pol.tgt, me.ip).ok \/ Special(pol.tgt, {"internet"}) )
            => /\ PreviewCompile(d, p, pol).ok
               /\ Compile(d, p).rules[n] \subseteq PreviewCompile(d, p, pol).val

=============================================================================
