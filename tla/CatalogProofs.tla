---------------------------- MODULE CatalogProofs ----------------------------
(***************************************************************************)
(* Proofs about Catalog and Compiler, for every set of peers, groups,      *)
(* services and policies, and every bound on the edits.                    *)
(*                                                                         *)
(* StaleIsPending rests on the compiler being local: a bundle depends on   *)
(* the peers, on which policies concern the peer and on what these refer   *)
(* to (CompileSame).  So an edit has to signal the peers it does not leave *)
(* untouched (EditStale), and each handler is shown to.  That needs ids    *)
(* never to be given out twice and requests to name given ids only         *)
(* (KnownInv): else a new peer or group could complete an old policy.      *)
(*                                                                         *)
(* EndToEnd, OnlyRelated and PreviewShowsAll speak of one state: they hold *)
(* in every well-typed database, and are shown from the forms the two      *)
(* parts of a policy take (TargetForms, SourceForms).                      *)
(*                                                                         *)
(* Usable is not inductive, because of the rollback of everything: BaseInv *)
(* also says that the tables this leads back to are sound, and each edit   *)
(* is shown not to change where it leads (UndoneEdit).                     *)
(***************************************************************************)
EXTENDS Catalog, FiniteSetTheorems, WellFoundedInduction, TLAPS

(* Two databases agree on a group: whether it is there, and its members.   *)
SameGroup(a, b, g) ==
  /\ LiveGroup(a, g) <=> LiveGroup(b, g)
  /\ Members(a, g) = Members(b, g)

(* Two databases agree on a service: whether it is there, and its row.     *)
SameService(a, b, s) ==
  /\ LiveService(a, s) <=> LiveService(b, s)
  /\ LiveService(a, s) => a.services[s] = b.services[s]

(* The three kinds of end points.                                          *)
IsEnd(e) == e.type \in {"peer", "group", "special"}

(* Two databases with the same peers agree on an end point.                *)
SameEnd(a, b, e) == IsEnd(e) /\ (e.type = "group" => SameGroup(a, b, e.id))

(* Two databases with the same peers agree on all a policy refers to.      *)
SameFor(a, b, pol) ==
  SameService(a, b, pol.svc) /\ SameEnd(a, b, pol.src) /\ SameEnd(a, b, pol.tgt)

(* A group the databases agree on has the same addresses in both.          *)
LEMMA ResolveGroupSame ==
  ASSUME NEW a, NEW b, NEW g, a.peers = b.peers, SameGroup(a, b, g)
  PROVE  ResolveGroup(a, g) = ResolveGroup(b, g)
BY DEF ResolveGroup, SameGroup

(* So has every end point they agree on.                                   *)
LEMMA ResolveEntitySame ==
  ASSUME NEW a, NEW b, NEW e, NEW ip, a.peers = b.peers, SameEnd(a, b, e)
  PROVE  ResolveEntityCIDRs(a, e, ip) = ResolveEntityCIDRs(b, e, ip)
<1>1. ResolvePeer(a, e.id) = ResolvePeer(b, e.id)
  BY DEF ResolvePeer
<1>2. ResolveAllPeers(a) = ResolveAllPeers(b)
  BY DEF ResolveAllPeers
<1>3. ResolveSpecialTarget(a, e.id, ip) = ResolveSpecialTarget(b, e.id, ip)
  BY <1>2 DEF ResolveSpecialTarget
<1>4. e.type = "group" => ResolveGroup(a, e.id) = ResolveGroup(b, e.id)
  BY ResolveGroupSame DEF SameEnd
<1>5. CASE e.ip # NoIP
  BY <1>5 DEF ResolveEntityCIDRs
<1>6. CASE e.ip = NoIP
  BY <1>1, <1>3, <1>4, <1>6 DEF ResolveEntityCIDRs, SameEnd, IsEnd
<1> QED BY <1>5, <1>6

(* They agree on whether a peer is at an end point.                        *)
LEMMA HasSame ==
  ASSUME NEW a, NEW b, NEW e, NEW p, SameEnd(a, b, e)
  PROVE  Has(a, e, p) <=> Has(b, e, p)
BY DEF Has, SameEnd, SameGroup

(* The ingress part of a policy depends on the peers and its end points    *)
(* only.                                                                   *)
LEMMA TargetSectionSame ==
  ASSUME NEW a, NEW b, NEW p, NEW pol, NEW svc, NEW clauses, NEW ws,
         a.peers = b.peers, SameEnd(a, b, pol.src), SameEnd(a, b, pol.tgt)
  PROVE  TargetSection(a, p, pol, svc, clauses, ws) = TargetSection(b, p, pol, svc, clauses, ws)
<1>1. IsTarget(a, pol, p) <=> IsTarget(b, pol, p)
  BY HasSame DEF IsTarget
<1>2. UsesSet(a, p, pol.src) <=> UsesSet(b, p, pol.src)
  BY DEF UsesSet, SameEnd, SameGroup
<1>3. ResolveEntityCIDRs(a, pol.src, a.peers[p].ip) = ResolveEntityCIDRs(b, pol.src, b.peers[p].ip)
  BY ResolveEntitySame
<1>4. CASE ~IsTarget(a, pol, p) \/ pol.dir \notin {"both", "backward"}
           \/ Special(pol.tgt, MulticastIDs \cup BroadcastIDs)
  BY <1>1, <1>4 DEF TargetSection
<1>5. CASE ~(~IsTarget(a, pol, p) \/ pol.dir \notin {"both", "backward"}
             \/ Special(pol.tgt, MulticastIDs \cup BroadcastIDs))
  <2>0. /\ Special(pol.src, {"internet"}) => ~Special(pol.src, MulticastIDs)
        /\ Special(pol.src, {"internet"}) => ~Special(pol.src, BroadcastIDs)
        /\ Special(pol.src, MulticastIDs) => ~Special(pol.src, BroadcastIDs)
        /\ UsesSet(a, p, pol.src) => /\ ~Special(pol.src, {"internet"})
                                     /\ ~Special(pol.src, MulticastIDs)
                                     /\ ~Special(pol.src, BroadcastIDs)
    BY DEF Special, UsesSet, MulticastIDs, BroadcastIDs
  <2>1. CASE Special(pol.src, {"internet"})
    BY <1>1, <1>2, <1>5, <2>0, <2>1 DEF TargetSection
  <2>2. CASE Special(pol.src, MulticastIDs)
    BY <1>1, <1>2, <1>5, <2>0, <2>2 DEF TargetSection
  <2>3. CASE Special(pol.src, BroadcastIDs)
    BY <1>1, <1>2, <1>3, <1>5, <2>0, <2>3 DEF TargetSection
  <2>4. CASE UsesSet(a, p, pol.src)
    BY <1>1, <1>2, <1>5, <2>0, <2>4 DEF TargetSection
  <2>5. CASE ~(Special(pol.src, {"internet"}) \/ Special(pol.src, MulticastIDs)
               \/ Special(pol.src, BroadcastIDs) \/ UsesSet(a, p, pol.src))
    BY <1>1, <1>2, <1>3, <1>5, <2>5 DEF TargetSection
  <2> QED BY <2>1, <2>2, <2>3, <2>4, <2>5
<1> QED BY <1>4, <1>5

(* So does the egress part.                                                *)
LEMMA SourceSectionSame ==
  ASSUME NEW a, NEW b, NEW p, NEW pol, NEW svc, NEW clauses, NEW ws,
         a.peers = b.peers, SameEnd(a, b, pol.src), SameEnd(a, b, pol.tgt)
  PROVE  SourceSection(a, p, pol, svc, clauses, ws) = SourceSection(b, p, pol, svc, clauses, ws)
<1>1. IsSource(a, pol, p) <=> IsSource(b, pol, p)
  BY HasSame DEF IsSource
<1>2. UsesSet(a, p, pol.tgt) <=> UsesSet(b, p, pol.tgt)
  BY DEF UsesSet, SameEnd, SameGroup
<1>3. ResolveEntityCIDRs(a, pol.tgt, a.peers[p].ip) = ResolveEntityCIDRs(b, pol.tgt, b.peers[p].ip)
  BY ResolveEntitySame
<1> QED BY <1>1, <1>2, <1>3 DEF SourceSection

(* The rules of a policy depend on the peers, its end points and its       *)
(* service only.                                                           *)
LEMMA SinglePolicySame ==
  ASSUME NEW a, NEW b, NEW p, NEW pol, a.peers = b.peers, SameFor(a, b, pol)
  PROVE  SinglePolicy(a, p, pol) = SinglePolicy(b, p, pol)
<1>1. CASE ~LiveService(a, pol.svc)
  BY <1>1 DEF SinglePolicy, SameFor, SameService
<1>2. CASE LiveService(a, pol.svc)
  <2>1. a.services[pol.svc] = b.services[pol.svc] /\ LiveService(b, pol.svc)
    BY <1>2 DEF SameFor, SameService
  <2> DEFINE svc == b.services[pol.svc]
             ws == ScopeFlags(pol.scope, b.peers[p].docker)
             clauses == IF svc.kind = "ports" THEN ExpandPorts(pol.svc, svc) ELSE {}
  <2>2. TargetSection(a, p, pol, svc, clauses, ws) = TargetSection(b, p, pol, svc, clauses, ws)
    BY TargetSectionSame DEF SameFor
  <2>3. SourceSection(a, p, pol, svc, clauses, ws) = SourceSection(b, p, pol, svc, clauses, ws)
    BY SourceSectionSame DEF SameFor
  <2> HIDE DEF svc, ws, clauses
  <2>4. /\ a.services[pol.svc] = svc
        /\ ScopeFlags(pol.scope, a.peers[p].docker) = ws
        /\ (IF svc.kind = "ports" THEN ExpandPorts(pol.svc, svc) ELSE {}) = clauses
    BY <2>1 DEF svc, ws, clauses
  <2> QED BY <1>2, <2>1, <2>2, <2>3, <2>4 DEF SinglePolicy, svc, ws
<1> QED BY <1>1, <1>2

(* Compile is local: with the same peers and the same applicable policies, *)
(* each of which refers to what the databases agree on, a peer gets the    *)
(* same bundle.                                                            *)
LEMMA CompileSame ==
  ASSUME NEW a, NEW b, NEW p, a.peers = b.peers,
         LoadApplicablePolicies(a, p) = LoadApplicablePolicies(b, p),
         \A n \in LoadApplicablePolicies(a, p) :
            a.policies[n] = b.policies[n] /\ SameFor(a, b, a.policies[n])
  PROVE  Compile(a, p) = Compile(b, p)
<1> DEFINE names == LoadApplicablePolicies(b, p)
<1>1. \A n \in names : SinglePolicy(a, p, a.policies[n]) = SinglePolicy(b, p, b.policies[n])
  BY SinglePolicySame
<1>2. GroupsNamed(a, names) = GroupsNamed(b, names)
  BY DEF GroupsNamed, SameFor, SameEnd, SameGroup
<1>3. \A g \in GroupsNamed(b, names) : Members(a, g) = Members(b, g)
  BY DEF GroupsNamed, SameFor, SameEnd, SameGroup
<1>4. IPSetsFit(a, p, names) <=> IPSetsFit(b, p, names)
  BY <1>2, <1>3 DEF IPSetsFit
<1>5. [n \in names |-> a.policies[n].prio] = [n \in names |-> b.policies[n].prio]
  OBVIOUS
<1>6. [n \in names |-> SinglePolicy(a, p, a.policies[n])]
      = [n \in names |-> SinglePolicy(b, p, b.policies[n])]
  BY <1>1
<1>7. [g \in GroupsNamed(a, names) |-> {a.peers[q].ip : q \in Members(a, g)}]
      = [g \in GroupsNamed(b, names) |-> {b.peers[q].ip : q \in Members(b, g)}]
  BY <1>2, <1>3
<1> QED BY <1>4, <1>5, <1>6, <1>7 DEF Compile

-----------------------------------------------------------------------------
(* What a policy row refers to has been given an id.                       *)
GivenIn(row, ids) ==
  \A e \in {row.src, row.tgt} : e.type # "special" => <<e.type, e.id>> \in ids

(* The row of a snapshot is one of the table of its entity.                *)
RowFits(s, ids) ==
  /\ s.ent[1] = "policy" => s.row \in PolicyRow /\ GivenIn(s.row, ids)
  /\ s.ent[1] = "group" => s.row \in GroupRow
  /\ s.ent[1] = "service" => s.row \in ServiceRow

(* Policies and snapshots refer to ids that have been given out, finitely  *)
(* many of them to policies.                                               *)
KnownInv ==
  /\ \A n \in DOMAIN d.policies : <<"policy", n>> \in used /\ GivenIn(d.policies[n], used)
  /\ \A i \in DOMAIN snaps : RowFits(snaps[i], used)
  /\ IsFiniteSet({u \in used : u[1] = "policy"})

(* The changes the worker has not seen yet, in any order.                  *)
Waiting == {queue[i] : i \in DOMAIN queue}

(* The peers a change would signal in a given database (Affects).          *)
AffectsIn(db, c) ==
  IF c.kind = "peers" THEN c.peers
  ELSE GetAffectedPeersByPolicies(db, FindPoliciesByGroup(db, c.ent[2]))

(* A policy of the peer refers to something that is gone.                  *)
Broken(db, p) == \E n \in LoadApplicablePolicies(db, p) : Dangling(db, db.policies[n])

(* The same policies concern the peer in both databases, and refer to the  *)
(* same.                                                                   *)
Untouched(a, b, p) ==
  \A n : n \in LoadApplicablePolicies(a, p) \/ n \in LoadApplicablePolicies(b, p) =>
    /\ n \in LoadApplicablePolicies(a, p) /\ n \in LoadApplicablePolicies(b, p)
    /\ a.policies[n] = b.policies[n] /\ SameFor(a, b, a.policies[n])

(* Whatever policy has the peer among its own keeps it.                    *)
Stays(a, b, p) ==
  \A n \in DOMAIN a.policies : p \in GetAffectedPeersByPolicy(a, n).val =>
    /\ n \in DOMAIN b.policies /\ b.policies[n] = a.policies[n]
    /\ p \in GetAffectedPeersByPolicy(b, n).val

(* A peer that a change leaves untouched keeps its rules, and its broken   *)
(* policies.                                                               *)
LEMMA UntouchedCompile ==
  ASSUME NEW a, NEW b, NEW p, a.peers = b.peers, Untouched(a, b, p)
  PROVE  Compile(a, p) = Compile(b, p) /\ (Broken(a, p) => Broken(b, p))
<1>1. LoadApplicablePolicies(a, p) = LoadApplicablePolicies(b, p)
  BY DEF Untouched
<1>2. Compile(a, p) = Compile(b, p)
  BY <1>1, CompileSame DEF Untouched
<1>3. ASSUME NEW n \in LoadApplicablePolicies(a, p), Dangling(a, a.policies[n])
      PROVE  Dangling(b, b.policies[n])
  BY <1>3 DEF Untouched, Dangling, NamesMissingPeer, SameFor, SameEnd, SameGroup, SameService
<1> QED BY <1>1, <1>2, <1>3 DEF Broken

(* Only live policies have peers.                                          *)
LEMMA AffectedLive ==
  ASSUME NEW a, NEW n, NEW p, p \in GetAffectedPeersByPolicy(a, n).val
  PROVE  n \in DOMAIN a.policies /\ ~a.policies[n].del
BY DEF GetAffectedPeersByPolicy, Failed

(* A change that would signal a peer still does when the peer stays in its *)
(* policies.                                                               *)
LEMMA StaysAffected ==
  ASSUME NEW a, NEW b, NEW p, NEW c, Stays(a, b, p), p \in AffectsIn(a, c)
  PROVE  p \in AffectsIn(b, c)
<1>1. CASE c.kind = "peers"
  BY <1>1 DEF AffectsIn
<1>2. CASE c.kind # "peers"
  <2>1. PICK n \in FindPoliciesByGroup(a, c.ent[2]) : p \in GetAffectedPeersByPolicy(a, n).val
    BY <1>2 DEF AffectsIn, GetAffectedPeersByPolicies
  <2>2. n \in FindPoliciesByGroup(b, c.ent[2]) /\ p \in GetAffectedPeersByPolicy(b, n).val
    BY <2>1 DEF Stays, FindPoliciesByGroup
  <2> QED BY <1>2, <2>2 DEF AffectsIn, GetAffectedPeersByPolicies
<1> QED BY <1>1, <1>2

(* Signalled, by the set of waiting changes.                               *)
LEMMA SignalledIs ==
  \A p : Signalled(p) <=> \/ \E r \in pending : r[1] = p
                          \/ \E c \in Waiting : p \in AffectsIn(d, c)
BY DEF Signalled, Affects, AffectsIn, Waiting

(* The core of the argument about stale peers: an edit that queues a       *)
(* change for every peer it does not leave untouched keeps StaleIsPending. *)
LEMMA EditStale ==
  ASSUME StaleIsPending, UNCHANGED <<pending, bundle, adrift, partial>>, d'.peers = d.peers,
         Waiting \subseteq Waiting',
         \A p \in Peer : \/ \E c \in Waiting' : p \in AffectsIn(d', c)
                         \/ Broken(d', p)
                         \/ Untouched(d, d', p) /\ Stays(d, d', p)
  PROVE  StaleIsPending'
<1> SUFFICES ASSUME NEW p \in Peer \ adrift, ~Broken(d', p), ~Signalled(p)'
             PROVE  Compile(d', p) = bundle[p]
  BY DEF StaleIsPending, Broken, Peer
<1>1. /\ ~\E r \in pending : r[1] = p
      /\ ~\E c \in Waiting' : p \in AffectsIn(d', c)
  <2>1. Signalled(p)' <=> \/ \E r \in pending' : r[1] = p
                          \/ \E c \in Waiting' : p \in AffectsIn(d', c)
    BY DEF Signalled, Affects, AffectsIn, Waiting
  <2> QED BY <2>1
<1>2. Untouched(d, d', p) /\ Stays(d, d', p)
  BY <1>1
<1>3. ~Signalled(p)
  BY <1>1, <1>2, SignalledIs, StaysAffected
<1>4. ~Broken(d, p) /\ Compile(d, p) = Compile(d', p)
  BY <1>2, UntouchedCompile
<1> QED BY <1>3, <1>4 DEF StaleIsPending, Broken

(* Both ends of a policy are end points.                                   *)
IsEnds(pol) == IsEnd(pol.src) /\ IsEnd(pol.tgt)

(* A peer at an end point is among the peers of the end point.             *)
LEMMA EndPeersHas ==
  ASSUME NEW a, NEW e, NEW p \in DOMAIN a.peers, Has(a, e, p), EndPeers(a, e).ok
  PROVE  p \in EndPeers(a, e).val
BY DEF Has, EndPeers, Gives, Failed

(* The peers of an end point are not known only if it is gone.             *)
LEMMA EndPeersFail ==
  ASSUME NEW a, NEW e, IsEnd(e), ~EndPeers(a, e).ok
  PROVE  \/ e.type = "peer" /\ e.id \notin DOMAIN a.peers
         \/ e.type = "group" /\ ~LiveGroup(a, e.id)
BY DEF EndPeers, Gives, Failed, IsEnd

(* A policy that concerns a peer has it among its peers, unless it refers  *)
(* to something gone: what loadApplicablePolicies and                      *)
(* GetAffectedPeersByPolicy say fits.                                      *)
LEMMA ApplicableAffected ==
  ASSUME NEW a, NEW p \in DOMAIN a.peers, NEW n \in LoadApplicablePolicies(a, p),
         IsEnds(a.policies[n])
  PROVE  Dangling(a, a.policies[n]) \/ p \in GetAffectedPeersByPolicy(a, n).val
<1> DEFINE pol == a.policies[n]
<1>1. n \in DOMAIN a.policies /\ ~pol.del /\ (Has(a, pol.tgt, p) \/ Has(a, pol.src, p))
  BY DEF LoadApplicablePolicies, Applicable
<1>2. CASE EndPeers(a, pol.src).ok /\ EndPeers(a, pol.tgt).ok
  BY <1>1, <1>2, EndPeersHas DEF GetAffectedPeersByPolicy, Gives
<1>3. CASE ~EndPeers(a, pol.src).ok
  BY <1>3, EndPeersFail DEF Dangling, NamesMissingPeer, IsEnds
<1>4. CASE ~EndPeers(a, pol.tgt).ok
  BY <1>4, EndPeersFail DEF Dangling, NamesMissingPeer, IsEnds
<1> QED BY <1>2, <1>3, <1>4

(* Two databases with the same peers, groups and members.                  *)
LEMMA SameGroups ==
  ASSUME NEW a, NEW b, a.peers = b.peers, a.groups = b.groups, a.members = b.members
  PROVE  /\ \A g : SameGroup(a, b, g)
         /\ \A e, p : Has(a, e, p) <=> Has(b, e, p)
         /\ \A e : EndPeers(a, e) = EndPeers(b, e)
<1>1. \A g : LiveGroup(a, g) <=> LiveGroup(b, g)
  BY DEF LiveGroup
<1>2. \A g : Members(a, g) = Members(b, g)
  BY <1>1 DEF Members
<1> QED BY <1>1, <1>2 DEF SameGroup, Has, EndPeers

(* The peers of a policy depend on its row, the peers and the groups.      *)
LEMMA AffectedSame ==
  ASSUME NEW a, NEW b, NEW n, a.peers = b.peers, a.groups = b.groups, a.members = b.members,
         n \in DOMAIN a.policies, n \in DOMAIN b.policies, a.policies[n] = b.policies[n]
  PROVE  GetAffectedPeersByPolicy(a, n) = GetAffectedPeersByPolicy(b, n)
<1>1. EndPeers(a, a.policies[n].src) = EndPeers(b, b.policies[n].src)
  BY SameGroups
<1>2. EndPeers(a, a.policies[n].tgt) = EndPeers(b, b.policies[n].tgt)
  BY SameGroups
<1> QED BY <1>1, <1>2 DEF GetAffectedPeersByPolicy

(* A change of the policy n alone: only the peers it has or had notice.    *)
LEMMA PolicyLocal ==
  ASSUME NEW a, NEW b, NEW n, NEW p \in DOMAIN a.peers,
         a.peers = b.peers, a.groups = b.groups, a.members = b.members, a.services = b.services,
         DOMAIN a.policies \ {n} = DOMAIN b.policies \ {n},
         \A m \in DOMAIN a.policies \ {n} : a.policies[m] = b.policies[m],
         \A m \in DOMAIN a.policies : IsEnds(a.policies[m]),
         \A m \in DOMAIN b.policies : IsEnds(b.policies[m]),
         n \in LoadApplicablePolicies(a, p) => p \in GetAffectedPeersByPolicy(a, n).val,
         p \notin GetAffectedPeersByPolicy(a, n).val,
         p \notin GetAffectedPeersByPolicy(b, n).val,
         ~Broken(b, p)
  PROVE  Untouched(a, b, p) /\ Stays(a, b, p)
<1>1. n \notin LoadApplicablePolicies(a, p)
  OBVIOUS
<1>2. n \notin LoadApplicablePolicies(b, p)
  BY ApplicableAffected DEF Broken, LoadApplicablePolicies
<1>3. \A m \in DOMAIN a.policies \ {n} :
        (m \in LoadApplicablePolicies(a, p) <=> m \in LoadApplicablePolicies(b, p))
  BY SameGroups DEF LoadApplicablePolicies, Applicable
<1>4. \A m \in DOMAIN a.policies \ {n} : SameFor(a, b, a.policies[m])
  BY SameGroups DEF SameFor, SameEnd, IsEnds, SameService, LiveService
<1>5. Untouched(a, b, p)
  BY <1>1, <1>2, <1>3, <1>4 DEF Untouched, LoadApplicablePolicies
<1>6. \A m \in DOMAIN a.policies \ {n} :
        GetAffectedPeersByPolicy(a, m) = GetAffectedPeersByPolicy(b, m)
  BY AffectedSame
<1>7. Stays(a, b, p)
  BY <1>6 DEF Stays
<1> QED BY <1>5, <1>7

(* A change of the group g alone: as far as the peer is concerned, it does *)
(* not shrink.                                                             *)
LEMMA GroupLocal ==
  ASSUME NEW a, NEW b, NEW g, NEW p \in DOMAIN a.peers,
         a.peers = b.peers, a.services = b.services, a.policies = b.policies,
         \A h : h # g => SameGroup(a, b, h),
         LiveGroup(a, g) => LiveGroup(b, g),
         p \in Members(a, g) => p \in Members(b, g),
         \A m \in DOMAIN a.policies : IsEnds(a.policies[m]),
         p \notin GetAffectedPeersByPolicies(b, FindPoliciesByGroup(b, g)),
         ~Broken(b, p)
  PROVE  Untouched(a, b, p) /\ Stays(a, b, p)
<1>1. \A e : Has(a, e, p) => Has(b, e, p)
  BY DEF Has, SameGroup
<1>2. \A e : e.type # "group" \/ e.id # g => (Has(a, e, p) <=> Has(b, e, p))
  BY DEF Has, SameGroup
<1>3. LoadApplicablePolicies(a, p) \subseteq LoadApplicablePolicies(b, p)
  BY <1>1 DEF LoadApplicablePolicies, Applicable
<1>4. ASSUME NEW n \in LoadApplicablePolicies(b, p)
      PROVE  /\ n \in LoadApplicablePolicies(a, p)
             /\ SameFor(a, b, a.policies[n])
  <2>1. n \in DOMAIN b.policies /\ ~b.policies[n].del
    BY DEF LoadApplicablePolicies, Applicable
  <2>2. p \in GetAffectedPeersByPolicy(b, n).val
    BY <2>1, ApplicableAffected DEF Broken
  <2>3. n \notin FindPoliciesByGroup(b, g)
    BY <2>2 DEF GetAffectedPeersByPolicies
  <2>4. \A e \in {b.policies[n].src, b.policies[n].tgt} : e.type # "group" \/ e.id # g
    BY <2>1, <2>3 DEF FindPoliciesByGroup
  <2>5. n \in LoadApplicablePolicies(a, p)
    BY <1>2, <2>4 DEF LoadApplicablePolicies, Applicable
  <2>6. SameService(a, b, a.policies[n].svc)
    BY DEF SameService, LiveService
  <2> QED BY <2>1, <2>4, <2>5, <2>6 DEF SameFor, SameEnd, IsEnds
<1>5. Untouched(a, b, p)
  BY <1>3, <1>4 DEF Untouched
<1>6. ASSUME NEW e, EndPeers(a, e).ok
      PROVE  EndPeers(b, e).ok /\ (p \in EndPeers(a, e).val => p \in EndPeers(b, e).val)
  BY <1>6 DEF EndPeers, Gives, Failed, SameGroup
<1>7. Stays(a, b, p)
  <2> SUFFICES ASSUME NEW n \in DOMAIN a.policies, p \in GetAffectedPeersByPolicy(a, n).val
               PROVE  p \in GetAffectedPeersByPolicy(b, n).val
    BY DEF Stays
  <2>1. ~a.policies[n].del /\ EndPeers(a, a.policies[n].src).ok /\ EndPeers(a, a.policies[n].tgt).ok
    BY DEF GetAffectedPeersByPolicy, Failed
  <2>2. p \in EndPeers(a, a.policies[n].src).val \/ p \in EndPeers(a, a.policies[n].tgt).val
    BY DEF GetAffectedPeersByPolicy, Failed, Gives
  <2> QED BY <1>6, <2>1, <2>2 DEF GetAffectedPeersByPolicy, Gives
<1> QED BY <1>5, <1>7

(* A change of the service s alone.                                        *)
LEMMA ServiceLocal ==
  ASSUME NEW a, NEW b, NEW s, NEW p \in DOMAIN a.peers,
         a.peers = b.peers, a.groups = b.groups, a.members = b.members, a.policies = b.policies,
         \A x : x # s => SameService(a, b, x),
         \A m \in DOMAIN a.policies : IsEnds(a.policies[m]),
         \A n \in DOMAIN a.policies : ~a.policies[n].del /\ a.policies[n].svc = s =>
            p \notin GetAffectedPeersByPolicy(a, n).val,
         ~Broken(b, p)
  PROVE  Untouched(a, b, p) /\ Stays(a, b, p)
<1>1. LoadApplicablePolicies(a, p) = LoadApplicablePolicies(b, p)
  BY SameGroups DEF LoadApplicablePolicies, Applicable
<1>2. \A n \in DOMAIN a.policies : GetAffectedPeersByPolicy(a, n) = GetAffectedPeersByPolicy(b, n)
  BY AffectedSame
<1>3. ASSUME NEW n \in LoadApplicablePolicies(b, p)
      PROVE  SameFor(a, b, a.policies[n])
  <2>1. n \in DOMAIN b.policies /\ ~b.policies[n].del
    BY DEF LoadApplicablePolicies, Applicable
  <2>2. p \in GetAffectedPeersByPolicy(b, n).val
    BY <2>1, ApplicableAffected DEF Broken
  <2>3. a.policies[n].svc # s
    BY <1>2, <2>1, <2>2
  <2> QED BY <2>1, <2>3, SameGroups DEF SameFor, SameEnd, IsEnds
<1>4. Untouched(a, b, p)
  BY <1>1, <1>3 DEF Untouched
<1> QED BY <1>2, <1>4 DEF Stays

-----------------------------------------------------------------------------
(* The policies in the table have end points.                              *)
LEMMA TypeEnds ==
  ASSUME TypeOK
  PROVE  \A n \in DOMAIN d.policies : IsEnds(d.policies[n]) /\ d.policies[n].del \in BOOLEAN
BY DEF TypeOK, IsTable, PolicyRow, EndPoint, IsEnds, IsEnd

(* A queued change waits.                                                  *)
LEMMA WaitingAppend ==
  ASSUME queue \in Seq(Change), NEW c, queue' = Append(queue, c)
  PROVE  Waiting' = Waiting \cup {c}
<1>1. DOMAIN queue' = DOMAIN queue \cup {Len(queue) + 1}
  OBVIOUS
<1>2. \A i \in DOMAIN queue : queue'[i] = queue[i]
  OBVIOUS
<1>3. queue'[Len(queue) + 1] = c
  OBVIOUS
<1> QED BY <1>1, <1>2, <1>3 DEF Waiting

(* After QueuePeers a change for each of the peers waits.                  *)
LEMMA WaitingPeers ==
  ASSUME queue \in Seq(Change), NEW ent, NEW peers, QueuePeers(ent, peers)
  PROVE  /\ Waiting \subseteq Waiting'
         /\ \A db, p : p \in peers => \E c \in Waiting' : p \in AffectsIn(db, c)
<1>1. CASE peers = {}
  BY <1>1 DEF QueuePeers, Waiting
<1>2. CASE peers # {}
  <2>1. Waiting' = Waiting \cup {PeersOf(ent, peers)}
    BY <1>2, WaitingAppend DEF QueuePeers
  <2>2. \A db : AffectsIn(db, PeersOf(ent, peers)) = peers
    BY DEF AffectsIn, PeersOf
  <2> QED BY <2>1, <2>2
<1> QED BY <1>1, <1>2

(* After QueueGroup a change waits that signals whoever the policies of    *)
(* the group concern when the worker comes to it.                          *)
LEMMA WaitingGroup ==
  ASSUME queue \in Seq(Change), NEW g, QueueGroup(<<"group", g>>)
  PROVE  /\ Waiting \subseteq Waiting'
         /\ \A db, p : p \in GetAffectedPeersByPolicies(db, FindPoliciesByGroup(db, g)) =>
                        \E c \in Waiting' : p \in AffectsIn(db, c)
<1>1. Waiting' = Waiting \cup {GroupOf(<<"group", g>>)}
  BY WaitingAppend DEF QueueGroup
<1>2. \A db : AffectsIn(db, GroupOf(<<"group", g>>))
              = GetAffectedPeersByPolicies(db, FindPoliciesByGroup(db, g))
  BY DEF AffectsIn, GroupOf
<1> QED BY <1>1, <1>2

(* CreatePolicy signals the peers of the policy.                           *)
LEMMA CreatePolicyStale ==
  ASSUME TypeOK, TypeOK', KnownInv, StaleIsPending, NEW row, CreatePolicy(row)
  PROVE  StaleIsPending'
<1> DEFINE n == Cardinality({u \in used : u[1] = "policy"}) + 1
           aff == GetAffectedPeersByPolicy(d', n).val
<1>1. /\ <<"policy", n>> \notin used
      /\ d' = [d EXCEPT !.policies = With(@, n, row)]
      /\ QueuePeers(<<"policy", n>>, aff)
      /\ UNCHANGED <<pending, bundle, adrift, partial>>
  BY DEF CreatePolicy, NewID, Kept
<1> HIDE DEF n
<1>2. n \notin DOMAIN d.policies
  BY <1>1 DEF KnownInv
<1>3. /\ d'.peers = d.peers /\ d'.groups = d.groups /\ d'.members = d.members
      /\ d'.services = d.services /\ d'.policies = With(d.policies, n, row)
  BY <1>1 DEF TypeOK
<1>4. /\ DOMAIN d.policies \ {n} = DOMAIN d'.policies \ {n}
      /\ \A m \in DOMAIN d.policies \ {n} : d.policies[m] = d'.policies[m]
  BY <1>3 DEF With
<1>5. \A p : p \notin GetAffectedPeersByPolicy(d, n).val
  BY <1>2, AffectedLive
<1>6. \A m \in DOMAIN d'.policies : IsEnds(d'.policies[m])
  BY DEF TypeOK, IsTable, PolicyRow, EndPoint, IsEnds, IsEnd
<1>7. Waiting \subseteq Waiting' /\ \A p \in aff : \E c \in Waiting' : p \in AffectsIn(d', c)
  BY <1>1, WaitingPeers DEF TypeOK
<1>8. ASSUME NEW p \in Peer, p \notin aff, ~Broken(d', p)
      PROVE  Untouched(d, d', p) /\ Stays(d, d', p)
  <2>1. n \notin LoadApplicablePolicies(d, p)
    BY <1>2 DEF LoadApplicablePolicies
  <2> QED BY <1>3, <1>4, <1>5, <1>6, <1>8, <2>1, TypeEnds, PolicyLocal DEF Peer
<1> QED BY <1>1, <1>3, <1>7, <1>8, EditStale

(* Another row for a policy, with the peers before and after queued.       *)
LEMMA ReplacePolicyStale ==
  ASSUME TypeOK, TypeOK', StaleIsPending, NEW n \in LivePolicies, NEW row,
         GetAffectedPeersByPolicy(d, n).ok, d' = [d EXCEPT !.policies[n] = row],
         UNCHANGED <<pending, bundle, adrift, partial>>,
         NEW aff, QueuePeers(<<"policy", n>>, aff),
         GetAffectedPeersByPolicy(d, n).val \subseteq aff,
         GetAffectedPeersByPolicy(d', n).val \subseteq aff
  PROVE  StaleIsPending'
<1>1. n \in DOMAIN d.policies /\ ~d.policies[n].del
  BY DEF LivePolicies
<1>3. /\ d'.peers = d.peers /\ d'.groups = d.groups /\ d'.members = d.members
      /\ d'.services = d.services /\ d'.policies = [d.policies EXCEPT ![n] = row]
  BY DEF TypeOK
<1>4. /\ DOMAIN d.policies \ {n} = DOMAIN d'.policies \ {n}
      /\ \A m \in DOMAIN d.policies \ {n} : d.policies[m] = d'.policies[m]
  BY <1>3 DEF TypeOK, IsTable
<1>5. EndPeers(d, d.policies[n].src).ok /\ EndPeers(d, d.policies[n].tgt).ok
  BY <1>1 DEF GetAffectedPeersByPolicy, Failed
<1>6. \A m \in DOMAIN d'.policies : IsEnds(d'.policies[m])
  BY DEF TypeOK, IsTable, PolicyRow, EndPoint, IsEnds, IsEnd
<1>7. Waiting \subseteq Waiting' /\ \A p \in aff : \E c \in Waiting' : p \in AffectsIn(d', c)
  BY WaitingPeers DEF TypeOK
<1>8. ASSUME NEW p \in Peer, p \notin aff, ~Broken(d', p)
      PROVE  Untouched(d, d', p) /\ Stays(d, d', p)
  <2>1. n \in LoadApplicablePolicies(d, p) => p \in GetAffectedPeersByPolicy(d, n).val
    <3>1. SUFFICES ASSUME Has(d, d.policies[n].src, p) \/ Has(d, d.policies[n].tgt, p)
                   PROVE  p \in GetAffectedPeersByPolicy(d, n).val
      BY DEF LoadApplicablePolicies, Applicable
    <3>2. p \in EndPeers(d, d.policies[n].src).val \/ p \in EndPeers(d, d.policies[n].tgt).val
      BY <1>5, <3>1, EndPeersHas DEF Peer
    <3> QED BY <1>1, <1>5, <3>2 DEF GetAffectedPeersByPolicy, Gives
  <2>2. p \notin GetAffectedPeersByPolicy(d, n).val /\ p \notin GetAffectedPeersByPolicy(d', n).val
    BY <1>8
  <2> QED BY <1>3, <1>4, <1>6, <1>8, <2>1, <2>2, TypeEnds, PolicyLocal DEF Peer
<1> QED BY <1>3, <1>7, <1>8, EditStale

(* UpdatePolicy (and PatchPolicy) signals the peers before and after.      *)
LEMMA UpdatePolicyStale ==
  ASSUME TypeOK, TypeOK', StaleIsPending, NEW n, NEW row, UpdatePolicy(n, row)
  PROVE  StaleIsPending'
<1>1. /\ n \in LivePolicies /\ GetAffectedPeersByPolicy(d, n).ok
      /\ d' = [d EXCEPT !.policies[n] = row]
      /\ QueuePeers(<<"policy", n>>, GetAffectedPeersByPolicy(d, n).val
                                       \cup GetAffectedPeersByPolicy(d', n).val)
      /\ UNCHANGED <<pending, bundle, adrift, partial>>
  BY DEF UpdatePolicy, PoliciesFanOut, Kept
<1> QED BY <1>1, ReplacePolicyStale

(* DeletePolicy signals the peers the policy had.                          *)
LEMMA DeletePolicyStale ==
  ASSUME TypeOK, TypeOK', StaleIsPending, NEW n, DeletePolicy(n)
  PROVE  StaleIsPending'
<1> DEFINE row == [d.policies[n] EXCEPT !.del = TRUE]
           aff == GetAffectedPeersByPolicy(d, n).val
<1>1. /\ n \in LivePolicies /\ GetAffectedPeersByPolicy(d, n).ok
      /\ d' = [d EXCEPT !.policies[n].del = TRUE]
      /\ QueuePeers(<<"policy", n>>, aff)
      /\ UNCHANGED <<pending, bundle, adrift, partial>>
  BY DEF DeletePolicy, Kept
<1>2. d' = [d EXCEPT !.policies[n] = row]
  BY <1>1
<1>3. d.policies[n] \in PolicyRow /\ n \in DOMAIN d.policies
  BY <1>1 DEF TypeOK, IsTable, LivePolicies
<1>4. n \in DOMAIN d'.policies /\ d'.policies[n].del = TRUE
  BY <1>2, <1>3 DEF TypeOK, PolicyRow
<1>5. GetAffectedPeersByPolicy(d', n).val = {}
  BY <1>4 DEF GetAffectedPeersByPolicy, Failed
<1> QED BY <1>1, <1>2, <1>5, ReplacePolicyStale

(* A group that grows, or stays as it is, as far as each peer is concerned *)
(* that is not queued by itself.                                           *)
LEMMA GroupStale ==
  ASSUME TypeOK, StaleIsPending, NEW g, NEW own,
         d'.peers = d.peers, d'.services = d.services, d'.policies = d.policies,
         \A h : h # g => SameGroup(d, d', h),
         LiveGroup(d, g) => LiveGroup(d', g),
         \A p \in Peer \ own : p \in Members(d, g) => p \in Members(d', g),
         UNCHANGED <<pending, bundle, adrift, partial>>,
         Waiting \subseteq Waiting',
         \A p \in GetAffectedPeersByPolicies(d', FindPoliciesByGroup(d', g)) \cup own :
            \E c \in Waiting' : p \in AffectsIn(d', c)
  PROVE  StaleIsPending'
<1>1. ASSUME NEW p \in Peer, p \notin own, ~Broken(d', p),
             p \notin GetAffectedPeersByPolicies(d', FindPoliciesByGroup(d', g))
      PROVE  Untouched(d, d', p) /\ Stays(d, d', p)
  BY <1>1, TypeEnds, GroupLocal DEF Peer
<1> QED BY <1>1, EditStale

(* CreateGroup: no policy refers to it yet, unless it is broken.           *)
LEMMA CreateGroupStale ==
  ASSUME TypeOK, StaleIsPending, NEW g, CreateGroup(g)
  PROVE  StaleIsPending'
<1>1. /\ d' = [d EXCEPT !.groups = With(@, g, [del |-> FALSE])]
      /\ QueueGroup(<<"group", g>>) /\ UNCHANGED <<pending, bundle, adrift, partial>>
  BY DEF CreateGroup, Kept
<1>2. /\ d'.peers = d.peers /\ d'.members = d.members /\ d'.services = d.services
      /\ d'.policies = d.policies /\ d'.groups = With(d.groups, g, [del |-> FALSE])
  BY <1>1 DEF TypeOK
<1>3. LiveGroup(d', g) /\ \A h : h # g => (LiveGroup(d, h) <=> LiveGroup(d', h))
  BY <1>2 DEF LiveGroup, With
<1>4. \A h : h # g => SameGroup(d, d', h)
  BY <1>2, <1>3 DEF SameGroup, Members
<1>5. \A p : p \in Members(d, g) => p \in Members(d', g)
  BY <1>2, <1>3 DEF Members
<1>6. /\ Waiting \subseteq Waiting'
      /\ \A p \in GetAffectedPeersByPolicies(d', FindPoliciesByGroup(d', g)) \cup {} :
            \E c \in Waiting' : p \in AffectsIn(d', c)
  BY <1>1, WaitingGroup DEF TypeOK
<1> QED BY <1>1, <1>2, <1>3, <1>4, <1>5, <1>6, GroupStale

(* UpdateGroup changes no rules.                                           *)
LEMMA UpdateGroupStale ==
  ASSUME TypeOK, StaleIsPending, NEW g, UpdateGroup(g)
  PROVE  StaleIsPending'
<1>1. QueueGroup(<<"group", g>>) /\ UNCHANGED <<d, pending, bundle, adrift, partial>>
  BY DEF UpdateGroup, Kept
<1>2. /\ Waiting \subseteq Waiting'
      /\ \A p \in GetAffectedPeersByPolicies(d', FindPoliciesByGroup(d', g)) \cup {} :
            \E c \in Waiting' : p \in AffectsIn(d', c)
  BY <1>1, WaitingGroup DEF TypeOK
<1>3. \A h : SameGroup(d, d', h)
  BY <1>1 DEF SameGroup
<1> QED BY <1>1, <1>2, <1>3, GroupStale

(* DeleteGroup: no live policy refers to the group.                        *)
LEMMA DeleteGroupStale ==
  ASSUME TypeOK, StaleIsPending, NEW g, DeleteGroup(g)
  PROVE  StaleIsPending'
<1>1. /\ d' = [d EXCEPT !.groups[g].del = TRUE] /\ ~GroupInUse(g)
      /\ QueueGroup(<<"group", g>>) /\ UNCHANGED <<pending, bundle, adrift, partial>>
  BY DEF DeleteGroup, Kept
<1>2. /\ d'.peers = d.peers /\ d'.members = d.members /\ d'.services = d.services
      /\ d'.policies = d.policies /\ d'.groups = [d.groups EXCEPT ![g].del = TRUE]
  BY <1>1 DEF TypeOK
<1>3. \A h : h # g => (LiveGroup(d, h) <=> LiveGroup(d', h))
  BY <1>2 DEF LiveGroup
<1>4. \A h : h # g => SameGroup(d, d', h)
  BY <1>2, <1>3 DEF SameGroup, Members
<1>5. \A n \in DOMAIN d.policies : ~d.policies[n].del =>
        \A e \in {d.policies[n].src, d.policies[n].tgt} : e.type = "group" => e.id # g
  BY <1>1 DEF GroupInUse, FindPoliciesByGroup
<1>6. \A n \in DOMAIN d.policies : ~d.policies[n].del => SameFor(d, d', d.policies[n])
  <2>1. \A s : SameService(d, d', s)
    BY <1>2 DEF SameService, LiveService
  <2> QED BY <1>4, <1>5, <2>1, TypeEnds DEF SameFor, SameEnd, IsEnds
<1>7. \A p : Untouched(d, d', p)
  BY <1>2, <1>6, HasSame DEF Untouched, LoadApplicablePolicies, Applicable, SameFor
<1>8. ASSUME NEW p, NEW n \in DOMAIN d.policies, p \in GetAffectedPeersByPolicy(d, n).val
      PROVE  p \in GetAffectedPeersByPolicy(d', n).val
  <2>1. ~d.policies[n].del /\ SameFor(d, d', d.policies[n])
    BY <1>6, <1>8, AffectedLive
  <2>2. EndPeers(d, d.policies[n].src) = EndPeers(d', d.policies[n].src)
    BY <1>2, <2>1 DEF SameFor, SameEnd, SameGroup, EndPeers
  <2>3. EndPeers(d, d.policies[n].tgt) = EndPeers(d', d.policies[n].tgt)
    BY <1>2, <2>1 DEF SameFor, SameEnd, SameGroup, EndPeers
  <2> QED BY <1>2, <1>8, <2>2, <2>3 DEF GetAffectedPeersByPolicy
<1>9. \A p : Stays(d, d', p)
  BY <1>2, <1>8 DEF Stays
<1>10. Waiting \subseteq Waiting'
  BY <1>1, WaitingGroup DEF TypeOK
<1> QED BY <1>1, <1>2, <1>7, <1>9, <1>10, EditStale

(* AddGroupMember: the new member is one when the worker resolves the      *)
(* group.                                                                  *)
LEMMA AddGroupMemberStale ==
  ASSUME TypeOK, StaleIsPending, NEW g, NEW q, AddGroupMember(g, q)
  PROVE  StaleIsPending'
<1>1. /\ d' = [d EXCEPT !.members = @ \cup {<<g, q>>}]
      /\ QueueGroup(<<"group", g>>) /\ UNCHANGED <<pending, bundle, adrift, partial>>
  BY DEF AddGroupMember, Kept
<1>2. /\ d'.peers = d.peers /\ d'.groups = d.groups /\ d'.services = d.services
      /\ d'.policies = d.policies /\ d'.members = d.members \cup {<<g, q>>}
  BY <1>1 DEF TypeOK
<1>3. \A h : LiveGroup(d, h) <=> LiveGroup(d', h)
  BY <1>2 DEF LiveGroup
<1>4. \A h : h # g => SameGroup(d, d', h)
  BY <1>2, <1>3 DEF SameGroup, Members
<1>5. \A p : p \in Members(d, g) => p \in Members(d', g)
  BY <1>2, <1>3 DEF Members
<1>6. /\ Waiting \subseteq Waiting'
      /\ \A p \in GetAffectedPeersByPolicies(d', FindPoliciesByGroup(d', g)) \cup {} :
            \E c \in Waiting' : p \in AffectsIn(d', c)
  BY <1>1, WaitingGroup DEF TypeOK
<1> QED BY <1>1, <1>2, <1>3, <1>4, <1>5, <1>6, GroupStale

(* DeleteGroupMember: the removed peer is queued by itself, since the      *)
(* group will be resolved without it.                                      *)
LEMMA DeleteGroupMemberStale ==
  ASSUME TypeOK, StaleIsPending, NEW g, NEW q, DeleteGroupMember(g, q)
  PROVE  StaleIsPending'
<1> DEFINE c1 == GroupOf(<<"group", g>>)
           c2 == PeersOf(<<"group", g>>, {q})
<1>1. /\ d' = [d EXCEPT !.members = @ \ {<<g, q>>}]
      /\ queue' = queue \o <<c1, c2>> /\ UNCHANGED <<pending, bundle, adrift, partial>>
  BY DEF DeleteGroupMember, RemovedPeerQueue, Kept
<1>2. /\ d'.peers = d.peers /\ d'.groups = d.groups /\ d'.services = d.services
      /\ d'.policies = d.policies /\ d'.members = d.members \ {<<g, q>>}
  BY <1>1 DEF TypeOK
<1>3. \A h : LiveGroup(d, h) <=> LiveGroup(d', h)
  BY <1>2 DEF LiveGroup
<1>4. \A h : h # g => SameGroup(d, d', h)
  BY <1>2, <1>3 DEF SameGroup, Members
<1>5. \A p \in Peer \ {q} : p \in Members(d, g) => p \in Members(d', g)
  BY <1>2, <1>3 DEF Members
<1>6. Waiting' = Waiting \cup {c1, c2}
  <2> HIDE DEF c1, c2
  <2>1. queue \in Seq(Change)
    BY DEF TypeOK
  <2>2. DOMAIN queue' = DOMAIN queue \cup {Len(queue) + 1, Len(queue) + 2}
    BY <1>1, <2>1
  <2>3. \A i \in DOMAIN queue : queue'[i] = queue[i]
    BY <1>1, <2>1
  <2>4. queue'[Len(queue) + 1] = c1 /\ queue'[Len(queue) + 2] = c2
    BY <1>1, <2>1
  <2> QED BY <2>2, <2>3, <2>4 DEF Waiting
<1>7. /\ AffectsIn(d', c1) = GetAffectedPeersByPolicies(d', FindPoliciesByGroup(d', g))
      /\ AffectsIn(d', c2) = {q}
  BY DEF AffectsIn, GroupOf, PeersOf
<1>8. \A p \in GetAffectedPeersByPolicies(d', FindPoliciesByGroup(d', g)) \cup {q} :
            \E c \in Waiting' : p \in AffectsIn(d', c)
  BY <1>6, <1>7
<1> QED BY <1>1, <1>2, <1>3, <1>4, <1>5, <1>6, <1>8, GroupStale

(* Another row of the service s, with its policies' peers queued.          *)
LEMMA ServiceStale ==
  ASSUME TypeOK, StaleIsPending, NEW s,
         d'.peers = d.peers, d'.groups = d.groups, d'.members = d.members,
         d'.policies = d.policies, \A x : x # s => SameService(d, d', x),
         UNCHANGED <<pending, bundle, adrift, partial>>, QueueServiceChange(s)
  PROVE  StaleIsPending'
<1> DEFINE aff == GetAffectedPeersByPolicies(d, FindPoliciesUsingService(s))
<1>1. Waiting \subseteq Waiting' /\ \A p \in aff : \E c \in Waiting' : p \in AffectsIn(d', c)
  BY WaitingPeers DEF TypeOK, QueueServiceChange
<1>2. ASSUME NEW p \in Peer, p \notin aff, ~Broken(d', p)
      PROVE  Untouched(d, d', p) /\ Stays(d, d', p)
  <2>1. \A n \in DOMAIN d.policies : ~d.policies[n].del /\ d.policies[n].svc = s =>
          p \notin GetAffectedPeersByPolicy(d, n).val
    BY <1>2 DEF GetAffectedPeersByPolicies, FindPoliciesUsingService, LivePolicies
  <2> QED BY <1>2, <2>1, TypeEnds, ServiceLocal DEF Peer
<1> QED BY <1>1, <1>2, EditStale

(* The three edits of services.                                            *)
LEMMA ServiceEditStale ==
  ASSUME TypeOK, StaleIsPending, NEW s, NEW row,
         CreateService(s, row) \/ UpdateService(s, row) \/ DeleteService(s)
  PROVE  StaleIsPending'
<1>1. UNCHANGED <<pending, bundle, adrift, partial>> /\ QueueServiceChange(s)
  BY DEF CreateService, UpdateService, DeleteService, Kept
<1>2. \/ d' = [d EXCEPT !.services = With(@, s, row)]
      \/ d' = [d EXCEPT !.services[s] = row]
      \/ d' = [d EXCEPT !.services[s].del = TRUE]
  BY DEF CreateService, UpdateService, DeleteService
<1>3. /\ d'.peers = d.peers /\ d'.groups = d.groups /\ d'.members = d.members
      /\ d'.policies = d.policies
      /\ \/ d'.services = With(d.services, s, row)
         \/ d'.services = [d.services EXCEPT ![s] = row]
         \/ d'.services = [d.services EXCEPT ![s].del = TRUE]
  BY <1>2 DEF TypeOK
<1>4. \A x : x # s => (LiveService(d, x) <=> LiveService(d', x))
  BY <1>3 DEF LiveService, With
<1>5. \A x : x # s /\ x \in DOMAIN d.services => d.services[x] = d'.services[x]
  BY <1>3 DEF With
<1>6. \A x : x # s => SameService(d, d', x)
  BY <1>4, <1>5 DEF SameService, LiveService
<1> QED BY <1>1, <1>3, <1>6, ServiceStale

(* The peers change; whoever is not adrift has the rules it had.           *)
LEMMA PeerStale ==
  ASSUME StaleIsPending, queue' = queue,
         \A p \in Peer' \ adrift' :
            /\ p \in Peer \ adrift
            /\ Compile(d', p) = Compile(d, p) /\ bundle'[p] = bundle[p]
            /\ Broken(d, p) => Broken(d', p)
            /\ (\E r \in pending : r[1] = p) => (\E r \in pending' : r[1] = p)
            /\ Stays(d, d', p)
  PROVE  StaleIsPending'
<1> SUFFICES ASSUME NEW p \in Peer' \ adrift', ~Broken(d', p), ~Signalled(p)'
             PROVE  Compile(d', p) = bundle'[p]
  BY DEF StaleIsPending, Broken, Peer
<1>1. /\ ~\E r \in pending' : r[1] = p
      /\ ~\E c \in Waiting : p \in AffectsIn(d', c)
  <2>1. Signalled(p)' <=> \/ \E r \in pending' : r[1] = p
                          \/ \E c \in Waiting' : p \in AffectsIn(d', c)
    BY DEF Signalled, Affects, AffectsIn, Waiting
  <2>2. Waiting' = Waiting
    BY DEF Waiting
  <2> QED BY <2>1, <2>2
<1>2. ~Signalled(p)
  BY <1>1, SignalledIs, StaysAffected
<1> QED BY <1>2 DEF StaleIsPending, Broken

(* CreatePeer: whoever gets other rules by it is adrift.                   *)
LEMMA CreatePeerStale ==
  ASSUME TypeOK, KnownInv, StaleIsPending, NEW q, NEW row, CreatePeer(q, row)
  PROVE  StaleIsPending'
<1>1. /\ <<"peer", q>> \notin used /\ d' = [d EXCEPT !.peers = With(@, q, row)]
      /\ bundle' = With(bundle, q, [ok |-> FALSE])
      /\ adrift' = adrift \cup Changed(d') \cup {q}
      /\ UNCHANGED <<pending, queue>>
  BY DEF CreatePeer, InsertPeer, NewID
<1>2. /\ d'.peers = With(d.peers, q, row) /\ d'.members = d.members /\ d'.services = d.services
      /\ d'.policies = d.policies /\ d'.groups = d.groups
  BY <1>1 DEF TypeOK
<1>3. DOMAIN d'.peers = DOMAIN d.peers \cup {q}
  BY <1>2 DEF With
<1>4. \A g : LiveGroup(d, g) <=> LiveGroup(d', g)
  BY <1>2 DEF LiveGroup
<1>5. \A g : Members(d, g) \subseteq Members(d', g)
  BY <1>2, <1>3, <1>4 DEF Members
<1>6. ASSUME NEW p \in Peer' \ adrift'
      PROVE  /\ p \in Peer \ adrift
             /\ Compile(d', p) = Compile(d, p) /\ bundle'[p] = bundle[p]
  <2>1. p \in DOMAIN d.peers \ adrift /\ p # q /\ p \notin Changed(d')
    BY <1>1, <1>3 DEF Peer
  <2>2. Compile(d', p) = Compile(d, p)
    BY <2>1, <1>3 DEF Changed, Peer
  <2>3. bundle'[p] = bundle[p]
    BY <1>1, <2>1 DEF With, TypeOK, Peer
  <2> QED BY <2>1, <2>2, <2>3 DEF Peer
<1>7. ASSUME NEW p, Broken(d, p)
      PROVE  Broken(d', p)
  <2>1. PICK n \in LoadApplicablePolicies(d, p) : Dangling(d, d.policies[n])
    BY <1>7 DEF Broken
  <2>2. n \in DOMAIN d.policies
    BY DEF LoadApplicablePolicies
  <2>3. n \in LoadApplicablePolicies(d', p)
    BY <1>2, <1>5 DEF LoadApplicablePolicies, Applicable, Has
  <2>4. \A e \in {d.policies[n].src, d.policies[n].tgt} : e.type = "peer" => e.id # q
    BY <1>1, <2>2 DEF KnownInv, GivenIn
  <2>5. Dangling(d', d'.policies[n])
    BY <1>2, <1>3, <1>4, <2>1, <2>4 DEF Dangling, NamesMissingPeer, LiveService
  <2> QED BY <2>3, <2>5 DEF Broken
<1>8. ASSUME NEW p
      PROVE  Stays(d, d', p)
  <2>1. ASSUME NEW e, EndPeers(d, e).ok
        PROVE  EndPeers(d', e).ok /\ (p \in EndPeers(d, e).val => p \in EndPeers(d', e).val)
    BY <1>3, <1>4, <1>5, <2>1 DEF EndPeers, Gives, Failed
  <2>2. ASSUME NEW n \in DOMAIN d.policies, p \in GetAffectedPeersByPolicy(d, n).val
        PROVE  p \in GetAffectedPeersByPolicy(d', n).val
    <3>1. /\ ~d.policies[n].del
          /\ EndPeers(d, d.policies[n].src).ok /\ EndPeers(d, d.policies[n].tgt).ok
      BY <2>2 DEF GetAffectedPeersByPolicy, Failed
    <3>2. p \in EndPeers(d, d.policies[n].src).val \/ p \in EndPeers(d, d.policies[n].tgt).val
      BY <2>2 DEF GetAffectedPeersByPolicy, Failed, Gives
    <3> QED BY <1>2, <2>1, <3>1, <3>2 DEF GetAffectedPeersByPolicy, Gives
  <2> QED BY <1>2, <2>2 DEF Stays
<1> QED BY <1>1, <1>6, <1>7, <1>8, PeerStale

(* So is, by UpdatePeer, whoever has rules that name the address.          *)
LEMMA UpdatePeerStale ==
  ASSUME TypeOK, StaleIsPending, NEW q, NEW row, UpdatePeer(q, row)
  PROVE  StaleIsPending'
<1>1. /\ d' = [d EXCEPT !.peers[q] = row] /\ adrift' = adrift \cup Changed(d')
      /\ UNCHANGED <<pending, queue, bundle>>
  BY DEF UpdatePeer, ReplacePeer
<1>2. /\ d'.peers = [d.peers EXCEPT ![q] = row] /\ d'.members = d.members
      /\ d'.services = d.services /\ d'.policies = d.policies /\ d'.groups = d.groups
  BY <1>1 DEF TypeOK
<1>3. DOMAIN d'.peers = DOMAIN d.peers
  BY <1>2
<1>4. \A g : LiveGroup(d, g) <=> LiveGroup(d', g)
  BY <1>2 DEF LiveGroup
<1>5. \A g : Members(d, g) = Members(d', g)
  BY <1>2, <1>3, <1>4 DEF Members
<1>6. ASSUME NEW p \in Peer' \ adrift'
      PROVE  p \in Peer \ adrift /\ Compile(d', p) = Compile(d, p)
  BY <1>1, <1>3 DEF Peer, Changed
<1>7. ASSUME NEW p, Broken(d, p)
      PROVE  Broken(d', p)
  <2>1. PICK n \in LoadApplicablePolicies(d, p) : Dangling(d, d.policies[n])
    BY <1>7 DEF Broken
  <2>2. n \in LoadApplicablePolicies(d', p)
    BY <1>2, <1>5 DEF LoadApplicablePolicies, Applicable, Has
  <2>3. Dangling(d', d'.policies[n])
    BY <1>2, <1>3, <1>4, <2>1 DEF Dangling, NamesMissingPeer, LiveService
  <2> QED BY <2>2, <2>3 DEF Broken
<1>8. ASSUME NEW p
      PROVE  Stays(d, d', p)
  <2>1. \A e : EndPeers(d, e) = EndPeers(d', e)
    BY <1>3, <1>4, <1>5 DEF EndPeers
  <2>2. ASSUME NEW n \in DOMAIN d.policies
        PROVE  GetAffectedPeersByPolicy(d, n) = GetAffectedPeersByPolicy(d', n)
    <3>1. EndPeers(d, d.policies[n].src) = EndPeers(d', d.policies[n].src)
      BY <2>1
    <3>2. EndPeers(d, d.policies[n].tgt) = EndPeers(d', d.policies[n].tgt)
      BY <2>1
    <3> QED BY <1>2, <3>1, <3>2 DEF GetAffectedPeersByPolicy
  <2> QED BY <1>2, <2>2 DEF Stays
<1> QED BY <1>1, <1>6, <1>7, <1>8, PeerStale

(* DeletePeer: the peer is in no policy, and its pending changes go with   *)
(* it.                                                                     *)
LEMMA DeletePeerStale ==
  ASSUME TypeOK, StaleIsPending, NEW q, DeletePeer(q)
  PROVE  StaleIsPending'
<1>1. /\ d' = [d EXCEPT !.peers = Without(@, q), !.members = {m \in @ : m[2] # q}]
      /\ ~PeerInUse(q)
      /\ pending' = {r \in pending : r[1] # q} /\ bundle' = Without(bundle, q)
      /\ adrift' = (adrift \cup Changed(d')) \ {q} /\ queue' = queue
  BY DEF DeletePeer, RemovePeer
<1>2. /\ d'.peers = Without(d.peers, q) /\ d'.members = {m \in d.members : m[2] # q}
      /\ d'.services = d.services /\ d'.policies = d.policies /\ d'.groups = d.groups
  BY <1>1 DEF TypeOK
<1>3. DOMAIN d'.peers = DOMAIN d.peers \ {q}
  BY <1>2 DEF Without
<1>4. \A g : LiveGroup(d, g) <=> LiveGroup(d', g)
  BY <1>2 DEF LiveGroup
<1>5. \A g, p : p # q => (p \in Members(d, g) <=> p \in Members(d', g))
  BY <1>2, <1>3, <1>4 DEF Members
<1>6. ASSUME NEW p \in Peer' \ adrift'
      PROVE  /\ p # q /\ p \in Peer \ adrift
             /\ Compile(d', p) = Compile(d, p) /\ bundle'[p] = bundle[p]
             /\ (\E r \in pending : r[1] = p) => (\E r \in pending' : r[1] = p)
  <2>1. p \in DOMAIN d.peers \ adrift /\ p # q /\ p \notin Changed(d')
    BY <1>1, <1>3 DEF Peer
  <2>2. Compile(d', p) = Compile(d, p)
    BY <2>1, <1>3 DEF Changed, Peer
  <2>3. bundle'[p] = bundle[p]
    BY <1>1, <2>1 DEF Without, TypeOK, Peer
  <2> QED BY <1>1, <2>1, <2>2, <2>3 DEF Peer
<1>7. ASSUME NEW p, p # q, Broken(d, p)
      PROVE  Broken(d', p)
  <2>1. PICK n \in LoadApplicablePolicies(d, p) : Dangling(d, d.policies[n])
    BY <1>7 DEF Broken
  <2>2. n \in LoadApplicablePolicies(d', p)
    BY <1>2, <1>5, <1>7 DEF LoadApplicablePolicies, Applicable, Has
  <2>3. Dangling(d', d'.policies[n])
    BY <1>2, <1>3, <1>4, <2>1 DEF Dangling, NamesMissingPeer, LiveService
  <2> QED BY <2>2, <2>3 DEF Broken
<1>8. ASSUME NEW p, p # q
      PROVE  Stays(d, d', p)
  <2>1. ASSUME NEW e, EndPeers(d, e).ok, ~(e.type = "peer" /\ e.id = q)
        PROVE  EndPeers(d', e).ok /\ (p \in EndPeers(d, e).val => p \in EndPeers(d', e).val)
    BY <1>3, <1>4, <1>5, <1>8, <2>1 DEF EndPeers, Gives, Failed
  <2>2. ASSUME NEW n \in DOMAIN d.policies, p \in GetAffectedPeersByPolicy(d, n).val
        PROVE  p \in GetAffectedPeersByPolicy(d', n).val
    <3>1. /\ ~d.policies[n].del
          /\ EndPeers(d, d.policies[n].src).ok /\ EndPeers(d, d.policies[n].tgt).ok
      BY <2>2 DEF GetAffectedPeersByPolicy, Failed
    <3>2. p \in EndPeers(d, d.policies[n].src).val \/ p \in EndPeers(d, d.policies[n].tgt).val
      BY <2>2 DEF GetAffectedPeersByPolicy, Failed, Gives
    <3>3. \A e \in {d.policies[n].src, d.policies[n].tgt} : ~(e.type = "peer" /\ e.id = q)
      BY <1>1, <3>1 DEF PeerInUse, LivePolicies
    <3> QED BY <1>2, <2>1, <3>1, <3>2, <3>3 DEF GetAffectedPeersByPolicy, Gives
  <2> QED BY <1>2, <2>2 DEF Stays
<1> QED BY <1>1, <1>6, <1>7, <1>8, PeerStale

(* ProcessChange: a peer that a change signalled has a row in              *)
(* pending_changes now.                                                    *)
LEMMA ProcessChangeStale ==
  ASSUME TypeOK, StaleIsPending, ProcessChange
  PROVE  StaleIsPending'
<1> DEFINE c == Head(queue)
<1>1. /\ queue # <<>> /\ queue' = Tail(queue)
      /\ pending' = pending \cup {<<p, c.ent>> : p \in AffectsIn(d, c) \cap Peer}
      /\ UNCHANGED <<d, bundle, adrift>>
  BY DEF ProcessChange, AffectsIn
<1> HIDE DEF c
<1>2. Waiting = {c} \cup Waiting'
  <2>1. queue \in Seq(Change) /\ queue # <<>>
    BY <1>1 DEF TypeOK
  <2>2. /\ DOMAIN queue = 1..Len(queue) /\ Len(queue) \in Nat \ {0}
        /\ DOMAIN queue' = 1..(Len(queue) - 1) /\ queue[1] = c
        /\ \A i \in 1..(Len(queue) - 1) : queue'[i] = queue[i + 1]
    BY <1>1, <2>1 DEF c
  <2>3. \A i \in DOMAIN queue : queue[i] = c \/ \E j \in DOMAIN queue' : queue'[j] = queue[i]
    <3> TAKE i \in DOMAIN queue
    <3>1. CASE i = 1
      BY <2>2, <3>1
    <3>2. CASE i # 1
      <4>1. i - 1 \in 1..(Len(queue) - 1) /\ (i - 1) + 1 = i
        BY <2>2, <3>2
      <4> QED BY <2>2, <4>1
    <3> QED BY <3>1, <3>2
  <2>4. \A j \in DOMAIN queue' : \E i \in DOMAIN queue : queue'[j] = queue[i]
    <3> TAKE j \in DOMAIN queue'
    <3>1. j + 1 \in DOMAIN queue
      BY <2>2
    <3> QED BY <2>2, <3>1
  <2>5. \E i \in DOMAIN queue : queue[i] = c
    BY <2>2
  <2> QED BY <2>3, <2>4, <2>5 DEF Waiting
<1> SUFFICES ASSUME NEW p \in Peer \ adrift, Signalled(p)
             PROVE  Signalled(p)'
  BY <1>1 DEF StaleIsPending, Peer
<1>3. Signalled(p)' <=> \/ \E r \in pending' : r[1] = p
                        \/ \E x \in Waiting' : p \in AffectsIn(d', x)
  BY DEF Signalled, Affects, AffectsIn, Waiting
<1>4. CASE \E r \in pending : r[1] = p
  BY <1>1, <1>3, <1>4
<1>5. CASE p \in AffectsIn(d, c)
  <2>1. <<p, c.ent>> \in pending' /\ <<p, c.ent>>[1] = p
    BY <1>1, <1>5
  <2> QED BY <1>3, <2>1
<1>6. CASE \E x \in Waiting' : p \in AffectsIn(d, x)
  BY <1>1, <1>3, <1>6
<1> QED BY <1>2, <1>4, <1>5, <1>6, SignalledIs

(* What a purge removes nobody sees.                                       *)
LEMMA PurgedSame ==
  ASSUME TypeOK, NEW p
  PROVE  /\ Purged(d).peers = d.peers
         /\ Untouched(d, Purged(d), p) /\ Stays(d, Purged(d), p)
<1> DEFINE e == Purged(d)
           live(t) == {x \in DOMAIN t : ~t[x].del}
<1>1. /\ e.peers = d.peers /\ e.members = {m \in d.members : LiveGroup(d, m[1])}
      /\ e.groups = [g \in live(d.groups) |-> d.groups[g]]
      /\ e.policies = [n \in live(d.policies) |-> d.policies[n]]
      /\ e.services = [s \in live(d.services) |-> d.services[s]]
  BY DEF Purged, TypeOK
<1> HIDE DEF e
<1>2. \A g : LiveGroup(d, g) <=> LiveGroup(e, g)
  BY <1>1 DEF LiveGroup
<1>3. \A g : Members(d, g) = Members(e, g)
  BY <1>1, <1>2 DEF Members
<1>4. \A s : SameService(d, e, s)
  BY <1>1 DEF SameService, LiveService
<1>5. \A g : SameGroup(d, e, g)
  BY <1>2, <1>3 DEF SameGroup
<1>6. \A n \in DOMAIN d.policies : ~d.policies[n].del =>
        n \in DOMAIN e.policies /\ e.policies[n] = d.policies[n]
  BY <1>1
<1>7. \A n \in DOMAIN e.policies : n \in DOMAIN d.policies /\ ~d.policies[n].del
  BY <1>1
<1>8. \A n \in DOMAIN d.policies : SameFor(d, e, d.policies[n])
  BY <1>4, <1>5, TypeEnds DEF SameFor, SameEnd, IsEnds
<1>9. Untouched(d, e, p)
  BY <1>6, <1>7, <1>8, HasSame DEF Untouched, LoadApplicablePolicies, Applicable, SameFor
<1>10. \A x : EndPeers(d, x) = EndPeers(e, x)
  BY <1>1, <1>2, <1>3 DEF EndPeers
<1>11. ASSUME NEW n \in DOMAIN d.policies, p \in GetAffectedPeersByPolicy(d, n).val
       PROVE  /\ n \in DOMAIN e.policies /\ e.policies[n] = d.policies[n]
              /\ p \in GetAffectedPeersByPolicy(e, n).val
  <2>1. n \in DOMAIN e.policies /\ e.policies[n] = d.policies[n]
    BY <1>6, <1>11, AffectedLive
  <2>2. EndPeers(d, d.policies[n].src) = EndPeers(e, d.policies[n].src)
    BY <1>10
  <2>3. EndPeers(d, d.policies[n].tgt) = EndPeers(e, d.policies[n].tgt)
    BY <1>10
  <2> QED BY <1>11, <2>1, <2>2, <2>3 DEF GetAffectedPeersByPolicy
<1> QED BY <1>1, <1>9, <1>11 DEF Stays, e

(* A sequence without one of its elements has only elements it had.        *)
LEMMA RemovedFrom ==
  ASSUME snaps \in Seq(SnapshotRow), NEW i \in DOMAIN snaps, NEW t, t = RemoveAt(snaps, i)
  PROVE  /\ t \in Seq(SnapshotRow)
         /\ \A k \in DOMAIN t : t[k] \in {snaps[j] : j \in DOMAIN snaps}
<1>1. i \in 1..Len(snaps)
  OBVIOUS
<1>2. t = SubSeq(snaps, 1, i - 1) \o SubSeq(snaps, i + 1, Len(snaps))
  BY <1>1 DEF RemoveAt
<1> DEFINE a == SubSeq(snaps, 1, i - 1)
           b == SubSeq(snaps, i + 1, Len(snaps))
<1>3. /\ a \in Seq(SnapshotRow) /\ b \in Seq(SnapshotRow)
      /\ \A k \in DOMAIN a : a[k] \in {snaps[j] : j \in DOMAIN snaps}
      /\ \A k \in DOMAIN b : b[k] \in {snaps[j] : j \in DOMAIN snaps}
  BY <1>1
<1>4. t = a \o b
  BY <1>2
<1> HIDE DEF a, b
<1>5. t \in Seq(SnapshotRow)
  BY <1>3, <1>4
<1>6. ASSUME NEW k \in DOMAIN t
      PROVE  t[k] \in {snaps[j] : j \in DOMAIN snaps}
  <2>1. k \in 1..(Len(a) + Len(b))
    BY <1>3, <1>4
  <2>2. t[k] = IF k <= Len(a) THEN a[k] ELSE b[k - Len(a)]
    BY <1>3, <1>4, <2>1
  <2>3. CASE k <= Len(a)
    BY <1>3, <2>1, <2>2, <2>3
  <2>4. CASE k > Len(a)
    <3>1. k - Len(a) \in DOMAIN b
      BY <1>3, <2>1, <2>4
    <3> QED BY <1>3, <2>1, <2>2, <2>4, <3>1
  <2> QED BY <1>3, <2>1, <2>3, <2>4
<1> QED BY <1>5, <1>6

(* The two approvals: rows of the peer go, and at most one snapshot, unless *)
(* the cleanup takes them all.                                             *)
LEMMA ApproveIs ==
  ASSUME TypeOK, NEW p, NEW ent, Apply(p) \/ ApplyEntity(p, ent)
  PROVE  /\ p \in Peer /\ bundle' = [bundle EXCEPT ![p] = Compile(d, p)]
         /\ pending' \subseteq pending /\ \A r \in pending : r[1] # p => r \in pending'
         /\ adrift' = adrift \ {p} /\ UNCHANGED <<queue, used, edits, forced>>
         /\ \/ d' = Purged(d) /\ ~PurgeFails(d) /\ snaps' = <<>>
            \/ d' = d
         /\ snaps' \in Seq(SnapshotRow)
         /\ \A k \in DOMAIN snaps' : snaps'[k] \in {snaps[j] : j \in DOMAIN snaps}
         /\ \/ partial' = FALSE /\ snaps' = <<>>
            \/ partial' = partial /\ snaps' = snaps
            \/ partial' = TRUE
<1>1. PICK rest, left :
         /\ Approve(p, rest, left) /\ rest \subseteq pending
         /\ \A r \in pending : r[1] # p => r \in rest
         /\ left = snaps \/ \E i \in DOMAIN snaps : left = RemoveAt(snaps, i)
  <2>1. CASE Apply(p)
    <3>1. Approve(p, {r \in pending : r[1] # p}, snaps)
      BY <2>1 DEF Apply
    <3> QED BY <3>1
  <2>2. CASE ApplyEntity(p, ent)
    <3>1. Approve(p, pending \ {<<p, ent>>}, SnapshotDeleted(ent))
      BY <2>2 DEF ApplyEntity
    <3>2. \A r \in pending : r[1] # p => r \in pending \ {<<p, ent>>}
      OBVIOUS
    <3>3. \/ SnapshotDeleted(ent) = snaps
          \/ \E i \in DOMAIN snaps : SnapshotDeleted(ent) = RemoveAt(snaps, i)
      <4>1. CASE \E i \in DOMAIN snaps : snaps[i].ent = ent
        <5>1. SnapshotOf(ent) \in DOMAIN snaps
          BY <4>1 DEF SnapshotOf
        <5> QED BY <4>1, <5>1 DEF SnapshotDeleted
      <4> QED BY <4>1 DEF SnapshotDeleted
    <3> QED BY <3>1, <3>2, <3>3
  <2> QED BY <2>1, <2>2
<1>2. /\ left \in Seq(SnapshotRow)
      /\ \A k \in DOMAIN left : left[k] \in {snaps[j] : j \in DOMAIN snaps}
  BY <1>1, RemovedFrom DEF TypeOK
<1>3. /\ p \in Peer /\ bundle' = [bundle EXCEPT ![p] = Compile(d, p)] /\ pending' = rest
      /\ adrift' = adrift \ {p} /\ UNCHANGED <<queue, used, edits, forced>>
      /\ \/ d' = Purged(d) /\ ~PurgeFails(d) /\ snaps' = <<>>
         \/ d' = d /\ snaps' = left
      /\ partial' = (snaps' # <<>> /\ (partial \/ left # snaps))
  BY <1>1 DEF Approve
<1>4. /\ snaps' \in Seq(SnapshotRow)
      /\ \A k \in DOMAIN snaps' : snaps'[k] \in {snaps[j] : j \in DOMAIN snaps}
  <2>1. CASE snaps' = <<>>
    BY <2>1
  <2>2. CASE snaps' = left
    BY <1>2, <2>2
  <2> QED BY <1>3, <2>1, <2>2
<1>5. \/ partial' = FALSE /\ snaps' = <<>>
      \/ partial' = partial /\ snaps' = snaps
      \/ partial' = TRUE
  BY <1>3 DEF TypeOK
<1> QED BY <1>1, <1>3, <1>4, <1>5

(* Apply, ApplyEntity: the peer has the bundle of the database; the cleanup *)
(* changes nobody's rules.                                                 *)
LEMMA ApplyStale ==
  ASSUME TypeOK, StaleIsPending, NEW q, NEW ent, Apply(q) \/ ApplyEntity(q, ent)
  PROVE  StaleIsPending'
<1>1. /\ q \in Peer /\ \A r \in pending : r[1] # q => r \in pending'
      /\ bundle' = [bundle EXCEPT ![q] = Compile(d, q)]
      /\ d' = d \/ d' = Purged(d)
      /\ adrift' = adrift \ {q} /\ queue' = queue
  BY ApproveIs
<1>2. d'.peers = d.peers
  BY <1>1, PurgedSame
<1>3. ASSUME NEW p
      PROVE  /\ Compile(d', p) = Compile(d, p) /\ (Broken(d, p) => Broken(d', p))
             /\ Stays(d, d', p)
  <2>1. CASE d' = d
    BY <2>1 DEF Stays
  <2>2. CASE d' = Purged(d)
    BY <1>2, <2>2, PurgedSame, UntouchedCompile
  <2> QED BY <1>1, <2>1, <2>2
<1> SUFFICES ASSUME NEW p \in Peer' \ adrift', ~Broken(d', p), ~Signalled(p)'
             PROVE  Compile(d', p) = bundle'[p]
  BY DEF StaleIsPending, Broken, Peer
<1>4. CASE p = q
  BY <1>1, <1>3, <1>4 DEF TypeOK
<1>5. CASE p # q
  <2>1. p \in Peer \ adrift /\ bundle'[p] = bundle[p]
    BY <1>1, <1>2, <1>5 DEF Peer, TypeOK
  <2>2. /\ ~\E r \in pending : r[1] = p
        /\ ~\E c \in Waiting : p \in AffectsIn(d', c)
    <3>1. Signalled(p)' <=> \/ \E r \in pending' : r[1] = p
                            \/ \E c \in Waiting' : p \in AffectsIn(d', c)
      BY DEF Signalled, Affects, AffectsIn, Waiting
    <3>2. Waiting' = Waiting
      BY <1>1 DEF Waiting
    <3> QED BY <1>1, <1>5, <3>1, <3>2
  <2>3. ~Signalled(p)
    BY <1>3, <2>2, SignalledIs, StaysAffected
  <2> QED BY <1>3, <2>1, <2>3 DEF StaleIsPending, Broken
<1> QED BY <1>4, <1>5

(* A rollback puts every peer adrift that has other rules now.             *)
LEMMA RollbackStale ==
  ASSUME NEW db, AfterRollback(db), db.peers = d.peers
  PROVE  StaleIsPending'
<1>1. /\ d' = db /\ bundle' = bundle
      /\ adrift' = adrift \cup {q \in Peer : Compile(db, q) # bundle[q]}
  BY DEF AfterRollback
<1>2. Peer' = Peer
  BY <1>1 DEF Peer
<1>3. \A p \in Peer' \ adrift' : Compile(d', p) = bundle'[p]
  BY <1>1, <1>2
<1> QED BY <1>3 DEF StaleIsPending

-----------------------------------------------------------------------------
(***************************************************************************)
(* Types, and that ids in use were given out.                              *)
(***************************************************************************)
TypeInv == TypeOK /\ KnownInv

(* The tables alone.                                                       *)
TablesOK(db) ==
  /\ db = [peers |-> db.peers, groups |-> db.groups, members |-> db.members,
           services |-> db.services, policies |-> db.policies]
  /\ IsTable(db.peers, DOMAIN PeerRows, PeerRow) /\ IsTable(db.groups, Groups, GroupRow)
  /\ db.members \subseteq Groups \X DOMAIN PeerRows
  /\ IsTable(db.services, DOMAIN ServiceRows, ServiceRow) /\ IsTable(db.policies, Nat, PolicyRow)

(* The tables of a well-typed state.                                       *)
LEMMA TypeTables == TypeOK => TablesOK(d)
BY DEF TypeOK, TablesOK

(* A table with a row added is a table.                                    *)
LEMMA IsTableWith ==
  ASSUME NEW t, NEW ids, NEW rows, IsTable(t, ids, rows), NEW k \in ids, NEW v \in rows
  PROVE  IsTable(With(t, k, v), ids, rows)
BY DEF IsTable, With

(* A table with a row replaced is a table on the same ids.                 *)
LEMMA IsTableExcept ==
  ASSUME NEW t, NEW ids, NEW rows, IsTable(t, ids, rows), NEW k \in DOMAIN t, NEW v \in rows
  PROVE  IsTable([t EXCEPT ![k] = v], ids, rows) /\ DOMAIN [t EXCEPT ![k] = v] = DOMAIN t
BY DEF IsTable

(* Given ids stay given.                                                   *)
LEMMA RowFitsKept ==
  ASSUME NEW s, NEW ids, NEW more, ids \subseteq more, RowFits(s, ids)
  PROVE  RowFits(s, more)
BY DEF RowFits, GivenIn

(* A snapshot that fits is taken, or an older one stays.                   *)
LEMMA SnapshotType ==
  ASSUME TypeInv, used \subseteq used', NEW ent \in Entity,
         NEW action \in {"create", "update", "delete"},
         NEW row \in PolicyRow \cup ServiceRow \cup GroupRow,
         NEW members \in SUBSET (Groups \X DOMAIN PeerRows),
         RowFits([ent |-> ent, action |-> action, row |-> row, members |-> members], used'),
         Snapshot(ent, action, row, members)
  PROVE  /\ snaps' \in Seq(SnapshotRow)
         /\ \A i \in DOMAIN snaps' : RowFits(snaps'[i], used')
<1> DEFINE s == [ent |-> ent, action |-> action, row |-> row, members |-> members]
<1>1. s \in SnapshotRow
  BY DEF SnapshotRow
<1>2. snaps \in Seq(SnapshotRow) /\ \A i \in DOMAIN snaps : RowFits(snaps[i], used')
  BY RowFitsKept DEF TypeInv, TypeOK, KnownInv
<1>3. snaps' = snaps \/ snaps' = Append(snaps, s)
  BY DEF Snapshot
<1>4. RowFits(s, used')
  OBVIOUS
<1> HIDE DEF s
<1>5. CASE snaps' = Append(snaps, s)
  <2>1. DOMAIN snaps' = DOMAIN snaps \cup {Len(snaps) + 1} /\ snaps' \in Seq(SnapshotRow)
    BY <1>1, <1>2, <1>5
  <2>2. snaps'[Len(snaps) + 1] = s /\ \A i \in DOMAIN snaps : snaps'[i] = snaps[i]
    BY <1>2, <1>5
  <2> QED BY <1>2, <1>4, <2>1, <2>2
<1> QED BY <1>2, <1>3, <1>5

(* The queue stays one of changes.                                         *)
LEMMA QueueType ==
  ASSUME TypeInv, NEW ent \in Entity, NEW peers \in SUBSET DOMAIN PeerRows,
         QueuePeers(ent, peers) \/ QueueGroup(ent)
  PROVE  queue' \in Seq(Change)
<1>1. PeersOf(ent, peers) \in Change /\ GroupOf(ent) \in Change
  BY DEF PeersOf, GroupOf, Change
<1>2. queue \in Seq(Change)
  BY DEF TypeInv, TypeOK
<1>3. \/ queue' = queue
      \/ queue' = Append(queue, PeersOf(ent, peers)) \/ queue' = Append(queue, GroupOf(ent))
  BY DEF QueuePeers, QueueGroup
<1> QED BY <1>1, <1>2, <1>3

(* Whoever a policy concerns is a peer.                                    *)
LEMMA AffectedType ==
  ASSUME NEW db, NEW n
  PROVE  GetAffectedPeersByPolicy(db, n).val \subseteq DOMAIN db.peers
<1>1. \A e : EndPeers(db, e).val \subseteq DOMAIN db.peers
  BY DEF EndPeers, Gives, Failed, Members
<1> QED BY <1>1 DEF GetAffectedPeersByPolicy, Gives, Failed

(* The step of an edit of policies, groups or services, given its parts.   *)
LEMMA EditType ==
  ASSUME TypeInv, Edit, TablesOK(d'), d'.peers = d.peers, UNCHANGED <<pending, bundle, adrift, partial>>,
         used \subseteq used', used' \subseteq Entity \cup ({"peer"} \X DOMAIN PeerRows),
         IsFiniteSet({u \in used' : u[1] = "policy"}),
         snaps' \in Seq(SnapshotRow), \A i \in DOMAIN snaps' : RowFits(snaps'[i], used'),
         queue' \in Seq(Change), forced' \in BOOLEAN,
         \A n \in DOMAIN d'.policies : <<"policy", n>> \in used' /\ GivenIn(d'.policies[n], used')
  PROVE  TypeInv'
<1>1. edits' \in 0..MaxEdits
  BY CatalogAssumption DEF Edit, TypeInv, TypeOK
<1>2. DOMAIN bundle' = Peer'
  BY DEF Peer, TypeInv, TypeOK
<1> QED BY <1>1, <1>2 DEF TypeInv, TypeOK, KnownInv, TablesOK

(* A request refers to ids that were given out.                            *)
LEMMA RequestGiven ==
  ASSUME NEW row \in Requests
  PROVE  row \in PolicyRow /\ GivenIn(row, used)
BY CatalogAssumption DEF Requests, Given, GivenIn

(* CreatePolicy keeps the types: ids of policies are counted, so the next  *)
(* one is a number.                                                        *)
LEMMA CreatePolicyType ==
  ASSUME TypeInv, NEW row \in Requests, CreatePolicy(row)
  PROVE  TypeInv'
<1> DEFINE given == {u \in used : u[1] = "policy"}
           n == Cardinality(given) + 1
           aff == GetAffectedPeersByPolicy(d', n).val
<1>1. /\ Edit /\ used' = used \cup {<<"policy", n>>}
      /\ d' = [d EXCEPT !.policies = With(@, n, row)]
      /\ Snapshot(<<"policy", n>>, "create", row, {})
      /\ QueuePeers(<<"policy", n>>, aff)
      /\ forced' = (forced \/ Dangling(d, row)) /\ UNCHANGED <<pending, bundle, adrift, partial>>
  BY DEF CreatePolicy, NewID, Kept, SnapshotPolicy
<1>2. n \in Nat
  BY FS_CardinalityType DEF TypeInv, KnownInv
<1> HIDE DEF n
<1>3. <<"policy", n>> \in Entity
  BY <1>2 DEF Entity
<1>4. row \in PolicyRow /\ GivenIn(row, used')
  BY <1>1, RequestGiven DEF GivenIn
<1>5. /\ d'.peers = d.peers /\ d'.groups = d.groups /\ d'.members = d.members
      /\ d'.services = d.services /\ d'.policies = With(d.policies, n, row)
      /\ d' = [peers |-> d.peers, groups |-> d.groups, members |-> d.members,
               services |-> d.services, policies |-> With(d.policies, n, row)]
  BY <1>1 DEF TypeInv, TypeOK
<1>6. TablesOK(d')
  BY <1>2, <1>4, <1>5, IsTableWith DEF TypeInv, TypeOK, TablesOK
<1>7. IsFiniteSet({u \in used' : u[1] = "policy"})
  <2>1. {u \in used' : u[1] = "policy"} = given \cup {<<"policy", n>>}
    BY <1>1
  <2> QED BY <2>1, FS_AddElement DEF TypeInv, KnownInv
<1>8. /\ snaps' \in Seq(SnapshotRow)
      /\ \A i \in DOMAIN snaps' : RowFits(snaps'[i], used')
  <2>1. RowFits([ent |-> <<"policy", n>>, action |-> "create", row |-> row, members |-> {}], used')
    BY <1>4 DEF RowFits
  <2>2. used \subseteq used' /\ {} \in SUBSET (Groups \X DOMAIN PeerRows)
    BY <1>1
  <2>3. row \in PolicyRow \cup ServiceRow \cup GroupRow
    BY <1>4
  <2> HIDE DEF given
  <2> QED BY <1>1, <1>3, <2>1, <2>2, <2>3, SnapshotType
<1>9. queue' \in Seq(Change)
  <2>1. aff \subseteq DOMAIN PeerRows
    BY <1>5, AffectedType DEF TypeInv, TypeOK, IsTable
  <2> QED BY <1>1, <1>3, <2>1, QueueType
<1>10. \A m \in DOMAIN d'.policies : <<"policy", m>> \in used' /\ GivenIn(d'.policies[m], used')
  <2> SUFFICES ASSUME NEW m \in DOMAIN d'.policies
               PROVE  <<"policy", m>> \in used' /\ GivenIn(d'.policies[m], used')
    OBVIOUS
  <2>1. CASE m = n
    BY <1>1, <1>4, <1>5, <2>1 DEF With
  <2>2. CASE m # n
    <3>1. m \in DOMAIN d.policies /\ d'.policies[m] = d.policies[m]
      BY <1>5, <2>2 DEF With
    <3> QED BY <1>1, <3>1 DEF TypeInv, KnownInv, GivenIn
  <2> QED BY <2>1, <2>2
<1>11. used' \subseteq Entity \cup ({"peer"} \X DOMAIN PeerRows) /\ forced' \in BOOLEAN
  BY <1>1, <1>3 DEF TypeInv, TypeOK
<1> QED BY <1>1, <1>5, <1>6, <1>7, <1>8, <1>9, <1>10, <1>11, EditType

(* Another row for a policy.                                               *)
LEMMA ReplacePolicyType ==
  ASSUME TypeInv, NEW n \in LivePolicies, NEW row \in PolicyRow, GivenIn(row, used), Edit,
         d' = [d EXCEPT !.policies[n] = row], NEW action \in {"update", "delete"},
         Snapshot(<<"policy", n>>, action, d.policies[n], {}),
         NEW aff \in SUBSET DOMAIN PeerRows, QueuePeers(<<"policy", n>>, aff),
         forced' \in BOOLEAN, used' = used, UNCHANGED <<pending, bundle, adrift, partial>>
  PROVE  TypeInv'
<1>1. n \in DOMAIN d.policies /\ n \in Nat /\ <<"policy", n>> \in Entity
  BY DEF LivePolicies, TypeInv, TypeOK, IsTable, Entity
<1>2. d.policies[n] \in PolicyRow /\ GivenIn(d.policies[n], used)
  BY <1>1 DEF TypeInv, TypeOK, IsTable, KnownInv
<1>3. /\ d'.peers = d.peers /\ d'.policies = [d.policies EXCEPT ![n] = row]
      /\ d' = [peers |-> d.peers, groups |-> d.groups, members |-> d.members,
               services |-> d.services, policies |-> [d.policies EXCEPT ![n] = row]]
  BY DEF TypeInv, TypeOK
<1>4. TablesOK(d')
  <2>1. IsTable(d'.policies, Nat, PolicyRow)
    BY <1>1, <1>3, IsTableExcept DEF TypeInv, TypeOK
  <2> QED BY <1>3, <2>1 DEF TypeInv, TypeOK, TablesOK
<1>5. /\ snaps' \in Seq(SnapshotRow)
      /\ \A i \in DOMAIN snaps' : RowFits(snaps'[i], used')
  <2>1. RowFits([ent |-> <<"policy", n>>, action |-> action, row |-> d.policies[n],
                 members |-> {}], used')
    BY <1>2 DEF RowFits
  <2>2. used \subseteq used' /\ {} \in SUBSET (Groups \X DOMAIN PeerRows)
    OBVIOUS
  <2>3. d.policies[n] \in PolicyRow \cup ServiceRow \cup GroupRow
    BY <1>2
  <2>4. action \in {"create", "update", "delete"}
    OBVIOUS
  <2> QED BY <1>1, <2>1, <2>2, <2>3, <2>4, SnapshotType
<1>6. queue' \in Seq(Change)
  BY <1>1, QueueType
<1>7. \A m \in DOMAIN d'.policies : <<"policy", m>> \in used' /\ GivenIn(d'.policies[m], used')
  <2> SUFFICES ASSUME NEW m \in DOMAIN d'.policies
               PROVE  <<"policy", m>> \in used' /\ GivenIn(d'.policies[m], used')
    OBVIOUS
  <2>1. m \in DOMAIN d.policies /\ d'.policies[m] = IF m = n THEN row ELSE d.policies[m]
    BY <1>1, <1>3, IsTableExcept DEF TypeInv, TypeOK, IsTable
  <2> QED BY <2>1 DEF TypeInv, KnownInv
<1>8. /\ used' \subseteq Entity \cup ({"peer"} \X DOMAIN PeerRows)
      /\ IsFiniteSet({u \in used' : u[1] = "policy"})
  BY DEF TypeInv, TypeOK, KnownInv
<1> QED BY <1>3, <1>4, <1>5, <1>6, <1>7, <1>8, EditType

(* UpdatePolicy keeps the types.                                           *)
LEMMA UpdatePolicyType ==
  ASSUME TypeInv, NEW n, NEW row \in PolicyRow, GivenIn(row, used), UpdatePolicy(n, row)
  PROVE  TypeInv'
<1> DEFINE aff == GetAffectedPeersByPolicy(d, n).val \cup GetAffectedPeersByPolicy(d', n).val
<1>1. /\ n \in LivePolicies /\ Edit /\ d' = [d EXCEPT !.policies[n] = row]
      /\ Snapshot(<<"policy", n>>, "update", d.policies[n], {})
      /\ QueuePeers(<<"policy", n>>, aff) /\ forced' = (forced \/ Dangling(d, row))
      /\ used' = used /\ UNCHANGED <<pending, bundle, adrift, partial>>
  BY DEF UpdatePolicy, PoliciesFanOut, Kept, SnapshotPolicy
<1>2. d'.peers = d.peers
  BY <1>1 DEF TypeInv, TypeOK
<1>3. aff \in SUBSET DOMAIN PeerRows
  BY <1>2, AffectedType DEF TypeInv, TypeOK, IsTable
<1>4. forced' \in BOOLEAN
  BY <1>1
<1> QED BY <1>1, <1>3, <1>4, ReplacePolicyType

(* PatchPolicy keeps the types.                                            *)
LEMMA PatchPolicyType ==
  ASSUME TypeInv, NEW n, PatchPolicy(n)
  PROVE  TypeInv'
<1> DEFINE row == [d.policies[n] EXCEPT !.on = ~@]
<1>1. n \in DOMAIN d.policies /\ UpdatePolicy(n, row)
  BY DEF PatchPolicy, LivePolicies
<1>2. d.policies[n] \in PolicyRow /\ GivenIn(d.policies[n], used)
  BY <1>1 DEF TypeInv, TypeOK, IsTable, KnownInv
<1>3. row \in PolicyRow /\ row.src = d.policies[n].src /\ row.tgt = d.policies[n].tgt
  BY <1>2 DEF PolicyRow
<1> HIDE DEF row
<1>4. GivenIn(row, used)
  BY <1>2, <1>3 DEF GivenIn
<1> QED BY <1>1, <1>3, <1>4, UpdatePolicyType

(* DeletePolicy keeps the types.                                           *)
LEMMA DeletePolicyType ==
  ASSUME TypeInv, NEW n, DeletePolicy(n)
  PROVE  TypeInv'
<1> DEFINE row == [d.policies[n] EXCEPT !.del = TRUE]
           aff == GetAffectedPeersByPolicy(d, n).val
<1>1. /\ n \in LivePolicies /\ Edit /\ d' = [d EXCEPT !.policies[n] = row]
      /\ Snapshot(<<"policy", n>>, "delete", d.policies[n], {})
      /\ QueuePeers(<<"policy", n>>, aff) /\ forced' = forced
      /\ used' = used /\ UNCHANGED <<pending, bundle, adrift, partial>>
  BY DEF DeletePolicy, Kept, SnapshotPolicy
<1>2. d.policies[n] \in PolicyRow /\ GivenIn(d.policies[n], used)
  BY <1>1 DEF TypeInv, TypeOK, IsTable, KnownInv, LivePolicies
<1>3. row \in PolicyRow /\ row.src = d.policies[n].src /\ row.tgt = d.policies[n].tgt
  BY <1>2 DEF PolicyRow
<1> HIDE DEF row
<1>4. GivenIn(row, used)
  BY <1>2, <1>3 DEF GivenIn
<1>5. aff \in SUBSET DOMAIN PeerRows /\ forced' \in BOOLEAN
  BY <1>1, AffectedType DEF TypeInv, TypeOK, IsTable
<1> QED BY <1>1, <1>3, <1>4, <1>5, ReplacePolicyType

(* An edit of a group, given its parts.                                    *)
LEMMA GroupEditType ==
  ASSUME TypeInv, NEW g \in Groups, Edit, TablesOK(d'), d'.peers = d.peers,
         d'.policies = d.policies, NEW action \in {"create", "update", "delete"},
         SnapshotGroup(g, action), used' = used \/ used' = used \cup {<<"group", g>>},
         queue' \in Seq(Change), forced' = forced, UNCHANGED <<pending, bundle, adrift, partial>>
  PROVE  TypeInv'
<1>1. <<"group", g>> \in Entity /\ [del |-> FALSE] \in GroupRow
  BY DEF Entity, GroupRow
<1>2. {m \in d.members : m[1] = g} \in SUBSET (Groups \X DOMAIN PeerRows)
  BY DEF TypeInv, TypeOK
<1>3. RowFits([ent |-> <<"group", g>>, action |-> action, row |-> [del |-> FALSE],
               members |-> {m \in d.members : m[1] = g}], used')
  BY <1>1 DEF RowFits
<1>4. used \subseteq used' /\ [del |-> FALSE] \in PolicyRow \cup ServiceRow \cup GroupRow
  BY <1>1
<1>5. Snapshot(<<"group", g>>, action, [del |-> FALSE], {m \in d.members : m[1] = g})
  BY DEF SnapshotGroup
<1>6. /\ snaps' \in Seq(SnapshotRow)
      /\ \A i \in DOMAIN snaps' : RowFits(snaps'[i], used')
  BY <1>1, <1>2, <1>3, <1>4, <1>5, SnapshotType
<1>7. {u \in used' : u[1] = "policy"} = {u \in used : u[1] = "policy"}
  OBVIOUS
<1>8. /\ used' \subseteq Entity \cup ({"peer"} \X DOMAIN PeerRows)
      /\ IsFiniteSet({u \in used' : u[1] = "policy"}) /\ forced' \in BOOLEAN
  BY <1>1, <1>7 DEF TypeInv, TypeOK, KnownInv
<1>9. \A m \in DOMAIN d'.policies : <<"policy", m>> \in used' /\ GivenIn(d'.policies[m], used')
  BY <1>4 DEF TypeInv, KnownInv, GivenIn
<1> QED BY <1>4, <1>6, <1>8, <1>9, EditType

(* The queue after a change of a group.                                    *)
LEMMA GroupQueueType ==
  ASSUME TypeInv, NEW g \in Groups, QueueGroup(<<"group", g>>)
  PROVE  queue' \in Seq(Change)
<1>1. <<"group", g>> \in Entity
  BY DEF Entity
<1>2. {} \in SUBSET DOMAIN PeerRows
  OBVIOUS
<1> QED BY <1>1, <1>2, QueueType

(* CreateGroup keeps the types.                                            *)
LEMMA CreateGroupType ==
  ASSUME TypeInv, NEW g \in Groups, CreateGroup(g)
  PROVE  TypeInv'
<1>1. /\ Edit /\ used' = used \cup {<<"group", g>>}
      /\ d' = [d EXCEPT !.groups = With(@, g, [del |-> FALSE])]
      /\ SnapshotGroup(g, "create") /\ QueueGroup(<<"group", g>>)
      /\ forced' = forced /\ UNCHANGED <<pending, bundle, adrift, partial>>
  BY DEF CreateGroup, NewID, Kept
<1>2. d' = [peers |-> d.peers, groups |-> With(d.groups, g, [del |-> FALSE]),
            members |-> d.members, services |-> d.services, policies |-> d.policies]
  BY <1>1 DEF TypeInv, TypeOK
<1>3. IsTable(With(d.groups, g, [del |-> FALSE]), Groups, GroupRow)
  <2>1. [del |-> FALSE] \in GroupRow
    BY DEF GroupRow
  <2> QED BY <2>1, IsTableWith DEF TypeInv, TypeOK
<1>4. TablesOK(d')
  BY <1>2, <1>3 DEF TypeInv, TypeOK, TablesOK
<1> QED BY <1>1, <1>2, <1>4, GroupEditType, GroupQueueType

(* UpdateGroup keeps the types.                                            *)
LEMMA UpdateGroupType ==
  ASSUME TypeInv, NEW g \in Groups, UpdateGroup(g)
  PROVE  TypeInv'
<1>1. /\ Edit /\ used' = used /\ d' = d
      /\ SnapshotGroup(g, "update") /\ QueueGroup(<<"group", g>>)
      /\ forced' = forced /\ UNCHANGED <<pending, bundle, adrift, partial>>
  BY DEF UpdateGroup, Kept
<1>2. TablesOK(d')
  BY <1>1, TypeTables DEF TypeInv
<1> QED BY <1>1, <1>2, GroupEditType, GroupQueueType

(* DeleteGroup keeps the types.                                            *)
LEMMA DeleteGroupType ==
  ASSUME TypeInv, NEW g \in Groups, DeleteGroup(g)
  PROVE  TypeInv'
<1> DEFINE row == [d.groups[g] EXCEPT !.del = TRUE]
<1>1. /\ Edit /\ used' = used /\ g \in DOMAIN d.groups
      /\ d' = [d EXCEPT !.groups[g] = row]
      /\ SnapshotGroup(g, "delete") /\ QueueGroup(<<"group", g>>)
      /\ forced' = forced /\ UNCHANGED <<pending, bundle, adrift, partial>>
  BY DEF DeleteGroup, Kept, LiveGroup
<1>2. row \in GroupRow
  BY <1>1 DEF TypeInv, TypeOK, IsTable, GroupRow
<1> HIDE DEF row
<1>3. d' = [peers |-> d.peers, groups |-> [d.groups EXCEPT ![g] = row],
            members |-> d.members, services |-> d.services, policies |-> d.policies]
  BY <1>1 DEF TypeInv, TypeOK
<1>4. IsTable([d.groups EXCEPT ![g] = row], Groups, GroupRow)
  BY <1>1, <1>2, IsTableExcept DEF TypeInv, TypeOK
<1>5. TablesOK(d')
  BY <1>3, <1>4 DEF TypeInv, TypeOK, TablesOK
<1> QED BY <1>1, <1>3, <1>5, GroupEditType, GroupQueueType

(* AddGroupMember keeps the types.                                         *)
LEMMA AddGroupMemberType ==
  ASSUME TypeInv, NEW g \in Groups, NEW p \in Peer, AddGroupMember(g, p)
  PROVE  TypeInv'
<1>1. /\ Edit /\ used' = used
      /\ d' = [d EXCEPT !.members = @ \cup {<<g, p>>}]
      /\ SnapshotGroup(g, "update") /\ QueueGroup(<<"group", g>>)
      /\ forced' = forced /\ UNCHANGED <<pending, bundle, adrift, partial>>
  BY DEF AddGroupMember, Kept
<1>2. d' = [peers |-> d.peers, groups |-> d.groups, members |-> d.members \cup {<<g, p>>},
            services |-> d.services, policies |-> d.policies]
  BY <1>1 DEF TypeInv, TypeOK
<1>3. p \in DOMAIN PeerRows
  BY DEF TypeInv, TypeOK, IsTable, Peer
<1>4. TablesOK(d')
  BY <1>2, <1>3 DEF TypeInv, TypeOK, TablesOK
<1> QED BY <1>1, <1>2, <1>4, GroupEditType, GroupQueueType

(* DeleteGroupMember keeps the types.                                      *)
LEMMA DeleteGroupMemberType ==
  ASSUME TypeInv, NEW g \in Groups, NEW p \in Peer, DeleteGroupMember(g, p)
  PROVE  TypeInv'
<1>1. /\ Edit /\ used' = used
      /\ d' = [d EXCEPT !.members = @ \ {<<g, p>>}]
      /\ SnapshotGroup(g, "update") /\ RemovedPeerQueue(g, p)
      /\ forced' = forced /\ UNCHANGED <<pending, bundle, adrift, partial>>
  BY DEF DeleteGroupMember, Kept
<1>2. d' = [peers |-> d.peers, groups |-> d.groups, members |-> d.members \ {<<g, p>>},
            services |-> d.services, policies |-> d.policies]
  BY <1>1 DEF TypeInv, TypeOK
<1>3. TablesOK(d')
  BY <1>2 DEF TypeInv, TypeOK, TablesOK
<1>4. queue' \in Seq(Change)
  <2>1. <<"group", g>> \in Entity /\ p \in DOMAIN PeerRows
    BY DEF Entity, TypeInv, TypeOK, IsTable, Peer
  <2>2. GroupOf(<<"group", g>>) \in Change /\ PeersOf(<<"group", g>>, {p}) \in Change
    BY <2>1 DEF GroupOf, PeersOf, Change
  <2>3. queue \in Seq(Change)
    BY DEF TypeInv, TypeOK
  <2> QED BY <1>1, <2>2, <2>3 DEF RemovedPeerQueue
<1> QED BY <1>1, <1>2, <1>3, <1>4, GroupEditType

(* An edit of a service, given its parts.                                  *)
LEMMA ServiceEditType ==
  ASSUME TypeInv, NEW s \in DOMAIN ServiceRows, Edit, NEW services,
         IsTable(services, DOMAIN ServiceRows, ServiceRow),
         d' = [d EXCEPT !.services = services],
         NEW action \in {"create", "update", "delete"}, NEW row \in ServiceRow,
         SnapshotService(s, action, row), QueueServiceChange(s),
         used' = used \/ used' = used \cup {<<"service", s>>},
         forced' = forced, UNCHANGED <<pending, bundle, adrift, partial>>
  PROVE  TypeInv'
<1>1. <<"service", s>> \in Entity
  BY DEF Entity
<1>2. {} \in SUBSET (Groups \X DOMAIN PeerRows)
  OBVIOUS
<1>3. RowFits([ent |-> <<"service", s>>, action |-> action, row |-> row, members |-> {}], used')
  BY DEF RowFits
<1>4. used \subseteq used' /\ row \in PolicyRow \cup ServiceRow \cup GroupRow
  OBVIOUS
<1>5. Snapshot(<<"service", s>>, action, row, {})
  BY DEF SnapshotService
<1>6. /\ snaps' \in Seq(SnapshotRow)
      /\ \A i \in DOMAIN snaps' : RowFits(snaps'[i], used')
  BY <1>1, <1>2, <1>3, <1>4, <1>5, SnapshotType
<1>7. {u \in used' : u[1] = "policy"} = {u \in used : u[1] = "policy"}
  OBVIOUS
<1>8. /\ used' \subseteq Entity \cup ({"peer"} \X DOMAIN PeerRows)
      /\ IsFiniteSet({u \in used' : u[1] = "policy"}) /\ forced' \in BOOLEAN
  BY <1>1, <1>7 DEF TypeInv, TypeOK, KnownInv
<1>9. d' = [peers |-> d.peers, groups |-> d.groups, members |-> d.members,
            services |-> services, policies |-> d.policies]
  BY DEF TypeInv, TypeOK
<1>10. TablesOK(d')
  BY <1>9 DEF TypeInv, TypeOK, TablesOK
<1>11. \A m \in DOMAIN d'.policies : <<"policy", m>> \in used' /\ GivenIn(d'.policies[m], used')
  BY <1>4, <1>9 DEF TypeInv, KnownInv, GivenIn
<1>12. queue' \in Seq(Change)
  <2> DEFINE aff == GetAffectedPeersByPolicies(d, FindPoliciesUsingService(s))
  <2>1. aff \in SUBSET DOMAIN PeerRows
    BY AffectedType DEF TypeInv, TypeOK, IsTable, GetAffectedPeersByPolicies
  <2>2. QueuePeers(<<"service", s>>, aff)
    BY DEF QueueServiceChange
  <2> QED BY <1>1, <2>1, <2>2, QueueType
<1> QED BY <1>4, <1>6, <1>8, <1>9, <1>10, <1>11, <1>12, EditType

(* The three edits of services keep the types.                             *)
LEMMA ServicesType ==
  ASSUME TypeInv, NEW s \in DOMAIN ServiceRows
  PROVE  /\ \A row \in ServiceRows[s] : CreateService(s, row) => TypeInv'
         /\ \A row \in ServiceRows[s] : UpdateService(s, row) => TypeInv'
         /\ DeleteService(s) => TypeInv'
<1>1. \A row \in ServiceRows[s] : row \in ServiceRow
  BY CatalogAssumption
<1>2. IsTable(d.services, DOMAIN ServiceRows, ServiceRow)
  BY DEF TypeInv, TypeOK
<1>3. ASSUME NEW row \in ServiceRows[s], CreateService(s, row)
      PROVE  TypeInv'
  <2>1. /\ Edit /\ used' = used \cup {<<"service", s>>}
        /\ d' = [d EXCEPT !.services = With(d.services, s, row)]
        /\ SnapshotService(s, "create", row) /\ QueueServiceChange(s)
        /\ forced' = forced /\ UNCHANGED <<pending, bundle, adrift, partial>>
    BY <1>3 DEF CreateService, NewID, Kept
  <2>2. row \in ServiceRow /\ IsTable(With(d.services, s, row), DOMAIN ServiceRows, ServiceRow)
    BY <1>1, <1>2, IsTableWith
  <2> QED BY <2>1, <2>2, ServiceEditType
<1>4. ASSUME s \in DOMAIN d.services, Edit, NEW new \in ServiceRow,
             NEW action \in {"create", "update", "delete"},
             d' = [d EXCEPT !.services[s] = new], SnapshotService(s, action, d.services[s]),
             QueueServiceChange(s), used' = used, forced' = forced,
             UNCHANGED <<pending, bundle, adrift, partial>>
      PROVE  TypeInv'
  <2>1. d.services[s] \in ServiceRow
    BY <1>2, <1>4 DEF IsTable
  <2>2. IsTable([d.services EXCEPT ![s] = new], DOMAIN ServiceRows, ServiceRow)
    BY <1>2, <1>4, IsTableExcept
  <2>3. d' = [d EXCEPT !.services = [d.services EXCEPT ![s] = new]]
    BY <1>4
  <2> QED BY <1>4, <2>1, <2>2, <2>3, ServiceEditType
<1>5. ASSUME NEW row \in ServiceRows[s], UpdateService(s, row)
      PROVE  TypeInv'
  <2>1. /\ Edit /\ used' = used /\ s \in DOMAIN d.services
        /\ d' = [d EXCEPT !.services[s] = row]
        /\ SnapshotService(s, "update", d.services[s]) /\ QueueServiceChange(s)
        /\ forced' = forced /\ UNCHANGED <<pending, bundle, adrift, partial>>
    BY <1>5 DEF UpdateService, Kept, LiveService
  <2> QED BY <1>1, <1>4, <2>1
<1>6. ASSUME DeleteService(s)
      PROVE  TypeInv'
  <2> DEFINE new == [d.services[s] EXCEPT !.del = TRUE]
  <2>1. /\ Edit /\ used' = used /\ s \in DOMAIN d.services
        /\ d' = [d EXCEPT !.services[s] = new]
        /\ SnapshotService(s, "delete", d.services[s]) /\ QueueServiceChange(s)
        /\ forced' = forced /\ UNCHANGED <<pending, bundle, adrift, partial>>
    BY <1>6 DEF DeleteService, Kept, LiveService
  <2>2. new \in ServiceRow
    BY <1>2, <2>1 DEF IsTable, ServiceRow
  <2> HIDE DEF new
  <2> QED BY <1>4, <2>1, <2>2
<1> QED BY <1>3, <1>5, <1>6

(* Whoever gets other rules is a peer.                                     *)
LEMMA ChangedType ==
  ASSUME NEW db
  PROVE  Changed(db) \subseteq DOMAIN db.peers
BY DEF Changed

(* An edit of a peer, given its parts.                                     *)
LEMMA PeerEditType ==
  ASSUME TypeInv, Edit, d'.policies = d.policies, TablesOK(d'), DOMAIN bundle' = Peer',
         used' = used \/ \E p \in DOMAIN PeerRows : used' = used \cup {<<"peer", p>>},
         snaps' = snaps, queue' = queue, pending' \subseteq pending,
         partial' = partial, forced' = forced, adrift' \subseteq DOMAIN PeerRows
  PROVE  TypeInv'
<1>1. edits' \in 0..MaxEdits
  BY CatalogAssumption DEF Edit, TypeInv, TypeOK
<1>2. used \subseteq used' /\ used' \subseteq Entity \cup ({"peer"} \X DOMAIN PeerRows)
  BY DEF TypeInv, TypeOK
<1>3. TypeOK'
  BY <1>1, <1>2 DEF TypeInv, TypeOK, TablesOK
<1>4. {u \in used' : u[1] = "policy"} = {u \in used : u[1] = "policy"}
  OBVIOUS
<1>5. \A i \in DOMAIN snaps' : RowFits(snaps'[i], used')
  BY <1>2, RowFitsKept DEF TypeInv, KnownInv
<1>6. \A m \in DOMAIN d'.policies : <<"policy", m>> \in used' /\ GivenIn(d'.policies[m], used')
  BY <1>2 DEF TypeInv, KnownInv, GivenIn
<1>7. KnownInv'
  BY <1>4, <1>5, <1>6 DEF TypeInv, KnownInv
<1> QED BY <1>3, <1>7 DEF TypeInv

(* CreatePeer keeps the types.                                             *)
LEMMA CreatePeerType ==
  ASSUME TypeInv, NEW p \in DOMAIN PeerRows, NEW row \in PeerRows[p], CreatePeer(p, row)
  PROVE  TypeInv'
<1>1. /\ Edit /\ used' = used \cup {<<"peer", p>>}
      /\ d' = [d EXCEPT !.peers = With(@, p, row)]
      /\ bundle' = With(bundle, p, [ok |-> FALSE])
      /\ adrift' = adrift \cup Changed(d') \cup {p}
      /\ UNCHANGED <<snaps, pending, queue, partial, forced>>
  BY DEF CreatePeer, InsertPeer, NewID
<1>2. d' = [peers |-> With(d.peers, p, row), groups |-> d.groups, members |-> d.members,
            services |-> d.services, policies |-> d.policies]
  BY <1>1 DEF TypeInv, TypeOK
<1>3. row \in PeerRow
  BY CatalogAssumption
<1>4. IsTable(With(d.peers, p, row), DOMAIN PeerRows, PeerRow)
  BY <1>3, IsTableWith DEF TypeInv, TypeOK
<1>5. TablesOK(d')
  BY <1>2, <1>4 DEF TypeInv, TypeOK, TablesOK
<1>6. DOMAIN bundle' = Peer'
  BY <1>1, <1>2 DEF TypeInv, TypeOK, Peer, With
<1>7. adrift' \subseteq DOMAIN PeerRows
  BY <1>1, <1>5, ChangedType DEF TypeInv, TypeOK, TablesOK, IsTable
<1> QED BY <1>1, <1>2, <1>5, <1>6, <1>7, PeerEditType

(* UpdatePeer keeps the types.                                             *)
LEMMA UpdatePeerType ==
  ASSUME TypeInv, NEW p \in Peer, NEW row \in PeerRows[p], UpdatePeer(p, row)
  PROVE  TypeInv'
<1>1. /\ Edit /\ d' = [d EXCEPT !.peers[p] = row]
      /\ adrift' = adrift \cup Changed(d')
      /\ UNCHANGED <<snaps, pending, queue, bundle, used, partial, forced>>
  BY DEF UpdatePeer, ReplacePeer
<1>2. d' = [peers |-> [d.peers EXCEPT ![p] = row], groups |-> d.groups, members |-> d.members,
            services |-> d.services, policies |-> d.policies]
  BY <1>1 DEF TypeInv, TypeOK
<1>3. p \in DOMAIN d.peers /\ p \in DOMAIN PeerRows
  BY DEF Peer, TypeInv, TypeOK, IsTable
<1>4. row \in PeerRow
  BY <1>3, CatalogAssumption
<1>5. /\ IsTable([d.peers EXCEPT ![p] = row], DOMAIN PeerRows, PeerRow)
      /\ DOMAIN [d.peers EXCEPT ![p] = row] = DOMAIN d.peers
  BY <1>3, <1>4, IsTableExcept DEF TypeInv, TypeOK
<1>6. TablesOK(d')
  BY <1>2, <1>5 DEF TypeInv, TypeOK, TablesOK
<1>7. DOMAIN bundle' = Peer'
  BY <1>1, <1>2, <1>5 DEF TypeInv, TypeOK, Peer
<1>8. adrift' \subseteq DOMAIN PeerRows
  BY <1>1, <1>6, ChangedType DEF TypeInv, TypeOK, TablesOK, IsTable
<1> QED BY <1>1, <1>2, <1>6, <1>7, <1>8, PeerEditType

(* DeletePeer keeps the types.                                             *)
LEMMA DeletePeerType ==
  ASSUME TypeInv, NEW p \in Peer, DeletePeer(p)
  PROVE  TypeInv'
<1>1. /\ Edit
      /\ d' = [d EXCEPT !.peers = Without(@, p), !.members = {m \in @ : m[2] # p}]
      /\ pending' = {r \in pending : r[1] # p} /\ bundle' = Without(bundle, p)
      /\ adrift' = (adrift \cup Changed(d')) \ {p}
      /\ UNCHANGED <<snaps, queue, used, partial, forced>>
  BY DEF DeletePeer, RemovePeer
<1>2. d' = [peers |-> Without(d.peers, p), groups |-> d.groups,
            members |-> {m \in d.members : m[2] # p},
            services |-> d.services, policies |-> d.policies]
  BY <1>1 DEF TypeInv, TypeOK
<1>3. IsTable(Without(d.peers, p), DOMAIN PeerRows, PeerRow)
  BY DEF TypeInv, TypeOK, IsTable, Without
<1>4. TablesOK(d')
  BY <1>2, <1>3 DEF TypeInv, TypeOK, TablesOK
<1>5. DOMAIN bundle' = Peer'
  BY <1>1, <1>2 DEF TypeInv, TypeOK, Peer, Without
<1>6. adrift' \subseteq DOMAIN PeerRows
  BY <1>1, <1>4, ChangedType DEF TypeInv, TypeOK, TablesOK, IsTable
<1> QED BY <1>1, <1>2, <1>4, <1>5, <1>6, PeerEditType

(* ProcessChange keeps the types.                                          *)
LEMMA ProcessChangeType ==
  ASSUME TypeInv, ProcessChange
  PROVE  TypeInv'
<1> DEFINE c == Head(queue)
<1>1. /\ queue # <<>> /\ queue' = Tail(queue)
      /\ pending' \subseteq pending \cup (Peer \X {c.ent})
      /\ UNCHANGED <<d, snaps, bundle, used, edits, adrift, partial, forced>>
  BY DEF ProcessChange
<1>2. queue \in Seq(Change)
  BY DEF TypeInv, TypeOK
<1>3. c \in Change /\ Tail(queue) \in Seq(Change)
  BY <1>1, <1>2
<1>4. c.ent \in Entity
  BY <1>3 DEF Change
<1> HIDE DEF c
<1>5. pending' \subseteq (DOMAIN PeerRows) \X Entity
  BY <1>1, <1>4 DEF TypeInv, TypeOK, IsTable, Peer
<1>6. Peer' = Peer
  BY <1>1 DEF Peer
<1> QED BY <1>1, <1>3, <1>5, <1>6 DEF TypeInv, TypeOK, KnownInv

(* The tables after a cleanup.                                             *)
LEMMA PurgedType ==
  ASSUME TypeInv
  PROVE  /\ TablesOK(Purged(d)) /\ Purged(d).peers = d.peers
         /\ \A n \in DOMAIN Purged(d).policies :
                n \in DOMAIN d.policies /\ Purged(d).policies[n] = d.policies[n]
<1> DEFINE kept(t) == [x \in {y \in DOMAIN t : ~t[y].del} |-> t[x]]
           members == {m \in d.members : LiveGroup(d, m[1])}
<1>1. Purged(d) = [peers |-> d.peers, groups |-> kept(d.groups), members |-> members,
                   services |-> kept(d.services), policies |-> kept(d.policies)]
  BY DEF Purged
<1>2. ASSUME NEW t, NEW ids, NEW rows, IsTable(t, ids, rows)
      PROVE  IsTable(kept(t), ids, rows)
  <2>1. DOMAIN t \subseteq ids /\ t \in [DOMAIN t -> rows]
    BY <1>2 DEF IsTable
  <2>2. \A x \in {y \in DOMAIN t : ~t[y].del} : t[x] \in rows /\ x \in ids
    BY <2>1
  <2> QED BY <2>2 DEF IsTable
<1>3. members \subseteq Groups \X DOMAIN PeerRows
  BY DEF TypeInv, TypeOK
<1>4. \A n \in DOMAIN kept(d.policies) :
          n \in DOMAIN d.policies /\ kept(d.policies)[n] = d.policies[n]
  OBVIOUS
<1> HIDE DEF kept, members
<1>5. TablesOK(Purged(d))
  BY <1>1, <1>2, <1>3 DEF TablesOK, TypeInv, TypeOK
<1> QED BY <1>1, <1>4, <1>5

(* Apply and ApplyEntity keep the types.                                   *)
LEMMA ApplyType ==
  ASSUME TypeInv, NEW p, NEW ent, Apply(p) \/ ApplyEntity(p, ent)
  PROVE  TypeInv'
<1>1. /\ p \in Peer /\ bundle' = [bundle EXCEPT ![p] = Compile(d, p)]
      /\ pending' \subseteq pending /\ partial' \in BOOLEAN
      /\ d' = d \/ d' = Purged(d)
      /\ adrift' = adrift \ {p} /\ UNCHANGED <<queue, used, edits, forced>>
      /\ snaps' \in Seq(SnapshotRow)
      /\ \A k \in DOMAIN snaps' : snaps'[k] \in {snaps[j] : j \in DOMAIN snaps}
  BY ApproveIs DEF TypeInv, TypeOK
<1>2. /\ TablesOK(d') /\ d'.peers = d.peers
      /\ \A n \in DOMAIN d'.policies :
             n \in DOMAIN d.policies /\ d'.policies[n] = d.policies[n]
  BY <1>1, PurgedType, TypeTables DEF TypeInv
<1>3. DOMAIN bundle' = Peer' /\ Peer' = Peer
  BY <1>1, <1>2 DEF TypeInv, TypeOK, Peer
<1>4. \A i \in DOMAIN snaps' : RowFits(snaps'[i], used')
  BY <1>1 DEF TypeInv, KnownInv
<1>5. TypeOK'
  BY <1>1, <1>2, <1>3, <1>4 DEF TypeInv, TypeOK, TablesOK
<1>6. KnownInv'
  BY <1>1, <1>2, <1>4 DEF TypeInv, KnownInv
<1> QED BY <1>5, <1>6 DEF TypeInv

(* A table with snapshots undone is a table.                               *)
LEMMA RolledBackRowsType ==
  ASSUME NEW kind, NEW rows, NEW S, NEW ids, NEW T, IsTable(rows, ids, T),
         \A s \in S : s.ent[1] = kind => s.row \in T
  PROVE  IsTable(RolledBackRows(kind, rows, S), ids, T)
<1> DEFINE of(k) == {s \in S : s.ent = <<kind, k>>}
           dom == {x \in DOMAIN rows : \A s \in of(x) : s.action # "create"}
           val(k) == IF of(k) = {} THEN rows[k] ELSE (CHOOSE s \in of(k) : TRUE).row
<1>1. RolledBackRows(kind, rows, S) = [k \in dom |-> val(k)]
  BY DEF RolledBackRows
<1>2. ASSUME NEW k \in dom
      PROVE  val(k) \in T
  <2>1. CASE of(k) = {}
    BY <2>1 DEF IsTable
  <2>2. CASE of(k) # {}
    <3>1. (CHOOSE s \in of(k) : TRUE) \in of(k)
      BY <2>2
    <3>2. PICK s \in of(k) : val(k) = s.row
      BY <2>2, <3>1
    <3> QED BY <3>2
  <2> QED BY <2>1, <2>2
<1>3. dom \subseteq ids
  BY DEF IsTable
<1> HIDE DEF dom, val
<1> QED BY <1>1, <1>2, <1>3 DEF IsTable

(* So is the database, and its policies refer to given ids.                *)
LEMMA RolledBackType ==
  ASSUME TypeInv, NEW S, S \subseteq {snaps[i] : i \in DOMAIN snaps}
  PROVE  /\ TablesOK(RolledBack(d, S)) /\ RolledBack(d, S).peers = d.peers
         /\ \A n \in DOMAIN RolledBack(d, S).policies :
                <<"policy", n>> \in used /\ GivenIn(RolledBack(d, S).policies[n], used)
<1> DEFINE db == RolledBack(d, S)
           GivenRow == {row \in PolicyRow : GivenIn(row, used)}
           GivenID == {n \in Nat : <<"policy", n>> \in used}
<1>1. \A s \in S : RowFits(s, used) /\ s \in SnapshotRow
  BY DEF TypeInv, TypeOK, KnownInv
<1>2. IsTable(d.policies, GivenID, GivenRow)
  BY DEF TypeInv, TypeOK, KnownInv, IsTable
<1>3. \A s \in S : s.ent[1] = "policy" => s.row \in GivenRow
  BY <1>1 DEF RowFits
<1>4. IsTable(db.policies, GivenID, GivenRow)
  BY <1>2, <1>3, RolledBackRowsType DEF RolledBack
<1>5. IsTable(db.groups, Groups, GroupRow)
  BY <1>1, RolledBackRowsType DEF RolledBack, RowFits, TypeInv, TypeOK
<1>6. IsTable(db.services, DOMAIN ServiceRows, ServiceRow)
  BY <1>1, RolledBackRowsType DEF RolledBack, RowFits, TypeInv, TypeOK
<1>7. db.members \subseteq Groups \X DOMAIN PeerRows
  <2>1. \A s \in S : s.members \subseteq Groups \X DOMAIN PeerRows
    BY <1>1 DEF SnapshotRow
  <2> QED BY <2>1 DEF RolledBack, TypeInv, TypeOK
<1>8. /\ db = [peers |-> db.peers, groups |-> db.groups, members |-> db.members,
              services |-> db.services, policies |-> db.policies]
      /\ db.peers = d.peers
  BY DEF RolledBack
<1>9. IsTable(db.policies, Nat, PolicyRow)
  BY <1>4 DEF IsTable
<1>10. IsTable(db.peers, DOMAIN PeerRows, PeerRow)
  BY <1>8 DEF TypeInv, TypeOK
<1>11. \A n \in DOMAIN db.policies : <<"policy", n>> \in used /\ GivenIn(db.policies[n], used)
  BY <1>4 DEF IsTable
<1> HIDE DEF db
<1> SUFFICES TablesOK(db)
  BY <1>8, <1>11 DEF db
<1> QED BY <1>5, <1>6, <1>7, <1>8, <1>9, <1>10 DEF TablesOK

(* The step of a rollback, given its parts.                                *)
LEMMA AfterRollbackType ==
  ASSUME TypeInv, NEW S, S \subseteq {snaps[i] : i \in DOMAIN snaps},
         AfterRollback(RolledBack(d, S)), snaps' \in Seq(SnapshotRow),
         \A i \in DOMAIN snaps' : snaps'[i] \in {snaps[j] : j \in DOMAIN snaps},
         pending' \subseteq pending, partial' \in BOOLEAN, forced' \in BOOLEAN
  PROVE  TypeInv'
<1>1. /\ d' = RolledBack(d, S) /\ UNCHANGED <<queue, bundle, used, edits>>
      /\ adrift' \subseteq adrift \cup Peer
  BY DEF AfterRollback
<1>2. /\ TablesOK(d') /\ d'.peers = d.peers
      /\ \A n \in DOMAIN d'.policies :
             <<"policy", n>> \in used' /\ GivenIn(d'.policies[n], used')
  BY <1>1, RolledBackType
<1>3. Peer' = Peer /\ adrift' \subseteq DOMAIN PeerRows
  BY <1>1, <1>2 DEF Peer, TypeInv, TypeOK, IsTable
<1>4. TypeOK'
  BY <1>1, <1>2, <1>3 DEF TypeInv, TypeOK, TablesOK
<1>5. \A i \in DOMAIN snaps' : RowFits(snaps'[i], used')
  BY <1>1 DEF TypeInv, KnownInv
<1>6. KnownInv'
  BY <1>1, <1>2, <1>5 DEF TypeInv, KnownInv
<1> QED BY <1>4, <1>6 DEF TypeInv

(* RollbackEntitySnapshot keeps the types.                                 *)
LEMMA RollbackEntitySnapshotType ==
  ASSUME TypeInv, NEW i \in DOMAIN snaps, RollbackEntitySnapshot(i)
  PROVE  TypeInv' /\ AfterRollback(RolledBack(d, {snaps[i]}))
<1>1. /\ AfterRollback(RolledBack(d, {snaps[i]}))
      /\ snaps' = RemoveAt(snaps, i) /\ pending' \subseteq pending /\ forced' = TRUE
      /\ partial' \in BOOLEAN
  BY DEF RollbackEntitySnapshot, TypeInv, TypeOK
<1>2. /\ snaps' \in Seq(SnapshotRow)
      /\ \A k \in DOMAIN snaps' : snaps'[k] \in {snaps[j] : j \in DOMAIN snaps}
  BY <1>1, RemovedFrom DEF TypeInv, TypeOK
<1>3. {snaps[i]} \subseteq {snaps[j] : j \in DOMAIN snaps} /\ forced' \in BOOLEAN
  BY <1>1
<1> QED BY <1>1, <1>2, <1>3, AfterRollbackType

(* RollbackSnapshots keeps the types.                                      *)
LEMMA RollbackSnapshotsType ==
  ASSUME TypeInv, RollbackSnapshots
  PROVE  TypeInv' /\ \E S : AfterRollback(RolledBack(d, S))
<1> DEFINE S == {snaps[j] : j \in {k \in DOMAIN snaps : k > 0}}
<1>1. /\ AfterRollback(RolledBack(d, S)) /\ snaps' = <<>> /\ pending' = {}
      /\ partial' \in BOOLEAN /\ forced' \in BOOLEAN
  BY DEF RollbackSnapshots, TypeInv, TypeOK
<1>2. S \subseteq {snaps[j] : j \in DOMAIN snaps}
  OBVIOUS
<1> HIDE DEF S
<1>3. /\ snaps' \in Seq(SnapshotRow) /\ pending' \subseteq pending
      /\ \A i \in DOMAIN snaps' : snaps'[i] \in {snaps[j] : j \in DOMAIN snaps}
  BY <1>1
<1> QED BY <1>1, <1>2, <1>3, AfterRollbackType

(* The first states are well typed, and everything is applied.             *)
LEMMA InitType == Init => TypeInv /\ StaleIsPending
<1> SUFFICES ASSUME Init PROVE TypeInv /\ StaleIsPending
  OBVIOUS
<1>1. PICK rows \in {<<>>} \cup {<<row>> : row \in FirstPolicies} :
         /\ d = [peers |-> FirstPeers, groups |-> [g \in FirstGroups |-> [del |-> FALSE]],
                 members |-> FirstMembers, services |-> FirstServices, policies |-> rows]
         /\ \A n \in DOMAIN rows : ~Dangling(d, rows[n])
  BY DEF Init
<1>2. /\ snaps = <<>> /\ pending = {} /\ queue = <<>> /\ edits = 0
      /\ bundle = [p \in Peer |-> Compile(d, p)] /\ adrift = {} /\ partial = FALSE /\ forced = FALSE
      /\ used = {<<"peer", p>> : p \in Peer} \cup {<<"group", g>> : g \in FirstGroups}
                \cup {<<"service", s>> : s \in DOMAIN FirstServices}
                \cup {<<"policy", n>> : n \in DOMAIN d.policies}
  BY DEF Init
<1>3. IsTable(d.policies, {1}, PolicyRow) /\ d.policies = rows
  <2>1. CASE rows = <<>>
    BY <1>1, <2>1 DEF IsTable
  <2>2. CASE rows # <<>>
    <3>1. PICK row \in FirstPolicies : rows = <<row>>
      BY <1>1, <2>2
    <3>2. row \in PolicyRow
      BY CatalogAssumption
    <3> QED BY <1>1, <3>1, <3>2 DEF IsTable
  <2> QED BY <2>1, <2>2
<1>4. IsTable(d.groups, Groups, GroupRow)
  BY <1>1, CatalogAssumption DEF IsTable, GroupRow
<1>5. /\ IsTable(d.peers, DOMAIN PeerRows, PeerRow)
      /\ IsTable(d.services, DOMAIN ServiceRows, ServiceRow)
      /\ d.members \subseteq Groups \X DOMAIN PeerRows
      /\ d = [peers |-> d.peers, groups |-> d.groups, members |-> d.members,
              services |-> d.services, policies |-> d.policies]
  BY <1>1, CatalogAssumption DEF IsTable
<1>6. used \subseteq Entity \cup ({"peer"} \X DOMAIN PeerRows)
  BY <1>1, <1>2, <1>3, CatalogAssumption DEF Entity, IsTable, Peer
<1>7. TypeOK
  <2>1. IsTable(d.policies, Nat, PolicyRow)
    BY <1>3 DEF IsTable
  <2>2. edits \in 0..MaxEdits
    BY <1>2, CatalogAssumption
  <2>3. snaps \in Seq(SnapshotRow) /\ queue \in Seq(Change)
    BY <1>2
  <2> QED BY <1>2, <1>4, <1>5, <1>6, <2>1, <2>2, <2>3 DEF TypeOK
<1>8. \A n \in DOMAIN d.policies : <<"policy", n>> \in used /\ GivenIn(d.policies[n], used)
  <2> SUFFICES ASSUME NEW n \in DOMAIN d.policies
               PROVE  <<"policy", n>> \in used /\ GivenIn(d.policies[n], used)
    OBVIOUS
  <2>1. d.policies[n] \in PolicyRow /\ ~Dangling(d, d.policies[n])
    BY <1>1, <1>3 DEF IsTable
  <2>2. ASSUME NEW e \in {d.policies[n].src, d.policies[n].tgt}, e.type # "special"
        PROVE  <<e.type, e.id>> \in used
    <3>1. e.type = "peer" \/ e.type = "group"
      BY <2>1, <2>2 DEF PolicyRow, EndPoint
    <3>2. CASE e.type = "peer"
      BY <1>2, <2>1, <3>2 DEF Dangling, NamesMissingPeer, Peer
    <3>3. CASE e.type = "group"
      BY <1>1, <1>2, <2>1, <3>3 DEF Dangling, LiveGroup
    <3> QED BY <3>1, <3>2, <3>3
  <2> QED BY <1>2, <2>2 DEF GivenIn
<1>9. IsFiniteSet({u \in used : u[1] = "policy"})
  <2>1. {u \in used : u[1] = "policy"} \subseteq {<<"policy", 1>>}
    BY <1>2, <1>3 DEF IsTable
  <2> QED BY <2>1, FS_Singleton, FS_Subset
<1>10. TypeInv
  <2>1. DOMAIN snaps = {}
    BY <1>2
  <2> QED BY <1>7, <1>8, <1>9, <2>1 DEF TypeInv, KnownInv
<1>11. StaleIsPending
  BY <1>2 DEF StaleIsPending
<1> QED BY <1>10, <1>11

(* Every edit keeps the types and StaleIsPending.                          *)
LEMMA EditStep ==
  ASSUME TypeInv, StaleIsPending, EntityEdit \/ PeerEdit
  PROVE  TypeInv' /\ StaleIsPending'
<1>0. TypeOK /\ KnownInv
  BY DEF TypeInv
<1>1. ASSUME NEW row \in Requests, CreatePolicy(row) PROVE TypeInv' /\ StaleIsPending'
  <2>1. TypeInv' /\ TypeOK'
    BY <1>1, CreatePolicyType DEF TypeInv
  <2> QED BY <1>0, <1>1, <2>1, CreatePolicyStale
<1>2. ASSUME NEW n \in LivePolicies, NEW row \in Requests, UpdatePolicy(n, row)
      PROVE  TypeInv' /\ StaleIsPending'
  <2>1. TypeInv' /\ TypeOK'
    BY <1>2, RequestGiven, UpdatePolicyType DEF TypeInv
  <2> QED BY <1>0, <1>2, <2>1, UpdatePolicyStale
<1>3. ASSUME NEW n \in LivePolicies, PatchPolicy(n) PROVE TypeInv' /\ StaleIsPending'
  <2>1. TypeInv' /\ TypeOK'
    BY <1>3, PatchPolicyType DEF TypeInv
  <2>2. PICK row : UpdatePolicy(n, row)
    BY <1>3 DEF PatchPolicy
  <2> QED BY <1>0, <2>1, <2>2, UpdatePolicyStale
<1>4. ASSUME NEW n \in LivePolicies, DeletePolicy(n) PROVE TypeInv' /\ StaleIsPending'
  <2>1. TypeInv' /\ TypeOK'
    BY <1>4, DeletePolicyType DEF TypeInv
  <2> QED BY <1>0, <1>4, <2>1, DeletePolicyStale
<1>5. ASSUME NEW g \in Groups, CreateGroup(g) PROVE TypeInv' /\ StaleIsPending'
  BY <1>0, <1>5, CreateGroupType, CreateGroupStale
<1>6. ASSUME NEW g \in Groups, UpdateGroup(g) PROVE TypeInv' /\ StaleIsPending'
  BY <1>0, <1>6, UpdateGroupType, UpdateGroupStale
<1>7. ASSUME NEW g \in Groups, DeleteGroup(g) PROVE TypeInv' /\ StaleIsPending'
  BY <1>0, <1>7, DeleteGroupType, DeleteGroupStale
<1>8. ASSUME NEW g \in Groups, NEW p \in Peer, AddGroupMember(g, p)
      PROVE  TypeInv' /\ StaleIsPending'
  BY <1>0, <1>8, AddGroupMemberType, AddGroupMemberStale
<1>9. ASSUME NEW g \in Groups, NEW p \in Peer, DeleteGroupMember(g, p)
      PROVE  TypeInv' /\ StaleIsPending'
  BY <1>0, <1>9, DeleteGroupMemberType, DeleteGroupMemberStale
<1>10. ASSUME NEW s \in DOMAIN ServiceRows,
              \/ \E row \in ServiceRows[s] : CreateService(s, row) \/ UpdateService(s, row)
              \/ DeleteService(s)
       PROVE  TypeInv' /\ StaleIsPending'
  BY <1>0, <1>10, ServicesType, ServiceEditStale
<1>11. ASSUME NEW p \in DOMAIN PeerRows, NEW row \in PeerRows[p], CreatePeer(p, row)
       PROVE  TypeInv' /\ StaleIsPending'
  BY <1>0, <1>11, CreatePeerType, CreatePeerStale
<1>12. ASSUME NEW p \in Peer, NEW row \in PeerRows[p], UpdatePeer(p, row)
       PROVE  TypeInv' /\ StaleIsPending'
  BY <1>0, <1>12, UpdatePeerType, UpdatePeerStale
<1>13. ASSUME NEW p \in Peer, DeletePeer(p)
       PROVE  TypeInv' /\ StaleIsPending'
  BY <1>0, <1>13, DeletePeerType, DeletePeerStale
<1> QED BY <1>1, <1>2, <1>3, <1>4, <1>5, <1>6, <1>7, <1>8, <1>9, <1>10, <1>11, <1>12, <1>13
        DEF EntityEdit, PeerEdit

(* So does a step that changes nothing.                                    *)
LEMMA Stutter ==
  ASSUME TypeInv, StaleIsPending, UNCHANGED vars
  PROVE  TypeInv' /\ StaleIsPending'
<1>1. /\ d' = d /\ snaps' = snaps /\ pending' = pending /\ queue' = queue
      /\ bundle' = bundle /\ used' = used /\ edits' = edits /\ adrift' = adrift
      /\ partial' = partial /\ forced' = forced
  BY DEF vars
<1>2. TypeInv'
  BY <1>1 DEF TypeInv, TypeOK, KnownInv, Peer
<1>3. Peer' = Peer /\ \A p : Signalled(p)' <=> Signalled(p)
  BY <1>1 DEF Peer, Signalled, Affects
<1>4. StaleIsPending'
  BY <1>1, <1>3 DEF StaleIsPending
<1> QED BY <1>2, <1>4

(* And so does every step.                                                 *)
LEMMA NextStep ==
  ASSUME TypeInv, StaleIsPending, [Next]_vars
  PROVE  TypeInv' /\ StaleIsPending'
<1>0. TypeOK /\ KnownInv
  BY DEF TypeInv
<1>1. CASE EntityEdit \/ PeerEdit
  BY <1>1, EditStep
<1>2. CASE ProcessChange
  BY <1>0, <1>2, ProcessChangeType, ProcessChangeStale
<1>3. ASSUME NEW p, NEW ent, Apply(p) \/ ApplyEntity(p, ent) PROVE TypeInv' /\ StaleIsPending'
  BY <1>0, <1>3, ApplyType, ApplyStale
<1>4. ASSUME NEW S, AfterRollback(RolledBack(d, S)) PROVE StaleIsPending'
  <2>1. RolledBack(d, S).peers = d.peers
    BY DEF RolledBack
  <2> QED BY <1>4, <2>1, RollbackStale
<1>5. ASSUME NEW i \in DOMAIN snaps, RollbackEntitySnapshot(i) PROVE TypeInv' /\ StaleIsPending'
  BY <1>4, <1>5, RollbackEntitySnapshotType
<1>6. CASE RollbackSnapshots
  BY <1>4, <1>6, RollbackSnapshotsType
<1>7. CASE UNCHANGED vars
  BY <1>7, Stutter
<1> QED BY <1>1, <1>2, <1>3, <1>5, <1>6, <1>7 DEF Next

(* The tables, snapshots, queue, pending changes and bundles are well      *)
(* typed in every reachable state: no edit, approval or rollback makes a   *)
(* row of a table out of something that is none (handlers, store,          *)
(* rollback.go).                                                           *)
THEOREM TypeCorrect == Spec => []TypeOK
<1>1. TypeInv => TypeOK
  BY DEF TypeInv
<1> QED BY <1>1, InitType, NextStep, PTL DEF Spec

(* Whatever is edited, in whatever order the worker catches up and whoever *)
(* leaves a group in between: a peer whose rules in the database differ    *)
(* from its newest bundle has a pending change or one on its way, unless   *)
(* an edit of a peer or a rollback changed its rules or one of its         *)
(* policies refers to something gone (the fan-out of the handlers, the     *)
(* change worker and ApplyPeerPendingBundle).                              *)
THEOREM StaleSignalled == Spec => []StaleIsPending
BY InitType, NextStep, PTL DEF Spec

-----------------------------------------------------------------------------
(***************************************************************************)
(* What the rules of a bundle do.  From here on every lemma is about one   *)
(* state of the database.                                                  *)
(***************************************************************************)
Clause(s, row, pr) ==
  [proto |-> pr, dp |-> IF row.dst THEN <<s, "d">> ELSE NoPort,
                 sp |-> IF row.src THEN <<s, "s">> ELSE NoPort]

(* The rule for traffic that leaves, and for traffic that comes in.        *)
Out(c, addr) == Rule("OUTPUT", "dst", addr, c.proto, c.dp, c.sp, "ACCEPT")
In(c, addr) == Rule("INPUT", "src", addr, c.proto, c.dp, c.sp, "ACCEPT")

(* A service has one clause per protocol.                                  *)
LEMMA ClauseIs ==
  ASSUME NEW s, NEW row
  PROVE  ExpandPorts(s, row) = {Clause(s, row, pr) : pr \in row.protos}
BY DEF ExpandPorts, Clause

(* The policies of a bundle and their rules.                               *)
LEMMA BundleOf ==
  ASSUME NEW e, NEW p, Compile(e, p).ok
  PROVE  /\ DOMAIN Compile(e, p).rules = LoadApplicablePolicies(e, p)
         /\ \A n \in LoadApplicablePolicies(e, p) :
                /\ SinglePolicy(e, p, e.policies[n]).ok
                /\ Compile(e, p).rules[n] = SinglePolicy(e, p, e.policies[n]).val
                /\ Compile(e, p).prio[n] = e.policies[n].prio
         /\ e.peers[p].ipset =>
                \A g \in GroupsNamed(e, LoadApplicablePolicies(e, p)) :
                    Compile(e, p).sets[g] = {e.peers[q].ip : q \in Members(e, g)}
<1> DEFINE names == LoadApplicablePolicies(e, p)
           of == [n \in names |-> SinglePolicy(e, p, e.policies[n])]
           good == [ok |-> TRUE, rules |-> [n \in names |-> of[n].val],
                    sets |-> IF e.peers[p].ipset
                             THEN [g \in GroupsNamed(e, names) |->
                                      {e.peers[q].ip : q \in Members(e, g)}]
                             ELSE <<>>,
                    prio |-> [n \in names |-> e.policies[n].prio]]
<1>1. Compile(e, p) = IF IPSetsFit(e, p, names) /\ \A n \in names : of[n].ok
                      THEN good ELSE [ok |-> FALSE]
  BY DEF Compile
<1>2. (\A n \in names : of[n].ok) /\ Compile(e, p) = good
  BY <1>1
<1> HIDE DEF names
<1>3. /\ good.rules = [n \in names |-> of[n].val]
      /\ good.prio = [n \in names |-> e.policies[n].prio]
      /\ e.peers[p].ipset => good.sets = [g \in GroupsNamed(e, names) |->
                                             {e.peers[q].ip : q \in Members(e, g)}]
  OBVIOUS
<1> HIDE DEF good
<1> QED BY <1>2, <1>3 DEF names

(* The rules of an ACCEPT policy accept.                                   *)
LEMMA PrimaryAct ==
  ASSUME NEW c, NEW rd, NEW addr, NEW ws, NEW sp, NEW act, NEW r \in Primary(c, rd, addr, ws, sp, act)
  PROVE  r.act = IF act = "LOG_DROP" THEN "DROP" ELSE act
BY DEF Primary, Rule

(* The rules for answers always accept.                                    *)
LEMMA ReturnAct ==
  ASSUME NEW c, NEW rd, NEW addr
  PROVE  Return(c, rd, addr).act = "ACCEPT"
BY DEF Return, Rule

(* What is in the sets of rules the compiler writes.                       *)
LEMMA AcceptSetIs ==
  ASSUME NEW clauses, NEW rd, NEW addr, NEW ws, NEW r
  PROVE  r \in BuildAcceptSetRules(clauses, rd, addr, ws) <=>
            \/ \E c \in clauses : r \in Primary(c, rd, addr, ws, c.sp, "ACCEPT")
            \/ "host" \in ws /\ \E c \in clauses : r = Return(c, rd, addr)
<1> DEFINE hosts == IF "host" \in ws THEN clauses ELSE {}
           prim == UNION {Primary(c, rd, addr, ws, c.sp, "ACCEPT") : c \in clauses}
           ret == {Return(c, rd, addr) : c \in hosts}
<1>1. r \in prim <=> \E c \in clauses : r \in Primary(c, rd, addr, ws, c.sp, "ACCEPT")
  BY Zenon
<1>2. r \in ret <=> \E c \in hosts : r = Return(c, rd, addr)
  BY Zenon
<1>3. BuildAcceptSetRules(clauses, rd, addr, ws) = prim \cup ret
  BY DEF BuildAcceptSetRules
<1> QED BY <1>1, <1>2, <1>3

(* The same for the addresses of an end point; the answers to multicast    *)
(* traffic are accepted from anywhere.                                     *)
LEMMA AcceptIs ==
  ASSUME NEW clauses, NEW rd, NEW cidrs, NEW ip, NEW ws, NEW tracked, NEW mcast, NEW r
  PROVE  r \in BuildAcceptRules(clauses, rd, cidrs, ip, ws, tracked, mcast) <=>
            \/ \E c \in clauses : \E a \in FilterSelf(cidrs, ip) :
                   r \in Primary(c, rd, CIDR(a), ws, c.sp, "ACCEPT")
            \/ /\ rd = "target" /\ "host" \in ws
               /\ \E c \in clauses : \E a \in FilterSelf(cidrs, ip) : r = Return(c, rd, CIDR(a))
            \/ /\ rd # "target"
               /\ \E c \in clauses : \E a \in FilterSelf(ReturnCIDRs(cidrs, mcast, tracked), ip) :
                      r = Return(c, rd, CIDR(a))
<1> DEFINE hosts == IF "host" \in ws THEN FilterSelf(cidrs, ip) ELSE {}
           back == FilterSelf(ReturnCIDRs(cidrs, mcast, tracked), ip)
           one(c) == UNION {Primary(c, rd, CIDR(a), ws, c.sp, "ACCEPT") : a \in FilterSelf(cidrs, ip)}
           prim == UNION {one(c) : c \in clauses}
           ret(S) == {Return(c, rd, CIDR(a)) : c \in clauses, a \in S}
<1>1. \A c : r \in one(c) <=>
          \E a \in FilterSelf(cidrs, ip) : r \in Primary(c, rd, CIDR(a), ws, c.sp, "ACCEPT")
  BY Zenon
<1>2. \A S : r \in ret(S) <=> \E c \in clauses : \E a \in S : r = Return(c, rd, CIDR(a))
  OBVIOUS
<1>3. BuildAcceptRules(clauses, rd, cidrs, ip, ws, tracked, mcast)
         = prim \cup (IF rd = "target" THEN ret(hosts) ELSE ret(back))
  BY DEF BuildAcceptRules
<1>4. r \in prim <=> \E c \in clauses : r \in one(c)
  BY Zenon
<1> HIDE DEF one, ret, prim
<1>5. CASE rd = "target"
  BY <1>1, <1>2, <1>3, <1>4, <1>5
<1>6. CASE rd # "target"
  BY <1>1, <1>2, <1>3, <1>4, <1>6
<1> QED BY <1>5, <1>6

(* The rules of a policy that drops.                                       *)
LEMMA LogDropIs ==
  ASSUME NEW clauses, NEW rd, NEW addrs, NEW ws, NEW act, NEW r
  PROVE  r \in BuildLogDropRules(clauses, rd, addrs, ws, act) <=>
            \E c \in clauses : \E a \in addrs : r \in Primary(c, rd, a, ws, NoPort, act)
<1> DEFINE one(c) == UNION {Primary(c, rd, a, ws, NoPort, act) : a \in addrs}
<1>1. \A c : r \in one(c) <=> \E a \in addrs : r \in Primary(c, rd, a, ws, NoPort, act)
  BY Zenon
<1>2. r \in UNION {one(c) : c \in clauses} <=> \E c \in clauses : r \in one(c)
  BY Zenon
<1>3. BuildLogDropRules(clauses, rd, addrs, ws, act) = UNION {one(c) : c \in clauses}
  BY DEF BuildLogDropRules
<1> QED BY <1>1, <1>2, <1>3

(* The rules for addresses, as one case distinction.                       *)
LEMMA WriteIs ==
  ASSUME NEW pol, NEW clauses, NEW rd, NEW cidrs, NEW ip, NEW ws, NEW tracked, NEW mcast
  PROVE  WriteRules(pol, clauses, rd, cidrs, ip, ws, tracked, mcast) =
            IF ip = AnyIP /\ clauses # {} THEN Failed
            ELSE Gives(IF pol.act = "ACCEPT"
                       THEN BuildAcceptRules(clauses, rd, cidrs, ip, ws, tracked, mcast)
                       ELSE BuildLogDropRules(clauses, rd, {CIDR(a) : a \in FilterSelf(cidrs, ip)},
                                              ws, pol.act))
BY DEF WriteRules

(* Rules for addresses of an ACCEPT policy accept.                         *)
LEMMA WriteAccepts ==
  ASSUME NEW pol, pol.act = "ACCEPT", NEW clauses, NEW rd, NEW cidrs, NEW ip, NEW ws,
         NEW tracked, NEW mcast
  PROVE  \A r \in WriteRules(pol, clauses, rd, cidrs, ip, ws, tracked, mcast).val :
             r.act = "ACCEPT"
<1> SUFFICES ASSUME NEW r \in WriteRules(pol, clauses, rd, cidrs, ip, ws, tracked, mcast).val
             PROVE  r.act = "ACCEPT"
  OBVIOUS
<1>1. r \in BuildAcceptRules(clauses, rd, cidrs, ip, ws, tracked, mcast)
  BY WriteIs DEF Failed, Gives
<1> QED BY <1>1, AcceptIs, PrimaryAct, ReturnAct

(* Rules for a set of an ACCEPT policy accept.                             *)
LEMMA WriteSetAccepts ==
  ASSUME NEW pol, pol.act = "ACCEPT", NEW clauses, NEW rd, NEW addr, NEW ws
  PROVE  \A r \in WriteSetRules(pol, clauses, rd, addr, ws) : r.act = "ACCEPT"
BY AcceptSetIs, PrimaryAct, ReturnAct DEF WriteSetRules

(* The rules of the system services accept.                                *)
LEMMA FixedAccepts ==
  ASSUME NEW ws
  PROVE  \A r \in IGMPRules(ws) \cup VRRPRules(ws) \cup MulticastRule("ACCEPT", ws)
                    \cup MulticastSend(ws) \cup BroadcastRule(ws) : r.act = "ACCEPT"
BY DEF IGMPRules, VRRPRules, MulticastRule, MulticastSend, BroadcastRule, Rule

(* The kinds of special targets exclude each other.                        *)
LEMMA SpecialsApart ==
  ASSUME NEW e
  PROVE  /\ ~(Special(e, {"internet"}) /\ Special(e, MulticastIDs))
         /\ ~(Special(e, {"internet"}) /\ Special(e, BroadcastIDs))
         /\ ~(Special(e, MulticastIDs) /\ Special(e, BroadcastIDs))
         /\ \A ids : Special(e, ids) => e.type = "special"
         /\ Special(e, MulticastIDs \cup BroadcastIDs) <=>
                Special(e, MulticastIDs) \/ Special(e, BroadcastIDs)
BY DEF Special, MulticastIDs, BroadcastIDs

(* The two sections of a policy, case by case.                             *)
TargetSkips(e, p, pol) ==
  \/ ~IsTarget(e, pol, p) \/ pol.dir \notin {"both", "backward"}
  \/ Special(pol.tgt, MulticastIDs \cup BroadcastIDs)

(* The ingress part.                                                       *)
LEMMA TargetForms ==
  ASSUME NEW e, NEW p, NEW pol, NEW svc, NEW clauses, NEW ws
  PROVE  LET T == TargetSection(e, p, pol, svc, clauses, ws)
             ip == e.peers[p].ip
             src == ResolveEntityCIDRs(e, pol.src, ip)
         IN  \/ TargetSkips(e, p, pol) /\ T = Gives({})
             \/ /\ ~TargetSkips(e, p, pol)
                /\ \/ Special(pol.src, {"internet"}) /\ T = Failed
                   \/ Special(pol.src, MulticastIDs) /\ T = Gives(MulticastRule(pol.act, ws))
                   \/ Special(pol.src, BroadcastIDs)
                      /\ T = IF src.ok THEN Gives(BroadcastRule(ws)) ELSE Failed
                   \/ /\ UsesSet(e, p, pol.src)
                      /\ T = Gives(IF svc.kind = "multicast" THEN MulticastRule(pol.act, ws)
                                   ELSE WriteSetRules(pol, clauses, "target", GroupSet(pol.src.id), ws))
                   \/ /\ ~Special(pol.src, {"internet"}) /\ ~Special(pol.src, MulticastIDs)
                      /\ ~Special(pol.src, BroadcastIDs) /\ ~UsesSet(e, p, pol.src)
                      /\ T = IF ~src.ok THEN Failed
                             ELSE IF svc.kind = "multicast" THEN Gives(MulticastRule(pol.act, ws))
                             ELSE WriteRules(pol, clauses, "target", src.val, ip, ws, svc.ct, FALSE)
<1> DEFINE T == TargetSection(e, p, pol, svc, clauses, ws)
           ip == e.peers[p].ip
           src == ResolveEntityCIDRs(e, pol.src, ip)
           S1 == Special(pol.src, {"internet"})
           S2 == Special(pol.src, MulticastIDs)
           S3 == Special(pol.src, BroadcastIDs)
           S4 == UsesSet(e, p, pol.src)
           mc == svc.kind = "multicast"
           last == CASE ~src.ok -> Failed
                     [] src.ok /\ mc -> Gives(MulticastRule(pol.act, ws))
                     [] OTHER -> WriteRules(pol, clauses, "target", src.val, ip, ws, svc.ct, FALSE)
           rest == CASE S1 -> Failed
                     [] S2 -> Gives(MulticastRule(pol.act, ws))
                     [] S3 -> IF src.ok THEN Gives(BroadcastRule(ws)) ELSE Failed
                     [] S4 -> Gives(IF mc THEN MulticastRule(pol.act, ws)
                                    ELSE WriteSetRules(pol, clauses, "target", GroupSet(pol.src.id), ws))
                     [] OTHER -> last
<1>1. T = CASE TargetSkips(e, p, pol) -> Gives({}) [] OTHER -> rest
  BY DEF TargetSection, TargetSkips
<1>2. last = IF ~src.ok THEN Failed ELSE IF mc THEN Gives(MulticastRule(pol.act, ws))
             ELSE WriteRules(pol, clauses, "target", src.val, ip, ws, svc.ct, FALSE)
  <2> HIDE DEF src
  <2> QED OBVIOUS
<1>3. /\ ~(S1 /\ S2) /\ ~(S1 /\ S3) /\ ~(S2 /\ S3)
      /\ ~(S1 /\ S4) /\ ~(S2 /\ S4) /\ ~(S3 /\ S4)
  BY SpecialsApart DEF UsesSet
<1> HIDE DEF S1, S2, S3, S4, last, src, mc
<1>4. /\ S1 => rest = Failed
      /\ S2 => rest = Gives(MulticastRule(pol.act, ws))
      /\ S3 => rest = IF src.ok THEN Gives(BroadcastRule(ws)) ELSE Failed
      /\ S4 => rest = Gives(IF mc THEN MulticastRule(pol.act, ws)
                            ELSE WriteSetRules(pol, clauses, "target", GroupSet(pol.src.id), ws))
      /\ ~S1 /\ ~S2 /\ ~S3 /\ ~S4 => rest = last
  BY <1>3
<1> HIDE DEF rest
<1>5. \/ TargetSkips(e, p, pol) /\ T = Gives({})
      \/ ~TargetSkips(e, p, pol) /\ T = rest
  BY <1>1
<1> HIDE DEF T
<1> QED BY <1>2, <1>4, <1>5 DEF T, S1, S2, S3, S4, src, mc

(* When a policy has no egress part for the peer.                          *)
SourceSkips(e, p, pol) == ~IsSource(e, pol, p) \/ pol.dir \notin {"both", "forward"}

(* The egress part.                                                        *)
LEMMA SourceForms ==
  ASSUME NEW e, NEW p, NEW pol, NEW svc, NEW clauses, NEW ws
  PROVE  LET T == SourceSection(e, p, pol, svc, clauses, ws)
             ip == e.peers[p].ip
             tgt == ResolveEntityCIDRs(e, pol.tgt, ip)
             mcast == Special(pol.tgt, MulticastIDs)
             send == IF mcast /\ pol.act = "ACCEPT" THEN MulticastSend(ws) ELSE {}
         IN  \/ SourceSkips(e, p, pol) /\ T = Gives({})
             \/ /\ ~SourceSkips(e, p, pol)
                /\ \/ /\ Special(pol.tgt, {"internet"})
                      /\ T = IF ip \in {NoIP, SixIP} THEN Failed
                             ELSE Gives(BuildInternetRules(pol, clauses, ws))
                   \/ /\ UsesSet(e, p, pol.tgt)
                      /\ T = Gives(IF svc.kind = "multicast" THEN {}
                                   ELSE WriteSetRules(pol, clauses, "source", GroupSet(pol.tgt.id), ws))
                   \/ /\ ~Special(pol.tgt, {"internet"}) /\ ~UsesSet(e, p, pol.tgt)
                      /\ T = IF ~tgt.ok THEN Failed
                             ELSE IF svc.kind = "multicast" THEN Gives(send)
                             ELSE WriteRules(pol, clauses, "source", tgt.val, ip, ws, svc.ct, mcast)
<1> DEFINE T == SourceSection(e, p, pol, svc, clauses, ws)
           ip == e.peers[p].ip
           tgt == ResolveEntityCIDRs(e, pol.tgt, ip)
           mcast == Special(pol.tgt, MulticastIDs)
           send == IF mcast /\ pol.act = "ACCEPT" THEN MulticastSend(ws) ELSE {}
           S1 == Special(pol.tgt, {"internet"})
           S2 == UsesSet(e, p, pol.tgt)
           mc == svc.kind = "multicast"
           last == CASE ~tgt.ok -> Failed
                     [] tgt.ok /\ mc -> Gives(send)
                     [] OTHER -> WriteRules(pol, clauses, "source", tgt.val, ip, ws, svc.ct, mcast)
           rest == CASE S1 -> IF ip \in {NoIP, SixIP} THEN Failed
                              ELSE Gives(BuildInternetRules(pol, clauses, ws))
                     [] S2 -> Gives(IF mc THEN {}
                                    ELSE WriteSetRules(pol, clauses, "source", GroupSet(pol.tgt.id), ws))
                     [] OTHER -> last
<1>1. T = CASE SourceSkips(e, p, pol) -> Gives({}) [] OTHER -> rest
  BY DEF SourceSection, SourceSkips
<1>2. last = IF ~tgt.ok THEN Failed ELSE IF mc THEN Gives(send)
             ELSE WriteRules(pol, clauses, "source", tgt.val, ip, ws, svc.ct, mcast)
  <2> HIDE DEF tgt, send, mcast
  <2> QED OBVIOUS
<1>3. ~(S1 /\ S2)
  BY SpecialsApart DEF UsesSet
<1> HIDE DEF S1, S2, last, tgt, mc, send, mcast
<1>4. /\ S1 => rest = IF ip \in {NoIP, SixIP} THEN Failed
                      ELSE Gives(BuildInternetRules(pol, clauses, ws))
      /\ S2 => rest = Gives(IF mc THEN {}
                            ELSE WriteSetRules(pol, clauses, "source", GroupSet(pol.tgt.id), ws))
      /\ ~S1 /\ ~S2 => rest = last
  BY <1>3
<1> HIDE DEF rest
<1>5. \/ SourceSkips(e, p, pol) /\ T = Gives({})
      \/ ~SourceSkips(e, p, pol) /\ T = rest
  BY <1>1
<1> HIDE DEF T
<1> QED BY <1>2, <1>4, <1>5 DEF T, S1, S2, tgt, mc, send, mcast

(* The clauses of a policy, and its two parts for a peer.                  *)
ClausesOf(e, pol) ==
  IF e.services[pol.svc].kind = "ports" THEN ExpandPorts(pol.svc, e.services[pol.svc]) ELSE {}
Ingress(e, p, pol) ==
  TargetSection(e, p, pol, e.services[pol.svc], ClausesOf(e, pol),
                ScopeFlags(pol.scope, e.peers[p].docker))
Egress(e, p, pol) ==
  SourceSection(e, p, pol, e.services[pol.svc], ClausesOf(e, pol),
                ScopeFlags(pol.scope, e.peers[p].docker))

(* The rules of a policy that compiles.                                    *)
LEMMA SingleForms ==
  ASSUME NEW e, NEW p, NEW pol, SinglePolicy(e, p, pol).ok
  PROVE  LET ws == ScopeFlags(pol.scope, e.peers[p].docker)
             kind == e.services[pol.svc].kind
             R == SinglePolicy(e, p, pol).val
         IN  /\ LiveService(e, pol.svc)
             /\ \/ kind = "igmp" /\ R = IF "host" \in ws THEN IGMPRules(ws) ELSE {}
                \/ kind = "vrrp" /\ R = IF "host" \in ws THEN VRRPRules(ws) ELSE {}
                \/ /\ kind \notin {"igmp", "vrrp"}
                   /\ Ingress(e, p, pol).ok /\ Egress(e, p, pol).ok
                   /\ R = Ingress(e, p, pol).val \cup Egress(e, p, pol).val
<1> DEFINE ws == ScopeFlags(pol.scope, e.peers[p].docker)
           kind == e.services[pol.svc].kind
           in == Ingress(e, p, pol)
           out == Egress(e, p, pol)
           both == IF in.ok /\ out.ok THEN Gives(in.val \cup out.val) ELSE Failed
           all == CASE kind = "igmp" -> Gives(IF "host" \in ws THEN IGMPRules(ws) ELSE {})
                    [] kind = "vrrp" -> Gives(IF "host" \in ws THEN VRRPRules(ws) ELSE {})
                    [] OTHER -> both
<1>1. SinglePolicy(e, p, pol) = CASE ~LiveService(e, pol.svc) -> Failed [] OTHER -> all
  BY DEF SinglePolicy, Ingress, Egress, ClausesOf
<1> HIDE DEF in, out, ws
<1>2. both.ok => in.ok /\ out.ok /\ both.val = in.val \cup out.val
  BY DEF Gives, Failed
<1> HIDE DEF both
<1>3. \/ kind = "igmp" /\ all = Gives(IF "host" \in ws THEN IGMPRules(ws) ELSE {})
      \/ kind = "vrrp" /\ all = Gives(IF "host" \in ws THEN VRRPRules(ws) ELSE {})
      \/ kind \notin {"igmp", "vrrp"} /\ all = both
  OBVIOUS
<1> HIDE DEF all
<1>4. LiveService(e, pol.svc) /\ SinglePolicy(e, p, pol) = all
  BY <1>1 DEF Failed
<1> QED BY <1>2, <1>3, <1>4 DEF Gives, in, out, ws

(* All ingress rules of an ACCEPT policy accept.                           *)
LEMMA TargetAccepts ==
  ASSUME NEW e, NEW p, NEW pol, pol.act = "ACCEPT", NEW svc, NEW clauses, NEW ws,
         NEW r \in TargetSection(e, p, pol, svc, clauses, ws).val
  PROVE  r.act = "ACCEPT"
<1> DEFINE T == TargetSection(e, p, pol, svc, clauses, ws)
           ip == e.peers[p].ip
           src == ResolveEntityCIDRs(e, pol.src, ip)
           set == WriteSetRules(pol, clauses, "target", GroupSet(pol.src.id), ws)
           cidr == WriteRules(pol, clauses, "target", src.val, ip, ws, svc.ct, FALSE)
<1>1. \/ T = Gives({}) \/ T = Failed \/ T = Gives(MulticastRule(pol.act, ws))
      \/ T = IF src.ok THEN Gives(BroadcastRule(ws)) ELSE Failed
      \/ T = Gives(IF svc.kind = "multicast" THEN MulticastRule(pol.act, ws) ELSE set)
      \/ T = IF ~src.ok THEN Failed
             ELSE IF svc.kind = "multicast" THEN Gives(MulticastRule(pol.act, ws)) ELSE cidr
  BY TargetForms, Zenon
<1>2. r \in T.val
  OBVIOUS
<1>3. /\ \A x \in cidr.val : x.act = "ACCEPT"
      /\ \A x \in set : x.act = "ACCEPT"
  <2>1. \A x \in cidr.val : x.act = "ACCEPT"
    <3>1. \A c, i, t : \A x \in WriteRules(pol, clauses, "target", c, i, ws, t, FALSE).val :
              x.act = "ACCEPT"
      BY WriteAccepts
    <3> QED BY <3>1, Zenon
  <2>2. \A x \in set : x.act = "ACCEPT"
    BY WriteSetAccepts
  <2> QED BY <2>1, <2>2
<1>4. /\ \A x \in MulticastRule(pol.act, ws) : x.act = "ACCEPT"
      /\ \A x \in BroadcastRule(ws) : x.act = "ACCEPT"
  <2>1. MulticastRule(pol.act, ws) = MulticastRule("ACCEPT", ws)
    OBVIOUS
  <2>2. /\ \A x \in MulticastRule("ACCEPT", ws) : x.act = "ACCEPT"
        /\ \A x \in BroadcastRule(ws) : x.act = "ACCEPT"
    BY FixedAccepts
  <2> QED BY <2>1, <2>2
<1> HIDE DEF T, src, set, cidr
<1> QED BY <1>1, <1>2, <1>3, <1>4 DEF Gives, Failed

(* All its egress rules do.                                                *)
LEMMA SourceAccepts ==
  ASSUME NEW e, NEW p, NEW pol, pol.act = "ACCEPT", NEW svc, NEW clauses, NEW ws,
         NEW r \in SourceSection(e, p, pol, svc, clauses, ws).val
  PROVE  r.act = "ACCEPT"
<1> DEFINE T == SourceSection(e, p, pol, svc, clauses, ws)
           ip == e.peers[p].ip
           tgt == ResolveEntityCIDRs(e, pol.tgt, ip)
           mcast == Special(pol.tgt, MulticastIDs)
           set == WriteSetRules(pol, clauses, "source", GroupSet(pol.tgt.id), ws)
           net == BuildInternetRules(pol, clauses, ws)
           cidr == WriteRules(pol, clauses, "source", tgt.val, ip, ws, svc.ct, mcast)
<1>1. \/ T = Gives({}) \/ T = Failed \/ T = Gives(MulticastSend(ws)) \/ T = Gives(net)
      \/ T = Gives(set) \/ T = cidr
  BY SourceForms
<1>2. r \in T.val
  OBVIOUS
<1>3. /\ \A x \in cidr.val : x.act = "ACCEPT"
      /\ \A x \in set : x.act = "ACCEPT"
      /\ \A x \in net : x.act = "ACCEPT"
  BY WriteAccepts, WriteSetAccepts DEF BuildInternetRules
<1>4. \A x \in MulticastSend(ws) : x.act = "ACCEPT"
  BY FixedAccepts
<1> HIDE DEF T, set, cidr, net
<1> QED BY <1>1, <1>2, <1>3, <1>4 DEF Gives, Failed

(* So a policy that accepts drops nothing.                                 *)
LEMMA PolicyAccepts ==
  ASSUME NEW e, NEW p, NEW pol, pol.act = "ACCEPT", SinglePolicy(e, p, pol).ok,
         NEW r \in SinglePolicy(e, p, pol).val
  PROVE  r.act = "ACCEPT"
<1> DEFINE ws == ScopeFlags(pol.scope, e.peers[p].docker)
<1>1. \/ r \in IGMPRules(ws) \/ r \in VRRPRules(ws)
      \/ r \in Ingress(e, p, pol).val \/ r \in Egress(e, p, pol).val
  BY SingleForms
<1> QED BY <1>1, FixedAccepts, TargetAccepts, SourceAccepts DEF Ingress, Egress

-----------------------------------------------------------------------------
(***************************************************************************)
(* The end to end property.                                                *)
(***************************************************************************)
LEMMA LeastExists ==
  ASSUME NEW S, NEW n0 \in S, NEW f, \A n \in S : f[n] \in Nat
  PROVE  \E n \in S : \A m \in S : f[n] <= f[m]
<1> DEFINE T == {f[n] : n \in S}
<1>1. T \subseteq Nat /\ T # {}
  OBVIOUS
<1>2. PICK x \in T : \A y \in T : ~(<<y, x>> \in OpToRel(<, Nat))
  <2> HIDE DEF T
  <2> QED BY <1>1, NatLessThanWellFounded, WFMin
<1>3. PICK n \in S : x = f[n]
  BY <1>2
<1>4. \A m \in S : ~(f[m] < f[n])
  BY <1>2, <1>3 DEF OpToRel
<1> QED BY <1>4

(* A packet that a rule of an ACCEPT policy matches is accepted, if no     *)
(* other policy of the peer that drops has as low a number.                *)
LEMMA AcceptedIf ==
  ASSUME TypeOK, NEW p \in Peer, Compile(d, p).ok, NEW pkt,
         NEW n \in LoadApplicablePolicies(d, p), d.policies[n].act = "ACCEPT", NotOverruled(n),
         NEW r \in SinglePolicy(d, p, d.policies[n]).val, Matches(Compile(d, p), r, pkt)
  PROVE  Accepted(Compile(d, p), pkt)
<1> DEFINE b == Compile(d, p)
           hits == {m \in DOMAIN b.rules : \E x \in b.rules[m] : Matches(b, x, pkt)}
           first == {m \in hits : \A k \in hits : b.prio[m] <= b.prio[k]}
           met == {x \in UNION {b.rules[m] : m \in first} : Matches(b, x, pkt)}
<1>1. /\ DOMAIN b.rules = LoadApplicablePolicies(d, p)
      /\ \A m \in LoadApplicablePolicies(d, p) :
             /\ SinglePolicy(d, p, d.policies[m]).ok
             /\ b.rules[m] = SinglePolicy(d, p, d.policies[m]).val
             /\ b.prio[m] = d.policies[m].prio
  BY BundleOf
<1>2. \A m \in LoadApplicablePolicies(d, p) :
         m \in LivePolicies /\ d.policies[m].on /\ d.policies[m].prio \in Nat
  BY DEF LoadApplicablePolicies, Applicable, LivePolicies, TypeOK, IsTable, PolicyRow
<1> HIDE DEF b
<1>3. n \in hits
  BY <1>1 DEF b
<1>4. \A m \in hits : m \in LoadApplicablePolicies(d, p) /\ b.prio[m] \in Nat
  BY <1>1, <1>2
<1>5. \E m \in first : TRUE
  <2> HIDE DEF hits
  <2>1. \E m \in hits : \A k \in hits : b.prio[m] <= b.prio[k]
    BY <1>3, <1>4, LeastExists
  <2> QED BY <2>1
<1>6. \A m \in first : d.policies[m].act = "ACCEPT"
  <2> SUFFICES ASSUME NEW m \in first, m # n PROVE d.policies[m].act = "ACCEPT"
    OBVIOUS
  <2>1. m \in LoadApplicablePolicies(d, p) /\ b.prio[m] <= b.prio[n]
    BY <1>3, <1>4
  <2>2. d.policies[m].prio <= d.policies[n].prio
    BY <1>1, <2>1
  <2> QED BY <1>2, <2>1, <2>2 DEF NotOverruled
<1>7. \A x \in met : x.act = "ACCEPT"
  BY <1>1, <1>4, <1>6, PolicyAccepts
<1>8. \E x \in met : TRUE
  BY <1>5
<1>9. {x.act : x \in met} = {"ACCEPT"}
  <2> HIDE DEF met
  <2> QED BY <1>7, <1>8
<1>10. Verdicts(b, pkt) = CASE StandardRules(pkt) -> {"ACCEPT"}
                            [] ~StandardRules(pkt) /\ hits = {} ->
                                  {IF pkt.chain = "DOCKER-USER" THEN "RETURN" ELSE "DROP"}
                            [] OTHER -> {x.act : x \in met}
  BY DEF Verdicts
<1> HIDE DEF hits, met
<1> QED BY <1>3, <1>9, <1>10 DEF Accepted, b

(* The addresses an end point without an override resolves to.             *)
LEMMA ResolvesTo ==
  ASSUME NEW e, NEW x, x.ip = NoIP, NEW q \in DOMAIN e.peers, NEW ip,
         Has(e, x, q) \/ Special(x, {"all_peers"}), ResolveEntityCIDRs(e, x, ip).ok
  PROVE  e.peers[q].ip \in ResolveEntityCIDRs(e, x, ip).val
<1>1. CASE x.type = "peer" /\ x.id = q
  <2>1. ResolveEntityCIDRs(e, x, ip) = ResolvePeer(e, q)
    BY <1>1 DEF ResolveEntityCIDRs
  <2> QED BY <2>1 DEF ResolvePeer, Gives, Failed
<1>2. CASE x.type = "group" /\ q \in Members(e, x.id)
  <2>1. ResolveEntityCIDRs(e, x, ip) = ResolveGroup(e, x.id)
    BY <1>2 DEF ResolveEntityCIDRs
  <2> QED BY <1>2, <2>1 DEF ResolveGroup, Gives, Failed
<1>3. CASE x.type = "special" /\ x.id = "all_peers"
  <2>1. ResolveEntityCIDRs(e, x, ip) = ResolveSpecialTarget(e, "all_peers", ip)
    BY <1>3 DEF ResolveEntityCIDRs
  <2>2. ResolveSpecialTarget(e, "all_peers", ip) = ResolveAllPeers(e)
    BY DEF ResolveSpecialTarget, MulticastIDs
  <2> QED BY <2>1, <2>2 DEF ResolveAllPeers, Gives, Failed
<1> QED BY <1>1, <1>2, <1>3 DEF Has, Special

(* A service of an ACCEPT policy in the host's chains: the rule for the    *)
(* traffic and the one for the answers, for each clause and each address.  *)
LEMMA AcceptPair ==
  ASSUME NEW pol, pol.act = "ACCEPT", NEW clauses, NEW ws, "host" \in ws, NEW c \in clauses,
         NEW addr
  PROVE  /\ {Out(c, addr), Return(c, "source", addr)}
               \subseteq WriteSetRules(pol, clauses, "source", addr, ws)
         /\ {In(c, addr), Return(c, "target", addr)}
               \subseteq WriteSetRules(pol, clauses, "target", addr, ws)
<1>1. Out(c, addr) \in Primary(c, "source", addr, ws, c.sp, "ACCEPT")
  BY DEF Out, Primary, PrimaryChain, PrimarySide
<1>2. In(c, addr) \in Primary(c, "target", addr, ws, c.sp, "ACCEPT")
  BY DEF In, Primary, PrimaryChain, PrimarySide
<1> QED BY <1>1, <1>2, AcceptSetIs DEF WriteSetRules

(* The same for addresses.                                                 *)
LEMMA AcceptPairCIDR ==
  ASSUME NEW pol, pol.act = "ACCEPT", NEW clauses, NEW ws, "host" \in ws, NEW c \in clauses,
         NEW cidrs, NEW ip, NEW tracked, NEW mcast, ~mcast, NEW a \in cidrs \ {ip}
  PROVE  /\ WriteRules(pol, clauses, "source", cidrs, ip, ws, tracked, mcast).ok =>
               {Out(c, CIDR(a)), Return(c, "source", CIDR(a))}
                  \subseteq WriteRules(pol, clauses, "source", cidrs, ip, ws, tracked, mcast).val
         /\ WriteRules(pol, clauses, "target", cidrs, ip, ws, tracked, mcast).ok =>
               {In(c, CIDR(a)), Return(c, "target", CIDR(a))}
                  \subseteq WriteRules(pol, clauses, "target", cidrs, ip, ws, tracked, mcast).val
<1> DEFINE W(rd) == WriteRules(pol, clauses, rd, cidrs, ip, ws, tracked, mcast)
           B(rd) == BuildAcceptRules(clauses, rd, cidrs, ip, ws, tracked, mcast)
<1>1. Out(c, CIDR(a)) \in Primary(c, "source", CIDR(a), ws, c.sp, "ACCEPT")
  BY DEF Out, Primary, PrimaryChain, PrimarySide
<1>2. In(c, CIDR(a)) \in Primary(c, "target", CIDR(a), ws, c.sp, "ACCEPT")
  BY DEF In, Primary, PrimaryChain, PrimarySide
<1>3. a \in FilterSelf(cidrs, ip) /\ a \in FilterSelf(ReturnCIDRs(cidrs, mcast, tracked), ip)
  BY DEF FilterSelf, ReturnCIDRs
<1>4. \A rd : W(rd).ok => W(rd).val = B(rd)
  BY WriteIs DEF Failed, Gives
<1>5. Out(c, CIDR(a)) \in B("source") /\ Return(c, "source", CIDR(a)) \in B("source")
  BY <1>1, <1>3, AcceptIs
<1>6. In(c, CIDR(a)) \in B("target") /\ Return(c, "target", CIDR(a)) \in B("target")
  BY <1>2, <1>3, AcceptIs
<1> HIDE DEF B
<1> QED BY <1>4, <1>5, <1>6

(* The rules of the source's bundle for the traffic to one of the peers of *)
(* the target, and of the target's for the traffic from the source.        *)
LEMMA SourceRules ==
  ASSUME NEW e, NEW p, NEW pol, pol.act = "ACCEPT", pol.dir = "both", NEW svc,
         svc.kind = "ports", NEW clauses, NEW c \in clauses, NEW ws, "host" \in ws,
         IsSource(e, pol, p), pol.tgt.ip = NoIP, NEW q \in DOMAIN e.peers,
         Has(e, pol.tgt, q) \/ Special(pol.tgt, {"all_peers"}), e.peers[q].ip # e.peers[p].ip,
         SourceSection(e, p, pol, svc, clauses, ws).ok
  PROVE  \E addr : /\ \/ addr = CIDR(e.peers[q].ip)
                      \/ /\ UsesSet(e, p, pol.tgt) /\ q \in Members(e, pol.tgt.id)
                         /\ addr = GroupSet(pol.tgt.id)
                   /\ {Out(c, addr), Return(c, "source", addr)}
                        \subseteq SourceSection(e, p, pol, svc, clauses, ws).val
<1> DEFINE T == SourceSection(e, p, pol, svc, clauses, ws)
           ip == e.peers[p].ip
           tgt == ResolveEntityCIDRs(e, pol.tgt, ip)
           mcast == Special(pol.tgt, MulticastIDs)
           send == IF mcast /\ pol.act = "ACCEPT" THEN MulticastSend(ws) ELSE {}
           set == WriteSetRules(pol, clauses, "source", GroupSet(pol.tgt.id), ws)
           cidr == WriteRules(pol, clauses, "source", tgt.val, ip, ws, svc.ct, mcast)
<1>1. /\ ~SourceSkips(e, p, pol) /\ ~Special(pol.tgt, {"internet"}) /\ mcast = FALSE
  BY DEF SourceSkips, Has, Special, MulticastIDs
<1>2. \/ UsesSet(e, p, pol.tgt) /\ T = Gives(IF svc.kind = "multicast" THEN {} ELSE set)
      \/ /\ ~UsesSet(e, p, pol.tgt)
         /\ T = IF ~tgt.ok THEN Failed ELSE IF svc.kind = "multicast" THEN Gives(send) ELSE cidr
  <2> HIDE DEF T, tgt, cidr, set, send
  <2> QED BY <1>1, SourceForms DEF T, tgt, cidr, set, send
<1>3. T.ok
  OBVIOUS
<1>4. CASE UsesSet(e, p, pol.tgt)
  <2>1. T.val = set
    BY <1>2, <1>4 DEF Gives
  <2>2. q \in Members(e, pol.tgt.id)
    BY <1>4 DEF UsesSet, Has, Special
  <2>3. {Out(c, GroupSet(pol.tgt.id)), Return(c, "source", GroupSet(pol.tgt.id))} \subseteq set
    BY AcceptPair
  <2> QED BY <1>4, <2>1, <2>2, <2>3
<1>5. CASE ~UsesSet(e, p, pol.tgt)
  <2>1. tgt.ok /\ T = cidr
    <3> HIDE DEF T, tgt, cidr, send
    <3> QED BY <1>2, <1>3, <1>5 DEF Failed
  <2>2. e.peers[q].ip \in tgt.val \ {ip}
    BY <2>1, ResolvesTo
  <2>3. {Out(c, CIDR(e.peers[q].ip)), Return(c, "source", CIDR(e.peers[q].ip))} \subseteq T.val
    <3>1. ~mcast
      BY <1>1
    <3> HIDE DEF tgt, mcast
    <3>2. cidr.ok => {Out(c, CIDR(e.peers[q].ip)), Return(c, "source", CIDR(e.peers[q].ip))}
                        \subseteq cidr.val
      BY <2>2, <3>1, AcceptPairCIDR
    <3> HIDE DEF T, cidr
    <3> QED BY <1>3, <2>1, <3>2
  <2> QED BY <2>3
<1> QED BY <1>4, <1>5

(* The rules of the target, for the traffic from one of the peers of the   *)
(* source.                                                                 *)
LEMMA TargetRules ==
  ASSUME NEW e, NEW p, NEW pol, pol.act = "ACCEPT", pol.dir = "both", NEW svc,
         svc.kind = "ports", NEW clauses, NEW c \in clauses, NEW ws, "host" \in ws,
         IsTarget(e, pol, p), ~Special(pol.tgt, MulticastIDs \cup BroadcastIDs),
         pol.src.ip = NoIP, NEW q \in DOMAIN e.peers, Has(e, pol.src, q),
         e.peers[q].ip # e.peers[p].ip, TargetSection(e, p, pol, svc, clauses, ws).ok
  PROVE  \E addr : /\ \/ addr = CIDR(e.peers[q].ip)
                      \/ /\ UsesSet(e, p, pol.src) /\ q \in Members(e, pol.src.id)
                         /\ addr = GroupSet(pol.src.id)
                   /\ {In(c, addr), Return(c, "target", addr)}
                        \subseteq TargetSection(e, p, pol, svc, clauses, ws).val
<1> DEFINE T == TargetSection(e, p, pol, svc, clauses, ws)
           ip == e.peers[p].ip
           src == ResolveEntityCIDRs(e, pol.src, ip)
           set == WriteSetRules(pol, clauses, "target", GroupSet(pol.src.id), ws)
           cidr == WriteRules(pol, clauses, "target", src.val, ip, ws, svc.ct, FALSE)
<1>1. /\ ~TargetSkips(e, p, pol) /\ ~Special(pol.src, {"internet"})
      /\ ~Special(pol.src, MulticastIDs) /\ ~Special(pol.src, BroadcastIDs)
  BY DEF TargetSkips, Has, Special
<1>2. \/ UsesSet(e, p, pol.src)
         /\ T = Gives(IF svc.kind = "multicast" THEN MulticastRule(pol.act, ws) ELSE set)
      \/ /\ ~UsesSet(e, p, pol.src)
         /\ T = IF ~src.ok THEN Failed
                ELSE IF svc.kind = "multicast" THEN Gives(MulticastRule(pol.act, ws)) ELSE cidr
  BY <1>1, TargetForms, Zenon
<1>3. T.ok
  OBVIOUS
<1>4. CASE UsesSet(e, p, pol.src)
  <2>1. T.val = set
    BY <1>2, <1>4 DEF Gives
  <2>2. q \in Members(e, pol.src.id)
    BY <1>4 DEF UsesSet, Has
  <2>3. {In(c, GroupSet(pol.src.id)), Return(c, "target", GroupSet(pol.src.id))} \subseteq set
    BY AcceptPair
  <2> QED BY <1>4, <2>1, <2>2, <2>3
<1>5. CASE ~UsesSet(e, p, pol.src)
  <2>1. src.ok /\ T = cidr
    <3> HIDE DEF T, src, cidr
    <3> QED BY <1>2, <1>3, <1>5 DEF Failed
  <2>2. e.peers[q].ip \in src.val \ {ip}
    BY <2>1, ResolvesTo
  <2>3. {In(c, CIDR(e.peers[q].ip)), Return(c, "target", CIDR(e.peers[q].ip))} \subseteq T.val
    <3> HIDE DEF src
    <3>1. cidr.ok => {In(c, CIDR(e.peers[q].ip)), Return(c, "target", CIDR(e.peers[q].ip))}
                        \subseteq cidr.val
      <4>1. PICK no : no = FALSE
        OBVIOUS
      <4>2. cidr = WriteRules(pol, clauses, "target", src.val, ip, ws, svc.ct, no)
        BY <4>1
      <4> HIDE DEF cidr
      <4> QED BY <2>2, <4>1, <4>2, AcceptPairCIDR
    <3> HIDE DEF T, cidr
    <3> QED BY <1>3, <2>1, <3>1
  <2> QED BY <2>3
<1> QED BY <1>4, <1>5

(* An address is in its own range, and in a set that holds it.             *)
LEMMA AddrHit ==
  ASSUME NEW b, NEW y
  PROVE  /\ AddrMatches(b, CIDR(y), y)
         /\ \A g : y \in b.sets[g] => AddrMatches(b, GroupSet(g), y)
BY DEF AddrMatches, CIDR, GroupSet

(* The packets of a service: an answer swaps the ports of the request.     *)
LEMMA PacketFields ==
  ASSUME NEW s, NEW pr, NEW chain, NEW f, NEW t
  PROVE  LET dp == IF d.services[s].dst THEN <<s, "d">> ELSE Ephemeral
             sp == IF d.services[s].src THEN <<s, "s">> ELSE Ephemeral
             k == Request(chain, s, pr, f, t)
             a == Reply(chain, s, pr, f, t)
         IN  /\ k.chain = chain /\ k.src = f /\ k.dst = t /\ k.proto = pr
             /\ k.dp = dp /\ k.sp = sp
             /\ a.chain = chain /\ a.src = f /\ a.dst = t /\ a.proto = pr
             /\ a.dp = sp /\ a.sp = dp
<1> DEFINE dp == IF d.services[s].dst THEN <<s, "d">> ELSE Ephemeral
           sp == IF d.services[s].src THEN <<s, "s">> ELSE Ephemeral
<1>1. /\ Port(s, d.services[s], TRUE) = dp
      /\ Port(s, d.services[s], FALSE) = sp
  BY DEF Port
<1> HIDE DEF dp, sp
<1>2. \A x, y : Request(chain, s, pr, x, y) =
          [chain |-> chain, src |-> x, dst |-> y, proto |-> pr, dp |-> dp, sp |-> sp]
  BY <1>1 DEF Request
<1>3. Reply(chain, s, pr, f, t) =
          [[chain |-> chain, src |-> f, dst |-> t, proto |-> pr, dp |-> dp, sp |-> sp]
             EXCEPT !.dp = sp, !.sp = dp]
  <2>1. LET r == Request(chain, s, pr, f, t) IN r.dp = dp /\ r.sp = sp
    BY <1>2
  <2> QED BY <1>2, <2>1 DEF Reply
<1> QED BY <1>2, <1>3 DEF dp, sp

(* The rules of a clause take the packets of its service: the request and, *)
(* with the ports swapped, the answer.                                     *)
LEMMA PacketHit ==
  ASSUME NEW s, NEW pr, NEW x, NEW y, NEW b, NEW addr
  PROVE  LET c == Clause(s, d.services[s], pr)
         IN  /\ AddrMatches(b, addr, y) =>
                   /\ Matches(b, Out(c, addr), Request("OUTPUT", s, pr, x, y))
                   /\ Matches(b, Return(c, "source", addr), Reply("INPUT", s, pr, y, x))
             /\ AddrMatches(b, addr, x) =>
                   /\ Matches(b, In(c, addr), Request("INPUT", s, pr, x, y))
                   /\ Matches(b, Return(c, "target", addr), Reply("OUTPUT", s, pr, y, x))
<1> DEFINE c == Clause(s, d.services[s], pr)
           dst == d.services[s].dst
           src == d.services[s].src
           dp == IF dst THEN <<s, "d">> ELSE Ephemeral
           sp == IF src THEN <<s, "s">> ELSE Ephemeral
<1>1. /\ c.proto = pr /\ c.dp = (IF dst THEN <<s, "d">> ELSE NoPort)
      /\ c.sp = (IF src THEN <<s, "s">> ELSE NoPort)
  BY DEF Clause
<1>2. ASSUME NEW chain, NEW f, NEW t
      PROVE  /\ LET k == Request(chain, s, pr, f, t)
                IN  /\ k.chain = chain /\ k.src = f /\ k.dst = t /\ k.proto = pr
                    /\ k.dp = dp /\ k.sp = sp
             /\ LET k == Reply(chain, s, pr, f, t)
                IN  /\ k.chain = chain /\ k.src = f /\ k.dst = t /\ k.proto = pr
                    /\ k.dp = sp /\ k.sp = dp
  BY PacketFields DEF dp, sp, dst, src
<1>3. c.dp \in {NoPort, dp} /\ c.sp \in {NoPort, sp}
  BY <1>1
<1> HIDE DEF c, dp, sp
<1>4. /\ Out(c, addr) = [chain |-> "OUTPUT", side |-> "dst", addr |-> addr, proto |-> c.proto,
                         dp |-> c.dp, sp |-> c.sp, act |-> "ACCEPT"]
      /\ In(c, addr) = [chain |-> "INPUT", side |-> "src", addr |-> addr, proto |-> c.proto,
                        dp |-> c.dp, sp |-> c.sp, act |-> "ACCEPT"]
  BY DEF Out, In, Rule
<1>5. LET r == InvertPortMatch(c) IN r.proto = c.proto /\ r.dp = c.sp /\ r.sp = c.dp
  BY DEF InvertPortMatch, c, Clause
<1>6. /\ Return(c, "source", addr) = [chain |-> "INPUT", side |-> "src", addr |-> addr,
             proto |-> c.proto, dp |-> c.sp, sp |-> c.dp, act |-> "ACCEPT"]
      /\ Return(c, "target", addr) = [chain |-> "OUTPUT", side |-> "dst", addr |-> addr,
             proto |-> c.proto, dp |-> c.sp, sp |-> c.dp, act |-> "ACCEPT"]
  BY <1>5 DEF Return, Rule
<1>7. ASSUME AddrMatches(b, addr, y)
      PROVE  /\ Matches(b, Out(c, addr), Request("OUTPUT", s, pr, x, y))
             /\ Matches(b, Return(c, "source", addr), Reply("INPUT", s, pr, y, x))
  BY <1>1, <1>2, <1>3, <1>4, <1>6, <1>7 DEF Matches
<1>8. ASSUME AddrMatches(b, addr, x)
      PROVE  /\ Matches(b, In(c, addr), Request("INPUT", s, pr, x, y))
             /\ Matches(b, Return(c, "target", addr), Reply("OUTPUT", s, pr, y, x))
  BY <1>1, <1>2, <1>3, <1>4, <1>6, <1>8 DEF Matches
<1> QED BY <1>7, <1>8 DEF c

(* The set of a group that a policy names holds the group's members.       *)
LEMMA SetHit ==
  ASSUME NEW e, NEW p, Compile(e, p).ok, NEW n \in LoadApplicablePolicies(e, p),
         NEW x \in {e.policies[n].src, e.policies[n].tgt}, UsesSet(e, p, x),
         NEW q \in Members(e, x.id)
  PROVE  AddrMatches(Compile(e, p), GroupSet(x.id), e.peers[q].ip)
<1>1. x.id \in GroupsNamed(e, LoadApplicablePolicies(e, p)) /\ e.peers[p].ipset
  BY DEF GroupsNamed, UsesSet
<1>2. Compile(e, p).sets[x.id] = {e.peers[k].ip : k \in Members(e, x.id)}
  BY <1>1, BundleOf
<1> QED BY <1>2, AddrHit

(* The source lets the request out and the answer in.                      *)
LEMMA SourceLets ==
  ASSUME TypeOK, NEW n \in LivePolicies, NEW p \in Peer, NEW q \in Peer,
         d.policies[n].on, d.policies[n].act = "ACCEPT", d.policies[n].dir = "both",
         d.policies[n].scope # "docker", d.services[d.policies[n].svc].kind = "ports",
         d.policies[n].tgt.ip = NoIP, Has(d, d.policies[n].src, p),
         d.peers[p].ip # d.peers[q].ip,
         Has(d, d.policies[n].tgt, q) \/ Special(d.policies[n].tgt, {"all_peers"}),
         NotOverruled(n), Compile(d, p).ok,
         NEW pr \in d.services[d.policies[n].svc].protos
  PROVE  LET s == d.policies[n].svc
             x == d.peers[p].ip
             y == d.peers[q].ip
         IN  /\ Accepted(Compile(d, p), Request("OUTPUT", s, pr, x, y))
             /\ Accepted(Compile(d, p), Reply("INPUT", s, pr, y, x))
<1> DEFINE pol == d.policies[n]
           s == pol.svc
           svc == d.services[s]
           c == Clause(s, svc, pr)
           ws == ScopeFlags(pol.scope, d.peers[p].docker)
           b == Compile(d, p)
           x == d.peers[p].ip
           y == d.peers[q].ip
<1>1. n \in LoadApplicablePolicies(d, p)
  BY DEF LoadApplicablePolicies, Applicable, LivePolicies
<1>2. SinglePolicy(d, p, pol).ok
  BY <1>1, BundleOf
<1>3. Egress(d, p, pol).ok /\ Egress(d, p, pol).val \subseteq SinglePolicy(d, p, pol).val
  BY <1>2, SingleForms
<1>4. c \in ClausesOf(d, pol)
  BY ClauseIs DEF ClausesOf
<1>5. "host" \in ws
  BY DEF ScopeFlags, TypeOK, IsTable, LivePolicies, PolicyRow
<1>6. IsSource(d, pol, p)
  BY DEF IsSource
<1>7. q \in DOMAIN d.peers
  BY DEF Peer
<1>8. PICK addr : /\ \/ addr = CIDR(y)
                     \/ /\ UsesSet(d, p, pol.tgt) /\ q \in Members(d, pol.tgt.id)
                        /\ addr = GroupSet(pol.tgt.id)
                  /\ {Out(c, addr), Return(c, "source", addr)} \subseteq Egress(d, p, pol).val
  <2> HIDE DEF c, ws
  <2> QED BY <1>3, <1>4, <1>5, <1>6, <1>7, SourceRules DEF Egress, ws
<1>9. AddrMatches(b, addr, y)
  BY <1>1, <1>8, AddrHit, SetHit
<1>10. /\ Matches(b, Out(c, addr), Request("OUTPUT", s, pr, x, y))
       /\ Matches(b, Return(c, "source", addr), Reply("INPUT", s, pr, y, x))
  BY <1>9, PacketHit
<1> HIDE DEF c
<1>11. Out(c, addr) \in SinglePolicy(d, p, pol).val /\ Return(c, "source", addr) \in SinglePolicy(d, p, pol).val
  BY <1>3, <1>8
<1> QED BY <1>1, <1>10, <1>11, AcceptedIf

(* The target lets the request in and the answer out.                      *)
LEMMA TargetLets ==
  ASSUME TypeOK, NEW n \in LivePolicies, NEW p \in Peer, NEW q \in Peer,
         d.policies[n].on, d.policies[n].act = "ACCEPT", d.policies[n].dir = "both",
         d.policies[n].scope # "docker", d.services[d.policies[n].svc].kind = "ports",
         d.policies[n].src.ip = NoIP, Has(d, d.policies[n].src, p),
         d.peers[p].ip # d.peers[q].ip,
         \/ Has(d, d.policies[n].tgt, q)
         \/ Special(d.policies[n].tgt, {"all_peers"}) /\ Has(d, d.policies[n].src, q),
         NotOverruled(n), Compile(d, q).ok,
         NEW pr \in d.services[d.policies[n].svc].protos
  PROVE  LET s == d.policies[n].svc
             x == d.peers[p].ip
             y == d.peers[q].ip
         IN  /\ Accepted(Compile(d, q), Request("INPUT", s, pr, x, y))
             /\ Accepted(Compile(d, q), Reply("OUTPUT", s, pr, y, x))
<1> DEFINE pol == d.policies[n]
           s == pol.svc
           svc == d.services[s]
           c == Clause(s, svc, pr)
           ws == ScopeFlags(pol.scope, d.peers[q].docker)
           b == Compile(d, q)
           x == d.peers[p].ip
           y == d.peers[q].ip
<1>1. n \in LoadApplicablePolicies(d, q)
  BY DEF LoadApplicablePolicies, Applicable, LivePolicies
<1>2. SinglePolicy(d, q, pol).ok
  BY <1>1, BundleOf
<1>3. Ingress(d, q, pol).ok /\ Ingress(d, q, pol).val \subseteq SinglePolicy(d, q, pol).val
  BY <1>2, SingleForms
<1>4. c \in ClausesOf(d, pol)
  BY ClauseIs DEF ClausesOf
<1>5. "host" \in ws
  BY DEF ScopeFlags, TypeOK, IsTable, LivePolicies, PolicyRow
<1>6. IsTarget(d, pol, q) /\ ~Special(pol.tgt, MulticastIDs \cup BroadcastIDs)
  BY DEF IsTarget, Special, Has, MulticastIDs, BroadcastIDs
<1>7. p \in DOMAIN d.peers
  BY DEF Peer
<1>8. PICK addr : /\ \/ addr = CIDR(x)
                     \/ /\ UsesSet(d, q, pol.src) /\ p \in Members(d, pol.src.id)
                        /\ addr = GroupSet(pol.src.id)
                  /\ {In(c, addr), Return(c, "target", addr)} \subseteq Ingress(d, q, pol).val
  <2> HIDE DEF c, ws
  <2>1. TargetSection(d, q, pol, svc, ClausesOf(d, pol), ws).ok
    BY <1>3 DEF Ingress, ws
  <2>2. d.peers[p].ip # d.peers[q].ip /\ svc.kind = "ports"
    OBVIOUS
  <2>3. \E addr : /\ \/ addr = CIDR(x)
                     \/ /\ UsesSet(d, q, pol.src) /\ p \in Members(d, pol.src.id)
                        /\ addr = GroupSet(pol.src.id)
                  /\ {In(c, addr), Return(c, "target", addr)}
                       \subseteq TargetSection(d, q, pol, svc, ClausesOf(d, pol), ws).val
    BY SMTT(60), <1>4, <1>5, <1>6, <1>7, <2>1, <2>2, TargetRules
  <2> QED BY <2>3 DEF Ingress, ws
<1>9. AddrMatches(b, addr, x)
  BY <1>1, <1>8, AddrHit, SetHit
<1>10. /\ Matches(b, In(c, addr), Request("INPUT", s, pr, x, y))
       /\ Matches(b, Return(c, "target", addr), Reply("OUTPUT", s, pr, y, x))
  BY <1>9, PacketHit
<1> HIDE DEF c
<1>11. In(c, addr) \in SinglePolicy(d, q, pol).val /\ Return(c, "target", addr) \in SinglePolicy(d, q, pol).val
  BY <1>3, <1>8
<1> QED BY <1>1, <1>10, <1>11, AcceptedIf

(* What a policy allows works in every well-typed database.                *)
LEMMA TypeEndToEnd == TypeOK => EndToEnd
<1> SUFFICES ASSUME TypeOK, NEW n \in LivePolicies, NEW p \in Peer, NEW q \in Peer,
                    LET pol == d.policies[n] IN
                      /\ pol.on /\ pol.act = "ACCEPT" /\ pol.dir = "both" /\ pol.scope # "docker"
                      /\ LiveService(d, pol.svc) /\ d.services[pol.svc].kind = "ports"
                      /\ pol.src.ip = NoIP /\ pol.tgt.ip = NoIP
                      /\ Has(d, pol.src, p) /\ d.peers[p].ip # d.peers[q].ip
                      /\ Has(d, pol.tgt, q)
                         \/ (Special(pol.tgt, {"all_peers"}) /\ Has(d, pol.src, q))
                      /\ NotOverruled(n) /\ Compile(d, p).ok /\ Compile(d, q).ok,
                    NEW pr \in d.services[d.policies[n].svc].protos
             PROVE  LET s == d.policies[n].svc
                        x == d.peers[p].ip
                        y == d.peers[q].ip
                    IN  /\ Accepted(Compile(d, p), Request("OUTPUT", s, pr, x, y))
                        /\ Accepted(Compile(d, q), Request("INPUT", s, pr, x, y))
                        /\ Accepted(Compile(d, q), Reply("OUTPUT", s, pr, y, x))
                        /\ Accepted(Compile(d, p), Reply("INPUT", s, pr, y, x))
  BY DEF EndToEnd
<1> QED BY SourceLets, TargetLets

(* What a policy allows works end to end, in every reachable state: for an *)
(* enabled ACCEPT policy between two peers, on the host and in both        *)
(* directions, that no policy of the same or a lower priority number may   *)
(* drop, both firewalls accept the request and the answer, although they   *)
(* are compiled apart and one may use group sets (compiler.go).            *)
THEOREM Reaches == Spec => []EndToEnd
BY TypeCorrect, TypeEndToEnd, PTL

-----------------------------------------------------------------------------
(***************************************************************************)
(* Nothing else gets in: an INPUT rule that accepts comes from an ACCEPT   *)
(* policy, and is the rule for its traffic or for the answers to it.       *)
(***************************************************************************)

(* A verdict that is not the standard rules' is that of a rule of one of   *)
(* the policies that concern the peer.                                     *)
LEMMA VerdictFrom ==
  ASSUME NEW e, NEW p, Compile(e, p).ok, NEW pkt, ~StandardRules(pkt), pkt.chain = "INPUT",
         "ACCEPT" \in Verdicts(Compile(e, p), pkt)
  PROVE  \E n \in LoadApplicablePolicies(e, p) : \E r \in SinglePolicy(e, p, e.policies[n]).val :
             r.act = "ACCEPT" /\ Matches(Compile(e, p), r, pkt)
<1> DEFINE b == Compile(e, p)
           hits == {m \in DOMAIN b.rules : \E x \in b.rules[m] : Matches(b, x, pkt)}
           first == {m \in hits : \A k \in hits : b.prio[m] <= b.prio[k]}
           met == {x \in UNION {b.rules[m] : m \in first} : Matches(b, x, pkt)}
<1>1. /\ DOMAIN b.rules = LoadApplicablePolicies(e, p)
      /\ \A m \in LoadApplicablePolicies(e, p) :
             b.rules[m] = SinglePolicy(e, p, e.policies[m]).val
  BY BundleOf
<1> HIDE DEF b
<1>2. Verdicts(b, pkt) = CASE StandardRules(pkt) -> {"ACCEPT"}
                           [] ~StandardRules(pkt) /\ hits = {} ->
                                 {IF pkt.chain = "DOCKER-USER" THEN "RETURN" ELSE "DROP"}
                           [] OTHER -> {x.act : x \in met}
  BY DEF Verdicts
<1>3. "ACCEPT" \in Verdicts(b, pkt)
  BY DEF b
<1>4. \E x \in met : x.act = "ACCEPT"
  <2> HIDE DEF hits, met
  <2> QED BY <1>2, <1>3
<1>5. PICK m \in first : \E x \in b.rules[m] : x.act = "ACCEPT" /\ Matches(b, x, pkt)
  BY <1>4
<1>6. m \in LoadApplicablePolicies(e, p)
  BY <1>1, <1>5
<1> QED BY <1>1, <1>5, <1>6 DEF b

(* What is known of a request or an answer that comes in.                  *)
LEMMA InPacket ==
  ASSUME NEW s, NEW pr, NEW x, NEW y,
         NEW pkt \in {Request("INPUT", s, pr, x, y), Reply("INPUT", s, pr, x, y)}
  PROVE  LET dp == IF d.services[s].dst THEN <<s, "d">> ELSE Ephemeral
             sp == IF d.services[s].src THEN <<s, "s">> ELSE Ephemeral
         IN  /\ pkt.chain = "INPUT" /\ pkt.src = x /\ pkt.dst = y /\ pkt.proto = pr
             /\ pkt.dp \in {dp, sp} /\ pkt.sp \in {dp, sp}
<1> DEFINE dp == IF d.services[s].dst THEN <<s, "d">> ELSE Ephemeral
           sp == IF d.services[s].src THEN <<s, "s">> ELSE Ephemeral
<1>1. LET k == Request("INPUT", s, pr, x, y)
          a == Reply("INPUT", s, pr, x, y)
      IN  /\ k.chain = "INPUT" /\ k.src = x /\ k.dst = y /\ k.proto = pr /\ k.dp = dp /\ k.sp = sp
          /\ a.chain = "INPUT" /\ a.src = x /\ a.dst = y /\ a.proto = pr /\ a.dp = sp /\ a.sp = dp
  BY PacketFields
<1> HIDE DEF dp, sp
<1>2. /\ pkt.chain = "INPUT" /\ pkt.src = x /\ pkt.dst = y /\ pkt.proto = pr
      /\ pkt.dp \in {dp, sp} /\ pkt.sp \in {dp, sp}
  BY <1>1
<1> QED BY <1>2 DEF dp, sp

(* No packet of a service goes to the control plane's port.                *)
LEMMA NotControl ==
  ASSUME NEW s, NEW pr, NEW x, NEW y,
         NEW pkt \in {Request("INPUT", s, pr, x, y), Reply("INPUT", s, pr, x, y)}
  PROVE  ~StandardRules(pkt)
<1> DEFINE dp == IF d.services[s].dst THEN <<s, "d">> ELSE Ephemeral
           sp == IF d.services[s].src THEN <<s, "s">> ELSE Ephemeral
<1>1. dp # ControlPort /\ sp # ControlPort
  <2>1. Len(<<s, "d">>) = 2 /\ Len(<<s, "s">>) = 2 /\ Len(ControlPort) = 1
    BY DEF ControlPort
  <2>2. Ephemeral[1] # ControlPort[1]
    BY DEF Ephemeral, ControlPort
  <2> QED BY <2>1, <2>2
<1>2. pkt.dp \in {dp, sp} /\ pkt.sp \in {dp, sp}
  BY InPacket
<1> HIDE DEF dp, sp
<1> QED BY <1>1, <1>2 DEF StandardRules

(* The rules of the system services are for packets to a group of hosts.   *)
LEMMA FixedMiss ==
  ASSUME NEW ws, NEW act, NEW b, NEW pkt, Unicast(pkt.dst),
         NEW r \in IGMPRules(ws) \cup VRRPRules(ws) \cup MulticastRule(act, ws)
                     \cup MulticastSend(ws) \cup BroadcastRule(ws)
  PROVE  ~Matches(b, r, pkt)
<1>1. r.side = "dst" /\ (r.addr = CIDR(Multicast) \/ r.addr = CIDR(Broadcast))
  BY DEF IGMPRules, VRRPRules, MulticastRule, MulticastSend, BroadcastRule, Rule
<1>2. \A c : AddrMatches(b, CIDR(c), pkt.dst) <=> c \in {AnyIP, pkt.dst}
  BY DEF AddrMatches, CIDR
<1>3. ~AddrMatches(b, r.addr, pkt.dst)
  BY <1>1, <1>2 DEF Unicast, AnyIP, Multicast, Broadcast
<1> QED BY <1>1, <1>3 DEF Matches

(* The INPUT rules among those for the traffic of a clause.                *)
LEMMA PrimaryIn ==
  ASSUME NEW c, NEW addr, NEW ws, NEW r, r.chain = "INPUT"
  PROVE  /\ r \in Primary(c, "target", addr, ws, c.sp, "ACCEPT") => r = In(c, addr)
         /\ \A sp, act : r \notin Primary(c, "source", addr, ws, sp, act)
         /\ r # Return(c, "target", addr)
<1>1. ASSUME r \in Primary(c, "target", addr, ws, c.sp, "ACCEPT") PROVE r = In(c, addr)
  <2>1. PICK w \in ws : r = Rule(PrimaryChain("target", w), "src", addr, c.proto, c.dp, c.sp, "ACCEPT")
    BY <1>1 DEF Primary, PrimarySide
  <2>2. PrimaryChain("target", w) = "INPUT"
    BY <2>1 DEF Rule
  <2> QED BY <2>1, <2>2 DEF In
<1>2. ASSUME NEW sp, NEW act, r \in Primary(c, "source", addr, ws, sp, act) PROVE FALSE
  <2>1. PICK w \in ws : r = Rule(PrimaryChain("source", w), "dst", addr, c.proto, c.dp, sp, act)
    BY <1>2 DEF Primary, PrimarySide
  <2>2. PrimaryChain("source", w) # "INPUT"
    BY DEF PrimaryChain
  <2> QED BY <2>1, <2>2 DEF Rule
<1>3. r # Return(c, "target", addr)
  BY DEF Return, Rule
<1> QED BY <1>1, <1>2, <1>3

(* An INPUT rule that accepts, among those the compiler writes for the     *)
(* addresses an end point resolves to.                                     *)
LEMMA WriteIn ==
  ASSUME NEW pol, pol.act \in {"ACCEPT", "DROP", "LOG_DROP"}, NEW clauses, NEW cidrs, NEW ip,
         NEW ws, NEW tracked, NEW mcast, NEW r, r.chain = "INPUT", r.act = "ACCEPT"
  PROVE  /\ r \in WriteRules(pol, clauses, "target", cidrs, ip, ws, tracked, mcast).val =>
               pol.act = "ACCEPT" /\ \E c \in clauses : \E a \in cidrs : r = In(c, CIDR(a))
         /\ r \in WriteRules(pol, clauses, "source", cidrs, ip, ws, tracked, mcast).val =>
               /\ pol.act = "ACCEPT"
               /\ \E c \in clauses : \E a : /\ a \in cidrs \/ (mcast /\ a = AnyIP)
                                            /\ r = Return(c, "source", CIDR(a))
<1> DEFINE W(rd) == WriteRules(pol, clauses, rd, cidrs, ip, ws, tracked, mcast)
           A(rd) == BuildAcceptRules(clauses, rd, cidrs, ip, ws, tracked, mcast)
           L(rd) == BuildLogDropRules(clauses, rd, {CIDR(a) : a \in FilterSelf(cidrs, ip)}, ws, pol.act)
<1>1. \A rd : r \in W(rd).val => IF pol.act = "ACCEPT" THEN r \in A(rd) ELSE r \in L(rd)
  BY WriteIs DEF Failed, Gives
<1>2. pol.act # "ACCEPT" => \A rd : r \notin L(rd)
  BY LogDropIs, PrimaryAct
<1>3. r \in A("target") => \E c \in clauses : \E a \in cidrs : r = In(c, CIDR(a))
  <2>1. r \in A("target") =>
          \E c \in clauses : \E a \in FilterSelf(cidrs, ip) :
              \/ r \in Primary(c, "target", CIDR(a), ws, c.sp, "ACCEPT")
              \/ r = Return(c, "target", CIDR(a))
    BY AcceptIs
  <2>2. \A c, a : /\ r \in Primary(c, "target", CIDR(a), ws, c.sp, "ACCEPT") => r = In(c, CIDR(a))
                  /\ r # Return(c, "target", CIDR(a))
    BY PrimaryIn
  <2>3. FilterSelf(cidrs, ip) \subseteq cidrs
    BY DEF FilterSelf
  <2> HIDE DEF A
  <2> QED BY <2>1, <2>2, <2>3
<1>4. r \in A("source") =>
         \E c \in clauses : \E a : /\ a \in cidrs \/ (mcast /\ a = AnyIP)
                                   /\ r = Return(c, "source", CIDR(a))
  <2>1. r \in A("source") =>
         \E c \in clauses : \E a \in FilterSelf(ReturnCIDRs(cidrs, mcast, tracked), ip) :
             r = Return(c, "source", CIDR(a))
    BY AcceptIs, PrimaryIn
  <2>2. \A a \in FilterSelf(ReturnCIDRs(cidrs, mcast, tracked), ip) :
            a \in cidrs \/ (mcast /\ a = AnyIP)
    BY DEF FilterSelf, ReturnCIDRs
  <2> HIDE DEF A
  <2> QED BY <2>1, <2>2
<1> HIDE DEF W, A, L
<1> QED BY <1>1, <1>2, <1>3, <1>4 DEF W

(* The same for a set.                                                     *)
LEMMA WriteSetIn ==
  ASSUME NEW pol, pol.act \in {"ACCEPT", "DROP", "LOG_DROP"}, NEW clauses, NEW addr, NEW ws,
         NEW r, r.chain = "INPUT", r.act = "ACCEPT"
  PROVE  /\ r \in WriteSetRules(pol, clauses, "target", addr, ws) =>
               pol.act = "ACCEPT" /\ \E c \in clauses : r = In(c, addr)
         /\ r \in WriteSetRules(pol, clauses, "source", addr, ws) =>
               pol.act = "ACCEPT" /\ \E c \in clauses : r = Return(c, "source", addr)
<1>1. pol.act # "ACCEPT" => \A rd : r \notin BuildLogDropRules(clauses, rd, {addr}, ws, pol.act)
  BY LogDropIs, PrimaryAct
<1>2. r \in BuildAcceptSetRules(clauses, "target", addr, ws) => \E c \in clauses : r = In(c, addr)
  <2>1. r \in BuildAcceptSetRules(clauses, "target", addr, ws) =>
          \E c \in clauses : \/ r \in Primary(c, "target", addr, ws, c.sp, "ACCEPT")
                             \/ r = Return(c, "target", addr)
    BY AcceptSetIs
  <2>2. \A c : /\ r \in Primary(c, "target", addr, ws, c.sp, "ACCEPT") => r = In(c, addr)
               /\ r # Return(c, "target", addr)
    BY PrimaryIn
  <2> QED BY <2>1, <2>2
<1>3. r \in BuildAcceptSetRules(clauses, "source", addr, ws) =>
         \E c \in clauses : r = Return(c, "source", addr)
  BY AcceptSetIs, PrimaryIn
<1> QED BY <1>1, <1>2, <1>3 DEF WriteSetRules

(* The INPUT rules of a clause of service t take packets of service s only *)
(* if t is s or has no ports, and compare the address the packet is from.  *)
LEMMA RuleTakes ==
  ASSUME TypeOK, NEW t \in DOMAIN d.services, NEW c \in ExpandPorts(t, d.services[t]),
         NEW s, NEW pr, NEW x, NEW y, NEW b, NEW addr,
         NEW r \in {In(c, addr), Return(c, "source", addr)},
         NEW pkt \in {Request("INPUT", s, pr, x, y), Reply("INPUT", s, pr, x, y)},
         Matches(b, r, pkt)
  PROVE  pr # "any" => Includes(t, s, pr) /\ AddrMatches(b, addr, x)
<1> DEFINE row == d.services[t]
           dp == IF d.services[s].dst THEN <<s, "d">> ELSE Ephemeral
           sp == IF d.services[s].src THEN <<s, "s">> ELSE Ephemeral
<1>1. PICK k \in row.protos : c = Clause(t, row, k)
  BY ClauseIs
<1>2. /\ c.proto = k /\ c.dp = (IF row.dst THEN <<t, "d">> ELSE NoPort)
      /\ c.sp = (IF row.src THEN <<t, "s">> ELSE NoPort)
  BY <1>1 DEF Clause
<1>3. k # "any"
  BY DEF TypeOK, IsTable, ServiceRow, Protocols
<1>4. LET i == InvertPortMatch(c) IN i.proto = c.proto /\ i.dp = c.sp /\ i.sp = c.dp
  BY <1>1 DEF InvertPortMatch, Clause
<1>5. /\ r.proto = c.proto /\ r.addr = addr /\ r.side = "src"
      /\ {r.dp, r.sp} = {c.dp, c.sp}
  BY <1>4 DEF In, Return, Rule
<1>6. /\ pkt.src = x /\ pkt.proto = pr /\ pkt.dp \in {dp, sp} /\ pkt.sp \in {dp, sp}
  BY InPacket
<1>7. k = pr /\ AddrMatches(b, addr, x)
  BY <1>2, <1>3, <1>5, <1>6 DEF Matches
<1>8. r.dp \in {NoPort, dp, sp} /\ r.sp \in {NoPort, dp, sp}
  BY <1>6 DEF Matches
<1>9. c.dp \in {NoPort, dp, sp} /\ c.sp \in {NoPort, dp, sp}
  BY <1>5, <1>8
<1>10. ASSUME row.dst \/ row.src PROVE t = s
  <2>1. \A v : <<t, v>> # NoPort /\ <<t, v>> # Ephemeral
    <3>1. \A v : Len(<<t, v>>) = 2
      OBVIOUS
    <3>2. Len(NoPort) = 1 /\ Len(Ephemeral) = 1
      BY DEF NoPort, Ephemeral
    <3> QED BY <3>1, <3>2
  <2>2. PICK v : <<t, v>> \in {dp, sp}
    <3>1. CASE row.dst
      <4>1. <<t, "d">> \in {NoPort, dp, sp}
        BY <1>2, <1>9, <3>1
      <4> HIDE DEF dp, sp
      <4> QED BY <2>1, <4>1
    <3>2. CASE row.src
      <4>1. <<t, "s">> \in {NoPort, dp, sp}
        BY <1>2, <1>9, <3>2
      <4> HIDE DEF dp, sp
      <4> QED BY <2>1, <4>1
    <3> QED BY <1>10, <3>1, <3>2
  <2>3. <<t, v>> \in {<<s, "d">>, <<s, "s">>}
    BY <2>1, <2>2
  <2> QED BY <2>3
<1> QED BY <1>1, <1>7, <1>10 DEF Includes

(* An address that an end point resolves to, or a range around it, is      *)
(* covered by the end point.                                               *)
LEMMA ResolvedCovers ==
  ASSUME TypeOK, \A p \in Peer : Unicast(d.peers[p].ip), NEW e \in EndPoint, NEW ip,
         NEW x \in {d.peers[p].ip : p \in Peer} \cup {PublicHost},
         ResolveEntityCIDRs(d, e, ip).ok,
         NEW a \in ResolveEntityCIDRs(d, e, ip).val, a \in {AnyIP, x}
  PROVE  Covers(e, x)
<1>1. x \notin {Multicast, Broadcast, Loopback}
  BY DEF Unicast, PublicHost, Multicast, Broadcast, Loopback
<1>2. CASE e.ip # NoIP
  <2>1. ResolveEntityCIDRs(d, e, ip) =
          IF e.type = "peer" /\ ValidPeerCIDR(e.ip) THEN Gives({e.ip}) ELSE Failed
    BY <1>2 DEF ResolveEntityCIDRs
  <2> QED BY <2>1 DEF Gives, Failed, ValidPeerCIDR, Covers
<1>3. CASE e.ip = NoIP /\ e.type = "peer"
  <2>1. ResolveEntityCIDRs(d, e, ip) = ResolvePeer(d, e.id)
    BY <1>3 DEF ResolveEntityCIDRs
  <2>2. e.id \in Peer /\ a = d.peers[e.id].ip
    BY <2>1 DEF ResolvePeer, Gives, Failed, Peer
  <2>3. d.peers[e.id].ip = x
    BY <2>2 DEF Unicast
  <2> QED BY <1>3, <2>2, <2>3 DEF Covers, Has
<1>4. CASE e.ip = NoIP /\ e.type = "group"
  <2>1. ResolveEntityCIDRs(d, e, ip) = ResolveGroup(d, e.id)
    BY <1>4 DEF ResolveEntityCIDRs
  <2>2. PICK p \in Members(d, e.id) : a = d.peers[p].ip
    BY <2>1 DEF ResolveGroup, Gives, Failed
  <2>3. p \in Peer
    BY DEF Members, Peer
  <2>4. d.peers[p].ip = x
    BY <2>2, <2>3 DEF Unicast
  <2> QED BY <1>4, <2>3, <2>4 DEF Covers, Has
<1>5. CASE e.ip = NoIP /\ e.type = "special"
  <2> DEFINE R == ResolveSpecialTarget(d, e.id, ip)
  <2>1. ResolveEntityCIDRs(d, e, ip) = R
    BY <1>5 DEF ResolveEntityCIDRs
  <2>2. \/ R.val \subseteq {Broadcast, Loopback}
        \/ e.id \in MulticastIDs \cup {"any_ip"}
        \/ e.id = "all_peers" /\ R = ResolveAllPeers(d)
    BY DEF ResolveSpecialTarget, Gives, Failed, MulticastIDs
  <2>3. CASE R.val \subseteq {Broadcast, Loopback}
    BY <1>1, <2>1, <2>3 DEF AnyIP, Broadcast, Loopback
  <2>4. CASE e.id \in MulticastIDs \cup {"any_ip"}
    BY <1>5, <2>4 DEF Covers, Special
  <2>5. CASE e.id = "all_peers" /\ R = ResolveAllPeers(d)
    <3>1. PICK p \in Peer : a = d.peers[p].ip
      BY <2>1, <2>5 DEF ResolveAllPeers, Gives, Failed, Peer
    <3>2. d.peers[p].ip = x
      BY <3>1 DEF Unicast
    <3> QED BY <1>5, <2>5, <3>2 DEF Covers, Special
  <2> QED BY <2>2, <2>3, <2>4, <2>5
<1> QED BY <1>2, <1>3, <1>4, <1>5 DEF EndPoint

(* So is an address in the set of a group.                                 *)
LEMMA SetCovers ==
  ASSUME \A p \in Peer : Unicast(d.peers[p].ip), NEW q, Compile(d, q).ok,
         NEW n \in LoadApplicablePolicies(d, q),
         NEW e \in {d.policies[n].src, d.policies[n].tgt}, UsesSet(d, q, e), NEW x,
         AddrMatches(Compile(d, q), GroupSet(e.id), x)
  PROVE  Covers(e, x)
<1>1. e.id \in GroupsNamed(d, LoadApplicablePolicies(d, q)) /\ d.peers[q].ipset
  BY DEF GroupsNamed, UsesSet
<1>2. Compile(d, q).sets[e.id] = {d.peers[k].ip : k \in Members(d, e.id)}
  BY <1>1, BundleOf
<1>3. {AnyIP, x} \cap Compile(d, q).sets[e.id] # {}
  BY DEF AddrMatches, GroupSet
<1>4. PICK k \in Members(d, e.id) : d.peers[k].ip \in {AnyIP, x}
  BY <1>2, <1>3
<1>5. k \in Peer
  BY DEF Members, Peer
<1> QED BY <1>4, <1>5 DEF UsesSet, Covers, Has, Unicast

(* Where a rule that is not one of the fixed ones comes from.              *)
LEMMA TargetFrom ==
  ASSUME NEW e, NEW p, NEW pol, NEW svc, NEW clauses, NEW ws,
         NEW r \in TargetSection(e, p, pol, svc, clauses, ws).val,
         r \notin MulticastRule(pol.act, ws), r \notin BroadcastRule(ws)
  PROVE  LET ip == e.peers[p].ip
             src == ResolveEntityCIDRs(e, pol.src, ip)
         IN  /\ ~TargetSkips(e, p, pol)
             /\ \/ UsesSet(e, p, pol.src)
                   /\ r \in WriteSetRules(pol, clauses, "target", GroupSet(pol.src.id), ws)
                \/ src.ok
                   /\ r \in WriteRules(pol, clauses, "target", src.val, ip, ws, svc.ct, FALSE).val
<1> DEFINE T == TargetSection(e, p, pol, svc, clauses, ws)
           ip == e.peers[p].ip
           src == ResolveEntityCIDRs(e, pol.src, ip)
           set == WriteSetRules(pol, clauses, "target", GroupSet(pol.src.id), ws)
           cidr == WriteRules(pol, clauses, "target", src.val, ip, ws, svc.ct, FALSE)
<1>1. \/ T = Gives({})
      \/ /\ ~TargetSkips(e, p, pol)
         /\ \/ T = Failed
            \/ T = Gives(MulticastRule(pol.act, ws))
            \/ T = IF src.ok THEN Gives(BroadcastRule(ws)) ELSE Failed
            \/ /\ UsesSet(e, p, pol.src)
               /\ T = Gives(IF svc.kind = "multicast" THEN MulticastRule(pol.act, ws) ELSE set)
            \/ T = IF ~src.ok THEN Failed
                   ELSE IF svc.kind = "multicast" THEN Gives(MulticastRule(pol.act, ws)) ELSE cidr
  BY TargetForms, Zenon
<1>2. r \in T.val
  OBVIOUS
<1> HIDE DEF T, src, set, cidr
<1>3. /\ ~TargetSkips(e, p, pol)
      /\ (UsesSet(e, p, pol.src) /\ r \in set) \/ (src.ok /\ r \in cidr.val)
  BY <1>1, <1>2 DEF Gives, Failed
<1> QED BY <1>3, Zenon DEF src, set, cidr

(* The same for the egress part.                                           *)
LEMMA SourceFrom ==
  ASSUME NEW e, NEW p, NEW pol, NEW svc, NEW clauses, NEW ws,
         NEW r \in SourceSection(e, p, pol, svc, clauses, ws).val,
         r \notin MulticastSend(ws)
  PROVE  LET ip == e.peers[p].ip
             tgt == ResolveEntityCIDRs(e, pol.tgt, ip)
         IN  /\ ~SourceSkips(e, p, pol)
             /\ \/ Special(pol.tgt, {"internet"})
                   /\ r \in WriteSetRules(pol, clauses, "source", Public, ws)
                \/ UsesSet(e, p, pol.tgt)
                   /\ r \in WriteSetRules(pol, clauses, "source", GroupSet(pol.tgt.id), ws)
                \/ tgt.ok /\ r \in WriteRules(pol, clauses, "source", tgt.val, ip, ws, svc.ct,
                                             Special(pol.tgt, MulticastIDs)).val
<1> DEFINE T == SourceSection(e, p, pol, svc, clauses, ws)
           ip == e.peers[p].ip
           tgt == ResolveEntityCIDRs(e, pol.tgt, ip)
           mcast == Special(pol.tgt, MulticastIDs)
           send == IF mcast /\ pol.act = "ACCEPT" THEN MulticastSend(ws) ELSE {}
           set == WriteSetRules(pol, clauses, "source", GroupSet(pol.tgt.id), ws)
           net == WriteSetRules(pol, clauses, "source", Public, ws)
           cidr == WriteRules(pol, clauses, "source", tgt.val, ip, ws, svc.ct, mcast)
<1>1. \/ T = Gives({})
      \/ /\ ~SourceSkips(e, p, pol)
         /\ \/ /\ Special(pol.tgt, {"internet"})
               /\ T = IF ip \in {NoIP, SixIP} THEN Failed ELSE Gives(net)
            \/ UsesSet(e, p, pol.tgt) /\ T = Gives(IF svc.kind = "multicast" THEN {} ELSE set)
            \/ T = IF ~tgt.ok THEN Failed ELSE IF svc.kind = "multicast" THEN Gives(send) ELSE cidr
  <2>1. BuildInternetRules(pol, clauses, ws) = net
    BY DEF BuildInternetRules
  <2> HIDE DEF T, tgt, set, net, cidr, send, mcast
  <2> QED BY <2>1, SourceForms DEF T, tgt, set, cidr, send, mcast
<1>2. r \in T.val /\ r \notin send
  OBVIOUS
<1> HIDE DEF T, tgt, set, net, cidr, send
<1>3. /\ ~SourceSkips(e, p, pol)
      /\ \/ Special(pol.tgt, {"internet"}) /\ r \in net
         \/ UsesSet(e, p, pol.tgt) /\ r \in set
         \/ tgt.ok /\ r \in cidr.val
  BY <1>1, <1>2 DEF Gives, Failed
<1> QED BY <1>3, Zenon DEF tgt, set, net, cidr

(* What an INPUT rule of the ingress part says about the policy, and one   *)
(* of the egress part (where it is a rule for answers).                    *)
LEMMA IngressRelated ==
  ASSUME TypeOK, \A p \in Peer : Unicast(d.peers[p].ip), NEW q \in Peer, Compile(d, q).ok,
         NEW n \in LoadApplicablePolicies(d, q),
         NEW s, NEW pr, pr # "any", NEW x \in {d.peers[p].ip : p \in Peer} \cup {PublicHost},
         NEW pkt \in {Request("INPUT", s, pr, x, d.peers[q].ip),
                      Reply("INPUT", s, pr, x, d.peers[q].ip)},
         NEW r \in Ingress(d, q, d.policies[n]).val, r.act = "ACCEPT", Matches(Compile(d, q), r, pkt),
         d.policies[n].svc \in DOMAIN d.services
  PROVE  LET pol == d.policies[n]
         IN  /\ pol.act = "ACCEPT" /\ IsTarget(d, pol, q) /\ Includes(pol.svc, s, pr)
             /\ Covers(pol.src, x)
<1> DEFINE pol == d.policies[n]
           t == pol.svc
           svc == d.services[t]
           clauses == ClausesOf(d, pol)
           ws == ScopeFlags(pol.scope, d.peers[q].docker)
           T == TargetSection(d, q, pol, svc, clauses, ws)
           ip == d.peers[q].ip
           src == ResolveEntityCIDRs(d, pol.src, ip)
           set == WriteSetRules(pol, clauses, "target", GroupSet(pol.src.id), ws)
           cidr == WriteRules(pol, clauses, "target", src.val, ip, ws, svc.ct, FALSE)
           b == Compile(d, q)
<1>1. r \in T.val
  BY DEF Ingress
<1>2. pol \in PolicyRow
  BY DEF TypeOK, IsTable, LoadApplicablePolicies
<1>3. pol.act \in {"ACCEPT", "DROP", "LOG_DROP"} /\ pol.src \in EndPoint
  BY <1>2 DEF PolicyRow
<1>4. pkt.chain = "INPUT" /\ pkt.dst = ip
  BY InPacket
<1>5. r.chain = "INPUT"
  BY <1>4 DEF Matches
<1>6. r \notin MulticastRule(pol.act, ws) /\ r \notin BroadcastRule(ws)
  BY <1>4, FixedMiss
<1>7. /\ ~TargetSkips(d, q, pol)
      /\ \/ UsesSet(d, q, pol.src) /\ r \in set
         \/ src.ok /\ r \in cidr.val
  BY <1>1, <1>6, TargetFrom, Zenon
<1>8. clauses \subseteq ExpandPorts(t, svc)
  BY DEF ClausesOf
<1>9. IsTarget(d, pol, q)
  BY <1>7 DEF TargetSkips
<1>10. CASE UsesSet(d, q, pol.src) /\ r \in set
  <2>1. PICK c \in clauses : pol.act = "ACCEPT" /\ r = In(c, GroupSet(pol.src.id))
    BY <1>3, <1>5, <1>10, WriteSetIn
  <2>2. Includes(t, s, pr) /\ AddrMatches(b, GroupSet(pol.src.id), x)
    <3> HIDE DEF clauses, b
    <3> QED BY <1>8, <2>1, RuleTakes DEF b
  <2>3. Covers(pol.src, x)
    BY <1>10, <2>2, SetCovers
  <2> QED BY <1>9, <2>1, <2>2, <2>3
<1>11. CASE src.ok /\ r \in cidr.val
  <2>1. \A cs, i, k, m : r \in WriteRules(pol, clauses, "target", cs, i, ws, k, m).val =>
            pol.act = "ACCEPT" /\ \E c \in clauses : \E a \in cs : r = In(c, CIDR(a))
    BY <1>3, <1>5, WriteIn
  <2>2. PICK c \in clauses, a \in src.val : pol.act = "ACCEPT" /\ r = In(c, CIDR(a))
    BY <1>11, <2>1, Zenon
  <2>3. Includes(t, s, pr) /\ AddrMatches(b, CIDR(a), x)
    <3> HIDE DEF clauses, b
    <3> QED BY <1>8, <2>2, RuleTakes DEF b
  <2>4. a \in {AnyIP, x}
    BY <2>3 DEF AddrMatches, CIDR
  <2>5. Covers(pol.src, x)
    BY <1>3, <1>11, <2>2, <2>4, ResolvedCovers
  <2> QED BY <1>9, <2>2, <2>3, <2>5
<1> QED BY <1>7, <1>10, <1>11

(* The egress part: its INPUT rules are for answers, whatever port they    *)
(* are from.                                                               *)
LEMMA EgressRelated ==
  ASSUME TypeOK, \A p \in Peer : Unicast(d.peers[p].ip), NEW q \in Peer, Compile(d, q).ok,
         NEW n \in LoadApplicablePolicies(d, q),
         NEW s, NEW pr, pr # "any", NEW x \in {d.peers[p].ip : p \in Peer} \cup {PublicHost},
         NEW pkt \in {Request("INPUT", s, pr, x, d.peers[q].ip),
                      Reply("INPUT", s, pr, x, d.peers[q].ip)},
         NEW r \in Egress(d, q, d.policies[n]).val, r.act = "ACCEPT", Matches(Compile(d, q), r, pkt),
         d.policies[n].svc \in DOMAIN d.services
  PROVE  LET pol == d.policies[n]
         IN  /\ pol.act = "ACCEPT" /\ IsSource(d, pol, q) /\ Includes(pol.svc, s, pr)
             /\ Covers(pol.tgt, x)
<1> DEFINE pol == d.policies[n]
           t == pol.svc
           svc == d.services[t]
           clauses == ClausesOf(d, pol)
           ws == ScopeFlags(pol.scope, d.peers[q].docker)
           T == SourceSection(d, q, pol, svc, clauses, ws)
           ip == d.peers[q].ip
           tgt == ResolveEntityCIDRs(d, pol.tgt, ip)
           mcast == Special(pol.tgt, MulticastIDs)
           set == WriteSetRules(pol, clauses, "source", GroupSet(pol.tgt.id), ws)
           net == WriteSetRules(pol, clauses, "source", Public, ws)
           cidr == WriteRules(pol, clauses, "source", tgt.val, ip, ws, svc.ct, mcast)
           b == Compile(d, q)
<1>1. r \in T.val
  BY DEF Egress
<1>2. pol \in PolicyRow
  BY DEF TypeOK, IsTable, LoadApplicablePolicies
<1>3. pol.act \in {"ACCEPT", "DROP", "LOG_DROP"} /\ pol.tgt \in EndPoint
  BY <1>2 DEF PolicyRow
<1>4. pkt.chain = "INPUT" /\ pkt.dst = ip
  BY InPacket
<1>5. r.chain = "INPUT"
  BY <1>4 DEF Matches
<1>6. r \notin MulticastSend(ws)
  BY <1>4, FixedMiss
<1>7. /\ ~SourceSkips(d, q, pol)
      /\ \/ Special(pol.tgt, {"internet"}) /\ r \in net
         \/ UsesSet(d, q, pol.tgt) /\ r \in set
         \/ tgt.ok /\ r \in cidr.val
  BY <1>1, <1>6, SourceFrom, Zenon
<1>8. clauses \subseteq ExpandPorts(t, svc)
  BY DEF ClausesOf
<1>9. IsSource(d, pol, q)
  BY <1>7 DEF SourceSkips
<1>10. ASSUME NEW c \in clauses, NEW addr, r = Return(c, "source", addr)
       PROVE  Includes(t, s, pr) /\ AddrMatches(b, addr, x)
  <2> HIDE DEF clauses, b
  <2> QED BY <1>8, <1>10, RuleTakes DEF b
<1>11. CASE Special(pol.tgt, {"internet"}) /\ r \in net
  <2>1. PICK c \in clauses : pol.act = "ACCEPT" /\ r = Return(c, "source", Public)
    BY <1>3, <1>5, <1>11, WriteSetIn
  <2>2. Includes(t, s, pr) /\ AddrMatches(b, Public, x)
    BY <1>10, <2>1
  <2>3. x = PublicHost
    BY <2>2 DEF AddrMatches, Public
  <2>4. Covers(pol.tgt, x)
    BY <1>11, <2>3 DEF Covers, Special
  <2> QED BY <1>9, <2>1, <2>2, <2>4
<1>12. CASE UsesSet(d, q, pol.tgt) /\ r \in set
  <2>1. PICK c \in clauses : pol.act = "ACCEPT" /\ r = Return(c, "source", GroupSet(pol.tgt.id))
    BY <1>3, <1>5, <1>12, WriteSetIn
  <2>2. Includes(t, s, pr) /\ AddrMatches(b, GroupSet(pol.tgt.id), x)
    BY <1>10, <2>1
  <2>3. Covers(pol.tgt, x)
    BY <1>12, <2>2, SetCovers
  <2> QED BY <1>9, <2>1, <2>2, <2>3
<1>13. CASE tgt.ok /\ r \in cidr.val
  <2>1. pol.act = "ACCEPT" /\ \E c \in clauses : \E a : /\ a \in tgt.val \/ (mcast /\ a = AnyIP)
                                                       /\ r = Return(c, "source", CIDR(a))
    <3> HIDE DEF clauses, tgt, mcast
    <3> QED BY <1>3, <1>5, <1>13, WriteIn
  <2>2. PICK c \in clauses : \E a : /\ a \in tgt.val \/ (mcast /\ a = AnyIP)
                                    /\ r = Return(c, "source", CIDR(a))
    BY <2>1, Zenon
  <2>3. PICK a : (a \in tgt.val \/ (mcast /\ a = AnyIP)) /\ r = Return(c, "source", CIDR(a))
    BY <2>2, Zenon
  <2>4. Includes(t, s, pr) /\ AddrMatches(b, CIDR(a), x)
    BY <1>10, <2>3
  <2>5. a \in {AnyIP, x}
    BY <2>4 DEF AddrMatches, CIDR
  <2>6. CASE mcast
    BY <1>9, <2>1, <2>4, <2>6 DEF Covers, Special
  <2>7. CASE a \in tgt.val
    <3>1. Covers(pol.tgt, x)
      BY <1>3, <1>13, <2>5, <2>7, ResolvedCovers
    <3> QED BY <1>9, <2>1, <2>4, <3>1
  <2> QED BY <2>3, <2>6, <2>7
<1> QED BY <1>7, <1>11, <1>12, <1>13

(* Nothing else gets in, in every well-typed database.                     *)
LEMMA TypeOnlyRelated == TypeOK => OnlyRelated
<1> SUFFICES ASSUME TypeOK, \A p \in Peer : Unicast(d.peers[p].ip), NEW q \in Peer, Compile(d, q).ok,
                    NEW s \in DOMAIN d.services, NEW pr \in d.services[s].protos,
                    NEW x \in {d.peers[p].ip : p \in Peer} \cup {PublicHost},
                    NEW pkt \in {Request("INPUT", s, pr, x, d.peers[q].ip),
                                 Reply("INPUT", s, pr, x, d.peers[q].ip)},
                    "ACCEPT" \in Verdicts(Compile(d, q), pkt)
             PROVE  \E n \in LivePolicies :
                      LET pol == d.policies[n]
                          special == "special" \in {pol.src.type, pol.tgt.type}
                      IN  /\ pol.on /\ pol.act = "ACCEPT" /\ Includes(pol.svc, s, pr)
                          /\ \/ Has(d, pol.tgt, q) /\ Covers(pol.src, x)
                             \/ Has(d, pol.src, q) /\ Covers(pol.tgt, x)
                             \/ /\ special
                                /\ Has(d, pol.src, q) \/ Has(d, pol.tgt, q)
                                /\ Covers(pol.src, x) \/ Covers(pol.tgt, x)
  BY DEF OnlyRelated
<1>1. pr # "any"
  BY DEF TypeOK, IsTable, ServiceRow, Protocols
<1>2. pkt.chain = "INPUT" /\ pkt.dst = d.peers[q].ip /\ ~StandardRules(pkt)
  BY InPacket, NotControl
<1>3. PICK n \in LoadApplicablePolicies(d, q) :
         \E r \in SinglePolicy(d, q, d.policies[n]).val :
             r.act = "ACCEPT" /\ Matches(Compile(d, q), r, pkt)
  BY <1>2, VerdictFrom
<1> DEFINE pol == d.policies[n]
           ws == ScopeFlags(pol.scope, d.peers[q].docker)
<1>4. PICK r \in SinglePolicy(d, q, pol).val : r.act = "ACCEPT" /\ Matches(Compile(d, q), r, pkt)
  BY <1>3
<1>5. n \in LivePolicies /\ pol.on
  BY DEF LoadApplicablePolicies, Applicable, LivePolicies
<1>6. SinglePolicy(d, q, pol).ok
  BY BundleOf
<1>7. /\ pol.svc \in DOMAIN d.services
      /\ \/ r \in IGMPRules(ws) \/ r \in VRRPRules(ws)
         \/ r \in Ingress(d, q, pol).val \/ r \in Egress(d, q, pol).val
  BY <1>6, SingleForms DEF LiveService
<1>8. r \notin IGMPRules(ws) /\ r \notin VRRPRules(ws)
  BY <1>2, <1>4, FixedMiss
<1>9. CASE r \in Ingress(d, q, pol).val
  <2>1. pol.act = "ACCEPT" /\ IsTarget(d, pol, q) /\ Includes(pol.svc, s, pr) /\ Covers(pol.src, x)
    BY <1>1, <1>4, <1>7, <1>9, IngressRelated
  <2> QED BY <1>5, <2>1 DEF IsTarget
<1>10. CASE r \in Egress(d, q, pol).val
  <2>1. pol.act = "ACCEPT" /\ IsSource(d, pol, q) /\ Includes(pol.svc, s, pr) /\ Covers(pol.tgt, x)
    BY <1>1, <1>4, <1>7, <1>10, EgressRelated
  <2> QED BY <1>5, <2>1 DEF IsSource
<1> QED BY <1>7, <1>8, <1>9, <1>10

(* Nothing gets in that no policy accounts for: whatever was edited and    *)
(* rolled back, an INPUT packet of a service that a peer's rules accept is *)
(* explained by an enabled ACCEPT policy that names the peer.              *)
THEOREM OnlyRelatedGetsIn == Spec => []OnlyRelated
BY TypeCorrect, TypeOnlyRelated, PTL

-----------------------------------------------------------------------------
(***************************************************************************)
(* The preview shows what the compiler writes.  The preview makes its      *)
(* rules chain by chain and for all chains of the scope, the compiler for  *)
(* those the peer has: every rule of a set of chains is a rule of one.     *)
(***************************************************************************)
OneByOne(pol, clauses, more, rd, cidrs, ip, ws, all, tracked, mcast) ==
  /\ \A w : WriteRules(pol, more, rd, cidrs, ip, {w}, tracked, mcast).ok
  /\ \A r \in WriteRules(pol, clauses, rd, cidrs, ip, ws, tracked, mcast).val :
         \E w \in all : r \in WriteRules(pol, more, rd, cidrs, ip, {w}, tracked, mcast).val

(* That is so for addresses (and for more clauses).                        *)
LEMMA WriteOne ==
  ASSUME NEW pol, NEW clauses, NEW more, clauses \subseteq more, NEW rd, NEW cidrs, NEW ip,
         ip # AnyIP, NEW ws, NEW all, ws \subseteq all, all # {}, NEW tracked, NEW mcast
  PROVE  OneByOne(pol, clauses, more, rd, cidrs, ip, ws, all, tracked, mcast)
<1> DEFINE W(cl, s) == WriteRules(pol, cl, rd, cidrs, ip, s, tracked, mcast)
           A(cl, s) == BuildAcceptRules(cl, rd, cidrs, ip, s, tracked, mcast)
           addrs == {CIDR(a) : a \in FilterSelf(cidrs, ip)}
           L(cl, s) == BuildLogDropRules(cl, rd, addrs, s, pol.act)
<1> PICK w0 \in all : TRUE
  OBVIOUS
<1>1. \A cl, s : W(cl, s) = Gives(IF pol.act = "ACCEPT" THEN A(cl, s) ELSE L(cl, s))
  BY WriteIs
<1>2. \A cl, s : W(cl, s).ok /\ W(cl, s).val = IF pol.act = "ACCEPT" THEN A(cl, s) ELSE L(cl, s)
  <2> HIDE DEF W, A, L
  <2> QED BY <1>1 DEF Gives
<1>3. ASSUME NEW r \in A(clauses, ws) PROVE \E w \in all : r \in A(more, {w})
  <2>1. CASE \E c \in clauses : \E a \in FilterSelf(cidrs, ip) :
                 r \in Primary(c, rd, CIDR(a), ws, c.sp, "ACCEPT")
    <3>1. PICK c \in clauses, a \in FilterSelf(cidrs, ip) :
              r \in Primary(c, rd, CIDR(a), ws, c.sp, "ACCEPT")
      BY <2>1
    <3>2. PICK w \in ws : r \in Primary(c, rd, CIDR(a), {w}, c.sp, "ACCEPT")
      BY <3>1 DEF Primary
    <3> QED BY <3>1, <3>2, AcceptIs
  <2>2. CASE /\ rd = "target" /\ "host" \in ws
             /\ \E c \in clauses : \E a \in FilterSelf(cidrs, ip) : r = Return(c, rd, CIDR(a))
    <3>1. r \in A(more, {"host"})
      BY <2>2, AcceptIs
    <3> QED BY <2>2, <3>1
  <2>3. CASE /\ rd # "target"
             /\ \E c \in clauses : \E a \in FilterSelf(ReturnCIDRs(cidrs, mcast, tracked), ip) :
                    r = Return(c, rd, CIDR(a))
    <3>1. r \in A(more, {w0})
      BY <2>3, AcceptIs
    <3> QED BY <3>1
  <2>4. \/ \E c \in clauses : \E a \in FilterSelf(cidrs, ip) :
               r \in Primary(c, rd, CIDR(a), ws, c.sp, "ACCEPT")
        \/ /\ rd = "target" /\ "host" \in ws
           /\ \E c \in clauses : \E a \in FilterSelf(cidrs, ip) : r = Return(c, rd, CIDR(a))
        \/ /\ rd # "target"
           /\ \E c \in clauses : \E a \in FilterSelf(ReturnCIDRs(cidrs, mcast, tracked), ip) :
                  r = Return(c, rd, CIDR(a))
    BY <1>3, AcceptIs
  <2> QED BY <2>1, <2>2, <2>3, <2>4, Zenon
<1>4. ASSUME NEW r \in L(clauses, ws) PROVE \E w \in all : r \in L(more, {w})
  <2>1. PICK c \in clauses, a \in addrs : r \in Primary(c, rd, a, ws, NoPort, pol.act)
    <3> HIDE DEF addrs
    <3> QED BY <1>4, LogDropIs
  <2>2. PICK w \in ws : r \in Primary(c, rd, a, {w}, NoPort, pol.act)
    BY <2>1 DEF Primary
  <2> HIDE DEF addrs
  <2> QED BY <2>1, <2>2, LogDropIs
<1> HIDE DEF W, A, L
<1>5. \A r \in W(clauses, ws).val : \E w \in all : r \in W(more, {w}).val
  <2>1. CASE pol.act = "ACCEPT"
    <3>1. \A cl, s : W(cl, s).val = A(cl, s)
      BY <1>2, <2>1
    <3> QED BY <1>3, <3>1, Zenon
  <2>2. CASE pol.act # "ACCEPT"
    <3>1. \A cl, s : W(cl, s).val = L(cl, s)
      BY <1>2, <2>2
    <3> QED BY <1>4, <3>1, Zenon
  <2> QED BY <2>1, <2>2
<1> QED BY <1>2, <1>5 DEF W, OneByOne

(* It is so for traffic to the internet.                                   *)
LEMMA InternetOne ==
  ASSUME NEW pol, NEW clauses, NEW more, clauses \subseteq more, NEW ws, NEW all, ws \subseteq all,
         NEW r \in BuildInternetRules(pol, clauses, ws)
  PROVE  \E w \in all : r \in BuildInternetRules(pol, more, {w})
<1> DEFINE A(cl, s) == BuildAcceptSetRules(cl, "source", Public, s)
           L(cl, s) == BuildLogDropRules(cl, "source", {Public}, s, pol.act)
<1>1. \A cl, s : BuildInternetRules(pol, cl, s) = IF pol.act = "ACCEPT" THEN A(cl, s) ELSE L(cl, s)
  BY DEF BuildInternetRules, WriteSetRules
<1>2. ASSUME r \in A(clauses, ws) PROVE \E w \in all : r \in A(more, {w})
  <2>1. CASE \E c \in clauses : r \in Primary(c, "source", Public, ws, c.sp, "ACCEPT")
    <3>1. PICK c \in clauses : r \in Primary(c, "source", Public, ws, c.sp, "ACCEPT")
      BY <2>1
    <3>2. PICK w \in ws : r \in Primary(c, "source", Public, {w}, c.sp, "ACCEPT")
      BY <3>1 DEF Primary
    <3> QED BY <3>1, <3>2, AcceptSetIs
  <2>2. CASE "host" \in ws /\ \E c \in clauses : r = Return(c, "source", Public)
    <3>1. r \in A(more, {"host"})
      BY <2>2, AcceptSetIs
    <3> QED BY <2>2, <3>1
  <2>3. \/ \E c \in clauses : r \in Primary(c, "source", Public, ws, c.sp, "ACCEPT")
        \/ "host" \in ws /\ \E c \in clauses : r = Return(c, "source", Public)
    BY <1>2, AcceptSetIs
  <2> QED BY <2>1, <2>2, <2>3, Zenon
<1>3. ASSUME r \in L(clauses, ws) PROVE \E w \in all : r \in L(more, {w})
  <2>1. PICK c \in clauses : r \in Primary(c, "source", Public, ws, NoPort, pol.act)
    BY <1>3, LogDropIs
  <2>2. PICK w \in ws : r \in Primary(c, "source", Public, {w}, NoPort, pol.act)
    BY <2>1 DEF Primary
  <2> QED BY <2>1, <2>2, LogDropIs
<1> HIDE DEF A, L
<1> QED BY <1>1, <1>2, <1>3

(* It is so for the rules of the system services.                          *)
LEMMA FixedOne ==
  ASSUME NEW ws, NEW all, ws \subseteq all, NEW act, NEW r
  PROVE  /\ r \in IGMPRules(ws) => \E w \in all : r \in IGMPRules({w})
         /\ r \in VRRPRules(ws) => \E w \in all : r \in VRRPRules({w})
         /\ r \in MulticastRule(act, ws) => \E w \in all : r \in MulticastRule(act, {w})
         /\ r \in MulticastSend(ws) => \E w \in all : r \in MulticastSend({w})
         /\ r \in BroadcastRule(ws) => \E w \in all : r \in BroadcastRule({w})
BY DEF IGMPRules, VRRPRules, MulticastRule, MulticastSend, BroadcastRule

(* The parts of a preview, case by case.                                   *)
ForwardCases(e, p, pol, svc, clauses, w) ==
  LET F == PreviewForward(e, p, pol, svc, clauses, w)
      ip == e.peers[p].ip
      tgt == ResolveEntityCIDRs(e, pol.tgt, ip)
      mcast == Special(pol.tgt, MulticastIDs)
      net == Special(pol.tgt, {"internet"})
  IN  \/ svc.kind = "igmp" /\ F = Gives(IGMPRules({w}))
      \/ svc.kind = "vrrp" /\ F = Gives(VRRPRules({w}))
      \/ /\ svc.kind \notin {"igmp", "vrrp"}
         /\ \/ pol.dir \notin {"both", "forward"} /\ F = Gives({})
            \/ /\ pol.dir \in {"both", "forward"}
               /\ \/ svc.kind = "multicast" /\ mcast /\ F = Gives(MulticastSend({w}))
                  \/ /\ net
                     /\ F = IF ip \in {NoIP, SixIP} THEN Failed
                            ELSE Gives(BuildInternetRules(pol, clauses, {w}))
                  \/ /\ ~(svc.kind = "multicast" /\ mcast) /\ ~net
                     /\ F = IF ~tgt.ok THEN Failed
                            ELSE WriteRules(pol, clauses, "source", tgt.val, ip, {w},
                                            svc.ct, mcast)

(* The forward part is one of these.                                       *)
LEMMA ForwardForms ==
  ASSUME NEW e, NEW p, NEW pol, NEW svc, NEW clauses, NEW w
  PROVE  ForwardCases(e, p, pol, svc, clauses, w)
<1> DEFINE F == PreviewForward(e, p, pol, svc, clauses, w)
           ip == e.peers[p].ip
           tgt == ResolveEntityCIDRs(e, pol.tgt, ip)
           mcast == Special(pol.tgt, MulticastIDs)
           net == Special(pol.tgt, {"internet"})
           mc == svc.kind = "multicast"
           fwd == pol.dir \in {"both", "forward"}
           write == IF ~tgt.ok THEN Failed
                    ELSE WriteRules(pol, clauses, "source", tgt.val, ip, {w}, svc.ct, mcast)
           refuse == IF ip \in {NoIP, SixIP} THEN Failed
                     ELSE Gives(BuildInternetRules(pol, clauses, {w}))
           last == CASE mc /\ mcast -> Gives(MulticastSend({w}))
                     [] net -> refuse
                     [] OTHER -> write
           rest == CASE pol.dir \notin {"both", "forward"} -> Gives({}) [] OTHER -> last
<1>1. F = CASE svc.kind = "igmp" -> Gives(IGMPRules({w}))
            [] svc.kind = "vrrp" -> Gives(VRRPRules({w}))
            [] OTHER -> rest
  BY DEF PreviewForward
<1>2. ~(mcast /\ net)
  BY SpecialsApart
<1> HIDE DEF write, refuse, mcast, net, mc
<1>3. \/ mc /\ mcast /\ last = Gives(MulticastSend({w}))
      \/ net /\ last = refuse
      \/ ~(mc /\ mcast) /\ ~net /\ last = write
  BY <1>2
<1> HIDE DEF last
<1>4. \/ ~fwd /\ rest = Gives({})
      \/ fwd /\ rest = last
  OBVIOUS
<1> HIDE DEF rest, fwd
<1>5. \/ svc.kind = "igmp" /\ F = Gives(IGMPRules({w}))
      \/ svc.kind = "vrrp" /\ F = Gives(VRRPRules({w}))
      \/ svc.kind \notin {"igmp", "vrrp"} /\ F = rest
  BY <1>1
<1> HIDE DEF F
<1>6. \/ svc.kind = "igmp" /\ F = Gives(IGMPRules({w}))
      \/ svc.kind = "vrrp" /\ F = Gives(VRRPRules({w}))
      \/ /\ svc.kind \notin {"igmp", "vrrp"}
         /\ \/ ~fwd /\ F = Gives({})
            \/ /\ fwd
               /\ \/ mc /\ mcast /\ F = Gives(MulticastSend({w}))
                  \/ net /\ F = refuse
                  \/ ~(mc /\ mcast) /\ ~net /\ F = write
  BY <1>3, <1>4, <1>5
<1> QED BY <1>6, Zenon DEF ForwardCases, F, fwd, write, refuse, mcast, net, mc

(* The cases of the backward part, where the source resolves.              *)
BackwardCases(e, p, pol, svc, clauses, w) ==
  LET B == PreviewBackward(e, p, pol, svc, clauses, w)
      ip == e.peers[p].ip
      src == ResolveEntityCIDRs(e, pol.src, ip)
      mcast == Special(pol.src, MulticastIDs)
      bcast == Special(pol.src, BroadcastIDs)
      skip == svc.kind \in {"igmp", "vrrp"} \/ pol.dir \notin {"both", "backward"}
  IN  \/ skip /\ B = Gives({})
      \/ /\ ~skip
         /\ \/ mcast /\ svc.kind = "multicast" /\ B = Gives(MulticastRule("ACCEPT", {w}))
            \/ bcast /\ B = Gives(BroadcastRule({w}))
            \/ /\ ~(mcast /\ svc.kind = "multicast") /\ ~bcast
               /\ B = WriteRules(pol, clauses, "target", src.val, ip, {w}, svc.ct, FALSE)

(* The backward part is one of these.                                      *)
LEMMA BackwardForms ==
  ASSUME NEW e, NEW p, NEW pol, NEW svc, NEW clauses, NEW w,
         ResolveEntityCIDRs(e, pol.src, e.peers[p].ip).ok, ~Special(pol.src, {"internet"})
  PROVE  BackwardCases(e, p, pol, svc, clauses, w)
<1> DEFINE B == PreviewBackward(e, p, pol, svc, clauses, w)
           ip == e.peers[p].ip
           src == ResolveEntityCIDRs(e, pol.src, ip)
           mcast == Special(pol.src, MulticastIDs)
           bcast == Special(pol.src, BroadcastIDs)
           net == Special(pol.src, {"internet"})
           skip == svc.kind \in {"igmp", "vrrp"} \/ pol.dir \notin {"both", "backward"}
           mc == svc.kind = "multicast"
           write == WriteRules(pol, clauses, "target", src.val, ip, {w}, svc.ct, FALSE)
           last == CASE mcast /\ mc -> Gives(MulticastRule("ACCEPT", {w}))
                     [] bcast -> Gives(BroadcastRule({w}))
                     [] OTHER -> write
           rest == IF ~src.ok \/ net THEN Failed ELSE last
<1>1. B = CASE skip -> Gives({}) [] OTHER -> rest
  BY DEF PreviewBackward
<1>2. ~(mcast /\ bcast) /\ src.ok /\ ~net
  BY SpecialsApart
<1> HIDE DEF write, mcast, bcast, mc, src, net
<1>3. \/ mcast /\ mc /\ last = Gives(MulticastRule("ACCEPT", {w}))
      \/ bcast /\ last = Gives(BroadcastRule({w}))
      \/ ~(mcast /\ mc) /\ ~bcast /\ last = write
  BY <1>2
<1> HIDE DEF last
<1>4. rest = last
  BY <1>2
<1> HIDE DEF rest, skip
<1>5. \/ skip /\ B = Gives({})
      \/ ~skip /\ B = rest
  BY <1>1
<1> HIDE DEF B
<1>6. \/ skip /\ B = Gives({})
      \/ /\ ~skip
         /\ \/ mcast /\ mc /\ B = Gives(MulticastRule("ACCEPT", {w}))
            \/ bcast /\ B = Gives(BroadcastRule({w}))
            \/ ~(mcast /\ mc) /\ ~bcast /\ B = write
  BY <1>3, <1>4, <1>5
<1> QED BY <1>6, Zenon DEF BackwardCases, B, skip, write, mcast, bcast, mc, src

(* The internet resolves to nothing.                                       *)
LEMMA InternetFails ==
  ASSUME NEW e, NEW x, NEW ip, Special(x, {"internet"})
  PROVE  ~ResolveEntityCIDRs(e, x, ip).ok
<1>1. x.type = "special" /\ x.id = "internet"
  BY DEF Special
<1>2. x.ip = NoIP => ResolveEntityCIDRs(e, x, ip) = ResolveSpecialTarget(e, "internet", ip)
  BY <1>1 DEF ResolveEntityCIDRs
<1>3. x.ip # NoIP => ResolveEntityCIDRs(e, x, ip) = Failed
  BY <1>1 DEF ResolveEntityCIDRs
<1>4. ResolveSpecialTarget(e, "internet", ip) = Failed
  BY DEF ResolveSpecialTarget, MulticastIDs
<1> QED BY <1>2, <1>3, <1>4 DEF Failed

(* A preview of which every part is possible shows every part.             *)
LEMMA PreviewIs ==
  ASSUME NEW e, NEW p, NEW pol, NEW svc, svc = e.services[pol.svc], NEW clauses,
         clauses = IF svc.kind \in {"ports", "broadcast"} THEN ExpandPorts(pol.svc, svc) ELSE {},
         LiveService(e, pol.svc), ResolveEntityCIDRs(e, pol.src, e.peers[p].ip).ok,
         \/ ResolveEntityCIDRs(e, pol.tgt, e.peers[p].ip).ok
         \/ Special(pol.tgt, {"internet"}),
         \A w \in PreviewScopes(pol.scope) : /\ PreviewForward(e, p, pol, svc, clauses, w).ok
                                             /\ PreviewBackward(e, p, pol, svc, clauses, w).ok
  PROVE  /\ PreviewCompile(e, p, pol).ok
         /\ \A w \in PreviewScopes(pol.scope) :
                /\ PreviewForward(e, p, pol, svc, clauses, w).val \subseteq PreviewCompile(e, p, pol).val
                /\ PreviewBackward(e, p, pol, svc, clauses, w).val \subseteq PreviewCompile(e, p, pol).val
<1> DEFINE F(w) == PreviewForward(e, p, pol, svc, clauses, w)
           B(w) == PreviewBackward(e, p, pol, svc, clauses, w)
           ws == PreviewScopes(pol.scope)
           parts == {F(w) : w \in ws} \cup {B(w) : w \in ws}
           able == /\ LiveService(e, pol.svc) /\ ResolveEntityCIDRs(e, pol.src, e.peers[p].ip).ok
                   /\ \/ ResolveEntityCIDRs(e, pol.tgt, e.peers[p].ip).ok
                      \/ Special(pol.tgt, {"internet"})
<1>1. PreviewCompile(e, p, pol) =
         IF able /\ (\A r \in parts : r.ok) THEN Gives(UNION {r.val : r \in parts}) ELSE Failed
  BY DEF PreviewCompile
<1>2. able /\ \A r \in parts : r.ok
  <2> HIDE DEF F, B, ws
  <2> QED BY DEF F, B, ws
<1>3. \A w \in ws : F(w) \in parts /\ B(w) \in parts
  OBVIOUS
<1> HIDE DEF F, B, parts, able, ws
<1>4. PreviewCompile(e, p, pol) = Gives(UNION {r.val : r \in parts})
  BY <1>1, <1>2
<1>5. PreviewCompile(e, p, pol).ok /\ PreviewCompile(e, p, pol).val = UNION {r.val : r \in parts}
  BY <1>4 DEF Gives
<1>6. \A w \in ws : /\ F(w).val \subseteq PreviewCompile(e, p, pol).val
                    /\ B(w).val \subseteq PreviewCompile(e, p, pol).val
  BY <1>3, <1>5
<1> QED BY <1>5, <1>6 DEF F, B, ws

(* Every ingress rule of the bundle is in the backward part.               *)
LEMMA BackwardShows ==
  ASSUME NEW e, NEW p, NEW pol, NEW svc, svc.kind \notin {"igmp", "vrrp"},
         NEW clauses, NEW more, clauses \subseteq more,
         NEW ws, NEW all, ws \subseteq all, NEW w0 \in all,
         ~e.peers[p].ipset, e.peers[p].ip # AnyIP,
         ResolveEntityCIDRs(e, pol.src, e.peers[p].ip).ok,
         svc.kind = "multicast" \/ Special(pol.src, MulticastIDs) =>
            \/ svc.kind = "multicast" /\ Special(pol.src, MulticastIDs) /\ pol.act = "ACCEPT"
            \/ Special(pol.tgt, MulticastIDs),
         NEW r \in TargetSection(e, p, pol, svc, clauses, ws).val
  PROVE  \E w \in all : r \in PreviewBackward(e, p, pol, svc, more, w).val
<1> DEFINE T == TargetSection(e, p, pol, svc, clauses, ws)
           B(w) == PreviewBackward(e, p, pol, svc, more, w)
           ip == e.peers[p].ip
           src == ResolveEntityCIDRs(e, pol.src, ip)
           mcast == Special(pol.src, MulticastIDs)
           bcast == Special(pol.src, BroadcastIDs)
           mc == svc.kind = "multicast"
           W(cl, s) == WriteRules(pol, cl, "target", src.val, ip, s, svc.ct, FALSE)
<1>1. ~Special(pol.src, {"internet"}) /\ ~UsesSet(e, p, pol.src)
  BY InternetFails DEF UsesSet
<1>2. \/ TargetSkips(e, p, pol) /\ T = Gives({})
      \/ /\ ~TargetSkips(e, p, pol)
         /\ \/ mcast /\ T = Gives(MulticastRule(pol.act, ws))
            \/ bcast /\ T = IF src.ok THEN Gives(BroadcastRule(ws)) ELSE Failed
            \/ /\ ~mcast /\ ~bcast
               /\ T = IF ~src.ok THEN Failed
                      ELSE IF mc THEN Gives(MulticastRule(pol.act, ws)) ELSE W(clauses, ws)
  BY <1>1, TargetForms, Zenon
<1>3. ASSUME NEW w, pol.dir \in {"both", "backward"}
      PROVE  \/ mcast /\ mc /\ B(w) = Gives(MulticastRule("ACCEPT", {w}))
             \/ bcast /\ B(w) = Gives(BroadcastRule({w}))
             \/ ~(mcast /\ mc) /\ ~bcast /\ B(w) = W(more, {w})
  <2>1. BackwardCases(e, p, pol, svc, more, w)
    BY <1>1, BackwardForms
  <2>2. ~(svc.kind \in {"igmp", "vrrp"} \/ pol.dir \notin {"both", "backward"})
    BY <1>3
  <2> QED BY <2>1, <2>2, Zenon DEF BackwardCases
<1>4. ~(mcast /\ bcast) /\ (Special(pol.tgt, MulticastIDs) => TargetSkips(e, p, pol)) /\ src.ok
  BY SpecialsApart DEF TargetSkips
<1>5. (mc \/ mcast) => (mc /\ mcast /\ pol.act = "ACCEPT") \/ Special(pol.tgt, MulticastIDs)
  OBVIOUS
<1>6. r \in W(clauses, ws).val => \E w \in all : r \in W(more, {w}).val
  <2>1. \A cs, k, m : OneByOne(pol, clauses, more, "target", cs, ip, ws, all, k, m)
    BY WriteOne
  <2>2. OneByOne(pol, clauses, more, "target", src.val, ip, ws, all, svc.ct, FALSE)
    BY <2>1, Zenon
  <2> QED BY <2>2, Zenon DEF OneByOne
<1>7. r \in T.val
  OBVIOUS
<1>8. svc.kind \notin {"igmp", "vrrp"}
  OBVIOUS
<1>9. ~TargetSkips(e, p, pol) => pol.dir \in {"both", "backward"}
  BY DEF TargetSkips
<1> HIDE DEF T, B, mcast, bcast, mc, W, src
<1>10. ~TargetSkips(e, p, pol)
  BY <1>2, <1>7 DEF Gives
<1>11. CASE mcast
  <2>1. mc /\ pol.act = "ACCEPT"
    BY <1>4, <1>5, <1>10, <1>11
  <2>2. r \in MulticastRule("ACCEPT", ws)
    BY <1>2, <1>4, <1>7, <1>10, <1>11, <2>1 DEF Gives
  <2>3. PICK w \in all : r \in MulticastRule("ACCEPT", {w})
    BY <2>2, FixedOne
  <2>4. B(w) = Gives(MulticastRule("ACCEPT", {w}))
    BY <1>3, <1>4, <1>8, <1>9, <1>10, <1>11, <2>1
  <2>5. r \in B(w).val
    BY <2>3, <2>4 DEF Gives
  <2> QED BY <2>5 DEF B
<1>12. CASE bcast
  <2>2. r \in BroadcastRule(ws)
    BY <1>2, <1>4, <1>7, <1>10, <1>12 DEF Gives
  <2>3. PICK w \in all : r \in BroadcastRule({w})
    BY <2>2, FixedOne
  <2>4. B(w) = Gives(BroadcastRule({w}))
    BY <1>3, <1>4, <1>8, <1>9, <1>10, <1>12
  <2>5. r \in B(w).val
    BY <2>3, <2>4 DEF Gives
  <2> QED BY <2>5 DEF B
<1>13. CASE ~mcast /\ ~bcast
  <2>1. ~mc
    BY <1>4, <1>5, <1>10, <1>13
  <2>2. r \in W(clauses, ws).val
    BY <1>2, <1>4, <1>7, <1>10, <1>13, <2>1
  <2>3. PICK w \in all : r \in W(more, {w}).val
    BY <1>6, <2>2
  <2>4. B(w) = W(more, {w})
    BY <1>3, <1>8, <1>9, <1>10, <1>13
  <2>5. r \in B(w).val
    BY <2>3, <2>4
  <2> QED BY <2>5 DEF B
<1> QED BY <1>11, <1>12, <1>13

(* Every egress rule is in the forward part.                               *)
LEMMA ForwardShows ==
  ASSUME NEW e, NEW p, NEW pol, NEW svc, svc.kind \notin {"igmp", "vrrp"},
         NEW clauses, NEW more, clauses \subseteq more,
         NEW ws, NEW all, ws \subseteq all, NEW w0 \in all,
         ~e.peers[p].ipset, e.peers[p].ip # AnyIP,
         NEW r \in SourceSection(e, p, pol, svc, clauses, ws).val
  PROVE  \E w \in all : r \in PreviewForward(e, p, pol, svc, more, w).val
<1> DEFINE T == SourceSection(e, p, pol, svc, clauses, ws)
           F(w) == PreviewForward(e, p, pol, svc, more, w)
           ip == e.peers[p].ip
           none == ip \in {NoIP, SixIP}
           tgt == ResolveEntityCIDRs(e, pol.tgt, ip)
           mcast == Special(pol.tgt, MulticastIDs)
           net == Special(pol.tgt, {"internet"})
           mc == svc.kind = "multicast"
           send == IF mcast /\ pol.act = "ACCEPT" THEN MulticastSend(ws) ELSE {}
           I(cl, s) == BuildInternetRules(pol, cl, s)
           W(cl, s) == WriteRules(pol, cl, "source", tgt.val, ip, s, svc.ct, mcast)
<1>1. ~UsesSet(e, p, pol.tgt)
  BY DEF UsesSet
<1>2. \/ SourceSkips(e, p, pol) /\ T = Gives({})
      \/ /\ ~SourceSkips(e, p, pol)
         /\ \/ net /\ T = IF none THEN Failed ELSE Gives(I(clauses, ws))
            \/ ~net /\ T = IF ~tgt.ok THEN Failed ELSE IF mc THEN Gives(send) ELSE W(clauses, ws)
  <2> HIDE DEF T, tgt, mcast, net, send, W, I, none
  <2> QED BY <1>1, SourceForms DEF T, tgt, mcast, net, send, W, I, none
<1>3. ASSUME NEW w, pol.dir \in {"both", "forward"}
      PROVE  \/ mc /\ mcast /\ F(w) = Gives(MulticastSend({w}))
             \/ net /\ F(w) = IF none THEN Failed ELSE Gives(I(more, {w}))
             \/ ~(mc /\ mcast) /\ ~net /\ F(w) = IF ~tgt.ok THEN Failed ELSE W(more, {w})
  <2>1. ForwardCases(e, p, pol, svc, more, w)
    BY ForwardForms
  <2>2. svc.kind # "igmp" /\ svc.kind # "vrrp" /\ ~(pol.dir \notin {"both", "forward"})
    BY <1>3
  <2> QED BY <2>1, <2>2, Zenon DEF ForwardCases
<1>4. ~(mcast /\ net)
  BY SpecialsApart
<1>5. \A x \in W(clauses, ws).val : \E w \in all : x \in W(more, {w}).val
  <2>1. OneByOne(pol, clauses, more, "source", tgt.val, ip, ws, all, svc.ct, mcast)
    BY WriteOne
  <2> QED BY <2>1, Zenon DEF OneByOne
<1>6. r \in I(clauses, ws) => \E w \in all : r \in I(more, {w})
  BY InternetOne, ZenonT(60)
<1>7. r \in T.val
  OBVIOUS
<1>8. ~SourceSkips(e, p, pol) => pol.dir \in {"both", "forward"}
  BY DEF SourceSkips
<1> HIDE DEF T, F, mcast, net, mc, W, I, tgt, none
<1>9. ~SourceSkips(e, p, pol)
  BY <1>2, <1>7 DEF Gives
<1>10. CASE net
  <2>1. ~none /\ r \in I(clauses, ws)
    BY <1>2, <1>7, <1>9, <1>10 DEF Gives, Failed
  <2>2. PICK w \in all : r \in I(more, {w})
    BY <1>6, <2>1
  <2>3. F(w) = Gives(I(more, {w}))
    BY <1>3, <1>4, <1>8, <1>9, <1>10, <2>1
  <2>4. r \in F(w).val
    BY <2>2, <2>3 DEF Gives
  <2> QED BY <2>4 DEF F
<1>11. CASE ~net /\ mc
  <2>1. mcast /\ r \in MulticastSend(ws)
    BY <1>2, <1>7, <1>9, <1>11 DEF Gives, Failed
  <2>2. PICK w \in all : r \in MulticastSend({w})
    BY <2>1, FixedOne
  <2>3. F(w) = Gives(MulticastSend({w}))
    BY <1>3, <1>8, <1>9, <1>11, <2>1
  <2>4. r \in F(w).val
    BY <2>2, <2>3 DEF Gives
  <2> QED BY <2>4 DEF F
<1>12. CASE ~net /\ ~mc
  <2>1. tgt.ok /\ r \in W(clauses, ws).val
    BY <1>2, <1>7, <1>9, <1>12 DEF Failed
  <2>2. PICK w \in all : r \in W(more, {w}).val
    BY <1>5, <2>1
  <2>3. F(w) = W(more, {w})
    BY <1>3, <1>8, <1>9, <1>12, <2>1
  <2>4. r \in F(w).val
    BY <2>2, <2>3
  <2> QED BY <2>4 DEF F
<1> QED BY <1>10, <1>11, <1>12

(* No part of the preview is refused that the compiler would not refuse.   *)
LEMMA PartsOk ==
  ASSUME NEW e, NEW p, NEW pol, NEW svc, NEW clauses, NEW w, e.peers[p].ip # AnyIP,
         ResolveEntityCIDRs(e, pol.src, e.peers[p].ip).ok,
         \/ ResolveEntityCIDRs(e, pol.tgt, e.peers[p].ip).ok
         \/ Special(pol.tgt, {"internet"}),
         (/\ Special(pol.tgt, {"internet"}) /\ svc.kind \notin {"igmp", "vrrp"}
          /\ pol.dir \in {"both", "forward"}) => e.peers[p].ip \notin {NoIP, SixIP}
  PROVE  /\ PreviewForward(e, p, pol, svc, clauses, w).ok
         /\ PreviewBackward(e, p, pol, svc, clauses, w).ok
<1> DEFINE ip == e.peers[p].ip
           src == ResolveEntityCIDRs(e, pol.src, ip)
           tgt == ResolveEntityCIDRs(e, pol.tgt, ip)
           mcast == Special(pol.tgt, MulticastIDs)
           net == Special(pol.tgt, {"internet"})
           F == PreviewForward(e, p, pol, svc, clauses, w)
           B == PreviewBackward(e, p, pol, svc, clauses, w)
           out == WriteRules(pol, clauses, "source", tgt.val, ip, {w}, svc.ct, mcast)
           in == WriteRules(pol, clauses, "target", src.val, ip, {w}, svc.ct, FALSE)
<1>1. out.ok /\ in.ok
  <2>1. \A rd, cs, k, m : WriteRules(pol, clauses, rd, cs, ip, {w}, k, m).ok
    BY WriteIs DEF Gives
  <2> QED BY <2>1, Zenon
<1>2. ~Special(pol.src, {"internet"})
  BY InternetFails
<1>3. \A v : Gives(v).ok
  BY DEF Gives
<1>4. F.ok
  <2>1. ForwardCases(e, p, pol, svc, clauses, w)
    BY ForwardForms
  <2> DEFINE none == ip \in {NoIP, SixIP}
             fwd == pol.dir \in {"both", "forward"}
             sys == svc.kind \in {"igmp", "vrrp"}
             refuse == IF none THEN Failed ELSE Gives(BuildInternetRules(pol, clauses, {w}))
  <2>2. \/ \E v : F = Gives(v)
        \/ ~sys /\ fwd /\ net /\ F = refuse
        \/ ~net /\ F = IF ~tgt.ok THEN Failed ELSE out
    BY <2>1, Zenon DEF ForwardCases
  <2>3. /\ (net /\ ~sys /\ fwd) => ~none
        /\ tgt.ok \/ net
    OBVIOUS
  <2> HIDE DEF F, out, tgt, net, sys, fwd, none
  <2> QED BY <1>1, <1>3, <2>2, <2>3
<1>5. B.ok
  <2>1. BackwardCases(e, p, pol, svc, clauses, w)
    BY <1>2, BackwardForms
  <2>2. (\E v : B = Gives(v)) \/ B = in
    BY <2>1, Zenon DEF BackwardCases
  <2> HIDE DEF B, in
  <2> QED BY <1>1, <1>3, <2>2
<1> QED BY <1>4, <1>5

(* The preview shows everything, in every well-typed database.             *)
LEMMA TypePreview == TypeOK => PreviewShowsAll
<1> SUFFICES ASSUME TypeOK, NEW n \in LivePolicies, NEW p \in Peer,
                    n \in LoadApplicablePolicies(d, p), Compile(d, p).ok,
                    ~d.peers[p].ipset, d.peers[p].ip # AnyIP, MulticastShown(d.policies[n]),
                    ResolveEntityCIDRs(d, d.policies[n].src, d.peers[p].ip).ok,
                    \/ ResolveEntityCIDRs(d, d.policies[n].tgt, d.peers[p].ip).ok
                    \/ Special(d.policies[n].tgt, {"internet"})
             PROVE  /\ PreviewCompile(d, p, d.policies[n]).ok
                    /\ Compile(d, p).rules[n] \subseteq PreviewCompile(d, p, d.policies[n]).val
  BY DEF PreviewShowsAll
<1> DEFINE pol == d.policies[n]
           svc == d.services[pol.svc]
           ip == d.peers[p].ip
           clauses == ClausesOf(d, pol)
           more == IF svc.kind \in {"ports", "broadcast"} THEN ExpandPorts(pol.svc, svc) ELSE {}
           ws == ScopeFlags(pol.scope, d.peers[p].docker)
           all == PreviewScopes(pol.scope)
           V == PreviewCompile(d, p, pol).val
<1>1. /\ SinglePolicy(d, p, pol).ok
      /\ Compile(d, p).rules[n] = SinglePolicy(d, p, pol).val
  BY BundleOf
<1>2. pol.scope \in {"host", "docker", "both"}
  BY DEF TypeOK, IsTable, LivePolicies, PolicyRow
<1>3. PICK w0 \in all : ws \subseteq all
  BY <1>2 DEF PreviewScopes, ScopeFlags
<1>4. clauses \subseteq more
  BY DEF ClausesOf
<1>5. LiveService(d, pol.svc)
  BY <1>1, SingleForms
<1>6. ASSUME Special(pol.tgt, {"internet"}), svc.kind \notin {"igmp", "vrrp"},
             pol.dir \in {"both", "forward"}
      PROVE  ip \notin {NoIP, SixIP}
  <2>1. Egress(d, p, pol).ok
    BY <1>1, <1>6, SingleForms
  <2>2. IsSource(d, pol, p)
    BY <1>6 DEF LoadApplicablePolicies, Applicable, Has, Special, IsSource
  <2>3. ~SourceSkips(d, p, pol) /\ ~UsesSet(d, p, pol.tgt)
    BY <1>6, <2>2 DEF SourceSkips, UsesSet
  <2>4. Egress(d, p, pol) = IF ip \in {NoIP, SixIP} THEN Failed
                            ELSE Gives(BuildInternetRules(pol, clauses, ws))
    BY <1>6, <2>3, SourceForms DEF Egress
  <2> QED BY <2>1, <2>4 DEF Failed
<1>7. \A w \in all : /\ PreviewForward(d, p, pol, svc, more, w).ok
                     /\ PreviewBackward(d, p, pol, svc, more, w).ok
  <2>1. (/\ Special(pol.tgt, {"internet"}) /\ svc.kind \notin {"igmp", "vrrp"}
         /\ pol.dir \in {"both", "forward"}) => ip \notin {NoIP, SixIP}
    BY <1>6
  <2>2. ResolveEntityCIDRs(d, pol.tgt, ip).ok \/ Special(pol.tgt, {"internet"})
    OBVIOUS
  <2>3. ResolveEntityCIDRs(d, pol.src, ip).ok /\ ip # AnyIP
    OBVIOUS
  <2> HIDE DEF more, all, svc, pol
  <2> QED BY <2>1, <2>2, <2>3, PartsOk
<1>8. /\ PreviewCompile(d, p, pol).ok
      /\ \A w \in all : /\ PreviewForward(d, p, pol, svc, more, w).val \subseteq V
                        /\ PreviewBackward(d, p, pol, svc, more, w).val \subseteq V
  <2>1. svc = d.services[pol.svc]
    OBVIOUS
  <2>2. more = IF svc.kind \in {"ports", "broadcast"} THEN ExpandPorts(pol.svc, svc) ELSE {}
    OBVIOUS
  <2> HIDE DEF more, svc
  <2> QED BY <1>5, <1>7, <2>1, <2>2, PreviewIs
<1>9. ASSUME NEW r \in SinglePolicy(d, p, pol).val PROVE r \in V
  <2>1. CASE svc.kind = "igmp"
    <3>1. r \in IGMPRules(ws)
      BY <1>1, <1>9, <2>1, SingleForms
    <3>2. PICK w \in all : r \in IGMPRules({w})
      BY <1>3, <3>1, FixedOne
    <3>3. ForwardCases(d, p, pol, svc, more, w)
      BY ForwardForms
    <3>4. PreviewForward(d, p, pol, svc, more, w) = Gives(IGMPRules({w}))
      <4> HIDE DEF more
      <4> QED BY <2>1, <3>3 DEF ForwardCases
    <3> HIDE DEF more, all, svc, V
    <3>5. r \in PreviewForward(d, p, pol, svc, more, w).val
      BY <3>2, <3>4 DEF Gives
    <3> QED BY <1>8, <3>5
  <2>2. CASE svc.kind = "vrrp"
    <3>1. r \in VRRPRules(ws)
      BY <1>1, <1>9, <2>2, SingleForms
    <3>2. PICK w \in all : r \in VRRPRules({w})
      BY <1>3, <3>1, FixedOne
    <3>3. ForwardCases(d, p, pol, svc, more, w)
      BY ForwardForms
    <3>4. PreviewForward(d, p, pol, svc, more, w) = Gives(VRRPRules({w}))
      <4> HIDE DEF more
      <4> QED BY <2>2, <3>3 DEF ForwardCases
    <3> HIDE DEF more, all, svc, V
    <3>5. r \in PreviewForward(d, p, pol, svc, more, w).val
      BY <3>2, <3>4 DEF Gives
    <3> QED BY <1>8, <3>5
  <2>3. CASE svc.kind \notin {"igmp", "vrrp"} /\ r \in Ingress(d, p, pol).val
    <3>1. svc.kind = "multicast" \/ Special(pol.src, MulticastIDs) =>
            \/ svc.kind = "multicast" /\ Special(pol.src, MulticastIDs) /\ pol.act = "ACCEPT"
            \/ Special(pol.tgt, MulticastIDs)
      BY DEF MulticastShown
    <3>2. r \in TargetSection(d, p, pol, svc, clauses, ws).val
      BY <2>3 DEF Ingress
    <3>3. PICK w \in all : r \in PreviewBackward(d, p, pol, svc, more, w).val
      <4> HIDE DEF clauses, more, ws, all, svc
      <4> QED BY <1>3, <1>4, <2>3, <3>1, <3>2, BackwardShows
    <3> QED BY <1>8, <3>3
  <2>4. CASE svc.kind \notin {"igmp", "vrrp"} /\ r \in Egress(d, p, pol).val
    <3>1. r \in SourceSection(d, p, pol, svc, clauses, ws).val
      BY <2>4 DEF Egress
    <3>2. PICK w \in all : r \in PreviewForward(d, p, pol, svc, more, w).val
      <4> HIDE DEF clauses, more, ws, all, svc
      <4> QED BY <1>3, <1>4, <2>4, <3>1, ForwardShows
    <3> QED BY <1>8, <3>2
  <2> QED BY <1>1, <1>9, <2>1, <2>2, <2>3, <2>4, SingleForms
<1> QED BY <1>1, <1>8, <1>9

(* The preview of a policy for a peer without group sets shows every rule  *)
(* the policy has in the peer's bundle, in every reachable state, for      *)
(* policies whose ends resolve and with the exception of multicast that    *)
(* MulticastShown states (PreviewCompile against Compile in compiler.go).  *)
THEOREM PreviewComplete == Spec => []PreviewShowsAll
BY TypeCorrect, TypePreview, PTL

-----------------------------------------------------------------------------
(***************************************************************************)
(* What can be edited and compiled.  Undoing every snapshot leads back to  *)
(* the tables as they were at the last cleanup: an edit never changes      *)
(* where that is.  The invariant speaks about the present and about it.    *)
(***************************************************************************)
Snaps == {snaps[i] : i \in DOMAIN snaps}

(* A policy's service and groups are there.                                *)
Grounded(db, row) ==
  /\ LiveService(db, row.svc)
  /\ \A e \in {row.src, row.tgt} : e.type = "group" => LiveGroup(db, e.id)

(* Those of all live policies are.                                         *)
AllGrounded(db) ==
  \A n \in DOMAIN db.policies : ~db.policies[n].del => Grounded(db, db.policies[n])

(* No live policy refers to a service, group or peer that is gone.         *)
NothingDangling ==
  \A n \in LivePolicies : ~Dangling(d, d.policies[n])

(* Groups, services and entities with a snapshot have ids that were given  *)
(* out, so that what is created is new.                                    *)
IdsGiven ==
  /\ \A g \in DOMAIN d.groups : <<"group", g>> \in used
  /\ \A s \in DOMAIN d.services : <<"service", s>> \in used
  /\ \A s \in Snaps : s.ent \in used

(* The inductive invariant: nothing dangles now, and nothing but           *)
(* references to deleted peers would dangle after a rollback of            *)
(* everything, as long as no change was approved alone.                    *)
BaseInv ==
  ~forced => IdsGiven /\ NothingDangling /\ (partial \/ AllGrounded(RolledBack(d, Snaps)))

(* The snapshots of an entity, whether the undone table has its row, and   *)
(* which.                                                                  *)
OfEntity(S, kind, k) == {s \in S : s.ent = <<kind, k>>}
OneOf(S) == CHOOSE s \in S : TRUE
UndoneIn(kind, rows, S, k) ==
  k \in DOMAIN rows /\ \A s \in S : s.ent = <<kind, k>> => s.action # "create"
UndoneRow(kind, rows, S, k) ==
  IF OfEntity(S, kind, k) = {} THEN rows[k] ELSE OneOf(OfEntity(S, kind, k)).row

(* A table with snapshots undone, by these three.                          *)
LEMMA UndoneIs ==
  ASSUME NEW kind, NEW rows, NEW S
  PROVE  RolledBackRows(kind, rows, S) =
            [k \in {x \in DOMAIN rows : UndoneIn(kind, rows, S, x)} |-> UndoneRow(kind, rows, S, k)]
<1> DEFINE of(k) == {s \in S : s.ent = <<kind, k>>}
           A == {x \in DOMAIN rows : \A s \in of(x) : s.action # "create"}
           B == {x \in DOMAIN rows : UndoneIn(kind, rows, S, x)}
<1>1. A = B
  BY DEF UndoneIn
<1>2. RolledBackRows(kind, rows, S) = [k \in A |-> UndoneRow(kind, rows, S, k)]
  BY DEF RolledBackRows, UndoneRow, OfEntity, OneOf
<1> HIDE DEF A, B
<1>3. RolledBackRows(kind, rows, S) = [k \in B |-> UndoneRow(kind, rows, S, k)]
  BY <1>1, <1>2
<1> QED BY <1>3 DEF B

(* Two tables that are the same once undone, row by row.                   *)
LEMMA UndoneSame ==
  ASSUME NEW kind, NEW rows, NEW S, NEW new, NEW T,
         \A k : UndoneIn(kind, rows, S, k) <=> UndoneIn(kind, new, T, k),
         \A k : UndoneIn(kind, rows, S, k) => UndoneRow(kind, rows, S, k) = UndoneRow(kind, new, T, k)
  PROVE  RolledBackRows(kind, rows, S) = RolledBackRows(kind, new, T)
<1> DEFINE A == {x \in DOMAIN rows : UndoneIn(kind, rows, S, x)}
           B == {x \in DOMAIN new : UndoneIn(kind, new, T, x)}
<1>1. A = B
  BY DEF UndoneIn
<1>2. \A k \in A : UndoneRow(kind, rows, S, k) = UndoneRow(kind, new, T, k)
  OBVIOUS
<1>3. /\ RolledBackRows(kind, rows, S) = [k \in A |-> UndoneRow(kind, rows, S, k)]
      /\ RolledBackRows(kind, new, T) = [k \in B |-> UndoneRow(kind, new, T, k)]
  BY UndoneIs
<1> HIDE DEF A, B
<1> QED BY <1>1, <1>2, <1>3

(* Nothing to undo.                                                        *)
LEMMA UndoneNone ==
  ASSUME NEW kind, NEW rows, NEW ids, NEW T, IsTable(rows, ids, T)
  PROVE  RolledBackRows(kind, rows, {}) = rows
<1>1. \A k : UndoneIn(kind, rows, {}, k) <=> k \in DOMAIN rows
  BY DEF UndoneIn
<1>2. \A k : UndoneRow(kind, rows, {}, k) = rows[k]
  BY DEF UndoneRow, OfEntity
<1>3. RolledBackRows(kind, rows, {}) = [k \in DOMAIN rows |-> rows[k]]
  BY <1>1, <1>2, UndoneIs
<1> QED BY <1>3 DEF IsTable

(* A snapshot of another kind of entity.                                   *)
LEMMA UndoneOther ==
  ASSUME NEW kind, NEW rows, NEW S, NEW T,
         \A s : s.ent[1] = kind => (s \in S <=> s \in T)
  PROVE  RolledBackRows(kind, rows, S) = RolledBackRows(kind, rows, T)
<1>1. \A k : OfEntity(S, kind, k) = OfEntity(T, kind, k)
  BY DEF OfEntity
<1>2. \A k : UndoneIn(kind, rows, S, k) <=> UndoneIn(kind, rows, T, k)
  BY <1>1 DEF UndoneIn, OfEntity
<1>3. \A k : UndoneRow(kind, rows, S, k) = UndoneRow(kind, rows, T, k)
  BY <1>1 DEF UndoneRow
<1> QED BY <1>2, <1>3, UndoneSame

(* A row is new, or the snapshot of the change holds what it was.          *)
Recorded(kind, k, action, row, rows, new) ==
  /\ DOMAIN rows \ {k} = DOMAIN new \ {k} /\ \A x \in DOMAIN rows \ {k} : rows[x] = new[x]
  /\ k \in DOMAIN new
  /\ \/ /\ action = "create" /\ k \notin DOMAIN rows
        /\ \A s \in Snaps : s.ent # <<kind, k>>
     \/ action # "create" /\ k \in DOMAIN rows /\ row = rows[k]

(* A change of one row with its snapshot.                                  *)
LEMMA UndoneEdit ==
  ASSUME snaps \in Seq(SnapshotRow), NEW kind, NEW k, NEW action, NEW row, NEW members,
         Snapshot(<<kind, k>>, action, row, members), NEW rows, NEW new,
         Recorded(kind, k, action, row, rows, new)
  PROVE  /\ RolledBackRows(kind, new, Snaps') = RolledBackRows(kind, rows, Snaps)
         /\ \A other, t : other # kind =>
                RolledBackRows(other, t, Snaps') = RolledBackRows(other, t, Snaps)
         /\ \A s \in Snaps' : s \in Snaps \/ s.ent = <<kind, k>>
<1>0. /\ DOMAIN rows \ {k} = DOMAIN new \ {k} /\ \A x \in DOMAIN rows \ {k} : rows[x] = new[x]
      /\ k \in DOMAIN new
      /\ \/ /\ action = "create" /\ k \notin DOMAIN rows
            /\ \A s \in Snaps : s.ent # <<kind, k>>
         \/ action # "create" /\ k \in DOMAIN rows /\ row = rows[k]
  BY DEF Recorded
<1> DEFINE fresh == [ent |-> <<kind, k>>, action |-> action, row |-> row, members |-> members]
           old == \E s \in Snaps : s.ent = <<kind, k>>
<1>1. old <=> \E i \in DOMAIN snaps : snaps[i].ent = <<kind, k>>
  BY DEF Snaps
<1>2. Snaps' = IF old THEN Snaps ELSE Snaps \cup {fresh}
  <2>1. CASE old
    <3>1. snaps' = snaps
      BY <1>1, <2>1 DEF Snapshot
    <3> QED BY <2>1, <3>1 DEF Snaps
  <2>2. CASE ~old
    <3>1. snaps' = Append(snaps, fresh)
      BY <1>1, <2>2 DEF Snapshot
    <3> HIDE DEF fresh
    <3>2. DOMAIN snaps' = 1..(Len(snaps) + 1) /\ DOMAIN snaps = 1..Len(snaps) /\ Len(snaps) \in Nat
      BY <3>1
    <3>3. \A i \in 1..Len(snaps) : snaps'[i] = snaps[i]
      BY <3>1
    <3>4. snaps'[Len(snaps) + 1] = fresh
      BY <3>1
    <3>5. {snaps'[i] : i \in DOMAIN snaps'} = {snaps[i] : i \in DOMAIN snaps} \cup {fresh}
      BY <3>2, <3>3, <3>4
    <3> HIDE DEF old
    <3> QED BY <2>2, <3>5 DEF Snaps
  <2> QED BY <2>1, <2>2
<1>3. fresh.ent = <<kind, k>> /\ fresh.action = action /\ fresh.row = row
  OBVIOUS
<1> DEFINE S == Snaps
           T == Snaps'
<1>4. S \subseteq T /\ \A s \in T : s \in S \/ s = fresh
  BY <1>2
<1>5. \A x : x # k => OfEntity(S, kind, x) = OfEntity(T, kind, x)
  BY <1>3, <1>4 DEF OfEntity
<1>6. ASSUME NEW other, NEW t, other # kind
      PROVE  RolledBackRows(other, t, T) = RolledBackRows(other, t, S)
  <2>1. \A s : s.ent[1] = other => (s \in S <=> s \in T)
    BY <1>3, <1>4, <1>6
  <2> HIDE DEF S, T
  <2> QED BY <2>1, UndoneOther
<1>7. CASE old
  <2>1. T = S /\ k \in DOMAIN rows /\ OfEntity(S, kind, k) # {}
    BY <1>0, <1>2, <1>7 DEF OfEntity
  <2> HIDE DEF S, T, old
  <2>2. \A x : UndoneIn(kind, rows, S, x) <=> UndoneIn(kind, new, T, x)
    BY <1>0, <2>1 DEF UndoneIn, OfEntity
  <2>3. \A x \in DOMAIN rows : UndoneRow(kind, rows, S, x) = UndoneRow(kind, new, T, x)
    BY <1>0, <2>1 DEF UndoneRow
  <2>4. RolledBackRows(kind, rows, S) = RolledBackRows(kind, new, T)
    <3>1. \A x : UndoneIn(kind, rows, S, x) => UndoneRow(kind, rows, S, x) = UndoneRow(kind, new, T, x)
      BY <2>3 DEF UndoneIn
    <3> QED BY <2>2, <3>1, UndoneSame
  <2> QED BY <1>3, <1>4, <1>6, <2>4 DEF S, T
<1>8. CASE ~old
  <2>1. OfEntity(S, kind, k) = {} /\ OfEntity(T, kind, k) = {fresh}
    BY <1>2, <1>3, <1>8 DEF OfEntity
  <2> HIDE DEF S, T, old, fresh
  <2>2. UndoneIn(kind, new, T, k) <=> action # "create"
    BY <1>0, <1>3, <2>1 DEF UndoneIn, OfEntity
  <2>3. UndoneIn(kind, rows, S, k) <=> k \in DOMAIN rows
    BY <2>1 DEF UndoneIn, OfEntity
  <2>4. \A x : UndoneIn(kind, rows, S, x) <=> UndoneIn(kind, new, T, x)
    <3>1. \A x : x # k => (UndoneIn(kind, rows, S, x) <=> UndoneIn(kind, new, T, x))
      BY <1>0, <1>5 DEF UndoneIn, OfEntity
    <3> QED BY <1>0, <2>2, <2>3, <3>1
  <2>5. OneOf({fresh}) = fresh
    BY DEF OneOf
  <2>6. UndoneRow(kind, new, T, k) = row
    BY <1>3, <2>1, <2>5 DEF UndoneRow
  <2>7. \A x \in DOMAIN rows \ {k} : UndoneRow(kind, rows, S, x) = UndoneRow(kind, new, T, x)
    BY <1>0, <1>5 DEF UndoneRow
  <2>8. UndoneIn(kind, rows, S, k) => UndoneRow(kind, rows, S, k) = row
    BY <1>0, <2>1, <2>3 DEF UndoneRow
  <2>9. RolledBackRows(kind, rows, S) = RolledBackRows(kind, new, T)
    <3>1. \A x : UndoneIn(kind, rows, S, x) => UndoneRow(kind, rows, S, x) = UndoneRow(kind, new, T, x)
      BY <1>0, <2>6, <2>7, <2>8 DEF UndoneIn
    <3> QED BY <2>4, <3>1, UndoneSame
  <2> QED BY <1>3, <1>4, <1>6, <2>9 DEF S, T
<1> QED BY <1>7, <1>8

(* The tables undoing leads to are what they were.                         *)
LEMMA BaseKept ==
  ASSUME BaseInv, ~forced, IdsGiven', NothingDangling', partial' = partial,
         RolledBackRows("group", d'.groups, Snaps') = RolledBackRows("group", d.groups, Snaps),
         RolledBackRows("service", d'.services, Snaps') = RolledBackRows("service", d.services, Snaps),
         RolledBackRows("policy", d'.policies, Snaps') = RolledBackRows("policy", d.policies, Snaps)
  PROVE  BaseInv'
<1> DEFINE a == RolledBack(d, Snaps)
           b == RolledBack(d', Snaps')
<1>1. a.groups = b.groups /\ a.services = b.services /\ a.policies = b.policies
  BY DEF RolledBack
<1>2. partial \/ AllGrounded(a)
  BY DEF BaseInv
<1> HIDE DEF a, b
<1>3. AllGrounded(a) => AllGrounded(b)
  BY <1>1 DEF AllGrounded, Grounded, LiveService, LiveGroup
<1> QED BY <1>2, <1>3 DEF BaseInv, b

(* A policy is created, replaced or deleted.                               *)
LEMMA PolicyBase ==
  ASSUME TypeInv, BaseInv, ~forced, NEW n, NEW action, NEW row,
         Snapshot(<<"policy", n>>, action, row, {}),
         d'.groups = d.groups, d'.services = d.services,
         used \subseteq used', <<"policy", n>> \in used',
         Recorded("policy", n, action, row, d.policies, d'.policies),
         NothingDangling',
         partial' = partial
  PROVE  BaseInv'
<1>1. snaps \in Seq(SnapshotRow)
  BY DEF TypeInv, TypeOK
<1>2. /\ RolledBackRows("policy", d'.policies, Snaps') = RolledBackRows("policy", d.policies, Snaps)
      /\ \A other, t : other # "policy" =>
             RolledBackRows(other, t, Snaps') = RolledBackRows(other, t, Snaps)
      /\ \A s \in Snaps' : s \in Snaps \/ s.ent = <<"policy", n>>
  BY <1>1, UndoneEdit
<1>3. IdsGiven'
  BY <1>2 DEF BaseInv, IdsGiven
<1>4. "group" # "policy" /\ "service" # "policy"
  OBVIOUS
<1> QED BY <1>2, <1>3, <1>4, BaseKept

(* The other policies are as good as they were.                            *)
LEMMA PolicyDangling ==
  ASSUME BaseInv, ~forced, NEW n, d'.peers = d.peers, d'.groups = d.groups,
         d'.services = d.services, DOMAIN d'.policies \ {n} \subseteq DOMAIN d.policies,
         \A x \in DOMAIN d.policies \ {n} : d.policies[x] = d'.policies[x],
         d'.policies[n].del \/ ~Dangling(d, d'.policies[n])
  PROVE  NothingDangling'
<1>1. \A row : Dangling(d', row) <=> Dangling(d, row)
  BY DEF Dangling, NamesMissingPeer, LiveService, LiveGroup
<1>2. \A x \in LivePolicies' : ~Dangling(d, d'.policies[x])
  BY DEF BaseInv, NothingDangling, LivePolicies
<1>3. NothingDangling' <=> \A x \in LivePolicies' : ~Dangling(d', d'.policies[x])
  BY DEF NothingDangling
<1> QED BY <1>1, <1>2, <1>3

(* CreatePolicy: what it refers to is there, or the request was forced.    *)
LEMMA CreatePolicyBase ==
  ASSUME TypeInv, BaseInv, NEW row, CreatePolicy(row)
  PROVE  BaseInv'
<1> SUFFICES ASSUME ~forced' PROVE BaseInv'
  BY DEF BaseInv
<1> DEFINE n == Cardinality({u \in used : u[1] = "policy"}) + 1
<1>1. /\ used' = used \cup {<<"policy", n>>} /\ <<"policy", n>> \notin used
      /\ d' = [d EXCEPT !.policies = With(@, n, row)]
      /\ Snapshot(<<"policy", n>>, "create", row, {})
      /\ forced' = (forced \/ Dangling(d, row)) /\ partial' = partial
  BY DEF CreatePolicy, NewID, SnapshotPolicy, Kept
<1> HIDE DEF n
<1>2. ~forced /\ ~Dangling(d, row)
  BY <1>1
<1>3. /\ d'.peers = d.peers /\ d'.groups = d.groups /\ d'.services = d.services
      /\ d'.policies = With(d.policies, n, row)
  BY <1>1 DEF TypeInv, TypeOK
<1>4. n \notin DOMAIN d.policies
  BY <1>1 DEF TypeInv, KnownInv
<1>5. \A s \in Snaps : s.ent # <<"policy", n>>
  BY <1>1, <1>2 DEF BaseInv, IdsGiven
<1>6. /\ DOMAIN d.policies \ {n} = DOMAIN d'.policies \ {n}
      /\ \A x \in DOMAIN d.policies \ {n} : d.policies[x] = d'.policies[x]
      /\ n \in DOMAIN d'.policies /\ d'.policies[n] = row
  BY <1>3 DEF With
<1>7. NothingDangling'
  BY <1>2, <1>3, <1>6, PolicyDangling
<1>8. Recorded("policy", n, "create", row, d.policies, d'.policies)
  BY <1>4, <1>5, <1>6 DEF Recorded
<1> QED BY <1>1, <1>2, <1>3, <1>7, <1>8, PolicyBase

(* Another row for a policy.                                               *)
LEMMA ReplacePolicyBase ==
  ASSUME TypeInv, BaseInv, ~forced, NEW n \in LivePolicies, NEW row,
         d' = [d EXCEPT !.policies[n] = row], row.del \/ ~Dangling(d, row),
         NEW action, action # "create", Snapshot(<<"policy", n>>, action, d.policies[n], {}),
         used' = used,
         partial' = partial
  PROVE  BaseInv'
<1>1. n \in DOMAIN d.policies
  BY DEF LivePolicies
<1>2. /\ d'.peers = d.peers /\ d'.groups = d.groups /\ d'.services = d.services
      /\ d'.policies = [d.policies EXCEPT ![n] = row]
  BY DEF TypeInv, TypeOK
<1>3. /\ DOMAIN d.policies \ {n} = DOMAIN d'.policies \ {n}
      /\ \A x \in DOMAIN d.policies \ {n} : d.policies[x] = d'.policies[x]
      /\ n \in DOMAIN d'.policies /\ d'.policies[n] = row
  BY <1>1, <1>2
<1>4. <<"policy", n>> \in used'
  BY <1>1 DEF TypeInv, KnownInv
<1>5. NothingDangling'
  BY <1>2, <1>3, PolicyDangling
<1>6. Recorded("policy", n, action, d.policies[n], d.policies, d'.policies)
  BY <1>1, <1>3 DEF Recorded
<1> QED BY <1>2, <1>4, <1>5, <1>6, PolicyBase

(* UpdatePolicy (and PatchPolicy).                                         *)
LEMMA UpdatePolicyBase ==
  ASSUME TypeInv, BaseInv, NEW n, NEW row, UpdatePolicy(n, row)
  PROVE  BaseInv'
<1> SUFFICES ASSUME ~forced' PROVE BaseInv'
  BY DEF BaseInv
<1>1. /\ n \in LivePolicies /\ d' = [d EXCEPT !.policies[n] = row]
      /\ Snapshot(<<"policy", n>>, "update", d.policies[n], {})
      /\ forced' = (forced \/ Dangling(d, row)) /\ used' = used
      /\ partial' = partial
  BY DEF UpdatePolicy, SnapshotPolicy, Kept
<1> QED BY <1>1, ReplacePolicyBase

(* DeletePolicy.                                                           *)
LEMMA DeletePolicyBase ==
  ASSUME TypeInv, BaseInv, NEW n, DeletePolicy(n)
  PROVE  BaseInv'
<1> SUFFICES ASSUME ~forced' PROVE BaseInv'
  BY DEF BaseInv
<1> DEFINE row == [d.policies[n] EXCEPT !.del = TRUE]
<1>1. /\ n \in LivePolicies /\ d' = [d EXCEPT !.policies[n].del = TRUE]
      /\ Snapshot(<<"policy", n>>, "delete", d.policies[n], {})
      /\ forced' = forced /\ used' = used /\ partial' = partial
  BY DEF DeletePolicy, SnapshotPolicy, Kept
<1>2. d' = [d EXCEPT !.policies[n] = row]
  BY <1>1
<1>3. row.del
  BY <1>1 DEF LivePolicies, TypeInv, TypeOK, IsTable, PolicyRow
<1> HIDE DEF row
<1> QED BY <1>1, <1>2, <1>3, ReplacePolicyBase

(* What the policies refer to stays.                                       *)
LEMMA KeepsReferences ==
  ASSUME BaseInv, ~forced, d'.policies = d.policies,
         \A n \in LivePolicies :
            /\ LiveService(d, d.policies[n].svc) => LiveService(d', d.policies[n].svc)
            /\ \A e \in {d.policies[n].src, d.policies[n].tgt} :
                  /\ e.type = "group" /\ LiveGroup(d, e.id) => LiveGroup(d', e.id)
                  /\ e.type = "peer" /\ e.id \in DOMAIN d.peers => e.id \in DOMAIN d'.peers
  PROVE  NothingDangling'
<1>1. LivePolicies' = LivePolicies
  BY DEF LivePolicies
<1>2. ASSUME NEW n \in LivePolicies PROVE ~Dangling(d', d.policies[n])
  <2>1. ~Dangling(d, d.policies[n])
    BY DEF BaseInv, NothingDangling
  <2> QED BY <2>1 DEF Dangling, NamesMissingPeer
<1>3. NothingDangling' <=> \A n \in LivePolicies' : ~Dangling(d', d'.policies[n])
  BY DEF NothingDangling
<1> QED BY <1>1, <1>2, <1>3

(* An edit of a group.                                                     *)
LEMMA GroupBase ==
  ASSUME TypeInv, BaseInv, ~forced, NEW g, NEW action, SnapshotGroup(g, action),
         d'.services = d.services, d'.policies = d.policies,
         used \subseteq used', <<"group", g>> \in used',
         Recorded("group", g, action, [del |-> FALSE], d.groups, d'.groups),
         NothingDangling',
         partial' = partial
  PROVE  BaseInv'
<1>1. snaps \in Seq(SnapshotRow)
  BY DEF TypeInv, TypeOK
<1>2. PICK members : Snapshot(<<"group", g>>, action, [del |-> FALSE], members)
  BY DEF SnapshotGroup
<1>3. /\ RolledBackRows("group", d'.groups, Snaps') = RolledBackRows("group", d.groups, Snaps)
      /\ \A other, t : other # "group" =>
             RolledBackRows(other, t, Snaps') = RolledBackRows(other, t, Snaps)
      /\ \A s \in Snaps' : s \in Snaps \/ s.ent = <<"group", g>>
  BY <1>1, <1>2, UndoneEdit
<1>4. IdsGiven'
  BY <1>3 DEF BaseInv, IdsGiven, Recorded
<1>5. "policy" # "group" /\ "service" # "group"
  OBVIOUS
<1> QED BY <1>3, <1>4, <1>5, BaseKept

(* CreateGroup: the id is new, to the snapshots too.                       *)
LEMMA CreateGroupBase ==
  ASSUME TypeInv, BaseInv, NEW g, CreateGroup(g)
  PROVE  BaseInv'
<1> SUFFICES ASSUME ~forced' PROVE BaseInv'
  BY DEF BaseInv
<1>1. /\ used' = used \cup {<<"group", g>>} /\ <<"group", g>> \notin used
      /\ d' = [d EXCEPT !.groups = With(@, g, [del |-> FALSE])]
      /\ SnapshotGroup(g, "create") /\ forced' = forced /\ partial' = partial
  BY DEF CreateGroup, NewID, Kept
<1>2. /\ d'.peers = d.peers /\ d'.services = d.services /\ d'.policies = d.policies
      /\ d'.groups = With(d.groups, g, [del |-> FALSE])
  BY <1>1 DEF TypeInv, TypeOK
<1>3. g \notin DOMAIN d.groups /\ \A s \in Snaps : s.ent # <<"group", g>>
  BY <1>1 DEF BaseInv, IdsGiven
<1>4. Recorded("group", g, "create", [del |-> FALSE], d.groups, d'.groups)
  BY <1>2, <1>3 DEF Recorded, With
<1>5. \A h : LiveGroup(d, h) => LiveGroup(d', h)
  BY <1>2, <1>3 DEF LiveGroup, With
<1>6. NothingDangling'
  BY <1>1, <1>2, <1>5, KeepsReferences DEF LiveService
<1> QED BY <1>1, <1>2, <1>4, <1>6, GroupBase

(* An edit of a group that is there and stays a row.                       *)
LEMMA LiveGroupBase ==
  ASSUME TypeInv, BaseInv, ~forced, NEW g, LiveGroup(d, g), NEW action, action # "create",
         SnapshotGroup(g, action), used' = used,
         d'.peers = d.peers, d'.services = d.services, d'.policies = d.policies,
         DOMAIN d'.groups = DOMAIN d.groups, \A h \in DOMAIN d.groups \ {g} : d'.groups[h] = d.groups[h],
         LiveGroup(d', g) \/ ~GroupInUse(g),
         partial' = partial
  PROVE  BaseInv'
<1>1. g \in DOMAIN d.groups /\ d.groups[g] = [del |-> FALSE]
  BY DEF LiveGroup, TypeInv, TypeOK, IsTable, GroupRow
<1>2. Recorded("group", g, action, [del |-> FALSE], d.groups, d'.groups)
  BY <1>1 DEF Recorded
<1>3. <<"group", g>> \in used'
  BY <1>1 DEF BaseInv, IdsGiven
<1>4. \A h : h # g /\ LiveGroup(d, h) => LiveGroup(d', h)
  BY DEF LiveGroup
<1>5. ASSUME NEW n \in LivePolicies, NEW e \in {d.policies[n].src, d.policies[n].tgt},
             e.type = "group", LiveGroup(d, e.id)
      PROVE  LiveGroup(d', e.id)
  <2>1. CASE GroupInUse(g)
    BY <1>4, <1>5, <2>1
  <2>2. CASE ~GroupInUse(g)
    BY <1>4, <1>5, <2>2 DEF GroupInUse, FindPoliciesByGroup, LivePolicies
  <2> QED BY <2>1, <2>2
<1>6. NothingDangling'
  BY <1>5, KeepsReferences DEF LiveService
<1> QED BY <1>2, <1>3, <1>6, GroupBase

(* The edits of a group that is there; DeleteGroup only when no live       *)
(* policy refers to it.                                                    *)
LEMMA GroupEditBase ==
  ASSUME TypeInv, BaseInv, NEW g, NEW p,
         UpdateGroup(g) \/ DeleteGroup(g) \/ AddGroupMember(g, p) \/ DeleteGroupMember(g, p)
  PROVE  BaseInv'
<1> SUFFICES ASSUME ~forced' PROVE BaseInv'
  BY DEF BaseInv
<1>1. /\ forced' = forced /\ used' = used /\ partial' = partial /\ LiveGroup(d, g)
      /\ SnapshotGroup(g, "update") \/ SnapshotGroup(g, "delete")
  BY DEF UpdateGroup, DeleteGroup, AddGroupMember, DeleteGroupMember, Kept
<1>2. d'.peers = d.peers /\ d'.services = d.services /\ d'.policies = d.policies
  BY DEF UpdateGroup, DeleteGroup, AddGroupMember, DeleteGroupMember, TypeInv, TypeOK
<1>3. /\ DOMAIN d'.groups = DOMAIN d.groups
      /\ \A h \in DOMAIN d.groups \ {g} : d'.groups[h] = d.groups[h]
      /\ LiveGroup(d', g) \/ ~GroupInUse(g)
  <2>1. CASE d'.groups = d.groups
    BY <1>1, <2>1 DEF LiveGroup
  <2>2. CASE DeleteGroup(g)
    <3>1. d'.groups = [d.groups EXCEPT ![g].del = TRUE] /\ ~GroupInUse(g)
      BY <2>2 DEF DeleteGroup, TypeInv, TypeOK
    <3> QED BY <3>1
  <2> QED BY <2>1, <2>2 DEF UpdateGroup, AddGroupMember, DeleteGroupMember, TypeInv, TypeOK
<1> QED BY <1>1, <1>2, <1>3, LiveGroupBase

(* An edit of a service.                                                   *)
LEMMA ServiceBase ==
  ASSUME TypeInv, BaseInv, ~forced, NEW s, NEW action, NEW row, SnapshotService(s, action, row),
         d'.peers = d.peers, d'.groups = d.groups, d'.policies = d.policies,
         used \subseteq used', <<"service", s>> \in used',
         Recorded("service", s, action, row, d.services, d'.services),
         LiveService(d', s) \/ ~ServiceInUse(s),
         partial' = partial
  PROVE  BaseInv'
<1>1. snaps \in Seq(SnapshotRow)
  BY DEF TypeInv, TypeOK
<1>2. Snapshot(<<"service", s>>, action, row, {})
  BY DEF SnapshotService
<1>3. /\ RolledBackRows("service", d'.services, Snaps') = RolledBackRows("service", d.services, Snaps)
      /\ \A other, t : other # "service" =>
             RolledBackRows(other, t, Snaps') = RolledBackRows(other, t, Snaps)
      /\ \A x \in Snaps' : x \in Snaps \/ x.ent = <<"service", s>>
  BY <1>1, <1>2, UndoneEdit
<1>4. IdsGiven'
  BY <1>3 DEF BaseInv, IdsGiven, Recorded
<1>5. \A x : x # s /\ LiveService(d, x) => LiveService(d', x)
  BY DEF Recorded, LiveService
<1>6. ASSUME NEW n \in LivePolicies, LiveService(d, d.policies[n].svc)
      PROVE  LiveService(d', d.policies[n].svc)
  BY <1>5, <1>6 DEF ServiceInUse, FindPoliciesUsingService
<1>7. NothingDangling'
  BY <1>6, KeepsReferences DEF LiveGroup
<1>8. "policy" # "service" /\ "group" # "service"
  OBVIOUS
<1> QED BY <1>3, <1>4, <1>7, <1>8, BaseKept

(* CreateService and UpdateService leave a service that is there.          *)
LEMMA ServicesBase ==
  ASSUME TypeInv, BaseInv, NEW s \in DOMAIN ServiceRows, NEW row \in ServiceRows[s],
         CreateService(s, row) \/ UpdateService(s, row)
  PROVE  BaseInv'
<1> SUFFICES ASSUME ~forced' PROVE BaseInv'
  BY DEF BaseInv
<1>1. forced' = forced /\ partial' = partial
  BY DEF CreateService, UpdateService, Kept
<1>2. ~row.del
  BY CatalogAssumption
<1>3. CASE CreateService(s, row)
  <2>1. /\ used' = used \cup {<<"service", s>>} /\ <<"service", s>> \notin used
        /\ d' = [d EXCEPT !.services = With(@, s, row)] /\ SnapshotService(s, "create", row)
    BY <1>3 DEF CreateService, NewID
  <2>2. /\ d'.peers = d.peers /\ d'.groups = d.groups /\ d'.policies = d.policies
        /\ d'.services = With(d.services, s, row)
    BY <2>1 DEF TypeInv, TypeOK
  <2>3. s \notin DOMAIN d.services /\ \A x \in Snaps : x.ent # <<"service", s>>
    BY <1>1, <2>1 DEF BaseInv, IdsGiven
  <2>4. Recorded("service", s, "create", row, d.services, d'.services)
    BY <2>2, <2>3 DEF Recorded, With
  <2>5. LiveService(d', s)
    BY <1>2, <2>2 DEF LiveService, With
  <2> QED BY <1>1, <2>1, <2>2, <2>4, <2>5, ServiceBase
<1>4. CASE UpdateService(s, row)
  <2>1. /\ used' = used /\ LiveService(d, s)
        /\ d' = [d EXCEPT !.services[s] = row] /\ SnapshotService(s, "update", d.services[s])
    BY <1>4 DEF UpdateService
  <2>2. /\ d'.peers = d.peers /\ d'.groups = d.groups /\ d'.policies = d.policies
        /\ d'.services = [d.services EXCEPT ![s] = row]
    BY <2>1 DEF TypeInv, TypeOK
  <2>3. s \in DOMAIN d.services /\ <<"service", s>> \in used
    BY <1>1, <2>1 DEF BaseInv, IdsGiven, LiveService
  <2>4. Recorded("service", s, "update", d.services[s], d.services, d'.services)
    BY <2>2, <2>3 DEF Recorded
  <2>5. LiveService(d', s)
    BY <1>2, <2>2, <2>3 DEF LiveService
  <2> QED BY <1>1, <2>1, <2>2, <2>3, <2>4, <2>5, ServiceBase
<1> QED BY <1>3, <1>4

(* DeleteService only when no live policy refers to it.                    *)
LEMMA DeleteServiceBase ==
  ASSUME TypeInv, BaseInv, NEW s, DeleteService(s)
  PROVE  BaseInv'
<1> SUFFICES ASSUME ~forced' PROVE BaseInv'
  BY DEF BaseInv
<1>1. /\ forced' = forced /\ partial' = partial /\ used' = used /\ LiveService(d, s) /\ ~ServiceInUse(s)
      /\ d' = [d EXCEPT !.services[s].del = TRUE] /\ SnapshotService(s, "delete", d.services[s])
  BY DEF DeleteService, Kept
<1>2. /\ d'.peers = d.peers /\ d'.groups = d.groups /\ d'.policies = d.policies
      /\ d'.services = [d.services EXCEPT ![s].del = TRUE]
  BY <1>1 DEF TypeInv, TypeOK
<1>3. s \in DOMAIN d.services /\ <<"service", s>> \in used
  BY <1>1 DEF BaseInv, IdsGiven, LiveService
<1>4. Recorded("service", s, "delete", d.services[s], d.services, d'.services)
  BY <1>2, <1>3 DEF Recorded
<1> QED BY <1>1, <1>2, <1>3, <1>4, ServiceBase

(* An edit of a peer that no policy names.                                 *)
LEMMA PeerBase ==
  ASSUME BaseInv, d'.groups = d.groups, d'.services = d.services, d'.policies = d.policies,
         snaps' = snaps, used \subseteq used', partial' = partial, forced' = forced,
         \A n \in LivePolicies : \A e \in {d.policies[n].src, d.policies[n].tgt} :
            e.type = "peer" /\ e.id \in DOMAIN d.peers => e.id \in DOMAIN d'.peers
  PROVE  BaseInv'
<1> SUFFICES ASSUME ~forced PROVE BaseInv'
  BY DEF BaseInv
<1>1. Snaps' = Snaps
  BY DEF Snaps
<1>2. IdsGiven'
  BY <1>1 DEF BaseInv, IdsGiven
<1>3. NothingDangling'
  BY KeepsReferences DEF LiveService, LiveGroup
<1> QED BY <1>1, <1>2, <1>3, BaseKept

(* The edits of peers; DeletePeer only when no live policy names it.       *)
LEMMA PeersBase ==
  ASSUME TypeInv, BaseInv, NEW p, NEW row,
         CreatePeer(p, row) \/ UpdatePeer(p, row) \/ DeletePeer(p)
  PROVE  BaseInv'
<1>1. CASE CreatePeer(p, row)
  <2>1. /\ d' = [d EXCEPT !.peers = With(@, p, row)] /\ snaps' = snaps /\ forced' = forced
        /\ partial' = partial /\ used \subseteq used'
    BY <1>1 DEF CreatePeer, InsertPeer, NewID
  <2>2. DOMAIN d.peers \subseteq DOMAIN d'.peers
    BY <2>1 DEF TypeInv, TypeOK, With
  <2>3. d'.groups = d.groups /\ d'.services = d.services /\ d'.policies = d.policies
    BY <2>1 DEF TypeInv, TypeOK
  <2> QED BY <2>1, <2>2, <2>3, PeerBase
<1>2. CASE UpdatePeer(p, row)
  <2>1. /\ d' = [d EXCEPT !.peers[p] = row] /\ snaps' = snaps /\ forced' = forced /\ used' = used
        /\ partial' = partial
    BY <1>2 DEF UpdatePeer, ReplacePeer
  <2>2. DOMAIN d.peers = DOMAIN d'.peers
    BY <2>1 DEF TypeInv, TypeOK
  <2>3. d'.groups = d.groups /\ d'.services = d.services /\ d'.policies = d.policies
    BY <2>1 DEF TypeInv, TypeOK
  <2> QED BY <2>1, <2>2, <2>3, PeerBase
<1>3. CASE DeletePeer(p)
  <2>1. /\ d' = RemovePeer(p) /\ ~PeerInUse(p) /\ snaps' = snaps /\ forced' = forced /\ used' = used
        /\ partial' = partial
    BY <1>3 DEF DeletePeer
  <2>2. DOMAIN d'.peers = DOMAIN d.peers \ {p}
    BY <2>1 DEF RemovePeer, Without, TypeInv, TypeOK
  <2>3. d'.groups = d.groups /\ d'.services = d.services /\ d'.policies = d.policies
    BY <2>1 DEF RemovePeer, TypeInv, TypeOK
  <2>4. \A n \in LivePolicies : \A e \in {d.policies[n].src, d.policies[n].tgt} :
           e.type = "peer" => e.id # p
    BY <2>1 DEF PeerInUse
  <2> QED BY <2>1, <2>2, <2>3, <2>4, PeerBase
<1> QED BY <1>1, <1>2, <1>3

(* Nothing is waiting to be undone.                                        *)
LEMMA CleanBase ==
  ASSUME TablesOK(d'), snaps' = <<>>, NothingDangling',
         \A g \in DOMAIN d'.groups : <<"group", g>> \in used',
         \A s \in DOMAIN d'.services : <<"service", s>> \in used'
  PROVE  BaseInv'
<1>1. Snaps' = {}
  BY DEF Snaps
<1>2. IdsGiven'
  BY <1>1 DEF IdsGiven
<1>3. /\ RolledBackRows("group", d'.groups, {}) = d'.groups
      /\ RolledBackRows("service", d'.services, {}) = d'.services
      /\ RolledBackRows("policy", d'.policies, {}) = d'.policies
  BY UndoneNone DEF TablesOK
<1> DEFINE b == RolledBack(d', Snaps')
<1>4. b.groups = d'.groups /\ b.services = d'.services /\ b.policies = d'.policies
  BY <1>1, <1>3 DEF RolledBack
<1>5. \A n \in DOMAIN d'.policies : ~d'.policies[n].del => ~Dangling(d', d'.policies[n])
  BY DEF NothingDangling, LivePolicies
<1> HIDE DEF b
<1>6. AllGrounded(b)
  BY <1>4, <1>5 DEF AllGrounded, Grounded, Dangling, LiveService, LiveGroup
<1> QED BY <1>2, <1>6 DEF BaseInv, b

(* Apply, ApplyEntity: the cleanup removes what no live policy refers to,  *)
(* and the tables it leaves are the new ones to go back to.                *)
LEMMA ApplyBase ==
  ASSUME TypeInv, BaseInv, NEW p, NEW ent, Apply(p) \/ ApplyEntity(p, ent)
  PROVE  BaseInv'
<1>0. TypeOK
  BY DEF TypeInv
<1>1. used' = used /\ forced' = forced
  BY <1>0, ApproveIs
<1> SUFFICES ASSUME ~forced PROVE BaseInv'
  BY <1>1 DEF BaseInv
<1>2. CASE d' = d
  <2>1. LivePolicies' = LivePolicies
    BY <1>2 DEF LivePolicies
  <2>2. NothingDangling'
    BY <1>2, <2>1 DEF BaseInv, NothingDangling
  <2>3. CASE partial' = FALSE /\ snaps' = <<>>
    <3>1. TablesOK(d')
      BY <1>0, <1>2, TypeTables
    <3> QED BY <1>1, <1>2, <2>2, <2>3, <3>1, CleanBase DEF BaseInv, IdsGiven
  <2>4. CASE partial' = partial /\ snaps' = snaps
    <3>1. Snaps' = Snaps
      BY <2>4 DEF Snaps
    <3> QED BY <1>1, <1>2, <2>2, <2>4, <3>1 DEF BaseInv, IdsGiven
  <2>5. CASE partial' = TRUE
    <3>1. Snaps' \subseteq Snaps
      BY <1>0, ApproveIs DEF Snaps
    <3>2. IdsGiven'
      BY <1>1, <1>2, <3>1 DEF BaseInv, IdsGiven
    <3> QED BY <2>2, <2>5, <3>2 DEF BaseInv
  <2> QED BY <1>0, <2>3, <2>4, <2>5, ApproveIs
<1>3. CASE d' = Purged(d) /\ snaps' = <<>>
  <2>1. TablesOK(d') /\ d'.peers = d.peers
    BY <1>3, PurgedType
  <2>2. /\ DOMAIN d'.groups = {g \in DOMAIN d.groups : ~d.groups[g].del}
        /\ \A g \in DOMAIN d'.groups : d'.groups[g] = d.groups[g]
        /\ DOMAIN d'.services = {s \in DOMAIN d.services : ~d.services[s].del}
        /\ \A s \in DOMAIN d'.services : d'.services[s] = d.services[s]
        /\ DOMAIN d'.policies = {n \in DOMAIN d.policies : ~d.policies[n].del}
        /\ \A n \in DOMAIN d'.policies : d'.policies[n] = d.policies[n]
    BY <1>3 DEF Purged
  <2>3. \A g : LiveGroup(d, g) => LiveGroup(d', g)
    BY <2>2 DEF LiveGroup
  <2>4. \A s : LiveService(d, s) => LiveService(d', s)
    BY <2>2 DEF LiveService
  <2>5. \A row : Dangling(d', row) => Dangling(d, row)
    BY <2>1, <2>3, <2>4 DEF Dangling, NamesMissingPeer
  <2>6. \A n \in LivePolicies' : n \in LivePolicies /\ d'.policies[n] = d.policies[n]
    BY <2>2 DEF LivePolicies
  <2>7. NothingDangling' <=> \A n \in LivePolicies' : ~Dangling(d', d'.policies[n])
    BY DEF NothingDangling
  <2>8. NothingDangling'
    BY <2>5, <2>6, <2>7 DEF BaseInv, NothingDangling
  <2>9. /\ \A g \in DOMAIN d'.groups : <<"group", g>> \in used'
        /\ \A s \in DOMAIN d'.services : <<"service", s>> \in used'
    BY <1>1, <2>2 DEF BaseInv, IdsGiven
  <2> QED BY <1>3, <2>1, <2>8, <2>9, CleanBase
<1> QED BY <1>0, <1>2, <1>3, ApproveIs

(* RollbackSnapshots goes back to the tables of which the invariant says   *)
(* that nothing dangles but references to peers, and these force; after an *)
(* approval of one change alone, whatever dangles does.                    *)
LEMMA RollbackSnapshotsBase ==
  ASSUME TypeInv, BaseInv, RollbackSnapshots
  PROVE  BaseInv'
<1> SUFFICES ASSUME ~forced' PROVE BaseInv'
  BY DEF BaseInv
<1> DEFINE db == RolledBack(d, Snaps)
           all == {snaps[j] : j \in {k \in DOMAIN snaps : k > 0}}
<1>1. all = Snaps
  BY DEF Snaps, TypeInv, TypeOK
<1>2. /\ AfterRollback(RolledBack(d, all)) /\ snaps' = <<>>
      /\ forced' = (forced \/ \E n \in DOMAIN RolledBack(d, all).policies :
             \/ NamesMissingPeer(RolledBack(d, all), RolledBack(d, all).policies[n])
             \/ partial /\ Dangling(RolledBack(d, all), RolledBack(d, all).policies[n]))
  BY DEF RollbackSnapshots
<1> HIDE DEF all
<1>3. d' = db /\ used' = used
  BY <1>1, <1>2 DEF AfterRollback
<1>4. forced' = (forced \/ \E n \in DOMAIN db.policies :
                              \/ NamesMissingPeer(db, db.policies[n])
                              \/ partial /\ Dangling(db, db.policies[n]))
  BY <1>1, <1>2
<1>5. /\ TablesOK(db)
  BY RolledBackType DEF Snaps
<1>6. (partial \/ AllGrounded(db)) /\ IdsGiven
  BY <1>4 DEF BaseInv
<1>7. DOMAIN db.groups \subseteq DOMAIN d.groups /\ DOMAIN db.services \subseteq DOMAIN d.services
  BY DEF RolledBack, RolledBackRows
<1> HIDE DEF db
<1>8. \A n \in DOMAIN db.policies : ~db.policies[n].del => ~Dangling(db, db.policies[n])
  BY <1>4, <1>6 DEF AllGrounded, Grounded, Dangling
<1>9. NothingDangling'
  BY <1>3, <1>8 DEF NothingDangling, LivePolicies
<1> QED BY <1>2, <1>3, <1>5, <1>6, <1>7, <1>9, CleanBase DEF IdsGiven

(* At first nothing dangles and nothing is to be undone.                   *)
LEMMA InitBase == Init => BaseInv
<1> SUFFICES ASSUME Init PROVE BaseInv
  OBVIOUS
<1>1. TypeInv
  BY InitType
<1>2. PICK rows \in {<<>>} \cup {<<row>> : row \in FirstPolicies} :
         /\ d = [peers |-> FirstPeers, groups |-> [g \in FirstGroups |-> [del |-> FALSE]],
                 members |-> FirstMembers, services |-> FirstServices, policies |-> rows]
         /\ \A n \in DOMAIN rows : ~Dangling(d, rows[n])
  BY DEF Init
<1>3. /\ snaps = <<>>
      /\ used = {<<"peer", p>> : p \in Peer} \cup {<<"group", g>> : g \in FirstGroups}
                \cup {<<"service", s>> : s \in DOMAIN FirstServices}
                \cup {<<"policy", n>> : n \in DOMAIN d.policies}
  BY DEF Init
<1>4. Snaps = {}
  BY <1>3 DEF Snaps
<1>5. IdsGiven
  BY <1>2, <1>3, <1>4 DEF IdsGiven
<1>6. \A n \in DOMAIN d.policies : ~Dangling(d, d.policies[n])
  BY <1>2
<1>7. /\ RolledBackRows("group", d.groups, {}) = d.groups
      /\ RolledBackRows("service", d.services, {}) = d.services
      /\ RolledBackRows("policy", d.policies, {}) = d.policies
  BY <1>1, UndoneNone DEF TypeInv, TypeOK
<1> DEFINE b == RolledBack(d, Snaps)
<1>8. b.groups = d.groups /\ b.services = d.services /\ b.policies = d.policies
  BY <1>4, <1>7 DEF RolledBack
<1> HIDE DEF b
<1>9. AllGrounded(b)
  BY <1>6, <1>8 DEF AllGrounded, Grounded, Dangling, LiveService, LiveGroup
<1> QED BY <1>5, <1>6, <1>9 DEF BaseInv, NothingDangling, LivePolicies, b

(* Every step keeps the invariant.                                         *)
LEMMA StepBase ==
  ASSUME TypeInv, BaseInv, [Next]_vars
  PROVE  BaseInv'
<1>1. CASE EntityEdit
  <2>1. ASSUME NEW row, CreatePolicy(row) PROVE BaseInv'
    BY <2>1, CreatePolicyBase
  <2>2. ASSUME NEW n, NEW row, UpdatePolicy(n, row) PROVE BaseInv'
    BY <2>2, UpdatePolicyBase
  <2>3. ASSUME NEW n, PatchPolicy(n) PROVE BaseInv'
    BY <2>2, <2>3 DEF PatchPolicy
  <2>4. ASSUME NEW n, DeletePolicy(n) PROVE BaseInv'
    BY <2>4, DeletePolicyBase
  <2>5. ASSUME NEW g, CreateGroup(g) PROVE BaseInv'
    BY <2>5, CreateGroupBase
  <2>6. ASSUME NEW g, NEW p,
               UpdateGroup(g) \/ DeleteGroup(g) \/ AddGroupMember(g, p) \/ DeleteGroupMember(g, p)
        PROVE  BaseInv'
    BY <2>6, GroupEditBase
  <2>7. ASSUME NEW s \in DOMAIN ServiceRows, NEW row \in ServiceRows[s],
               CreateService(s, row) \/ UpdateService(s, row)
        PROVE  BaseInv'
    BY <2>7, ServicesBase
  <2>8. ASSUME NEW s, DeleteService(s) PROVE BaseInv'
    BY <2>8, DeleteServiceBase
  <2> QED BY <1>1, <2>1, <2>2, <2>3, <2>4, <2>5, <2>6, <2>7, <2>8 DEF EntityEdit
<1>2. CASE PeerEdit
  BY <1>2, PeersBase DEF PeerEdit
<1>3. CASE ProcessChange \/ UNCHANGED vars
  <2>1. d' = d /\ snaps' = snaps /\ used' = used /\ forced' = forced /\ partial' = partial
    BY <1>3 DEF ProcessChange, vars
  <2>2. Snaps' = Snaps /\ LivePolicies' = LivePolicies
    BY <2>1 DEF Snaps, LivePolicies
  <2> QED BY <2>1, <2>2 DEF BaseInv, IdsGiven, NothingDangling
<1>4. ASSUME NEW p, NEW ent, Apply(p) \/ ApplyEntity(p, ent) PROVE BaseInv'
  BY <1>4, ApplyBase
<1>5. ASSUME NEW i \in DOMAIN snaps, RollbackEntitySnapshot(i) PROVE BaseInv'
  BY <1>5 DEF RollbackEntitySnapshot, BaseInv
<1>6. CASE RollbackSnapshots
  BY <1>6, RollbackSnapshotsBase
<1> QED BY <1>1, <1>2, <1>3, <1>4, <1>5, <1>6 DEF Next

(* With plain rows only, plain rows are all there is, in the tables and in *)
(* the snapshots.                                                          *)
PlainInv ==
  /\ \A p \in Peer : PlainPeer(d.peers[p])
  /\ \A n \in DOMAIN d.policies : PlainPolicy(d.policies[n])
  /\ \A s \in Snaps : s.ent[1] = "policy" => PlainPolicy(s.row)

(* A snapshot of a plain row is plain.                                     *)
LEMMA SnapshotPlain ==
  ASSUME snaps \in Seq(SnapshotRow), PlainInv, NEW ent, NEW action, NEW row, NEW members,
         Snapshot(ent, action, row, members), ent[1] = "policy" => PlainPolicy(row)
  PROVE  \A s \in Snaps' : s.ent[1] = "policy" => PlainPolicy(s.row)
<1> DEFINE fresh == [ent |-> ent, action |-> action, row |-> row, members |-> members]
<1>1. fresh.ent = ent /\ fresh.row = row
  OBVIOUS
<1>2. snaps' = snaps \/ snaps' = Append(snaps, fresh)
  BY DEF Snapshot
<1> HIDE DEF fresh
<1>3. \A i \in DOMAIN snaps' : snaps'[i] \in Snaps \/ snaps'[i] = fresh
  <2>1. CASE snaps' = snaps
    BY <2>1 DEF Snaps
  <2>2. CASE snaps' = Append(snaps, fresh)
    BY <2>2 DEF Snaps
  <2> QED BY <1>2, <2>1, <2>2
<1>4. \A s \in Snaps' : s \in Snaps \/ s = fresh
  BY <1>3 DEF Snaps
<1> QED BY <1>1, <1>4 DEF PlainInv

(* An edit of a policy.                                                    *)
LEMMA PolicyPlain ==
  ASSUME TypeInv, PlainInv, NEW n, NEW action, NEW row, Snapshot(<<"policy", n>>, action, row, {}),
         PlainPolicy(row), d'.peers = d.peers,
         DOMAIN d'.policies \subseteq DOMAIN d.policies \cup {n}, PlainPolicy(d'.policies[n]),
         \A x \in DOMAIN d.policies \ {n} : d'.policies[x] = d.policies[x]
  PROVE  PlainInv'
<1>1. snaps \in Seq(SnapshotRow)
  BY DEF TypeInv, TypeOK
<1>2. \A s \in Snaps' : s.ent[1] = "policy" => PlainPolicy(s.row)
  BY <1>1, SnapshotPlain
<1>3. Peer' = Peer
  BY DEF Peer
<1> QED BY <1>2, <1>3 DEF PlainInv

(* An edit of a group or a service.                                        *)
LEMMA EntityPlain ==
  ASSUME TypeInv, PlainInv, NEW ent, ent[1] # "policy", NEW action, NEW row, NEW members,
         Snapshot(ent, action, row, members), d'.peers = d.peers, d'.policies = d.policies
  PROVE  PlainInv'
<1>1. snaps \in Seq(SnapshotRow)
  BY DEF TypeInv, TypeOK
<1>2. \A s \in Snaps' : s.ent[1] = "policy" => PlainPolicy(s.row)
  BY <1>1, SnapshotPlain
<1>3. Peer' = Peer
  BY DEF Peer
<1> QED BY <1>2, <1>3 DEF PlainInv

(* The edits of policies, groups and services.                             *)
LEMMA EntityEditPlain ==
  ASSUME TypeInv, PlainInv, PlainRows, EntityEdit
  PROVE  PlainInv'
<1>1. ASSUME NEW row \in Requests, CreatePolicy(row) PROVE PlainInv'
  <2> DEFINE n == Cardinality({u \in used : u[1] = "policy"}) + 1
  <2>1. d' = [d EXCEPT !.policies = With(@, n, row)] /\ Snapshot(<<"policy", n>>, "create", row, {})
    BY <1>1 DEF CreatePolicy, SnapshotPolicy
  <2> HIDE DEF n
  <2>2. d'.peers = d.peers /\ d'.policies = With(d.policies, n, row)
    BY <2>1 DEF TypeInv, TypeOK
  <2>3. PlainPolicy(row)
    BY DEF PlainRows, Requests
  <2>4. /\ DOMAIN d'.policies \subseteq DOMAIN d.policies \cup {n} /\ d'.policies[n] = row
        /\ \A x \in DOMAIN d.policies \ {n} : d'.policies[x] = d.policies[x]
    BY <2>2 DEF With
  <2> QED BY <2>1, <2>2, <2>3, <2>4, PolicyPlain
<1>2. ASSUME NEW n \in LivePolicies, NEW row, d' = [d EXCEPT !.policies[n] = row], PlainPolicy(row),
             NEW action, Snapshot(<<"policy", n>>, action, d.policies[n], {})
      PROVE  PlainInv'
  <2>1. n \in DOMAIN d.policies /\ PlainPolicy(d.policies[n])
    BY DEF LivePolicies, PlainInv
  <2>2. d'.peers = d.peers /\ d'.policies = [d.policies EXCEPT ![n] = row]
    BY <1>2 DEF TypeInv, TypeOK
  <2>3. /\ DOMAIN d'.policies \subseteq DOMAIN d.policies \cup {n} /\ d'.policies[n] = row
        /\ \A x \in DOMAIN d.policies \ {n} : d'.policies[x] = d.policies[x]
    BY <2>1, <2>2
  <2> QED BY <1>2, <2>1, <2>2, <2>3, PolicyPlain
<1>3. ASSUME NEW n \in LivePolicies, NEW row, PlainPolicy(row), UpdatePolicy(n, row) PROVE PlainInv'
  BY <1>2, <1>3 DEF UpdatePolicy, SnapshotPolicy
<1>4. ASSUME NEW n \in LivePolicies, NEW row \in Requests, UpdatePolicy(n, row) PROVE PlainInv'
  BY <1>3, <1>4 DEF PlainRows, Requests
<1>5. ASSUME NEW n \in LivePolicies, NEW on, NEW del
      PROVE  /\ PlainPolicy([d.policies[n] EXCEPT !.on = on])
             /\ PlainPolicy([d.policies[n] EXCEPT !.del = del])
  <2>1. PlainPolicy(d.policies[n]) /\ d.policies[n] \in PolicyRow
    BY DEF PlainInv, LivePolicies, TypeInv, TypeOK, IsTable
  <2> QED BY <2>1 DEF PlainPolicy, PolicyRow
<1>6. ASSUME NEW n \in LivePolicies, PatchPolicy(n) PROVE PlainInv'
  BY <1>3, <1>5, <1>6 DEF PatchPolicy
<1>7. ASSUME NEW n \in LivePolicies, DeletePolicy(n) PROVE PlainInv'
  <2>1. /\ d' = [d EXCEPT !.policies[n] = [d.policies[n] EXCEPT !.del = TRUE]]
        /\ Snapshot(<<"policy", n>>, "delete", d.policies[n], {})
    BY <1>7 DEF DeletePolicy, SnapshotPolicy
  <2> QED BY <1>2, <1>5, <2>1
<1>8. ASSUME NEW g, NEW p,
             \/ CreateGroup(g) \/ UpdateGroup(g) \/ DeleteGroup(g)
             \/ AddGroupMember(g, p) \/ DeleteGroupMember(g, p)
      PROVE  PlainInv'
  <2>1. PICK action : SnapshotGroup(g, action)
    BY <1>8 DEF CreateGroup, UpdateGroup, DeleteGroup, AddGroupMember, DeleteGroupMember
  <2>2. d'.peers = d.peers /\ d'.policies = d.policies
    BY <1>8 DEF CreateGroup, UpdateGroup, DeleteGroup, AddGroupMember, DeleteGroupMember,
                TypeInv, TypeOK
  <2>3. PICK members : Snapshot(<<"group", g>>, action, [del |-> FALSE], members)
    BY <2>1 DEF SnapshotGroup
  <2>4. <<"group", g>>[1] # "policy"
    OBVIOUS
  <2> QED BY <2>2, <2>3, <2>4, EntityPlain
<1>9. ASSUME NEW s, NEW row, CreateService(s, row) \/ UpdateService(s, row) \/ DeleteService(s)
      PROVE  PlainInv'
  <2>1. PICK action, old : SnapshotService(s, action, old)
    BY <1>9 DEF CreateService, UpdateService, DeleteService
  <2>2. d'.peers = d.peers /\ d'.policies = d.policies
    BY <1>9 DEF CreateService, UpdateService, DeleteService, TypeInv, TypeOK
  <2>3. Snapshot(<<"service", s>>, action, old, {})
    BY <2>1 DEF SnapshotService
  <2>4. <<"service", s>>[1] # "policy"
    OBVIOUS
  <2> QED BY <2>2, <2>3, <2>4, EntityPlain
<1> QED BY <1>1, <1>4, <1>6, <1>7, <1>8, <1>9 DEF EntityEdit

(* The edits of peers.                                                     *)
LEMMA PeerEditPlain ==
  ASSUME TypeInv, PlainInv, PlainRows, PeerEdit
  PROVE  PlainInv'
<1>1. PICK p \in DOMAIN PeerRows :
         \/ \E row \in PeerRows[p] : CreatePeer(p, row)
         \/ p \in Peer /\ \E row \in PeerRows[p] : UpdatePeer(p, row)
         \/ DeletePeer(p)
  BY DEF PeerEdit, TypeInv, TypeOK, IsTable, Peer
<1>2. snaps' = snaps /\ d'.policies = d.policies
  BY <1>1 DEF CreatePeer, UpdatePeer, DeletePeer, InsertPeer, ReplacePeer, RemovePeer,
              TypeInv, TypeOK
<1>3. Snaps' = Snaps
  BY <1>2 DEF Snaps
<1>4. \A row \in PeerRows[p] : PlainPeer(row)
  BY DEF PlainRows
<1>5. ASSUME NEW row \in PeerRows[p], CreatePeer(p, row) PROVE PlainInv'
  <2>1. d'.peers = With(d.peers, p, row)
    BY <1>5 DEF CreatePeer, InsertPeer, TypeInv, TypeOK
  <2>2. \A q \in DOMAIN d'.peers : PlainPeer(d'.peers[q])
    BY <1>4, <2>1 DEF With, PlainInv, Peer
  <2> QED BY <1>2, <1>3, <2>2 DEF PlainInv, Peer
<1>6. ASSUME p \in Peer, NEW row \in PeerRows[p], UpdatePeer(p, row) PROVE PlainInv'
  <2>1. d'.peers = [d.peers EXCEPT ![p] = row]
    BY <1>6 DEF UpdatePeer, ReplacePeer, TypeInv, TypeOK
  <2>2. \A q \in DOMAIN d'.peers : PlainPeer(d'.peers[q])
    BY <1>4, <2>1 DEF PlainInv, Peer
  <2> QED BY <1>2, <1>3, <2>2 DEF PlainInv, Peer
<1>7. ASSUME DeletePeer(p) PROVE PlainInv'
  <2>1. d'.peers = Without(d.peers, p)
    BY <1>7 DEF DeletePeer, RemovePeer, TypeInv, TypeOK
  <2>2. \A q \in DOMAIN d'.peers : PlainPeer(d'.peers[q])
    BY <2>1 DEF Without, PlainInv, Peer
  <2> QED BY <1>2, <1>3, <2>2 DEF PlainInv, Peer
<1> QED BY <1>1, <1>5, <1>6, <1>7

(* What is undone comes from the tables and the snapshots.                 *)
LEMMA UndonePlain ==
  ASSUME PlainInv, NEW S, S \subseteq Snaps
  PROVE  \A n \in DOMAIN RolledBack(d, S).policies : PlainPolicy(RolledBack(d, S).policies[n])
<1> SUFFICES ASSUME NEW n \in DOMAIN RolledBack(d, S).policies
             PROVE  PlainPolicy(RolledBack(d, S).policies[n])
  OBVIOUS
<1> DEFINE of == OfEntity(S, "policy", n)
<1>1. RolledBack(d, S).policies = RolledBackRows("policy", d.policies, S)
  BY DEF RolledBack
<1>2. n \in DOMAIN d.policies /\ RolledBack(d, S).policies[n] = UndoneRow("policy", d.policies, S, n)
  BY <1>1, UndoneIs
<1>3. CASE of = {}
  BY <1>2, <1>3 DEF UndoneRow, PlainInv
<1>4. CASE of # {}
  <2>1. OneOf(of) \in of
    BY <1>4 DEF OneOf
  <2>2. OneOf(of) \in Snaps /\ OneOf(of).ent = <<"policy", n>>
    BY <2>1 DEF OfEntity
  <2>3. PlainPolicy(OneOf(of).row)
    BY <2>2 DEF PlainInv
  <2> QED BY <1>2, <1>4, <2>3 DEF UndoneRow
<1> QED BY <1>3, <1>4

(* A rollback.                                                             *)
LEMMA RollbackPlain ==
  ASSUME PlainInv, NEW S, S \subseteq Snaps, AfterRollback(RolledBack(d, S)), Snaps' \subseteq Snaps
  PROVE  PlainInv'
<1> DEFINE db == RolledBack(d, S)
<1>1. d' = db /\ db.peers = d.peers
  BY DEF AfterRollback, RolledBack
<1>2. \A n \in DOMAIN db.policies : PlainPolicy(db.policies[n])
  BY UndonePlain
<1> HIDE DEF db
<1> QED BY <1>1, <1>2 DEF PlainInv, Peer

(* Every step.                                                             *)
LEMMA StepPlain ==
  ASSUME TypeInv, PlainInv, PlainRows, [Next]_vars
  PROVE  PlainInv'
<1>1. CASE EntityEdit
  BY <1>1, EntityEditPlain
<1>2. CASE PeerEdit
  BY <1>2, PeerEditPlain
<1>3. CASE ProcessChange \/ UNCHANGED vars
  <2>1. d' = d /\ snaps' = snaps
    BY <1>3 DEF ProcessChange, vars
  <2> QED BY <2>1 DEF PlainInv, Peer, Snaps
<1>4. ASSUME NEW p, NEW ent, Apply(p) \/ ApplyEntity(p, ent) PROVE PlainInv'
  <2>1. /\ d' = d \/ d' = Purged(d)
        /\ \A k \in DOMAIN snaps' : snaps'[k] \in {snaps[j] : j \in DOMAIN snaps}
    BY <1>4, ApproveIs DEF TypeInv
  <2>2. /\ d'.peers = d.peers
        /\ \A n \in DOMAIN d'.policies : n \in DOMAIN d.policies /\ d'.policies[n] = d.policies[n]
    BY <2>1, PurgedType
  <2>3. Snaps' \subseteq Snaps
    BY <2>1 DEF Snaps
  <2> QED BY <2>2, <2>3 DEF PlainInv, Peer
<1>5. ASSUME NEW i \in DOMAIN snaps, RollbackEntitySnapshot(i) PROVE PlainInv'
  <2>1. AfterRollback(RolledBack(d, {snaps[i]})) /\ snaps' = RemoveAt(snaps, i)
    BY <1>5 DEF RollbackEntitySnapshot
  <2>2. {snaps[i]} \subseteq Snaps
    BY DEF Snaps
  <2>3. Snaps' \subseteq Snaps
    <3>1. snaps \in Seq(SnapshotRow)
      BY DEF TypeInv, TypeOK
    <3>2. \A k \in DOMAIN snaps' : snaps'[k] \in {snaps[j] : j \in DOMAIN snaps}
      BY <2>1, <3>1, RemovedFrom
    <3> QED BY <3>2 DEF Snaps
  <2> QED BY <2>1, <2>2, <2>3, RollbackPlain
<1>6. CASE RollbackSnapshots
  <2> DEFINE S == {snaps[j] : j \in {k \in DOMAIN snaps : k > 0}}
  <2>1. AfterRollback(RolledBack(d, S)) /\ snaps' = <<>>
    BY <1>6 DEF RollbackSnapshots
  <2>2. S \subseteq Snaps /\ Snaps' \subseteq Snaps
    BY <2>1 DEF Snaps
  <2> HIDE DEF S
  <2> QED BY <2>1, <2>2, RollbackPlain
<1> QED BY <1>1, <1>2, <1>3, <1>4, <1>5, <1>6 DEF Next

(* At first.                                                               *)
LEMMA InitPlain == PlainRows /\ Init => PlainInv
<1> SUFFICES ASSUME PlainRows, Init PROVE PlainInv
  OBVIOUS
<1>1. PICK rows \in {<<>>} \cup {<<row>> : row \in FirstPolicies} :
         d = [peers |-> FirstPeers, groups |-> [g \in FirstGroups |-> [del |-> FALSE]],
              members |-> FirstMembers, services |-> FirstServices, policies |-> rows]
  BY DEF Init
<1>2. Snaps = {}
  BY DEF Init, Snaps
<1>3. \A n \in DOMAIN rows : rows[n] \in FirstPolicies
  BY <1>1
<1> QED BY <1>1, <1>2, <1>3 DEF PlainInv, PlainRows, Peer

(* A plain end that is there resolves, where all peers have an address.    *)
LEMMA PlainResolves ==
  ASSUME NEW db, \A q \in DOMAIN db.peers : PlainPeer(db.peers[q]), NEW e, PlainEnd(e), IsEnd(e),
         ~Special(e, {"internet"}), e.type = "peer" => e.id \in DOMAIN db.peers,
         NEW ip, ip \notin {NoIP, AnyIP, SixIP}
  PROVE  ResolveEntityCIDRs(db, e, ip).ok
<1>1. Failed.ok = FALSE /\ \A v : Gives(v).ok
  BY DEF Failed, Gives
<1>2. CASE e.ip # NoIP
  <2>1. ResolveEntityCIDRs(db, e, ip) = Gives({e.ip})
    BY <1>2 DEF ResolveEntityCIDRs, PlainEnd
  <2> QED BY <1>1, <2>1
<1>3. CASE e.ip = NoIP /\ e.type = "peer"
  <2>1. ResolveEntityCIDRs(db, e, ip) = ResolvePeer(db, e.id)
    BY <1>3 DEF ResolveEntityCIDRs
  <2>2. ValidPeerCIDR(db.peers[e.id].ip)
    BY <1>3 DEF PlainPeer, ValidPeerCIDR
  <2> QED BY <1>1, <1>3, <2>1, <2>2 DEF ResolvePeer
<1>4. CASE e.ip = NoIP /\ e.type = "group"
  <2>1. ResolveEntityCIDRs(db, e, ip) = ResolveGroup(db, e.id)
    BY <1>4 DEF ResolveEntityCIDRs
  <2>2. NoIP \notin {db.peers[q].ip : q \in Members(db, e.id)}
    BY DEF PlainPeer, Members
  <2> QED BY <1>1, <2>1, <2>2 DEF ResolveGroup
<1>5. CASE e.ip = NoIP /\ e.type = "special"
  <2>1. ResolveEntityCIDRs(db, e, ip) = ResolveSpecialTarget(db, e.id, ip)
    BY <1>5 DEF ResolveEntityCIDRs
  <2>2. e.id \in SpecialIDs /\ e.id # "internet"
    BY <1>5 DEF PlainEnd, Special
  <2>3. ip \notin {NoIP, SixIP}
    OBVIOUS
  <2>4. ResolveAllPeers(db).ok
    <3>1. \A q \in DOMAIN db.peers : ValidPeerCIDR(db.peers[q].ip)
      BY DEF PlainPeer, ValidPeerCIDR
    <3> QED BY <1>1, <3>1 DEF ResolveAllPeers
  <2>5. ResolveSpecialTarget(db, e.id, ip) \in
           {Gives({Broadcast}), Gives({Multicast}), Gives({Loopback}), Gives({AnyIP}),
            ResolveAllPeers(db)}
    BY <2>2, <2>3 DEF ResolveSpecialTarget, SpecialIDs, MulticastIDs, BroadcastIDs
  <2> QED BY <1>1, <2>1, <2>4, <2>5
<1> QED BY <1>2, <1>3, <1>4, <1>5 DEF IsEnd

(* A plain policy whose ends and service are there compiles.               *)
LEMMA PlainSingle ==
  ASSUME NEW db, \A q \in DOMAIN db.peers : PlainPeer(db.peers[q]), NEW p \in DOMAIN db.peers,
         NEW pol, IsEnds(pol), PlainPolicy(pol), ~Dangling(db, pol)
  PROVE  SinglePolicy(db, p, pol).ok
<1> DEFINE ip == db.peers[p].ip
           src == ResolveEntityCIDRs(db, pol.src, ip)
           tgt == ResolveEntityCIDRs(db, pol.tgt, ip)
           svc == db.services[pol.svc]
           ws == ScopeFlags(pol.scope, db.peers[p].docker)
           clauses == ClausesOf(db, pol)
<1>1. Failed.ok = FALSE /\ \A v : Gives(v).ok
  BY DEF Failed, Gives
<1>2. ip \notin {NoIP, AnyIP, SixIP}
  BY DEF PlainPeer
<1>3. /\ ~Special(pol.src, {"internet"}) /\ LiveService(db, pol.svc)
      /\ pol.src.type = "peer" => pol.src.id \in DOMAIN db.peers
      /\ pol.tgt.type = "peer" => pol.tgt.id \in DOMAIN db.peers
  BY DEF PlainPolicy, Dangling, NamesMissingPeer
<1> HIDE DEF ip
<1>4. src.ok
  BY <1>2, <1>3, PlainResolves DEF PlainPolicy, IsEnds
<1>5. Special(pol.tgt, {"internet"}) \/ tgt.ok
  BY <1>2, <1>3, PlainResolves DEF PlainPolicy, IsEnds
<1>6. \A rd, cidrs, tracked, mcast :
         WriteRules(pol, clauses, rd, cidrs, ip, ws, tracked, mcast).ok
  BY <1>1, <1>2, WriteIs
<1> DEFINE in == Ingress(db, p, pol)
           out == Egress(db, p, pol)
           T == TargetSection(db, p, pol, svc, clauses, ws)
           U == SourceSection(db, p, pol, svc, clauses, ws)
<1>7. in = T /\ out = U
  BY DEF Ingress, Egress
<1>8. T.ok
  <2>1. \/ T = Gives({})
        \/ /\ \/ Special(pol.src, {"internet"}) /\ T = Failed
              \/ T = Gives(MulticastRule(pol.act, ws))
              \/ T = IF src.ok THEN Gives(BroadcastRule(ws)) ELSE Failed
              \/ T = Gives(IF svc.kind = "multicast" THEN MulticastRule(pol.act, ws)
                           ELSE WriteSetRules(pol, clauses, "target", GroupSet(pol.src.id), ws))
              \/ T = IF ~src.ok THEN Failed
                     ELSE IF svc.kind = "multicast" THEN Gives(MulticastRule(pol.act, ws))
                     ELSE WriteRules(pol, clauses, "target", src.val, ip, ws, svc.ct, FALSE)
    BY TargetForms DEF ip
  <2>2. WriteRules(pol, clauses, "target", src.val, ip, ws, svc.ct, FALSE).ok
    BY <1>6
  <2> HIDE DEF T, src, svc, ws, clauses
  <2> QED BY <1>1, <1>3, <1>4, <2>1, <2>2
<1>9. U.ok
  <2> DEFINE mcast == Special(pol.tgt, MulticastIDs)
             send == IF mcast /\ pol.act = "ACCEPT" THEN MulticastSend(ws) ELSE {}
  <2>1. \/ U = Gives({})
        \/ /\ Special(pol.tgt, {"internet"})
           /\ U = IF ip \in {NoIP, SixIP} THEN Failed ELSE Gives(BuildInternetRules(pol, clauses, ws))
        \/ U = Gives(IF svc.kind = "multicast" THEN {}
                     ELSE WriteSetRules(pol, clauses, "source", GroupSet(pol.tgt.id), ws))
        \/ /\ ~Special(pol.tgt, {"internet"})
           /\ U = IF ~tgt.ok THEN Failed
                  ELSE IF svc.kind = "multicast" THEN Gives(send)
                  ELSE WriteRules(pol, clauses, "source", tgt.val, ip, ws, svc.ct, mcast)
    BY SourceForms DEF ip
  <2>2. WriteRules(pol, clauses, "source", tgt.val, ip, ws, svc.ct, mcast).ok
    BY <1>6
  <2> HIDE DEF U, tgt, svc, ws, clauses, mcast, send
  <2> QED BY <1>1, <1>2, <1>5, <2>1, <2>2
<1> DEFINE kind == svc.kind
           both == IF in.ok /\ out.ok THEN Gives(in.val \cup out.val) ELSE Failed
           all == CASE kind = "igmp" -> Gives(IF "host" \in ws THEN IGMPRules(ws) ELSE {})
                    [] kind = "vrrp" -> Gives(IF "host" \in ws THEN VRRPRules(ws) ELSE {})
                    [] OTHER -> both
<1>10. SinglePolicy(db, p, pol) = CASE ~LiveService(db, pol.svc) -> Failed [] OTHER -> all
  BY DEF SinglePolicy, Ingress, Egress, ClausesOf, ip
<1>11. both.ok
  <2> HIDE DEF T, U
  <2> QED BY <1>1, <1>7, <1>8, <1>9
<1> HIDE DEF both, ws, svc
<1>12. all.ok
  <2>1. \/ all = Gives(IF "host" \in ws THEN IGMPRules(ws) ELSE {})
        \/ all = Gives(IF "host" \in ws THEN VRRPRules(ws) ELSE {})
        \/ all = both
    OBVIOUS
  <2> HIDE DEF all
  <2> QED BY <1>1, <1>11, <2>1
<1> HIDE DEF all
<1> QED BY <1>3, <1>10, <1>12

(* Where nothing dangles and all rows are plain, everything compiles and   *)
(* the peers of every policy are known.                                    *)
LEMMA InvUsable == TypeInv /\ BaseInv /\ PlainInv => Usable
<1> SUFFICES ASSUME TypeInv, BaseInv, PlainInv, ~forced
             PROVE  /\ \A n \in LivePolicies : GetAffectedPeersByPolicy(d, n).ok
                    /\ \A p \in Peer : Compile(d, p).ok
  BY DEF Usable
<1>1. ASSUME NEW n \in LivePolicies
      PROVE  ~Dangling(d, d.policies[n]) /\ IsEnds(d.policies[n])
  BY TypeEnds DEF BaseInv, NothingDangling, TypeInv, LivePolicies
<1>2. ASSUME NEW n \in LivePolicies PROVE GetAffectedPeersByPolicy(d, n).ok
  <2> DEFINE pol == d.policies[n]
  <2>1. EndPeers(d, pol.src).ok /\ EndPeers(d, pol.tgt).ok
    <3>1. ASSUME NEW e \in {pol.src, pol.tgt} PROVE EndPeers(d, e).ok
      BY <1>1 DEF EndPeers, Dangling, NamesMissingPeer, IsEnds, IsEnd, Gives
    <3> QED BY <3>1
  <2>2. n \in DOMAIN d.policies /\ ~pol.del
    BY DEF LivePolicies
  <2> QED BY <2>1, <2>2 DEF GetAffectedPeersByPolicy, Gives
<1>3. ASSUME NEW p \in Peer PROVE Compile(d, p).ok
  <2> DEFINE names == LoadApplicablePolicies(d, p)
  <2>1. \A q \in DOMAIN d.peers : PlainPeer(d.peers[q])
    BY DEF PlainInv, Peer
  <2>2. IPSetsFit(d, p, names)
    BY <2>1 DEF IPSetsFit, Members, PlainPeer
  <2>3. ASSUME NEW n \in names PROVE SinglePolicy(d, p, d.policies[n]).ok
    <3>1. n \in LivePolicies /\ PlainPolicy(d.policies[n])
      BY DEF LoadApplicablePolicies, Applicable, LivePolicies, PlainInv
    <3> QED BY <1>1, <2>1, <3>1, PlainSingle DEF Peer
  <2> QED BY <2>2, <2>3 DEF Compile
<1> QED BY <1>2, <1>3

(* Whatever the rows are: edits, deletions of what is not in use, the      *)
(* worker, approvals of a peer or of one change with their cleanup, and a  *)
(* rollback of everything (as long as no change was approved alone since   *)
(* the last cleanup) never leave a live policy that refers to a service,   *)
(* group or peer that is gone (handlers' in-use checks,                    *)
(* ApplyEntityPendingChanges, RollbackSnapshots of rollback.go).           *)
THEOREM NothingDangles == Spec => [](~forced => NothingDangling)
<1>1. TypeInv /\ BaseInv => (~forced => NothingDangling)
  BY DEF BaseInv
<1>2. Init => TypeInv /\ BaseInv
  BY InitType, InitBase
<1>3. TypeInv /\ StaleIsPending /\ BaseInv /\ [Next]_vars => TypeInv' /\ StaleIsPending' /\ BaseInv'
  BY NextStep, StepBase
<1> QED BY <1>1, <1>2, <1>3, InitType, PTL DEF Spec

(* For plain rows every policy can then be edited and deleted, and every   *)
(* peer compiled.                                                          *)
THEOREM StaysUsable == ASSUME PlainRows PROVE Spec => []Usable
<1>1. Init => TypeInv /\ StaleIsPending /\ BaseInv /\ PlainInv
  BY InitType, InitBase, InitPlain
<1>2. TypeInv /\ StaleIsPending /\ BaseInv /\ PlainInv /\ [Next]_vars
        => TypeInv' /\ StaleIsPending' /\ BaseInv' /\ PlainInv'
  BY NextStep, StepBase, StepPlain
<1> QED BY <1>1, <1>2, InvUsable, PTL DEF Spec

=============================================================================
