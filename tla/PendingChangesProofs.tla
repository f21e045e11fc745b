------------------------ MODULE PendingChangesProofs ------------------------
(***************************************************************************)
(* Proofs about PendingChanges for every set of peers and policies and     *)
(* every bound on edits and faults, for requests that do not overlap       *)
(* (Single).  With overlapping requests TLC finds a counterexample of each *)
(* of the three, with two processes and no failure.                        *)
(*                                                                         *)
(* RollbackRestores needs little: a policy without a row has no snapshot,  *)
(* and neither has one that was inserted a moment ago.  NoSilentLoss has   *)
(* to be said of each policy by itself (LossInv): a rollback of one policy *)
(* deletes the rows of that policy only, so a peer that is stale for       *)
(* another must have a row for that one.  Rollbackable has to be said of   *)
(* the rows that the worker has yet to insert too.                         *)
(***************************************************************************)
EXTENDS PendingChanges, TLAPS

(* Requests, and the push worker, do not overlap.                          *)
Single == \A g, h \in Procs : g = h

(* What a process works on, by where it is.                                *)
Editing == {"created", "mutate", "resolve", "queue"}
Approving == {"compile", "store", "clear", "cleanup"}

Shape(j) ==
  /\ j.pc \in Editing => \E q \in Policies : j.pol = {q}
  /\ j.pc = "mutate" => j.op \in {"update", "delete"}
  /\ j.pc \in {"store", "clear"} => \E p \in Peers : j.old = {p}
  /\ j.pc \in {"compile", "store", "clear"} /\ j.op = "apply_entity" =>
       \E q \in Policies : j.pol = {q}

ShapeInv == \A h \in Procs : Shape(job[h])

(* An edit that nobody disturbs: what it has read is still so.             *)
EditInv ==
  \A h \in Procs, q \in Policies : job[h].pol = {q} =>
    /\ job[h].pc = "created" =>
         /\ job[h].old = {} /\ policy[q].state = "live"
         /\ snap[q] = NoSnap /\ base[q] = Unused
    /\ job[h].pc = "mutate" => job[h].old = policy[q].peers
    /\ job[h].pc \in {"resolve", "queue"} => snap[q] # NoSnap
    /\ job[h].pc = "queue" => policy[q].peers \subseteq job[h].old

(* An approval that nobody disturbs: what it has compiled is current.      *)
ApproveInv ==
  \A h \in Procs, p \in Peers : job[h].old = {p} =>
    /\ job[h].pc = "store" => job[h].read = Rules(p)
    /\ job[h].pc = "clear" => bundle[p] = Rules(p)

(* Nothing is queued during an approval.                                   *)
QuietInv == \A h \in Procs : job[h].pc \in Approving => Hasty \/ queued = {}

(* The rows of pending_changes, also those not inserted yet, can be undone.*)
KeptInv ==
  ~ Hasty => \A p \in Peers, q \in Policies :
    <<p, q>> \in pending \cup queued => snap[q] # NoSnap \/ q \in split

(* Rolling back gives what was last approved, but for the policy that was  *)
(* inserted a moment ago.                                                  *)
RestoresInv ==
  \A q \in Policies :
    /\ policy[q] = Unused => snap[q] = NoSnap
    /\ \/ \E h \in Procs : job[h].pc = "created" /\ job[h].pol = {q}
       \/ Restored(q) = base[q]
       \/ Restored(q) = Gone /\ base[q] = Unused

(* Of one peer and one policy: the bundle has what the policy contributes. *)
Contributes(table, p, q, n) ==
  table[q].state = "live" /\ p \in table[q].peers /\ n = table[q].rev
UpToDate(p, q) ==
  \A n \in 0..MaxEdits : <<q, n>> \in bundle[p] <=> Contributes(policy, p, q, n)

(* The process has changed q and has yet to queue the row of p.            *)
Owes(h, p, q) ==
  /\ job[h].pc \in {"created", "resolve", "queue"} /\ job[h].pol = {q}
  /\ p \in job[h].old \cup policy[q].peers

LossInv ==
  \A p \in Peers \ (reported \cup undone \cup dropped), q \in Policies :
    UpToDate(p, q) \/ <<p, q>> \in pending \cup queued \/ \E h \in Procs : Owes(h, p, q)

(* The inductive invariant.                                                *)
SingleInv == EditInv /\ ApproveInv /\ QuietInv /\ KeptInv /\ RestoresInv /\ LossInv
IInv == TypeOK /\ ShapeInv /\ (Single => SingleInv)

(***************************************************************************)
(* Lemmas on bundles and jobs                                              *)
(***************************************************************************)

(* What Compile gives, of one policy.                                      *)
LEMMA RulesMember ==
  ASSUME NEW table, NEW p, NEW q, NEW n
  PROVE  <<q, n>> \in RulesOf(table, p) <=> q \in Policies /\ Contributes(table, p, q, n)
BY DEF RulesOf, Contributes

(* It is of the right type for the table of policies.                      *)
LEMMA RulesType ==
  ASSUME NEW table \in [Policies -> Rows], NEW p
  PROVE  RulesOf(table, p) \in SUBSET Content
<1> SUFFICES ASSUME NEW q \in Policies, table[q].state = "live" PROVE table[q].rev \in 0..MaxEdits
  BY DEF RulesOf, Content
<1>1. table[q] \in Rows
  OBVIOUS
<1> QED  BY <1>1 DEF Rows, LiveRows, Row, Unused, Gone

(* A bundle that was just compiled is up to date with every policy.        *)
LEMMA CompiledUpToDate ==
  ASSUME NEW p, bundle[p] = Rules(p), NEW q \in Policies
  PROVE  UpToDate(p, q)
BY RulesMember DEF UpToDate, Rules

(* A bundle that is up to date with every policy is what Compile gives.    *)
LEMMA UpToDateCompiled ==
  ASSUME TypeOK, NEW p \in Peers, \A q \in Policies : UpToDate(p, q)
  PROVE  bundle[p] = Rules(p)
<1>1. bundle[p] \in SUBSET Content /\ Rules(p) \in SUBSET Content
  BY RulesType DEF TypeOK, Rules
<1>2. ASSUME NEW c \in Content
      PROVE  c \in bundle[p] <=> c \in Rules(p)
  <2>1. PICK q \in Policies, n \in 0..MaxEdits : c = <<q, n>>
    BY DEF Content
  <2> QED  BY <2>1, RulesMember DEF UpToDate, Rules
<1> QED  BY <1>1, <1>2

(* The policy a process works on.                                          *)
LEMMA PolIs ==
  ASSUME NEW h, NEW q, job[h].pol = {q}
  PROVE  Pol(h) = q
BY DEF Pol

(* A process is in another state, all others where they were.              *)
Moved(h) == \A g \in Procs : g # h => job'[g] = job[g]

(* A process is set to a new state.                                        *)
LEMMA JobSet ==
  ASSUME TypeOK, NEW h \in Procs, NEW j \in JobStates, job' = [job EXCEPT ![h] = j]
  PROVE  job' \in [Procs -> JobStates] /\ job'[h] = j /\ Moved(h)
BY DEF TypeOK, Moved

(* A process without a request.                                            *)
LEMMA IdleState ==
  /\ Idle \in JobStates /\ Shape(Idle)
  /\ Idle.pc = "idle" /\ Idle.pol = {} /\ Idle.old = {}
BY DEF Idle, JobStates, Shape, Editing

(* A process ends its request.                                             *)
LEMMA EndJob ==
  ASSUME TypeOK, NEW h \in Procs, End(h)
  PROVE  job' \in [Procs -> JobStates] /\ job'[h] = Idle /\ Moved(h)
BY JobSet, IdleState DEF End

(* A process goes on with its request.                                     *)
LEMMA GotoJob ==
  ASSUME TypeOK, NEW h \in Procs,
         NEW pc \in {"resolve", "queue", "clear", "cleanup"}, Goto(h, pc)
  PROVE  /\ job' \in [Procs -> JobStates] /\ Moved(h)
         /\ job'[h].pc = pc /\ job'[h].op = job[h].op /\ job'[h].pol = job[h].pol
         /\ job'[h].old = job[h].old
<1>1. job[h] \in JobStates /\ job \in [Procs -> JobStates]
  BY DEF TypeOK
<1>2. PICK j : j = [job[h] EXCEPT !.pc = pc]
  OBVIOUS
<1>3. j = [pc |-> pc, op |-> job[h].op, pol |-> job[h].pol, old |-> job[h].old,
           new |-> job[h].new, read |-> job[h].read]
  BY <1>1, <1>2 DEF JobStates
<1>4. j \in JobStates
  BY <1>1, <1>3 DEF JobStates
<1>5. job' = [job EXCEPT ![h] = j]
  BY <1>1, <1>2 DEF Goto
<1> QED  BY <1>3, <1>4, <1>5, JobSet

(* A process is through with a peer of its approval.                       *)
Onward(h) ==
  /\ job' \in [Procs -> JobStates] /\ Moved(h)
  /\ job'[h].pc \in {"compile", "cleanup", "idle"}
  /\ Shape(job'[h])

(* It goes on with the next peer, to the cleanup, or ends.                 *)
LEMMA NextPeerJob ==
  ASSUME TypeOK, NEW h \in Procs, job[h].pc \in {"compile", "store", "clear"}, Shape(job[h]),
         NEW rest \in SUBSET Peers, NextPeer(h, rest)
  PROVE  Onward(h)
<1>1. job[h] \in JobStates /\ job \in [Procs -> JobStates]
  BY DEF TypeOK
<1>2. CASE rest # {}
  <2>1. PICK j : j = [job[h] EXCEPT !.pc = "compile", !.old = {}, !.read = {}, !.new = rest]
    OBVIOUS
  <2>2. j = [pc |-> "compile", op |-> job[h].op, pol |-> job[h].pol, old |-> {},
             new |-> rest, read |-> {}]
    BY <1>1, <2>1 DEF JobStates
  <2>3. j \in JobStates
    BY <1>1, <2>2 DEF JobStates
  <2>4. job' = [job EXCEPT ![h] = j]
    BY <1>2, <2>1 DEF NextPeer
  <2>5. job' \in [Procs -> JobStates] /\ job'[h] = j /\ Moved(h)
    BY <2>3, <2>4, JobSet
  <2>6. Shape(j)
    BY <2>2 DEF Shape, Editing
  <2> QED  BY <2>2, <2>5, <2>6 DEF Onward
<1>3. CASE rest = {} /\ job[h].op \in {"apply", "apply_all"}
  <2>1. Goto(h, "cleanup")
    BY <1>3 DEF NextPeer
  <2>2. job' \in [Procs -> JobStates] /\ Moved(h) /\ job'[h].pc = "cleanup"
    BY <2>1, GotoJob
  <2> QED  BY <2>2 DEF Onward, Shape, Editing
<1>4. CASE rest = {} /\ job[h].op \notin {"apply", "apply_all"}
  <2>1. End(h)
    BY <1>4 DEF NextPeer
  <2> QED  BY <2>1, EndJob, IdleState DEF Onward
<1> QED  BY <1>2, <1>3, <1>4

(* The same after a failure.                                               *)
LEMMA GivesUpJob ==
  ASSUME TypeOK, NEW h \in Procs, job[h].pc \in {"compile", "store", "clear"}, Shape(job[h]),
         NEW rest \in SUBSET Peers, GivesUp(h, rest)
  PROVE  Onward(h)
<1>1. CASE job[h].op = "apply"
  BY <1>1, EndJob, IdleState DEF GivesUp, Onward
<1>2. CASE job[h].op # "apply"
  BY <1>2, NextPeerJob DEF GivesUp
<1> QED  BY <1>1, <1>2

(* The others keep their shape.                                            *)
LEMMA ShapeKept ==
  ASSUME ShapeInv, NEW h \in Procs, Moved(h), Shape(job'[h])
  PROVE  ShapeInv'
BY DEF ShapeInv, Moved, Shape

(***************************************************************************)
(* Lemmas on what a step leaves alone                                      *)
(***************************************************************************)

(* Without a snapshot rolling back leaves a policy as it is.               *)
LEMMA Unsnapped ==
  ASSUME NEW q, snap[q] = NoSnap
  PROVE  Restored(q) = policy[q]
BY DEF Restored, NoSnap

(* A step that leaves policies, snapshots and approved rows alone.         *)
LEMMA RestoresKept ==
  ASSUME RestoresInv, policy' = policy, snap' = snap, base' = base,
         \A h \in Procs : job[h].pc # "created"
  PROVE  RestoresInv'
<1>1. \A q \in Policies : Restored(q)' = Restored(q)
  BY DEF Restored
<1> QED  BY <1>1 DEF RestoresInv

(* A step that adds no rows and deletes no snapshots.                      *)
LEMMA KeptKept ==
  ASSUME KeptInv, snap' = snap, split' = split,
         pending' \cup queued' \subseteq pending \cup queued
  PROVE  KeptInv'
BY DEF KeptInv

(* A step that changes neither policies nor bundles, and deletes no rows.  *)
LEMMA LossKept ==
  ASSUME LossInv, policy' = policy, bundle' = bundle,
         reported \cup undone \cup dropped \subseteq reported' \cup undone' \cup dropped',
         pending \cup queued \subseteq pending' \cup queued',
         \A h \in Procs, p \in Peers, q \in Policies : Owes(h, p, q) =>
           \/ p \in reported' \cup undone' \cup dropped' \/ <<p, q>> \in pending' \cup queued'
           \/ \E g \in Procs : Owes(g, p, q)'
  PROVE  LossInv'
<1>1. \A p \in Peers, q \in Policies : UpToDate(p, q) => UpToDate(p, q)'
  BY DEF UpToDate, Contributes
<1> QED  BY <1>1 DEF LossInv

(* A fault, or none, is within its bound.                                  *)
LEMMA FaultType ==
  ASSUME faults \in 0..MaxFaults, (\E kind : Fault(kind)) \/ faults' = faults
  PROVE  faults' \in 0..MaxFaults
BY PendingChangesAssumption DEF Fault

(* A process that owes no row moves and writes nothing.                    *)
LEMMA MoveStep ==
  ASSUME IInv, NEW h \in Procs, job[h].pc \notin {"created", "resolve", "queue"},
         UNCHANGED <<tables, queued, edits, history>>,
         job' \in [Procs -> JobStates], Moved(h), Shape(job'[h]), faults' \in 0..MaxFaults,
         Single => EditInv' /\ ApproveInv' /\ QuietInv'
  PROVE  IInv'
<1> USE DEF IInv
<1>1. TypeOK'
  BY DEF TypeOK, tables, history
<1>2. ShapeInv'
  BY ShapeKept
<1>3. ASSUME Single PROVE SingleInv'
  <2>1. \A g \in Procs : g = h
    BY <1>3 DEF Single
  <2>2. RestoresInv'
    BY <1>3, <2>1, RestoresKept DEF SingleInv, tables, history
  <2>3. KeptInv'
    BY <1>3, KeptKept DEF SingleInv, tables, history
  <2>4. \A g \in Procs, p \in Peers, q \in Policies : ~ Owes(g, p, q)
    BY <2>1 DEF Owes
  <2>5. LossInv'
    BY <1>3, <2>4, LossKept DEF SingleInv, tables, history
  <2> QED  BY <1>3, <2>2, <2>3, <2>5 DEF SingleInv
<1> QED  BY <1>1, <1>2, <1>3

(* A process that comes to where nothing is expected of the tables.        *)
LEMMA RestingInv ==
  ASSUME NEW h \in Procs, Single,
         job'[h].pc \in {"idle", "compile", "cleanup"},
         job'[h].pc = "idle" \/ Hasty \/ queued' = {}
  PROVE  EditInv' /\ ApproveInv' /\ QuietInv'
<1>1. \A g \in Procs : g = h
  BY DEF Single
<1> QED  BY <1>1 DEF EditInv, ApproveInv, QuietInv, Approving

(***************************************************************************)
(* The steps of an edit                                                    *)
(***************************************************************************)

(* A row of the table with a new content.                                  *)
LEMMA LiveRow ==
  ASSUME NEW n \in 0..MaxEdits, NEW peers \in SUBSET Peers
  PROVE  /\ Row("live", n, peers) \in LiveRows /\ Row("live", n, peers) \in Rows
         /\ Row("live", n, peers).state = "live" /\ Row("live", n, peers).rev = n
         /\ Row("live", n, peers).peers = peers
BY DEF Row, LiveRows, Rows

(* CreatePolicy inserts a row.                                             *)
LEMMA CreateStep ==
  ASSUME IInv, NEW h \in Procs, NEW q \in Policies, NEW peers \in Scopes,
         CreatePolicy(h, q, peers)
  PROVE  IInv'
<1> USE DEF IInv
<1>1. /\ edits < MaxEdits /\ policy[q] = Unused /\ job[h].pc = "idle"
      /\ edits' = edits + 1
      /\ UNCHANGED <<snap, pending, bundle, queued, history, faults>>
  BY DEF CreatePolicy, Begins
<1>2. PICK row : row = Row("live", edits + 1, peers) /\ policy' = [policy EXCEPT ![q] = row]
  BY DEF CreatePolicy
<1>3. edits' \in 0..MaxEdits /\ peers \in SUBSET Peers
  BY <1>1, PendingChangesAssumption DEF TypeOK
<1>4. row \in Rows /\ row.state = "live" /\ row.peers = peers
  BY <1>1, <1>2, <1>3, LiveRow
<1>5. PICK j : j = [Idle EXCEPT !.pc = "created", !.op = "create", !.pol = {q}]
               /\ job' = [job EXCEPT ![h] = j]
  BY DEF CreatePolicy, Begins
<1>6. j = [pc |-> "created", op |-> "create", pol |-> {q}, old |-> {}, new |-> {}, read |-> {}]
  BY <1>5 DEF Idle
<1>7. j \in JobStates
  BY <1>6 DEF JobStates, Edits
<1>8. job' \in [Procs -> JobStates] /\ job'[h] = j /\ Moved(h)
  BY <1>5, <1>7, JobSet
<1>9. policy' \in [Policies -> Rows] /\ policy'[q] = row
      /\ \A r \in Policies : r # q => policy'[r] = policy[r]
  BY <1>2, <1>4 DEF TypeOK
<1>10. TypeOK'
  BY <1>1, <1>3, <1>8, <1>9 DEF TypeOK, history
<1>11. Shape(j)
  BY <1>6 DEF Shape
<1>12. ShapeInv'
  BY <1>8, <1>11, ShapeKept
<1>13. ASSUME Single PROVE SingleInv'
  <2>1. \A g \in Procs : g = h
    BY <1>13 DEF Single
  <2>2. snap[q] = NoSnap /\ Restored(q) = Unused
    <3>1. snap[q] = NoSnap
      BY <1>1, <1>13 DEF SingleInv, RestoresInv
    <3>2. Restored(q) = policy[q]
      BY <3>1, Unsnapped
    <3> QED  BY <3>1, <3>2, <1>1
  <2>3. base[q] = Unused
    BY <2>1, <2>2, <1>1, <1>13 DEF SingleInv, RestoresInv, Unused, Gone, Row
  <2>4. EditInv'
    BY <2>1, <2>2, <2>3, <1>1, <1>4, <1>6, <1>8, <1>9 DEF EditInv, history
  <2>5. ApproveInv' /\ QuietInv'
    BY <2>1, <1>6, <1>8 DEF ApproveInv, QuietInv, Approving
  <2>6. KeptInv'
    BY <1>1, <1>13, KeptKept DEF SingleInv, history
  <2>7. RestoresInv'
    <3> SUFFICES ASSUME NEW r \in Policies
                 PROVE  /\ policy'[r] = Unused => snap'[r] = NoSnap
                        /\ \/ \E g \in Procs : job'[g].pc = "created" /\ job'[g].pol = {r}
                           \/ Restored(r)' = base'[r]
                           \/ Restored(r)' = Gone /\ base'[r] = Unused
      BY DEF RestoresInv
    <3>1. CASE r = q
      BY <3>1, <2>2, <1>1, <1>6, <1>8
    <3>2. CASE r # q
      <4>1. Restored(r)' = Restored(r)
        BY <3>2, <1>1, <1>9 DEF Restored
      <4> QED  BY <4>1, <3>2, <2>1, <1>1, <1>9, <1>13 DEF SingleInv, RestoresInv, history
    <3> QED  BY <3>1, <3>2
  <2>8. LossInv'
    <3> SUFFICES ASSUME NEW p \in Peers \ (reported \cup undone \cup dropped), NEW r \in Policies
                 PROVE  \/ UpToDate(p, r)' \/ <<p, r>> \in pending \cup queued
                        \/ \E g \in Procs : Owes(g, p, r)'
      BY <1>1 DEF LossInv, history
    <3>1. UpToDate(p, r) \/ <<p, r>> \in pending \cup queued
      BY <2>1, <1>1, <1>13 DEF SingleInv, LossInv, Owes
    <3>2. CASE r # q
      <4>1. UpToDate(p, r) => UpToDate(p, r)'
        BY <3>2, <1>1, <1>9 DEF UpToDate, Contributes
      <4> QED  BY <3>1, <4>1
    <3>3. CASE r = q /\ p \in peers
      <4>1. Owes(h, p, r)'
        BY <3>3, <1>4, <1>6, <1>8, <1>9 DEF Owes
      <4> QED  BY <4>1
    <3>4. CASE r = q /\ p \notin peers
      <4>1. UpToDate(p, r) => UpToDate(p, r)'
        BY <3>4, <1>1, <1>4, <1>9 DEF UpToDate, Contributes, Unused, Row
      <4> QED  BY <3>1, <4>1
    <3> QED  BY <3>2, <3>3, <3>4
  <2> QED  BY <2>4, <2>5, <2>6, <2>7, <2>8 DEF SingleInv
<1> QED  BY <1>10, <1>12, <1>13

(* CreatePolicy takes its snapshot.                                        *)
LEMMA SnapshotStep ==
  ASSUME IInv, NEW h \in Procs, Snapshot(h)
  PROVE  IInv'
<1> USE DEF IInv
<1>1. job[h].pc = "created" /\ UNCHANGED <<policy, pending, bundle, queued, edits, history, faults>>
  BY DEF Snapshot
<1>2. PICK q \in Policies : job[h].pol = {q}
  BY <1>1 DEF ShapeInv, Shape, Editing
<1>3. /\ job' \in [Procs -> JobStates] /\ Moved(h)
      /\ job'[h].pc = "resolve" /\ job'[h].pol = {q} /\ job'[h].old = job[h].old
  BY <1>2, GotoJob DEF Snapshot
<1>4. PICK made : made = [action |-> "create", row |-> Unused]
                  /\ snap' = IF snap[q] # NoSnap THEN snap ELSE [snap EXCEPT ![q] = made]
  BY <1>2, PolIs DEF Snapshot, WithSnapshot
<1>5. made \in Snaps /\ made # NoSnap
  BY <1>4 DEF Snaps, NoSnap
<1>6. snap' \in [Policies -> Snaps] /\ snap'[q] # NoSnap
      /\ \A r \in Policies : r # q => snap'[r] = snap[r]
  BY <1>4, <1>5 DEF TypeOK
<1>7. TypeOK'
  BY <1>1, <1>3, <1>6 DEF TypeOK, history
<1>8. Shape(job'[h])
  BY <1>3 DEF Shape
<1>9. ShapeInv'
  BY <1>3, <1>8, ShapeKept
<1>10. ASSUME Single PROVE SingleInv'
  <2>1. \A g \in Procs : g = h
    BY <1>10 DEF Single
  <2>2. policy[q].state = "live" /\ snap[q] = NoSnap /\ base[q] = Unused
    BY <1>1, <1>2, <1>10 DEF SingleInv, EditInv
  <2>3. snap'[q] = made
    BY <1>4, <2>2 DEF TypeOK
  <2>4. EditInv'
    BY <2>1, <1>3, <1>6 DEF EditInv
  <2>5. ApproveInv' /\ QuietInv'
    BY <2>1, <1>3 DEF ApproveInv, QuietInv, Approving
  <2>6. KeptInv'
    BY <1>1, <1>6, <1>10 DEF SingleInv, KeptInv, history
  <2>7. RestoresInv'
    <3> SUFFICES ASSUME NEW r \in Policies
                 PROVE  /\ policy'[r] = Unused => snap'[r] = NoSnap
                        /\ \/ Restored(r)' = base'[r]
                           \/ Restored(r)' = Gone /\ base'[r] = Unused
      BY DEF RestoresInv
    <3>1. CASE r = q
      <4>1. Restored(q)' = Gone
        BY <2>3, <1>4, <1>5 DEF Restored
      <4> QED  BY <4>1, <3>1, <2>2, <1>1 DEF history, Unused, Row
    <3>2. CASE r # q
      <4>1. Restored(r)' = Restored(r)
        BY <3>2, <1>1, <1>6 DEF Restored
      <4>2. \A g \in Procs : job[g].pol # {r}
        BY <2>1, <3>2, <1>2
      <4> QED  BY <4>1, <4>2, <3>2, <1>1, <1>6, <1>10 DEF SingleInv, RestoresInv, history
    <3> QED  BY <3>1, <3>2
  <2>8. \A g \in Procs, p \in Peers, r \in Policies : Owes(g, p, r) => Owes(g, p, r)'
    BY <2>1, <1>1, <1>2, <1>3 DEF Owes
  <2>9. LossInv'
    BY <2>8, <1>1, <1>10, LossKept DEF SingleInv, history
  <2> QED  BY <2>4, <2>5, <2>6, <2>7, <2>9 DEF SingleInv
<1> QED  BY <1>7, <1>9, <1>10


(* The snapshot of CreatePolicy fails.                                     *)
LEMMA SnapshotFailsStep ==
  ASSUME IInv, NEW h \in Procs, SnapshotFails(h)
  PROVE  IInv'
<1> USE DEF IInv
<1>1. /\ job[h].pc = "created" /\ End(h) /\ Fault("snapshot")
      /\ UNCHANGED <<tables, queued, edits, split, dropped, undone>>
  BY DEF SnapshotFails
<1>2. PICK q \in Policies : job[h].pol = {q}
  BY <1>1 DEF ShapeInv, Shape, Editing
<1>3. job' \in [Procs -> JobStates] /\ job'[h] = Idle /\ Moved(h)
  BY <1>1, EndJob
<1>4. base' = [base EXCEPT ![q] = policy[q]] /\ reported' = reported \cup policy[q].peers
  BY <1>2, PolIs DEF SnapshotFails
<1>5. policy[q] \in Rows /\ policy[q].peers \subseteq Peers
  BY DEF TypeOK, Rows, LiveRows, Unused, Gone, Row
<1>6. faults' \in 0..MaxFaults
  BY <1>1, FaultType DEF TypeOK
<1>7. base' \in [Policies -> Rows] /\ base'[q] = policy[q]
      /\ \A r \in Policies : r # q => base'[r] = base[r]
  BY <1>4, <1>5 DEF TypeOK
<1>8. TypeOK'
  BY <1>1, <1>3, <1>4, <1>5, <1>6, <1>7 DEF TypeOK, tables
<1>9. ShapeInv'
  BY <1>3, IdleState, ShapeKept
<1>10. ASSUME Single PROVE SingleInv'
  <2>1. \A g \in Procs : g = h
    BY <1>10 DEF Single
  <2>2. job[h].old = {} /\ policy[q].state = "live" /\ snap[q] = NoSnap
    BY <1>1, <1>2, <1>10 DEF SingleInv, EditInv
  <2>3. EditInv' /\ ApproveInv' /\ QuietInv'
    BY <1>3, <1>10, IdleState, RestingInv
  <2>4. KeptInv'
    BY <1>1, <1>10, KeptKept DEF SingleInv, tables
  <2>5. RestoresInv'
    <3> SUFFICES ASSUME NEW r \in Policies
                 PROVE  /\ policy'[r] = Unused => snap'[r] = NoSnap
                        /\ \/ Restored(r)' = base'[r]
                           \/ Restored(r)' = Gone /\ base'[r] = Unused
      BY DEF RestoresInv
    <3>1. Restored(r)' = Restored(r)
      BY <1>1 DEF Restored, tables
    <3>2. CASE r = q
      <4>1. Restored(q) = policy[q]
        BY <2>2, Unsnapped
      <4> QED  BY <4>1, <3>1, <3>2, <2>2, <1>1, <1>7 DEF tables
    <3>3. CASE r # q
      <4>1. \A g \in Procs : job[g].pol # {r}
        BY <2>1, <3>3, <1>2
      <4> QED  BY <4>1, <3>1, <3>3, <1>1, <1>7, <1>10 DEF SingleInv, RestoresInv, tables
    <3> QED  BY <3>2, <3>3
  <2>6. \A g \in Procs, p \in Peers, r \in Policies : Owes(g, p, r) => p \in reported'
    BY <2>1, <2>2, <1>2, <1>4 DEF Owes
  <2>7. LossInv'
    BY <2>6, <1>1, <1>4, <1>10, LossKept DEF SingleInv, tables
  <2> QED  BY <2>3, <2>4, <2>5, <2>7 DEF SingleInv
<1> QED  BY <1>8, <1>9, <1>10

(* An update or deletion begins.                                           *)
LEMMA EditPolicyStep ==
  ASSUME IInv, NEW h \in Procs, NEW q \in Policies, NEW op \in {"update", "delete"},
         NEW peers \in SUBSET Peers, EditPolicy(h, q, op, peers)
  PROVE  IInv'
<1> USE DEF IInv
<1>1. /\ policy[q].state = "live" /\ job[h].pc = "idle"
      /\ UNCHANGED <<tables, queued, edits, history, faults>>
  BY DEF EditPolicy, Begins
<1>2. PICK j : j = [Idle EXCEPT !.pc = "mutate", !.op = op, !.pol = {q},
                                !.old = policy[q].peers, !.new = peers]
               /\ job' = [job EXCEPT ![h] = j]
  BY DEF EditPolicy, Begins
<1>3. j = [pc |-> "mutate", op |-> op, pol |-> {q}, old |-> policy[q].peers,
           new |-> peers, read |-> {}]
  BY <1>2 DEF Idle
<1>4. policy[q].peers \subseteq Peers
  BY DEF TypeOK, Rows, LiveRows, Unused, Gone, Row
<1>5. j \in JobStates
  BY <1>3, <1>4 DEF JobStates, Edits
<1>6. job' \in [Procs -> JobStates] /\ job'[h] = j /\ Moved(h)
  BY <1>2, <1>5, JobSet
<1>7. Shape(j)
  BY <1>3 DEF Shape
<1>8. ASSUME Single PROVE EditInv' /\ ApproveInv' /\ QuietInv'
  <2>1. \A g \in Procs : g = h
    BY <1>8 DEF Single
  <2>2. EditInv'
    BY <2>1, <1>1, <1>3, <1>6 DEF EditInv, tables
  <2>3. ApproveInv' /\ QuietInv'
    BY <2>1, <1>3, <1>6 DEF ApproveInv, QuietInv, Approving
  <2> QED  BY <2>2, <2>3
<1>9. faults' \in 0..MaxFaults
  BY <1>1 DEF TypeOK
<1> QED  BY <1>1, <1>6, <1>7, <1>8, <1>9, MoveStep

(* A request that ends without having written anything.                    *)
LEMMA MutateFailsStep ==
  ASSUME IInv, NEW h \in Procs, MutateFails(h)
  PROVE  IInv'
<1> USE DEF IInv
<1>1. /\ job[h].pc = "mutate" /\ End(h) /\ UNCHANGED <<tables, queued, edits, history>>
      /\ (Fault("mutate") \/ faults' = faults)
  BY DEF MutateFails
<1>2. job' \in [Procs -> JobStates] /\ job'[h] = Idle /\ Moved(h)
  BY <1>1, EndJob
<1>3. faults' \in 0..MaxFaults
  BY <1>1, FaultType DEF TypeOK
<1>4. Single => EditInv' /\ ApproveInv' /\ QuietInv'
  BY <1>2, IdleState, RestingInv
<1> QED  BY <1>1, <1>2, <1>3, <1>4, IdleState, MoveStep

(* The transaction of an update or deletion.                               *)
LEMMA MutateStep ==
  ASSUME IInv, NEW h \in Procs, Mutate(h)
  PROVE  IInv'
<1> USE DEF IInv
<1>1. job[h].pc = "mutate" /\ edits < MaxEdits /\ edits' = edits + 1
      /\ UNCHANGED <<pending, bundle, queued, history, faults>>
  BY DEF Mutate
<1>2. PICK q \in Policies : job[h].pol = {q}
  BY <1>1 DEF ShapeInv, Shape, Editing
<1>3. PICK op : op = job[h].op
  OBVIOUS
<1>4. op \in {"update", "delete"} /\ job[h].new \in SUBSET Peers
  BY <1>1, <1>3 DEF ShapeInv, Shape, TypeOK, JobStates
<1>5. PICK pc : pc = (IF op = "delete" THEN "queue" ELSE "resolve") /\ Goto(h, pc)
  BY <1>3 DEF Mutate
<1>6. pc \in {"resolve", "queue"}
  BY <1>5
<1>7. /\ job' \in [Procs -> JobStates] /\ Moved(h)
      /\ job'[h].pc = pc /\ job'[h].pol = {q} /\ job'[h].old = job[h].old
  BY <1>2, <1>5, <1>6, GotoJob
<1>8. policy[q].state = "live" /\ policy[q] \in LiveRows
  <2>1. policy[q].state = "live" /\ policy[q] \in Rows
    BY <1>2, PolIs DEF Mutate, TypeOK
  <2> QED  BY <2>1 DEF Rows, LiveRows, Unused, Gone, Row
<1>9. PICK made : made = [action |-> op, row |-> policy[q]]
                  /\ snap' = IF snap[q] # NoSnap THEN snap ELSE [snap EXCEPT ![q] = made]
  BY <1>2, <1>3, <1>4, PolIs DEF Mutate, WithSnapshot
<1>10. made \in Snaps /\ made # NoSnap
  BY <1>4, <1>8, <1>9 DEF Snaps, NoSnap
<1>11. snap' \in [Policies -> Snaps] /\ snap'[q] # NoSnap
       /\ snap'[q] = (IF snap[q] # NoSnap THEN snap[q] ELSE made)
       /\ \A r \in Policies : r # q => snap'[r] = snap[r]
  BY <1>9, <1>10 DEF TypeOK
<1>12. PICK row : row = (IF op = "delete" THEN [policy[q] EXCEPT !.state = "deleted"]
                                         ELSE Row("live", edits + 1, job[h].new))
                  /\ policy' = [policy EXCEPT ![q] = row]
  BY <1>2, <1>3, PolIs DEF Mutate
<1>13. edits' \in 0..MaxEdits
  BY <1>1, PendingChangesAssumption DEF TypeOK
<1>14. row \in Rows /\ row.state \in {"live", "deleted"}
  <2>1. CASE op = "delete"
    <3>1. row = [state |-> "deleted", rev |-> policy[q].rev, peers |-> policy[q].peers]
      BY <2>1, <1>8, <1>12 DEF LiveRows
    <3> QED  BY <3>1, <1>8 DEF LiveRows, Rows
  <2>2. CASE op # "delete"
    BY <2>2, <1>1, <1>4, <1>12, <1>13, LiveRow
  <2> QED  BY <2>1, <2>2
<1>15. pc = "queue" => row.peers = policy[q].peers
  BY <1>5, <1>8, <1>12 DEF LiveRows
<1>16. policy' \in [Policies -> Rows] /\ policy'[q] = row
       /\ \A r \in Policies : r # q => policy'[r] = policy[r]
  BY <1>12, <1>14 DEF TypeOK
<1>17. TypeOK'
  BY <1>1, <1>7, <1>11, <1>13, <1>16 DEF TypeOK, history
<1>18. Shape(job'[h])
  BY <1>6, <1>7 DEF Shape
<1>19. ShapeInv'
  BY <1>7, <1>18, ShapeKept
<1>20. ASSUME Single PROVE SingleInv'
  <2>1. \A g \in Procs : g = h
    BY <1>20 DEF Single
  <2>2. job[h].old = policy[q].peers
    BY <1>1, <1>2, <1>20 DEF SingleInv, EditInv
  <2>3. EditInv'
    BY <2>1, <2>2, <1>6, <1>7, <1>11, <1>15, <1>16 DEF EditInv
  <2>4. ApproveInv' /\ QuietInv'
    BY <2>1, <1>6, <1>7 DEF ApproveInv, QuietInv, Approving
  <2>5. KeptInv'
    BY <1>1, <1>11, <1>20 DEF SingleInv, KeptInv, history
  <2>6. RestoresInv'
    <3> SUFFICES ASSUME NEW r \in Policies
                 PROVE  /\ policy'[r] = Unused => snap'[r] = NoSnap
                        /\ \/ Restored(r)' = base'[r]
                           \/ Restored(r)' = Gone /\ base'[r] = Unused
      BY DEF RestoresInv
    <3>0. /\ policy[r] = Unused => snap[r] = NoSnap
          /\ \/ Restored(r) = base[r]
             \/ Restored(r) = Gone /\ base[r] = Unused
      BY <2>1, <1>1, <1>20 DEF SingleInv, RestoresInv
    <3>1. CASE r = q
      <4>1. CASE snap[q] = NoSnap
        <5>1. Restored(q) = policy[q]
          BY <4>1, Unsnapped
        <5>2. snap'[q] = made
          BY <4>1, <1>11
        <5>3. Restored(q)' = policy[q]
          BY <5>2, <1>4, <1>9, <1>10, <1>14, <1>16 DEF Restored
        <5> QED  BY <5>1, <5>3, <3>0, <3>1, <1>1, <1>14, <1>16 DEF history, Unused, Row
      <4>2. CASE snap[q] # NoSnap
        <5>1. snap'[q] = snap[q]
          BY <4>2, <1>11
        <5>2. Restored(q)' = Restored(q)
          BY <5>1, <4>2, <1>8, <1>14, <1>16 DEF Restored
        <5> QED  BY <5>2, <3>0, <3>1, <1>1, <1>14, <1>16 DEF history, Unused, Row
      <4> QED  BY <4>1, <4>2
    <3>2. CASE r # q
      <4>1. Restored(r)' = Restored(r)
        BY <3>2, <1>11, <1>16 DEF Restored
      <4> QED  BY <4>1, <3>0, <3>2, <1>1, <1>11, <1>16 DEF history
    <3> QED  BY <3>1, <3>2
  <2>7. LossInv'
    <3> SUFFICES ASSUME NEW p \in Peers \ (reported \cup undone \cup dropped), NEW r \in Policies
                 PROVE  \/ UpToDate(p, r)' \/ <<p, r>> \in pending \cup queued
                        \/ \E g \in Procs : Owes(g, p, r)'
      BY <1>1 DEF LossInv, history
    <3>1. UpToDate(p, r) \/ <<p, r>> \in pending \cup queued
      BY <2>1, <1>1, <1>20 DEF SingleInv, LossInv, Owes
    <3>2. CASE r # q
      <4>1. UpToDate(p, r) => UpToDate(p, r)'
        BY <3>2, <1>1, <1>16 DEF UpToDate, Contributes
      <4> QED  BY <3>1, <4>1
    <3>3. CASE r = q /\ p \in policy[q].peers \cup row.peers
      <4>1. Owes(h, p, r)'
        BY <3>3, <2>2, <1>6, <1>7, <1>16 DEF Owes
      <4> QED  BY <4>1
    <3>4. CASE r = q /\ p \notin policy[q].peers \cup row.peers
      <4>1. UpToDate(p, r) => UpToDate(p, r)'
        BY <3>4, <1>1, <1>16 DEF UpToDate, Contributes
      <4> QED  BY <3>1, <4>1
    <3> QED  BY <3>2, <3>3, <3>4
  <2> QED  BY <2>3, <2>4, <2>5, <2>6, <2>7 DEF SingleInv
<1> QED  BY <1>17, <1>19, <1>20

(* The peers after a change are resolved.                                  *)
LEMMA ResolveStep ==
  ASSUME IInv, NEW h \in Procs, Resolve(h)
  PROVE  IInv'
<1> USE DEF IInv
<1>1. job[h].pc = "resolve" /\ UNCHANGED <<tables, queued, edits, history, faults>>
  BY DEF Resolve
<1>2. PICK q \in Policies : job[h].pol = {q}
  BY <1>1 DEF ShapeInv, Shape, Editing
<1>3. policy[q].peers \subseteq Peers
  BY DEF TypeOK, Rows, LiveRows, Unused, Gone, Row
<1>4. job[h] \in JobStates /\ job \in [Procs -> JobStates]
  BY DEF TypeOK
<1>5. PICK j : j = [job[h] EXCEPT !.pc = "queue", !.old = @ \cup policy[q].peers]
  OBVIOUS
<1>6. j = [pc |-> "queue", op |-> job[h].op, pol |-> job[h].pol,
           old |-> job[h].old \cup policy[q].peers, new |-> job[h].new, read |-> job[h].read]
  BY <1>4, <1>5 DEF JobStates
<1>7. j \in JobStates
  BY <1>3, <1>4, <1>6 DEF JobStates
<1>8. job' = [job EXCEPT ![h] = j]
  <2>1. Pol(h) = q
    BY <1>2, PolIs
  <2> QED  BY <2>1, <1>4, <1>5 DEF Resolve
<1>9. job' \in [Procs -> JobStates] /\ job'[h] = j /\ Moved(h)
  BY <1>7, <1>8, JobSet
<1>10. TypeOK'
  BY <1>1, <1>9 DEF TypeOK, tables, history
<1>11. Shape(j)
  BY <1>2, <1>6 DEF Shape
<1>12. ShapeInv'
  BY <1>9, <1>11, ShapeKept
<1>13. ASSUME Single PROVE SingleInv'
  <2>1. \A g \in Procs : g = h
    BY <1>13 DEF Single
  <2>2. snap[q] # NoSnap
    BY <1>1, <1>2, <1>13 DEF SingleInv, EditInv
  <2>3. EditInv'
    BY <2>1, <2>2, <1>1, <1>2, <1>6, <1>9 DEF EditInv, tables
  <2>4. ApproveInv' /\ QuietInv'
    BY <2>1, <1>6, <1>9 DEF ApproveInv, QuietInv, Approving
  <2>5. KeptInv'
    BY <1>1, <1>13, KeptKept DEF SingleInv, tables, history
  <2>6. RestoresInv'
    BY <2>1, <1>1, <1>13, RestoresKept DEF SingleInv, tables, history
  <2>7. \A g \in Procs, p \in Peers, r \in Policies : Owes(g, p, r) => Owes(g, p, r)'
    BY <2>1, <1>1, <1>2, <1>6, <1>9 DEF Owes, tables
  <2>8. LossInv'
    BY <2>7, <1>1, <1>13, LossKept DEF SingleInv, tables, history
  <2> QED  BY <2>3, <2>4, <2>5, <2>6, <2>8 DEF SingleInv
<1> QED  BY <1>10, <1>12, <1>13

(* An edit ends: whoever has to know is in the tables, or was told.        *)
LEMMA EditEnds ==
  ASSUME IInv, NEW h \in Procs, NEW q \in Policies, job[h].pol = {q},
         job[h].pc \in {"resolve", "queue"}, End(h),
         UNCHANGED <<policy, snap, bundle, edits, base, split, dropped, undone>>,
         pending \subseteq pending', queued \subseteq queued', reported \subseteq reported',
         pending' \cup queued' \subseteq (pending \cup queued) \cup RowsFor(job[h].old, q),
         reported' \subseteq Peers, faults' \in 0..MaxFaults,
         Single => \A p \in job[h].old \cup policy[q].peers :
                     <<p, q>> \in pending' \cup queued' \/ p \in reported'
  PROVE  IInv'
<1> USE DEF IInv
<1>1. job' \in [Procs -> JobStates] /\ job'[h] = Idle /\ Moved(h)
  BY EndJob
<1>2. RowsFor(job[h].old, q) \subseteq Peers \X Policies
  BY DEF TypeOK, JobStates, RowsFor
<1>3. pending' \subseteq Peers \X Policies /\ queued' \subseteq Peers \X Policies
  BY <1>2 DEF TypeOK
<1>4. TypeOK'
  BY <1>1, <1>3 DEF TypeOK
<1>5. ShapeInv'
  BY <1>1, IdleState, ShapeKept
<1>6. ASSUME Single PROVE SingleInv'
  <2>1. \A g \in Procs : g = h
    BY <1>6 DEF Single
  <2>2. snap[q] # NoSnap
    BY <1>6 DEF SingleInv, EditInv
  <2>3. EditInv' /\ ApproveInv' /\ QuietInv'
    BY <1>1, <1>6, IdleState, RestingInv
  <2>4. KeptInv'
    <3> SUFFICES ASSUME ~ Hasty, NEW p \in Peers, NEW r \in Policies,
                        <<p, r>> \in pending' \cup queued'
                 PROVE  snap[r] # NoSnap \/ r \in split
      BY DEF KeptInv
    <3>1. CASE r = q
      BY <3>1, <2>2
    <3>2. CASE r # q
      <4>1. <<p, r>> \in pending \cup queued
        BY <3>2 DEF RowsFor
      <4> QED  BY <4>1, <1>6 DEF SingleInv, KeptInv
    <3> QED  BY <3>1, <3>2
  <2>5. RestoresInv'
    BY <2>1, <1>6, RestoresKept DEF SingleInv
  <2>6. \A g \in Procs, p \in Peers, r \in Policies : Owes(g, p, r) =>
           p \in reported' \cup undone' \cup dropped' \/ <<p, r>> \in pending' \cup queued'
    <3> SUFFICES ASSUME NEW p \in Peers, NEW r \in Policies, Owes(h, p, r)
                 PROVE  p \in reported' \cup undone' \cup dropped' \/ <<p, r>> \in pending' \cup queued'
      BY <2>1
    <3>1. r = q /\ p \in job[h].old \cup policy[q].peers
      BY DEF Owes
    <3> QED  BY <3>1, <1>6
  <2>7. LossInv'
    BY <2>6, <1>6, LossKept DEF SingleInv
  <2> QED  BY <2>3, <2>4, <2>5, <2>7 DEF SingleInv
<1> QED  BY <1>4, <1>5, <1>6

(* They cannot be resolved.                                                *)
LEMMA ResolveFailsStep ==
  ASSUME IInv, NEW h \in Procs, ResolveFails(h)
  PROVE  IInv'
<1> USE DEF IInv
<1>1. /\ job[h].pc = "resolve" /\ End(h) /\ UNCHANGED <<tables, edits, base, split, dropped, undone>>
      /\ (Fault("resolve") \/ faults' = faults)
  BY DEF ResolveFails
<1>2. PICK q \in Policies : job[h].pol = {q}
  BY <1>1 DEF ShapeInv, Shape, Editing
<1>3. /\ queued' = queued \cup RowsFor(job[h].old, q)
      /\ reported' = reported \cup (policy[q].peers \ job[h].old)
  BY <1>2, PolIs DEF ResolveFails
<1>4. faults' \in 0..MaxFaults
  BY <1>1, FaultType DEF TypeOK
<1>5. policy[q].peers \subseteq Peers /\ reported \subseteq Peers
  BY DEF TypeOK, Rows, LiveRows, Unused, Gone, Row
<1>6. \A p \in job[h].old \cup policy[q].peers : <<p, q>> \in queued' \/ p \in reported'
  BY <1>3 DEF RowsFor
<1>7. reported' \subseteq Peers
  BY <1>3, <1>5
<1>8. pending' = pending /\ UNCHANGED <<policy, snap, bundle, edits, base, split, dropped, undone>>
  BY <1>1 DEF tables
<1> HIDE DEF IInv
<1> QED  BY <1>1, <1>2, <1>3, <1>4, <1>6, <1>7, <1>8, EditEnds

(* The rows are handed to the change worker.                               *)
LEMMA QueueStep ==
  ASSUME IInv, NEW h \in Procs, Queue(h)
  PROVE  IInv'
<1> USE DEF IInv
<1>1. job[h].pc = "queue" /\ End(h) /\ UNCHANGED <<tables, edits, history, faults>>
  BY DEF Queue
<1>2. PICK q \in Policies : job[h].pol = {q}
  BY <1>1 DEF ShapeInv, Shape, Editing
<1>3. queued' = queued \cup RowsFor(job[h].old, q)
  BY <1>2, PolIs DEF Queue
<1>4. Single => policy[q].peers \subseteq job[h].old
  BY <1>1, <1>2 DEF SingleInv, EditInv
<1>5. \A p \in job[h].old : <<p, q>> \in queued'
  BY <1>3 DEF RowsFor
<1>6. reported' \subseteq Peers /\ faults' \in 0..MaxFaults
  BY <1>1 DEF TypeOK, history
<1>7. pending' = pending /\ reported' = reported
      /\ UNCHANGED <<policy, snap, bundle, edits, base, split, dropped, undone>>
  BY <1>1 DEF tables, history
<1>8. Single => \A p \in job[h].old \cup policy[q].peers : <<p, q>> \in queued'
  BY <1>4, <1>5
<1> HIDE DEF IInv
<1> QED  BY <1>1, <1>2, <1>3, <1>6, <1>7, <1>8, EditEnds

(* The handler inserts the rows itself.                                    *)
LEMMA QueueSyncStep ==
  ASSUME IInv, NEW h \in Procs, QueueSync(h)
  PROVE  IInv'
<1> USE DEF IInv
<1>1. /\ job[h].pc = "queue" /\ End(h)
      /\ UNCHANGED <<policy, snap, bundle, queued, edits, base, split, dropped, undone>>
  BY DEF QueueSync
<1>2. PICK q \in Policies : job[h].pol = {q}
  BY <1>1 DEF ShapeInv, Shape, Editing
<1>3. PICK lost \in SUBSET job[h].old :
           /\ IF lost = {} THEN faults' = faults ELSE Fault("queue")
           /\ pending' = pending \cup RowsFor(job[h].old \ lost, q)
           /\ reported' = reported \cup lost
  BY <1>2, PolIs DEF QueueSync
<1>4. Single => policy[q].peers \subseteq job[h].old
  BY <1>1, <1>2 DEF SingleInv, EditInv
<1>5. faults' \in 0..MaxFaults
  BY <1>3, FaultType DEF TypeOK
<1>6. reported' \subseteq Peers
  BY <1>3 DEF TypeOK, JobStates
<1>7. \A p \in job[h].old : <<p, q>> \in pending' \/ p \in reported'
  BY <1>3 DEF RowsFor
<1>8. RowsFor(job[h].old \ lost, q) \subseteq RowsFor(job[h].old, q)
  BY DEF RowsFor
<1>9. /\ pending \subseteq pending' /\ reported \subseteq reported'
      /\ pending' \cup queued' \subseteq (pending \cup queued) \cup RowsFor(job[h].old, q)
  BY <1>1, <1>3, <1>8
<1>10. Single => \A p \in job[h].old \cup policy[q].peers :
                   <<p, q>> \in pending' \/ p \in reported'
  BY <1>4, <1>7
<1> HIDE DEF IInv
<1> QED  BY <1>1, <1>2, <1>5, <1>6, <1>9, <1>10, EditEnds

(* The change worker inserts a row, or loses it and says so.               *)
LEMMA PersistStep ==
  ASSUME IInv, NEW r \in queued, Persist(r)
  PROVE  IInv'
<1> USE DEF IInv
<1>1. /\ queued' = queued \ {r}
      /\ UNCHANGED <<policy, snap, bundle, job, edits, base, split, reported, undone>>
      /\ \/ pending' = pending \cup {r} /\ dropped' = dropped /\ faults' = faults
         \/ Fault("insert") /\ dropped' = dropped \cup {r[1]} /\ pending' = pending
  BY DEF Persist
<1>2. PICK o \in Peers, s \in Policies : r = <<o, s>>
  BY DEF TypeOK
<1>3. faults' \in 0..MaxFaults
  BY <1>1, FaultType DEF TypeOK
<1>4. /\ pending \subseteq pending' /\ dropped \subseteq dropped' /\ dropped' \subseteq Peers
      /\ pending' \cup queued' \subseteq pending \cup queued
      /\ (r \in pending' \/ o \in dropped')
      /\ pending' \subseteq Peers \X Policies /\ queued' \subseteq Peers \X Policies
  BY <1>1, <1>2 DEF TypeOK
<1>5. TypeOK'
  BY <1>1, <1>3, <1>4 DEF TypeOK
<1>6. ShapeInv'
  BY <1>1 DEF ShapeInv, Shape
<1>7. ASSUME Single PROVE SingleInv'
  <2>1. EditInv'
    BY <1>1, <1>7 DEF SingleInv, EditInv
  <2>2. ApproveInv' /\ QuietInv'
    BY <1>1, <1>7 DEF SingleInv, ApproveInv, QuietInv, Rules
  <2>3. KeptInv'
    BY <1>1, <1>4, <1>7, KeptKept DEF SingleInv
  <2>4. RestoresInv'
    <3>1. \A q \in Policies : Restored(q)' = Restored(q)
      BY <1>1 DEF Restored
    <3> QED  BY <3>1, <1>1, <1>7 DEF SingleInv, RestoresInv
  <2>5. LossInv'
    <3> SUFFICES ASSUME NEW p \in Peers \ (reported' \cup undone' \cup dropped'), NEW q \in Policies
                 PROVE  \/ UpToDate(p, q)' \/ <<p, q>> \in pending' \cup queued'
                        \/ \E g \in Procs : Owes(g, p, q)'
      BY DEF LossInv
    <3>1. UpToDate(p, q) \/ <<p, q>> \in pending \cup queued \/ \E g \in Procs : Owes(g, p, q)
      BY <1>1, <1>4, <1>7 DEF SingleInv, LossInv
    <3>2. UpToDate(p, q) => UpToDate(p, q)'
      BY <1>1 DEF UpToDate, Contributes
    <3>3. \A g \in Procs : Owes(g, p, q) => Owes(g, p, q)'
      BY <1>1 DEF Owes
    <3>4. <<p, q>> \in pending \cup queued => <<p, q>> \in pending' \cup queued'
      BY <1>1, <1>2, <1>4
    <3> QED  BY <3>1, <3>2, <3>3, <3>4
  <2> QED  BY <2>1, <2>2, <2>3, <2>4, <2>5 DEF SingleInv
<1> QED  BY <1>5, <1>6, <1>7

(***************************************************************************)
(* The steps of an approval                                                *)
(***************************************************************************)

(* An approval or a push begins.                                           *)
LEMMA ApproveStep ==
  ASSUME IInv, NEW h \in Procs, NEW op \in Approvals, NEW peers \in SUBSET Peers,
         NEW pols \in SUBSET Policies, op = "apply_entity" => \E q \in Policies : pols = {q},
         Approve(h, op, peers, pols)
  PROVE  IInv'
<1> USE DEF IInv
<1>1. /\ Hasty \/ queued = {}
      /\ job[h].pc = "idle" /\ UNCHANGED <<tables, queued, edits, history, faults>>
  BY DEF Approve, Begins
<1>2. PICK j : j = [Idle EXCEPT !.pc = "compile", !.op = op, !.pol = pols, !.new = peers]
               /\ job' = [job EXCEPT ![h] = j]
  BY DEF Approve, Begins
<1>3. j = [pc |-> "compile", op |-> op, pol |-> pols, old |-> {}, new |-> peers, read |-> {}]
  BY <1>2 DEF Idle
<1>4. j \in JobStates
  BY <1>3 DEF JobStates
<1>5. job' \in [Procs -> JobStates] /\ job'[h] = j /\ Moved(h)
  BY <1>2, <1>4, JobSet
<1>6. Shape(j)
  BY <1>3 DEF Shape, Editing
<1>7. Single => EditInv' /\ ApproveInv' /\ QuietInv'
  BY <1>1, <1>3, <1>5, RestingInv
<1>8. faults' \in 0..MaxFaults
  BY <1>1 DEF TypeOK
<1> QED  BY <1>1, <1>5, <1>6, <1>7, <1>8, MoveStep

(* A bundle is compiled.                                                   *)
LEMMA CompileStep ==
  ASSUME IInv, NEW h \in Procs, NEW p \in Peers, Compile(h, p)
  PROVE  IInv'
<1> USE DEF IInv
<1>1. job[h].pc = "compile" /\ UNCHANGED <<tables, queued, edits, history, faults>>
  BY DEF Compile
<1>2. job[h] \in JobStates /\ job \in [Procs -> JobStates]
  BY DEF TypeOK
<1>3. PICK j : j = [job[h] EXCEPT !.pc = "store", !.read = Rules(p), !.old = {p}, !.new = @ \ {p}]
  OBVIOUS
<1>4. j = [pc |-> "store", op |-> job[h].op, pol |-> job[h].pol, old |-> {p},
           new |-> job[h].new \ {p}, read |-> Rules(p)]
  BY <1>2, <1>3 DEF JobStates
<1>5. Rules(p) \in SUBSET Content
  BY RulesType DEF TypeOK, Rules
<1>6. j \in JobStates
  BY <1>2, <1>4, <1>5 DEF JobStates
<1>7. job' = [job EXCEPT ![h] = j]
  BY <1>2, <1>3 DEF Compile
<1>8. job' \in [Procs -> JobStates] /\ job'[h] = j /\ Moved(h)
  BY <1>6, <1>7, JobSet
<1>9. Shape(j)
  BY <1>1, <1>4 DEF ShapeInv, Shape, Editing
<1>10. ASSUME Single PROVE EditInv' /\ ApproveInv' /\ QuietInv'
  <2>1. \A g \in Procs : g = h
    BY <1>10 DEF Single
  <2>2. EditInv'
    BY <2>1, <1>4, <1>8 DEF EditInv
  <2>3. Rules(p)' = Rules(p)
    BY <1>1 DEF Rules, tables
  <2>4. ApproveInv'
    BY <2>1, <2>3, <1>4, <1>8 DEF ApproveInv
  <2>5. QuietInv'
    BY <2>1, <1>1, <1>10 DEF SingleInv, QuietInv, Approving
  <2> QED  BY <2>2, <2>4, <2>5
<1>11. faults' \in 0..MaxFaults
  BY <1>1 DEF TypeOK
<1> QED  BY <1>1, <1>8, <1>9, <1>10, <1>11, MoveStep

(* An approval fails for a peer: nothing is written.                       *)
LEMMA GivesUpStep ==
  ASSUME IInv, NEW h \in Procs, job[h].pc \in {"compile", "clear"}, NEW kind, Fault(kind),
         NEW rest \in SUBSET Peers, GivesUp(h, rest), UNCHANGED <<tables, queued, edits, history>>
  PROVE  IInv'
<1> USE DEF IInv
<1>1. Onward(h)
  BY GivesUpJob DEF ShapeInv
<1>2. Single => Hasty \/ queued' = {}
  BY DEF SingleInv, QuietInv, Approving
<1>3. Single => EditInv' /\ ApproveInv' /\ QuietInv'
  BY <1>1, <1>2, RestingInv DEF Onward
<1>4. faults' \in 0..MaxFaults
  BY FaultType DEF TypeOK
<1> QED  BY <1>1, <1>3, <1>4, MoveStep DEF Onward

(* The bundle is stored.                                                   *)
LEMMA StoreStep ==
  ASSUME IInv, NEW h \in Procs, Store(h)
  PROVE  IInv'
<1> USE DEF IInv
<1>1. /\ job[h].pc = "store"
      /\ IF job[h].op = "push" THEN NextPeer(h, job[h].new) ELSE Goto(h, "clear")
      /\ UNCHANGED <<policy, snap, pending, queued, edits, base, split, faults>>
  BY DEF Store
<1>2. PICK p \in Peers : job[h].old = {p}
  BY <1>1 DEF ShapeInv, Shape
<1>3. (CHOOSE r \in job[h].old : TRUE) = p
  BY <1>2
<1>4. PICK current \in SUBSET {p} :
          /\ current = IF job[h].read = Rules(p) THEN {p} ELSE {}
          /\ reported' = reported \ current /\ dropped' = dropped \ current
          /\ undone' = undone \ current
  BY <1>3 DEF Store
<1>5. bundle' = [bundle EXCEPT ![p] = job[h].read]
  BY <1>3 DEF Store
<1>6. job[h] \in JobStates
  BY DEF TypeOK
<1>7. /\ bundle' \in [Peers -> SUBSET Content] /\ bundle'[p] = job[h].read
      /\ \A o \in Peers : o # p => bundle'[o] = bundle[o]
  BY <1>5, <1>6 DEF TypeOK, JobStates
<1>8. \/ Onward(h)
      \/ /\ job' \in [Procs -> JobStates] /\ Moved(h) /\ Shape(job'[h])
         /\ job'[h].pc = "clear" /\ job'[h].old = {p}
  <2>1. CASE job[h].op = "push"
    <3>1. NextPeer(h, job[h].new) /\ job[h].new \in SUBSET Peers
      BY <2>1, <1>1, <1>6 DEF JobStates
    <3> QED  BY <3>1, <1>1, NextPeerJob DEF ShapeInv
  <2>2. CASE job[h].op # "push"
    <3>1. /\ job' \in [Procs -> JobStates] /\ Moved(h)
          /\ job'[h].pc = "clear" /\ job'[h].op = job[h].op /\ job'[h].pol = job[h].pol
          /\ job'[h].old = job[h].old
      BY <2>2, <1>1, GotoJob
    <3>2. Shape(job'[h])
      BY <3>1, <1>1 DEF ShapeInv, Shape, Editing
    <3> QED  BY <3>1, <3>2, <1>2
  <2> QED  BY <2>1, <2>2
<1>9. job' \in [Procs -> JobStates] /\ Moved(h) /\ Shape(job'[h])
      /\ job'[h].pc \in {"compile", "cleanup", "idle", "clear"}
      /\ (job'[h].pc = "clear" => job'[h].old = {p})
  BY <1>8 DEF Onward
<1>10. TypeOK'
  BY <1>1, <1>4, <1>7, <1>9 DEF TypeOK
<1>11. ShapeInv'
  BY <1>9, ShapeKept
<1>12. ASSUME Single PROVE SingleInv'
  <2>1. \A g \in Procs : g = h
    BY <1>12 DEF Single
  <2>2. job[h].read = Rules(p) /\ (Hasty \/ queued = {})
    BY <1>1, <1>2, <1>12 DEF SingleInv, ApproveInv, QuietInv, Approving
  <2>3. Rules(p)' = Rules(p)
    BY <1>1 DEF Rules
  <2>4. bundle'[p] = Rules(p)'
    BY <2>2, <2>3, <1>7
  <2>5. EditInv'
    BY <2>1, <1>9 DEF EditInv
  <2>6. ApproveInv'
    BY <2>1, <2>4, <1>9 DEF ApproveInv
  <2>7. QuietInv'
    BY <2>1, <2>2, <1>1 DEF QuietInv
  <2>8. KeptInv'
    BY <1>1, <1>12, KeptKept DEF SingleInv
  <2>9. RestoresInv'
    BY <2>1, <1>1, <1>12, RestoresKept DEF SingleInv
  <2>10. LossInv'
    <3> SUFFICES ASSUME NEW o \in Peers \ (reported' \cup undone' \cup dropped'), NEW q \in Policies
                 PROVE  UpToDate(o, q)' \/ <<o, q>> \in pending \cup queued
      BY <1>1 DEF LossInv
    <3>1. CASE o = p
      <4>1. \A n : <<q, n>> \in RulesOf(policy', p) <=> Contributes(policy', p, q, n)
        BY RulesMember
      <4>2. bundle'[p] = RulesOf(policy', p)
        BY <2>4 DEF Rules
      <4> QED  BY <4>1, <4>2, <3>1 DEF UpToDate
    <3>2. CASE o # p
      <4>1. UpToDate(o, q) \/ <<o, q>> \in pending \cup queued
        BY <3>2, <2>1, <1>1, <1>4, <1>12 DEF SingleInv, LossInv, Owes
      <4>2. UpToDate(o, q) => UpToDate(o, q)'
        BY <3>2, <1>1, <1>7 DEF UpToDate, Contributes
      <4> QED  BY <4>1, <4>2
    <3> QED  BY <3>1, <3>2
  <2> QED  BY <2>5, <2>6, <2>7, <2>8, <2>9, <2>10 DEF SingleInv
<1> QED  BY <1>10, <1>11, <1>12

(* The bundle of p is what Compile gives: no row of p is needed.           *)
LEMMA LossCleared ==
  ASSUME LossInv, NEW p \in Peers, bundle[p] = Rules(p),
         \A h \in Procs : job[h].pc \notin {"created", "resolve", "queue"},
         UNCHANGED <<policy, bundle, queued, reported, dropped, undone>>,
         \A o \in Peers, q \in Policies : o # p /\ <<o, q>> \in pending => <<o, q>> \in pending'
  PROVE  LossInv'
<1> SUFFICES ASSUME NEW o \in Peers \ (reported \cup undone \cup dropped), NEW q \in Policies
             PROVE  UpToDate(o, q)' \/ <<o, q>> \in pending' \cup queued
  BY DEF LossInv
<1>1. UpToDate(o, q) => UpToDate(o, q)'
  BY DEF UpToDate, Contributes
<1>2. CASE o = p
  BY <1>1, <1>2, CompiledUpToDate
<1>3. CASE o # p
  <2>1. UpToDate(o, q) \/ <<o, q>> \in pending \cup queued
    BY DEF LossInv, Owes
  <2> QED  BY <2>1, <1>1, <1>3
<1> QED  BY <1>2, <1>3

(* The rows of the peer, or one of them, are deleted.                      *)
LEMMA ClearStep ==
  ASSUME IInv, NEW h \in Procs, Clear(h)
  PROVE  IInv'
<1> USE DEF IInv
<1>1. job[h].pc = "clear" /\ UNCHANGED <<policy, bundle, queued, edits, reported, dropped, undone, faults>>
  BY DEF Clear
<1>2. PICK p \in Peers : job[h].old = {p}
  BY <1>1 DEF ShapeInv, Shape
<1>3. (CHOOSE r \in job[h].old : TRUE) = p
  BY <1>2
<1>4. job[h] \in JobStates
  BY DEF TypeOK
<1>5. Single => /\ bundle[p] = Rules(p) /\ (Hasty \/ queued' = {})
                /\ \A g \in Procs : g = h
  BY <1>1, <1>2 DEF SingleInv, ApproveInv, QuietInv, Approving, Single
<1>6. CASE job[h].op # "apply_entity"
  <2>1. pending' = Cleared(p) /\ NextPeer(h, job[h].new) /\ UNCHANGED <<snap, base, split>>
    BY <1>3, <1>6 DEF Clear
  <2>2. Onward(h)
    <3>1. job[h].new \in SUBSET Peers
      BY <1>4 DEF JobStates
    <3> QED  BY <3>1, <2>1, <1>1, NextPeerJob DEF ShapeInv
  <2>3. pending' \subseteq pending /\ pending' \subseteq Peers \X Policies
    BY <2>1 DEF Cleared, TypeOK
  <2>4. TypeOK'
    BY <2>1, <2>2, <2>3, <1>1 DEF TypeOK, Onward
  <2>5. ShapeInv'
    BY <2>2, ShapeKept DEF Onward
  <2>6. ASSUME Single PROVE SingleInv'
    <3>1. EditInv' /\ ApproveInv' /\ QuietInv'
      BY <2>2, <2>6, <1>5, RestingInv DEF Onward
    <3>2. KeptInv'
      BY <2>1, <2>3, <2>6, <1>1, KeptKept DEF SingleInv
    <3>3. RestoresInv'
      BY <2>1, <2>6, <1>1, <1>5, RestoresKept DEF SingleInv
    <3>4. \A o \in Peers, q \in Policies : o # p /\ <<o, q>> \in pending => <<o, q>> \in pending'
      BY <2>1 DEF Cleared
    <3>5. LossInv'
      BY <3>4, <2>6, <1>1, <1>5, LossCleared DEF SingleInv
    <3> QED  BY <3>1, <3>2, <3>3, <3>5 DEF SingleInv
  <2> QED  BY <2>4, <2>5, <2>6
<1>7. CASE job[h].op = "apply_entity"
  <2>1. PICK q \in Policies : job[h].pol = {q}
    BY <1>1, <1>7 DEF ShapeInv, Shape
  <2>2. Pol(h) = q
    BY <2>1, PolIs
  <2>3. /\ pending' = pending \ {<<p, q>>}
        /\ snap' = [snap EXCEPT ![q] = NoSnap]
        /\ base' = [base EXCEPT ![q] = policy[q]]
        /\ split' = split \cup {q}
        /\ (End(h) \/ Goto(h, "cleanup"))
    BY <2>2, <1>3, <1>7 DEF Clear
  <2>4. Onward(h)
    <3>1. CASE End(h)
      BY <3>1, EndJob, IdleState DEF Onward
    <3>2. CASE Goto(h, "cleanup")
      BY <3>2, GotoJob DEF Onward, Shape, Editing
    <3> QED  BY <3>1, <3>2, <2>3
  <2>5. /\ snap' \in [Policies -> Snaps] /\ snap'[q] = NoSnap
        /\ \A r \in Policies : r # q => snap'[r] = snap[r]
    BY <2>3 DEF TypeOK, Snaps
  <2>6. /\ base' \in [Policies -> Rows] /\ base'[q] = policy[q]
        /\ \A r \in Policies : r # q => base'[r] = base[r]
    BY <2>3 DEF TypeOK
  <2>7. TypeOK'
    BY <2>3, <2>4, <2>5, <2>6, <1>1 DEF TypeOK, Onward
  <2>8. ShapeInv'
    BY <2>4, ShapeKept DEF Onward
  <2>9. ASSUME Single PROVE SingleInv'
    <3>1. EditInv' /\ ApproveInv' /\ QuietInv'
      BY <2>4, <2>9, <1>5, RestingInv DEF Onward
    <3>2. KeptInv'
      BY <2>3, <2>5, <2>9, <1>1 DEF SingleInv, KeptInv
    <3>3. RestoresInv'
      <4> SUFFICES ASSUME NEW r \in Policies
                   PROVE  /\ policy[r] = Unused => snap'[r] = NoSnap
                          /\ \/ Restored(r)' = base'[r]
                             \/ Restored(r)' = Gone /\ base'[r] = Unused
        BY <1>1 DEF RestoresInv
      <4>1. CASE r = q
        <5>1. Restored(q)' = policy'[q]
          BY <2>5 DEF Restored, NoSnap
        <5> QED  BY <5>1, <4>1, <2>5, <2>6, <1>1
      <4>2. CASE r # q
        <5>1. Restored(r)' = Restored(r)
          BY <4>2, <2>5, <1>1 DEF Restored
        <5>2. \A g \in Procs : job[g].pc # "created"
          BY <2>9, <1>1, <1>5
        <5> QED  BY <5>1, <5>2, <4>2, <2>5, <2>6, <2>9, <1>1 DEF SingleInv, RestoresInv
      <4> QED  BY <4>1, <4>2
    <3>4. \A o \in Peers, r \in Policies : o # p /\ <<o, r>> \in pending => <<o, r>> \in pending'
      BY <2>3
    <3>5. LossInv'
      BY <3>4, <2>9, <1>1, <1>5, LossCleared DEF SingleInv
    <3> QED  BY <3>1, <3>2, <3>3, <3>5 DEF SingleInv
  <2> QED  BY <2>7, <2>8, <2>9
<1> QED  BY <1>6, <1>7

(* CleanupIfComplete.                                                      *)
LEMMA CleanupStep ==
  ASSUME IInv, NEW h \in Procs, Cleanup(h)
  PROVE  IInv'
<1> USE DEF IInv
<1>1. job[h].pc = "cleanup" /\ End(h) /\ UNCHANGED <<pending, bundle, queued, edits, reported, dropped, undone>>
  BY DEF Cleanup
<1>2. job' \in [Procs -> JobStates] /\ job'[h] = Idle /\ Moved(h)
  BY <1>1, EndJob
<1>3. Single => EditInv' /\ ApproveInv' /\ QuietInv'
  BY <1>2, IdleState, RestingInv
<1>4. CASE UNCHANGED <<policy, snap, base, split>> /\ (Fault("cleanup") \/ faults' = faults)
  <2>1. faults' \in 0..MaxFaults
    BY <1>4, FaultType DEF TypeOK
  <2>2. UNCHANGED <<tables, queued, edits, history>>
    BY <1>1, <1>4 DEF tables, history
  <2> QED  BY <2>1, <2>2, <1>1, <1>2, <1>3, IdleState, MoveStep
<1>5. CASE pending = {} /\ CleanUp /\ faults' = faults
  <2>1. /\ policy' = [q \in Policies |-> IF policy[q].state = "deleted" THEN Gone ELSE policy[q]]
        /\ snap' = [q \in Policies |-> NoSnap]
        /\ base' = policy' /\ split' = {}
    BY <1>5 DEF CleanUp
  <2>2. policy' \in [Policies -> Rows]
    BY <2>1 DEF TypeOK, Rows
  <2>3. snap' \in [Policies -> Snaps]
    BY <2>1 DEF Snaps
  <2>4. TypeOK'
    BY <2>1, <2>2, <2>3, <1>1, <1>2, <1>5 DEF TypeOK
  <2>5. ShapeInv'
    BY <1>2, IdleState, ShapeKept
  <2>6. ASSUME Single PROVE SingleInv'
    <3>1. \A g \in Procs : g = h
      BY <2>6 DEF Single
    <3>2. KeptInv'
      BY <2>6, <1>1, <1>5 DEF SingleInv, QuietInv, Approving, KeptInv
    <3>3. \A q \in Policies : Restored(q)' = policy'[q]
      BY <2>1 DEF Restored, NoSnap
    <3>4. RestoresInv'
      BY <3>3, <2>1 DEF RestoresInv
    <3>5. \A p \in Peers, q \in Policies : UpToDate(p, q) => UpToDate(p, q)'
      BY <2>1, <1>1 DEF UpToDate, Contributes, Gone, Row
    <3>6. LossInv'
      <4> SUFFICES ASSUME NEW p \in Peers \ (reported \cup undone \cup dropped), NEW q \in Policies
                   PROVE  UpToDate(p, q)' \/ <<p, q>> \in pending \cup queued
        BY <1>1 DEF LossInv
      <4>1. UpToDate(p, q) \/ <<p, q>> \in pending \cup queued
        BY <3>1, <2>6, <1>1 DEF SingleInv, LossInv, Owes
      <4> QED  BY <4>1, <3>5
    <3> QED  BY <3>2, <3>4, <3>6, <2>6, <1>3 DEF SingleInv
  <2> QED  BY <2>4, <2>5, <2>6
<1> QED  BY <1>4, <1>5 DEF Cleanup

(***************************************************************************)
(* Rollback and crash                                                      *)
(***************************************************************************)

(* What rolling back gives is a row.                                       *)
LEMMA RestoredType ==
  ASSUME TypeOK, NEW q \in Policies
  PROVE  Restored(q) \in Rows
<1>1. policy[q] \in Rows /\ snap[q] \in Snaps
  BY DEF TypeOK
<1>2. snap[q] # NoSnap /\ snap[q].action # "create" => snap[q].row \in Rows
  BY <1>1 DEF Snaps, Rows
<1>3. CASE snap[q] = NoSnap
  BY <1>1, <1>3, Unsnapped
<1>4. CASE snap[q] # NoSnap
  BY <1>1, <1>2, <1>4 DEF Restored, Rows
<1> QED  BY <1>3, <1>4

(* A peer that is not left behind is up to date with what was undone.      *)
LEMMA NotLeftBehind ==
  ASSUME NEW pols \in SUBSET Policies, NEW q \in pols,
         NEW p \in Peers, p \notin LeftBehind(pols),
         policy' = [r \in Policies |-> IF r \in pols THEN Restored(r) ELSE policy[r]],
         bundle' = bundle
  PROVE  /\ snap[q] # NoSnap => UpToDate(p, q)'
         /\ snap[q] = NoSnap => <<p, q>> \notin pending
<1>1. ASSUME snap[q] # NoSnap
      PROVE  { c \in bundle[p] : c[1] = q } = { c \in RulesOf(policy', p) : c[1] = q }
  BY <1>1 DEF LeftBehind
<1>2. ASSUME snap[q] # NoSnap, NEW n
      PROVE  <<q, n>> \in bundle'[p] <=> Contributes(policy', p, q, n)
  <2>1. <<q, n>> \in bundle[p] <=> <<q, n>> \in RulesOf(policy', p)
    <3>1. /\ <<q, n>> \in bundle[p] <=> <<q, n>> \in { c \in bundle[p] : c[1] = q }
          /\ <<q, n>> \in RulesOf(policy', p) <=>
               <<q, n>> \in { c \in RulesOf(policy', p) : c[1] = q }
      OBVIOUS
    <3> QED  BY <3>1, <1>1, <1>2
  <2>2. <<q, n>> \in RulesOf(policy', p) <=> Contributes(policy', p, q, n)
    BY RulesMember
  <2> QED  BY <2>1, <2>2
<1>3. snap[q] = NoSnap => <<p, q>> \notin pending
  BY DEF LeftBehind
<1>4. snap[q] # NoSnap => UpToDate(p, q)'
  BY <1>2 DEF UpToDate
<1> QED  BY <1>3, <1>4

(* A rollback of all policies or of one.                                   *)
LEMMA RollBackStep ==
  ASSUME IInv, NEW h \in Procs, job[h].pc = "idle",
         NEW pols \in SUBSET Policies, RollBack(pols)
  PROVE  IInv'
<1> USE DEF IInv
<1>1. /\ Hasty \/ queued = {}
      /\ policy' = [q \in Policies |-> IF q \in pols THEN Restored(q) ELSE policy[q]]
      /\ snap' = [q \in Policies |-> IF q \in pols THEN NoSnap ELSE snap[q]]
      /\ pending' = { r \in pending : r[2] \notin pols }
      /\ undone' = undone \cup LeftBehind(pols)
      /\ split' = split \ pols
      /\ UNCHANGED <<bundle, queued, job, edits, base, reported, dropped, faults>>
  BY DEF RollBack
<1>2. policy' \in [Policies -> Rows]
  BY <1>1, RestoredType DEF TypeOK
<1>3. snap' \in [Policies -> Snaps]
  BY <1>1 DEF TypeOK, Snaps
<1>4. undone' \subseteq Peers
  BY <1>1 DEF LeftBehind, TypeOK
<1>5. pending' \subseteq pending /\ split' \subseteq Policies
  BY <1>1 DEF TypeOK
<1>6. TypeOK'
  BY <1>1, <1>2, <1>3, <1>4, <1>5 DEF TypeOK
<1>7. ShapeInv'
  BY <1>1 DEF ShapeInv, Shape
<1>8. ASSUME Single PROVE SingleInv'
  <2>1. \A g \in Procs : g = h
    BY <1>8 DEF Single
  <2>2. EditInv' /\ ApproveInv' /\ QuietInv'
    BY <1>1, <1>8, RestingInv
  <2>3. KeptInv'
    <3> SUFFICES ASSUME ~ Hasty, NEW p \in Peers, NEW q \in Policies, <<p, q>> \in pending'
                 PROVE  snap'[q] # NoSnap \/ q \in split'
      BY <1>1 DEF KeptInv
    <3>1. <<p, q>> \in pending /\ q \notin pols
      BY <1>1
    <3> QED  BY <3>1, <1>1, <1>8 DEF SingleInv, KeptInv
  <2>4. RestoresInv'
    <3> SUFFICES ASSUME NEW q \in Policies
                 PROVE  /\ policy'[q] = Unused => snap'[q] = NoSnap
                        /\ \/ Restored(q)' = base[q]
                           \/ Restored(q)' = Gone /\ base[q] = Unused
      BY <1>1 DEF RestoresInv
    <3>1. /\ policy[q] = Unused => snap[q] = NoSnap
          /\ \/ Restored(q) = base[q]
             \/ Restored(q) = Gone /\ base[q] = Unused
      BY <2>1, <1>8 DEF SingleInv, RestoresInv
    <3>2. CASE q \in pols
      <4>1. snap'[q] = NoSnap /\ policy'[q] = Restored(q)
        BY <3>2, <1>1
      <4>2. Restored(q)' = policy'[q]
        BY <4>1 DEF Restored, NoSnap
      <4> QED  BY <4>1, <4>2, <3>1
    <3>3. CASE q \notin pols
      <4>1. snap'[q] = snap[q] /\ policy'[q] = policy[q]
        BY <3>3, <1>1
      <4>2. Restored(q)' = Restored(q)
        BY <4>1 DEF Restored
      <4> QED  BY <4>1, <4>2, <3>1
    <3> QED  BY <3>2, <3>3
  <2>5. LossInv'
    <3> SUFFICES ASSUME NEW p \in Peers \ (reported \cup undone' \cup dropped), NEW q \in Policies
                 PROVE  UpToDate(p, q)' \/ <<p, q>> \in pending' \cup queued
      BY <1>1 DEF LossInv
    <3>1. p \notin undone /\ p \notin LeftBehind(pols)
      BY <1>1
    <3>2. UpToDate(p, q) \/ <<p, q>> \in pending \cup queued
      BY <3>1, <2>1, <1>8 DEF SingleInv, LossInv, Owes
    <3>3. CASE q \in pols /\ snap[q] # NoSnap
      BY <3>1, <3>3, <1>1, NotLeftBehind
    <3>4. CASE q \in pols /\ snap[q] = NoSnap
      <4>1. <<p, q>> \notin pending
        BY <3>1, <3>4, <1>1, NotLeftBehind
      <4>2. policy'[q] = policy[q]
        BY <3>4, <1>1, Unsnapped
      <4>3. UpToDate(p, q) => UpToDate(p, q)'
        BY <4>2, <1>1 DEF UpToDate, Contributes
      <4> QED  BY <4>1, <4>3, <3>2
    <3>5. CASE q \notin pols
      <4>1. policy'[q] = policy[q]
        BY <3>5, <1>1
      <4>2. UpToDate(p, q) => UpToDate(p, q)'
        BY <4>1, <1>1 DEF UpToDate, Contributes
      <4>3. <<p, q>> \in pending => <<p, q>> \in pending'
        BY <3>5, <1>1
      <4> QED  BY <4>2, <4>3, <3>2
    <3> QED  BY <3>3, <3>4, <3>5
  <2> QED  BY <2>2, <2>3, <2>4, <2>5 DEF SingleInv
<1> QED  BY <1>6, <1>7, <1>8

(* What a process owes is reported when it dies.                           *)
LEMMA OwesOwing ==
  ASSUME NEW h \in Procs, NEW p \in Peers, NEW q \in Policies, Owes(h, p, q)
  PROVE  p \in Owing(h)
<1>1. Pol(h) = q
  BY PolIs DEF Owes
<1> QED  BY <1>1 DEF Owes, Owing

(* The server dies.                                                        *)
LEMMA CrashStep ==
  ASSUME IInv, Crash
  PROVE  IInv'
<1> USE DEF IInv
<1>1. /\ Fault("crash") /\ queued' = {} /\ job' = [h \in Procs |-> Idle]
      /\ UNCHANGED <<tables, edits, split, reported, undone>>
      /\ dropped' = dropped \cup { r[1] : r \in queued } \cup UNION { Owing(h) : h \in Procs }
  BY DEF Crash
<1>2. base' = [q \in Policies |->
                 IF \E h \in Procs : job[h].pc = "created" /\ q \in job[h].pol
                   THEN policy[q] ELSE base[q]]
  BY DEF Crash
<1>3. ASSUME NEW h \in Procs PROVE Owing(h) \subseteq Peers
  <2>1. CASE job[h].pc \in {"created", "resolve", "queue"}
    <3>1. PICK q \in Policies : job[h].pol = {q}
      BY <2>1 DEF ShapeInv, Shape, Editing
    <3>2. Pol(h) = q
      BY <3>1, PolIs
    <3>3. policy[q].peers \subseteq Peers /\ job[h].old \subseteq Peers
      BY DEF TypeOK, Rows, LiveRows, Unused, Gone, Row, JobStates
    <3> QED  BY <3>2, <3>3 DEF Owing
  <2>2. CASE job[h].pc \notin {"created", "resolve", "queue"}
    BY <2>2 DEF Owing
  <2> QED  BY <2>1, <2>2
<1>4. { r[1] : r \in queued } \subseteq Peers /\ dropped \subseteq Peers
  BY DEF TypeOK
<1>5. dropped' \subseteq Peers
  BY <1>1, <1>3, <1>4
<1>6. faults' \in 0..MaxFaults
  BY <1>1, FaultType DEF TypeOK
<1>7. base' \in [Policies -> Rows]
  BY <1>2 DEF TypeOK
<1>8. job' \in [Procs -> JobStates] /\ \A h \in Procs : job'[h] = Idle
  BY <1>1, IdleState
<1>9. TypeOK'
  BY <1>1, <1>5, <1>6, <1>7, <1>8 DEF TypeOK, tables
<1>10. ShapeInv'
  BY <1>8, IdleState DEF ShapeInv, Shape
<1>11. ASSUME Single PROVE SingleInv'
  <2>1. EditInv' /\ ApproveInv' /\ QuietInv'
    BY <1>8, IdleState DEF EditInv, ApproveInv, QuietInv, Approving
  <2>2. KeptInv'
    BY <1>1, <1>11, KeptKept DEF SingleInv, tables
  <2>3. RestoresInv'
    <3> SUFFICES ASSUME NEW q \in Policies
                 PROVE  /\ policy[q] = Unused => snap[q] = NoSnap
                        /\ \/ Restored(q)' = base'[q]
                           \/ Restored(q)' = Gone /\ base'[q] = Unused
      BY <1>1 DEF RestoresInv, tables
    <3>1. Restored(q)' = Restored(q)
      BY <1>1 DEF Restored, tables
    <3>2. policy[q] = Unused => snap[q] = NoSnap
      BY <1>11 DEF SingleInv, RestoresInv
    <3>3. CASE \E h \in Procs : job[h].pc = "created" /\ q \in job[h].pol
      <4>1. PICK h \in Procs : job[h].pc = "created" /\ q \in job[h].pol
        BY <3>3
      <4>2. job[h].pol = {q}
        BY <4>1 DEF ShapeInv, Shape, Editing
      <4>3. snap[q] = NoSnap
        BY <4>1, <4>2, <1>11 DEF SingleInv, EditInv
      <4>4. Restored(q) = policy[q]
        BY <4>3, Unsnapped
      <4>5. base'[q] = policy[q]
        BY <3>3, <1>2
      <4> QED  BY <4>4, <4>5, <3>1, <3>2
    <3>4. CASE ~ \E h \in Procs : job[h].pc = "created" /\ q \in job[h].pol
      <4>1. base'[q] = base[q]
        BY <3>4, <1>2
      <4>2. ~ \E h \in Procs : job[h].pc = "created" /\ job[h].pol = {q}
        BY <3>4
      <4> QED  BY <4>1, <4>2, <3>1, <1>11 DEF SingleInv, RestoresInv
    <3> QED  BY <3>3, <3>4
  <2>4. LossInv'
    <3> SUFFICES ASSUME NEW p \in Peers \ (reported \cup undone \cup dropped'), NEW q \in Policies
                 PROVE  UpToDate(p, q)' \/ <<p, q>> \in pending
      BY <1>1 DEF LossInv, tables
    <3>1. p \notin dropped /\ (\A h \in Procs : p \notin Owing(h)) /\ <<p, q>> \notin queued
      BY <1>1
    <3>2. \A h \in Procs : ~ Owes(h, p, q)
      BY <3>1, OwesOwing
    <3>3. UpToDate(p, q) \/ <<p, q>> \in pending
      BY <3>1, <3>2, <1>11 DEF SingleInv, LossInv
    <3>4. UpToDate(p, q) => UpToDate(p, q)'
      BY <1>1 DEF UpToDate, Contributes, tables
    <3> QED  BY <3>3, <3>4
  <2> QED  BY <2>1, <2>2, <2>3, <2>4 DEF SingleInv
<1> QED  BY <1>9, <1>10, <1>11

(***************************************************************************)
(* The invariant                                                           *)
(***************************************************************************)

(* The invariant holds at first.                                           *)
LEMMA InitInv == Init => IInv
<1> SUFFICES ASSUME Init PROVE IInv
  OBVIOUS
<1>1. PICK f \in [Existing -> Scopes] :
        policy = [q \in Policies |-> IF q \in Existing THEN Row("live", 0, f[q]) ELSE Unused]
  BY DEF Init
<1>2. /\ snap = [q \in Policies |-> NoSnap] /\ pending = {} /\ queued = {}
      /\ bundle = [p \in Peers |-> Rules(p)]
      /\ job = [h \in Procs |-> Idle] /\ edits = 0 /\ base = policy /\ split = {}
      /\ reported = {} /\ dropped = {} /\ undone = {} /\ faults = 0
  BY DEF Init
<1>3. policy \in [Policies -> Rows]
  <2>1. \A q \in Existing : Row("live", 0, f[q]) \in Rows
    BY LiveRow, PendingChangesAssumption
  <2> QED  BY <1>1, <2>1 DEF Rows
<1>4. snap \in [Policies -> Snaps]
  BY <1>2 DEF Snaps
<1>5. bundle \in [Peers -> SUBSET Content]
  BY <1>2, <1>3, RulesType DEF Rules
<1>6. job \in [Procs -> JobStates] /\ \A h \in Procs : job[h] = Idle
  BY <1>2, IdleState
<1>7. edits \in 0..MaxEdits /\ faults \in 0..MaxFaults
  BY <1>2, PendingChangesAssumption
<1>8. TypeOK
  BY <1>2, <1>3, <1>4, <1>5, <1>6, <1>7 DEF TypeOK
<1>9. ShapeInv
  BY <1>6, IdleState DEF ShapeInv
<1>10. EditInv /\ ApproveInv /\ QuietInv
  BY <1>6, IdleState DEF EditInv, ApproveInv, QuietInv, Approving
<1>11. KeptInv
  BY <1>2 DEF KeptInv
<1>12. RestoresInv
  <2>1. \A q \in Policies : Restored(q) = policy[q]
    BY <1>2, Unsnapped
  <2> QED  BY <2>1, <1>2 DEF RestoresInv
<1>13. LossInv
  <2>1. \A p \in Peers, q \in Policies : UpToDate(p, q)
    BY <1>2, CompiledUpToDate
  <2> QED  BY <2>1 DEF LossInv
<1> QED  BY <1>8, <1>9, <1>10, <1>11, <1>12, <1>13 DEF IInv, SingleInv

(* Nothing that the invariant speaks of changes.                           *)
LEMMA StutterStep ==
  ASSUME IInv, UNCHANGED vars
  PROVE  IInv'
<1> USE DEF IInv, vars, tables, history
<1>1. TypeOK' /\ ShapeInv'
  BY DEF TypeOK, ShapeInv, Shape
<1>2. ASSUME Single PROVE SingleInv'
  <2>1. EditInv' /\ ApproveInv' /\ QuietInv' /\ KeptInv'
    BY <1>2 DEF SingleInv, EditInv, ApproveInv, QuietInv, KeptInv, Rules
  <2>2. RestoresInv'
    BY <1>2 DEF SingleInv, RestoresInv, Restored
  <2>3. \A h \in Procs, p \in Peers, q \in Policies : Owes(h, p, q) => Owes(h, p, q)'
    BY DEF Owes
  <2>4. LossInv'
    BY <2>3, <1>2, LossKept DEF SingleInv
  <2> QED  BY <2>1, <2>2, <2>4 DEF SingleInv
<1> QED  BY <1>1, <1>2

(* Every step of an edit keeps the invariant.                              *)
LEMMA EditStep ==
  ASSUME IInv, NEW h \in Procs, Edit(h)
  PROVE  IInv'
<1>1. \A peers \in Scopes : peers \in SUBSET Peers
  BY PendingChangesAssumption
<1>2. CASE \E q \in Policies, peers \in Scopes : CreatePolicy(h, q, peers)
  BY <1>2, CreateStep
<1>3. CASE \E q \in Policies, peers \in Scopes : EditPolicy(h, q, "update", peers)
  BY <1>1, <1>3, EditPolicyStep
<1>4. CASE \E q \in Policies : EditPolicy(h, q, "delete", {})
  BY <1>4, EditPolicyStep
<1>5. CASE Snapshot(h) \/ SnapshotFails(h)
  BY <1>5, SnapshotStep, SnapshotFailsStep
<1>6. CASE Mutate(h) \/ MutateFails(h)
  BY <1>6, MutateStep, MutateFailsStep
<1>7. CASE Resolve(h) \/ ResolveFails(h)
  BY <1>7, ResolveStep, ResolveFailsStep
<1>8. CASE Queue(h) \/ QueueSync(h)
  BY <1>8, QueueStep, QueueSyncStep
<1> QED  BY <1>2, <1>3, <1>4, <1>5, <1>6, <1>7, <1>8 DEF Edit

(* Every step of an approval keeps the invariant.                          *)
LEMMA ApprovalStep ==
  ASSUME IInv, NEW h \in Procs, Approval(h)
  PROVE  IInv'
<1>1. Flagged \in SUBSET Peers /\ job[h].new \in SUBSET Peers
  BY DEF IInv, TypeOK, Flagged, JobStates
<1>2. CASE \E p \in Peers : ApplyPeer(h, p)
  BY <1>2, ApproveStep DEF ApplyPeer, Approvals
<1>3. CASE \E p \in Peers : Push(h, {p})
  BY <1>3, ApproveStep DEF Push, Approvals
<1>4. CASE ApplyAll(h)
  BY <1>1, <1>4, ApproveStep DEF ApplyAll, Approvals
<1>5. CASE Push(h, Peers)
  BY <1>5, ApproveStep DEF Push, Approvals
<1>6. CASE \E p \in Peers, q \in Policies : ApplyEntity(h, p, q)
  BY <1>6, ApproveStep DEF ApplyEntity, Approvals
<1>7. CASE \E p \in Peers : Compile(h, p)
  BY <1>7, CompileStep
<1>8. CASE \E p \in Peers : CompileFails(h, p)
  <2>1. PICK p \in Peers : CompileFails(h, p)
    BY <1>8
  <2>2. /\ job[h].pc \in {"compile", "clear"} /\ Fault("compile")
        /\ GivesUp(h, job[h].new \ {p}) /\ UNCHANGED <<tables, queued, edits, history>>
    BY <2>1 DEF CompileFails
  <2>3. job[h].new \ {p} \in SUBSET Peers
    BY <1>1
  <2> QED  BY <2>2, <2>3, GivesUpStep
<1>9. CASE Store(h)
  BY <1>9, StoreStep
<1>10. CASE Clear(h)
  BY <1>10, ClearStep
<1>11. CASE ClearFails(h)
  <2>1. /\ job[h].pc \in {"compile", "clear"} /\ Fault("clear")
        /\ GivesUp(h, job[h].new) /\ UNCHANGED <<tables, queued, edits, history>>
    BY <1>11 DEF ClearFails
  <2> QED  BY <2>1, <1>1, GivesUpStep
<1>12. CASE Cleanup(h)
  BY <1>12, CleanupStep
<1> QED  BY <1>2, <1>3, <1>4, <1>5, <1>6, <1>7, <1>8, <1>9, <1>10, <1>11, <1>12 DEF Approval

(* Every step keeps the invariant.                                         *)
LEMMA StepInv ==
  ASSUME IInv, [Next]_vars
  PROVE  IInv'
<1>1. CASE \E h \in Procs : Edit(h)
  BY <1>1, EditStep
<1>2. CASE \E h \in Procs : Approval(h)
  BY <1>2, ApprovalStep
<1>3. CASE \E h \in Procs : Rollback(h)
  BY <1>3, RollBackStep DEF Rollback
<1>4. CASE \E h \in Procs, q \in Policies : RollbackEntity(h, q)
  BY <1>4, RollBackStep DEF RollbackEntity
<1>5. CASE \E r \in queued : Persist(r)
  BY <1>5, PersistStep
<1>6. CASE Crash
  BY <1>6, CrashStep
<1>7. CASE UNCHANGED vars
  BY <1>7, StutterStep
<1> QED  BY <1>1, <1>2, <1>3, <1>4, <1>5, <1>6, <1>7 DEF Next

(* The inductive invariant holds, for overlapping requests too: its last   *)
(* conjunct is about the others.                                           *)
THEOREM Invariant == Spec => []IInv
<1>1. IInv /\ [Next]_vars => IInv'
  BY StepInv
<1> QED  BY InitInv, <1>1, PTL DEF Spec

(* Every variable keeps its type, whatever overlaps: no snapshot holds a   *)
(* deleted row, and no row is written for a peer that does not exist.      *)
THEOREM TypeCorrect == Spec => []TypeOK
<1>1. IInv => TypeOK
  BY DEF IInv
<1> QED  BY Invariant, <1>1, PTL

(* When requests do not overlap, rolling back gives the policies as last   *)
(* approved, after any number of edits, partial approvals, failures,       *)
(* crashes and earlier rollbacks (CreateSnapshot keeps the first change).  *)
THEOREM RollbackCorrect == Spec => [](Single => RollbackRestores)
<1>1. ASSUME IInv, Single PROVE RollbackRestores
  <2> SUFFICES ASSUME NEW q \in Policies
               PROVE  \/ \E h \in Procs : job[h].pc = "created" /\ q \in job[h].pol
                      \/ Restored(q) = base[q]
                      \/ Restored(q) = Gone /\ base[q] = Unused
    BY DEF RollbackRestores
  <2>1. \/ \E h \in Procs : job[h].pc = "created" /\ job[h].pol = {q}
        \/ Restored(q) = base[q]
        \/ Restored(q) = Gone /\ base[q] = Unused
    BY <1>1 DEF IInv, SingleInv, RestoresInv
  <2> QED  BY <2>1
<1>2. IInv => (Single => RollbackRestores)
  BY <1>1
<1> QED  BY Invariant, <1>2, PTL

(* When requests do not overlap, a crash and a failed INSERT of the worker *)
(* cost no more than the rows that were in memory, wherever the server     *)
(* dies and also when approvals come while rows are queued.                *)
THEOREM CrashLossBounded == Spec => [](Single => OnlyQueuedLost)
<1>1. ASSUME IInv, Single PROVE OnlyQueuedLost
  <2> SUFFICES ASSUME NEW p \in Peers \ (reported \cup undone \cup dropped)
               PROVE  Signalled(p)
    BY DEF OnlyQueuedLost
  <2>1. CASE \A q \in Policies : UpToDate(p, q)
    BY <2>1, <1>1, UpToDateCompiled DEF IInv, Signalled
  <2>2. CASE \E q \in Policies : ~ UpToDate(p, q)
    <3>1. PICK q \in Policies : ~ UpToDate(p, q)
      BY <2>2
    <3>2. <<p, q>> \in pending \cup queued \/ \E h \in Procs : Owes(h, p, q)
      BY <3>1, <1>1 DEF IInv, SingleInv, LossInv
    <3> QED  BY <3>2, OwesOwing DEF Signalled
  <2> QED  BY <2>1, <2>2
<1>2. IInv => (Single => OnlyQueuedLost)
  BY <1>1
<1> QED  BY Invariant, <1>2, PTL

(* Nothing fails but statements of requests, whose client gets an answer.  *)
Answered == FaultKinds \cap {"insert", "crash"} = {}

(* Only the process that dies and the worker's INSERT drop a row.          *)
LEMMA DroppedStep ==
  ASSUME dropped = {}, Answered, [Next]_vars
  PROVE  dropped' = {}
<1>1. ~ Crash
  BY DEF Answered, Crash, Fault
<1>2. ASSUME NEW r \in queued, Persist(r) PROVE dropped' = {}
  BY <1>2 DEF Answered, Persist, Fault
<1>3. ASSUME NEW h \in Procs, Edit(h) PROVE dropped' = {}
  BY <1>3 DEF Edit, CreatePolicy, EditPolicy, Snapshot, SnapshotFails, Mutate, MutateFails,
              Resolve, ResolveFails, Queue, QueueSync, history
<1>4. ASSUME NEW h \in Procs, Approval(h) PROVE dropped' = {}
  <2>1. ASSUME Store(h) PROVE dropped' = {}
    BY <2>1 DEF Store
  <2>2. ASSUME Approval(h), ~ Store(h) PROVE dropped' = dropped
    BY <2>2 DEF Approval, ApplyPeer, Push, ApplyAll, ApplyEntity, Approve, Compile,
                CompileFails, Clear, ClearFails, Cleanup, history
  <2> QED  BY <1>4, <2>1, <2>2
<1>5. ASSUME NEW h \in Procs, Rollback(h) \/ \E q \in Policies : RollbackEntity(h, q)
      PROVE  dropped' = {}
  BY <1>5 DEF Rollback, RollbackEntity, RollBack
<1>6. CASE UNCHANGED vars
  BY <1>6 DEF vars, history
<1> QED  BY <1>1, <1>2, <1>3, <1>4, <1>5, <1>6 DEF Next

(* The fail-closed contract: when requests do not overlap and what fails   *)
(* is a statement of a request, no peer is stale without a row that says   *)
(* so or an error that a client was answered.                              *)
THEOREM LossReported == Spec => [](Single /\ Answered => NoSilentLoss)
<1>1. Init => (Answered => dropped = {})
  BY DEF Init
<1>2. (Answered => dropped = {}) /\ [Next]_vars => (Answered => dropped = {})'
  BY DroppedStep DEF Answered
<1>3. Spec => [](Answered => dropped = {})
  BY <1>1, <1>2, PTL DEF Spec
<1>4. (Answered => dropped = {}) /\ (Single => OnlyQueuedLost)
        => (Single /\ Answered => NoSilentLoss)
  BY DEF OnlyQueuedLost, NoSilentLoss
<1> QED  BY CrashLossBounded, <1>3, <1>4, PTL

(* When requests do not overlap and approvals wait for queued rows, the    *)
(* snapshot of a change is kept while a row of it is pending, unless       *)
(* ApplyEntity has approved it for another peer (CleanupIfComplete counts  *)
(* the rows).                                                              *)
THEOREM SnapshotKept == Spec => [](Single /\ ~ Hasty => Rollbackable)
<1>1. ASSUME IInv, Single, ~ Hasty PROVE Rollbackable
  <2> SUFFICES ASSUME NEW r \in pending PROVE snap[r[2]] # NoSnap \/ r[2] \in split
    BY DEF Rollbackable
  <2>1. PICK p \in Peers, q \in Policies : r = <<p, q>>
    BY <1>1 DEF IInv, TypeOK
  <2>2. snap[q] # NoSnap \/ q \in split
    BY <2>1, <1>1 DEF IInv, SingleInv, KeptInv
  <2> QED  BY <2>1, <2>2
<1>2. IInv => (Single /\ ~ Hasty => Rollbackable)
  BY <1>1
<1> QED  BY Invariant, <1>2, PTL
=============================================================================
