--------------------------- MODULE PendingChanges ---------------------------
(***************************************************************************)
(* How edits of policies become bundles: the policy handlers, the tables   *)
(* pending_changes and change_snapshots, and the handlers that approve     *)
(* (apply), push or roll back pending changes.                             *)
(*                                                                         *)
(* A request handler, or the push worker, is a process; between two of its *)
(* steps others may act.  A step is one transaction, or one statement that *)
(* runs outside of a transaction.                                          *)
(*                                                                         *)
(* A policy row is known by its revision and the peers it affects (those   *)
(* GetAffectedPeersByPolicy resolves).  What a revision contributes to the *)
(* bundle of a peer is the pair of policy and revision; PatchPolicy makes  *)
(* a new revision that affects the same peers.  Rows of pending_changes    *)
(* are pairs of peer and policy: every deletion of rows ignores the action.*)
(* pending_bundle_previews is only ever written and is left out.           *)
(***************************************************************************)
EXTENDS Naturals, FiniteSets

CONSTANTS
    Procs,       \* request handlers and the push worker
    Peers,       \* peer ids
    Policies,    \* policy ids; AUTOINCREMENT never assigns one twice
    Existing,    \* the policies that are there, and approved, at first
    Scopes,      \* sets of peers a policy can affect
    Hasty,       \* approvals may come while acknowledged rows are queued
    MaxEdits,    \* bound on the number of edits
    FaultKinds,  \* the kinds of fault that may happen
    MaxFaults    \* bound on the number of faults

ASSUME PendingChangesAssumption ==
    /\ Existing \subseteq Policies
    /\ Scopes \subseteq SUBSET Peers /\ Scopes # {}
    /\ Hasty \in BOOLEAN
    /\ MaxEdits \in Nat /\ MaxFaults \in Nat

VARIABLES
    policy,    \* the policies table
    snap,      \* change_snapshots
    pending,   \* pending_changes
    queued,    \* rows accepted by the change worker, not inserted yet
    bundle,    \* content of each peer's newest rule_bundles row
    job,       \* what each process is doing
    edits,     \* number of edits so far
    base,      \* each policy as last approved (history)
    split,     \* policies approved for some of their peers only (history)
    reported,  \* peers whose row could not be queued, which the client was
               \* answered with an error (history)
    dropped,   \* peers whose row died with the process, or was not inserted
               \* by the worker, after the client had its answer (history)
    undone,    \* peers a rollback left behind (history)
    faults     \* number of faults so far

tables == <<policy, snap, pending, bundle>>
history == <<base, split, reported, dropped, undone>>
vars == <<tables, queued, job, edits, history, faults>>

Row(state, rev, peers) == [state |-> state, rev |-> rev, peers |-> peers]
Unused == Row("unused", 0, {})
Gone == Row("gone", 0, {})
LiveRows == [state : {"live"}, rev : 0..MaxEdits, peers : SUBSET Peers]
Rows == {Unused, Gone} \cup LiveRows \cup
        [state : {"deleted"}, rev : 0..MaxEdits, peers : SUBSET Peers]

NoSnap == [action |-> "none", row |-> Unused]
Snaps == {NoSnap} \cup [action : {"create"}, row : {Unused}]
                  \cup [action : {"update", "delete"}, row : LiveRows]

Edits == {"create", "update", "delete"}
Approvals == {"apply", "apply_all", "apply_entity", "push"}
Content == Policies \X (0..MaxEdits)
Idle == [pc |-> "idle", op |-> "none", pol |-> {}, old |-> {}, new |-> {},
         read |-> {}]

(* Old and new are sets of peers: those resolved before and those named by *)
(* an edit, or the peer at hand and the peers still to come of an approval.*)
JobStates ==
    [pc : {"idle", "created", "mutate", "resolve", "queue",
           "compile", "store", "clear", "cleanup"},
     op : Edits \cup Approvals \cup {"none"}, pol : SUBSET Policies,
     old : SUBSET Peers, new : SUBSET Peers, read : SUBSET Content]

(* The type of every variable; a snapshot holds a row as it was before the *)
(* change, never a deleted one.                                            *)
TypeOK ==
    /\ policy \in [Policies -> Rows]
    /\ snap \in [Policies -> Snaps]
    /\ pending \subseteq Peers \X Policies
    /\ queued \subseteq Peers \X Policies
    /\ bundle \in [Peers -> SUBSET Content]
    /\ job \in [Procs -> JobStates]
    /\ edits \in 0..MaxEdits
    /\ base \in [Policies -> Rows]
    /\ split \subseteq Policies
    /\ reported \subseteq Peers /\ dropped \subseteq Peers /\ undone \subseteq Peers
    /\ faults \in 0..MaxFaults

-----------------------------------------------------------------------------
(* Helpers.                                                                *)

(* Compile: the policies of the table that apply to the peer.              *)
RulesOf(table, p) ==
    { <<q, table[q].rev>> : q \in { r \in Policies :
                                    /\ table[r].state = "live"
                                    /\ p \in table[r].peers } }
Rules(p) == RulesOf(policy, p)

Init ==
    /\ \E f \in [Existing -> Scopes] :
           policy = [q \in Policies |-> IF q \in Existing
                                          THEN Row("live", 0, f[q])
                                          ELSE Unused]
    /\ snap = [q \in Policies |-> NoSnap]
    /\ pending = {} /\ queued = {}
    /\ bundle = [p \in Peers |-> Rules(p)]
    /\ job = [h \in Procs |-> Idle]
    /\ edits = 0
    /\ base = policy /\ split = {}
    /\ reported = {} /\ dropped = {} /\ undone = {}
    /\ faults = 0

Fault(kind) ==
    /\ kind \in FaultKinds
    /\ faults < MaxFaults
    /\ faults' = faults + 1

End(h) == job' = [job EXCEPT ![h] = Idle]
Goto(h, pc) == job' = [job EXCEPT ![h].pc = pc]
Begins(h, new) ==
    /\ job[h].pc = "idle"
    /\ job' = [job EXCEPT ![h] = new]

Pol(h) == CHOOSE q \in job[h].pol : TRUE
RowsFor(peers, q) == { <<p, q>> : p \in peers }

(* A CreateSnapshot that overwrites the snapshot of an earlier change.     *)
WithSnapshotReplaced(q, action) ==
    [snap EXCEPT ![q] =
        [action |-> action,
         row |-> IF action = "create" THEN Unused ELSE policy[q]]]

(* CreateSnapshot: INSERT OR IGNORE, the first change wins.                *)
WithSnapshot(q, action) ==
    IF snap[q] # NoSnap THEN snap
    ELSE [snap EXCEPT ![q] =
             [action |-> action,
              row |-> IF action = "create" THEN Unused ELSE policy[q]]]

-----------------------------------------------------------------------------
(* Edits.                                                                  *)

(* CreatePolicy inserts the row ...                                        *)
CreatePolicy(h, q, peers) ==
    /\ edits < MaxEdits
    /\ policy[q] = Unused
    /\ Begins(h, [Idle EXCEPT !.pc = "created", !.op = "create", !.pol = {q}])
    /\ policy' = [policy EXCEPT ![q] = Row("live", edits + 1, peers)]
    /\ edits' = edits + 1
    /\ UNCHANGED <<snap, pending, bundle, queued, history, faults>>

(* ... and takes the snapshot in a statement of its own ...                *)
Snapshot(h) ==
    /\ job[h].pc = "created"
    /\ snap' = WithSnapshot(Pol(h), "create")
    /\ Goto(h, "resolve")
    /\ UNCHANGED <<policy, pending, bundle, queued, edits, history, faults>>

(* ... whose failure is answered with 500: the policy is there to stay.    *)
SnapshotFails(h) ==
    /\ job[h].pc = "created"
    /\ Fault("snapshot")
    /\ base' = [base EXCEPT ![Pol(h)] = policy[Pol(h)]]
    /\ reported' = reported \cup policy[Pol(h)].peers
    /\ End(h)
    /\ UNCHANGED <<tables, queued, edits, split, dropped, undone>>

(* UpdatePolicy, PatchPolicy and DeletePolicy look the policy up and       *)
(* resolve the peers it affects before the change.                         *)
EditPolicy(h, q, op, peers) ==
    /\ edits < MaxEdits
    /\ policy[q].state = "live"
    /\ Begins(h, [Idle EXCEPT !.pc = "mutate", !.op = op, !.pol = {q},
                              !.old = policy[q].peers, !.new = peers])
    /\ UNCHANGED <<tables, queued, edits, history, faults>>

(* The transaction of an edit: snapshot, then UPDATE or soft delete.       *)
Mutate(h) ==
    LET q == Pol(h) IN
    /\ job[h].pc = "mutate"
    /\ policy[q].state = "live" /\ edits < MaxEdits
    /\ snap' = WithSnapshot(q, job[h].op)
    /\ policy' = [policy EXCEPT ![q] =
           IF job[h].op = "delete"
             THEN [policy[q] EXCEPT !.state = "deleted"]
             ELSE Row("live", edits + 1, job[h].new)]
    /\ edits' = edits + 1
    /\ Goto(h, IF job[h].op = "delete" THEN "queue" ELSE "resolve")
    /\ UNCHANGED <<pending, bundle, queued, history, faults>>

(* The transaction fails, or finds the policy deleted by somebody else:    *)
(* it is rolled back and the request answered with an error.               *)
MutateFails(h) ==
    /\ job[h].pc = "mutate"
    /\ \/ Fault("mutate")
       \/ (policy[Pol(h)].state # "live" \/ edits = MaxEdits) /\ faults' = faults
    /\ End(h)
    /\ UNCHANGED <<tables, queued, edits, history>>

(* The peers the policy affects after the change.                          *)
Resolve(h) ==
    /\ job[h].pc = "resolve"
    /\ policy[Pol(h)].state = "live"
    /\ job' = [job EXCEPT ![h].pc = "queue",
                          ![h].old = @ \cup policy[Pol(h)].peers]
    /\ UNCHANGED <<tables, queued, edits, history, faults>>

(* They cannot be resolved: the peers from before are queued, there are    *)
(* none after a create, and the request is answered with 500.              *)
ResolveFails(h) ==
    /\ job[h].pc = "resolve"
    /\ \/ Fault("resolve")
       \/ policy[Pol(h)].state # "live" /\ faults' = faults
    /\ queued' = queued \cup RowsFor(job[h].old, Pol(h))
    /\ reported' = reported \cup (policy[Pol(h)].peers \ job[h].old)
    /\ End(h)
    /\ UNCHANGED <<tables, edits, base, split, dropped, undone>>

(* QueuePeerChange: the worker takes the rows over and the client is       *)
(* answered ...                                                            *)
Queue(h) ==
    /\ job[h].pc = "queue"
    /\ queued' = queued \cup RowsFor(job[h].old, Pol(h))
    /\ End(h)
    /\ UNCHANGED <<tables, edits, history, faults>>

(* ... or, the worker being busy or gone, the handler inserts the rows     *)
(* itself and reports those that fail.                                     *)
QueueSync(h) ==
    /\ job[h].pc = "queue"
    /\ \E lost \in SUBSET job[h].old :
           /\ IF lost = {} THEN faults' = faults ELSE Fault("queue")
           /\ pending' = pending \cup RowsFor(job[h].old \ lost, Pol(h))
           /\ reported' = reported \cup lost
    /\ End(h)
    /\ UNCHANGED <<policy, snap, bundle, queued, edits, base, split, dropped, undone>>

(* The change worker inserts a row, or only logs that it could not.        *)
Persist(r) ==
    /\ queued' = queued \ {r}
    /\ \/ /\ pending' = pending \cup {r}
          /\ UNCHANGED <<dropped, faults>>
       \/ /\ Fault("insert")
          /\ dropped' = dropped \cup {r[1]}
          /\ UNCHANGED pending
    /\ UNCHANGED <<policy, snap, bundle, job, edits, base, split, reported, undone>>

-----------------------------------------------------------------------------
(* Approvals and pushes.                                                   *)

Approve(h, op, peers, pols) ==
    /\ Hasty \/ queued = {}
    /\ Begins(h, [Idle EXCEPT !.pc = "compile", !.op = op, !.pol = pols,
                              !.new = peers])
    /\ UNCHANGED <<tables, queued, edits, history, faults>>

Flagged == { r[1] : r \in pending }

ApplyPeer(h, p) == Approve(h, "apply", {p}, {})
ApplyAll(h) == Flagged # {} /\ Approve(h, "apply_all", Flagged, {})
ApplyEntity(h, p, q) ==
    <<p, q>> \in pending /\ Approve(h, "apply_entity", {p}, {q})
Push(h, peers) == Approve(h, "push", peers, {})

(* CompileAndStore reads the policies ...                                  *)
Compile(h, p) ==
    /\ job[h].pc = "compile"
    /\ p \in job[h].new
    /\ job' = [job EXCEPT ![h].pc = "store", ![h].read = Rules(p),
                          ![h].old = {p}, ![h].new = @ \ {p}]
    /\ UNCHANGED <<tables, queued, edits, history, faults>>

(* Where a process goes when it is through with a peer: to the next one,   *)
(* to the cleanup if it has approved, or back to its client.               *)
NextPeer(h, rest) ==
    CASE rest # {} -> job' = [job EXCEPT ![h] =
                         [@ EXCEPT !.pc = "compile", !.old = {}, !.read = {},
                                   !.new = rest]]
      [] rest = {} /\ job[h].op \in {"apply", "apply_all"} -> Goto(h, "cleanup")
      [] OTHER -> End(h)

(* A failure ends the request, but ApplyAll and the push worker go on with *)
(* their next peer.                                                        *)
GivesUp(h, rest) ==
    IF job[h].op = "apply" THEN End(h) ELSE NextPeer(h, rest)

(* A failed compile that has cleared the rows before (clear, then compile).*)
CompileFailsCleared(h, p) ==
    /\ job[h].pc = "compile"
    /\ p \in job[h].new
    /\ Fault("compile")
    /\ pending' = { r \in pending : r[1] # p }
    /\ GivesUp(h, job[h].new \ {p})
    /\ UNCHANGED <<policy, snap, bundle, queued, edits, history>>

CompileFails(h, p) ==
    /\ job[h].pc = "compile"
    /\ p \in job[h].new
    /\ Fault("compile")
    /\ GivesUp(h, job[h].new \ {p})
    /\ UNCHANGED <<tables, queued, edits, history>>

(* ... and inserts the bundle as the peer's newest.                        *)
Store(h) ==
    LET p == CHOOSE r \in job[h].old : TRUE IN
    /\ job[h].pc = "store"
    /\ bundle' = [bundle EXCEPT ![p] = job[h].read]
    /\ LET current == IF job[h].read = Rules(p) THEN {p} ELSE {} IN
           /\ reported' = reported \ current /\ dropped' = dropped \ current
           /\ undone' = undone \ current
    /\ IF job[h].op = "push" THEN NextPeer(h, job[h].new) ELSE Goto(h, "clear")
    /\ UNCHANGED <<policy, snap, pending, queued, edits, base, split, faults>>

(* ClearPendingChangesForPeer.                                             *)
Cleared(p) == { r \in pending : r[1] # p }

(* The transaction after the bundle is stored: the rows of the peer go;    *)
(* with ApplyEntity the row of one policy and that policy's snapshot.      *)
Clear(h) ==
    LET p == CHOOSE r \in job[h].old : TRUE
        q == Pol(h)
    IN  /\ job[h].pc = "clear"
        /\ IF job[h].op # "apply_entity"
             THEN /\ pending' = Cleared(p)
                  /\ NextPeer(h, job[h].new)
                  /\ UNCHANGED <<snap, base, split>>
             ELSE /\ pending' = pending \ {<<p, q>>}
                  /\ snap' = [snap EXCEPT ![q] = NoSnap]
                  /\ base' = [base EXCEPT ![q] = policy[q]]
                  /\ split' = split \cup {q}
                  /\ IF \E r \in pending' : r[1] = p
                       THEN End(h) ELSE Goto(h, "cleanup")
        /\ UNCHANGED <<policy, bundle, queued, edits, reported, dropped, undone, faults>>

ClearFails(h) ==
    /\ job[h].pc = "clear"
    /\ Fault("clear")
    /\ GivesUp(h, job[h].new)
    /\ UNCHANGED <<tables, queued, edits, history>>

(* The effect of CleanupIfComplete: soft-deleted rows and all snapshots    *)
(* go; whatever is left is approved.                                       *)
CleanUp ==
    /\ policy' = [q \in Policies |->
           IF policy[q].state = "deleted" THEN Gone ELSE policy[q]]
    /\ snap' = [q \in Policies |-> NoSnap]
    /\ base' = policy'
    /\ split' = {}

(* A cleanup that does not count the pending rows.                         *)
CleanupUncounted(h) ==
    /\ job[h].pc = "cleanup"
    /\ CleanUp
    /\ End(h)
    /\ UNCHANGED <<pending, bundle, queued, edits, reported, dropped, undone, faults>>

(* CleanupIfComplete, one transaction; its errors are ignored.             *)
Cleanup(h) ==
    /\ job[h].pc = "cleanup"
    /\ \/ pending = {} /\ CleanUp /\ faults' = faults
       \/ pending # {} /\ UNCHANGED <<policy, snap, base, split, faults>>
       \/ Fault("cleanup") /\ UNCHANGED <<policy, snap, base, split>>
    /\ End(h)
    /\ UNCHANGED <<pending, bundle, queued, edits, reported, dropped, undone>>

-----------------------------------------------------------------------------
(* Rollback.                                                               *)

(* What rolling back makes of a policy.  UPDATE restores a row that is     *)
(* still in the table.                                                     *)
Restored(q) ==
    CASE snap[q] = NoSnap -> policy[q]
      [] snap[q].action = "create" -> Gone
      [] OTHER -> IF policy[q].state = "gone" THEN policy[q] ELSE snap[q].row

(* Peers that a rollback of the given policies leaves behind: their newest *)
(* bundle was compiled with what is undone, or they lose the row of a      *)
(* change that stays.                                                      *)
LeftBehind(pols) ==
    LET after == [q \in Policies |-> IF q \in pols THEN Restored(q)
                                                   ELSE policy[q]]
        part(content, q) == { c \in content : c[1] = q }
    IN  { p \in Peers : \E q \in pols :
            \/ /\ snap[q] # NoSnap
               /\ part(bundle[p], q) # part(RulesOf(after, p), q)
            \/ snap[q] = NoSnap /\ <<p, q>> \in pending }

(* RollbackSnapshots and RollbackEntitySnapshot, each one transaction.     *)
RollBack(pols) ==
    /\ Hasty \/ queued = {}
    /\ policy' = [q \in Policies |-> IF q \in pols THEN Restored(q)
                                                   ELSE policy[q]]
    /\ snap' = [q \in Policies |-> IF q \in pols THEN NoSnap ELSE snap[q]]
    /\ pending' = { r \in pending : r[2] \notin pols }
    /\ undone' = undone \cup LeftBehind(pols)
    /\ split' = split \ pols
    /\ UNCHANGED <<bundle, queued, job, edits, base, reported, dropped, faults>>

Rollback(h) == job[h].pc = "idle" /\ RollBack(Policies)

RollbackEntity(h, q) ==
    job[h].pc = "idle" /\ snap[q] # NoSnap /\ RollBack({q})

-----------------------------------------------------------------------------
(* The server dies: requests and queued rows are gone, and nobody is told. *)
(* A policy that was inserted and not yet snapshotted stays.               *)
Owing(h) ==
    IF job[h].pc \in {"created", "resolve", "queue"}
      THEN job[h].old \cup policy[Pol(h)].peers ELSE {}
Crash ==
    /\ Fault("crash")
    /\ dropped' = dropped \cup { r[1] : r \in queued }
                          \cup UNION { Owing(h) : h \in Procs }
    /\ base' = [q \in Policies |->
           IF \E h \in Procs : job[h].pc = "created" /\ q \in job[h].pol
             THEN policy[q] ELSE base[q]]
    /\ queued' = {}
    /\ job' = [h \in Procs |-> Idle]
    /\ UNCHANGED <<tables, edits, split, reported, undone>>

-----------------------------------------------------------------------------
Edit(h) ==
    \/ \E q \in Policies, peers \in Scopes :
           CreatePolicy(h, q, peers) \/ EditPolicy(h, q, "update", peers)
    \/ \E q \in Policies : EditPolicy(h, q, "delete", {})
    \/ Snapshot(h) \/ SnapshotFails(h)
    \/ Mutate(h) \/ MutateFails(h)
    \/ Resolve(h) \/ ResolveFails(h)
    \/ Queue(h) \/ QueueSync(h)

Approval(h) ==
    \/ \E p \in Peers : ApplyPeer(h, p) \/ Push(h, {p})
    \/ ApplyAll(h) \/ Push(h, Peers)
    \/ \E p \in Peers, q \in Policies : ApplyEntity(h, p, q)
    \/ \E p \in Peers : Compile(h, p) \/ CompileFails(h, p)
    \/ Store(h) \/ Clear(h) \/ ClearFails(h) \/ Cleanup(h)

Next ==
    \/ \E h \in Procs : Edit(h) \/ Approval(h) \/ Rollback(h)
    \/ \E h \in Procs, q \in Policies : RollbackEntity(h, q)
    \/ \E r \in queued : Persist(r)
    \/ Crash

Spec == Init /\ [][Next]_vars

-----------------------------------------------------------------------------
(* Properties.                                                             *)

(* A peer whose newest bundle is not what its policies compile to has a    *)
(* row that says so, or is about to get one.                               *)
Signalled(p) ==
    \/ bundle[p] = Rules(p)
    \/ \E q \in Policies : <<p, q>> \in pending \cup queued
    \/ \E h \in Procs : p \in Owing(h)

(* The "Pending Fan-out Contract (fail-closed)" of openapi.yaml: whatever  *)
(* is edited, applied, pushed or rolled back, and whichever statement of a *)
(* request fails, no peer is stale without a pending row, unless a client  *)
(* was answered with an error about it or a rollback left the peer behind. *)
(* The contract ends with the answer: a process that dies, and an INSERT   *)
(* of the worker that fails, break it (fault kinds "crash" and "insert").  *)
NoSilentLoss == \A p \in Peers \ (reported \cup undone) : Signalled(p)

(* What a crash and a failed INSERT of the worker can cost: the rows that  *)
(* were in memory, and until the peer is next compiled.  No row that was   *)
(* in the table is lost with them, by an approval cut in two, a request    *)
(* that never was answered, or anything that is done after the restart.    *)
OnlyQueuedLost ==
    \A p \in Peers \ (reported \cup undone \cup dropped) : Signalled(p)

(* "without a snapshot there is no rollback path" (CreatePolicy): as long  *)
(* as a change of a policy is pending for some peer, its snapshot is kept, *)
(* unless ApplyEntity has approved it for another peer.                    *)
Rollbackable ==
    \A r \in pending : snap[r[2]] # NoSnap \/ r[2] \in split

(* "only the first change is snapshotted" (CreateSnapshot): after any      *)
(* number of edits, partial applies and failures, rolling back gives the   *)
(* policies as they were last approved.                                    *)
RollbackRestores ==
    \A q \in Policies :
        \/ \E h \in Procs : job[h].pc = "created" /\ q \in job[h].pol
        \/ Restored(q) = base[q]
        \/ Restored(q) = Gone /\ base[q] = Unused

(* "Mutations ... queue DB-driven pending-change fan-out for every         *)
(* affected peer" (openapi.yaml), rollbacks included.                      *)
RollbackSignals == \A p \in Peers \ (reported \cup dropped) : Signalled(p)
=============================================================================
