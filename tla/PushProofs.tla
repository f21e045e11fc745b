----------------------------- MODULE PushProofs -----------------------------
(***************************************************************************)
(* Proofs about Push for every set of jobs and agents, every capacity of   *)
(* the queue and every bound on the failing statements.                    *)
(*                                                                         *)
(* A job has one writer at a time: the handler that creates it until it is *)
(* answered, then the queue, then the worker.  QueueInv and WorkerInv say  *)
(* that what is queued or worked on was acknowledged, is not over and is   *)
(* there once; with JobInv, that a handler only writes to a job that it    *)
(* has not answered yet, a job that is over has no writer left.  The       *)
(* counts are an invariant of the loops: what was counted, what is in hand *)
(* and what is left add up to the job's total, and the count of successes  *)
(* is the number of agents told.                                           *)
(***************************************************************************)
EXTENDS Push, FiniteSetTheorems, TLAPS

(* The rows of the job are those of the peers it was asked for.            *)
Listed(j) == \A p \in Agents : rows[j][p] # "none" <=> p \in fanout[j].left

(* Acknowledged, and nothing was done for it yet.                          *)
Waiting(j) ==
  /\ req[j] = "acked" /\ job[j].status = "pending" /\ told[j] = {} /\ Listed(j)

(* What is queued waits, and is queued once.                               *)
QueueInv ==
  /\ \A i \in 1..Len(queue) : Waiting(queue[i])
  /\ \A i, k \in 1..Len(queue) : queue[i] = queue[k] => i = k

Busy == worker.pc \in {"load", "unloaded", "peer", "record"}

(* The worker's job is in nobody else's hands, and its counts are those of *)
(* the peers that it is through with; the one it is about to record has    *)
(* been told already when the event was delivered.                         *)
AtLoad ==
  /\ Waiting(worker.job)
  /\ worker.notified = 0 /\ worker.failed = 0

AtPeer ==
  /\ job[worker.job].status \in {"pending", "running"}
  /\ told[worker.job] \cap worker.left = {}
  /\ worker.notified = Cardinality(told[worker.job])
  /\ worker.notified + worker.failed + Cardinality(worker.left) = job[worker.job].total

AtRecord ==
  /\ job[worker.job].status \in {"pending", "running"}
  /\ told[worker.job] \cap worker.left = {}
  /\ worker.out \in Agents \X PushOutcomes /\ worker.out[1] \notin worker.left
  /\ IF worker.out[2] = "delivered"
     THEN worker.out[1] \in told[worker.job] /\ worker.notified + 1 = Cardinality(told[worker.job])
     ELSE worker.notified = Cardinality(told[worker.job])
  /\ worker.notified + worker.failed + Cardinality(worker.left) + 1 = job[worker.job].total

WorkerInv ==
  Busy =>
    /\ worker.job \in PushJobs /\ req[worker.job] = "acked"
    /\ \A i \in 1..Len(queue) : queue[i] # worker.job
    /\ worker.pc \in {"load", "unloaded"} => AtLoad
    /\ worker.pc = "peer" => AtPeer
    /\ worker.pc = "record" => AtRecord

(* How far the request is says what its job's row says.                    *)
PhaseInv(j) ==
  /\ req[j] \in {"never", "none"} => job[j].status = "none"
  /\ req[j] \in {"created", "listed", "fanout", "finalize", "refused"} => job[j].status = "pending"

(* Nothing is sent or counted before the rows are listed, nor for a job    *)
(* that is refused.                                                        *)
StartInv(j) ==
  /\ req[j] # "acked" /\ j \in PushJobs => told[j] = {}
  /\ req[j] \in {"never", "none", "created", "listed", "refused"} => told[j] = {}
  /\ req[j] \in {"never", "none", "created", "listed"} =>
       fanout[j].sent = 0 /\ fanout[j].failed = 0 /\ fanout[j].skipped = {}
  /\ req[j] \in {"created", "listed"} => job[j].total = Cardinality(fanout[j].left)
  /\ req[j] = "acked" /\ j \in PushJobs => job[j].total = Cardinality(fanout[j].left)
  /\ req[j] = "listed" => Listed(j)

(* The loops of UpdateAllAgents.                                           *)
FanOutInv(j) ==
  /\ req[j] \in {"fanout", "finalize"} =>
       /\ (told[j] \cup fanout[j].skipped) \cap fanout[j].left = {}
       /\ fanout[j].sent = Cardinality(told[j])
       /\ fanout[j].sent + fanout[j].failed + Cardinality(fanout[j].skipped)
            + Cardinality(fanout[j].left) = job[j].total
       /\ j \notin unwritten =>
            \A p \in Agents \ (fanout[j].skipped \cup fanout[j].left) : rows[j][p] # "pending"
  /\ req[j] = "finalize" => fanout[j].left = {}

(* What AuditTruthful and UpdateCoversAll say of one job.                  *)
Truthful(j) ==
  /\ \A p \in Agents : rows[j][p] = "notified" => p \in told[j]
  /\ job[j].status \in {"completed", "completed_with_errors"} =>
       /\ job[j].succeeded = Cardinality(told[j])
       /\ (job[j].status = "completed") <=> (job[j].failed = 0)
       /\ j \in PushJobs \ cut => job[j].succeeded + job[j].failed = job[j].total

Covered(j) ==
  j \in UpdateJobs /\ req[j] = "acked" /\ j \notin unwritten =>
    /\ job[j].succeeded + job[j].failed + Cardinality(fanout[j].skipped) = job[j].total
    /\ \A p \in Agents \ fanout[j].skipped : rows[j][p] # "pending"

JobInv(j) == PhaseInv(j) /\ StartInv(j) /\ FanOutInv(j) /\ Truthful(j) /\ Covered(j)

(* The inductive invariant.                                                *)
IInv == TypeOK /\ QueueInv /\ WorkerInv /\ \A j \in Jobs : JobInv(j)

(***************************************************************************)
(* Lemmas on the statements and on what a step leaves alone                *)
(***************************************************************************)

(* All that the invariant looks at of a job is as before.                  *)
Same(j) ==
  /\ job'[j] = job[j] /\ rows'[j] = rows[j] /\ req'[j] = req[j]
  /\ told'[j] = told[j] /\ fanout'[j] = fanout[j]

(* The two histories only grow.                                            *)
Grow == cut \subseteq cut' /\ unwritten \subseteq unwritten'

(* A statement costs at most one fault, and no more than there are.        *)
LEMMA ExecType ==
  ASSUME NEW live \in BOOLEAN, NEW ok \in BOOLEAN, faults \in 0..MaxFaults, Exec(live, ok)
  PROVE  faults' \in 0..MaxFaults
BY PushAssumption DEF Exec

(* FinalizePushJobWithCounts writes the row of its job, or it does not and *)
(* the job is noted as unwritten.                                          *)
LEMMA FinalizeEffect ==
  ASSUME TypeOK, NEW j \in Jobs, NEW s \in Nat, NEW f \in Nat, Finalize(j, s, f, TRUE)
  PROVE  /\ job' \in [Jobs -> JobRows] /\ faults' \in 0..MaxFaults
         /\ \A k \in Jobs \ {j} : job'[k] = job[k]
         /\ unwritten \subseteq unwritten' /\ unwritten' \subseteq Jobs
         /\ \/ job'[j] = job[j] /\ j \in unwritten'
            \/ job'[j] = [status |-> FinalStatus(f), total |-> job[j].total,
                          succeeded |-> s, failed |-> f]
<1>1. PICK ok \in BOOLEAN :
        /\ Exec(TRUE, ok)
        /\ job' = IF ok THEN Finalized(j, s, f) ELSE job
        /\ unwritten' = IF ok THEN unwritten ELSE unwritten \cup {j}
  BY DEF Finalize
<1>2. faults' \in 0..MaxFaults
  BY <1>1, ExecType DEF TypeOK
<1>3. FinalStatus(f) \in Finished
  BY DEF FinalStatus, Finished
<1>4. job[j] \in JobRows /\ job \in [Jobs -> JobRows]
  BY DEF TypeOK
<1>5. CASE ok
  <2> DEFINE row == [status |-> FinalStatus(f), total |-> job[j].total,
                     succeeded |-> s, failed |-> f]
  <2>1. row \in JobRows
    BY <1>3, <1>4 DEF JobRows
  <2>2. job' = Finalized(j, s, f)
    BY <1>1, <1>5
  <2>3. \A k \in Jobs \ {j} : job'[k] = job[k]
    BY <2>2, <1>4 DEF Finalized
  <2>4. DOMAIN job' = Jobs
    BY <2>2, <1>4 DEF Finalized
  <2>5. job'[j] = [job[j] EXCEPT !.status = FinalStatus(f), !.succeeded = s, !.failed = f]
    BY <2>2, <1>4 DEF Finalized
  <2>6. job'[j] = row
    BY <2>5, <1>4 DEF JobRows
  <2>7. job' = [k \in Jobs |-> job'[k]]
    BY <2>2, <1>4 DEF Finalized
  <2>8. \A k \in Jobs : job'[k] \in JobRows
    BY <2>1, <2>3, <2>6, <1>4
  <2>9. job' \in [Jobs -> JobRows]
    BY <2>7, <2>8
  <2> QED
    BY <2>3, <2>6, <2>9, <1>1, <1>2, <1>5 DEF TypeOK
<1>6. CASE ~ok
  BY <1>1, <1>2, <1>4, <1>6 DEF TypeOK
<1> QED
  BY <1>5, <1>6

(* Publishing an event leaves the clients of the type they have.           *)
LEMMA PublishType ==
  ASSUME TypeOK, NEW j \in Jobs, NEW e \in {"progress", "complete"}, Publish(j, e)
  PROVE  watch' \in [Jobs -> Clients]
<1>1. watch \in [Jobs -> Clients] /\ watch[j] \in Clients
  BY DEF TypeOK
<1>2. Append(watch[j].chan, e) \in Seq({"progress", "complete"})
  BY <1>1 DEF Clients
<1>3. CASE watch' = watch
  BY <1>1, <1>3
<1>4. CASE watch' = [watch EXCEPT ![j].chan = Append(@, e)]
  BY <1>1, <1>2, <1>4 DEF Clients
<1>5. CASE watch' = [watch EXCEPT ![j].dropped = TRUE]
  BY <1>1, <1>5 DEF Clients
<1> QED
  BY <1>3, <1>4, <1>5 DEF Publish

(* The peer that comes first is one of them.                               *)
LEMMA FirstIn ==
  ASSUME NEW ps, ps # {}
  PROVE  First(ps) \in ps
BY DEF First

(* A set of agents shrinks and grows by one.                               *)
LEMMA CountAgents ==
  ASSUME NEW ps \in SUBSET Agents, NEW p \in Agents
  PROVE  /\ Cardinality(ps) \in Nat
         /\ p \in ps => Cardinality(ps \ {p}) + 1 = Cardinality(ps)
         /\ p \notin ps => Cardinality(ps \cup {p}) = Cardinality(ps) + 1
<1>1. IsFiniteSet(ps)
  BY PushAssumption, FS_Subset
<1>2. Cardinality(ps) \in Nat
  BY <1>1, FS_CardinalityType
<1>3. p \in ps => Cardinality(ps \ {p}) = Cardinality(ps) - 1
  BY <1>1, FS_RemoveElement
<1>4. p \notin ps => Cardinality(ps \cup {p}) = Cardinality(ps) + 1
  BY <1>1, FS_AddElement
<1> QED
  BY <1>2, <1>3, <1>4

(* No agent counts as zero.                                                *)
LEMMA CountNone == Cardinality({}) = 0
BY FS_EmptySet

(* The invariant of a job depends on nothing but the job.                  *)
LEMMA JobFrame ==
  ASSUME NEW j \in Jobs, JobInv(j), Same(j), Grow
  PROVE  JobInv(j)'
<1> USE DEF Same, Grow
<1>1. PhaseInv(j)'
  BY DEF JobInv, PhaseInv
<1>2. StartInv(j)'
  BY DEF JobInv, StartInv, Listed
<1>3. FanOutInv(j)'
  BY DEF JobInv, FanOutInv
<1>4. Truthful(j)'
  BY DEF JobInv, Truthful
<1>5. Covered(j)'
  BY DEF JobInv, Covered
<1> QED
  BY <1>1, <1>2, <1>3, <1>4, <1>5 DEF JobInv

(* What is queued, said of the next state.                                 *)
LEMMA QueueWaits ==
  ASSUME \A i \in 1..Len(queue') : \E k \in Jobs : k = queue'[i] /\ Waiting(k)',
         \A i, k \in 1..Len(queue') : queue'[i] = queue'[k] => i = k
  PROVE  QueueInv'
<1>1. ASSUME NEW i \in 1..Len(queue')
      PROVE  /\ req'[queue'[i]] = "acked" /\ job'[queue'[i]].status = "pending"
             /\ told'[queue'[i]] = {}
             /\ \A p \in Agents : rows'[queue'[i]][p] # "none" <=> p \in fanout'[queue'[i]].left
  <2>1. PICK k \in Jobs : k = queue'[i] /\ Waiting(k)'
    BY <1>1
  <2>2. /\ req'[k] = "acked" /\ job'[k].status = "pending" /\ told'[k] = {}
        /\ \A p \in Agents : rows'[k][p] # "none" <=> p \in fanout'[k].left
    BY <2>1 DEF Waiting, Listed
  <2> QED
    BY <2>1, <2>2
<1> QED
  BY <1>1 DEF QueueInv, Waiting, Listed

(* A handler that acts on a job which it has not answered yet touches      *)
(* nothing that the queue and the worker hold.                             *)
LEMMA HandlerFrame ==
  ASSUME IInv, NEW j \in Jobs, req[j] # "acked", UNCHANGED <<queue, worker>>,
         \A k \in Jobs \ {j} : Same(k)
  PROVE  QueueInv' /\ WorkerInv'
<1>1. \A i \in 1..Len(queue) : queue[i] \in Jobs /\ Waiting(queue[i]) /\ queue[i] # j
  BY DEF IInv, TypeOK, QueueInv, Waiting, Jobs
<1>2. \A k \in Jobs \ {j} : Waiting(k) => Waiting(k)'
  BY DEF Waiting, Listed, Same
<1>3. QueueInv'
  BY <1>1, <1>2 DEF IInv, QueueInv
<1>4. CASE Busy
  <2>1. PICK w \in PushJobs : w = worker.job
    BY <1>4 DEF IInv, WorkerInv
  <2>2. w # j /\ w \in Jobs /\ Same(w) /\ worker' = worker
    BY <1>4, <2>1 DEF IInv, WorkerInv, Jobs
  <2>3. Waiting(w) => Waiting(w)'
    BY <2>2, <1>2
  <2>4. worker'.job = w
    BY <2>1, <2>2
  <2>5. AtLoad => AtLoad'
    BY <2>1, <2>2, <2>3, <2>4 DEF AtLoad, Waiting, Listed, Same
  <2>6. AtPeer => AtPeer'
    BY <2>1, <2>2, <2>4 DEF AtPeer, Same
  <2>7. AtRecord => AtRecord'
    BY <2>1, <2>2, <2>4 DEF AtRecord, Same
  <2> QED
    BY <1>3, <1>4, <2>1, <2>2, <2>4, <2>5, <2>6, <2>7 DEF IInv, WorkerInv, Busy, Same
<1>5. CASE ~Busy
  BY <1>3, <1>5 DEF WorkerInv, Busy
<1> QED
  BY <1>3, <1>4, <1>5

(* A number of agents is a number.                                         *)
LEMMA CountType ==
  ASSUME NEW ps \in SUBSET Agents
  PROVE  Cardinality(ps) \in Nat
BY PushAssumption, FS_Subset, FS_CardinalityType

(***************************************************************************)
(* The handlers that create a job                                          *)
(***************************************************************************)

(* CreatePushJob keeps the invariant.                                      *)
LEMMA CreatePushJobKeeps ==
  ASSUME IInv, NEW j \in Jobs, CreatePushJob(j)
  PROVE  IInv'
<1>1. PICK ok \in BOOLEAN :
        /\ Exec(TRUE, ok)
        /\ job' = IF ok THEN [job EXCEPT ![j].status = "pending", ![j].total = Cardinality(fanout[j].left)]
                  ELSE job
        /\ req' = [req EXCEPT ![j] = IF ok THEN "created" ELSE "error"]
  BY DEF CreatePushJob
<1>2. /\ req[j] = "none" /\ JobInv(j) /\ TypeOK
      /\ UNCHANGED <<rows, queue, worker, fanout, watch, server, told, cut, unwritten>>
  BY DEF CreatePushJob, IInv
<1>3. /\ job \in [Jobs -> JobRows] /\ req \in [Jobs -> {"never", "none", "created", "listed", "fanout", "finalize", "acked", "refused", "error"}]
      /\ Cardinality(fanout[j].left) \in Nat
  BY <1>2, CountType DEF TypeOK, FanOutLocals
<1>4. /\ job' \in [Jobs -> JobRows]
      /\ \A k \in Jobs \ {j} : job'[k] = job[k]
      /\ ok => job'[j].status = "pending" /\ job'[j].total = Cardinality(fanout[j].left)
      /\ ~ok => job'[j] = job[j]
  <2>1. CASE ok
    BY <1>1, <1>3, <2>1 DEF JobRows
  <2>2. CASE ~ok
    BY <1>1, <1>3, <2>2
  <2> QED
    BY <2>1, <2>2
<1>5. /\ req'[j] = IF ok THEN "created" ELSE "error"
      /\ \A k \in Jobs \ {j} : req'[k] = req[k]
      /\ req' \in [Jobs -> {"never", "none", "created", "listed", "fanout", "finalize", "acked", "refused", "error"}]
  BY <1>1, <1>3
<1>6. TypeOK'
  <2>1. faults' \in 0..MaxFaults
    BY <1>1, <1>2, ExecType DEF TypeOK
  <2> QED
    BY <2>1, <1>2, <1>4, <1>5 DEF TypeOK
<1>7. \A k \in Jobs \ {j} : Same(k)
  BY <1>2, <1>4, <1>5 DEF Same
<1>8. QueueInv' /\ WorkerInv'
  BY <1>2, <1>7, HandlerFrame
<1>9. JobInv(j)'
  <2>1. job[j].status = "none" /\ told[j] = {} /\ fanout[j].sent = 0 /\ fanout[j].failed = 0
        /\ fanout[j].skipped = {} /\ Truthful(j)
    BY <1>2 DEF JobInv, PhaseInv, StartInv
  <2>2. job'[j].status \in {"none", "pending"} /\ req'[j] \in {"created", "error"}
        /\ (req'[j] = "created" => job'[j].status = "pending" /\ job'[j].total = Cardinality(fanout[j].left))
    BY <2>1, <1>4, <1>5
  <2>3. PhaseInv(j)' /\ FanOutInv(j)' /\ Covered(j)'
    BY <2>2 DEF PhaseInv, FanOutInv, Covered
  <2>4. StartInv(j)'
    BY <2>1, <2>2, <1>2 DEF StartInv
  <2>5. Truthful(j)'
    BY <2>1, <2>2, <1>2 DEF Truthful
  <2> QED
    BY <2>3, <2>4, <2>5 DEF JobInv
<1>10. \A k \in Jobs : JobInv(k)'
  BY <1>2, <1>7, <1>9, JobFrame DEF IInv, Grow
<1> QED
  BY <1>6, <1>8, <1>10 DEF IInv

(* CreatePushJobPeers keeps the invariant.                                 *)
LEMMA CreatePushJobPeersKeeps ==
  ASSUME IInv, NEW j \in Jobs, CreatePushJobPeers(j)
  PROVE  IInv'
<1>1. /\ req[j] = "created" /\ JobInv(j) /\ TypeOK
      /\ UNCHANGED <<job, queue, worker, fanout, watch, server, told, cut, unwritten>>
  BY DEF CreatePushJobPeers, IInv
<1>2. /\ rows \in [Jobs -> [Agents -> {"none", "pending", "notified", "failed"}]]
      /\ req \in [Jobs -> {"never", "none", "created", "listed", "fanout", "finalize", "acked", "refused", "error"}]
  BY <1>1 DEF TypeOK
<1>3. told[j] = {} /\ fanout[j].sent = 0 /\ fanout[j].failed = 0 /\ fanout[j].skipped = {}
      /\ job[j].status = "pending" /\ job[j].total = Cardinality(fanout[j].left)
      /\ Truthful(j) /\ job[j].total \in Nat
  BY <1>1 DEF JobInv, PhaseInv, StartInv, TypeOK, JobRows
<1>4. CASE /\ Exec(TRUE, TRUE)
           /\ rows' = [rows EXCEPT ![j] = [p \in Agents |-> IF p \in fanout[j].left THEN "pending" ELSE "none"]]
           /\ req' = [req EXCEPT ![j] = IF j \in PushJobs THEN "listed" ELSE "fanout"]
  <2>1. /\ \A p \in Agents : rows'[j][p] = IF p \in fanout[j].left THEN "pending" ELSE "none"
        /\ req'[j] = IF j \in PushJobs THEN "listed" ELSE "fanout"
        /\ \A k \in Jobs \ {j} : rows'[k] = rows[k] /\ req'[k] = req[k]
    BY <1>2, <1>4
  <2>2. TypeOK'
    <3>1. faults' \in 0..MaxFaults
      BY <1>1, <1>4, ExecType DEF TypeOK
    <3>2. [p \in Agents |-> IF p \in fanout[j].left THEN "pending" ELSE "none"]
            \in [Agents -> {"none", "pending", "notified", "failed"}]
      OBVIOUS
    <3>3. rows' \in [Jobs -> [Agents -> {"none", "pending", "notified", "failed"}]]
      BY <1>2, <1>4, <3>2
    <3>4. req' \in [Jobs -> {"never", "none", "created", "listed", "fanout", "finalize", "acked", "refused", "error"}]
      BY <1>2, <1>4
    <3> QED
      BY <3>1, <3>3, <3>4, <1>1 DEF TypeOK
  <2>3. \A k \in Jobs \ {j} : Same(k)
    BY <1>1, <2>1 DEF Same
  <2>4. QueueInv' /\ WorkerInv'
    BY <1>1, <2>3, HandlerFrame
  <2>5. PhaseInv(j)' /\ Covered(j)'
    BY <1>1, <1>3, <2>1 DEF PhaseInv, Covered
  <2>6. StartInv(j)'
    BY <1>1, <1>3, <2>1 DEF StartInv, Listed
  <2>7. FanOutInv(j)'
    BY <1>1, <1>3, <2>1, CountNone DEF FanOutInv
  <2>8. Truthful(j)'
    BY <1>1, <1>3, <2>1 DEF Truthful
  <2>9. \A k \in Jobs : JobInv(k)'
    BY <1>1, <2>3, <2>5, <2>6, <2>7, <2>8, JobFrame DEF IInv, Grow, JobInv
  <2> QED
    BY <2>2, <2>4, <2>9 DEF IInv
<1>5. CASE Exec(TRUE, FALSE) /\ req' = [req EXCEPT ![j] = "refused"] /\ UNCHANGED rows
  <2>1. req'[j] = "refused" /\ \A k \in Jobs \ {j} : req'[k] = req[k]
    BY <1>2, <1>5
  <2>2. TypeOK'
    <3>1. faults' \in 0..MaxFaults
      BY <1>1, <1>5, ExecType DEF TypeOK
    <3>2. req' \in [Jobs -> {"never", "none", "created", "listed", "fanout", "finalize", "acked", "refused", "error"}]
      BY <1>2, <1>5
    <3> QED
      BY <3>1, <3>2, <1>1, <1>5 DEF TypeOK
  <2>3. \A k \in Jobs \ {j} : Same(k)
    BY <1>1, <1>5, <2>1 DEF Same
  <2>4. QueueInv' /\ WorkerInv'
    BY <1>1, <2>3, HandlerFrame
  <2>5. JobInv(j)'
    BY <1>1, <1>3, <1>5, <2>1
    DEF JobInv, PhaseInv, StartInv, FanOutInv, Truthful, Covered
  <2>6. \A k \in Jobs : JobInv(k)'
    BY <1>1, <2>3, <2>5, JobFrame DEF IInv, Grow
  <2> QED
    BY <2>2, <2>4, <2>6 DEF IInv
<1> QED
  BY <1>4, <1>5 DEF CreatePushJobPeers

(* Enqueue keeps the invariant.                                            *)
LEMMA EnqueueKeeps ==
  ASSUME IInv, NEW j \in PushJobs, Enqueue(j)
  PROVE  IInv'
<1>1. /\ req[j] = "listed" /\ j \in Jobs /\ JobInv(j) /\ TypeOK /\ QueueInv /\ WorkerInv
      /\ queue' = Enqueued(j)
      /\ req' = [req EXCEPT ![j] = IF Accepted(j) THEN "acked" ELSE "refused"]
      /\ UNCHANGED <<job, rows, worker, fanout, watch, server, faults, told, cut, unwritten>>
  BY DEF Enqueue, IInv, Jobs
<1>2. /\ req \in [Jobs -> {"never", "none", "created", "listed", "fanout", "finalize", "acked", "refused", "error"}]
      /\ queue \in Seq(PushJobs) /\ Len(queue) <= QueueSize
  BY <1>1 DEF TypeOK
<1>3. told[j] = {} /\ job[j].status = "pending" /\ job[j].total = Cardinality(fanout[j].left)
      /\ Listed(j) /\ Truthful(j)
  BY <1>1 DEF JobInv, PhaseInv, StartInv
<1>4. CASE queue' = queue
  <2>1. req'[j] = "refused" /\ \A k \in Jobs \ {j} : req'[k] = req[k]
    BY <1>1, <1>2, <1>4 DEF Accepted
  <2>2. TypeOK'
    BY <1>1, <1>2, <1>4 DEF TypeOK
  <2>3. \A k \in Jobs \ {j} : Same(k)
    BY <1>1, <2>1 DEF Same
  <2>4. QueueInv' /\ WorkerInv'
    BY <1>1, <1>4, <2>3, HandlerFrame
  <2>5. JobInv(j)'
    BY <1>1, <1>3, <2>1 DEF JobInv, PhaseInv, StartInv, FanOutInv, Truthful, Covered
  <2>6. \A k \in Jobs : JobInv(k)'
    BY <1>1, <2>3, <2>5, JobFrame DEF IInv, Grow
  <2> QED
    BY <2>2, <2>4, <2>6 DEF IInv
<1>5. CASE queue' # queue
  <2>1. queue' = Append(queue, j) /\ Len(queue) # QueueSize
    BY <1>1, <1>5 DEF Enqueued
  <2>2. /\ Len(queue') = Len(queue) + 1 /\ queue'[Len(queue) + 1] = j
        /\ \A i \in 1..Len(queue) : queue'[i] = queue[i]
        /\ Len(queue) \in Nat /\ queue' \in Seq(PushJobs)
    BY <1>2, <2>1
  <2>3. req'[j] = "acked" /\ \A k \in Jobs \ {j} : req'[k] = req[k]
    BY <1>1, <1>2, <1>5 DEF Accepted
  <2>4. TypeOK'
    <3>1. Len(queue') <= QueueSize
      BY <1>2, <2>1, <2>2, PushAssumption
    <3>2. req' \in [Jobs -> {"never", "none", "created", "listed", "fanout", "finalize", "acked", "refused", "error"}]
      BY <1>1, <1>2
    <3> QED
      BY <1>1, <2>2, <3>1, <3>2 DEF TypeOK
  <2>5. \A k \in Jobs \ {j} : Same(k)
    BY <1>1, <2>3 DEF Same
  <2>6. \A i \in 1..Len(queue) : queue[i] \in Jobs \ {j} /\ Waiting(queue[i])
    BY <1>1, <1>2 DEF QueueInv, Waiting, Jobs
  <2>7. \A k \in Jobs \ {j} : Waiting(k) => Waiting(k)'
    BY <2>5 DEF Waiting, Listed, Same
  <2>8. Waiting(j)'
    BY <1>1, <1>3, <2>3 DEF Waiting, Listed
  <2>9. QueueInv'
    <3>1. \A i \in 1..Len(queue') : i = Len(queue) + 1 \/ i \in 1..Len(queue)
      BY <2>2
    <3>2. \A k \in Jobs : (k # j /\ Waiting(k)) \/ k = j => Waiting(k)'
      BY <2>7, <2>8
    <3>3. \A i \in 1..Len(queue') : \E k \in Jobs : k = queue'[i] /\ Waiting(k)'
      BY <3>1, <2>2, <2>6, <2>7, <2>8, <1>1
    <3>4. \A i, k \in 1..Len(queue') : queue'[i] = queue'[k] => i = k
      BY <3>1, <2>2, <2>6, <1>1 DEF QueueInv
    <3> QED
      BY <3>3, <3>4, QueueWaits
  <2>10. WorkerInv'
    <3>1. CASE Busy
      <4>1. PICK w \in PushJobs : w = worker.job
        BY <3>1, <1>1 DEF WorkerInv
      <4>2. w # j /\ w \in Jobs /\ Same(w) /\ worker' = worker /\ worker'.job = w
        BY <3>1, <4>1, <2>5, <1>1 DEF WorkerInv, Jobs
      <4>3. AtLoad => AtLoad'
        BY <4>1, <4>2 DEF AtLoad, Waiting, Listed, Same
      <4>4. AtPeer => AtPeer'
        BY <4>1, <4>2 DEF AtPeer, Same
      <4>5. AtRecord => AtRecord'
        BY <4>1, <4>2 DEF AtRecord, Same
      <4>6. \A i \in 1..Len(queue') : queue'[i] # w
        <5>1. \A i \in 1..Len(queue) : queue[i] # w
          BY <3>1, <4>1, <1>1 DEF WorkerInv
        <5> QED
          BY <5>1, <4>2, <2>2
      <4> QED
        BY <3>1, <4>1, <4>2, <4>3, <4>4, <4>5, <4>6, <1>1 DEF WorkerInv, Busy, Same
    <3>2. CASE ~Busy
      BY <3>2, <1>1 DEF WorkerInv, Busy
    <3> QED
      BY <3>1, <3>2
  <2>11. JobInv(j)'
    <3>1. j \notin UpdateJobs
      BY PushAssumption
    <3> QED
      BY <1>1, <1>3, <2>3, <3>1 DEF JobInv, PhaseInv, StartInv, FanOutInv, Truthful, Covered
  <2>12. \A k \in Jobs : JobInv(k)'
    BY <1>1, <2>5, <2>11, JobFrame DEF IInv, Grow
  <2> QED
    BY <2>4, <2>9, <2>10, <2>12 DEF IInv
<1> QED
  BY <1>4, <1>5

(* Closing a job the queue refused keeps the invariant.                    *)
LEMMA CloseRefusedKeeps ==
  ASSUME IInv, NEW j \in Jobs, CloseRefused(j)
  PROVE  IInv'
<1>1. /\ req[j] = "refused" /\ JobInv(j) /\ TypeOK
      /\ Finalize(j, 0, job[j].total, TRUE)
      /\ req' = [req EXCEPT ![j] = "error"]
      /\ UNCHANGED <<rows, queue, worker, fanout, watch, server, told, cut>>
  BY DEF CloseRefused, IInv
<1>2. /\ req \in [Jobs -> {"never", "none", "created", "listed", "fanout", "finalize", "acked", "refused", "error"}]
      /\ job[j].total \in Nat
  BY <1>1 DEF TypeOK, JobRows
<1>3. told[j] = {} /\ job[j].status = "pending" /\ Truthful(j)
  BY <1>1 DEF JobInv, PhaseInv, StartInv
<1>4. PICK n \in Nat : n = job[j].total
  BY <1>2
<1>41. Finalize(j, 0, n, TRUE)
  BY <1>1, <1>4 DEF Finalize, Finalized
<1>42. TypeOK
  BY <1>1
<1>5. /\ job' \in [Jobs -> JobRows] /\ faults' \in 0..MaxFaults
      /\ \A k \in Jobs \ {j} : job'[k] = job[k]
      /\ unwritten \subseteq unwritten' /\ unwritten' \subseteq Jobs
      /\ \/ job'[j] = job[j] /\ j \in unwritten'
         \/ job'[j] = [status |-> FinalStatus(n), total |-> job[j].total, succeeded |-> 0, failed |-> n]
  <2>1. PICK z \in Nat : z = 0 /\ Finalize(j, z, n, TRUE)
    BY <1>41
  <2>2. /\ job' \in [Jobs -> JobRows] /\ faults' \in 0..MaxFaults
        /\ \A k \in Jobs \ {j} : job'[k] = job[k]
        /\ unwritten \subseteq unwritten' /\ unwritten' \subseteq Jobs
        /\ \/ job'[j] = job[j] /\ j \in unwritten'
           \/ job'[j] = [status |-> FinalStatus(n), total |-> job[j].total, succeeded |-> z, failed |-> n]
    BY <2>1, <1>42, FinalizeEffect
  <2> QED
    BY <2>1, <2>2
<1>6. req'[j] = "error" /\ \A k \in Jobs \ {j} : req'[k] = req[k]
  BY <1>1, <1>2
<1>7. TypeOK'
  BY <1>1, <1>2, <1>5 DEF TypeOK
<1>8. \A k \in Jobs \ {j} : Same(k)
  BY <1>1, <1>5, <1>6 DEF Same
<1>9. QueueInv' /\ WorkerInv'
  BY <1>1, <1>8, HandlerFrame
<1>10. PhaseInv(j)' /\ StartInv(j)' /\ FanOutInv(j)' /\ Covered(j)'
  BY <1>1, <1>3, <1>6 DEF PhaseInv, StartInv, FanOutInv, Covered
<1>11. Truthful(j)'
  <2>1. CASE job'[j] = job[j]
    BY <2>1, <1>1, <1>3 DEF Truthful
  <2>2. CASE job'[j] = [status |-> FinalStatus(n), total |-> job[j].total, succeeded |-> 0, failed |-> n]
    BY <2>2, <1>1, <1>3, <1>4, CountNone DEF Truthful, FinalStatus
  <2> QED
    BY <2>1, <2>2, <1>5
<1>12. \A k \in Jobs : JobInv(k)'
  BY <1>1, <1>5, <1>8, <1>10, <1>11, JobFrame DEF IInv, Grow, JobInv
<1> QED
  BY <1>7, <1>9, <1>12 DEF IInv

(***************************************************************************)
(* UpdateAllAgents                                                         *)
(***************************************************************************)

(* The outcome is in the peer's row, or the job is noted as unwritten.     *)
LEMMA RecordEffect ==
  ASSUME TypeOK, NEW j \in Jobs, NEW p \in Agents, NEW out, RecordOutcome(j, p, out)
  PROVE  /\ rows' \in [Jobs -> [Agents -> {"none", "pending", "notified", "failed"}]]
         /\ faults' \in 0..MaxFaults
         /\ unwritten \subseteq unwritten' /\ unwritten' \subseteq Jobs
         /\ \A k \in Jobs \ {j} : rows'[k] = rows[k]
         /\ \A q \in Agents \ {p} : rows'[j][q] = rows[j][q]
         /\ \/ rows'[j][p] = RowStatus(out)
            \/ rows'[j][p] = rows[j][p] /\ j \in unwritten'
<1>1. PICK ok \in BOOLEAN :
        /\ Exec(TRUE, ok)
        /\ rows' = IF ok THEN [rows EXCEPT ![j][p] = RowStatus(out)] ELSE rows
        /\ unwritten' = IF ok THEN unwritten ELSE unwritten \cup {j}
  BY DEF RecordOutcome
<1>2. faults' \in 0..MaxFaults
  BY <1>1, ExecType DEF TypeOK
<1>3. RowStatus(out) \in {"none", "pending", "notified", "failed"}
  BY DEF RowStatus
<1>4. rows \in [Jobs -> [Agents -> {"none", "pending", "notified", "failed"}]]
  BY DEF TypeOK
<1>5. CASE ok
  BY <1>1, <1>2, <1>3, <1>4, <1>5 DEF TypeOK
<1>6. CASE ~ok
  BY <1>1, <1>2, <1>4, <1>6 DEF TypeOK
<1> QED
  BY <1>5, <1>6

(* One peer of the update is counted, as sent, skipped or failed.          *)
LEMMA CountPeerKeeps ==
  ASSUME IInv, NEW j \in UpdateJobs, req[j] = "fanout", NEW p \in fanout[j].left, NEW out,
         RecordOutcome(j, p, out),
         fanout' = [fanout EXCEPT ![j] =
           [left |-> fanout[j].left \ {p},
            sent |-> IF out = "sent" THEN fanout[j].sent + 1 ELSE fanout[j].sent,
            failed |-> IF out \in {"sent", "skipped"} THEN fanout[j].failed ELSE fanout[j].failed + 1,
            skipped |-> IF out = "skipped" THEN fanout[j].skipped \cup {p} ELSE fanout[j].skipped,
            deadline |-> fanout[j].deadline]],
         told' = IF out = "sent" THEN [told EXCEPT ![j] = @ \cup {p}] ELSE told,
         UNCHANGED <<job, req, queue, worker, watch, server, cut>>
  PROVE  IInv'
<1>1. j \in Jobs /\ JobInv(j) /\ TypeOK /\ j \notin PushJobs
  BY PushAssumption DEF IInv, Jobs
<1>2. /\ fanout \in [Jobs -> FanOutLocals] /\ fanout[j] \in FanOutLocals
      /\ told \in [Jobs -> SUBSET Agents] /\ job[j].total \in Nat
      /\ fanout[j].left \in SUBSET Agents /\ fanout[j].skipped \in SUBSET Agents
      /\ fanout[j].sent \in Nat /\ fanout[j].failed \in Nat /\ fanout[j].deadline \in BOOLEAN
  BY <1>1 DEF TypeOK, FanOutLocals, JobRows
<1>3. p \in Agents
  BY <1>2
<1>4. /\ rows' \in [Jobs -> [Agents -> {"none", "pending", "notified", "failed"}]]
      /\ faults' \in 0..MaxFaults
      /\ unwritten \subseteq unwritten' /\ unwritten' \subseteq Jobs
      /\ \A k \in Jobs \ {j} : rows'[k] = rows[k]
      /\ \A q \in Agents \ {p} : rows'[j][q] = rows[j][q]
      /\ \/ rows'[j][p] = RowStatus(out)
         \/ rows'[j][p] = rows[j][p] /\ j \in unwritten'
  BY <1>1, <1>3, RecordEffect
<1> DEFINE row == [left |-> fanout[j].left \ {p},
                   sent |-> IF out = "sent" THEN fanout[j].sent + 1 ELSE fanout[j].sent,
                   failed |-> IF out \in {"sent", "skipped"} THEN fanout[j].failed ELSE fanout[j].failed + 1,
                   skipped |-> IF out = "skipped" THEN fanout[j].skipped \cup {p} ELSE fanout[j].skipped,
                   deadline |-> fanout[j].deadline]
<1>5. row \in FanOutLocals
  <2>1. (IF out = "sent" THEN fanout[j].sent + 1 ELSE fanout[j].sent) \in Nat
    BY <1>2
  <2>2. (IF out \in {"sent", "skipped"} THEN fanout[j].failed ELSE fanout[j].failed + 1) \in Nat
    BY <1>2
  <2>3. (IF out = "skipped" THEN fanout[j].skipped \cup {p} ELSE fanout[j].skipped) \in SUBSET Agents
    BY <1>2, <1>3
  <2>4. fanout[j].left \ {p} \in SUBSET Agents
    BY <1>2
  <2> QED
    BY <2>1, <2>2, <2>3, <2>4, <1>2 DEF FanOutLocals
<1>6. /\ fanout' \in [Jobs -> FanOutLocals]
      /\ \A k \in Jobs \ {j} : fanout'[k] = fanout[k]
      /\ fanout'[j] = row
  <2> HIDE DEF row
  <2>1. fanout' = [fanout EXCEPT ![j] = row]
    BY DEF row
  <2> QED
    BY <1>1, <1>2, <1>5, <2>1
<1>7. /\ fanout'[j].left = fanout[j].left \ {p}
      /\ fanout'[j].sent = IF out = "sent" THEN fanout[j].sent + 1 ELSE fanout[j].sent
      /\ fanout'[j].failed = IF out \in {"sent", "skipped"} THEN fanout[j].failed ELSE fanout[j].failed + 1
      /\ fanout'[j].skipped = IF out = "skipped" THEN fanout[j].skipped \cup {p} ELSE fanout[j].skipped
  BY <1>6
<1>8. /\ told' \in [Jobs -> SUBSET Agents]
      /\ \A k \in Jobs \ {j} : told'[k] = told[k]
      /\ told'[j] = IF out = "sent" THEN told[j] \cup {p} ELSE told[j]
  <2>1. CASE out = "sent"
    BY <2>1, <1>1, <1>2, <1>3
  <2>2. CASE out # "sent"
    BY <2>2, <1>1, <1>2
  <2> QED
    BY <2>1, <2>2
<1> HIDE DEF row
<1>9. TypeOK'
  BY <1>1, <1>4, <1>6, <1>8 DEF TypeOK
<1>10. \A k \in Jobs \ {j} : Same(k)
  BY <1>4, <1>6, <1>8 DEF Same
<1>11. QueueInv' /\ WorkerInv'
  BY <1>1, <1>10, HandlerFrame
<1>12. /\ (told[j] \cup fanout[j].skipped) \cap fanout[j].left = {}
       /\ fanout[j].sent = Cardinality(told[j])
       /\ fanout[j].sent + fanout[j].failed + Cardinality(fanout[j].skipped)
            + Cardinality(fanout[j].left) = job[j].total
       /\ j \notin unwritten =>
            \A q \in Agents \ (fanout[j].skipped \cup fanout[j].left) : rows[j][q] # "pending"
       /\ Truthful(j) /\ job[j].status = "pending"
  BY <1>1 DEF JobInv, FanOutInv, PhaseInv
<1>13. PhaseInv(j)' /\ StartInv(j)' /\ Covered(j)'
  BY <1>1, <1>12 DEF PhaseInv, StartInv, Covered
<1>14. FanOutInv(j)'
  <2>1. (told'[j] \cup fanout'[j].skipped) \cap fanout'[j].left = {}
    BY <1>7, <1>8, <1>12
  <2>2. fanout'[j].sent = Cardinality(told'[j])
    BY <1>2, <1>3, <1>7, <1>8, <1>12, CountAgents
  <2>3. /\ Cardinality(fanout'[j].left) + 1 = Cardinality(fanout[j].left)
        /\ Cardinality(fanout'[j].left) \in Nat
    <3>1. fanout[j].left \ {p} \in SUBSET Agents
      BY <1>2
    <3> QED
      BY <3>1, <1>2, <1>3, <1>7, CountAgents, CountType
  <2>4. /\ Cardinality(fanout[j].skipped) \in Nat
        /\ out = "skipped" => Cardinality(fanout'[j].skipped) = Cardinality(fanout[j].skipped) + 1
        /\ out # "skipped" => fanout'[j].skipped = fanout[j].skipped
    <3>1. PICK ps \in SUBSET Agents : ps = fanout[j].skipped
      BY <1>2
    <3>2. p \in Agents /\ p \notin ps
      BY <3>1, <1>2, <1>3, <1>12
    <3>3. Cardinality(ps) \in Nat /\ Cardinality(ps \cup {p}) = Cardinality(ps) + 1
      BY <3>2, CountAgents
    <3>4. /\ out = "skipped" => fanout'[j].skipped = ps \cup {p}
          /\ out # "skipped" => fanout'[j].skipped = ps
      BY <3>1, <1>7
    <3> QED
      BY <3>1, <3>3, <3>4
  <2>5. fanout'[j].sent + fanout'[j].failed + Cardinality(fanout'[j].skipped)
          + Cardinality(fanout'[j].left) = job[j].total
    <3>1. CASE out = "sent"
      BY <3>1, <1>2, <1>7, <1>12, <2>3, <2>4
    <3>2. CASE out = "skipped"
      BY <3>2, <1>2, <1>7, <1>12, <2>3, <2>4
    <3>3. CASE out \notin {"sent", "skipped"}
      BY <3>3, <1>2, <1>7, <1>12, <2>3, <2>4
    <3> QED
      BY <3>1, <3>2, <3>3
  <2>6. ASSUME j \notin unwritten',
               NEW q \in Agents \ (fanout'[j].skipped \cup fanout'[j].left)
        PROVE  rows'[j][q] # "pending"
    <3>1. CASE q = p
      BY <3>1, <2>6, <1>4, <1>7 DEF RowStatus
    <3>2. CASE q # p
      BY <3>2, <2>6, <1>4, <1>7, <1>12
    <3> QED
      BY <3>1, <3>2
  <2> QED
    BY <2>1, <2>2, <2>5, <2>6 DEF FanOutInv
<1>15. Truthful(j)'
  <2>1. ASSUME NEW q \in Agents, rows'[j][q] = "notified"
        PROVE  q \in told'[j]
    <3>1. CASE q = p
      BY <3>1, <2>1, <1>3, <1>4, <1>8, <1>12 DEF RowStatus, Truthful
    <3>2. CASE q # p
      BY <3>2, <2>1, <1>4, <1>8, <1>12 DEF Truthful
    <3> QED
      BY <3>1, <3>2
  <2> QED
    BY <2>1, <1>12 DEF Truthful
<1>16. \A k \in Jobs : JobInv(k)'
  BY <1>1, <1>4, <1>10, <1>13, <1>14, <1>15, JobFrame DEF IInv, Grow, JobInv
<1> QED
  BY <1>9, <1>11, <1>16 DEF IInv

(* An update sent, or not, to one peer keeps the invariant.                *)
LEMMA FanOutPeerKeeps ==
  ASSUME IInv, NEW j \in UpdateJobs, FanOutPeer(j)
  PROVE  IInv'
<1>1. req[j] = "fanout" /\ fanout[j].left # {} /\ j \in Jobs
      /\ UNCHANGED <<job, req, queue, worker, watch, server, cut>>
  BY DEF FanOutPeer, Jobs
<1>2. PICK out \in UpdateOutcomes, p \in fanout[j].left :
        /\ RecordOutcome(j, p, out)
        /\ fanout' = [fanout EXCEPT ![j].left = @ \ {p},
                                    ![j].sent = IF out = "sent" THEN @ + 1 ELSE @,
                                    ![j].failed = IF out \in {"sent", "skipped"} THEN @ ELSE @ + 1,
                                    ![j].skipped = IF out = "skipped" THEN @ \cup {p} ELSE @]
        /\ told' = IF out = "sent" THEN [told EXCEPT ![j] = @ \cup {p}] ELSE told
  BY <1>1, FirstIn DEF FanOutPeer
<1>3. fanout \in [Jobs -> FanOutLocals]
  BY DEF IInv, TypeOK
<1>4. fanout'[j] = [fanout[j] EXCEPT !.left = fanout[j].left \ {p},
                       !.sent = IF out = "sent" THEN fanout[j].sent + 1 ELSE fanout[j].sent,
                       !.failed = IF out \in {"sent", "skipped"} THEN fanout[j].failed ELSE fanout[j].failed + 1,
                       !.skipped = IF out = "skipped" THEN fanout[j].skipped \cup {p} ELSE fanout[j].skipped]
  BY <1>1, <1>2, <1>3
<1>5. fanout'[j] =
           [left |-> fanout[j].left \ {p},
            sent |-> IF out = "sent" THEN fanout[j].sent + 1 ELSE fanout[j].sent,
            failed |-> IF out \in {"sent", "skipped"} THEN fanout[j].failed ELSE fanout[j].failed + 1,
            skipped |-> IF out = "skipped" THEN fanout[j].skipped \cup {p} ELSE fanout[j].skipped,
            deadline |-> fanout[j].deadline]
  <2>1. fanout[j] \in FanOutLocals
    BY <1>1, <1>3
  <2> QED
    BY <1>4, <2>1 DEF FanOutLocals
<1>6. fanout' = [fanout EXCEPT ![j] = fanout'[j]]
  BY <1>1, <1>2, <1>3
<1>7. fanout' = [fanout EXCEPT ![j] =
           [left |-> fanout[j].left \ {p},
            sent |-> IF out = "sent" THEN fanout[j].sent + 1 ELSE fanout[j].sent,
            failed |-> IF out \in {"sent", "skipped"} THEN fanout[j].failed ELSE fanout[j].failed + 1,
            skipped |-> IF out = "skipped" THEN fanout[j].skipped \cup {p} ELSE fanout[j].skipped,
            deadline |-> fanout[j].deadline]]
  BY <1>5, <1>6
<1> QED
  BY <1>1, <1>2, <1>7, CountPeerKeeps

(* The rows of peers not reached are closed.                               *)
LEMMA CancelUnreachedKeeps ==
  ASSUME IInv, NEW j \in UpdateJobs, CancelUnreached(j)
  PROVE  IInv'
<1>1. req[j] = "fanout" /\ fanout[j].left # {} /\ j \in Jobs
      /\ UNCHANGED <<job, req, queue, worker, watch, server, told, cut>>
  BY DEF CancelUnreached, Jobs
<1>2. PICK p \in fanout[j].left :
        /\ RecordOutcome(j, p, "canceled")
        /\ fanout' = [fanout EXCEPT ![j].left = @ \ {p}, ![j].failed = @ + 1]
  BY <1>1, FirstIn DEF CancelUnreached
<1>3. fanout \in [Jobs -> FanOutLocals]
  BY DEF IInv, TypeOK
<1>4. fanout' = [fanout EXCEPT ![j] =
           [left |-> fanout[j].left \ {p}, sent |-> fanout[j].sent,
            failed |-> fanout[j].failed + 1, skipped |-> fanout[j].skipped,
            deadline |-> fanout[j].deadline]]
  BY <1>1, <1>2, <1>3 DEF FanOutLocals
<1>5. PICK out : out = "canceled"
  OBVIOUS
<1>6. fanout' = [fanout EXCEPT ![j] =
           [left |-> fanout[j].left \ {p},
            sent |-> IF out = "sent" THEN fanout[j].sent + 1 ELSE fanout[j].sent,
            failed |-> IF out \in {"sent", "skipped"} THEN fanout[j].failed ELSE fanout[j].failed + 1,
            skipped |-> IF out = "skipped" THEN fanout[j].skipped \cup {p} ELSE fanout[j].skipped,
            deadline |-> fanout[j].deadline]]
  BY <1>4, <1>5
<1>7. RecordOutcome(j, p, out) /\ told' = IF out = "sent" THEN [told EXCEPT ![j] = @ \cup {p}] ELSE told
  BY <1>1, <1>2, <1>5
<1> QED
  BY <1>1, <1>6, <1>7, CountPeerKeeps

(* The deadline of the request keeps the invariant.                        *)
LEMMA HandlerDeadlineKeeps ==
  ASSUME IInv, NEW j \in UpdateJobs, HandlerDeadline(j)
  PROVE  IInv'
<1>1. /\ req[j] = "fanout" /\ j \in Jobs /\ j \notin PushJobs /\ JobInv(j) /\ TypeOK
      /\ fanout' = [fanout EXCEPT ![j].deadline = TRUE]
      /\ UNCHANGED <<job, rows, req, queue, worker, watch, server, faults, told, cut, unwritten>>
  BY PushAssumption DEF HandlerDeadline, IInv, Jobs
<1>2. fanout \in [Jobs -> FanOutLocals]
  BY <1>1 DEF TypeOK
<1>3. /\ fanout' \in [Jobs -> FanOutLocals]
      /\ \A k \in Jobs \ {j} : fanout'[k] = fanout[k]
      /\ fanout'[j].left = fanout[j].left /\ fanout'[j].skipped = fanout[j].skipped
      /\ fanout'[j].sent = fanout[j].sent /\ fanout'[j].failed = fanout[j].failed
  BY <1>1, <1>2 DEF FanOutLocals
<1>4. TypeOK'
  BY <1>1, <1>3 DEF TypeOK
<1>5. \A k \in Jobs \ {j} : Same(k)
  BY <1>1, <1>3 DEF Same
<1>6. QueueInv' /\ WorkerInv'
  BY <1>1, <1>5, HandlerFrame
<1>7. JobInv(j)'
  BY <1>1, <1>3 DEF JobInv, PhaseInv, StartInv, FanOutInv, Truthful, Covered
<1>8. \A k \in Jobs : JobInv(k)'
  BY <1>1, <1>5, <1>7, JobFrame DEF IInv, Grow
<1> QED
  BY <1>4, <1>6, <1>8 DEF IInv

(* The end of the fan-out keeps the invariant.                             *)
LEMMA EndFanOutKeeps ==
  ASSUME IInv, NEW j \in UpdateJobs, EndFanOut(j)
  PROVE  IInv'
<1>1. /\ req[j] = "fanout" /\ fanout[j].left = {}
      /\ j \in Jobs /\ j \notin PushJobs /\ JobInv(j) /\ TypeOK
      /\ req' = [req EXCEPT ![j] = "finalize"]
      /\ UNCHANGED <<job, rows, queue, worker, fanout, watch, server, faults, told, cut, unwritten>>
  BY PushAssumption DEF EndFanOut, IInv, Jobs
<1>2. req \in [Jobs -> {"never", "none", "created", "listed", "fanout", "finalize", "acked", "refused", "error"}]
  BY <1>1 DEF TypeOK
<1>3. req'[j] = "finalize" /\ \A k \in Jobs \ {j} : req'[k] = req[k]
  BY <1>1, <1>2
<1>4. TypeOK'
  <2>1. req' \in [Jobs -> {"never", "none", "created", "listed", "fanout", "finalize", "acked", "refused", "error"}]
    BY <1>1, <1>2
  <2> QED
    BY <1>1, <2>1 DEF TypeOK
<1>5. \A k \in Jobs \ {j} : Same(k)
  BY <1>1, <1>3 DEF Same
<1>6. QueueInv' /\ WorkerInv'
  BY <1>1, <1>5, HandlerFrame
<1>7. JobInv(j)'
  BY <1>1, <1>3 DEF JobInv, PhaseInv, StartInv, FanOutInv, Truthful, Covered
<1>8. \A k \in Jobs : JobInv(k)'
  BY <1>1, <1>5, <1>7, JobFrame DEF IInv, Grow
<1> QED
  BY <1>4, <1>6, <1>8 DEF IInv

(* The final state of an update keeps the invariant.                       *)
LEMMA FinalizeUpdateKeeps ==
  ASSUME IInv, NEW j \in UpdateJobs, FinalizeUpdate(j)
  PROVE  IInv'
<1>1. /\ req[j] = "finalize" /\ j \in Jobs /\ j \notin PushJobs /\ JobInv(j) /\ TypeOK
      /\ Finalize(j, fanout[j].sent, fanout[j].failed, TRUE)
      /\ req' = [req EXCEPT ![j] = "acked"]
      /\ UNCHANGED <<rows, queue, worker, fanout, watch, server, told, cut>>
  BY PushAssumption DEF FinalizeUpdate, IInv, Jobs
<1>2. req \in [Jobs -> {"never", "none", "created", "listed", "fanout", "finalize", "acked", "refused", "error"}]
  BY <1>1 DEF TypeOK
<1>3. PICK s \in Nat, f \in Nat : s = fanout[j].sent /\ f = fanout[j].failed
  BY <1>1 DEF TypeOK, FanOutLocals
<1>4. Finalize(j, s, f, TRUE)
  BY <1>1, <1>3 DEF Finalize, Finalized
<1>5. /\ job' \in [Jobs -> JobRows] /\ faults' \in 0..MaxFaults
      /\ \A k \in Jobs \ {j} : job'[k] = job[k]
      /\ unwritten \subseteq unwritten' /\ unwritten' \subseteq Jobs
      /\ \/ job'[j] = job[j] /\ j \in unwritten'
         \/ job'[j] = [status |-> FinalStatus(f), total |-> job[j].total, succeeded |-> s, failed |-> f]
  BY <1>1, <1>4, FinalizeEffect
<1>6. req'[j] = "acked" /\ \A k \in Jobs \ {j} : req'[k] = req[k]
  BY <1>1, <1>2
<1>7. TypeOK'
  <2>1. req' \in [Jobs -> {"never", "none", "created", "listed", "fanout", "finalize", "acked", "refused", "error"}]
    BY <1>1, <1>2
  <2> QED
    BY <1>1, <1>5, <2>1 DEF TypeOK
<1>8. \A k \in Jobs \ {j} : Same(k)
  BY <1>1, <1>5, <1>6 DEF Same
<1>9. QueueInv' /\ WorkerInv'
  BY <1>1, <1>8, HandlerFrame
<1>10. /\ s = Cardinality(told[j]) /\ fanout[j].left = {} /\ job[j].status = "pending" /\ Truthful(j)
       /\ s + f + Cardinality(fanout[j].skipped) = job[j].total
       /\ j \notin unwritten => \A q \in Agents \ fanout[j].skipped : rows[j][q] # "pending"
  <2>1. Cardinality(fanout[j].skipped) \in Nat
    BY <1>1, CountType DEF TypeOK, FanOutLocals
  <2>2. /\ s = Cardinality(told[j]) /\ fanout[j].left = {} /\ job[j].status = "pending" /\ Truthful(j)
        /\ s + f + Cardinality(fanout[j].skipped) + Cardinality(fanout[j].left) = job[j].total
    BY <1>1, <1>3 DEF JobInv, PhaseInv, FanOutInv
  <2>3. s + f + Cardinality(fanout[j].skipped) = job[j].total
    BY <2>1, <2>2, CountNone
  <2>4. j \notin unwritten => \A q \in Agents \ fanout[j].skipped : rows[j][q] # "pending"
    BY <1>1 DEF JobInv, FanOutInv
  <2> QED
    BY <2>2, <2>3, <2>4
<1>11. PhaseInv(j)' /\ StartInv(j)' /\ FanOutInv(j)'
  BY <1>1, <1>6 DEF PhaseInv, StartInv, FanOutInv
<1>12. Truthful(j)'
  <2>1. CASE job'[j] = job[j]
    BY <2>1, <1>1, <1>10 DEF Truthful
  <2>2. CASE job'[j] = [status |-> FinalStatus(f), total |-> job[j].total, succeeded |-> s, failed |-> f]
    BY <2>2, <1>1, <1>10 DEF Truthful, FinalStatus
  <2> QED
    BY <2>1, <2>2, <1>5
<1>13. Covered(j)'
  BY <1>1, <1>5, <1>10 DEF Covered
<1>14. \A k \in Jobs : JobInv(k)'
  BY <1>1, <1>5, <1>8, <1>11, <1>12, <1>13, JobFrame DEF IInv, Grow, JobInv
<1> QED
  BY <1>7, <1>9, <1>14 DEF IInv

(***************************************************************************)
(* The worker                                                              *)
(***************************************************************************)

(* A step of the worker on its own job leaves what is queued alone.        *)
LEMMA QueueFrame ==
  ASSUME IInv, NEW w \in PushJobs, w = worker.job, Busy, UNCHANGED queue,
         \A k \in Jobs \ {w} : Same(k)
  PROVE  QueueInv'
<1>1. \A i \in 1..Len(queue) : queue[i] \in Jobs /\ Waiting(queue[i]) /\ queue[i] # w
  BY DEF IInv, TypeOK, QueueInv, WorkerInv, Jobs
<1>2. \A k \in Jobs \ {w} : Waiting(k) => Waiting(k)'
  BY DEF Waiting, Listed, Same
<1>3. \A i \in 1..Len(queue') : \E k \in Jobs : k = queue'[i] /\ Waiting(k)'
  BY <1>1, <1>2
<1>4. \A i, k \in 1..Len(queue') : queue'[i] = queue'[k] => i = k
  BY DEF IInv, QueueInv
<1> QED
  BY <1>3, <1>4, QueueWaits

(* No job is touched.                                                      *)
LEMMA JobsUntouched ==
  ASSUME IInv, UNCHANGED <<job, rows, req, fanout, told, cut, unwritten>>
  PROVE  \A k \in Jobs : JobInv(k)'
BY JobFrame DEF IInv, Same, Grow

(* The worker takes a job.                                                 *)
LEMMA TakeJobKeeps ==
  ASSUME IInv, TakeJob
  PROVE  IInv'
<1>1. /\ worker.pc = "select" /\ queue # << >> /\ TypeOK /\ QueueInv
      /\ worker' = [Idle EXCEPT !.pc = "load", !.job = Head(queue), !.drain = worker.drain]
      /\ queue' = Tail(queue)
      /\ UNCHANGED <<job, rows, req, fanout, watch, server, faults, told, cut, unwritten>>
  BY DEF TakeJob, IInv
<1>2. queue \in Seq(PushJobs) /\ Len(queue) <= QueueSize /\ worker.drain \in BOOLEAN
  BY <1>1 DEF TypeOK, WorkerLocals
<1>3. PICK h \in PushJobs : h = Head(queue)
  BY <1>1, <1>2
<1>4. /\ Len(queue) \in Nat \ {0} /\ h = queue[1] /\ h \in Jobs
      /\ Len(queue') = Len(queue) - 1 /\ queue' \in Seq(PushJobs)
      /\ \A i \in 1..Len(queue') : queue'[i] = queue[i + 1] /\ i + 1 \in 1..Len(queue)
  BY <1>1, <1>2, <1>3 DEF Jobs
<1>5. worker' = [pc |-> "load", job |-> h, left |-> {}, out |-> << >>,
                 notified |-> 0, failed |-> 0, timeout |-> FALSE, drain |-> worker.drain]
  BY <1>1, <1>3 DEF Idle
<1>6. worker' \in WorkerLocals
  BY <1>2, <1>5 DEF WorkerLocals
<1>7. TypeOK'
  <2>1. Len(queue') <= QueueSize
    BY <1>2, <1>4, PushAssumption
  <2> QED
    BY <1>1, <1>4, <1>6, <2>1 DEF TypeOK
<1>8. QueueInv'
  <2>1. \A k \in Jobs : Waiting(k) => Waiting(k)'
    BY <1>1 DEF Waiting, Listed
  <2>2. \A i \in 1..Len(queue) : queue[i] \in Jobs /\ Waiting(queue[i])
    BY <1>1, <1>2 DEF QueueInv, Jobs
  <2>3. \A i \in 1..Len(queue') : \E k \in Jobs : k = queue'[i] /\ Waiting(k)'
    BY <1>4, <2>1, <2>2
  <2>4. \A i, k \in 1..Len(queue') : queue'[i] = queue'[k] => i = k
    <3> TAKE i, k \in 1..Len(queue')
    <3> HAVE queue'[i] = queue'[k]
    <3>1. i + 1 = k + 1
      BY <1>1, <1>4 DEF QueueInv
    <3> QED
      BY <3>1, <1>4
  <2> QED
    BY <2>3, <2>4, QueueWaits
<1>9. WorkerInv'
  <2>1. Waiting(h)
    BY <1>1, <1>4 DEF QueueInv
  <2>2. /\ worker'.pc = "load" /\ worker'.job = h
        /\ worker'.notified = 0 /\ worker'.failed = 0
    BY <1>5
  <2>3. \A i \in 1..Len(queue') : queue'[i] # h
    <3> TAKE i \in 1..Len(queue')
    <3>1. i + 1 # 1 /\ i + 1 \in 1..Len(queue) /\ 1 \in 1..Len(queue) /\ queue'[i] = queue[i + 1]
      BY <1>4
    <3> QED
      BY <3>1, <1>1, <1>4 DEF QueueInv
  <2>4. AtLoad'
    BY <1>1, <2>1, <2>2 DEF AtLoad, Waiting, Listed
  <2> QED
    BY <1>1, <2>1, <2>2, <2>3, <2>4 DEF WorkerInv, Waiting
<1>10. \A k \in Jobs : JobInv(k)'
  BY <1>1, JobsUntouched
<1> QED
  BY <1>7, <1>8, <1>9, <1>10 DEF IInv

(* The worker moves between its select and its end, its load fails, or the *)
(* timeout of its job passes.                                              *)
LEMMA WorkerMovesKeeps ==
  ASSUME IInv, ObserveCancel \/ Return \/ CloseDone \/ LoadFails \/ JobTimeout
  PROVE  IInv'
<1>1. /\ TypeOK /\ QueueInv /\ WorkerInv
      /\ UNCHANGED <<job, rows, req, queue, fanout, watch, server, told, cut, unwritten>>
  BY DEF ObserveCancel, Return, CloseDone, LoadFails, JobTimeout, IInv
<1>2. faults' \in 0..MaxFaults
  <2>1. CASE LoadFails
    <3>1. ContextDone \in BOOLEAN
      BY <1>1 DEF ContextDone, TypeOK, WorkerLocals
    <3>2. PICK live \in BOOLEAN : live = ~ContextDone
      BY <3>1
    <3>3. Exec(live, FALSE)
      BY <2>1, <3>2 DEF LoadFails, Exec
    <3> QED
      BY <3>3, <1>1, ExecType DEF TypeOK
  <2>2. CASE ~LoadFails
    BY <2>2, <1>1 DEF ObserveCancel, Return, CloseDone, JobTimeout, TypeOK
  <2> QED
    BY <2>1, <2>2
<1>3. worker \in WorkerLocals
  BY <1>1 DEF TypeOK
<1>4. /\ worker' \in WorkerLocals
      /\ worker'.job = worker.job /\ worker'.left = worker.left /\ worker'.out = worker.out
      /\ worker'.notified = worker.notified /\ worker'.failed = worker.failed
      /\ \/ ~(worker'.pc \in {"load", "unloaded", "peer", "record"})
         \/ worker.pc = "load" /\ worker'.pc = "unloaded"
         \/ worker.pc \in {"load", "peer", "record"} /\ worker'.pc = worker.pc
  BY <1>3 DEF ObserveCancel, Return, CloseDone, LoadFails, JobTimeout, WorkerLocals
<1>5. TypeOK'
  BY <1>1, <1>2, <1>4 DEF TypeOK
<1>6. QueueInv'
  BY <1>1 DEF QueueInv, Waiting, Listed
<1>7. WorkerInv'
  <2>1. CASE ~(worker'.pc \in {"load", "unloaded", "peer", "record"})
    BY <2>1 DEF WorkerInv, Busy
  <2>2. CASE worker.pc = "load" /\ worker'.pc = "unloaded"
    BY <2>2, <1>1, <1>4 DEF WorkerInv, Busy, AtLoad, Waiting, Listed
  <2>3. CASE worker.pc \in {"load", "peer", "record"} /\ worker'.pc = worker.pc
    <3>1. AtLoad => AtLoad'
      BY <1>1, <1>4 DEF AtLoad, Waiting, Listed
    <3>2. AtPeer => AtPeer'
      BY <1>1, <1>4 DEF AtPeer
    <3>3. AtRecord => AtRecord'
      BY <1>1, <1>4 DEF AtRecord
    <3> QED
      BY <2>3, <3>1, <3>2, <3>3, <1>1, <1>4 DEF WorkerInv, Busy
  <2> QED
    BY <1>4, <2>1, <2>2, <2>3
<1>8. \A k \in Jobs : JobInv(k)'
  BY <1>1, JobsUntouched
<1> QED
  BY <1>5, <1>6, <1>7, <1>8 DEF IInv

(* The job of a worker that has one.                                       *)
LEMMA WorkersJob ==
  ASSUME IInv, Busy
  PROVE  \E w \in PushJobs :
           /\ w = worker.job /\ w \in Jobs /\ w \notin UpdateJobs /\ JobInv(w) /\ req[w] = "acked"
           /\ job[w].status \in {"pending", "running"}
           /\ \A i \in 1..Len(queue) : queue[i] # w
<1>1. PICK w \in PushJobs : w = worker.job
  BY DEF IInv, WorkerInv
<1>2. w \in Jobs /\ w \notin UpdateJobs
  BY PushAssumption DEF Jobs
<1>3. job[w].status \in {"pending", "running"}
  BY <1>1 DEF IInv, WorkerInv, Busy, AtLoad, AtPeer, AtRecord, Waiting
<1> QED
  BY <1>1, <1>2, <1>3 DEF IInv, WorkerInv

(* The worker is back at its select.                                       *)
LEMMA BackToSelect ==
  ASSUME TypeOK, worker' = [Idle EXCEPT !.drain = worker.drain]
  PROVE  worker' \in WorkerLocals /\ worker'.pc = "select"
<1>1. worker.drain \in BOOLEAN
  BY DEF TypeOK, WorkerLocals
<1>2. worker' = [pc |-> "select", job |-> "none", left |-> {}, out |-> << >>,
                 notified |-> 0, failed |-> 0, timeout |-> FALSE, drain |-> worker.drain]
  BY DEF Idle
<1>3. PICK n \in PushJobs \cup {"none"} : n = "none"
  OBVIOUS
<1>4. PICK pc \in {"select", "load", "unloaded", "peer", "record", "exiting", "done"} : pc = "select"
  OBVIOUS
<1>5. [pc |-> pc, job |-> n, left |-> {}, out |-> << >>,
       notified |-> 0, failed |-> 0, timeout |-> FALSE, drain |-> worker.drain] \in WorkerLocals
  BY <1>1 DEF WorkerLocals
<1>6. worker' = [pc |-> pc, job |-> n, left |-> {}, out |-> << >>,
                 notified |-> 0, failed |-> 0, timeout |-> FALSE, drain |-> worker.drain]
  BY <1>2, <1>3, <1>4
<1>7. worker'.pc = "select"
  BY <1>2
<1> QED
  BY <1>5, <1>6, <1>7

(* Marking a job as failed keeps the invariant.                            *)
LEMMA MarkFailedKeeps ==
  ASSUME IInv, MarkFailed
  PROVE  IInv'
<1>1. /\ worker.pc = "unloaded" /\ TypeOK /\ Busy
      /\ worker' = [Idle EXCEPT !.drain = worker.drain]
      /\ Publish(worker.job, "complete")
      /\ UNCHANGED <<rows, req, queue, fanout, server, told, cut>>
  BY DEF MarkFailed, IInv, Busy
<1>2. PICK w \in PushJobs :
        /\ w = worker.job /\ w \in Jobs /\ w \notin UpdateJobs /\ JobInv(w) /\ req[w] = "acked"
        /\ job[w].status \in {"pending", "running"}
        /\ \A i \in 1..Len(queue) : queue[i] # w
  BY <1>1, WorkersJob
<1>3. PICK ok \in BOOLEAN :
        /\ Exec(TRUE, ok)
        /\ job' = IF ok THEN [job EXCEPT ![w].status = "failed"] ELSE job
        /\ unwritten' = IF ok THEN unwritten ELSE unwritten \cup {w}
  BY <1>2 DEF MarkFailed
<1>4. job \in [Jobs -> JobRows] /\ unwritten \subseteq Jobs
  BY <1>1 DEF TypeOK
<1>5. /\ job' \in [Jobs -> JobRows] /\ \A k \in Jobs \ {w} : job'[k] = job[k]
      /\ job'[w].status \in {"pending", "running", "failed"} /\ job'[w].total = job[w].total
      /\ unwritten \subseteq unwritten' /\ unwritten' \subseteq Jobs
  <2>1. CASE ok
    BY <2>1, <1>2, <1>3, <1>4 DEF JobRows, Finished
  <2>2. CASE ~ok
    BY <2>2, <1>2, <1>3, <1>4
  <2> QED
    BY <2>1, <2>2
<1>6. TypeOK'
  <2>1. faults' \in 0..MaxFaults
    BY <1>1, <1>3, ExecType DEF TypeOK
  <2>2. watch' \in [Jobs -> Clients]
    BY <1>1, <1>2, PublishType
  <2> QED
    BY <1>1, <1>5, <2>1, <2>2, BackToSelect DEF TypeOK
<1>7. \A k \in Jobs \ {w} : Same(k)
  BY <1>1, <1>5 DEF Same
<1>8. QueueInv'
  BY <1>1, <1>2, <1>7, QueueFrame
<1>9. WorkerInv'
  BY <1>1, BackToSelect DEF WorkerInv, Busy
<1>10. JobInv(w)'
  BY <1>1, <1>2, <1>5 DEF JobInv, PhaseInv, StartInv, FanOutInv, Truthful, Covered
<1>11. \A k \in Jobs : JobInv(k)'
  BY <1>1, <1>5, <1>7, <1>10, JobFrame DEF IInv, Grow
<1> QED
  BY <1>6, <1>8, <1>9, <1>11 DEF IInv

(* Loading the peers of a job keeps the invariant.                         *)
LEMMA LoadJobKeeps ==
  ASSUME IInv, LoadJob
  PROVE  IInv'
<1>1. /\ worker.pc = "load" /\ TypeOK /\ Busy
      /\ UNCHANGED <<rows, req, queue, fanout, watch, server, told, cut, unwritten>>
  BY DEF LoadJob, IInv, Busy
<1>2. PICK w \in PushJobs :
        /\ w = worker.job /\ w \in Jobs /\ w \notin UpdateJobs /\ JobInv(w) /\ req[w] = "acked"
        /\ job[w].status \in {"pending", "running"}
        /\ \A i \in 1..Len(queue) : queue[i] # w
  BY <1>1, WorkersJob
<1>3. PICK ok \in BOOLEAN :
        /\ Exec(TRUE, ok)
        /\ job' = IF ok THEN [job EXCEPT ![w].status = "running"] ELSE job
  BY <1>2 DEF LoadJob
<1>4. /\ worker.notified = 0 /\ worker.failed = 0 /\ told[w] = {} /\ Listed(w)
      /\ job[w].total = Cardinality(fanout[w].left)
  BY <1>1, <1>2 DEF IInv, WorkerInv, Busy, AtLoad, Waiting, JobInv, StartInv
<1>5. job \in [Jobs -> JobRows] /\ worker \in WorkerLocals /\ fanout[w].left \in SUBSET Agents
  BY <1>1, <1>2 DEF TypeOK, FanOutLocals
<1>6. fanout[w].left = {p \in Agents : rows[w][p] # "none"}
  BY <1>4, <1>5 DEF Listed
<1>7. worker' = [worker EXCEPT !.pc = "peer", !.left = fanout[w].left]
  BY <1>2, <1>6 DEF LoadJob
<1>8. /\ worker' \in WorkerLocals /\ worker'.pc = "peer" /\ worker'.left = fanout[w].left
      /\ worker'.job = w /\ worker'.notified = 0 /\ worker'.failed = 0
  BY <1>2, <1>4, <1>5, <1>7 DEF WorkerLocals
<1>9. /\ job' \in [Jobs -> JobRows] /\ \A k \in Jobs \ {w} : job'[k] = job[k]
      /\ job'[w].status \in {"pending", "running"} /\ job'[w].total = job[w].total
  <2>1. CASE ok
    BY <2>1, <1>2, <1>3, <1>5 DEF JobRows
  <2>2. CASE ~ok
    BY <2>2, <1>2, <1>3, <1>5
  <2> QED
    BY <2>1, <2>2
<1>10. TypeOK'
  <2>1. faults' \in 0..MaxFaults
    BY <1>1, <1>3, ExecType DEF TypeOK
  <2> QED
    BY <1>1, <1>8, <1>9, <2>1 DEF TypeOK
<1>11. \A k \in Jobs \ {w} : Same(k)
  BY <1>1, <1>9 DEF Same
<1>12. QueueInv'
  BY <1>1, <1>2, <1>11, QueueFrame
<1>13. WorkerInv'
  <2>1. Cardinality(fanout[w].left) \in Nat
    BY <1>5, CountType
  <2>2. AtPeer'
    <3>1. told'[w] = {} /\ told'[w] \cap worker'.left = {}
      BY <1>1, <1>4
    <3>2. worker'.notified = Cardinality(told'[w])
      BY <3>1, <1>8, CountNone
    <3>3. worker'.notified + worker'.failed + Cardinality(worker'.left) = job'[w].total
      BY <2>1, <1>4, <1>8, <1>9
    <3> QED
      BY <3>1, <3>2, <3>3, <1>8, <1>9 DEF AtPeer
  <2> QED
    BY <2>2, <1>1, <1>2, <1>8 DEF WorkerInv
<1>14. JobInv(w)'
  BY <1>1, <1>2, <1>9 DEF JobInv, PhaseInv, StartInv, FanOutInv, Truthful, Covered
<1>15. \A k \in Jobs : JobInv(k)'
  BY <1>1, <1>11, <1>14, JobFrame DEF IInv, Grow
<1> QED
  BY <1>10, <1>12, <1>13, <1>15 DEF IInv

(* The last write of the worker, after the last peer or in the midst of    *)
(* them.                                                                   *)
LEMMA LastWriteKeeps ==
  ASSUME IInv, worker.pc = "peer", Finalize(worker.job, worker.notified, worker.failed, TRUE),
         cut \subseteq cut', cut' \subseteq Jobs, worker.left = {} \/ worker.job \in cut',
         worker' = [Idle EXCEPT !.drain = worker.drain], watch' \in [Jobs -> Clients],
         UNCHANGED <<rows, req, queue, fanout, server, told>>
  PROVE  IInv'
<1>1. TypeOK /\ Busy
  BY DEF IInv, Busy
<1>2. PICK w \in PushJobs :
        /\ w = worker.job /\ w \in Jobs /\ w \notin UpdateJobs /\ JobInv(w) /\ req[w] = "acked"
        /\ job[w].status \in {"pending", "running"}
        /\ \A i \in 1..Len(queue) : queue[i] # w
  BY <1>1, WorkersJob
<1>3. PICK s \in Nat, f \in Nat : s = worker.notified /\ f = worker.failed
  BY <1>1 DEF TypeOK, WorkerLocals
<1>4. Finalize(w, s, f, TRUE) /\ w \in Jobs
  BY <1>2, <1>3 DEF Finalize, Finalized
<1>41. TypeOK
  BY <1>1
<1>5. /\ job' \in [Jobs -> JobRows] /\ faults' \in 0..MaxFaults
      /\ \A k \in Jobs \ {w} : job'[k] = job[k]
      /\ unwritten \subseteq unwritten' /\ unwritten' \subseteq Jobs
      /\ \/ job'[w] = job[w] /\ w \in unwritten'
         \/ job'[w] = [status |-> FinalStatus(f), total |-> job[w].total, succeeded |-> s, failed |-> f]
  BY <1>4, <1>41, FinalizeEffect
<1>6. s = Cardinality(told[w]) /\ s + f + Cardinality(worker.left) = job[w].total
  BY <1>1, <1>2, <1>3 DEF IInv, WorkerInv, AtPeer
<1>7. w \in cut' \/ s + f = job[w].total
  <2>1. CASE worker.left = {}
    <3>1. s + f + 0 = job[w].total
      BY <2>1, <1>6, CountNone
    <3> QED
      BY <3>1, <1>3
  <2>2. CASE worker.job \in cut'
    BY <2>2, <1>2
  <2> QED
    BY <2>1, <2>2
<1>8. TypeOK'
  BY <1>1, <1>5, BackToSelect DEF TypeOK
<1>9. \A k \in Jobs \ {w} : Same(k)
  BY <1>5 DEF Same
<1>10. QueueInv'
  BY <1>1, <1>2, <1>9, QueueFrame
<1>11. WorkerInv'
  BY <1>1, BackToSelect DEF WorkerInv, Busy
<1>12. PhaseInv(w)' /\ FanOutInv(w)' /\ Covered(w)'
  BY <1>2 DEF PhaseInv, FanOutInv, Covered
<1>13. StartInv(w)'
  <2>1. job'[w].total = job[w].total
    BY <1>5
  <2> QED
    BY <2>1, <1>2 DEF JobInv, StartInv
<1>14. Truthful(w)'
  <2>1. CASE job'[w] = job[w]
    BY <2>1, <1>2 DEF JobInv, Truthful
  <2>2. CASE job'[w] = [status |-> FinalStatus(f), total |-> job[w].total, succeeded |-> s, failed |-> f]
    BY <2>2, <1>2, <1>6, <1>7 DEF JobInv, Truthful, FinalStatus
  <2> QED
    BY <2>1, <2>2, <1>5
<1>15. \A k \in Jobs : JobInv(k)'
  BY <1>5, <1>9, <1>12, <1>13, <1>14, JobFrame DEF IInv, Grow, JobInv
<1> QED
  BY <1>8, <1>10, <1>11, <1>15 DEF IInv

(* A job cut short keeps the invariant.                                    *)
LEMMA AbortKeeps ==
  ASSUME IInv, Abort
  PROVE  IInv'
<1>1. /\ worker.pc = "peer" /\ Finalize(worker.job, worker.notified, worker.failed, TRUE)
      /\ cut' = cut \cup {worker.job} /\ worker' = [Idle EXCEPT !.drain = worker.drain]
      /\ UNCHANGED <<rows, req, queue, fanout, watch, server, told>> /\ TypeOK /\ Busy
  BY DEF Abort, IInv, Busy
<1>2. worker.job \in Jobs
  BY <1>1, WorkersJob
<1>3. cut \subseteq cut' /\ cut' \subseteq Jobs /\ worker.job \in cut' /\ watch' \in [Jobs -> Clients]
  BY <1>1, <1>2 DEF TypeOK
<1> QED
  BY <1>1, <1>3, LastWriteKeeps

(* The end of a job keeps the invariant.                                   *)
LEMMA FinishJobKeeps ==
  ASSUME IInv, FinishJob
  PROVE  IInv'
<1>1. /\ worker.pc = "peer" /\ worker.left = {}
      /\ Finalize(worker.job, worker.notified, worker.failed, TRUE)
      /\ Publish(worker.job, "complete")
      /\ worker' = [Idle EXCEPT !.drain = worker.drain]
      /\ UNCHANGED <<rows, req, queue, fanout, server, told, cut>> /\ TypeOK /\ Busy
  BY DEF FinishJob, IInv, Busy
<1>2. PICK w \in Jobs : w = worker.job
  BY <1>1, WorkersJob
<1>3. watch' \in [Jobs -> Clients]
  BY <1>1, <1>2, PublishType
<1>4. cut \subseteq cut' /\ cut' \subseteq Jobs
  BY <1>1 DEF TypeOK
<1> QED
  BY <1>1, <1>3, <1>4, LastWriteKeeps

(* A push to one peer keeps the invariant.                                 *)
LEMMA PushPeerKeeps ==
  ASSUME IInv, PushPeer
  PROVE  IInv'
<1>1. /\ worker.pc = "peer" /\ worker.left # {} /\ Publish(worker.job, "progress")
      /\ UNCHANGED <<job, rows, req, queue, fanout, server, faults, cut, unwritten>>
      /\ TypeOK /\ Busy
  BY DEF PushPeer, IInv, Busy
<1>2. PICK w \in PushJobs :
        /\ w = worker.job /\ w \in Jobs /\ w \notin UpdateJobs /\ JobInv(w) /\ req[w] = "acked"
        /\ job[w].status \in {"pending", "running"}
        /\ \A i \in 1..Len(queue) : queue[i] # w
  BY <1>1, WorkersJob
<1>3. PICK out \in PushOutcomes, p \in worker.left :
        /\ worker' = [worker EXCEPT !.pc = "record", !.left = @ \ {p}, !.out = <<p, out>>]
        /\ told' = IF out = "delivered" THEN [told EXCEPT ![w] = @ \cup {p}] ELSE told
  BY <1>1, <1>2, FirstIn DEF PushPeer
<1>4. /\ worker \in WorkerLocals /\ worker.left \in SUBSET Agents /\ p \in Agents
      /\ told \in [Jobs -> SUBSET Agents] /\ worker.notified \in Nat /\ worker.failed \in Nat
  BY <1>1 DEF TypeOK, WorkerLocals
<1>5. <<p, out>> \in Agents \X PushOutcomes
  BY <1>4
<1>6. /\ worker' \in WorkerLocals /\ worker'.pc = "record" /\ worker'.left = worker.left \ {p}
      /\ worker'.out = <<p, out>> /\ worker'.job = w
      /\ worker'.notified = worker.notified /\ worker'.failed = worker.failed
  BY <1>2, <1>3, <1>4, <1>5 DEF WorkerLocals
<1>7. /\ told' \in [Jobs -> SUBSET Agents]
      /\ \A k \in Jobs \ {w} : told'[k] = told[k]
      /\ told'[w] = IF out = "delivered" THEN told[w] \cup {p} ELSE told[w]
  <2>1. CASE out = "delivered"
    BY <2>1, <1>2, <1>3, <1>4
  <2>2. CASE out # "delivered"
    BY <2>2, <1>2, <1>3, <1>4
  <2> QED
    BY <2>1, <2>2
<1>8. TypeOK'
  <2>1. watch' \in [Jobs -> Clients]
    BY <1>1, <1>2, PublishType
  <2> QED
    BY <1>1, <1>6, <1>7, <2>1 DEF TypeOK
<1>9. \A k \in Jobs \ {w} : Same(k)
  BY <1>1, <1>7 DEF Same
<1>10. QueueInv'
  BY <1>1, <1>2, <1>9, QueueFrame
<1>11. /\ told[w] \cap worker.left = {} /\ worker.notified = Cardinality(told[w])
       /\ worker.notified + worker.failed + Cardinality(worker.left) = job[w].total
  BY <1>1, <1>2 DEF IInv, WorkerInv, AtPeer
<1>12. WorkerInv'
  <2>1. /\ told'[w] \cap worker'.left = {} /\ worker'.out \in Agents \X PushOutcomes
        /\ worker'.out[1] = p /\ worker'.out[2] = out /\ p \notin worker'.left
    BY <1>5, <1>6, <1>7, <1>11
  <2>2. IF out = "delivered"
        THEN p \in told'[w] /\ worker'.notified + 1 = Cardinality(told'[w])
        ELSE worker'.notified = Cardinality(told'[w])
    <3>1. p \notin told[w] /\ told[w] \in SUBSET Agents
      BY <1>2, <1>4, <1>11
    <3> QED
      BY <3>1, <1>4, <1>6, <1>7, <1>11, CountAgents
  <2>3. worker'.notified + worker'.failed + Cardinality(worker'.left) + 1 = job[w].total
    <3>1. /\ Cardinality(worker'.left) + 1 = Cardinality(worker.left)
          /\ Cardinality(worker'.left) \in Nat
      <4>1. worker.left \ {p} \in SUBSET Agents
        BY <1>4
      <4> QED
        BY <4>1, <1>4, <1>6, CountAgents, CountType
    <3> QED
      BY <3>1, <1>4, <1>6, <1>11
  <2>4. AtRecord'
    BY <2>1, <2>2, <2>3, <1>1, <1>2, <1>6 DEF AtRecord
  <2> QED
    BY <2>4, <1>1, <1>2, <1>6 DEF WorkerInv
<1>13. JobInv(w)'
  <2>1. told[w] \subseteq told'[w]
    BY <1>7
  <2>2. PhaseInv(w)' /\ StartInv(w)' /\ FanOutInv(w)' /\ Covered(w)'
    BY <1>1, <1>2 DEF JobInv, PhaseInv, StartInv, FanOutInv, Covered
  <2>3. Truthful(w)'
    BY <2>1, <1>1, <1>2 DEF JobInv, Truthful
  <2> QED
    BY <2>2, <2>3 DEF JobInv
<1>14. \A k \in Jobs : JobInv(k)'
  BY <1>1, <1>9, <1>13, JobFrame DEF IInv, Grow
<1> QED
  BY <1>8, <1>10, <1>12, <1>14 DEF IInv

(* Recording the outcome of one peer keeps the invariant.                  *)
LEMMA RecordPeerKeeps ==
  ASSUME IInv, RecordPeer
  PROVE  IInv'
<1>1. /\ worker.pc = "record" /\ Publish(worker.job, "progress")
      /\ UNCHANGED <<job, req, queue, fanout, server, told, cut, unwritten>>
      /\ TypeOK /\ Busy
  BY DEF RecordPeer, IInv, Busy
<1>2. PICK w \in PushJobs :
        /\ w = worker.job /\ w \in Jobs /\ w \notin UpdateJobs /\ JobInv(w) /\ req[w] = "acked"
        /\ job[w].status \in {"pending", "running"}
        /\ \A i \in 1..Len(queue) : queue[i] # w
  BY <1>1, WorkersJob
<1>3. AtRecord
  BY <1>1 DEF IInv, WorkerInv
<1>4. PICK p \in Agents, out \in PushOutcomes : p = worker.out[1] /\ out = worker.out[2]
  BY <1>3 DEF AtRecord
<1>5. PICK live \in BOOLEAN : live = ~ContextDone
  BY <1>1 DEF ContextDone, TypeOK, WorkerLocals
<1>6. PICK ok \in BOOLEAN :
        /\ Exec(live, ok)
        /\ rows' = IF ok THEN [rows EXCEPT ![w][p] = IF out = "delivered" THEN "notified" ELSE "failed"]
                   ELSE rows
        /\ worker' = [worker EXCEPT !.pc = "peer", !.out = << >>,
                                    !.notified = IF out = "delivered" THEN @ + 1 ELSE @,
                                    !.failed = IF out = "delivered" THEN @ ELSE @ + 1]
  BY <1>2, <1>4, <1>5 DEF RecordPeer, Exec
<1>7. /\ worker \in WorkerLocals /\ worker.left \in SUBSET Agents
      /\ worker.notified \in Nat /\ worker.failed \in Nat
      /\ told[w] \in SUBSET Agents /\ Cardinality(told[w]) \in Nat /\ Cardinality(worker.left) \in Nat
      /\ rows \in [Jobs -> [Agents -> {"none", "pending", "notified", "failed"}]]
  BY <1>1, <1>2, CountType DEF TypeOK, WorkerLocals
<1>8. PICK n \in Nat, f \in Nat :
        /\ n = (IF out = "delivered" THEN worker.notified + 1 ELSE worker.notified)
        /\ f = (IF out = "delivered" THEN worker.failed ELSE worker.failed + 1)
  BY <1>7
<1>9. worker' = [worker EXCEPT !.pc = "peer", !.out = << >>, !.notified = n, !.failed = f]
  BY <1>6, <1>7, <1>8 DEF WorkerLocals
<1>10. /\ worker' \in WorkerLocals /\ worker'.pc = "peer" /\ worker'.job = w
       /\ worker'.left = worker.left /\ worker'.notified = n /\ worker'.failed = f
  BY <1>2, <1>7, <1>9 DEF WorkerLocals
<1>11. /\ rows' \in [Jobs -> [Agents -> {"none", "pending", "notified", "failed"}]]
       /\ \A k \in Jobs \ {w} : rows'[k] = rows[k]
       /\ \A q \in Agents \ {p} : rows'[w][q] = rows[w][q]
       /\ rows'[w][p] \in {rows[w][p], IF out = "delivered" THEN "notified" ELSE "failed"}
  <2>1. CASE ok
    <3>1. PICK s \in {"notified", "failed"} : s = (IF out = "delivered" THEN "notified" ELSE "failed")
      OBVIOUS
    <3>2. rows' = [rows EXCEPT ![w][p] = s]
      BY <2>1, <3>1, <1>6
    <3>3. s \in {"none", "pending", "notified", "failed"}
      BY <3>1
    <3>4. rows' \in [Jobs -> [Agents -> {"none", "pending", "notified", "failed"}]]
      BY <3>2, <3>3, <1>2, <1>4, <1>7
    <3> QED
      BY <3>1, <3>2, <3>4, <1>2, <1>4, <1>7
  <2>2. CASE ~ok
    BY <2>2, <1>6, <1>7
  <2> QED
    BY <2>1, <2>2
<1>12. TypeOK'
  <2>1. watch' \in [Jobs -> Clients]
    BY <1>1, <1>2, PublishType
  <2>2. faults' \in 0..MaxFaults
    BY <1>1, <1>6, ExecType DEF TypeOK
  <2> QED
    BY <1>1, <1>10, <1>11, <2>1, <2>2 DEF TypeOK
<1>13. \A k \in Jobs \ {w} : Same(k)
  BY <1>1, <1>11 DEF Same
<1>14. QueueInv'
  BY <1>1, <1>2, <1>13, QueueFrame
<1>15. WorkerInv'
  <2>1. told[w] \cap worker.left = {}
        /\ worker.notified + worker.failed + Cardinality(worker.left) + 1 = job[w].total
        /\ (out = "delivered" => p \in told[w] /\ worker.notified + 1 = Cardinality(told[w]))
        /\ (out # "delivered" => worker.notified = Cardinality(told[w]))
    BY <1>2, <1>3, <1>4 DEF AtRecord
  <2>2. n = Cardinality(told[w])
    BY <2>1, <1>8
  <2>3. n + f + Cardinality(worker.left) = job[w].total
    <3>1. CASE out = "delivered"
      BY <3>1, <2>1, <1>7, <1>8
    <3>2. CASE out # "delivered"
      BY <3>2, <2>1, <1>7, <1>8
    <3> QED
      BY <3>1, <3>2
  <2>4. AtPeer'
    BY <2>1, <2>2, <2>3, <1>1, <1>2, <1>10 DEF AtPeer
  <2> QED
    BY <2>4, <1>1, <1>2, <1>10 DEF WorkerInv
<1>16. JobInv(w)'
  <2>1. PhaseInv(w)' /\ StartInv(w)' /\ FanOutInv(w)' /\ Covered(w)'
    BY <1>1, <1>2 DEF JobInv, PhaseInv, StartInv, FanOutInv, Covered
  <2>2. out = "delivered" => p \in told[w]
    BY <1>2, <1>3, <1>4 DEF AtRecord
  <2>3. \A q \in Agents : rows'[w][q] = "notified" => q \in told[w]
    <3> TAKE q \in Agents
    <3>1. CASE q = p
      BY <3>1, <2>2, <1>2, <1>11 DEF JobInv, Truthful
    <3>2. CASE q # p
      BY <3>2, <1>2, <1>11 DEF JobInv, Truthful
    <3> QED
      BY <3>1, <3>2
  <2>4. Truthful(w)'
    BY <2>3, <1>1, <1>2 DEF Truthful
  <2> QED
    BY <2>1, <2>4 DEF JobInv
<1>17. \A k \in Jobs : JobInv(k)'
  BY <1>1, <1>13, <1>16, JobFrame DEF IInv, Grow
<1> QED
  BY <1>12, <1>14, <1>15, <1>17 DEF IInv

(***************************************************************************)
(* The client and the shutdown touch neither a job nor the worker          *)
(***************************************************************************)

(* Clients and the shutdown flags are not in the invariant.                *)
LEMMA BystandersKeep ==
  ASSUME IInv, UNCHANGED <<job, rows, req, queue, worker, fanout, faults, told, cut, unwritten>>,
         watch' \in [Jobs -> Clients],
         server' \in [canceled : BOOLEAN, closed : BOOLEAN, db : BOOLEAN, gaveUp : BOOLEAN]
  PROVE  IInv'
<1>1. TypeOK'
  BY DEF IInv, TypeOK
<1>2. QueueInv'
  BY DEF IInv, QueueInv, Waiting, Listed
<1>3. WorkerInv'
  <2>1. AtLoad => AtLoad'
    BY DEF AtLoad, Waiting, Listed
  <2>2. AtPeer => AtPeer'
    BY DEF AtPeer
  <2>3. AtRecord => AtRecord'
    BY DEF AtRecord
  <2> QED
    BY <2>1, <2>2, <2>3 DEF IInv, WorkerInv, Busy
<1>4. \A k \in Jobs : JobInv(k)'
  BY JobsUntouched
<1> QED
  BY <1>1, <1>2, <1>3, <1>4 DEF IInv

(* What clients watch keeps the invariant.                                 *)
LEMMA WatchKeeps ==
  ASSUME IInv, NEW j \in Watched, Watch(j) \/ StreamEvent(j)
  PROVE  IInv'
<1>1. /\ j \in Jobs /\ TypeOK
      /\ UNCHANGED <<job, rows, req, queue, worker, fanout, server, faults, told, cut, unwritten>>
  BY PushAssumption DEF Watch, StreamEvent, IInv, Jobs
<1>2. watch \in [Jobs -> Clients] /\ watch[j] \in Clients
      /\ server' \in [canceled : BOOLEAN, closed : BOOLEAN, db : BOOLEAN, gaveUp : BOOLEAN]
  BY <1>1 DEF TypeOK
<1>3. CASE Watch(j)
  <2>1. PICK l \in BOOLEAN : l = (Terminal(j) \/ j \in unwritten)
    BY DEF Terminal
  <2>2. watch' = [watch EXCEPT ![j].state = "open", ![j].late = l]
    BY <1>3, <2>1 DEF Watch
  <2>3. watch' \in [Jobs -> Clients]
    BY <1>2, <2>2 DEF Clients
  <2> QED
    BY <1>1, <1>2, <2>3, BystandersKeep
<1>4. CASE StreamEvent(j)
  <2>1. PICK tail \in Seq({"progress", "complete"}), s \in {"no", "open", "ended"} :
          /\ tail = Tail(watch[j].chan)
          /\ s = (IF Head(watch[j].chan) = "complete" THEN "ended" ELSE watch[j].state)
    <3>1. watch[j].chan \in Seq({"progress", "complete"}) /\ watch[j].chan # << >>
          /\ watch[j].state \in {"no", "open", "ended"}
      BY <1>2, <1>4 DEF StreamEvent, Clients
    <3>2. Tail(watch[j].chan) \in Seq({"progress", "complete"})
      BY <3>1
    <3>3. (IF Head(watch[j].chan) = "complete" THEN "ended" ELSE watch[j].state) \in {"no", "open", "ended"}
      BY <3>1
    <3> QED
      BY <3>2, <3>3
  <2>2. watch' = [watch EXCEPT ![j].chan = tail, ![j].state = s]
    BY <1>1, <1>2, <1>4, <2>1 DEF StreamEvent, Clients
  <2>3. watch' \in [Jobs -> Clients]
    BY <1>2, <2>2 DEF Clients
  <2> QED
    BY <1>1, <1>2, <2>3, BystandersKeep
<1> QED
  BY <1>3, <1>4

(* The shutdown keeps the invariant.                                       *)
LEMMA ShutdownKeeps ==
  ASSUME IInv, Cancel \/ StopCloses \/ CloseDatabase
  PROVE  IInv'
<1>1. UNCHANGED <<job, rows, req, queue, worker, fanout, watch, faults, told, cut, unwritten>>
  BY DEF Cancel, StopCloses, CloseDatabase
<1>2. /\ watch' \in [Jobs -> Clients]
      /\ server' \in [canceled : BOOLEAN, closed : BOOLEAN, db : BOOLEAN, gaveUp : BOOLEAN]
  <2>1. /\ watch' \in [Jobs -> Clients]
        /\ server \in [canceled : BOOLEAN, closed : BOOLEAN, db : BOOLEAN, gaveUp : BOOLEAN]
    BY <1>1 DEF IInv, TypeOK
  <2>2. CASE Cancel
    BY <2>1, <2>2 DEF Cancel
  <2>3. CASE StopCloses
    BY <2>1, <2>3 DEF StopCloses
  <2>4. CASE CloseDatabase
    BY <2>1, <2>4 DEF CloseDatabase
  <2> QED
    BY <2>1, <2>2, <2>3, <2>4
<1> QED
  BY <1>1, <1>2, BystandersKeep

(***************************************************************************)
(* The invariant                                                           *)
(***************************************************************************)

(* The system starts in the invariant.                                     *)
LEMMA InitIInv ==
  ASSUME Init
  PROVE  IInv
<1>1. PICK r \in Requests :
        /\ req = [j \in Jobs |-> IF j \in DOMAIN r THEN "none" ELSE "never"]
        /\ fanout = [j \in Jobs |-> [left |-> IF j \in DOMAIN r THEN r[j] ELSE {}, sent |-> 0,
                                     failed |-> 0, skipped |-> {}, deadline |-> FALSE]]
  BY DEF Init
<1>2. \A j \in Jobs : (IF j \in DOMAIN r THEN r[j] ELSE {}) \in SUBSET Agents
  BY PushAssumption
<1>3. fanout \in [Jobs -> FanOutLocals]
  BY <1>1, <1>2 DEF FanOutLocals
<1>4. job \in [Jobs -> JobRows] /\ watch \in [Jobs -> Clients]
  BY DEF Init, JobRows, Clients
<1>5. worker \in WorkerLocals /\ worker.pc = "select"
  <2>1. worker = [pc |-> "select", job |-> "none", left |-> {}, out |-> << >>,
                  notified |-> 0, failed |-> 0, timeout |-> FALSE, drain |-> FALSE]
    BY DEF Init, Idle
  <2>2. PICK n \in PushJobs \cup {"none"} : n = "none"
    OBVIOUS
  <2>3. PICK pc \in {"select", "load", "unloaded", "peer", "record", "exiting", "done"} : pc = "select"
    OBVIOUS
  <2>4. [pc |-> pc, job |-> n, left |-> {}, out |-> << >>,
         notified |-> 0, failed |-> 0, timeout |-> FALSE, drain |-> FALSE] \in WorkerLocals
    BY DEF WorkerLocals
  <2>5. worker = [pc |-> pc, job |-> n, left |-> {}, out |-> << >>,
                  notified |-> 0, failed |-> 0, timeout |-> FALSE, drain |-> FALSE]
    BY <2>1, <2>2, <2>3
  <2>6. worker.pc = "select"
    BY <2>1
  <2> QED
    BY <2>4, <2>5, <2>6
<1>6. queue \in Seq(PushJobs) /\ Len(queue) = 0 /\ Len(queue) <= QueueSize
  BY PushAssumption DEF Init
<1>7. TypeOK
  BY <1>1, <1>3, <1>4, <1>5, <1>6, PushAssumption DEF Init, TypeOK
<1>8. QueueInv
  BY <1>6 DEF QueueInv
<1>9. WorkerInv
  BY <1>5 DEF WorkerInv, Busy
<1>10. ASSUME NEW j \in Jobs
       PROVE  JobInv(j)
  <2>1. /\ req[j] \in {"never", "none"} /\ job[j].status = "none" /\ told[j] = {}
        /\ \A p \in Agents : rows[j][p] = "none"
        /\ fanout[j].sent = 0 /\ fanout[j].failed = 0 /\ fanout[j].skipped = {}
    BY <1>1 DEF Init
  <2> QED
    BY <2>1 DEF JobInv, PhaseInv, StartInv, FanOutInv, Truthful, Covered
<1> QED
  BY <1>7, <1>8, <1>9, <1>10 DEF IInv

(* Every step keeps the invariant.                                         *)
LEMMA NextIInv ==
  ASSUME IInv, [Next]_vars
  PROVE  IInv'
<1>1. CASE WorkerNext
  BY <1>1, TakeJobKeeps, WorkerMovesKeeps, MarkFailedKeeps, LoadJobKeeps, AbortKeeps,
     PushPeerKeeps, RecordPeerKeeps, FinishJobKeeps DEF WorkerNext
<1>2. CASE JobTimeout
  BY <1>2, WorkerMovesKeeps
<1>3. CASE \E j \in Jobs : CreatePushJob(j) \/ CreatePushJobPeers(j) \/ CloseRefused(j)
  BY <1>3, CreatePushJobKeeps, CreatePushJobPeersKeeps, CloseRefusedKeeps
<1>4. CASE \E j \in PushJobs : Enqueue(j)
  BY <1>4, EnqueueKeeps
<1>5. CASE \E j \in Watched : Watch(j) \/ StreamEvent(j)
  BY <1>5, WatchKeeps
<1>6. CASE \E j \in UpdateJobs : FanOutPeer(j) \/ HandlerDeadline(j) \/ CancelUnreached(j)
                                 \/ EndFanOut(j) \/ FinalizeUpdate(j)
  BY <1>6, FanOutPeerKeeps, HandlerDeadlineKeeps, CancelUnreachedKeeps, EndFanOutKeeps,
     FinalizeUpdateKeeps
<1>7. CASE Cancel \/ StopCloses \/ CloseDatabase
  BY <1>7, ShutdownKeeps
<1>8. CASE UNCHANGED vars
  <2>1. UNCHANGED <<job, rows, req, queue, worker, fanout, watch, server, faults, told, cut, unwritten>>
    BY <1>8 DEF vars
  <2> QED
    BY <2>1, BystandersKeep DEF IInv, TypeOK
<1> QED
  BY <1>1, <1>2, <1>3, <1>4, <1>5, <1>6, <1>7, <1>8 DEF Next

(* The rows, the queue and the locals of handlers and worker are always of *)
(* the declared types.                                                     *)
THEOREM TypeCorrect == Spec => []TypeOK
<1>1. IInv => TypeOK
  BY DEF IInv
<1> QED
  BY InitIInv, NextIInv, <1>1, PTL DEF Spec

(* The audit of a push or an update says what happened, whatever fails:    *)
(* the successes of a finished job are the agents that were told, its      *)
(* status and its counts agree, and they cover all peers unless the job    *)
(* was cut short.                                                          *)
THEOREM AuditIsTruthful == Spec => []AuditTruthful
<1>1. IInv => AuditTruthful
  BY DEF IInv, JobInv, Truthful, AuditTruthful
<1> QED
  BY InitIInv, NextIInv, <1>1, PTL DEF Spec

(* An update of all agents accounts for every agent, its deadline passed   *)
(* or not.                                                                 *)
THEOREM UpdateAccountsForAll == Spec => []UpdateCoversAll
<1>1. IInv => UpdateCoversAll
  BY DEF IInv, JobInv, Covered, UpdateCoversAll, Jobs
<1> QED
  BY InitIInv, NextIInv, <1>1, PTL DEF Spec

(* Whoever writes the row of a job owns it, and the job is not over.       *)
LEMMA WriterOwns ==
  ASSUME IInv, [Next]_vars, NEW j \in Jobs, Terminal(j)
  PROVE  job'[j] = job[j]
<1>1. /\ req[j] \notin {"never", "none", "created", "listed", "fanout", "finalize", "refused"}
      /\ job[j].status \notin {"pending", "running"}
  BY DEF IInv, JobInv, PhaseInv, Terminal, Finished
<1>2. Busy => worker.job \in Jobs /\ worker.job # j
  BY <1>1, WorkersJob
<1>3. TypeOK /\ job \in [Jobs -> JobRows]
  BY DEF IInv, TypeOK
<1>4. ASSUME NEW k \in Jobs, CreatePushJob(k) \/ CloseRefused(k) \/ FinalizeUpdate(k)
      PROVE  job'[j] = job[j]
  <2>1. k # j
    BY <1>1, <1>4 DEF CreatePushJob, CloseRefused, FinalizeUpdate
  <2> QED
    BY <2>1, <1>3, <1>4 DEF CreatePushJob, CloseRefused, FinalizeUpdate, Finalize, Finalized
<1>5. CASE MarkFailed \/ LoadJob \/ Abort \/ FinishJob
  <2>1. Busy
    BY <1>5 DEF MarkFailed, LoadJob, Abort, FinishJob, Busy
  <2> QED
    BY <2>1, <1>2, <1>3, <1>5 DEF MarkFailed, LoadJob, Abort, FinishJob, Finalize, Finalized
<1>6. CASE UNCHANGED job
  BY <1>6
<1>7. \/ \E k \in Jobs : CreatePushJob(k) \/ CloseRefused(k) \/ FinalizeUpdate(k)
      \/ MarkFailed \/ LoadJob \/ Abort \/ FinishJob
      \/ UNCHANGED job
  BY DEF Next, vars, WorkerNext, TakeJob, ObserveCancel, Return, CloseDone, LoadFails, PushPeer,
         RecordPeer, JobTimeout, CreatePushJobPeers, Enqueue, Watch, StreamEvent, FanOutPeer,
         HandlerDeadline, CancelUnreached, EndFanOut, Cancel, StopCloses, CloseDatabase, Jobs
<1> QED
  BY <1>4, <1>5, <1>6, <1>7

(* A job that is over stays over: no handler closes a job that the worker  *)
(* has in its queue, and the worker takes no job that was closed.          *)
THEOREM StaysOver == Spec => OverIsOver
<1>1. IInv /\ [Next]_vars => [\A j \in Jobs : Terminal(j) => job'[j] = job[j]]_vars
  BY WriterOwns
<1> QED
  BY InitIInv, NextIInv, <1>1, PTL DEF Spec, OverIsOver
=============================================================================
