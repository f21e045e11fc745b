-------------------------------- MODULE Push --------------------------------
(***************************************************************************)
(* Push jobs: the rows of push_jobs and push_job_peers, the handlers that  *)
(* create them (PushAllRules, PushCurrentRules, UpdateAllAgents), the push *)
(* worker's queue and goroutine (internal/api/common/pushworker.go), the   *)
(* browser that follows a job over SSE and the shutdown of the server.     *)
(*                                                                         *)
(* A job stands for the request that creates it.  Compiling a bundle and   *)
(* notifying an agent are reduced to their outcome: Compiler and SSEHub    *)
(* model them, Alerts the alerts that are triggered.  A statement on the   *)
(* database may fail (busy, closed), at most MaxFaults times while it is   *)
(* open.                                                                   *)
(***************************************************************************)
EXTENDS Integers, Sequences, FiniteSets

CONSTANTS
  PushJobs,     \* jobs of PushAllRules and PushCurrentRules
  UpdateJobs,   \* jobs of UpdateAllAgents (the "agent_" job IDs)
  Agents,       \* agent-based peers
  QueueSize,    \* capacity of workCh (DefaultPushWorkerQueueSize)
  WatchBuffer,  \* capacity of a push job client's channel
  MaxFaults,    \* bound: failing statements
  Requests,     \* bound: what one behaviour asks for, the peers of each of its jobs
  Watched       \* bound: the jobs that a browser may follow

ASSUME PushAssumption ==
  /\ PushJobs \cap UpdateJobs = {} /\ Watched \subseteq PushJobs /\ IsFiniteSet(Agents)
  /\ \A r \in Requests : DOMAIN r \subseteq PushJobs \cup UpdateJobs
  /\ \A r \in Requests : \A j \in DOMAIN r : r[j] \subseteq Agents /\ r[j] # {}
  /\ QueueSize \in Nat \ {0} /\ WatchBuffer \in Nat \ {0} /\ MaxFaults \in Nat

Jobs == PushJobs \cup UpdateJobs

VARIABLES
  job,        \* push_jobs: status, total_peers and the two counts of a job
  rows,       \* push_job_peers: status of a peer's row, "none" without one
  req,        \* where the request that creates the job stands
  queue,      \* workCh
  worker,     \* the goroutine of Start and the locals of processJob
  fanout,     \* the peers a request is for, and the other locals of UpdateAllAgents
  watch,      \* the client of HandlePushJobSSE that follows a job
  server,     \* shutdown: ctx canceled, workCh closed, Stop returned, database closed
  faults,     \* statements that have failed
  told,       \* history: agents that were sent an event on behalf of the job
  cut,        \* history: jobs whose loop ended early, its context being done
  unwritten   \* history: jobs whose last status write failed

vars == <<job, rows, req, queue, worker, fanout, watch, server, faults, told, cut, unwritten>>

Finished == {"completed", "completed_with_errors", "failed"}
Terminal(j) == job[j].status \in Finished

\* Peers are taken in the order of their rows.
First(ps) == CHOOSE p \in ps : TRUE

Idle == [pc |-> "select", job |-> "none", left |-> {}, out |-> << >>,
         notified |-> 0, failed |-> 0, timeout |-> FALSE, drain |-> FALSE]

\* Outcomes of one peer of a push: CompileAndStore fails, the hub does not
\* deliver the event, or it does.
PushOutcomes == {"compile_failed", "not_delivered", "delivered"}

JobRows == [status : Finished \cup {"none", "pending", "running"},
            total : Nat, succeeded : Nat, failed : Nat]

WorkerLocals == [pc : {"select", "load", "unloaded", "peer", "record", "exiting", "done"},
                 job : PushJobs \cup {"none"}, left : SUBSET Agents,
                 out : {<< >>} \cup (Agents \X PushOutcomes),
                 notified : Nat, failed : Nat, timeout : BOOLEAN, drain : BOOLEAN]

FanOutLocals == [left : SUBSET Agents, sent : Nat, failed : Nat,
                 skipped : SUBSET Agents, deadline : BOOLEAN]

Clients == [state : {"no", "open", "ended"}, chan : Seq({"progress", "complete"}),
            dropped : BOOLEAN, late : BOOLEAN]

TypeOK ==
  /\ job \in [Jobs -> JobRows]
  /\ rows \in [Jobs -> [Agents -> {"none", "pending", "notified", "failed"}]]
  /\ req \in [Jobs -> {"never", "none", "created", "listed", "fanout", "finalize", "acked", "refused", "error"}]
  /\ queue \in Seq(PushJobs) /\ Len(queue) <= QueueSize
  /\ worker \in WorkerLocals
  /\ fanout \in [Jobs -> FanOutLocals]
  /\ watch \in [Jobs -> Clients]
  /\ server \in [canceled : BOOLEAN, closed : BOOLEAN, db : BOOLEAN, gaveUp : BOOLEAN]
  /\ faults \in 0..MaxFaults
  /\ told \in [Jobs -> SUBSET Agents]
  /\ cut \subseteq Jobs /\ unwritten \subseteq Jobs

(***************************************************************************)
(* Statements.  A write made with a live context takes effect unless the   *)
(* database fails it; a context that is done or a closed database always   *)
(* fails it.                                                               *)
(***************************************************************************)

\* How a statement ends: ok, or failed at the cost of one fault.
Exec(live, ok) ==
  \/ ok /\ live /\ server.db /\ UNCHANGED faults
  \/ ~ok /\ ~(live /\ server.db) /\ UNCHANGED faults
  \/ ~ok /\ live /\ server.db /\ faults < MaxFaults /\ faults' = faults + 1

FinalStatus(failed) == IF failed > 0 THEN "completed_with_errors" ELSE "completed"

\* Mutant: the status is written by FinalizePushJob, from the count in the row.
FinalizedStale(j, succeeded, failed) ==
  [job EXCEPT ![j].status = FinalStatus(job[j].failed), ![j].succeeded = succeeded, ![j].failed = failed]

\* FinalizePushJobWithCounts: the final status and both counts in one UPDATE.
Finalized(j, succeeded, failed) ==
  [job EXCEPT ![j].status = FinalStatus(failed), ![j].succeeded = succeeded, ![j].failed = failed]

\* The last write of a job, and whether it was lost.
Finalize(j, succeeded, failed, live) ==
  \E ok \in BOOLEAN :
    /\ Exec(live, ok)
    /\ job' = IF ok THEN Finalized(j, succeeded, failed) ELSE job
    /\ unwritten' = IF ok THEN unwritten ELSE unwritten \cup {j}

(***************************************************************************)
(* The handlers that create a job                                          *)
(***************************************************************************)

\* CreatePushJob, for all agents, or for one of them.  The request's context
\* may be past its deadline at any statement: that too is a fault.
CreatePushJob(j) ==
  /\ req[j] = "none" /\ server.db
  /\ \E ok \in BOOLEAN :
       /\ Exec(TRUE, ok)
       /\ job' = IF ok THEN [job EXCEPT ![j].status = "pending", ![j].total = Cardinality(fanout[j].left)]
                 ELSE job
       /\ req' = [req EXCEPT ![j] = IF ok THEN "created" ELSE "error"]
  /\ UNCHANGED <<rows, queue, worker, fanout, watch, server, told, cut, unwritten>>

\* CreatePushJobPeers, in one transaction; when it fails the job is closed.
CreatePushJobPeers(j) ==
  /\ req[j] = "created"
  /\ \/ /\ Exec(TRUE, TRUE)
        /\ rows' = [rows EXCEPT ![j] = [p \in Agents |-> IF p \in fanout[j].left THEN "pending" ELSE "none"]]
        /\ req' = [req EXCEPT ![j] = IF j \in PushJobs THEN "listed" ELSE "fanout"]
     \/ /\ Exec(TRUE, FALSE)
        /\ req' = [req EXCEPT ![j] = "refused"]
        /\ UNCHANGED rows
  /\ UNCHANGED <<job, queue, worker, fanout, watch, server, told, cut, unwritten>>

\* Enqueue: refused once Stop has closed the queue or the goroutine is gone,
\* and when the queue is full.  The queue as it is afterwards.
Enqueued(j) ==
  IF server.closed \/ worker.pc = "done" \/ Len(queue) = QueueSize THEN queue ELSE Append(queue, j)

\* Mutant: a queue that has just become full is reported as an error.
AcceptedUnlessFull(j) == Len(Enqueued(j)) < QueueSize

\* The answer of Enqueue: an error for everything but a successful send.
Accepted(j) == Enqueued(j) # queue

\* The handler's call of Enqueue and its answer, 202 or 503.
Enqueue(j) ==
  /\ req[j] = "listed"
  /\ queue' = Enqueued(j)
  /\ req' = [req EXCEPT ![j] = IF Accepted(j) THEN "acked" ELSE "refused"]
  /\ UNCHANGED <<job, rows, worker, fanout, watch, server, faults, told, cut, unwritten>>

\* A job that was not listed or not queued is closed with every peer failed.
CloseRefused(j) ==
  /\ req[j] = "refused"
  /\ Finalize(j, 0, job[j].total, TRUE)
  /\ req' = [req EXCEPT ![j] = "error"]
  /\ UNCHANGED <<rows, queue, worker, fanout, watch, server, told, cut>>

(***************************************************************************)
(* UpdateAllAgents: the fan-out runs in the handler, against its deadline  *)
(***************************************************************************)

\* Outcomes of one peer: up to date, bad arch or URL, and those of
\* NotifyUpdateAgent.
UpdateOutcomes == {"skipped", "failed_validation", "sent", "channel_full", "not_connected"}

\* recordUpdateAllPeerOutcome: the row's status for an outcome.
RowStatus(out) ==
  CASE out = "sent"    -> "notified"
    [] out = "skipped" -> "pending"
    [] OTHER           -> "failed"

\* Write the outcome of a peer, on the audit context.
RecordOutcome(j, p, out) ==
  \E ok \in BOOLEAN :
    /\ Exec(TRUE, ok)
    /\ rows' = IF ok THEN [rows EXCEPT ![j][p] = RowStatus(out)] ELSE rows
    /\ unwritten' = IF ok THEN unwritten ELSE unwritten \cup {j}

\* One turn of the loop: the deadline has not passed when it starts.
FanOutPeer(j) ==
  /\ req[j] = "fanout" /\ ~fanout[j].deadline
  /\ fanout[j].left # {}
  /\ \E out \in UpdateOutcomes : LET p == First(fanout[j].left) IN
       /\ RecordOutcome(j, p, out)
       /\ fanout' = [fanout EXCEPT ![j].left = @ \ {p},
                                   ![j].sent = IF out = "sent" THEN @ + 1 ELSE @,
                                   ![j].failed = IF out \in {"sent", "skipped"} THEN @ ELSE @ + 1,
                                   ![j].skipped = IF out = "skipped" THEN @ \cup {p} ELSE @]
       /\ told' = IF out = "sent" THEN [told EXCEPT ![j] = @ \cup {p}] ELSE told
  /\ UNCHANGED <<job, req, queue, worker, watch, server, cut>>

\* The handler's five seconds are over.
HandlerDeadline(j) ==
  /\ req[j] = "fanout" /\ ~fanout[j].deadline
  /\ fanout' = [fanout EXCEPT ![j].deadline = TRUE]
  /\ UNCHANGED <<job, rows, req, queue, worker, watch, server, faults, told, cut, unwritten>>

\* Mutant: they stay pending on a job that is over.
LeaveUnreached(j) ==
  /\ req[j] = "fanout" /\ fanout[j].deadline /\ fanout[j].left # {}
  /\ fanout' = [fanout EXCEPT ![j].left = {}]
  /\ UNCHANGED <<job, rows, req, queue, worker, watch, server, faults, told, cut, unwritten>>

\* A peer that was not reached in time becomes canceled, and counts as failed.
CancelUnreached(j) ==
  /\ req[j] = "fanout" /\ fanout[j].deadline /\ fanout[j].left # {}
  /\ LET p == First(fanout[j].left) IN
       /\ RecordOutcome(j, p, "canceled")
       /\ fanout' = [fanout EXCEPT ![j].left = @ \ {p}, ![j].failed = @ + 1]
  /\ UNCHANGED <<job, req, queue, worker, watch, server, told, cut>>

EndFanOut(j) ==
  /\ req[j] = "fanout" /\ fanout[j].left = {}
  /\ req' = [req EXCEPT ![j] = "finalize"]
  /\ UNCHANGED <<job, rows, queue, worker, fanout, watch, server, faults, told, cut, unwritten>>

FinalizeUpdate(j) ==
  /\ req[j] = "finalize"
  /\ Finalize(j, fanout[j].sent, fanout[j].failed, TRUE)
  /\ req' = [req EXCEPT ![j] = "acked"]
  /\ UNCHANGED <<rows, queue, worker, fanout, watch, server, told, cut>>

(***************************************************************************)
(* The worker                                                              *)
(***************************************************************************)

\* jobCtx: five minutes, and the server's context except while draining.
ContextDone == worker.timeout \/ (server.canceled /\ ~worker.drain)

\* NotifyPushJobProgress: a non-blocking send; an event that does not fit is
\* dropped.
Publish(j, event) ==
  watch' = IF watch[j].state # "open" THEN watch
           ELSE IF Len(watch[j].chan) < WatchBuffer THEN [watch EXCEPT ![j].chan = Append(@, event)]
           ELSE [watch EXCEPT ![j].dropped = TRUE]

\* The select of the goroutine: a job and the end of ctx are both taken when
\* both are there, and from then on the loop only drains.
TakeJob ==
  /\ worker.pc = "select" /\ queue # << >>
  /\ worker' = [Idle EXCEPT !.pc = "load", !.job = Head(queue), !.drain = worker.drain]
  /\ queue' = Tail(queue)
  /\ UNCHANGED <<job, rows, req, fanout, watch, server, faults, told, cut, unwritten>>

ObserveCancel ==
  /\ worker.pc = "select" /\ server.canceled /\ ~worker.drain
  /\ worker' = [worker EXCEPT !.drain = TRUE]
  /\ UNCHANGED <<job, rows, req, queue, fanout, watch, server, faults, told, cut, unwritten>>

\* Mutant: a canceled worker returns without draining.
ReturnAtOnce ==
  /\ worker.pc = "select" /\ (worker.drain \/ (server.closed /\ queue = << >>))
  /\ worker' = [worker EXCEPT !.pc = "exiting"]
  /\ UNCHANGED <<job, rows, req, queue, fanout, watch, server, faults, told, cut, unwritten>>

\* The queue is closed and empty, or empty while draining: the goroutine
\* returns, and then closes done.
Return ==
  /\ worker.pc = "select" /\ queue = << >> /\ (server.closed \/ worker.drain)
  /\ worker' = [worker EXCEPT !.pc = "exiting"]
  /\ UNCHANGED <<job, rows, req, queue, fanout, watch, server, faults, told, cut, unwritten>>

CloseDone ==
  /\ worker.pc = "exiting"
  /\ worker' = [worker EXCEPT !.pc = "done"]
  /\ UNCHANGED <<job, rows, req, queue, fanout, watch, server, faults, told, cut, unwritten>>

\* processJob: a job that cannot be loaded is marked failed, on a detached
\* context.
LoadFails ==
  /\ worker.pc = "load"
  /\ Exec(~ContextDone, FALSE)
  /\ worker' = [worker EXCEPT !.pc = "unloaded"]
  /\ UNCHANGED <<job, rows, req, queue, fanout, watch, server, told, cut, unwritten>>

MarkFailed ==
  /\ worker.pc = "unloaded"
  /\ \E ok \in BOOLEAN :
       /\ Exec(TRUE, ok)
       /\ job' = IF ok THEN [job EXCEPT ![worker.job].status = "failed"] ELSE job
       /\ unwritten' = IF ok THEN unwritten ELSE unwritten \cup {worker.job}
  /\ Publish(worker.job, "complete")
  /\ worker' = [Idle EXCEPT !.drain = worker.drain]
  /\ UNCHANGED <<rows, req, queue, fanout, server, told, cut>>

\* Loaded: the job is running, should that write succeed, and its peers are
\* the ones that have a row.
LoadJob ==
  /\ worker.pc = "load" /\ ~ContextDone /\ server.db
  /\ \E ok \in BOOLEAN :
       /\ Exec(TRUE, ok)
       /\ job' = IF ok THEN [job EXCEPT ![worker.job].status = "running"] ELSE job
  /\ worker' = [worker EXCEPT !.pc = "peer",
                              !.left = {p \in Agents : rows[worker.job][p] # "none"}]
  /\ UNCHANGED <<rows, req, queue, fanout, watch, server, told, cut, unwritten>>

\* The context is done between two peers: the counts so far are final, and
\* no "complete" event is sent.
Abort ==
  /\ worker.pc = "peer" /\ worker.left # {} /\ ContextDone
  /\ Finalize(worker.job, worker.notified, worker.failed, TRUE)
  /\ cut' = cut \cup {worker.job}
  /\ worker' = [Idle EXCEPT !.drain = worker.drain]
  /\ UNCHANGED <<rows, req, queue, fanout, watch, server, told>>

\* Compile and notify one peer.  Neither succeeds or fails with the context
\* alone: it may end right after the check.
PushPeer ==
  /\ worker.pc = "peer" /\ worker.left # {} /\ ~ContextDone
  /\ \E out \in PushOutcomes : LET p == First(worker.left) IN
       /\ worker' = [worker EXCEPT !.pc = "record", !.left = @ \ {p}, !.out = <<p, out>>]
       /\ told' = IF out = "delivered" THEN [told EXCEPT ![worker.job] = @ \cup {p}] ELSE told
  /\ Publish(worker.job, "progress")
  /\ UNCHANGED <<job, rows, req, queue, fanout, server, faults, cut, unwritten>>

\* Record the outcome in the peer's row, which fails once the context is done.
RecordPeer ==
  /\ worker.pc = "record"
  /\ LET p == worker.out[1]
         out == worker.out[2]
     IN \E ok \in BOOLEAN :
          /\ Exec(~ContextDone, ok)
          /\ rows' = IF ok THEN [rows EXCEPT ![worker.job][p] = IF out = "delivered" THEN "notified" ELSE "failed"]
                     ELSE rows
          /\ worker' = [worker EXCEPT !.pc = "peer", !.out = << >>,
                                      !.notified = IF out = "delivered" THEN @ + 1 ELSE @,
                                      !.failed = IF out = "delivered" THEN @ ELSE @ + 1]
  /\ Publish(worker.job, "progress")
  /\ UNCHANGED <<job, req, queue, fanout, server, told, cut, unwritten>>

\* Mutant: the end of a job is only published when something failed.
FinishQuietly ==
  /\ worker.pc = "peer" /\ worker.left = {}
  /\ Finalize(worker.job, worker.notified, worker.failed, TRUE)
  /\ IF worker.failed > 0 THEN Publish(worker.job, "complete") ELSE UNCHANGED watch
  /\ worker' = [Idle EXCEPT !.drain = worker.drain]
  /\ UNCHANGED <<rows, req, queue, fanout, server, told, cut>>

\* All peers done: the final write, on a detached context, and the event.
FinishJob ==
  /\ worker.pc = "peer" /\ worker.left = {}
  /\ Finalize(worker.job, worker.notified, worker.failed, TRUE)
  /\ Publish(worker.job, "complete")
  /\ worker' = [Idle EXCEPT !.drain = worker.drain]
  /\ UNCHANGED <<rows, req, queue, fanout, server, told, cut>>

JobTimeout ==
  /\ worker.pc \in {"load", "peer", "record"} /\ ~worker.timeout
  /\ worker' = [worker EXCEPT !.timeout = TRUE]
  /\ UNCHANGED <<job, rows, req, queue, fanout, watch, server, faults, told, cut, unwritten>>

(***************************************************************************)
(* HandlePushJobSSE                                                        *)
(***************************************************************************)

\* Register the client and send the job's state; late: the job was over, or
\* the worker was past its last event, before.
Watch(j) ==
  /\ watch[j].state = "no" /\ job[j].status # "none"
  /\ watch' = [watch EXCEPT ![j].state = "open", ![j].late = Terminal(j) \/ j \in unwritten]
  /\ UNCHANGED <<job, rows, req, queue, worker, fanout, server, faults, told, cut, unwritten>>

\* streamSSEEvents: forward one event; "complete" ends the stream.
StreamEvent(j) ==
  /\ watch[j].state = "open" /\ watch[j].chan # << >>
  /\ watch' = [watch EXCEPT ![j].chan = Tail(@),
                            ![j].state = IF Head(watch[j].chan) = "complete" THEN "ended" ELSE @]
  /\ UNCHANGED <<job, rows, req, queue, worker, fanout, server, faults, told, cut, unwritten>>

(***************************************************************************)
(* Shutdown: main cancels the context, the HTTP server shuts down, Stop    *)
(* closes the queue and waits for done or thirty seconds, the database is  *)
(* closed                                                                  *)
(***************************************************************************)

Cancel ==
  /\ ~server.canceled
  /\ server' = [server EXCEPT !.canceled = TRUE]
  /\ UNCHANGED <<job, rows, req, queue, worker, fanout, watch, faults, told, cut, unwritten>>

StopCloses ==
  /\ server.canceled /\ ~server.closed
  /\ server' = [server EXCEPT !.closed = TRUE]
  /\ UNCHANGED <<job, rows, req, queue, worker, fanout, watch, faults, told, cut, unwritten>>

CloseDatabase ==
  /\ server.closed /\ server.db
  /\ server' = [server EXCEPT !.db = FALSE, !.gaveUp = worker.pc # "done"]
  /\ UNCHANGED <<job, rows, req, queue, worker, fanout, watch, faults, told, cut, unwritten>>

Init ==
  /\ job = [j \in Jobs |-> [status |-> "none", total |-> 0, succeeded |-> 0, failed |-> 0]]
  /\ rows = [j \in Jobs |-> [p \in Agents |-> "none"]]
  /\ \E r \in Requests :
       /\ req = [j \in Jobs |-> IF j \in DOMAIN r THEN "none" ELSE "never"]
       /\ fanout = [j \in Jobs |-> [left |-> IF j \in DOMAIN r THEN r[j] ELSE {}, sent |-> 0,
                                    failed |-> 0, skipped |-> {}, deadline |-> FALSE]]
  /\ queue = << >>
  /\ worker = Idle
  /\ watch = [j \in Jobs |-> [state |-> "no", chan |-> << >>, dropped |-> FALSE, late |-> FALSE]]
  /\ server = [canceled |-> FALSE, closed |-> FALSE, db |-> TRUE, gaveUp |-> FALSE]
  /\ faults = 0
  /\ told = [j \in Jobs |-> {}]
  /\ cut = {} /\ unwritten = {}

WorkerNext ==
  \/ TakeJob \/ ObserveCancel \/ Return \/ CloseDone
  \/ LoadFails \/ MarkFailed \/ LoadJob \/ Abort \/ PushPeer \/ RecordPeer \/ FinishJob

Next ==
  \/ WorkerNext \/ JobTimeout
  \/ \E j \in Jobs : CreatePushJob(j) \/ CreatePushJobPeers(j) \/ CloseRefused(j)
  \/ \E j \in PushJobs : Enqueue(j)
  \/ \E j \in Watched : Watch(j) \/ StreamEvent(j)
  \/ \E j \in UpdateJobs : FanOutPeer(j) \/ HandlerDeadline(j) \/ CancelUnreached(j) \/ EndFanOut(j)
                            \/ FinalizeUpdate(j)
  \/ Cancel \/ StopCloses \/ CloseDatabase

\* The worker's goroutine and an open stream are always scheduled; nothing is
\* assumed of the requests, the timeouts and the shutdown.
Spec == Init /\ [][Next]_vars /\ WF_vars(WorkerNext)
             /\ \A j \in Watched : WF_vars(StreamEvent(j))

(***************************************************************************)
(* Properties                                                              *)
(***************************************************************************)

\* What a finished push job reports is what happened (pushworker.go:561,
\* push_jobs.go:141): its count of notified peers is the number of agents that
\* were told, its status is "completed" exactly without failures, and the two
\* counts cover all its peers unless the job's context ended in its midst; a
\* row says "notified" of no agent that was not.
AuditTruthful ==
  \A j \in Jobs :
    /\ \A p \in Agents : rows[j][p] = "notified" => p \in told[j]
    /\ job[j].status \in {"completed", "completed_with_errors"} =>
         /\ job[j].succeeded = Cardinality(told[j])
         /\ (job[j].status = "completed") <=> (job[j].failed = 0)
         /\ j \in PushJobs \ cut => job[j].succeeded + job[j].failed = job[j].total

\* UpdateAllAgents, past its deadline or not, leaves no peer behind: a finished
\* update counts every peer it did not skip, and no other peer's row is still
\* pending when every write succeeded (peers/handlers.go:995).
UpdateCoversAll ==
  \A j \in UpdateJobs :
    req[j] = "acked" /\ j \notin unwritten =>
      /\ job[j].succeeded + job[j].failed + Cardinality(fanout[j].skipped) = job[j].total
      /\ \A p \in Agents \ fanout[j].skipped : rows[j][p] # "pending"

\* A job that is over stays over: no handler closes a job that the worker has
\* in its queue, and the worker takes no job that was closed.
OverIsOver == [][\A j \in Jobs : Terminal(j) => job'[j] = job[j]]_vars

\* A push that was answered 202 before the shutdown began reaches a final
\* status, through the drain of a canceled worker too, unless the final write
\* itself fails or Stop gives up waiting and the database is closed
\* (pushworker.go:149).
AckedEnds ==
  \A j \in PushJobs :
    (req[j] = "acked" /\ ~server.canceled) ~> (Terminal(j) \/ j \in unwritten \/ server.gaveUp)

\* A stream that was opened before its job was over ends with the job, unless
\* the job was cut short, never reached the worker, or events were dropped
\* (pending/handlers.go:948).
StreamEndsInTime ==
  \A j \in PushJobs :
    (watch[j].state = "open" /\ Terminal(j) /\ req[j] = "acked")
      ~> (watch[j].state = "ended" \/ watch[j].late \/ watch[j].dropped \/ j \in cut)

\* "Stream events until client disconnects or job completes"
\* (pending/handlers.go:985): an open stream of a completed job ends.
StreamEnds ==
  \A j \in PushJobs : (watch[j].state = "open" /\ Terminal(j)) ~> watch[j].state = "ended"
=============================================================================
