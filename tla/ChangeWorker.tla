---------------------------- MODULE ChangeWorker ----------------------------
(***************************************************************************)
(* internal/change/change_worker.go: the bounded background queue that     *)
(* turns an edit of a policy, group or service into one pending_changes    *)
(* row per affected peer, followed by an SSE signal for each of them.      *)
(*                                                                         *)
(* An HTTP handler calls QueuePeerChange or QueueGroupChange.  The call    *)
(* either buffers the work for the worker goroutine and returns nil at     *)
(* once, or, when the worker cannot take it, processes it synchronously    *)
(* and returns the outcome.  The worker goroutine leaves its loop when     *)
(* Stop closes the work channel or when the context given to Start is      *)
(* canceled; in both cases it drains what is buffered.                     *)
(*                                                                         *)
(* A work item is identified with the request that submits it, so every    *)
(* element of Works is queued at most once.  The order in which the peers  *)
(* of one item are inserted is left open.  Rows leave pending_changes here *)
(* only together with their peer; the apply and rollback handlers, which   *)
(* also delete rows, act on a table this module only fills.                *)
(***************************************************************************)
EXTENDS Naturals, Sequences, FiniteSets

CONSTANTS
    Works,        \* work items, one per call of Queue{Peer,Group}Change
    GroupWorks,   \* the items submitted by QueueGroupChange
    NoWork,       \* "the worker holds no item"
    Peers,        \* peer ids
    Keys,         \* (change_type, change_id, change_action) triples
    KeyOf,        \* KeyOf[w]: the triple item w records
    Affected,     \* Affected[w]: the peers item w has to reach
    QueueCap      \* capacity of workCh (100 in NewChangeWorker)

ASSUME ChangeWorkerAssumption ==
    /\ GroupWorks \subseteq Works
    /\ NoWork \notin Works
    /\ KeyOf \in [Works -> Keys]
    /\ Affected \in [Works -> SUBSET Peers]
    /\ QueueCap \in Nat \ {0}

VARIABLES
    startUsed,    \* startOnce has run
    started,      \* ChangeWorker.started
    stopped,      \* ChangeWorker.stopped
    stopPc,       \* progress of the one effective Stop call
    chClosed,     \* workCh is closed
    done,         \* the done channel is closed
    cancelled,    \* the context given to Start is done
    queue,        \* the buffered items of workCh
    wpc,          \* where the worker goroutine is
    cur,          \* the item the worker goroutine is processing
    pc,           \* progress of each Queue...Change call
    phase,        \* progress of the processing of each item
    todo,         \* peers of the item that still await their INSERT
    succ,         \* succeededPeerIDs
    errs,         \* some resolution or INSERT of the item failed
    runs,         \* how often processing of the item has begun
    rows,         \* table pending_changes
    told,         \* peers for which the item sent its SSE signals
    present       \* table peers

lifecycle == <<startUsed, started, stopped, stopPc, chClosed, done, cancelled>>
work == <<phase, todo, succ, errs, runs>>
database == <<rows, present>>
vars == <<lifecycle, queue, wpc, cur, pc, work, database, told>>

-----------------------------------------------------------------------------
(* States of the three kinds of goroutine.                                 *)

CallStates == {"idle", "locked", "sync", "acked", "ok", "err"}
Phases == {"none", "resolve", "insert", "finished"}
WorkerStates == {"none", "loop", "drain", "exiting", "exited"}
StopStates == {"idle", "waiting", "returned"}

Pending == Peers \X Keys

(* The type of every variable.                                             *)
TypeOK ==
    /\ startUsed \in BOOLEAN /\ started \in BOOLEAN /\ stopped \in BOOLEAN
    /\ stopPc \in StopStates
    /\ chClosed \in BOOLEAN /\ done \in BOOLEAN /\ cancelled \in BOOLEAN
    /\ queue \in Seq(Works)
    /\ wpc \in WorkerStates
    /\ cur \in Works \cup {NoWork}
    /\ pc \in [Works -> CallStates]
    /\ phase \in [Works -> Phases]
    /\ todo \in [Works -> SUBSET Peers]
    /\ succ \in [Works -> SUBSET Peers]
    /\ errs \in [Works -> BOOLEAN]
    /\ runs \in [Works -> Nat]
    /\ rows \in SUBSET Pending
    /\ told \in [Works -> SUBSET Peers]
    /\ present \in SUBSET Peers

Init ==
    /\ startUsed = FALSE /\ started = FALSE /\ stopped = FALSE
    /\ stopPc = "idle"
    /\ chClosed = FALSE /\ done = FALSE /\ cancelled = FALSE
    /\ queue = <<>>
    /\ wpc = "none"
    /\ cur = NoWork
    /\ pc = [w \in Works |-> "idle"]
    /\ phase = [w \in Works |-> "none"]
    /\ todo = [w \in Works |-> {}]
    /\ succ = [w \in Works |-> {}]
    /\ errs = [w \in Works |-> FALSE]
    /\ runs = [w \in Works |-> 0]
    /\ rows = {}
    /\ told = [w \in Works |-> {}]
    /\ present = Peers

(* No call holds mu.RLock, so the write lock can be taken.                 *)
NoReader == \A w \in Works : pc[w] # "locked"

(* The first statements of processPeerChange and processGroupChange.       *)
Begin(w) ==
    /\ phase' = [phase EXCEPT ![w] =
                    IF w \in GroupWorks THEN "resolve" ELSE "insert"]
    /\ todo' = [todo EXCEPT ![w] = Affected[w]]
    /\ succ' = [succ EXCEPT ![w] = {}]
    /\ errs' = [errs EXCEPT ![w] = FALSE]
    /\ runs' = [runs EXCEPT ![w] = @ + 1]

-----------------------------------------------------------------------------
(* Lifecycle: Start, cancellation of its context, Stop.                    *)

(* Start: startOnce, then started is set under the write lock unless Stop  *)
(* came first; the goroutine is launched only in that case.                *)
Start ==
    /\ ~startUsed
    /\ NoReader
    /\ startUsed' = TRUE
    /\ started' = ~stopped
    /\ wpc' = IF stopped THEN wpc ELSE "loop"
    /\ UNCHANGED <<stopped, stopPc, chClosed, done, cancelled, queue, cur, pc,
                   work, database, told>>

(* The server cancels its root context (cancel() in runic-server's main).  *)
Cancel ==
    /\ ~cancelled
    /\ cancelled' = TRUE
    /\ UNCHANGED <<startUsed, started, stopped, stopPc, chClosed, done, queue,
                   wpc, cur, pc, work, database, told>>

(* A Stop that closes the channel without excluding the readers.           *)
StopUnlocked ==
    /\ stopPc = "idle"
    /\ stopped' = TRUE
    /\ chClosed' = started
    /\ stopPc' = IF started THEN "waiting" ELSE "returned"
    /\ UNCHANGED <<startUsed, started, done, cancelled, queue, wpc, cur, pc,
                   work, database, told>>

(* A Stop that marks the worker stopped and forgets close(workCh).         *)
StopWithoutClose ==
    /\ stopPc = "idle"
    /\ NoReader
    /\ stopped' = TRUE
    /\ stopPc' = IF started THEN "waiting" ELSE "returned"
    /\ UNCHANGED <<startUsed, started, chClosed, done, cancelled, queue, wpc,
                   cur, pc, work, database, told>>

(* Stop under the write lock: mark stopped and, when the worker runs,      *)
(* close the channel and go on to wait for done.                           *)
Stop ==
    /\ stopPc = "idle"
    /\ NoReader
    /\ stopped' = TRUE
    /\ chClosed' = started
    /\ stopPc' = IF started THEN "waiting" ELSE "returned"
    /\ UNCHANGED <<startUsed, started, done, cancelled, queue, wpc, cur, pc,
                   work, database, told>>

(* Stop's select: done is closed, or the 10 s timer fires whatever the     *)
(* worker is doing.                                                        *)
StopReturn ==
    /\ stopPc = "waiting"
    /\ stopPc' = "returned"
    /\ UNCHANGED <<startUsed, started, stopped, chClosed, done, cancelled,
                   queue, wpc, cur, pc, work, database, told>>

-----------------------------------------------------------------------------
(* Queue{Peer,Group}Change.                                                *)

(* The entry checks without the one for a worker that never started.       *)
CheckIgnoringStarted(w) ==
    /\ pc[w] = "idle"
    /\ IF stopped \/ done
         THEN pc' = [pc EXCEPT ![w] = "sync"] /\ Begin(w)
         ELSE pc' = [pc EXCEPT ![w] = "locked"] /\ UNCHANGED work
    /\ UNCHANGED <<lifecycle, queue, wpc, cur, database, told>>

(* RLock and the checks for a stopped, never started or exited worker; a   *)
(* failed check releases the lock and falls back to the synchronous path.  *)
(* done is closed without the lock, so it may close right after the check. *)
Check(w) ==
    /\ pc[w] = "idle"
    /\ IF stopped \/ ~started \/ done
         THEN pc' = [pc EXCEPT ![w] = "sync"] /\ Begin(w)
         ELSE pc' = [pc EXCEPT ![w] = "locked"] /\ UNCHANGED work
    /\ UNCHANGED <<lifecycle, queue, wpc, cur, database, told>>

(* A send followed by the re-check the code comments warn against: the     *)
(* item is buffered, and also processed here when the worker has exited.   *)
SendThenRecheck(w) ==
    /\ pc[w] = "locked"
    /\ IF Len(queue) < QueueCap
         THEN /\ queue' = Append(queue, w)
              /\ IF cancelled
                   THEN pc' = [pc EXCEPT ![w] = "sync"] /\ Begin(w)
                   ELSE pc' = [pc EXCEPT ![w] = "acked"] /\ UNCHANGED work
         ELSE /\ queue' = queue
              /\ pc' = [pc EXCEPT ![w] = "sync"]
              /\ Begin(w)
    /\ UNCHANGED <<lifecycle, wpc, cur, database, told>>

(* The non-blocking send under RLock: nil to the caller when it is         *)
(* buffered, the synchronous path when the channel is full.                *)
Send(w) ==
    /\ pc[w] = "locked"
    /\ IF Len(queue) < QueueCap
         THEN /\ queue' = Append(queue, w)
              /\ pc' = [pc EXCEPT ![w] = "acked"]
              /\ UNCHANGED work
         ELSE /\ queue' = queue
              /\ pc' = [pc EXCEPT ![w] = "sync"]
              /\ Begin(w)
    /\ UNCHANGED <<lifecycle, wpc, cur, database, told>>

-----------------------------------------------------------------------------
(* The worker goroutine.                                                   *)

(* A receive, in the main loop or in the drain loop.                       *)
Receive ==
    /\ wpc \in {"loop", "drain"}
    /\ cur = NoWork
    /\ queue # <<>>
    /\ cur' = Head(queue)
    /\ queue' = Tail(queue)
    /\ Begin(Head(queue))
    /\ UNCHANGED <<lifecycle, wpc, pc, database, told>>

(* The ctx.Done case of the main select.  The select picks either case     *)
(* when work is buffered as well.                                          *)
CtxDone ==
    /\ wpc = "loop"
    /\ cur = NoWork
    /\ cancelled
    /\ wpc' = "drain"
    /\ UNCHANGED <<lifecycle, queue, cur, pc, work, database, told>>

(* A closed and empty channel ends the main loop; an empty channel, closed *)
(* or not, ends the drain loop.                                            *)
Leave ==
    /\ cur = NoWork
    /\ queue = <<>>
    /\ \/ wpc = "loop" /\ chClosed
       \/ wpc = "drain"
    /\ wpc' = "exiting"
    /\ UNCHANGED <<lifecycle, queue, cur, pc, work, database, told>>

(* The deferred close(done).                                               *)
CloseDone ==
    /\ wpc = "exiting"
    /\ wpc' = "exited"
    /\ done' = TRUE
    /\ UNCHANGED <<startUsed, started, stopped, stopPc, chClosed, cancelled,
                   queue, cur, pc, work, database, told>>

-----------------------------------------------------------------------------
(* processPeerChange and processGroupChange, run by the worker goroutine   *)
(* (cur = w) or by the calling handler (pc[w] = "sync").                   *)

(* The group existence check, FindPoliciesByGroup and                      *)
(* GetAffectedPeersByPolicies: a failure keeps the peers that did resolve  *)
(* and is reported at the end; without one all affected peers resolve.     *)
ResolveGroup(w) ==
    /\ phase[w] = "resolve"
    /\ \E resolved \in SUBSET Affected[w], failed \in BOOLEAN :
          /\ failed \/ resolved = Affected[w]
          /\ todo' = [todo EXCEPT ![w] = resolved]
          /\ errs' = [errs EXCEPT ![w] = failed]
    /\ phase' = [phase EXCEPT ![w] = "insert"]
    /\ UNCHANGED <<lifecycle, queue, wpc, cur, pc, succ, runs, database, told>>

(* queueChangeForPeer succeeds: INSERT ... WHERE NOT EXISTS leaves exactly *)
(* one row.  The foreign key on peers admits existing peers only.          *)
InsertRow(w, p) ==
    /\ phase[w] = "insert"
    /\ p \in todo[w] \cap present
    /\ rows' = rows \cup {<<p, KeyOf[w]>>}
    /\ todo' = [todo EXCEPT ![w] = @ \ {p}]
    /\ succ' = [succ EXCEPT ![w] = @ \cup {p}]
    /\ UNCHANGED <<lifecycle, queue, wpc, cur, pc, phase, errs, runs, present,
                   told>>

(* queueChangeForPeer fails (timeout, busy database, deleted peer): the    *)
(* error is joined and the loop goes on with the next peer.                *)
InsertFails(w, p) ==
    /\ phase[w] = "insert"
    /\ p \in todo[w]
    /\ todo' = [todo EXCEPT ![w] = @ \ {p}]
    /\ errs' = [errs EXCEPT ![w] = TRUE]
    /\ UNCHANGED <<lifecycle, queue, wpc, cur, pc, phase, succ, runs, database,
                   told>>

(* notifyPeers: one agent and one frontend signal per peer that the        *)
(* hostname query still finds; a failing query signals nobody.             *)
NotifySet(w) == { succ[w] \cap present, {} }

(* The processing returns to whoever runs it: the handler passes the       *)
(* joined errors to its client, the worker logs them and goes on.          *)
Finish(w) ==
    /\ phase[w] = "insert"
    /\ todo[w] = {}
    /\ phase' = [phase EXCEPT ![w] = "finished"]
    /\ \E sent \in NotifySet(w) : told' = [told EXCEPT ![w] = sent]
    /\ IF pc[w] = "sync"
         THEN /\ pc' = [pc EXCEPT ![w] = IF errs[w] THEN "err" ELSE "ok"]
              /\ cur' = cur
         ELSE pc' = pc /\ cur' = NoWork
    /\ UNCHANGED <<lifecycle, queue, wpc, todo, succ, errs, runs, database>>

-----------------------------------------------------------------------------
(* An administrator deletes a peer; its rows go with it (ON DELETE CASCADE)*)
DeletePeer(p) ==
    /\ p \in present
    /\ present' = present \ {p}
    /\ rows' = { r \in rows : r[1] # p }
    /\ UNCHANGED <<lifecycle, queue, wpc, cur, pc, work, told>>

Call(w) == Check(w) \/ Send(w)

Process(w) ==
    \/ ResolveGroup(w)
    \/ \E p \in Peers : InsertRow(w, p) \/ InsertFails(w, p)
    \/ Finish(w)

WorkerLoop == Receive \/ CtxDone \/ Leave \/ CloseDone

(* The server process goes on after every call has returned; this step     *)
(* keeps a finished run from looking like a deadlock.                      *)
Quiescent ==
    /\ stopPc = "returned"
    /\ \A w \in Works : pc[w] \in {"acked", "ok", "err"}
    /\ wpc \in {"none", "exited"}
    /\ startUsed
    /\ UNCHANGED vars

Next ==
    \/ Start \/ Cancel \/ Stop \/ StopReturn
    \/ \E w \in Works : Call(w) \/ Process(w)
    \/ WorkerLoop
    \/ \E p \in Peers : DeletePeer(p)
    \/ Quiescent

Spec == Init /\ [][Next]_vars

(* Goroutines that can go on do go on: a call that holds the lock sends,   *)
(* processing advances, and the worker loop receives or leaves.  Nothing   *)
(* is assumed of Start, Cancel, Stop, new requests or peer deletion.       *)
Fairness ==
    /\ \A w \in Works : WF_vars(Send(w)) /\ WF_vars(Process(w))
    /\ WF_vars(WorkerLoop)

FairSpec == Spec /\ Fairness

-----------------------------------------------------------------------------
(* Properties.                                                             *)

(* "no recover is needed because send-on-closed cannot happen under the    *)
(* lock" (QueuePeerChange): a call that passed its checks and is about to  *)
(* send never finds the channel closed.                                    *)
NoSendOnClosed == \A w \in Works : pc[w] = "locked" => ~chClosed

(* "a successful send transfers ownership to the worker drain and must not *)
(* also run synchronously" (QueueGroupChange): no item is processed twice, *)
(* by whichever goroutines, so no SSE signal is doubled.                   *)
ProcessedOnce == \A w \in Works : runs[w] <= 1

(* "a synchronous fallback never acks success with a lost signal"          *)
(* (processPeerChange): when the fallback returns nil, every affected peer *)
(* that still exists has its pending_changes row.                          *)
SyncAckHasRows ==
    \A w \in Works : pc[w] = "ok" =>
        \A p \in Affected[w] \cap present : <<p, KeyOf[w]>> \in rows

(* "a per-peer INSERT failure must not fan out SSE for a peer with no      *)
(* pending_changes row": whoever was told of a change has the row.         *)
ToldHasRow ==
    \A w \in Works : \A p \in told[w] \cap present :
        <<p, KeyOf[w]>> \in rows

(* Where an item acknowledged by the enqueue path can be: buffered, in the *)
(* worker's hands, or processed.                                           *)
Buffered == { queue[i] : i \in 1..Len(queue) }
AckedAccounted ==
    \A w \in Works : pc[w] = "acked" =>
        \/ w \in Buffered /\ runs[w] = 0
        \/ w = cur /\ runs[w] = 1
        \/ phase[w] = "finished"

(* Stop: "remaining buffered items are readable with ok=true until empty,  *)
(* then ok=false exits": a worker that leaves because of Stop, its context *)
(* alive, leaves nothing buffered behind.                                  *)
StopDrainsQueue == done /\ ~cancelled => queue = <<>>

(* The comment on the drain in Start: "Drain buffered work before exiting  *)
(* so an enqueue-then-cancel race never loses buffered items."             *)
ExitDrainsQueue == done => queue = <<>>

(* "A nil return means the work was accepted for background processing":   *)
(* every acknowledged item is processed, as long as the Start context is   *)
(* not canceled.                                                           *)
AckedProcessed ==
    \A w \in Works : (pc[w] = "acked") ~> (phase[w] = "finished" \/ cancelled)

(* Stop and cancellation both end the worker goroutine; a Start that loses *)
(* the race against Stop leaks none.                                       *)
WorkerExits == (wpc = "loop" /\ (stopped \/ cancelled)) ~> done

(* The contract the HTTP handlers rely on.                                 *)
Handoff == INSTANCE ChangeHandoff WITH
    exec <- [w \in Works |->
                CASE phase[w] = "finished" -> "finished"
                  [] runs[w] > 0 /\ phase[w] # "finished" -> "running"
                  [] runs[w] = 0 /\ pc[w] = "acked" -> "queued"
                  [] OTHER -> "none"],
    reply <- [w \in Works |->
                CASE pc[w] \in {"acked", "ok"} -> "nil"
                  [] pc[w] = "err" -> "error"
                  [] OTHER -> "none"]

(* The worker implements the hand-off contract: an item is queued or run   *)
(* once, its answer is given once and follows from the run unless the item *)
(* was queued.                                                             *)
ImplementsHandoff == Handoff!Spec
=============================================================================
