------------------------- MODULE ChangeWorkerProofs -------------------------
(***************************************************************************)
(* Proofs about ChangeWorker for every set of requests, peers and changes  *)
(* and every queue capacity.                                               *)
(*                                                                         *)
(* Neither NoSendOnClosed nor ProcessedOnce is inductive.  The first needs *)
(* to know that a reader holding the lock has seen a started and unstopped *)
(* worker, so that only Stop, which waits for the readers, can change that.*)
(* The second needs to know who owns an item: the caller until it sends,   *)
(* the channel while the item is buffered, the worker from then on.        *)
(*                                                                         *)
(* The refinement of ChangeHandoff, and what the comments promise of lost  *)
(* items and signals, need three more facts: how far an item is says who   *)
(* holds it (RunInv); what the worker left behind when it ended (ExitInv); *)
(* what processing an item has recorded so far (RowInv).                   *)
(***************************************************************************)
EXTENDS ChangeWorker, TLAPS

(* A call past its checks holds the read lock of a running, open worker,   *)
(* and the channel is closed by Stop only.                                 *)
LockInv ==
    /\ \A w \in Works : pc[w] = "locked" => started /\ ~stopped
    /\ chClosed => stopped

(* Ownership: an item still with its caller has not run and is not in the  *)
(* channel; one in the channel was acknowledged, has not run, and is there *)
(* once.                                                                   *)
OwnerInv ==
    /\ \A w \in Works : pc[w] \in {"idle", "locked"} => runs[w] = 0
    /\ \A i \in 1..Len(queue) : pc[queue[i]] = "acked" /\ runs[queue[i]] = 0
    /\ \A i, j \in 1..Len(queue) : queue[i] = queue[j] => i = j
    /\ \A w \in Works : runs[w] <= 1

IInv == TypeOK /\ LockInv /\ OwnerInv

-----------------------------------------------------------------------------
(* Every variable keeps its type: in particular the worker only ever holds *)
(* an item some request submitted, and rows only name known peers.         *)
LEMMA InitTypeOK == Init => TypeOK
<1> SUFFICES ASSUME Init PROVE TypeOK
  OBVIOUS
<1>1. /\ startUsed \in BOOLEAN /\ started \in BOOLEAN /\ stopped \in BOOLEAN
      /\ chClosed \in BOOLEAN /\ done \in BOOLEAN /\ cancelled \in BOOLEAN
  BY DEF Init
<1>2. /\ stopPc \in StopStates /\ wpc \in WorkerStates
      /\ queue \in Seq(Works) /\ cur \in Works \cup {NoWork}
  BY DEF Init, StopStates, WorkerStates
<1>3. pc \in [Works -> CallStates] /\ phase \in [Works -> Phases]
  BY DEF Init, CallStates, Phases
<1>4. /\ todo \in [Works -> SUBSET Peers] /\ succ \in [Works -> SUBSET Peers]
      /\ told \in [Works -> SUBSET Peers]
  BY DEF Init
<1>5. errs \in [Works -> BOOLEAN] /\ runs \in [Works -> Nat]
  BY DEF Init
<1>6. rows \in SUBSET Pending /\ present \in SUBSET Peers
  BY DEF Init
<1> QED
  BY <1>1, <1>2, <1>3, <1>4, <1>5, <1>6 DEF TypeOK

(* Beginning to process an item keeps the types of the work variables.     *)
LEMMA BeginType ==
  ASSUME TypeOK, NEW w \in Works, Begin(w)
  PROVE  /\ phase' \in [Works -> Phases]
         /\ todo' \in [Works -> SUBSET Peers]
         /\ succ' \in [Works -> SUBSET Peers]
         /\ errs' \in [Works -> BOOLEAN]
         /\ runs' \in [Works -> Nat]
<1>1. phase' \in [Works -> Phases]
  BY DEF TypeOK, Begin, Phases
<1>2. todo' \in [Works -> SUBSET Peers] /\ succ' \in [Works -> SUBSET Peers]
  BY ChangeWorkerAssumption DEF TypeOK, Begin
<1>3. errs' \in [Works -> BOOLEAN] /\ runs' \in [Works -> Nat]
  BY DEF TypeOK, Begin
<1> QED
  BY <1>1, <1>2, <1>3

(* Every step keeps the types.                                             *)
LEMMA StepTypeOK == TypeOK /\ [Next]_vars => TypeOK'
<1> SUFFICES ASSUME TypeOK, [Next]_vars PROVE TypeOK'
  OBVIOUS
<1> USE ChangeWorkerAssumption
<1>a. CASE Start
  BY <1>a DEF TypeOK, Start, WorkerStates, work, database
<1>b. CASE Cancel
  BY <1>b DEF TypeOK, Cancel, work, database
<1>c. CASE Stop
  BY <1>c DEF TypeOK, Stop, StopStates, work, database
<1>d. CASE StopReturn
  BY <1>d DEF TypeOK, StopReturn, StopStates, work, database
<1>e. ASSUME NEW w \in Works, Check(w) PROVE TypeOK'
  <2>1. pc' \in [Works -> CallStates]
    BY <1>e DEF TypeOK, Check, CallStates
  <2>2. CASE Begin(w)
    BY <1>e, <2>1, <2>2, BeginType DEF TypeOK, Check, lifecycle, database
  <2>3. CASE UNCHANGED work
    BY <1>e, <2>1, <2>3 DEF TypeOK, Check, lifecycle, work, database
  <2> QED
    BY <1>e, <2>2, <2>3 DEF Check
<1>f. ASSUME NEW w \in Works, Send(w) PROVE TypeOK'
  <2>0. pc' \in [Works -> CallStates]
    BY <1>f DEF TypeOK, Send, CallStates
  <2>1. pc' \in [Works -> CallStates] /\ queue' \in Seq(Works)
    <3>1. queue \in Seq(Works) /\ Append(queue, w) \in Seq(Works)
      BY DEF TypeOK
    <3>2. queue' = queue \/ queue' = Append(queue, w)
      BY <1>f DEF Send
    <3> QED
      BY <2>0, <3>1, <3>2
  <2>2. CASE Begin(w)
    BY <1>f, <2>1, <2>2, BeginType DEF TypeOK, Send, lifecycle, database
  <2>3. CASE UNCHANGED work
    BY <1>f, <2>1, <2>3 DEF TypeOK, Send, lifecycle, work, database
  <2> QED
    BY <1>f, <2>2, <2>3 DEF Send
<1>g. CASE Receive
  <2>1. Head(queue) \in Works /\ Tail(queue) \in Seq(Works)
    BY <1>g DEF TypeOK, Receive
  <2> QED
    BY <1>g, <2>1, BeginType DEF TypeOK, Receive, lifecycle, database
<1>h. CASE CtxDone
  BY <1>h DEF TypeOK, CtxDone, WorkerStates, lifecycle, work, database
<1>i. CASE Leave
  BY <1>i DEF TypeOK, Leave, WorkerStates, lifecycle, work, database
<1>j. CASE CloseDone
  BY <1>j DEF TypeOK, CloseDone, WorkerStates, work, database
<1>k. ASSUME NEW w \in Works, ResolveGroup(w) PROVE TypeOK'
  BY <1>k DEF TypeOK, ResolveGroup, Phases, lifecycle, database
<1>l. ASSUME NEW w \in Works, NEW p \in Peers, InsertRow(w, p) PROVE TypeOK'
  <2>1. <<p, KeyOf[w]>> \in Pending
    BY DEF Pending
  <2> QED
    BY <1>l, <2>1 DEF TypeOK, InsertRow, lifecycle
<1>m. ASSUME NEW w \in Works, NEW p \in Peers, InsertFails(w, p) PROVE TypeOK'
  BY <1>m DEF TypeOK, InsertFails, lifecycle, database
<1>n. ASSUME NEW w \in Works, Finish(w) PROVE TypeOK'
  <2>1. pc' \in [Works -> CallStates] /\ cur' \in Works \cup {NoWork}
    BY <1>n DEF TypeOK, Finish, CallStates
  <2>2. phase' \in [Works -> Phases]
    BY <1>n DEF TypeOK, Finish, Phases
  <2>3. told' \in [Works -> SUBSET Peers]
    BY <1>n DEF TypeOK, Finish, NotifySet
  <2> QED
    BY <1>n, <2>1, <2>2, <2>3 DEF TypeOK, Finish, lifecycle, database
<1>o. ASSUME NEW p \in Peers, DeletePeer(p) PROVE TypeOK'
  BY <1>o DEF TypeOK, DeletePeer, lifecycle, work
<1>p. CASE UNCHANGED vars
  BY <1>p DEF TypeOK, vars, lifecycle, work, database
<1> QED
  BY <1>a, <1>b, <1>c, <1>d, <1>e, <1>f, <1>g, <1>h, <1>i, <1>j, <1>k, <1>l,
     <1>m, <1>n, <1>o, <1>p
  DEF Next, Call, Process, WorkerLoop, Quiescent

(* The type invariant of ChangeWorker, for every instance.                 *)
THEOREM TypeCorrect == Spec => []TypeOK
  BY InitTypeOK, StepTypeOK, PTL DEF Spec

-----------------------------------------------------------------------------
LEMMA InitIInv == Init => IInv
  BY InitTypeOK DEF Init, IInv, LockInv, OwnerInv

(* LockInv: only Stop falsifies it, and Stop waits for the readers.        *)
LEMMA StepLockInv == IInv /\ [Next]_vars => LockInv'
<1> SUFFICES ASSUME IInv, [Next]_vars PROVE LockInv'
  OBVIOUS
<1> USE DEF IInv, LockInv
<1>a. CASE Start
  BY <1>a DEF TypeOK, Start, NoReader
<1>c. CASE Stop
  BY <1>c DEF TypeOK, Stop, NoReader
<1>e. ASSUME NEW w \in Works, Check(w) PROVE LockInv'
  BY <1>e DEF TypeOK, Check, lifecycle
<1>f. ASSUME NEW w \in Works, Send(w) PROVE LockInv'
  BY <1>f DEF TypeOK, Send, lifecycle
<1>n. ASSUME NEW w \in Works, Finish(w) PROVE LockInv'
  BY <1>n DEF TypeOK, Finish, lifecycle
<1>q. CASE UNCHANGED <<started, stopped, chClosed, pc>>
  BY <1>q
<1> QED
  BY <1>a, <1>c, <1>e, <1>f, <1>n, <1>q
  DEF Next, Call, Process, WorkerLoop, Quiescent, vars, lifecycle, Cancel,
      StopReturn, Receive, CtxDone, Leave, CloseDone, ResolveGroup, InsertRow,
      InsertFails, DeletePeer

(* OwnerInv: an item moves from its caller to the channel (Send) or to a   *)
(* synchronous run (Check, Send), and from the channel to the worker       *)
(* (Receive); it is never in two hands.                                    *)
LEMMA StepOwnerInv == IInv /\ [Next]_vars => OwnerInv'
<1> SUFFICES ASSUME IInv, [Next]_vars PROVE OwnerInv'
  OBVIOUS
<1>0. TypeOK /\ OwnerInv
  BY DEF IInv
<1>1. \A i \in 1..Len(queue) : queue[i] \in Works
  BY <1>0 DEF TypeOK
<1>e. ASSUME NEW w \in Works, Check(w) PROVE OwnerInv'
  <2>1. /\ pc[w] = "idle" /\ queue' = queue
        /\ \A v \in Works \ {w} : pc'[v] = pc[v] /\ runs'[v] = runs[v]
        /\ \/ pc'[w] = "sync" /\ runs'[w] = runs[w] + 1
           \/ pc'[w] = "locked" /\ runs'[w] = runs[w]
    BY <1>0, <1>e DEF TypeOK, Check, Begin, work
  <2>2. runs[w] = 0 /\ \A i \in 1..Len(queue) : queue[i] # w
    BY <1>0, <2>1 DEF OwnerInv
  <2> QED
    BY <1>0, <1>1, <2>1, <2>2 DEF OwnerInv
<1>f. ASSUME NEW w \in Works, Send(w) PROVE OwnerInv'
  <2>1. /\ pc[w] = "locked"
        /\ \A v \in Works \ {w} : pc'[v] = pc[v] /\ runs'[v] = runs[v]
    BY <1>0, <1>f DEF TypeOK, Send, Begin, work
  <2>2. runs[w] = 0 /\ \A i \in 1..Len(queue) : queue[i] # w
    BY <1>0, <2>1 DEF OwnerInv
  <2>3. CASE Len(queue) < QueueCap
    <3>1. pc'[w] = "acked" /\ runs'[w] = 0 /\ queue' = Append(queue, w)
      BY <1>0, <1>f, <2>2, <2>3 DEF TypeOK, Send, work
    <3>2. /\ Len(queue') = Len(queue) + 1 /\ Len(queue) \in Nat
          /\ queue'[Len(queue')] = w
          /\ \A i \in 1..Len(queue) : queue'[i] = queue[i]
      BY <1>0, <3>1 DEF TypeOK
    <3> QED
      BY <1>0, <1>1, <2>1, <2>2, <3>1, <3>2 DEF OwnerInv
  <2>4. CASE ~(Len(queue) < QueueCap)
    <3>1. pc'[w] = "sync" /\ runs'[w] = 1 /\ queue' = queue
      BY <1>0, <1>f, <2>2, <2>4 DEF TypeOK, Send, Begin
    <3> QED
      BY <1>0, <1>1, <2>1, <2>2, <3>1 DEF OwnerInv
  <2> QED
    BY <2>3, <2>4
<1>g. CASE Receive
  <2>1. /\ Len(queue) \in Nat /\ Len(queue) > 0
        /\ Head(queue) = queue[1] /\ queue[1] \in Works
        /\ Len(queue') = Len(queue) - 1
        /\ \A i \in 1..Len(queue') : queue'[i] = queue[i + 1]
    BY <1>0, <1>g DEF TypeOK, Receive
  <2>2. /\ pc' = pc
        /\ runs' = [runs EXCEPT ![queue[1]] = @ + 1]
    BY <1>g, <2>1 DEF Receive, Begin
  <2>3. pc[queue[1]] = "acked" /\ runs'[queue[1]] = 1
    BY <1>0, <2>1, <2>2 DEF TypeOK, OwnerInv
  <2>4. \A v \in Works \ {queue[1]} : runs'[v] = runs[v]
    BY <1>0, <2>2 DEF TypeOK
  <2>5. \A i \in 1..Len(queue') : queue'[i] # queue[1]
    BY <1>0, <2>1 DEF OwnerInv
  <2> QED
    BY <1>0, <1>1, <2>1, <2>2, <2>3, <2>4, <2>5 DEF OwnerInv
<1>n. ASSUME NEW w \in Works, Finish(w) PROVE OwnerInv'
  <2>1. /\ queue' = queue /\ runs' = runs
        /\ \A v \in Works \ {w} : pc'[v] = pc[v]
        /\ \/ pc[w] = "sync" /\ pc'[w] \in {"ok", "err"}
           \/ pc'[w] = pc[w]
    BY <1>0, <1>n DEF TypeOK, Finish
  <2>2. pc[w] = "sync" => \A i \in 1..Len(queue) : queue[i] # w
    BY <1>0 DEF OwnerInv
  <2> QED
    BY <1>0, <1>1, <2>1, <2>2 DEF OwnerInv
<1>q. CASE UNCHANGED <<queue, runs, pc>>
  BY <1>0, <1>q DEF OwnerInv
<1> QED
  BY <1>e, <1>f, <1>g, <1>n, <1>q
  DEF Next, Call, Process, WorkerLoop, Quiescent, vars, work, Start, Cancel,
      Stop, StopReturn, CtxDone, Leave, CloseDone, ResolveGroup, InsertRow,
      InsertFails, DeletePeer

(* The inductive invariant holds of the specification.                     *)
LEMMA Inductive == Spec => []IInv
<1>1. IInv /\ [Next]_vars => IInv'
  BY StepTypeOK, StepLockInv, StepOwnerInv DEF IInv
<1> QED
  BY <1>1, InitIInv, PTL DEF Spec

(* QueuePeerChange and QueueGroupChange never send on a closed channel,    *)
(* which is why the code needs no recover around the send.                 *)
THEOREM NeverSendOnClosed == Spec => []NoSendOnClosed
<1>1. IInv => NoSendOnClosed
  BY DEF IInv, LockInv, NoSendOnClosed
<1> QED
  BY <1>1, Inductive, PTL

(* No submitted change is processed twice: not by two goroutines, and not  *)
(* by the worker loop and the drain loop.                                  *)
THEOREM NeverProcessedTwice == Spec => []ProcessedOnce
<1>1. IInv => ProcessedOnce
  BY DEF IInv, OwnerInv, ProcessedOnce
<1> QED
  BY <1>1, Inductive, PTL

-----------------------------------------------------------------------------
(* How far an item is, and who holds it: the caller that runs it, the      *)
(* channel, or the worker.                                                 *)
RunInv ==
    /\ \A w \in Works : runs[w] = 0 <=> phase[w] = "none"
    /\ \A w \in Works : pc[w] = "sync" => phase[w] \in {"resolve", "insert"}
    /\ \A w \in Works : pc[w] \in {"ok", "err"} => phase[w] = "finished"
    /\ \A w \in Works : pc[w] = "acked" =>
          (\E i \in 1..Len(queue) : queue[i] = w) \/ cur = w \/ phase[w] = "finished"
    /\ cur # NoWork => pc[cur] = "acked" /\ phase[cur] \in {"resolve", "insert"}

(* A worker that has left its loop was canceled, or Stop closed the        *)
(* channel and it was empty.                                               *)
ExitInv ==
    /\ chClosed => stopPc # "idle"
    /\ wpc = "drain" => cancelled
    /\ wpc \in {"exiting", "exited"} => cancelled \/ (chClosed /\ queue = <<>>)
    /\ done => wpc = "exited"
    /\ ~startUsed => wpc = "none"

(* Who counts as a success has its row while the peer exists, who was told *)
(* too, and an item without an error has left out no affected peer.        *)
RowInv ==
    /\ \A w \in Works : \A p \in (succ[w] \cup told[w]) \cap present : <<p, KeyOf[w]>> \in rows
    /\ \A w \in Works : phase[w] \in {"insert", "finished"} /\ ~errs[w] =>
          Affected[w] \subseteq todo[w] \cup succ[w]
    /\ \A w \in Works : phase[w] = "finished" => todo[w] = {}
    /\ \A w \in Works : pc[w] = "ok" => ~errs[w]

FullInv == IInv /\ RunInv /\ ExitInv /\ RowInv

(* Beginning to process an item resets its results and touches no other.   *)
LEMMA BeginEffect ==
  ASSUME TypeOK, NEW w \in Works, Begin(w)
  PROVE  /\ phase'[w] = IF w \in GroupWorks THEN "resolve" ELSE "insert"
         /\ todo'[w] = Affected[w] /\ succ'[w] = {} /\ errs'[w] = FALSE
         /\ runs'[w] = runs[w] + 1
         /\ \A v \in Works \ {w} :
               /\ phase'[v] = phase[v] /\ todo'[v] = todo[v] /\ succ'[v] = succ[v]
               /\ errs'[v] = errs[v] /\ runs'[v] = runs[v]
BY DEF TypeOK, Begin

(* The first run of a work begins.                                         *)
LEMMA FirstRun ==
  ASSUME TypeOK, NEW w \in Works, Begin(w), runs[w] = 0
  PROVE  /\ runs'[w] = 1 /\ phase'[w] \in {"resolve", "insert"}
         /\ \A v \in Works \ {w} : runs'[v] = runs[v] /\ phase'[v] = phase[v]
<1>1. runs'[w] = 1
  BY DEF TypeOK, Begin
<1>2. phase'[w] \in {"resolve", "insert"}
  BY DEF TypeOK, Begin
<1>3. \A v \in Works \ {w} : runs'[v] = runs[v] /\ phase'[v] = phase[v]
  BY DEF TypeOK, Begin
<1> QED
  BY <1>1, <1>2, <1>3

(* Every step keeps RunInv.                                                *)
LEMMA StepRunInv ==
  ASSUME IInv, RunInv, [Next]_vars
  PROVE  RunInv'
<1>0. TypeOK /\ OwnerInv
  BY DEF IInv
<1>1. /\ \A i \in 1..Len(queue) : queue[i] \in Works
      /\ cur \in Works \cup {NoWork} /\ NoWork \notin Works
      /\ \A w \in Works : runs[w] \in Nat /\ phase[w] \in Phases /\ pc[w] \in CallStates
  BY <1>0, ChangeWorkerAssumption DEF TypeOK
<1>e. ASSUME NEW w \in Works, Check(w) PROVE RunInv'
  <2>1. /\ pc[w] = "idle" /\ queue' = queue /\ cur' = cur /\ runs[w] = 0
        /\ \A v \in Works \ {w} : pc'[v] = pc[v]
    BY <1>0, <1>e DEF TypeOK, Check, OwnerInv
  <2>2. CASE Begin(w) /\ pc'[w] = "sync"
    <3>1. /\ runs'[w] = 1 /\ phase'[w] \in {"resolve", "insert"}
          /\ \A v \in Works \ {w} : runs'[v] = runs[v] /\ phase'[v] = phase[v]
      BY <1>0, <2>1, <2>2, FirstRun
    <3> QED
      BY <1>1, <2>1, <2>2, <3>1 DEF RunInv
  <2>3. CASE pc'[w] = "locked" /\ UNCHANGED work
    BY <1>1, <2>1, <2>3 DEF RunInv, work
  <2> QED
    BY <1>0, <1>e, <2>2, <2>3 DEF Check, TypeOK
<1>f. ASSUME NEW w \in Works, Send(w) PROVE RunInv'
  <2>1. /\ pc[w] = "locked" /\ cur' = cur /\ runs[w] = 0
        /\ \A v \in Works \ {w} : pc'[v] = pc[v]
    BY <1>0, <1>f DEF TypeOK, Send, OwnerInv
  <2>2. CASE Begin(w) /\ pc'[w] = "sync" /\ queue' = queue
    <3>1. /\ runs'[w] = 1 /\ phase'[w] \in {"resolve", "insert"}
          /\ \A v \in Works \ {w} : runs'[v] = runs[v] /\ phase'[v] = phase[v]
      BY <1>0, <2>1, <2>2, FirstRun
    <3> QED
      BY <1>1, <2>1, <2>2, <3>1 DEF RunInv
  <2>3. CASE pc'[w] = "acked" /\ queue' = Append(queue, w) /\ UNCHANGED work
    <3>1. /\ Len(queue) \in Nat /\ Len(queue') = Len(queue) + 1 /\ queue'[Len(queue) + 1] = w
          /\ \A i \in 1..Len(queue) : queue'[i] = queue[i]
      BY <1>0, <2>3 DEF TypeOK
    <3>2. phase' = phase /\ runs' = runs
      BY <2>3 DEF work
    <3>3. \A v \in Works : (\E i \in 1..Len(queue) : queue[i] = v) => \E i \in 1..Len(queue') : queue'[i] = v
      BY <3>1
    <3>4. \E i \in 1..Len(queue') : queue'[i] = w
      BY <3>1
    <3>5. \A v \in Works : pc'[v] = "acked" =>
            (\E i \in 1..Len(queue') : queue'[i] = v) \/ cur = v \/ phase[v] = "finished"
      BY <2>1, <3>3, <3>4 DEF RunInv
    <3> QED
      BY <1>1, <2>1, <2>3, <3>2, <3>5 DEF RunInv
  <2> QED
    BY <1>0, <1>f, <2>2, <2>3 DEF Send, TypeOK
<1>g. CASE Receive
  <2>1. PICK h \in Works : h = Head(queue) /\ h = queue[1]
    BY <1>0, <1>g DEF TypeOK, Receive
  <2>2. /\ Len(queue) \in Nat /\ Len(queue) > 0 /\ Len(queue') = Len(queue) - 1
        /\ \A i \in 1..Len(queue') : queue'[i] = queue[i + 1]
        /\ cur' = h /\ cur = NoWork /\ pc' = pc /\ Begin(h)
    BY <1>0, <1>g, <2>1 DEF TypeOK, Receive
  <2>3. pc[h] = "acked" /\ runs[h] = 0
    BY <1>0, <2>1, <2>2 DEF OwnerInv
  <2>4. /\ runs'[h] = 1 /\ phase'[h] \in {"resolve", "insert"}
        /\ \A v \in Works \ {h} : runs'[v] = runs[v] /\ phase'[v] = phase[v]
    BY <1>0, <2>2, <2>3, FirstRun
  <2>5. ASSUME NEW v \in Works, pc'[v] = "acked"
        PROVE  (\E i \in 1..Len(queue') : queue'[i] = v) \/ cur' = v \/ phase'[v] = "finished"
    <3>1. CASE v = h
      BY <3>1, <2>2
    <3>2. CASE v # h /\ \E i \in 1..Len(queue) : queue[i] = v
      <4>1. PICK i \in 1..Len(queue) : queue[i] = v
        BY <3>2
      <4>2. i # 1
        BY <4>1, <3>2, <2>1
      <4>3. (i - 1) \in 1..Len(queue') /\ queue'[i - 1] = v
        <5>1. (i - 1) \in 1..Len(queue')
          BY <2>2, <4>2
        <5>2. queue'[i - 1] = queue[(i - 1) + 1] /\ (i - 1) + 1 = i
          BY <2>2, <5>1
        <5> QED
          BY <5>1, <5>2, <4>1
      <4> QED
        BY <4>3
    <3>3. CASE v # h /\ phase[v] = "finished"
      BY <3>3, <2>4
    <3> QED
      BY <3>1, <3>2, <3>3, <2>2, <2>5, <1>1 DEF RunInv
  <2> QED
    BY <1>1, <2>2, <2>3, <2>4, <2>5 DEF RunInv
<1>k. ASSUME NEW w \in Works, ResolveGroup(w) PROVE RunInv'
  <2>1. /\ phase[w] = "resolve" /\ phase'[w] = "insert"
        /\ \A v \in Works \ {w} : phase'[v] = phase[v]
        /\ UNCHANGED <<queue, cur, pc, runs>>
    BY <1>0, <1>k DEF TypeOK, ResolveGroup
  <2> QED
    BY <1>1, <2>1 DEF RunInv
<1>n. ASSUME NEW w \in Works, Finish(w) PROVE RunInv'
  <2>1. /\ phase[w] = "insert" /\ phase'[w] = "finished"
        /\ \A v \in Works \ {w} : phase'[v] = phase[v] /\ pc'[v] = pc[v]
        /\ UNCHANGED <<queue, runs>>
        /\ \/ pc[w] = "sync" /\ pc'[w] \in {"ok", "err"} /\ cur' = cur
           \/ pc[w] # "sync" /\ pc' = pc /\ cur' = NoWork
    BY <1>0, <1>n DEF TypeOK, Finish
  <2>2. runs[w] # 0
    BY <2>1 DEF RunInv
  <2>3. CASE pc[w] = "sync" /\ pc'[w] \in {"ok", "err"} /\ cur' = cur
    BY <1>1, <2>1, <2>2, <2>3 DEF RunInv
  <2>4. CASE pc[w] # "sync" /\ pc' = pc /\ cur' = NoWork
    <3>1. pc[w] = "acked"
      BY <1>0, <1>1, <2>1, <2>2, <2>4 DEF RunInv, OwnerInv, CallStates
    <3>2. \A i \in 1..Len(queue) : queue[i] # w
      BY <1>0, <2>2 DEF OwnerInv
    <3>3. cur = w
      BY <2>1, <3>1, <3>2 DEF RunInv
    <3> QED
      BY <1>1, <2>1, <2>2, <2>4, <3>1, <3>3 DEF RunInv
  <2> QED
    BY <2>1, <2>3, <2>4
<1>q. CASE UNCHANGED <<queue, runs, pc, phase, cur>>
  BY <1>q DEF RunInv
<1> QED
  BY <1>e, <1>f, <1>g, <1>k, <1>n, <1>q
  DEF Next, Call, Process, WorkerLoop, Quiescent, vars, work, Start, Cancel,
      Stop, StopReturn, CtxDone, Leave, CloseDone, InsertRow, InsertFails, DeletePeer

(* Every step keeps ExitInv.                                               *)
LEMMA StepExitInv ==
  ASSUME IInv, ExitInv, [Next]_vars
  PROVE  ExitInv'
<1>0. TypeOK /\ LockInv
  BY DEF IInv
<1>a. CASE Start
  BY <1>0, <1>a DEF ExitInv, Start, TypeOK
<1>b. CASE Cancel
  BY <1>0, <1>b DEF ExitInv, Cancel, TypeOK
<1>c. CASE Stop
  BY <1>0, <1>c DEF ExitInv, Stop, TypeOK
<1>d. CASE StopReturn
  BY <1>0, <1>d DEF ExitInv, StopReturn
<1>f. ASSUME NEW w \in Works, Send(w) PROVE ExitInv'
  BY <1>0, <1>f DEF ExitInv, LockInv, Send, lifecycle
<1>g. CASE Receive
  BY <1>0, <1>g DEF ExitInv, Receive, lifecycle
<1>h. CASE CtxDone \/ Leave \/ CloseDone
  BY <1>0, <1>h DEF ExitInv, CtxDone, Leave, CloseDone, lifecycle
<1>q. CASE UNCHANGED <<lifecycle, queue, wpc>>
  BY <1>q DEF ExitInv, lifecycle
<1> QED
  BY <1>a, <1>b, <1>c, <1>d, <1>f, <1>g, <1>h, <1>q
  DEF Next, Call, Process, WorkerLoop, Quiescent, vars, Check, ResolveGroup,
      InsertRow, InsertFails, Finish, DeletePeer

(* RowInv: a row is inserted before its peer counts as a success, and only *)
(* goes with the peer.                                                     *)
LEMMA StepRowInv ==
  ASSUME IInv, RunInv, RowInv, [Next]_vars
  PROVE  RowInv'
<1>0. TypeOK /\ OwnerInv
  BY DEF IInv
<1> DEFINE Recorded(w) == \A p \in (succ[w] \cup told[w]) \cap present : <<p, KeyOf[w]>> \in rows
           Complete(w) == phase[w] \in {"insert", "finished"} /\ ~errs[w] =>
                            Affected[w] \subseteq todo[w] \cup succ[w]
           Emptied(w)  == phase[w] = "finished" => todo[w] = {}
           Honest(w)   == pc[w] = "ok" => ~errs[w]
           Good(w) == Recorded(w) /\ Complete(w) /\ Emptied(w) /\ Honest(w)
<1>1. \A w \in Works : Good(w)
  BY DEF RowInv
<1>2. SUFFICES \A w \in Works : Good(w)'
  BY DEF RowInv
<1> DEFINE Kept(w) == /\ phase'[w] = phase[w] /\ todo'[w] = todo[w] /\ succ'[w] = succ[w]
                      /\ errs'[w] = errs[w] /\ pc'[w] = pc[w] /\ told'[w] = told[w]
<1>3. ASSUME NEW w \in Works, Kept(w), rows \subseteq rows', present' = present
      PROVE  Good(w)'
  BY <1>1, <1>3
<1>4. ASSUME NEW w \in Works, Begin(w), pc'[w] # "ok", told' = told, UNCHANGED database
      PROVE  Good(w)'
  <2>1. succ'[w] = {} /\ todo'[w] = Affected[w] /\ phase'[w] \in {"resolve", "insert"}
    BY <1>0, <1>4, BeginEffect
  <2>2. Recorded(w)'
    BY <1>1, <1>4, <2>1 DEF database
  <2> QED
    BY <1>4, <2>1, <2>2
<1>e. ASSUME NEW w \in Works, Check(w) \/ Send(w)
      PROVE  \A v \in Works : Good(v)'
  <2>1. /\ told' = told /\ UNCHANGED database
        /\ pc[w] \in {"idle", "locked"} /\ pc'[w] \in {"sync", "locked", "acked"}
        /\ \A v \in Works \ {w} : pc'[v] = pc[v]
        /\ Begin(w) \/ UNCHANGED work
    BY <1>0, <1>e DEF TypeOK, Check, Send
  <2>2. \A v \in Works \ {w} : Kept(v)
    BY <1>0, <2>1, BeginEffect DEF work
  <2>3. Good(w)'
    <3>1. CASE Begin(w)
      BY <3>1, <2>1, <1>4
    <3>2. CASE UNCHANGED work
      BY <3>2, <2>1, <1>1 DEF work, database
    <3> QED
      BY <3>1, <3>2, <2>1
  <2> QED
    BY <2>1, <2>2, <2>3, <1>3 DEF database
<1>g. CASE Receive
  <2>1. PICK h \in Works : h = Head(queue) /\ h = queue[1]
    BY <1>0, <1>g DEF TypeOK, Receive
  <2>2. Begin(h) /\ pc' = pc /\ told' = told /\ UNCHANGED database /\ pc[h] = "acked"
    <3>1. 1 \in 1..Len(queue)
      BY <1>0, <1>g DEF TypeOK, Receive
    <3> QED
      BY <1>0, <1>g, <2>1, <3>1 DEF Receive, OwnerInv
  <2>3. \A v \in Works \ {h} : Kept(v)
    BY <1>0, <2>2, BeginEffect
  <2> QED
    BY <2>2, <2>3, <1>3, <1>4 DEF database
<1>k. ASSUME NEW w \in Works, ResolveGroup(w)
      PROVE  \A v \in Works : Good(v)'
  <2>1. PICK resolved \in SUBSET Affected[w], failed \in BOOLEAN :
          /\ failed \/ resolved = Affected[w]
          /\ todo' = [todo EXCEPT ![w] = resolved]
          /\ errs' = [errs EXCEPT ![w] = failed]
    BY <1>k DEF ResolveGroup
  <2>2. /\ phase[w] = "resolve" /\ phase' = [phase EXCEPT ![w] = "insert"]
        /\ UNCHANGED <<pc, succ, told>> /\ UNCHANGED database
    BY <1>k DEF ResolveGroup
  <2>3. /\ todo'[w] = resolved /\ errs'[w] = failed /\ phase'[w] = "insert"
        /\ \A v \in Works \ {w} : Kept(v)
    BY <1>0, <2>1, <2>2 DEF TypeOK
  <2>4. Recorded(w)' /\ Emptied(w)'
    BY <1>1, <2>2, <2>3 DEF database
  <2>5. Complete(w)'
    BY <2>1, <2>3
  <2>6. Honest(w)'
    BY <2>2 DEF RunInv
  <2> QED
    BY <1>3, <2>2, <2>3, <2>4, <2>5, <2>6 DEF database
<1>l. ASSUME NEW w \in Works, NEW p \in Peers, InsertRow(w, p)
      PROVE  \A v \in Works : Good(v)'
  <2>1. /\ rows' = rows \cup {<<p, KeyOf[w]>>} /\ present' = present
        /\ todo'[w] = todo[w] \ {p} /\ succ'[w] = succ[w] \cup {p}
        /\ phase[w] = "insert" /\ UNCHANGED <<phase, errs, pc, told>>
        /\ \A v \in Works \ {w} : Kept(v)
    BY <1>0, <1>l DEF TypeOK, InsertRow
  <2>2. Recorded(w)'
    BY <1>1, <2>1
  <2>3. Complete(w)' /\ Emptied(w)' /\ Honest(w)'
    BY <1>1, <2>1
  <2> QED
    BY <1>3, <2>1, <2>2, <2>3
<1>m. ASSUME NEW w \in Works, NEW p \in Peers, InsertFails(w, p)
      PROVE  \A v \in Works : Good(v)'
  <2>1. /\ rows' = rows /\ present' = present /\ errs'[w] = TRUE
        /\ phase[w] = "insert" /\ UNCHANGED <<phase, succ, pc, told>>
        /\ \A v \in Works \ {w} : Kept(v)
    BY <1>0, <1>m DEF TypeOK, InsertFails, database
  <2>2. Recorded(w)'
    BY <1>1, <2>1
  <2>3. Complete(w)' /\ Emptied(w)'
    BY <2>1
  <2>4. Honest(w)'
    BY <2>1 DEF RunInv
  <2> QED
    BY <1>3, <2>1, <2>2, <2>3, <2>4
<1>n. ASSUME NEW w \in Works, Finish(w)
      PROVE  \A v \in Works : Good(v)'
  <2>1. /\ rows' = rows /\ present' = present /\ todo[w] = {}
        /\ phase[w] = "insert" /\ phase'[w] = "finished" /\ UNCHANGED <<succ, todo, errs>>
        /\ told'[w] \subseteq succ[w] \cap present
        /\ \A v \in Works \ {w} : Kept(v)
    BY <1>0, <1>n DEF TypeOK, Finish, NotifySet, database
  <2>2. Recorded(w)'
    BY <1>1, <2>1
  <2>3. Complete(w)' /\ Emptied(w)'
    BY <1>1, <2>1
  <2>4. Honest(w)'
    <3>1. CASE pc[w] = "sync"
      BY <1>0, <1>n, <3>1, <2>1 DEF Finish, TypeOK
    <3>2. CASE pc[w] # "sync"
      BY <1>1, <1>n, <3>2, <2>1 DEF Finish
    <3> QED
      BY <3>1, <3>2
  <2> QED
    BY <1>3, <2>1, <2>2, <2>3, <2>4
<1>o. ASSUME NEW p \in Peers, DeletePeer(p)
      PROVE  \A v \in Works : Good(v)'
  <2>1. /\ present' = present \ {p} /\ rows' = {r \in rows : r[1] # p}
        /\ \A v \in Works : Kept(v)
    BY <1>o DEF DeletePeer, work
  <2>2. ASSUME NEW v \in Works PROVE Recorded(v)'
    BY <1>1, <2>1
  <2>3. ASSUME NEW v \in Works PROVE Complete(v)' /\ Emptied(v)' /\ Honest(v)'
    BY <1>1, <2>1
  <2> QED
    BY <2>2, <2>3
<1>q. CASE UNCHANGED <<pc, work, database, told>>
  BY <1>q, <1>3 DEF work, database
<1> QED
  BY <1>e, <1>g, <1>k, <1>l, <1>m, <1>n, <1>o, <1>q
  DEF Next, Call, Process, WorkerLoop, Quiescent, vars, Start, Cancel,
      Stop, StopReturn, CtxDone, Leave, CloseDone

(* The inductive invariant holds.                                          *)
LEMMA Full == Spec => []FullInv
<1>1. Init => FullInv
  <2>1. Init => RunInv
    BY ChangeWorkerAssumption DEF Init, RunInv
  <2>2. Init => ExitInv
    BY DEF Init, ExitInv
  <2>3. Init => RowInv
    BY DEF Init, RowInv
  <2> QED
    BY <2>1, <2>2, <2>3, InitIInv DEF FullInv
<1>2. FullInv /\ [Next]_vars => FullInv'
  BY StepTypeOK, StepLockInv, StepOwnerInv, StepRunInv, StepExitInv, StepRowInv
  DEF FullInv, IInv
<1> QED
  BY <1>1, <1>2, PTL DEF Spec

(* An acknowledged change is never lost on the way: it is buffered and has *)
(* not run, in the hands of the worker, or processed.                      *)
THEOREM AckedNeverLost == Spec => []AckedAccounted
<1>1. FullInv => AckedAccounted
  <2> SUFFICES ASSUME FullInv, NEW w \in Works, pc[w] = "acked"
               PROVE  \/ w \in Buffered /\ runs[w] = 0
                      \/ w = cur /\ runs[w] = 1
                      \/ phase[w] = "finished"
    BY DEF AckedAccounted
  <2>1. CASE \E i \in 1..Len(queue) : queue[i] = w
    BY <2>1 DEF FullInv, IInv, OwnerInv, Buffered
  <2>2. CASE cur = w
    <3>1. runs[w] \in Nat /\ runs[w] <= 1 /\ w # NoWork
      BY ChangeWorkerAssumption DEF FullInv, IInv, TypeOK, OwnerInv
    <3>2. runs[w] # 0
      BY <2>2, <3>1 DEF FullInv, RunInv
    <3> QED
      BY <2>2, <3>1, <3>2
  <2> QED
    BY <2>1, <2>2 DEF FullInv, RunInv
<1> QED
  BY <1>1, Full, PTL

(* A worker that ends because of Stop, its context alive, leaves nothing   *)
(* buffered behind.                                                        *)
THEOREM StopLosesNothing == Spec => []StopDrainsQueue
<1>1. FullInv => StopDrainsQueue
  BY DEF FullInv, ExitInv, StopDrainsQueue
<1> QED
  BY <1>1, Full, PTL

(* When the synchronous fallback answers nil, every affected peer that     *)
(* still exists has its row.                                               *)
THEOREM SyncAckRecorded == Spec => []SyncAckHasRows
<1>1. FullInv => SyncAckHasRows
  <2> SUFFICES ASSUME FullInv, NEW w \in Works, pc[w] = "ok", NEW p \in Affected[w] \cap present
               PROVE  <<p, KeyOf[w]>> \in rows
    BY DEF SyncAckHasRows
  <2>1. phase[w] = "finished" /\ ~errs[w] /\ todo[w] = {}
    BY DEF FullInv, RunInv, RowInv
  <2>2. p \in succ[w]
    BY <2>1 DEF FullInv, RowInv
  <2> QED
    BY <2>2 DEF FullInv, RowInv
<1> QED
  BY <1>1, Full, PTL

(* No peer is signalled a change that it has no row for.                   *)
THEOREM SignalFollowsRow == Spec => []ToldHasRow
<1>1. FullInv => ToldHasRow
  BY DEF FullInv, RowInv, ToldHasRow
<1> QED
  BY <1>1, Full, PTL

-----------------------------------------------------------------------------
(* The refinement mapping of Handoff, one item at a time.                  *)
ExecOf(w) ==
    CASE phase[w] = "finished" -> "finished"
      [] runs[w] > 0 /\ phase[w] # "finished" -> "running"
      [] runs[w] = 0 /\ pc[w] = "acked" -> "queued"
      [] OTHER -> "none"

ReplyOf(w) ==
    CASE pc[w] \in {"acked", "ok"} -> "nil"
      [] pc[w] = "err" -> "error"
      [] OTHER -> "none"

(* A step that changes how the mapping sees one item is a step of the      *)
(* contract for this item; one that changes how it sees none is a stutter. *)
LEMMA MappedStep ==
  ASSUME NEW w \in Works,
         \A v \in Works \ {w} : ExecOf(v)' = ExecOf(v) /\ ReplyOf(v)' = ReplyOf(v),
         \/ /\ ExecOf(w) = "none" /\ ReplyOf(w) = "none"
            /\ ExecOf(w)' = "queued" /\ ReplyOf(w)' = "nil"
         \/ /\ ExecOf(w) \in {"none", "queued"} /\ ExecOf(w)' = "running"
            /\ ReplyOf(w)' = ReplyOf(w)
         \/ /\ ExecOf(w) = "running" /\ ExecOf(w)' = "finished"
            /\ IF ReplyOf(w) = "none" THEN ReplyOf(w)' \in {"nil", "error"}
                                      ELSE ReplyOf(w)' = ReplyOf(w)
         \/ ExecOf(w)' = ExecOf(w) /\ ReplyOf(w)' = ReplyOf(w)
  PROVE  [Handoff!Next]_(Handoff!vars)
<1> DEFINE ex == [v \in Works |-> ExecOf(v)]
           re == [v \in Works |-> ReplyOf(v)]
<1>1. CASE /\ ExecOf(w) = "none" /\ ReplyOf(w) = "none"
           /\ ExecOf(w)' = "queued" /\ ReplyOf(w)' = "nil"
  <2>1. ex' = [ex EXCEPT ![w] = "queued"] /\ re' = [re EXCEPT ![w] = "nil"]
    BY <1>1
  <2>2. Handoff!Accept(w)
    BY <1>1, <2>1 DEF Handoff!Accept, ExecOf, ReplyOf
  <2> QED
    BY <2>2 DEF Handoff!Next
<1>2. CASE /\ ExecOf(w) \in {"none", "queued"} /\ ExecOf(w)' = "running"
           /\ ReplyOf(w)' = ReplyOf(w)
  <2>1. ex' = [ex EXCEPT ![w] = "running"] /\ re' = re
    BY <1>2
  <2>2. Handoff!Run(w)
    BY <1>2, <2>1 DEF Handoff!Run, ExecOf, ReplyOf
  <2> QED
    BY <2>2 DEF Handoff!Next
<1>3. CASE /\ ExecOf(w) = "running" /\ ExecOf(w)' = "finished"
           /\ IF ReplyOf(w) = "none" THEN ReplyOf(w)' \in {"nil", "error"}
                                     ELSE ReplyOf(w)' = ReplyOf(w)
  <2>1. ex' = [ex EXCEPT ![w] = "finished"]
    BY <1>3
  <2>2. IF re[w] = "none" THEN \E r \in {"nil", "error"} : re' = [re EXCEPT ![w] = r]
                          ELSE re' = re
    <3>1. re' = [re EXCEPT ![w] = ReplyOf(w)']
      OBVIOUS
    <3> QED
      BY <1>3, <3>1
  <2>3. Handoff!End(w)
    BY <1>3, <2>1, <2>2 DEF Handoff!End, ExecOf, ReplyOf
  <2> QED
    BY <2>3 DEF Handoff!Next
<1>4. CASE ExecOf(w)' = ExecOf(w) /\ ReplyOf(w)' = ReplyOf(w)
  <2>1. ex' = ex /\ re' = re
    BY <1>4
  <2> QED
    BY <2>1 DEF Handoff!vars, ExecOf, ReplyOf
<1> QED
  BY <1>1, <1>2, <1>3, <1>4

(* A step that changes neither run nor reply is a stutter of the handoff.  *)
LEMMA MappedStutter ==
  ASSUME \A v \in Works : ExecOf(v)' = ExecOf(v) /\ ReplyOf(v)' = ReplyOf(v)
  PROVE  [Handoff!Next]_(Handoff!vars)
<1> DEFINE ex == [v \in Works |-> ExecOf(v)]
           re == [v \in Works |-> ReplyOf(v)]
<1>1. ex' = ex /\ re' = re
  OBVIOUS
<1> QED
  BY <1>1 DEF Handoff!vars, ExecOf, ReplyOf

(* Every step is a step of the handoff or a stutter.                       *)
LEMMA StepHandoff ==
  ASSUME FullInv, [Next]_vars
  PROVE  [Handoff!Next]_(Handoff!vars)
<1>0. TypeOK /\ OwnerInv /\ RunInv
  BY DEF FullInv, IInv
<1>1. \A w \in Works : runs[w] \in Nat /\ runs[w] <= 1 /\ phase[w] \in Phases /\ pc[w] \in CallStates
  BY <1>0 DEF TypeOK, OwnerInv
<1>2. ASSUME NEW v \in Works, phase'[v] = phase[v], runs'[v] = runs[v], pc'[v] = pc[v]
      PROVE  ExecOf(v)' = ExecOf(v) /\ ReplyOf(v)' = ReplyOf(v)
  BY <1>2 DEF ExecOf, ReplyOf
<1>3. ASSUME NEW w \in Works, pc[w] \in {"idle", "locked"}
      PROVE  ExecOf(w) = "none" /\ ReplyOf(w) = "none" /\ runs[w] = 0 /\ phase[w] = "none"
  <2>1. runs[w] = 0 /\ phase[w] = "none"
    BY <1>0, <1>3 DEF OwnerInv, RunInv
  <2> QED
    BY <1>3, <2>1 DEF ExecOf, ReplyOf
(* A call that runs its item itself begins to: Run.                        *)
<1>4. ASSUME NEW w \in Works, pc[w] \in {"idle", "locked"}, pc' = [pc EXCEPT ![w] = "sync"], Begin(w)
      PROVE  [Handoff!Next]_(Handoff!vars)
  <2>1. ExecOf(w) = "none" /\ ReplyOf(w) = "none" /\ runs[w] = 0
    BY <1>3, <1>4
  <2>2. /\ runs'[w] = 1 /\ phase'[w] \in {"resolve", "insert"}
        /\ \A v \in Works \ {w} : runs'[v] = runs[v] /\ phase'[v] = phase[v]
    BY <1>0, <1>4, <2>1, FirstRun
  <2>3. pc'[w] = "sync" /\ \A v \in Works \ {w} : pc'[v] = pc[v]
    BY <1>0, <1>4 DEF TypeOK
  <2>4. ExecOf(w)' = "running" /\ ReplyOf(w)' = "none"
    BY <2>2, <2>3 DEF ExecOf, ReplyOf
  <2> QED
    BY <1>2, <2>1, <2>2, <2>3, <2>4, MappedStep
(* Check: the item is run, or nothing is decided yet.                      *)
<1>e. ASSUME NEW w \in Works, Check(w)
      PROVE  [Handoff!Next]_(Handoff!vars)
  <2>1. CASE pc' = [pc EXCEPT ![w] = "sync"] /\ Begin(w)
    BY <1>4, <1>e, <2>1 DEF Check
  <2>2. CASE pc' = [pc EXCEPT ![w] = "locked"] /\ UNCHANGED work
    <3>1. /\ pc[w] = "idle" /\ pc'[w] = "locked" /\ \A v \in Works \ {w} : pc'[v] = pc[v]
          /\ runs' = runs /\ phase' = phase
      BY <1>0, <1>e, <2>2 DEF TypeOK, Check, work
    <3>2. ExecOf(w)' = ExecOf(w) /\ ReplyOf(w)' = ReplyOf(w)
      BY <1>3, <3>1 DEF ExecOf, ReplyOf
    <3> QED
      BY <1>2, <3>1, <3>2, MappedStutter
  <2> QED
    BY <1>e, <2>1, <2>2 DEF Check
(* Send: Accept when the item is buffered, Run when the channel is full.   *)
<1>f. ASSUME NEW w \in Works, Send(w)
      PROVE  [Handoff!Next]_(Handoff!vars)
  <2>1. CASE pc' = [pc EXCEPT ![w] = "sync"] /\ Begin(w)
    BY <1>4, <1>f, <2>1 DEF Send
  <2>2. CASE pc' = [pc EXCEPT ![w] = "acked"] /\ UNCHANGED work
    <3>1. /\ pc[w] = "locked" /\ pc'[w] = "acked" /\ \A v \in Works \ {w} : pc'[v] = pc[v]
          /\ runs' = runs /\ phase' = phase
      BY <1>0, <1>f, <2>2 DEF TypeOK, Send, work
    <3>2. /\ ExecOf(w) = "none" /\ ReplyOf(w) = "none" /\ runs[w] = 0 /\ phase[w] = "none"
      BY <1>3, <3>1
    <3>3. ExecOf(w)' = "queued" /\ ReplyOf(w)' = "nil"
      BY <3>1, <3>2 DEF ExecOf, ReplyOf
    <3> QED
      BY <1>2, <3>1, <3>2, <3>3, MappedStep
  <2> QED
    BY <1>f, <2>1, <2>2 DEF Send
(* Receive: Run of a queued item.                                          *)
<1>g. CASE Receive
  <2>1. PICK h \in Works : h = Head(queue) /\ h = queue[1] /\ 1 \in 1..Len(queue)
    BY <1>0, <1>g DEF TypeOK, Receive
  <2>2. Begin(h) /\ pc' = pc /\ pc[h] = "acked" /\ runs[h] = 0 /\ phase[h] = "none"
    BY <1>0, <1>g, <2>1 DEF Receive, OwnerInv, RunInv
  <2>3. /\ runs'[h] = 1 /\ phase'[h] \in {"resolve", "insert"}
        /\ \A v \in Works \ {h} : runs'[v] = runs[v] /\ phase'[v] = phase[v]
    BY <1>0, <2>2, FirstRun
  <2>4. ExecOf(h) = "queued" /\ ExecOf(h)' = "running" /\ ReplyOf(h)' = ReplyOf(h)
    BY <2>2, <2>3 DEF ExecOf, ReplyOf
  <2> QED
    BY <1>2, <2>2, <2>3, <2>4, MappedStep
(* Inside the processing of an item the contract sees nothing.             *)
<1>k. ASSUME NEW w \in Works, ResolveGroup(w)
      PROVE  [Handoff!Next]_(Handoff!vars)
  <2>1. /\ phase[w] = "resolve" /\ phase'[w] = "insert" /\ pc' = pc /\ runs' = runs
        /\ \A v \in Works \ {w} : phase'[v] = phase[v]
    BY <1>0, <1>k DEF TypeOK, ResolveGroup
  <2>2. runs[w] # 0
    BY <1>0, <2>1 DEF RunInv
  <2>3. ExecOf(w)' = ExecOf(w) /\ ReplyOf(w)' = ReplyOf(w)
    BY <2>1, <2>2 DEF ExecOf, ReplyOf
  <2> QED
    BY <1>2, <2>1, <2>3, MappedStutter
(* Finish: End, with the outcome for a caller that still waits.            *)
<1>n. ASSUME NEW w \in Works, Finish(w)
      PROVE  [Handoff!Next]_(Handoff!vars)
  <2>1. /\ phase[w] = "insert" /\ phase'[w] = "finished" /\ runs' = runs
        /\ \A v \in Works \ {w} : phase'[v] = phase[v] /\ pc'[v] = pc[v]
        /\ \/ pc[w] = "sync" /\ pc'[w] \in {"ok", "err"}
           \/ pc[w] # "sync" /\ pc' = pc
    BY <1>0, <1>n DEF TypeOK, Finish
  <2>2. runs[w] > 0
    BY <1>0, <1>1, <2>1 DEF RunInv
  <2>3. ExecOf(w) = "running" /\ ExecOf(w)' = "finished"
    BY <2>1, <2>2 DEF ExecOf
  <2>4. CASE pc[w] = "sync" /\ pc'[w] \in {"ok", "err"}
    <3>1. ReplyOf(w) = "none" /\ ReplyOf(w)' \in {"nil", "error"}
      BY <2>4 DEF ReplyOf
    <3> QED
      BY <1>2, <2>1, <2>3, <3>1, MappedStep
  <2>5. CASE pc[w] # "sync" /\ pc' = pc
    <3>1. pc[w] = "acked"
      BY <1>0, <1>1, <2>1, <2>2, <2>5 DEF RunInv, OwnerInv, CallStates
    <3>2. ReplyOf(w) = "nil" /\ ReplyOf(w)' = "nil"
      BY <2>5, <3>1 DEF ReplyOf
    <3> QED
      BY <1>2, <2>1, <2>3, <3>2, MappedStep
  <2> QED
    BY <2>1, <2>4, <2>5
<1>q. CASE UNCHANGED <<pc, phase, runs>>
  BY <1>2, <1>q, MappedStutter
<1> QED
  BY <1>e, <1>f, <1>g, <1>k, <1>n, <1>q
  DEF Next, Call, Process, WorkerLoop, Quiescent, vars, work, Start, Cancel,
      Stop, StopReturn, CtxDone, Leave, CloseDone, InsertRow, InsertFails, DeletePeer

(* The worker implements the hand-off contract ChangeHandoff, for every    *)
(* instance: an item is queued or run once, and its answer is given once,  *)
(* when it is taken over or when its run is over.                          *)
THEOREM HandoffImplemented == Spec => ImplementsHandoff
<1>1. Init => Handoff!Init
  BY DEF Init, Handoff!Init
<1> QED
  BY <1>1, Full, StepHandoff, PTL DEF Spec, ImplementsHandoff, Handoff!Spec
=============================================================================
