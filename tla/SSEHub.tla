------------------------------- MODULE SSEHub -------------------------------
(***************************************************************************)
(* internal/api/events/hub.go and the handler of the agents' event stream  *)
(* (MakeHandleSSEventsHandler in internal/api/agents/handlers.go).         *)
(*                                                                         *)
(* Every connection of an agent is served by one handler goroutine, which  *)
(* registers a fresh channel under the agent's host id, streams it, and    *)
(* unregisters the host id when it returns.  Notifiers look the entry up   *)
(* under mu, release the lock and send: NotifyBundleUpdated with a timed   *)
(* wait that no lock covers, counted in the entry's pending field, the     *)
(* others with a non-blocking trySend under sendMu.  An entry is closed by *)
(* whoever took it out of the map, after its pending count has drained.    *)
(*                                                                         *)
(* An entry is named by the connection that created it; a message is a     *)
(* unit of buffer space.  The dropped counter is left out.                 *)
(***************************************************************************)
EXTENDS Naturals, FiniteSets

CONSTANTS
    Hosts,      \* host ids
    Conns,      \* connections, each with its handler and its hostEntry
    HostOf,     \* HostOf[c]: the host that opens connection c
    NoConn,     \* no entry
    Senders,    \* calls of Notify...
    Timed,      \* the senders that call NotifyBundleUpdated
    SendsTo,    \* SendsTo[s]: the host that call s is about
    ChanCap     \* capacity of an entry's channel (4 in Register)

ASSUME SSEHubAssumption ==
    /\ NoConn \notin Conns
    /\ HostOf \in [Conns -> Hosts]
    /\ IsFiniteSet(Senders)
    /\ Timed \subseteq Senders
    /\ SendsTo \in [Senders -> Hosts]
    /\ ChanCap \in Nat \ {0}

VARIABLES
    clients,    \* SSEHub.clients
    buf,        \* number of messages buffered in each channel
    closed,     \* channels that have been closed
    pending,    \* hostEntry.pending
    hpc,        \* where each handler is
    closing,    \* the entry a handler is closing in closeHostEntry
    drained,    \* handlers whose poll has found pending <= 0
    gone,       \* connections whose client has disconnected
    replaced,   \* connections displaced by a later Register (history)
    spc,        \* where each notifier is
    target,     \* the entry a notifier copied out of the map
    outcome     \* the NotifyOutcome a notifier returns

hub == <<clients, buf, closed, pending>>
handler == <<hpc, closing, drained, gone, replaced>>
notifier == <<spc, target, outcome>>
vars == <<hub, handler, notifier>>

Entries == Conns \cup {NoConn}
HandlerStates ==
    {"new", "replacing", "streaming", "unregistering", "finished"}
SenderStates == {"idle", "sending", "check", "release", "done"}
Outcomes == {"none", "sent", "not_connected", "channel_full"}

(* The type of every variable.                                             *)
TypeOK ==
    /\ clients \in [Hosts -> Entries]
    /\ buf \in [Conns -> 0..ChanCap]
    /\ closed \in SUBSET Conns
    /\ pending \in [Conns -> Nat]
    /\ hpc \in [Conns -> HandlerStates]
    /\ closing \in [Conns -> Entries]
    /\ drained \in SUBSET Conns
    /\ gone \in SUBSET Conns
    /\ replaced \in SUBSET Conns
    /\ spc \in [Senders -> SenderStates]
    /\ target \in [Senders -> Entries]
    /\ outcome \in [Senders -> Outcomes]

Init ==
    /\ clients = [h \in Hosts |-> NoConn]
    /\ buf = [c \in Conns |-> 0]
    /\ closed = {}
    /\ pending = [c \in Conns |-> 0]
    /\ hpc = [c \in Conns |-> "new"]
    /\ closing = [c \in Conns |-> NoConn]
    /\ drained = {}
    /\ gone = {}
    /\ replaced = {}
    /\ spc = [s \in Senders |-> "idle"]
    /\ target = [s \in Senders |-> NoConn]
    /\ outcome = [s \in Senders |-> "none"]

-----------------------------------------------------------------------------
(* The handler of one agent connection.                                    *)

(* A Register that closes the existing entry first and puts the new one    *)
(* into the map afterwards.                                                *)
RegisterCloseFirst(c) ==
    LET old == clients[HostOf[c]] IN
    /\ hpc[c] = "new"
    /\ IF old # NoConn /\ old \notin closed
         THEN /\ pending[old] = 0
              /\ closed' = closed \cup {old}
              /\ replaced' = replaced \cup {old}
              /\ UNCHANGED <<clients, hpc>>
         ELSE /\ clients' = [clients EXCEPT ![HostOf[c]] = c]
              /\ hpc' = [hpc EXCEPT ![c] = "streaming"]
              /\ UNCHANGED <<closed, replaced>>
    /\ UNCHANGED <<buf, pending, closing, drained, gone, notifier>>

(* A Register that overwrites the existing entry and never closes it.      *)
RegisterKeepingOld(c) ==
    LET old == clients[HostOf[c]] IN
    /\ hpc[c] = "new"
    /\ clients' = [clients EXCEPT ![HostOf[c]] = c]
    /\ hpc' = [hpc EXCEPT ![c] = "streaming"]
    /\ replaced' = replaced \cup ({old} \ {NoConn})
    /\ UNCHANGED <<buf, closed, pending, closing, drained, gone, notifier>>

(* Register under mu: the new entry replaces the existing one, which is    *)
(* then closed outside the lock.                                           *)
Register(c) ==
    LET old == clients[HostOf[c]] IN
    /\ hpc[c] = "new"
    /\ clients' = [clients EXCEPT ![HostOf[c]] = c]
    /\ closing' = [closing EXCEPT ![c] = old]
    /\ hpc' = [hpc EXCEPT ![c] = IF old = NoConn THEN "streaming"
                                                 ELSE "replacing"]
    /\ replaced' = replaced \cup ({old} \ {NoConn})
    /\ UNCHANGED <<buf, closed, pending, drained, gone, notifier>>

(* A closeHostEntry that does not wait for the timed sends.                *)
PollIgnoringPending(c) ==
    /\ closing[c] # NoConn
    /\ c \notin drained
    /\ drained' = drained \cup {c}
    /\ UNCHANGED <<hub, hpc, closing, gone, replaced, notifier>>

(* closeHostEntry, the polling loop: it ends when a poll under mu finds    *)
(* that no timed send is in flight.                                        *)
PollPending(c) ==
    /\ closing[c] # NoConn
    /\ c \notin drained
    /\ pending[closing[c]] = 0
    /\ drained' = drained \cup {c}
    /\ UNCHANGED <<hub, hpc, closing, gone, replaced, notifier>>

(* closeHostEntry, after the loop: the close under sendMu.  The handler    *)
(* goes on to stream (Register) or returns (Unregister).                   *)
CloseEntry(c) ==
    /\ closing[c] # NoConn
    /\ c \in drained
    /\ closed' = closed \cup {closing[c]}
    /\ closing' = [closing EXCEPT ![c] = NoConn]
    /\ drained' = drained \ {c}
    /\ hpc' = [hpc EXCEPT ![c] = IF @ = "replacing" THEN "streaming"
                                                    ELSE "finished"]
    /\ UNCHANGED <<clients, buf, pending, gone, replaced, notifier>>

(* The handler receives a message and writes it to the response.           *)
Stream(c) ==
    /\ hpc[c] = "streaming"
    /\ buf[c] > 0
    /\ buf' = [buf EXCEPT ![c] = @ - 1]
    /\ UNCHANGED <<clients, closed, pending, handler, notifier>>

(* The agent's end of the connection goes away.                            *)
Disconnect(c) ==
    /\ hpc[c] \in {"replacing", "streaming"}
    /\ c \notin gone
    /\ gone' = gone \cup {c}
    /\ UNCHANGED <<hub, hpc, closing, drained, replaced, notifier>>

(* What ends the streaming loop: the channel is closed and read empty, or  *)
(* the request context is done or a write fails.                           *)
MayReturn(c) ==
    /\ hpc[c] = "streaming"
    /\ (c \in closed /\ buf[c] = 0) \/ c \in gone

(* The handler returns; its deferred Unregister(hostID) takes out whatever *)
(* entry the host id has now and goes on to close it.                      *)
Return(c) ==
    LET entry == clients[HostOf[c]] IN
    /\ MayReturn(c)
    /\ clients' = [clients EXCEPT ![HostOf[c]] = NoConn]
    /\ closing' = [closing EXCEPT ![c] = entry]
    /\ hpc' = [hpc EXCEPT ![c] = IF entry = NoConn THEN "finished"
                                                   ELSE "unregistering"]
    /\ UNCHANGED <<buf, closed, pending, drained, gone, replaced, notifier>>

-----------------------------------------------------------------------------
(* NotifyBundleUpdated (timed), and NotifyFetchBackup, NotifyUpdateAgent   *)
(* and NotifyPendingChangeAdded (trySend).                                 *)

(* The lookup under mu; a timed send is counted before mu is released.     *)
Lookup(s) ==
    LET entry == clients[SendsTo[s]] IN
    /\ spc[s] = "idle"
    /\ target' = [target EXCEPT ![s] = entry]
    /\ IF entry = NoConn
         THEN /\ spc' = [spc EXCEPT ![s] = "done"]
              /\ outcome' = [outcome EXCEPT ![s] = "not_connected"]
              /\ pending' = pending
         ELSE /\ spc' = [spc EXCEPT ![s] = "sending"]
              /\ outcome' = outcome
              /\ pending' = IF s \in Timed
                              THEN [pending EXCEPT ![entry] = @ + 1]
                              ELSE pending
    /\ UNCHANGED <<clients, buf, closed, handler>>

(* Where a call goes once it knows its outcome: a timed one still has to   *)
(* decrement pending.                                                      *)
Conclude(s, result) ==
    /\ outcome' = [outcome EXCEPT ![s] = result]
    /\ spc' = [spc EXCEPT ![s] = IF s \in Timed THEN "release" ELSE "done"]

(* The channel has room: the message is buffered.                          *)
SendBuffered(s) ==
    /\ spc[s] = "sending"
    /\ target[s] \notin closed
    /\ buf[target[s]] < ChanCap
    /\ buf' = [buf EXCEPT ![target[s]] = @ + 1]
    /\ Conclude(s, "sent")
    /\ UNCHANGED <<clients, closed, pending, handler, target>>

(* The channel is full, now (trySend) or for 100 ms (NotifyBundleUpdated). *)
SendFull(s) ==
    /\ spc[s] = "sending"
    /\ target[s] \notin closed
    /\ buf[target[s]] = ChanCap
    /\ spc' = [spc EXCEPT ![s] = "check"]
    /\ UNCHANGED <<hub, handler, target, outcome>>

(* The channel is closed: the send panics and is recovered, as a failed    *)
(* trySend or as a client that disconnected during the timed send.         *)
SendPanics(s) ==
    /\ spc[s] = "sending"
    /\ target[s] \in closed
    /\ IF s \in Timed
         THEN Conclude(s, "not_connected")
         ELSE spc' = [spc EXCEPT ![s] = "check"] /\ outcome' = outcome
    /\ UNCHANGED <<hub, handler, target>>

(* After a drop: is the host id still registered?                          *)
CheckRegistered(s) ==
    /\ spc[s] = "check"
    /\ Conclude(s, IF clients[SendsTo[s]] = NoConn THEN "not_connected"
                                                   ELSE "channel_full")
    /\ UNCHANGED <<hub, handler, target>>

(* A decrement that an early return skips.                                 *)
ReleaseSkipped(s) ==
    /\ spc[s] = "release"
    /\ pending' = IF outcome[s] = "sent"
                    THEN [pending EXCEPT ![target[s]] = @ - 1]
                    ELSE pending
    /\ spc' = [spc EXCEPT ![s] = "done"]
    /\ UNCHANGED <<clients, buf, closed, handler, target, outcome>>

(* The deferred decrement of pending.                                      *)
Release(s) ==
    /\ spc[s] = "release"
    /\ pending' = [pending EXCEPT ![target[s]] = @ - 1]
    /\ spc' = [spc EXCEPT ![s] = "done"]
    /\ UNCHANGED <<clients, buf, closed, handler, target, outcome>>

-----------------------------------------------------------------------------
Closer(c) == PollPending(c) \/ CloseEntry(c)

Handle(c) ==
    Register(c) \/ Closer(c) \/ Stream(c) \/ Disconnect(c) \/ Return(c)

Notify(s) ==
    \/ Lookup(s) \/ SendBuffered(s) \/ SendFull(s) \/ SendPanics(s)
    \/ CheckRegistered(s) \/ Release(s)

(* Connections and notifications of a run are finite in number; when all   *)
(* are served the hub simply waits for more.                               *)
AllServed ==
    /\ \A c \in Conns : hpc[c] \in {"streaming", "finished"}
    /\ \A s \in Senders : spc[s] = "done"
    /\ UNCHANGED vars

Next ==
    \/ \E c \in Conns : Handle(c)
    \/ \E s \in Senders : Notify(s)
    \/ AllServed

Spec == Init /\ [][Next]_vars

(* Handlers read their channel and return when they can, closers poll and  *)
(* close, a notifier that is past its lookup goes on (the 100 ms timer     *)
(* bounds the timed send).  Connecting, disconnecting and the start of a   *)
(* notification are up to the environment.                                 *)
Fairness ==
    /\ \A c \in Conns : /\ WF_vars(Closer(c))
                        /\ WF_vars(Stream(c))
                        /\ WF_vars(Return(c))
    /\ \A s \in Senders : WF_vars(spc[s] # "idle" /\ Notify(s))

FairSpec == Spec /\ Fairness

-----------------------------------------------------------------------------
(* Properties.                                                             *)

(* "Closes wait for pending to drain, so the send is ordered before any    *)
(* concurrent close" (NotifyBundleUpdated): the timed send, which holds no *)
(* lock, never meets a closed channel; its recover is never needed.        *)
NoTimedSendOnClosed ==
    \A s \in Timed : spc[s] = "sending" => target[s] \notin closed

(* An entry in the map has an open channel, and its handler is still there *)
(* to stream it and to take it out again: nothing stays registered without *)
(* a reader.                                                               *)
RegisteredServed ==
    \A h \in Hosts : clients[h] # NoConn =>
        /\ clients[h] \notin closed
        /\ hpc[clients[h]] \in {"replacing", "streaming"}

(* Each entry is closed by exactly one goroutine, so the redundant close   *)
(* that safeClose tolerates never happens to an agent channel.             *)
ClosedOnce ==
    \A c \in Conns : closing[c] # NoConn =>
        /\ closing[c] \notin closed
        /\ \A d \in Conns \ {c} : closing[d] # closing[c]

(* closeHostEntry waits without a bound: still, however the timed sends    *)
(* interleave with registrations, no Register or Unregister polls for ever.*)
ClosersFinish ==
    \A c \in Conns : (closing[c] # NoConn) ~> (closing[c] = NoConn)

(* "The previous consumer observes the close and shuts down" (Register).   *)
ReplacedShutsDown ==
    \A c \in Conns : (c \in replaced) ~> (hpc[c] = "finished")

(* The same comment read the other way: a re-registration shuts down the   *)
(* previous consumer, so a connection that nobody replaced and whose agent *)
(* is still there keeps its channel open.                                  *)
OnlyReplacedClosed ==
    \A c \in closed : c \in replaced \/ c \in gone
=============================================================================
