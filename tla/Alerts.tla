------------------------------- MODULE Alerts -------------------------------
(***************************************************************************)
(* The alert system of the server: the monitor that watches heartbeats     *)
(* (src/internal/alerts/peer_monitor.go), the scheduler that evaluates the *)
(* rules (scheduler.go, evaluator.go), the detector of blocked traffic     *)
(* (spike_detector.go), the push worker and the requests that report an    *)
(* event themselves, and the processor through which all of them write     *)
(* alert_history and send mail (service.go, store/alert_store.go).         *)
(*                                                                         *)
(* Every source is a goroutine and works through its events one after      *)
(* another; any number of requests run at the same time.  Check the        *)
(* throttle, insert a pending row, send the mails, settle the row.  These  *)
(* are separate statements without a transaction around them, so sources   *)
(* interleave between them and a restart may fall between any two.         *)
(*                                                                         *)
(* Time is abstracted to the comparisons the code makes with it: whether a *)
(* heartbeat is older than the monitor's 90 seconds, whether a row is      *)
(* within its rule's throttle period (and, for bundle_deployed, within the *)
(* rule's window, which the seeded rule gives the same length), whether    *)
(* the monitor is within its grace period.  No query on alert_history sees *)
(* an older row, so the model keeps only the rows within their period.     *)
(* One rule per type, as seeded.                                           *)
(***************************************************************************)
EXTENDS Integers, FiniteSets

CONSTANTS
    Agents,        \* peers with an agent: is_manual = 0
    Requests,      \* request goroutines that may report an event of their own
    Imported,      \* manual peers an import has created, with status 'offline'
    Types,         \* the alert types of the rules in the table
    RuleSets,      \* the enabled rules an instance looks at, each with its peer_id
    Throttled,     \* those whose throttle_minutes is positive
    Threshold,     \* threshold_value of each rule
    LongOffline,   \* peers silent for at least peer_offline's threshold
    Levels,        \* numbers of blocked packets in a window
    MaxFails,      \* bound: failed pushes of a peer within a window
    MaxOutages,    \* bound: outages of an agent
    OutageRules,   \* bound: the rule sets with which agents fall silent
    MaxRows,       \* bound: rows within their period at the same time
    MaxBusy,       \* bound: alerts being processed at the same time
    MaxFaults      \* bound: restarts of the server and failed lookups of a throttle

AllPeers == Agents \cup Imported
AnyPeer == "any"      \* a rule without peer_id; an event with PeerID 0
None == "none"

\* The goroutines that call ProcessAlert: the loops of the scheduler, the peer
\* monitor, the spike detector and the push worker, and any request's.
Loops == {"scheduler", "monitor", "spike", "push"}
Sources == Loops \cup Requests

ASSUME AlertsAssumption ==
    /\ Agents \cap Imported = {} /\ Loops \cap Requests = {}
    /\ AnyPeer \notin AllPeers /\ None \notin AllPeers
    /\ None \notin Types /\ {"peer_offline", "peer_online"} \subseteq Types
    /\ \A rs \in RuleSets :
         DOMAIN rs \subseteq Types /\ \A type \in DOMAIN rs : rs[type] \in AllPeers \cup {AnyPeer}
    /\ Throttled \subseteq Types /\ LongOffline \subseteq AllPeers
    /\ Threshold \in [Types -> Nat]
    /\ Levels \subseteq Nat
    /\ {MaxFails, MaxOutages, MaxRows, MaxBusy, MaxFaults} \subseteq Nat

VARIABLES
    hb,        \* last_heartbeat of an agent: never, fresh or stale (90 s)
    statusOffline,     \* peers whose status column is 'offline'
    outages,   \* how often an agent fell silent (names the outage; bounded)
    peerStates,        \* the monitor's map; None: the peer is not in it
    offlineAlertSent,  \* the monitor's set of peers already reported
    offlinePeers,      \* what the first query of the running check returned
    checking,          \* the monitor is between its two queries
    grace,     \* the server started less than gracePeriod ago
    rules,     \* alert_rules: the enabled ones, with peer_id; nobody edits them here
    spikeQuiet,\* the detector's lastAlert is within its throttle period
    rows,      \* the rows of alert_history within their period, by id
    reported,  \* history: the transitions the monitor has recorded alerts of
    job,       \* where each source is
    missed,    \* history: the rows of its type inserted since a source's throttle check
    faults     \* restarts and failed lookups (bounded)

vars == <<hb, statusOffline, outages, peerStates, offlineAlertSent, offlinePeers, checking, grace,
          rules, spikeQuiet, rows, reported, job, missed, faults>>
monVars == <<peerStates, offlineAlertSent, offlinePeers, checking, grace>>
peerVars == <<hb, statusOffline, outages>>
alertVars == <<spikeQuiet, rows, reported, job, missed, faults>>

\* An event names the outage it reports, so that two reports of one outage
\* can be told apart from reports of two.
Event == [type : Types, peer : AllPeers \cup {AnyPeer}, outage : 0..MaxOutages]
NoEvent == [type |-> None, peer |-> AnyPeer, outage |-> 0]

\* blind: the event has passed the throttle check only because the lookup
\* failed.
Row == [ev : Event, src : Sources, status : {"pending", "sent", "failed"}, blind : BOOLEAN]

\* todo: the events the source has still to trigger; ev: the event that has
\* passed the throttle check; row: the row whose mails are being sent, or 0.
Idle == [todo |-> {}, ev |-> NoEvent, blind |-> FALSE, row |-> 0]
Waiting(s) == job[s].ev = NoEvent /\ job[s].row = 0
Free(s) == job[s] = Idle

\* Ids are used again once no row and no source refers to them.
Ids == 1 .. MaxRows + Cardinality(Sources)
JobState ==
    [todo : SUBSET Event, ev : Event \cup {NoEvent}, blind : BOOLEAN, row : Ids \cup {0}]
FreeIds == Ids \ (DOMAIN rows \cup {job[s].row : s \in Sources})

\* Bound: how many sources are past their throttle check at the same time.
CanStart == Cardinality({s \in Sources : ~ Waiting(s)}) < MaxBusy

TypeOK ==
    /\ hb \in [Agents -> {"never", "fresh", "stale"}]
    /\ statusOffline \subseteq AllPeers
    /\ outages \in [Agents -> 0..MaxOutages]
    /\ peerStates \in [Agents -> {"online", "offline", None}]
    /\ offlineAlertSent \subseteq Agents /\ offlinePeers \subseteq Agents
    /\ checking \in BOOLEAN /\ grace \in BOOLEAN /\ spikeQuiet \in BOOLEAN
    /\ rules \in RuleSets
    /\ reported \subseteq Event
    /\ faults \in 0..MaxFaults
    /\ DOMAIN rows \subseteq Ids /\ \A i \in DOMAIN rows : rows[i] \in Row
    /\ job \in [Sources -> JobState]
    /\ missed \in [Sources -> SUBSET Ids]

-----------------------------------------------------------------------------
(* Throttling and rule matching *)

\* MUTANT: only rows that were sent count.
CountsSentOnly(r) == r.status = "sent"

\* AlertStore.IsAlertThrottled: failed rows do not count, pending ones do.
Counts(r) == r.status \in {"sent", "pending"}

\* isRuleThrottled
IsRuleThrottled(type) ==
    type \in Throttled /\ \E i \in DOMAIN rows : rows[i].ev.type = type /\ Counts(rows[i])

\* isThrottled of the scheduler and of the service: the rule is not throttled,
\* or it is and the lookup fails, which both of them let pass (fail open).
Passes(type, blind) ==
    \/ ~ blind /\ ~ IsRuleThrottled(type) /\ UNCHANGED faults
    \/ /\ blind /\ IsRuleThrottled(type)
       /\ faults < MaxFaults /\ faults' = faults + 1

\* GetEnabledAlertRulesByType, for the one rule a type has.
HasEnabledRule(type) == type \in DOMAIN rules

AppliesToPeer(type, p) == p = AnyPeer \/ rules[type] \in {AnyPeer, p}

-----------------------------------------------------------------------------
(* ConditionEvaluator: the peers EvaluateRule may return an event for      *)

\* CheckBlockedSpike, in Go's division that truncates toward zero.
IsSpike(recent, previous, threshold) ==
    LET min == IF threshold > 0 THEN threshold ELSE 50 IN
    IF previous = 0 THEN recent > 10
    ELSE recent >= previous /\ ((recent - previous) * 100) \div previous >= min

EvaluatePeerOffline(p) == p \in statusOffline /\ p \in LongOffline

\* The rule for all peers starts from the peers with a failed push, the rule
\* for one peer counts that peer's failures whether there are any or not.
EvaluateBundleFailed(p, fails) ==
    /\ rules["bundle_failed"] = AnyPeer => fails > 0
    /\ fails >= Threshold["bundle_failed"]

EvaluateBlockedSpike(p, recent, previous) ==
    /\ rules["blocked_spike"] = AnyPeer => recent > 0
    /\ IsSpike(recent, previous, Threshold["blocked_spike"])

\* MUTANT: the query without its NOT EXISTS.
DeployedAgain(p, first) == first

\* A bundle was first applied in the window, unless the peer already has an alert
\* about a deployment in the window, whatever became of that alert.
EvaluateBundleDeployed(p, first) ==
    /\ first
    /\ ~ \E i \in DOMAIN rows :
            rows[i].ev.type = "bundle_deployed" /\ rows[i].ev.peer = p

\* What the queries of an evaluation may find about a peer: failed pushes,
\* blocked packets in this window and the one before, a first application.
Facts == [fails : 0..MaxFails, recent : Levels, previous : Levels, first : BOOLEAN]

EvaluateRule(type, p, found) ==
    /\ HasEnabledRule(type) /\ rules[type] \in {AnyPeer, p}
    /\ \/ type = "peer_offline" /\ EvaluatePeerOffline(p)
       \/ type = "bundle_failed" /\ EvaluateBundleFailed(p, found.fails)
       \/ type = "blocked_spike" /\ EvaluateBlockedSpike(p, found.recent, found.previous)
       \/ type = "bundle_deployed" /\ EvaluateBundleDeployed(p, found.first)

-----------------------------------------------------------------------------
(* One event of one source: throttle check, row, mails, settled row        *)

\* TriggerAlert, the part before ProcessAlert: the enabled rule of the event's
\* type has to apply to the peer, and its throttle has to let the event pass.
Concerns(e) == HasEnabledRule(e.type) /\ AppliesToPeer(e.type, e.peer)
Skips(e) == (Concerns(e) => IsRuleThrottled(e.type)) /\ UNCHANGED faults

\* The source goes on with e.
Takes(s, e) ==
    /\ missed' = [missed EXCEPT ![s] = {}]
    /\ \E blind \in BOOLEAN :
        /\ Passes(e.type, blind)
        /\ job' = [job EXCEPT ![s].todo = @ \ {e}, ![s].ev = e, ![s].blind = blind]

\* checkRule for one rule of CheckAllRules' round: evaluate it, and go on with
\* its event unless the rule is throttled.
CheckRule(type) ==
    /\ Free("scheduler") /\ CanStart
    /\ \E p \in AllPeers, found \in Facts :
         /\ EvaluateRule(type, p, found)
         /\ Takes("scheduler", [type |-> type, peer |-> p, outage |-> 0])
    /\ UNCHANGED <<peerVars, monVars, rules, spikeQuiet, rows, reported>>

\* The sources past their check of the same rule do not see the new row i of s.
Misses(s, i) ==
    [t \in Sources |-> IF t = s THEN {}
                       ELSE IF job[t].ev.type = job[s].ev.type THEN missed[t] \cup {i}
                       ELSE missed[t]]

NewRow(e, s, blind) == [ev |-> e, src |-> s, status |-> "pending", blind |-> blind]

\* ProcessAlert, first half: CreateAlertHistory.  It fails when the store does
\* or the source's context has expired; the event is then gone.
CreateAlertHistory(s) ==
    /\ job[s].ev # NoEvent
    /\ \/ \E i \in FreeIds :
          /\ \A k \in FreeIds : i <= k
          /\ Cardinality(DOMAIN rows) < MaxRows
          /\ rows' = [k \in DOMAIN rows \cup {i} |->
                        IF k = i THEN NewRow(job[s].ev, s, job[s].blind) ELSE rows[k]]
          /\ job' = [job EXCEPT ![s].ev = NoEvent, ![s].blind = FALSE, ![s].row = i]
          /\ reported' = reported \cup IF s = "monitor" THEN {job[s].ev} ELSE {}
          /\ missed' = Misses(s, i)
       \/ /\ job' = [job EXCEPT ![s].ev = NoEvent, ![s].blind = FALSE]
          /\ missed' = [missed EXCEPT ![s] = {}]
          /\ UNCHANGED <<rows, reported>>
    /\ UNCHANGED <<peerVars, monVars, rules, spikeQuiet, faults>>

\* UpdateAlertHistoryStatus.  It does nothing for a row deleted meanwhile.
Settled(i, status) ==
    IF i \in DOMAIN rows THEN [rows EXCEPT ![i].status = status] ELSE rows

\* ProcessAlert, second half: the mails and updateHistoryStatus.  A row is
\* failed at the first mail that is refused, and sent otherwise, mail switched
\* off and no administrator included.  A failure of the update is only logged.
SendAndSettle(s, status) ==
    LET i == job[s].row IN
    /\ i # 0
    /\ rows' \in {Settled(i, status), rows}
    /\ job' = [job EXCEPT ![s].row = 0]
    /\ spikeQuiet' = (spikeQuiet \/ (s = "spike" /\ status = "sent"))
    /\ UNCHANGED <<peerVars, monVars, rules, reported, missed, faults>>

-----------------------------------------------------------------------------
(* The sources *)

\* SpikeDetector.checkForSpike.  An event whose rule is throttled or disabled
\* is reported as triggered, so the detector takes it for its last alert.
CheckForSpike ==
    /\ Free("spike") /\ CanStart /\ ~ spikeQuiet
    /\ \E count \in Levels : count >= Threshold["blocked_spike"]
    /\ LET e == [type |-> "blocked_spike", peer |-> AnyPeer, outage |-> 0] IN
       \/ Concerns(e) /\ Takes("spike", e) /\ UNCHANGED spikeQuiet
       \/ Skips(e) /\ spikeQuiet' = TRUE /\ UNCHANGED <<job, missed>>
    /\ UNCHANGED <<peerVars, monVars, rules, rows, reported>>

\* A source reports an event about p right away; one whose rule is throttled or
\* disabled leaves no trace.
DirectTrigger(s, type, p) ==
    /\ Free(s) /\ CanStart
    /\ LET e == [type |-> type, peer |-> p, outage |-> 0] IN
       Concerns(e) /\ Takes(s, e)
    /\ UNCHANGED <<peerVars, monVars, rules, spikeQuiet, rows, reported>>

\* The request of a registration, of the update of one agent, or of all agents
\* one after another; requests run concurrently.
HandlerTrigger(q, p) ==
    \E type \in {"new_peer", "agent_updated"} : DirectTrigger(q, type, p)

\* triggerAlert of the push worker: the bundle of a peer did not compile or was
\* not delivered, or the agent was notified.
PushTrigger(p) ==
    \E type \in {"bundle_failed", "bundle_notified"} : DirectTrigger("push", type, p)

\* The next of the transitions the monitor found; one whose rule is throttled
\* or disabled is dropped.
MonitorTrigger(e) ==
    /\ Waiting("monitor") /\ CanStart /\ e \in job["monitor"].todo
    /\ \/ Concerns(e) /\ Takes("monitor", e)
       \/ Skips(e) /\ job' = [job EXCEPT !["monitor"].todo = @ \ {e}] /\ UNCHANGED missed
    /\ UNCHANGED <<peerVars, monVars, rules, spikeQuiet, rows, reported>>

\* MUTANT: a peer already reported is reported again.
ReportAgain(gone) == gone

\* triggerPeerOfflineAlert: a peer is marked as reported before anything is
\* sent, and not reported again while it is marked.
Report(gone) == gone \ offlineAlertSent

\* checkPeers, up to the alerts for peers that went offline.
CheckPeersOffline ==
    /\ Free("monitor") /\ ~ checking
    /\ LET off == {p \in Agents : hb[p] # "fresh"}
           gone == {p \in off : peerStates[p] = "online"}
       IN /\ offlinePeers' = off
          /\ offlineAlertSent' = offlineAlertSent \cup gone
          /\ job' = [job EXCEPT !["monitor"].todo =
                       {[type |-> "peer_offline", peer |-> p, outage |-> outages[p]] : p \in Report(gone)}]
    /\ checking' = TRUE
    /\ UNCHANGED <<peerVars, rules, peerStates, grace, spikeQuiet, rows, reported, missed, faults>>

\* The loop after the second query: previously offline, and neither query
\* contradicts that the peer is online now.
CameBack(p) == p \notin offlinePeers /\ peerStates[p] = "offline"

\* MUTANT: the map is updated with the peers that are online, not replaced.
MergedStates(on) == [p \in Agents |-> IF p \in on THEN "online" ELSE peerStates[p]]

\* The new map: a peer in both results is online, a peer in neither is left out.
NewStates(on) ==
    [p \in Agents |-> IF p \in on THEN "online" ELSE IF p \in offlinePeers THEN "offline" ELSE None]

\* checkPeers, the second query and the new map.  The query runs after the offline alerts were sent and may find the
\* check's ten seconds used up: the map then stays as it was.
CheckPeersOnline ==
    /\ Free("monitor") /\ checking
    /\ \/ LET on == {p \in Agents : hb[p] = "fresh"}
              back == {p \in on : CameBack(p)}
          IN /\ peerStates' = NewStates(on)
             /\ offlineAlertSent' = offlineAlertSent \ back
             /\ job' = [job EXCEPT !["monitor"].todo =
                   IF grace THEN {}
                   ELSE {[type |-> "peer_online", peer |-> p, outage |-> outages[p]] : p \in back}]
       \/ UNCHANGED <<peerStates, offlineAlertSent, job>>
    /\ checking' = FALSE /\ offlinePeers' = {}
    /\ UNCHANGED <<peerVars, rules, grace, spikeQuiet, rows, reported, missed, faults>>

-----------------------------------------------------------------------------
(* Agents, time, administrators, the process *)

\* UpdatePeerHeartbeat
Heartbeat(p) ==
    /\ hb[p] # "fresh"
    /\ hb' = [hb EXCEPT ![p] = "fresh"]
    /\ statusOffline' = statusOffline \ {p}
    /\ UNCHANGED <<outages, monVars, rules, alertVars>>

\* Ninety seconds without a heartbeat.
FallsSilent(p) ==
    /\ hb[p] = "fresh" /\ outages[p] < MaxOutages /\ rules \in OutageRules
    /\ hb' = [hb EXCEPT ![p] = "stale"]
    /\ outages' = [outages EXCEPT ![p] = @ + 1]
    /\ UNCHANGED <<statusOffline, monVars, rules, alertVars>>

\* startOfflineDetector's UPDATE, every 30 seconds: a peer that was online and
\* is silent.  A registered peer without a heartbeat keeps 'pending'.
DetectOffline ==
    /\ statusOffline' = statusOffline \cup {p \in Agents : hb[p] = "stale"}
    /\ statusOffline' # statusOffline
    /\ UNCHANGED <<hb, outages, monVars, rules, alertVars>>

SpikeQuietEnds ==
    /\ spikeQuiet /\ spikeQuiet' = FALSE
    /\ UNCHANGED <<peerVars, monVars, rules, rows, reported, job, missed, faults>>

GraceEnds ==
    /\ grace /\ grace' = FALSE
    /\ UNCHANGED <<peerVars, peerStates, offlineAlertSent, offlinePeers, checking, rules, alertVars>>

\* DeleteAlert, or the rule's throttle period since the row has passed.
DeleteAlert(i) ==
    /\ rows' = [k \in DOMAIN rows \ {i} |-> rows[k]]
    /\ UNCHANGED <<peerVars, monVars, rules, spikeQuiet, reported, job, missed, faults>>

ClearAllAlerts ==
    /\ rows # <<>> /\ rows' = <<>>
    /\ UNCHANGED <<peerVars, monVars, rules, spikeQuiet, reported, job, missed, faults>>

\* MUTANT: the monitor starts from an assumption instead of the table.
LoadAssumed(p) == "online"

\* loadPeerStates
LoadedState(p) == IF hb[p] = "fresh" THEN "online" ELSE "offline"

\* The process ends anywhere and starts again.  What was in memory is gone;
\* rows stay as they are.  The monitor loads the states of the peers, or gives
\* up after three attempts and starts from an empty map.
Restart ==
    /\ faults < MaxFaults /\ faults' = faults + 1
    /\ job' = [s \in Sources |-> Idle] /\ missed' = [s \in Sources |-> {}]
    /\ offlineAlertSent' = {} /\ offlinePeers' = {} /\ checking' = FALSE
    /\ grace' = TRUE /\ spikeQuiet' = FALSE
    /\ \/ peerStates' = [p \in Agents |-> LoadedState(p)]
       \/ peerStates' = [p \in Agents |-> None]
    /\ UNCHANGED <<peerVars, rules, rows, reported>>

Init ==
    /\ hb \in [Agents -> {"never", "fresh"}]
    /\ statusOffline = Imported
    /\ outages = [p \in Agents |-> 0]
    /\ peerStates = [p \in Agents |-> LoadedState(p)]
    /\ offlineAlertSent = {} /\ offlinePeers = {} /\ checking = FALSE
    /\ grace = TRUE /\ spikeQuiet = FALSE
    /\ rules \in RuleSets
    /\ rows = <<>> /\ reported = {}
    /\ job = [s \in Sources |-> Idle] /\ missed = [s \in Sources |-> {}]
    /\ faults = 0

Process(s) ==
    CreateAlertHistory(s) \/ \E st \in {"sent", "failed"} : SendAndSettle(s, st)

MonitorTriggers == \E e \in job["monitor"].todo : MonitorTrigger(e)

Next ==
    \/ \E s \in Sources : Process(s)
    \/ CheckPeersOffline \/ CheckPeersOnline \/ MonitorTriggers
    \/ \E t \in Types : CheckRule(t)
    \/ CheckForSpike
    \/ \E q \in Requests, p \in Agents : HandlerTrigger(q, p)
    \/ \E p \in Agents : PushTrigger(p) \/ Heartbeat(p) \/ FallsSilent(p)
    \/ \E i \in DOMAIN rows : DeleteAlert(i)
    \/ DetectOffline \/ SpikeQuietEnds \/ GraceEnds \/ ClearAllAlerts
    \/ Restart

\* The sources are goroutines that keep running, and the monitor's ticker fires
\* again and again.  Strong fairness where the code has no competitor: the
\* trigger only competes for the bound MaxBusy, and the second query of
\* checkPeers is assumed not to fail for ever.
Fairness ==
    /\ \A s \in Sources : WF_vars(Process(s))
    /\ WF_vars(CheckPeersOffline)
    /\ SF_vars(MonitorTriggers)
    /\ SF_vars(CheckPeersOnline /\ peerStates' # peerStates)

Spec == Init /\ [][Next]_vars /\ Fairness

-----------------------------------------------------------------------------
(* Properties *)

\* Operators hear of an outage once and of its end once: no two rows of the
\* peer monitor report the same transition of the same agent, though the
\* second query of checkPeers may fail after the alert went out, a heartbeat
\* may fall between the two queries, and the map of the monitor is lost and
\* rebuilt by a restart.
OneAlertPerTransition ==
    [][\A i \in DOMAIN rows' \ DOMAIN rows :
          rows'[i].src = "monitor" => rows'[i].ev \notin reported]_vars

\* IsAlertThrottled and the insertion are not one transaction, and in between
\* any number of goroutines may look.  A throttled rule still lets through only
\* what raced: when an alert of it is recorded, every alert that counts in the
\* period was recorded after this one's lookup, however long its mails take
\* and whoever has been restarted meanwhile; a failed lookup is let pass.
ThrottledUnlessRaced ==
    [][\A i \in DOMAIN rows' \ DOMAIN rows :
          (rows'[i].ev.type \in Throttled /\ ~ rows'[i].blind)
          => \A k \in DOMAIN rows :
                (rows[k].ev.type = rows'[i].ev.type /\ rows[k].status # "failed")
                => k \in missed[rows'[i].src]]_vars

\* What the comment on TriggerAlert says (service.go): alerts triggered directly
\* do not bypass throttling and create no duplicate history.
NoDuplicateHistory ==
    \A i, j \in DOMAIN rows :
        (/\ i # j /\ rows[i].ev.type = rows[j].ev.type /\ rows[i].ev.type \in Throttled
         /\ ~ rows[i].blind /\ ~ rows[j].blind)
        => "failed" \in {rows[i].status, rows[j].status}

\* A deployment is announced once per window, without the help of a throttle:
\* the row that announces it keeps the next rounds of the scheduler quiet even
\* if its mails failed or the server was restarted before it was settled.
DeployedOnce ==
    \A i, j \in DOMAIN rows :
        (i # j /\ rows[i].ev.type = "bundle_deployed" /\ rows[j].ev.type = "bundle_deployed")
        => rows[i].ev.peer # rows[j].ev.peer

\* An agent that stays silent is eventually offline in the monitor's map too,
\* or the map has lost it to a restart.
SilenceNoticed ==
    \A p \in Agents : (hb[p] = "stale" /\ peerStates[p] = "online")
                      ~> (hb[p] = "fresh" \/ peerStates[p] # "online")
=============================================================================
