---------------------------- MODULE AlertsProofs ----------------------------
(***************************************************************************)
(* Proofs about Alerts for every set of peers, alert types, rules and      *)
(* throttles, and every bound on rows, outages and faults.                 *)
(*                                                                         *)
(* Between the lookup of the throttle and the insertion, rows of the same  *)
(* rule appear only as rows the source has missed, and a row is settled    *)
(* only by the source that inserted it, so that a row that does not count  *)
(* never counts again (RowInv).  What the lookup has found therefore still *)
(* holds of all rows but the missed ones when the source inserts its own   *)
(* (ThrottleInv); the deployments are the scheduler's alone, so what it    *)
(* has found of them holds of all rows (DeployInv).  The transitions the   *)
(* monitor has announced are those its marks and its map of states stand   *)
(* for (AnnouncedInv): a restart loses the marks, but then the map it      *)
(* loads says offline of every peer that is silent.                        *)
(***************************************************************************)
EXTENDS Alerts, TLAPS

(* A source that has an event in hand has no row in hand; the deployments  *)
(* are the scheduler's, the transitions the monitor's.                     *)
SourceInv ==
  /\ \A s \in Sources : job[s].ev # NoEvent => job[s].row = 0
  /\ \A s \in Sources : job[s].ev.type = "bundle_deployed" => s = "scheduler"
  /\ \A e \in job["monitor"].todo : e.type \in {"peer_offline", "peer_online"}

(* The row whose mails a source sends is its own and pending, or deleted.  *)
RowInv ==
  \A s \in Sources : job[s].row # 0 /\ job[s].row \in DOMAIN rows =>
    rows[job[s].row].status = "pending" /\ rows[job[s].row].src = s

(* A source that has seen its rule unthrottled has missed the rows of the  *)
(* rule that count.                                                        *)
ThrottleInv ==
  \A s \in Sources : job[s].ev # NoEvent /\ job[s].ev.type \in Throttled /\ ~ job[s].blind =>
    \A i \in DOMAIN rows :
      rows[i].ev.type = job[s].ev.type /\ rows[i].status # "failed" => i \in missed[s]

(* The deployment the scheduler has in hand was not announced.             *)
DeployInv ==
  \A i \in DOMAIN rows :
    job["scheduler"].ev.type = "bundle_deployed" /\ rows[i].ev.type = "bundle_deployed"
    => rows[i].ev.peer # job["scheduler"].ev.peer

(* The transitions that the monitor has reported or is about to report.    *)
Announced == reported \cup job["monitor"].todo \cup {job["monitor"].ev}

(* A transition of the outage that p is in, or was in last.                *)
Transition(type, p) == [type |-> type, peer |-> p, outage |-> outages[p]]

(* An announced outage is over, marked, or known to the map; an announced  *)
(* end of an outage is still true and known to the map.                    *)
AnnouncedInv ==
  /\ \A e \in Announced : e # NoEvent => e.peer \in Agents /\ e.outage <= outages[e.peer]
  /\ \A p \in Agents : Transition("peer_offline", p) \in Announced =>
       hb[p] = "fresh" \/ p \in offlineAlertSent \/ peerStates[p] # "online"
  /\ \A p \in Agents : Transition("peer_online", p) \in Announced =>
       hb[p] = "fresh" /\ peerStates[p] # "offline"

(* What is about to be reported was not reported.                          *)
UnreportedInv ==
  /\ job["monitor"].todo \cap reported = {}
  /\ job["monitor"].ev \notin reported /\ job["monitor"].ev \notin job["monitor"].todo

(* The inductive invariant: types and sources, the table, the monitor.     *)
RowsInv == RowInv /\ ThrottleInv /\ DeployInv /\ DeployedOnce
MonitorInv == AnnouncedInv /\ UnreportedInv
IInv == TypeOK /\ SourceInv /\ RowsInv /\ MonitorInv

(***************************************************************************)
(* Lemmas on what a step leaves alone                                      *)
(***************************************************************************)

(* NoEvent is not an event, and is no transition of a peer.                *)
LEMMA NoEventIsNone ==
  /\ NoEvent \notin Event
  /\ NoEvent.type = None
  /\ \A p, n : \A type \in {"peer_offline", "peer_online"} :
       NoEvent # [type |-> type, peer |-> p, outage |-> n]
BY AlertsAssumption DEF NoEvent, Event, None

(* No source has taken, dropped or finished an event.                      *)
SameJobs ==
  \A s \in Sources :
    job'[s].ev = job[s].ev /\ job'[s].blind = job[s].blind /\ job'[s].row = job[s].row

(* The invariant of the table, when neither rows nor events change.        *)
LEMMA RowsUntouched ==
  ASSUME RowsInv, rows' = rows, missed' = missed, SameJobs
  PROVE  RowsInv'
<1>0. "scheduler" \in Sources
  BY DEF Sources, Loops
<1>1. RowInv'
  BY DEF RowsInv, RowInv, SameJobs
<1>2. ThrottleInv'
  BY DEF RowsInv, ThrottleInv, SameJobs
<1>3. DeployedOnce'
  BY DEF RowsInv, DeployedOnce
<1>4. DeployInv'
  BY <1>0 DEF RowsInv, DeployInv, SameJobs
<1> QED  BY <1>1, <1>2, <1>3, <1>4 DEF RowsInv

(* The invariant of the table, when rows go away or sources forget.        *)
LEMMA RowsRemoved ==
  ASSUME RowsInv,
         DOMAIN rows' \subseteq DOMAIN rows, \A i \in DOMAIN rows' : rows'[i] = rows[i],
         (SameJobs /\ missed' = missed) \/ job' = [s \in Sources |-> Idle]
  PROVE  RowsInv'
<1>0. "scheduler" \in Sources
  BY DEF Sources, Loops
<1>1. DeployedOnce'
  BY DEF RowsInv, DeployedOnce
<1>2. CASE SameJobs /\ missed' = missed
  <2>1. RowInv'
    BY <1>2 DEF RowsInv, RowInv, SameJobs
  <2>2. ThrottleInv'
    BY <1>2 DEF RowsInv, ThrottleInv, SameJobs
  <2>3. DeployInv'
    BY <1>2, <1>0 DEF RowsInv, DeployInv, SameJobs
  <2> QED  BY <1>1, <2>1, <2>2, <2>3 DEF RowsInv
<1>3. CASE job' = [s \in Sources |-> Idle]
  <2>1. \A s \in Sources : job'[s].row = 0 /\ job'[s].ev = NoEvent
    BY <1>3 DEF Idle
  <2>2. job'["scheduler"].ev.type # "bundle_deployed"
    BY <2>1, <1>0, NoEventIsNone DEF None
  <2> QED  BY <1>1, <2>1, <2>2 DEF RowsInv, RowInv, ThrottleInv, DeployInv
<1> QED  BY <1>2, <1>3

(* The invariant of the monitor, when it announces nothing new.            *)
LEMMA NothingAnnounced ==
  ASSUME AnnouncedInv,
         hb' = hb, outages' = outages, peerStates' = peerStates,
         offlineAlertSent' = offlineAlertSent,
         Announced' \subseteq Announced \cup {NoEvent}
  PROVE  AnnouncedInv'
<1>1. \A type \in {"peer_offline", "peer_online"}, p \in Agents :
        Transition(type, p)' \in Announced' => Transition(type, p) \in Announced
  BY NoEventIsNone DEF Transition
<1> QED  BY <1>1 DEF AnnouncedInv

(* A source takes e: what it has seen of the table holds of its own rows.  *)
LEMMA TakesStep ==
  ASSUME IInv, NEW s \in Sources, NEW e \in Event, Waiting(s), Takes(s, e),
         rows' = rows, UNCHANGED <<hb, outages, peerStates, offlineAlertSent, reported>>,
         e.type = "bundle_deployed" =>
           /\ s = "scheduler"
           /\ \A i \in DOMAIN rows : rows[i].ev.type = "bundle_deployed" => rows[i].ev.peer # e.peer,
         s = "monitor" => e \in job["monitor"].todo
  PROVE  /\ job' \in [Sources -> JobState] /\ faults' \in 0..MaxFaults
         /\ missed' \in [Sources -> SUBSET Ids]
         /\ SourceInv' /\ RowsInv' /\ MonitorInv'
<1> USE DEF IInv
<1>1. PICK blind \in BOOLEAN : Passes(e.type, blind)
        /\ job' = [job EXCEPT ![s].todo = @ \ {e}, ![s].ev = e, ![s].blind = blind]
  BY DEF Takes
<1>2. job \in [Sources -> JobState] /\ job[s] \in JobState /\ job[s].row = 0
  BY DEF TypeOK, Waiting
<1>3. job'[s] = [job[s] EXCEPT !.todo = @ \ {e}, !.ev = e, !.blind = blind]
  BY <1>1, <1>2
<1>4. job'[s] = [todo |-> job[s].todo \ {e}, ev |-> e, blind |-> blind, row |-> 0]
  BY <1>2, <1>3 DEF JobState
<1>5. job'[s] \in JobState
  BY <1>4, <1>2 DEF JobState
<1>6. job' = [job EXCEPT ![s] = job'[s]]
  BY <1>1, <1>2, <1>3
<1>7. job' \in [Sources -> JobState] /\ \A t \in Sources : t # s => job'[t] = job[t]
  BY <1>2, <1>5, <1>6
<1>8. faults' \in 0..MaxFaults
  BY <1>1, AlertsAssumption DEF Passes, TypeOK
<1>9. {"scheduler", "monitor"} \subseteq Sources
  BY DEF Sources, Loops
<1> /\ missed' \in [Sources -> SUBSET Ids]
    /\ \A t \in Sources : t # s => missed'[t] = missed[t]
  BY DEF Takes, TypeOK
<1>10. SourceInv'
  <2>1. \A t \in Sources : job'[t].ev # NoEvent => job'[t].row = 0
    BY <1>4, <1>7 DEF SourceInv
  <2>2. \A t \in Sources : job'[t].ev.type = "bundle_deployed" => t = "scheduler"
    BY <1>4, <1>7 DEF SourceInv
  <2>3. job'["monitor"].todo \subseteq job["monitor"].todo
    BY <1>4, <1>7, <1>9
  <2> QED  BY <2>1, <2>2, <2>3 DEF SourceInv
<1>11. RowsInv'
  <2>1. RowInv'
    BY <1>4, <1>7 DEF RowsInv, RowInv
  <2>2. ThrottleInv'
    <3> SUFFICES ASSUME NEW t \in Sources, job'[t].ev # NoEvent,
                        job'[t].ev.type \in Throttled, ~ job'[t].blind,
                        NEW i \in DOMAIN rows, rows[i].ev.type = job'[t].ev.type,
                        rows[i].status # "failed"
                 PROVE  i \in missed'[t]
      BY DEF ThrottleInv
    <3>1. CASE t # s
      BY <3>1, <1>7 DEF RowsInv, ThrottleInv
    <3>2. CASE t = s
      <4>1. ~ blind /\ e.type \in Throttled /\ rows[i].ev.type = e.type
        BY <3>2, <1>4
      <4>2. ~ Counts(rows[i])
        BY <4>1, <1>1 DEF Passes, IsRuleThrottled
      <4>3. rows[i] \in Row
        BY DEF TypeOK
      <4> QED  BY <4>2, <4>3 DEF Counts, Row
    <3> QED  BY <3>1, <3>2
  <2>3. DeployedOnce'
    BY DEF RowsInv, DeployedOnce
  <2>4. DeployInv'
    <3>1. CASE s = "scheduler"
      BY <3>1, <1>4 DEF DeployInv
    <3>2. CASE s # "scheduler"
      <4>1. job'["scheduler"] = job["scheduler"]
        BY <3>2, <1>7, <1>9
      <4> QED  BY <4>1 DEF RowsInv, DeployInv
    <3> QED  BY <3>1, <3>2
  <2> QED  BY <2>1, <2>2, <2>3, <2>4 DEF RowsInv
<1>12. MonitorInv'
  <2>1. CASE s = "monitor"
    <3>1. e \in job["monitor"].todo /\ job'["monitor"].ev = e
          /\ job'["monitor"].todo = job["monitor"].todo \ {e}
      BY <2>1, <1>4
    <3>2. Announced' \subseteq Announced
      BY <3>1 DEF Announced
    <3>3. AnnouncedInv'
      BY <3>2, NothingAnnounced DEF MonitorInv
    <3>4. UnreportedInv'
      BY <3>1 DEF MonitorInv, UnreportedInv
    <3> QED  BY <3>3, <3>4 DEF MonitorInv
  <2>2. CASE s # "monitor"
    <3>1. job'["monitor"] = job["monitor"]
      BY <2>2, <1>7, <1>9
    <3>2. Announced' = Announced
      BY <3>1 DEF Announced
    <3>3. AnnouncedInv'
      BY <3>2, NothingAnnounced DEF MonitorInv
    <3>4. UnreportedInv'
      BY <3>1 DEF MonitorInv, UnreportedInv
    <3> QED  BY <3>3, <3>4 DEF MonitorInv
  <2> QED  BY <2>1, <2>2
<1> QED  BY <1>7, <1>8, <1>10, <1>11, <1>12

(***************************************************************************)
(* The steps                                                               *)
(***************************************************************************)

(* The start of the server.                                                *)
LEMMA InitInv == Init => IInv
<1> SUFFICES ASSUME Init PROVE IInv
  OBVIOUS
<1> USE DEF Init
<1>1. \A s \in Sources : job[s] = Idle
  OBVIOUS
<1>2. \A s \in Sources : job[s].ev = NoEvent /\ job[s].row = 0 /\ job[s].todo = {}
  BY <1>1 DEF Idle
<1>3. {"scheduler", "monitor"} \subseteq Sources
  BY DEF Sources, Loops
<1>4. DOMAIN rows = {}
  OBVIOUS
<1>5. TypeOK
  <2>1. job \in [Sources -> JobState]
    BY DEF Idle, JobState
  <2>2. /\ hb \in [Agents -> {"never", "fresh", "stale"}]
        /\ peerStates \in [Agents -> {"online", "offline", None}]
    BY DEF LoadedState
  <2>3. outages \in [Agents -> 0..MaxOutages] /\ faults \in 0..MaxFaults
    BY AlertsAssumption
  <2>4. statusOffline \subseteq AllPeers
    BY DEF AllPeers
  <2> QED  BY <1>4, <2>1, <2>2, <2>3, <2>4 DEF TypeOK
<1>6. SourceInv
  BY <1>2, <1>3, NoEventIsNone DEF SourceInv, None
<1>7. RowsInv
  BY <1>2, <1>4 DEF RowsInv, RowInv, ThrottleInv, DeployInv, DeployedOnce
<1>8. Announced = {NoEvent}
  BY <1>2, <1>3 DEF Announced
<1>9. AnnouncedInv
  BY <1>8, NoEventIsNone DEF AnnouncedInv, Transition
<1>10. UnreportedInv
  BY <1>2, <1>3 DEF UnreportedInv
<1> QED  BY <1>5, <1>6, <1>7, <1>9, <1>10 DEF IInv, MonitorInv

(* A new row about a deployment is the only one of its peer.               *)
LEMMA DeployedInsert ==
  ASSUME DeployedOnce, NEW e, NEW i, i \notin DOMAIN rows,
         DOMAIN rows' = DOMAIN rows \cup {i}, rows'[i].ev = e,
         \A k \in DOMAIN rows : rows'[k] = rows[k],
         e.type = "bundle_deployed" => \A k \in DOMAIN rows :
           rows[k].ev.type = "bundle_deployed" => rows[k].ev.peer # e.peer
  PROVE  DeployedOnce'
<1> SUFFICES ASSUME NEW k \in DOMAIN rows', NEW l \in DOMAIN rows', k # l,
                    rows'[k].ev.type = "bundle_deployed", rows'[l].ev.type = "bundle_deployed"
             PROVE  rows'[k].ev.peer # rows'[l].ev.peer
  BY DEF DeployedOnce
<1>1. CASE k # i /\ l # i
  BY <1>1 DEF DeployedOnce
<1>2. CASE k = i
  BY <1>2
<1>3. CASE l = i
  BY <1>3
<1> QED  BY <1>1, <1>2, <1>3

(* A source inserts the row i of the event it has in hand.                 *)
Inserts(s, i) ==
  /\ rows' = [k \in DOMAIN rows \cup {i} |->
                IF k = i THEN NewRow(job[s].ev, s, job[s].blind) ELSE rows[k]]
  /\ job' = [job EXCEPT ![s].ev = NoEvent, ![s].blind = FALSE, ![s].row = i]
  /\ reported' = reported \cup IF s = "monitor" THEN {job[s].ev} ELSE {}
  /\ missed' = Misses(s, i)

(* CreateAlert writes the row of what a source has in hand.                *)
LEMMA InsertStep ==
  ASSUME IInv, NEW s \in Sources, job[s].ev # NoEvent, NEW i \in FreeIds, Inserts(s, i),
         UNCHANGED <<peerVars, monVars, rules, spikeQuiet, faults>>
  PROVE  IInv'
<1> USE DEF IInv
<1>1. job \in [Sources -> JobState] /\ job[s] \in JobState
  BY DEF TypeOK
<1>2. PICK e \in Event, b \in BOOLEAN : job[s].ev = e /\ job[s].blind = b
  BY <1>1 DEF JobState
<1>3. job'[s] = [job[s] EXCEPT !.ev = NoEvent, !.blind = FALSE, !.row = i]
  BY <1>1 DEF Inserts
<1>4. job'[s] = [todo |-> job[s].todo, ev |-> NoEvent, blind |-> FALSE, row |-> i]
  BY <1>1, <1>3 DEF JobState
<1>5. i \in Ids /\ i \notin DOMAIN rows /\ \A t \in Sources : i # job[t].row
  BY DEF FreeIds
<1>6. job'[s] \in JobState
  BY <1>1, <1>4, <1>5 DEF JobState
<1>7. job' = [job EXCEPT ![s] = job'[s]]
  BY <1>1, <1>3 DEF Inserts
<1>8. job' \in [Sources -> JobState] /\ \A t \in Sources : t # s => job'[t] = job[t]
  BY <1>1, <1>6, <1>7
<1>9. {"scheduler", "monitor"} \subseteq Sources
  BY DEF Sources, Loops
<1>10. /\ DOMAIN rows' = DOMAIN rows \cup {i}
       /\ rows'[i] = [ev |-> e, src |-> s, status |-> "pending", blind |-> b]
       /\ \A k \in DOMAIN rows : rows'[k] = rows[k]
  BY <1>2, <1>5 DEF NewRow, Inserts
<1>11. TypeOK'
  <2>1. rows'[i] \in Row
    BY <1>10 DEF Row
  <2>2. DOMAIN rows' \subseteq Ids /\ \A k \in DOMAIN rows' : rows'[k] \in Row
    BY <2>1, <1>5, <1>10 DEF TypeOK
  <2>3. reported' \subseteq Event
    BY <1>2 DEF TypeOK, Inserts
  <2>4. missed' \in [Sources -> SUBSET Ids]
    BY <1>5 DEF TypeOK, Inserts, Misses
  <2> QED  BY <1>8, <2>2, <2>3, <2>4 DEF TypeOK, peerVars, monVars
<1>12. SourceInv'
  <2>1. \A t \in Sources : job'[t].ev # NoEvent => job'[t].row = 0
    BY <1>4, <1>8 DEF SourceInv
  <2>2. \A t \in Sources : job'[t].ev.type = "bundle_deployed" => t = "scheduler"
    BY <1>4, <1>8, NoEventIsNone DEF SourceInv, None
  <2>3. job'["monitor"].todo = job["monitor"].todo
    BY <1>4, <1>8, <1>9
  <2> QED  BY <2>1, <2>2, <2>3 DEF SourceInv
<1>13. RowInv'
  BY <1>4, <1>5, <1>8, <1>10 DEF RowsInv, RowInv
<1>14. ThrottleInv'
  <2> SUFFICES ASSUME NEW t \in Sources, job'[t].ev # NoEvent,
                      job'[t].ev.type \in Throttled, ~ job'[t].blind,
                      NEW k \in DOMAIN rows', rows'[k].ev.type = job'[t].ev.type,
                      rows'[k].status # "failed"
               PROVE  k \in missed'[t]
    BY DEF ThrottleInv
  <2>1. t # s /\ job'[t] = job[t]
    BY <1>4, <1>8
  <2>2. /\ missed[t] \subseteq missed'[t]
        /\ job[t].ev.type = e.type => i \in missed'[t]
    BY <2>1, <1>2 DEF Inserts, Misses
  <2>3. CASE k = i
    BY <2>1, <2>2, <2>3, <1>10
  <2>4. CASE k # i
    BY <2>1, <2>2, <2>4, <1>10 DEF RowsInv, ThrottleInv
  <2> QED  BY <2>3, <2>4
<1>15. DeployedOnce'
  <2>1. e.type = "bundle_deployed" => \A k \in DOMAIN rows :
          rows[k].ev.type = "bundle_deployed" => rows[k].ev.peer # e.peer
    BY <1>2 DEF SourceInv, RowsInv, DeployInv
  <2> QED  BY <2>1, <1>5, <1>10, DeployedInsert DEF RowsInv
<1>17. DeployInv'
  <2>1. CASE s = "scheduler"
    <3>1. job'["scheduler"].ev.type # "bundle_deployed"
      BY <2>1, <1>4, NoEventIsNone DEF None
    <3> QED  BY <3>1 DEF DeployInv
  <2>2. CASE s # "scheduler"
    <3>1. job'["scheduler"] = job["scheduler"] /\ e.type # "bundle_deployed"
      BY <2>2, <1>2, <1>8, <1>9 DEF SourceInv
    <3> SUFFICES ASSUME NEW k \in DOMAIN rows', job["scheduler"].ev.type = "bundle_deployed",
                        rows'[k].ev.type = "bundle_deployed"
                 PROVE  rows'[k].ev.peer # job["scheduler"].ev.peer
      BY <3>1, Zenon DEF DeployInv
    <3>2. k \in DOMAIN rows /\ rows'[k] = rows[k]
      BY <3>1, <1>10
    <3> QED  BY <3>2 DEF RowsInv, DeployInv
  <2> QED  BY <2>1, <2>2
<1>18. /\ job'["monitor"].todo = job["monitor"].todo
       /\ job'["monitor"].ev \in {job["monitor"].ev, NoEvent}
       /\ reported' \subseteq Announced /\ reported \subseteq reported'
       /\ reported' = IF s = "monitor" THEN reported \cup {job["monitor"].ev} ELSE reported
  BY <1>4, <1>8, <1>9 DEF Announced, Inserts
<1>19. AnnouncedInv'
  <2>1. Announced' \subseteq Announced \cup {NoEvent}
    BY <1>18 DEF Announced
  <2> QED  BY <2>1, NothingAnnounced DEF MonitorInv, peerVars, monVars
<1>20. UnreportedInv'
  <2>1. NoEvent \notin reported' /\ NoEvent \notin job["monitor"].todo
    BY <1>1, <1>9, <1>11, NoEventIsNone DEF TypeOK, JobState
  <2>2. CASE s = "monitor"
    BY <2>1, <2>2, <1>4, <1>18 DEF MonitorInv, UnreportedInv
  <2>3. CASE s # "monitor"
    BY <2>3, <1>8, <1>9, <1>18 DEF MonitorInv, UnreportedInv
  <2> QED  BY <2>2, <2>3
<1> QED  BY <1>11, <1>12, <1>13, <1>14, <1>15, <1>17, <1>19, <1>20 DEF RowsInv, MonitorInv

(* An insertion: it succeeds or the event is gone.                         *)
LEMMA CreateStep ==
  ASSUME IInv, NEW s \in Sources, CreateAlertHistory(s)
  PROVE  IInv'
<1> USE DEF IInv
<1>1. job[s].ev # NoEvent /\ UNCHANGED <<peerVars, monVars, rules, spikeQuiet, faults>>
  BY DEF CreateAlertHistory
<1>2. ASSUME NEW i \in FreeIds, Inserts(s, i)
      PROVE  IInv'
  BY <1>1, <1>2, InsertStep
<1>3. ASSUME job' = [job EXCEPT ![s].ev = NoEvent, ![s].blind = FALSE],
             missed' = [missed EXCEPT ![s] = {}], UNCHANGED <<rows, reported>>
      PROVE  IInv'
  <2>1. job \in [Sources -> JobState] /\ job[s] \in JobState /\ job[s].row = 0
    BY <1>1 DEF TypeOK, SourceInv
  <2>2. job'[s] = [job[s] EXCEPT !.ev = NoEvent, !.blind = FALSE]
    BY <1>3, <2>1
  <2>3. job'[s] = [todo |-> job[s].todo, ev |-> NoEvent, blind |-> FALSE, row |-> 0]
    BY <2>1, <2>2 DEF JobState
  <2>4. job'[s] \in JobState
    BY <2>1, <2>3 DEF JobState
  <2>5. job' = [job EXCEPT ![s] = job'[s]]
    BY <1>3, <2>1, <2>2
  <2>6. job' \in [Sources -> JobState] /\ \A t \in Sources : t # s => job'[t] = job[t]
    BY <2>1, <2>4, <2>5
  <2>7. {"scheduler", "monitor"} \subseteq Sources
    BY DEF Sources, Loops
  <2>8. TypeOK'
    BY <1>1, <1>3, <2>6 DEF TypeOK, peerVars, monVars
  <2>9. /\ job'["monitor"].todo = job["monitor"].todo
        /\ job'["monitor"].ev \in {job["monitor"].ev, NoEvent}
        /\ job'["scheduler"].ev \in {job["scheduler"].ev, NoEvent}
    BY <2>3, <2>6, <2>7
  <2>10. SourceInv'
    <3>1. \A t \in Sources : job'[t].ev # NoEvent => job'[t].row = 0
      BY <2>3, <2>6 DEF SourceInv
    <3>2. \A t \in Sources : job'[t].ev.type = "bundle_deployed" => t = "scheduler"
      BY <2>3, <2>6, NoEventIsNone DEF SourceInv, None
    <3> QED  BY <3>1, <3>2, <2>9 DEF SourceInv
  <2>11. RowInv' /\ ThrottleInv'
    <3>1. \A t \in Sources : t # s => missed'[t] = missed[t]
      BY <1>3 DEF TypeOK
    <3> QED  BY <1>3, <2>3, <2>6, <3>1 DEF RowsInv, RowInv, ThrottleInv
  <2>12. DeployedOnce'
    BY <1>3 DEF RowsInv, DeployedOnce
  <2>13. DeployInv'
    BY <1>3, <2>9, NoEventIsNone DEF RowsInv, DeployInv, None
  <2>14. AnnouncedInv'
    <3>1. Announced' \subseteq Announced \cup {NoEvent}
      BY <1>3, <2>9 DEF Announced
    <3> QED  BY <1>1, <3>1, NothingAnnounced DEF MonitorInv, peerVars, monVars
  <2>15. UnreportedInv'
    <3>1. NoEvent \notin reported /\ NoEvent \notin job["monitor"].todo
      BY <2>1, <2>7, NoEventIsNone DEF TypeOK, JobState
    <3> QED  BY <1>3, <3>1, <2>9 DEF MonitorInv, UnreportedInv
  <2> QED  BY <2>8, <2>10, <2>11, <2>12, <2>13, <2>14, <2>15 DEF RowsInv, MonitorInv
<1> QED  BY <1>2, <1>3 DEF CreateAlertHistory, Inserts

(* The mails of a row are sent and its status is written, or not.          *)
LEMMA SettleStep ==
  ASSUME IInv, NEW s \in Sources, NEW st \in {"sent", "failed"}, SendAndSettle(s, st)
  PROVE  IInv'
<1> USE DEF IInv
<1>1. PICK i : /\ i = job[s].row /\ i # 0
               /\ rows' \in {Settled(i, st), rows}
               /\ job' = [job EXCEPT ![s].row = 0]
               /\ spikeQuiet' = (spikeQuiet \/ (s = "spike" /\ st = "sent"))
               /\ UNCHANGED <<peerVars, monVars, rules, reported, missed, faults>>
  BY DEF SendAndSettle
<1>2. job \in [Sources -> JobState] /\ job[s] \in JobState /\ job[s].ev = NoEvent
  BY <1>1 DEF TypeOK, SourceInv
<1>3. job'[s] = [todo |-> job[s].todo, ev |-> NoEvent, blind |-> job[s].blind, row |-> 0]
  BY <1>1, <1>2 DEF JobState
<1>4. job'[s] \in JobState
  BY <1>2, <1>3 DEF JobState
<1>5. job' \in [Sources -> JobState] /\ \A t \in Sources : t # s => job'[t] = job[t]
  <2>1. job' = [job EXCEPT ![s] = job'[s]]
    BY <1>1, <1>2
  <2> QED  BY <2>1, <1>2, <1>4
<1>6. {"scheduler", "monitor"} \subseteq Sources
  BY DEF Sources, Loops
<1>7. \A t \in Sources : job'[t].ev = job[t].ev /\ job'[t].todo = job[t].todo
                         /\ job'[t].blind = job[t].blind /\ job'[t].row \in {job[t].row, 0}
  BY <1>2, <1>3, <1>5
<1>8. i \in DOMAIN rows => rows[i].status = "pending" /\ rows[i].src = s
  BY <1>1 DEF RowsInv, RowInv
<1>9. /\ DOMAIN rows' = DOMAIN rows
      /\ \A k \in DOMAIN rows :
           /\ rows'[k] \in Row
           /\ rows'[k].ev = rows[k].ev /\ rows'[k].src = rows[k].src
           /\ rows'[k].blind = rows[k].blind
           /\ k # i => rows'[k].status = rows[k].status
  <2>1. CASE rows' = rows
    BY <2>1 DEF TypeOK
  <2>2. CASE i \in DOMAIN rows /\ rows' = [rows EXCEPT ![i].status = st]
    <3>1. PICK r \in Row : rows[i] = r
      BY <2>2 DEF TypeOK
    <3>2. rows' = [rows EXCEPT ![i] = [r EXCEPT !.status = st]]
      BY <2>2, <3>1
    <3>3. PICK e \in Event, t \in Sources, b \in BOOLEAN :
            r.ev = e /\ r.src = t /\ r.blind = b
      BY <3>1 DEF Row
    <3>4. [r EXCEPT !.status = st] = [ev |-> e, src |-> t, status |-> st, blind |-> b]
      BY <3>1, <3>3 DEF Row
    <3>5. [ev |-> e, src |-> t, status |-> st, blind |-> b] \in Row
      BY <3>3 DEF Row
    <3>6. rows'[i] = [ev |-> e, src |-> t, status |-> st, blind |-> b]
      BY <2>2, <3>2, <3>4
    <3>7. \A k \in DOMAIN rows : k # i => rows'[k] = rows[k] /\ rows[k] \in Row
      BY <3>2 DEF TypeOK
    <3>8. DOMAIN rows' = DOMAIN rows
      BY <3>2
    <3> QED  BY <3>1, <3>3, <3>5, <3>6, <3>7, <3>8
  <2> QED  BY <2>1, <2>2, <1>1 DEF Settled
<1>10. TypeOK'
  <2>1. spikeQuiet' \in BOOLEAN
    BY <1>1, Zenon DEF TypeOK
  <2>2. DOMAIN rows' \subseteq Ids /\ \A k \in DOMAIN rows' : rows'[k] \in Row
    BY <1>9 DEF TypeOK
  <2> QED  BY <1>1, <1>5, <2>1, <2>2 DEF TypeOK, peerVars, monVars
<1>11. SourceInv'
  BY <1>3, <1>6, <1>7 DEF SourceInv
<1>12. RowInv'
  <2> SUFFICES ASSUME NEW t \in Sources, job'[t].row # 0, job'[t].row \in DOMAIN rows'
               PROVE  rows'[job'[t].row].status = "pending" /\ rows'[job'[t].row].src = t
    BY DEF RowInv
  <2>1. t # s /\ job'[t].row = job[t].row
    BY <1>3, <1>5
  <2>2. rows[job[t].row].status = "pending" /\ rows[job[t].row].src = t /\ job[t].row \in DOMAIN rows
    BY <2>1, <1>9 DEF RowsInv, RowInv
  <2>3. job[t].row # i
    BY <2>1, <2>2, <1>8
  <2> QED  BY <2>1, <2>2, <2>3, <1>9
<1>13. ThrottleInv'
  <2> SUFFICES ASSUME NEW t \in Sources, job'[t].ev # NoEvent,
                      job'[t].ev.type \in Throttled, ~ job'[t].blind,
                      NEW k \in DOMAIN rows', rows'[k].ev.type = job'[t].ev.type,
                      rows'[k].status # "failed"
               PROVE  k \in missed[t]
    BY <1>1 DEF ThrottleInv
  <2>1. job'[t].ev = job[t].ev /\ job'[t].blind = job[t].blind
    BY <1>7
  <2>2. k \in DOMAIN rows /\ rows[k].ev.type = job[t].ev.type /\ rows[k].status # "failed"
    BY <2>1, <1>8, <1>9
  <2> QED  BY <2>1, <2>2 DEF RowsInv, ThrottleInv
<1>15. DeployedOnce'
  BY <1>9 DEF RowsInv, DeployedOnce
<1>16. DeployInv'
  BY <1>6, <1>7, <1>9 DEF RowsInv, DeployInv
<1>17. MonitorInv'
  <2>1. Announced' = Announced
    BY <1>1, <1>6, <1>7 DEF Announced
  <2>2. AnnouncedInv'
    BY <2>1, <1>1, NothingAnnounced DEF MonitorInv, peerVars, monVars
  <2>3. UnreportedInv'
    BY <1>1, <1>6, <1>7 DEF MonitorInv, UnreportedInv
  <2> QED  BY <2>2, <2>3 DEF MonitorInv
<1> QED  BY <1>10, <1>11, <1>12, <1>13, <1>15, <1>16, <1>17 DEF RowsInv

(* The scheduler, the detector and a handler take an event.                *)
LEMMA CheckRuleStep ==
  ASSUME IInv, NEW type \in Types, CheckRule(type)
  PROVE  IInv'
<1>1. PICK p \in AllPeers, found \in Facts :
        EvaluateRule(type, p, found) /\ Takes("scheduler", [type |-> type, peer |-> p, outage |-> 0])
  BY DEF CheckRule
<1>2. PICK e : e = [type |-> type, peer |-> p, outage |-> 0]
  OBVIOUS
<1>3. e \in Event /\ "scheduler" \in Sources
  BY <1>2, AlertsAssumption DEF Event, Sources, Loops
<1>4. Waiting("scheduler")
  BY DEF CheckRule, Free, Waiting, Idle
<1>5. e.type = "bundle_deployed" => \A i \in DOMAIN rows :
        rows[i].ev.type = "bundle_deployed" => rows[i].ev.peer # e.peer
  BY <1>1, <1>2 DEF EvaluateRule, EvaluateBundleDeployed
<1>6. UNCHANGED <<peerVars, monVars, rules, spikeQuiet, rows, reported>>
  BY DEF CheckRule
<1>7. /\ job' \in [Sources -> JobState] /\ faults' \in 0..MaxFaults
      /\ missed' \in [Sources -> SUBSET Ids]
      /\ SourceInv' /\ RowsInv' /\ MonitorInv'
  BY <1>1, <1>2, <1>3, <1>4, <1>5, <1>6, TakesStep DEF peerVars, monVars
<1>8. TypeOK'
  BY <1>6, <1>7 DEF IInv, TypeOK, peerVars, monVars
<1> QED  BY <1>7, <1>8 DEF IInv

(* The spike check triggers an alert.                                      *)
LEMMA SpikeStep ==
  ASSUME IInv, CheckForSpike
  PROVE  IInv'
<1>1. PICK e : e = [type |-> "blocked_spike", peer |-> AnyPeer, outage |-> 0]
  OBVIOUS
<1>2. Waiting("spike") /\ "spike" \in Sources
  BY DEF CheckForSpike, Free, Waiting, Idle, Sources, Loops
<1>3. UNCHANGED <<peerVars, monVars, rules, rows, reported>>
  BY DEF CheckForSpike
<1>4. \/ Concerns(e) /\ Takes("spike", e) /\ UNCHANGED spikeQuiet
      \/ Skips(e) /\ spikeQuiet' = TRUE /\ UNCHANGED <<job, missed>>
  BY <1>1 DEF CheckForSpike
<1>5. CASE Concerns(e) /\ Takes("spike", e) /\ UNCHANGED spikeQuiet
  <2>1. e.type \in Types
    BY <1>5, AlertsAssumption DEF Concerns, HasEnabledRule, IInv, TypeOK
  <2>2. e \in Event /\ e.type # "bundle_deployed"
    BY <1>1, <2>1, AlertsAssumption DEF Event
  <2>3. /\ job' \in [Sources -> JobState] /\ faults' \in 0..MaxFaults
        /\ missed' \in [Sources -> SUBSET Ids]
        /\ SourceInv' /\ RowsInv' /\ MonitorInv'
    BY <1>2, <1>3, <1>5, <2>2, TakesStep DEF peerVars, monVars
  <2>4. TypeOK'
    BY <1>3, <1>5, <2>3 DEF IInv, TypeOK, peerVars, monVars
  <2> QED  BY <2>3, <2>4 DEF IInv
<1>6. CASE Skips(e) /\ spikeQuiet' = TRUE /\ UNCHANGED <<job, missed>>
  <2>1. UNCHANGED <<peerVars, monVars, rules, rows, reported, job, missed, faults>> /\ spikeQuiet' = TRUE
    BY <1>3, <1>6 DEF Skips
  <2>2. TypeOK' /\ SourceInv'
    BY <2>1 DEF IInv, TypeOK, SourceInv, peerVars, monVars
  <2>3. RowsInv'
    BY <2>1, RowsUntouched DEF IInv, SameJobs
  <2>4. Announced' = Announced
    BY <2>1 DEF Announced
  <2>5. AnnouncedInv' /\ UnreportedInv'
    BY <2>1, <2>4, NothingAnnounced DEF IInv, MonitorInv, UnreportedInv, peerVars, monVars
  <2> QED  BY <2>2, <2>3, <2>5 DEF IInv, MonitorInv
<1> QED  BY <1>4, <1>5, <1>6

(* A request or the push worker triggers an alert.                         *)
LEMMA DirectStep ==
  ASSUME IInv, NEW s \in Sources \ {"monitor"},
         NEW type \in {"new_peer", "agent_updated", "bundle_failed", "bundle_notified"},
         NEW p \in Agents, DirectTrigger(s, type, p)
  PROVE  IInv'
<1>1. PICK e : e = [type |-> type, peer |-> p, outage |-> 0]
  OBVIOUS
<1>2. Waiting(s)
  BY DEF DirectTrigger, Free, Waiting, Idle
<1>3. UNCHANGED <<peerVars, monVars, rules, spikeQuiet, rows, reported>>
  BY DEF DirectTrigger
<1>4. Concerns(e) /\ Takes(s, e)
  BY <1>1 DEF DirectTrigger
<1>5. e.type \in Types
  BY <1>4, AlertsAssumption DEF Concerns, HasEnabledRule, IInv, TypeOK
<1>6. e \in Event /\ e.type # "bundle_deployed"
  BY <1>1, <1>5, AlertsAssumption DEF Event, AllPeers
<1>7. /\ job' \in [Sources -> JobState] /\ faults' \in 0..MaxFaults
      /\ missed' \in [Sources -> SUBSET Ids]
      /\ SourceInv' /\ RowsInv' /\ MonitorInv'
  BY <1>2, <1>3, <1>4, <1>6, TakesStep DEF peerVars, monVars
<1>8. TypeOK'
  BY <1>3, <1>7 DEF IInv, TypeOK, peerVars, monVars
<1> QED  BY <1>7, <1>8 DEF IInv

(* The monitor has a new list of transitions and no event in hand.         *)
NewTodo(todo) == job' = [job EXCEPT !["monitor"].todo = todo]

(* The monitor has other peers to report, and writes nothing.              *)
LEMMA TodoChange ==
  ASSUME IInv, NEW todo \in SUBSET Event, NewTodo(todo), rows' = rows, missed' = missed,
         \A e \in todo : e.type \in {"peer_offline", "peer_online"}
  PROVE  /\ job' \in [Sources -> JobState] /\ SourceInv' /\ RowsInv'
         /\ job'["monitor"].todo = todo /\ job'["monitor"].ev = job["monitor"].ev
<1>1. job \in [Sources -> JobState] /\ job["monitor"] \in JobState /\ "monitor" \in Sources
  BY DEF IInv, TypeOK, Sources, Loops
<1>2. job'["monitor"] = [todo |-> todo, ev |-> job["monitor"].ev,
                         blind |-> job["monitor"].blind, row |-> job["monitor"].row]
  BY <1>1 DEF JobState, NewTodo
<1>3. job'["monitor"] \in JobState
  BY <1>1, <1>2 DEF JobState
<1>4. job' = [job EXCEPT !["monitor"] = job'["monitor"]]
  BY <1>1 DEF NewTodo
<1>5. job' \in [Sources -> JobState] /\ \A t \in Sources : t # "monitor" => job'[t] = job[t]
  BY <1>1, <1>3, <1>4
<1>6. SameJobs
  BY <1>2, <1>5 DEF SameJobs
<1>7. SourceInv'
  BY <1>2, <1>6 DEF IInv, SourceInv, SameJobs
<1> QED  BY <1>2, <1>5, <1>6, <1>7, RowsUntouched DEF IInv

(* The monitor takes up the next peer it has to report.                    *)
LEMMA MonitorTriggerStep ==
  ASSUME IInv, NEW e \in job["monitor"].todo, MonitorTrigger(e)
  PROVE  IInv'
<1>1. "monitor" \in Sources /\ Waiting("monitor")
  BY DEF MonitorTrigger, Sources, Loops
<1>2. UNCHANGED <<peerVars, monVars, rules, spikeQuiet, rows, reported>>
  BY DEF MonitorTrigger
<1>3. e \in Event /\ e.type # "bundle_deployed" /\ job["monitor"].todo \in SUBSET Event
  BY <1>1 DEF IInv, TypeOK, JobState, SourceInv
<1>4. CASE Concerns(e) /\ Takes("monitor", e)
  <2>1. /\ job' \in [Sources -> JobState] /\ faults' \in 0..MaxFaults
        /\ missed' \in [Sources -> SUBSET Ids]
        /\ SourceInv' /\ RowsInv' /\ MonitorInv'
    BY <1>1, <1>2, <1>3, <1>4, TakesStep DEF peerVars, monVars
  <2>2. TypeOK'
    BY <1>2, <2>1 DEF IInv, TypeOK, peerVars, monVars
  <2> QED  BY <2>1, <2>2 DEF IInv
<1>5. CASE Skips(e) /\ job' = [job EXCEPT !["monitor"].todo = @ \ {e}] /\ UNCHANGED missed
  <2>1. PICK todo : todo = job["monitor"].todo \ {e}
    OBVIOUS
  <2>2. NewTodo(todo) /\ todo \in SUBSET Event /\ faults' = faults /\ missed' = missed
    BY <1>1, <1>3, <1>5, <2>1 DEF NewTodo, Skips, IInv, TypeOK
  <2>3. \A f \in todo : f.type \in {"peer_offline", "peer_online"}
    BY <2>1 DEF IInv, SourceInv
  <2>4. /\ job' \in [Sources -> JobState] /\ SourceInv' /\ RowsInv'
        /\ job'["monitor"].todo = todo /\ job'["monitor"].ev = job["monitor"].ev
    BY <1>2, <2>2, <2>3, TodoChange
  <2>5. TypeOK'
    BY <1>2, <2>2, <2>4 DEF IInv, TypeOK, peerVars, monVars
  <2>6. Announced' \subseteq Announced
    BY <1>2, <2>1, <2>4 DEF Announced
  <2>7. AnnouncedInv'
    BY <1>2, <2>6, NothingAnnounced DEF IInv, MonitorInv, peerVars, monVars
  <2>8. UnreportedInv'
    BY <1>2, <2>1, <2>4 DEF IInv, MonitorInv, UnreportedInv
  <2> QED  BY <2>4, <2>5, <2>7, <2>8 DEF IInv, MonitorInv
<1> QED  BY <1>4, <1>5 DEF MonitorTrigger

(* The first query: an outage that is announced now was not announced,     *)
(* since the peer is silent, not marked, and online in the map.            *)
LEMMA CheckOfflineStep ==
  ASSUME IInv, CheckPeersOffline
  PROVE  IInv'
<1> USE DEF IInv
<1>1. PICK off, gone, todo :
        /\ off = {p \in Agents : hb[p] # "fresh"}
        /\ gone = {p \in off : peerStates[p] = "online"}
        /\ todo = {Transition("peer_offline", p) : p \in Report(gone)}
        /\ offlinePeers' = off /\ offlineAlertSent' = offlineAlertSent \cup gone
        /\ NewTodo(todo)
  BY DEF CheckPeersOffline, Transition, NewTodo
<1>2. checking' = TRUE
      /\ UNCHANGED <<peerVars, rules, peerStates, grace, spikeQuiet, rows, reported, missed, faults>>
  BY DEF CheckPeersOffline
<1>3. job["monitor"].todo = {} /\ job["monitor"].ev = NoEvent
  BY DEF CheckPeersOffline, Free, Idle
<1>4. gone \subseteq Agents
  BY <1>1
<1>5. \A e \in todo : \E p \in gone : p \notin offlineAlertSent /\ e = Transition("peer_offline", p)
  BY <1>1 DEF Report
<1>6. \A e \in todo : /\ e \in Event /\ e.type = "peer_offline"
                      /\ e.peer \in Agents /\ e.outage <= outages[e.peer]
  BY <1>4, <1>5, AlertsAssumption DEF Transition, Event, AllPeers, TypeOK
<1>7. /\ job' \in [Sources -> JobState] /\ SourceInv' /\ RowsInv'
      /\ job'["monitor"].todo = todo /\ job'["monitor"].ev = NoEvent
  BY <1>1, <1>2, <1>3, <1>6, TodoChange
<1>8. TypeOK'
  BY <1>1, <1>2, <1>4, <1>7 DEF TypeOK, peerVars
<1>9. \A e \in todo : e \notin reported
  BY <1>1, <1>4, <1>5 DEF MonitorInv, AnnouncedInv, Announced
<1>10. Announced' = reported \cup todo \cup {NoEvent}
  BY <1>2, <1>7 DEF Announced
<1>11. \A type, p : Transition(type, p)' = Transition(type, p)
  BY <1>2 DEF Transition, peerVars
<1>12. AnnouncedInv'
  <2>1. \A e \in Announced' : e # NoEvent => e.peer \in Agents /\ e.outage <= outages'[e.peer]
    BY <1>2, <1>6, <1>10 DEF MonitorInv, AnnouncedInv, Announced, peerVars
  <2>2. ASSUME NEW p \in Agents, Transition("peer_offline", p)' \in Announced'
        PROVE  hb'[p] = "fresh" \/ p \in offlineAlertSent' \/ peerStates'[p] # "online"
    <3>1. CASE Transition("peer_offline", p) \in reported
      BY <1>1, <1>2, <3>1 DEF MonitorInv, AnnouncedInv, Announced, peerVars
    <3>2. CASE Transition("peer_offline", p) \in todo
      <4>1. PICK q \in gone : Transition("peer_offline", p) = Transition("peer_offline", q)
        BY <1>5, <3>2
      <4>2. p = q
        BY <4>1 DEF Transition
      <4> QED  BY <1>1, <4>2
    <3> QED  BY <2>2, <3>1, <3>2, <1>10, <1>11, NoEventIsNone DEF Transition
  <2>3. ASSUME NEW p \in Agents, Transition("peer_online", p)' \in Announced'
        PROVE  hb'[p] = "fresh" /\ peerStates'[p] # "offline"
    <3>1. Transition("peer_online", p) \in reported
      BY <2>3, <1>6, <1>10, <1>11, NoEventIsNone DEF Transition
    <3> QED  BY <1>2, <3>1 DEF MonitorInv, AnnouncedInv, Announced, peerVars
  <2> QED  BY <2>1, <2>2, <2>3 DEF AnnouncedInv
<1>13. UnreportedInv'
  <2>1. NoEvent \notin reported /\ NoEvent \notin todo
    BY <1>6, NoEventIsNone DEF TypeOK
  <2> QED  BY <1>2, <1>7, <1>9, <2>1 DEF UnreportedInv
<1> QED  BY <1>7, <1>8, <1>12, <1>13 DEF MonitorInv

(* The second query: the end of an outage that is announced now was not    *)
(* announced, since the map still says offline.                            *)
LEMMA CheckOnlineStep ==
  ASSUME IInv, CheckPeersOnline
  PROVE  IInv'
<1> USE DEF IInv
<1>1. /\ checking' = FALSE /\ offlinePeers' = {}
      /\ UNCHANGED <<peerVars, rules, grace, spikeQuiet, rows, reported, missed, faults>>
  BY DEF CheckPeersOnline
<1>2. job["monitor"].todo = {} /\ job["monitor"].ev = NoEvent
  BY DEF CheckPeersOnline, Free, Idle
<1>3. \A type, p : Transition(type, p)' = Transition(type, p)
  BY <1>1 DEF Transition, peerVars
<1>4. CASE UNCHANGED <<peerStates, offlineAlertSent, job>>
  <2>1. TypeOK' /\ SourceInv'
    BY <1>1, <1>4 DEF TypeOK, SourceInv, peerVars
  <2>2. RowsInv'
    BY <1>1, <1>4, RowsUntouched DEF SameJobs
  <2>3. Announced' = Announced
    BY <1>1, <1>4 DEF Announced
  <2>4. AnnouncedInv'
    BY <1>1, <1>4, <2>3, NothingAnnounced DEF MonitorInv, peerVars
  <2>5. UnreportedInv'
    BY <1>1, <1>4 DEF MonitorInv, UnreportedInv
  <2> QED  BY <2>1, <2>2, <2>4, <2>5 DEF MonitorInv
<1>5. ASSUME NEW on, NEW back, NEW todo,
             on = {p \in Agents : hb[p] = "fresh"},
             back = {p \in on : CameBack(p)},
             peerStates' = NewStates(on), offlineAlertSent' = offlineAlertSent \ back,
             todo = IF grace THEN {} ELSE {Transition("peer_online", p) : p \in back},
             NewTodo(todo)
      PROVE  IInv'
  <2>1. \A e \in todo : \E p \in back : e = Transition("peer_online", p)
    BY <1>5
  <2>2. back \subseteq Agents /\ \A p \in back : hb[p] = "fresh" /\ peerStates[p] = "offline"
    BY <1>5 DEF CameBack
  <2>3. \A e \in todo : /\ e \in Event /\ e.type = "peer_online"
                        /\ e.peer \in Agents /\ e.outage <= outages[e.peer]
    BY <2>1, <2>2, AlertsAssumption DEF Transition, Event, AllPeers, TypeOK
  <2>4. /\ job' \in [Sources -> JobState] /\ SourceInv' /\ RowsInv'
        /\ job'["monitor"].todo = todo /\ job'["monitor"].ev = NoEvent
    BY <1>1, <1>2, <1>5, <2>3, TodoChange
  <2>5. peerStates' \in [Agents -> {"online", "offline", None}]
    BY <1>5 DEF NewStates
  <2>6. TypeOK'
    BY <1>1, <1>5, <2>4, <2>5 DEF TypeOK, peerVars
  <2>7. \A e \in todo : e \notin reported
    BY <2>1, <2>2 DEF MonitorInv, AnnouncedInv, Announced
  <2>8. Announced' = reported \cup todo \cup {NoEvent}
    BY <1>1, <2>4 DEF Announced
  <2>9. \A p \in Agents : (hb[p] = "fresh" => peerStates'[p] = "online")
                          /\ (hb[p] # "fresh" => peerStates'[p] # "online")
    BY <1>5 DEF NewStates, None
  <2>10. AnnouncedInv'
    <3>1. \A e \in Announced' : e # NoEvent => e.peer \in Agents /\ e.outage <= outages'[e.peer]
      BY <1>1, <2>3, <2>8 DEF MonitorInv, AnnouncedInv, Announced, peerVars
    <3>2. \A p \in Agents : hb'[p] = "fresh" \/ peerStates'[p] # "online"
      BY <1>1, <2>9 DEF peerVars
    <3>3. ASSUME NEW p \in Agents, Transition("peer_online", p)' \in Announced'
          PROVE  hb'[p] = "fresh" /\ peerStates'[p] # "offline"
      <4>1. hb[p] = "fresh"
        <5>1. CASE Transition("peer_online", p) \in reported
          BY <5>1 DEF MonitorInv, AnnouncedInv, Announced
        <5>2. CASE Transition("peer_online", p) \in todo
          <6>1. PICK q \in back : Transition("peer_online", p) = Transition("peer_online", q)
            BY <2>1, <5>2
          <6>2. p = q
            BY <6>1 DEF Transition
          <6> QED  BY <2>2, <6>2
        <5> QED  BY <3>3, <5>1, <5>2, <2>8, <1>3, NoEventIsNone DEF Transition
      <4> QED  BY <4>1, <1>1, <2>9 DEF peerVars
    <3> QED  BY <3>1, <3>2, <3>3 DEF AnnouncedInv
  <2>11. UnreportedInv'
    <3>1. NoEvent \notin reported /\ NoEvent \notin todo
      BY <2>3, NoEventIsNone DEF TypeOK
    <3> QED  BY <1>1, <2>4, <2>7, <3>1 DEF UnreportedInv
  <2> QED  BY <2>4, <2>6, <2>10, <2>11 DEF MonitorInv
<1> QED  BY <1>4, <1>5 DEF CheckPeersOnline, NewTodo, Transition

(* Heartbeats and silence: an outage that begins is not announced yet.     *)
LEMMA HeartbeatStep ==
  ASSUME IInv, NEW p \in Agents, Heartbeat(p)
  PROVE  IInv'
<1> USE DEF IInv, Heartbeat
<1>1. UNCHANGED <<outages, monVars, rules, alertVars>>
  OBVIOUS
<1>2. TypeOK' /\ SourceInv'
  BY DEF TypeOK, SourceInv, monVars, alertVars
<1>3. RowsInv'
  BY RowsUntouched DEF SameJobs, alertVars
<1>4. Announced' = Announced /\ \A type, q : Transition(type, q)' = Transition(type, q)
  BY DEF Announced, Transition, alertVars
<1>5. AnnouncedInv'
  BY <1>4 DEF MonitorInv, AnnouncedInv, TypeOK, monVars
<1>6. UnreportedInv'
  BY DEF MonitorInv, UnreportedInv, alertVars
<1> QED  BY <1>2, <1>3, <1>5, <1>6 DEF MonitorInv

(* A peer falls silent.                                                    *)
LEMMA SilenceStep ==
  ASSUME IInv, NEW p \in Agents, FallsSilent(p)
  PROVE  IInv'
<1> USE DEF IInv
<1>1. UNCHANGED <<statusOffline, monVars, rules, alertVars>>
  BY DEF FallsSilent
<1>2. hb' \in [Agents -> {"never", "fresh", "stale"}]
  BY DEF FallsSilent, TypeOK
<1>3. /\ outages \in [Agents -> 0..MaxOutages] /\ outages' \in [Agents -> 0..MaxOutages]
      /\ outages'[p] = outages[p] + 1 /\ \A q \in Agents : q # p => outages'[q] = outages[q]
  BY AlertsAssumption DEF FallsSilent, TypeOK
<1>4. TypeOK' /\ SourceInv'
  BY <1>1, <1>2, <1>3 DEF TypeOK, SourceInv, monVars, alertVars
<1>5. RowsInv'
  BY <1>1, RowsUntouched DEF SameJobs, alertVars
<1>6. Announced' = Announced
  BY <1>1 DEF Announced, alertVars
<1>7. \A e \in Announced : e # NoEvent => e.peer \in Agents /\ e.outage \in Nat
  BY DEF MonitorInv, AnnouncedInv, Announced, TypeOK, JobState, Event, Sources, Loops
<1>8. \A type \in {"peer_offline", "peer_online"} : Transition(type, p)' \notin Announced'
  BY <1>3, <1>6, <1>7, NoEventIsNone DEF Transition, MonitorInv, AnnouncedInv
<1>9. \A type \in {"peer_offline", "peer_online"}, q \in Agents : q # p =>
        Transition(type, q)' = Transition(type, q) /\ hb'[q] = hb[q]
  BY <1>3 DEF Transition, FallsSilent, TypeOK
<1>10. \A e \in Announced' : e # NoEvent => e.peer \in Agents /\ e.outage <= outages'[e.peer]
  BY <1>3, <1>6, <1>7, AlertsAssumption DEF MonitorInv, AnnouncedInv
<1>11. AnnouncedInv'
  BY <1>1, <1>6, <1>8, <1>9, <1>10 DEF MonitorInv, AnnouncedInv, monVars
<1>12. UnreportedInv'
  BY <1>1 DEF MonitorInv, UnreportedInv, alertVars
<1> QED  BY <1>4, <1>5, <1>11, <1>12 DEF MonitorInv

(* A restart: the marks are gone, but a map that is loaded says offline of *)
(* every silent peer, and a map that is empty says online of none.         *)
LEMMA RestartStep ==
  ASSUME IInv, Restart
  PROVE  IInv'
<1> USE DEF IInv
<1>1. /\ faults' = faults + 1 /\ faults < MaxFaults
      /\ job' = [s \in Sources |-> Idle] /\ missed' = [s \in Sources |-> {}]
      /\ offlineAlertSent' = {} /\ offlinePeers' = {} /\ checking' = FALSE
      /\ grace' = TRUE /\ spikeQuiet' = FALSE
      /\ UNCHANGED <<peerVars, rules, rows, reported>>
  BY DEF Restart
<1>2. /\ peerStates' \in [Agents -> {"online", "offline", None}]
      /\ \A p \in Agents : /\ hb[p] = "fresh" => peerStates'[p] # "offline"
                           /\ hb[p] # "fresh" => peerStates'[p] # "online"
  <2>1. CASE peerStates' = [p \in Agents |-> LoadedState(p)]
    BY <2>1 DEF LoadedState
  <2>2. CASE peerStates' = [p \in Agents |-> None]
    BY <2>2 DEF None
  <2> QED  BY <2>1, <2>2 DEF Restart
<1>3. \A s \in Sources : job'[s] = Idle
  BY <1>1
<1>4. \A s \in Sources : job'[s].ev = NoEvent /\ job'[s].row = 0 /\ job'[s].todo = {}
  BY <1>3 DEF Idle
<1>5. {"scheduler", "monitor"} \subseteq Sources
  BY DEF Sources, Loops
<1>6. TypeOK'
  <2>1. job' \in [Sources -> JobState]
    BY <1>1 DEF Idle, JobState
  <2>2. faults' \in 0..MaxFaults
    BY <1>1, AlertsAssumption DEF TypeOK
  <2> QED  BY <1>1, <1>2, <2>1, <2>2 DEF TypeOK, peerVars
<1>7. SourceInv'
  BY <1>4, <1>5, NoEventIsNone DEF SourceInv, None
<1>8. RowsInv'
  BY <1>1, RowsRemoved
<1>9. Announced' = reported \cup {NoEvent}
  BY <1>1, <1>4, <1>5 DEF Announced
<1>10. \A type \in {"peer_offline", "peer_online"}, p \in Agents :
         Transition(type, p)' \in Announced' => Transition(type, p) \in Announced
  BY <1>1, <1>9, NoEventIsNone DEF Transition, Announced, peerVars
<1>11. \A e \in Announced' : e # NoEvent => e.peer \in Agents /\ e.outage <= outages'[e.peer]
  BY <1>1, <1>9 DEF MonitorInv, AnnouncedInv, Announced, peerVars
<1>12. AnnouncedInv'
  <2>1. \A p \in Agents : hb'[p] = "fresh" \/ peerStates'[p] # "online"
    BY <1>1, <1>2 DEF peerVars
  <2>2. \A p \in Agents : Transition("peer_online", p)' \in Announced' =>
          hb'[p] = "fresh" /\ peerStates'[p] # "offline"
    BY <1>1, <1>2, <1>10 DEF MonitorInv, AnnouncedInv, peerVars
  <2> QED  BY <1>11, <2>1, <2>2 DEF AnnouncedInv
<1>13. UnreportedInv'
  <2>1. NoEvent \notin reported
    BY NoEventIsNone DEF TypeOK
  <2> QED  BY <1>1, <1>4, <1>5, <2>1 DEF UnreportedInv
<1> QED  BY <1>6, <1>7, <1>8, <1>12, <1>13 DEF MonitorInv

(* Time, the offline detector and administrators.                          *)
LEMMA OtherStep ==
  ASSUME IInv,
         \/ DetectOffline \/ SpikeQuietEnds \/ GraceEnds \/ ClearAllAlerts
         \/ \E i \in DOMAIN rows : DeleteAlert(i)
         \/ UNCHANGED vars
  PROVE  IInv'
<1> USE DEF IInv
<1>1. /\ hb' = hb /\ outages' = outages /\ peerStates' = peerStates
      /\ offlineAlertSent' = offlineAlertSent
      /\ job' = job /\ missed' = missed /\ reported' = reported
  BY DEF DetectOffline, SpikeQuietEnds, GraceEnds, ClearAllAlerts, DeleteAlert, vars,
         peerVars, monVars, alertVars
<1>2. DOMAIN rows' \subseteq DOMAIN rows /\ \A i \in DOMAIN rows' : rows'[i] = rows[i]
  <2>1. CASE ClearAllAlerts
    <3>1. DOMAIN rows' = {}
      BY <2>1 DEF ClearAllAlerts
    <3> QED  BY <3>1
  <2>2. CASE \E i \in DOMAIN rows : DeleteAlert(i)
    BY <2>2 DEF DeleteAlert
  <2> QED  BY <2>1, <2>2 DEF DetectOffline, SpikeQuietEnds, GraceEnds, vars, alertVars
<1>3. TypeOK'
  <2>1. /\ checking' \in BOOLEAN /\ grace' \in BOOLEAN /\ spikeQuiet' \in BOOLEAN
        /\ offlinePeers' = offlinePeers /\ rules' = rules /\ faults' = faults
    BY DEF TypeOK, DetectOffline, SpikeQuietEnds, GraceEnds, ClearAllAlerts, DeleteAlert, vars,
           peerVars, monVars, alertVars
  <2>2. statusOffline' \subseteq AllPeers
    BY DEF TypeOK, DetectOffline, SpikeQuietEnds, GraceEnds, ClearAllAlerts, DeleteAlert, vars,
           peerVars, monVars, alertVars, AllPeers
  <2> QED  BY <1>1, <1>2, <2>1, <2>2 DEF TypeOK
<1>4. SourceInv'
  BY <1>1 DEF SourceInv
<1>5. RowsInv'
  BY <1>1, <1>2, RowsRemoved DEF SameJobs
<1>6. Announced' = Announced
  BY <1>1 DEF Announced
<1>7. AnnouncedInv'
  BY <1>1, <1>6, NothingAnnounced DEF MonitorInv
<1>8. UnreportedInv'
  BY <1>1 DEF MonitorInv, UnreportedInv
<1> QED  BY <1>3, <1>4, <1>5, <1>7, <1>8 DEF MonitorInv

(* The invariant is inductive.                                             *)
LEMMA StepInv == IInv /\ [Next]_vars => IInv'
<1> SUFFICES ASSUME IInv, [Next]_vars PROVE IInv'
  OBVIOUS
<1>1. ASSUME NEW s \in Sources, Process(s) PROVE IInv'
  BY <1>1, CreateStep, SettleStep DEF Process
<1>2. CASE CheckPeersOffline
  BY <1>2, CheckOfflineStep
<1>3. CASE CheckPeersOnline
  BY <1>3, CheckOnlineStep
<1>4. CASE MonitorTriggers
  BY <1>4, MonitorTriggerStep DEF MonitorTriggers
<1>5. ASSUME NEW type \in Types, CheckRule(type) PROVE IInv'
  BY <1>5, CheckRuleStep
<1>6. CASE CheckForSpike
  BY <1>6, SpikeStep
<1>7. ASSUME NEW p \in Agents, PushTrigger(p) \/ \E q \in Requests : HandlerTrigger(q, p)
      PROVE  IInv'
  <2>1. {"push"} \cup Requests \subseteq Sources \ {"monitor"}
    BY AlertsAssumption DEF Sources, Loops
  <2> QED  BY <1>7, <2>1, DirectStep DEF PushTrigger, HandlerTrigger
<1>8. ASSUME NEW p \in Agents, Heartbeat(p) \/ FallsSilent(p) PROVE IInv'
  BY <1>8, HeartbeatStep, SilenceStep
<1>9. CASE Restart
  BY <1>9, RestartStep
<1>10. CASE \/ DetectOffline \/ SpikeQuietEnds \/ GraceEnds \/ ClearAllAlerts
            \/ \E i \in DOMAIN rows : DeleteAlert(i)
            \/ UNCHANGED vars
  BY <1>10, OtherStep
<1> QED  BY <1>1, <1>2, <1>3, <1>4, <1>5, <1>6, <1>7, <1>8, <1>9, <1>10 DEF Next

(* The inductive invariant holds.                                          *)
LEMMA Invariant == Spec => []IInv
BY InitInv, StepInv, PTL DEF Spec

(***************************************************************************)
(* The theorems                                                            *)
(***************************************************************************)

(* Every reachable state of the alert system is of the declared types.     *)
THEOREM TypeCorrect == Spec => []TypeOK
<1>1. IInv => TypeOK
  BY DEF IInv
<1> QED  BY <1>1, Invariant, PTL

(* A row that a step adds is the row of what its source had in hand.       *)
LEMMA NewRows ==
  ASSUME [Next]_vars, NEW i \in DOMAIN rows' \ DOMAIN rows
  PROVE  \E s \in Sources :
           /\ job[s].ev # NoEvent
           /\ rows'[i].ev = job[s].ev /\ rows'[i].src = s /\ rows'[i].blind = job[s].blind
<1> DEFINE Goal == \E s \in Sources :
             /\ job[s].ev # NoEvent
             /\ rows'[i].ev = job[s].ev /\ rows'[i].src = s /\ rows'[i].blind = job[s].blind
<1>1. ASSUME NEW s \in Sources, CreateAlertHistory(s)
      PROVE  Goal
  <2>1. (\E k \in FreeIds : Inserts(s, k)) \/ rows' = rows
    BY <1>1 DEF CreateAlertHistory, Inserts
  <2>2. PICK k \in FreeIds : Inserts(s, k)
    BY <2>1
  <2>3. i = k
    BY <2>2 DEF Inserts
  <2>4. rows'[i] = NewRow(job[s].ev, s, job[s].blind)
    BY <2>2, <2>3 DEF Inserts
  <2> QED  BY <1>1, <2>4 DEF NewRow, CreateAlertHistory
<1>2. ASSUME DOMAIN rows' \subseteq DOMAIN rows
      PROVE  FALSE
  BY <1>2
<1>3. ASSUME NEW s \in Sources, NEW st \in {"sent", "failed"}, SendAndSettle(s, st)
      PROVE  FALSE
  BY <1>2, <1>3 DEF SendAndSettle, Settled
<1>4. ASSUME NEW k \in DOMAIN rows, DeleteAlert(k)
      PROVE  FALSE
  BY <1>2, <1>4 DEF DeleteAlert
<1>5. CASE ClearAllAlerts
  BY <1>2, <1>5 DEF ClearAllAlerts
<1>6. ASSUME rows' = rows
      PROVE  FALSE
  BY <1>2, <1>6
<1>7. ASSUME \/ CheckPeersOffline \/ CheckPeersOnline \/ MonitorTriggers
             \/ \E t \in Types : CheckRule(t)
             \/ CheckForSpike
      PROVE  FALSE
  BY <1>6, <1>7 DEF CheckPeersOffline, CheckPeersOnline, MonitorTriggers, MonitorTrigger,
             CheckRule, CheckForSpike
<1>8. ASSUME \/ \E q \in Requests, p \in Agents : HandlerTrigger(q, p)
             \/ \E p \in Agents : PushTrigger(p) \/ Heartbeat(p) \/ FallsSilent(p)
             \/ DetectOffline \/ SpikeQuietEnds \/ GraceEnds \/ Restart \/ UNCHANGED vars
      PROVE  FALSE
  BY <1>6, <1>8 DEF HandlerTrigger, PushTrigger, DirectTrigger, Heartbeat, FallsSilent,
             DetectOffline, SpikeQuietEnds, GraceEnds, Restart, vars, alertVars
<1> QED  BY <1>1, <1>3, <1>4, <1>5, <1>7, <1>8 DEF Next, Process

(* isRuleThrottled and CreateAlertHistory are two statements that all      *)
(* goroutines interleave; what a throttled rule lets into a period besides *)
(* failed lookups are alerts whose lookup came before every other counted  *)
(* alert of the period was recorded, for any number of concurrent requests.*)
THEOREM ThrottleHolds == Spec => ThrottledUnlessRaced
<1>1. ASSUME IInv, [Next]_vars
      PROVE  [\A i \in DOMAIN rows' \ DOMAIN rows :
                (rows'[i].ev.type \in Throttled /\ ~ rows'[i].blind)
                => \A k \in DOMAIN rows :
                     (rows[k].ev.type = rows'[i].ev.type /\ rows[k].status # "failed")
                     => k \in missed[rows'[i].src]]_vars
  <2> SUFFICES ASSUME NEW i \in DOMAIN rows' \ DOMAIN rows,
                      rows'[i].ev.type \in Throttled, ~ rows'[i].blind,
                      NEW k \in DOMAIN rows, rows[k].ev.type = rows'[i].ev.type,
                      rows[k].status # "failed"
               PROVE  k \in missed[rows'[i].src]
    OBVIOUS
  <2>1. PICK s \in Sources :
          /\ job[s].ev # NoEvent
          /\ rows'[i].ev = job[s].ev /\ rows'[i].src = s /\ rows'[i].blind = job[s].blind
    BY <1>1, NewRows
  <2> QED  BY <1>1, <2>1 DEF IInv, RowsInv, ThrottleInv
<1> QED  BY <1>1, Invariant, PTL DEF Spec, ThrottledUnlessRaced

(* evaluateBundleDeployed never lets a deployment be announced twice within *)
(* its window, whatever became of the first announcement's mails.          *)
THEOREM AnnouncedOnce == Spec => []DeployedOnce
<1>1. IInv => DeployedOnce
  BY DEF IInv, RowsInv
<1> QED  BY <1>1, Invariant, PTL

(* checkPeers never writes a second row about one outage, or about the end *)
(* of one, across failing queries, late heartbeats and restarts.           *)
THEOREM TransitionsReportedOnce == Spec => OneAlertPerTransition
<1>1. ASSUME IInv, [Next]_vars
      PROVE  [\A i \in DOMAIN rows' \ DOMAIN rows :
                rows'[i].src = "monitor" => rows'[i].ev \notin reported]_vars
  BY <1>1, NewRows DEF IInv, MonitorInv, UnreportedInv
<1> QED  BY <1>1, Invariant, PTL DEF Spec, OneAlertPerTransition
=============================================================================
