----------------------------- MODULE AgentApply -----------------------------
(***************************************************************************)
(* How one agent pulls, applies, reverts and confirms rule bundles:        *)
(* internal/agent/apply (ApplyBundle and the watchdog), the pulling side   *)
(* of internal/agent/core and internal/agent/transport, and the handlers   *)
(* of the control plane they talk to.                                      *)
(*                                                                         *)
(* ApplyBundle is not serialised: the poll loop and every SSE connection's *)
(* callback may be inside it at the same time.  Each of them is a puller;  *)
(* each step of ApplyBundle that touches the firewall, the disk or the     *)
(* control plane is an action of its own.                                  *)
(*                                                                         *)
(* External: the packet filter.  A firewall is the sequence of rule sets   *)
(* loaded since the last flush and the chain policy.  iptables -F empties  *)
(* the chains and keeps the policy; iptables-restore --noflush appends to  *)
(* the chains and sets the policy.  A bundle ends in a catch-all DROP, so  *)
(* the first rule set of the sequence decides.  A bundle is named by its   *)
(* position in the order of compilation; rule set 0 is what the agent      *)
(* found on the host.                                                      *)
(***************************************************************************)
EXTENDS Naturals, Sequences, FiniteSets

CONSTANTS
    Poll,          \* the puller of pollLoop and of the boot-time pull
    Conns,         \* SSE connections, each with its own bundleGuard
    MaxVersion,    \* bound on the number of compiled bundles
    FormOf,        \* FormOf[v]: which ipset lines the text of bundle v has
    Blocking,      \* bundles that cut the agent off from the control plane
    BootSettings,  \* values of apply_on_boot in the agent's configuration
    MaxEvents,     \* bound on the number of bundle_updated events
    FaultKinds,    \* the kinds of fault that may happen
    MaxFaults      \* bound on the number of faults

Pullers == {Poll} \cup Conns
Versions == 1..MaxVersion
Forms == {"plain", "groups", "private"}

ASSUME AgentApplyAssumption ==
    /\ MaxVersion \in Nat /\ MaxEvents \in Nat /\ MaxFaults \in Nat
    /\ Conns # {} /\ Poll \notin Conns
    /\ FormOf \in [0..MaxVersion -> Forms] /\ FormOf[0] = "plain"
    /\ Blocking \subseteq Versions
    /\ BootSettings \subseteq BOOLEAN

VARIABLES
    latest,      \* newest bundle of the peer on the control plane, 0: none
    confirmed,   \* peers.bundle_version, 0: none
    fw,          \* the firewall: [rules, policy]
    onBoot,      \* apply_on_boot of this agent
    agent,       \* "down", "booting", "cached" (falls back) or "up"
    curVer,      \* Config.CurrentBundleVer in memory
    diskVer,     \* the same in the configuration file
    cached,      \* bundle in CachedBundlePath, 0: none
    backupFile,  \* content of LocalBackupPath, {}: no file
    conn,        \* the SSE connection the agent listens on
    events,      \* number of bundle_updated events so far
    hb,          \* version carried by a heartbeat under way, 0: none
    pc,          \* where each puller is
    hand,        \* the version it holds: If-None-Match, then the bundle
    backup,      \* its in-memory backup
    timer,       \* its auto-revert timer is running
    result,      \* how its last pull ended
    reverting,   \* backups of auto-revert timers that have fired
    tested,      \* bundles that have passed a smoke test (history)
    cut,         \* flushed by an apply that a crash cut off or whose revert
                 \* was rejected: the firewalls from before (history)
    rejected,    \* bundles that iptables-restore has rejected (history)
    faults       \* number of faults so far

server == <<latest, confirmed>>
sse == <<conn, events>>
disk == <<onBoot, diskVer, cached, backupFile>>
puller == <<pc, hand, backup, timer, result>>
history == <<tested, cut, rejected, faults>>
vars == <<server, fw, agent, curVer, disk, sse, hb, puller, reverting,
          history>>

Applying == {"flushing", "ipsets", "restoring", "smoking", "disarming"}
PullerStates == Applying \cup
    {"idle", "fetching", "verifying", "confirming", "caching", "recording"}
Results == {"none", "ok", "unchanged", "failed", "not_flushed",
            "ipset_failed", "restore_failed", "smoke_failed"}
Firewalls ==
    [rules : Seq(0..MaxVersion), policy : {"accept", "drop"}]

(* The type of every variable.                                             *)
TypeOK ==
    /\ latest \in 0..MaxVersion /\ confirmed \in 0..MaxVersion
    /\ fw \in Firewalls
    /\ onBoot \in BootSettings
    /\ agent \in {"down", "booting", "cached", "up"}
    /\ curVer \in 0..MaxVersion /\ diskVer \in 0..MaxVersion
    /\ cached \in 0..MaxVersion
    /\ backupFile \subseteq Firewalls /\ Cardinality(backupFile) <= 1
    /\ conn \in Conns /\ events \in 0..MaxEvents
    /\ hb \in 0..MaxVersion
    /\ pc \in [Pullers -> PullerStates]
    /\ hand \in [Pullers -> 0..MaxVersion]
    /\ backup \in [Pullers -> Firewalls]
    /\ timer \in [Pullers -> BOOLEAN]
    /\ result \in [Pullers -> Results]
    /\ reverting \subseteq Firewalls
    /\ tested \subseteq Versions
    /\ cut \subseteq Firewalls /\ rejected \subseteq 0..MaxVersion
    /\ faults \in 0..MaxFaults

HostRules == [rules |-> <<0>>, policy |-> "accept"]

Init ==
    /\ latest = 0 /\ confirmed = 0
    /\ fw = HostRules
    /\ onBoot \in BootSettings
    /\ agent = "up"
    /\ curVer = 0 /\ diskVer = 0
    /\ cached = 0 /\ backupFile = {}
    /\ conn \in Conns /\ events = 0
    /\ hb = 0
    /\ pc = [p \in Pullers |-> "idle"]
    /\ hand = [p \in Pullers |-> 0]
    /\ backup = [p \in Pullers |-> HostRules]
    /\ timer = [p \in Pullers |-> FALSE]
    /\ result = [p \in Pullers |-> "none"]
    /\ reverting = {}
    /\ tested = {} /\ cut = {} /\ rejected = {} /\ faults = 0

-----------------------------------------------------------------------------
(* Helpers.                                                                *)

(* A fault of the given kind happens.                                      *)
Fault(kind) ==
    /\ kind \in FaultKinds
    /\ faults < MaxFaults
    /\ faults' = faults + 1

NoFault == faults' = faults

(* iptables -F and -X on the filter and nat tables.                        *)
Flushed(f) == [f EXCEPT !.rules = <<>>]

(* iptables-restore --noflush of a text with the given content.            *)
Load(f, image) ==
    [rules |-> f.rules \o image.rules, policy |-> image.policy]

(* What loading bundle v alone amounts to: chain policies are DROP.        *)
Image(v) == [rules |-> <<v>>, policy |-> "drop"]

(* A bundle for a peer with ipset support defines runic_private_ranges     *)
(* after the group sets.  The "Ipset Definitions" marker, where            *)
(* stripIpsetSection begins to cut, is written with the group sets only;   *)
(* iptables-restore rejects whatever ipset line is left in the text.       *)
HasMarker(v) == FormOf[v] = "groups"
RestorableStripped(v) == FormOf[v] # "private"
RestorableWhole(v) == FormOf[v] = "plain"

(* A saved firewall whose rules refer to no ipset loads whatever happened  *)
(* to the sets; any other may be rejected.                                 *)
IpsetFree(f) == \A i \in 1..Len(f.rules) : FormOf[f.rules[i]] = "plain"

(* revertRules: what the firewall may be afterwards.                       *)
Reverted(image) ==
    {Load(fw, image)} \cup (IF IpsetFree(image) THEN {} ELSE {fw})

(* Whether packets of the agent get to the control plane and back.         *)
Reachable ==
    IF fw.rules = <<>> THEN fw.policy = "accept"
                       ELSE Head(fw.rules) \notin Blocking

(* The puller leaves its pull with the given result.  Its backup is kept   *)
(* on record when the apply began and failed.                              *)
End(p, res) ==
    /\ pc' = [pc EXCEPT ![p] = "idle"]
    /\ hand' = [hand EXCEPT ![p] = 0]
    /\ backup' = IF res \in {"ok", "unchanged", "failed"}
                   THEN [backup EXCEPT ![p] = HostRules] ELSE backup
    /\ result' = [result EXCEPT ![p] = res]

Goto(p, state) == pc' = [pc EXCEPT ![p] = state]

-----------------------------------------------------------------------------
(* Control plane.                                                          *)

(* CompileAndStore: the text carries the time of compilation, so its hash, *)
(* the version, is new each time.                                          *)
Publish ==
    /\ latest < MaxVersion
    /\ latest' = latest + 1
    /\ UNCHANGED <<confirmed, fw, agent, curVer, disk, sse, hb, puller,
                   reverting, history>>

-----------------------------------------------------------------------------
(* Pulling.                                                                *)

(* pullBundle reads the configuration and builds the request.              *)
Begin(p) ==
    /\ pc[p] = "idle"
    /\ pc' = [pc EXCEPT ![p] = "fetching"]
    /\ hand' = [hand EXCEPT ![p] = curVer]
    /\ result' = [result EXCEPT ![p] = "none"]
    /\ UNCHANGED <<server, fw, agent, curVer, disk, conn, hb, backup, timer,
                   reverting, history>>

(* A tick of pollLoop.                                                     *)
StartPoll == agent = "up" /\ Begin(Poll) /\ UNCHANGED events

(* bundle_updated on the current connection; bundleGuard skips it while    *)
(* that connection's previous callback runs.                               *)
OnBundleUpdate ==
    /\ agent = "up"
    /\ events < MaxEvents
    /\ events' = events + 1
    /\ Begin(conn)

(* The stream breaks and ListenSSE connects again, with fresh guards; the  *)
(* callback of the old connection goes on.                                 *)
Reconnect ==
    /\ agent = "up"
    /\ \E c \in Conns \ {conn} : pc[c] = "idle" /\ conn' = c
    /\ UNCHANGED <<server, fw, agent, curVer, disk, events, hb, puller,
                   reverting, history>>

(* GetBundle and its answers: 404, 304 or the newest bundle.               *)
Fetch(p) ==
    /\ pc[p] = "fetching"
    /\ Reachable
    /\ CASE latest = 0 -> End(p, "failed")
         [] latest # 0 /\ latest = hand[p] -> End(p, "unchanged")
         [] OTHER -> /\ Goto(p, "verifying")
                     /\ hand' = [hand EXCEPT ![p] = latest]
                     /\ UNCHANGED <<backup, result>>
    /\ UNCHANGED <<server, fw, agent, curVer, disk, sse, hb, timer,
                   reverting, history>>

(* The request fails, because of the firewall or of the network.           *)
FetchFails(p) ==
    /\ pc[p] = "fetching"
    /\ (~Reachable /\ NoFault) \/ Fault("fetch")
    /\ End(p, "failed")
    /\ UNCHANGED <<server, fw, agent, curVer, disk, sse, hb, timer,
                   reverting, tested, cut, rejected>>

-----------------------------------------------------------------------------
(* ApplyBundle.                                                            *)

(* A rejected bundle whose version is recorded all the same.               *)
RejectRecorded(p) ==
    /\ pc[p] = "verifying"
    /\ Fault("reject")
    /\ curVer' = hand[p]
    /\ End(p, "failed")
    /\ UNCHANGED <<server, fw, agent, disk, sse, hb, timer, reverting,
                   tested, cut, rejected>>

(* HMAC verification, rule validation or the dump fails.                   *)
Reject(p) ==
    /\ pc[p] = "verifying"
    /\ Fault("reject")
    /\ End(p, "failed")
    /\ UNCHANGED <<server, fw, agent, curVer, disk, sse, hb, timer,
                   reverting, tested, cut, rejected>>

(* dumpCurrentRules, persistBackup (whose failure is only logged) and      *)
(* scheduleRevert.                                                         *)
Dump(p) ==
    /\ pc[p] = "verifying"
    /\ backup' = [backup EXCEPT ![p] = fw]
    /\ \/ backupFile' = {fw} /\ NoFault
       \/ backupFile' = backupFile /\ Fault("persist")
    /\ timer' = [timer EXCEPT ![p] = TRUE]
    /\ Goto(p, "flushing")
    /\ UNCHANGED <<server, fw, agent, curVer, onBoot, diskVer, cached, sse, hb,
                   hand, result, reverting, tested, cut, rejected>>

(* A flush that never reaches the chains.                                  *)
FlushNothing(p) ==
    /\ pc[p] = "flushing"
    /\ Goto(p, IF HasMarker(hand[p]) THEN "ipsets" ELSE "restoring")
    /\ UNCHANGED <<server, fw, agent, curVer, disk, sse, hb, hand, backup,
                   timer, result, reverting, history>>

(* flushIPTables.                                                          *)
Flush(p) ==
    /\ pc[p] = "flushing"
    /\ fw' = Flushed(fw)
    /\ Goto(p, IF HasMarker(hand[p]) THEN "ipsets" ELSE "restoring")
    /\ UNCHANGED <<server, agent, curVer, disk, sse, hb, hand, backup,
                   timer, result, reverting, history>>

(* A failing flush that returns without revertCancel.                      *)
FlushFailsArmed(p) ==
    /\ pc[p] = "flushing"
    /\ Fault("flush")
    /\ End(p, "not_flushed")
    /\ UNCHANGED <<server, fw, agent, curVer, disk, sse, hb, timer,
                   reverting, tested, cut, rejected>>

(* The temporary file or the flush fails: revertCancel and return.         *)
FlushFails(p) ==
    /\ pc[p] = "flushing"
    /\ Fault("flush")
    /\ timer' = [timer EXCEPT ![p] = FALSE]
    /\ End(p, "not_flushed")
    /\ UNCHANGED <<server, fw, agent, curVer, disk, sse, hb, reverting,
                   tested, cut, rejected>>

(* applyIpsets.                                                            *)
Ipsets(p) ==
    /\ pc[p] = "ipsets"
    /\ Goto(p, "restoring")
    /\ UNCHANGED <<server, fw, agent, curVer, disk, sse, hb, hand,
                   backup, timer, result, reverting, history>>

(* applyIpsets fails and ApplyBundle returns without a revert.             *)
IpsetsFailUnreverted(p) ==
    /\ pc[p] = "ipsets"
    /\ Fault("ipset")
    /\ timer' = [timer EXCEPT ![p] = FALSE]
    /\ End(p, "ipset_failed")
    /\ UNCHANGED <<server, fw, agent, curVer, disk, sse, hb, reverting,
                   tested, cut, rejected>>

(* applyIpsets fails: revertCancel, revertRules, return.                   *)
IpsetsFail(p) ==
    /\ pc[p] = "ipsets"
    /\ Fault("ipset")
    /\ timer' = [timer EXCEPT ![p] = FALSE]
    /\ fw' \in Reverted(backup[p])
    /\ cut' = IF fw' = Load(fw, backup[p]) THEN cut ELSE cut \cup {backup[p]}
    /\ End(p, "ipset_failed")
    /\ UNCHANGED <<server, agent, curVer, disk, sse, hb, reverting, tested, rejected>>

(* restoreFromFile of the stripped text.                                   *)
Restore(p) ==
    /\ pc[p] = "restoring"
    /\ RestorableStripped(hand[p])
    /\ fw' = Load(fw, Image(hand[p]))
    /\ Goto(p, "smoking")
    /\ UNCHANGED <<server, agent, curVer, disk, sse, hb, hand, backup,
                   timer, result, reverting, history>>

(* iptables-restore rejects the text: revertCancel and return.             *)
RestoreFails(p) ==
    /\ pc[p] = "restoring"
    /\ (~RestorableStripped(hand[p]) /\ NoFault) \/ Fault("restore")
    /\ timer' = [timer EXCEPT ![p] = FALSE]
    /\ rejected' = rejected \cup {hand[p]}
    /\ End(p, "restore_failed")
    /\ UNCHANGED <<server, fw, agent, curVer, disk, sse, hb, reverting,
                   tested, cut>>

(* The Docker restart and the smoke test; an answer of the control plane,  *)
(* 4xx included, passes it.  revertCancel, and the backup file goes.       *)
SmokePasses(p) ==
    /\ pc[p] = "smoking"
    /\ Reachable
    /\ timer' = [timer EXCEPT ![p] = FALSE]
    /\ backupFile' = {}
    /\ tested' = tested \cup {hand[p]}
    /\ Goto(p, "confirming")
    /\ UNCHANGED <<server, fw, agent, curVer, onBoot, diskVer, cached, sse, hb,
                   hand, backup, result, reverting, cut, rejected, faults>>

(* A smoke test whose failure is only logged.                              *)
SmokeFailsLogged(p) ==
    /\ pc[p] = "smoking"
    /\ (~Reachable /\ NoFault) \/ Fault("smoke")
    /\ Goto(p, "confirming")
    /\ UNCHANGED <<server, fw, agent, curVer, disk, sse, hb, hand,
                   backup, timer, result, reverting, tested, cut, rejected>>

(* No answer or a 5xx: revertRules, then (Disarm) revertCancel and return. *)
SmokeFails(p) ==
    /\ pc[p] = "smoking"
    /\ (~Reachable /\ NoFault) \/ Fault("smoke")
    /\ fw' \in Reverted(backup[p])
    /\ Goto(p, "disarming")
    /\ UNCHANGED <<server, agent, curVer, disk, sse, hb, hand, backup,
                   timer, result, reverting, tested, cut, rejected>>

Disarm(p) ==
    /\ pc[p] = "disarming"
    /\ timer' = [timer EXCEPT ![p] = FALSE]
    /\ End(p, "smoke_failed")
    /\ UNCHANGED <<server, fw, agent, curVer, disk, sse, hb, reverting,
                   history>>

(* confirmFunc: ConfirmBundleApplied on the control plane, or a failure    *)
(* that is only logged.                                                    *)
Confirm(p) ==
    /\ pc[p] = "confirming"
    /\ \/ Reachable /\ confirmed' = hand[p] /\ NoFault
       \/ ~Reachable /\ UNCHANGED confirmed /\ NoFault
       \/ UNCHANGED confirmed /\ Fault("confirm")
    /\ Goto(p, "caching")
    /\ UNCHANGED <<latest, fw, agent, curVer, disk, sse, hb, hand,
                   backup, timer, result, reverting, tested, cut, rejected>>

(* CacheBundle, whose failure is only logged.                              *)
Cache(p) ==
    /\ pc[p] = "caching"
    /\ \/ cached' = hand[p] /\ NoFault
       \/ UNCHANGED cached /\ Fault("cache")
    /\ Goto(p, "recording")
    /\ UNCHANGED <<server, fw, agent, curVer, onBoot, diskVer, backupFile, sse,
                   hb, hand, backup, timer, result, reverting, tested, cut, rejected>>

(* applyBundle after a success: CurrentBundleVer in memory and on disk.    *)
Record(p) ==
    /\ pc[p] = "recording"
    /\ curVer' = hand[p]
    /\ \/ diskVer' = hand[p] /\ NoFault
       \/ UNCHANGED diskVer /\ Fault("save")
    /\ End(p, "ok")
    /\ UNCHANGED <<server, fw, agent, onBoot, cached, backupFile, sse, hb, timer,
                   reverting, tested, cut, rejected>>

(* scheduleRevert's timer: 90 s pass before revertCancel (a slow Docker    *)
(* restart, a slow command); a later revertCancel no longer stops it.      *)
TimerFires(p) ==
    /\ timer[p]
    /\ Fault("slow")
    /\ timer' = [timer EXCEPT ![p] = FALSE]
    /\ reverting' = reverting \cup {backup[p]}
    /\ UNCHANGED <<server, fw, agent, curVer, disk, sse, hb, pc, hand,
                   backup, result, tested, cut, rejected>>

AutoRevert(image) ==
    /\ image \in reverting
    /\ fw' \in Reverted(image)
    /\ reverting' = reverting \ {image}
    /\ UNCHANGED <<server, agent, curVer, disk, sse, hb, puller, history>>

-----------------------------------------------------------------------------
(* Heartbeats.                                                             *)

(* sendHeartbeat reports CurrentBundleVer ...                              *)
HeartbeatSend ==
    /\ agent = "up"
    /\ Reachable
    /\ hb = 0 /\ curVer # 0
    /\ hb' = curVer
    /\ UNCHANGED <<server, fw, agent, curVer, disk, sse, puller,
                   reverting, history>>

(* ... and the control plane stores it when it arrives.                    *)
HeartbeatArrive ==
    /\ hb # 0
    /\ confirmed' = hb
    /\ hb' = 0
    /\ UNCHANGED <<latest, fw, agent, curVer, disk, sse, puller, reverting,
                   history>>

-----------------------------------------------------------------------------
(* Crashes, reboots and the start of the agent.                            *)

InFlight == { p \in Pullers : pc[p] \in {"ipsets", "restoring"} }

(* The agent process dies; firewall and files stay.                        *)
Stopped ==
    /\ agent' = "down"
    /\ pc' = [p \in Pullers |-> "idle"]
    /\ timer' = [p \in Pullers |-> FALSE]
    /\ result' = [p \in Pullers |-> "none"]
    /\ reverting' = {}
    /\ UNCHANGED <<server, curVer, disk, sse, hb, hand, backup, tested, rejected>>

Crash ==
    /\ agent # "down"
    /\ Fault("crash")
    /\ Stopped
    /\ cut' = cut \cup { backup[p] : p \in InFlight }
    /\ fw' = fw

(* The host reboots: disableSystemServices has masked the services that    *)
(* would reload rules, so the firewall starts empty.                       *)
Reboot ==
    /\ Fault("reboot")
    /\ Stopped
    /\ cut' = cut
    /\ fw' = [rules |-> <<>>, policy |-> "accept"]

(* initialize up to applyBootBundle: without apply_on_boot the loops       *)
(* start; with it the control plane is probed.                             *)
Boot ==
    /\ agent = "down"
    /\ curVer' = diskVer
    /\ \/ ~onBoot /\ agent' = "up" /\ UNCHANGED <<pc, hand>>
       \/ /\ onBoot /\ ~Reachable
          /\ agent' = "cached" /\ UNCHANGED <<pc, hand>>
       \/ /\ onBoot /\ Reachable
          /\ agent' = "booting"
          /\ pc' = [pc EXCEPT ![Poll] = "fetching"]
          /\ hand' = [hand EXCEPT ![Poll] = diskVer]
    /\ UNCHANGED <<server, fw, disk, sse, hb, backup, timer, result,
                   reverting, history>>

(* The boot-time pull returns, in which case the loops start, or fails.    *)
BootPulled ==
    /\ agent = "booting"
    /\ pc[Poll] = "idle"
    /\ agent' = IF result[Poll] \in {"ok", "unchanged"} THEN "up" ELSE "cached"
    /\ UNCHANGED <<server, fw, curVer, disk, sse, hb, puller, reverting,
                   history>>

(* A fallback that gives up instead of loading the cached bundle.          *)
ApplyCachedSkipped ==
    /\ agent = "cached"
    /\ agent' = "up"
    /\ UNCHANGED <<server, fw, curVer, disk, sse, hb, puller, reverting,
                   history>>

(* applyCachedBundle: the whole cached text, onto whatever is loaded.      *)
ApplyCached ==
    /\ agent = "cached"
    /\ agent' = "up"
    /\ fw' = IF cached # 0 /\ RestorableWhole(cached)
               THEN Load(fw, Image(cached)) ELSE fw
    /\ UNCHANGED <<server, curVer, disk, sse, hb, puller, reverting,
                   history>>

-----------------------------------------------------------------------------
Apply(p) ==
    \/ Reject(p) \/ Dump(p)
    \/ Flush(p) \/ FlushFails(p)
    \/ Ipsets(p) \/ IpsetsFail(p)
    \/ Restore(p) \/ RestoreFails(p)
    \/ SmokePasses(p) \/ SmokeFails(p) \/ Disarm(p)
    \/ Confirm(p) \/ Cache(p) \/ Record(p)

Pull(p) == Fetch(p) \/ FetchFails(p) \/ Apply(p)

Heartbeat == HeartbeatSend \/ HeartbeatArrive

Lifecycle == Boot \/ BootPulled \/ ApplyCached

Next ==
    \/ Publish
    \/ StartPoll \/ OnBundleUpdate \/ Reconnect
    \/ \E p \in Pullers : Pull(p) \/ TimerFires(p)
    \/ \E image \in reverting : AutoRevert(image)
    \/ Heartbeat
    \/ Crash \/ Reboot \/ Lifecycle

Spec == Init /\ [][Next]_vars

(* The poll ticker and the heartbeat ticker keep ticking, a pull that has  *)
(* begun goes on, systemd restarts the agent and its start completes.      *)
(* Events, reconnects, new bundles and faults are up to the environment.   *)
Fairness ==
    /\ WF_vars(StartPoll)
    /\ \A p \in Pullers : WF_vars(Pull(p))
    /\ WF_vars(Heartbeat)
    /\ WF_vars(Lifecycle)

FairSpec == Spec /\ Fairness

-----------------------------------------------------------------------------
(* Properties.                                                             *)

(* No pull is under way, no fired timer is still to act.                   *)
Settled ==
    /\ agent = "up"
    /\ \A p \in Pullers : pc[p] = "idle"
    /\ reverting = {}

(* However pulls of the poll loop and of SSE callbacks overlap and         *)
(* whatever fails: only a bundle that passed a smoke test is confirmed,    *)
(* reported by a heartbeat, cached for the next boot, or recorded as the   *)
(* current one.                                                            *)
OnlyTested == {confirmed, hb, cached, curVer, diskVer} \subseteq tested \cup {0}

(* The auto-revert timer runs exactly while ApplyBundle is between its     *)
(* backup and its verdict: no early return leaves one behind that would    *)
(* revert a later bundle, and no change of the firewall is uncovered.      *)
WatchdogCovers == \A p \in Pullers : timer[p] <=> pc[p] \in Applying

(* A pull that fails before the flush, or in applyIpsets, leaves the       *)
(* firewall it found; after a failed applyIpsets only if the old rules can *)
(* be loaded without the sets that are gone.                               *)
RolledBack ==
    \A p \in Pullers :
        \/ result[p] = "not_flushed"
        \/ result[p] = "ipset_failed" /\ IpsetFree(backup[p])
        => fw = backup[p]

(* "1. Current iptables rules are flushed (ensures clean slate) 2. New     *)
(* rules are applied" (README.md): after a successful pull the recorded    *)
(* bundle, and nothing else, is loaded.                                    *)
InForce == \A p \in Pullers : result[p] = "ok" => fw = Image(curVer)

(* "Persist backup to disk BEFORE any state modification so crash mid-apply*)
(* does not lose the ability to restore" (ApplyBundle): from the flush to  *)
(* the verdict, whatever the firewall holds, the rules it replaces are in  *)
(* the backup file.                                                        *)
BackupOnDisk ==
    \A p \in Pullers :
        pc[p] \in {"ipsets", "restoring", "smoking"} => backupFile = {backup[p]}

(* "If something goes wrong, a watchdog rolls the rules back so you don't  *)
(* lock yourself out" (README.md): once nothing is under way, the agent    *)
(* can talk to the control plane.  Not claimed once the agent has died     *)
(* between flush and restore, when the watchdog dies with it, or the       *)
(* kernel has rejected old rules whose ipsets were destroyed.              *)
NotLockedOut == Settled /\ cut = {} => Reachable

(* The same claim for any bundles, restored or rejected: an agent with     *)
(* nothing under way whose chains are empty and closed has lost them in    *)
(* one of three ways, a bundle that iptables-restore rejected (after which *)
(* ApplyBundle does not revert), a death between flush and restore, or a   *)
(* revert that was rejected.  No other sequence of failed flushes, ipsets  *)
(* and smoke tests, restarts and cached bundles ends there.                *)
LockoutExplained ==
    Settled /\ cut = {} /\ rejected = {} => fw.rules # <<>> \/ fw.policy = "accept"

(* A bundle that cuts the agent off is nowhere taken for an applied one:   *)
(* it is not confirmed, reported, cached for the next boot or recorded,    *)
(* though it stays in the firewall when revertRules appends to it.         *)
BlockingUnacknowledged == {confirmed, hb, cached, curVer, diskVer} \cap Blocking = {}

(* What keeps an agent from ever pulling again: a bundle that cuts it off  *)
(* is in front, or a bundle was rejected after the flush.                  *)
Stuck == rejected # {} \/ (fw.rules # <<>> /\ Head(fw.rules) \in Blocking)

(* The newest bundle ends up in the firewall and on record at the control  *)
(* plane, unless a newer one is compiled, whatever fails or is lost on the *)
(* way; not claimed of an agent that is stuck, or whose apply or revert    *)
(* was cut off.  The cached bundle of an agent with apply_on_boot may be   *)
(* loaded a second time, so that for this agent the bundle that decides is *)
(* meant: the first one.                                                   *)
Converged(v) ==
    /\ curVer = v /\ confirmed = v
    /\ IF onBoot THEN fw.rules # <<>> /\ Head(fw.rules) = v ELSE fw = Image(v)
Convergence ==
    \A v \in Versions : (latest = v) ~> (Converged(v) \/ latest > v \/ cut # {} \/ Stuck)

(* An agent started with apply_on_boot and a cached bundle gets there too, *)
(* however often it dies in the middle of an apply: the probe of the       *)
(* control plane fails, and the cached bundle opens the way to it again,   *)
(* unless its text defines ipsets, which applyCachedBundle does not strip. *)
Recovery ==
    \A v \in Versions :
        (latest = v /\ onBoot /\ cached # 0)
            ~> (Converged(v) \/ latest > v \/ ~RestorableWhole(cached) \/ Stuck)

(* "Smoke test failed after apply, reverting ... Rules reverted            *)
(* successfully" (ApplyBundle): the previous rules are back.               *)
RevertRestores ==
    \A p \in Pullers : result[p] = "smoke_failed" => fw = backup[p]

(* "Enable applying rules on boot" (-enable-on-boot of runic-agent): an    *)
(* agent that has started with apply_on_boot and has a bundle on record    *)
(* has rules loaded.                                                       *)
BootApplies == Settled /\ onBoot /\ curVer # 0 => fw.rules # <<>>
=============================================================================
