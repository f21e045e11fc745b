# A TLA+ model of runic

Runic manages the firewalls of many hosts from one place. A *control plane*
(Go, SQLite) keeps peers, groups, services and policies, compiles them into one
iptables bundle per peer and serves it; an *agent* on each host pulls its
bundle, applies it with a watchdog, and reports back. This directory holds
TLA+ modules of the parts of runic in which order, concurrency and failure
decide whether it is right, TLC configurations that check them on small
instances, and TLAPS proofs.

`PROJECT.json` lists the components, the runs, the source lines each definition
models, a plausible bug (mutant) for every checked property, the hazards of the
code and the disagreements between code and documentation the runs found.

## 1. Inventory

### Parts of the system

| part | state it keeps | operations | talks to | what makes it correct |
|---|---|---|---|---|
| **Change worker** `internal/change` | channel of 100 items, `started`, `stopped`, `done`, the row table `pending_changes` | `Start`, `Stop`, `QueuePeerChange`, `QueueGroupChange`, the goroutine | policy, group, service, peer and import handlers call it; it signals through the event hub | an acknowledged change becomes rows; no send on a closed channel; nothing runs twice; shutdown drains |
| **Event hub** `internal/api/events` | one entry (channel, pending counter) per connected agent; frontend and push-job channels | `Register`, `Unregister`, `Notify…`, the stream handler | change worker, apply and push handlers notify; agents listen | no send on a closed channel, each entry closed once, the newest connection survives |
| **Agent: bundle application** `internal/agent/{apply,core,transport}` | the host's firewall and ipsets, backup file, cached bundle, configuration file, timers | poll loop, SSE callback, `ApplyBundle`, watchdog, confirm, heartbeat, boot | `GetBundle`, `ConfirmBundleApplied`, `Heartbeat` of the control plane | only tested bundles are recorded; a failure leaves or restores working rules; the newest bundle ends up in force |
| **Policies and pending changes** `internal/api/{policies,pending}`, `internal/db`, `internal/store` | `policies`, `change_snapshots`, `pending_changes`, `rule_bundles` | create, update, patch, delete; apply (peer, all, entity); push; rollback (all, entity) | change worker inserts the rows; compiler makes the bundles | a stale peer is marked; a pending change can be undone; undoing gives what was last approved |
| **Policy compiler** `internal/engine` | none (reads tables) | `Compile`, `CompileAndStore`, affected peers, previews | pending changes, push worker, peers | what a policy accepts works through both firewalls, nothing else gets in; affected peers include all whose bundle changes |
| **Peers, groups, services** `internal/api/{peers,groups,services}`, `internal/store` | `peers`, `groups`, `group_members`, `services`, snapshots | create, update, delete, members | change worker, compiler | nothing in use goes away; a peer with stale rules is marked |
| **Push worker** `internal/api/common/pushworker.go` | job channel, `push_jobs`, `push_job_peers` | `Enqueue`, `processJob`, `Stop`, update of all agents | pending and peer handlers, compiler, hub, alerts, browser stream | every job is finalised once, with counts that say what happened |
| **Registration and configuration** `internal/agent/{core,identity}`, `internal/api/agents` | configuration (memory, file), cooldown; peers row, registration tokens, revocations | register, re-register, save, swap | key rotation | a token is used once, the agent never loses its last proof, old tokens are revoked |
| **Key rotation** `internal/agent/rotation`, `internal/api/peers/rotation.go` | HMAC key on both sides, rotation token | rotate, check, retrieve, test, confirm | bundle signing, registration | agent and control plane do not stay with different keys |
| **Alerts** `internal/alerts` | `alert_history`, peer states of the monitor, cooldowns | monitor, scheduler, spike detector, processor | push worker, handlers, mail | one alert per transition; a throttled rule lets through only what raced; silence is noticed |
| **Import** `internal/importer`, `internal/iptparse`, `internal/api/imports` | `import_sessions` and their rows and mappings | submit, parse, resolve, review, apply, cancel | agent, compiler, change worker | rows are those of the backup; a policy means what the rule meant; affected peers are marked |
| **Log shipper and live logs** `internal/agent/transport`, `internal/api/logs` | bounded buffers, client channels | ship, flush, retry, broadcast | log tables | bounded, no block, no silent loss beyond the bound |
| **Authentication, rate limits** `internal/auth`, `internal/api/{auth,middleware}` | tokens, windows | login, refresh, revoke | every handler | a revoked token stays revoked, windows are bounded |
| Users, settings, dashboard, downloads, metrics, web UI, schema | tables | queries, single-row edits, files | | |

### What is hard here

* *Interleaving*: request handlers, the worker goroutine, `Start`/`Stop` and
  cancellation; timed sends that hold no lock against closes; the poll loop and
  the callbacks of several SSE connections inside `ApplyBundle` together; the
  loops and the requests that put alerts into one table; two registrations of one host; a
  submission, a resolution and a review of one import session.
* *Failure part-way*: an edit is insert, snapshot, resolve, queue; an apply is
  dump, flush, ipsets, restore, smoke test; each has its own way back.
* *Crash and reboot*: the agent may die between flush and restore, when chains
  are empty and their policy is DROP; the server may die with rows in a channel
  or with a push job half done.
* *Lost answers*: a registration or a rotation that the server has carried out
  and the agent never hears of.
* *Combinatorics*: every shape of policy against both firewalls, every kind of
  imported rule against the policy made from it.
* *Staleness*: the version on record against the rules in the kernel; rows
  deleted for a bundle that was compiled earlier.
* *Liveness*: acknowledged changes are processed, closers finish, the newest
  bundle arrives.

The list with lines and the properties that answer each is `hazards` in
`PROJECT.json`.

## 2. Modules

| module | models | composed with |
|---|---|---|
| `ChangeHandoff` | what a queue call promises its caller (abstract) | implemented by `ChangeWorker` (proved) |
| `ChangeWorker` | `internal/change/change_worker.go`, whole | |
| `SSEHub` | agent channels of `internal/api/events/hub.go`, stream handler in `internal/api/agents/handlers.go` | |
| `AgentApply` | `internal/agent/apply`, pulling and booting in `internal/agent/core`, `transport/puller.go`, and the three handlers they call | |
| `PendingChanges` | policy and pending handlers, snapshots, rollback | abstracts `ChangeWorker` to a set of accepted rows |
| `Compiler` | `internal/engine` as operators on a database | extended by `Catalog` and `Imports` |
| `Catalog` | policy, group, service and peer handlers, affected peers, worker, apply and rollback of all entities | extends `Compiler`; takes a handler as one step, which `PendingChanges` takes apart |
| `Imports` | `internal/importer`, `internal/iptparse`, `internal/api/imports` | extends `Compiler` for the meaning of what it creates |
| `Alerts` | `internal/alerts`, the offline detector, the rows of `alert_history` | |
| `Push` | push worker, push and update-all handlers, job tables, push-job stream, shutdown | abstracts `Compiler`, `SSEHub` and `Alerts` to their outcome |
| `Identity` | registration and key rotation, agent and server | |
| `MC…` | constants of the runs | |
| `…Proofs` | theorems about `ChangeWorker`, `SSEHub`, `AgentApply`, `PendingChanges`, `Alerts`, `Push`, `Identity`, and about `Catalog` with `Compiler` | each extends its module and `TLAPS` |

**ChangeWorker.** A work item is identified with the request that submits it.
A call is `Check` (the tests under the read lock) and `Send` (the `select` and
the unlock), or the synchronous fallback. `Start`, `Stop`/`StopReturn` and
`Cancel` may happen at any time and in any order; the goroutine is `Receive`,
`CtxDone`, `Leave`, `CloseDone`. Processing is `Begin`, `ResolveGroup`, one
`InsertRow` or `InsertFails` per peer and `Finish`, which notifies and, for a
synchronous call, gives the answer. Peers may be deleted at any time. The
detached contexts appear as failing inserts.

**SSEHub.** A connection is an instance of the stream handler: `Register`
(which may have to close the entry it replaces), `Stream`, `Return` (deferred
`Unregister`). A closer is `PollPending` until the counter is zero and then
`CloseEntry`. A notification is `Lookup` (count up under the lock), the send
(buffered, full, or into a closed channel, which panics and is recovered),
`CheckRegistered`, `Release`. The closing loop of the code has no time limit: it
ends only when the counter is zero.

**AgentApply.** A firewall is the sequence of rule sets loaded since the last
flush and the chain policy. `iptables -F` empties the chains and keeps the
policy; `iptables-restore --noflush` appends and sets the policy. Since a bundle
ends in a catch-all DROP, the first rule set decides. These facts about the
packet filter are the model's external part. Pullers (the poll loop and one per
SSE connection) go through `Fetch`, `Reject` or `Dump`, `Flush`, `Ipsets`,
`Restore`, `SmokePasses`/`SmokeFails`, `Disarm`, `Confirm`, `Cache`, `Record`,
each with its failure. `TimerFires` is the watchdog of an apply that takes too
long. `Crash`, `Reboot`, `Boot`, `BootPulled`, `ApplyCached` are the life of the
agent. The text of a bundle is reduced to which ipset lines it has, because
cutting them out is what may go wrong with it. `cut` and `rejected` are history:
whether the agent died between flush and restore or a revert was rejected, and
which bundles `iptables-restore` rejected.

**PendingChanges.** A process is a request handler or the push worker; a step is
one transaction or one statement outside of a transaction. A policy row is its
revision and the peers it affects, and a bundle is the set of policies and
revisions it was compiled from, so that "stale" is a comparison. Rows the worker
has accepted are in `queued` until `Persist`. The variables `base`, `split`,
`reported`, `dropped` and `undone` are history: what was last approved, which
policies were approved for some peers only, the rows of requests that answered
their client with an error, the rows that were acknowledged and queued and then
lost with nobody told (by a crash, or because the worker's INSERT failed), and the
peers a rollback left behind.

**Compiler.** A database is a record of tables. `Compile(d, p)` gives the rules
of peer `p` per policy, or a failure; a rule is chain, address, protocol, ports,
state and action, not text. Both sides of a policy (`TargetSection`,
`SourceSection`), group sets or single addresses, special targets (internet,
multicast, broadcast, all peers, any address), drop rules, the return rules with
their inverted ports, previews and `GetAffectedPeersBy…` are operators. What a
packet meets (`Verdicts`) is the external part.

**Catalog.** Its state is such a database, the bundles compiled from it, the
queue of the worker, pending rows and snapshots. Every handler is an action with
its in-use check, snapshot and fan-out; `ProcessChange` is the worker, which
resolves a group when it runs; `Apply` (a peer, with or without a pending row),
`ApplyEntity` (one change, whose snapshot goes with it), `RollbackSnapshots` and
`RollbackEntitySnapshot` end a change. An entity has at most one snapshot, so what
undoing a set of them leaves does not depend on the order, and `RolledBack` states it
at once; the checks that can stop a rollback are made of the tables as they are
when each snapshot's turn comes, the youngest first (`younger`). `adrift`,
`forced` and `partial` are history: peers that an edit of a peer or a rollback
changed without a signal; that a rollback of one change, or a request naming
something just deleted, may have left a reference dangling; and that a change was
approved alone while the snapshots of others stayed. A request names ids that were given out
(`Requests`): the code checks none but the service's, but a policy written for an id
that will exist later would change rules when somebody else creates a peer, and no
signal is meant to cover that.

`OnlyRelated` speaks of databases in which each peer has the address of a host: the
handlers also take a range, which then lets in what it covers. A policy explains a
packet if it accepts the service or a protocol as a whole (`Includes`: a rule of
the ICMP service has no ports), and a multicast end covers any address because
answers to multicast come from any (`Covers`). `PreviewShowsAll` has one exception
(`MulticastShown`): the compiler writes the packet-type rule for every policy of the
multicast service and every policy with a multicast source, the preview only for an
ACCEPT policy with both. `PlainRows` says what the instance's rows have in common
and the theorem on `Usable` assumes: each peer has an IPv4 address, overrides are
valid and on peers only, special ids are known, and "internet" is no source. The
handlers take other rows, and for those `Compile` fails without anything being gone.

**Imports.** A rule of a backup is a record of its matches, with one field for
what the parser reads over. A submission replaces the data of a session and
parses it (`SubmitBackupSession`, `ParseSession`), then `LoadRules` and
`ResolveRow` resolve rule by rule while users update rules and mappings or
cancel; two requests may apply (`ApplyCheck`, `ApplyMark`, `ApplySession`,
`ApplyQueue`, `ApplyAnswer`). The fan-out after the commit takes entity by entity,
while others edit the members of groups (`EditMembers`): a resolution that fails
falls back to the session's peer, which is only logged; a queue call that fails
answers an error. `made`, `told` and `unresolved` are history: which rule a policy was
made from and whether the user had changed the mapping, the affected peers of applies
that were answered an error, and of entities whose resolution failed.

**Alerts.** The sources are the loops (monitor, scheduler, spike detector, push
worker) and any number of concurrent requests (`Requests`: registrations and agent
updates). Each takes its events through the throttle, the insertion of a row, the
mails and the final status, as separate statements. `missed` is history: the rows of
its type that were inserted since a source looked up the throttle. A lookup that
fails lets the event
pass (`blind`), as the code does. Time is reduced to the comparisons made with it.

**Push.** A job is the request that creates it. Handler, worker, browser and the
shutdown (`Cancel`, `StopCloses`, `CloseDatabase`) interleave at each statement;
a statement may fail, the job's or the handler's context may end.

**Identity.** HMAC keys are numbered as the server makes them; a JWT is live or
dead. Requests at the server advance statement by statement (`Authorize`,
`Claim`, `ReadPeer`, `UpdatePeer`), the agent keeps a copy of its configuration
while a request is under way (`StartRegister` … `SaveRegistered`, `SwapConfig`),
and the rotation manager steps beside it. A host starts as new, reinstalled,
running or as one from before agent keys.

## 3. Runs

All passing runs explore their state space completely.

| run | what it shows | instance |
|---|---|---|
| `change_worker` | no send meets the closed channel (`NoSendOnClosed`); nothing is processed twice (`ProcessedOnce`); the contract `ChangeHandoff` is implemented (`ImplementsHandoff`); acknowledged items are processed unless the context is cancelled (`AckedProcessed`); the goroutine ends (`WorkerExits`) | a peer change and a group change with one key for the same two peers, capacity 1: 115 000 states |
| `sse_hub` | `NoTimedSendOnClosed`, `RegisteredServed`, `ClosersFinish`, `ReplacedShutsDown` | one host connecting twice, two timed notifications and a non-blocking one, capacity 1: 128 000 states |
| `agent_apply_overlap` | `OnlyTested`: whatever overlaps and fails, only tested bundles are confirmed, reported, cached, recorded | three pullers, two bundles, one fault of any of 13 kinds: 947 000 states |
| `agent_apply_single` | `WatchdogCovers`, `InForce`; `LockoutExplained`: chains that stay empty and closed have one of three causes; `BlockingUnacknowledged`: a bundle that blocks the agent is never confirmed, cached or recorded; `Convergence`: once failures stop, the newest bundle is in force and confirmed unless the agent is stuck; `Recovery`: with `apply_on_boot` and a cached bundle, also after a death between flush and restore | one puller, with and without `apply_on_boot`, four bundles of which the third blocks and the last has sets, two faults, rejected restores and crashes included: 85 000 states |
| `agent_private_ranges` | **violated** `NotLockedOut` | two bundles, no fault |
| `pending_changes` | `OnlyQueuedLost`: a stale peer has a row, or a client was answered an error, or the row was in memory when the server died or the worker's INSERT failed; `Rollbackable`, `RollbackRestores` | two peers, one approved and one new policy, two edits, one fault of any of nine kinds, crashes included, one process: 373 000 states |
| `catalog` | `StaleIsPending`: a peer with stale rules is signalled; `Usable`: nothing in use goes away; `EndToEnd` and `OnlyRelated`: what a policy accepts gets through both firewalls, nothing else gets in; `PreviewShowsAll` | three peers (one manual, one with ipsets), two groups, services with ports, source ports and neither, a first policy of any of the listed shapes and a second one, two edits of anything, approvals of peers and of single changes, rollbacks: 216 000 states |
| `imports` | `RowsMatchBackup`, `KeepsMeaning`; `AffectedSignalled`: a peer whose rules an import changed is signalled, or the client was answered an error, or its resolution failed | any kind of backup and a second submission, two appliers (symmetric), two changes by users, one of which may be an edit of a group during the fan-out, cancellation, one resolution or queue call that fails: 841 000 states |
| `import_negated` | **violated** `CleanKeepsMeaning` | the same with a negated source |
| `alerts` | `OneAlertPerTransition`, `SilenceNoticed`, `ThrottledUnlessRaced`, `DeployedOnce` | one agent and one imported peer, the loops and two requests (two busy at once), rule sets one at a time, one outage with the rules about silence, two rows, one fault (a restart, a failed query or lookup): 467 000 states |
| `push` | `AuditTruthful`, `UpdateCoversAll`, `OverIsOver`, `AckedEnds`, `StreamEndsInTime` | a push to all beside a push to one or an update of all, two agents, a queue of one, one fault, a browser, a shutdown: 423 000 states |
| `identity` | `TokenSingleUse`, `ProofSurvives`, `SupersededRevoked`, `KeysConverge` | one host of four kinds, two requests at the server, one rotation, one fault, one restart: 750 000 states |

*Further configurations*, run by hand, not part of the runs above. With
`MCChangeWorkerMore.cfg`, `MCSSEHubMore.cfg` and `MCAgentApplyMore.cfg` further
invariants hold: a synchronous nil means rows (`SyncAckHasRows`), signals go only
to peers with a row (`ToldHasRow`), an acknowledged item is somewhere
(`AckedAccounted`), `Stop` leaves nothing buffered (`StopDrainsQueue`), an entry
of the hub is closed once (`ClosedOnce`), early failures leave the firewall they
found (`RolledBack`), and the backup is on disk while it is needed
(`BackupOnDisk`). `MCPendingChangesAnswered.cfg` checks the fail-closed contract as the
documents state it (`NoSilentLoss`) for failures of a request's own statements: 275 000
states. `MCCatalogUndo.cfg` checks `Usable` over three edits of a few rows, so that a
change can be approved alone, what it used deleted and the rest rolled back: 258 000
states. `MCChangeWorkerCancel.cfg`, `MCSSEHubReconnect.cfg`,
`MCAgentApplyRevert.cfg`, `MCAgentApplyReboot.cfg`,
`MCPendingChangesRollback.cfg`, `MCPendingChangesCrash.cfg`,
`MCCatalogApproved.cfg`, `MCImportsFallback.cfg`, `MCAlertsRace.cfg` and
`MCIdentityFallback.cfg` each end in a
counterexample, which sections 4 and 5 explain. `TypeOK`, where a module has one, holds
under the configuration of its run, and so do the inductive invariants of the
`…Proofs` modules.

*Why the bounds are enough.* Two calls are the fewest that race each other and,
with a capacity of one, fill the queue; `Start`, `Stop` and cancellation happen
at most once in the code too (`sync.Once`). Two connections of one host are the
fewest in which one replaces the other, and two timed sends plus a non-blocking
one reach every pair of counter, close and full channel; hosts do not share
state. In `AgentApply` what matters is the rules before, the bundle and the one
after; three pullers cover the poll loop and a reconnect. Two edits are the
fewest in which a snapshot must survive the second one; two peers the fewest of
which one is applied and the other is not. `Catalog` starts from a policy of any
shape, so that two edits are enough for each order of creating, changing and
deleting one entity and another that refers to it. Two submissions and two
appliers are the fewest that overtake each other in `Imports`, and its backups
hold each kind of match once; the second submission brings one backup of other rules.
In `Alerts` two rows are the fewest that can
repeat each other, and two requests beside a loop the fewest of which one overtakes
another; in `Push` a second job is what fills the queue; in `Identity`
a second request is one that a restart left behind. `MaxVersion`, `MaxEvents`,
`MaxEdits`, `MaxFaults` and the like bound environment actions only.

*Fairness.* Weak fairness of steps of running goroutines (Go's scheduler is
preemptive and nothing in these loops waits for an external party without a
timeout), of the poll and heartbeat tickers, and of the restart by systemd
(`Restart=always`). Nothing is assumed of requests, `Start`, `Stop`,
cancellation, connects, events, new bundles or faults. Faults are bounded, which
is the assumption "once failures stop" of `Convergence` and `Recovery`; that a
peer's bundle is not compiled for ever follows from `MaxVersion`. `KeysConverge`
also assumes that every agent token expires (72 h), that the agent's loops tick
and that a request at the server gets an answer; `SilenceNoticed` that the
monitor's ticker ticks. Two assumptions of `Alerts` are of *strong* fairness: a
trigger of the monitor that is possible again and again is made (`MonitorTriggers`:
in the code nothing holds it up, in the model it competes with the other sources for
the bound `MaxBusy`); and the second
query of `checkPeers`, which may fail and start the round anew, succeeds in some of
the rounds in which it would change the map (`CheckPeersOnline`): a database that
fails in every one of them is not covered. `AckedEnds` and `StreamEndsInTime` that the worker
goroutine and the stream handler, which wait with timeouts only, take their
steps. Nothing is assumed of rotations, restarts, browsers or the shutdown.

*Deadlock.* `PendingChanges`, `Catalog`, `Imports`, `Alerts`, `Push` and
`Identity` are not checked for deadlock: requests are bounded, and a server
nobody uses stands still.

*Assumptions in the runs.* `agent_apply_single` has one puller because with more
the statements are false (section 5). `Convergence` excepts states after a crash
between flush and restore, after a revert or a bundle the kernel rejected, and with a
blocking bundle in front (`cut`, `Stuck`); `Recovery` only the last two, so in that run
only the last bundle has ipset lines, and smoke tests fail only when the bundle
blocks. `pending_changes` has one process, and approvals and rollbacks
wait until the queue is empty (`Hasty = FALSE`); section 5 says what happens
otherwise.

## 4. Disagreements between code and documentation

Found by runs:

* **`agent_private_ranges`**: `stripIpsetSection` looks for a marker line that
  the compiler writes only with group sets; `create runic_private_ranges` alone
  stays in the text, `iptables-restore` rejects it after the flush, and that
  path returns without a revert.
* **`import_negated`**: the parser knows no negation. `! -s A -j ACCEPT` is
  "clean" with a warning nobody reads, and the policy made from it accepts just
  `A`.

By the further configurations:

* `MCChangeWorkerCancel.cfg` (`ExitDrainsQueue`): a queue call may pass the `done`
  check, the goroutine drains and leaves on cancellation, then the call sends. It
  is acknowledged and never processed; the comment at the drain says that an
  enqueue-then-cancel race never loses items.
* `MCSSEHubReconnect.cfg` (`OnlyReplacedClosed`): the deferred `Unregister` of a
  replaced connection deletes and closes the entry of its successor.
* `MCAgentApplyRevert.cfg` (`RevertRestores`): the revert after a failed smoke
  test appends the old rules behind the failed bundle's DROP.
* `MCAgentApplyReboot.cfg` (`BootApplies`): with `apply_on_boot` the boot-time pull
  sends the version on record, gets 304 and takes that for applied; the kernel
  is empty.
* `MCPendingChangesRollback.cfg` (`RollbackSignals`): push a pending change, then
  roll it back: the row that marked the peer goes, the bundle stays.
* `MCPendingChangesCrash.cfg` (`NoSilentLoss`): an edit is answered 2xx, and its rows
  are lost with the memory of the server, or by a background INSERT that fails;
  `openapi.yaml` calls the mutations fail-closed.
* `MCImportsFallback.cfg` (`FailClosed`): after the commit of an import, a resolution
  of affected peers that fails or times out falls back to the importing peer, is
  logged, and is answered 200. `ARCHITECTURE.md` (133-139) and `openapi.yaml` say that
  an incomplete signal, a failed resolution included, fails the request.
* `MCAlertsRace.cfg` (`NoDuplicateHistory`): the throttle is looked up in one statement
  and the row inserted in another; two registrations at the same time both pass and
  both insert. The comment on `TriggerAlert` (`service.go:549-553`) says that direct
  triggers do not bypass throttling and create no duplicate history.
* `MCIdentityFallback.cfg` (`FallbackUsable`): the server replaces a key when the
  rotation begins. When the test of the new key fails or its reply is lost, the
  agent falls back to the old key ("oldKey remains the fallback key"), with which
  nothing is signed any more; it rejects every new bundle until its token expires
  and re-registration gives it the key.

## 5. Known limits seen while modelling

No run is spent on these; the modules can show most with other constants, and
where a property has an exception for one, its comment says so.

Agent:

* An agent without `apply_on_boot` that dies between flush and restore comes back
  cut off, and never reads the persisted backup (`cut` in `AgentApply`); the next
  apply overwrites that backup with the empty rules. With `apply_on_boot` it needs
  a cached bundle without ipset lines: `applyCachedBundle` does not strip them.
* Two overlapping applies may both flush before either restores; the rules are
  then loaded twice. The guards against that are local to one SSE connection.
  Two pulls that overlap for ever may fail each other's smoke tests.
* A watchdog that fires while a step of the apply is busy loads the old rules in the
  middle of it (`slow`); what is in the kernel afterwards is not claimed, only that
  a bundle is recorded after its smoke test.
* A bundle that `iptables-restore` rejects leaves the chains empty under the DROP of
  the one before (`rejected`); a bundle that blocks the agent stays in front of the
  rules its revert appends (`MCAgentApplyRevert.cfg`).
* A rotation token is good for five minutes and the agent asks every five.
* A lost reply to a first registration, or a failed save and a restart after it,
  burns the registration token. An agent without an agent key that misses a
  rotation is locked out when its token expires.
* A bundle stored before a rotation stays signed with the old key.
* Two re-registrations under way together leave two live tokens (`overlapped`).

Control plane:

* A change made between the compilation of a bundle and the deletion of the
  peer's rows loses its row without having been compiled; a cleanup between the
  commit of a soft delete and the insertion of its rows deletes the snapshot
  (`PendingChanges` with two processes or `Hasty = TRUE`).
* `ApplyEntity` deletes the entity's snapshot while other peers still wait
  (`split`; `Rollbackable` excepts it).
* The rows of an acknowledged edit are in the memory of the change worker until it
  has inserted them. When the server dies, or the INSERT in the background fails
  (it is logged), the peers stay stale and nobody was told: `NoSilentLoss` fails under
  `MCPendingChangesCrash.cfg`; `OnlyQueuedLost` says that nothing else is lost.
* Approving one change deletes its snapshot and keeps those of other changes: update
  a service, delete its policy, delete the service, approve the service alone, roll
  everything back, and a live policy refers to a deleted service (`partial`;
  `RollbackSound` of `Catalog` fails under `MCCatalogApproved.cfg`).
* The newest bundle is chosen by a time stamp of one second.
* Edits of peers, and peers created by an import, change the rules of other peers
  and signal none of them (`adrift`). `docs/api/openapi.yaml` promises fan-out for
  groups, services and policies only.
* Rolling back one change alone may leave a policy that refers to something gone
  (`forced`); `CreatePolicy` does not check its references.
* The preview of a policy leaves out the packet-type multicast rule in most cases
  in which the compiler writes it (`MulticastShown`).
* Return rules accept new connections too; on the path with addresses the return
  rules of the source side ignore the scope; drop rules ignore source ports.
* A push job cut short by shutdown or timeout ends as "completed" although peers
  were never reached (`cut`), and publishes no "complete" event. After cancellation
  the worker looks into its queue once more; a push enqueued after that look and
  before `done` is closed is acknowledged and never taken (`AckedEnds` is about pushes
  acknowledged before the cancellation). `Stop` gives up
  after 30 s, and jobs that are running then stay so: nothing picks up jobs at
  start. A browser that comes too late or whose 16 slots are full never sees the
  end (`StreamEnds` of `Push` states what the comment in the handler promises).
* Any apply of an import that has to create a service fails, since the mapping's
  NULLs do not scan; a failed apply leaves the session in review; two applies may
  create the policies twice; an approval during the resolution is overwritten. A
  UDP rule without a port becomes a multicast service, a dropped IGMP or broadcast
  becomes accepted, and source ports and unknown tokens are read over
  (`Expressible` says which rules `KeepsMeaning` is about).
* An alert's throttle is per rule and not per peer, and looked up before the row
  is inserted, so that as many goroutines as look at the same time add an alert to a
  period (`MCAlertsRace.cfg`); when the lookup fails, the alert passes
  (`ThrottledUnlessRaced` excepts both). When a heartbeat falls between the two
  queries of the monitor, the agent is online in its map while the mark of the
  outage stays: the return is not announced, and neither is the next outage
  (`SilenceNoticed` is about the map). The monitor
  marks an outage as announced before the alert is triggered, so a failed trigger
  is not repeated. A `bundle_failed` rule with a peer and threshold 0 fires
  without a failure. Rows are "sent" even with mail switched off.

## 6. Proofs

Each `…Proofs` module extends its component, defines an inductive invariant (`IInv`,
in `ChangeWorkerProofs` also `FullInv`), and shows that `Init` implies it and that
every action keeps it, with one lemma or step per action and under it one per
conjunct the action can disturb; the theorems follow from it. TLC checked each
invariant before it was proved. The theorems hold for every value of the constants
that satisfies the named `ASSUME` of the module (subset and type conditions, a
capacity of at least one, finitely many senders or agents, names that are not
the "none" of the model); the bounds on edits, faults, versions and the like are
arbitrary naturals. Where a theorem has a hypothesis beyond that, it is in its
statement and in the table.

| theorem | property | hypothesis |
|---|---|---|
| `ChangeWorkerProofs` `TypeCorrect`, `NeverSendOnClosed`, `NeverProcessedTwice` | `TypeOK`, `NoSendOnClosed`, `ProcessedOnce` | |
| `AckedNeverLost`, `StopLosesNothing`, `SyncAckRecorded`, `SignalFollowsRow` | `AckedAccounted`, `StopDrainsQueue`, `SyncAckHasRows`, `ToldHasRow` | |
| `HandoffImplemented` | `ImplementsHandoff` (refinement of `ChangeHandoff`) | |
| `SSEHubProofs` `TypeCorrect`, `NeverTimedSendOnClosed`, `AlwaysServed`, `ClosedByOne` | `TypeOK`, `NoTimedSendOnClosed`, `RegisteredServed`, `ClosedOnce` | |
| `IdentityProofs` `TypeCorrect`, `RegisteredOnce`, `CredentialsRenewable`, `OneLiveToken` | `TypeOK`, `TokenSingleUse`, `ProofSurvives`, `SupersededRevoked` | |
| `AgentApplyProofs` `TypeCorrect`, `UntestedNeverRecorded` | `TypeOK`, `OnlyTested` | any number of overlapping pulls |
| `WatchdogExact` | `WatchdogCovers` | no step takes the 90 s of the watchdog; that no timer outlives its apply needs no hypothesis |
| `RecordedInForce` | `InForce` | the poll loop is the only puller, no step takes 90 s |
| `BackupKept` | `BackupOnDisk` | the poll loop is the only puller, the backup file can be written |
| `EarlyFailureUndone` | `RolledBack` | the poll loop is the only puller, no step takes 90 s, no `apply_on_boot` (a cached bundle is loaded on top of what a failed pull left) |
| `LockoutCauses` | `LockoutExplained` | the poll loop is the only puller; any bundles and faults |
| `BlockingNeverRecorded` | `BlockingUnacknowledged` | the poll loop is the only puller, no step takes 90 s |
| `PushProofs` `TypeCorrect`, `AuditIsTruthful`, `UpdateAccountsForAll`, `StaysOver` | `TypeOK`, `AuditTruthful`, `UpdateCoversAll`, `OverIsOver` (action property) | |
| `AlertsProofs` `TypeCorrect`, `ThrottleHolds`, `AnnouncedOnce`, `TransitionsReportedOnce` | `TypeOK`, `ThrottledUnlessRaced` (action property), `DeployedOnce`, `OneAlertPerTransition` (action property) | any number of concurrent requests |
| `PendingChangesProofs` `TypeCorrect` | `TypeOK` | any number of overlapping requests |
| `RollbackCorrect`, `CrashLossBounded` | `RollbackRestores`, `OnlyQueuedLost` | requests do not overlap (`Single`); approvals may come while rows are queued |
| `LossReported` | `NoSilentLoss` (checked under `MCPendingChangesAnswered.cfg`) | the same, and no crash of the server or failed INSERT of the worker (`Answered`) |
| `SnapshotKept` | `Rollbackable` | requests do not overlap, approvals wait for queued rows |
| `CatalogProofs` `TypeCorrect`, `StaleSignalled` | `TypeOK`, `StaleIsPending` | |
| `Reaches`, `OnlyRelatedGetsIn`, `PreviewComplete` | `EndToEnd`, `OnlyRelated`, `PreviewShowsAll` | |
| `NothingDangles` | no live policy refers to something gone, with the exceptions of `Usable` | |
| `StaysUsable` | `Usable` | rows the compiler has rules for (`PlainRows`, which the run's rows satisfy) |

The hypotheses are necessary: with a second puller, or with two overlapping
requests, TLC finds counterexamples (section 5), and an agent without an IPv4 address
makes `Usable` false at once.

*The arguments.*

* **ChangeWorker.** `LockInv`: a call past its checks holds the read lock of a
  started and unstopped worker, and the channel is closed only by a `Stop`, which
  takes the write lock; so no reader is then between check and send. `OwnerInv`:
  an item has one owner at a time, its caller until it sends, the channel, then the
  goroutine; each hand-over happens before processing begins, hence `runs <= 1`.
  The refinement and the other invariants need how far an item is (`RunInv`), what
  the goroutine left behind when it ended (`ExitInv`) and what processing has
  recorded so far (`RowInv`). Every step is a step of `ChangeHandoff` on the mapped
  state or a stutter.
* **SSEHub.** The timed send holds no lock. The counter counts exactly the timed
  calls under way on an entry (`CountInv`, by cardinality); an entry has one owner,
  the map or one closer, so a lookup never finds one that is being closed
  (`OwnerInv`); a poll that saw zero therefore stays true until the close
  (`DrainInv`).
* **Identity.** The right to register is in one place: the token table, one
  request, or a registration made (`TokenInv`). `ProofSurvives` speaks of the
  configuration in memory, but it is copied to the file, to `doRegister`, to the
  rotation loop and to requests; the invariant covers every copy, and what the
  server will answer (`CopiesInv`, `RequestInv`, `AnswerInv`). A token that a
  re-registration read is still the one in the row when its update revokes it,
  unless two overlap (`RowInv`, `LiveInv`, `FreshInv`).
* **AgentApply.** Five records are copied from one another or from the version a
  puller holds; `HandInv` says what that version is between two steps. `TimerInv`:
  a timer belongs to an apply under way. `ForceInv` and `OpenInv` say, for the
  poll loop alone, what is loaded at each step of an apply, and that no backup
  a revert may load is empty and closed unless a bundle was rejected or cut short
  before; `BlockInv` that no blocking bundle passed a smoke test, because the bundle
  in hand is then the only one loaded; `DiskInv` and `UndoneInv` where the rules it
  replaces are, on disk and in the kernel.
* **Push.** A job has one writer at a time: the handler until it has answered, then
  the queue, then the worker (`QueueInv`, `WorkerInv`, `JobInv`); so a job that is
  over has none. What is counted, in hand and left adds up to the total, and the
  successes are the number of agents told (`FiniteSetTheorems`).
* **Alerts.** A source handles one event at a time and a row is settled only by the
  source that inserted it. What counts when a row is inserted was there at the lookup,
  and then the lookup refused, or is in `missed` (`SourceInv`, `ThrottleInv`). The transitions
  announced are those the monitor's marks and its map stand for (`MonitorInv`);
  a restart loses the marks, but then the map it loads says offline of every peer
  that is silent.
* **PendingChanges.** The losses have to be said of each policy by itself
  (`LossInv`): a rollback of one policy deletes the rows of that one only. A bundle
  is what `Compile` gives exactly when it is up to date with each policy
  (`UpToDateCompiled`). `RestoresInv` adds that a policy without a row has no
  snapshot; `KeptInv` speaks of rows not yet inserted too; `EditInv` and
  `ApproveInv` say that what an undisturbed request has read is still so.
* **Catalog and Compiler.** `StaleIsPending` rests on the compiler being local: the
  bundle of a peer depends on the peers, on which policies concern it and on what
  those refer to (`CompileSame`). An edit may therefore make stale only peers it does
  not leave untouched in this sense (`EditStale`), and each handler is shown to signal
  all of them, though the worker resolves a group only later; the invariant says
  besides that ids are given out once and that policies and snapshots name given ids
  (`KnownInv`). `EndToEnd`, `OnlyRelated` and `PreviewShowsAll` hold in
  every well-typed database. They are shown from the forms that the two parts of a
  policy take in a bundle (`TargetForms`, `SourceForms`), with and without group sets:
  each rule of a form is traced to the end point it came from. For `EndToEnd` the first
  policies with a verdict on a packet, which exist because priorities are well-founded,
  are shown to accept it. `Usable`
  is not inductive, because a rollback of everything brings back rows from long ago:
  `BaseInv` says that the tables it would lead to are sound as well, up to peers deleted
  since, and each edit is shown not to change where it leads (`UndoneEdit`): it
  takes the first snapshot of an entity or finds it there. `PlainInv` follows the rows
  through tables and snapshots.

*Only model-checked.* Liveness (`AckedProcessed`, `WorkerExits`, `ClosersFinish`,
`ReplacedShutsDown`, `Convergence`, `Recovery`, `SilenceNoticed`, `AckedEnds`,
`StreamEndsInTime`, `KeysConverge`): fairness and ENABLED are out of TLAPS's reach.
The invariants of `Imports` (`RowsMatchBackup`, `KeepsMeaning`, `AffectedSignalled`):
they compare sequences of parsed and resolved rules with the backup and with what
packets meet, a case distinction over the kinds of rules that TLC makes for each
kind once; the first and the last are in the plan.

## 7. Not modelled

In `AgentApply`: the nft fallback, the DOCKER-USER chain, the migration of files
from the legacy path and `apply_rules_bundle=false`. In `SSEHub`: frontend
channels. In `Compiler`: the Docker chain, the text of the rules, its signature,
names of ipsets (two group names may map to one set name). In `Imports`: IPv6,
the text. In `Alerts`: edits of rules, SMTP settings, quiet hours, digests,
templates. In `Identity`: addresses, rate limits, the Retry-After hint. In `Push`:
what a bundle holds. Whole parts: see `components` in `PROJECT.json`, each with
the reason. SQL, cryptography, mail, files and the web UI are external or out of
reach.

## 8. Plan

1. Theorems: `Imports` `RowsMatchBackup` and `AffectedSignalled`, for the steps of
   sessions, with the parser's results as given; `CatalogProofs` has the lemmas about
   affected peers that the second needs.
2. `Shipper`, live log hub, rate limiters, user tokens, agent self-update.
3. Composition: `PendingChanges` with `AgentApply` (edit to enforcement).

## 9. Running it

    tlc -workers 2 -config MCChangeWorker.cfg MCChangeWorker
    for m in ChangeWorker SSEHub Identity AgentApply Push Alerts PendingChanges Catalog; do
      tlapm ${m}Proofs.tla
    done
