-------------------------- MODULE AgentApplyProofs --------------------------
(***************************************************************************)
(* Proofs about AgentApply for every set of connections, every number of   *)
(* bundles, events and faults, and every text a bundle may have.           *)
(*                                                                         *)
(* OnlyTested is a statement about five records that are each copied from  *)
(* another record or from the version a puller holds: it becomes inductive *)
(* with what that version is between two steps of ApplyBundle (HandInv).   *)
(* What the firewall holds is followed through the steps of one puller     *)
(* (ForceInv, OpenInv): with that, a smoke test that a bundle has passed   *)
(* was one of this bundle alone (BlockInv).                                *)
(***************************************************************************)
EXTENDS AgentApply, FiniteSetTheorems, TLAPS

(* From the answer of the control plane on, a puller holds the version of  *)
(* a bundle; from the smoke test on, of one that has passed it.            *)
HandInv ==
    \A p \in Pullers :
        /\ pc[p] \notin {"idle", "fetching"} => hand[p] \in Versions
        /\ pc[p] \in {"confirming", "caching", "recording"} => hand[p] \in tested

(* A timer that runs belongs to an apply under way; without slow steps     *)
(* every apply under way has one.                                          *)
TimerInv ==
    \A p \in Pullers :
        /\ timer[p] => pc[p] \in Applying
        /\ "slow" \notin FaultKinds /\ pc[p] \in Applying => timer[p]

(* Pulls are only under way in a running agent, and while it boots only    *)
(* the one of applyBootBundle.                                             *)
BootInv == \A p \in Pullers : pc[p] # "idle" => agent = "up" \/ (agent = "booting" /\ p = Poll)

(* No bundle_updated event comes: the poll loop is the only puller.        *)
PollOnly == MaxEvents = 0

PollOnlyInv == PollOnly => \A c \in Conns : pc[c] = "idle" /\ result[c] = "none"

(* Without concurrent pulls and slow steps, what the one pull under way    *)
(* has done to the firewall so far is all there is in it.                  *)
ForceInv ==
    PollOnly /\ "slow" \notin FaultKinds =>
        /\ reverting = {}
        /\ pc[Poll] \in {"ipsets", "restoring"} => fw.rules = <<>>
        /\ pc[Poll] \in {"smoking", "confirming", "caching", "recording"} => fw = Image(hand[Poll])
        /\ result[Poll] = "ok" => fw = Image(curVer) /\ agent \in {"up", "booting"} /\ pc[Poll] = "idle"

(* A firewall that some packet gets through.                               *)
Open(f) == f.rules # <<>> \/ f.policy = "accept"

(* Between a flush and its restore the firewall may be shut; at any other  *)
(* time it is open, and so is every backup a revert may load, unless an    *)
(* apply was cut off or its bundle rejected.                               *)
OpenInv ==
    PollOnly /\ cut = {} /\ rejected = {} =>
        /\ Open(fw) \/ pc[Poll] \in {"ipsets", "restoring"}
        /\ Open(backup[Poll])
        /\ \A image \in reverting : Open(image)

(* A smoke test of the bundle that alone is loaded fails if it blocks.     *)
BlockInv == PollOnly /\ "slow" \notin FaultKinds => tested \cap Blocking = {}

IInv == /\ TypeOK /\ HandInv /\ OnlyTested /\ TimerInv /\ BootInv /\ PollOnlyInv /\ ForceInv
        /\ OpenInv /\ BlockInv

-----------------------------------------------------------------------------
(* The operations on firewalls yield firewalls.                            *)
LEMMA FirewallTypes ==
    /\ HostRules \in Firewalls
    /\ [rules |-> <<>>, policy |-> "accept"] \in Firewalls
    /\ \A v \in 0..MaxVersion : Image(v) \in Firewalls
    /\ \A f \in Firewalls : Flushed(f) \in Firewalls
    /\ \A f, g \in Firewalls : Load(f, g) \in Firewalls
<1> USE AgentApplyAssumption
<1>1. HostRules \in Firewalls
  BY DEF HostRules, Firewalls
<1>2. [rules |-> <<>>, policy |-> "accept"] \in Firewalls
  BY DEF Firewalls
<1>3. ASSUME NEW v \in 0..MaxVersion PROVE Image(v) \in Firewalls
  BY DEF Image, Firewalls
<1>4. ASSUME NEW f \in Firewalls PROVE Flushed(f) \in Firewalls
  <2>1. Flushed(f) = [rules |-> <<>>, policy |-> f.policy]
    BY <1>4 DEF Flushed, Firewalls
  <2>2. <<>> \in Seq(0..MaxVersion) /\ f.policy \in {"accept", "drop"}
    BY <1>4 DEF Firewalls
  <2> QED
    BY <2>1, <2>2 DEF Firewalls
<1>5. ASSUME NEW f \in Firewalls, NEW g \in Firewalls PROVE Load(f, g) \in Firewalls
  <2>1. f.rules \in Seq(0..MaxVersion) /\ g.rules \in Seq(0..MaxVersion)
    BY <1>5 DEF Firewalls
  <2>2. f.rules \o g.rules \in Seq(0..MaxVersion)
    BY <2>1
  <2>3. g.policy \in {"accept", "drop"}
    BY <1>5 DEF Firewalls
  <2> QED
    BY <2>2, <2>3 DEF Load, Firewalls
<1> QED
  BY <1>1, <1>2, <1>3, <1>4, <1>5

(* Going back to an image gives a firewall.                                *)
LEMMA RevertedType ==
    ASSUME fw \in Firewalls, NEW image \in Firewalls
    PROVE  Reverted(image) \subseteq Firewalls
  BY FirewallTypes DEF Reverted

(* A puller ends its pull.                                                 *)
LEMMA EndType ==
    ASSUME TypeOK, NEW p \in Pullers, NEW res \in Results, End(p, res)
    PROVE  /\ pc' \in [Pullers -> PullerStates] /\ hand' \in [Pullers -> 0..MaxVersion]
           /\ backup' \in [Pullers -> Firewalls] /\ result' \in [Pullers -> Results]
  BY AgentApplyAssumption, FirewallTypes DEF TypeOK, End, PullerStates

(* A puller that moves is in a state of pullers.                           *)
LEMMA GotoType ==
    ASSUME TypeOK, NEW p \in Pullers, NEW s \in PullerStates, Goto(p, s)
    PROVE  pc' \in [Pullers -> PullerStates]
  BY DEF TypeOK, Goto

(* The agent starts in the invariant.                                      *)
LEMMA InitIInv == Init => IInv
<1> SUFFICES ASSUME Init PROVE IInv
  OBVIOUS
<1> USE AgentApplyAssumption
<1>1. TypeOK
  <2>1. Cardinality({}) = 0
    BY FS_EmptySet
  <2> QED
    BY <2>1, FirewallTypes DEF Init, TypeOK, PullerStates, Results
<1>2. HandInv /\ OnlyTested /\ TimerInv /\ BootInv
  BY DEF Init, HandInv, OnlyTested, TimerInv, BootInv, Applying
<1>3. PollOnlyInv /\ ForceInv /\ OpenInv /\ BlockInv
  <2>1. Poll \in Pullers /\ \A c \in Conns : c \in Pullers
    BY DEF Pullers
  <2> QED
    BY <2>1 DEF Init, PollOnlyInv, ForceInv, OpenInv, BlockInv, Open, HostRules
<1> QED
  BY <1>1, <1>2, <1>3 DEF IInv

(* Every step keeps the types.                                             *)
LEMMA StepTypeOK == TypeOK /\ HandInv /\ [Next]_vars => TypeOK'
<1> SUFFICES ASSUME TypeOK, HandInv, [Next]_vars PROVE TypeOK'
  OBVIOUS
<1> USE AgentApplyAssumption DEF server, sse, disk, puller, history
<1>0. \A s \in {"idle", "fetching", "verifying", "flushing", "ipsets", "restoring", "smoking",
                "disarming", "confirming", "caching", "recording"} : s \in PullerStates
  BY DEF PullerStates, Applying
<1>1. \A r \in {"none", "ok", "unchanged", "failed", "not_flushed", "ipset_failed",
                "restore_failed", "smoke_failed"} : r \in Results
  BY DEF Results
<1>2. Poll \in Pullers /\ conn \in Pullers
  BY DEF Pullers, TypeOK
<1>3. Cardinality({}) = 0 /\ Cardinality({fw}) = 1
  BY FS_EmptySet, FS_Singleton
<1>4. ASSUME NEW kind, Fault(kind) PROVE faults' \in 0..MaxFaults
  BY <1>4 DEF Fault, TypeOK
<1>5. ASSUME NEW p \in Pullers, Begin(p), events' \in 0..MaxEvents PROVE TypeOK'
  BY <1>0, <1>1, <1>5 DEF Begin, TypeOK
<1>a. CASE Publish
  BY <1>a DEF Publish, TypeOK
<1>b. CASE StartPoll
  BY <1>2, <1>5, <1>b DEF StartPoll, TypeOK
<1>c. CASE OnBundleUpdate
  BY <1>2, <1>5, <1>c DEF OnBundleUpdate, TypeOK
<1>d. CASE Reconnect
  BY <1>d DEF Reconnect, TypeOK
<1>e. ASSUME NEW p \in Pullers, Fetch(p) PROVE TypeOK'
  <2>1. CASE End(p, "failed") \/ End(p, "unchanged")
    BY <1>1, <1>e, <2>1, EndType DEF Fetch, TypeOK
  <2>2. CASE Goto(p, "verifying") /\ hand' = [hand EXCEPT ![p] = latest] /\ UNCHANGED <<backup, result>>
    BY <1>0, <1>e, <2>2, GotoType DEF Fetch, TypeOK
  <2> QED
    BY <1>e, <2>1, <2>2 DEF Fetch
<1>f. ASSUME NEW p \in Pullers, FetchFails(p) PROVE TypeOK'
  BY <1>1, <1>4, <1>f, EndType DEF FetchFails, NoFault, TypeOK
<1>g. ASSUME NEW p \in Pullers, Reject(p) PROVE TypeOK'
  BY <1>1, <1>4, <1>g, EndType DEF Reject, TypeOK
<1>h. ASSUME NEW p \in Pullers, Dump(p) PROVE TypeOK'
  <2>1. backupFile' \subseteq Firewalls /\ Cardinality(backupFile') <= 1 /\ faults' \in 0..MaxFaults
    <3>1. CASE backupFile' = {fw} /\ NoFault
      BY <1>3, <3>1 DEF NoFault, TypeOK
    <3>2. CASE backupFile' = backupFile /\ Fault("persist")
      BY <1>4, <3>2 DEF TypeOK
    <3> QED
      BY <1>h, <3>1, <3>2 DEF Dump
  <2>2. backup' \in [Pullers -> Firewalls] /\ timer' \in [Pullers -> BOOLEAN]
    BY <1>h DEF Dump, TypeOK
  <2>3. pc' \in [Pullers -> PullerStates]
    BY <1>0, <1>h, GotoType DEF Dump
  <2> QED
    BY <1>h, <2>1, <2>2, <2>3 DEF Dump, TypeOK
<1>i. ASSUME NEW p \in Pullers, Flush(p) PROVE TypeOK'
  BY <1>0, <1>i, GotoType, FirewallTypes DEF Flush, TypeOK
<1>j. ASSUME NEW p \in Pullers, FlushFails(p) PROVE TypeOK'
  BY <1>1, <1>4, <1>j, EndType DEF FlushFails, TypeOK
<1>k. ASSUME NEW p \in Pullers, Ipsets(p) PROVE TypeOK'
  BY <1>0, <1>k, GotoType DEF Ipsets, TypeOK
<1>l. ASSUME NEW p \in Pullers, IpsetsFail(p) PROVE TypeOK'
  <2>1. backup[p] \in Firewalls /\ fw' \in Firewalls
    BY <1>l, RevertedType DEF IpsetsFail, TypeOK
  <2> QED
    BY <1>1, <1>4, <1>l, <2>1, EndType DEF IpsetsFail, TypeOK
<1>m. ASSUME NEW p \in Pullers, Restore(p) PROVE TypeOK'
  <2>1. fw' \in Firewalls
    BY <1>m, FirewallTypes DEF Restore, TypeOK
  <2> QED
    BY <1>0, <1>m, <2>1, GotoType DEF Restore, TypeOK
<1>n. ASSUME NEW p \in Pullers, RestoreFails(p) PROVE TypeOK'
  BY <1>1, <1>4, <1>n, EndType DEF RestoreFails, NoFault, TypeOK
<1>o. ASSUME NEW p \in Pullers, SmokePasses(p) PROVE TypeOK'
  <2>1. tested' \subseteq Versions
    BY <1>o DEF SmokePasses, HandInv, TypeOK
  <2> QED
    BY <1>0, <1>3, <1>o, <2>1, GotoType DEF SmokePasses, TypeOK
<1>p. ASSUME NEW p \in Pullers, SmokeFails(p) PROVE TypeOK'
  <2>1. fw' \in Firewalls
    BY <1>p, RevertedType DEF SmokeFails, TypeOK
  <2> QED
    BY <1>0, <1>4, <1>p, <2>1, GotoType DEF SmokeFails, NoFault, TypeOK
<1>q. ASSUME NEW p \in Pullers, Disarm(p) PROVE TypeOK'
  BY <1>1, <1>q, EndType DEF Disarm, TypeOK
<1>r. ASSUME NEW p \in Pullers, Confirm(p) PROVE TypeOK'
  BY <1>0, <1>4, <1>r, GotoType DEF Confirm, NoFault, TypeOK
<1>s. ASSUME NEW p \in Pullers, Cache(p) PROVE TypeOK'
  BY <1>0, <1>4, <1>s, GotoType DEF Cache, NoFault, TypeOK
<1>t. ASSUME NEW p \in Pullers, Record(p) PROVE TypeOK'
  BY <1>1, <1>4, <1>t, EndType DEF Record, NoFault, TypeOK
<1>u. ASSUME NEW p \in Pullers, TimerFires(p) PROVE TypeOK'
  BY <1>4, <1>u DEF TimerFires, TypeOK
<1>v. ASSUME NEW image \in reverting, AutoRevert(image) PROVE TypeOK'
  <2>1. fw' \in Firewalls
    BY <1>v, RevertedType DEF AutoRevert, TypeOK
  <2> QED
    BY <1>v, <2>1 DEF AutoRevert, TypeOK
<1>w. CASE Heartbeat
  <2>1. CASE HeartbeatSend
    BY <2>1 DEF HeartbeatSend, TypeOK
  <2>2. CASE HeartbeatArrive
    BY <2>2 DEF HeartbeatArrive, TypeOK
  <2> QED
    BY <1>w, <2>1, <2>2 DEF Heartbeat
<1>x. ASSUME Stopped, fw' \in Firewalls, cut' \subseteq Firewalls, faults' \in 0..MaxFaults PROVE TypeOK'
  BY <1>0, <1>1, <1>x DEF Stopped, TypeOK
<1>y. CASE Crash
  <2>1. cut' \subseteq Firewalls
    BY <1>y DEF Crash, InFlight, TypeOK
  <2> QED
    BY <1>4, <1>x, <1>y, <2>1 DEF Crash, TypeOK
<1>z. CASE Reboot
  BY <1>4, <1>x, <1>z, FirewallTypes DEF Reboot, TypeOK
<1>A. CASE Boot
  BY <1>0, <1>2, <1>A DEF Boot, TypeOK
<1>B. CASE BootPulled
  BY <1>B DEF BootPulled, TypeOK
<1>C. CASE ApplyCached
  <2>1. fw' \in Firewalls
    BY <1>C, FirewallTypes DEF ApplyCached, TypeOK
  <2> QED
    BY <1>C, <2>1 DEF ApplyCached, TypeOK
<1>D. CASE UNCHANGED vars
  BY <1>D DEF vars, TypeOK
<1> QED
  BY <1>a, <1>b, <1>c, <1>d, <1>e, <1>f, <1>g, <1>h, <1>i, <1>j, <1>k, <1>l, <1>m, <1>n, <1>o,
     <1>p, <1>q, <1>r, <1>s, <1>t, <1>u, <1>v, <1>w, <1>y, <1>z, <1>A, <1>B, <1>C, <1>D
  DEF Next, Pull, Apply, Lifecycle

-----------------------------------------------------------------------------
(* What End and Goto do to the pullers.                                    *)
LEMMA EndEffect ==
    ASSUME TypeOK, NEW p \in Pullers, NEW res, End(p, res)
    PROVE  /\ pc'[p] = "idle"
           /\ \A q \in Pullers \ {p} : pc'[q] = pc[q] /\ hand'[q] = hand[q]
                                         /\ backup'[q] = backup[q] /\ result'[q] = result[q]
           /\ result'[p] = res /\ (backup'[p] = backup[p] \/ backup'[p] = HostRules)
  BY DEF TypeOK, End

(* A puller that moves leaves the others where they are.                   *)
LEMMA GotoEffect ==
    ASSUME TypeOK, NEW p \in Pullers, NEW s, Goto(p, s)
    PROVE  pc'[p] = s /\ \A q \in Pullers \ {p} : pc'[q] = pc[q]
  BY DEF TypeOK, Goto

(* HandInv survives a step after which a puller holds what it held and is  *)
(* no further than it was, or is back at the beginning.                    *)
LEMMA HandKept ==
    ASSUME HandInv, tested \subseteq tested',
           \A p \in Pullers :
             \/ pc'[p] \in {"idle", "fetching"}
             \/ /\ hand'[p] = hand[p] /\ pc[p] \notin {"idle", "fetching"}
                /\ pc'[p] \in {"confirming", "caching", "recording"} =>
                     pc[p] \in {"confirming", "caching", "recording"}
    PROVE  HandInv'
  BY DEF HandInv

(* Only the answer of the control plane and the smoke test move a puller   *)
(* into the part of ApplyBundle that HandInv speaks of.                    *)
LEMMA StepHandInv == TypeOK /\ HandInv /\ [Next]_vars => HandInv'
<1> SUFFICES ASSUME TypeOK, HandInv, [Next]_vars PROVE HandInv'
  OBVIOUS
<1> USE AgentApplyAssumption DEF server, sse, disk, puller, history
<1>1. ASSUME NEW p \in Pullers, NEW res, End(p, res), tested' = tested PROVE HandInv'
  BY <1>1, EndEffect, HandKept
<1>2. ASSUME NEW p \in Pullers, NEW s, Goto(p, s), hand' = hand, tested' = tested,
             pc[p] \notin {"idle", "fetching"},
             s \in {"confirming", "caching", "recording"} =>
               pc[p] \in {"confirming", "caching", "recording"}
      PROVE  HandInv'
  BY <1>2, GotoEffect, HandKept
<1>3. ASSUME NEW p \in Pullers, Begin(p) PROVE HandInv'
  <2>1. tested' = tested /\ pc'[p] = "fetching" /\ hand' = [hand EXCEPT ![p] = curVer]
    BY <1>3 DEF Begin, TypeOK
  <2>2. \A q \in Pullers \ {p} : pc'[q] = pc[q] /\ hand'[q] = hand[q]
    BY <1>3 DEF Begin, TypeOK
  <2> QED
    BY <2>1, <2>2, HandKept
<1>4. Poll \in Pullers /\ conn \in Pullers
  BY DEF Pullers, TypeOK
<1>b. CASE StartPoll \/ OnBundleUpdate
  BY <1>3, <1>4, <1>b DEF StartPoll, OnBundleUpdate
<1>e. ASSUME NEW p \in Pullers, Fetch(p) PROVE HandInv'
  <2>1. CASE End(p, "failed") \/ End(p, "unchanged")
    BY <1>1, <1>e, <2>1 DEF Fetch
  <2>2. CASE latest # 0 /\ Goto(p, "verifying") /\ hand' = [hand EXCEPT ![p] = latest]
    <3>1. hand'[p] \in Versions /\ \A q \in Pullers \ {p} : hand'[q] = hand[q]
      BY <2>2 DEF TypeOK, Versions
    <3>2. tested' = tested
      BY <1>e DEF Fetch
    <3> QED
      BY <2>2, <3>1, <3>2, GotoEffect DEF HandInv
  <2> QED
    BY <1>e, <2>1, <2>2 DEF Fetch
<1>f. ASSUME NEW p \in Pullers,
             \/ FetchFails(p) \/ Reject(p) \/ FlushFails(p) \/ IpsetsFail(p)
             \/ RestoreFails(p) \/ Disarm(p) \/ Record(p)
      PROVE  HandInv'
  BY <1>1, <1>f DEF FetchFails, Reject, FlushFails, IpsetsFail, RestoreFails, Disarm, Record
<1>h. ASSUME NEW p \in Pullers,
             \/ Dump(p) \/ Flush(p) \/ Ipsets(p) \/ Restore(p) \/ SmokeFails(p)
             \/ Confirm(p) \/ Cache(p)
      PROVE  HandInv'
  BY <1>2, <1>h DEF Dump, Flush, Ipsets, Restore, SmokeFails, Confirm, Cache
<1>o. ASSUME NEW p \in Pullers, SmokePasses(p) PROVE HandInv'
  BY <1>o, GotoEffect DEF SmokePasses, HandInv
<1>u. ASSUME NEW p \in Pullers, TimerFires(p) PROVE HandInv'
  BY <1>u DEF TimerFires, HandInv
<1>y. CASE Crash \/ Reboot
  <2>1. tested' = tested /\ \A q \in Pullers : pc'[q] = "idle"
    BY <1>y DEF Crash, Reboot, Stopped
  <2> QED
    BY <2>1, HandKept
<1>A. CASE Boot
  <2>1. tested' = tested
    BY <1>A DEF Boot
  <2>2. CASE UNCHANGED <<pc, hand>>
    BY <2>1, <2>2 DEF HandInv
  <2>3. CASE pc' = [pc EXCEPT ![Poll] = "fetching"] /\ hand' = [hand EXCEPT ![Poll] = diskVer]
    <3>1. /\ pc'[Poll] = "fetching"
          /\ \A q \in Pullers \ {Poll} : pc'[q] = pc[q] /\ hand'[q] = hand[q]
      BY <1>4, <2>3 DEF TypeOK
    <3> QED
      BY <2>1, <3>1, HandKept
  <2> QED
    BY <1>A, <2>2, <2>3 DEF Boot
<1>D. CASE UNCHANGED <<pc, hand, tested>>
  BY <1>D DEF HandInv
<1> QED
  BY <1>b, <1>e, <1>f, <1>h, <1>o, <1>u, <1>y, <1>A, <1>D
  DEF Next, Pull, Apply, Lifecycle, Heartbeat, HeartbeatSend, HeartbeatArrive, Publish, Reconnect,
      AutoRevert, BootPulled, ApplyCached, vars

(* Each of the five records is written from another of them, or from what  *)
(* a puller holds after its smoke test.                                    *)
LEMMA StepOnlyTested == TypeOK /\ HandInv /\ OnlyTested /\ [Next]_vars => OnlyTested'
<1> SUFFICES ASSUME TypeOK, HandInv, OnlyTested, [Next]_vars PROVE OnlyTested'
  OBVIOUS
<1> USE AgentApplyAssumption DEF server, sse, disk, puller, history
<1>1. ASSUME UNCHANGED <<confirmed, hb, cached, curVer, diskVer>>, tested \subseteq tested'
      PROVE  OnlyTested'
  BY <1>1 DEF OnlyTested
<1>2. ASSUME NEW p \in Pullers,
             \/ Fetch(p) \/ FetchFails(p) \/ Reject(p) \/ Dump(p) \/ Flush(p) \/ FlushFails(p)
             \/ Ipsets(p) \/ IpsetsFail(p) \/ Restore(p) \/ RestoreFails(p) \/ SmokePasses(p)
             \/ SmokeFails(p) \/ Disarm(p) \/ TimerFires(p) \/ Begin(p)
      PROVE  OnlyTested'
  BY <1>1, <1>2 DEF Fetch, FetchFails, Reject, Dump, Flush, FlushFails, Ipsets, IpsetsFail, Restore,
                    RestoreFails, SmokePasses, SmokeFails, Disarm, TimerFires, Begin
<1>3. ASSUME NEW p \in Pullers, Confirm(p) \/ Cache(p) \/ Record(p) PROVE OnlyTested'
  <2>1. hand[p] \in tested /\ tested' = tested
    BY <1>3 DEF HandInv, Confirm, Cache, Record
  <2> QED
    BY <1>3, <2>1 DEF OnlyTested, Confirm, Cache, Record
<1>4. CASE Heartbeat
  BY <1>4 DEF Heartbeat, HeartbeatSend, HeartbeatArrive, OnlyTested
<1>5. CASE Boot
  BY <1>5 DEF Boot, OnlyTested
<1>6. Poll \in Pullers /\ conn \in Pullers
  BY DEF Pullers, TypeOK
<1>7. CASE StartPoll \/ OnBundleUpdate
  BY <1>2, <1>6, <1>7 DEF StartPoll, OnBundleUpdate
<1>8. CASE Crash \/ Reboot
  BY <1>1, <1>8 DEF Crash, Reboot, Stopped
<1>9. CASE UNCHANGED <<confirmed, hb, cached, curVer, diskVer, tested>>
  BY <1>1, <1>9
<1> QED
  BY <1>2, <1>3, <1>4, <1>5, <1>7, <1>8, <1>9
  DEF Next, Pull, Apply, Lifecycle, Publish, Reconnect, AutoRevert, BootPulled, ApplyCached, vars

(* Every step keeps BootInv.                                               *)
LEMMA StepBootInv == TypeOK /\ BootInv /\ [Next]_vars => BootInv'
<1> SUFFICES ASSUME TypeOK, BootInv, [Next]_vars PROVE BootInv'
  OBVIOUS
<1> USE AgentApplyAssumption DEF server, sse, disk, puller, history
<1>1. ASSUME NEW p \in Pullers, agent' = agent, pc[p] # "idle",
             \A q \in Pullers \ {p} : pc'[q] = pc[q]
      PROVE  BootInv'
  BY <1>1 DEF BootInv
<1>2. Poll \in Pullers /\ conn \in Pullers
  BY DEF Pullers, TypeOK
<1>3. CASE StartPoll \/ OnBundleUpdate
  BY <1>2, <1>3 DEF StartPoll, OnBundleUpdate, Begin, BootInv
<1>4. ASSUME NEW p \in Pullers, Fetch(p) PROVE BootInv'
  <2>1. pc[p] # "idle" /\ agent' = agent
    BY <1>4 DEF Fetch
  <2>2. CASE End(p, "failed") \/ End(p, "unchanged")
    BY <1>1, <2>1, <2>2, EndEffect
  <2>3. CASE Goto(p, "verifying")
    BY <1>1, <2>1, <2>3, GotoEffect
  <2> QED
    BY <1>4, <2>2, <2>3 DEF Fetch
<1>5. ASSUME NEW p \in Pullers, NEW res, End(p, res), agent' = agent, pc[p] # "idle" PROVE BootInv'
  BY <1>1, <1>5, EndEffect
<1>6. ASSUME NEW p \in Pullers, NEW s, Goto(p, s), agent' = agent, pc[p] # "idle" PROVE BootInv'
  BY <1>1, <1>6, GotoEffect
<1>7. ASSUME NEW p \in Pullers,
             \/ FetchFails(p) \/ Reject(p) \/ FlushFails(p) \/ IpsetsFail(p)
             \/ RestoreFails(p) \/ Disarm(p) \/ Record(p)
      PROVE  BootInv'
  BY <1>5, <1>7 DEF FetchFails, Reject, FlushFails, IpsetsFail, RestoreFails, Disarm, Record
<1>8. ASSUME NEW p \in Pullers,
             \/ Dump(p) \/ Flush(p) \/ Ipsets(p) \/ Restore(p) \/ SmokePasses(p) \/ SmokeFails(p)
             \/ Confirm(p) \/ Cache(p)
      PROVE  BootInv'
  BY <1>6, <1>8 DEF Dump, Flush, Ipsets, Restore, SmokePasses, SmokeFails, Confirm, Cache
<1>9. CASE Crash \/ Reboot
  <2>1. \A q \in Pullers : pc'[q] = "idle"
    BY <1>9 DEF Crash, Reboot, Stopped
  <2> QED
    BY <2>1 DEF BootInv
<1>A. CASE Boot
  <2>1. \A q \in Pullers : pc[q] = "idle"
    BY <1>A DEF Boot, BootInv
  <2> QED
    BY <1>2, <1>A, <2>1 DEF Boot, BootInv, TypeOK
<1>B. CASE BootPulled
  BY <1>B DEF BootPulled, BootInv
<1>C. CASE ApplyCached
  BY <1>C DEF ApplyCached, BootInv
<1>D. CASE UNCHANGED <<pc, agent>>
  BY <1>D DEF BootInv
<1> QED
  BY <1>3, <1>4, <1>7, <1>8, <1>9, <1>A, <1>B, <1>C, <1>D
  DEF Next, Pull, Apply, Lifecycle, Heartbeat, HeartbeatSend, HeartbeatArrive, Publish, Reconnect,
      TimerFires, AutoRevert, vars

(* The timer is armed and disarmed with the steps of its own apply; only a *)
(* slow step lets it run out before.                                       *)
LEMMA StepTimerInv == TypeOK /\ BootInv /\ TimerInv /\ [Next]_vars => TimerInv'
<1> SUFFICES ASSUME TypeOK, BootInv, TimerInv, [Next]_vars PROVE TimerInv'
  OBVIOUS
<1> USE AgentApplyAssumption DEF server, sse, disk, puller, history
<1>1. ASSUME NEW p \in Pullers, \A q \in Pullers \ {p} : pc'[q] = pc[q] /\ timer'[q] = timer[q],
             timer'[p] => pc'[p] \in Applying,
             "slow" \notin FaultKinds /\ pc'[p] \in Applying => timer'[p]
      PROVE  TimerInv'
  BY <1>1 DEF TimerInv
<1>2. ASSUME NEW p \in Pullers, NEW res, End(p, res), timer' = timer, pc[p] \notin Applying PROVE TimerInv'
  <2>1. ~timer'[p] /\ pc'[p] \notin Applying
    BY <1>2, EndEffect DEF TimerInv, Applying
  <2> QED
    BY <1>1, <1>2, <2>1, EndEffect
<1>3. ASSUME NEW p \in Pullers, NEW res, End(p, res), timer' = [timer EXCEPT ![p] = FALSE] PROVE TimerInv'
  <2>1. ~timer'[p] /\ \A q \in Pullers \ {p} : timer'[q] = timer[q]
    BY <1>3 DEF TypeOK
  <2>2. pc'[p] \notin Applying
    BY <1>3, EndEffect DEF Applying
  <2>3. \A q \in Pullers \ {p} : pc'[q] = pc[q]
    BY <1>3, EndEffect
  <2> QED
    BY <1>1, <2>1, <2>2, <2>3
<1>4. ASSUME NEW p \in Pullers, NEW s, Goto(p, s), timer' = timer, s \in Applying <=> pc[p] \in Applying
      PROVE  TimerInv'
  BY <1>1, <1>4, GotoEffect DEF TimerInv
<1>5. ASSUME NEW p \in Pullers, Begin(p) PROVE TimerInv'
  <2>1. pc[p] = "idle" /\ pc'[p] = "fetching" /\ timer' = timer /\ \A q \in Pullers \ {p} : pc'[q] = pc[q]
    BY <1>5 DEF Begin, TypeOK
  <2> QED
    BY <1>1, <2>1 DEF TimerInv, Applying
<1>6. Poll \in Pullers /\ conn \in Pullers
  BY DEF Pullers, TypeOK
<1>b. CASE StartPoll \/ OnBundleUpdate
  BY <1>5, <1>6, <1>b DEF StartPoll, OnBundleUpdate
<1>e. ASSUME NEW p \in Pullers, Fetch(p) PROVE TimerInv'
  <2>1. timer' = timer /\ pc[p] = "fetching"
    BY <1>e DEF Fetch
  <2>2. CASE End(p, "failed") \/ End(p, "unchanged")
    BY <1>2, <2>1, <2>2 DEF Applying
  <2>3. CASE Goto(p, "verifying")
    BY <1>4, <2>1, <2>3 DEF Applying
  <2> QED
    BY <1>e, <2>2, <2>3 DEF Fetch
<1>f. ASSUME NEW p \in Pullers, FetchFails(p) \/ Reject(p) \/ Record(p) PROVE TimerInv'
  BY <1>2, <1>f DEF FetchFails, Reject, Record, Applying
<1>g. ASSUME NEW p \in Pullers, FlushFails(p) \/ IpsetsFail(p) \/ RestoreFails(p) \/ Disarm(p)
      PROVE  TimerInv'
  BY <1>3, <1>g DEF FlushFails, IpsetsFail, RestoreFails, Disarm
<1>h. ASSUME NEW p \in Pullers, Dump(p) PROVE TimerInv'
  <2>1. timer'[p] /\ \A q \in Pullers \ {p} : timer'[q] = timer[q]
    BY <1>h DEF Dump, TypeOK
  <2>2. Goto(p, "flushing")
    BY <1>h DEF Dump
  <2> QED
    BY <1>1, <2>1, <2>2, GotoEffect DEF Applying
<1>i. ASSUME NEW p \in Pullers, Flush(p) \/ Ipsets(p) \/ Restore(p) \/ SmokeFails(p) PROVE TimerInv'
  BY <1>4, <1>i DEF Flush, Ipsets, Restore, SmokeFails, Applying
<1>r. ASSUME NEW p \in Pullers, Confirm(p) \/ Cache(p) PROVE TimerInv'
  BY <1>4, <1>r DEF Confirm, Cache, Applying
<1>o. ASSUME NEW p \in Pullers, SmokePasses(p) PROVE TimerInv'
  <2>1. ~timer'[p] /\ \A q \in Pullers \ {p} : timer'[q] = timer[q]
    BY <1>o DEF SmokePasses, TypeOK
  <2>2. Goto(p, "confirming")
    BY <1>o DEF SmokePasses
  <2> QED
    BY <1>1, <2>1, <2>2, GotoEffect DEF Applying
<1>u. ASSUME NEW p \in Pullers, TimerFires(p) PROVE TimerInv'
  <2>1. ~timer'[p] /\ \A q \in Pullers \ {p} : timer'[q] = timer[q]
    BY <1>u DEF TimerFires, TypeOK
  <2>2. pc' = pc /\ "slow" \in FaultKinds
    BY <1>u DEF TimerFires, Fault
  <2> QED
    BY <1>1, <2>1, <2>2
<1>y. CASE Crash \/ Reboot
  <2>1. \A q \in Pullers : pc'[q] = "idle" /\ ~timer'[q]
    BY <1>y DEF Crash, Reboot, Stopped
  <2> QED
    BY <2>1 DEF TimerInv, Applying
<1>A. CASE Boot
  <2>1. CASE UNCHANGED <<pc, timer>>
    BY <2>1 DEF TimerInv
  <2>2. CASE agent = "down" /\ pc' = [pc EXCEPT ![Poll] = "fetching"] /\ timer' = timer
    BY <1>1, <1>6, <2>2 DEF TimerInv, BootInv, TypeOK, Applying
  <2> QED
    BY <1>A, <2>1, <2>2 DEF Boot
<1>D. CASE UNCHANGED <<pc, timer>>
  BY <1>D DEF TimerInv
<1> QED
  BY <1>b, <1>e, <1>f, <1>g, <1>h, <1>i, <1>o, <1>r, <1>u, <1>y, <1>A, <1>D
  DEF Next, Pull, Apply, Lifecycle, Heartbeat, HeartbeatSend, HeartbeatArrive, Publish, Reconnect,
      AutoRevert, BootPulled, ApplyCached, vars

-----------------------------------------------------------------------------
(* Without events, a puller that does anything is the poll loop.           *)
LEMMA OnePuller ==
    ASSUME PollOnly, PollOnlyInv, NEW p \in Pullers, pc[p] # "idle" PROVE p = Poll
  BY DEF PollOnlyInv, Pullers

(* Every step keeps PollOnlyInv.                                           *)
LEMMA StepPollOnlyInv == TypeOK /\ PollOnlyInv /\ TimerInv /\ [Next]_vars => PollOnlyInv'
<1> SUFFICES ASSUME TypeOK, PollOnlyInv, TimerInv, [Next]_vars, PollOnly
             PROVE  \A c \in Conns : pc'[c] = "idle" /\ result'[c] = "none"
  BY DEF PollOnlyInv
<1> USE AgentApplyAssumption DEF server, sse, disk, puller, history
<1>0. \A c \in Conns : pc[c] = "idle" /\ result[c] = "none" /\ c \in Pullers \ {Poll}
  BY DEF PollOnlyInv, Pullers
<1>1. Poll \in Pullers
  BY DEF Pullers
<1>2. ASSUME NEW res, End(Poll, res) PROVE \A c \in Conns : pc'[c] = "idle" /\ result'[c] = "none"
  BY <1>0, <1>1, <1>2, EndEffect
<1>3. ASSUME NEW s, Goto(Poll, s), result' = result
      PROVE  \A c \in Conns : pc'[c] = "idle" /\ result'[c] = "none"
  BY <1>0, <1>1, <1>3, GotoEffect
<1>4. ASSUME NEW p \in Pullers, Pull(p) PROVE \A c \in Conns : pc'[c] = "idle" /\ result'[c] = "none"
  <2>1. pc[p] # "idle"
    BY <1>4 DEF Pull, Apply, Fetch, FetchFails, Reject, Dump, Flush, FlushFails, Ipsets, IpsetsFail,
                Restore, RestoreFails, SmokePasses, SmokeFails, Disarm, Confirm, Cache, Record
  <2>2. p = Poll
    BY <2>1, OnePuller
  <2>3. (\E res : End(Poll, res)) \/ (result' = result /\ \E s : Goto(Poll, s))
    BY <1>4, <2>2 DEF Pull, Apply, Fetch, FetchFails, Reject, Dump, Flush, FlushFails, Ipsets, IpsetsFail,
                Restore, RestoreFails, SmokePasses, SmokeFails, Disarm, Confirm, Cache, Record
  <2> QED
    BY <1>2, <1>3, <2>3
<1>5. CASE StartPoll
  BY <1>0, <1>5 DEF StartPoll, Begin, TypeOK
<1>6. CASE OnBundleUpdate
  BY <1>6 DEF OnBundleUpdate, TypeOK, PollOnly
<1>7. CASE Crash \/ Reboot
  BY <1>0, <1>7 DEF Crash, Reboot, Stopped
<1>8. CASE Boot
  BY <1>0, <1>8 DEF Boot, TypeOK
<1>9. CASE UNCHANGED <<pc, result>>
  BY <1>0, <1>9
<1> QED
  BY <1>4, <1>5, <1>6, <1>7, <1>8, <1>9
  DEF Next, Lifecycle, Heartbeat, HeartbeatSend, HeartbeatArrive, Publish, Reconnect,
      TimerFires, AutoRevert, BootPulled, ApplyCached, vars

(* Loading into an empty firewall leaves what was loaded.                  *)
LEMMA LoadEmpty ==
    ASSUME NEW f \in Firewalls, f.rules = <<>>, NEW v \in 0..MaxVersion
    PROVE  Load(f, Image(v)) = Image(v)
<1>1. f.rules \o <<v>> = <<v>>
  OBVIOUS
<1> QED
  BY <1>1 DEF Load, Image

(* Every step keeps ForceInv.                                              *)
LEMMA StepForceInv == IInv /\ [Next]_vars => ForceInv'
<1> SUFFICES ASSUME IInv, [Next]_vars, PollOnly, "slow" \notin FaultKinds
             PROVE  /\ reverting' = {}
                    /\ pc'[Poll] \in {"ipsets", "restoring"} => fw'.rules = <<>>
                    /\ pc'[Poll] \in {"smoking", "confirming", "caching", "recording"} =>
                         fw' = Image(hand'[Poll])
                    /\ result'[Poll] = "ok" =>
                         fw' = Image(curVer') /\ agent' \in {"up", "booting"} /\ pc'[Poll] = "idle"
  BY DEF ForceInv
<1> USE AgentApplyAssumption DEF server, sse, disk, puller, history
<1>0. TypeOK /\ PollOnlyInv /\ BootInv /\ HandInv
  BY DEF IInv
<1>1. /\ reverting = {}
      /\ pc[Poll] \in {"ipsets", "restoring"} => fw.rules = <<>>
      /\ pc[Poll] \in {"smoking", "confirming", "caching", "recording"} => fw = Image(hand[Poll])
      /\ result[Poll] = "ok" => fw = Image(curVer) /\ agent \in {"up", "booting"} /\ pc[Poll] = "idle"
  BY DEF IInv, ForceInv
<1>2. Poll \in Pullers /\ fw \in Firewalls
  BY <1>0 DEF Pullers, TypeOK
<1> DEFINE Good == /\ reverting' = {}
                   /\ pc'[Poll] \in {"ipsets", "restoring"} => fw'.rules = <<>>
                   /\ pc'[Poll] \in {"smoking", "confirming", "caching", "recording"} =>
                        fw' = Image(hand'[Poll])
                   /\ result'[Poll] = "ok" =>
                        fw' = Image(curVer') /\ agent' \in {"up", "booting"} /\ pc'[Poll] = "idle"
<1> SUFFICES Good
  BY DEF Good
<1> HIDE DEF Good
<1>3. ASSUME NEW res, res # "ok", End(Poll, res), reverting' = reverting PROVE Good
  BY <1>0, <1>1, <1>2, <1>3, EndEffect DEF Good
<1>4. ASSUME NEW s, Goto(Poll, s), UNCHANGED <<result, reverting>>, pc[Poll] # "idle",
             s \in {"ipsets", "restoring"} => fw'.rules = <<>>,
             s \in {"smoking", "confirming", "caching", "recording"} => fw' = Image(hand'[Poll])
      PROVE  Good
  BY <1>0, <1>1, <1>2, <1>4, GotoEffect DEF Good
<1>5. ASSUME NEW p \in Pullers, Pull(p) PROVE Good
  <2>1. pc[p] # "idle"
    BY <1>5 DEF Pull, Apply, Fetch, FetchFails, Reject, Dump, Flush, FlushFails, Ipsets, IpsetsFail,
                Restore, RestoreFails, SmokePasses, SmokeFails, Disarm, Confirm, Cache, Record
  <2>2. p = Poll /\ Pull(Poll)
    BY <1>0, <1>5, <2>1, OnePuller
  <2>3. CASE Fetch(Poll)
    BY <1>3, <1>4, <2>3 DEF Fetch
  <2>4. CASE FetchFails(Poll) \/ Reject(Poll) \/ FlushFails(Poll) \/ IpsetsFail(Poll)
             \/ RestoreFails(Poll) \/ Disarm(Poll)
    BY <1>3, <2>4 DEF FetchFails, Reject, FlushFails, IpsetsFail, RestoreFails, Disarm
  <2>5. CASE Dump(Poll) \/ SmokeFails(Poll)
    BY <1>4, <2>5 DEF Dump, SmokeFails
  <2>6. CASE Flush(Poll)
    <3>1. fw'.rules = <<>>
      BY <1>2, <2>6 DEF Flush, Flushed, Firewalls
    <3> QED
      BY <1>4, <2>6, <3>1 DEF Flush
  <2>7. CASE Ipsets(Poll)
    BY <1>1, <1>4, <2>7 DEF Ipsets
  <2>8. CASE Restore(Poll)
    <3>1. hand[Poll] \in 0..MaxVersion /\ fw.rules = <<>> /\ hand' = hand
      BY <1>0, <1>1, <1>2, <2>8 DEF Restore, TypeOK
    <3>2. fw' = Image(hand[Poll])
      BY <1>2, <2>8, <3>1, LoadEmpty DEF Restore
    <3> QED
      BY <1>4, <2>8, <3>1, <3>2 DEF Restore
  <2>9. CASE SmokePasses(Poll) \/ Confirm(Poll) \/ Cache(Poll)
    BY <1>1, <1>4, <2>9 DEF SmokePasses, Confirm, Cache
  <2>10. CASE Record(Poll)
    <3>1. fw' = Image(curVer') /\ agent' = agent /\ reverting' = reverting
      BY <1>1, <2>10 DEF Record
    <3>2. agent \in {"up", "booting"}
      BY <1>0, <1>2, <2>10 DEF Record, BootInv
    <3>3. pc'[Poll] = "idle"
      BY <1>0, <1>2, <2>10, EndEffect DEF Record
    <3> QED
      BY <1>1, <3>1, <3>2, <3>3 DEF Good
  <2> QED
    BY <2>2, <2>3, <2>4, <2>5, <2>6, <2>7, <2>8, <2>9, <2>10 DEF Pull, Apply
<1>6. CASE StartPoll
  <2>1. pc'[Poll] = "fetching" /\ result'[Poll] = "none" /\ reverting' = reverting
    BY <1>0, <1>2, <1>6 DEF StartPoll, Begin, TypeOK
  <2> QED
    BY <1>1, <2>1 DEF Good
<1>7. CASE OnBundleUpdate
  BY <1>0, <1>7 DEF OnBundleUpdate, TypeOK, PollOnly
<1>8. CASE Crash \/ Reboot
  <2>1. pc'[Poll] = "idle" /\ result'[Poll] = "none" /\ reverting' = {}
    BY <1>2, <1>8 DEF Crash, Reboot, Stopped
  <2> QED
    BY <2>1 DEF Good
<1>9. CASE Boot
  <2>1. agent = "down" /\ result' = result /\ reverting' = reverting /\ fw' = fw
    BY <1>9 DEF Boot
  <2>2. pc[Poll] = "idle" /\ result[Poll] # "ok"
    BY <1>0, <1>1, <1>2, <2>1 DEF BootInv
  <2>3. pc'[Poll] \in {"idle", "fetching"}
    BY <1>0, <1>2, <1>9, <2>2 DEF Boot, TypeOK
  <2> QED
    BY <1>1, <2>1, <2>2, <2>3 DEF Good
<1>10. CASE BootPulled
  BY <1>1, <1>10 DEF BootPulled, Good
<1>11. CASE ApplyCached
  <2>1. pc[Poll] = "idle" /\ result[Poll] # "ok"
    BY <1>0, <1>1, <1>2, <1>11 DEF ApplyCached, BootInv
  <2> QED
    BY <1>1, <1>11, <2>1 DEF ApplyCached, Good
<1>12. ASSUME NEW p \in Pullers, TimerFires(p) PROVE FALSE
  BY <1>12 DEF TimerFires, Fault
<1>13. ASSUME NEW image \in reverting, AutoRevert(image) PROVE FALSE
  BY <1>1, <1>13
<1>14. CASE UNCHANGED <<fw, reverting, pc, hand, result, curVer, agent>>
  BY <1>1, <1>14 DEF Good
<1> QED
  BY <1>5, <1>6, <1>7, <1>8, <1>9, <1>10, <1>11, <1>12, <1>13, <1>14
  DEF Next, Lifecycle, Heartbeat, HeartbeatSend, HeartbeatArrive, Publish, Reconnect, vars

-----------------------------------------------------------------------------
(* Loading an open backup, or any bundle, opens the firewall.              *)
LEMMA OpenLoad ==
    ASSUME NEW f \in Firewalls, NEW g \in Firewalls, Open(g)
    PROVE  Open(Load(f, g))
<1>1. f.rules \in Seq(0..MaxVersion) /\ g.rules \in Seq(0..MaxVersion)
  BY DEF Firewalls
<1>2. g.rules # <<>> => f.rules \o g.rules # <<>>
  BY <1>1
<1> QED
  BY <1>2 DEF Open, Load

(* A bundle that is loaded lets some packet through.                       *)
LEMMA OpenImage ==
    ASSUME NEW v PROVE Open(Image(v))
<1>1. <<v>> # <<>>
  OBVIOUS
<1> QED
  BY <1>1 DEF Open, Image

(* Every step keeps OpenInv.                                               *)
LEMMA StepOpenInv == IInv /\ [Next]_vars => OpenInv'
<1> SUFFICES ASSUME IInv, [Next]_vars, PollOnly, cut' = {}, rejected' = {}
             PROVE  /\ Open(fw') \/ pc'[Poll] \in {"ipsets", "restoring"}
                    /\ Open(backup'[Poll])
                    /\ \A image \in reverting' : Open(image)
  BY DEF OpenInv, Open
<1> USE AgentApplyAssumption DEF server, sse, disk, puller, history
<1>0. TypeOK /\ PollOnlyInv /\ BootInv /\ HandInv /\ TimerInv
  BY DEF IInv
<1>a. cut = {} /\ rejected = {}
  <2> DEFINE Grows == cut \subseteq cut' /\ rejected \subseteq rejected'
  <2>1. ASSUME NEW p \in Pullers, IpsetsFail(p) PROVE Grows
    BY <2>1 DEF IpsetsFail
  <2>2. CASE Crash \/ Reboot
    BY <2>2 DEF Crash, Reboot, Stopped
  <2>3. CASE UNCHANGED <<cut, rejected>>
    BY <2>3
  <2>4. ASSUME NEW p \in Pullers, Pull(p) PROVE Grows
    BY <2>1, <2>4 DEF Pull, Apply, Fetch, FetchFails, Reject, Dump, Flush, FlushFails, Ipsets, Restore,
                      RestoreFails, SmokePasses, SmokeFails, Disarm, Confirm, Cache, Record
  <2> QED
    BY <2>2, <2>3, <2>4
    DEF Next, Lifecycle, Heartbeat, HeartbeatSend, HeartbeatArrive, Publish, Reconnect, StartPoll,
        OnBundleUpdate, Begin, TimerFires, AutoRevert, Boot, BootPulled, ApplyCached, vars
<1>1. /\ Open(fw) \/ pc[Poll] \in {"ipsets", "restoring"}
      /\ Open(backup[Poll])
      /\ \A image \in reverting : Open(image)
  BY <1>a DEF IInv, OpenInv
<1>2. Poll \in Pullers /\ fw \in Firewalls /\ backup[Poll] \in Firewalls /\ Open(HostRules)
  BY <1>0 DEF Pullers, TypeOK, Open, HostRules
<1> DEFINE Good == /\ Open(fw') \/ pc'[Poll] \in {"ipsets", "restoring"}
                   /\ Open(backup'[Poll])
                   /\ \A image \in reverting' : Open(image)
<1> SUFFICES Good
  BY DEF Good
<1> HIDE DEF Good
<1>3. ASSUME NEW res, End(Poll, res), Open(fw'), reverting' = reverting PROVE Good
  BY <1>0, <1>1, <1>2, <1>3, EndEffect DEF Good
<1>4. ASSUME NEW s, Goto(Poll, s), UNCHANGED <<backup, reverting>>,
             Open(fw') \/ s \in {"ipsets", "restoring"}
      PROVE  Good
  BY <1>0, <1>1, <1>2, <1>4, GotoEffect DEF Good
<1>5. ASSUME NEW p \in Pullers, Pull(p) PROVE Good
  <2>1. pc[p] # "idle"
    BY <1>5 DEF Pull, Apply, Fetch, FetchFails, Reject, Dump, Flush, FlushFails, Ipsets, IpsetsFail,
                Restore, RestoreFails, SmokePasses, SmokeFails, Disarm, Confirm, Cache, Record
  <2>2. p = Poll /\ Pull(Poll)
    BY <1>0, <1>5, <2>1, OnePuller
  <2>3. CASE Fetch(Poll)
    <3>1. Open(fw')
      BY <1>1, <2>3 DEF Fetch
    <3> QED
      BY <1>3, <1>4, <2>3, <3>1 DEF Fetch
  <2>4. CASE FetchFails(Poll) \/ Reject(Poll) \/ FlushFails(Poll) \/ Disarm(Poll) \/ Record(Poll)
    <3>1. Open(fw')
      BY <1>1, <2>4 DEF FetchFails, Reject, FlushFails, Disarm, Record
    <3> QED
      BY <1>3, <2>4, <3>1 DEF FetchFails, Reject, FlushFails, Disarm, Record
  <2>5. CASE IpsetsFail(Poll)
    <3>1. fw' = Load(fw, backup[Poll])
      BY <2>5 DEF IpsetsFail
    <3>2. Open(fw')
      BY <1>1, <1>2, <3>1, OpenLoad
    <3> QED
      BY <1>3, <2>5, <3>2 DEF IpsetsFail
  <2>6. CASE RestoreFails(Poll)
    BY <2>6 DEF RestoreFails
  <2>7. CASE Dump(Poll)
    <3>1. backup'[Poll] = fw /\ fw' = fw /\ reverting' = reverting /\ Open(fw)
      BY <1>0, <1>1, <1>2, <2>7 DEF Dump, TypeOK
    <3> QED
      BY <1>1, <3>1 DEF Good
  <2>8. CASE Flush(Poll) \/ Ipsets(Poll)
    BY <1>4, <2>8 DEF Flush, Ipsets
  <2>9. CASE Restore(Poll)
    <3>1. hand[Poll] \in 0..MaxVersion
      BY <1>0, <1>2 DEF TypeOK
    <3>2. Image(hand[Poll]) \in Firewalls /\ Open(Image(hand[Poll]))
      BY <3>1, FirewallTypes, OpenImage
    <3>3. Open(fw')
      BY <1>2, <2>9, <3>2, OpenLoad DEF Restore
    <3> QED
      BY <1>4, <2>9, <3>3 DEF Restore
  <2>10. CASE SmokeFails(Poll)
    <3>1. Open(fw) /\ (fw' = fw \/ fw' = Load(fw, backup[Poll]))
      BY <1>1, <2>10 DEF SmokeFails, Reverted
    <3>2. Open(fw')
      BY <1>1, <1>2, <3>1, OpenLoad
    <3> QED
      BY <1>4, <2>10, <3>2 DEF SmokeFails
  <2>11. CASE SmokePasses(Poll) \/ Confirm(Poll) \/ Cache(Poll)
    <3>1. Open(fw')
      BY <1>1, <2>11 DEF SmokePasses, Confirm, Cache
    <3> QED
      BY <1>4, <2>11, <3>1 DEF SmokePasses, Confirm, Cache
  <2> QED
    BY <2>2, <2>3, <2>4, <2>5, <2>6, <2>7, <2>8, <2>9, <2>10, <2>11 DEF Pull, Apply
<1>6. CASE StartPoll
  <2>1. UNCHANGED <<fw, backup, reverting>> /\ pc[Poll] = "idle"
    BY <1>6 DEF StartPoll, Begin
  <2> QED
    BY <1>1, <2>1 DEF Good
<1>7. CASE OnBundleUpdate
  BY <1>0, <1>7 DEF OnBundleUpdate, TypeOK, PollOnly
<1>8. CASE Crash
  <2>1. pc[Poll] \notin {"ipsets", "restoring"}
    <3>1. { backup[p] : p \in InFlight } = {}
      BY <1>8 DEF Crash
    <3>2. Poll \notin InFlight
      BY <3>1
    <3> QED
      BY <1>2, <3>2 DEF InFlight
  <2>2. fw' = fw /\ backup' = backup /\ reverting' = {}
    BY <1>8 DEF Crash, Stopped
  <2> QED
    BY <1>1, <2>1, <2>2 DEF Good
<1>9. CASE Reboot
  <2>1. fw'.policy = "accept" /\ backup' = backup /\ reverting' = {}
    BY <1>9 DEF Reboot, Stopped
  <2> QED
    BY <1>1, <2>1 DEF Good, Open
<1>10. CASE Boot
  <2>1. UNCHANGED <<fw, backup, reverting>> /\ pc[Poll] = "idle"
    BY <1>0, <1>2, <1>10 DEF Boot, BootInv
  <2> QED
    BY <1>1, <2>1 DEF Good
<1>11. CASE ApplyCached
  <2>1. pc[Poll] = "idle" /\ UNCHANGED <<backup, reverting>>
    BY <1>0, <1>2, <1>11 DEF ApplyCached, BootInv
  <2>2. cached \in 0..MaxVersion
    BY <1>0 DEF TypeOK
  <2>3. fw' = fw \/ fw' = Load(fw, Image(cached))
    BY <1>11 DEF ApplyCached
  <2>4. Open(fw')
    BY <1>1, <1>2, <2>1, <2>2, <2>3, FirewallTypes, OpenImage, OpenLoad
  <2> QED
    BY <1>1, <2>1, <2>4 DEF Good
<1>12. ASSUME NEW p \in Pullers, TimerFires(p) PROVE Good
  <2>1. pc[p] # "idle"
    BY <1>0, <1>12 DEF TimerFires, TimerInv, Applying
  <2>2. p = Poll
    BY <1>0, <2>1, OnePuller
  <2>3. UNCHANGED <<fw, pc, backup>> /\ reverting' = reverting \cup {backup[Poll]}
    BY <1>12, <2>2 DEF TimerFires
  <2> QED
    BY <1>1, <2>3 DEF Good
<1>13. ASSUME NEW image \in reverting, AutoRevert(image) PROVE Good
  <2>1. UNCHANGED <<pc, backup>> /\ reverting' \subseteq reverting
    BY <1>13 DEF AutoRevert
  <2>2. image \in Firewalls /\ Open(image)
    BY <1>0, <1>1, <1>13 DEF TypeOK
  <2>3. fw' = fw \/ fw' = Load(fw, image)
    BY <1>13 DEF AutoRevert, Reverted
  <2>4. fw' = fw \/ Open(fw')
    BY <1>2, <2>2, <2>3, OpenLoad
  <2> QED
    BY <1>1, <2>1, <2>4 DEF Good
<1>14. CASE UNCHANGED <<fw, reverting, pc, backup>>
  BY <1>1, <1>14 DEF Good
<1>15. CASE Publish \/ Reconnect \/ Heartbeat \/ BootPulled \/ UNCHANGED vars
  BY <1>14, <1>15 DEF Publish, Reconnect, Heartbeat, HeartbeatSend, HeartbeatArrive, BootPulled, vars
<1> QED
  BY <1>5, <1>6, <1>7, <1>8, <1>9, <1>10, <1>11, <1>12, <1>13, <1>15 DEF Next, Lifecycle

(* Every step keeps BlockInv: only SmokePasses adds to the tested bundles. *)
LEMMA StepBlockInv == IInv /\ [Next]_vars => BlockInv'
<1> SUFFICES ASSUME IInv, [Next]_vars, PollOnly, "slow" \notin FaultKinds
             PROVE  tested' \cap Blocking = {}
  BY DEF BlockInv
<1> USE DEF server, sse, disk, puller, history
<1>1. tested \cap Blocking = {}
  BY DEF IInv, BlockInv
<1>2. CASE tested' = tested
  BY <1>1, <1>2
<1>3. ASSUME NEW p \in Pullers, SmokePasses(p) PROVE tested' \cap Blocking = {}
  <2>1. p = Poll
    BY <1>3, OnePuller DEF SmokePasses, IInv
  <2>2. fw = Image(hand[Poll])
    BY <1>3, <2>1 DEF SmokePasses, IInv, ForceInv
  <2>3. fw.rules = <<hand[Poll]>>
    BY <2>2 DEF Image
  <2>4. fw.rules # <<>> /\ Head(fw.rules) = hand[Poll]
    BY <2>3
  <2>5. hand[Poll] \notin Blocking
    BY <1>3, <2>4 DEF SmokePasses, Reachable
  <2> QED
    BY <1>1, <1>3, <2>1, <2>5 DEF SmokePasses
<1>4. ASSUME NEW p \in Pullers, Pull(p) PROVE tested' \cap Blocking = {}
  BY <1>2, <1>3, <1>4 DEF Pull, Apply, Fetch, FetchFails, Reject, Dump, Flush, FlushFails, Ipsets,
     IpsetsFail, Restore, RestoreFails, SmokeFails, Disarm, Confirm, Cache, Record
<1> QED
  BY <1>2, <1>4
  DEF Next, Lifecycle, Heartbeat, HeartbeatSend, HeartbeatArrive, Publish, Reconnect, StartPoll,
      OnBundleUpdate, Begin, TimerFires, AutoRevert, Boot, BootPulled, ApplyCached, Crash, Reboot,
      Stopped, vars

(* The inductive invariant holds.                                          *)
LEMMA Inductive == Spec => []IInv
<1>1. IInv /\ [Next]_vars => IInv'
  <2> SUFFICES ASSUME IInv, [Next]_vars PROVE IInv'
    OBVIOUS
  <2>1. TypeOK' /\ HandInv' /\ OnlyTested' /\ BootInv' /\ TimerInv' /\ PollOnlyInv'
    BY StepTypeOK, StepHandInv, StepOnlyTested, StepBootInv, StepTimerInv, StepPollOnlyInv DEF IInv
  <2> QED
    BY <2>1, StepForceInv, StepOpenInv, StepBlockInv DEF IInv
<1> QED
  BY <1>1, InitIInv, PTL DEF Spec

-----------------------------------------------------------------------------
(* The rules an apply of the poll loop replaces are in the backup file     *)
(* from before the flush to the verdict.                                   *)
DiskInv ==
    PollOnly /\ "persist" \notin FaultKinds =>
        (pc[Poll] \in {"flushing", "ipsets", "restoring", "smoking"} => backupFile = {backup[Poll]})

(* Every step keeps DiskInv.                                               *)
LEMMA StepDiskInv == IInv /\ DiskInv /\ [Next]_vars => DiskInv'
<1> SUFFICES ASSUME IInv, DiskInv, [Next]_vars, PollOnly, "persist" \notin FaultKinds,
                    pc'[Poll] \in {"flushing", "ipsets", "restoring", "smoking"}
             PROVE  backupFile' = {backup'[Poll]}
  BY DEF DiskInv
<1> USE AgentApplyAssumption DEF server, sse, disk, puller, history
<1>0. TypeOK /\ PollOnlyInv /\ BootInv
  BY DEF IInv
<1>1. pc[Poll] \in {"flushing", "ipsets", "restoring", "smoking"} => backupFile = {backup[Poll]}
  BY DEF DiskInv
<1>2. Poll \in Pullers
  BY DEF Pullers
<1>3. ASSUME NEW res, End(Poll, res) PROVE FALSE
  BY <1>0, <1>2, <1>3, EndEffect
<1>4. ASSUME NEW s, Goto(Poll, s), s \notin {"flushing", "ipsets", "restoring", "smoking"} PROVE FALSE
  BY <1>0, <1>2, <1>4, GotoEffect
<1>5. ASSUME NEW p \in Pullers, Pull(p) PROVE backupFile' = {backup'[Poll]}
  <2>1. pc[p] # "idle"
    BY <1>5 DEF Pull, Apply, Fetch, FetchFails, Reject, Dump, Flush, FlushFails, Ipsets, IpsetsFail,
                Restore, RestoreFails, SmokePasses, SmokeFails, Disarm, Confirm, Cache, Record
  <2>2. p = Poll /\ Pull(Poll)
    BY <1>0, <1>5, <2>1, OnePuller
  <2>3. CASE Fetch(Poll)
    BY <1>3, <1>4, <2>3 DEF Fetch
  <2>4. CASE FetchFails(Poll) \/ Reject(Poll) \/ FlushFails(Poll) \/ IpsetsFail(Poll)
             \/ RestoreFails(Poll) \/ Disarm(Poll) \/ Record(Poll)
    BY <1>3, <2>4 DEF FetchFails, Reject, FlushFails, IpsetsFail, RestoreFails, Disarm, Record
  <2>5. CASE Dump(Poll)
    <3>1. backupFile' = {fw}
      BY <2>5 DEF Dump, Fault
    <3>2. backup'[Poll] = fw
      BY <1>0, <1>2, <2>5 DEF Dump, TypeOK
    <3> QED BY <3>1, <3>2
  <2>6. CASE Flush(Poll) \/ Ipsets(Poll) \/ Restore(Poll)
    BY <1>1, <2>6 DEF Flush, Ipsets, Restore
  <2>7. CASE SmokePasses(Poll) \/ SmokeFails(Poll) \/ Confirm(Poll) \/ Cache(Poll)
    BY <1>4, <2>7 DEF SmokePasses, SmokeFails, Confirm, Cache
  <2> QED
    BY <2>2, <2>3, <2>4, <2>5, <2>6, <2>7 DEF Pull, Apply
<1>6. ~StartPoll /\ ~OnBundleUpdate
  <2>1. StartPoll => pc'[Poll] = "fetching"
    BY <1>0, <1>2 DEF StartPoll, Begin, TypeOK
  <2>2. ~OnBundleUpdate
    BY <1>0 DEF OnBundleUpdate, TypeOK, PollOnly
  <2> QED BY <2>1, <2>2
<1>7. ~Crash /\ ~Reboot
  BY <1>2 DEF Crash, Reboot, Stopped
<1>8. ~Boot
  <2> SUFFICES ASSUME Boot PROVE pc'[Poll] \in {"idle", "fetching"}
    OBVIOUS
  <2>1. pc[Poll] = "idle"
    BY <1>0, <1>2 DEF Boot, BootInv
  <2> QED BY <1>0, <1>2, <2>1 DEF Boot, TypeOK
<1>9. CASE UNCHANGED <<pc, backup, backupFile>>
  BY <1>1, <1>9
<1> QED
  BY <1>5, <1>6, <1>7, <1>8, <1>9
  DEF Next, Lifecycle, Heartbeat, HeartbeatSend, HeartbeatArrive, Publish, Reconnect, TimerFires,
      AutoRevert, BootPulled, ApplyCached, vars

(* An apply that has failed before it changed anything for good.           *)
Undone == result[Poll] = "not_flushed" \/ (result[Poll] = "ipset_failed" /\ IpsetFree(backup[Poll]))

(* Without concurrent pulls, slow steps and a cached bundle to load, the   *)
(* firewall is the backup until the flush, and again once it is undone; a  *)
(* pull under way has no result yet.                                       *)
UndoneInv ==
    PollOnly /\ "slow" \notin FaultKinds /\ TRUE \notin BootSettings =>
        /\ agent \in {"up", "down"}
        /\ pc[Poll] = "flushing" => fw = backup[Poll]
        /\ pc[Poll] # "idle" => result[Poll] = "none"
        /\ Undone => fw = backup[Poll]

(* Every step keeps UndoneInv.                                             *)
LEMMA StepUndoneInv == IInv /\ UndoneInv /\ [Next]_vars => UndoneInv'
<1> DEFINE Good == /\ agent' \in {"up", "down"}
                   /\ pc'[Poll] = "flushing" => fw' = backup'[Poll]
                   /\ pc'[Poll] # "idle" => result'[Poll] = "none"
                   /\ Undone' => fw' = backup'[Poll]
<1> SUFFICES ASSUME IInv, UndoneInv, [Next]_vars, PollOnly, "slow" \notin FaultKinds,
                    TRUE \notin BootSettings
             PROVE  Good
  BY DEF UndoneInv
<1> USE AgentApplyAssumption DEF server, sse, disk, puller, history
<1>0. TypeOK /\ PollOnlyInv /\ BootInv
  BY DEF IInv
<1>1. /\ agent \in {"up", "down"}
      /\ pc[Poll] = "flushing" => fw = backup[Poll]
      /\ pc[Poll] # "idle" => result[Poll] = "none"
      /\ Undone => fw = backup[Poll]
  BY DEF UndoneInv
<1>2. /\ Poll \in Pullers /\ fw \in Firewalls /\ backup[Poll] \in Firewalls
      /\ reverting = {} /\ onBoot # TRUE
      /\ pc[Poll] \in {"ipsets", "restoring"} => fw.rules = <<>>
  BY <1>0 DEF Pullers, TypeOK, IInv, ForceInv
<1> HIDE DEF Good
<1>3. ASSUME NEW res, res \notin {"not_flushed", "ipset_failed"}, End(Poll, res), agent' = agent
      PROVE  Good
  <2>1. pc'[Poll] = "idle" /\ result'[Poll] = res
    BY <1>0, <1>2, <1>3, EndEffect
  <2> QED BY <1>1, <1>3, <2>1 DEF Good, Undone
<1>4. ASSUME NEW s, s # "flushing", Goto(Poll, s), pc[Poll] # "idle", UNCHANGED <<agent, result, backup>>
      PROVE  Good
  <2>1. pc'[Poll] = s /\ result'[Poll] = "none"
    BY <1>0, <1>1, <1>2, <1>4, GotoEffect
  <2> QED BY <1>1, <1>4, <2>1 DEF Good, Undone
<1>5. ASSUME NEW p \in Pullers, Pull(p) PROVE Good
  <2>1. pc[p] # "idle"
    BY <1>5 DEF Pull, Apply, Fetch, FetchFails, Reject, Dump, Flush, FlushFails, Ipsets, IpsetsFail,
                Restore, RestoreFails, SmokePasses, SmokeFails, Disarm, Confirm, Cache, Record
  <2>2. p = Poll /\ Pull(Poll) /\ pc[Poll] # "idle"
    BY <1>0, <1>5, <2>1, OnePuller
  <2>3. CASE Fetch(Poll)
    BY <1>3, <1>4, <2>2, <2>3 DEF Fetch
  <2>4. CASE FetchFails(Poll) \/ Reject(Poll) \/ RestoreFails(Poll) \/ Disarm(Poll) \/ Record(Poll)
    BY <1>3, <2>4 DEF FetchFails, Reject, RestoreFails, Disarm, Record
  <2>5. CASE Dump(Poll)
    <3>1. backup'[Poll] = fw' /\ agent' = agent
      BY <1>0, <1>2, <2>5 DEF Dump, TypeOK
    <3>2. result'[Poll] = "none"
      BY <1>1, <2>2, <2>5 DEF Dump
    <3> QED BY <1>1, <3>1, <3>2 DEF Good, Undone
  <2>6. CASE FlushFails(Poll)
    <3>1. pc'[Poll] = "idle" /\ backup' = backup /\ fw' = fw /\ agent' = agent
      BY <1>0, <1>2, <2>6, EndEffect DEF FlushFails, End
    <3>2. fw = backup[Poll]
      BY <1>1, <2>6 DEF FlushFails
    <3> QED BY <1>1, <3>1, <3>2 DEF Good
  <2>7. CASE IpsetsFail(Poll)
    <3>1. pc'[Poll] = "idle" /\ backup' = backup /\ agent' = agent /\ result'[Poll] = "ipset_failed"
      BY <1>0, <1>2, <2>7, EndEffect DEF IpsetsFail, End
    <3>2. fw.rules = <<>>
      BY <1>2, <2>7 DEF IpsetsFail
    <3>3. Load(fw, backup[Poll]) = backup[Poll]
      <4>1. fw.rules \o backup[Poll].rules = backup[Poll].rules
        BY <1>2, <3>2 DEF Firewalls
      <4> QED BY <1>2, <4>1 DEF Load, Firewalls
    <3>4. IpsetFree(backup[Poll]) => fw' = backup[Poll]
      BY <2>7, <3>3 DEF IpsetsFail, Reverted
    <3>5. Undone' => IpsetFree(backup[Poll])
      BY <3>1 DEF Undone, IpsetFree
    <3> QED BY <1>1, <3>1, <3>4, <3>5 DEF Good
  <2>8. CASE Flush(Poll) \/ Ipsets(Poll) \/ Restore(Poll)
    BY <1>4, <2>2, <2>8 DEF Flush, Ipsets, Restore
  <2>9. CASE SmokePasses(Poll) \/ SmokeFails(Poll) \/ Confirm(Poll) \/ Cache(Poll)
    BY <1>4, <2>2, <2>9 DEF SmokePasses, SmokeFails, Confirm, Cache
  <2> QED
    BY <2>2, <2>3, <2>4, <2>5, <2>6, <2>7, <2>8, <2>9 DEF Pull, Apply
<1>6. CASE StartPoll
  <2>1. pc'[Poll] = "fetching" /\ result'[Poll] = "none" /\ agent' = agent
    BY <1>0, <1>2, <1>6 DEF StartPoll, Begin, TypeOK
  <2> QED BY <1>1, <2>1 DEF Good, Undone
<1>7. ~OnBundleUpdate
  BY <1>0 DEF OnBundleUpdate, TypeOK, PollOnly
<1>8. CASE Crash \/ Reboot
  <2>1. pc'[Poll] = "idle" /\ result'[Poll] = "none" /\ agent' = "down"
    BY <1>2, <1>8 DEF Crash, Reboot, Stopped
  <2> QED BY <2>1 DEF Good, Undone
<1>9. CASE Boot
  <2>1. agent' = "up" /\ UNCHANGED <<pc, fw, backup, result>>
    BY <1>0, <1>2, <1>9 DEF Boot, TypeOK
  <2> QED BY <1>1, <2>1 DEF Good, Undone
<1>10. ~BootPulled /\ ~ApplyCached
  BY <1>1 DEF BootPulled, ApplyCached
<1>11. ASSUME NEW p \in Pullers, TimerFires(p) PROVE FALSE
  BY <1>11 DEF TimerFires, Fault
<1>12. CASE UNCHANGED <<agent, fw, pc, backup, result>>
  BY <1>1, <1>12 DEF Good, Undone
<1> QED
  BY <1>2, <1>5, <1>6, <1>7, <1>8, <1>9, <1>10, <1>11, <1>12
  DEF Next, Lifecycle, Heartbeat, HeartbeatSend, HeartbeatArrive, Publish, Reconnect, vars

-----------------------------------------------------------------------------
(* Every variable of AgentApply keeps its type: the firewall is a sequence *)
(* of rule sets that were compiled, and no puller tests, confirms, caches  *)
(* or records the version 0 (GetBundle, ApplyBundle).                      *)
THEOREM TypeCorrect == Spec => []TypeOK
<1>1. IInv => TypeOK
  BY DEF IInv
<1> QED
  BY <1>1, Inductive, PTL

(* However many pulls overlap, and whatever fails, is lost or dies: a      *)
(* bundle that has not passed a smoke test is never confirmed, reported by *)
(* a heartbeat, cached or recorded (ApplyBundle, applyBundle,              *)
(* sendHeartbeat).                                                         *)
THEOREM UntestedNeverRecorded == Spec => []OnlyTested
<1>1. IInv => OnlyTested
  BY DEF IInv
<1> QED
  BY <1>1, Inductive, PTL

(* No early return of ApplyBundle leaves its auto-revert timer running     *)
(* behind, and, as long as no step takes the 90 seconds after which the    *)
(* timer fires, no apply is without one (scheduleRevert, revertCancel).    *)
THEOREM WatchdogExact ==
    Spec => []( /\ \A p \in Pullers : timer[p] => pc[p] \in Applying
                /\ "slow" \notin FaultKinds => WatchdogCovers )
<1>1. IInv => /\ \A p \in Pullers : timer[p] => pc[p] \in Applying
              /\ "slow" \notin FaultKinds => WatchdogCovers
  BY DEF IInv, TimerInv, WatchdogCovers
<1> QED
  BY <1>1, Inductive, PTL

(* After a successful pull of an agent whose poll loop is its only puller, *)
(* and none of whose steps takes 90 seconds, the recorded bundle and       *)
(* nothing else is loaded, whatever failed before, whatever ipsets the     *)
(* bundles use and however often agent or host went down (flushIPTables,   *)
(* restoreFromFile, applyBundle).                                          *)
THEOREM RecordedInForce == Spec => [](PollOnly /\ "slow" \notin FaultKinds => InForce)
<1>1. IInv => (PollOnly /\ "slow" \notin FaultKinds => InForce)
  <2> SUFFICES ASSUME IInv, PollOnly, "slow" \notin FaultKinds, NEW p \in Pullers, result[p] = "ok"
               PROVE  fw = Image(curVer)
    BY DEF InForce
  <2>1. p = Poll
    BY DEF IInv, PollOnlyInv, Pullers
  <2> QED
    BY <2>1 DEF IInv, ForceInv
<1> QED
  BY <1>1, Inductive, PTL

(* An agent whose poll loop is its only puller and that is at rest with    *)
(* its chains empty and closed has had a bundle rejected by                *)
(* iptables-restore, has died between flush and restore, or has lost the   *)
(* sets of its old rules: for any bundles, and whatever flushes, ipsets,   *)
(* smoke tests, timers, reboots and cached bundles have done before        *)
(* (ApplyBundle, revertRules, applyCachedBundle).                          *)
THEOREM LockoutCauses == Spec => [](PollOnly => LockoutExplained)
<1>1. IInv => (PollOnly => LockoutExplained)
  <2> SUFFICES ASSUME IInv, PollOnly, Settled, cut = {}, rejected = {}
               PROVE  fw.rules # <<>> \/ fw.policy = "accept"
    BY DEF LockoutExplained
  <2>1. pc[Poll] = "idle"
    BY DEF Settled, Pullers
  <2> QED
    BY <2>1 DEF IInv, OpenInv, Open
<1> QED
  BY <1>1, Inductive, PTL

(* A bundle that cuts the agent off from the control plane is never        *)
(* confirmed, reported, cached or recorded by an agent whose poll loop is  *)
(* its only puller and none of whose steps takes 90 seconds, whatever      *)
(* fails: the smoke test sees the bundle alone (smokeTest, ApplyBundle).   *)
THEOREM BlockingNeverRecorded ==
    Spec => [](PollOnly /\ "slow" \notin FaultKinds => BlockingUnacknowledged)
<1>1. IInv => (PollOnly /\ "slow" \notin FaultKinds => BlockingUnacknowledged)
  <2> SUFFICES ASSUME IInv, PollOnly, "slow" \notin FaultKinds PROVE BlockingUnacknowledged
    OBVIOUS
  <2>1. tested \cap Blocking = {} /\ 0 \notin Blocking
    BY AgentApplyAssumption DEF IInv, BlockInv, Versions
  <2>2. {confirmed, hb, cached, curVer, diskVer} \subseteq tested \cup {0}
    BY DEF IInv, OnlyTested
  <2> QED
    BY <2>1, <2>2 DEF BlockingUnacknowledged
<1> QED
  BY <1>1, Inductive, PTL

(* "Persist backup to disk BEFORE any state modification" (ApplyBundle):   *)
(* from the flush to the verdict of an apply of the poll loop, the rules   *)
(* it replaces are in the backup file, whichever timers fire, as long as   *)
(* the file can be written (persistBackup only logs a failure).            *)
THEOREM BackupKept == Spec => [](PollOnly /\ "persist" \notin FaultKinds => BackupOnDisk)
<1>1. IInv /\ DiskInv => (PollOnly /\ "persist" \notin FaultKinds => BackupOnDisk)
  <2> SUFFICES ASSUME IInv, DiskInv, PollOnly, "persist" \notin FaultKinds, NEW p \in Pullers,
                      pc[p] \in {"ipsets", "restoring", "smoking"}
               PROVE  backupFile = {backup[p]}
    BY DEF BackupOnDisk
  <2>1. p = Poll
    BY DEF IInv, PollOnlyInv, Pullers
  <2> QED
    BY <2>1 DEF DiskInv
<1>2. Init => DiskInv
  BY DEF Init, DiskInv, Pullers
<1> QED
  BY <1>1, <1>2, Inductive, StepDiskInv, PTL DEF Spec

(* An apply of the poll loop that fails before the flush, or in            *)
(* applyIpsets with old rules that use no sets, leaves the firewall it     *)
(* found, until the next pull, a restart or a reboot: for an agent without *)
(* apply_on_boot, none of whose steps takes 90 seconds (FlushFails and     *)
(* IpsetsFail stand for these returns of ApplyBundle).                     *)
THEOREM EarlyFailureUndone ==
    Spec => [](PollOnly /\ "slow" \notin FaultKinds /\ TRUE \notin BootSettings => RolledBack)
<1>1. IInv /\ UndoneInv =>
        (PollOnly /\ "slow" \notin FaultKinds /\ TRUE \notin BootSettings => RolledBack)
  <2> SUFFICES ASSUME IInv, UndoneInv, PollOnly, "slow" \notin FaultKinds, TRUE \notin BootSettings,
                      NEW p \in Pullers,
                      result[p] = "not_flushed" \/ (result[p] = "ipset_failed" /\ IpsetFree(backup[p]))
               PROVE  fw = backup[p]
    BY DEF RolledBack
  <2>1. p = Poll
    BY DEF IInv, PollOnlyInv, Pullers
  <2> QED
    BY <2>1 DEF UndoneInv, Undone
<1>2. Init => UndoneInv
  BY DEF Init, UndoneInv, Undone, Pullers
<1> QED
  BY <1>1, <1>2, Inductive, StepUndoneInv, PTL DEF Spec
=============================================================================
