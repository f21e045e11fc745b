------------------------------ MODULE Identity ------------------------------
(***************************************************************************)
(* The identity of one host: its registration and re-registration, its     *)
(* agent JWT and the rotation of its HMAC key, between an agent            *)
(* (agent/core, agent/identity, agent/rotation), which keeps credentials   *)
(* in memory and in its configuration file, and the server's row for it    *)
(* (api/agents, api/peers/rotation.go, store/peer_store.go).               *)
(*                                                                         *)
(* HMAC keys are numbered in the order the server makes them, and a        *)
(* rotation token has the number of its key.  The host's agent key never   *)
(* changes: a configuration has it or not.  JWTs that have expired or were *)
(* revoked are told apart by nobody: they are all called "dead".           *)
(* A lost request has no effect; what matters is a lost reply.             *)
(***************************************************************************)
EXTENDS Integers, FiniteSets

CONSTANTS
  RegTokens,     \* registration tokens
  JWTs,          \* names for agent tokens (bound: how many are in use at a time)
  Handlers,      \* requests that the server can be working on
  MaxRotations,  \* bound: rotations by the admin
  MaxFaults,     \* bound: lost replies, failing statements and failed writes of config.json
  MaxRestarts    \* bound: restarts of the agent

ASSUME IdentityAssumption ==
  /\ MaxRotations \in Nat /\ MaxFaults \in Nat /\ MaxRestarts \in Nat
  /\ "none" \notin JWTs \cup RegTokens \cup Handlers /\ "dead" \notin JWTs

VARIABLES
  fleet,      \* how the host starts: "new", "reinstalled", "keyed" or "bare"
  srv,        \* the peers row: exists, hmac_key, agent_token, rotation token and its age
  live,       \* JWTs that are neither expired nor revoked
  regtok,     \* registration_tokens: unused, used or revoked
  mem,        \* the agent's configuration in memory
  disk,       \* config.json
  hand,       \* RegisterAgent requests at the server
  reg,        \* doRegister: its copy of the configuration and its request
  rot,        \* the rotation manager: its state and the locals of CheckAndRotate
  faults, restarts,
  claims,     \* history: registrations that a registration token authorised
  overlapped  \* history: two re-registrations updated the row from the same reading

vars == <<fleet, srv, live, regtok, mem, disk, hand, reg, rot, faults, restarts, claims, overlapped>>

agentVars == <<mem, disk, reg, rot, restarts>>

NoKey == -1
Blank(r) == [token |-> "none", hmac |-> NoKey, agentKey |-> FALSE, reg |-> r]
Free == [pc |-> "free", cfg |-> Blank("none"), method |-> "none", token |-> "none", hmac |-> NoKey, old |-> "none"]
Denied == [Free EXCEPT !.pc = "denied"]
Answer(method, token, hmac) == [Free EXCEPT !.pc = "ok", !.method = method, !.token = token, !.hmac = hmac]
NoReg == [pc |-> "idle", h |-> "none", cfg |-> Blank("none")]
NoRot(state) == [state |-> state, jwt |-> "none", num |-> 0, cfg |-> Blank("none")]

Tokens == JWTs \cup {"none", "dead"}
Keys == NoKey..MaxRotations
Configs == [token : Tokens, hmac : Keys, agentKey : BOOLEAN, reg : RegTokens \cup {"none"}]
Rows == [peer : BOOLEAN, hmac : Keys, token : Tokens, rot : 0..MaxRotations, age : {0, 1, 2}]
Requests ==
  [pc : {"free", "new", "insert", "claim", "read", "update", "ok", "denied"}, cfg : Configs,
   method : {"none", "bearer", "agent_key", "hmac_proof", "registration_token"},
   token : Tokens, hmac : Keys, old : Tokens]

TypeOK ==
  /\ fleet \in {"new", "reinstalled", "keyed", "bare"}
  /\ srv \in Rows
  /\ live \subseteq JWTs /\ regtok \in [RegTokens -> {"unused", "used", "revoked"}]
  /\ mem \in Configs /\ disk \in Configs
  /\ hand \in [Handlers -> Requests]
  /\ reg \in [pc : {"idle", "sent", "save", "swap"}, h : Handlers \cup {"none"}, cfg : Configs]
  /\ rot \in [state : {"idle", "fallback", "retrieve", "test", "confirm", "store", "save"},
              jwt : Tokens, num : Keys, cfg : Configs]
  /\ faults \in 0..MaxFaults /\ restarts \in 0..MaxRestarts
  /\ claims \in [RegTokens -> Nat] /\ overlapped \in BOOLEAN

\* A reply is lost, a statement fails or a file cannot be written.
Fault == faults < MaxFaults /\ faults' = faults + 1

\* A call of the agent comes to nothing: the server refuses it, or the reply is lost.
Fails(accepted) == (~accepted /\ UNCHANGED faults) \/ Fault

\* A new JWT: a name that nobody uses.  JWTs bounds the tokens in use at a
\* time: a request that needs one waits until a name is free.
Unused == JWTs \ (live \cup {hand[h].token : h \in Handlers})
Fresh == CHOOSE t \in Unused : TRUE

\* A token, a configuration and a request once the tokens ts are no longer accepted.
Dead(ts, t) == IF t \in ts THEN "dead" ELSE t
Buried(ts, c) == [c EXCEPT !.token = Dead(ts, @)]
BuriedRequest(ts, r) == [r EXCEPT !.cfg = Buried(ts, @), !.token = Dead(ts, @), !.old = Dead(ts, @)]

\* The tokens ts are no longer accepted; s and hs are the row and the requests
\* as they are otherwise.
Bury(ts, s, hs) ==
  /\ mem' = Buried(ts, mem) /\ disk' = Buried(ts, disk)
  /\ reg' = [reg EXCEPT !.cfg = Buried(ts, @)]
  /\ rot' = [rot EXCEPT !.jwt = Dead(ts, @), !.cfg = Buried(ts, @)]
  /\ srv' = [s EXCEPT !.token = Dead(ts, @)]
  /\ hand' = [h \in Handlers |-> BuriedRequest(ts, hs[h])]

(***************************************************************************)
(* RegisterAgent, at the server                                            *)
(***************************************************************************)

Usable(t) == t # "none" /\ regtok[t] = "unused"

\* authorizeReRegistration: the proofs of a request in the order they are
\* tried, the single-use token last and only looked at.
Method(cfg) ==
  CASE cfg.token \in live                  -> "bearer"
    [] cfg.agentKey                        -> "agent_key"
    [] cfg.hmac # NoKey /\ cfg.hmac = srv.hmac -> "hmac_proof"
    [] Usable(cfg.reg)                     -> "registration_token"
    [] OTHER                               -> "none"

Proves(cfg) == Method(cfg) # "none"

\* An unknown host consumes its registration token at once; a known one has
\* to be authorised first.
Authorize(h) ==
  LET cfg == hand[h].cfg
      method == Method(cfg)
  IN /\ hand[h].pc = "new"
     /\ IF ~srv.peer
        THEN /\ hand' = [hand EXCEPT ![h] = IF Usable(cfg.reg) THEN [@ EXCEPT !.pc = "insert"] ELSE Denied]
             /\ regtok' = IF Usable(cfg.reg) THEN [regtok EXCEPT ![cfg.reg] = "used"] ELSE regtok
        ELSE /\ hand' = [hand EXCEPT ![h] = CASE method = "none"               -> Denied
                                              [] method = "registration_token" -> [@ EXCEPT !.pc = "claim", !.method = method]
                                              [] OTHER                         -> [@ EXCEPT !.pc = "read", !.method = method]]
             /\ UNCHANGED regtok
     /\ UNCHANGED <<fleet, srv, live, faults, claims, overlapped, agentVars>>

\* registerNewPeer: the row, unless the hostname has appeared meanwhile.
InsertPeer(h) ==
  /\ hand[h].pc = "insert"
  /\ IF srv.peer
     THEN hand' = [hand EXCEPT ![h] = Denied] /\ UNCHANGED <<srv, live, claims>>
     ELSE /\ Unused # {}
          /\ srv' = [srv EXCEPT !.peer = TRUE, !.hmac = 0, !.token = Fresh]
          /\ live' = live \cup {Fresh}
          /\ hand' = [hand EXCEPT ![h] = Answer("registration_token", Fresh, 0)]
          /\ claims' = [claims EXCEPT ![hand[h].cfg.reg] = @ + 1]
  /\ UNCHANGED <<fleet, regtok, faults, overlapped, agentVars>>

\* Mutant: the token was seen to be unused, so it is simply marked.
ClaimPeeked(h) ==
  /\ hand[h].pc = "claim"
  /\ regtok' = [regtok EXCEPT ![hand[h].cfg.reg] = "used"]
  /\ hand' = [hand EXCEPT ![h].pc = "read"]
  /\ UNCHANGED <<fleet, srv, live, faults, claims, overlapped, agentVars>>

\* ConsumeRegistrationToken: claim the token before the update.
Claim(h) ==
  /\ hand[h].pc = "claim"
  /\ IF Usable(hand[h].cfg.reg)
     THEN /\ regtok' = [regtok EXCEPT ![hand[h].cfg.reg] = "used"]
          /\ hand' = [hand EXCEPT ![h].pc = "read"]
     ELSE hand' = [hand EXCEPT ![h] = Denied] /\ UNCHANGED regtok
  /\ UNCHANGED <<fleet, srv, live, faults, claims, overlapped, agentVars>>

\* reRegisterExistingPeer reads the key to answer with and the token to
\* revoke before its transaction begins.
ReadPeer(h) ==
  /\ hand[h].pc = "read" /\ Unused # {}
  /\ hand' = [hand EXCEPT ![h].pc = "update", ![h].token = Fresh, ![h].hmac = srv.hmac, ![h].old = srv.token]
  /\ overlapped' = (overlapped \/ \E g \in Handlers : hand[g].pc = "update")
  /\ UNCHANGED <<fleet, srv, live, regtok, faults, claims, agentVars>>

\* Mutant: the token that the request carries is revoked.
RevokesPresented(h) == {hand[h].cfg.token} \cap live

\* The token that the update supersedes.
Revokes(h) == {hand[h].old} \cap live

\* UpdatePeerReRegistration: overwrite the token and revoke the old one.
UpdatePeer(h) ==
  /\ hand[h].pc = "update"
  /\ Bury(Revokes(h), [srv EXCEPT !.token = hand[h].token],
                      [hand EXCEPT ![h] = Answer(@.method, @.token, @.hmac)])
  /\ live' = (live \ Revokes(h)) \cup {hand[h].token}
  /\ claims' = IF hand[h].method = "registration_token" THEN [claims EXCEPT ![hand[h].cfg.reg] = @ + 1] ELSE claims
  /\ UNCHANGED <<fleet, regtok, faults, restarts, overlapped>>

\* A statement fails: an internal error, and a token claimed before is gone.
HandlerFails(h) ==
  /\ hand[h].pc \in {"new", "insert", "claim", "read", "update"} /\ Fault
  /\ hand' = [hand EXCEPT ![h] = Denied]
  /\ UNCHANGED <<fleet, srv, live, regtok, claims, overlapped, agentVars>>

\* The reply to an agent that is gone.
Unread(h) ==
  /\ hand[h].pc \in {"ok", "denied"} /\ reg.h # h
  /\ hand' = [hand EXCEPT ![h] = Free]
  /\ UNCHANGED <<fleet, srv, live, regtok, faults, claims, overlapped, agentVars>>

HandlerNext(h) ==
  Authorize(h) \/ InsertPeer(h) \/ Claim(h) \/ ReadPeer(h) \/ UpdatePeer(h) \/ Unread(h)

(***************************************************************************)
(* Registration, at the agent.  It is tried at startup when there are no   *)
(* credentials, and after a 401; the cooldown of a minute, announced       *)
(* before the request, is longer than the request may take, so that there  *)
(* is one attempt at a time.                                               *)
(***************************************************************************)

StartRegister ==
  /\ reg.pc = "idle" /\ mem.token \notin live
  /\ \E h \in Handlers :
       /\ h = CHOOSE g \in Handlers : hand[g].pc = "free"
       /\ hand[h].pc = "free"
       /\ hand' = [hand EXCEPT ![h] = [Free EXCEPT !.pc = "new", !.cfg = mem]]
       /\ reg' = [pc |-> "sent", h |-> h, cfg |-> mem]
  /\ UNCHANGED <<fleet, srv, live, regtok, mem, disk, rot, faults, restarts, claims, overlapped>>

\* Mutant: the agent key is taken from every answer.
RegisteredBare(cfg, token, hmac, withKey) ==
  [token |-> token, hmac |-> hmac, agentKey |-> withKey, reg |-> "none"]

\* Mutant: a host that has an HMAC key keeps it.
RegisteredKeepsKey(cfg, token, hmac, withKey) ==
  [token |-> token, hmac |-> IF cfg.hmac = NoKey THEN hmac ELSE cfg.hmac,
   agentKey |-> cfg.agentKey \/ withKey, reg |-> "none"]

\* Register: the configuration after a successful answer.
Registered(cfg, token, hmac, withKey) ==
  [token |-> token, hmac |-> hmac, agentKey |-> cfg.agentKey \/ withKey, reg |-> "none"]

\* The agent key is only sent to a caller that may not have it.
ReceiveReply ==
  /\ reg.pc = "sent" /\ hand[reg.h].pc = "ok"
  /\ LET r == hand[reg.h] IN
       reg' = [pc |-> "save", h |-> "none",
               cfg |-> Registered(reg.cfg, r.token, r.hmac, r.method \in {"hmac_proof", "registration_token"})]
  /\ hand' = [hand EXCEPT ![reg.h] = Free]
  /\ UNCHANGED <<fleet, srv, live, regtok, mem, disk, rot, faults, restarts, claims, overlapped>>

\* Refused, or the answer is lost.
RegisterFails ==
  /\ reg.pc = "sent"
  /\ \/ hand[reg.h].pc = "denied" /\ UNCHANGED faults
     \/ hand[reg.h].pc = "ok" /\ Fault
  /\ hand' = [hand EXCEPT ![reg.h] = Free]
  /\ reg' = NoReg
  /\ UNCHANGED <<fleet, srv, live, regtok, mem, disk, rot, restarts, claims, overlapped>>

\* SaveConfig, whose failure is tolerated.
SaveRegistered ==
  /\ reg.pc = "save"
  /\ \/ disk' = reg.cfg /\ UNCHANGED faults
     \/ Fault /\ UNCHANGED disk
  /\ reg' = [reg EXCEPT !.pc = "swap"]
  /\ UNCHANGED <<fleet, srv, live, regtok, mem, hand, rot, restarts, claims, overlapped>>

\* swapConfig: all of the configuration, built on the earlier copy.
SwapConfig ==
  /\ reg.pc = "swap"
  /\ mem' = reg.cfg
  /\ reg' = NoReg
  /\ UNCHANGED <<fleet, srv, live, regtok, disk, hand, rot, faults, restarts, claims, overlapped>>

(***************************************************************************)
(* Rotation of the HMAC key                                                *)
(***************************************************************************)

\* RotatePeerKey: the key changes at once, unless a rotation that was begun
\* less than five minutes ago has not been collected.
RotatePeerKey ==
  /\ srv.peer /\ srv.hmac < MaxRotations
  /\ ~(srv.rot # 0 /\ srv.age = 0)
  /\ srv' = [srv EXCEPT !.hmac = @ + 1, !.rot = srv.hmac + 1, !.age = 0]
  /\ UNCHANGED <<fleet, live, regtok, hand, faults, claims, overlapped, agentVars>>

Resting == rot.state \in {"idle", "fallback"}

\* Five and ten minutes pass since the last rotation, which nobody asks for
\* once it is over.
Age ==
  /\ srv.age < 2 /\ (srv.rot # 0 \/ ~Resting)
  /\ srv' = [srv EXCEPT !.age = @ + 1]
  /\ UNCHANGED <<fleet, live, regtok, hand, faults, claims, overlapped, agentVars>>

\* CheckAndRotate with a snapshot of the credentials: is a rotation pending?
CheckRotation ==
  /\ Resting /\ mem.token # "none"
  /\ rot' = IF mem.token \in live /\ srv.rot # 0
            THEN [NoRot("retrieve") EXCEPT !.jwt = mem.token, !.num = srv.rot]
            ELSE NoRot("idle")
  /\ UNCHANGED <<fleet, srv, live, regtok, mem, disk, hand, reg, faults, restarts, claims, overlapped>>

\* AgentRotateKey consumes the rotation token, which one use or its age ends.
RetrieveKey ==
  /\ rot.state = "retrieve"
  /\ srv' = IF srv.rot = rot.num THEN [srv EXCEPT !.rot = 0] ELSE srv
  /\ \/ /\ srv.rot = rot.num /\ srv.age = 0
        /\ rot' = [rot EXCEPT !.state = "test", !.num = srv.hmac]
        /\ UNCHANGED faults
     \/ Fails(srv.rot = rot.num /\ srv.age = 0) /\ rot' = NoRot("idle")
  /\ UNCHANGED <<fleet, live, regtok, mem, disk, hand, reg, restarts, claims, overlapped>>

\* AgentTestKey, with the JWT of the snapshot.
TestKey ==
  LET passes == rot.jwt \in live /\ rot.num = srv.hmac
  IN /\ rot.state = "test"
     /\ \/ passes /\ rot' = [rot EXCEPT !.state = "confirm"] /\ UNCHANGED faults
        \/ Fails(passes) /\ rot' = NoRot("fallback")
     /\ UNCHANGED <<fleet, srv, live, regtok, mem, disk, hand, reg, restarts, claims, overlapped>>

\* AgentConfirmRotation: the agent sends no rotation token, so this succeeds
\* when the token is gone and the rotation is less than ten minutes old.
ConfirmRotation ==
  LET passes == srv.rot = 0 /\ srv.age < 2
  IN /\ rot.state = "confirm"
     /\ \/ passes /\ rot' = [rot EXCEPT !.state = "store"] /\ UNCHANGED faults
        \/ Fails(passes) /\ rot' = NoRot("idle")
     /\ UNCHANGED <<fleet, srv, live, regtok, mem, disk, hand, reg, restarts, claims, overlapped>>

\* rotationCheckLoop: the key goes into the configuration in memory, of which
\* saveConfig then writes a copy.
StoreKey ==
  /\ rot.state = "store"
  /\ mem' = [mem EXCEPT !.hmac = rot.num]
  /\ rot' = [NoRot("save") EXCEPT !.cfg = mem']
  /\ UNCHANGED <<fleet, srv, live, regtok, disk, hand, reg, faults, restarts, claims, overlapped>>

SaveKey ==
  /\ rot.state = "save"
  /\ \/ disk' = rot.cfg /\ UNCHANGED faults
     \/ Fault /\ UNCHANGED disk
  /\ rot' = NoRot("idle")
  /\ UNCHANGED <<fleet, srv, live, regtok, mem, hand, reg, restarts, claims, overlapped>>

(***************************************************************************)
(* The rest of the world                                                   *)
(***************************************************************************)

\* An agent token is 72 hours old.
Expire(t) ==
  /\ t \in live
  /\ live' = live \ {t}
  /\ Bury({t}, srv, hand)
  /\ UNCHANGED <<fleet, regtok, faults, restarts, claims, overlapped>>

RevokeRegistrationToken(t) ==
  /\ regtok[t] = "unused"
  /\ regtok' = [regtok EXCEPT ![t] = "revoked"]
  /\ UNCHANGED <<fleet, srv, live, hand, faults, claims, overlapped, agentVars>>

\* The agent stops and starts from its configuration file.
Restart ==
  /\ restarts < MaxRestarts
  /\ restarts' = restarts + 1
  /\ mem' = disk /\ reg' = NoReg /\ rot' = NoRot("idle")
  /\ UNCHANGED <<fleet, srv, live, regtok, disk, hand, faults, claims, overlapped>>

Row(exists, token) == [peer |-> exists, hmac |-> IF exists THEN 0 ELSE NoKey, token |-> token, rot |-> 0, age |-> 2]

\* A new host; a known one whose agent was installed afresh; a running agent;
\* and one that registered before agent keys were handed out.
Init ==
  /\ fleet \in {"new", "reinstalled", "keyed", "bare"}
  /\ regtok = [t \in RegTokens |-> "unused"]
  /\ IF fleet \in {"new", "reinstalled"}
     THEN \E r \in RegTokens :
            disk = Blank(r) /\ srv = Row(fleet = "reinstalled", IF fleet = "new" THEN "none" ELSE "dead") /\ live = {}
     ELSE \E t \in JWTs :
            /\ disk = [token |-> t, hmac |-> 0, agentKey |-> fleet = "keyed", reg |-> "none"]
            /\ srv = Row(TRUE, t) /\ live = {t}
            /\ t = CHOOSE u \in JWTs : TRUE
  /\ mem = disk
  /\ hand = [h \in Handlers |-> Free] /\ reg = NoReg /\ rot = NoRot("idle")
  /\ faults = 0 /\ restarts = 0
  /\ claims = [t \in RegTokens |-> 0] /\ overlapped = FALSE

AgentNext ==
  StartRegister \/ ReceiveReply \/ RegisterFails \/ SaveRegistered \/ SwapConfig

RotationNext == CheckRotation \/ RetrieveKey \/ TestKey \/ ConfirmRotation \/ StoreKey \/ SaveKey

Next ==
  \/ AgentNext \/ RotationNext
  \/ \E h \in Handlers : HandlerNext(h) \/ HandlerFails(h)
  \/ RotatePeerKey \/ Age \/ Restart
  \/ \E t \in JWTs : Expire(t)
  \/ \E t \in RegTokens : RevokeRegistrationToken(t)

\* The agent's loops run every 30 seconds and every five minutes, the server
\* answers every request, and every agent token expires.
Spec ==
  /\ Init /\ [][Next]_vars
  /\ WF_vars(AgentNext) /\ WF_vars(RotationNext)
  /\ \A h \in Handlers : WF_vars(HandlerNext(h))
  /\ \A t \in JWTs : WF_vars(Expire(t))

(***************************************************************************)
(* Properties                                                              *)
(***************************************************************************)

\* A registration token authorises one registration: of two requests that
\* both saw it unused, after a restart of the agent, one is refused
\* (api/agents/handlers.go:744).
TokenSingleUse == \A t \in RegTokens : claims[t] <= 1

\* An agent that has credentials can always have them renewed, whatever
\* replies, writes and restarts it loses and whatever key it holds: it keeps
\* a proof the server accepts.  Only an agent from before agent keys depends
\* on its HMAC key, and with it on the rotations (identity/register.go:130).
ProofSurvives == mem.token # "none" => Proves(mem) \/ (fleet = "bare" /\ srv.hmac > 0)

\* Of all the tokens a host was ever given at most one is still accepted,
\* except after two re-registrations that were under way at the same time:
\* the old token is read before the transaction that revokes it
\* (store/peer_store.go:1224).
SupersededRevoked == overlapped \/ Cardinality(live) <= 1

\* However a rotation ends and whatever a re-registration overwrites
\* (agent/core/agent.go:605), the agent comes to hold the server's key once
\* keys are no longer rotated, by the re-registration that follows the expiry
\* of its token, unless it has no proof left that the server accepts.
KeysConverge == <>[](mem.hmac = srv.hmac \/ ~Proves(mem))

\* "Drop the untested key; oldKey remains the fallback key" (rotation/rotation.go:120):
\* the key the agent falls back to is one that the server still uses.
FallbackUsable == rot.state = "fallback" => mem.hmac = srv.hmac
=============================================================================
