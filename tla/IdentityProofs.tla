--------------------------- MODULE IdentityProofs ---------------------------
(***************************************************************************)
(* Proofs about Identity for every set of registration tokens, requests    *)
(* and token names, and every bound on rotations, faults and restarts.     *)
(*                                                                         *)
(* None of the three invariants is inductive.  TokenSingleUse counts what  *)
(* has been registered: the proof follows the right to register from the   *)
(* token in the table to the one request that has consumed it (TokenInv).  *)
(* ProofSurvives speaks of the configuration in memory: the proof has to   *)
(* cover every copy of it, in the file, in doRegister, in the rotation     *)
(* loop and in the requests under way, and what the server will answer     *)
(* them (CopiesInv, RequestInv, AnswerInv).  SupersededRevoked needs that  *)
(* the token a re-registration read is still the one in the row when its   *)
(* update revokes it (RowInv).                                             *)
(***************************************************************************)
EXTENDS Identity, FiniteSetTheorems, TLAPS

(* Request h has consumed registration token t and not yet used the right  *)
(* it gives.                                                               *)
Holds(h, t) ==
  /\ hand[h].cfg.reg = t
  /\ \/ hand[h].pc = "insert"
     \/ hand[h].pc \in {"read", "update"} /\ hand[h].method = "registration_token"

(* The right to register is in one place: the table, one request, or a     *)
(* registration that has been made.                                        *)
TokenInv ==
  \A t \in RegTokens :
    /\ regtok[t] # "used" => claims[t] = 0 /\ \A h \in Handlers : ~Holds(h, t)
    /\ \A h \in Handlers : Holds(h, t) =>
         claims[t] = 0 /\ \A g \in Handlers \ {h} : ~Holds(g, t)
    /\ claims[t] <= 1

(* The peers row: a key exists with the row, a rotation token with a later *)
(* key; re-registrations only run against an existing row.                 *)
RowInv ==
  /\ srv.peer <=> srv.hmac # NoKey
  /\ srv.rot # 0 => srv.hmac > 0
  /\ ~srv.peer => live = {} /\ fleet = "new"
  /\ \A h \in Handlers : hand[h].pc \in {"claim", "read", "update", "ok"} => srv.peer

(* Without overlapping re-registrations the only live token is the one in  *)
(* the row, and a re-registration that has read it still knows it.         *)
LiveInv ==
  ~overlapped =>
    /\ live \subseteq {srv.token}
    /\ \A h \in Handlers : hand[h].pc = "update" =>
         /\ hand[h].old = srv.token
         /\ \A g \in Handlers \ {h} : hand[g].pc # "update"

(* The token that a re-registration is about to issue is nobody else's.    *)
FreshInv ==
  \A h \in Handlers : hand[h].pc = "update" =>
    /\ hand[h].token \in JWTs \ live
    /\ \A g \in Handlers \ {h} : hand[g].token # hand[h].token

(* A configuration that the server accepts for good: with the agent key,   *)
(* or, of an agent from before agent keys, with a key that no rotation has *)
(* replaced.                                                               *)
Lasting(c) == c.agentKey \/ (fleet = "bare" /\ (c.hmac = srv.hmac \/ srv.hmac > 0))

(* Every copy of the configuration that has a token is lasting.            *)
CopiesInv ==
  /\ mem.token # "none" => Lasting(mem)
  /\ disk.token # "none" => Lasting(disk)
  /\ reg.cfg.token # "none" => Lasting(reg.cfg)
  /\ rot.cfg.token # "none" => Lasting(rot.cfg)
  /\ reg.pc \in {"save", "swap"} => Lasting(reg.cfg)
  /\ rot.state \in {"retrieve", "test", "confirm", "store"} => srv.hmac > 0

(* The request that doRegister waits for carries its copy of the           *)
(* configuration; one that was accepted without a proof that is answered   *)
(* with the agent key came from a lasting configuration.                   *)
RequestInv ==
  reg.pc = "sent" =>
    /\ reg.h \in Handlers /\ hand[reg.h].pc # "free"
    /\ hand[reg.h].pc \in {"new", "insert", "claim", "read", "update"} => hand[reg.h].cfg = reg.cfg
    /\ hand[reg.h].pc \in {"read", "update", "ok"}
         /\ hand[reg.h].method \in {"bearer", "agent_key"} => Lasting(reg.cfg)

(* What a request is answered with: an accepted proof, and the key of the  *)
(* row unless that has been rotated since.                                 *)
AnswerInv ==
  \A h \in Handlers :
    /\ hand[h].pc = "claim" => hand[h].method = "registration_token"
    /\ hand[h].pc \in {"read", "update", "ok"} => hand[h].method # "none"
    /\ hand[h].pc \in {"update", "ok"} => hand[h].hmac = srv.hmac \/ srv.hmac > 0

IInv ==
  /\ TypeOK /\ TokenInv /\ RowInv /\ FreshInv /\ LiveInv
  /\ CopiesInv /\ RequestInv /\ AnswerInv

-----------------------------------------------------------------------------
(* What the end of some tokens does to a configuration: nothing else of it *)
(* changes, and one that had a token still has one.                        *)
LEMMA BuriedConfig ==
  ASSUME NEW ts \in SUBSET JWTs, NEW c \in Configs
  PROVE  /\ Buried(ts, c) \in Configs
         /\ Buried(ts, c).hmac = c.hmac
         /\ Buried(ts, c).agentKey = c.agentKey
         /\ Buried(ts, c).reg = c.reg
         /\ Buried(ts, c).token = "none" <=> c.token = "none"
  BY IdentityAssumption DEF Buried, Dead, Configs, Tokens

(* A token that has come to its end is a token.                            *)
LEMMA DeadToken ==
  ASSUME NEW ts \in SUBSET JWTs, NEW t \in Tokens
  PROVE  Dead(ts, t) \in Tokens
  BY DEF Dead, Tokens

(* The requests after the end of some tokens.                              *)
LEMMA RequestBuried ==
  ASSUME NEW ts \in SUBSET JWTs, NEW r \in Requests
  PROVE  /\ BuriedRequest(ts, r) \in Requests
         /\ BuriedRequest(ts, r).pc = r.pc
         /\ BuriedRequest(ts, r).method = r.method
         /\ BuriedRequest(ts, r).hmac = r.hmac
         /\ BuriedRequest(ts, r).cfg = Buried(ts, r.cfg)
         /\ BuriedRequest(ts, r).cfg.reg = r.cfg.reg
         /\ BuriedRequest(ts, r).token = Dead(ts, r.token)
         /\ BuriedRequest(ts, r).old = Dead(ts, r.old)
<1>1. r.cfg \in Configs /\ r.token \in Tokens /\ r.old \in Tokens
  BY DEF Requests
<1>2. Buried(ts, r.cfg) \in Configs /\ Buried(ts, r.cfg).reg = r.cfg.reg
  BY <1>1, BuriedConfig
<1>3. Dead(ts, r.token) \in Tokens /\ Dead(ts, r.old) \in Tokens
  BY <1>1, DeadToken
<1> QED
  BY <1>1, <1>2, <1>3 DEF BuriedRequest, Requests

(* The end of tokens keeps the types.                                      *)
LEMMA BuryType ==
  ASSUME TypeOK, NEW ts \in SUBSET JWTs, NEW s \in Rows,
         NEW hs \in [Handlers -> Requests], Bury(ts, s, hs)
  PROVE  /\ mem' \in Configs /\ disk' \in Configs
         /\ reg' \in [pc : {"idle", "sent", "save", "swap"}, h : Handlers \cup {"none"}, cfg : Configs]
         /\ rot' \in [state : {"idle", "fallback", "retrieve", "test", "confirm", "store", "save"},
                      jwt : Tokens, num : Keys, cfg : Configs]
         /\ srv' \in Rows
         /\ hand' \in [Handlers -> Requests]
<1>1. mem' \in Configs /\ disk' \in Configs
  BY BuriedConfig DEF TypeOK, Bury
<1>2. reg' \in [pc : {"idle", "sent", "save", "swap"}, h : Handlers \cup {"none"}, cfg : Configs]
  BY BuriedConfig DEF TypeOK, Bury
<1>3. rot' \in [state : {"idle", "fallback", "retrieve", "test", "confirm", "store", "save"},
                jwt : Tokens, num : Keys, cfg : Configs]
  BY BuriedConfig, DeadToken DEF TypeOK, Bury
<1>4. srv' \in Rows
  BY DeadToken DEF Bury, Rows
<1>5. hand' \in [Handlers -> Requests]
  <2>1. ASSUME NEW h \in Handlers PROVE hand'[h] \in Requests
    BY RequestBuried DEF Bury
  <2> QED
    BY <2>1 DEF Bury
<1> QED
  BY <1>1, <1>2, <1>3, <1>4, <1>5
LEMMA FreshToken ==
  ASSUME Unused # {}
  PROVE  Fresh \in JWTs /\ Fresh \notin live /\ \A h \in Handlers : hand[h].token # Fresh
<1>1. Fresh \in Unused
  BY DEF Fresh
<1> QED
  BY <1>1 DEF Unused

(* The records that requests and the agent's loops start from.             *)
LEMMA RecordTypes ==
  /\ \A r \in RegTokens \cup {"none"} : Blank(r) \in Configs
  /\ Free \in Requests /\ Denied \in Requests
  /\ \A m \in {"none", "bearer", "agent_key", "hmac_proof", "registration_token"},
       t \in Tokens, k \in Keys : Answer(m, t, k) \in Requests
  /\ NoReg \in [pc : {"idle", "sent", "save", "swap"}, h : Handlers \cup {"none"}, cfg : Configs]
  /\ \A s \in {"idle", "fallback", "retrieve", "test", "confirm", "store", "save"} :
       NoRot(s) \in [state : {"idle", "fallback", "retrieve", "test", "confirm", "store", "save"},
                     jwt : Tokens, num : Keys, cfg : Configs]
<1> USE IdentityAssumption
<1>1. NoKey \in Keys /\ 0 \in Keys /\ "none" \in Tokens
  BY DEF Keys, NoKey, Tokens
<1>2. \A r \in RegTokens \cup {"none"} : Blank(r) \in Configs
  BY <1>1 DEF Blank, Configs
<1>3. Free \in Requests
  BY <1>1, <1>2 DEF Free, Requests
<1>4. Denied \in Requests
  BY <1>3 DEF Denied, Requests
<1>5. \A m \in {"none", "bearer", "agent_key", "hmac_proof", "registration_token"},
        t \in Tokens, k \in Keys : Answer(m, t, k) \in Requests
  BY <1>3 DEF Answer, Requests
<1>6. NoReg \in [pc : {"idle", "sent", "save", "swap"}, h : Handlers \cup {"none"}, cfg : Configs]
  BY <1>2 DEF NoReg
<1>7. \A s \in {"idle", "fallback", "retrieve", "test", "confirm", "store", "save"} :
        NoRot(s) \in [state : {"idle", "fallback", "retrieve", "test", "confirm", "store", "save"},
                      jwt : Tokens, num : Keys, cfg : Configs]
  BY <1>1, <1>2 DEF NoRot
<1> QED
  BY <1>2, <1>3, <1>4, <1>5, <1>6, <1>7

(* A new row of peers has its type.                                        *)
LEMMA RowType ==
  ASSUME NEW b \in BOOLEAN, NEW t \in Tokens
  PROVE  Row(b, t) \in Rows
<1>1. NoKey \in Keys /\ 0 \in Keys /\ 0 \in 0..MaxRotations
  BY IdentityAssumption DEF Keys, NoKey
<1> QED
  BY <1>1 DEF Row, Rows

(* The types hold at first.                                                *)
LEMMA InitTypeOK == Init => TypeOK
<1> SUFFICES ASSUME Init PROVE TypeOK
  OBVIOUS
<1> USE IdentityAssumption
<1>1. fleet \in {"new", "reinstalled", "keyed", "bare"}
  BY DEF Init
<1>2. disk \in Configs /\ srv \in Rows /\ live \subseteq JWTs
  <2>1. CASE fleet \in {"new", "reinstalled"}
    <3>1. PICK r \in RegTokens, b \in BOOLEAN, t \in {"none", "dead"} :
            disk = Blank(r) /\ srv = Row(b, t) /\ live = {}
      BY <2>1 DEF Init
    <3> QED
      BY <3>1, RowType, RecordTypes DEF Tokens
  <2>2. CASE fleet \notin {"new", "reinstalled"}
    <3>1. PICK t \in JWTs, b \in BOOLEAN :
            /\ disk = [token |-> t, hmac |-> 0, agentKey |-> b, reg |-> "none"]
            /\ srv = Row(TRUE, t) /\ live = {t}
      BY <2>2 DEF Init
    <3>2. t \in Tokens /\ 0 \in Keys
      BY DEF Tokens, Keys, NoKey
    <3> QED
      BY <3>1, <3>2, RowType DEF Configs
  <2> QED
    BY <2>1, <2>2
<1>3. hand \in [Handlers -> Requests]
  BY RecordTypes DEF Init
<1>4. /\ mem = disk /\ reg = NoReg /\ rot = NoRot("idle")
      /\ faults = 0 /\ restarts = 0 /\ overlapped = FALSE
      /\ regtok = [t \in RegTokens |-> "unused"] /\ claims = [t \in RegTokens |-> 0]
  BY DEF Init
<1>5. /\ reg \in [pc : {"idle", "sent", "save", "swap"}, h : Handlers \cup {"none"}, cfg : Configs]
      /\ rot \in [state : {"idle", "fallback", "retrieve", "test", "confirm", "store", "save"},
                  jwt : Tokens, num : Keys, cfg : Configs]
  BY <1>4, RecordTypes
<1>6. /\ regtok \in [RegTokens -> {"unused", "used", "revoked"}]
      /\ claims \in [RegTokens -> Nat]
      /\ faults \in 0..MaxFaults /\ restarts \in 0..MaxRestarts
  BY <1>4
<1>7. overlapped \in BOOLEAN
  BY <1>4
<1> QED
  BY <1>1, <1>2, <1>3, <1>4, <1>5, <1>6, <1>7 DEF TypeOK

(* Authorize chooses one of the five ways, or none.                        *)
LEMMA MethodType ==
  ASSUME NEW c
  PROVE  Method(c) \in {"none", "bearer", "agent_key", "hmac_proof", "registration_token"}
  BY DEF Method

(* Every step keeps the types.                                             *)
LEMMA StepTypeOK == TypeOK /\ FreshInv /\ RequestInv /\ [Next]_vars => TypeOK'
<1> SUFFICES ASSUME TypeOK, FreshInv, RequestInv, [Next]_vars PROVE TypeOK'
  OBVIOUS
<1> USE IdentityAssumption
<1>a. ASSUME NEW h \in Handlers, Authorize(h) PROVE TypeOK'
  <2>1. hand[h] \in Requests /\ hand[h].cfg \in Configs
    BY DEF TypeOK, Requests
  <2>2. \A m \in {"none", "bearer", "agent_key", "hmac_proof", "registration_token"} :
          /\ [hand[h] EXCEPT !.pc = "insert"] \in Requests
          /\ [hand[h] EXCEPT !.pc = "claim", !.method = m] \in Requests
          /\ [hand[h] EXCEPT !.pc = "read", !.method = m] \in Requests
    BY <2>1 DEF Requests
  <2>3. hand' \in [Handlers -> Requests]
    <3>1. CASE ~srv.peer
      BY <1>a, <2>2, <3>1, RecordTypes DEF TypeOK, Authorize
    <3>2. CASE srv.peer
      <4>1. PICK m \in {"none", "bearer", "agent_key", "hmac_proof", "registration_token"} :
              m = Method(hand[h].cfg)
        BY MethodType
      <4>2. hand' = [hand EXCEPT ![h] = CASE m = "none"               -> Denied
                                          [] m = "registration_token" -> [@ EXCEPT !.pc = "claim", !.method = m]
                                          [] OTHER                    -> [@ EXCEPT !.pc = "read", !.method = m]]
        BY <1>a, <3>2, <4>1 DEF Authorize
      <4> QED
        BY <2>2, <4>2, RecordTypes DEF TypeOK
    <3> QED
      BY <3>1, <3>2
  <2>4. regtok' \in [RegTokens -> {"unused", "used", "revoked"}]
    BY <1>a DEF TypeOK, Authorize
  <2> QED
    BY <1>a, <2>3, <2>4 DEF TypeOK, Authorize, agentVars
<1>b. ASSUME NEW h \in Handlers, InsertPeer(h) PROVE TypeOK'
  <2>1. CASE srv.peer
    BY <1>b, <2>1, RecordTypes DEF TypeOK, InsertPeer, agentVars
  <2>2. CASE ~srv.peer
    <3>1. Fresh \in JWTs /\ Fresh \in Tokens
      BY <1>b, <2>2, FreshToken DEF InsertPeer, Tokens
    <3>2. srv' \in Rows
      <4>1. 0 \in Keys
        BY DEF Keys, NoKey
      <4>2. srv' = [srv EXCEPT !.peer = TRUE, !.hmac = 0, !.token = Fresh] /\ srv \in Rows
        BY <1>b, <2>2 DEF TypeOK, InsertPeer
      <4> QED
        BY <3>1, <4>1, <4>2 DEF Rows
    <3>3. live' \subseteq JWTs
      BY <1>b, <2>2, <3>1 DEF TypeOK, InsertPeer
    <3>4. hand' \in [Handlers -> Requests]
      BY <1>b, <2>2, <3>1, RecordTypes DEF TypeOK, InsertPeer, Keys, NoKey
    <3>5. claims' \in [RegTokens -> Nat]
      BY <1>b, <2>2 DEF TypeOK, InsertPeer
    <3> QED
      BY <1>b, <3>2, <3>3, <3>4, <3>5 DEF TypeOK, InsertPeer, agentVars
  <2> QED
    BY <2>1, <2>2
<1>c. ASSUME NEW h \in Handlers, Claim(h) PROVE TypeOK'
  <2>1. [hand[h] EXCEPT !.pc = "read"] \in Requests
    BY DEF TypeOK, Requests
  <2>2. hand' \in [Handlers -> Requests]
    BY <1>c, <2>1, RecordTypes DEF TypeOK, Claim
  <2>3. regtok' \in [RegTokens -> {"unused", "used", "revoked"}]
    BY <1>c DEF TypeOK, Claim
  <2> QED
    BY <1>c, <2>2, <2>3 DEF TypeOK, Claim, agentVars
<1>d. ASSUME NEW h \in Handlers, ReadPeer(h) PROVE TypeOK'
  <2>1. Fresh \in Tokens
    BY <1>d, FreshToken DEF ReadPeer, Tokens
  <2>2. srv.hmac \in Keys /\ srv.token \in Tokens
    BY DEF TypeOK, Rows
  <2>3. hand' \in [Handlers -> Requests]
    <3>1. [hand[h] EXCEPT !.pc = "update", !.token = Fresh, !.hmac = srv.hmac, !.old = srv.token]
            \in Requests
      <4>1. PICK fresh \in Tokens, key \in Keys, old \in Tokens :
              fresh = Fresh /\ key = srv.hmac /\ old = srv.token
        BY <2>1, <2>2
      <4>2. hand[h] \in Requests
        BY DEF TypeOK
      <4>3. [hand[h] EXCEPT !.pc = "update", !.token = fresh, !.hmac = key, !.old = old] \in Requests
        BY <4>2 DEF Requests
      <4> QED
        BY <4>1, <4>3
    <3>2. hand' = [hand EXCEPT ![h] =
            [hand[h] EXCEPT !.pc = "update", !.token = Fresh, !.hmac = srv.hmac, !.old = srv.token]]
      BY <1>d DEF TypeOK, ReadPeer
    <3> QED
      BY <3>1, <3>2 DEF TypeOK
  <2> QED
    BY <1>d, <2>3 DEF TypeOK, ReadPeer, agentVars
<1>e. ASSUME NEW h \in Handlers, UpdatePeer(h) PROVE TypeOK'
  <2>1. /\ hand[h].token \in Tokens /\ hand[h].hmac \in Keys
        /\ hand[h].method \in {"none", "bearer", "agent_key", "hmac_proof", "registration_token"}
    BY DEF TypeOK, Requests
  <2>2. Revokes(h) \in SUBSET JWTs
    BY DEF Revokes, TypeOK
  <2>3. [srv EXCEPT !.token = hand[h].token] \in Rows
    BY <2>1 DEF TypeOK, Rows
  <2>4. [hand EXCEPT ![h] = Answer(@.method, @.token, @.hmac)] \in [Handlers -> Requests]
    BY <2>1, RecordTypes DEF TypeOK
  <2>5. claims' \in [RegTokens -> Nat]
    <3>1. claims' = claims \/ claims' = [claims EXCEPT ![hand[h].cfg.reg] = @ + 1]
      BY <1>e DEF UpdatePeer
    <3> QED
      BY <3>1 DEF TypeOK
  <2>6. live' \subseteq JWTs
    BY <1>e DEF TypeOK, FreshInv, UpdatePeer
  <2> QED
    BY <1>e, <2>2, <2>3, <2>4, <2>5, <2>6, BuryType DEF TypeOK, UpdatePeer
<1>f. ASSUME NEW h \in Handlers, HandlerFails(h) PROVE TypeOK'
  BY <1>f, RecordTypes DEF TypeOK, HandlerFails, Fault, agentVars
<1>g. ASSUME NEW h \in Handlers, Unread(h) PROVE TypeOK'
  BY <1>g, RecordTypes DEF TypeOK, Unread, agentVars
<1>h. CASE StartRegister
  <2>1. [Free EXCEPT !.pc = "new", !.cfg = mem] \in Requests
    BY RecordTypes DEF TypeOK, Requests
  <2>2. hand' \in [Handlers -> Requests]
    BY <1>h, <2>1 DEF TypeOK, StartRegister
  <2>3. reg' \in [pc : {"idle", "sent", "save", "swap"}, h : Handlers \cup {"none"}, cfg : Configs]
    BY <1>h DEF TypeOK, StartRegister
  <2> QED
    BY <1>h, <2>2, <2>3 DEF TypeOK, StartRegister
<1>i. CASE ReceiveReply
  <2>1. hand' \in [Handlers -> Requests]
    BY <1>i, RecordTypes DEF TypeOK, ReceiveReply
  <2>2. reg.h \in Handlers
    BY <1>i DEF RequestInv, ReceiveReply
  <2>3. reg' \in [pc : {"idle", "sent", "save", "swap"}, h : Handlers \cup {"none"}, cfg : Configs]
    <3>1. hand[reg.h].token \in Tokens /\ hand[reg.h].hmac \in Keys
      BY <2>2 DEF TypeOK, Requests
    <3>2. reg.cfg.agentKey \in BOOLEAN
      BY DEF TypeOK, Configs
    <3>3. Registered(reg.cfg, hand[reg.h].token, hand[reg.h].hmac,
                     hand[reg.h].method \in {"hmac_proof", "registration_token"}) \in Configs
      BY <3>1, <3>2 DEF Registered, Configs
    <3> QED
      BY <1>i, <3>3 DEF ReceiveReply
  <2> QED
    BY <1>i, <2>1, <2>3 DEF TypeOK, ReceiveReply
<1>j. CASE RegisterFails
  <2>1. hand' \in [Handlers -> Requests]
    BY <1>j, RecordTypes DEF TypeOK, RegisterFails
  <2> QED
    BY <1>j, <2>1, RecordTypes DEF TypeOK, RegisterFails, Fault
<1>k. CASE SaveRegistered
  BY <1>k DEF TypeOK, SaveRegistered, Fault
<1>l. CASE SwapConfig
  BY <1>l, RecordTypes DEF TypeOK, SwapConfig
<1>m. CASE RotatePeerKey
  <2>1. srv.hmac + 1 \in Keys /\ srv.hmac + 1 \in 0..MaxRotations
    BY <1>m DEF TypeOK, RotatePeerKey, Rows, Keys, NoKey
  <2>2. \A k \in Keys : k \in 0..MaxRotations => [srv EXCEPT !.hmac = k, !.rot = k, !.age = 0] \in Rows
    BY DEF TypeOK, Rows
  <2>3. srv' \in Rows
    BY <1>m, <2>1, <2>2 DEF RotatePeerKey
  <2> QED
    BY <1>m, <2>3 DEF TypeOK, RotatePeerKey, agentVars
<1>n. CASE Age
  BY <1>n DEF TypeOK, Age, Rows, agentVars
<1>o. CASE CheckRotation
  <2>1. /\ mem.token \in Tokens /\ srv.rot \in Keys
    BY DEF TypeOK, Configs, Rows, Keys, NoKey
  <2>2. rot' \in [state : {"idle", "fallback", "retrieve", "test", "confirm", "store", "save"},
                  jwt : Tokens, num : Keys, cfg : Configs]
    BY <1>o, <2>1, RecordTypes DEF CheckRotation
  <2> QED
    BY <1>o, <2>2 DEF TypeOK, CheckRotation
<1>p. CASE RetrieveKey
  <2>1. srv.hmac \in Keys
    BY DEF TypeOK, Rows
  <2>2. rot' \in [state : {"idle", "fallback", "retrieve", "test", "confirm", "store", "save"},
                  jwt : Tokens, num : Keys, cfg : Configs]
    BY <1>p, <2>1, RecordTypes DEF TypeOK, RetrieveKey
  <2>3. srv' \in Rows
    BY <1>p DEF TypeOK, RetrieveKey, Rows
  <2> QED
    BY <1>p, <2>2, <2>3 DEF TypeOK, RetrieveKey, Fails, Fault
<1>q. CASE TestKey
  <2>1. rot' \in [state : {"idle", "fallback", "retrieve", "test", "confirm", "store", "save"},
                  jwt : Tokens, num : Keys, cfg : Configs]
    BY <1>q, RecordTypes DEF TypeOK, TestKey
  <2> QED
    BY <1>q, <2>1 DEF TypeOK, TestKey, Fails, Fault
<1>r. CASE ConfirmRotation
  <2>1. rot' \in [state : {"idle", "fallback", "retrieve", "test", "confirm", "store", "save"},
                  jwt : Tokens, num : Keys, cfg : Configs]
    BY <1>r, RecordTypes DEF TypeOK, ConfirmRotation
  <2> QED
    BY <1>r, <2>1 DEF TypeOK, ConfirmRotation, Fails, Fault
<1>s. CASE StoreKey
  <2>1. mem' \in Configs
    BY <1>s DEF TypeOK, StoreKey, Configs
  <2>2. rot' \in [state : {"idle", "fallback", "retrieve", "test", "confirm", "store", "save"},
                  jwt : Tokens, num : Keys, cfg : Configs]
    BY <1>s, <2>1, RecordTypes DEF StoreKey
  <2> QED
    BY <1>s, <2>1, <2>2 DEF TypeOK, StoreKey
<1>t. CASE SaveKey
  BY <1>t, RecordTypes DEF TypeOK, SaveKey, Fault
<1>u. CASE Restart
  BY <1>u, RecordTypes DEF TypeOK, Restart
<1>v. ASSUME NEW t \in JWTs, Expire(t) PROVE TypeOK'
  <2>1. {t} \in SUBSET JWTs
    OBVIOUS
  <2> QED
    BY <1>v, BuryType DEF TypeOK, Expire
<1>w. ASSUME NEW t \in RegTokens, RevokeRegistrationToken(t) PROVE TypeOK'
  BY <1>w DEF TypeOK, RevokeRegistrationToken, agentVars
<1>x. CASE UNCHANGED vars
  BY <1>x DEF TypeOK, vars
<1> QED
  BY <1>a, <1>b, <1>c, <1>d, <1>e, <1>f, <1>g, <1>h, <1>i, <1>j, <1>k, <1>l,
     <1>m, <1>n, <1>o, <1>p, <1>q, <1>r, <1>s, <1>t, <1>u, <1>v, <1>w, <1>x
  DEF Next, AgentNext, RotationNext, HandlerNext

-----------------------------------------------------------------------------
(* What the end of some tokens leaves of the requests, of the agent's      *)
(* copies of its configuration and of the row.                             *)
LEMMA BuryHand ==
  ASSUME TypeOK, NEW ts \in SUBSET JWTs, NEW s \in Rows,
         NEW hs \in [Handlers -> Requests], Bury(ts, s, hs), NEW h \in Handlers
  PROVE  /\ hand'[h].pc = hs[h].pc /\ hand'[h].method = hs[h].method
         /\ hand'[h].hmac = hs[h].hmac
         /\ hand'[h].cfg = Buried(ts, hs[h].cfg) /\ hand'[h].cfg.reg = hs[h].cfg.reg
         /\ hand'[h].token = Dead(ts, hs[h].token) /\ hand'[h].old = Dead(ts, hs[h].old)
<1>1. hs[h] \in Requests /\ hand'[h] = BuriedRequest(ts, hs[h])
  BY DEF Bury
<1> QED
  BY <1>1, RequestBuried

(* The end of tokens changes tokens only.                                  *)
LEMMA BuryCopies ==
  ASSUME TypeOK, NEW ts \in SUBSET JWTs, NEW s \in Rows,
         NEW hs \in [Handlers -> Requests], Bury(ts, s, hs)
  PROVE  /\ mem'.hmac = mem.hmac /\ mem'.agentKey = mem.agentKey
         /\ disk'.hmac = disk.hmac /\ disk'.agentKey = disk.agentKey
         /\ reg'.cfg = Buried(ts, reg.cfg)
         /\ reg'.cfg.hmac = reg.cfg.hmac /\ reg'.cfg.agentKey = reg.cfg.agentKey
         /\ rot'.cfg.hmac = rot.cfg.hmac /\ rot'.cfg.agentKey = rot.cfg.agentKey
         /\ mem'.token = "none" <=> mem.token = "none"
         /\ disk'.token = "none" <=> disk.token = "none"
         /\ reg'.cfg.token = "none" <=> reg.cfg.token = "none"
         /\ rot'.cfg.token = "none" <=> rot.cfg.token = "none"
         /\ reg'.pc = reg.pc /\ reg'.h = reg.h /\ rot'.state = rot.state
<1>1. mem \in Configs /\ disk \in Configs /\ reg.cfg \in Configs /\ rot.cfg \in Configs
  BY DEF TypeOK
<1>2. /\ mem' = Buried(ts, mem) /\ disk' = Buried(ts, disk)
      /\ reg'.cfg = Buried(ts, reg.cfg) /\ rot'.cfg = Buried(ts, rot.cfg)
      /\ reg'.pc = reg.pc /\ reg'.h = reg.h /\ rot'.state = rot.state
  BY DEF TypeOK, Bury
<1> QED
  BY <1>1, <1>2, BuriedConfig

(* The row after the end of tokens.                                        *)
LEMMA BuryRow ==
  ASSUME NEW ts, NEW s \in Rows, NEW hs, Bury(ts, s, hs)
  PROVE  /\ srv'.peer = s.peer /\ srv'.hmac = s.hmac /\ srv'.rot = s.rot
         /\ srv'.token = Dead(ts, s.token)
  BY DEF Bury, Rows

(* The update of a re-registration: the row and the requests before the    *)
(* superseded token is buried.                                             *)
Updated(h) == [srv EXCEPT !.token = hand[h].token]
Answered(h) == [hand EXCEPT ![h] = Answer(@.method, @.token, @.hmac)]

(* What a re-registration writes, as a row and requests.                   *)
LEMMA UpdateEffect ==
  ASSUME TypeOK, NEW h \in Handlers, UpdatePeer(h)
  PROVE  /\ Revokes(h) \in SUBSET JWTs /\ Updated(h) \in Rows
         /\ Answered(h) \in [Handlers -> Requests]
         /\ Bury(Revokes(h), Updated(h), Answered(h))
         /\ Answered(h)[h] = Answer(hand[h].method, hand[h].token, hand[h].hmac)
         /\ \A g \in Handlers \ {h} : Answered(h)[g] = hand[g]
         /\ Updated(h).peer = srv.peer /\ Updated(h).hmac = srv.hmac
         /\ Updated(h).rot = srv.rot /\ Updated(h).token = hand[h].token
<1>1. /\ hand[h].token \in Tokens /\ hand[h].hmac \in Keys
      /\ hand[h].method \in {"none", "bearer", "agent_key", "hmac_proof", "registration_token"}
  BY DEF TypeOK, Requests
<1>2. Revokes(h) \in SUBSET JWTs
  BY DEF Revokes, TypeOK
<1>3. /\ Updated(h) \in Rows
      /\ Updated(h).peer = srv.peer /\ Updated(h).hmac = srv.hmac
      /\ Updated(h).rot = srv.rot /\ Updated(h).token = hand[h].token
  BY <1>1 DEF TypeOK, Rows, Updated
<1>4. /\ Answered(h) \in [Handlers -> Requests]
      /\ Answered(h)[h] = Answer(hand[h].method, hand[h].token, hand[h].hmac)
      /\ \A g \in Handlers \ {h} : Answered(h)[g] = hand[g]
  BY <1>1, RecordTypes DEF TypeOK, Answered
<1>5. Bury(Revokes(h), Updated(h), Answered(h))
  BY DEF UpdatePeer, Updated, Answered
<1> QED
  BY <1>2, <1>3, <1>4, <1>5

-----------------------------------------------------------------------------
(* TokenInv survives a step that neither spends nor claims a token and     *)
(* makes no request a holder.                                              *)
LEMMA HoldersShrink ==
  ASSUME TypeOK, TokenInv, regtok' = regtok, claims' = claims,
         \A h \in Handlers, t \in RegTokens : Holds(h, t)' => Holds(h, t)
  PROVE  TokenInv'
  BY DEF TokenInv

(* ... and one in which request h consumes the unused token r.             *)
LEMMA HolderAdded ==
  ASSUME TypeOK, TokenInv, NEW h \in Handlers, NEW r \in RegTokens, regtok[r] = "unused",
         regtok' = [regtok EXCEPT ![r] = "used"], claims' = claims,
         \A g \in Handlers, t \in RegTokens : Holds(g, t)' => Holds(g, t) \/ (g = h /\ t = r)
  PROVE  TokenInv'
<1>1. regtok'[r] = "used" /\ \A t \in RegTokens \ {r} : regtok'[t] = regtok[t]
  BY DEF TypeOK
<1>2. claims[r] = 0 /\ \A g \in Handlers : ~Holds(g, r)
  BY DEF TokenInv
<1> QED
  BY <1>1, <1>2 DEF TokenInv

(* ... and one in which request h registers with the token r it consumed.  *)
LEMMA HolderDone ==
  ASSUME TypeOK, TokenInv, NEW h \in Handlers, NEW r \in RegTokens, Holds(h, r),
         regtok' = regtok, claims' = [claims EXCEPT ![r] = @ + 1],
         \A g \in Handlers, t \in RegTokens : Holds(g, t)' => Holds(g, t) /\ g # h
  PROVE  TokenInv'
<1>1. claims[r] = 0 /\ regtok[r] = "used" /\ \A g \in Handlers \ {h} : ~Holds(g, r)
  BY DEF TokenInv
<1>2. claims'[r] = 1 /\ \A t \in RegTokens \ {r} : claims'[t] = claims[t]
  BY <1>1 DEF TypeOK
<1> QED
  BY <1>1, <1>2 DEF TokenInv

(* Every step keeps TokenInv.                                              *)
LEMMA StepTokenInv == IInv /\ [Next]_vars => TokenInv'
<1> SUFFICES ASSUME IInv, [Next]_vars PROVE TokenInv'
  OBVIOUS
<1> USE IdentityAssumption
<1>0. TypeOK /\ TokenInv /\ RequestInv
  BY DEF IInv
<1>1. \A h \in Handlers : hand[h].cfg.reg \in RegTokens \cup {"none"}
  BY <1>0 DEF TypeOK, Requests, Configs
<1>2. ASSUME NEW h \in Handlers, NEW r, hand' = [hand EXCEPT ![h] = r],
             r.pc \in {"free", "denied", "new", "claim", "ok"},
             regtok' = regtok, claims' = claims
      PROVE  TokenInv'
  <2>1. \A g \in Handlers, t \in RegTokens : Holds(g, t)' => Holds(g, t)
    BY <1>0, <1>2 DEF TypeOK, Holds
  <2> QED
    BY <1>0, <1>2, <2>1, HoldersShrink
<1>3. Free.pc = "free" /\ Denied.pc = "denied" /\ \A m, t, k : Answer(m, t, k).pc = "ok"
  BY DEF Free, Denied, Answer
<1>a. ASSUME NEW h \in Handlers, Authorize(h) PROVE TokenInv'
  <2>0. hand[h] \in Requests /\ hand[h].pc = "new" /\ claims' = claims
    BY <1>0, <1>a DEF TypeOK, Authorize
  <2>1. CASE ~srv.peer /\ Usable(hand[h].cfg.reg)
    <3>1. hand' = [hand EXCEPT ![h] = [@ EXCEPT !.pc = "insert"]]
      BY <1>a, <2>1 DEF Authorize
    <3>2. PICK r \in RegTokens : r = hand[h].cfg.reg /\ regtok[r] = "unused"
      BY <1>1, <2>1 DEF Usable
    <3>3. regtok' = [regtok EXCEPT ![r] = "used"]
      BY <1>a, <2>1, <3>2 DEF Authorize
    <3>4. hand'[h].cfg = hand[h].cfg /\ \A g \in Handlers \ {h} : hand'[g] = hand[g]
      BY <1>0, <2>0, <3>1 DEF TypeOK, Requests
    <3>5. \A g \in Handlers, t \in RegTokens : Holds(g, t)' => Holds(g, t) \/ (g = h /\ t = r)
      BY <3>2, <3>4 DEF Holds
    <3> QED
      BY <1>0, <2>0, <3>2, <3>3, <3>5, HolderAdded
  <2>2. CASE ~srv.peer /\ ~Usable(hand[h].cfg.reg)
    BY <1>2, <1>3, <1>a, <2>0, <2>2 DEF Authorize
  <2>3. CASE srv.peer
    <3>1. regtok' = regtok
      BY <1>a, <2>3 DEF Authorize
    <3>2. CASE Method(hand[h].cfg) = "none"
      <4>1. hand' = [hand EXCEPT ![h] = Denied]
        BY <1>a, <2>3, <3>2 DEF Authorize
      <4> QED
        BY <1>2, <1>3, <2>0, <3>1, <4>1
    <3>3. CASE Method(hand[h].cfg) = "registration_token"
      <4>1. hand' = [hand EXCEPT ![h] = [hand[h] EXCEPT !.pc = "claim", !.method = "registration_token"]]
        BY <1>0, <1>a, <2>3, <3>3 DEF Authorize, TypeOK
      <4>2. [hand[h] EXCEPT !.pc = "claim", !.method = "registration_token"].pc = "claim"
        BY <2>0 DEF Requests
      <4> QED
        BY <1>2, <2>0, <3>1, <4>1, <4>2
    <3>4. CASE Method(hand[h].cfg) \notin {"none", "registration_token"}
      <4>1. PICK m : m = Method(hand[h].cfg)
        OBVIOUS
      <4>2. hand' = [hand EXCEPT ![h] = [@ EXCEPT !.pc = "read", !.method = m]]
        BY <1>a, <2>3, <3>4, <4>1 DEF Authorize
      <4>3. hand'[h].method = m /\ \A g \in Handlers \ {h} : hand'[g] = hand[g]
        BY <1>0, <2>0, <4>2 DEF TypeOK, Requests
      <4>4. hand'[h].pc = "read"
        BY <1>0, <2>0, <4>2 DEF TypeOK, Requests
      <4>5. \A g \in Handlers, t \in RegTokens : Holds(g, t)' => Holds(g, t)
        BY <3>4, <4>1, <4>3, <4>4 DEF Holds
      <4> QED
        BY <1>0, <2>0, <3>1, <4>5, HoldersShrink
    <3> QED
      BY <3>2, <3>3, <3>4
  <2> QED
    BY <2>1, <2>2, <2>3
<1>b. ASSUME NEW h \in Handlers, InsertPeer(h) PROVE TokenInv'
  <2>1. CASE srv.peer
    BY <1>2, <1>3, <1>b, <2>1 DEF InsertPeer
  <2>2. CASE ~srv.peer
    <3>1. /\ hand' = [hand EXCEPT ![h] = Answer("registration_token", Fresh, 0)]
          /\ claims' = [claims EXCEPT ![hand[h].cfg.reg] = @ + 1]
          /\ regtok' = regtok /\ hand[h].pc = "insert"
      BY <1>b, <2>2 DEF InsertPeer
    <3>2. hand'[h].pc = "ok" /\ \A g \in Handlers \ {h} : hand'[g] = hand[g]
      BY <1>0, <1>3, <3>1 DEF TypeOK
    <3>3. \A g \in Handlers, t \in RegTokens : Holds(g, t)' => Holds(g, t) /\ g # h
      BY <3>2 DEF Holds
    <3>4. CASE hand[h].cfg.reg \in RegTokens
      <4>1. Holds(h, hand[h].cfg.reg)
        BY <3>1 DEF Holds
      <4> QED
        BY <1>0, <3>1, <3>3, <3>4, <4>1, HolderDone
    <3>5. CASE hand[h].cfg.reg \notin RegTokens
      <4>1. claims' = claims
        BY <1>0, <3>1, <3>5 DEF TypeOK
      <4> QED
        BY <1>0, <3>1, <3>3, <4>1, HoldersShrink
    <3> QED
      BY <3>4, <3>5
  <2> QED
    BY <2>1, <2>2
<1>c. ASSUME NEW h \in Handlers, Claim(h) PROVE TokenInv'
  <2>0. hand[h] \in Requests /\ hand[h].pc = "claim" /\ claims' = claims
    BY <1>0, <1>c DEF TypeOK, Claim
  <2>1. CASE Usable(hand[h].cfg.reg)
    <3>1. hand' = [hand EXCEPT ![h].pc = "read"]
      BY <1>c, <2>1 DEF Claim
    <3>2. PICK r \in RegTokens : r = hand[h].cfg.reg /\ regtok[r] = "unused"
      BY <1>1, <2>1 DEF Usable
    <3>3. regtok' = [regtok EXCEPT ![r] = "used"]
      BY <1>c, <2>1, <3>2 DEF Claim
    <3>4. hand'[h].cfg = hand[h].cfg /\ \A g \in Handlers \ {h} : hand'[g] = hand[g]
      BY <1>0, <2>0, <3>1 DEF TypeOK, Requests
    <3>5. \A g \in Handlers, t \in RegTokens : Holds(g, t)' => Holds(g, t) \/ (g = h /\ t = r)
      BY <3>2, <3>4 DEF Holds
    <3> QED
      BY <1>0, <2>0, <3>2, <3>3, <3>5, HolderAdded
  <2>2. CASE ~Usable(hand[h].cfg.reg)
    BY <1>2, <1>3, <1>c, <2>0, <2>2 DEF Claim
  <2> QED
    BY <2>1, <2>2
<1>d. ASSUME NEW h \in Handlers, ReadPeer(h) PROVE TokenInv'
  <2>1. /\ hand[h].pc = "read" /\ hand'[h].cfg = hand[h].cfg /\ hand'[h].method = hand[h].method
        /\ \A g \in Handlers \ {h} : hand'[g] = hand[g]
    BY <1>0, <1>d DEF TypeOK, Requests, ReadPeer
  <2>2. \A g \in Handlers, t \in RegTokens : Holds(g, t)' => Holds(g, t)
    <3>1. hand'[h].pc = "update"
      BY <1>0, <1>d DEF TypeOK, Requests, ReadPeer
    <3> QED
      BY <2>1, <3>1 DEF Holds
  <2> QED
    BY <1>0, <1>d, <2>2, HoldersShrink DEF ReadPeer
<1>e. ASSUME NEW h \in Handlers, UpdatePeer(h) PROVE TokenInv'
  <2>1. /\ hand[h].pc = "update" /\ hand'[h].pc = "ok" /\ regtok' = regtok
        /\ \A g \in Handlers \ {h} : hand'[g].pc = hand[g].pc /\ hand'[g].method = hand[g].method
                                   /\ hand'[g].cfg.reg = hand[g].cfg.reg
    <3>1. Answered(h)[h].pc = "ok" /\ \A g \in Handlers \ {h} : Answered(h)[g] = hand[g]
      BY <1>0, <1>3, <1>e, UpdateEffect
    <3>2. \A g \in Handlers : /\ hand'[g].pc = Answered(h)[g].pc
                             /\ hand'[g].method = Answered(h)[g].method
                             /\ hand'[g].cfg.reg = Answered(h)[g].cfg.reg
      <4>1. /\ Revokes(h) \in SUBSET JWTs /\ Updated(h) \in Rows
            /\ Answered(h) \in [Handlers -> Requests]
            /\ Bury(Revokes(h), Updated(h), Answered(h))
        BY <1>0, <1>e, UpdateEffect
      <4>2. PICK ts \in SUBSET JWTs, s \in Rows, hs \in [Handlers -> Requests] :
              hs = Answered(h) /\ Bury(ts, s, hs)
        BY <4>1
      <4>3. ASSUME NEW g \in Handlers
            PROVE  /\ hand'[g].pc = hs[g].pc /\ hand'[g].method = hs[g].method
                   /\ hand'[g].cfg.reg = hs[g].cfg.reg
        BY <4>2, <1>0, BuryHand
      <4> QED
        BY <4>2, <4>3
    <3>3. hand[h].pc = "update" /\ regtok' = regtok
      BY <1>e DEF UpdatePeer
    <3> QED
      BY <3>1, <3>2, <3>3
  <2>2. \A g \in Handlers, t \in RegTokens : Holds(g, t)' => Holds(g, t) /\ g # h
    BY <2>1 DEF Holds
  <2>3. CASE hand[h].method = "registration_token" /\ hand[h].cfg.reg \in RegTokens
    <3>1. Holds(h, hand[h].cfg.reg)
      BY <2>1, <2>3 DEF Holds
    <3>2. claims' = [claims EXCEPT ![hand[h].cfg.reg] = @ + 1]
      BY <1>e, <2>3 DEF UpdatePeer
    <3> QED
      BY <1>0, <2>1, <2>2, <2>3, <3>1, <3>2, HolderDone
  <2>4. CASE ~(hand[h].method = "registration_token" /\ hand[h].cfg.reg \in RegTokens)
    <3>1. claims' = claims
      BY <1>0, <1>e, <2>4 DEF TypeOK, UpdatePeer
    <3> QED
      BY <1>0, <2>1, <2>2, <3>1, HoldersShrink
  <2> QED
    BY <2>3, <2>4
<1>f. ASSUME NEW h \in Handlers, HandlerFails(h) PROVE TokenInv'
  BY <1>2, <1>3, <1>f DEF HandlerFails
<1>g. ASSUME NEW h \in Handlers, Unread(h) PROVE TokenInv'
  BY <1>2, <1>3, <1>g DEF Unread
<1>h. CASE StartRegister
  <2>1. [Free EXCEPT !.pc = "new", !.cfg = mem].pc = "new"
    BY DEF Free
  <2>2. PICK h \in Handlers : hand' = [hand EXCEPT ![h] = [Free EXCEPT !.pc = "new", !.cfg = mem]]
    BY <1>h DEF StartRegister
  <2> QED
    BY <1>2, <1>h, <2>1, <2>2 DEF StartRegister
<1>i. CASE ReceiveReply \/ RegisterFails
  <2>1. /\ reg.h \in Handlers /\ hand' = [hand EXCEPT ![reg.h] = Free]
        /\ regtok' = regtok /\ claims' = claims
    BY <1>0, <1>i DEF ReceiveReply, RegisterFails, RequestInv
  <2> QED
    BY <1>2, <1>3, <2>1
<1>v. ASSUME NEW t \in JWTs, Expire(t) PROVE TokenInv'
  <2>1. /\ {t} \in SUBSET JWTs /\ srv \in Rows /\ hand \in [Handlers -> Requests]
        /\ Bury({t}, srv, hand) /\ regtok' = regtok /\ claims' = claims
    BY <1>0, <1>v DEF TypeOK, Expire
  <2>2. \A g \in Handlers : hand'[g].pc = hand[g].pc /\ hand'[g].method = hand[g].method
                           /\ hand'[g].cfg.reg = hand[g].cfg.reg
    BY <1>0, <2>1, BuryHand
  <2>3. \A g \in Handlers, r \in RegTokens : Holds(g, r)' => Holds(g, r)
    BY <2>2 DEF Holds
  <2> QED
    BY <1>0, <2>1, <2>3, HoldersShrink
<1>w. ASSUME NEW t \in RegTokens, RevokeRegistrationToken(t) PROVE TokenInv'
  <2>1. \A g \in Handlers, r \in RegTokens : Holds(g, r)' <=> Holds(g, r)
    BY <1>w DEF RevokeRegistrationToken, Holds
  <2>2. \A r \in RegTokens : regtok'[r] # "used" => regtok[r] # "used"
    BY <1>0, <1>w DEF TypeOK, RevokeRegistrationToken
  <2> QED
    BY <1>0, <1>w, <2>1, <2>2 DEF TokenInv, RevokeRegistrationToken
<1>x. CASE UNCHANGED <<hand, regtok, claims>>
  <2>1. \A g \in Handlers, r \in RegTokens : Holds(g, r)' => Holds(g, r)
    BY <1>x DEF Holds
  <2> QED
    BY <1>0, <1>x, <2>1, HoldersShrink
<1> QED
  BY <1>a, <1>b, <1>c, <1>d, <1>e, <1>f, <1>g, <1>h, <1>i, <1>v, <1>w, <1>x
  DEF Next, AgentNext, RotationNext, HandlerNext, vars, SaveRegistered, SwapConfig,
      RotatePeerKey, Age, CheckRotation, RetrieveKey, TestKey, ConfirmRotation,
      StoreKey, SaveKey, Restart

-----------------------------------------------------------------------------
(* The fields of the records that requests are set to.                     *)
LEMMA RecordFields ==
  /\ Free.pc = "free" /\ Free.token = "none"
  /\ Denied.pc = "denied" /\ Denied.token = "none"
  /\ \A m, t, k : /\ Answer(m, t, k).pc = "ok" /\ Answer(m, t, k).method = m
                  /\ Answer(m, t, k).token = t /\ Answer(m, t, k).hmac = k
  /\ NoReg.pc = "idle" /\ NoReg.h = "none" /\ NoReg.cfg.token = "none"
  /\ \A s : NoRot(s).state = s /\ NoRot(s).cfg.token = "none"
  BY DEF Free, Denied, Answer, NoReg, NoRot, Blank

(* What authorizeReRegistration, or the check of a new host's token, makes *)
(* of a request.                                                           *)
LEMMA AuthorizeEffect ==
  ASSUME TypeOK, NEW h \in Handlers, Authorize(h)
  PROVE  /\ hand[h].pc = "new" /\ \A g \in Handlers \ {h} : hand'[g] = hand[g]
         /\ \/ hand' = [hand EXCEPT ![h] = Denied]
            \/ /\ hand'[h].token = hand[h].token /\ hand'[h].cfg = hand[h].cfg
               /\ \/ hand'[h].pc = "insert"
                  \/ hand'[h].pc = "claim" /\ srv.peer /\ hand'[h].method = "registration_token"
                  \/ /\ hand'[h].pc = "read" /\ srv.peer
                     /\ hand'[h].method = Method(hand[h].cfg) /\ hand'[h].method # "none"
<1>0. hand[h] \in Requests /\ hand[h].pc = "new"
  BY DEF TypeOK, Authorize
<1>1. CASE ~srv.peer /\ Usable(hand[h].cfg.reg)
  <2>1. hand' = [hand EXCEPT ![h] = [@ EXCEPT !.pc = "insert"]]
    BY <1>1 DEF Authorize
  <2> QED
    BY <1>0, <2>1 DEF TypeOK, Requests
<1>2. CASE ~srv.peer /\ ~Usable(hand[h].cfg.reg)
  BY <1>0, <1>2 DEF TypeOK, Authorize
<1>3. CASE srv.peer
  <2>1. PICK m : m = Method(hand[h].cfg)
    OBVIOUS
  <2>2. CASE m = "none"
    BY <1>0, <1>3, <2>1, <2>2 DEF TypeOK, Authorize
  <2>3. CASE m = "registration_token"
    <3>1. hand' = [hand EXCEPT ![h] = [@ EXCEPT !.pc = "claim", !.method = m]]
      BY <1>3, <2>1, <2>3 DEF Authorize
    <3> QED
      BY <1>0, <1>3, <2>3, <3>1 DEF TypeOK, Requests
  <2>4. CASE m \notin {"none", "registration_token"}
    <3>1. hand' = [hand EXCEPT ![h] = [@ EXCEPT !.pc = "read", !.method = m]]
      BY <1>3, <2>1, <2>4 DEF Authorize
    <3> QED
      BY <1>0, <1>3, <2>1, <2>4, <3>1 DEF TypeOK, Requests
  <2> QED
    BY <2>2, <2>3, <2>4
<1> QED
  BY <1>0, <1>1, <1>2, <1>3

(* What a re-registration has read.                                        *)
LEMMA ReadEffect ==
  ASSUME TypeOK, NEW h \in Handlers, ReadPeer(h)
  PROVE  /\ hand[h].pc = "read" /\ hand'[h].pc = "update"
         /\ hand'[h].cfg = hand[h].cfg /\ hand'[h].method = hand[h].method
         /\ hand'[h].token = Fresh /\ hand'[h].hmac = srv.hmac /\ hand'[h].old = srv.token
         /\ \A g \in Handlers \ {h} : hand'[g] = hand[g]
  BY DEF TypeOK, Requests, ReadPeer

(* A claim of a registration token is refused or goes on to the row.       *)
LEMMA ClaimEffect ==
  ASSUME TypeOK, NEW h \in Handlers, Claim(h)
  PROVE  /\ hand[h].pc = "claim" /\ \A g \in Handlers \ {h} : hand'[g] = hand[g]
         /\ \/ hand' = [hand EXCEPT ![h] = Denied]
            \/ /\ hand'[h].pc = "read" /\ hand'[h].cfg = hand[h].cfg
               /\ hand'[h].method = hand[h].method /\ hand'[h].token = hand[h].token
<1>1. CASE Usable(hand[h].cfg.reg)
  BY <1>1 DEF TypeOK, Requests, Claim
<1>2. CASE ~Usable(hand[h].cfg.reg)
  BY <1>2 DEF TypeOK, Claim
<1> QED
  BY <1>1, <1>2

(* The requests after an update of the row: h has its answer, and the      *)
(* superseded token is dead everywhere.                                    *)
LEMMA UpdateHand ==
  ASSUME TypeOK, NEW h \in Handlers, UpdatePeer(h)
  PROVE  /\ hand[h].pc = "update" /\ hand'[h].pc = "ok" /\ hand'[h].method = hand[h].method
         /\ hand'[h].hmac = hand[h].hmac /\ hand'[h].token = Dead(Revokes(h), hand[h].token)
         /\ \A g \in Handlers \ {h} :
              /\ hand'[g].pc = hand[g].pc /\ hand'[g].method = hand[g].method
              /\ hand'[g].hmac = hand[g].hmac /\ hand'[g].cfg = Buried(Revokes(h), hand[g].cfg)
              /\ hand'[g].token = Dead(Revokes(h), hand[g].token)
              /\ hand'[g].old = Dead(Revokes(h), hand[g].old)
<1>1. hand[h].pc = "update"
  BY DEF UpdatePeer
<1>2. \A g \in Handlers :
        /\ hand'[g].pc = Answered(h)[g].pc /\ hand'[g].method = Answered(h)[g].method
        /\ hand'[g].hmac = Answered(h)[g].hmac
        /\ hand'[g].cfg = Buried(Revokes(h), Answered(h)[g].cfg)
        /\ hand'[g].token = Dead(Revokes(h), Answered(h)[g].token)
        /\ hand'[g].old = Dead(Revokes(h), Answered(h)[g].old)
  <2>1. /\ Revokes(h) \in SUBSET JWTs /\ Updated(h) \in Rows
        /\ Answered(h) \in [Handlers -> Requests]
        /\ Bury(Revokes(h), Updated(h), Answered(h))
    BY UpdateEffect
  <2>2. PICK ts \in SUBSET JWTs, s \in Rows, hs \in [Handlers -> Requests] :
          ts = Revokes(h) /\ hs = Answered(h) /\ Bury(ts, s, hs)
    BY <2>1
  <2>3. ASSUME NEW g \in Handlers
        PROVE  /\ hand'[g].pc = hs[g].pc /\ hand'[g].method = hs[g].method
               /\ hand'[g].hmac = hs[g].hmac /\ hand'[g].cfg = Buried(ts, hs[g].cfg)
               /\ hand'[g].token = Dead(ts, hs[g].token) /\ hand'[g].old = Dead(ts, hs[g].old)
    <3>1. hs[g] \in Requests /\ hand'[g] = BuriedRequest(ts, hs[g])
      BY <2>2 DEF Bury
    <3> QED
      BY <3>1, RequestBuried
  <2> QED
    BY <2>2, <2>3
<1>3. /\ Answered(h)[h] = Answer(hand[h].method, hand[h].token, hand[h].hmac)
      /\ \A g \in Handlers \ {h} : Answered(h)[g] = hand[g]
  BY UpdateEffect
<1>4. /\ hand'[h].pc = "ok" /\ hand'[h].method = hand[h].method
      /\ hand'[h].hmac = hand[h].hmac /\ hand'[h].token = Dead(Revokes(h), hand[h].token)
  BY <1>2, <1>3, RecordFields
<1> QED
  BY <1>1, <1>2, <1>3, <1>4

(* The row and the copies after an update.                                 *)
LEMMA UpdateRow ==
  ASSUME TypeOK, NEW h \in Handlers, UpdatePeer(h)
  PROVE  /\ srv'.peer = srv.peer /\ srv'.hmac = srv.hmac /\ srv'.rot = srv.rot
         /\ srv'.token = Dead(Revokes(h), hand[h].token)
  BY UpdateEffect, BuryRow

(* The end of a token by age.                                              *)
LEMMA ExpireEffect ==
  ASSUME TypeOK, NEW t \in JWTs, Expire(t)
  PROVE  /\ {t} \in SUBSET JWTs /\ srv \in Rows /\ hand \in [Handlers -> Requests]
         /\ Bury({t}, srv, hand)
         /\ srv'.peer = srv.peer /\ srv'.hmac = srv.hmac /\ srv'.rot = srv.rot
         /\ srv'.token = Dead({t}, srv.token)
         /\ \A h \in Handlers :
              /\ hand'[h].pc = hand[h].pc /\ hand'[h].method = hand[h].method
              /\ hand'[h].hmac = hand[h].hmac /\ hand'[h].cfg = Buried({t}, hand[h].cfg)
              /\ hand'[h].token = Dead({t}, hand[h].token)
              /\ hand'[h].old = Dead({t}, hand[h].old)
<1>1. /\ {t} \in SUBSET JWTs /\ srv \in Rows /\ hand \in [Handlers -> Requests]
      /\ Bury({t}, srv, hand)
  BY DEF TypeOK, Expire
<1>2. PICK ts \in SUBSET JWTs, s \in Rows, hs \in [Handlers -> Requests] :
        ts = {t} /\ s = srv /\ hs = hand /\ Bury(ts, s, hs)
  BY <1>1
<1>3. srv'.peer = s.peer /\ srv'.hmac = s.hmac /\ srv'.rot = s.rot /\ srv'.token = Dead(ts, s.token)
  BY <1>2, BuryRow
<1>4. ASSUME NEW h \in Handlers
      PROVE  /\ hand'[h].pc = hs[h].pc /\ hand'[h].method = hs[h].method
             /\ hand'[h].hmac = hs[h].hmac /\ hand'[h].cfg = Buried(ts, hs[h].cfg)
             /\ hand'[h].token = Dead(ts, hs[h].token) /\ hand'[h].old = Dead(ts, hs[h].old)
  BY <1>2, BuryHand
<1> QED
  BY <1>1, <1>2, <1>3, <1>4

(* The row only ever gains a key, or a later one; the way the host started *)
(* is history.                                                             *)
LEMMA RowGrows ==
  ASSUME TypeOK, RowInv, [Next]_vars
  PROVE  /\ fleet' = fleet
         /\ srv.peer => srv'.peer
         /\ srv'.hmac = srv.hmac \/ srv'.hmac > 0 \/ (srv'.hmac = 0 /\ ~srv.peer /\ srv'.peer)
         /\ srv.hmac > 0 => srv'.hmac > 0
<1> USE IdentityAssumption
<1>1. fleet' = fleet
  BY DEF Next, AgentNext, RotationNext, HandlerNext, vars, Authorize, InsertPeer, Claim, ReadPeer,
         UpdatePeer, Unread, HandlerFails, StartRegister, ReceiveReply, RegisterFails,
         SaveRegistered, SwapConfig, RotatePeerKey, Age, CheckRotation, RetrieveKey, TestKey,
         ConfirmRotation, StoreKey, SaveKey, Restart, Expire, RevokeRegistrationToken
<1>2. srv.hmac \in Int /\ srv \in Rows
  BY DEF TypeOK, Rows, Keys, NoKey
<1>b. ASSUME NEW h \in Handlers, InsertPeer(h), ~srv.peer
      PROVE  srv'.hmac = 0 /\ srv'.peer /\ ~(srv.hmac > 0)
  <2>1. srv' = [srv EXCEPT !.peer = TRUE, !.hmac = 0, !.token = Fresh]
    BY <1>b DEF InsertPeer
  <2>2. srv'.hmac = 0
    BY <1>2, <2>1 DEF Rows
  <2>3. srv'.peer
    BY <1>2, <2>1 DEF Rows
  <2>4. srv.hmac = NoKey
    BY <1>b DEF RowInv
  <2> QED
    BY <2>2, <2>3, <2>4 DEF NoKey
<1>m. CASE RotatePeerKey
  <2>1. srv.peer /\ srv'.peer = srv.peer /\ srv'.hmac = srv.hmac + 1
    BY <1>2, <1>m DEF RotatePeerKey, Rows
  <2>2. srv.hmac >= 0
    BY <2>1 DEF TypeOK, RowInv, Rows, Keys, NoKey
  <2> QED
    BY <1>1, <1>2, <2>1, <2>2
<1>n. CASE Age
  <2>1. srv'.peer = srv.peer /\ srv'.hmac = srv.hmac
    BY <1>2, <1>n DEF Age, Rows
  <2> QED
    BY <1>1, <1>2, <2>1
<1>p. CASE RetrieveKey
  <2>1. srv'.peer = srv.peer /\ srv'.hmac = srv.hmac
    BY <1>2, <1>p DEF RetrieveKey, Rows
  <2> QED
    BY <1>1, <1>2, <2>1
<1>e. ASSUME NEW h \in Handlers, UpdatePeer(h) PROVE srv'.peer = srv.peer /\ srv'.hmac = srv.hmac
  BY <1>e, UpdateRow
<1>v. ASSUME NEW t \in JWTs, Expire(t) PROVE srv'.peer = srv.peer /\ srv'.hmac = srv.hmac
  BY <1>v, ExpireEffect
<1>x. CASE UNCHANGED srv
  BY <1>1, <1>x
<1> QED
  BY <1>1, <1>2, <1>b, <1>e, <1>m, <1>n, <1>p, <1>v, <1>x
  DEF Next, AgentNext, RotationNext, HandlerNext, vars, Authorize, InsertPeer, Claim, ReadPeer,
      Unread, HandlerFails, StartRegister, ReceiveReply, RegisterFails,
      SaveRegistered, SwapConfig, CheckRotation, TestKey,
      ConfirmRotation, StoreKey, SaveKey, Restart, RevokeRegistrationToken

-----------------------------------------------------------------------------
(* RowInv: only a registration makes the row, only a rotation sets the     *)
(* rotation token, and requests get past the authorisation of a            *)
(* re-registration only when there is a row.                               *)
LEMMA StepRowInv == IInv /\ [Next]_vars => RowInv'
<1> SUFFICES ASSUME IInv, [Next]_vars PROVE RowInv'
  OBVIOUS
<1> USE IdentityAssumption
<1>0. TypeOK /\ RowInv /\ RequestInv /\ srv \in Rows
  BY DEF IInv, TypeOK
<1>1. fleet' = fleet /\ (srv.peer => srv'.peer)
  BY <1>0, RowGrows
<1>2. ASSUME srv'.peer = srv.peer, srv'.hmac = srv.hmac, srv'.rot = srv.rot, live' \subseteq live,
             \A h \in Handlers : hand'[h].pc \in {"claim", "read", "update", "ok"} =>
                hand[h].pc \in {"claim", "read", "update", "ok"} \/ srv.peer
      PROVE  RowInv'
  BY <1>0, <1>1, <1>2 DEF RowInv
<1>3. ASSUME NEW h \in Handlers, NEW r, hand' = [hand EXCEPT ![h] = r],
             r.pc \in {"free", "denied", "new"}, srv' = srv, live' = live
      PROVE  RowInv'
  <2>1. \A g \in Handlers : hand'[g].pc \in {"claim", "read", "update", "ok"} =>
           hand[g].pc \in {"claim", "read", "update", "ok"}
    BY <1>0, <1>3 DEF TypeOK
  <2> QED
    BY <1>2, <1>3, <2>1
<1>a. ASSUME NEW h \in Handlers, Authorize(h) PROVE RowInv'
  <2>1. CASE hand' = [hand EXCEPT ![h] = Denied]
    BY <1>3, <1>a, <2>1, RecordFields DEF Authorize
  <2>2. CASE hand'[h].pc \in {"claim", "read"} => srv.peer
    <3>1. \A g \in Handlers : hand'[g].pc \in {"claim", "read", "update", "ok"} =>
            hand[g].pc \in {"claim", "read", "update", "ok"} \/ srv.peer
      BY <1>0, <1>a, <2>1, <2>2, AuthorizeEffect, RecordFields DEF TypeOK
    <3> QED
      BY <1>2, <1>a, <3>1 DEF Authorize
  <2> QED
    BY <1>0, <1>a, <2>1, <2>2, AuthorizeEffect
<1>b. ASSUME NEW h \in Handlers, InsertPeer(h) PROVE RowInv'
  <2>1. CASE srv.peer
    BY <1>3, <1>b, <2>1, RecordFields DEF InsertPeer
  <2>2. CASE ~srv.peer
    <3>1. srv' = [srv EXCEPT !.peer = TRUE, !.hmac = 0, !.token = Fresh]
      BY <1>b, <2>2 DEF InsertPeer
    <3>2. srv'.peer
      BY <1>0, <3>1 DEF Rows
    <3>3. srv'.hmac = 0 /\ srv'.rot = srv.rot
      BY <1>0, <3>1 DEF Rows
    <3>4. srv.rot = 0
      BY <1>0, <2>2 DEF RowInv, NoKey
    <3> QED
      BY <3>2, <3>3, <3>4 DEF RowInv, NoKey
  <2> QED
    BY <2>1, <2>2
<1>c. ASSUME NEW h \in Handlers, Claim(h) PROVE RowInv'
  <2>1. srv.peer
    BY <1>0, <1>c DEF RowInv, Claim
  <2> QED
    BY <1>2, <1>c, <2>1 DEF Claim
<1>d. ASSUME NEW h \in Handlers, ReadPeer(h) PROVE RowInv'
  <2>1. srv.peer
    BY <1>0, <1>d DEF RowInv, ReadPeer
  <2> QED
    BY <1>2, <1>d, <2>1 DEF ReadPeer
<1>e. ASSUME NEW h \in Handlers, UpdatePeer(h) PROVE RowInv'
  <2>1. srv.peer
    BY <1>0, <1>e DEF RowInv, UpdatePeer
  <2>2. srv'.peer = srv.peer /\ srv'.hmac = srv.hmac /\ srv'.rot = srv.rot
    BY <1>0, <1>e, UpdateRow
  <2> QED
    BY <1>0, <2>1, <2>2 DEF RowInv
<1>f. ASSUME NEW h \in Handlers, HandlerFails(h) PROVE RowInv'
  BY <1>3, <1>f, RecordFields DEF HandlerFails
<1>g. ASSUME NEW h \in Handlers, Unread(h) PROVE RowInv'
  BY <1>3, <1>g, RecordFields DEF Unread
<1>h. CASE StartRegister
  <2>1. PICK h \in Handlers : hand' = [hand EXCEPT ![h] = [Free EXCEPT !.pc = "new", !.cfg = mem]]
    BY <1>h DEF StartRegister
  <2>2. [Free EXCEPT !.pc = "new", !.cfg = mem].pc = "new"
    BY DEF Free
  <2> QED
    BY <1>3, <1>h, <2>1, <2>2 DEF StartRegister
<1>i. CASE ReceiveReply \/ RegisterFails
  <2>1. reg.h \in Handlers /\ hand' = [hand EXCEPT ![reg.h] = Free] /\ srv' = srv /\ live' = live
    BY <1>0, <1>i DEF ReceiveReply, RegisterFails, RequestInv
  <2> QED
    BY <1>3, <2>1, RecordFields
<1>m. CASE RotatePeerKey
  <2>1. srv.peer /\ srv.hmac \in Int /\ srv.hmac >= 0
    BY <1>0, <1>m DEF RotatePeerKey, RowInv, Rows, Keys, NoKey
  <2>2. srv'.hmac = srv.hmac + 1
    BY <1>0, <1>m DEF RotatePeerKey, Rows
  <2> QED
    BY <1>1, <2>1, <2>2 DEF RowInv, NoKey
<1>n. CASE Age
  <2>1. srv'.peer = srv.peer /\ srv'.hmac = srv.hmac /\ srv'.rot = srv.rot
    BY <1>0, <1>n DEF Age, Rows
  <2> QED
    BY <1>2, <1>n, <2>1 DEF Age
<1>p. CASE RetrieveKey
  <2>1. srv'.peer = srv.peer /\ srv'.hmac = srv.hmac /\ (srv'.rot = srv.rot \/ srv'.rot = 0)
    BY <1>0, <1>p DEF RetrieveKey, Rows
  <2> QED
    BY <1>0, <1>1, <1>p, <2>1 DEF RowInv, RetrieveKey
<1>v. ASSUME NEW t \in JWTs, Expire(t) PROVE RowInv'
  <2>1. /\ srv'.peer = srv.peer /\ srv'.hmac = srv.hmac /\ srv'.rot = srv.rot
        /\ \A h \in Handlers : hand'[h].pc = hand[h].pc
    BY <1>0, <1>v, ExpireEffect
  <2> QED
    BY <1>2, <1>v, <2>1 DEF Expire
<1>x. CASE UNCHANGED <<hand, srv, live>>
  BY <1>2, <1>x
<1> QED
  BY <1>a, <1>b, <1>c, <1>d, <1>e, <1>f, <1>g, <1>h, <1>i, <1>m, <1>n, <1>p, <1>v, <1>x
  DEF Next, AgentNext, RotationNext, HandlerNext, vars, SaveRegistered, SwapConfig,
      CheckRotation, TestKey, ConfirmRotation, StoreKey, SaveKey, Restart, RevokeRegistrationToken

(* FreshInv survives a step that issues no token and starts no update.     *)
LEMMA FreshKept ==
  ASSUME FreshInv, live' \subseteq live,
         \A h \in Handlers :
           /\ hand'[h].pc = "update" => hand[h].pc = "update" /\ hand'[h].token = hand[h].token
           /\ hand'[h].token \in {hand[h].token, "none", "dead"}
  PROVE  FreshInv'
  BY IdentityAssumption DEF FreshInv

(* Every step keeps FreshInv.                                              *)
LEMMA StepFreshInv == IInv /\ [Next]_vars => FreshInv'
<1> SUFFICES ASSUME IInv, [Next]_vars PROVE FreshInv'
  OBVIOUS
<1> USE IdentityAssumption
<1>0. TypeOK /\ RowInv /\ RequestInv /\ FreshInv /\ live \subseteq JWTs
  BY DEF IInv, TypeOK
<1>3. ASSUME NEW h \in Handlers, NEW r, hand' = [hand EXCEPT ![h] = r],
             r.pc # "update", r.token = "none", live' = live
      PROVE  FreshInv'
  <2>1. hand'[h] = r /\ \A g \in Handlers \ {h} : hand'[g] = hand[g]
    BY <1>0, <1>3 DEF TypeOK
  <2> QED
    BY <1>0, <1>3, <2>1, FreshKept
<1>a. ASSUME NEW h \in Handlers, Authorize(h) PROVE FreshInv'
  <2>1. CASE hand' = [hand EXCEPT ![h] = Denied]
    BY <1>3, <1>a, <2>1, RecordFields DEF Authorize
  <2>2. CASE hand'[h].token = hand[h].token /\ hand'[h].pc # "update"
    BY <1>0, <1>a, <2>2, AuthorizeEffect, FreshKept DEF Authorize
  <2> QED
    BY <1>0, <1>a, <2>1, <2>2, AuthorizeEffect
<1>b. ASSUME NEW h \in Handlers, InsertPeer(h) PROVE FreshInv'
  <2>1. CASE srv.peer
    BY <1>3, <1>b, <2>1, RecordFields DEF InsertPeer
  <2>2. CASE ~srv.peer
    <3>1. \A g \in Handlers : hand[g].pc # "update"
      BY <1>0, <2>2 DEF RowInv
    <3>2. \A g \in Handlers : hand'[g].pc # "update"
      BY <1>0, <1>b, <2>2, <3>1, RecordFields DEF TypeOK, InsertPeer
    <3> QED
      BY <3>2 DEF FreshInv
  <2> QED
    BY <2>1, <2>2
<1>c. ASSUME NEW h \in Handlers, Claim(h) PROVE FreshInv'
  <2>1. CASE hand' = [hand EXCEPT ![h] = Denied]
    BY <1>3, <1>c, <2>1, RecordFields DEF Claim
  <2>2. CASE hand'[h].token = hand[h].token /\ hand'[h].pc = "read"
    BY <1>0, <1>c, <2>2, ClaimEffect, FreshKept DEF Claim
  <2> QED
    BY <1>0, <1>c, <2>1, <2>2, ClaimEffect
<1>d. ASSUME NEW h \in Handlers, ReadPeer(h) PROVE FreshInv'
  <2>1. Fresh \in JWTs /\ Fresh \notin live /\ \A g \in Handlers : hand[g].token # Fresh
    BY <1>d, FreshToken DEF ReadPeer
  <2>2. hand'[h].token = Fresh /\ \A g \in Handlers \ {h} : hand'[g] = hand[g]
    BY <1>0, <1>d, ReadEffect
  <2>3. live' = live
    BY <1>d DEF ReadPeer
  <2> QED
    BY <1>0, <2>1, <2>2, <2>3 DEF FreshInv
<1>e. ASSUME NEW h \in Handlers, UpdatePeer(h) PROVE FreshInv'
  <2>1. live' = (live \ Revokes(h)) \cup {hand[h].token} /\ Revokes(h) \subseteq live
    BY <1>e DEF UpdatePeer, Revokes
  <2>2. /\ hand[h].pc = "update" /\ hand'[h].pc = "ok"
        /\ hand'[h].token = Dead(Revokes(h), hand[h].token)
        /\ \A g \in Handlers \ {h} : /\ hand'[g].pc = hand[g].pc
                                   /\ hand'[g].token = Dead(Revokes(h), hand[g].token)
    BY <1>0, <1>e, UpdateHand
  <2>3. \A g \in Handlers : hand[g].pc = "update" => Dead(Revokes(h), hand[g].token) = hand[g].token
    BY <1>0, <2>1 DEF FreshInv, Dead
  <2>4. \A g \in Handlers : Dead(Revokes(h), hand[g].token) \in {hand[g].token, "dead"}
    BY DEF Dead
  <2> QED
    BY <1>0, <2>1, <2>2, <2>3, <2>4 DEF FreshInv
<1>f. ASSUME NEW h \in Handlers, HandlerFails(h) PROVE FreshInv'
  BY <1>3, <1>f, RecordFields DEF HandlerFails
<1>g. ASSUME NEW h \in Handlers, Unread(h) PROVE FreshInv'
  BY <1>3, <1>g, RecordFields DEF Unread
<1>h. CASE StartRegister
  <2>1. PICK h \in Handlers : hand' = [hand EXCEPT ![h] = [Free EXCEPT !.pc = "new", !.cfg = mem]]
    BY <1>h DEF StartRegister
  <2>2. /\ [Free EXCEPT !.pc = "new", !.cfg = mem].pc = "new"
        /\ [Free EXCEPT !.pc = "new", !.cfg = mem].token = "none"
    BY DEF Free
  <2> QED
    BY <1>3, <1>h, <2>1, <2>2 DEF StartRegister
<1>i. CASE ReceiveReply \/ RegisterFails
  <2>1. reg.h \in Handlers /\ hand' = [hand EXCEPT ![reg.h] = Free] /\ live' = live
    BY <1>0, <1>i DEF ReceiveReply, RegisterFails, RequestInv
  <2> QED
    BY <1>3, <2>1, RecordFields
<1>v. ASSUME NEW t \in JWTs, Expire(t) PROVE FreshInv'
  <2>1. \A h \in Handlers : hand'[h].pc = hand[h].pc /\ hand'[h].token = Dead({t}, hand[h].token)
    BY <1>0, <1>v, ExpireEffect
  <2>2. t \in live /\ live' = live \ {t}
    BY <1>v DEF Expire
  <2>3. \A h \in Handlers :
          /\ hand[h].pc = "update" => hand'[h].token = hand[h].token
          /\ hand'[h].token \in {hand[h].token, "dead"}
    BY <1>0, <2>1, <2>2 DEF FreshInv, Dead
  <2> QED
    BY <1>0, <2>1, <2>2, <2>3, FreshKept
<1>x. CASE UNCHANGED <<hand, live>>
  BY <1>0, <1>x, FreshKept
<1> QED
  BY <1>a, <1>b, <1>c, <1>d, <1>e, <1>f, <1>g, <1>h, <1>i, <1>v, <1>x
  DEF Next, AgentNext, RotationNext, HandlerNext, vars, SaveRegistered, SwapConfig, RotatePeerKey, Age,
      RetrieveKey, CheckRotation, TestKey, ConfirmRotation, StoreKey, SaveKey, Restart,
      RevokeRegistrationToken

-----------------------------------------------------------------------------
(* LiveInv survives a step that accepts no new token and leaves the row's  *)
(* token and the readings of it alone.                                     *)
LEMMA LiveKept ==
  ASSUME LiveInv, overlapped' = overlapped, live' \subseteq live, srv'.token = srv.token,
         \A h \in Handlers : hand'[h].pc = "update" => hand[h].pc = "update" /\ hand'[h].old = hand[h].old
  PROVE  LiveInv'
  BY DEF LiveInv

(* LiveInv: a registration makes the first token; of re-registrations that *)
(* do not overlap each revokes the token that the one before it issued.    *)
LEMMA StepLiveInv == IInv /\ [Next]_vars => LiveInv'
<1> SUFFICES ASSUME IInv, [Next]_vars PROVE LiveInv'
  OBVIOUS
<1> USE IdentityAssumption
<1>0. TypeOK /\ RowInv /\ RequestInv /\ FreshInv /\ LiveInv /\ srv \in Rows
  BY DEF IInv, TypeOK
<1>3. ASSUME NEW h \in Handlers, NEW r, hand' = [hand EXCEPT ![h] = r],
             r.pc # "update", live' = live, srv' = srv, overlapped' = overlapped
      PROVE  LiveInv'
  <2>1. hand'[h] = r /\ \A g \in Handlers \ {h} : hand'[g] = hand[g]
    BY <1>0, <1>3 DEF TypeOK
  <2> QED
    BY <1>0, <1>3, <2>1, LiveKept
<1>a. ASSUME NEW h \in Handlers, Authorize(h) PROVE LiveInv'
  <2>1. CASE hand' = [hand EXCEPT ![h] = Denied]
    BY <1>3, <1>a, <2>1, RecordFields DEF Authorize
  <2>2. CASE hand'[h].pc # "update"
    BY <1>0, <1>a, <2>2, AuthorizeEffect, LiveKept DEF Authorize
  <2> QED
    BY <1>0, <1>a, <2>1, <2>2, AuthorizeEffect
<1>b. ASSUME NEW h \in Handlers, InsertPeer(h) PROVE LiveInv'
  <2>1. CASE srv.peer
    BY <1>3, <1>b, <2>1, RecordFields DEF InsertPeer
  <2>2. CASE ~srv.peer
    <3>1. live = {} /\ \A g \in Handlers : hand[g].pc # "update"
      BY <1>0, <2>2 DEF RowInv
    <3>2. \A g \in Handlers : hand'[g].pc # "update"
      BY <1>0, <1>b, <2>2, <3>1, RecordFields DEF TypeOK, InsertPeer
    <3>3. srv' = [srv EXCEPT !.peer = TRUE, !.hmac = 0, !.token = Fresh] /\ live' = live \cup {Fresh}
      BY <1>b, <2>2 DEF InsertPeer
    <3>4. srv'.token = Fresh
      BY <1>0, <3>3 DEF Rows
    <3> QED
      BY <3>1, <3>2, <3>3, <3>4 DEF LiveInv
  <2> QED
    BY <2>1, <2>2
<1>c. ASSUME NEW h \in Handlers, Claim(h) PROVE LiveInv'
  <2>1. CASE hand' = [hand EXCEPT ![h] = Denied]
    BY <1>3, <1>c, <2>1, RecordFields DEF Claim
  <2>2. CASE hand'[h].pc = "read"
    BY <1>0, <1>c, <2>2, ClaimEffect, LiveKept DEF Claim
  <2> QED
    BY <1>0, <1>c, <2>1, <2>2, ClaimEffect
<1>d. ASSUME NEW h \in Handlers, ReadPeer(h) PROVE LiveInv'
  <2> SUFFICES ASSUME ~overlapped'
               PROVE  /\ live' \subseteq {srv'.token}
                      /\ \A g \in Handlers : hand'[g].pc = "update" =>
                           /\ hand'[g].old = srv'.token
                           /\ \A k \in Handlers \ {g} : hand'[k].pc # "update"
    BY DEF LiveInv
  <2>1. ~overlapped /\ \A g \in Handlers : hand[g].pc # "update"
    BY <1>d DEF ReadPeer
  <2>2. hand'[h].old = srv.token /\ \A g \in Handlers \ {h} : hand'[g] = hand[g]
    BY <1>0, <1>d, ReadEffect
  <2>3. live' = live /\ srv' = srv
    BY <1>d DEF ReadPeer
  <2> QED
    BY <1>0, <2>1, <2>2, <2>3 DEF LiveInv
<1>e. ASSUME NEW h \in Handlers, UpdatePeer(h) PROVE LiveInv'
  <2> SUFFICES ASSUME ~overlapped'
               PROVE  /\ live' \subseteq {srv'.token}
                      /\ \A g \in Handlers : hand'[g].pc # "update"
    BY DEF LiveInv
  <2>1. /\ ~overlapped /\ hand[h].pc = "update"
        /\ live' = (live \ Revokes(h)) \cup {hand[h].token}
    BY <1>e DEF UpdatePeer
  <2>2. /\ live \subseteq {srv.token} /\ hand[h].old = srv.token
        /\ \A g \in Handlers \ {h} : hand[g].pc # "update"
    BY <1>0, <2>1 DEF LiveInv
  <2>3. Revokes(h) = live
    BY <2>2 DEF Revokes
  <2>4. hand[h].token \notin live
    BY <1>0, <2>1 DEF FreshInv
  <2>5. srv'.token = hand[h].token
    BY <1>0, <1>e, <2>3, <2>4, UpdateRow DEF Dead
  <2>6. \A g \in Handlers : hand'[g].pc # "update"
    BY <1>0, <1>e, <2>2, UpdateHand
  <2> QED
    BY <2>1, <2>3, <2>5, <2>6
<1>f. ASSUME NEW h \in Handlers, HandlerFails(h) PROVE LiveInv'
  BY <1>3, <1>f, RecordFields DEF HandlerFails
<1>g. ASSUME NEW h \in Handlers, Unread(h) PROVE LiveInv'
  BY <1>3, <1>g, RecordFields DEF Unread
<1>h. CASE StartRegister
  <2>1. PICK h \in Handlers : hand' = [hand EXCEPT ![h] = [Free EXCEPT !.pc = "new", !.cfg = mem]]
    BY <1>h DEF StartRegister
  <2>2. [Free EXCEPT !.pc = "new", !.cfg = mem].pc = "new"
    BY DEF Free
  <2> QED
    BY <1>3, <1>h, <2>1, <2>2 DEF StartRegister
<1>i. CASE ReceiveReply \/ RegisterFails
  <2>1. /\ reg.h \in Handlers /\ hand' = [hand EXCEPT ![reg.h] = Free]
        /\ live' = live /\ srv' = srv /\ overlapped' = overlapped
    BY <1>0, <1>i DEF ReceiveReply, RegisterFails, RequestInv
  <2> QED
    BY <1>3, <2>1, RecordFields
<1>m. CASE RotatePeerKey \/ Age \/ RetrieveKey
  <2>1. srv'.token = srv.token
    BY <1>0, <1>m DEF RotatePeerKey, Age, RetrieveKey, Rows
  <2> QED
    BY <1>0, <1>m, <2>1, LiveKept DEF RotatePeerKey, Age, RetrieveKey
<1>v. ASSUME NEW t \in JWTs, Expire(t) PROVE LiveInv'
  <2>1. /\ srv'.token = Dead({t}, srv.token)
        /\ \A h \in Handlers : hand'[h].pc = hand[h].pc /\ hand'[h].old = Dead({t}, hand[h].old)
    BY <1>0, <1>v, ExpireEffect
  <2>2. t \in live /\ live' = live \ {t} /\ overlapped' = overlapped
    BY <1>v DEF Expire
  <2> QED
    BY <1>0, <2>1, <2>2 DEF LiveInv
<1>x. CASE UNCHANGED <<hand, live, srv, overlapped>>
  BY <1>0, <1>x, LiveKept
<1> QED
  BY <1>a, <1>b, <1>c, <1>d, <1>e, <1>f, <1>g, <1>h, <1>i, <1>m, <1>v, <1>x
  DEF Next, AgentNext, RotationNext, HandlerNext, vars, SaveRegistered, SwapConfig,
      CheckRotation, TestKey, ConfirmRotation, StoreKey, SaveKey, Restart, RevokeRegistrationToken

-----------------------------------------------------------------------------
(* Two configurations that are as good a proof as each other.              *)
SameProof(c, d) ==
  d.agentKey = c.agentKey /\ d.hmac = c.hmac /\ (d.token = "none" <=> c.token = "none")

(* What a request is authorised by.                                        *)
LEMMA MethodMeaning ==
  ASSUME NEW c
  PROVE  /\ Method(c) = "bearer" => c.token \in live
         /\ Method(c) = "agent_key" => c.agentKey
  BY DEF Method

(* A lasting configuration stays one: a key that is replaced is replaced   *)
(* by a rotation.                                                          *)
LEMMA LastingKept ==
  ASSUME TypeOK, RowInv, [Next]_vars, NEW c, NEW d,
         d.agentKey = c.agentKey, d.hmac = c.hmac, Lasting(c)
  PROVE  d.agentKey \/ (fleet' = "bare" /\ (d.hmac = srv'.hmac \/ srv'.hmac > 0))
<1>1. CASE c.agentKey
  BY <1>1
<1>2. CASE fleet = "bare" /\ (c.hmac = srv.hmac \/ srv.hmac > 0)
  <2>1. srv.peer /\ fleet' = "bare"
    BY <1>2, RowGrows DEF RowInv
  <2>2. srv'.hmac = srv.hmac \/ srv'.hmac > 0
    BY <2>1, RowGrows
  <2> QED
    BY <1>2, <2>1, <2>2, RowGrows
<1> QED
  BY <1>1, <1>2 DEF Lasting

(* CopiesInv: a configuration gets a token from an answer of the server    *)
(* only, and the answer, with what the agent had sent, makes it lasting.   *)
LEMMA StepCopiesInv == IInv /\ [Next]_vars => CopiesInv'
<1> SUFFICES ASSUME IInv, [Next]_vars PROVE CopiesInv'
  OBVIOUS
<1> USE IdentityAssumption
<1>0. TypeOK /\ RowInv /\ RequestInv /\ CopiesInv /\ AnswerInv
  BY DEF IInv
<1>1. srv.hmac > 0 => srv'.hmac > 0
  BY <1>0, RowGrows
<1>2. ASSUME SameProof(mem, mem') PROVE mem'.token # "none" => Lasting(mem)'
  BY <1>0, <1>2, LastingKept DEF CopiesInv, SameProof, Lasting
<1>3. ASSUME SameProof(disk, disk') PROVE disk'.token # "none" => Lasting(disk)'
  BY <1>0, <1>3, LastingKept DEF CopiesInv, SameProof, Lasting
<1>4. ASSUME SameProof(reg.cfg, reg'.cfg), reg'.pc \in {"save", "swap"} => reg.pc \in {"save", "swap"}
      PROVE  /\ reg'.cfg.token # "none" => Lasting(reg.cfg)'
             /\ reg'.pc \in {"save", "swap"} => Lasting(reg.cfg)'
  BY <1>0, <1>4, LastingKept DEF CopiesInv, SameProof, Lasting
<1>5. ASSUME SameProof(rot.cfg, rot'.cfg) PROVE rot'.cfg.token # "none" => Lasting(rot.cfg)'
  BY <1>0, <1>5, LastingKept DEF CopiesInv, SameProof, Lasting
<1>6. ASSUME NEW c PROVE SameProof(c, c)
  BY DEF SameProof
<1>7. ASSUME rot'.state \in {"retrieve", "test", "confirm", "store"} =>
               rot.state \in {"retrieve", "test", "confirm", "store"} \/ srv.rot # 0
      PROVE  rot'.state \in {"retrieve", "test", "confirm", "store"} => srv'.hmac > 0
  BY <1>0, <1>1, <1>7 DEF CopiesInv, RowInv
<1>8. ASSUME reg' = NoReg
      PROVE  /\ reg'.cfg.token # "none" => Lasting(reg.cfg)'
             /\ reg'.pc \in {"save", "swap"} => Lasting(reg.cfg)'
  BY <1>8, RecordFields
<1>9. ASSUME NEW s \in {"idle", "fallback"}, rot' = NoRot(s)
      PROVE  /\ rot'.cfg.token # "none" => Lasting(rot.cfg)'
             /\ rot'.state \in {"retrieve", "test", "confirm", "store"} => srv'.hmac > 0
  <2>1. rot'.state = s /\ rot'.cfg.token = "none"
    BY <1>9, RecordFields
  <2> QED
    BY <2>1
<1>e. ASSUME NEW h \in Handlers, UpdatePeer(h) PROVE CopiesInv'
  <2>1. /\ SameProof(mem, mem') /\ SameProof(disk, disk') /\ SameProof(reg.cfg, reg'.cfg)
        /\ SameProof(rot.cfg, rot'.cfg) /\ reg'.pc = reg.pc /\ rot'.state = rot.state
    BY <1>0, <1>e, UpdateEffect, BuryCopies DEF SameProof
  <2> QED
    BY <1>2, <1>3, <1>4, <1>5, <1>7, <2>1 DEF CopiesInv
<1>v. ASSUME NEW t \in JWTs, Expire(t) PROVE CopiesInv'
  <2>1. /\ SameProof(mem, mem') /\ SameProof(disk, disk') /\ SameProof(reg.cfg, reg'.cfg)
        /\ SameProof(rot.cfg, rot'.cfg) /\ reg'.pc = reg.pc /\ rot'.state = rot.state
    BY <1>0, <1>v, ExpireEffect, BuryCopies DEF SameProof
  <2> QED
    BY <1>2, <1>3, <1>4, <1>5, <1>7, <2>1 DEF CopiesInv
<1>h. CASE StartRegister
  <2>1. reg'.pc = "sent" /\ reg'.cfg = mem /\ mem' = mem
    BY <1>h DEF StartRegister
  <2>2. UNCHANGED <<mem, disk, rot>>
    BY <1>h DEF StartRegister
  <2>3. reg'.cfg.token # "none" => Lasting(reg.cfg)'
    BY <1>2, <1>6, <2>1 DEF Lasting
  <2> QED
    BY <1>2, <1>3, <1>5, <1>6, <1>7, <2>1, <2>2, <2>3 DEF CopiesInv
<1>i. CASE ReceiveReply
  <2>1. UNCHANGED <<fleet, srv, mem, disk, rot>>
    BY <1>i DEF ReceiveReply
  <2>2. PICK r : r = hand[reg.h]
    OBVIOUS
  <2>3. /\ reg.pc = "sent" /\ r.pc = "ok" /\ reg.h \in Handlers
        /\ reg' = [pc |-> "save", h |-> "none",
                   cfg |-> Registered(reg.cfg, r.token, r.hmac, r.method \in {"hmac_proof", "registration_token"})]
    BY <1>0, <1>i, <2>2 DEF ReceiveReply, RequestInv
  <2>4. /\ r.method \in {"none", "bearer", "agent_key", "hmac_proof", "registration_token"}
        /\ r.method # "none" /\ (r.hmac = srv.hmac \/ srv.hmac > 0)
    BY <1>0, <2>2, <2>3 DEF AnswerInv, TypeOK, Requests
  <2>5. reg'.cfg.hmac = r.hmac
    BY <2>3 DEF Registered
  <2>6. CASE r.method \in {"hmac_proof", "registration_token"}
    <3>1. reg'.cfg.agentKey
      BY <2>3, <2>6 DEF Registered
    <3> QED
      BY <1>2, <1>3, <1>5, <1>6, <1>7, <2>1, <3>1 DEF CopiesInv, Lasting
  <2>7. CASE r.method \in {"bearer", "agent_key"}
    <3>1. Lasting(reg.cfg)
      BY <1>0, <2>2, <2>3, <2>7 DEF RequestInv
    <3>2. reg.cfg.agentKey => reg'.cfg.agentKey
      BY <2>3 DEF Registered
    <3>3. Lasting(reg.cfg)'
      BY <2>1, <2>4, <2>5, <3>1, <3>2 DEF Lasting
    <3> QED
      BY <1>2, <1>3, <1>5, <1>6, <1>7, <2>1, <3>3 DEF CopiesInv
  <2> QED
    BY <2>4, <2>6, <2>7
<1>j. CASE RegisterFails
  BY <1>2, <1>3, <1>5, <1>6, <1>7, <1>8, <1>j DEF RegisterFails, CopiesInv
<1>k. CASE SaveRegistered
  <2>1. reg.pc = "save" /\ reg' = [reg EXCEPT !.pc = "swap"] /\ UNCHANGED <<mem, rot>>
    BY <1>k DEF SaveRegistered
  <2>2. reg'.cfg = reg.cfg /\ reg'.pc = "swap"
    BY <1>0, <2>1 DEF TypeOK
  <2>3. Lasting(reg.cfg)'
    BY <1>4, <1>6, <2>1, <2>2
  <2>4. disk' = reg'.cfg \/ disk' = disk
    BY <1>k, <2>2 DEF SaveRegistered
  <2>5. disk'.token # "none" => Lasting(disk)'
    BY <1>3, <1>6, <2>3, <2>4 DEF Lasting
  <2> QED
    BY <1>2, <1>5, <1>6, <1>7, <2>1, <2>3, <2>5 DEF CopiesInv
<1>l. CASE SwapConfig
  <2>1. reg.pc = "swap" /\ mem' = reg.cfg /\ reg' = NoReg /\ UNCHANGED <<disk, rot>>
    BY <1>l DEF SwapConfig
  <2>2. Lasting(reg.cfg)
    BY <1>0, <2>1 DEF CopiesInv
  <2>3. Lasting(mem)'
    BY <1>0, <2>1, <2>2, LastingKept DEF Lasting
  <2> QED
    BY <1>3, <1>5, <1>6, <1>7, <1>8, <2>1, <2>3 DEF CopiesInv
<1>o. CASE CheckRotation
  <2>1. UNCHANGED <<mem, disk, reg>>
    BY <1>o DEF CheckRotation
  <2>2. CASE rot' = NoRot("idle")
    BY <1>2, <1>3, <1>4, <1>6, <1>9, <2>1, <2>2 DEF CopiesInv
  <2>3. CASE srv.rot # 0 /\ rot' = [NoRot("retrieve") EXCEPT !.jwt = mem.token, !.num = srv.rot]
    <3>1. rot'.cfg.token = "none"
      BY <2>3 DEF NoRot, Blank
    <3> QED
      BY <1>2, <1>3, <1>4, <1>6, <1>7, <2>1, <2>3, <3>1 DEF CopiesInv
  <2> QED
    BY <1>o, <2>2, <2>3 DEF CheckRotation
<1>p. CASE RetrieveKey \/ TestKey \/ ConfirmRotation
  <2>1. UNCHANGED <<mem, disk, reg>>
    BY <1>p DEF RetrieveKey, TestKey, ConfirmRotation
  <2>2. CASE rot' = NoRot("idle") \/ rot' = NoRot("fallback")
    BY <1>2, <1>3, <1>4, <1>6, <1>9, <2>1, <2>2 DEF CopiesInv
  <2>3. CASE rot.state \in {"retrieve", "test", "confirm"} /\ rot'.cfg = rot.cfg
    BY <1>2, <1>3, <1>4, <1>5, <1>6, <1>7, <2>1, <2>3 DEF CopiesInv
  <2> QED
    BY <1>0, <1>p, <2>2, <2>3 DEF TypeOK, RetrieveKey, TestKey, ConfirmRotation
<1>s. CASE StoreKey
  <2>1. /\ rot.state = "store" /\ mem' = [mem EXCEPT !.hmac = rot.num]
        /\ rot' = [NoRot("save") EXCEPT !.cfg = mem'] /\ UNCHANGED <<fleet, srv, disk, reg>>
    BY <1>s DEF StoreKey
  <2>2. mem'.token = mem.token /\ mem'.agentKey = mem.agentKey
    BY <1>0, <2>1 DEF TypeOK, Configs
  <2>3. rot'.cfg = mem' /\ rot'.state = "save"
    BY <2>1 DEF NoRot
  <2>4. srv.hmac > 0
    BY <1>0, <2>1 DEF CopiesInv
  <2>5. mem'.token # "none" => Lasting(mem)'
    BY <1>0, <2>1, <2>2, <2>4 DEF CopiesInv, Lasting
  <2>6. rot'.cfg.token # "none" => Lasting(rot.cfg)'
    BY <2>3, <2>5 DEF Lasting
  <2> QED
    BY <1>3, <1>4, <1>6, <2>1, <2>3, <2>5, <2>6 DEF CopiesInv
<1>t. CASE SaveKey
  <2>1. /\ rot' = NoRot("idle") /\ UNCHANGED <<mem, reg>>
        /\ disk' = rot.cfg \/ disk' = disk
    BY <1>t DEF SaveKey
  <2>2. disk'.token # "none" => Lasting(disk)'
    <3>1. CASE disk' = disk
      BY <1>3, <1>6, <3>1
    <3>2. CASE disk' = rot.cfg
      BY <1>0, <3>2, LastingKept DEF CopiesInv, Lasting
    <3> QED
      BY <2>1, <3>1, <3>2
  <2> QED
    BY <1>2, <1>4, <1>6, <1>9, <2>1, <2>2 DEF CopiesInv
<1>u. CASE Restart
  <2>1. mem' = disk /\ reg' = NoReg /\ rot' = NoRot("idle") /\ UNCHANGED disk
    BY <1>u DEF Restart
  <2>2. mem'.token # "none" => Lasting(mem)'
    BY <1>0, <2>1, LastingKept DEF CopiesInv, Lasting
  <2> QED
    BY <1>3, <1>6, <1>8, <1>9, <2>1, <2>2 DEF CopiesInv
<1>x. CASE UNCHANGED <<mem, disk, reg, rot>>
  BY <1>2, <1>3, <1>4, <1>5, <1>6, <1>7, <1>x DEF CopiesInv
<1> QED
  BY <1>e, <1>h, <1>i, <1>j, <1>k, <1>l, <1>o, <1>p, <1>s, <1>t, <1>u, <1>v, <1>x
  DEF Next, AgentNext, RotationNext, HandlerNext, vars, agentVars, Authorize, InsertPeer, Claim,
      ReadPeer, HandlerFails, Unread, RotatePeerKey, Age, RevokeRegistrationToken

-----------------------------------------------------------------------------
(* RequestInv survives a step that leaves doRegister waiting, if the       *)
(* request it waits for is as it should be.                                *)
LEMMA RequestKept ==
  ASSUME TypeOK, RowInv, RequestInv, [Next]_vars,
         reg'.pc = reg.pc, reg'.h = reg.h, SameProof(reg.cfg, reg'.cfg),
         reg.pc = "sent" =>
           /\ hand'[reg.h].pc # "free"
           /\ hand'[reg.h].pc \in {"new", "insert", "claim", "read", "update"} =>
                hand'[reg.h].cfg = reg'.cfg
           /\ hand'[reg.h].pc \in {"read", "update", "ok"}
                /\ hand'[reg.h].method \in {"bearer", "agent_key"} => Lasting(reg.cfg)
  PROVE  RequestInv'
<1>1. Lasting(reg.cfg) => Lasting(reg.cfg)'
  BY LastingKept DEF SameProof, Lasting
<1> QED
  BY <1>1 DEF RequestInv

(* RequestInv: the server answers a request for what it was sent; only one *)
(* with a live token or the agent key is answered without the agent key.   *)
LEMMA StepRequestInv == IInv /\ [Next]_vars => RequestInv'
<1> SUFFICES ASSUME IInv, [Next]_vars PROVE RequestInv'
  OBVIOUS
<1> USE IdentityAssumption
<1>0. TypeOK /\ RowInv /\ RequestInv /\ CopiesInv /\ AnswerInv /\ live \subseteq JWTs
  BY DEF IInv, TypeOK
<1>1. ASSUME reg'.pc # "sent" PROVE RequestInv'
  BY <1>1 DEF RequestInv
<1>2. ASSUME NEW c PROVE SameProof(c, c)
  BY DEF SameProof
<1>3. ASSUME reg' = reg,
             reg.pc = "sent" => hand'[reg.h] = hand[reg.h] \/ hand'[reg.h].pc = "denied"
      PROVE  RequestInv'
  BY <1>0, <1>2, <1>3, RequestKept DEF RequestInv
<1>4. ASSUME NEW h \in Handlers, NEW r, hand' = [hand EXCEPT ![h] = r], r.pc = "denied", reg' = reg
      PROVE  RequestInv'
  <2>1. \A g \in Handlers : hand'[g] = hand[g] \/ hand'[g].pc = "denied"
    BY <1>0, <1>4 DEF TypeOK
  <2> QED
    BY <1>0, <1>3, <1>4, <2>1 DEF RequestInv
<1>a. ASSUME NEW h \in Handlers, Authorize(h) PROVE RequestInv'
  <2>0. reg' = reg
    BY <1>a DEF Authorize, agentVars
  <2>1. CASE hand' = [hand EXCEPT ![h] = Denied]
    BY <1>4, <2>0, <2>1, RecordFields
  <2>2. CASE h # reg.h
    BY <1>0, <1>3, <1>a, <2>0, <2>2, AuthorizeEffect DEF RequestInv
  <2>3. CASE h = reg.h /\ hand' # [hand EXCEPT ![h] = Denied]
    <3>1. /\ hand[h].pc = "new" /\ hand'[h].cfg = hand[h].cfg
          /\ \/ hand'[h].pc = "insert"
             \/ hand'[h].pc = "claim"
             \/ hand'[h].pc = "read" /\ hand'[h].method = Method(hand[h].cfg)
      BY <1>0, <1>a, <2>3, AuthorizeEffect
    <3>2. reg.pc = "sent" => hand[h].cfg = reg.cfg
      BY <1>0, <2>3, <3>1 DEF RequestInv
    <3>3. reg.pc = "sent" /\ Method(hand[h].cfg) \in {"bearer", "agent_key"} => Lasting(reg.cfg)
      <4>1. CASE Method(hand[h].cfg) = "bearer"
        BY <1>0, <3>2, <4>1, MethodMeaning DEF CopiesInv
      <4>2. CASE Method(hand[h].cfg) = "agent_key"
        BY <3>2, <4>2, MethodMeaning DEF Lasting
      <4> QED
        BY <4>1, <4>2
    <3> QED
      BY <1>0, <1>2, <2>0, <2>3, <3>1, <3>2, <3>3, RequestKept
  <2> QED
    BY <2>1, <2>2, <2>3
<1>b. ASSUME NEW h \in Handlers, InsertPeer(h) PROVE RequestInv'
  <2>0. reg' = reg
    BY <1>b DEF InsertPeer, agentVars
  <2>1. CASE srv.peer
    BY <1>4, <1>b, <2>0, <2>1, RecordFields DEF InsertPeer
  <2>2. CASE ~srv.peer
    <3>1. hand' = [hand EXCEPT ![h] = Answer("registration_token", Fresh, 0)]
      BY <1>b, <2>2 DEF InsertPeer
    <3>2. /\ hand'[h].pc = "ok" /\ hand'[h].method = "registration_token"
          /\ \A g \in Handlers \ {h} : hand'[g] = hand[g]
      BY <1>0, <3>1, RecordFields DEF TypeOK
    <3> QED
      BY <1>0, <1>2, <2>0, <3>2, RequestKept DEF RequestInv
  <2> QED
    BY <2>1, <2>2
<1>c. ASSUME NEW h \in Handlers, Claim(h) PROVE RequestInv'
  <2>0. reg' = reg
    BY <1>c DEF Claim, agentVars
  <2>1. CASE hand' = [hand EXCEPT ![h] = Denied]
    BY <1>4, <2>0, <2>1, RecordFields
  <2>2. CASE hand'[h].pc = "read" /\ hand'[h].cfg = hand[h].cfg /\ hand'[h].method = hand[h].method
    <3>1. hand[h].pc = "claim" /\ \A g \in Handlers \ {h} : hand'[g] = hand[g]
      BY <1>0, <1>c, ClaimEffect
    <3>2. hand[h].method = "registration_token"
      BY <1>0, <3>1 DEF AnswerInv
    <3> QED
      BY <1>0, <1>2, <2>0, <2>2, <3>1, <3>2, RequestKept DEF RequestInv
  <2> QED
    BY <1>0, <1>c, <2>1, <2>2, ClaimEffect
<1>d. ASSUME NEW h \in Handlers, ReadPeer(h) PROVE RequestInv'
  <2>0. reg' = reg
    BY <1>d DEF ReadPeer, agentVars
  <2>1. /\ hand[h].pc = "read" /\ hand'[h].pc = "update"
        /\ hand'[h].cfg = hand[h].cfg /\ hand'[h].method = hand[h].method
        /\ \A g \in Handlers \ {h} : hand'[g] = hand[g]
    BY <1>0, <1>d, ReadEffect
  <2> QED
    BY <1>0, <1>2, <2>0, <2>1, RequestKept DEF RequestInv
<1>e. ASSUME NEW h \in Handlers, UpdatePeer(h) PROVE RequestInv'
  <2>1. /\ reg'.pc = reg.pc /\ reg'.h = reg.h /\ SameProof(reg.cfg, reg'.cfg)
        /\ reg'.cfg = Buried(Revokes(h), reg.cfg)
    BY <1>0, <1>e, UpdateEffect, BuryCopies DEF SameProof
  <2>2. /\ hand[h].pc = "update" /\ hand'[h].pc = "ok" /\ hand'[h].method = hand[h].method
        /\ \A g \in Handlers \ {h} :
             /\ hand'[g].pc = hand[g].pc /\ hand'[g].method = hand[g].method
             /\ hand'[g].cfg = Buried(Revokes(h), hand[g].cfg)
    BY <1>0, <1>e, UpdateHand
  <2>3. CASE reg.h = h
    BY <1>0, <2>1, <2>2, <2>3, RequestKept DEF RequestInv
  <2>4. CASE reg.h # h
    BY <1>0, <2>1, <2>2, <2>4, RequestKept DEF RequestInv
  <2> QED
    BY <2>3, <2>4
<1>f. ASSUME NEW h \in Handlers, HandlerFails(h) PROVE RequestInv'
  BY <1>4, <1>f, RecordFields DEF HandlerFails, agentVars
<1>g. ASSUME NEW h \in Handlers, Unread(h) PROVE RequestInv'
  <2>1. reg' = reg /\ reg.h # h /\ hand' = [hand EXCEPT ![h] = Free]
    BY <1>g DEF Unread, agentVars
  <2>2. \A g \in Handlers \ {h} : hand'[g] = hand[g]
    BY <1>0, <2>1 DEF TypeOK
  <2> QED
    BY <1>0, <1>3, <2>1, <2>2 DEF RequestInv
<1>h. CASE StartRegister
  <2>1. PICK h \in Handlers :
          /\ hand' = [hand EXCEPT ![h] = [Free EXCEPT !.pc = "new", !.cfg = mem]]
          /\ reg' = [pc |-> "sent", h |-> h, cfg |-> mem]
    BY <1>h DEF StartRegister
  <2>2. hand'[h].pc = "new" /\ hand'[h].cfg = mem
    BY <1>0, <2>1 DEF TypeOK, Free
  <2> QED
    BY <2>1, <2>2 DEF RequestInv
<1>i. CASE ReceiveReply \/ RegisterFails \/ SaveRegistered \/ SwapConfig \/ Restart
  <2>1. reg'.pc \in {"idle", "save", "swap"}
    BY <1>0, <1>i, RecordFields
    DEF ReceiveReply, RegisterFails, SaveRegistered, SwapConfig, Restart, TypeOK
  <2> QED
    BY <1>1, <2>1
<1>v. ASSUME NEW t \in JWTs, Expire(t) PROVE RequestInv'
  <2>1. /\ reg'.pc = reg.pc /\ reg'.h = reg.h /\ SameProof(reg.cfg, reg'.cfg)
        /\ reg'.cfg = Buried({t}, reg.cfg)
    BY <1>0, <1>v, ExpireEffect, BuryCopies DEF SameProof
  <2>2. \A g \in Handlers :
          /\ hand'[g].pc = hand[g].pc /\ hand'[g].method = hand[g].method
          /\ hand'[g].cfg = Buried({t}, hand[g].cfg)
    BY <1>0, <1>v, ExpireEffect
  <2> QED
    BY <1>0, <2>1, <2>2, RequestKept DEF RequestInv
<1>x. CASE UNCHANGED <<hand, reg>>
  BY <1>0, <1>3, <1>x DEF RequestInv
<1> QED
  BY <1>a, <1>b, <1>c, <1>d, <1>e, <1>f, <1>g, <1>h, <1>i, <1>v, <1>x
  DEF Next, AgentNext, RotationNext, HandlerNext, vars, agentVars, RotatePeerKey, Age, CheckRotation,
      RetrieveKey, TestKey, ConfirmRotation, StoreKey, SaveKey, RevokeRegistrationToken

-----------------------------------------------------------------------------
(* AnswerInv survives a step that leaves the requests what they are.       *)
LEMMA AnswerKept ==
  ASSUME TypeOK, RowInv, AnswerInv, [Next]_vars,
         \A h \in Handlers :
           \/ hand'[h].pc \notin {"claim", "read", "update", "ok"}
           \/ /\ hand'[h].pc = hand[h].pc /\ hand'[h].method = hand[h].method
              /\ hand'[h].hmac = hand[h].hmac
  PROVE  AnswerInv'
<1>1. srv.peer => srv'.hmac = srv.hmac \/ srv'.hmac > 0
  BY RowGrows
<1>2. srv.hmac > 0 => srv'.hmac > 0
  BY RowGrows
<1>3. \A h \in Handlers : hand[h].pc \in {"update", "ok"} => srv.peer
  BY DEF RowInv
<1> QED
  BY <1>1, <1>2, <1>3 DEF AnswerInv

(* Every step keeps AnswerInv.                                             *)
LEMMA StepAnswerInv == IInv /\ [Next]_vars => AnswerInv'
<1> SUFFICES ASSUME IInv, [Next]_vars PROVE AnswerInv'
  OBVIOUS
<1> USE IdentityAssumption
<1>0. TypeOK /\ RowInv /\ RequestInv /\ AnswerInv
  BY DEF IInv
<1>3. ASSUME NEW h \in Handlers, NEW r, hand' = [hand EXCEPT ![h] = r],
             r.pc \notin {"claim", "read", "update", "ok"}
      PROVE  AnswerInv'
  <2>1. hand'[h] = r /\ \A g \in Handlers \ {h} : hand'[g] = hand[g]
    BY <1>0, <1>3 DEF TypeOK
  <2> QED
    BY <1>0, <1>3, <2>1, AnswerKept
<1>a. ASSUME NEW h \in Handlers, Authorize(h) PROVE AnswerInv'
  <2>1. CASE hand' = [hand EXCEPT ![h] = Denied]
    BY <1>3, <2>1, RecordFields
  <2>2. CASE hand' # [hand EXCEPT ![h] = Denied]
    <3>1. srv' = srv
      BY <1>a DEF Authorize
    <3> QED
      BY <1>0, <1>a, <2>2, <3>1, AuthorizeEffect DEF AnswerInv
  <2> QED
    BY <2>1, <2>2
<1>b. ASSUME NEW h \in Handlers, InsertPeer(h) PROVE AnswerInv'
  <2>1. CASE srv.peer
    BY <1>3, <1>b, <2>1, RecordFields DEF InsertPeer
  <2>2. CASE ~srv.peer
    <3>1. /\ hand' = [hand EXCEPT ![h] = Answer("registration_token", Fresh, 0)]
          /\ srv' = [srv EXCEPT !.peer = TRUE, !.hmac = 0, !.token = Fresh]
      BY <1>b, <2>2 DEF InsertPeer
    <3>2. /\ hand'[h].pc = "ok" /\ hand'[h].method = "registration_token" /\ hand'[h].hmac = 0
          /\ \A g \in Handlers \ {h} : hand'[g] = hand[g]
      BY <1>0, <3>1, RecordFields DEF TypeOK
    <3>3. srv'.hmac = 0
      BY <1>0, <3>1 DEF TypeOK, Rows
    <3>4. \A g \in Handlers : hand[g].pc \notin {"update", "ok"}
      BY <1>0, <2>2 DEF RowInv
    <3> QED
      BY <1>0, <3>2, <3>3, <3>4 DEF AnswerInv
  <2> QED
    BY <2>1, <2>2
<1>c. ASSUME NEW h \in Handlers, Claim(h) PROVE AnswerInv'
  <2>1. CASE hand' = [hand EXCEPT ![h] = Denied]
    BY <1>3, <2>1, RecordFields
  <2>2. CASE hand'[h].pc = "read" /\ hand'[h].method = hand[h].method
    <3>1. srv' = srv
      BY <1>c DEF Claim
    <3>2. hand[h].pc = "claim" /\ \A g \in Handlers \ {h} : hand'[g] = hand[g]
      BY <1>0, <1>c, ClaimEffect
    <3> QED
      BY <1>0, <2>2, <3>1, <3>2 DEF AnswerInv
  <2> QED
    BY <1>0, <1>c, <2>1, <2>2, ClaimEffect
<1>d. ASSUME NEW h \in Handlers, ReadPeer(h) PROVE AnswerInv'
  <2>1. srv' = srv
    BY <1>d DEF ReadPeer
  <2> QED
    BY <1>0, <1>d, <2>1, ReadEffect DEF AnswerInv
<1>e. ASSUME NEW h \in Handlers, UpdatePeer(h) PROVE AnswerInv'
  <2>1. srv'.hmac = srv.hmac
    BY <1>0, <1>e, UpdateRow
  <2> QED
    BY <1>0, <1>e, <2>1, UpdateHand DEF AnswerInv
<1>f. ASSUME NEW h \in Handlers, HandlerFails(h) PROVE AnswerInv'
  BY <1>3, <1>f, RecordFields DEF HandlerFails
<1>g. ASSUME NEW h \in Handlers, Unread(h) PROVE AnswerInv'
  BY <1>3, <1>g, RecordFields DEF Unread
<1>h. CASE StartRegister
  <2>1. PICK h \in Handlers : hand' = [hand EXCEPT ![h] = [Free EXCEPT !.pc = "new", !.cfg = mem]]
    BY <1>h DEF StartRegister
  <2>2. [Free EXCEPT !.pc = "new", !.cfg = mem].pc = "new"
    BY DEF Free
  <2> QED
    BY <1>3, <2>1, <2>2
<1>i. CASE ReceiveReply \/ RegisterFails
  <2>1. reg.h \in Handlers /\ hand' = [hand EXCEPT ![reg.h] = Free]
    BY <1>0, <1>i DEF ReceiveReply, RegisterFails, RequestInv
  <2> QED
    BY <1>3, <2>1, RecordFields
<1>v. ASSUME NEW t \in JWTs, Expire(t) PROVE AnswerInv'
  BY <1>0, <1>v, ExpireEffect, AnswerKept
<1>x. CASE UNCHANGED hand
  BY <1>0, <1>x, AnswerKept
<1> QED
  BY <1>a, <1>b, <1>c, <1>d, <1>e, <1>f, <1>g, <1>h, <1>i, <1>v, <1>x
  DEF Next, AgentNext, RotationNext, HandlerNext, vars, SaveRegistered, SwapConfig, RotatePeerKey, Age,
      RetrieveKey, CheckRotation, TestKey, ConfirmRotation, StoreKey, SaveKey, Restart,
      RevokeRegistrationToken

-----------------------------------------------------------------------------
LEMMA InitIInv == Init => IInv
<1> SUFFICES ASSUME Init PROVE IInv
  OBVIOUS
<1> USE IdentityAssumption
<1>1. /\ mem = disk /\ reg = NoReg /\ rot = NoRot("idle") /\ hand = [h \in Handlers |-> Free]
      /\ regtok = [t \in RegTokens |-> "unused"] /\ claims = [t \in RegTokens |-> 0]
  BY DEF Init
<1>2. \A h \in Handlers : hand[h].pc = "free"
  BY <1>1, RecordFields
<1>3. /\ srv.peer <=> srv.hmac # NoKey
      /\ srv.rot = 0
      /\ ~srv.peer => live = {} /\ fleet = "new"
      /\ live \subseteq {srv.token}
      /\ disk.token # "none" => Lasting(disk)
  <2>1. CASE fleet = "new"
    <3>1. PICK r \in RegTokens : disk = Blank(r) /\ srv = Row(FALSE, "none") /\ live = {}
      BY <2>1 DEF Init
    <3> QED
      BY <2>1, <3>1 DEF Row, Blank, NoKey
  <2>2. CASE fleet = "reinstalled"
    <3>1. PICK r \in RegTokens : disk = Blank(r) /\ srv = Row(TRUE, "dead") /\ live = {}
      BY <2>2 DEF Init
    <3> QED
      BY <2>2, <3>1 DEF Row, Blank, NoKey
  <2>3. CASE fleet \in {"keyed", "bare"}
    <3>1. PICK t \in JWTs :
            /\ disk = [token |-> t, hmac |-> 0, agentKey |-> fleet = "keyed", reg |-> "none"]
            /\ srv = Row(TRUE, t) /\ live = {t}
      BY <2>3 DEF Init
    <3>2. srv.peer /\ srv.hmac = 0 /\ srv.rot = 0 /\ srv.token = t
      BY <3>1 DEF Row
    <3>3. Lasting(disk)
      BY <2>3, <3>1, <3>2 DEF Lasting
    <3>4. srv.hmac # NoKey
      BY <3>2 DEF NoKey
    <3>5. live \subseteq {srv.token}
      BY <3>1, <3>2
    <3> QED
      BY <3>2, <3>3, <3>4, <3>5
  <2> QED
    BY <2>1, <2>2, <2>3 DEF Init
<1>4. TokenInv
  BY <1>1, <1>2 DEF TokenInv, Holds
<1>5. RowInv /\ LiveInv /\ FreshInv /\ AnswerInv
  BY <1>2, <1>3 DEF RowInv, LiveInv, FreshInv, AnswerInv
<1>6. CopiesInv /\ RequestInv
  BY <1>1, <1>3, RecordFields DEF CopiesInv, RequestInv
<1> QED
  BY <1>4, <1>5, <1>6, InitTypeOK DEF IInv

(* The inductive invariant holds.                                          *)
LEMMA Inductive == Spec => []IInv
<1>1. IInv /\ [Next]_vars => IInv'
  <2> SUFFICES ASSUME IInv, [Next]_vars PROVE IInv'
    OBVIOUS
  <2>1. TypeOK'
    BY StepTypeOK DEF IInv
  <2> QED
    BY <2>1, StepTokenInv, StepRowInv, StepFreshInv, StepLiveInv, StepCopiesInv,
       StepRequestInv, StepAnswerInv DEF IInv
<1> QED
  BY <1>1, InitIInv, PTL DEF Spec

-----------------------------------------------------------------------------
(* Every variable of Identity keeps its type: in particular the fields of  *)
(* the peers row that its statements overwrite one by one, and the request *)
(* that doRegister waits for.                                              *)
THEOREM TypeCorrect == Spec => []TypeOK
<1>1. IInv => TypeOK
  BY DEF IInv
<1> QED
  BY <1>1, Inductive, PTL

(* A registration token authorises one registration, however many requests *)
(* saw it unused (RegisterAgent, ConsumeRegistrationToken).                *)
THEOREM RegisteredOnce == Spec => []TokenSingleUse
<1>1. IInv => TokenSingleUse
  BY DEF IInv, TokenInv, TokenSingleUse
<1> QED
  BY <1>1, Inductive, PTL

(* An agent that has credentials can always renew them, whatever replies,  *)
(* writes and restarts it loses (Register, swapConfig, StoreKey against    *)
(* authorizeReRegistration): only an agent from before agent keys can be   *)
(* left without a proof, and only once its key has been rotated.           *)
THEOREM CredentialsRenewable == Spec => []ProofSurvives
<1>1. IInv => ProofSurvives
  <2> SUFFICES ASSUME IInv, mem.token # "none", ~(fleet = "bare" /\ srv.hmac > 0)
               PROVE  Proves(mem)
    BY DEF ProofSurvives
  <2>1. Lasting(mem)
    BY DEF IInv, CopiesInv
  <2>2. CASE mem.agentKey
    BY <2>2 DEF Method, Proves
  <2>3. CASE fleet = "bare" /\ mem.hmac = srv.hmac
    <3>1. srv.hmac # NoKey
      BY <2>3 DEF IInv, RowInv
    <3> QED
      BY <2>3, <3>1 DEF Method, Proves
  <2> QED
    BY <2>1, <2>2, <2>3 DEF Lasting
<1> QED
  BY <1>1, Inductive, PTL

(* A re-registration revokes the token it supersedes: a host has at most   *)
(* one token that is accepted, unless two of its re-registrations read the *)
(* row before either updated it (UpdatePeerReRegistration).                *)
THEOREM OneLiveToken == Spec => []SupersededRevoked
<1>1. IInv => SupersededRevoked
  <2> SUFFICES ASSUME IInv, ~overlapped PROVE Cardinality(live) <= 1
    BY DEF SupersededRevoked
  <2>1. live \subseteq {srv.token}
    BY DEF IInv, LiveInv
  <2>2. live = {} \/ live = {srv.token}
    BY <2>1
  <2>3. Cardinality({}) = 0 /\ Cardinality({srv.token}) = 1
    BY FS_EmptySet, FS_Singleton
  <2> QED
    BY <2>2, <2>3
<1> QED
  BY <1>1, Inductive, PTL
=============================================================================
