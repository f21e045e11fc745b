---------------------------- MODULE SSEHubProofs ----------------------------
(***************************************************************************)
(* Proofs about SSEHub for every set of hosts, connections and notifiers   *)
(* and every channel capacity.                                             *)
(*                                                                         *)
(* NoTimedSendOnClosed is not inductive: the send holds no lock, and what  *)
(* keeps the channel open is the counter pending, which is read once, some *)
(* time before the close.  The proof needs three facts: the counter counts *)
(* exactly the timed calls that are under way on an entry (CountInv); an   *)
(* entry has one owner, the map or one closer or nobody once it is closed, *)
(* so that a lookup never finds an entry that is being closed (OwnerInv);  *)
(* and a poll that saw zero therefore stays true until the close           *)
(* (DrainInv).                                                             *)
(***************************************************************************)
EXTENDS SSEHub, FiniteSetTheorems, TLAPS

(* The timed calls that have counted themselves in the entry's pending and *)
(* have not yet decremented it.                                            *)
Holders(c) ==
    {s \in Timed : spc[s] \in {"sending", "check", "release"} /\ target[s] = c}

CountInv == \A c \in Conns : pending[c] = Cardinality(Holders(c))

(* A call that is under way has an entry to send to, and only a timed one  *)
(* has a decrement to do.                                                  *)
TargetInv ==
    \A s \in Senders :
        /\ spc[s] \in {"sending", "check", "release"} => target[s] \in Conns
        /\ spc[s] = "release" => s \in Timed

(* An entry in the map belongs to the host it is filed under, is open and  *)
(* served, and nobody is closing it; an entry that is being closed is      *)
(* still open and has one closer; no entry exists before its handler has   *)
(* registered it.                                                          *)
OwnerInv ==
    /\ \A h \in Hosts : clients[h] # NoConn =>
         /\ HostOf[clients[h]] = h
         /\ clients[h] \notin closed
         /\ hpc[clients[h]] \in {"replacing", "streaming"}
         /\ \A d \in Conns : closing[d] # clients[h]
    /\ \A c \in Conns : closing[c] # NoConn =>
         /\ closing[c] \notin closed
         /\ hpc[c] \in {"replacing", "unregistering"}
         /\ hpc[closing[c]] # "new"
         /\ \A d \in Conns \ {c} : closing[d] # closing[c]
    /\ \A c \in closed : hpc[c] # "new"

(* What a successful poll has established holds until the close and after  *)
(* it.                                                                     *)
DrainInv ==
    /\ \A c \in drained : closing[c] # NoConn /\ pending[closing[c]] = 0
    /\ \A c \in closed : pending[c] = 0

IInv == TypeOK /\ CountInv /\ TargetInv /\ OwnerInv /\ DrainInv

-----------------------------------------------------------------------------
LEMMA InitTypeOK == Init => TypeOK
  BY SSEHubAssumption
  DEF Init, TypeOK, Entries, HandlerStates, SenderStates, Outcomes

(* Finitely many senders hold a client.                                    *)
LEMMA HoldersFinite ==
  ASSUME NEW c PROVE IsFiniteSet(Holders(c))
<1>1. IsFiniteSet(Senders) /\ Holders(c) \in SUBSET Senders
  BY SSEHubAssumption DEF Holders
<1> QED
  BY <1>1, FS_Subset

(* A call that is counted keeps the counter of its entry above zero.       *)
LEMMA CountedPositive ==
  ASSUME TypeOK, CountInv, NEW c \in Conns, NEW s \in Holders(c)
  PROVE  pending[c] \in Nat \ {0}
<1>1. pending[c] \in Nat /\ pending[c] = Cardinality(Holders(c))
  BY DEF TypeOK, CountInv
<1>2. Cardinality(Holders(c)) # 0
  BY HoldersFinite, FS_EmptySet
<1> QED
  BY <1>1, <1>2

(* Every step of a handler or a notifier keeps the types; the decrement of *)
(* pending needs CountInv, by which a call that releases is still counted. *)
LEMMA StepTypeOK == IInv /\ [Next]_vars => TypeOK'
<1> SUFFICES ASSUME IInv, [Next]_vars PROVE TypeOK'
  OBVIOUS
<1> USE SSEHubAssumption DEF Entries, HandlerStates, SenderStates, Outcomes
<1>0. TypeOK /\ TargetInv /\ CountInv
  BY DEF IInv
<1>a. ASSUME NEW c \in Conns, Register(c) PROVE TypeOK'
  BY <1>0, <1>a DEF TypeOK, Register, notifier
<1>b. ASSUME NEW c \in Conns, PollPending(c) PROVE TypeOK'
  BY <1>0, <1>b DEF TypeOK, PollPending, hub, notifier
<1>c. ASSUME NEW c \in Conns, CloseEntry(c) PROVE TypeOK'
  BY <1>0, <1>c DEF TypeOK, CloseEntry, notifier
<1>d. ASSUME NEW c \in Conns, Stream(c) PROVE TypeOK'
  <2>1. buf[c] \in 0..ChanCap /\ buf[c] > 0
    BY <1>0, <1>d DEF TypeOK, Stream
  <2>2. buf[c] - 1 \in 0..ChanCap
    BY <2>1
  <2> QED
    BY <1>0, <1>d, <2>2 DEF TypeOK, Stream, handler, notifier
<1>e. ASSUME NEW c \in Conns, Disconnect(c) PROVE TypeOK'
  BY <1>0, <1>e DEF TypeOK, Disconnect, hub, notifier
<1>f. ASSUME NEW c \in Conns, Return(c) PROVE TypeOK'
  BY <1>0, <1>f DEF TypeOK, Return, notifier
<1>g. ASSUME NEW s \in Senders, Lookup(s) PROVE TypeOK'
  BY <1>0, <1>g DEF TypeOK, Lookup, handler
<1>h. ASSUME NEW s \in Senders, SendBuffered(s) PROVE TypeOK'
  <2>1. target[s] \in Conns
    BY <1>0, <1>h DEF TargetInv, SendBuffered
  <2>2. buf[target[s]] + 1 \in 0..ChanCap
    BY <1>0, <1>h, <2>1 DEF TypeOK, SendBuffered
  <2> QED
    BY <1>0, <1>h, <2>2 DEF TypeOK, SendBuffered, Conclude, handler
<1>i. ASSUME NEW s \in Senders, SendFull(s) PROVE TypeOK'
  BY <1>0, <1>i DEF TypeOK, SendFull, hub, handler
<1>j. ASSUME NEW s \in Senders, SendPanics(s) PROVE TypeOK'
  BY <1>0, <1>j DEF TypeOK, SendPanics, Conclude, hub, handler
<1>k. ASSUME NEW s \in Senders, CheckRegistered(s) PROVE TypeOK'
  BY <1>0, <1>k DEF TypeOK, CheckRegistered, Conclude, hub, handler
<1>l. ASSUME NEW s \in Senders, Release(s) PROVE TypeOK'
  <2>1. s \in Holders(target[s]) /\ target[s] \in Conns
    BY <1>0, <1>l DEF TargetInv, Release, Holders
  <2>2. pending[target[s]] \in Nat \ {0}
    BY <1>0, <2>1, CountedPositive
  <2>3. pending[target[s]] - 1 \in Nat
    BY <2>2
  <2>4. pending' \in [Conns -> Nat]
    BY <1>0, <1>l, <2>3 DEF TypeOK, Release
  <2> QED
    BY <1>0, <1>l, <2>4 DEF TypeOK, Release, handler
<1>m. CASE UNCHANGED vars
  BY <1>0, <1>m DEF TypeOK, vars, hub, handler, notifier
<1> QED
  BY <1>a, <1>b, <1>c, <1>d, <1>e, <1>f, <1>g, <1>h, <1>i, <1>j, <1>k, <1>l,
     <1>m
  DEF Next, Handle, Closer, Notify, AllServed

-----------------------------------------------------------------------------
LEMMA InitIInv == Init => IInv
<1> SUFFICES ASSUME Init PROVE IInv
  OBVIOUS
<1>1. \A c \in Conns : Holders(c) = {}
  BY SSEHubAssumption DEF Init, Holders
<1>2. CountInv
  BY <1>1, FS_EmptySet DEF Init, CountInv
<1> QED
  BY <1>2, InitTypeOK DEF Init, IInv, TargetInv, OwnerInv, DrainInv

(* Every step keeps TargetInv.                                             *)
LEMMA StepTargetInv == IInv /\ [Next]_vars => TargetInv'
<1> SUFFICES ASSUME IInv, [Next]_vars PROVE TargetInv'
  OBVIOUS
<1> USE SSEHubAssumption DEF IInv, TargetInv
<1>g. ASSUME NEW s \in Senders, Lookup(s) PROVE TargetInv'
  BY <1>g DEF TypeOK, Lookup, Entries
<1>h. ASSUME NEW s \in Senders, SendBuffered(s) PROVE TargetInv'
  BY <1>h DEF TypeOK, SendBuffered, Conclude
<1>i. ASSUME NEW s \in Senders, SendFull(s) PROVE TargetInv'
  BY <1>i DEF TypeOK, SendFull
<1>j. ASSUME NEW s \in Senders, SendPanics(s) PROVE TargetInv'
  BY <1>j DEF TypeOK, SendPanics, Conclude
<1>k. ASSUME NEW s \in Senders, CheckRegistered(s) PROVE TargetInv'
  BY <1>k DEF TypeOK, CheckRegistered, Conclude
<1>l. ASSUME NEW s \in Senders, Release(s) PROVE TargetInv'
  BY <1>l DEF TypeOK, Release
<1>m. CASE UNCHANGED notifier
  BY <1>m DEF notifier
<1> QED
  BY <1>g, <1>h, <1>i, <1>j, <1>k, <1>l, <1>m
  DEF Next, Handle, Closer, Notify, AllServed, vars, Register, PollPending,
      CloseEntry, Stream, Disconnect, Return

(* CountInv: a lookup adds its call to the holders of the entry it found,  *)
(* the release takes it out, and every step between keeps it there.        *)
LEMMA StepCountInv == IInv /\ [Next]_vars => CountInv'
<1> SUFFICES ASSUME IInv, [Next]_vars PROVE CountInv'
  OBVIOUS
<1> USE SSEHubAssumption
<1>0. TypeOK /\ CountInv /\ TargetInv
  BY DEF IInv
<1>1. ASSUME pending' = pending, \A c \in Conns : Holders(c)' = Holders(c)
      PROVE  CountInv'
  BY <1>0, <1>1 DEF CountInv
<1>g. ASSUME NEW s \in Senders, Lookup(s) PROVE CountInv'
  <2>0. PICK entry \in Entries : entry = clients[SendsTo[s]]
    BY <1>0 DEF TypeOK
  <2>1. CASE entry = NoConn \/ s \notin Timed
    <3>1. pending' = pending
      BY <1>g, <2>0, <2>1 DEF Lookup
    <3>2. \A c \in Conns : Holders(c)' = Holders(c)
      BY <1>0, <1>g, <2>0, <2>1 DEF TypeOK, Lookup, Entries, Holders
    <3> QED
      BY <1>1, <3>1, <3>2
  <2>2. CASE entry # NoConn /\ s \in Timed
    <3>1. /\ entry \in Conns
          /\ pending' = [pending EXCEPT ![entry] = @ + 1]
      BY <1>g, <2>0, <2>2 DEF Lookup, Entries
    <3>2. Holders(entry)' = Holders(entry) \cup {s} /\ s \notin Holders(entry)
      BY <1>0, <1>g, <2>0, <2>2 DEF TypeOK, Lookup, Entries, Holders
    <3>3. \A c \in Conns \ {entry} : Holders(c)' = Holders(c)
      BY <1>0, <1>g, <2>0, <2>2 DEF TypeOK, Lookup, Entries, Holders
    <3>4. Cardinality(Holders(entry)') = Cardinality(Holders(entry)) + 1
      BY <3>2, HoldersFinite, FS_AddElement
    <3> QED
      BY <1>0, <3>1, <3>3, <3>4 DEF TypeOK, CountInv
  <2> QED
    BY <2>1, <2>2
<1>h. ASSUME NEW s \in Senders, SendBuffered(s) PROVE CountInv'
  <2>1. \A c \in Conns : Holders(c)' = Holders(c)
    BY <1>0, <1>h DEF TypeOK, SendBuffered, Conclude, Holders
  <2> QED
    BY <1>1, <1>h, <2>1 DEF SendBuffered
<1>i. ASSUME NEW s \in Senders, SendFull(s) PROVE CountInv'
  <2>1. \A c \in Conns : Holders(c)' = Holders(c)
    BY <1>0, <1>i DEF TypeOK, SendFull, Holders
  <2> QED
    BY <1>1, <1>i, <2>1 DEF SendFull, hub
<1>j. ASSUME NEW s \in Senders, SendPanics(s) PROVE CountInv'
  <2>1. \A c \in Conns : Holders(c)' = Holders(c)
    BY <1>0, <1>j DEF TypeOK, SendPanics, Conclude, Holders
  <2> QED
    BY <1>1, <1>j, <2>1 DEF SendPanics, hub
<1>k. ASSUME NEW s \in Senders, CheckRegistered(s) PROVE CountInv'
  <2>1. \A c \in Conns : Holders(c)' = Holders(c)
    BY <1>0, <1>k DEF TypeOK, CheckRegistered, Conclude, Holders
  <2> QED
    BY <1>1, <1>k, <2>1 DEF CheckRegistered, hub
<1>l. ASSUME NEW s \in Senders, Release(s) PROVE CountInv'
  <2>0. PICK entry \in Conns : entry = target[s]
    BY <1>0, <1>l DEF TargetInv, Release
  <2>1. s \in Holders(entry)
    BY <1>0, <1>l, <2>0 DEF TargetInv, Release, Holders
  <2>2. pending' = [pending EXCEPT ![entry] = @ - 1]
    BY <1>l, <2>0 DEF Release
  <2>3. Holders(entry)' = Holders(entry) \ {s}
    BY <1>0, <1>l, <2>0 DEF TypeOK, Release, Holders
  <2>4. \A c \in Conns \ {entry} : Holders(c)' = Holders(c)
    BY <1>0, <1>l, <2>0 DEF TypeOK, Release, Holders
  <2>5. Cardinality(Holders(entry)') = Cardinality(Holders(entry)) - 1
    <3>1. PICK hs : hs = Holders(entry) /\ IsFiniteSet(hs) /\ s \in hs
      BY <2>1, HoldersFinite
    <3>2. Cardinality(hs \ {s}) = Cardinality(hs) - 1
      BY <3>1, FS_RemoveElement
    <3> QED
      BY <3>1, <3>2, <2>3
  <2> QED
    BY <1>0, <2>1, <2>2, <2>4, <2>5 DEF TypeOK, CountInv
<1>m. CASE UNCHANGED <<pending, spc, target>>
  <2>1. \A c \in Conns : Holders(c)' = Holders(c)
    BY <1>m DEF Holders
  <2> QED
    BY <1>1, <1>m, <2>1
<1> QED
  BY <1>g, <1>h, <1>i, <1>j, <1>k, <1>l, <1>m
  DEF Next, Handle, Closer, Notify, AllServed, vars, hub, notifier, Register,
      PollPending, CloseEntry, Stream, Disconnect, Return

(* OwnerInv: Register and Return move an entry out of the map into the     *)
(* hands of one closer, CloseEntry out of its hands.                       *)
LEMMA StepOwnerInv == IInv /\ [Next]_vars => OwnerInv'
<1> SUFFICES ASSUME IInv, [Next]_vars PROVE OwnerInv'
  OBVIOUS
<1> USE SSEHubAssumption
<1>0. TypeOK /\ OwnerInv /\ DrainInv
  BY DEF IInv
<1>a. ASSUME NEW c \in Conns, Register(c) PROVE OwnerInv'
  <2>1. /\ hpc[c] = "new" /\ closing[c] = NoConn /\ c \notin closed
        /\ \A h \in Hosts : clients[h] # c
        /\ \A d \in Conns : closing[d] # c
    BY <1>0, <1>a DEF Register, OwnerInv
  <2>2. PICK old \in Entries : old = clients[HostOf[c]]
    BY <1>0 DEF TypeOK
  <2>3. /\ clients' = [clients EXCEPT ![HostOf[c]] = c]
        /\ closing' = [closing EXCEPT ![c] = old]
        /\ hpc' = [hpc EXCEPT ![c] = IF old = NoConn THEN "streaming"
                                                     ELSE "replacing"]
        /\ closed' = closed
    BY <1>a, <2>2 DEF Register
  <2>4. \A h \in Hosts \ {HostOf[c]} : old # NoConn => clients[h] # old
    BY <1>0, <2>2 DEF OwnerInv
  <2>5. ASSUME NEW h \in Hosts, clients'[h] # NoConn
        PROVE  /\ HostOf[clients'[h]] = h
               /\ clients'[h] \notin closed'
               /\ hpc'[clients'[h]] \in {"replacing", "streaming"}
               /\ \A d \in Conns : closing'[d] # clients'[h]
    <3>1. CASE h = HostOf[c]
      <4>1. clients'[h] = c
        BY <1>0, <2>3, <3>1 DEF TypeOK
      <4>2. old # c
        BY <2>1, <2>2
      <4> QED
        BY <1>0, <2>1, <2>3, <3>1, <4>1, <4>2 DEF TypeOK
    <3>2. CASE h # HostOf[c]
      <4>1. clients'[h] = clients[h] /\ clients[h] \in Conns
        BY <1>0, <2>3, <2>5, <3>2 DEF TypeOK, Entries
      <4>2. clients[h] # c /\ clients[h] # old
        BY <2>1, <2>4, <2>5, <3>2, <4>1
      <4> QED
        BY <1>0, <2>3, <2>5, <4>1, <4>2 DEF TypeOK, OwnerInv
    <3> QED
      BY <3>1, <3>2
  <2>6. ASSUME NEW d \in Conns, closing'[d] # NoConn
        PROVE  /\ closing'[d] \notin closed'
               /\ hpc'[d] \in {"replacing", "unregistering"}
               /\ hpc'[closing'[d]] # "new"
               /\ \A e \in Conns \ {d} : closing'[e] # closing'[d]
    <3>1. CASE d = c
      BY <1>0, <2>1, <2>2, <2>3, <2>6, <3>1 DEF TypeOK, OwnerInv
    <3>2. CASE d # c
      BY <1>0, <2>1, <2>2, <2>3, <2>6, <3>2 DEF TypeOK, Entries, OwnerInv
    <3> QED
      BY <3>1, <3>2
  <2>7. \A d \in closed' : hpc'[d] # "new"
    BY <1>0, <2>3 DEF TypeOK, OwnerInv
  <2> QED
    BY <2>5, <2>6, <2>7 DEF OwnerInv
<1>c. ASSUME NEW c \in Conns, CloseEntry(c) PROVE OwnerInv'
  <2>1. PICK e \in Conns : e = closing[c]
    BY <1>0, <1>c DEF TypeOK, Entries, CloseEntry
  <2>2. /\ clients' = clients /\ closed' = closed \cup {e}
        /\ closing' = [closing EXCEPT ![c] = NoConn]
        /\ hpc' = [hpc EXCEPT ![c] = IF @ = "replacing" THEN "streaming"
                                                        ELSE "finished"]
    BY <1>c, <2>1 DEF CloseEntry
  <2>3. /\ \A h \in Hosts : clients[h] # e
        /\ \A d \in Conns \ {c} : closing[d] # e
        /\ hpc[e] # "new" /\ hpc[c] \in {"replacing", "unregistering"}
    BY <1>0, <2>1 DEF OwnerInv
  <2>4. \A d \in Conns : hpc'[d] = "new" <=> hpc[d] = "new"
    BY <1>0, <2>2, <2>3 DEF TypeOK
  <2>5. \A h \in Hosts : clients[h] # NoConn =>
          hpc'[clients[h]] \in {"replacing", "streaming"}
    <3> SUFFICES ASSUME NEW h \in Hosts, clients[h] # NoConn
                 PROVE  hpc'[clients[h]] \in {"replacing", "streaming"}
      OBVIOUS
    <3>1. clients[h] \in Conns /\ hpc[clients[h]] \in {"replacing", "streaming"}
      BY <1>0 DEF TypeOK, OwnerInv, Entries
    <3> QED
      BY <1>0, <2>2, <2>3, <3>1 DEF TypeOK
  <2>6. \A d \in Conns \ {c} : closing'[d] = closing[d] /\ hpc'[d] = hpc[d]
    BY <1>0, <2>2 DEF TypeOK
  <2>7. closing'[c] = NoConn
    BY <1>0, <2>2 DEF TypeOK
  <2> QED
    BY <1>0, <2>2, <2>3, <2>4, <2>5, <2>6, <2>7 DEF TypeOK, OwnerInv, Entries
<1>f. ASSUME NEW c \in Conns, Return(c) PROVE OwnerInv'
  <2>1. PICK e \in Entries : e = clients[HostOf[c]]
    BY <1>0 DEF TypeOK
  <2>2. /\ clients' = [clients EXCEPT ![HostOf[c]] = NoConn]
        /\ closing' = [closing EXCEPT ![c] = e]
        /\ hpc' = [hpc EXCEPT ![c] = IF e = NoConn THEN "finished"
                                                   ELSE "unregistering"]
        /\ closed' = closed /\ hpc[c] = "streaming"
    BY <1>f, <2>1 DEF Return, MayReturn
  <2>3. closing[c] = NoConn
    BY <1>0, <2>2 DEF OwnerInv
  <2>4. /\ \A h \in Hosts \ {HostOf[c]} : clients'[h] = clients[h]
        /\ \A h \in Hosts : clients'[h] # NoConn =>
             h # HostOf[c] /\ clients[h] # c /\ clients[h] # e
    BY <1>0, <2>1, <2>2 DEF TypeOK, OwnerInv
  <2>5. /\ \A d \in Conns \ {c} : closing'[d] = closing[d] /\ hpc'[d] = hpc[d]
        /\ closing'[c] = e
        /\ hpc'[c] = IF e = NoConn THEN "finished" ELSE "unregistering"
    BY <1>0, <2>2 DEF TypeOK
  <2>6. e # NoConn => /\ e \notin closed /\ hpc[e] \in {"replacing", "streaming"}
                      /\ \A d \in Conns : closing[d] # e
    BY <1>0, <2>1 DEF OwnerInv
  <2>7. ASSUME NEW h \in Hosts, clients'[h] # NoConn
        PROVE  /\ HostOf[clients'[h]] = h
               /\ clients'[h] \notin closed'
               /\ hpc'[clients'[h]] \in {"replacing", "streaming"}
               /\ \A d \in Conns : closing'[d] # clients'[h]
    BY <1>0, <2>2, <2>4, <2>5, <2>7 DEF TypeOK, Entries, OwnerInv
  <2>8. ASSUME NEW d \in Conns, closing'[d] # NoConn
        PROVE  /\ closing'[d] \notin closed'
               /\ hpc'[d] \in {"replacing", "unregistering"}
               /\ hpc'[closing'[d]] # "new"
               /\ \A f \in Conns \ {d} : closing'[f] # closing'[d]
    BY <1>0, <2>2, <2>5, <2>6, <2>8 DEF TypeOK, Entries, OwnerInv
  <2>9. \A d \in closed' : hpc'[d] # "new"
    BY <1>0, <2>2, <2>5 DEF TypeOK, OwnerInv
  <2> QED
    BY <2>7, <2>8, <2>9 DEF OwnerInv
<1>m. CASE UNCHANGED <<clients, closed, hpc, closing>>
  BY <1>0, <1>m DEF OwnerInv
<1> QED
  BY <1>a, <1>c, <1>f, <1>m
  DEF Next, Handle, Closer, Notify, AllServed, vars, hub, handler, PollPending,
      Stream, Disconnect, Lookup, SendBuffered, SendFull, SendPanics,
      CheckRegistered, Release

(* DrainInv: only a lookup increments pending, and it increments that of   *)
(* an entry in the map, which nobody is closing and which is not closed.   *)
LEMMA StepDrainInv == IInv /\ [Next]_vars => DrainInv'
<1> SUFFICES ASSUME IInv, [Next]_vars PROVE DrainInv'
  OBVIOUS
<1> USE SSEHubAssumption
<1>0. TypeOK /\ CountInv /\ TargetInv /\ OwnerInv /\ DrainInv
  BY DEF IInv
<1>a. ASSUME NEW c \in Conns, Register(c) PROVE DrainInv'
  <2>1. closing[c] = NoConn
    BY <1>0, <1>a DEF Register, OwnerInv
  <2> QED
    BY <1>0, <1>a, <2>1 DEF TypeOK, Register, DrainInv
<1>b. ASSUME NEW c \in Conns, PollPending(c) PROVE DrainInv'
  BY <1>0, <1>b DEF PollPending, DrainInv, hub
<1>c. ASSUME NEW c \in Conns, CloseEntry(c) PROVE DrainInv'
  BY <1>0, <1>c DEF TypeOK, CloseEntry, DrainInv
<1>f. ASSUME NEW c \in Conns, Return(c) PROVE DrainInv'
  <2>1. closing[c] = NoConn
    BY <1>0, <1>f DEF Return, MayReturn, OwnerInv
  <2> QED
    BY <1>0, <1>f, <2>1 DEF TypeOK, Return, DrainInv
<1>g. ASSUME NEW s \in Senders, Lookup(s) PROVE DrainInv'
  <2>0. PICK e \in Entries : e = clients[SendsTo[s]]
    BY <1>0 DEF TypeOK
  <2>1. e # NoConn => e \notin closed /\ \A d \in Conns : closing[d] # e
    BY <1>0, <2>0 DEF OwnerInv
  <2>2. \A c \in Conns \ {e} : pending'[c] = pending[c]
    BY <1>0, <1>g, <2>0 DEF TypeOK, Lookup
  <2>3. e = NoConn => pending' = pending
    BY <1>g, <2>0 DEF Lookup
  <2> QED
    BY <1>0, <1>g, <2>1, <2>2, <2>3 DEF TypeOK, Lookup, DrainInv, Entries, handler
<1>l. ASSUME NEW s \in Senders, Release(s) PROVE DrainInv'
  <2>1. target[s] \in Conns /\ s \in Holders(target[s])
    BY <1>0, <1>l DEF TargetInv, Release, Holders
  <2>2. pending[target[s]] # 0
    BY <1>0, <2>1, CountedPositive
  <2>3. \A c \in Conns : pending[c] = 0 => pending'[c] = 0
    BY <1>0, <1>l, <2>2 DEF TypeOK, Release
  <2> QED
    BY <1>0, <1>l, <2>3 DEF TypeOK, Release, DrainInv, Entries, handler
<1>m. CASE UNCHANGED <<pending, closed, closing, drained>>
  BY <1>0, <1>m DEF DrainInv
<1> QED
  BY <1>a, <1>b, <1>c, <1>f, <1>g, <1>l, <1>m
  DEF Next, Handle, Closer, Notify, AllServed, vars, hub, handler, Stream,
      Disconnect, SendBuffered, SendFull, SendPanics, CheckRegistered

(* The inductive invariant holds of the specification.                     *)
LEMMA Inductive == Spec => []IInv
<1>1. IInv /\ [Next]_vars => IInv'
  BY StepTypeOK, StepCountInv, StepTargetInv, StepOwnerInv, StepDrainInv
  DEF IInv
<1> QED
  BY <1>1, InitIInv, PTL DEF Spec

(* The type invariant; its substance is that pending, which the code lets  *)
(* go down without a check, never becomes negative.                        *)
THEOREM TypeCorrect == Spec => []TypeOK
<1>1. IInv => TypeOK
  BY DEF IInv
<1> QED
  BY <1>1, Inductive, PTL

(* The timed send of NotifyBundleUpdated, which no lock covers, never      *)
(* meets a channel that closeHostEntry has closed, for any number of       *)
(* concurrent connections and notifications.                               *)
THEOREM NeverTimedSendOnClosed == Spec => []NoTimedSendOnClosed
<1>1. ASSUME IInv, NEW s \in Timed, spc[s] = "sending"
      PROVE  target[s] \notin closed
  <2>1. s \in Holders(target[s]) /\ target[s] \in Conns
    BY <1>1, SSEHubAssumption DEF IInv, TargetInv, Holders
  <2>2. pending[target[s]] # 0
    BY <1>1, <2>1, CountedPositive DEF IInv
  <2> QED
    BY <1>1, <2>2 DEF IInv, DrainInv
<1>2. IInv => NoTimedSendOnClosed
  BY <1>1 DEF NoTimedSendOnClosed
<1> QED
  BY <1>2, Inductive, PTL

(* Whatever the hub has registered is open and has a handler that streams  *)
(* it, however connections of one host replace each other.                 *)
THEOREM AlwaysServed == Spec => []RegisteredServed
<1>1. IInv => RegisteredServed
  BY DEF IInv, OwnerInv, RegisteredServed
<1> QED
  BY <1>1, Inductive, PTL

(* Register and Unregister never close an agent's channel twice: every     *)
(* entry that leaves the map has exactly one closer.                       *)
THEOREM ClosedByOne == Spec => []ClosedOnce
<1>1. IInv => ClosedOnce
  BY DEF IInv, OwnerInv, ClosedOnce
<1> QED
  BY <1>1, Inductive, PTL
=============================================================================
