----------------------------- MODULE Cpc_proofs ------------------------------
(***************************************************************************)
(* Proofs about the CPC kernel module: its packets, for every set of       *)
(* packets and addresses, queue length, socket buffer size and combination *)
(* of faults (CpcMod), and its route table, for every set of destinations  *)
(* and lifetimes, every width of the clock and of int, and every table     *)
(* size (CpcRt).                                                           *)
(***************************************************************************)
EXTENDS CpcMod, CpcRt, ListFacts, TLAPS

-----------------------------------------------------------------------------
(* The packets: CpcMod *)

\* What each phase of cpc_linux_init and cpc_linux_exit allows, and that the
\* handler has at most one packet in hand, which it took for a message.
Lifecycle ==
  /\ prot # 0 => phase = "up"
  /\ ~Idle => prot # 0
  /\ \A p \in Packets : loc[p] = "held" => ~Idle
  /\ \A p, q \in Packets : loc[p] = "held" /\ loc[q] = "held" => p = q
  /\ \A p \in Packets : loc[p] = "queued" =>
       phase \in {"up", "purging", "purged", "unhook0", "unhooked"}
  /\ \A p \in Packets : hookpc[p] # "idle" =>
       /\ loc[p] = "hooked" /\ p \notin Inbound
       /\ phase \in {"up", "purging", "purged", "unhook0"}

\* WaitingIsExplained, and the same for the packets whose hook relies on a
\* request already and has still to put them in the queue.
Explained ==
  \A p \in Packets :
    loc[p] = "queued" \/ hookpc[p] = "enqueue" =>
      WakerFor(Dst[p]) \/ Dst[p] \in unheard \cup overtaken

IInv == /\ TypeOK
        /\ QueueIntegrity
        /\ Lifecycle
        /\ Explained

------------------------------------------------------------------------------
\* The inductive invariant holds before the module is loaded.
LEMMA InitInv == Init => IInv
<1> SUFFICES ASSUME Init PROVE IInv
  OBVIOUS
<1> USE CpcAssumption DEF Init
<1>1. TypeOK
  <2>1. <<>> \in Seq(Packets) /\ <<>> \in Seq(Addrs)  OBVIOUS
  <2>2. phase \in Phases /\ loc \in [Packets -> Locs]  BY DEF Phases, Locs
  <2>3. hookpc \in [Packets -> {"idle", "find", "request", "enqueue"}]  OBVIOUS
  <2> QED BY <2>1, <2>2, <2>3 DEF TypeOK, Idle
<1>2. QueueIntegrity
  BY DEF QueueIntegrity
<1>3. Lifecycle /\ Explained
  BY DEF Lifecycle, Explained, Idle
<1> QED BY <1>1, <1>2, <1>3 DEF IInv

\* What a destination's waiters rely on stays there when no hook gives up its
\* request, the socket keeps its entries and the message stays.
LEMMA WakersStay ==
  ASSUME NEW d \in Addrs, WakerFor(d),
         \A q \in Packets : hookpc[q] = "request" => hookpc'[q] = "request",
         UNCHANGED <<nlsock, msg>>
  PROVE  WakerFor(d)'
  BY DEF WakerFor, Idle

\* A hook that lets a packet pass, or that spins on ifilock, disturbs nothing.
LEMMA HookPassInv ==
  ASSUME IInv, NEW p \in Packets, HookPass(p) \/ HookSpins(p)
  PROVE  IInv'
<1> USE CpcAssumption DEF IInv, HookPass, HookSpins, HookCalled, lifeVars, queueVars, nlVars, histVars
<1>1. \A q \in Packets : loc'[q] = loc[q] \/ (loc[q] = "stack" /\ loc'[q] = "passed")
  BY DEF TypeOK
<1>2. TypeOK'
  <2>1. loc' \in [Packets -> Locs] /\ stuck' \in BOOLEAN  BY DEF TypeOK, Locs
  <2> QED BY <2>1 DEF TypeOK, Idle
<1>3. QueueIntegrity'
  BY <1>1 DEF QueueIntegrity
<1>4. Lifecycle'
  BY <1>1 DEF Lifecycle, Idle
<1>5. Explained'
  BY <1>1 DEF Explained, WakerFor, Idle
<1> QED BY <1>2, <1>3, <1>4, <1>5

\* The packet passes, or its hook has to look into the queue next.
LEMMA HookLookupInv ==
  ASSUME IInv, NEW p \in Packets, HookLookup(p)
  PROVE  IInv'
<1> USE CpcAssumption DEF IInv
<1>1. /\ loc[p] = "stack" /\ p \notin Inbound /\ phase \in {"up", "purging"}
      /\ UNCHANGED <<phase, stuck, leaked, queue, queue_total, routes, nlsock, prot,
                     peer_pid, msg, unheard, overtaken>>
      /\ \/ loc' = [loc EXCEPT ![p] = "passed"] /\ hookpc' = hookpc
         \/ /\ loc' = [loc EXCEPT ![p] = "hooked"]
            /\ hookpc' = [hookpc EXCEPT ![p] = "find"]
  BY DEF HookLookup, HookCalled, IfKnown, lifeVars, nlVars, histVars
<1>2. /\ \A q \in Packets : q # p => loc'[q] = loc[q] /\ hookpc'[q] = hookpc[q]
      /\ \/ loc'[p] = "passed" /\ hookpc'[p] = hookpc[p]
         \/ loc'[p] = "hooked" /\ hookpc'[p] = "find"
      /\ hookpc[p] = "idle"
  BY <1>1 DEF TypeOK, Lifecycle
<1>3. TypeOK'
  <2>1. loc' \in [Packets -> Locs]  BY <1>1 DEF TypeOK, Locs
  <2>2. hookpc' \in [Packets -> {"idle", "find", "request", "enqueue"}]
    BY <1>1 DEF TypeOK
  <2> QED BY <1>1, <2>1, <2>2 DEF TypeOK, Idle
<1>4. QueueIntegrity'
  <2>1. \A q \in Packets : loc'[q] = "queued" <=> loc[q] = "queued"  BY <1>1, <1>2
  <2> QED BY <1>1, <2>1 DEF QueueIntegrity
<1>5. Lifecycle'
  BY <1>1, <1>2 DEF Lifecycle, Idle
<1>6. Explained'
  <2>1. \A q \in Packets : hookpc[q] = "request" => hookpc'[q] = "request"  BY <1>2
  <2> QED BY <1>1, <1>2, <2>1, WakersStay DEF Explained
<1> QED BY <1>3, <1>4, <1>5, <1>6

\* cpc_queue_find: a hook that leaves the request to another one relies on
\* what that one's queued packet relies on.
LEMMA HookFindInv ==
  ASSUME IInv, NEW p \in Packets, HookFind(p)
  PROVE  IInv'
<1> USE CpcAssumption DEF IInv
<1>1. /\ hookpc[p] = "find"
      /\ UNCHANGED <<phase, stuck, loc, leaked, queue, queue_total, routes, nlsock, prot,
                     peer_pid, msg, unheard, overtaken>>
      /\ hookpc' = [hookpc EXCEPT ![p] = IF Matches(Dst[p]) = {} THEN "request" ELSE "enqueue"]
  BY DEF HookFind, lifeVars, queueVars, nlVars, histVars
<1>2. /\ \A q \in Packets : q # p => hookpc'[q] = hookpc[q]
      /\ hookpc'[p] = IF Matches(Dst[p]) = {} THEN "request" ELSE "enqueue"
  BY <1>1 DEF TypeOK
<1>3. TypeOK'  BY <1>1 DEF TypeOK, Idle
<1>4. QueueIntegrity'  BY <1>1 DEF QueueIntegrity
<1>5. Lifecycle'  BY <1>1, <1>2 DEF Lifecycle, Idle
<1>6. Explained'
  <2>1. \A q \in Packets : hookpc[q] = "request" => hookpc'[q] = "request"  BY <1>1, <1>2
  <2>2. CASE Matches(Dst[p]) = {}
    BY <1>1, <1>2, <2>1, <2>2, WakersStay DEF Explained
  <2>3. CASE Matches(Dst[p]) # {}
    <3>1. PICK i \in DOMAIN queue : Dst[queue[i]] = Dst[p]  BY <2>3 DEF Matches
    <3>2. queue[i] \in Packets /\ loc[queue[i]] = "queued"
      BY DEF TypeOK, QueueIntegrity
    <3>3. WakerFor(Dst[p]) \/ Dst[p] \in unheard \cup overtaken
      BY <3>1, <3>2 DEF Explained
    <3> QED BY <1>1, <1>2, <2>1, <3>3, WakersStay DEF Explained
  <2> QED BY <2>2, <2>3
<1> QED BY <1>3, <1>4, <1>5, <1>6

\* The request is in the protocol's socket, or its destination is unheard.
LEMMA HookRequestInv ==
  ASSUME IInv, NEW p \in Packets, HookRequest(p)
  PROVE  IInv'
<1> USE CpcAssumption DEF IInv
<1>1. /\ hookpc[p] = "request" /\ hookpc' = [hookpc EXCEPT ![p] = "enqueue"]
      /\ UNCHANGED <<phase, stuck, loc, leaked, queue, queue_total, routes, prot,
                     peer_pid, msg, overtaken>>
      /\ \/ nlsock' = Append(nlsock, Dst[p]) /\ unheard' = unheard
         \/ nlsock' = nlsock /\ unheard' = unheard \cup {Dst[p]}
  BY DEF HookRequest, lifeVars, queueVars
<1>2. /\ \A q \in Packets : q # p => hookpc'[q] = hookpc[q]
      /\ hookpc'[p] = "enqueue" /\ Dst[p] \in Addrs
  BY <1>1 DEF TypeOK
<1>3. TypeOK'
  <2>1. nlsock' \in Seq(Addrs) /\ unheard' \subseteq Addrs
    <3>1. nlsock \in Seq(Addrs) /\ unheard \subseteq Addrs  BY DEF TypeOK
    <3>2. Dst[p] \in Addrs  BY <1>2
    <3>3. Append(nlsock, Dst[p]) \in Seq(Addrs)  BY ONLY <3>1, <3>2
    <3>4. unheard \cup {Dst[p]} \subseteq Addrs  BY ONLY <3>1, <3>2
    <3> QED BY ONLY <1>1, <3>1, <3>3, <3>4
  <2>2. hookpc' \in [Packets -> {"idle", "find", "request", "enqueue"}]
    BY <1>1 DEF TypeOK
  <2> QED BY <1>1, <2>1, <2>2 DEF TypeOK, Idle
<1>4. QueueIntegrity'  BY <1>1 DEF QueueIntegrity
<1>5. Lifecycle'  BY <1>1, <1>2 DEF Lifecycle, Idle
<1>6. Explained'
  <2>1. \A i \in DOMAIN nlsock : i \in DOMAIN nlsock' /\ nlsock'[i] = nlsock[i]
    <3>1. CASE nlsock' = nlsock  BY <3>1
    <3>2. CASE nlsock' = Append(nlsock, Dst[p])  BY <1>2, <3>2 DEF TypeOK
    <3> QED BY <1>1, <3>1, <3>2
  <2>2. WakerFor(Dst[p])' \/ Dst[p] \in unheard'
    <3>1. CASE nlsock' = Append(nlsock, Dst[p])
      <4>1. Len(nlsock) + 1 \in DOMAIN nlsock' /\ nlsock'[Len(nlsock) + 1] = Dst[p]
        BY <1>2, <3>1 DEF TypeOK
      <4> QED BY <4>1 DEF WakerFor
    <3>2. CASE unheard' = unheard \cup {Dst[p]}  BY <3>2
    <3> QED BY <1>1, <3>1, <3>2
  <2>3. ASSUME NEW d \in Addrs, d # Dst[p], WakerFor(d) PROVE WakerFor(d)'
    BY <1>1, <1>2, <2>1, <2>3 DEF WakerFor, Idle
  <2>4. unheard \subseteq unheard'  BY <1>1
  <2>5. ASSUME NEW q \in Packets, (loc[q] = "queued" \/ hookpc[q] = "enqueue")'
        PROVE  (WakerFor(Dst[q]) \/ Dst[q] \in unheard \cup overtaken)'
    <3>1. CASE Dst[q] = Dst[p]
      BY <2>2, <3>1 DEF WakerFor
    <3>2. CASE Dst[q] # Dst[p]
      <4>1. loc[q] = "queued" \/ hookpc[q] = "enqueue"  BY <1>1, <1>2, <2>5, <3>2
      <4>2. Dst[q] \in Addrs  OBVIOUS
      <4>3. WakerFor(Dst[q]) \/ Dst[q] \in unheard \cup overtaken  BY <4>1 DEF Explained
      <4>4. CASE WakerFor(Dst[q])
        <5>1. WakerFor(Dst[q])'  BY <2>3, <3>2, <4>2, <4>4
        <5> QED BY <5>1
      <4>5. CASE Dst[q] \in unheard \cup overtaken  BY <1>1, <2>4, <4>5
      <4> QED BY <4>3, <4>4, <4>5
    <3> QED BY <3>1, <3>2
  <2> QED BY <2>5 DEF Explained
<1> QED BY <1>3, <1>4, <1>5, <1>6

\* __cpc_queue_enqueue_entry: the packet is queued, or the hook gives it up.
LEMMA HookEnqueueInv ==
  ASSUME IInv, NEW p \in Packets, HookEnqueue(p)
  PROVE  IInv'
<1> USE CpcAssumption DEF IInv
<1>1. /\ hookpc[p] = "enqueue" /\ hookpc' = [hookpc EXCEPT ![p] = "idle"]
      /\ loc[p] = "hooked" /\ phase \in {"up", "purging", "purged", "unhook0"}
      /\ UNCHANGED <<phase, stuck, routes, nlsock, prot, peer_pid, msg, unheard, overtaken>>
  BY DEF HookEnqueue, lifeVars, nlVars, histVars, Lifecycle
<1>2. /\ \A q \in Packets : q # p => hookpc'[q] = hookpc[q]
      /\ hookpc'[p] = "idle"
  BY <1>1 DEF TypeOK
<1>3. hookpc' \in [Packets -> {"idle", "find", "request", "enqueue"}]
  BY <1>1 DEF TypeOK
<1>4. \A q \in Packets : hookpc[q] = "request" => hookpc'[q] = "request"
  BY <1>1, <1>2
<1>5. CASE EnqueueEntry(p)
  <2>0. /\ queue_total < QueueMaxLen
        /\ loc' = [loc EXCEPT ![p] = "queued"]
        /\ queue' = Append(queue, p)
        /\ queue_total' = queue_total + 1 /\ leaked' = leaked
    BY <1>5 DEF EnqueueEntry
  <2>1. /\ queue \in Seq(Packets) /\ queue' \in Seq(Packets)
        /\ Len(queue) \in Nat
        /\ DOMAIN queue = 1..Len(queue) /\ DOMAIN queue' = 1..(Len(queue) + 1)
        /\ Len(queue') = Len(queue) + 1
        /\ queue'[Len(queue) + 1] = p
        /\ \A i \in DOMAIN queue : queue'[i] = queue[i] /\ queue[i] # p
    <3>1. \A i \in DOMAIN queue : queue[i] \in Packets /\ queue[i] # p
      BY <1>1 DEF TypeOK, QueueIntegrity
    <3> QED BY <2>0, <3>1 DEF TypeOK
  <2>2. /\ loc' \in [Packets -> Locs] /\ loc'[p] = "queued"
        /\ \A q \in Packets : q # p => loc'[q] = loc[q]
    BY <2>0 DEF TypeOK, Locs
  <2>3. TypeOK'
    <3>1. queue_total' \in Nat  BY <2>0 DEF TypeOK
    <3> QED BY <1>1, <1>3, <2>0, <2>1, <2>2, <3>1 DEF TypeOK, Idle
  <2>4. QueueIntegrity'
    <3>1. ASSUME NEW q \in Packets
          PROVE  loc'[q] = "queued" <=> \E i \in DOMAIN queue' : queue'[i] = q
      <4>1. CASE q = p
        <5>1. Len(queue) + 1 \in DOMAIN queue'  BY <2>1
        <5> QED BY <2>1, <2>2, <4>1, <5>1
      <4>2. CASE q # p
        <5>1. (\E i \in DOMAIN queue' : queue'[i] = q)
                <=> \E i \in DOMAIN queue : queue[i] = q
          BY <2>1, <4>2
        <5> QED BY <2>2, <4>2, <5>1 DEF QueueIntegrity
      <4> QED BY <4>1, <4>2
    <3>2. (\A i, j \in DOMAIN queue : queue[i] = queue[j] => i = j)'
      <4>1. \A i, j \in DOMAIN queue : queue[i] = queue[j] => i = j
        BY DEF QueueIntegrity
      <4> QED BY <2>1, <4>1
    <3>3. (queue_total = Len(queue) /\ queue_total <= QueueMaxLen)'
      BY <2>0, <2>1 DEF TypeOK, QueueIntegrity
    <3> QED BY <3>1, <3>2, <3>3 DEF QueueIntegrity
  <2>5. Lifecycle'  BY <1>1, <1>2, <2>2 DEF Lifecycle, Idle
  <2>6. Explained'  BY <1>1, <1>2, <1>4, <2>2, WakersStay DEF Explained
  <2> QED BY <2>3, <2>4, <2>5, <2>6
<1>6. CASE EnqueueRefused(p)
  <2>1. /\ UNCHANGED <<loc, queue, queue_total>> /\ leaked' = leaked \cup {p}
    BY <1>6 DEF EnqueueRefused
  <2>2. TypeOK'  BY <1>1, <1>3, <2>1 DEF TypeOK, Idle
  <2>3. QueueIntegrity'  BY <2>1 DEF QueueIntegrity
  <2>4. Lifecycle'  BY <1>1, <1>2, <2>1 DEF Lifecycle, Idle
  <2>5. Explained'  BY <1>1, <1>2, <1>4, <2>1, WakersStay DEF Explained
  <2> QED BY <2>2, <2>3, <2>4, <2>5
<1>7. EnqueueEntry(p) \/ EnqueueRefused(p)  BY DEF HookEnqueue
<1> HIDE DEF IInv
<1> QED BY <1>5, <1>6, <1>7

------------------------------------------------------------------------------
(***************************************************************************)
(* The protocol.                                                           *)
(***************************************************************************)

\* A message with a type and a destination is not the idle one.
LEMMA MessageIsWork ==
  ASSUME NEW m, m.type \in Types
  PROVE  m # NoMsg
  BY DEF Types, NoMsg

\* The protocol takes a request off its socket and answers it, or deletes a
\* route: the message is handled, or its destination is unheard.
LEMMA DeliverInv ==
  ASSUME IInv, NEW m, m.type \in Types, m.dst \in Addrs, Deliver(m),
         prot # 0, Idle,
         nlsock' \in Seq(Addrs),
         \A i \in DOMAIN nlsock :
           nlsock[i] = m.dst \/ \E j \in DOMAIN nlsock' : nlsock'[j] = nlsock[i],
         UNCHANGED <<lifeVars, queueVars, hookpc, routes, prot, overtaken>>
  PROVE  IInv'
<1> USE CpcAssumption DEF IInv, lifeVars, queueVars
<1>1. \/ peer_pid' = prot /\ msg' = m /\ unheard' = unheard
      \/ unheard' = unheard \cup {m.dst} /\ UNCHANGED <<peer_pid, msg>>
  BY DEF Deliver
<1>2. m # NoMsg  BY MessageIsWork
<1>3. TypeOK'
  <2>1. unheard' \subseteq Addrs  BY <1>1 DEF TypeOK
  <2>2. peer_pid' \in Pids \cup {0}  BY <1>1 DEF TypeOK
  <2>3. (Idle \/ (msg.type \in Types /\ msg.dst \in Addrs))'  BY <1>1 DEF Idle
  <2> QED BY <2>1, <2>2, <2>3 DEF TypeOK
<1>4. QueueIntegrity'  BY DEF QueueIntegrity
<1>5. Lifecycle'  BY <1>1 DEF Lifecycle, Idle
<1>6. Explained'
  <2>1. WakerFor(m.dst)' \/ m.dst \in unheard'
    BY <1>1, <1>2 DEF WakerFor, Idle
  <2>2. ASSUME NEW d, d # m.dst, WakerFor(d)
        PROVE  WakerFor(d)'
    BY <2>2 DEF WakerFor
  <2>3. unheard \subseteq unheard'  BY <1>1
  <2>4. ASSUME NEW q \in Packets, (loc[q] = "queued" \/ hookpc[q] = "enqueue")'
        PROVE  (WakerFor(Dst[q]) \/ Dst[q] \in unheard \cup overtaken)'
    <3>1. CASE Dst[q] = m.dst
      <4>1. CASE m.dst \in unheard'  BY <3>1, <4>1
      <4>2. CASE WakerFor(m.dst)'  BY <3>1, <4>2 DEF WakerFor
      <4> QED BY <2>1, <4>1, <4>2
    <3>2. CASE Dst[q] # m.dst
      <4>1. WakerFor(Dst[q]) \/ Dst[q] \in unheard \cup overtaken
        BY <2>4 DEF Explained
      <4>2. CASE WakerFor(Dst[q])
        <5>1. WakerFor(Dst[q])'  BY <2>2, <3>2, <4>2
        <5> QED BY <5>1
      <4>3. CASE Dst[q] \in unheard \cup overtaken  BY <2>3, <4>3
      <4> QED BY <4>1, <4>2, <4>3
    <3> QED BY <3>1, <3>2
  <2> QED BY <2>4 DEF Explained
<1> QED BY <1>3, <1>4, <1>5, <1>6

\* nl_cpc_callback takes the oldest request and answers it.
LEMMA ProtAnswerInv ==
  ASSUME IInv, ProtAnswer
  PROVE  IInv'
<1> DEFINE d == Head(nlsock)
<1>1. /\ prot # 0 /\ Idle /\ nlsock' = Tail(nlsock)
      /\ UNCHANGED <<lifeVars, queueVars, hookpc, routes, prot, overtaken>>
  BY DEF ProtAnswer
<1>2. /\ d \in Addrs /\ nlsock' \in Seq(Addrs)
      /\ \A i \in DOMAIN nlsock :
           nlsock[i] = d \/ \E j \in DOMAIN nlsock' : nlsock'[j] = nlsock[i]
  <2>1. nlsock \in Seq(Addrs) /\ nlsock # <<>>
    BY DEF ProtAnswer, IInv, TypeOK
  <2>2. d = nlsock[1] /\ d \in Addrs
    BY <2>1
  <2>3. /\ nlsock' \in Seq(Addrs) /\ Len(nlsock') = Len(nlsock) - 1
        /\ \A i \in 1..(Len(nlsock) - 1) : nlsock'[i] = nlsock[i + 1]
    BY <1>1, <2>1
  <2>4. ASSUME NEW i \in DOMAIN nlsock, i # 1
        PROVE  i - 1 \in DOMAIN nlsock' /\ nlsock'[i - 1] = nlsock[i]
    BY <2>1, <2>3, <2>4
  <2> HIDE DEF d
  <2> QED BY <2>2, <2>3, <2>4
<1>3. PICK m \in Answers(d) : Deliver(m)
  BY DEF ProtAnswer
<1>4. m.type \in Types /\ m.dst = d
  BY DEF Answers
<1> HIDE DEF d
<1> QED BY <1>1, <1>2, <1>3, <1>4, DeliverInv

\* cpc_rt_remove sends its message in the same way.
LEMMA ProtRemoveInv ==
  ASSUME IInv, NEW d \in Addrs, ProtRemove(d)
  PROVE  IInv'
<1> DEFINE m == [type |-> "CPC_ROUTE_DEL", dst |-> d]
<1>1. m.type \in Types /\ m.dst = d  BY DEF Types
<1>2. /\ prot # 0 /\ Idle /\ Deliver(m) /\ nlsock' = nlsock
      /\ UNCHANGED <<lifeVars, queueVars, hookpc, routes, prot, overtaken>>
  BY DEF ProtRemove
<1>3. nlsock' \in Seq(Addrs)  BY <1>2 DEF IInv, TypeOK
<1>4. \A i \in DOMAIN nlsock :
        nlsock[i] = m.dst \/ \E j \in DOMAIN nlsock' : nlsock'[j] = nlsock[i]
  BY <1>2
<1> HIDE DEF m
<1> QED BY <1>1, <1>2, <1>3, <1>4, DeliverInv

\* A protocol starts, or ends and leaves its unread requests unheard.
LEMMA ProtLifeInv ==
  ASSUME IInv, ProtStart \/ ProtExit
  PROVE  IInv'
<1> USE CpcAssumption DEF IInv
<1>1. UNCHANGED <<phase, stuck, loc, leaked, queue, queue_total, hookpc, routes,
                  peer_pid, msg, overtaken>>
  BY DEF ProtStart, ProtExit, lifeVars, queueVars, histVars
<1>2. CASE ProtStart
  <2>1. /\ prot' \in Pids /\ phase = "up" /\ UNCHANGED <<nlsock, unheard>>
    BY <1>2 DEF ProtStart, histVars
  <2>2. TypeOK'  BY <1>1, <2>1 DEF TypeOK, Idle
  <2>3. QueueIntegrity'  BY <1>1 DEF QueueIntegrity
  <2>4. Lifecycle'  BY <1>1, <2>1 DEF Lifecycle, Idle
  <2>5. Explained'  BY <1>1, <2>1 DEF Explained, WakerFor, Idle
  <2> QED BY <2>2, <2>3, <2>4, <2>5
<1>3. CASE ProtExit
  <2>1. /\ Idle /\ prot' = 0 /\ nlsock' = <<>>
        /\ unheard' = unheard \cup {nlsock[i] : i \in DOMAIN nlsock}
    BY <1>3 DEF ProtExit
  <2>2. TypeOK'
    <3>1. <<>> \in Seq(Addrs)  OBVIOUS
    <3>2. {nlsock[i] : i \in DOMAIN nlsock} \subseteq Addrs  BY DEF TypeOK
    <3>3. unheard' \subseteq Addrs  BY <2>1, <3>2 DEF TypeOK
    <3> QED BY <1>1, <2>1, <3>1, <3>3 DEF TypeOK, Idle
  <2>3. QueueIntegrity'  BY <1>1 DEF QueueIntegrity
  <2>4. Lifecycle'  BY <1>1, <2>1 DEF Lifecycle, Idle
  <2>5. Explained'
    BY <1>1, <2>1 DEF Explained, WakerFor, Idle
  <2> QED BY <2>2, <2>3, <2>4, <2>5
<1> QED BY <1>2, <1>3

------------------------------------------------------------------------------
(***************************************************************************)
(* cpc_netlink_receive_peer.                                               *)
(***************************************************************************)

\* The table is changed (or cannot be); the message keeps its destination.
LEMMA ChangeTableInv ==
  ASSUME IInv, ChangeTable
  PROVE  IInv'
<1> USE CpcAssumption DEF IInv
<1>1. /\ ~Idle /\ msg' = MsgWithTable
      /\ UNCHANGED <<phase, stuck, loc, leaked, queue, queue_total, hookpc, nlsock,
                     prot, peer_pid, unheard, overtaken>>
  BY DEF ChangeTable, lifeVars, queueVars, histVars
<1>2. msg.type \in Types /\ msg.dst \in Addrs  BY <1>1 DEF TypeOK
<1>3. msg'.type = msg.type /\ msg'.dst = msg.dst  BY <1>1 DEF MsgWithTable
<1>4. msg' # NoMsg  BY <1>2, <1>3, MessageIsWork
<1>5. routes' \subseteq Addrs
  <2>1. routes \subseteq Addrs  BY DEF TypeOK
  <2>2. routes' \in {routes \cup {msg.dst}, routes, routes \ {msg.dst}}
    BY DEF ChangeTable
  <2> QED BY <1>2, <2>1, <2>2
<1>6. TypeOK'  BY <1>1, <1>2, <1>3, <1>5 DEF TypeOK
<1>7. QueueIntegrity'  BY <1>1 DEF QueueIntegrity
<1>8. Lifecycle'  BY <1>1, <1>4 DEF Lifecycle, Idle
<1>9. Explained'  BY <1>1, <1>3, <1>4 DEF Explained, WakerFor, Idle
<1> QED BY <1>6, <1>7, <1>8, <1>9

\* One round of the verdict loop takes the oldest entry off the list.
LEMMA DequeueInv ==
  ASSUME IInv, Dequeue
  PROVE  IInv'
<1> USE CpcAssumption DEF IInv
<1>1. PICK i \in DOMAIN queue :
        /\ loc' = [loc EXCEPT ![queue[i]] = "held"]
        /\ queue' = RemoveAt(queue, i)
  BY DEF Dequeue
<1>2. /\ ~Idle /\ NoneHeld
      /\ queue_total' = queue_total - 1
      /\ UNCHANGED <<phase, stuck, leaked, hookpc, routes, nlsock, prot, peer_pid, msg,
                     unheard, overtaken>>
  BY DEF Dequeue, lifeVars, nlVars, histVars
<1> DEFINE h == queue[i]
<1>3. queue \in Seq(Packets) /\ i \in 1..Len(queue) /\ h \in Packets /\ loc[h] = "queued"
  BY DEF TypeOK, QueueIntegrity
<1>4. /\ queue' \in Seq(Packets) /\ Len(queue') = Len(queue) - 1
      /\ \A j \in 1..(Len(queue) - 1) :
           queue'[j] = IF j < i THEN queue[j] ELSE queue[j + 1]
  BY <1>1, <1>3, RemoveAtFacts
<1>5. /\ \A j \in DOMAIN queue' : \E k \in DOMAIN queue : k # i /\ queue'[j] = queue[k]
      /\ \A k \in DOMAIN queue :
           k # i => \E j \in DOMAIN queue' : queue'[j] = queue[k]
  BY <1>1, <1>3, RemoveAtEntries
<1>6. /\ loc' \in [Packets -> Locs]
      /\ \A p \in Packets : loc'[p] = IF p = h THEN "held" ELSE loc[p]
  BY <1>1, <1>3 DEF TypeOK, Locs
<1>7. TypeOK'
  <2>1. queue_total' \in Nat  BY <1>2, <1>3 DEF TypeOK, QueueIntegrity
  <2> QED BY <1>2, <1>4, <1>6, <2>1 DEF TypeOK, Idle
<1>8. QueueIntegrity'
  <2>1. \A p \in Packets : loc'[p] = "queued" <=> \E j \in DOMAIN queue' : queue'[j] = p
    BY <1>3, <1>5, <1>6 DEF QueueIntegrity
  <2>2. ASSUME NEW j \in DOMAIN queue', NEW k \in DOMAIN queue', queue'[j] = queue'[k]
        PROVE  j = k
    <3> DEFINE m(x) == IF x < i THEN x ELSE x + 1
    <3>1. j \in 1..(Len(queue) - 1) /\ k \in 1..(Len(queue) - 1) /\ Len(queue) \in Nat
      BY <1>3, <1>4
    <3>2. /\ m(j) \in DOMAIN queue /\ m(k) \in DOMAIN queue
          /\ queue'[j] = queue[m(j)] /\ queue'[k] = queue[m(k)]
      BY <1>3, <1>4, <3>1
    <3>3. m(j) = m(k)
      <4> HIDE DEF m
      <4> QED BY <2>2, <3>2 DEF QueueIntegrity
    <3> QED BY <1>3, <3>1, <3>3
  <2>3. queue_total' = Len(queue') /\ queue_total' <= QueueMaxLen
    BY <1>2, <1>3, <1>4 DEF QueueIntegrity, TypeOK
  <2> QED BY <2>1, <2>2, <2>3 DEF QueueIntegrity
<1>9. Lifecycle'
  BY <1>2, <1>3, <1>6 DEF Lifecycle, Idle, NoneHeld
<1>10. Explained'
  BY <1>2, <1>6 DEF Explained, WakerFor, Idle
<1> QED BY <1>7, <1>8, <1>9, <1>10

\* The packet in hand leaves it; a failed copy ends the loop as well, and
\* leaves the destination unheard.
LEMMA DisposeInv ==
  ASSUME IInv, NEW p \in Packets, Verdict(p) \/ SendCopy(p) \/ CopyFails(p)
  PROVE  IInv'
<1> USE CpcAssumption DEF IInv
<1>1. PICK l \in {"sent", "freed", "hooked"} : loc' = [loc EXCEPT ![p] = l]
  BY DEF Verdict, SendCopy, CopyFails
<1>2. /\ loc[p] = "held" /\ ~Idle
      /\ UNCHANGED <<phase, stuck, queue, queue_total, hookpc, routes, nlsock, prot,
                     peer_pid, overtaken>>
      /\ \/ UNCHANGED <<msg, unheard>>
         \/ msg' = NoMsg /\ unheard' = unheard \cup {msg.dst}
  BY DEF Verdict, SendCopy, CopyFails, lifeVars, nlVars, histVars, Lifecycle
<1>3. leaked' \subseteq Packets
  BY DEF Verdict, SendCopy, CopyFails, TypeOK
<1>4. /\ loc' \in [Packets -> Locs]
      /\ \A q \in Packets : loc'[q] = IF q = p THEN l ELSE loc[q]
  BY <1>1 DEF TypeOK, Locs
<1>5. TypeOK'
  <2>1. msg.dst \in Addrs  BY <1>2 DEF TypeOK
  <2>2. unheard' \subseteq Addrs  BY <1>2, <2>1 DEF TypeOK
  <2>3. (Idle \/ (msg.type \in Types /\ msg.dst \in Addrs))'  BY <1>2 DEF Idle, TypeOK
  <2> QED BY <1>2, <1>3, <1>4, <2>2, <2>3 DEF TypeOK
<1>6. QueueIntegrity'
  <2>1. \A q \in Packets : loc'[q] = "queued" <=> loc[q] = "queued"
    BY <1>2, <1>4
  <2> QED BY <1>2, <2>1 DEF QueueIntegrity
<1>7. Lifecycle'
  <2>1. \A q \in Packets : q # p => loc[q] # "held"  BY <1>2 DEF Lifecycle
  <2>2. hookpc[p] = "idle"  BY <1>2 DEF Lifecycle
  <2> QED BY <1>2, <1>4, <2>1, <2>2 DEF Lifecycle, Idle
<1>8. Explained'
  BY <1>2, <1>4 DEF Explained, WakerFor, Idle
<1> QED BY <1>5, <1>6, <1>7, <1>8

\* The loop ends when no packet for its destination is queued; hooks that
\* come later find the destination among the overtaken ones.
LEMMA LoopEndInv ==
  ASSUME IInv, LoopEnd
  PROVE  IInv'
<1> USE CpcAssumption DEF IInv
<1>1. /\ ~Idle /\ NoneHeld /\ Matches(msg.dst) = {}
      /\ msg' = NoMsg /\ unheard' = unheard \ {msg.dst}
      /\ overtaken' = IF TooLate(msg.dst) THEN overtaken \cup {msg.dst}
                                          ELSE overtaken \ {msg.dst}
      /\ UNCHANGED <<phase, stuck, loc, leaked, queue, queue_total, hookpc, routes,
                     nlsock, prot, peer_pid>>
  BY DEF LoopEnd, lifeVars, queueVars
<1>2. \A p \in Packets : loc[p] = "queued" => Dst[p] # msg.dst
  BY <1>1 DEF Matches, QueueIntegrity
<1>3. TypeOK'
  <2>1. msg.dst \in Addrs  BY <1>1 DEF TypeOK
  <2>2. unheard' \subseteq Addrs /\ overtaken' \subseteq Addrs  BY <1>1, <2>1 DEF TypeOK
  <2> QED BY <1>1, <2>2 DEF TypeOK, Idle
<1>4. QueueIntegrity'  BY <1>1 DEF QueueIntegrity
<1>5. Lifecycle'  BY <1>1 DEF Lifecycle, Idle, NoneHeld
<1>6. Explained'
  <2>1. ASSUME NEW q \in Packets, (loc[q] = "queued" \/ hookpc[q] = "enqueue")'
        PROVE  (WakerFor(Dst[q]) \/ Dst[q] \in unheard \cup overtaken)'
    <3>1. CASE Dst[q] = msg.dst
      <4>1. TooLate(msg.dst)  BY <1>1, <1>2, <2>1, <3>1 DEF TooLate
      <4> QED BY <1>1, <3>1, <4>1
    <3>2. CASE Dst[q] # msg.dst
      <4>1. WakerFor(Dst[q]) \/ Dst[q] \in unheard \cup overtaken
        BY <1>1, <2>1 DEF Explained
      <4> QED BY <1>1, <3>2, <4>1 DEF WakerFor, Idle
    <3> QED BY <3>1, <3>2
  <2> QED BY <2>1 DEF Explained
<1> QED BY <1>3, <1>4, <1>5, <1>6

\* A route expires: the queue is not told.
LEMMA RtExpireInv ==
  ASSUME IInv, NEW d \in Addrs, RtExpire(d)
  PROVE  IInv'
<1> USE DEF IInv, RtExpire, lifeVars, queueVars, nlVars, histVars
<1>1. TypeOK'  BY DEF TypeOK, Idle
<1>2. QueueIntegrity'  BY DEF QueueIntegrity
<1>3. Lifecycle' /\ Explained'  BY DEF Lifecycle, Explained, WakerFor, Idle
<1> QED BY <1>1, <1>2, <1>3

------------------------------------------------------------------------------
(***************************************************************************)
(* Loading and unloading.                                                  *)
(***************************************************************************)

\* cpc_queue_flush runs when no hook is under way any more.
LEMMA FlushInv ==
  ASSUME IInv, Flush, phase' \in {"absent", "flushed"},
         phase \in {"netlink", "hook0", "unhooked"},
         UNCHANGED <<stuck, hookpc, routes, nlVars, histVars>>
  PROVE  IInv'
<1> USE CpcAssumption DEF IInv
<1>1. /\ \A p \in Packets : loc'[p] = IF loc[p] = "queued" THEN "freed" ELSE loc[p]
      /\ loc' \in [Packets -> Locs]
  BY DEF Flush, TypeOK, Locs
<1>2. /\ queue' = <<>> /\ queue_total' = 0
      /\ UNCHANGED <<stuck, leaked, hookpc, routes, nlsock, prot, peer_pid, msg,
                     unheard, overtaken>>
  BY DEF Flush, nlVars, histVars
<1>3. \A p \in Packets : loc'[p] # "queued" /\ loc'[p] # "held" /\ hookpc[p] = "idle"
  BY <1>1 DEF Lifecycle, TypeOK
<1>4. TypeOK'
  <2>1. <<>> \in Seq(Packets)  OBVIOUS
  <2> QED BY <1>1, <1>2, <2>1 DEF TypeOK, Phases, Idle
<1>5. QueueIntegrity'
  <2>1. Len(<<>>) = 0 /\ DOMAIN <<>> = {} /\ 0 <= QueueMaxLen  OBVIOUS
  <2> QED BY <1>2, <1>3, <2>1 DEF QueueIntegrity
<1>6. Lifecycle'  BY <1>2, <1>3 DEF Lifecycle, Idle
<1>7. Explained'  BY <1>2, <1>3 DEF Explained
<1> QED BY <1>4, <1>5, <1>6, <1>7

\* A step of init or exit that leaves packets, routes and netlink alone.
LEMMA AdvanceInv ==
  ASSUME IInv,
         \/ Advance("netlink", "hook0") \/ Advance("hook0", "hook2")
         \/ Advance("hook2", "adding") \/ Advance("adding", "up")
         \/ PurgeBegin \/ Advance("purging", "purged")
         \/ Unhook(Inbound, "purged", "unhook0")
         \/ Unhook(Packets \ Inbound, "unhook0", "unhooked")
  PROVE  IInv'
<1> USE CpcAssumption DEF IInv
<1>1. UNCHANGED <<stuck, loc, leaked, queue, queue_total, hookpc, routes, nlsock, prot,
                  peer_pid, msg, unheard, overtaken>>
  BY DEF Advance, PurgeBegin, Unhook, queueVars, nlVars, histVars
<1>2. \/ phase \in {"netlink", "hook0", "hook2", "adding"} /\ phase' \in {"hook0", "hook2", "adding", "up"}
      \/ phase = "up" /\ phase' = "purging" /\ prot = 0
      \/ phase = "purging" /\ phase' = "purged"
      \/ phase = "purged" /\ phase' = "unhook0"
      \/ phase = "unhook0" /\ phase' = "unhooked" /\ Quiet(Packets \ Inbound)
  BY DEF Advance, PurgeBegin, Unhook
<1>3. TypeOK'  BY <1>1, <1>2 DEF TypeOK, Phases, Idle
<1>4. QueueIntegrity'  BY <1>1 DEF QueueIntegrity
<1>5. Lifecycle'
  <2>1. CASE phase = "unhook0"
    <3>1. \A p \in Packets : hookpc[p] = "idle"
      BY <1>2, <2>1 DEF Quiet, Lifecycle
    <3> QED BY <1>1, <1>2, <2>1, <3>1 DEF Lifecycle, Idle
  <2>2. CASE phase # "unhook0"
    BY <1>1, <1>2, <2>2 DEF Lifecycle, Idle
  <2> QED BY <2>1, <2>2
<1>6. Explained'  BY <1>1 DEF Explained, WakerFor, Idle
<1> QED BY <1>3, <1>4, <1>5, <1>6

\* Loading starts with a fresh queue, which was empty already.
LEMMA LoadInv ==
  ASSUME IInv, Load
  PROVE  IInv'
<1> USE CpcAssumption DEF IInv, Load, histVars
<1>1. \A p \in Packets : loc[p] # "queued" /\ hookpc[p] = "idle"
  BY DEF Lifecycle
<1>2. TypeOK'
  <2>1. <<>> \in Seq(Packets)  OBVIOUS
  <2> QED BY <2>1 DEF TypeOK, Phases, Idle
<1>3. QueueIntegrity'
  <2>1. Len(<<>>) = 0 /\ DOMAIN <<>> = {} /\ 0 <= QueueMaxLen  OBVIOUS
  <2> QED BY <1>1, <2>1 DEF QueueIntegrity
<1>4. Lifecycle'  BY <1>1 DEF Lifecycle, Idle
<1>5. Explained'  BY <1>1 DEF Explained
<1> QED BY <1>2, <1>3, <1>4, <1>5

\* cpc_rt_fini and cpc_netlink_fini: nobody waits any more.
LEMMA FiniInv ==
  ASSUME IInv, RtFini \/ NetlinkFini
  PROVE  IInv'
<1> USE CpcAssumption DEF IInv
<1>1. /\ UNCHANGED <<stuck, loc, leaked, queue, queue_total, hookpc, nlsock, prot, peer_pid, msg>>
      /\ routes' \subseteq routes /\ unheard' \subseteq unheard /\ overtaken' \subseteq overtaken
      /\ phase \in {"flushed", "unrouted"} /\ phase' \in {"unrouted", "absent"}
  BY DEF RtFini, NetlinkFini, queueVars, nlVars, histVars
<1>2. \A p \in Packets : loc[p] # "queued" /\ hookpc[p] = "idle"
  BY <1>1 DEF Lifecycle
<1>3. TypeOK'  BY <1>1 DEF TypeOK, Phases, Idle
<1>4. QueueIntegrity'  BY <1>1 DEF QueueIntegrity
<1>5. Lifecycle'  BY <1>1, <1>2 DEF Lifecycle, Idle
<1>6. Explained'  BY <1>1, <1>2 DEF Explained
<1> QED BY <1>3, <1>4, <1>5, <1>6

\* A step that changes nothing keeps the invariant.
LEMMA StutterInv ==
  ASSUME IInv, UNCHANGED vars
  PROVE  IInv'
<1> USE DEF IInv, vars, lifeVars, queueVars, nlVars, histVars
<1>1. TypeOK'  BY DEF TypeOK, Idle
<1>2. QueueIntegrity'  BY DEF QueueIntegrity
<1>3. Lifecycle' /\ Explained'  BY DEF Lifecycle, Explained, WakerFor, Idle
<1> QED BY <1>1, <1>2, <1>3

\* Every step of the module and the protocol keeps the inductive invariant.
LEMMA NextInv == IInv /\ [Next]_vars => IInv'
<1> SUFFICES ASSUME IInv, [Next]_vars PROVE IInv'
  OBVIOUS
<1>1. CASE UNCHANGED vars \/ Halted  BY <1>1, StutterInv DEF Halted
<1>2. ASSUME NEW p \in Packets, HookStep(p) \/ HookRest(p) \/ HookSpins(p)
      PROVE  IInv'
  BY <1>2, HookPassInv, HookLookupInv, HookFindInv, HookRequestInv, HookEnqueueInv
     DEF HookStep, HookRest
<1>3. CASE ProtAnswer \/ ProtStart \/ ProtExit
  BY <1>3, ProtAnswerInv, ProtLifeInv
<1>4. ASSUME NEW d \in Addrs, ProtRemove(d) \/ RtExpire(d) PROVE IInv'
  BY <1>4, ProtRemoveInv, RtExpireInv
<1>5. CASE HandlerStep
  BY <1>5, ChangeTableInv, DequeueInv, LoopEndInv, DisposeInv DEF HandlerStep
<1>6. CASE LoadStep
  <2>1. CASE Load  BY <2>1, LoadInv
  <2>2. CASE InitFails  BY <2>2, FlushInv DEF InitFails
  <2> QED BY <1>6, <2>1, <2>2, AdvanceInv DEF LoadStep
<1>7. CASE UnloadStep
  <2>1. CASE QueueFini  BY <2>1, FlushInv DEF QueueFini
  <2>2. CASE RtFini \/ NetlinkFini  BY <2>2, FiniInv
  <2> QED BY <1>7, <2>1, <2>2, AdvanceInv DEF UnloadStep
<1> QED BY <1>1, <1>2, <1>3, <1>4, <1>5, <1>6, <1>7 DEF Next

\* The inductive invariant holds in every reachable state.
LEMMA Inductive == Spec => []IInv
  BY InitInv, NextInv, PTL DEF Spec

------------------------------------------------------------------------------
(***************************************************************************)
(* The results.                                                            *)
(***************************************************************************)

\* Every variable keeps its type, through every interleaving of hooks,
\* messages, protocol restarts and module reloads.
THEOREM TypeCorrect == Spec => []TypeOK
<1>1. IInv => TypeOK  BY DEF IInv
<1> QED BY <1>1, Inductive, PTL

\* queue_list and queue_total agree with what was enqueued and taken out, and
\* stay within queue_maxlen (cpc_queue.c).
THEOREM QueueStaysSound == Spec => []QueueIntegrity
<1>1. IInv => QueueIntegrity  BY DEF IInv
<1> QED BY <1>1, Inductive, PTL

\* cpc_hook strands a packet in two ways only: a request or its answer was
\* lost, or the answer came between the hook's request and its enqueue.
THEOREM StrandedOnlyTwoWays == Spec => []WaitingIsExplained
<1>1. IInv => WaitingIsExplained  BY DEF IInv, Explained, WaitingIsExplained
<1> QED BY <1>1, Inductive, PTL

\* cpc_linux_exit, and a cpc_linux_init that fails, leave no queued packet,
\* running hook or message behind.
THEOREM UnloadLeavesNothing == Spec => []UnloadedIsEmpty
<1>1. IInv => UnloadedIsEmpty
  <2> SUFFICES ASSUME IInv, phase \in {"absent", "flushed", "unrouted"}
               PROVE  /\ \A p \in Packets : /\ loc[p] \notin {"queued", "held"}
                                            /\ hookpc[p] = "idle"
                      /\ Idle
    BY DEF UnloadedIsEmpty
  <2>1. Idle  BY DEF IInv, Lifecycle
  <2>2. ASSUME NEW p \in Packets
        PROVE  loc[p] \notin {"queued", "held"} /\ hookpc[p] = "idle"
    BY <2>1 DEF IInv, Lifecycle
  <2> QED BY <2>1, <2>2
<1> QED BY <1>1, Inductive, PTL

\* The queue, its counter and the buffers agree, and unloading empties it.
THEOREM QueueSound == Spec => []QueueIsSound
<1>1. TypeOK /\ QueueIntegrity /\ UnloadedIsEmpty => QueueIsSound  BY DEF QueueIsSound
<1> QED BY <1>1, TypeCorrect, QueueStaysSound, UnloadLeavesNothing, PTL

\* Nothing but loading the module again changes a port id that was latched,
\* whoever sends messages meanwhile (cpc_netlink_rcv_skb).
THEOREM LatchHolds == Spec => PeerIsLatched
<1>1. [Next]_vars => (peer_pid # 0 /\ phase # "absent" => peer_pid' = peer_pid)
  <2> SUFFICES ASSUME [Next]_vars, peer_pid # 0, phase # "absent"
               PROVE  peer_pid' = peer_pid
    OBVIOUS
  <2>1. CASE UNCHANGED vars \/ Halted  BY <2>1 DEF Halted, vars, nlVars
  <2>2. ASSUME NEW p \in Packets, HookStep(p) \/ HookRest(p) \/ HookSpins(p)
        PROVE  peer_pid' = peer_pid
    BY <2>2 DEF HookStep, HookRest, HookPass, HookLookup, HookFind, HookRequest,
                HookEnqueue, HookSpins, nlVars
  <2>3. ASSUME NEW m, Deliver(m) PROVE peer_pid' = peer_pid
    BY <2>3 DEF Deliver, PeerAccepts
  <2>4. CASE ProtAnswer \/ ProtStart \/ ProtExit
    BY <2>3, <2>4 DEF ProtAnswer, ProtStart, ProtExit
  <2>5. ASSUME NEW d \in Addrs, ProtRemove(d) \/ RtExpire(d) PROVE peer_pid' = peer_pid
    BY <2>3, <2>5 DEF ProtRemove, RtExpire, nlVars
  <2>6. CASE HandlerStep
    BY <2>6 DEF HandlerStep, ChangeTable, Dequeue, LoopEnd, Verdict, SendCopy, CopyFails, nlVars
  <2>7. CASE LoadStep
    BY <2>7 DEF LoadStep, Load, Advance, InitFails, nlVars
  <2>8. CASE UnloadStep
    BY <2>8 DEF UnloadStep, PurgeBegin, Advance, Unhook, QueueFini, RtFini, NetlinkFini, nlVars
  <2> QED BY <2>1, <2>2, <2>4, <2>5, <2>6, <2>7, <2>8 DEF Next
<1> QED BY <1>1, PTL DEF Spec, PeerIsLatched

------------------------------------------------------------------------------
(***************************************************************************)
(* The module keeps the promise of PacketCustody.                          *)
(***************************************************************************)
Own == [p \in Packets |-> OwnerOf(loc[p])]

\* One packet changes place: what the change means for its owner.
LEMMA OwnerMoves ==
  ASSUME NEW p \in Packets, NEW l, loc \in [Packets -> Locs],
         loc' = [loc EXCEPT ![p] = l]
  PROVE  Own' = [Own EXCEPT ![p] = OwnerOf(l)]
  BY DEF Own

\* A packet that moves inside the module keeps its owner.
LEMMA OwnerStays ==
  ASSUME NEW p \in Packets, NEW l \in {"hooked", "queued", "held"},
         loc \in [Packets -> Locs], loc[p] \in {"hooked", "queued", "held"},
         loc' = [loc EXCEPT ![p] = l]
  PROVE  Own' = Own
  BY DEF Own, OwnerOf

\* A step of cpc_hook is a Pass, a Take or a stutter of PacketCustody.
LEMMA HookRefines ==
  ASSUME IInv, NEW p \in Packets, HookStep(p) \/ HookRest(p) \/ HookSpins(p)
  PROVE  [Custody!Next]_Own
<1>1. loc \in [Packets -> Locs]  BY DEF IInv, TypeOK
<1>2. ASSUME loc[p] = "stack", loc' = [loc EXCEPT ![p] = "passed"]
      PROVE  [Custody!Next]_Own
  <2>1. Own[p] = "stack" /\ Own' = [Own EXCEPT ![p] = "passed"]
    BY <1>1, <1>2, OwnerMoves DEF OwnerOf, Own
  <2>2. Custody!Pass(p)  BY <2>1 DEF Custody!Pass, Own
  <2> QED BY <2>2 DEF Custody!Next
<1>3. ASSUME loc[p] = "stack", loc' = [loc EXCEPT ![p] = "hooked"]
      PROVE  [Custody!Next]_Own
  <2>1. Own[p] = "stack" /\ Own' = [Own EXCEPT ![p] = "module"]
    BY <1>1, <1>3, OwnerMoves DEF OwnerOf, Own
  <2>2. Custody!Take(p)  BY <2>1 DEF Custody!Take, Own
  <2> QED BY <2>2 DEF Custody!Next
<1>4. CASE HookStep(p)
  BY <1>2, <1>3, <1>4 DEF HookStep, HookPass, HookLookup, HookCalled
<1>5. CASE HookEnqueue(p)
  <2>1. loc[p] = "hooked"  BY <1>5 DEF HookEnqueue, IInv, Lifecycle
  <2>2. loc' = loc \/ loc' = [loc EXCEPT ![p] = "queued"]
    BY <1>5 DEF HookEnqueue, EnqueueEntry, EnqueueRefused
  <2>3. Own' = Own  BY <1>1, <2>1, <2>2, OwnerStays DEF Own
  <2> QED BY <2>3
<1>6. CASE HookFind(p) \/ HookRequest(p) \/ HookSpins(p)
  BY <1>6 DEF HookFind, HookRequest, HookSpins, queueVars, Own
<1> QED BY <1>4, <1>5, <1>6 DEF HookRest

\* A step of cpc_netlink_receive_peer is a Transmit, a Discard or a stutter.
LEMMA HandlerRefines ==
  ASSUME IInv, HandlerStep
  PROVE  [Custody!Next]_Own
<1>1. loc \in [Packets -> Locs]  BY DEF IInv, TypeOK
<1>2. CASE Dequeue
  <2>1. PICK i \in DOMAIN queue : loc' = [loc EXCEPT ![queue[i]] = "held"]
    BY <1>2 DEF Dequeue
  <2>2. queue[i] \in Packets /\ loc[queue[i]] = "queued"
    BY DEF IInv, TypeOK, QueueIntegrity
  <2>3. Own' = Own  BY <1>1, <2>1, <2>2, OwnerStays
  <2> QED BY <2>3
<1>3. CASE ChangeTable \/ LoopEnd  BY <1>3 DEF ChangeTable, LoopEnd, queueVars, Own
<1>4. ASSUME NEW p \in Packets, loc[p] = "held", loc' = [loc EXCEPT ![p] = "sent"]
      PROVE  [Custody!Next]_Own
  <2>1. Own[p] = "module" /\ Own' = [Own EXCEPT ![p] = "sent"]
    BY <1>1, <1>4, OwnerMoves DEF OwnerOf, Own
  <2>2. Custody!Transmit(p)  BY <2>1 DEF Custody!Transmit, Own
  <2> QED BY <2>2 DEF Custody!Next
<1>5. ASSUME NEW p \in Packets, loc[p] = "held", loc' = [loc EXCEPT ![p] = "freed"]
      PROVE  [Custody!Next]_Own
  <2>1. Own[p] = "module" /\ Own' = [Own EXCEPT ![p] = "discarded"]
    BY <1>1, <1>5, OwnerMoves DEF OwnerOf, Own
  <2>2. Custody!Discard({p})  BY <2>1 DEF Custody!Discard, Own
  <2> QED BY <2>2 DEF Custody!Next
<1>6. ASSUME NEW p \in Packets, CopyFails(p) PROVE [Custody!Next]_Own
  <2>1. Own' = Own  BY <1>1, <1>6, OwnerStays DEF CopyFails
  <2> QED BY <2>1
<1>7. ASSUME NEW p \in Packets, Verdict(p) \/ SendCopy(p) PROVE [Custody!Next]_Own
  BY <1>4, <1>5, <1>7 DEF Verdict, SendCopy
<1> QED BY <1>2, <1>3, <1>6, <1>7 DEF HandlerStep

\* cpc_queue_flush is one Discard of all queued packets.
LEMMA FlushRefines ==
  ASSUME Flush
  PROVE  [Custody!Next]_Own
<1> DEFINE S == {p \in Packets : loc[p] = "queued"}
<1>1. \A p \in S : Own[p] = "module"  BY DEF Own, OwnerOf
<1>2. Own' = [p \in Packets |-> IF p \in S THEN "discarded" ELSE Own[p]]
  BY DEF Own, OwnerOf, Flush
<1>3. Custody!Discard(S)  BY <1>1, <1>2 DEF Custody!Discard, Own
<1> QED BY <1>3 DEF Custody!Next

\* Through repeated verdicts, copies that fail, restarts of the protocol and
\* unloading, a packet that cpc_hook took over is handed on or freed at most
\* once and never returns to the stack.
THEOREM KeepsCustody == Spec => CustodySpec
<1>1. Init => Custody!Init
  BY DEF Init, Custody!Init, OwnerOf
<1>2. IInv /\ [Next]_vars => [Custody!Next]_Own
  <2> SUFFICES ASSUME IInv, [Next]_vars PROVE [Custody!Next]_Own
    OBVIOUS
  <2>1. CASE UNCHANGED vars \/ Halted  BY <2>1 DEF Halted, vars, queueVars, Own
  <2>2. ASSUME NEW p \in Packets, HookStep(p) \/ HookRest(p) \/ HookSpins(p)
        PROVE  [Custody!Next]_Own
    BY <2>2, HookRefines
  <2>3. CASE ProtAnswer \/ ProtStart \/ ProtExit
    BY <2>3 DEF ProtAnswer, ProtStart, ProtExit, queueVars, Own
  <2>4. ASSUME NEW d \in Addrs, ProtRemove(d) \/ RtExpire(d) PROVE [Custody!Next]_Own
    BY <2>4 DEF ProtRemove, RtExpire, queueVars, Own
  <2>5. CASE HandlerStep  BY <2>5, HandlerRefines
  <2>6. CASE LoadStep
    BY <2>6, FlushRefines DEF LoadStep, Load, Advance, InitFails, queueVars, Own
  <2>7. CASE UnloadStep
    BY <2>7, FlushRefines DEF UnloadStep, PurgeBegin, Advance, Unhook, QueueFini,
       RtFini, NetlinkFini, queueVars, Own
  <2> QED BY <2>1, <2>2, <2>3, <2>4, <2>5, <2>6, <2>7 DEF Next
<1> QED
  BY <1>1, <1>2, Inductive, PTL DEF Spec, CustodySpec, Custody!Spec, Own

-----------------------------------------------------------------------------
(* The route table: CpcRt *)

\* Arithmetic of an unsigned counter of range n.
LEMMA ModFacts ==
  ASSUME NEW n \in Nat \ {0}, NEW a \in Int
  PROVE  /\ a % n \in 0 .. n - 1
         /\ a \in 0 .. n - 1 => a % n = a
         /\ a = n => a % n = 0
<1>1. a % n \in 0 .. n - 1  OBVIOUS
<1>2. a \in 0 .. n - 1 => a % n = a  OBVIOUS
<1>3. a = n => a % n = 0  OBVIOUS
<1> QED BY <1>1, <1>2, <1>3

\* Jiffies that went through the int of cpc_rt_timeout are a clock value again.
LEMMA ThroughIntFacts ==
  ASSUME NEW j \in Clock
  PROVE  ThroughInt(j) \in Clock
<1> USE RtAssumption
<1> DEFINE low == j % IntMod
<1>1. low \in 0 .. IntMod - 1
  <2>1. j \in Int /\ IntMod \in Nat \ {0}  BY DEF Clock
  <2> QED BY <2>1, ModFacts
<1> HIDE DEF low
<1>2. low \in Clock /\ LongMod - IntMod + low \in Clock
  BY <1>1 DEF Clock
<1>3. ThroughInt(j) = IF 2 * low < IntMod THEN low ELSE LongMod - IntMod + low
  BY DEF ThroughInt, low
<1> QED BY <1>2, <1>3

\* Ageing a list touches nothing but the histories of its entries.
LEMMA AgedFacts ==
  ASSUME NEW s \in Seq(Entries)
  PROVE  /\ Aged(s) \in Seq(Entries) /\ Len(Aged(s)) = Len(s)
         /\ \A i \in DOMAIN s :
              /\ i \in DOMAIN Aged(s)
              /\ Aged(s)[i].daddr = s[i].daddr /\ Aged(s)[i].expires = s[i].expires
              /\ Aged(s)[i].left = IF s[i].left = -MaxDelay THEN s[i].left ELSE s[i].left - 1
<1> USE RtAssumption
<1> DEFINE f(e) == [e EXCEPT !.left = IF @ = -MaxDelay THEN @ ELSE @ - 1]
<1>1. \A i \in DOMAIN s : s[i] \in Entries  OBVIOUS
<1>2. \A e \in Entries : /\ f(e) \in Entries
                         /\ f(e).daddr = e.daddr /\ f(e).expires = e.expires
                         /\ f(e).left = IF e.left = -MaxDelay THEN e.left ELSE e.left - 1
  <2> SUFFICES ASSUME NEW e \in Entries
               PROVE  /\ f(e) \in Entries
                      /\ f(e).daddr = e.daddr /\ f(e).expires = e.expires
                      /\ f(e).left = IF e.left = -MaxDelay THEN e.left ELSE e.left - 1
    OBVIOUS
  <2> DEFINE l == IF e.left = -MaxDelay THEN e.left ELSE e.left - 1
  <2>1. e.daddr \in Daddrs /\ e.expires \in Clock /\ e.left \in Int /\ l \in Int
    BY DEF Entries
  <2>2. f(e) = [daddr |-> e.daddr, expires |-> e.expires, left |-> l]
    BY DEF Entries
  <2> HIDE DEF f, l
  <2>3. f(e) \in Entries /\ f(e).daddr = e.daddr /\ f(e).expires = e.expires /\ f(e).left = l
    BY <2>1, <2>2 DEF Entries
  <2> QED BY <2>3 DEF l
<1>3. Aged(s) = [i \in DOMAIN s |-> f(s[i])]  BY DEF Aged
<1> HIDE DEF f
<1>4. Aged(s) \in Seq(Entries) /\ Len(Aged(s)) = Len(s) /\ DOMAIN Aged(s) = DOMAIN s
  <2>1. DOMAIN s = 1 .. Len(s) /\ Len(s) \in Nat  OBVIOUS
  <2>2. Aged(s) = [i \in 1 .. Len(s) |-> f(s[i])]  BY <1>3, <2>1
  <2>3. \A i \in 1 .. Len(s) : f(s[i]) \in Entries  BY <1>1, <1>2, <2>1
  <2> QED BY <2>1, <2>2, <2>3
<1>5. \A i \in DOMAIN s : Aged(s)[i] = f(s[i])  BY <1>3
<1> QED BY <1>1, <1>2, <1>4, <1>5

------------------------------------------------------------------------------
\* Between the lookup of cpc_rt_add and its write lock nobody else adds the
\* destination, and the module is not unloaded.
AdderIsNew ==
  adder # <<>> => /\ rtphase = "up"
                  /\ \A i \in DOMAIN rt : rt[i].daddr # adder[1].daddr

\* TimerGoneUnlessRaced from the moment cpc_rt_flush has deleted the timer.
Stopped == rtphase # "up" /\ ~raced => ~pending /\ ~handler.run

\* The expiry times of s say when its entries are due.
OnTime(s) == \A i \in DOMAIN s : /\ s[i].expires = jiffies + s[i].left
                                 /\ -MaxDelay <= s[i].left

\* Unless a clock value was cut off, expiry times mean what they say and the
\* handler's copy of jiffies is not ahead of the clock.
ClockIsTrue ==
  ~skewed => /\ OnTime(rt) /\ OnTime(adder)
             /\ handler.run => handler.time <= jiffies

RtInv == /\ RtTypeOK
        /\ RtLenCountsRefusals
        /\ SortedByExpiry
        /\ TimerArmedForHead
        /\ OneRoutePerDestination
        /\ AdderIsNew
        /\ Stopped
        /\ ClockIsTrue

\* The inductive invariant holds when the module is loaded.
LEMMA RtInitInv == RtInit => RtInv
<1> SUFFICES ASSUME RtInit PROVE RtInv
  OBVIOUS
<1> USE RtAssumption DEF RtInit
<1>1. RtTypeOK
  <2>1. <<>> \in Seq(Entries) /\ Len(<<>>) = 0  OBVIOUS
  <2>2. 0 \in Clock  BY DEF Clock
  <2>3. handler \in [run : BOOLEAN, time : Clock]  BY <2>2 DEF HandlerIdle
  <2>4. pending \in BOOLEAN /\ raced \in BOOLEAN /\ skewed \in BOOLEAN  OBVIOUS
  <2> QED BY <2>1, <2>2, <2>3, <2>4 DEF RtTypeOK
<1>2. RtLenCountsRefusals /\ SortedByExpiry /\ TimerArmedForHead /\ OneRoutePerDestination
  BY DEF RtLenCountsRefusals, SortedByExpiry, TimerArmedForHead, OneRoutePerDestination
<1>3. AdderIsNew /\ Stopped /\ ClockIsTrue
  BY DEF AdderIsNew, Stopped, ClockIsTrue, OnTime, HandlerIdle
<1> QED BY <1>1, <1>2, <1>3 DEF RtInv

\* skewed is set by a step that cuts off a clock value, and cleared only when
\* nothing refers to one.
LEMMA SkewFacts ==
  ASSUME NEW bad, Skew(bad)
  PROVE  /\ skewed' \in BOOLEAN
         /\ ~skewed' => ~bad /\ (~skewed \/ Unused')
<1> USE DEF Skew
<1>1. skewed' \in BOOLEAN  OBVIOUS
<1>2. ~skewed' => ~bad /\ (~skewed \/ Unused')  OBVIOUS
<1> QED BY <1>1, <1>2

\* With nothing that refers to a clock value, the clock is true.
LEMMA UnusedIsTrue == Unused => ClockIsTrue
  BY DEF Unused, ClockIsTrue, OnTime

\* A list that was on time and not late is on time after a tick.
LEMMA OnTimeAfterTick ==
  ASSUME NEW s \in Seq(Entries), NEW t \in Seq(Entries), OnTime(s), ~Late(s),
         DOMAIN t = DOMAIN s, jiffies \in Clock, jiffies' = jiffies + 1,
         \A i \in DOMAIN s : /\ t[i].expires = s[i].expires
                             /\ t[i].left = IF s[i].left = -MaxDelay THEN s[i].left
                                                                     ELSE s[i].left - 1
  PROVE  \A i \in DOMAIN t : t[i].expires = jiffies' + t[i].left /\ -MaxDelay <= t[i].left
<1> SUFFICES ASSUME NEW i \in DOMAIN t
             PROVE  t[i].expires = jiffies' + t[i].left /\ -MaxDelay <= t[i].left
  OBVIOUS
<1>1. s[i] \in Entries  OBVIOUS
<1>2. s[i].left \in Int /\ s[i].expires \in Int /\ jiffies \in Int /\ MaxDelay \in Int
  BY <1>1, RtAssumption DEF Entries, Clock
<1>3. s[i].left # -MaxDelay /\ -MaxDelay <= s[i].left /\ s[i].expires = jiffies + s[i].left
  BY DEF OnTime, Late
<1>4. t[i].left = s[i].left - 1 /\ t[i].expires = s[i].expires  BY <1>3
<1>5. \A e, j, l, m \in Int : l # -m /\ -m <= l /\ e = j + l =>
        e = (j + 1) + (l - 1) /\ -m <= l - 1
  OBVIOUS
<1>6. s[i].expires = (jiffies + 1) + (s[i].left - 1) /\ -MaxDelay <= s[i].left - 1
  BY <1>2, <1>3, <1>5
<1> QED BY <1>4, <1>6

\* One tick: the entries stay as they are and come closer to their time.
LEMMA TickInv ==
  ASSUME RtInv, Tick
  PROVE  RtInv'
<1> USE RtAssumption DEF RtInv
<1>1. /\ skewed \/ ~(Late(rt) \/ Late(adder))
      /\ jiffies' = (jiffies + 1) % LongMod
      /\ rt' = Aged(rt) /\ adder' = Aged(adder)
      /\ UNCHANGED <<rt_len, pending, texp, handler, rtphase, refused, raced>>
  BY DEF Tick
<1>2. /\ rt \in Seq(Entries) /\ rt' \in Seq(Entries)
      /\ Len(rt') = Len(rt) /\ DOMAIN rt' = DOMAIN rt /\ DOMAIN rt = 1 .. Len(rt)
      /\ \A i \in DOMAIN rt : /\ rt'[i].daddr = rt[i].daddr /\ rt'[i].expires = rt[i].expires
                              /\ rt'[i].left = IF rt[i].left = -MaxDelay THEN rt[i].left
                                                                         ELSE rt[i].left - 1
  BY <1>1, AgedFacts DEF RtTypeOK
<1>3. /\ adder \in Seq(Entries) /\ adder' \in Seq(Entries)
      /\ Len(adder') = Len(adder) /\ DOMAIN adder' = DOMAIN adder
      /\ DOMAIN adder = 1 .. Len(adder)
      /\ \A i \in DOMAIN adder :
           /\ adder'[i].daddr = adder[i].daddr /\ adder'[i].expires = adder[i].expires
           /\ adder'[i].left = IF adder[i].left = -MaxDelay THEN adder[i].left
                                                            ELSE adder[i].left - 1
  BY <1>1, AgedFacts DEF RtTypeOK
<1>4. (rt' = <<>> <=> rt = <<>>) /\ (adder' = <<>> <=> adder = <<>>)
  BY <1>2, <1>3
<1>5. jiffies \in 0 .. LongMod - 1 /\ jiffies' \in 0 .. LongMod - 1
  <2>1. jiffies \in 0 .. LongMod - 1 /\ jiffies + 1 \in Int  BY DEF RtTypeOK, Clock
  <2> QED BY <1>1, <2>1, ModFacts
<1>6. jiffies' = jiffies + 1 \/ jiffies' = 0
  <2>1. jiffies + 1 \in 0 .. LongMod - 1 \/ jiffies + 1 = LongMod  BY <1>5
  <2>2. jiffies + 1 \in Int  BY <1>5
  <2> QED BY <1>1, <2>1, <2>2, ModFacts
<1>7. skewed' \in BOOLEAN /\ (~skewed' => ~(jiffies' = 0 /\ ~Unused) /\ (~skewed \/ Unused'))
  <2>1. Skew(jiffies' = 0 /\ ~Unused)  BY DEF Tick
  <2> QED BY <2>1, SkewFacts
<1>8. RtTypeOK'
  BY <1>1, <1>2, <1>3, <1>5, <1>7 DEF RtTypeOK, Clock
<1>9. RtLenCountsRefusals'  BY <1>1, <1>2 DEF RtLenCountsRefusals
<1>10. SortedByExpiry'  BY <1>2 DEF SortedByExpiry
<1>11. TimerArmedForHead'
  BY <1>1, <1>2, <1>4 DEF TimerArmedForHead
<1>12. OneRoutePerDestination'  BY <1>2 DEF OneRoutePerDestination
<1>13. AdderIsNew'
  BY <1>1, <1>2, <1>3, <1>4 DEF AdderIsNew
<1>14. Stopped'  BY <1>1 DEF Stopped
<1>15. ClockIsTrue'
  <2>1. CASE Unused'
    BY <2>1, UnusedIsTrue DEF Unused, ClockIsTrue, OnTime
  <2>2. CASE ~Unused' /\ ~skewed'
    <3>1. ~skewed /\ ~Late(rt) /\ ~Late(adder)  BY <1>1, <1>7, <2>2
    <3>2. ~Unused  BY <1>1, <1>4, <2>2 DEF Unused
    <3>3. jiffies' = jiffies + 1  BY <1>6, <1>7, <2>2, <3>2
    <3>4. OnTime(rt)'
      BY <1>2, <3>1, <3>3, OnTimeAfterTick DEF ClockIsTrue, RtTypeOK, OnTime
    <3>5. OnTime(adder)'
      BY <1>3, <3>1, <3>3, OnTimeAfterTick DEF ClockIsTrue, RtTypeOK, OnTime
    <3>6. (handler.run => handler.time <= jiffies)'
      BY <1>1, <1>5, <3>1, <3>3 DEF ClockIsTrue, RtTypeOK, Clock
    <3> QED BY <3>4, <3>5, <3>6 DEF ClockIsTrue
  <2>3. CASE skewed'  BY <2>3 DEF ClockIsTrue
  <2> QED BY <2>1, <2>2, <2>3
<1> QED BY <1>8, <1>9, <1>10, <1>11, <1>12, <1>13, <1>14, <1>15

------------------------------------------------------------------------------
(***************************************************************************)
(* The netlink handler.                                                    *)
(***************************************************************************)

\* cpc_rt_add up to the lock: the new entry is for a destination without one.
LEMMA AddBeginInv ==
  ASSUME RtInv, NEW d \in Daddrs, NEW life \in Lifetimes, AddBegin(d, life)
  PROVE  RtInv'
<1> USE RtAssumption DEF RtInv
<1> DEFINE e == [daddr |-> d, expires |-> (jiffies + life) % LongMod, left |-> life]
<1>1. /\ rtphase = "up" /\ adder = <<>>
      /\ \A i \in DOMAIN rt : rt[i].daddr # d
      /\ adder' = <<e>>
      /\ UNCHANGED <<jiffies, rt, rt_len, pending, texp, handler, rtphase, refused, raced>>
  BY DEF AddBegin
<1>2. jiffies \in 0 .. LongMod - 1 /\ life \in Nat /\ LongMod \in Nat \ {0}
  BY DEF RtTypeOK, Clock
<1>3. (jiffies + life) % LongMod \in Clock
  BY <1>2, ModFacts DEF Clock
<1>4. e \in Entries /\ e.daddr = d /\ e.left = life /\ e.expires = (jiffies + life) % LongMod
  BY <1>2, <1>3 DEF Entries
<1>5. /\ skewed' \in BOOLEAN
      /\ ~skewed' => ~(jiffies + life >= LongMod) /\ (~skewed \/ Unused')
  <2>1. Skew(jiffies + life >= LongMod)  BY DEF AddBegin
  <2> QED BY <2>1, SkewFacts
<1> HIDE DEF e
<1>6. /\ adder' \in Seq(Entries) /\ Len(adder') = 1 /\ adder'[1] = e /\ DOMAIN adder' = {1}
      /\ adder' # <<>>
  BY <1>1, <1>4
<1>7. RtTypeOK'  BY <1>1, <1>5, <1>6 DEF RtTypeOK
<1>8. RtLenCountsRefusals' /\ SortedByExpiry' /\ TimerArmedForHead' /\ OneRoutePerDestination'
  BY <1>1 DEF RtLenCountsRefusals, SortedByExpiry, TimerArmedForHead, OneRoutePerDestination
<1>9. AdderIsNew'  BY <1>1, <1>4, <1>6 DEF AdderIsNew
<1>10. Stopped'  BY <1>1 DEF Stopped
<1>11. ClockIsTrue'
  <2> SUFFICES ASSUME ~skewed' PROVE (OnTime(rt) /\ OnTime(adder)
                                      /\ (handler.run => handler.time <= jiffies))'
    BY DEF ClockIsTrue
  <2>1. ~Unused'  BY <1>6 DEF Unused
  <2>2. ~skewed /\ ~(jiffies + life >= LongMod)  BY <1>5, <2>1
  <2>3. (jiffies + life) % LongMod = jiffies + life
    <3>1. jiffies + life \in 0 .. LongMod - 1 /\ jiffies + life \in Int  BY <1>2, <2>2
    <3> DEFINE x == jiffies + life
    <3>2. x \in 0 .. LongMod - 1 /\ x \in Int /\ LongMod \in Nat \ {0}  BY <1>2, <3>1
    <3> HIDE DEF x
    <3>3. x % LongMod = x  BY <3>2, ModFacts
    <3> QED BY <3>3 DEF x
  <2>4. OnTime(adder)'
    <3>1. -MaxDelay <= life  BY <1>2
    <3> QED BY <1>1, <1>4, <1>6, <2>3, <3>1 DEF OnTime
  <2>5. OnTime(rt)' /\ (handler.run => handler.time <= jiffies)'
    BY <1>1, <2>2 DEF ClockIsTrue, OnTime
  <2> QED BY <2>4, <2>5
<1> QED BY <1>7, <1>8, <1>9, <1>10, <1>11

\* __cpc_rt_add: the entry goes before the first one that expires later, and
\* the timer follows a new first entry.
LEMMA AddLinkedInv ==
  ASSUME RtInv, adder # <<>>, adder' = <<>>, NEW k \in 1 .. Len(rt) + 1,
         AddLinked(k, adder[1]), UNCHANGED <<jiffies, handler, rtphase, raced>>, Skew(FALSE)
  PROVE  RtInv'
<1> USE RtAssumption DEF RtInv
<1> DEFINE e == adder[1]
<1>1. /\ rt_len <= RtMaxLen /\ Place(k, e) /\ rt' = InsertAt(rt, k, e)
      /\ rt_len' = rt_len + 1 /\ refused' = refused
      /\ IF k = 1 THEN Arm(e.expires) ELSE UNCHANGED <<pending, texp>>
  BY DEF AddLinked
<1>2. /\ rt \in Seq(Entries) /\ Len(rt) \in Nat /\ DOMAIN rt = 1 .. Len(rt)
      /\ e \in Entries /\ 1 \in DOMAIN adder
      /\ e.expires \in Clock /\ e.expires \in Int
      /\ \A i \in 1 .. Len(rt) : rt[i] \in Entries /\ rt[i].expires \in Int
  <2>1. adder \in Seq(Entries) /\ Len(adder) # 0  BY DEF RtTypeOK
  <2>2. e \in Entries /\ 1 \in DOMAIN adder  BY <2>1
  <2>3. rt \in Seq(Entries) /\ Len(rt) \in Nat /\ DOMAIN rt = 1 .. Len(rt)  BY DEF RtTypeOK
  <2>4. \A x \in Entries : x.expires \in Int /\ x.expires \in Clock  BY DEF Entries, Clock
  <2> QED BY <2>2, <2>3, <2>4
<1>3. /\ rt' \in Seq(Entries) /\ Len(rt') = Len(rt) + 1 /\ DOMAIN rt' = 1 .. Len(rt) + 1
      /\ \A j \in 1 .. (Len(rt) + 1) :
           rt'[j] = IF j < k THEN rt[j] ELSE IF j = k THEN e ELSE rt[j - 1]
  <2>1. /\ InsertAt(rt, k, e) \in Seq(Entries)
        /\ Len(InsertAt(rt, k, e)) = Len(rt) + 1
        /\ \A j \in 1 .. (Len(rt) + 1) :
             InsertAt(rt, k, e)[j] = IF j < k THEN rt[j] ELSE IF j = k THEN e ELSE rt[j - 1]
    BY <1>2, InsertAtFacts
  <2> QED BY <1>1, <2>1
<1>4. /\ \A j \in 1 .. k - 1 : rt[j].expires <= e.expires
      /\ k <= Len(rt) => rt[k].expires > e.expires
  BY <1>1 DEF Place
<1>5. skewed' \in BOOLEAN /\ (~skewed' => ~skewed \/ Unused')  BY SkewFacts
<1>6. rtphase = "up" /\ \A i \in DOMAIN rt : rt[i].daddr # e.daddr  BY DEF AdderIsNew
<1>7. /\ pending' \in BOOLEAN /\ texp' \in Clock
  BY <1>1, <1>2 DEF Arm, RtTypeOK
<1>8. rt' # <<>>  BY <1>2, <1>3
<1>10. RtTypeOK'
  <2>1. rt_len' \in Nat /\ refused' \in Nat  BY <1>1 DEF RtTypeOK
  <2>2. <<>> \in Seq(Entries) /\ Len(<<>>) <= 1  OBVIOUS
  <2> QED BY <1>3, <1>5, <1>7, <2>1, <2>2 DEF RtTypeOK
<1>11. RtLenCountsRefusals'
  <2>1. rt_len = Len(rt) + refused /\ refused \in Nat  BY DEF RtLenCountsRefusals, RtTypeOK
  <2>2. rt_len' = Len(rt') + refused' /\ Len(rt') <= RtMaxLen + 1
    BY <1>1, <1>2, <1>3, <2>1
  <2> QED BY <2>2 DEF RtLenCountsRefusals
<1>12. SortedByExpiry'
  <2> SUFFICES ASSUME NEW i \in 1 .. Len(rt) + 1, NEW j \in 1 .. Len(rt) + 1, i < j
               PROVE  rt'[i].expires <= rt'[j].expires
    BY <1>3 DEF SortedByExpiry
  <2>0. \A a, b \in 1 .. Len(rt) : a < b => rt[a].expires <= rt[b].expires
    BY <1>2 DEF SortedByExpiry
  <2>1. CASE j < k
    <3>1. i \in 1 .. Len(rt) /\ j \in 1 .. Len(rt) /\ i < k  BY <1>2, <2>1
    <3> QED BY <1>3, <2>0, <2>1, <3>1
  <2>2. CASE j = k
    <3>1. i \in 1 .. k - 1  BY <2>2
    <3>2. rt'[i] = rt[i] /\ rt'[j] = e  BY <1>3, <2>2, <3>1
    <3> QED BY <1>4, <3>1, <3>2
  <2>3. CASE j > k
    <3>1. /\ j - 1 \in 1 .. Len(rt) /\ k <= j - 1 /\ k <= Len(rt) /\ k \in 1 .. Len(rt)
          /\ rt'[j] = rt[j - 1]
      BY <1>2, <1>3, <2>3
    <3>2. rt[k].expires <= rt[j - 1].expires
      BY <1>2, <2>0, <3>1
    <3>3. e.expires <= rt[j - 1].expires  BY <1>2, <1>4, <3>1, <3>2
    <3>4. CASE i < k
      <4>1. i \in 1 .. Len(rt) /\ i < j - 1 /\ rt'[i] = rt[i]  BY <1>2, <1>3, <2>3, <3>4
      <4> QED BY <2>0, <3>1, <4>1
    <3>5. CASE i = k
      <4>1. rt'[i] = e  BY <1>3, <3>5
      <4> QED BY <3>1, <3>3, <4>1
    <3>6. CASE i > k
      <4>1. i - 1 \in 1 .. Len(rt) /\ i - 1 < j - 1 /\ rt'[i] = rt[i - 1]
        BY <1>2, <1>3, <3>6
      <4> QED BY <2>0, <3>1, <4>1
    <3> QED BY <3>4, <3>5, <3>6
  <2> QED BY <2>1, <2>2, <2>3
<1>13. TimerArmedForHead'
  <2>1. CASE k = 1
    <3>1. rt'[1] = e  BY <1>2, <1>3, <2>1
    <3> QED BY <1>1, <2>1, <3>1 DEF Arm, TimerArmedForHead
  <2>2. CASE k # 1
    <3>1. 1 < k /\ 1 \in 1 .. Len(rt) /\ rt # <<>>  BY <1>2, <2>2
    <3>2. rt'[1] = rt[1]  BY <1>2, <1>3, <3>1
    <3> QED BY <1>1, <2>2, <3>1, <3>2 DEF TimerArmedForHead
  <2> QED BY <2>1, <2>2
<1>14. OneRoutePerDestination'
  <2> SUFFICES ASSUME NEW i \in 1 .. Len(rt) + 1, NEW j \in 1 .. Len(rt) + 1,
                      rt'[i].daddr = rt'[j].daddr
               PROVE  i = j
    BY <1>3 DEF OneRoutePerDestination
  <2> DEFINE n(x) == IF x < k THEN x ELSE x - 1
  <2>1. \A x \in 1 .. Len(rt) + 1 : x # k => n(x) \in DOMAIN rt /\ rt'[x] = rt[n(x)]
    BY <1>2, <1>3
  <2>2. rt'[k] = e  BY <1>3
  <2>3. CASE i = k \/ j = k  BY <1>6, <2>1, <2>2, <2>3
  <2>4. CASE i # k /\ j # k
    <3>1. n(i) = n(j)
      <4> HIDE DEF n
      <4> QED BY <2>1, <2>4 DEF OneRoutePerDestination
    <3> QED BY <2>4, <3>1
  <2> QED BY <2>3, <2>4
<1>15. AdderIsNew' /\ Stopped'  BY <1>6 DEF AdderIsNew, Stopped
<1>16. ClockIsTrue'
  <2> SUFFICES ASSUME ~skewed' PROVE (OnTime(rt) /\ OnTime(adder)
                                      /\ (handler.run => handler.time <= jiffies))'
    BY DEF ClockIsTrue
  <2>1. ~skewed  BY <1>5, <1>8 DEF Unused
  <2>2. /\ \A i \in 1 .. Len(rt) : rt[i].expires = jiffies + rt[i].left /\ -MaxDelay <= rt[i].left
        /\ e.expires = jiffies + e.left /\ -MaxDelay <= e.left
    BY <1>2, <2>1 DEF ClockIsTrue, OnTime
  <2>3. ASSUME NEW i \in 1 .. Len(rt) + 1
        PROVE  rt'[i].expires = jiffies' + rt'[i].left /\ -MaxDelay <= rt'[i].left
    <3>1. CASE i < k
      <4>1. i \in 1 .. Len(rt) /\ rt'[i] = rt[i]  BY <1>2, <1>3, <3>1
      <4> QED BY <2>2, <4>1
    <3>2. CASE i = k  BY <1>3, <2>2, <3>2
    <3>3. CASE i > k
      <4>1. i - 1 \in 1 .. Len(rt) /\ rt'[i] = rt[i - 1]  BY <1>2, <1>3, <3>3
      <4> QED BY <2>2, <4>1
    <3> QED BY <3>1, <3>2, <3>3
  <2>4. OnTime(rt)'  BY <1>3, <2>3 DEF OnTime
  <2>5. OnTime(adder)' /\ (handler.run => handler.time <= jiffies)'
    BY <2>1 DEF ClockIsTrue, OnTime
  <2> QED BY <2>4, <2>5
<1> QED BY <1>10, <1>11, <1>12, <1>13, <1>14, <1>15, <1>16

\* -ENOSPC: only the counters change.
LEMMA AddRefusedInv ==
  ASSUME RtInv, adder' = <<>>, AddRefused,
         UNCHANGED <<jiffies, handler, rtphase, raced>>, Skew(FALSE)
  PROVE  RtInv'
<1> USE RtAssumption DEF RtInv, AddRefused
<1>1. skewed' \in BOOLEAN /\ (~skewed' => ~skewed \/ Unused')  BY SkewFacts
<1>2. RtTypeOK'
  <2>1. <<>> \in Seq(Entries) /\ Len(<<>>) <= 1  OBVIOUS
  <2> QED BY <1>1, <2>1 DEF RtTypeOK
<1>3. RtLenCountsRefusals'  BY DEF RtLenCountsRefusals, RtTypeOK
<1>4. SortedByExpiry' /\ TimerArmedForHead' /\ OneRoutePerDestination' /\ AdderIsNew' /\ Stopped'
  BY DEF SortedByExpiry, TimerArmedForHead, OneRoutePerDestination, AdderIsNew, Stopped
<1>5. ClockIsTrue'
  BY <1>1 DEF ClockIsTrue, OnTime, Unused
<1> QED BY <1>2, <1>3, <1>4, <1>5

\* Entries that are taken out leave the rest as sound as it was; m says which
\* entry of the old list each entry of the new one is.
LEMMA ThinnedFacts ==
  ASSUME rt \in Seq(Entries), rt' \in Seq(Entries), jiffies' = jiffies, adder' = adder,
         rtphase' = rtphase,
         NEW m \in [DOMAIN rt' -> DOMAIN rt],
         \A i, j \in DOMAIN rt' : i < j => m[i] < m[j],
         \A i \in DOMAIN rt' : rt'[i] = rt[m[i]]
  PROVE  /\ SortedByExpiry => SortedByExpiry'
         /\ OneRoutePerDestination => OneRoutePerDestination'
         /\ AdderIsNew => AdderIsNew'
         /\ OnTime(rt) => OnTime(rt)'
<1>1. SortedByExpiry => SortedByExpiry'  BY DEF SortedByExpiry
<1>2. OneRoutePerDestination => OneRoutePerDestination'
  <2> SUFFICES ASSUME OneRoutePerDestination, NEW i \in DOMAIN rt', NEW j \in DOMAIN rt',
                      rt'[i].daddr = rt'[j].daddr
               PROVE  i = j
    BY DEF OneRoutePerDestination
  <2>1. m[i] = m[j]  BY DEF OneRoutePerDestination
  <2>2. i \in Nat /\ j \in Nat /\ m[i] \in Nat /\ m[j] \in Nat  OBVIOUS
  <2>3. ~(i < j) /\ ~(j < i)  BY <2>1, <2>2
  <2> QED BY <2>2, <2>3
<1>3. AdderIsNew => AdderIsNew'  BY DEF AdderIsNew
<1>4. OnTime(rt) => OnTime(rt)'  BY DEF OnTime
<1> QED BY <1>1, <1>2, <1>3, <1>4

\* cpc_rt_del takes one entry out and moves the timer to a new first one.
LEMMA DelInv ==
  ASSUME RtInv, NEW d \in Daddrs, Del(d)
  PROVE  RtInv'
<1> USE RtAssumption DEF RtInv
<1>1. PICK i \in DOMAIN rt :
        /\ rt' = RemoveAt(rt, i)
        /\ IF i = 1 /\ Len(rt) > 1 THEN Arm(rt[2].expires)
                                   ELSE UNCHANGED <<pending, texp>>
  BY DEF Del
<1>2. /\ rtphase = "up" /\ rt_len' = rt_len - 1
      /\ UNCHANGED <<jiffies, handler, adder, rtphase, refused, raced>>
      /\ Skew(FALSE)
  BY DEF Del
<1>3. /\ rt \in Seq(Entries) /\ Len(rt) \in Nat /\ DOMAIN rt = 1 .. Len(rt)
      /\ i \in 1 .. Len(rt)
  BY DEF RtTypeOK
<1>4. /\ rt' \in Seq(Entries) /\ Len(rt') = Len(rt) - 1 /\ DOMAIN rt' = 1 .. Len(rt) - 1
      /\ \A j \in 1 .. (Len(rt) - 1) : rt'[j] = IF j < i THEN rt[j] ELSE rt[j + 1]
  <2>1. /\ RemoveAt(rt, i) \in Seq(Entries)
        /\ Len(RemoveAt(rt, i)) = Len(rt) - 1
        /\ \A j \in 1 .. (Len(rt) - 1) :
             RemoveAt(rt, i)[j] = IF j < i THEN rt[j] ELSE rt[j + 1]
    BY <1>3, RemoveAtFacts
  <2> QED BY <1>1, <2>1
<1>5. skewed' \in BOOLEAN /\ (~skewed' => ~skewed \/ Unused')  BY <1>2, SkewFacts
<1> DEFINE m == [j \in DOMAIN rt' |-> IF j < i THEN j ELSE j + 1]
<1>6. /\ m \in [DOMAIN rt' -> DOMAIN rt]
      /\ \A j, k \in DOMAIN rt' : j < k => m[j] < m[k]
      /\ \A j \in DOMAIN rt' : rt'[j] = rt[m[j]]
  BY <1>3, <1>4
<1> HIDE DEF m
<1>7. SortedByExpiry' /\ OneRoutePerDestination' /\ AdderIsNew' /\ (OnTime(rt) => OnTime(rt)')
  BY <1>2, <1>3, <1>4, <1>6, ThinnedFacts
<1>8. RtLenCountsRefusals'
  <2>1. rt_len = Len(rt) + refused /\ refused \in Nat /\ Len(rt) <= RtMaxLen + 1
    BY DEF RtLenCountsRefusals, RtTypeOK
  <2>2. rt_len' = Len(rt') + refused' /\ Len(rt') <= RtMaxLen + 1
    BY <1>2, <1>3, <1>4, <2>1
  <2> QED BY <2>2 DEF RtLenCountsRefusals
<1>9. RtTypeOK'
  <2>1. rt_len' \in Nat
    <3>1. rt_len' = Len(rt') + refused' /\ Len(rt') \in Nat /\ refused' \in Nat
      BY <1>2, <1>4, <1>8 DEF RtLenCountsRefusals, RtTypeOK
    <3> QED BY <3>1
  <2>2. pending' \in BOOLEAN /\ texp' \in Clock
    <3>1. CASE i = 1 /\ Len(rt) > 1
      <4>1. rt[2] \in Entries  BY <1>3, <3>1
      <4>2. rt[2].expires \in Clock  BY <4>1 DEF Entries
      <4> QED BY <1>1, <3>1, <4>2 DEF Arm
    <3>2. CASE ~(i = 1 /\ Len(rt) > 1)  BY <1>1, <3>2 DEF RtTypeOK
    <3> QED BY <3>1, <3>2
  <2> QED BY <1>2, <1>4, <1>5, <2>1, <2>2 DEF RtTypeOK
<1>10. TimerArmedForHead'
  <2> SUFFICES ASSUME rt' # <<>>, ~handler.run
               PROVE  pending' /\ texp' = rt'[1].expires
    BY <1>2 DEF TimerArmedForHead
  <2>1. Len(rt) > 1 /\ 1 \in 1 .. Len(rt) - 1  BY <1>3, <1>4
  <2>2. CASE i = 1
    <3>1. rt'[1] = rt[2]  BY <1>4, <2>1, <2>2
    <3> QED BY <1>1, <2>1, <2>2, <3>1 DEF Arm
  <2>3. CASE i # 1
    <3>1. rt'[1] = rt[1] /\ rt # <<>>  BY <1>3, <1>4, <2>1, <2>3
    <3> QED BY <1>1, <1>2, <2>3, <3>1 DEF TimerArmedForHead
  <2> QED BY <2>2, <2>3
<1>11. Stopped'  BY <1>2 DEF Stopped
<1>12. ClockIsTrue'
  BY <1>2, <1>5, <1>7 DEF ClockIsTrue, OnTime, Unused
<1> QED BY <1>7, <1>8, <1>9, <1>10, <1>11, <1>12

------------------------------------------------------------------------------
(***************************************************************************)
(* The timer and the unload path.                                          *)
(***************************************************************************)

\* The handler is at work; its copy of jiffies is cut off or exact.
LEMMA TimerFiresInv ==
  ASSUME RtInv, TimerFires
  PROVE  RtInv'
<1> USE RtAssumption DEF RtInv
<1>1. /\ pending /\ pending' = FALSE /\ texp' = 0
      /\ handler' = [run |-> TRUE, time |-> ThroughInt(jiffies)]
      /\ UNCHANGED <<jiffies, rt, rt_len, adder, rtphase, refused, raced>>
  BY DEF TimerFires
<1>2. ThroughInt(jiffies) \in Clock  BY ThroughIntFacts DEF RtTypeOK
<1>3. /\ handler' \in [run : BOOLEAN, time : Clock]
      /\ handler'.run = TRUE /\ handler'.time = ThroughInt(jiffies)
  BY <1>1, <1>2
<1>4. /\ skewed' \in BOOLEAN
      /\ ~skewed' => ~(ThroughInt(jiffies) # jiffies) /\ (~skewed \/ Unused')
  <2>1. Skew(ThroughInt(jiffies) # jiffies)  BY DEF TimerFires
  <2> QED BY <2>1, SkewFacts
<1>5. RtTypeOK'
  <2>1. 0 \in Clock  BY DEF Clock
  <2>2. pending' \in BOOLEAN  BY <1>1
  <2> QED BY <1>1, <1>3, <1>4, <2>1, <2>2 DEF RtTypeOK
<1>6. RtLenCountsRefusals' /\ SortedByExpiry' /\ OneRoutePerDestination' /\ AdderIsNew'
  BY <1>1 DEF RtLenCountsRefusals, SortedByExpiry, OneRoutePerDestination, AdderIsNew
<1>7. TimerArmedForHead'  BY <1>3 DEF TimerArmedForHead
<1>8. Stopped'  BY <1>1 DEF Stopped
<1>9. ClockIsTrue'
  <2> SUFFICES ASSUME ~skewed' PROVE (OnTime(rt) /\ OnTime(adder)
                                      /\ (handler.run => handler.time <= jiffies))'
    BY DEF ClockIsTrue
  <2>1. ~skewed /\ ThroughInt(jiffies) = jiffies  BY <1>3, <1>4 DEF Unused
  <2>2. OnTime(rt)' /\ OnTime(adder)'  BY <1>1, <2>1 DEF ClockIsTrue, OnTime
  <2>3. jiffies \in Int  BY DEF RtTypeOK, Clock
  <2>4. handler'.time <= jiffies'  BY <1>1, <1>3, <2>1, <2>3
  <2> QED BY <2>2, <2>4
<1> QED BY <1>5, <1>6, <1>7, <1>8, <1>9

\* cpc_rt_timeout drops a prefix of the list and sets the timer for the rest.
LEMMA TimeoutInv ==
  ASSUME RtInv, Timeout
  PROVE  RtInv'
<1> USE RtAssumption DEF RtInv
<1>1. PICK k \in 1 .. Len(rt) + 1 :
        /\ rt' = SubSeq(rt, k, Len(rt))
        /\ rt_len' = rt_len - (k - 1)
        /\ SetNextTimeout(rt')
  BY DEF Timeout
<1>2. /\ handler.run /\ handler' = HandlerIdle
      /\ UNCHANGED <<jiffies, adder, rtphase, refused, raced>>
      /\ Skew(FALSE)
  BY DEF Timeout
<1>3. rt \in Seq(Entries) /\ Len(rt) \in Nat /\ DOMAIN rt = 1 .. Len(rt)
  BY DEF RtTypeOK
<1>4. /\ rt' \in Seq(Entries) /\ Len(rt') = Len(rt) + 1 - k
      /\ DOMAIN rt' = 1 .. Len(rt) + 1 - k
      /\ \A j \in 1 .. (Len(rt) + 1 - k) : rt'[j] = rt[k + j - 1]
  BY <1>1, <1>3
<1>5. skewed' \in BOOLEAN /\ (~skewed' => ~skewed \/ Unused')  BY <1>2, SkewFacts
<1> DEFINE m == [j \in DOMAIN rt' |-> k + j - 1]
<1>6. /\ m \in [DOMAIN rt' -> DOMAIN rt]
      /\ \A i, j \in DOMAIN rt' : i < j => m[i] < m[j]
      /\ \A j \in DOMAIN rt' : rt'[j] = rt[m[j]]
  <2>1. \A j \in DOMAIN rt' : k + j - 1 \in DOMAIN rt /\ rt'[j] = rt[k + j - 1]
    <3>1. \A j \in 1 .. Len(rt) + 1 - k : k + j - 1 \in 1 .. Len(rt)  BY <1>3
    <3> QED BY <1>3, <1>4, <3>1
  <2>2. \A i, j \in DOMAIN rt' : i < j => k + i - 1 < k + j - 1
    BY <1>3, <1>4
  <2>3. m \in [DOMAIN rt' -> DOMAIN rt]  BY <2>1
  <2> QED BY <2>1, <2>2, <2>3
<1> HIDE DEF m
<1>7. SortedByExpiry' /\ OneRoutePerDestination' /\ AdderIsNew' /\ (OnTime(rt) => OnTime(rt)')
  BY <1>2, <1>3, <1>4, <1>6, ThinnedFacts
<1>8. RtLenCountsRefusals'
  <2>1. rt_len = Len(rt) + refused /\ refused \in Nat /\ Len(rt) <= RtMaxLen + 1
    BY DEF RtLenCountsRefusals, RtTypeOK
  <2>2. rt_len' = Len(rt') + refused' /\ Len(rt') <= RtMaxLen + 1
    BY <1>1, <1>2, <1>3, <1>4, <2>1
  <2> QED BY <2>2 DEF RtLenCountsRefusals
<1>9. /\ rt' # <<>> => pending' /\ texp' = rt'[1].expires
      /\ pending' \in BOOLEAN /\ texp' \in Clock
  <2>1. CASE rt' = <<>>  BY <1>1, <2>1 DEF SetNextTimeout, RtTypeOK
  <2>2. CASE rt' # <<>>
    <3>1. rt'[1] \in Entries  BY <1>4, <2>2
    <3>2. rt'[1].expires \in Clock  BY <3>1 DEF Entries
    <3> QED BY <1>1, <2>2, <3>2 DEF SetNextTimeout, Arm
  <2> QED BY <2>1, <2>2
<1>10. RtTypeOK'
  <2>1. rt_len' \in Nat
    <3>1. rt_len' = Len(rt') + refused' /\ Len(rt') \in Nat /\ refused' \in Nat
      BY <1>2, <1>4, <1>8 DEF RtLenCountsRefusals, RtTypeOK
    <3> QED BY <3>1
  <2>2. handler' \in [run : BOOLEAN, time : Clock]
    <3>1. 0 \in Clock  BY DEF Clock
    <3> QED BY <1>2, <3>1 DEF HandlerIdle
  <2> QED BY <1>2, <1>4, <1>5, <1>9, <2>1, <2>2 DEF RtTypeOK
<1>11. TimerArmedForHead'  BY <1>9 DEF TimerArmedForHead
<1>12. Stopped'  BY <1>2 DEF Stopped
<1>13. ClockIsTrue'
  <2>1. ~handler'.run  BY <1>2 DEF HandlerIdle
  <2> QED BY <1>2, <1>5, <1>7, <2>1 DEF ClockIsTrue, OnTime, Unused
<1> QED BY <1>7, <1>8, <1>10, <1>11, <1>12, <1>13

\* cpc_rt_flush: the timer first, then the list.
LEMMA TableFlushInv ==
  ASSUME RtInv, FlushTimer \/ FlushList
  PROVE  RtInv'
<1> USE RtAssumption DEF RtInv
<1>1. CASE FlushTimer
  <2>1. /\ rtphase' = "stopping" /\ pending' = FALSE /\ texp' = 0 /\ raced' = handler.run
        /\ adder = <<>>
        /\ UNCHANGED <<jiffies, rt, rt_len, handler, adder, refused, skewed>>
    BY <1>1 DEF FlushTimer
  <2>2. handler.run \in BOOLEAN  BY DEF RtTypeOK
  <2>3. RtTypeOK'
    <3>1. 0 \in Clock  BY DEF Clock
    <3>2. pending' \in BOOLEAN /\ raced' \in BOOLEAN  BY <2>1, <2>2
    <3> QED BY <2>1, <3>1, <3>2 DEF RtTypeOK
  <2>4. RtLenCountsRefusals' /\ SortedByExpiry' /\ OneRoutePerDestination' /\ AdderIsNew'
    BY <2>1 DEF RtLenCountsRefusals, SortedByExpiry, OneRoutePerDestination, AdderIsNew
  <2>5. TimerArmedForHead' /\ Stopped' BY <2>1 DEF TimerArmedForHead, Stopped
  <2>6. ClockIsTrue'  BY <2>1 DEF ClockIsTrue, OnTime
  <2> QED BY <2>3, <2>4, <2>5, <2>6
<1>2. CASE FlushList
  <2>1. /\ rtphase = "stopping" /\ rtphase' = "gone" /\ rt' = <<>> /\ rt_len' = rt_len - Len(rt)
        /\ UNCHANGED <<jiffies, pending, texp, handler, adder, refused, raced>> /\ Skew(FALSE)
    BY <1>2 DEF FlushList
  <2>2. skewed' \in BOOLEAN /\ (~skewed' => ~skewed \/ Unused')  BY <2>1, SkewFacts
  <2>3. rt_len' = refused /\ refused \in Nat
    <3>1. rt_len = Len(rt) + refused /\ Len(rt) \in Nat /\ refused \in Nat
      BY DEF RtLenCountsRefusals, RtTypeOK
    <3> QED BY <2>1, <3>1
  <2>4. <<>> \in Seq(Entries) /\ Len(<<>>) = 0 /\ DOMAIN <<>> = {}  OBVIOUS
  <2>5. RtTypeOK'  BY <2>1, <2>2, <2>3, <2>4 DEF RtTypeOK
  <2>6. RtLenCountsRefusals'  BY <2>1, <2>3, <2>4 DEF RtLenCountsRefusals
  <2>7. SortedByExpiry' /\ OneRoutePerDestination' /\ AdderIsNew'
    BY <2>1, <2>4 DEF SortedByExpiry, OneRoutePerDestination, AdderIsNew
  <2>8. TimerArmedForHead' /\ Stopped'  BY <2>1 DEF TimerArmedForHead, Stopped
  <2>9. ClockIsTrue'
    BY <2>1, <2>2, <2>4 DEF ClockIsTrue, OnTime, Unused
  <2> QED BY <2>5, <2>6, <2>7, <2>8, <2>9
<1> QED BY <1>1, <1>2

\* Every step of the three contexts keeps the inductive invariant.
LEMMA RtNextInv == RtInv /\ [RtNext]_rtVars => RtInv'
<1> SUFFICES ASSUME RtInv, [RtNext]_rtVars PROVE RtInv'
  OBVIOUS
<1>1. CASE UNCHANGED rtVars
  <2> USE <1>1 DEF RtInv, rtVars
  <2>1. RtTypeOK' /\ RtLenCountsRefusals'  BY DEF RtTypeOK, RtLenCountsRefusals
  <2>2. SortedByExpiry' /\ OneRoutePerDestination' /\ TimerArmedForHead' /\ AdderIsNew'
    BY DEF SortedByExpiry, OneRoutePerDestination, TimerArmedForHead, AdderIsNew
  <2>3. Stopped' /\ ClockIsTrue'  BY DEF Stopped, ClockIsTrue, OnTime
  <2> QED BY <2>1, <2>2, <2>3
<1>2. CASE Tick  BY <1>2, TickInv
<1>3. ASSUME NEW d \in Daddrs, NEW life \in Lifetimes, AddBegin(d, life) PROVE RtInv'
  BY <1>3, AddBeginInv
<1>4. CASE AddEnd
  BY <1>4, AddLinkedInv, AddRefusedInv DEF AddEnd
<1>5. ASSUME NEW d \in Daddrs, Del(d) PROVE RtInv'  BY <1>5, DelInv
<1>6. CASE TimerFires \/ Timeout  BY <1>6, TimerFiresInv, TimeoutInv
<1>7. CASE FlushTimer \/ FlushList  BY <1>7, TableFlushInv
<1> QED BY <1>1, <1>2, <1>3, <1>4, <1>5, <1>6, <1>7 DEF RtNext

\* The inductive invariant holds in every reachable state.
LEMMA RtInductive == RtSpec => []RtInv
  BY RtInitInv, RtNextInv, PTL DEF RtSpec

------------------------------------------------------------------------------
(***************************************************************************)
(* The results.                                                            *)
(***************************************************************************)

\* Every variable keeps its type; rt_len, an unsigned int, is never counted
\* below zero by the timer handler, a deletion and the flush together.
THEOREM RtTypeCorrect == RtSpec => []RtTypeOK
<1>1. RtInv => RtTypeOK  BY DEF RtInv
<1> QED BY <1>1, RtInductive, PTL

\* rt_len counts the routes and the refusals, and the table stays bounded.
THEOREM RefusalsAreCounted == RtSpec => []RtLenCountsRefusals
<1>1. RtInv => RtLenCountsRefusals  BY DEF RtInv
<1> QED BY <1>1, RtInductive, PTL

\* Additions, deletions and timeouts keep the list in the order of expiry.
THEOREM StaysSorted == RtSpec => []SortedByExpiry
<1>1. RtInv => SortedByExpiry  BY DEF RtInv
<1> QED BY <1>1, RtInductive, PTL

\* The timer is set for the first route whenever its handler is not at work.
THEOREM TimerFollowsHead == RtSpec => []TimerArmedForHead
<1>1. RtInv => TimerArmedForHead  BY DEF RtInv
<1> QED BY <1>1, RtInductive, PTL

\* Looking for the destination before the lock is taken is enough for one
\* route per destination.
THEOREM NoDuplicateRoute == RtSpec => []OneRoutePerDestination
<1>1. RtInv => OneRoutePerDestination  BY DEF RtInv
<1> QED BY <1>1, RtInductive, PTL

\* The table stays in order, without duplicates, and counted up to refusals,
\* whatever cpc_rt_add, cpc_rt_del and cpc_rt_timeout interleave.
THEOREM TableStaysSound == RtSpec => []TableIsSound
<1>1. RtTypeOK /\ SortedByExpiry /\ OneRoutePerDestination /\ RtLenCountsRefusals
        => TableIsSound
  BY DEF TableIsSound
<1> QED BY <1>1, RtTypeCorrect, StaysSorted, NoDuplicateRoute, RefusalsAreCounted, PTL

\* The only way to a timer that outlives the module is a handler that was
\* running when cpc_rt_flush deleted it.
THEOREM TimerOutlivesOnlyByRace == RtSpec => []TimerGoneUnlessRaced
<1>1. RtInv => TimerGoneUnlessRaced
  BY DEF RtInv, Stopped, TimerGoneUnlessRaced
<1> QED BY <1>1, RtInductive, PTL

\* While no clock value in use was cut off, a route whose lifetime is over has
\* a due timer or a running handler: the order of the list, the timer set for
\* its head and true expiry times together.
THEOREM OverdueHasTimer == RtSpec => []OverdueIsSeen
<1>1. RtInv => OverdueIsSeen
  <2> SUFFICES ASSUME RtInv, rtphase = "up", ~skewed, NEW i \in DOMAIN rt, rt[i].left <= 0,
                      ~handler.run
               PROVE  pending /\ Due(texp)
    BY DEF OverdueIsSeen
  <2> USE RtAssumption
  <2>1. /\ rt \in Seq(Entries) /\ 1 \in DOMAIN rt /\ i \in Nat /\ 1 <= i
        /\ rt[1] \in Entries /\ rt[i] \in Entries /\ rt # <<>>
    BY DEF RtInv, RtTypeOK
  <2>2. /\ rt[1].expires \in Int /\ rt[1].left \in Int
        /\ rt[i].expires \in Int /\ rt[i].left \in Int
    BY <2>1 DEF Entries, Clock
  <2>3. pending /\ texp = rt[1].expires  BY <2>1 DEF RtInv, TimerArmedForHead
  <2>4. /\ rt[1].expires = jiffies + rt[1].left /\ -MaxDelay <= rt[1].left
        /\ rt[i].expires = jiffies + rt[i].left
    BY <2>1 DEF RtInv, ClockIsTrue, OnTime
  <2>5. rt[1].expires <= rt[i].expires
    <3>1. CASE i = 1  BY <2>2, <3>1
    <3>2. CASE i # 1
      <4>1. 1 < i  BY <2>1, <3>2
      <4> QED BY <2>1, <4>1 DEF RtInv, SortedByExpiry
    <3> QED BY <3>1, <3>2
  <2>6. jiffies \in 0 .. LongMod - 1  BY DEF RtInv, RtTypeOK, Clock
  <2> DEFINE late == jiffies - texp
  <2>7. late \in 0 .. MaxDelay
    BY <2>2, <2>3, <2>4, <2>5, <2>6
  <2>8. late \in 0 .. LongMod - 1 /\ late \in Int /\ 2 * late < LongMod
    BY <2>7
  <2> HIDE DEF late
  <2>9. late % LongMod = late  BY <2>8, ModFacts
  <2>10. 2 * (late % LongMod) < LongMod  BY <2>8, <2>9
  <2> QED BY <2>3, <2>10 DEF Due, late
<1> QED BY <1>1, RtInductive, PTL

\* The timer is set for the first route, in time for all of them, and gone
\* with the module unless cpc_rt_flush met its handler.
THEOREM TimerStaysSound == RtSpec => []TimerIsSound
<1>1. TimerArmedForHead /\ OverdueIsSeen /\ TimerGoneUnlessRaced => TimerIsSound
  BY DEF TimerIsSound
<1> QED BY <1>1, TimerFollowsHead, OverdueHasTimer, TimerOutlivesOnlyByRace, PTL

\* Under the same proviso cpc_rt_timeout removes nothing too early, although
\* it compares with a copy of jiffies that is older than the lock.
THEOREM NothingExpiresEarly == RtSpec => NoEarlyExpiry
<1>1. RtInv /\ [RtNext]_rtVars =>
        [Timeout /\ ~skewed => \A i \in DOMAIN rt : rt[i].left > 0 =>
           \E j \in DOMAIN rt' : rt'[j] = rt[i]]_rtVars
  <2> SUFFICES ASSUME RtInv, Timeout, ~skewed, NEW i \in DOMAIN rt, rt[i].left > 0
               PROVE  \E j \in DOMAIN rt' : rt'[j] = rt[i]
    OBVIOUS
  <2>1. PICK k \in 1 .. Len(rt) + 1 :
          ExpiredBefore(k, handler.time) /\ rt' = SubSeq(rt, k, Len(rt))
    BY DEF Timeout
  <2>2. /\ rt \in Seq(Entries) /\ Len(rt) \in Nat /\ i \in 1 .. Len(rt) /\ rt[i] \in Entries
    BY DEF RtInv, RtTypeOK
  <2>3. rt[i].expires \in Int /\ rt[i].left \in Int  BY <2>2 DEF Entries, Clock
  <2>4. jiffies \in Int /\ handler.time \in Int  BY DEF RtInv, RtTypeOK, Clock
  <2>5. rt[i].expires = jiffies + rt[i].left /\ handler.time <= jiffies
    BY DEF RtInv, ClockIsTrue, OnTime, Timeout
  <2>6. ~(rt[i].expires <= handler.time)  BY <2>3, <2>4, <2>5
  <2>7. ~(i \in 1 .. k - 1)  BY <2>1, <2>6 DEF ExpiredBefore
  <2>8. i + 1 - k \in 1 .. Len(rt) + 1 - k  BY <2>2, <2>7
  <2>9. /\ DOMAIN rt' = 1 .. Len(rt) + 1 - k
        /\ \A j \in 1 .. Len(rt) + 1 - k : rt'[j] = rt[k + j - 1]
    BY <2>1, <2>2
  <2>10. rt'[i + 1 - k] = rt[k + (i + 1 - k) - 1] /\ k + (i + 1 - k) - 1 = i
    BY <2>2, <2>8, <2>9
  <2> QED BY <2>8, <2>9, <2>10
<1> QED BY <1>1, RtInductive, PTL DEF RtSpec, NoEarlyExpiry
=============================================================================
