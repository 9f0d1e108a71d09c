--------------------------- MODULE Routing_proofs ---------------------------
(***************************************************************************)
(* Proofs about the two halves of GeoSVR's routing: KernelMod, the packets *)
(* of one node, for every set of packets, queue length, socket buffer size *)
(* and combination of faults; and Forwarding, the way of a packet through  *)
(* several nodes, for every map, every set of routes, every neighbour list *)
(* and every buffer size.                                                  *)
(***************************************************************************)
EXTENDS KernelMod, Forwarding, ListFacts, TLAPS

-----------------------------------------------------------------------------
(* KernelMod *)

\* Packets are stolen only while an interface record exists, and only the
\* phases after "up" and before the flush may have one queued.
MayQueue == {"up", "purged", "unhook0", "unhooked"}

\* Which phases leave which traces: the part of the invariant that is about
\* geosvr_linux_init and geosvr_linux_exit.
Lifecycle ==
  /\ daemon # 0 => phase = "up"
  /\ ~Idle => daemon # 0
  /\ phase \in {"queue", "netlink", "hook0", "hook1"} => ifip = "null"
  /\ phase = "up" => ifip # "freed"
  /\ \A p \in Packets : loc[p] = "held" => ~Idle
  /\ \A p \in Packets : loc[p] \in {"queued", "held"} =>
       phase \in MayQueue /\ ifip # "null"
  /\ \A p \in Packets : hookpc[p] = "request" =>
       /\ ifip # "null"
       /\ phase \in (IF Info[p].hook = PRE_ROUTING
                       THEN {"up", "purged"} ELSE {"up", "purged", "unhook0"})

\* Stamps grow along the queue; only packets that were queued carry one.
StampOrder ==
  /\ \A p \in Packets : stamp[p] < clock
  /\ \A p \in Packets : loc[p] = "stack" => stamp[p] = 0
  /\ \A p \in Packets : loc[p] = "queued" => 0 < stamp[p]
  /\ \A i, j \in DOMAIN queue : i < j => stamp[queue[i]] < stamp[queue[j]]

IInv == /\ TypeOK
        /\ QueueIntegrity
        /\ Lifecycle
        /\ StampOrder
        /\ FifoPerDestination
        /\ WaitingHasWaker
        /\ OopsOnlyInWindow

------------------------------------------------------------------------------
\* The inductive invariant holds before the module is loaded.
LEMMA InitInv == Init => IInv
<1> SUFFICES ASSUME Init PROVE IInv
  OBVIOUS
<1> USE ConstantsAssumption DEF Init
<1>1. TypeOK
  <2>1. NoRsp \in Responses  BY DEF NoRsp, Responses
  <2>2. <<>> \in Seq(Packets) /\ <<>> \in Seq(Requests)  OBVIOUS
  <2>3. phase \in Phases /\ loc \in [Packets -> Locs]  BY DEF Phases, Locs
  <2>4. oops \in BOOLEAN  OBVIOUS
  <2>5. daemon \in Pids \cup {0} /\ peer_pid \in Pids \cup {0}  OBVIOUS
  <2>6. hookpc \in [Packets -> {"idle", "request"}]  OBVIOUS
  <2>7. stamp \in [Packets -> Nat] /\ clock \in Nat \ {0} /\ queue_total \in Nat  OBVIOUS
  <2>8. queue \in Seq(Packets) /\ nlsock \in Seq(Requests)  BY <2>2
  <2>9. rsp \in Responses  BY <2>1
  <2>10. ifip \in {"null", "set", "freed"} /\ unheard \subseteq Addrs  OBVIOUS
  <2> QED BY <2>3, <2>4, <2>5, <2>6, <2>7, <2>8, <2>9, <2>10 DEF TypeOK
<1>2. QueueIntegrity
  BY DEF QueueIntegrity
<1>3. Lifecycle
  BY DEF Lifecycle, Idle, NoRsp
<1>4. StampOrder /\ FifoPerDestination /\ WaitingHasWaker /\ OopsOnlyInWindow
  BY DEF StampOrder, FifoPerDestination, WaitingHasWaker, OopsOnlyInWindow
<1> QED BY <1>1, <1>2, <1>3, <1>4 DEF IInv

\* Only a packet that reaches the end of the hook's tests is stolen; all
\* such packets needed ifip.
LEMMA StolenNeedsIfip ==
  ASSUME ConstantsAssumption, NEW p \in Packets, Verdict(p) = "NF_STOLEN"
  PROVE  ~Info[p].gpsd
  BY DEF Verdict, ConstantsAssumption, PacketInfo

\* A hook that lets a packet pass, rejects it or faults disturbs nothing.
LEMMA HookPassInv ==
  ASSUME IInv, ~oops, NEW p \in Packets, HookPass(p) \/ HookReject(p)
  PROVE  IInv'
<1> USE ConstantsAssumption DEF IInv, HookPass, HookReject, HookCalled, modVars, hookVars, nlVars
<1>1. TypeOK'
  BY DEF TypeOK, Locs
<1>2. QueueIntegrity'
  <2>1. \A q \in Packets : loc'[q] = "queued" <=> loc[q] = "queued"
    BY DEF TypeOK
  <2> QED BY <2>1 DEF QueueIntegrity
<1>3. Lifecycle'
  BY DEF TypeOK, Lifecycle, Idle
<1>4. StampOrder'
  BY DEF TypeOK, StampOrder
<1>5. FifoPerDestination'
  BY DEF TypeOK, FifoPerDestination, StampOrder, Dst
<1>6. WaitingHasWaker'
  BY DEF TypeOK, WaitingHasWaker, Dst, Idle
<1>7. OopsOnlyInWindow'
  BY DEF OopsOnlyInWindow
<1> QED BY <1>1, <1>2, <1>3, <1>4, <1>5, <1>6, <1>7

\* A hook that faults on ifip (geosvr_hook) leaves everything but oops alone;
\* it can do so only while a hook is registered and the record is missing.
LEMMA HookOopsInv ==
  ASSUME IInv, ~oops, NEW p \in Packets, HookOops(p)
  PROVE  IInv'
<1> USE ConstantsAssumption DEF IInv, HookOops, HookCalled, hookVars, nlVars, queueVars
<1>1. TypeOK' /\ QueueIntegrity' /\ StampOrder'
  BY DEF TypeOK, QueueIntegrity, StampOrder
<1>2. Lifecycle'
  BY DEF TypeOK, Lifecycle, Idle
<1>3. FifoPerDestination' /\ WaitingHasWaker'
  BY DEF FifoPerDestination, WaitingHasWaker, Dst, Idle
<1>4. OopsOnlyInWindow'
  BY DEF OopsOnlyInWindow, Registered, TypeOK, Lifecycle
<1> QED BY <1>1, <1>2, <1>3, <1>4

\* geosvr_hook goes on with a clone that geosvr_ip_has_encapsulated freed.
LEMMA HookUsesFreedInv ==
  ASSUME IInv, ~oops, NEW p \in Packets, HookUsesFreed(p)
  PROVE  IInv'
<1> USE ConstantsAssumption DEF IInv, HookUsesFreed, HookCalled, hookVars, nlVars, queueVars
<1>1. TypeOK' /\ QueueIntegrity' /\ StampOrder'
  BY DEF TypeOK, QueueIntegrity, StampOrder
<1>2. Lifecycle'
  BY DEF TypeOK, Lifecycle, Idle
<1>3. FifoPerDestination' /\ WaitingHasWaker'
  BY DEF FifoPerDestination, WaitingHasWaker, Dst, Idle
<1>4. HookCalled(p)' /\ FreedInHook(p)
  BY DEF Registered
<1>5. OopsOnlyInWindow'
  BY <1>4 DEF OopsOnlyInWindow, FreedInHook, IsBcast
<1> QED BY <1>1, <1>2, <1>3, <1>5

\* geosvr_hook reads the addresses of a packet an answer loop has taken.
LEMMA HookReadsFreedInv ==
  ASSUME IInv, ~oops, NEW p \in Packets, HookReadsFreed(p)
  PROVE  IInv'
<1> USE ConstantsAssumption DEF IInv, HookReadsFreed, hookVars, nlVars, queueVars
<1>1. TypeOK' /\ QueueIntegrity' /\ StampOrder'
  BY DEF TypeOK, QueueIntegrity, StampOrder
<1>2. Lifecycle'
  BY DEF TypeOK, Lifecycle, Idle
<1>3. FifoPerDestination' /\ WaitingHasWaker'
  BY DEF FifoPerDestination, WaitingHasWaker, Dst, Idle
<1>4. hookpc'[p] = "request" /\ HeaderGone(p)'
  BY DEF HeaderGone
<1>5. OopsOnlyInWindow'
  BY <1>4 DEF OopsOnlyInWindow
<1> QED BY <1>1, <1>2, <1>3, <1>5

\* The first half of the stealing path of geosvr_hook: whether the packet is
\* queued, refused because the queue is full, or lost for want of memory, the
\* queue stays sound and the hook still owes the request.
LEMMA HookEnqueueInv ==
  ASSUME IInv, ~oops, NEW p \in Packets, HookEnqueue(p)
  PROVE  IInv'
<1> USE ConstantsAssumption
<1> USE DEF IInv, modVars, nlVars
<1>1. /\ loc[p] = "stack" /\ ifip # "null" /\ Registered(Info[p].hook)
      /\ hookpc' = [hookpc EXCEPT ![p] = "request"]
      /\ UNCHANGED <<phase, ifip, oops, nlsock, daemon, peer_pid, rsp, unheard>>
  BY StolenNeedsIfip DEF HookEnqueue, HookCalled, IfipReadable
<1>2. CASE /\ loc' = [loc EXCEPT ![p] = "orphan"]
           /\ UNCHANGED <<queue, queue_total, stamp, clock>>
  <2>1. TypeOK'  BY <1>1, <1>2 DEF TypeOK, Locs
  <2>2. QueueIntegrity'  BY <1>1, <1>2 DEF TypeOK, QueueIntegrity
  <2>3. Lifecycle'  BY <1>1, <1>2 DEF TypeOK, Lifecycle, Idle, Registered
  <2>4. StampOrder'  BY <1>1, <1>2 DEF TypeOK, StampOrder
  <2>5. FifoPerDestination'
    BY <1>1, <1>2 DEF TypeOK, FifoPerDestination, StampOrder, Dst
  <2>6. WaitingHasWaker'  BY <1>1, <1>2 DEF TypeOK, WaitingHasWaker, Dst, Idle
  <2>7. OopsOnlyInWindow'  BY <1>1 DEF OopsOnlyInWindow
  <2> QED BY <2>1, <2>2, <2>3, <2>4, <2>5, <2>6, <2>7
<1>3. CASE /\ queue_total < QueueMaxLen
           /\ loc' = [loc EXCEPT ![p] = "queued"]
           /\ queue' = Append(queue, p)
           /\ queue_total' = queue_total + 1
           /\ stamp' = [stamp EXCEPT ![p] = clock]
           /\ clock' = clock + 1
  <2>0. /\ queue \in Seq(Packets) /\ queue' \in Seq(Packets)
        /\ Len(queue') = Len(queue) + 1
        /\ queue'[Len(queue) + 1] = p
        /\ \A i \in DOMAIN queue : queue'[i] = queue[i] /\ queue[i] # p
    <3>1. \A i \in DOMAIN queue : queue[i] \in Packets /\ queue[i] # p
      BY <1>1 DEF TypeOK, QueueIntegrity
    <3> QED BY <1>3, <3>1 DEF TypeOK
  <2>1. TypeOK'  BY <1>1, <1>3, <2>0 DEF TypeOK, Locs
  <2>2. QueueIntegrity'
    <3>0. /\ DOMAIN queue = 1..Len(queue) /\ DOMAIN queue' = 1..(Len(queue) + 1)
          /\ Len(queue) \in Nat
      BY <2>0
    <3>1. ASSUME NEW q \in Packets
          PROVE  loc'[q] = "queued" <=> \E i \in DOMAIN queue' : queue'[i] = q
      <4>1. CASE q = p
        <5>1. loc'[q] = "queued"  BY <1>3, <4>1 DEF TypeOK
        <5>2. Len(queue) + 1 \in DOMAIN queue' /\ queue'[Len(queue) + 1] = q
          BY <2>0, <3>0, <4>1
        <5> QED BY <5>1, <5>2
      <4>2. CASE q # p
        <5>1. loc'[q] = loc[q]  BY <1>3, <4>2 DEF TypeOK
        <5>2. (\E i \in DOMAIN queue' : queue'[i] = q)
                <=> \E i \in DOMAIN queue : queue[i] = q
          BY <2>0, <3>0, <4>2
        <5>3. loc[q] = "queued" <=> \E i \in DOMAIN queue : queue[i] = q
          BY DEF QueueIntegrity
        <5> QED BY <5>1, <5>2, <5>3
      <4> QED BY <4>1, <4>2
    <3>2. (\A i, j \in DOMAIN queue : queue[i] = queue[j] => i = j)'
      <4>1. \A i, j \in DOMAIN queue : queue[i] = queue[j] => i = j
        BY DEF QueueIntegrity
      <4> QED BY <2>0, <3>0, <4>1
    <3>3. (queue_total = Len(queue) /\ queue_total <= QueueMaxLen)'
      BY <1>3, <2>0 DEF TypeOK, QueueIntegrity
    <3> QED BY <3>1, <3>2, <3>3 DEF QueueIntegrity
  <2>3. Lifecycle'
    BY <1>1, <1>3 DEF TypeOK, Lifecycle, Idle, Registered, MayQueue
  <2>4. StampOrder'
    <3>1. (\A i, j \in DOMAIN queue : i < j => stamp[queue[i]] < stamp[queue[j]])'
      BY <1>1, <1>3, <2>0 DEF TypeOK, StampOrder
    <3>2. clock' \in Nat /\ clock < clock' /\ 0 < clock
      BY <1>3 DEF TypeOK
    <3>3. (\A q \in Packets : stamp[q] < clock)'
      BY <3>2, <1>3 DEF TypeOK, StampOrder
    <3>4. (\A q \in Packets : loc[q] = "stack" => stamp[q] = 0)'
      BY <1>3 DEF TypeOK, StampOrder
    <3>5. (\A q \in Packets : loc[q] = "queued" => 0 < stamp[q])'
      BY <3>2, <1>3 DEF TypeOK, StampOrder
    <3> QED BY <3>1, <3>3, <3>4, <3>5 DEF StampOrder
  <2>5. FifoPerDestination'
    BY <1>1, <1>3 DEF TypeOK, FifoPerDestination, StampOrder, Dst
  <2>6. WaitingHasWaker'  BY <1>1, <1>3 DEF TypeOK, WaitingHasWaker, Dst, Idle
  <2>7. OopsOnlyInWindow'  BY <1>1 DEF OopsOnlyInWindow
  <2> QED BY <2>1, <2>2, <2>3, <2>4, <2>5, <2>6, <2>7
<1>4. queue_total < QueueMaxLen <=> ~(queue_total >= QueueMaxLen)
  BY DEF TypeOK
<1>5. EnqueueEntry(p) \/ EnqueueNoMemory(p)
  BY DEF HookEnqueue
<1> HIDE DEF IInv
<1> QED
  BY <1>2, <1>3, <1>4, <1>5 DEF EnqueueEntry, EnqueueNoMemory

\* Requests and answers name an address.
LEMMA RequestFacts ==
  ASSUME NEW r \in Requests PROVE r.dst \in Addrs
  BY DEF Requests

\* The second half of the stealing path: the request reaches the socket of
\* the daemon or its destination is noted as unheard.
LEMMA HookRequestInv ==
  ASSUME IInv, ~oops, NEW p \in Packets, HookRequest(p)
  PROVE  IInv'
<1> USE ConstantsAssumption DEF IInv
<1>0. PICK d \in DstRead(p) :
        \/ nlsock' = Append(nlsock, RequestOf(p, d)) /\ unheard' = unheard
        \/ nlsock' = nlsock /\ unheard' = unheard \cup {d}
  BY DEF HookRequest
<1>1. /\ hookpc' = [hookpc EXCEPT ![p] = "idle"]
      /\ UNCHANGED <<phase, ifip, oops, queueVars, daemon, peer_pid, rsp>>
  BY DEF HookRequest, modVars
<1>2. d \in Addrs /\ RequestOf(p, d) \in Requests /\ RequestOf(p, d).dst = d
  <2>1. d \in Addrs  BY <1>0 DEF DstRead, Dst, PacketInfo
  <2> QED BY <2>1 DEF RequestOf, Requests
<1>3. TypeOK'
  <2>1. nlsock' \in Seq(Requests) /\ unheard' \subseteq Addrs
    <3>1. nlsock \in Seq(Requests) /\ unheard \subseteq Addrs  BY DEF TypeOK
    <3>2. Append(nlsock, RequestOf(p, d)) \in Seq(Requests)  BY <3>1, <1>2
    <3>3. unheard \cup {d} \subseteq Addrs  BY <3>1, <1>2
    <3> QED BY <1>0, <3>1, <3>2, <3>3
  <2>2. hookpc' \in [Packets -> {"idle", "request"}]
    BY <1>1 DEF TypeOK
  <2> QED BY <1>1, <2>1, <2>2 DEF TypeOK, queueVars
<1>4. QueueIntegrity' /\ StampOrder'
  BY <1>1 DEF QueueIntegrity, StampOrder, queueVars
<1>5. Lifecycle'  BY <1>1 DEF Lifecycle, TypeOK, Idle, queueVars
<1>6. FifoPerDestination'  BY <1>1 DEF FifoPerDestination, Dst, queueVars
<1>7. WaitingHasWaker'
  <2> SUFFICES ASSUME NEW q \in Packets, loc[q] = "queued"
               PROVE  (\/ hookpc[q] = "request"
                       \/ \E i \in DOMAIN nlsock : nlsock[i].dst = Dst(q)
                       \/ ~Idle /\ rsp.dst = Dst(q)
                       \/ Dst(q) \in unheard)'
    BY <1>1 DEF WaitingHasWaker, queueVars
  <2>1. \A i \in DOMAIN nlsock : i \in DOMAIN nlsock' /\ nlsock'[i] = nlsock[i]
    <3>1. CASE nlsock' = nlsock  BY <3>1
    <3>2. CASE nlsock' = Append(nlsock, RequestOf(p, d))
      BY <3>2, <1>2 DEF TypeOK
    <3> QED BY <1>0, <3>1, <3>2
  <2>2. CASE q # p
    BY <1>0, <1>1, <2>1, <2>2 DEF WaitingHasWaker, TypeOK, Idle, Dst
  <2>3. CASE q = p /\ nlsock' = Append(nlsock, RequestOf(p, d))
    <3>1. nlsock'[Len(nlsock) + 1] = RequestOf(p, d) /\ Len(nlsock) + 1 \in DOMAIN nlsock'
      BY <2>3, <1>2 DEF TypeOK
    <3>2. d = Dst(q)  BY <1>0, <2>3 DEF DstRead, HeaderGone
    <3> QED BY <3>1, <3>2, <1>2 DEF Dst
  <2>4. CASE q = p /\ unheard' = unheard \cup {d}
    <3>1. d = Dst(q)  BY <1>0, <2>4 DEF DstRead, HeaderGone
    <3> QED BY <2>4, <3>1 DEF Dst
  <2> QED BY <1>0, <2>2, <2>3, <2>4
<1>8. OopsOnlyInWindow'  BY <1>1 DEF OopsOnlyInWindow
<1> QED BY <1>3, <1>4, <1>5, <1>6, <1>7, <1>8

\* The daemon's answer concerns the destination that was asked for.
LEMMA AnswerFacts ==
  ASSUME NEW r \in Requests, NEW x \in Answers(r)
  PROVE  x \in Responses /\ x.dst = r.dst /\ x.kind # "IDLE"
<1>1. /\ r.req \in {"SEND", "FORWARD"} /\ r.dst \in Addrs
  BY DEF Requests
<1>2. CASE x = [kind |-> "RSP_DROP", req |-> r.req, dst |-> r.dst, routed |-> FALSE]
  BY <1>1, <1>2 DEF Responses
<1>3. ASSUME NEW b \in BOOLEAN,
             x = [kind |-> "RSP_SEND", req |-> r.req, dst |-> r.dst, routed |-> b]
      PROVE  x \in Responses /\ x.dst = r.dst /\ x.kind # "IDLE"
  BY <1>1, <1>3 DEF Responses
<1> QED BY <1>2, <1>3 DEF Answers

\* The daemon takes one request off its socket: an answer for the same
\* destination is then being handled, or the destination is unheard.
LEMMA DaemonAnswerInv ==
  ASSUME IInv, ~oops, DaemonAnswer
  PROVE  IInv'
<1> USE ConstantsAssumption DEF IInv
<1> DEFINE r == Head(nlsock)
<1>1. /\ daemon # 0 /\ Idle
      /\ nlsock' = Tail(nlsock)
      /\ UNCHANGED <<phase, ifip, oops, hookpc, queueVars, daemon>>
      /\ \/ peer_pid' = daemon /\ rsp' \in Answers(r) /\ unheard' = unheard
         \/ unheard' = unheard \cup {r.dst} /\ UNCHANGED <<peer_pid, rsp>>
  BY DEF DaemonAnswer, modVars, hookVars
<1>2. /\ r \in Requests /\ nlsock' \in Seq(Requests) /\ r.dst \in Addrs
      /\ \A i \in DOMAIN nlsock :
           nlsock[i] = r \/ \E j \in DOMAIN nlsock' : nlsock'[j] = nlsock[i]
  <2>1. nlsock \in Seq(Requests) /\ nlsock # <<>>
    BY DEF DaemonAnswer, TypeOK
  <2>2. r = nlsock[1] /\ r \in Requests
    BY <2>1
  <2>3. r.dst \in Addrs
    BY <2>2, RequestFacts
  <2>4. nlsock' \in Seq(Requests) /\ Len(nlsock') = Len(nlsock) - 1
        /\ \A i \in 1..(Len(nlsock) - 1) : nlsock'[i] = nlsock[i + 1]
    BY <1>1, <2>1
  <2>5. ASSUME NEW i \in DOMAIN nlsock, i # 1
        PROVE  i - 1 \in DOMAIN nlsock' /\ nlsock'[i - 1] = nlsock[i]
    BY <2>1, <2>4, <2>5
  <2> HIDE DEF r
  <2> QED BY <2>2, <2>3, <2>4, <2>5
<1> HIDE DEF r
<1>3. CASE peer_pid' = daemon /\ rsp' \in Answers(r) /\ unheard' = unheard
  <2>0. rsp' \in Responses /\ rsp'.dst = r.dst /\ rsp'.kind # "IDLE"
    BY <1>2, <1>3, AnswerFacts
  <2>1. TypeOK'  BY <1>1, <1>2, <1>3, <2>0 DEF TypeOK, queueVars
  <2>2. QueueIntegrity' /\ StampOrder'
    BY <1>1 DEF QueueIntegrity, StampOrder, queueVars
  <2>3. Lifecycle'  BY <1>1, <2>0 DEF Lifecycle, Idle, queueVars
  <2>4. FifoPerDestination'  BY <1>1 DEF FifoPerDestination, Dst, queueVars
  <2>5. WaitingHasWaker'
    BY <1>1, <1>2, <1>3, <2>0 DEF WaitingHasWaker, Idle, Dst, queueVars
  <2>6. OopsOnlyInWindow'  BY <1>1 DEF OopsOnlyInWindow
  <2> QED BY <2>1, <2>2, <2>3, <2>4, <2>5, <2>6
<1>4. CASE unheard' = unheard \cup {r.dst} /\ UNCHANGED <<peer_pid, rsp>>
  <2>1. TypeOK'  BY <1>1, <1>2, <1>4 DEF TypeOK, queueVars
  <2>2. QueueIntegrity' /\ StampOrder'
    BY <1>1 DEF QueueIntegrity, StampOrder, queueVars
  <2>3. Lifecycle'  BY <1>1, <1>4 DEF Lifecycle, Idle, queueVars
  <2>4. FifoPerDestination'  BY <1>1 DEF FifoPerDestination, Dst, queueVars
  <2>5. WaitingHasWaker'
    BY <1>1, <1>2, <1>4 DEF WaitingHasWaker, Idle, Dst, queueVars
  <2>6. OopsOnlyInWindow'  BY <1>1 DEF OopsOnlyInWindow
  <2> QED BY <2>1, <2>2, <2>3, <2>4, <2>5, <2>6
<1> QED BY <1>1, <1>3, <1>4

\* The daemon starts or ends; what it leaves unread becomes unheard.
LEMMA DaemonLifeInv ==
  ASSUME IInv, ~oops, DaemonStart \/ DaemonExit
  PROVE  IInv'
<1> USE ConstantsAssumption DEF IInv
<1>1. UNCHANGED <<phase, ifip, oops, hookpc, queueVars, peer_pid, rsp>>
  BY DEF DaemonStart, DaemonExit, modVars, hookVars
<1>2. \A i \in DOMAIN nlsock : nlsock[i].dst \in Addrs
  BY RequestFacts DEF TypeOK
<1>3. TypeOK'
  <2>1. nlsock' \in Seq(Requests) /\ daemon' \in Pids \cup {0} /\ unheard' \subseteq Addrs
    <3>1. CASE DaemonStart  BY <3>1 DEF TypeOK, DaemonStart
    <3>2. CASE DaemonExit
      <4>1. {nlsock[i].dst : i \in DOMAIN nlsock} \subseteq Addrs  BY <1>2
      <4>2. <<>> \in Seq(Requests)  OBVIOUS
      <4> QED BY <3>2, <4>1, <4>2 DEF TypeOK, DaemonExit
    <3> QED BY <3>1, <3>2
  <2> QED BY <1>1, <2>1 DEF TypeOK, queueVars
<1>4. QueueIntegrity' /\ StampOrder'
  BY <1>1 DEF QueueIntegrity, StampOrder, queueVars
<1>5. Lifecycle'
  BY <1>1 DEF Lifecycle, TypeOK, Idle, queueVars, DaemonStart, DaemonExit
<1>6. FifoPerDestination'  BY <1>1 DEF FifoPerDestination, Dst, queueVars
<1>7. WaitingHasWaker'
  BY <1>1 DEF WaitingHasWaker, Idle, Dst, queueVars, DaemonStart, DaemonExit
<1>8. OopsOnlyInWindow'  BY <1>1 DEF OopsOnlyInWindow
<1> QED BY <1>3, <1>4, <1>5, <1>6, <1>7, <1>8

------------------------------------------------------------------------------
(***************************************************************************)
(* The answer loop.                                                        *)
(***************************************************************************)

\* One round of the answer loop (geosvr_queue_send_pkt, drop_pkt) takes the
\* oldest entry for the destination off the list.
LEMMA DequeueInv ==
  ASSUME IInv, ~oops, Dequeue
  PROVE  IInv'
<1> USE ConstantsAssumption DEF IInv
<1>1. PICK i \in DOMAIN queue :
        /\ IsOldest(i, rsp.dst)
        /\ loc' = [loc EXCEPT ![queue[i]] = "held"]
        /\ queue' = RemoveAt(queue, i)
  BY DEF Dequeue
<1>2. /\ ~Idle
      /\ queue_total' = queue_total - 1
      /\ UNCHANGED <<phase, ifip, oops, hookpc, stamp, clock,
                     nlsock, daemon, peer_pid, rsp, unheard>>
  BY DEF Dequeue, modVars, hookVars, nlVars
<1> DEFINE h == queue[i]
<1>3. queue \in Seq(Packets) /\ i \in 1..Len(queue) /\ h \in Packets /\ loc[h] = "queued"
  BY DEF TypeOK, QueueIntegrity
<1>4. /\ queue' \in Seq(Packets) /\ Len(queue') = Len(queue) - 1
      /\ \A j \in 1..(Len(queue) - 1) :
           queue'[j] = IF j < i THEN queue[j] ELSE queue[j + 1]
  BY <1>1, <1>3, RemoveAtFacts
<1>5. /\ \A j \in DOMAIN queue' : \E k \in DOMAIN queue : k # i /\ queue'[j] = queue[k]
      /\ \A k \in DOMAIN queue :
           k # i => \E j \in DOMAIN queue' : queue'[j] = queue[k]
  BY <1>1, <1>3, RemoveAtEntries
<1> DEFINE m(j) == IF j < i THEN j ELSE j + 1
<1>0. /\ \A j \in DOMAIN queue' : /\ j \in Nat /\ m(j) \in DOMAIN queue
                                  /\ queue'[j] = queue[m(j)]
      /\ \A j, k \in DOMAIN queue' : m(j) = m(k) => j = k
      /\ \A j, k \in DOMAIN queue' : j < k => m(j) < m(k)
  <2>1. DOMAIN queue' = 1..(Len(queue) - 1) /\ DOMAIN queue = 1..Len(queue)
        /\ Len(queue) \in Nat /\ i \in Nat
    BY <1>3, <1>4
  <2>2. \A j \in 1..(Len(queue) - 1) : m(j) \in 1..Len(queue) /\ queue'[j] = queue[m(j)]
    BY <1>3, <1>4
  <2> QED BY <2>1, <2>2
<1> HIDE DEF m
<1>6. \A p \in Packets : loc'[p] = IF p = h THEN "held" ELSE loc[p]
  BY <1>1, <1>3 DEF TypeOK
<1>7. TypeOK'
  <2>1. queue_total' \in Nat  BY <1>2, <1>3 DEF TypeOK, QueueIntegrity
  <2>2. loc' \in [Packets -> Locs]  BY <1>1, <1>3 DEF TypeOK, Locs
  <2> QED BY <1>2, <1>4, <2>1, <2>2 DEF TypeOK
<1>8. QueueIntegrity'
  <2>1. \A p \in Packets : loc'[p] = "queued" <=> \E j \in DOMAIN queue' : queue'[j] = p
    BY <1>3, <1>5, <1>6 DEF QueueIntegrity
  <2>2. ASSUME NEW j \in DOMAIN queue', NEW k \in DOMAIN queue', queue'[j] = queue'[k]
        PROVE  j = k
    BY <1>0, <2>2 DEF QueueIntegrity
  <2>3. queue_total' = Len(queue') /\ queue_total' <= QueueMaxLen
    BY <1>2, <1>3, <1>4 DEF QueueIntegrity, TypeOK
  <2> QED BY <2>1, <2>2, <2>3 DEF QueueIntegrity
<1>9. Lifecycle'
  BY <1>2, <1>3, <1>6 DEF Lifecycle, Idle
<1>10. StampOrder'
  <2>1. ASSUME NEW j \in DOMAIN queue', NEW k \in DOMAIN queue', j < k
        PROVE  stamp[queue'[j]] < stamp[queue'[k]]
    BY <1>0, <2>1 DEF StampOrder
  <2> QED BY <1>2, <1>3, <1>6, <2>1 DEF StampOrder
<1>11. FifoPerDestination'
  <2> SUFFICES ASSUME NEW p \in Packets, NEW q \in Packets,
                      Dst(p) = Dst(q), 0 < stamp[p], stamp[p] < stamp[q],
                      loc'[p] = "queued"
               PROVE  loc'[q] = "queued"
    BY <1>2 DEF FifoPerDestination, Dst
  <2>1. loc[p] = "queued" /\ loc[q] = "queued"
    BY <1>6 DEF FifoPerDestination
  <2>2. CASE q = h
    <3>1. PICK j \in DOMAIN queue : queue[j] = p
      BY <2>1 DEF QueueIntegrity
    <3>2. i <= j
      BY <1>1, <2>2, <3>1 DEF IsOldest, Matches
    <3>3. stamp[q] <= stamp[p]
      BY <1>3, <2>2, <3>1, <3>2 DEF StampOrder, TypeOK
    <3> QED BY <3>3 DEF TypeOK
  <2> QED BY <1>6, <2>1, <2>2
<1>12. WaitingHasWaker'
  BY <1>2, <1>6 DEF WaitingHasWaker, Idle, Dst
<1>13. OopsOnlyInWindow'  BY <1>2 DEF OopsOnlyInWindow
<1> QED BY <1>7, <1>8, <1>9, <1>10, <1>11, <1>12, <1>13

\* The packet that was taken off the list is sent, freed or forgotten.
LEMMA DisposeInv ==
  ASSUME IInv, ~oops, NEW p \in Packets, Dispose(p)
  PROVE  IInv'
<1> USE ConstantsAssumption DEF IInv
<1>1. PICK o \in Outcomes : loc' = [loc EXCEPT ![p] = o]
  BY DEF Dispose
<1>2. loc[p] = "held" /\ UNCHANGED <<phase, ifip, oops, hookpc, queue, queue_total,
                                     stamp, clock, nlVars>>
  BY DEF Dispose, modVars, hookVars
<1>3. o \in {"sent", "freed", "orphan"}
  BY <1>1 DEF Outcomes, Encapsulate, IpForward, May
<1>4. /\ loc' \in [Packets -> Locs]
      /\ \A q \in Packets : loc'[q] = IF q = p THEN o ELSE loc[q]
  BY <1>1, <1>3 DEF TypeOK, Locs
<1>5. TypeOK'  BY <1>2, <1>4 DEF TypeOK, nlVars
<1>6. QueueIntegrity'
  <2>1. \A q \in Packets : loc'[q] = "queued" <=> loc[q] = "queued"
    BY <1>2, <1>3, <1>4
  <2> QED BY <1>2, <2>1 DEF QueueIntegrity
<1>7. Lifecycle'  BY <1>2, <1>3, <1>4 DEF Lifecycle, Idle, nlVars
<1>8. StampOrder'  BY <1>2, <1>3, <1>4 DEF StampOrder
<1>9. FifoPerDestination'  BY <1>2, <1>3, <1>4 DEF FifoPerDestination, Dst
<1>10. WaitingHasWaker'  BY <1>2, <1>3, <1>4 DEF WaitingHasWaker, Dst, Idle, nlVars
<1>11. OopsOnlyInWindow'  BY <1>2 DEF OopsOnlyInWindow
<1> QED BY <1>5, <1>6, <1>7, <1>8, <1>9, <1>10, <1>11

\* The answer loop ends only when no packet for its destination waits.
LEMMA LoopEndInv ==
  ASSUME IInv, ~oops, LoopEnd
  PROVE  IInv'
<1> USE ConstantsAssumption DEF IInv
<1>1. /\ NoneHeld /\ Matches(rsp.dst) = {}
      /\ rsp' = NoRsp /\ unheard' = unheard \ {rsp.dst}
      /\ UNCHANGED <<phase, ifip, oops, hookpc, queueVars, nlsock, daemon, peer_pid>>
  BY DEF LoopEnd, modVars, hookVars
<1>2. NoRsp \in Responses /\ NoRsp.kind = "IDLE"
  BY DEF NoRsp, Responses
<1>3. \A p \in Packets : loc[p] = "queued" => Dst(p) # rsp.dst
  BY <1>1 DEF Matches, QueueIntegrity
<1>4. TypeOK'  BY <1>1, <1>2 DEF TypeOK, queueVars
<1>5. QueueIntegrity' /\ StampOrder'
  BY <1>1 DEF QueueIntegrity, StampOrder, queueVars
<1>6. Lifecycle'  BY <1>1, <1>2 DEF Lifecycle, Idle, queueVars, NoneHeld
<1>7. FifoPerDestination'  BY <1>1 DEF FifoPerDestination, Dst, queueVars
<1>8. WaitingHasWaker'
  BY <1>1, <1>2, <1>3 DEF WaitingHasWaker, Idle, Dst, queueVars
<1>9. OopsOnlyInWindow'  BY <1>1 DEF OopsOnlyInWindow
<1> QED BY <1>4, <1>5, <1>6, <1>7, <1>8, <1>9

------------------------------------------------------------------------------
(***************************************************************************)
(* Loading and unloading the module.                                       *)
(***************************************************************************)

\* Flushing the queue when no answer is being handled.
LEMMA FlushInv ==
  ASSUME IInv, Flush, phase' \in {"absent", "flushed"},
         phase \in {"queue", "netlink", "hook0", "unhooked"},
         UNCHANGED <<ifip, oops, hookVars, nlVars>>, ~oops
  PROVE  IInv'
<1> USE ConstantsAssumption DEF IInv
<1>1. /\ \A p \in Packets : loc'[p] = IF loc[p] = "queued" THEN "freed" ELSE loc[p]
      /\ loc' \in [Packets -> Locs]
  BY DEF Flush, TypeOK, Locs
<1>2. /\ queue' = <<>> /\ queue_total' = 0
      /\ UNCHANGED <<stamp, clock, ifip, oops, hookpc, nlsock, daemon, peer_pid, rsp, unheard>>
  BY DEF Flush, hookVars, nlVars
<1>3. \A p \in Packets : loc'[p] # "queued" /\ loc'[p] # "held" /\ hookpc[p] # "request"
  BY <1>1 DEF Lifecycle, TypeOK
<1>4. TypeOK'
  <2>1. <<>> \in Seq(Packets)  OBVIOUS
  <2> QED BY <1>1, <1>2, <2>1 DEF TypeOK, Phases
<1>5. QueueIntegrity'
  <2>1. Len(<<>>) = 0 /\ DOMAIN <<>> = {} /\ 0 <= QueueMaxLen  OBVIOUS
  <2> QED BY <1>2, <1>3, <2>1 DEF QueueIntegrity
<1>6. Lifecycle'  BY <1>2, <1>3 DEF Lifecycle, Idle
<1>7. StampOrder'  BY <1>1, <1>2 DEF StampOrder
<1>8. FifoPerDestination' /\ WaitingHasWaker'
  BY <1>3 DEF FifoPerDestination, WaitingHasWaker
<1>9. OopsOnlyInWindow'  BY <1>2 DEF OopsOnlyInWindow
<1> QED BY <1>4, <1>5, <1>6, <1>7, <1>8, <1>9

\* A step of init or exit that leaves packets and netlink alone.
LEMMA PhaseInv ==
  ASSUME IInv, ~oops, UNCHANGED <<hookVars, queueVars, nlVars>>,
         NetlinkInit \/ RegisterHook("netlink", "hook0") \/ RegisterHook("hook0", "hook1")
         \/ IfInfoAdd \/ IfInfoPurge \/ UnregisterHook(PRE_ROUTING, "purged", "unhook0")
         \/ UnregisterHook(LOCAL_OUT, "unhook0", "unhooked")
  PROVE  IInv'
<1> USE ConstantsAssumption DEF IInv, NetlinkInit, RegisterHook, IfInfoAdd, IfInfoPurge,
                                UnregisterHook, May
<1>1. TypeOK'
  BY DEF TypeOK, Phases, hookVars, queueVars, nlVars
<1>2. QueueIntegrity' /\ StampOrder'
  BY DEF QueueIntegrity, StampOrder, queueVars
<1>3. Lifecycle'
  BY DEF Lifecycle, Idle, hookVars, queueVars, nlVars, HookQuiet, MayQueue, PacketInfo,
         PRE_ROUTING, LOCAL_OUT, TypeOK
<1>4. FifoPerDestination' /\ WaitingHasWaker'
  BY DEF FifoPerDestination, WaitingHasWaker, Idle, Dst, hookVars, queueVars, nlVars
<1>5. OopsOnlyInWindow'
  BY DEF OopsOnlyInWindow
<1> QED BY <1>1, <1>2, <1>3, <1>4, <1>5

\* Loading starts with a fresh queue, which was empty already.
LEMMA QueueInitInv ==
  ASSUME IInv, ~oops, QueueInit
  PROVE  IInv'
<1> USE ConstantsAssumption DEF IInv, QueueInit, hookVars
<1>1. \A p \in Packets : loc[p] # "queued" /\ loc[p] # "held" /\ hookpc[p] # "request"
  BY DEF Lifecycle, MayQueue
<1>2. TypeOK'
  <2>1. <<>> \in Seq(Packets)  OBVIOUS
  <2> QED BY <2>1 DEF TypeOK, Phases
<1>3. QueueIntegrity'
  <2>1. Len(<<>>) = 0 /\ DOMAIN <<>> = {} /\ 0 <= QueueMaxLen  OBVIOUS
  <2> QED BY <1>1, <2>1 DEF QueueIntegrity
<1>4. Lifecycle'  BY <1>1 DEF Lifecycle, Idle
<1>5. StampOrder'  BY DEF StampOrder
<1>6. FifoPerDestination' /\ WaitingHasWaker'
  BY <1>1 DEF FifoPerDestination, WaitingHasWaker
<1>7. OopsOnlyInWindow'  BY DEF OopsOnlyInWindow
<1> QED BY <1>2, <1>3, <1>4, <1>5, <1>6, <1>7

\* Unloading ends with the netlink socket (geosvr_netlink_fini); nobody
\* waits any more, so what was unheard can be forgotten.
LEMMA NetlinkFiniInv ==
  ASSUME IInv, ~oops, NetlinkFini
  PROVE  IInv'
<1> USE ConstantsAssumption DEF IInv, NetlinkFini, hookVars, queueVars
<1>1. \A p \in Packets : loc[p] # "queued" /\ loc[p] # "held" /\ hookpc[p] # "request"
  BY DEF Lifecycle, MayQueue
<1>2. TypeOK'  BY DEF TypeOK, Phases
<1>3. QueueIntegrity' /\ StampOrder'  BY DEF QueueIntegrity, StampOrder
<1>4. Lifecycle'  BY <1>1 DEF Lifecycle, Idle
<1>5. FifoPerDestination' /\ WaitingHasWaker'
  BY <1>1 DEF FifoPerDestination, WaitingHasWaker
<1>6. OopsOnlyInWindow'  BY DEF OopsOnlyInWindow
<1> QED BY <1>2, <1>3, <1>4, <1>5, <1>6

\* A step that changes nothing keeps the invariant.
LEMMA StutterInv ==
  ASSUME IInv, UNCHANGED vars
  PROVE  IInv'
<1> USE DEF IInv, vars, modVars, hookVars, queueVars, nlVars
<1>1. TypeOK' /\ QueueIntegrity' /\ StampOrder'
  BY DEF TypeOK, QueueIntegrity, StampOrder
<1>2. Lifecycle'
  BY DEF Lifecycle, Idle
<1>3. OopsOnlyInWindow'
  BY DEF OopsOnlyInWindow, HookCalled, Registered, HeaderGone
<1>4. FifoPerDestination' /\ WaitingHasWaker'
  BY DEF FifoPerDestination, WaitingHasWaker, Idle, Dst
<1> QED BY <1>1, <1>2, <1>3, <1>4

\* Every step of the module and the daemon keeps the inductive invariant.
LEMMA NextInv == IInv /\ [Next]_vars => IInv'
<1> SUFFICES ASSUME IInv, [Next]_vars PROVE IInv'
  OBVIOUS
<1>1. CASE UNCHANGED vars  BY <1>1, StutterInv
<1>2. CASE Halted  BY <1>2, StutterInv DEF Halted
<1>3. ASSUME ~oops, NEW p \in Packets, HookStep(p) \/ HookFaults(p)
      PROVE  IInv'
  BY <1>3, HookPassInv, HookEnqueueInv, HookRequestInv, HookOopsInv, HookUsesFreedInv,
     HookReadsFreedInv
     DEF HookStep, HookFaults
<1>4. CASE ~oops /\ (DaemonAnswer \/ DaemonStart \/ DaemonExit)
  BY <1>4, DaemonAnswerInv, DaemonLifeInv
<1>5. CASE ~oops /\ HandlerStep
  BY <1>5, DequeueInv, LoopEndInv, DisposeInv DEF HandlerStep
<1>6. CASE ~oops /\ LoadStep
  <2>1. CASE QueueInit  BY <1>6, <2>1, QueueInitInv
  <2>2. CASE InitFails
    BY <1>6, <2>2, FlushInv DEF InitFails
  <2>3. CASE NetlinkInit \/ RegisterHook("netlink", "hook0")
             \/ RegisterHook("hook0", "hook1") \/ IfInfoAdd
    <3>1. UNCHANGED <<hookVars, queueVars, nlVars>>
      BY <2>3 DEF NetlinkInit, RegisterHook, IfInfoAdd
    <3> QED BY <1>6, <2>3, <3>1, PhaseInv
  <2> QED BY <1>6, <2>1, <2>2, <2>3 DEF LoadStep
<1>7. CASE ~oops /\ UnloadStep
  <2>1. CASE NetlinkFini  BY <1>7, <2>1, NetlinkFiniInv
  <2>2. CASE QueueFini  BY <1>7, <2>2, FlushInv DEF QueueFini
  <2>3. CASE IfInfoPurge \/ UnregisterHook(PRE_ROUTING, "purged", "unhook0")
             \/ UnregisterHook(LOCAL_OUT, "unhook0", "unhooked")
    <3>1. UNCHANGED <<hookVars, queueVars, nlVars>>
      BY <2>3 DEF IfInfoPurge, UnregisterHook
    <3> QED BY <1>7, <2>3, <3>1, PhaseInv
  <2> QED BY <1>7, <2>1, <2>2, <2>3 DEF UnloadStep
<1> QED BY <1>1, <1>2, <1>3, <1>4, <1>5, <1>6, <1>7 DEF Next

\* The inductive invariant holds in every reachable state.
LEMMA Inductive == Spec => []IInv
  BY InitInv, NextInv, PTL DEF Spec

------------------------------------------------------------------------------
(***************************************************************************)
(* The results.                                                            *)
(***************************************************************************)

\* Every variable of the module keeps its type, through every interleaving
\* of hooks, answers, daemon restarts and module reloads.
THEOREM TypeCorrect == Spec => []TypeOK
<1>1. IInv => TypeOK  BY DEF IInv
<1> QED BY <1>1, Inductive, PTL

\* queue_list and queue_total always agree with what was enqueued and taken
\* out, and stay within queue_maxlen.
THEOREM QueueStaysSound == Spec => []QueueIntegrity
<1>1. IInv => QueueIntegrity  BY DEF IInv
<1> QED BY <1>1, Inductive, PTL

\* The queue, its counter and the buffers agree, in states of the right types.
THEOREM QueueSound == Spec => []QueueIsSound
<1>1. TypeOK /\ QueueIntegrity => QueueIsSound  BY DEF QueueIsSound
<1> QED BY <1>1, TypeCorrect, QueueStaysSound, PTL

\* Packets for one destination are released or dropped in the order in
\* which the hooks queued them.
THEOREM ReleasedInOrder == Spec => []FifoPerDestination
<1>1. IInv => FifoPerDestination  BY DEF IInv
<1> QED BY <1>1, Inductive, PTL

\* The hook's order, first enqueue, then request, leaves no packet waiting
\* without anything on its way to wake it, unless a request was lost.
THEOREM NoForgottenPacket == Spec => []WaitingHasWaker
<1>1. IInv => WaitingHasWaker  BY DEF IInv
<1> QED BY <1>1, Inductive, PTL

\* While an answer is handled the interface record can be read.
THEOREM AnswersFindIfip == Spec => []HandlerFindsIfip
<1>1. IInv => HandlerFindsIfip
  BY DEF IInv, HandlerFindsIfip, NoneHeld, Lifecycle, TypeOK
<1> QED BY <1>1, Inductive, PTL

\* geosvr_linux_exit, and a geosvr_linux_init that fails, leave no packet
\* and no running hook behind.
THEOREM UnloadLeavesNothing == Spec => []UnloadedIsEmpty
<1>1. IInv => UnloadedIsEmpty
  <2> SUFFICES ASSUME IInv, phase \in {"absent", "flushed"}
               PROVE  /\ \A p \in Packets : /\ loc[p] \notin {"queued", "held"}
                                            /\ hookpc[p] = "idle"
                      /\ Idle
    BY DEF UnloadedIsEmpty
  <2>1. Idle  BY DEF IInv, Lifecycle
  <2>2. ASSUME NEW p \in Packets
        PROVE  loc[p] \notin {"queued", "held"} /\ hookpc[p] = "idle"
    BY DEF IInv, Lifecycle, MayQueue, TypeOK
  <2> QED BY <2>1, <2>2
<1> QED BY <1>1, Inductive, PTL

\* Outside the windows of init and exit a module that found its interface
\* never follows a stale ifip.
THEOREM OopsOnlyAtTheEdges == Spec => []OopsOnlyInWindow
<1>1. IInv => OopsOnlyInWindow  BY DEF IInv
<1> QED BY <1>1, Inductive, PTL

\* The order of loading and unloading is safe up to the known windows.
THEOREM LoadingStaysSafe == Spec => []LoadingIsSafe
<1>1. UnloadedIsEmpty /\ HandlerFindsIfip /\ OopsOnlyInWindow => LoadingIsSafe
  BY DEF LoadingIsSafe
<1> QED BY <1>1, UnloadLeavesNothing, AnswersFindIfip, OopsOnlyAtTheEdges, PTL

------------------------------------------------------------------------------
(***************************************************************************)
(* The module keeps the promise of PacketCustody.                          *)
(***************************************************************************)
Own == [p \in Packets |-> OwnerOf(loc[p])]

\* One packet changes place: what the change means for its owner.
LEMMA OwnerMoves ==
  ASSUME NEW p \in Packets, NEW l, loc \in [Packets -> Locs],
         loc' = [loc EXCEPT ![p] = l]
  PROVE  Own' = [Own EXCEPT ![p] = OwnerOf(l)]
  BY DEF Own

\* A call of geosvr_hook is a Pass, a Reject, a Take or a stutter of
\* PacketCustody.
LEMMA HookRefines ==
  ASSUME TypeOK, NEW p \in Packets, HookStep(p) \/ HookFaults(p)
  PROVE  [Custody!Next]_Own
<1>1. loc \in [Packets -> Locs]  BY DEF TypeOK
<1>2. CASE HookPass(p)
  <2>1. Own[p] = "stack" /\ Own' = [Own EXCEPT ![p] = "passed"]
    BY <1>1, <1>2, OwnerMoves DEF HookPass, HookCalled, OwnerOf, Own
  <2>2. Custody!Pass(p)  BY <2>1 DEF Custody!Pass, Own
  <2> QED BY <2>2 DEF Custody!Next
<1>3. CASE HookReject(p)
  <2>1. Own[p] = "stack" /\ Own' = [Own EXCEPT ![p] = "rejected"]
    BY <1>1, <1>3, OwnerMoves DEF HookReject, HookCalled, OwnerOf, Own
  <2>2. Custody!Reject(p)  BY <2>1 DEF Custody!Reject, Own
  <2> QED BY <2>2 DEF Custody!Next
<1>4. CASE HookEnqueue(p)
  <2>1. Own[p] = "stack" /\ Own' = [Own EXCEPT ![p] = "module"]
    <3>1. PICK l \in {"queued", "orphan"} : loc' = [loc EXCEPT ![p] = l]
      BY <1>4 DEF HookEnqueue, EnqueueEntry, EnqueueNoMemory
    <3> QED BY <1>1, <1>4, <3>1, OwnerMoves DEF HookEnqueue, HookCalled, OwnerOf, Own
  <2>2. Custody!Take(p)  BY <2>1 DEF Custody!Take, Own
  <2> QED BY <2>2 DEF Custody!Next
<1>5. CASE HookRequest(p) \/ HookFaults(p)
  BY <1>5 DEF HookRequest, HookFaults, HookOops, HookUsesFreed, HookReadsFreed, queueVars, Own
<1> QED BY <1>2, <1>3, <1>4, <1>5 DEF HookStep

\* A step of the answer loop is a Transmit, a Discard or a stutter of
\* PacketCustody.
LEMMA HandlerRefines ==
  ASSUME IInv, HandlerStep
  PROVE  [Custody!Next]_Own
<1>1. loc \in [Packets -> Locs]  BY DEF IInv, TypeOK
<1>2. CASE Dequeue
  <2>1. PICK i \in DOMAIN queue : loc' = [loc EXCEPT ![queue[i]] = "held"]
    BY <1>2 DEF Dequeue
  <2>2. queue[i] \in Packets /\ loc[queue[i]] = "queued"
    BY DEF IInv, TypeOK, QueueIntegrity
  <2>3. Own' = [Own EXCEPT ![queue[i]] = "module"] /\ Own[queue[i]] = "module"
    BY <1>1, <2>1, <2>2, OwnerMoves DEF OwnerOf, Own
  <2>4. Own' = Own  BY <2>3 DEF Own
  <2> QED BY <2>4
<1>3. CASE LoopEnd  BY <1>3 DEF LoopEnd, queueVars, Own
<1>4. ASSUME NEW p \in Packets, Dispose(p) PROVE [Custody!Next]_Own
  <2>1. PICK o \in {"sent", "freed", "orphan"} : loc' = [loc EXCEPT ![p] = o]
    BY <1>4 DEF Dispose, Outcomes, Encapsulate, IpForward, May
  <2>2. Own[p] = "module" /\ Own' = [Own EXCEPT ![p] = OwnerOf(o)]
    BY <1>1, <1>4, <2>1, OwnerMoves DEF Dispose, OwnerOf, Own
  <2>3. CASE o = "sent"
    <3>1. Custody!Transmit(p)  BY <2>2, <2>3 DEF Custody!Transmit, Own, OwnerOf
    <3> QED BY <3>1 DEF Custody!Next
  <2>4. CASE o = "freed"
    <3>1. Custody!Discard({p})
      BY <2>2, <2>4 DEF Custody!Discard, Own, OwnerOf
    <3> QED BY <3>1 DEF Custody!Next
  <2>5. CASE o = "orphan"
    <3>1. Own' = Own  BY <2>2, <2>5 DEF Own, OwnerOf
    <3> QED BY <3>1
  <2> QED BY <2>1, <2>3, <2>4, <2>5
<1> QED BY <1>2, <1>3, <1>4 DEF HandlerStep

\* Flushing the queue (geosvr_queue_flush) is one Discard of all queued
\* packets.
LEMMA FlushRefines ==
  ASSUME TypeOK, Flush
  PROVE  [Custody!Next]_Own
<1> DEFINE S == {p \in Packets : loc[p] = "queued"}
<1>1. \A p \in S : Own[p] = "module"  BY DEF Own, OwnerOf
<1>2. Own' = [p \in Packets |-> IF p \in S THEN "discarded" ELSE Own[p]]
  BY DEF Own, OwnerOf, Flush
<1>3. Custody!Discard(S)  BY <1>1, <1>2 DEF Custody!Discard, Own
<1> QED BY <1>3 DEF Custody!Next

\* Whatever the hooks, the daemon and the lifecycle do, a packet that was
\* taken over is transmitted or freed at most once and never returns.
THEOREM KeepsCustody == Spec => CustodySpec
<1>1. Init => Custody!Init
  BY DEF Init, Custody!Init, OwnerOf
<1>2. IInv /\ [Next]_vars => [Custody!Next]_Own
  <2> SUFFICES ASSUME IInv, [Next]_vars PROVE [Custody!Next]_Own
    OBVIOUS
  <2>0. TypeOK  BY DEF IInv
  <2>1. CASE UNCHANGED vars \/ Halted  BY <2>1 DEF Halted, vars, queueVars, Own
  <2>2. ASSUME NEW p \in Packets, HookStep(p) \/ HookFaults(p)
        PROVE  [Custody!Next]_Own
    BY <2>0, <2>2, HookRefines
  <2>3. CASE DaemonAnswer \/ DaemonStart \/ DaemonExit
    BY <2>3 DEF DaemonAnswer, DaemonStart, DaemonExit, queueVars, Own
  <2>4. CASE HandlerStep  BY <2>4, HandlerRefines
  <2>5. CASE LoadStep
    BY <2>0, <2>5, FlushRefines DEF LoadStep, QueueInit, NetlinkInit, RegisterHook,
       IfInfoAdd, InitFails, queueVars, Own
  <2>6. CASE UnloadStep
    BY <2>0, <2>6, FlushRefines DEF UnloadStep, IfInfoPurge, UnregisterHook,
       QueueFini, NetlinkFini, queueVars, Own
  <2> QED BY <2>1, <2>2, <2>3, <2>4, <2>5, <2>6 DEF Next
<1> QED
  BY <1>1, <1>2, Inductive, PTL DEF Spec, CustodySpec, Custody!Spec, Own

-----------------------------------------------------------------------------
(* Forwarding: decimal numbers *)

\* The number that each beginning of a string of digits stands for.
Values(v, t) ==
  /\ v \in [0..Len(t) -> Nat]
  /\ v[0] = 0 /\ \A k \in 1..Len(t) : v[k] = 10 * v[k-1] + t[k]
  /\ Number(t) = v[Len(t)]

\* sscanf reads digit after digit.
LEMMA NumberIsLoop ==
  ASSUME NEW t \in Seq(0..9)
  PROVE  \E v : Values(v, t)
<1> DEFINE N == Len(t)
           Is(f) == f = [k \in 0..N |-> IF k = 0 THEN 0 ELSE 10 * f[k-1] + t[k]]
           next == [p \in Nat \X (1..N) |-> 10 * p[1] + t[p[2]]]
           f == CHOOSE f : Is(f)
<1>1. N \in Nat /\ \A k \in 1..N : t[k] \in Nat  OBVIOUS
<1>2. Number(t) = f[N]  BY DEF Number
<1>3. next \in [Nat \X (1..N) -> Nat]  BY <1>1
<1>4. \A y \in Nat, k \in 1..N : next[<<y, k>>] = 10 * y + t[k]  OBVIOUS
<1> HIDE DEF next, N
<1>5. PICK g : IsLoop(g, N, Nat, 0, next)
  <2>1. 0 \in Nat  OBVIOUS
  <2> QED BY <1>1, <1>3, <2>1, Recursion
<1>6. /\ g \in [0..N -> Nat] /\ g[0] = 0
      /\ \A k \in 1..N : g[k] = next[<<g[k-1], k>>]
  BY <1>5 DEF IsLoop
<1>7. ASSUME NEW k \in 1..N PROVE g[k] = 10 * g[k-1] + t[k]
  <2>1. k - 1 \in 0..N  BY <1>1
  <2> QED BY <1>4, <1>6, <2>1
<1>8. Is(g)
  <2>1. \A k \in 0..N : g[k] = IF k = 0 THEN 0 ELSE 10 * g[k-1] + t[k]  BY <1>6, <1>7
  <2> QED BY <1>6, <2>1
<1>9. Is(f)  BY <1>8
<1> HIDE DEF f
<1>10. f[0] = 0 /\ \A k \in 1..N : f[k] = 10 * f[k-1] + t[k]  BY <1>1, <1>9
<1> DEFINE P == {k \in 0..N : f[k] = g[k]}
<1>11. 0 \in P  BY <1>1, <1>6, <1>10
<1>12. ASSUME NEW k \in 1..N, k - 1 \in P PROVE k \in P
  <2>1. k \in 0..N  BY <1>1
  <2> QED BY <1>7, <1>10, <1>12, <2>1
<1> HIDE DEF P
<1>13. \A k \in 0..N : k \in P  BY <1>1, <1>11, <1>12, InductionUpTo
<1>14. f[N] = g[N]
  <2>1. N \in P  BY <1>1, <1>13
  <2> QED BY <2>1 DEF P
<1>15. Values(g, t)  BY <1>2, <1>6, <1>7, <1>14 DEF Values, N
<1> QED BY <1>15

\* The quotients of id by the powers of ten, and the first of them below ten.
Quotients(q, n, id) ==
  /\ q \in [0..id -> Nat]
  /\ q[0] = id /\ \A k \in 1..id : q[k] = q[k-1] \div 10
  /\ n \in 0..(id - 1) /\ q[n] < 10 /\ \A k \in 0..id : q[k] < 10 => n <= k
  /\ Decimal(id) = [i \in 1..(n + 1) |-> q[n + 1 - i] % 10]

\* Division by ten.
LEMMA DivTen ==
  /\ \A y \in Nat : /\ y \div 10 \in Nat /\ y % 10 \in 0..9
                    /\ y = 10 * (y \div 10) + (y % 10)
                    /\ (y < 10 <=> y \div 10 = 0)
                    /\ (y > 0 => y \div 10 < y)
  /\ \A y \in Nat, d \in 0..9 : (10 * y + d) \div 10 = y /\ (10 * y + d) % 10 = d
<1>1. ASSUME NEW y \in Nat
      PROVE  /\ y \div 10 \in Nat /\ y % 10 \in 0..9
             /\ y = 10 * (y \div 10) + (y % 10)
             /\ (y < 10 <=> y \div 10 = 0)
             /\ (y > 0 => y \div 10 < y)
  <2>1. y \div 10 \in Nat /\ y % 10 \in 0..9  OBVIOUS
  <2>2. y = 10 * (y \div 10) + (y % 10)  OBVIOUS
  <2> QED BY <2>1, <2>2
<1>2. ASSUME NEW y \in Nat, NEW d \in 0..9
      PROVE  (10 * y + d) \div 10 = y /\ (10 * y + d) % 10 = d
  <2>1. (10 * y + d) \div 10 = y  OBVIOUS
  <2>2. (10 * y + d) % 10 = d  OBVIOUS
  <2> QED BY <2>1, <2>2
<1> QED BY <1>1, <1>2

\* lexical_cast divides again and again.
LEMMA DecimalIsLoop ==
  ASSUME NEW id \in Nat, id > 0
  PROVE  \E q, n : Quotients(q, n, id)
<1> DEFINE Is(f) == f = [k \in 0..id |-> IF k = 0 THEN id ELSE f[k-1] \div 10]
           next == [p \in Nat \X (1..id) |-> p[1] \div 10]
           f == CHOOSE f : Is(f)
           n == Min({k \in 0..id : f[k] < 10})
<1>2. Decimal(id) = [i \in 1..(n + 1) |-> f[n + 1 - i] % 10]  BY DEF Decimal
<1>3. next \in [Nat \X (1..id) -> Nat]  BY DivTen
<1>4. \A y \in Nat, k \in 1..id : next[<<y, k>>] = y \div 10  OBVIOUS
<1> HIDE DEF next
<1>5. PICK g : IsLoop(g, id, Nat, id, next)  BY <1>3, Recursion
<1>6. /\ g \in [0..id -> Nat] /\ g[0] = id
      /\ \A k \in 1..id : g[k] = next[<<g[k-1], k>>]
  BY <1>5 DEF IsLoop
<1>7. ASSUME NEW k \in 1..id PROVE g[k] = g[k-1] \div 10
  <2>1. k - 1 \in 0..id  OBVIOUS
  <2> QED BY <1>4, <1>6, <2>1
<1>8. Is(g)
  <2>1. \A k \in 0..id : g[k] = IF k = 0 THEN id ELSE g[k-1] \div 10  BY <1>6, <1>7
  <2> QED BY <1>6, <2>1
<1>9. Is(f)  BY <1>8
<1>a. n = Min({k \in 0..id : f[k] < 10})  OBVIOUS
<1> HIDE DEF f, n
<1>10. f[0] = id /\ \A k \in 1..id : f[k] = f[k-1] \div 10  BY <1>9
<1> DEFINE P == {k \in 0..id : f[k] = g[k] /\ f[k] <= id - k}
<1>11. 0 \in P  BY <1>6, <1>10
<1>12. ASSUME NEW k \in 1..id, k - 1 \in P PROVE k \in P
  <2>1. k \in 0..id /\ k - 1 \in 0..id  OBVIOUS
  <2>2. f[k] = g[k]  BY <1>7, <1>10, <1>12
  <2>3. f[k-1] \in Nat /\ f[k-1] <= id - (k - 1)  BY <1>6, <1>12, <2>1
  <2>4. f[k] = f[k-1] \div 10  BY <1>10
  <2>5. f[k-1] = 0 \/ f[k] < f[k-1]  BY <2>3, <2>4, DivTen
  <2>6. f[k] \in Nat  BY <2>3, <2>4, DivTen
  <2>7. f[k-1] = 0 => f[k] = 0  BY <2>4, DivTen
  <2>8. f[k] <= id - k  BY <2>3, <2>5, <2>6, <2>7
  <2> QED BY <2>1, <2>2, <2>8
<1> HIDE DEF P
<1>13. \A k \in 0..id : k \in P  BY <1>11, <1>12, InductionUpTo
<1>14. \A k \in 0..id : f[k] = g[k] /\ f[k] <= id - k  BY <1>13 DEF P
<1>15. f \in [0..id -> Nat]
  <2>1. f = [k \in 0..id |-> f[k]]  BY <1>9
  <2> QED BY <1>6, <1>14, <2>1
<1> DEFINE low == {k \in 0..id : f[k] < 10}
<1>16. id - 1 \in low
  <2>1. id - 1 \in 0..id  OBVIOUS
  <2>2. f[id - 1] <= id - (id - 1)  BY <1>14, <2>1
  <2>3. f[id - 1] \in Nat  BY <1>15, <2>1
  <2> QED BY <2>1, <2>2, <2>3
<1>17. low \subseteq Nat /\ low # {}  BY <1>16
<1>18. n \in low /\ \A k \in low : n <= k
  <2>1. \E x \in low : \A y \in low : x <= y  BY <1>17, LeastExists
  <2>2. n = CHOOSE x \in low : \A y \in low : x <= y  BY <1>a DEF Min
  <2> HIDE DEF low
  <2> QED BY <2>1, <2>2
<1>19. n \in 0..(id - 1)  BY <1>16, <1>18
<1>20. Quotients(f, n, id)
  BY <1>2, <1>10, <1>15, <1>18, <1>19 DEF Quotients
<1> QED BY <1>20

\* A number as it is written: digits, the first of which is not 0.
Numeral(t) == t \in Seq(0..9) /\ t # <<>> /\ t[1] # 0

\* What is written is a numeral that is read as the same number.
LEMMA ReadWritten ==
  ASSUME NEW id \in Nat, id > 0
  PROVE  Numeral(Decimal(id)) /\ Number(Decimal(id)) = id
<1> DEFINE t == Decimal(id)
<1>1. PICK q, n : Quotients(q, n, id)  BY DecimalIsLoop
<1>2. /\ q \in [0..id -> Nat] /\ q[0] = id /\ \A k \in 1..id : q[k] = q[k-1] \div 10
      /\ n \in 0..(id - 1) /\ q[n] < 10
      /\ \A k \in 0..id : q[k] < 10 => n <= k
      /\ t = [i \in 1..(n + 1) |-> q[n + 1 - i] % 10]
  BY <1>1 DEF Quotients
<1>3. n \in Nat /\ n + 1 <= id  BY <1>2
<1> HIDE DEF t
<1>4. \A i \in 1..(n + 1) : q[n + 1 - i] \in Nat /\ t[i] = q[n + 1 - i] % 10 /\ t[i] \in 0..9
  <2> SUFFICES ASSUME NEW i \in 1..(n + 1)
               PROVE  q[n + 1 - i] \in Nat /\ t[i] = q[n + 1 - i] % 10 /\ t[i] \in 0..9
    OBVIOUS
  <2>1. n + 1 - i \in 0..id  BY <1>3
  <2>2. q[n + 1 - i] \in Nat  BY <1>2, <2>1
  <2>3. t[i] = q[n + 1 - i] % 10  BY <1>2
  <2> QED BY <2>2, <2>3, DivTen
<1>5. t \in [1..(n + 1) -> 0..9]  BY <1>2, <1>4
<1>6. t \in Seq(0..9) /\ Len(t) = n + 1
  <2> DEFINE D == 0..9
  <2>1. t \in [1..(n + 1) -> D] /\ n + 1 \in Nat  BY <1>3, <1>5
  <2> HIDE DEF D
  <2>2. t \in Seq(D) /\ Len(t) = n + 1  BY <2>1
  <2> QED BY <2>2 DEF D
<1>7. t[1] # 0
  <2>1. q[n] \in Nat /\ n \in 0..id  BY <1>2, <1>3
  <2>2. t[1] = q[n] % 10
    <3>1. 1 \in 1..(n + 1) /\ n + 1 - 1 = n  BY <1>3
    <3> QED BY <1>4, <3>1
  <2>3. q[n] # 0
    <3>1. CASE n = 0  BY <1>2, <3>1
    <3>2. CASE n # 0
      <4>1. n - 1 \in 0..id /\ n \in 1..id  BY <1>3, <3>2
      <4>2. q[n] = q[n-1] \div 10 /\ q[n-1] \in Nat  BY <1>2, <4>1
      <4>3. ~(q[n-1] < 10)  BY <1>2, <1>3, <4>1
      <4> QED BY <4>2, <4>3, DivTen
    <3> QED BY <3>1, <3>2
  <2>4. q[n] = 10 * (q[n] \div 10) + (q[n] % 10) /\ q[n] \div 10 = 0  BY <1>2, <2>1, DivTen
  <2>5. q[n] % 10 \in 0..9  BY <2>1, DivTen
  <2> QED BY <2>1, <2>2, <2>3, <2>4, <2>5
<1>8. Numeral(t)  BY <1>3, <1>6, <1>7 DEF Numeral
<1>9. PICK v : Values(v, t)  BY <1>6, NumberIsLoop
<1>10. /\ v \in [0..(n + 1) -> Nat] /\ v[0] = 0
       /\ \A k \in 1..(n + 1) : v[k] = 10 * v[k-1] + t[k]
       /\ Number(t) = v[n + 1]
  BY <1>6, <1>9 DEF Values
<1> DEFINE P == {i \in 0..(n + 1) : i >= 1 => v[i] = q[n + 1 - i]}
<1>11. 0 \in P  BY <1>3
<1>12. ASSUME NEW i \in 1..(n + 1), i - 1 \in P PROVE i \in P
  <2>1. i \in 0..(n + 1) /\ i - 1 \in 0..(n + 1)  BY <1>3
  <2>2. /\ v[i] = 10 * v[i-1] + t[i] /\ t[i] = q[n + 1 - i] % 10 /\ q[n + 1 - i] \in Nat
    BY <1>4, <1>10
  <2>3. v[i-1] = q[n + 1 - i] \div 10
    <3>1. CASE i = 1
      <4>1. n + 1 - i = n  BY <1>3, <3>1
      <4>2. q[n] \in Nat /\ q[n] < 10  BY <1>2, <2>2, <4>1
      <4> QED BY <1>10, <3>1, <4>1, <4>2, DivTen
    <3>2. CASE i # 1
      <4>1. i - 1 >= 1 /\ v[i-1] = q[n + 1 - (i - 1)]  BY <1>12, <2>1, <3>2
      <4>2. n + 1 - (i - 1) \in 1..id /\ (n + 1 - (i - 1)) - 1 = n + 1 - i
        BY <1>3, <3>2
      <4>3. q[n + 1 - (i - 1)] = q[(n + 1 - (i - 1)) - 1] \div 10  BY <1>2, <4>2
      <4> QED BY <4>1, <4>2, <4>3
    <3> QED BY <3>1, <3>2
  <2>4. v[i] = q[n + 1 - i]  BY <2>2, <2>3, DivTen
  <2> QED BY <2>1, <2>4
<1> HIDE DEF P
<1>13. \A i \in 0..(n + 1) : i \in P
  <2>1. n + 1 \in Nat  BY <1>3
  <2> QED BY <1>11, <1>12, <2>1, InductionUpTo
<1>14. v[n + 1] = q[0]
  <2>1. n + 1 \in P /\ n + 1 >= 1 /\ n + 1 - (n + 1) = 0  BY <1>3, <1>13
  <2> QED BY <2>1 DEF P
<1>15. Number(t) = id  BY <1>2, <1>10, <1>14
<1> QED BY <1>8, <1>15 DEF t

\* What is read from a numeral is written as the same numeral.
LEMMA WriteRead ==
  ASSUME NEW t, Numeral(t)
  PROVE  Number(t) \in Nat /\ Number(t) > 0 /\ Decimal(Number(t)) = t
<1> DEFINE m == Len(t)
           id == Number(t)
<1>1. /\ t \in Seq(0..9) /\ m \in Nat /\ m >= 1 /\ t[1] # 0
      /\ \A k \in 1..m : t[k] \in 0..9
  BY DEF Numeral
<1>2. PICK v : Values(v, t)  BY <1>1, NumberIsLoop
<1>3. /\ v \in [0..m -> Nat] /\ v[0] = 0 /\ id = v[m]
      /\ \A k \in 1..m : v[k] = 10 * v[k-1] + t[k]
  BY <1>2 DEF Values
<1> HIDE DEF m, id
<1> DEFINE P == {j \in 0..m : v[j] >= j /\ (j >= 2 => v[j] >= 10)}
<1>4. 0 \in P  BY <1>1, <1>3
<1>5. ASSUME NEW j \in 1..m, j - 1 \in P PROVE j \in P
  <2>0. j - 1 \in 0..m /\ j \in 0..m  BY <1>1
  <2>1. /\ j - 1 \in 0..m /\ j \in 0..m /\ v[j-1] \in Nat /\ v[j-1] >= j - 1
        /\ v[j] = 10 * v[j-1] + t[j] /\ t[j] \in 0..9
    <3>1. v[j-1] \in Nat  BY <1>3, <2>0
    <3>2. v[j-1] >= j - 1  BY <1>5
    <3>3. v[j] = 10 * v[j-1] + t[j] /\ t[j] \in 0..9  BY <1>1, <1>3
    <3> QED BY <2>0, <3>1, <3>2, <3>3
  <2>2. CASE j = 1
    <3>1. v[j] = t[1] /\ t[1] \in 1..9  BY <1>1, <1>3, <2>1, <2>2
    <3> QED BY <2>1, <2>2, <3>1
  <2>3. CASE j # 1
    <3>1. v[j-1] >= 1  BY <2>1, <2>3
    <3>2. v[j] >= 10 * v[j-1] /\ 10 * v[j-1] >= v[j-1] + 9  BY <2>1, <3>1
    <3>3. v[j] >= 10 /\ v[j] >= j  BY <2>1, <3>1, <3>2
    <3> QED BY <2>1, <3>3
  <2> QED BY <2>2, <2>3
<1> HIDE DEF P
<1>6. \A j \in 0..m : j \in P  BY <1>1, <1>4, <1>5, InductionUpTo
<1>7. \A j \in 0..m : v[j] >= j /\ (j >= 2 => v[j] >= 10)  BY <1>6 DEF P
<1>8. id \in Nat /\ id >= m /\ id > 0  BY <1>1, <1>3, <1>7
<1>9. PICK q, n : Quotients(q, n, id)  BY <1>8, DecimalIsLoop
<1>10. /\ q \in [0..id -> Nat] /\ q[0] = id /\ \A k \in 1..id : q[k] = q[k-1] \div 10
       /\ n \in 0..(id - 1) /\ q[n] < 10
       /\ \A k \in 0..id : q[k] < 10 => n <= k
       /\ Decimal(id) = [i \in 1..(n + 1) |-> q[n + 1 - i] % 10]
  BY <1>9 DEF Quotients
<1> DEFINE Q == {k \in 0..(m - 1) : q[k] = v[m - k]}
<1>11. 0 \in Q  BY <1>1, <1>3, <1>10
<1>12. ASSUME NEW k \in 1..(m - 1), k - 1 \in Q PROVE k \in Q
  <2>1. /\ k \in 1..id /\ k \in 0..(m - 1) /\ m - k \in 0..m /\ m - (k - 1) \in 1..m
        /\ (m - (k - 1)) - 1 = m - k
    BY <1>1, <1>8
  <2>2. q[k] = q[k-1] \div 10 /\ q[k-1] = v[m - (k - 1)]  BY <1>10, <1>12, <2>1
  <2>3. v[m - (k - 1)] = 10 * v[m - k] + t[m - (k - 1)] /\ t[m - (k - 1)] \in 0..9 /\ v[m - k] \in Nat
    BY <1>1, <1>3, <2>1
  <2>4. q[k] = v[m - k]  BY <2>2, <2>3, DivTen
  <2> QED BY <2>1, <2>4
<1> HIDE DEF Q
<1>13. \A k \in 0..(m - 1) : k \in Q
  <2>1. m - 1 \in Nat  BY <1>1
  <2> QED BY <1>11, <1>12, <2>1, InductionUpTo
<1>14. \A k \in 0..(m - 1) : q[k] = v[m - k]  BY <1>13 DEF Q
<1>15. n = m - 1
  <2>1. m - 1 \in 0..(m - 1) /\ m - 1 \in 0..id /\ 1 \in 1..m /\ m - (m - 1) = 1 /\ n \in Nat
    BY <1>1, <1>8, <1>10
  <2>2. q[m - 1] = v[1] /\ v[1] = 10 * v[1-1] + t[1] /\ t[1] \in 0..9 /\ v[1-1] = 0
    BY <1>1, <1>3, <1>14, <2>1
  <2>3. q[m - 1] < 10  BY <2>2
  <2>4. n <= m - 1  BY <1>10, <2>1, <2>3
  <2>5. ASSUME n < m - 1 PROVE FALSE
    <3>1. n \in 0..(m - 1) /\ m - n \in 0..m /\ m - n >= 2  BY <1>1, <2>1, <2>5
    <3>2. q[n] >= 10  BY <1>7, <1>14, <3>1
    <3>3. q[n] \in Nat
      <4>1. n \in 0..id  BY <1>8, <1>10
      <4> QED BY <1>10, <4>1
    <3> QED BY <1>10, <3>2, <3>3
  <2> QED BY <1>1, <2>1, <2>4, <2>5
<1>16. Decimal(id) = [i \in 1..m |-> q[m - i] % 10]
  <2>1. n + 1 = m  BY <1>1, <1>15
  <2> QED BY <1>10, <2>1
<1>17. ASSUME NEW i \in 1..m PROVE q[m - i] % 10 = t[i]
  <2>1. m - i \in 0..(m - 1) /\ m - (m - i) = i /\ i - 1 \in 0..m  BY <1>1
  <2>2. q[m - i] = v[i] /\ v[i] = 10 * v[i-1] + t[i] /\ t[i] \in 0..9 /\ v[i-1] \in Nat
    BY <1>1, <1>3, <1>14, <2>1
  <2> QED BY <2>2, DivTen
<1>18. t = [i \in 1..m |-> t[i]]  BY <1>1 DEF m
<1>19. Decimal(id) = t  BY <1>16, <1>17, <1>18
<1> QED BY <1>8, <1>19 DEF id

-----------------------------------------------------------------------------
(* Forwarding: route strings *)

\* Where the k-th road of a route ends in the string, with its comma.
End(r, k) == Len(Written(r)[k])

\* The string with the comma that ofr_tostring takes off again.
Text(r) == Written(r)[Len(r)]

\* The ids of the map are written as numerals.
LEMMA RoadNumeral ==
  ASSUME NEW id \in Roads
  PROVE  /\ Numeral(Decimal(id)) /\ Number(Decimal(id)) = id
         /\ Decimal(id) \in Seq(Chars) /\ Len(Decimal(id)) >= 1
         /\ \A i \in 1..Len(Decimal(id)) : Decimal(id)[i] # Comma
<1>1. id \in Nat /\ id > 0  BY ForwardingAssumption
<1>2. Numeral(Decimal(id)) /\ Number(Decimal(id)) = id  BY <1>1, ReadWritten
<1> DEFINE D == Decimal(id)
<1>3. D \in Seq(0..9) /\ D # <<>>  BY <1>2 DEF Numeral
<1> HIDE DEF D
<1>4. Len(D) >= 1 /\ \A i \in 1..Len(D) : D[i] \in 0..9  BY <1>3
<1>5. D \in Seq(Chars)
  <2>1. \A i \in 1..Len(D) : D[i] \in Chars  BY <1>4 DEF Chars, Comma
  <2>2. Len(D) \in Nat /\ D \in [1..Len(D) -> Chars]  BY <1>3, <2>1
  <2> HIDE DEF Chars
  <2> QED BY <2>2
<1>6. \A i \in 1..Len(D) : D[i] # Comma  BY <1>4 DEF Comma
<1> QED BY <1>2, <1>4, <1>5, <1>6 DEF D

\* ofr_tostring appends id after id.
LEMMA WrittenIsLoop ==
  ASSUME NEW r \in Seq(Roads)
  PROVE  /\ Written(r) \in [0..Len(r) -> Seq(Chars)] /\ Written(r)[0] = <<>>
         /\ \A k \in 1..Len(r) :
              Written(r)[k] = Written(r)[k-1] \o Decimal(r[k]) \o <<Comma>>
<1> DEFINE N == Len(r)
           C == Seq(Chars)
           Is(f) == f = [k \in 0..N |->
                           IF k = 0 THEN <<>> ELSE f[k-1] \o Decimal(r[k]) \o <<Comma>>]
           next == [p \in C \X (1..N) |-> p[1] \o Decimal(r[p[2]]) \o <<Comma>>]
           f == CHOOSE f : Is(f)
<1>1. N \in Nat /\ \A k \in 1..N : r[k] \in Roads  OBVIOUS
<1>2. Written(r) = f  BY DEF Written
<1>3. next \in [C \X (1..N) -> C]
  <2> SUFFICES ASSUME NEW s \in C, NEW k \in 1..N PROVE s \o Decimal(r[k]) \o <<Comma>> \in C
    BY DEF next
  <2>1. Decimal(r[k]) \in C  BY <1>1, RoadNumeral
  <2>2. <<Comma>> \in C  BY DEF Comma, Chars
  <2> HIDE DEF N
  <2> QED BY <2>1, <2>2
<1>4. \A y \in C, k \in 1..N : next[<<y, k>>] = y \o Decimal(r[k]) \o <<Comma>>  OBVIOUS
<1>a. <<>> \in C  OBVIOUS
<1> HIDE DEF next, N, C
<1>5. PICK g : IsLoop(g, N, C, <<>>, next)  BY <1>1, <1>3, <1>a, Recursion
<1>6. /\ g \in [0..N -> C] /\ g[0] = <<>>
      /\ \A k \in 1..N : g[k] = next[<<g[k-1], k>>]
  BY <1>5 DEF IsLoop
<1>7. ASSUME NEW k \in 1..N PROVE g[k] = g[k-1] \o Decimal(r[k]) \o <<Comma>>
  <2>1. k - 1 \in 0..N  BY <1>1
  <2> QED BY <1>4, <1>6, <2>1
<1>8. Is(g)
  <2>1. \A k \in 0..N : g[k] = IF k = 0 THEN <<>> ELSE g[k-1] \o Decimal(r[k]) \o <<Comma>>
    <3> SUFFICES ASSUME NEW k \in 0..N
                 PROVE  g[k] = IF k = 0 THEN <<>> ELSE g[k-1] \o Decimal(r[k]) \o <<Comma>>
      OBVIOUS
    <3>1. CASE k = 0  BY <1>6, <3>1
    <3>2. CASE k # 0
      <4>1. k \in 1..N  BY <1>1, <3>2
      <4>2. g[k] = g[k-1] \o Decimal(r[k]) \o <<Comma>>  BY <1>7, <4>1
      <4> QED BY <3>2, <4>2, Zenon
    <3> QED BY <3>1, <3>2
  <2> QED BY <1>6, <2>1
<1>9. Is(f)  BY <1>8
<1> HIDE DEF f
<1>10. f[0] = <<>> /\ \A k \in 1..N : f[k] = f[k-1] \o Decimal(r[k]) \o <<Comma>>
  BY <1>1, <1>9
<1> DEFINE P == {k \in 0..N : f[k] = g[k]}
<1>11. 0 \in P  BY <1>1, <1>6, <1>10
<1>12. ASSUME NEW k \in 1..N, k - 1 \in P PROVE k \in P
  <2>1. k \in 0..N  BY <1>1
  <2> QED BY <1>7, <1>10, <1>12, <2>1
<1> HIDE DEF P
<1>13. \A k \in 0..N : k \in P  BY <1>1, <1>11, <1>12, InductionUpTo
<1>14. \A k \in 0..N : f[k] = g[k]  BY <1>13 DEF P
<1>15. f \in [0..N -> C]
  <2>1. f = [k \in 0..N |-> f[k]]  BY <1>9
  <2> QED BY <1>6, <1>14, <2>1
<1> QED BY <1>2, <1>10, <1>15 DEF N, C

\* What the k-th road adds to the string.
LEMMA OneRoad ==
  ASSUME NEW r \in Seq(Roads), NEW k \in 1..Len(r)
  PROVE  /\ End(r, k-1) \in Nat
         /\ End(r, k) = End(r, k-1) + Len(Decimal(r[k])) + 1
         /\ \A i \in 1..End(r, k-1) : Written(r)[k][i] = Written(r)[k-1][i]
         /\ \A i \in 1..Len(Decimal(r[k])) :
              Written(r)[k][End(r, k-1) + i] = Decimal(r[k])[i]
         /\ Written(r)[k][End(r, k)] = Comma
<1> DEFINE u == Written(r)[k-1]
           D == Decimal(r[k])
           s == Written(r)[k]
<1>1. u \in Seq(Chars) /\ s = u \o D \o <<Comma>>
  <2>1. k - 1 \in 0..Len(r)  OBVIOUS
  <2> QED BY <2>1, WrittenIsLoop
<1>2. D \in Seq(Chars) /\ Len(D) >= 1
  <2>1. r[k] \in Roads  OBVIOUS
  <2> QED BY <2>1, RoadNumeral
<1> HIDE DEF u, D, s
<1>3. u \o D \in Seq(Chars) /\ Len(u \o D) = Len(u) + Len(D)  BY <1>1, <1>2
<1>4. \A i \in 1..Len(u) : (u \o D)[i] = u[i]  BY <1>1, <1>2
<1>5. \A i \in 1..Len(D) : (u \o D)[Len(u) + i] = D[i]  BY <1>1, <1>2
<1> DEFINE v == u \o D
<1>6. v \in Seq(Chars) /\ Len(v) = Len(u) + Len(D) /\ s = v \o <<Comma>>  BY <1>1, <1>3
<1>7. (\A i \in 1..Len(u) : v[i] = u[i]) /\ \A i \in 1..Len(D) : v[Len(u) + i] = D[i]
  BY <1>4, <1>5
<1>8. Len(u) \in Nat /\ Len(D) \in Nat  BY <1>1, <1>2
<1> HIDE DEF v
<1>9. Len(s) = Len(v) + 1 /\ s[Len(v) + 1] = Comma /\ \A i \in 1..Len(v) : s[i] = v[i]
  <2>1. <<Comma>> \in Seq(Chars)  BY DEF Chars, Comma
  <2> QED BY <1>6, <2>1
<1>10. \A i \in 1..Len(u) : s[i] = u[i]  BY <1>6, <1>7, <1>8, <1>9
<1>11. \A i \in 1..Len(D) : s[Len(u) + i] = D[i]
  <2> SUFFICES ASSUME NEW i \in 1..Len(D) PROVE s[Len(u) + i] = D[i]  OBVIOUS
  <2>1. Len(u) + i \in 1..Len(v)  BY <1>6, <1>8
  <2> QED BY <1>7, <1>9, <2>1
<1>12. Len(s) = Len(u) + Len(D) + 1 /\ s[Len(s)] = Comma  BY <1>6, <1>8, <1>9
<1> QED BY <1>8, <1>10, <1>11, <1>12 DEF u, D, s, End

\* The string of the first k roads begins the string of the first m.
LEMMA WordsGrow ==
  ASSUME NEW r \in Seq(Roads), NEW k \in 0..Len(r), NEW m \in 0..Len(r), k <= m
  PROVE  /\ End(r, k) \in Nat /\ End(r, m) \in Nat
         /\ End(r, k) + (m - k) <= End(r, m)
         /\ \A i \in 1..End(r, k) : Written(r)[m][i] = Written(r)[k][i]
<1> DEFINE P == {j \in 0..Len(r) : k <= j =>
                   /\ End(r, j) \in Nat /\ End(r, k) + (j - k) <= End(r, j)
                   /\ \A i \in 1..End(r, k) : Written(r)[j][i] = Written(r)[k][i]}
<1>1. \A j \in 0..Len(r) : End(r, j) \in Nat  BY WrittenIsLoop DEF End
<1>2. 0 \in P  BY <1>1
<1>3. ASSUME NEW j \in 1..Len(r), j - 1 \in P PROVE j \in P
  <2>1. CASE k = j  BY <1>1, <2>1
  <2>2. CASE k > j  BY <2>2
  <2>3. CASE k < j
    <3>1. j \in 0..Len(r) /\ j - 1 \in 0..Len(r) /\ k <= j - 1  BY <2>3
    <3>2. /\ End(r, k) + ((j - 1) - k) <= End(r, j - 1)
          /\ \A i \in 1..End(r, k) : Written(r)[j - 1][i] = Written(r)[k][i]
      BY <1>3, <3>1
    <3>3. End(r, j-1) + 1 <= End(r, j)
      <4>1. r[j] \in Roads  OBVIOUS
      <4>2. Len(Decimal(r[j])) \in Nat  BY <4>1, RoadNumeral
      <4> QED BY <4>2, OneRoad
    <3>4. \A i \in 1..End(r, j-1) : Written(r)[j][i] = Written(r)[j-1][i]  BY OneRoad
    <3>5. End(r, k) \in Nat /\ End(r, j-1) \in Nat /\ End(r, j) \in Nat  BY <1>1, <3>1
    <3> HIDE DEF P
    <3>6. End(r, k) + (j - k) <= End(r, j)  BY <3>2, <3>3, <3>5
    <3>7. \A i \in 1..End(r, k) : Written(r)[j][i] = Written(r)[k][i]
      BY <3>1, <3>2, <3>4, <3>5
    <3> QED BY <3>1, <3>5, <3>6, <3>7 DEF P
  <2> QED BY <2>1, <2>2, <2>3
<1> HIDE DEF P
<1>4. \A j \in 0..Len(r) : j \in P
  <2>1. Len(r) \in Nat  OBVIOUS
  <2> QED BY <1>2, <1>3, <2>1, InductionUpTo
<1> QED BY <1>1, <1>4 DEF P

\* The string of a route: road k, its digits and its comma.
LEMMA TextFacts ==
  ASSUME NEW r \in Seq(Roads), r # <<>>
  PROVE  /\ Text(r) \in Seq(Chars) /\ Len(Text(r)) = End(r, Len(r)) /\ Len(Text(r)) >= 2
         /\ End(r, 0) = 0
         /\ \A k \in 1..Len(r) :
              /\ End(r, k-1) \in Nat /\ End(r, k) \in Nat /\ End(r, k-1) >= k - 1
              /\ End(r, k) = End(r, k-1) + Len(Decimal(r[k])) + 1
              /\ End(r, k) <= Len(Text(r))
              /\ \A i \in 1..Len(Decimal(r[k])) :
                   Text(r)[End(r, k-1) + i] = Decimal(r[k])[i]
              /\ Text(r)[End(r, k)] = Comma
<1> DEFINE N == Len(r)
<1>1. N \in Nat /\ N >= 1  OBVIOUS
<1>2. Text(r) \in Seq(Chars) /\ Len(Text(r)) = End(r, N) /\ End(r, 0) = 0
  <2>1. Written(r) \in [0..N -> Seq(Chars)] /\ Written(r)[0] = <<>>  BY WrittenIsLoop
  <2>2. Written(r)[N] \in Seq(Chars)  BY <1>1, <2>1
  <2>3. Len(Written(r)[0]) = 0  BY <2>1
  <2> QED BY <2>2, <2>3 DEF Text, End
<1>3. ASSUME NEW k \in 1..N
      PROVE  /\ End(r, k-1) \in Nat /\ End(r, k) \in Nat /\ End(r, k-1) >= k - 1
             /\ End(r, k) = End(r, k-1) + Len(Decimal(r[k])) + 1
             /\ End(r, k) <= Len(Text(r))
             /\ \A i \in 1..Len(Decimal(r[k])) :
                  Text(r)[End(r, k-1) + i] = Decimal(r[k])[i]
             /\ Text(r)[End(r, k)] = Comma
  <2>1. k \in 0..N /\ k - 1 \in 0..N /\ N \in 0..N /\ 0 \in 0..N /\ k <= N  BY <1>1
  <2>2. /\ End(r, k) \in Nat /\ End(r, N) \in Nat /\ End(r, k) <= End(r, N)
        /\ \A i \in 1..End(r, k) : Text(r)[i] = Written(r)[k][i]
    <3>1. /\ End(r, k) \in Nat /\ End(r, N) \in Nat /\ End(r, k) + (N - k) <= End(r, N)
          /\ \A i \in 1..End(r, k) : Written(r)[N][i] = Written(r)[k][i]
      BY <2>1, WordsGrow
    <3> HIDE DEF N
    <3>2. End(r, k) <= End(r, N)  BY <1>1, <3>1
    <3> QED BY <3>1, <3>2 DEF Text, N
  <2>3. End(r, k-1) \in Nat /\ End(r, k-1) >= k - 1
    <3>1. End(r, k-1) \in Nat /\ End(r, 0) + ((k - 1) - 0) <= End(r, k-1)
      BY <2>1, WordsGrow
    <3> QED BY <1>2, <3>1
  <2>4. /\ End(r, k) = End(r, k-1) + Len(Decimal(r[k])) + 1
        /\ \A i \in 1..Len(Decimal(r[k])) : Written(r)[k][End(r, k-1) + i] = Decimal(r[k])[i]
        /\ Written(r)[k][End(r, k)] = Comma
    BY OneRoad
  <2>5. Len(Decimal(r[k])) \in Nat /\ Len(Decimal(r[k])) >= 1
    <3>1. r[k] \in Roads  OBVIOUS
    <3> QED BY <3>1, RoadNumeral
  <2>6. \A i \in 1..Len(Decimal(r[k])) : Text(r)[End(r, k-1) + i] = Decimal(r[k])[i]
    <3> SUFFICES ASSUME NEW i \in 1..Len(Decimal(r[k]))
                 PROVE  Text(r)[End(r, k-1) + i] = Decimal(r[k])[i]
      OBVIOUS
    <3>1. End(r, k-1) + i \in 1..End(r, k)  BY <2>2, <2>3, <2>4, <2>5
    <3> QED BY <2>2, <2>4, <3>1
  <2>7. Text(r)[End(r, k)] = Comma
    <3>1. End(r, k) \in 1..End(r, k)  BY <2>2, <2>3, <2>4, <2>5
    <3> QED BY <2>2, <2>4, <3>1
  <2> QED BY <1>2, <2>2, <2>3, <2>4, <2>6, <2>7
<1>4. Len(Text(r)) >= 2
  <2>1. N \in 1..N  BY <1>1
  <2>2. End(r, N) = End(r, N-1) + Len(Decimal(r[N])) + 1 /\ End(r, N-1) \in Nat  BY <1>3, <2>1
  <2>3. Len(Decimal(r[N])) \in Nat /\ Len(Decimal(r[N])) >= 1
    <3>1. r[N] \in Roads  BY <2>1
    <3> QED BY <3>1, RoadNumeral
  <2> QED BY <1>2, <2>2, <2>3
<1> QED BY <1>2, <1>3, <1>4

\* ofr_tostring takes the last comma off.
LEMMA StringFacts ==
  ASSUME NEW r \in Seq(Roads), r # <<>>
  PROVE  /\ OfrToString(r) \in Seq(Chars) /\ Len(OfrToString(r)) = Len(Text(r)) - 1
         /\ \A i \in 1..(Len(Text(r)) - 1) : OfrToString(r)[i] = Text(r)[i]
<1> DEFINE T == Text(r)
<1>1. T \in Seq(Chars) /\ Len(T) >= 2  BY TextFacts
<1>2. OfrToString(r) = SubSeq(T, 1, Len(T) - 1)  BY DEF OfrToString, Front, Text
<1> HIDE DEF T
<1>3. /\ SubSeq(T, 1, Len(T) - 1) \in Seq(Chars) /\ Len(SubSeq(T, 1, Len(T) - 1)) = Len(T) - 1
      /\ \A i \in 1..(Len(T) - 1) : SubSeq(T, 1, Len(T) - 1)[i] = T[i]
  BY <1>1
<1> QED BY <1>2, <1>3 DEF T

\* A place in the string belongs to one of the roads.
LEMMA RoadAt ==
  ASSUME NEW r \in Seq(Roads), r # <<>>, NEW l \in 1..Len(Text(r))
  PROVE  \E k \in 1..Len(r) : End(r, k-1) < l /\ l <= End(r, k)
<1> DEFINE N == Len(r)
           T == {k \in 0..N : l <= End(r, k)}
<1>1. N \in Nat /\ Len(Text(r)) = End(r, N) /\ End(r, 0) = 0 /\ l \in Nat /\ l > 0
  BY TextFacts
<1>2. N \in T  BY <1>1
<1>3. T \subseteq Nat /\ T # {}  BY <1>2
<1>4. PICK k \in T : \A j \in T : k <= j  BY <1>3, LeastExists
<1>5. k \in 0..N /\ l <= End(r, k)  OBVIOUS
<1>6. k # 0  BY <1>1, <1>5
<1>7. k \in 1..N /\ k - 1 \in 0..N /\ ~(k <= k - 1)  BY <1>5, <1>6
<1>8. ~(l <= End(r, k-1))  BY <1>4, <1>7
<1>9. End(r, k-1) \in Nat  BY <1>7, TextFacts
<1>10. End(r, k-1) < l  BY <1>1, <1>8, <1>9
<1> QED BY <1>5, <1>7, <1>10

\* Two routes with the same first k roads are written the same so far.
LEMMA SameStart ==
  ASSUME NEW r \in Seq(Roads), NEW x \in Seq(Roads), NEW k \in 0..Len(r), k <= Len(x),
         \A i \in 1..k : r[i] = x[i]
  PROVE  Written(x)[k] = Written(r)[k]
<1> DEFINE P == {j \in 0..k : Written(x)[j] = Written(r)[j]}
<1>1. 0 \in P
  <2>1. Written(x)[0] = <<>> /\ Written(r)[0] = <<>>  BY WrittenIsLoop
  <2> QED BY <2>1
<1>2. ASSUME NEW j \in 1..k, j - 1 \in P PROVE j \in P
  <2>1. j \in 1..Len(r) /\ j \in 1..Len(x) /\ j \in 0..k  OBVIOUS
  <2>2. Written(r)[j] = Written(r)[j-1] \o Decimal(r[j]) \o <<Comma>>  BY <2>1, WrittenIsLoop
  <2>3. Written(x)[j] = Written(x)[j-1] \o Decimal(x[j]) \o <<Comma>>  BY <2>1, WrittenIsLoop
  <2>4. Written(x)[j-1] = Written(r)[j-1] /\ r[j] = x[j]  BY <1>2
  <2> QED BY <2>1, <2>2, <2>3, <2>4
<1> HIDE DEF P
<1>3. \A j \in 0..k : j \in P
  <2>1. k \in Nat  OBVIOUS
  <2> QED BY <1>1, <1>2, <2>1, InductionUpTo
<1> QED BY <1>3 DEF P

-----------------------------------------------------------------------------
(* Forwarding: extract_ofr *)

\* What the loop of extract_ofr keeps: a place in the string and the roads read.
Readings == [start : Nat \ {0}, ofr : Seq(Roads \cup {NoRoad})]

\* find_first_of
LEMMA TokenEndIs ==
  ASSUME NEW p \in Seq(Chars), NEW i \in 1..Len(p), NEW j \in i..(Len(p) + 1),
         j = Len(p) + 1 \/ p[j] = Comma, \A h \in i..(j - 1) : p[h] # Comma
  PROVE  TokenEnd(p, i) = j
<1> DEFINE T == {h \in i..(Len(p) + 1) : h = Len(p) + 1 \/ p[h] = Comma}
<1>0. Len(p) \in Nat  OBVIOUS
<1>1. j \in T  OBVIOUS
<1>2. \A h \in T : j <= h  BY <1>0
<1>3. TokenEnd(p, i) = CHOOSE x \in T : \A y \in T : x <= y  BY DEF TokenEnd, Min
<1>4. T \subseteq Nat  BY <1>0
<1> HIDE DEF T
<1>5. \E x \in T : \A y \in T : x <= y  BY <1>1, <1>2
<1>6. TokenEnd(p, i) \in T /\ \A y \in T : TokenEnd(p, i) <= y  BY <1>3, <1>5
<1>7. TokenEnd(p, i) <= j /\ j <= TokenEnd(p, i)  BY <1>1, <1>2, <1>6
<1>8. TokenEnd(p, i) \in Nat /\ j \in Nat  BY <1>1, <1>4, <1>6
<1> QED BY <1>7, <1>8

LEMMA TokenEndType ==
  ASSUME NEW p \in Seq(Chars), NEW i \in 1..Len(p)
  PROVE  TokenEnd(p, i) \in i..(Len(p) + 1)
<1> DEFINE T == {h \in i..(Len(p) + 1) : h = Len(p) + 1 \/ p[h] = Comma}
<1>0. Len(p) \in Nat  OBVIOUS
<1>1. Len(p) + 1 \in T  BY <1>0
<1>2. T \subseteq Nat /\ T \subseteq i..(Len(p) + 1) /\ T # {}  BY <1>0, <1>1
<1>3. TokenEnd(p, i) = CHOOSE x \in T : \A y \in T : x <= y  BY DEF TokenEnd, Min
<1> HIDE DEF T
<1>4. \E x \in T : \A y \in T : x <= y  BY <1>2, LeastExists
<1> QED BY <1>2, <1>3, <1>4

LEMMA ReadOneType ==
  ASSUME NEW p \in Seq(Chars), NEW b \in Readings
  PROVE  ReadOne(p, b) \in Readings
<1>1. CASE b.start > Len(p)  BY <1>1 DEF ReadOne
<1>2. CASE ~(b.start > Len(p))
  <2> DEFINE end == TokenEnd(p, b.start)
             y == GetRoute(Number(SubSeq(p, b.start, end - 1)))
  <2>1. b.start \in 1..Len(p)  BY <1>2 DEF Readings
  <2>2. end \in Nat  BY <2>1, TokenEndType
  <2>3. y \in Roads \cup {NoRoad}  BY DEF GetRoute
  <2>4. ReadOne(p, b) = [start |-> end + 1, ofr |-> Append(b.ofr, y)]  BY <1>2 DEF ReadOne
  <2> HIDE DEF end, y
  <2>5. Append(b.ofr, y) \in Seq(Roads \cup {NoRoad})
    <3>1. b.ofr \in Seq(Roads \cup {NoRoad})  BY DEF Readings
    <3> HIDE DEF NoRoad
    <3> QED BY <2>3, <3>1
  <2>6. end + 1 \in Nat \ {0}  BY <2>2
  <2> QED BY <2>4, <2>5, <2>6 DEF Readings
<1> QED BY <1>1, <1>2

Reads(x, p) ==
  /\ x \in [0..Len(p) -> Readings] /\ x[0] = [start |-> 1, ofr |-> <<>>]
  /\ \A k \in 1..Len(p) : x[k] = ReadOne(p, x[k-1])
  /\ ExtractOfr(p) = x[Len(p)].ofr

LEMMA ExtractIsLoop ==
  ASSUME NEW p \in Seq(Chars)
  PROVE  \E x : Reads(x, p)
<1> DEFINE N == Len(p)
           B == Readings
           z == [start |-> 1, ofr |-> <<>>]
           Is(f) == f = [k \in 0..N |-> IF k = 0 THEN z ELSE ReadOne(p, f[k-1])]
           next == [q \in B \X (1..N) |-> ReadOne(p, q[1])]
           f == CHOOSE f : Is(f)
<1>1. N \in Nat /\ z \in B  BY DEF Readings
<1>2. ExtractOfr(p) = f[N].ofr  BY DEF ExtractOfr
<1>3. next \in [B \X (1..N) -> B]  BY ReadOneType
<1>4. \A y \in B, k \in 1..N : next[<<y, k>>] = ReadOne(p, y)  OBVIOUS
<1> HIDE DEF next, N, B, z
<1>5. PICK g : IsLoop(g, N, B, z, next)  BY <1>1, <1>3, Recursion
<1>6. /\ g \in [0..N -> B] /\ g[0] = z
      /\ \A k \in 1..N : g[k] = next[<<g[k-1], k>>]
  BY <1>5 DEF IsLoop
<1>7. ASSUME NEW k \in 1..N PROVE g[k] = ReadOne(p, g[k-1])
  <2>1. k - 1 \in 0..N  BY <1>1
  <2> QED BY <1>4, <1>6, <2>1
<1>8. Is(g)
  <2>1. \A k \in 0..N : g[k] = IF k = 0 THEN z ELSE ReadOne(p, g[k-1])  BY <1>6, <1>7
  <2> QED BY <1>6, <2>1
<1>9. Is(f)  BY <1>8
<1> HIDE DEF f
<1>10. f[0] = z /\ \A k \in 1..N : f[k] = ReadOne(p, f[k-1])  BY <1>1, <1>9
<1> DEFINE P == {k \in 0..N : f[k] = g[k]}
<1>11. 0 \in P  BY <1>1, <1>6, <1>10
<1>12. ASSUME NEW k \in 1..N, k - 1 \in P PROVE k \in P
  <2>1. k \in 0..N  BY <1>1
  <2> QED BY <1>7, <1>10, <1>12, <2>1
<1> HIDE DEF P
<1>13. \A k \in 0..N : k \in P  BY <1>1, <1>11, <1>12, InductionUpTo
<1>14. f[N] = g[N]
  <2>1. N \in P  BY <1>1, <1>13
  <2> QED BY <2>1 DEF P
<1>15. Reads(g, p)  BY <1>2, <1>6, <1>7, <1>14 DEF Reads, N, B, z
<1> QED BY <1>15

\* No string, no roads.
LEMMA ExtractNothing == ExtractOfr(<<>>) = <<>>
<1>1. <<>> \in Seq(Chars) /\ Len(<<>>) = 0  OBVIOUS
<1>2. PICK x : Reads(x, <<>>)  BY <1>1, ExtractIsLoop
<1>3. x[0].ofr = <<>> /\ ExtractOfr(<<>>) = x[0].ofr  BY <1>1, <1>2 DEF Reads
<1> QED BY <1>3

LEMMA ExtractType ==
  ASSUME NEW p \in Seq(Chars)
  PROVE  ExtractOfr(p) \in Seq(Roads \cup {NoRoad})
<1>1. PICK x : Reads(x, p)  BY ExtractIsLoop
<1>2. Len(p) \in 0..Len(p)  OBVIOUS
<1>3. x[Len(p)] \in Readings /\ ExtractOfr(p) = x[Len(p)].ofr  BY <1>1, <1>2 DEF Reads
<1> QED BY <1>3 DEF Readings

\* Two stretches with the same characters.
LEMMA SameStretch ==
  ASSUME NEW C, NEW p \in Seq(C), NEW d \in Seq(C), NEW e \in Nat, NEW n \in Nat,
         e + n <= Len(p), n <= Len(d), \A i \in 1..n : p[e + i] = d[i]
  PROVE  SubSeq(p, e + 1, e + n) = SubSeq(d, 1, n)
<1> DEFINE u == SubSeq(p, e + 1, e + n)
           v == SubSeq(d, 1, n)
<1>1. u \in Seq(C) /\ Len(u) = n /\ \A i \in 1..n : u[i] = p[e + i]
  <2>1. Len(u) = n  OBVIOUS
  <2>2. \A i \in 1..n : u[i] = p[e + i]  OBVIOUS
  <2>3. u \in Seq(C)  OBVIOUS
  <2> QED BY <2>1, <2>2, <2>3
<1>2. v \in Seq(C) /\ Len(v) = n /\ \A i \in 1..n : v[i] = d[i]  OBVIOUS
<1> HIDE DEF u, v
<1>3. \A i \in 1..n : u[i] = v[i]  BY <1>1, <1>2
<1> QED BY <1>1, <1>2, <1>3

\* The string p begins the string of route r.
Begins(p, r) ==
  /\ r \in Seq(Roads) /\ r # <<>> /\ p \in Seq(Chars) /\ Len(p) \in 1..Len(Text(r))
  /\ \A i \in 1..Len(p) : p[i] = Text(r)[i]

\* One round of extract_ofr reads the first n digits of the j-th road.
LEMMA OneRound ==
  ASSUME NEW p, NEW r, Begins(p, r), NEW j \in 1..Len(r), NEW n \in 1..Len(Decimal(r[j])),
         \/ n = Len(Decimal(r[j])) /\ End(r, j) <= Len(p)
         \/ End(r, j-1) + n = Len(p),
         NEW b \in Readings, b.start = End(r, j-1) + 1
  PROVE  ReadOne(p, b) = [start |-> End(r, j-1) + n + 2,
                          ofr |-> Append(b.ofr, GetRoute(Number(SubSeq(Decimal(r[j]), 1, n))))]
<1> DEFINE D == Decimal(r[j])
           e == End(r, j-1)
           L == Len(p)
<1>1. /\ r \in Seq(Roads) /\ r # <<>> /\ p \in Seq(Chars) /\ L \in Nat /\ L <= Len(Text(r))
      /\ \A i \in 1..L : p[i] = Text(r)[i]
  BY TextFacts DEF Begins
<1>2. /\ e \in Nat /\ End(r, j) = e + Len(D) + 1 /\ Text(r)[End(r, j)] = Comma
      /\ \A i \in 1..Len(D) : Text(r)[e + i] = D[i]
  BY <1>1, TextFacts
<1>3. D \in Seq(Chars) /\ Len(D) \in Nat /\ \A i \in 1..Len(D) : D[i] # Comma
  <2>1. r[j] \in Roads  BY <1>1
  <2> QED BY <2>1, RoadNumeral
<1>4. (n = Len(D) /\ End(r, j) <= L) \/ e + n = L  OBVIOUS
<1>5. n \in 1..Len(D)  OBVIOUS
<1>6. b.start = e + 1  OBVIOUS
<1> HIDE DEF D, e, L
<1>7. e + n <= L  BY <1>1, <1>2, <1>3, <1>4, <1>5
<1>8. \A i \in 1..n : p[e + i] = D[i]
  <2> SUFFICES ASSUME NEW i \in 1..n PROVE p[e + i] = D[i]  OBVIOUS
  <2>1. e + i \in 1..L /\ i \in 1..Len(D)  BY <1>1, <1>2, <1>3, <1>5, <1>7
  <2> QED BY <1>1, <1>2, <2>1
<1>9. TokenEnd(p, e + 1) = e + n + 1
  <2>1. e + 1 \in 1..L /\ e + n + 1 \in (e + 1)..(L + 1)  BY <1>1, <1>2, <1>5, <1>7
  <2>2. e + n + 1 = L + 1 \/ p[e + n + 1] = Comma
    <3>1. CASE e + n = L  BY <3>1
    <3>2. CASE n = Len(D) /\ End(r, j) <= L
      <4>1. e + n + 1 = End(r, j) /\ e + n + 1 \in 1..L  BY <1>1, <1>2, <1>3, <3>2
      <4> QED BY <1>1, <1>2, <4>1
    <3> QED BY <1>4, <3>1, <3>2
  <2>3. \A h \in (e + 1)..((e + n + 1) - 1) : p[h] # Comma
    <3> SUFFICES ASSUME NEW h \in (e + 1)..((e + n + 1) - 1) PROVE p[h] # Comma  OBVIOUS
    <3>1. h - e \in 1..n /\ h - e \in 1..Len(D) /\ e + (h - e) = h  BY <1>2, <1>3, <1>5
    <3> QED BY <1>3, <1>8, <3>1
  <2> QED BY <1>1, <2>1, <2>2, <2>3, TokenEndIs DEF L
<1>10. SubSeq(p, e + 1, (e + n + 1) - 1) = SubSeq(D, 1, n)
  <2>1. (e + n + 1) - 1 = e + n /\ n \in Nat /\ n <= Len(D)  BY <1>2, <1>3, <1>5
  <2>2. SubSeq(p, e + 1, e + n) = SubSeq(D, 1, n)
    BY <1>1, <1>2, <1>3, <1>7, <1>8, <2>1, SameStretch DEF L
  <2> QED BY <2>1, <2>2
<1>11. ~(b.start > Len(p))  BY <1>1, <1>2, <1>5, <1>6, <1>7 DEF L
<1>12. ReadOne(p, b) = [start |-> (e + n + 1) + 1,
                        ofr |-> Append(b.ofr, GetRoute(Number(SubSeq(D, 1, n))))]
  BY <1>6, <1>9, <1>10, <1>11 DEF ReadOne
<1>13. (e + n + 1) + 1 = e + n + 2  BY <1>2, <1>5
<1> QED BY <1>12, <1>13 DEF D, e

\* What extract_ofr reads: whole roads, and then a road or its first digits.
ReadUpTo(p, r, k, n) ==
  /\ k \in 1..Len(r) /\ n \in 1..Len(Decimal(r[k]))
  /\ End(r, k-1) + n <= Len(p) /\ Len(p) <= End(r, k)
  /\ n = Len(Decimal(r[k])) \/ Len(p) = End(r, k-1) + n
  /\ ExtractOfr(p) =
       Append(SubSeq(r, 1, k - 1), GetRoute(Number(SubSeq(Decimal(r[k]), 1, n))))

LEMMA AppendNext ==
  ASSUME NEW S, NEW r \in Seq(S), NEW j \in 1..Len(r)
  PROVE  Append(SubSeq(r, 1, j - 1), r[j]) = SubSeq(r, 1, j)
OBVIOUS

LEMMA WholeNumeral ==
  ASSUME NEW id \in Roads
  PROVE  /\ SubSeq(Decimal(id), 1, Len(Decimal(id))) = Decimal(id)
         /\ GetRoute(Number(SubSeq(Decimal(id), 1, Len(Decimal(id))))) = id
<1>1. Decimal(id) \in Seq(Chars) /\ Number(Decimal(id)) = id  BY RoadNumeral
<1>2. SubSeq(Decimal(id), 1, Len(Decimal(id))) = Decimal(id)  BY <1>1
<1> QED BY <1>1, <1>2 DEF GetRoute

LEMMA ReadPrefix ==
  ASSUME NEW p, NEW r, Begins(p, r)
  PROVE  \E k, n : ReadUpTo(p, r, k, n)
<1> DEFINE L == Len(p)
<1>1. /\ r \in Seq(Roads) /\ r # <<>> /\ p \in Seq(Chars) /\ L \in 1..Len(Text(r))
      /\ L \in Nat /\ L >= 1
  BY TextFacts DEF Begins
<1> HIDE DEF L
<1>2. PICK k \in 1..Len(r) : End(r, k-1) < L /\ L <= End(r, k)  BY <1>1, RoadAt
<1> DEFINE D == Decimal(r[k])
           e == End(r, k-1)
           n == IF L = End(r, k) THEN Len(D) ELSE L - e
<1>3. /\ e \in Nat /\ End(r, k) \in Nat /\ e >= k - 1 /\ End(r, k) = e + Len(D) + 1 /\ e < L
  BY <1>1, <1>2, TextFacts
<1>4. D \in Seq(Chars) /\ Len(D) \in Nat /\ Len(D) >= 1
  <2>1. r[k] \in Roads  BY <1>1
  <2> QED BY <2>1, RoadNumeral
<1>5. k \in Nat /\ k >= 1 /\ k <= L  BY <1>1, <1>2, <1>3
<1>6. /\ n \in 1..Len(D) /\ e + n <= L /\ (n = Len(D) \/ L = e + n)
      /\ ((n = Len(D) /\ End(r, k) <= L) \/ e + n = L) /\ e + n + 2 > L
  <2> HIDE DEF D, e
  <2>1. CASE L = End(r, k)  BY <1>1, <1>3, <1>4, <2>1
  <2>2. CASE L # End(r, k)  BY <1>1, <1>2, <1>3, <1>4, <2>2
  <2> QED BY <2>1, <2>2
<1> HIDE DEF n
<1>7. PICK x : Reads(x, p)  BY <1>1, ExtractIsLoop
<1>8. /\ x \in [0..L -> Readings] /\ x[0] = [start |-> 1, ofr |-> <<>>]
      /\ \A j \in 1..L : x[j] = ReadOne(p, x[j-1])
      /\ ExtractOfr(p) = x[L].ofr
  BY <1>7 DEF Reads, L
<1> DEFINE P == {j \in 0..(k - 1) : x[j] = [start |-> End(r, j) + 1, ofr |-> SubSeq(r, 1, j)]}
<1>9. 0 \in P
  <2>1. End(r, 0) + 1 = 1 /\ SubSeq(r, 1, 0) = <<>>  BY <1>1, TextFacts
  <2>2. 0 \in 0..(k - 1)  BY <1>5
  <2> QED BY <1>8, <2>1, <2>2
<1>10. ASSUME NEW j \in 1..(k - 1), j - 1 \in P PROVE j \in P
  <2>1. j \in 1..Len(r) /\ j - 1 \in 0..L /\ j \in 1..L /\ j \in 0..(k - 1)  BY <1>1, <1>2, <1>5
  <2>2. x[j-1] = [start |-> End(r, j-1) + 1, ofr |-> SubSeq(r, 1, j-1)]  BY <1>10
  <2>3. r[j] \in Roads  BY <1>1, <2>1
  <2>4. Len(Decimal(r[j])) \in 1..Len(Decimal(r[j])) /\ Len(Decimal(r[j])) \in Nat
    BY <2>3, RoadNumeral
  <2>5. End(r, j) <= L /\ End(r, j) \in Nat
    <3>1. j \in 0..Len(r) /\ k - 1 \in 0..Len(r) /\ j <= k - 1  BY <1>2, <2>1
    <3>2. End(r, j) \in Nat /\ End(r, j) + ((k - 1) - j) <= End(r, k - 1)
      BY <1>1, <3>1, WordsGrow
    <3> QED BY <1>1, <1>3, <1>5, <3>1, <3>2
  <2>6. x[j-1] \in Readings /\ x[j-1].start = End(r, j-1) + 1  BY <1>8, <2>1, <2>2
  <2>7. ReadOne(p, x[j-1]) =
          [start |-> End(r, j-1) + Len(Decimal(r[j])) + 2,
           ofr |-> Append(x[j-1].ofr,
             GetRoute(Number(SubSeq(Decimal(r[j]), 1, Len(Decimal(r[j]))))))]
    <3> DEFINE b == x[j-1]
               m == Len(Decimal(r[j]))
    <3>1. b \in Readings /\ b.start = End(r, j-1) + 1  BY <2>6
    <3>2. m \in 1..m /\ End(r, j) <= Len(p)  BY <2>4, <2>5 DEF L
    <3> HIDE DEF b, m, P, D, e
    <3>3. ReadOne(p, b) =
            [start |-> End(r, j-1) + m + 2,
             ofr |-> Append(b.ofr, GetRoute(Number(SubSeq(Decimal(r[j]), 1, m))))]
      <4>1. m = Len(Decimal(r[j])) /\ End(r, j) <= Len(p)  BY <3>2 DEF m
      <4> QED BY <2>1, <3>1, <3>2, <4>1, OneRound
    <3> QED BY <3>3 DEF b, m
  <2>8. GetRoute(Number(SubSeq(Decimal(r[j]), 1, Len(Decimal(r[j]))))) = r[j]
    BY <2>3, WholeNumeral
  <2>9. Append(SubSeq(r, 1, j - 1), r[j]) = SubSeq(r, 1, j)  BY <1>1, <2>1, AppendNext
  <2>10. End(r, j-1) + Len(Decimal(r[j])) + 2 = End(r, j) + 1
    <3>1. End(r, j) = End(r, j-1) + Len(Decimal(r[j])) + 1 /\ End(r, j-1) \in Nat
      BY <1>1, <2>1, TextFacts
    <3> QED BY <2>4, <3>1
  <2>11. x[j] = [start |-> End(r, j) + 1, ofr |-> SubSeq(r, 1, j)]
    <3>1. x[j] = ReadOne(p, x[j-1]) /\ x[j-1].ofr = SubSeq(r, 1, j-1)  BY <1>8, <2>1, <2>2
    <3> HIDE DEF P
    <3> QED BY <2>7, <2>8, <2>9, <2>10, <3>1
  <2> QED BY <2>1, <2>11
<1> HIDE DEF P
<1>11. \A j \in 0..(k - 1) : j \in P
  <2>1. k - 1 \in Nat  BY <1>5
  <2> QED BY <1>9, <1>10, <2>1, InductionUpTo
<1>12. x[k - 1] = [start |-> e + 1, ofr |-> SubSeq(r, 1, k - 1)]
  <2>1. k - 1 \in P  BY <1>5, <1>11
  <2> QED BY <2>1 DEF P
<1> DEFINE z == [start |-> e + n + 2,
                 ofr |-> Append(SubSeq(r, 1, k - 1), GetRoute(Number(SubSeq(D, 1, n))))]
<1>13. x[k] = z
  <2>1. k - 1 \in 0..L /\ k \in 1..L  BY <1>1, <1>5
  <2>2. x[k-1] \in Readings /\ x[k-1].start = End(r, k-1) + 1  BY <1>8, <1>12, <2>1
  <2>3. ReadOne(p, x[k-1]) =
          [start |-> End(r, k-1) + n + 2,
           ofr |-> Append(x[k-1].ofr, GetRoute(Number(SubSeq(Decimal(r[k]), 1, n))))]
    <3> DEFINE b == x[k-1]
    <3>1. b \in Readings /\ b.start = End(r, k-1) + 1  BY <2>2
    <3>2. /\ n \in 1..Len(Decimal(r[k]))
          /\ ((n = Len(Decimal(r[k])) /\ End(r, k) <= Len(p)) \/ End(r, k-1) + n = Len(p))
      BY <1>6 DEF L
    <3> HIDE DEF b, D, e
    <3>3. ReadOne(p, b) =
            [start |-> End(r, k-1) + n + 2,
             ofr |-> Append(b.ofr, GetRoute(Number(SubSeq(Decimal(r[k]), 1, n))))]
      BY <3>1, <3>2, OneRound
    <3> QED BY <3>3 DEF b
  <2> QED BY <1>8, <1>12, <2>1, <2>3
<1> DEFINE Q == {j \in 0..L : j >= k => x[j] = z}
<1>14. 0 \in Q  BY <1>1, <1>5
<1>15. ASSUME NEW j \in 1..L, j - 1 \in Q PROVE j \in Q
  <2>1. j \in 0..L /\ j - 1 \in 0..L  BY <1>1
  <2>2. CASE j <= k  BY <1>5, <1>13, <2>1, <2>2
  <2>3. CASE j > k
    <3>1. x[j-1] = z  BY <1>5, <1>15, <2>1, <2>3
    <3>2. z.start > Len(p)  BY <1>6 DEF L
    <3>3. ReadOne(p, z) = z  BY <3>2 DEF ReadOne
    <3>4. x[j] = ReadOne(p, x[j-1])  BY <1>8
    <3>5. x[j] = z  BY <3>1, <3>3, <3>4
    <3> QED BY <2>1, <3>5
  <2> QED BY <1>5, <2>1, <2>2, <2>3
<1> HIDE DEF Q
<1>16. \A j \in 0..L : j \in Q  BY <1>1, <1>14, <1>15, InductionUpTo
<1>17. x[L] = z
  <2>1. L \in Q /\ L >= k  BY <1>1, <1>5, <1>16
  <2> QED BY <2>1 DEF Q
<1>18. ExtractOfr(p) = Append(SubSeq(r, 1, k - 1), GetRoute(Number(SubSeq(D, 1, n))))
  BY <1>8, <1>17
<1>19. ReadUpTo(p, r, k, n)  BY <1>2, <1>6, <1>18 DEF ReadUpTo, L
<1> QED BY <1>19

LEMMA PrefixIs ==
  ASSUME NEW C, NEW s \in Seq(C), NEW t \in Seq(C)
  PROVE  IsPrefix(s, t) <=> Len(s) <= Len(t) /\ \A i \in 1..Len(s) : s[i] = t[i]
<1>1. SubSeq(s, 1, Len(s)) = s  OBVIOUS
<1>2. ASSUME Len(s) <= Len(t)
      PROVE  /\ SubSeq(t, 1, Len(s)) \in Seq(C) /\ Len(SubSeq(t, 1, Len(s))) = Len(s)
             /\ \A i \in 1..Len(s) : SubSeq(t, 1, Len(s))[i] = t[i]
  BY <1>2
<1>3. ASSUME IsPrefix(s, t)
      PROVE  Len(s) <= Len(t) /\ \A i \in 1..Len(s) : s[i] = t[i]
  BY <1>1, <1>2, <1>3 DEF IsPrefix
<1>4. ASSUME Len(s) <= Len(t), \A i \in 1..Len(s) : s[i] = t[i]
      PROVE  IsPrefix(s, t)
  <2> DEFINE u == SubSeq(t, 1, Len(s))
  <2>1. u \in Seq(C) /\ Len(u) = Len(s) /\ \A i \in 1..Len(s) : u[i] = s[i]  BY <1>2, <1>4
  <2> HIDE DEF u
  <2>2. u = s  BY <2>1
  <2> QED BY <1>1, <1>4, <2>2 DEF IsPrefix, u
<1> QED BY <1>3, <1>4

\* The first digits of a numeral are a numeral.
LEMMA FirstDigits ==
  ASSUME NEW d, Numeral(d), NEW n \in 1..Len(d)
  PROVE  Numeral(SubSeq(d, 1, n)) /\ Len(SubSeq(d, 1, n)) = n
<1> DEFINE S == 0..9
           t == SubSeq(d, 1, n)
<1>1. d \in Seq(S) /\ d[1] # 0  BY DEF Numeral
<1> HIDE DEF S
<1>2. t \in Seq(S) /\ Len(t) = n /\ t[1] = d[1]  BY <1>1
<1> HIDE DEF t
<1>3. t # <<>>  BY <1>2
<1> QED BY <1>1, <1>2, <1>3 DEF Numeral, S, t

\* What is read from the beginning of a route string and written again is
\* the beginning of that string, unless the last road is not one of the map;
\* then the string ends among the digits of a road.
LEMMA Reread ==
  ASSUME NEW r \in Seq(Roads), r # <<>>, NEW p \in Seq(Chars), p # <<>>,
         IsPrefix(p, OfrToString(r))
  PROVE  LET x == ExtractOfr(p)
             s == OfrToString(r)
         IN /\ x \in Seq(Roads \cup {NoRoad}) /\ x # <<>>
            /\ \A i \in 1..(Len(x) - 1) : x[i] \in Roads
            /\ x[Len(x)] \notin Roads => /\ x[Len(x)] = NoRoad /\ Len(p) < Len(s)
                                         /\ s[Len(p)] # Comma /\ s[Len(p) + 1] # Comma
            /\ x[Len(x)] \in Roads => IsPrefix(OfrToString(x), s)
            /\ p = s => x = r
<1> DEFINE x == ExtractOfr(p)
           s == OfrToString(r)
           T == Text(r)
           L == Len(p)
<1>1. /\ s \in Seq(Chars) /\ Len(s) = Len(T) - 1 /\ T \in Seq(Chars) /\ Len(T) \in Nat
      /\ Len(T) >= 2 /\ \A i \in 1..(Len(T) - 1) : s[i] = T[i]
  BY StringFacts, TextFacts
<1>2. L \in Nat /\ L >= 1 /\ L <= Len(s) /\ \A i \in 1..L : p[i] = s[i]
  BY <1>1, PrefixIs
<1>3. Begins(p, r)
  <2>1. L \in 1..Len(T) /\ \A i \in 1..L : p[i] = T[i]  BY <1>1, <1>2
  <2> QED BY <2>1 DEF Begins
<1>4. PICK k, n : ReadUpTo(p, r, k, n)  BY <1>3, ReadPrefix
<1> DEFINE D == Decimal(r[k])
           e == End(r, k-1)
           t == SubSeq(D, 1, n)
           y == GetRoute(Number(t))
<1>5. /\ k \in 1..Len(r) /\ n \in 1..Len(D) /\ e + n <= L /\ L <= End(r, k)
      /\ n = Len(D) \/ L = e + n
      /\ x = Append(SubSeq(r, 1, k - 1), y)
  BY <1>4 DEF ReadUpTo
<1>6. r[k] \in Roads  BY <1>5
<1>7. /\ e \in Nat /\ End(r, k) \in Nat /\ End(r, k) = e + Len(D) + 1 /\ End(r, k) <= Len(T)
      /\ \A i \in 1..Len(D) : T[e + i] = D[i]
  BY <1>5, TextFacts
<1>8. /\ Numeral(D) /\ Number(D) = r[k] /\ D \in Seq(Chars) /\ Len(D) \in Nat
      /\ \A i \in 1..Len(D) : D[i] # Comma
  BY <1>6, RoadNumeral
<1>9. Numeral(t) /\ Len(t) = n /\ \A i \in 1..n : t[i] = D[i]
  <2>1. Numeral(t) /\ Len(t) = n  BY <1>5, <1>8, FirstDigits
  <2>2. \A i \in 1..n : t[i] = D[i]  BY <1>5, <1>8
  <2> QED BY <2>1, <2>2
<1>10. Decimal(Number(t)) = t  BY <1>9, WriteRead
<1>11. y \in Roads => y = Number(t) /\ Decimal(y) = t
  <2>1. NoRoad \notin Roads  BY ForwardingAssumption DEF NoRoad
  <2> QED BY <1>10, <2>1 DEF GetRoute
<1>12. y \in Roads \cup {NoRoad}  BY DEF GetRoute
<1>13. n = Len(D) => y = r[k]  BY <1>6, WholeNumeral
<1> HIDE DEF x, s, T, L, D, t, y, e
<1> DEFINE R == Roads \cup {NoRoad}
           u == SubSeq(r, 1, k - 1)
<1>14. u \in Seq(Roads) /\ Len(u) = k - 1 /\ \A i \in 1..(k - 1) : u[i] = r[i]
  BY <1>5
<1>15. u \in Seq(R)  BY <1>14
<1>16. /\ x \in Seq(R) /\ Len(x) = k /\ x[k] = y /\ \A i \in 1..(k - 1) : x[i] = r[i]
  <2> HIDE DEF R, u
  <2>1. x = Append(u, y)  BY <1>5 DEF u
  <2>2. y \in R  BY <1>12 DEF R
  <2>3. k \in Nat /\ k >= 1  BY <1>5
  <2>4. x \in Seq(R) /\ Len(x) = k  BY <1>14, <1>15, <2>1, <2>2, <2>3
  <2>5. x[k] = y  BY <1>14, <1>15, <2>1, <2>2, <2>3
  <2>6. \A i \in 1..(k - 1) : x[i] = u[i]  BY <1>14, <1>15, <2>1, <2>2, <2>3
  <2> QED BY <1>14, <2>4, <2>5, <2>6
<1>17. x # <<>> /\ Len(x) \in Nat  BY <1>5, <1>16
<1>18. \A i \in 1..(Len(x) - 1) : x[i] \in Roads
  <2> SUFFICES ASSUME NEW i \in 1..(k - 1) PROVE r[i] \in Roads  BY <1>16
  <2> QED BY <1>5
<1>19. ASSUME x[Len(x)] \notin Roads
       PROVE  /\ x[Len(x)] = NoRoad /\ L < Len(s)
              /\ s[L] # Comma /\ s[L + 1] # Comma
  <2>1. y = NoRoad /\ n # Len(D)  BY <1>6, <1>12, <1>13, <1>16, <1>19
  <2>2. L = e + n /\ n < Len(D)  BY <1>5, <1>8, <2>1
  <2>3. L + 1 <= Len(T) - 1 /\ L \in 1..(Len(T) - 1) /\ L + 1 \in 1..(Len(T) - 1)
    BY <1>1, <1>2, <1>5, <1>7, <1>8, <2>2
  <2>4. s[L] = T[L] /\ s[L + 1] = T[L + 1]  BY <1>1, <2>3
  <2>5. n \in 1..Len(D) /\ n + 1 \in 1..Len(D) /\ L + 1 = e + (n + 1)
    BY <1>5, <1>7, <1>8, <2>2
  <2>6. T[L] = D[n] /\ T[L + 1] = D[n + 1]  BY <1>7, <2>2, <2>5
  <2>7. L < Len(s)  BY <1>1, <1>2, <2>3
  <2> QED BY <1>8, <1>16, <2>1, <2>4, <2>5, <2>6, <2>7
<1>20. ASSUME x[Len(x)] \in Roads PROVE IsPrefix(OfrToString(x), s)
  <2>1. y \in Roads /\ Decimal(y) = t  BY <1>11, <1>16, <1>20
  <2>2. x \in Seq(Roads)
    <3>1. \A i \in 1..Len(x) : x[i] \in Roads  BY <1>16, <1>17, <1>18, <1>20
    <3>2. x \in [1..Len(x) -> Roads]  BY <1>16, <3>1
    <3> QED BY <1>17, <3>2
  <2>3. End(x, k - 1) = e /\ Written(x)[k - 1] = Written(r)[k - 1]
    <3>1. k - 1 \in 0..Len(r) /\ k - 1 <= Len(x) /\ \A i \in 1..(k - 1) : r[i] = x[i]
      BY <1>5, <1>16
    <3>2. Written(x)[k - 1] = Written(r)[k - 1]  BY <2>2, <3>1, SameStart
    <3> QED BY <3>2 DEF End, e
  <2>4. k \in 1..Len(x)  BY <1>5, <1>16
  <2>5. /\ End(x, k) = e + n + 1
        /\ \A i \in 1..e : Written(x)[k][i] = Written(x)[k - 1][i]
        /\ \A i \in 1..n : Written(x)[k][e + i] = t[i]
    <3>1. Decimal(x[k]) = t  BY <1>16, <2>1
    <3> QED BY <1>9, <2>2, <2>3, <2>4, <3>1, OneRoad
  <2>6. Text(x) = Written(x)[k] /\ Len(Text(x)) = e + n + 1
    BY <1>16, <2>5 DEF Text, End
  <2> DEFINE v == OfrToString(x)
  <2>7. v \in Seq(Chars) /\ Len(v) = e + n /\ \A i \in 1..(e + n) : v[i] = Written(x)[k][i]
    <3>1. /\ v \in Seq(Chars) /\ Len(v) = Len(Text(x)) - 1
          /\ \A i \in 1..(Len(Text(x)) - 1) : v[i] = Text(x)[i]
      BY <1>17, <2>2, StringFacts
    <3>2. (e + n + 1) - 1 = e + n  BY <1>5, <1>7
    <3> HIDE DEF v
    <3> QED BY <2>6, <3>1, <3>2
  <2>8. \A i \in 1..e : Written(r)[k - 1][i] = T[i]
    <3>1. k - 1 \in 0..Len(r) /\ Len(r) \in 0..Len(r) /\ k - 1 <= Len(r)  BY <1>5
    <3> QED BY <3>1, WordsGrow DEF T, Text, e
  <2>9. ASSUME NEW i \in 1..(e + n) PROVE v[i] = s[i]
    <3>1. v[i] = Written(x)[k][i]  BY <2>7
    <3>2. i \in 1..(Len(T) - 1)  BY <1>1, <1>2, <1>5, <1>7
    <3>3. s[i] = T[i]  BY <1>1, <3>2
    <3>4. CASE i <= e
      <4>1. i \in 1..e  BY <1>7, <3>4
      <4> QED BY <2>3, <2>5, <2>8, <3>1, <3>3, <4>1
    <3>5. CASE i > e
      <4>1. i - e \in 1..n /\ i - e \in 1..Len(D) /\ e + (i - e) = i
        <5>1. e \in Nat /\ n \in Nat /\ n <= Len(D) /\ Len(D) \in Nat  BY <1>5, <1>7, <1>8
        <5>2. i \in Nat /\ i <= e + n /\ i > e  BY <3>5, <5>1
        <5> QED BY <5>1, <5>2
      <4>2. Written(x)[k][i] = t[i - e] /\ T[i] = D[i - e]  BY <1>7, <2>5, <4>1
      <4> QED BY <1>9, <3>1, <3>3, <4>1, <4>2
    <3> QED BY <1>7, <3>4, <3>5
  <2>10. Len(v) <= Len(s)  BY <1>1, <1>2, <1>5, <1>7, <2>7
  <2> HIDE DEF v
  <2>11. IsPrefix(v, s)  BY <1>1, <2>7, <2>9, <2>10, PrefixIs
  <2> QED BY <2>11 DEF v
<1>21. ASSUME p = s PROVE x = r
  <2>1. L = Len(T) - 1  BY <1>1, <1>21 DEF L
  <2>2. k = Len(r)
    <3>1. ASSUME k # Len(r) PROVE FALSE
      <4>1. Len(r) \in 0..Len(r) /\ k \in 0..Len(r) /\ k <= Len(r) /\ Len(r) - k >= 1
        BY <1>5, <3>1
      <4>2. End(r, k) + (Len(r) - k) <= End(r, Len(r)) /\ End(r, Len(r)) = Len(T)
        BY <4>1, WordsGrow, TextFacts DEF T
      <4>3. k + 1 \in 1..Len(r) /\ (k + 1) - 1 = k  BY <1>5, <4>1
      <4>4. End(r, k + 1) = End(r, k) + Len(Decimal(r[k + 1])) + 1 /\ End(r, k + 1) <= Len(T)
        <5>1. End(r, k + 1) = End(r, (k + 1) - 1) + Len(Decimal(r[k + 1])) + 1
              /\ End(r, k + 1) <= Len(T)
          BY <4>3, TextFacts DEF T
        <5> QED BY <4>3, <5>1
      <4>5. Len(Decimal(r[k + 1])) \in Nat /\ Len(Decimal(r[k + 1])) >= 1
        <5>1. r[k + 1] \in Roads  BY <4>3
        <5> QED BY <5>1, RoadNumeral
      <4> QED BY <1>1, <1>5, <1>7, <2>1, <4>4, <4>5
    <3> QED BY <3>1
  <2>3. End(r, k) = Len(T)  BY <2>2, TextFacts DEF T
  <2>4. n = Len(D)  BY <1>1, <1>5, <1>7, <1>8, <2>1, <2>3
  <2>5. y = r[k]  BY <1>13, <2>4
  <2>6. Len(x) = Len(r) /\ \A i \in 1..Len(r) : x[i] = r[i]
    <3>1. Len(x) = Len(r)  BY <1>16, <2>2
    <3>2. \A i \in 1..Len(r) : i \in 1..(k - 1) \/ i = k  BY <2>2
    <3> QED BY <1>16, <2>5, <3>1, <3>2
  <2> HIDE DEF R
  <2>7. Len(r) \in Nat /\ DOMAIN r = 1..Len(r) /\ DOMAIN x = 1..Len(r)  BY <1>16, <2>6
  <2>8. x = [i \in 1..Len(r) |-> x[i]] /\ r = [i \in 1..Len(r) |-> r[i]]  BY <1>16, <2>7
  <2> QED BY <2>6, <2>8
<1> QED BY <1>16, <1>17, <1>18, <1>19, <1>20, <1>21 DEF x, s, L, R

-----------------------------------------------------------------------------
(* Forwarding: restricted_forwarding_algo *)

ListsTyped == lst \in [Nodes -> Seq(Entries)]

\* A neighbour's distance, and how far that is from RESTRICTED_RANGE.
MetresTo(n, j) == Dist[n][lst[n][j].addr]
OffRange(n, j) == Abs(MetresTo(n, j) - RestrictedRange)

Bests == [min : Int, next : Nodes \cup {None}]

\* The inner loop after the first i neighbours: no one on the road yet, or
\* the j-th is the best of those that the loop can still compare with.
BestAfter(n, r, best, i) ==
  \/ best.next = None /\ \A m \in OnSameRoad(n, r) : m > i
  \/ \E j \in OnSameRoad(n, r) :
       /\ j <= i /\ best.next = lst[n][j].addr
       /\ best.min = MetresTo(n, j) - RestrictedRange
       /\ \A m \in OnSameRoad(n, r) :
            m <= i => (m < j \/ MetresTo(n, j) >= RestrictedRange =>
                         OffRange(n, j) <= OffRange(n, m))

LEMMA CandidateFacts ==
  ASSUME ListsTyped, NEW n \in Nodes, NEW r, NEW j \in OnSameRoad(n, r)
  PROVE  /\ j \in 1..Len(lst[n]) /\ lst[n][j].addr \in Nodes
         /\ MetresTo(n, j) \in Nat /\ OffRange(n, j) \in Nat
<1>1. lst[n] \in Seq(Entries)  BY DEF ListsTyped
<1>2. j \in 1..Len(lst[n])  BY <1>1 DEF OnSameRoad, Direct
<1>3. lst[n][j] \in Entries  BY <1>1, <1>2
<1>4. lst[n][j].addr \in Nodes  BY <1>3 DEF Entries
<1>5. MetresTo(n, j) \in Nat  BY <1>4, ForwardingAssumption DEF MetresTo
<1>6. OffRange(n, j) \in Nat  BY <1>5, ForwardingAssumption DEF OffRange, Abs
<1> QED BY <1>2, <1>4, <1>5, <1>6

\* The one round of the inner loop that PickOn repeats.
TryNext(n, r, best, i) ==
  LET d == Dist[n][lst[n][i].addr] - RestrictedRange
  IN IF i \in OnSameRoad(n, r) /\ Nearer(best, d)
       THEN [min |-> d, next |-> lst[n][i].addr] ELSE best

LEMMA TryNextBest ==
  ASSUME ListsTyped, NEW n \in Nodes, NEW r, NEW i \in 1..Len(lst[n]), NEW b \in Bests,
         BestAfter(n, r, b, i - 1)
  PROVE  BestAfter(n, r, TryNext(n, r, b, i), i)
<1> DEFINE cand == OnSameRoad(n, r)
           d == MetresTo(n, i) - RestrictedRange
           c == TryNext(n, r, b, i)
           Holds(j, h) == \A m \in cand : m <= h => (m < j \/ MetresTo(n, j) >= RestrictedRange =>
                                                      OffRange(n, j) <= OffRange(n, m))
<1>0. i \in Nat /\ i >= 1 /\ RestrictedRange \in Nat
  <2>1. lst[n] \in Seq(Entries)  BY DEF ListsTyped
  <2> QED BY <2>1, ForwardingAssumption
<1>1. \A m \in cand : /\ m \in Nat /\ MetresTo(n, m) \in Nat /\ OffRange(n, m) \in Nat
                      /\ lst[n][m].addr \in Nodes
  <2>1. lst[n] \in Seq(Entries)  BY DEF ListsTyped
  <2> QED BY <2>1, CandidateFacts
<1>2. c = IF i \in cand /\ Nearer(b, d) THEN [min |-> d, next |-> lst[n][i].addr] ELSE b
  BY DEF TryNext, MetresTo
<1>3. \/ b.next = None /\ \A m \in cand : m > i - 1
      \/ \E j \in cand : /\ j <= i - 1 /\ b.next = lst[n][j].addr
                         /\ b.min = MetresTo(n, j) - RestrictedRange /\ Holds(j, i - 1)
  BY DEF BestAfter
<1>4. None \notin Nodes  BY ForwardingAssumption
<1>5. \A m \in cand : OffRange(n, m) = Abs(MetresTo(n, m) - RestrictedRange)  BY DEF OffRange
<1> HIDE DEF cand, d, c
<1>6. CASE i \in cand /\ Nearer(b, d)
  <2>1. c.min = d /\ c.next = lst[n][i].addr  BY <1>2, <1>6
  <2>2. ASSUME NEW m \in cand, m <= i PROVE OffRange(n, i) <= OffRange(n, m)
    <3>1. CASE m = i  BY <1>1, <3>1
    <3>2. CASE m # i
      <4>1. m <= i - 1 /\ ~(m > i - 1)  BY <1>0, <1>1, <2>2, <3>2
      <4>2. PICK j \in cand : /\ j <= i - 1 /\ b.next = lst[n][j].addr
                              /\ b.min = MetresTo(n, j) - RestrictedRange /\ Holds(j, i - 1)
        BY <1>3, <4>1
      <4>3. b.next # None  BY <1>1, <1>4, <4>2
      <4>4. Abs(d) < b.min  BY <1>6, <4>3 DEF Nearer
      <4>5. OffRange(n, i) = Abs(d)  BY <1>5, <1>6 DEF d
      <4>6. MetresTo(n, j) \in Nat /\ OffRange(n, j) \in Nat /\ OffRange(n, i) \in Nat /\ OffRange(n, m) \in Nat
        BY <1>1, <1>6
      <4>7. MetresTo(n, j) - RestrictedRange > 0  BY <1>0, <4>2, <4>4, <4>5, <4>6
      <4>8. OffRange(n, j) = MetresTo(n, j) - RestrictedRange
        BY <1>0, <1>5, <4>6, <4>7 DEF Abs
      <4>9. OffRange(n, j) <= OffRange(n, m)
        <5>1. MetresTo(n, j) >= RestrictedRange  BY <1>0, <4>6, <4>7
        <5> QED BY <4>1, <4>2, <5>1
      <4> QED BY <4>2, <4>4, <4>5, <4>6, <4>8, <4>9
    <3> QED BY <3>1, <3>2
  <2>3. Holds(i, i)  BY <2>2
  <2>4. i <= i  BY <1>0
  <2>5. \E j \in cand : /\ j <= i /\ c.next = lst[n][j].addr
                        /\ c.min = MetresTo(n, j) - RestrictedRange /\ Holds(j, i)
    BY <1>6, <2>1, <2>3, <2>4 DEF d
  <2> QED BY <2>5 DEF BestAfter, cand, c
<1>7. CASE ~(i \in cand /\ Nearer(b, d))
  <2>1. c = b  BY <1>2, <1>7
  <2>2. CASE b.next = None /\ \A m \in cand : m > i - 1
    <3>1. i \notin cand  BY <1>7, <2>2 DEF Nearer
    <3>2. \A m \in cand : m > i  BY <1>0, <1>1, <2>2, <3>1
    <3> QED BY <2>1, <2>2, <3>2 DEF BestAfter, cand, c
  <2>3. ASSUME NEW j \in cand, j <= i - 1, b.next = lst[n][j].addr,
               b.min = MetresTo(n, j) - RestrictedRange, Holds(j, i - 1)
        PROVE  BestAfter(n, r, c, i)
    <3>1. ASSUME NEW m \in cand, m <= i, m < j \/ MetresTo(n, j) >= RestrictedRange
          PROVE  OffRange(n, j) <= OffRange(n, m)
      <4>1. CASE m # i
        <5>1. m <= i - 1  BY <1>0, <1>1, <3>1, <4>1
        <5> QED BY <2>3, <3>1, <5>1
      <4>2. CASE m = i
        <5>0. j \in Nat /\ j <= i - 1  BY <1>1, <2>3
        <5>1. MetresTo(n, j) >= RestrictedRange
          <6>1. ~(m < j)  BY <1>0, <4>2, <5>0
          <6> QED BY <3>1, <6>1
        <5>2. MetresTo(n, j) \in Nat /\ MetresTo(n, i) \in Nat /\ OffRange(n, i) \in Nat
          BY <1>1, <3>1, <4>2
        <5>3. OffRange(n, j) = b.min  BY <1>0, <1>5, <2>3, <5>1, <5>2 DEF Abs
        <5>4. OffRange(n, i) = Abs(d)  BY <1>5, <3>1, <4>2 DEF d
        <5>5. ~(Abs(d) < b.min)  BY <1>7, <3>1, <4>2 DEF Nearer
        <5> QED BY <1>0, <2>3, <4>2, <5>2, <5>3, <5>4, <5>5
      <4> QED BY <4>1, <4>2
    <3>2. j <= i  BY <1>0, <1>1, <2>3
    <3>3. Holds(j, i)  BY <3>1
    <3>4. \E h \in cand : /\ h <= i /\ c.next = lst[n][h].addr
                          /\ c.min = MetresTo(n, h) - RestrictedRange /\ Holds(h, i)
      BY <2>1, <2>3, <3>2, <3>3
    <3> QED BY <3>4 DEF BestAfter, cand, c
  <2>4. CASE \E j \in cand : /\ j <= i - 1 /\ b.next = lst[n][j].addr
                             /\ b.min = MetresTo(n, j) - RestrictedRange /\ Holds(j, i - 1)
    <3>1. PICK j \in cand : /\ j <= i - 1 /\ b.next = lst[n][j].addr
                            /\ b.min = MetresTo(n, j) - RestrictedRange /\ Holds(j, i - 1)
      BY <2>4
    <3> HIDE DEF Holds
    <3>2. BestAfter(n, r, c, i)  BY <2>3, <3>1
    <3> QED BY <3>2 DEF c
  <2> QED BY <1>3, <2>2, <2>4
<1> QED BY <1>6, <1>7 DEF c

\* What the inner loop leaves in next_hop.
LEMMA PickOnIs ==
  ASSUME ListsTyped, NEW n \in Nodes, NEW r
  PROVE  /\ PickOn(n, r) \in Nodes \cup {None}
         /\ OnSameRoad(n, r) # {} =>
              \E j \in OnSameRoad(n, r) :
                /\ PickOn(n, r) = lst[n][j].addr
                /\ \A m \in OnSameRoad(n, r) :
                     m < j \/ MetresTo(n, j) >= RestrictedRange =>
                       OffRange(n, j) <= OffRange(n, m)
<1> DEFINE N == Len(lst[n])
           B == Bests
           z == [min |-> 0, next |-> None]
           Is(f) == f = [i \in 0..N |-> IF i = 0 THEN z ELSE TryNext(n, r, f[i-1], i)]
           next == [q \in B \X (1..N) |-> TryNext(n, r, q[1], q[2])]
           f == CHOOSE f : Is(f)
<1>0. lst[n] \in Seq(Entries)  BY DEF ListsTyped
<1>1. N \in Nat /\ z \in B  BY <1>0 DEF Bests
<1>2. PickOn(n, r) = f[N].next  BY DEF PickOn, TryNext
<1>3. next \in [B \X (1..N) -> B]
  <2> SUFFICES ASSUME NEW b \in B, NEW i \in 1..N PROVE TryNext(n, r, b, i) \in B
    OBVIOUS
  <2>0. lst[n][i] \in Entries  BY <1>0
  <2>1. lst[n][i].addr \in Nodes  BY <2>0 DEF Entries
  <2>2. Dist[n][lst[n][i].addr] - RestrictedRange \in Int  BY <2>1, ForwardingAssumption
  <2>3. [min |-> Dist[n][lst[n][i].addr] - RestrictedRange, next |-> lst[n][i].addr] \in B
    BY <2>1, <2>2 DEF Bests
  <2> QED BY <2>3 DEF TryNext
<1>4. \A y \in B, i \in 1..N : next[<<y, i>>] = TryNext(n, r, y, i)  OBVIOUS
<1> HIDE DEF next, B, z
<1>5. PICK g : IsLoop(g, N, B, z, next)
  <2> HIDE DEF N
  <2> QED BY <1>1, <1>3, Recursion
<1>6. /\ g \in [0..N -> B] /\ g[0] = z
      /\ \A i \in 1..N : g[i] = next[<<g[i-1], i>>]
  BY <1>5 DEF IsLoop
<1>7. ASSUME NEW i \in 1..N PROVE g[i] = TryNext(n, r, g[i-1], i) /\ g[i-1] \in B
  <2>1. i - 1 \in 0..N  BY <1>1
  <2> QED BY <1>4, <1>6, <2>1
<1>8. Is(g)
  <2> HIDE DEF N
  <2>1. \A i \in 0..N : g[i] = IF i = 0 THEN z ELSE TryNext(n, r, g[i-1], i)  BY <1>6, <1>7
  <2> QED BY <1>6, <2>1
<1>9. Is(f)  BY <1>8
<1> HIDE DEF f
<1>10. f[0] = z /\ \A i \in 1..N : f[i] = TryNext(n, r, f[i-1], i)
  <2> HIDE DEF N
  <2> QED BY <1>1, <1>9
<1> DEFINE P == {i \in 0..N : f[i] = g[i] /\ BestAfter(n, r, g[i], i)}
<1>11. 0 \in P
  <2>1. z.next = None  BY DEF z
  <2>2. \A m \in OnSameRoad(n, r) : m > 0
    <3> SUFFICES ASSUME NEW m \in OnSameRoad(n, r) PROVE m > 0  OBVIOUS
    <3>1. m \in 1..N  BY CandidateFacts
    <3> QED BY <1>1, <3>1
  <2>3. BestAfter(n, r, z, 0)  BY <2>1, <2>2 DEF BestAfter
  <2> QED BY <1>1, <1>6, <1>10, <2>3
<1>12. ASSUME NEW i \in 1..N, i - 1 \in P PROVE i \in P
  <2>1. i \in 0..N  BY <1>1
  <2>2. f[i-1] = g[i-1] /\ BestAfter(n, r, g[i-1], i - 1)  BY <1>12
  <2>3. f[i] = g[i]  BY <1>7, <1>10, <2>2
  <2>4. g[i-1] \in Bests  BY <1>7 DEF B
  <2>5. BestAfter(n, r, TryNext(n, r, g[i-1], i), i)  BY <2>2, <2>4, TryNextBest
  <2> QED BY <1>7, <2>1, <2>3, <2>5
<1> HIDE DEF P
<1>13. \A i \in 0..N : i \in P
  <2> HIDE DEF N
  <2> QED BY <1>1, <1>11, <1>12, InductionUpTo
<1>14. f[N] = g[N] /\ BestAfter(n, r, g[N], N) /\ g[N] \in B
  <2>1. N \in 0..N  BY <1>1
  <2>2. N \in P  BY <1>13, <2>1
  <2> QED BY <1>6, <2>1, <2>2 DEF P
<1>15. PickOn(n, r) = g[N].next /\ PickOn(n, r) \in Nodes \cup {None}
  BY <1>2, <1>14 DEF B, Bests
<1>16. ASSUME OnSameRoad(n, r) # {}
       PROVE  \E j \in OnSameRoad(n, r) :
                /\ PickOn(n, r) = lst[n][j].addr
                /\ \A m \in OnSameRoad(n, r) :
                     m < j \/ MetresTo(n, j) >= RestrictedRange =>
                       OffRange(n, j) <= OffRange(n, m)
  <2>1. \A m \in OnSameRoad(n, r) : m \in 1..N /\ m <= N /\ ~(m > N)  BY <1>1, CandidateFacts
  <2>2. PICK j \in OnSameRoad(n, r) :
          /\ g[N].next = lst[n][j].addr
          /\ \A m \in OnSameRoad(n, r) :
               m <= N => (m < j \/ MetresTo(n, j) >= RestrictedRange =>
                            OffRange(n, j) <= OffRange(n, m))
    BY <1>14, <1>16, <2>1 DEF BestAfter
  <2> QED BY <1>15, <2>1, <2>2
<1> QED BY <1>15, <1>16

\* A set of places of a list has a greatest.
LEMMA GreatestExists ==
  ASSUME NEW N \in Nat, NEW T, T \subseteq 1..N, T # {}
  PROVE  Max(T) \in T /\ \A y \in T : y <= Max(T)
<1> DEFINE U == {N - t : t \in T}
<1>0. \A t \in T : t \in 1..N /\ N - t \in Nat
  <2> SUFFICES ASSUME NEW t \in T PROVE t \in 1..N /\ N - t \in Nat  OBVIOUS
  <2>1. t \in 1..N  OBVIOUS
  <2> QED BY <2>1
<1>1. U \subseteq Nat /\ U # {}  BY <1>0
<1>2. PICK u \in U : \A v \in U : u <= v  BY <1>1, LeastExists
<1>3. PICK t \in T : u = N - t  OBVIOUS
<1>4. \A y \in T : t >= y
  <2> SUFFICES ASSUME NEW y \in T PROVE t >= y  OBVIOUS
  <2>1. N - t <= N - y  BY <1>2, <1>3
  <2>2. t \in Nat /\ y \in Nat  OBVIOUS
  <2> QED BY <2>1, <2>2
<1>5. Max(T) = CHOOSE x \in T : \A y \in T : x >= y  BY DEF Max
<1>6. Max(T) \in T /\ \A y \in T : Max(T) >= y  BY <1>3, <1>4, <1>5
<1>7. \A y \in T : y \in Int  OBVIOUS
<1> HIDE DEF U
<1> QED BY <1>6, <1>7

\* What restricted_forwarding_algo answers for the roads x of a route.
LEMMA NextHopIs ==
  ASSUME ListsTyped, NEW n \in Nodes, NEW x \in Seq(Roads \cup {NoRoad}), x # <<>>
  PROVE  /\ NextHop(n, x) \in Nodes \cup {None, Fault}
         /\ NextHop(n, x) = Fault => \E i \in 1..Len(x) : x[i] = NoRoad
         /\ NextHop(n, x) \in Nodes =>
              \E i \in 1..Len(x) :
                /\ \A k \in i..Len(x) : x[k] # NoRoad
                /\ \A k \in (i + 1)..Len(x) : OnSameRoad(n, x[k]) = {}
                /\ OnSameRoad(n, x[i]) # {} /\ NextHop(n, x) = PickOn(n, x[i])
<1> DEFINE hits == {i \in DOMAIN x : /\ Direct(n) # {}
                                     /\ x[i] = NoRoad \/ OnSameRoad(n, x[i]) # {}}
           i == Max(hits)
<1>0. None \notin Nodes /\ Fault \notin Nodes /\ None # Fault  BY ForwardingAssumption
<1>1. Len(x) \in Nat /\ hits \subseteq 1..Len(x) /\ DOMAIN x = 1..Len(x)  OBVIOUS
<1>2. NextHop(n, x) = IF hits = {} THEN None
                      ELSE IF x[i] = NoRoad THEN Fault ELSE PickOn(n, x[i])
  BY DEF NextHop
<1>3. CASE hits = {}
  <2>1. NextHop(n, x) = None  BY <1>2, <1>3
  <2> QED BY <1>0, <2>1
<1>4. CASE hits # {}
  <2>1. i \in hits /\ \A k \in hits : k <= i
    <3> HIDE DEF hits
    <3> QED BY <1>1, <1>4, GreatestExists
  <2>2. /\ i \in 1..Len(x) /\ Direct(n) # {} /\ (x[i] = NoRoad \/ OnSameRoad(n, x[i]) # {})
    <3> HIDE DEF i
    <3> QED BY <2>1
  <2>3. ASSUME NEW k \in (i + 1)..Len(x) PROVE x[k] # NoRoad /\ OnSameRoad(n, x[k]) = {}
    <3>1. k \in 1..Len(x) /\ ~(k <= i)  BY <1>1, <2>2
    <3>2. k \notin hits  BY <2>1, <3>1
    <3> QED BY <2>2, <3>1, <3>2
  <2>4. CASE x[i] = NoRoad
    <3>1. NextHop(n, x) = Fault  BY <1>2, <1>4, <2>4
    <3> QED BY <1>0, <2>2, <2>4, <3>1
  <2>5. CASE x[i] # NoRoad
    <3>1. NextHop(n, x) = PickOn(n, x[i])  BY <1>2, <1>4, <2>5
    <3>2. PickOn(n, x[i]) \in Nodes \cup {None}  BY PickOnIs
    <3>3. OnSameRoad(n, x[i]) # {}  BY <2>2, <2>5
    <3> HIDE DEF i, hits
    <3>4. \A k \in i..Len(x) : x[k] # NoRoad
      <4> SUFFICES ASSUME NEW k \in i..Len(x) PROVE x[k] # NoRoad  OBVIOUS
      <4>1. k = i \/ k \in (i + 1)..Len(x)  BY <1>1, <2>2
      <4> QED BY <2>3, <2>5, <4>1
    <3> QED BY <1>0, <2>2, <2>3, <3>1, <3>2, <3>3, <3>4
  <2> QED BY <2>4, <2>5
<1> QED BY <1>3, <1>4

\* restricted_forwarding_algo's choice, in every state whose lists have
\* their type.
LEMMA NextHopIsBest ==
  ASSUME ListsTyped
  PROVE  NextHopBestSoFar
<1> SUFFICES ASSUME NEW n \in Nodes, NEW r \in Ofrs, NextHop(n, r) \in Nodes
             PROVE  \E i \in DOMAIN r :
                      /\ \A k \in i + 1 .. Len(r) : OnSameRoad(n, r[k]) = {}
                      /\ \E j \in OnSameRoad(n, r[i]) :
                           /\ lst[n][j].addr = NextHop(n, r)
                           /\ \A m \in OnSameRoad(n, r[i]) :
                                m < j \/ MetresTo(n, j) >= RestrictedRange =>
                                  OffRange(n, j) <= OffRange(n, m)
  BY DEF NextHopBestSoFar, MetresTo, OffRange
<1>1. r \in Seq(Roads)  BY ForwardingAssumption
<1>2. r \in Seq(Roads \cup {NoRoad})  BY <1>1
<1>3. r # <<>>
  <2>1. ASSUME r = <<>> PROVE FALSE
    <3>1. NextHop(n, r) = None
      <4>1. {i \in DOMAIN r : /\ Direct(n) # {}
                              /\ r[i] = NoRoad \/ OnSameRoad(n, r[i]) # {}} = {}
        BY <2>1
      <4> QED BY <4>1 DEF NextHop
    <3> QED BY <3>1, ForwardingAssumption
  <2> QED BY <2>1
<1>4. PICK i \in 1..Len(r) :
        /\ \A k \in (i + 1)..Len(r) : OnSameRoad(n, r[k]) = {}
        /\ OnSameRoad(n, r[i]) # {} /\ NextHop(n, r) = PickOn(n, r[i])
  BY <1>2, <1>3, NextHopIs
<1>5. PICK j \in OnSameRoad(n, r[i]) :
        /\ PickOn(n, r[i]) = lst[n][j].addr
        /\ \A m \in OnSameRoad(n, r[i]) :
             m < j \/ MetresTo(n, j) >= RestrictedRange => OffRange(n, j) <= OffRange(n, m)
  BY <1>4, PickOnIs
<1>6. i \in DOMAIN r  BY <1>1
<1> QED BY <1>4, <1>5, <1>6

-----------------------------------------------------------------------------
(* Forwarding: the packet on its way *)

\* hops = 0 until the source's daemon has sent the packet.  From then on the
\* packet has the beginning of the route string, and the whole of it on its
\* first hop.  A daemon that died keeps the packet for ever.
ForwardTyped ==
  /\ lst \in [Nodes -> Seq(Entries)] /\ down \subseteq Nodes /\ dst \in Nodes
  /\ pkt \in Packet /\ ofr \in Ofrs \cup {<<>>}
  /\ hops \in 0 .. MaxHops /\ changes \in 0 .. MaxChanges

AtSource ==
  pkt.where = "queued" /\ pkt.kind = "SEND" =>
    hops = 0 /\ ofr = <<>> /\ pkt.route = <<>> /\ down = {}

OnItsWay == pkt.where = "air" \/ pkt.kind = "FORWARD" => hops >= 1

RouteOfSource ==
  /\ ofr = <<>> => pkt.route = <<>>
  /\ ofr # <<>> => IsPrefix(pkt.route, OfrToString(ofr))
  /\ hops = 1 /\ pkt.route # <<>> => pkt.route = OfrToString(ofr)

DeadKeepsPacket == down # {} => pkt.where = "queued" /\ pkt.at \in down

ForwardInv ==
  /\ ForwardTyped /\ AtSource /\ OnItsWay /\ RouteOfSource
  /\ DeadKeepsPacket /\ FaultOnlyAfterCut

LEMMA CutPrefix ==
  ASSUME NEW C, NEW u \in Seq(C), NEW s \in Seq(C), IsPrefix(u, s),
         NEW len \in Nat, len <= Len(u)
  PROVE  SubSeq(u, 1, len) \in Seq(C) /\ IsPrefix(SubSeq(u, 1, len), s)
<1> DEFINE v == SubSeq(u, 1, len)
<1>1. v \in Seq(C) /\ Len(v) = len /\ \A i \in 1..len : v[i] = u[i]  OBVIOUS
<1>2. Len(u) <= Len(s) /\ \A i \in 1..Len(u) : u[i] = s[i]  BY PrefixIs
<1> HIDE DEF v
<1>3. Len(v) <= Len(s) /\ \A i \in 1..Len(v) : v[i] = s[i]  BY <1>1, <1>2
<1>4. IsPrefix(v, s)  BY <1>1, <1>3, PrefixIs
<1> QED BY <1>1, <1>4 DEF v

LEMMA NoPrefix ==
  ASSUME NEW C, NEW s \in Seq(C)
  PROVE  IsPrefix(<<>>, s) /\ IsPrefix(s, s)
<1>1. <<>> \in Seq(C) /\ Len(<<>>) <= Len(s) /\ \A i \in 1..Len(<<>>) : <<>>[i] = s[i]
  OBVIOUS
<1>2. IsPrefix(<<>>, s)  BY <1>1, PrefixIs
<1>3. IsPrefix(s, s)  BY PrefixIs
<1> QED BY <1>2, <1>3

\* A string has at least as many characters as the route has roads, so
\* what handle_req_route_forward_normal sends for route_len is there.
LEMMA StringIsLong ==
  ASSUME NEW r \in Seq(Roads), r # <<>>
  PROVE  Len(OfrToString(r)) >= Len(r)
<1> DEFINE N == Len(r)
<1>1. N \in 1..N /\ N \in Nat  OBVIOUS
<1>2. /\ Len(Text(r)) = End(r, N) /\ End(r, N-1) \in Nat /\ End(r, N-1) >= N - 1
      /\ End(r, N) = End(r, N-1) + Len(Decimal(r[N])) + 1
  BY <1>1, TextFacts
<1>3. Len(Decimal(r[N])) \in Nat /\ Len(Decimal(r[N])) >= 1
  <2>1. r[N] \in Roads  BY <1>1
  <2> QED BY <2>1, RoadNumeral
<1>4. Len(OfrToString(r)) = Len(Text(r)) - 1  BY StringFacts
<1> HIDE DEF N
<1>5. Len(OfrToString(r)) >= N  BY <1>1, <1>2, <1>3, <1>4
<1> QED BY <1>5 DEF N

LEMMA SendFacts ==
  ASSUME pkt \in Packet, hops \in 0..MaxHops, NEW n \in Nodes, NEW s \in Seq(Chars), SendTo(n, s)
  PROVE  /\ pkt' \in Packet /\ hops' \in 0..MaxHops /\ hops' = hops + 1
         /\ pkt'.where = "air" /\ pkt'.at = n /\ pkt'.route = s /\ pkt'.kind = pkt.kind
<1>1. hops' = hops + 1 /\ hops < MaxHops
      /\ pkt' = [pkt EXCEPT !.where = "air", !.at = n, !.route = s]
  BY DEF SendTo
<1>2. hops' \in 0..MaxHops  BY <1>1, ForwardingAssumption
<1> HIDE DEF Chars
<1> QED BY <1>1, <1>2 DEF Packet

LEMMA DropFacts ==
  ASSUME pkt \in Packet, DropMsg
  PROVE  /\ pkt' \in Packet /\ hops' = hops
         /\ pkt'.where = "dropped" /\ pkt'.at = pkt.at /\ pkt'.route = pkt.route
         /\ pkt'.kind = pkt.kind
<1> HIDE DEF Chars
<1> QED BY DEF DropMsg, Packet

\* The three ends of handle_req_route_send_normal and of
\* handle_req_route_forward_normal.
LEMMA FollowCases ==
  ASSUME NEW n, NEW r, NEW len, FollowOfr(n, r, len)
  PROVE  \/ DropMsg /\ down' = down
         \/ /\ r # <<>> /\ NextHop(n, r) = Fault
            /\ down' = down \cup {n} /\ pkt' = pkt /\ hops' = hops
         \/ /\ r # <<>> /\ NextHop(n, r) \notin {None, Fault}
            /\ SendTo(NextHop(n, r), SubSeq(OfrToString(r), 1, len)) /\ down' = down
<1> DEFINE next == IF r = <<>> THEN None ELSE NextHop(n, r)
<1>1. CASE ~Found(next)
  <2>0. next # Fault  BY <1>1, ForwardingAssumption DEF Found
  <2>1. DropMsg /\ UNCHANGED down  BY <1>1, <2>0 DEF FollowOfr
  <2> QED BY <2>1
<1>2. CASE Found(next) /\ next = Fault
  <2>1. r # <<>> /\ NextHop(n, r) = Fault  BY <1>2 DEF Found
  <2>2. down' = down \cup {n} /\ UNCHANGED <<pkt, hops>>  BY <1>2 DEF FollowOfr
  <2> QED BY <2>1, <2>2
<1>3. CASE Found(next) /\ next # Fault
  <2>1. r # <<>> /\ next = NextHop(n, r) /\ NextHop(n, r) \notin {None, Fault}
    BY <1>3 DEF Found
  <2>2. SendTo(next, SubSeq(OfrToString(r), 1, len)) /\ UNCHANGED down
    BY <1>3 DEF FollowOfr
  <2> QED BY <2>1, <2>2
<1> QED BY <1>1, <1>2, <1>3

\* What holds after a step in which no daemon is down.
LEMMA NobodyDown ==
  ASSUME down' = {}
  PROVE  DeadKeepsPacket' /\ FaultOnlyAfterCut'
BY DEF DeadKeepsPacket, FaultOnlyAfterCut

\* What both handlers do first.
LEMMA NearInv ==
  ASSUME ForwardInv, NEW n \in Nodes, down = {}, HandleNear(n), UNCHANGED <<lst, dst, changes>>
  PROVE  ForwardInv'
<1>1. /\ ForwardTyped /\ OnItsWay /\ RouteOfSource /\ down' = {} /\ ofr' = ofr
      /\ lst' = lst /\ dst' = dst /\ changes' = changes
  BY DEF ForwardInv, HandleNear
<1>2. DeadKeepsPacket' /\ FaultOnlyAfterCut'  BY <1>1, NobodyDown
<1>3. pkt \in Packet /\ dst \in Nodes /\ hops \in 0..MaxHops /\ pkt.route \in Seq(Chars)
  BY <1>1 DEF ForwardTyped, Packet
<1>4. CASE SendTo(dst, <<>>)
  <2>1. /\ pkt' \in Packet /\ hops' \in 0..MaxHops /\ hops' = hops + 1 /\ pkt'.where = "air"
        /\ pkt'.route = <<>>
    <3>1. <<>> \in Seq(Chars)  OBVIOUS
    <3> QED BY <1>3, <1>4, <3>1, SendFacts
  <2>2. ForwardTyped'  BY <1>1, <2>1 DEF ForwardTyped
  <2>3. AtSource' /\ OnItsWay'  BY <1>3, <2>1 DEF AtSource, OnItsWay
  <2>4. RouteOfSource'
    <3>1. ofr' # <<>> => IsPrefix(<<>>, OfrToString(ofr)')
      <4>1. ASSUME ofr # <<>> PROVE IsPrefix(<<>>, OfrToString(ofr))
        <5>1. ofr \in Seq(Roads)  BY <1>1, <4>1, ForwardingAssumption DEF ForwardTyped
        <5>2. OfrToString(ofr) \in Seq(Chars)  BY <4>1, <5>1, StringFacts
        <5> QED BY <5>2, NoPrefix
      <4> QED BY <1>1, <4>1
    <3> QED BY <1>1, <2>1, <3>1 DEF RouteOfSource
  <2> QED BY <1>2, <2>2, <2>3, <2>4 DEF ForwardInv
<1>5. CASE DropMsg
  <2>1. /\ pkt' \in Packet /\ hops' = hops /\ pkt'.where = "dropped"
        /\ pkt'.route = pkt.route /\ pkt'.kind = pkt.kind
    BY <1>3, <1>5, DropFacts
  <2>2. ForwardTyped'  BY <1>1, <1>3, <2>1 DEF ForwardTyped
  <2>3. AtSource' /\ OnItsWay'  BY <1>1, <2>1 DEF AtSource, OnItsWay
  <2>4. RouteOfSource'  BY <1>1, <2>1 DEF RouteOfSource
  <2> QED BY <1>2, <2>2, <2>3, <2>4 DEF ForwardInv
<1> QED BY <1>4, <1>5 DEF HandleNear

\* handle_req_route_send_normal
LEMMA HandleSendInv ==
  ASSUME ForwardInv, NEW n \in Nodes, HandleSend(n)
  PROVE  ForwardInv'
<1>1. /\ ForwardTyped /\ pkt.where = "queued" /\ pkt.kind = "SEND"
      /\ hops = 0 /\ ofr = <<>> /\ pkt.route = <<>> /\ down = {}
      /\ lst' = lst /\ dst' = dst /\ changes' = changes
  BY DEF ForwardInv, HandleSend, Asked, AtSource
<1>2. CASE HandleNear(n)  BY <1>1, <1>2, NearInv
<1>3. ASSUME NEW r \in Ofrs, ofr' = r, FollowOfr(n, r, Len(OfrToString(r)))
      PROVE  ForwardInv'
  <2>1. /\ pkt \in Packet /\ hops \in 0..MaxHops /\ ListsTyped /\ r \in Seq(Roads)
    BY <1>1, ForwardingAssumption DEF ForwardTyped, ListsTyped
  <2>2. r \in Seq(Roads \cup {NoRoad})  BY <2>1
  <2>3. \A i \in 1..Len(r) : r[i] # NoRoad
    <3>1. NoRoad \notin Roads  BY ForwardingAssumption DEF NoRoad
    <3> QED BY <2>1, <3>1
  <2>4. r # <<>> => OfrToString(r) \in Seq(Chars)  BY <2>1, StringFacts
  <2>5. CASE DropMsg /\ down' = down
    <3>1. /\ pkt' \in Packet /\ hops' = hops /\ pkt'.where = "dropped"
          /\ pkt'.route = <<>> /\ pkt'.kind = "SEND"
      BY <1>1, <2>1, <2>5, DropFacts
    <3>2. ForwardTyped'  BY <1>1, <1>3, <2>1, <2>5, <3>1 DEF ForwardTyped
    <3>3. AtSource' /\ OnItsWay'  BY <3>1 DEF AtSource, OnItsWay
    <3>4. RouteOfSource'
      <4>1. r # <<>> => IsPrefix(<<>>, OfrToString(r))  BY <2>4, NoPrefix
      <4>2. ofr' # <<>> => IsPrefix(pkt'.route, OfrToString(ofr)')  BY <1>3, <3>1, <4>1
      <4> QED BY <3>1, <4>2 DEF RouteOfSource
    <3>5. DeadKeepsPacket' /\ FaultOnlyAfterCut'  BY <1>1, <2>5, NobodyDown
    <3> QED BY <3>2, <3>3, <3>4, <3>5 DEF ForwardInv
  <2>6. CASE r # <<>> /\ NextHop(n, r) = Fault
    BY <2>1, <2>2, <2>3, <2>6, NextHopIs
  <2>7. CASE /\ r # <<>> /\ NextHop(n, r) \notin {None, Fault}
             /\ SendTo(NextHop(n, r), SubSeq(OfrToString(r), 1, Len(OfrToString(r))))
             /\ down' = down
    <3> DEFINE s == OfrToString(r)
    <3>1. NextHop(n, r) \in Nodes  BY <2>1, <2>2, <2>7, NextHopIs
    <3>2. s \in Seq(Chars) /\ SubSeq(s, 1, Len(s)) = s  BY <2>4, <2>7
    <3>3. SendTo(NextHop(n, r), s)  BY <2>7, <3>2
    <3> HIDE DEF s
    <3>4. /\ pkt' \in Packet /\ hops' \in 0..MaxHops /\ hops' = 1 /\ pkt'.where = "air"
          /\ pkt'.route = s
      BY <1>1, <2>1, <3>1, <3>2, <3>3, SendFacts
    <3>5. ForwardTyped'  BY <1>1, <1>3, <2>7, <3>4 DEF ForwardTyped
    <3>6. AtSource' /\ OnItsWay'  BY <3>4 DEF AtSource, OnItsWay
    <3>7. RouteOfSource'
      <4>1. IsPrefix(s, s)  BY <3>2, NoPrefix
      <4>2. s = OfrToString(ofr)' /\ ofr' # <<>>  BY <1>3, <2>7 DEF s
      <4> QED BY <3>4, <4>1, <4>2 DEF RouteOfSource
    <3>8. DeadKeepsPacket' /\ FaultOnlyAfterCut'  BY <1>1, <2>7, NobodyDown
    <3> QED BY <3>5, <3>6, <3>7, <3>8 DEF ForwardInv
  <2> QED BY <1>3, <2>5, <2>6, <2>7, FollowCases
<1> QED BY <1>2, <1>3 DEF HandleSend

\* handle_req_route_forward_normal
LEMMA HandleForwardInv ==
  ASSUME ForwardInv, NEW n \in Nodes, HandleForward(n)
  PROVE  ForwardInv'
<1>1. /\ ForwardTyped /\ OnItsWay /\ RouteOfSource /\ DeadKeepsPacket
      /\ pkt.where = "queued" /\ pkt.kind = "FORWARD" /\ pkt.at = n /\ n \notin down
      /\ lst' = lst /\ dst' = dst /\ changes' = changes
  BY DEF ForwardInv, HandleForward, Asked
<1>2. down = {} /\ hops >= 1  BY <1>1 DEF DeadKeepsPacket, OnItsWay
<1>3. /\ pkt \in Packet /\ hops \in 0..MaxHops /\ hops \in Nat /\ ListsTyped
      /\ pkt.route \in Seq(Chars)
  BY <1>1, ForwardingAssumption DEF ForwardTyped, ListsTyped, Packet
<1>4. CASE HandleNear(n)  BY <1>1, <1>2, <1>4, NearInv
<1>5. CASE /\ pkt' = [pkt EXCEPT !.where = "overrun"] /\ down' = down /\ ofr' = ofr /\ hops' = hops
  <2>1. /\ pkt' \in Packet /\ pkt'.where = "overrun" /\ pkt'.route = pkt.route
        /\ pkt'.kind = pkt.kind
    <3> HIDE DEF Chars
    <3> QED BY <1>3, <1>5 DEF Packet
  <2>2. ForwardTyped'  BY <1>1, <1>5, <2>1 DEF ForwardTyped
  <2>3. AtSource' /\ OnItsWay'  BY <1>2, <1>5, <2>1 DEF AtSource, OnItsWay
  <2>4. RouteOfSource'  BY <1>1, <1>5, <2>1 DEF RouteOfSource
  <2>5. DeadKeepsPacket' /\ FaultOnlyAfterCut'  BY <1>2, <1>5, NobodyDown
  <2> QED BY <2>2, <2>3, <2>4, <2>5 DEF ForwardInv
<1> DEFINE p == pkt.route
           x == ExtractOfr(p)
           s == OfrToString(ofr)
<1>6. CASE FollowOfr(n, x, Len(x)) /\ ofr' = ofr
  <2>1. CASE DropMsg /\ down' = down
    <3>1. /\ pkt' \in Packet /\ hops' = hops /\ pkt'.where = "dropped"
          /\ pkt'.route = pkt.route /\ pkt'.kind = pkt.kind
      BY <1>3, <2>1, DropFacts
    <3>2. ForwardTyped'  BY <1>1, <1>6, <2>1, <3>1 DEF ForwardTyped
    <3>3. AtSource' /\ OnItsWay'  BY <1>2, <3>1 DEF AtSource, OnItsWay
    <3>4. RouteOfSource'  BY <1>1, <1>6, <3>1 DEF RouteOfSource
    <3>5. DeadKeepsPacket' /\ FaultOnlyAfterCut'  BY <1>2, <2>1, NobodyDown
    <3> QED BY <3>2, <3>3, <3>4, <3>5 DEF ForwardInv
  <2>2. ASSUME x # <<>>
        PROVE  /\ ofr \in Seq(Roads) /\ ofr # <<>> /\ p # <<>> /\ IsPrefix(p, s)
               /\ s \in Seq(Chars)
    <3>1. p # <<>>  BY <2>2, ExtractNothing
    <3>2. ofr # <<>> /\ IsPrefix(p, s)  BY <1>1, <3>1 DEF RouteOfSource
    <3>3. ofr \in Seq(Roads)  BY <1>1, <3>2, ForwardingAssumption DEF ForwardTyped
    <3>4. s \in Seq(Chars)  BY <3>2, <3>3, StringFacts
    <3> QED BY <3>1, <3>2, <3>3, <3>4
  <2>3. ASSUME x # <<>>
        PROVE  /\ x \in Seq(Roads \cup {NoRoad}) /\ Len(x) \in Nat /\ Len(x) >= 1
               /\ \A i \in 1..(Len(x) - 1) : x[i] \in Roads
               /\ x[Len(x)] \notin Roads => /\ x[Len(x)] = NoRoad /\ Len(p) < Len(s)
                                            /\ s[Len(p)] # Comma /\ s[Len(p) + 1] # Comma
               /\ x[Len(x)] \in Roads => IsPrefix(OfrToString(x), s)
               /\ p = s => x = ofr
    <3>1. /\ x \in Seq(Roads \cup {NoRoad}) /\ x # <<>>
          /\ \A i \in 1..(Len(x) - 1) : x[i] \in Roads
          /\ x[Len(x)] \notin Roads => /\ x[Len(x)] = NoRoad /\ Len(p) < Len(s)
                                       /\ s[Len(p)] # Comma /\ s[Len(p) + 1] # Comma
          /\ x[Len(x)] \in Roads => IsPrefix(OfrToString(x), s)
          /\ p = s => x = ofr
      BY <1>3, <2>2, <2>3, Reread
    <3> HIDE DEF x, s, p, NoRoad
    <3>2. Len(x) \in Nat /\ Len(x) >= 1  BY <3>1
    <3> QED BY <3>1, <3>2
  <2>4. NoRoad \notin Roads  BY ForwardingAssumption DEF NoRoad
  <2>5. CASE /\ x # <<>> /\ NextHop(n, x) = Fault
             /\ down' = down \cup {n} /\ pkt' = pkt /\ hops' = hops
    <3>1. PICK i \in 1..Len(x) : x[i] = NoRoad  BY <1>3, <2>3, <2>5, NextHopIs
    <3> HIDE DEF x
    <3>2. i = Len(x)
      <4>1. i \notin 1..(Len(x) - 1)  BY <2>3, <2>4, <2>5, <3>1
      <4> QED BY <2>3, <2>5, <4>1
    <3>3. x[Len(x)] \notin Roads  BY <2>4, <3>1, <3>2
    <3>4. hops # 1
      <4>1. ASSUME hops = 1 PROVE FALSE
        <5>1. p = s  BY <1>1, <2>2, <2>5, <4>1 DEF RouteOfSource
        <5>2. x \in Seq(Roads)  BY <2>2, <2>3, <2>5, <5>1
        <5>3. x[Len(x)] \in Roads  BY <2>3, <2>5, <5>2
        <5> QED BY <3>3, <5>3
      <4> QED BY <4>1
    <3>5. hops > 1  BY <1>2, <1>3, <3>4
    <3>6. Len(p) > 0
      <4>1. p \in Seq(Chars) /\ p # <<>>  BY <1>3, <2>2, <2>5
      <4> HIDE DEF p
      <4> QED BY <4>1
    <3>7. /\ hops > 1 /\ 0 < Len(p) /\ Len(p) < Len(s)
          /\ s[Len(p)] # Comma /\ s[Len(p) + 1] # Comma
      BY <2>3, <2>5, <3>3, <3>5, <3>6
    <3>8. FaultOnlyAfterCut'
      <4>1. s = OfrToString(ofr)' /\ p = pkt'.route  BY <1>6, <2>5
      <4> HIDE DEF s, p
      <4> QED BY <2>5, <3>7, <4>1 DEF FaultOnlyAfterCut
    <3>9. DeadKeepsPacket'  BY <1>1, <2>5 DEF DeadKeepsPacket
    <3>10. ForwardTyped'  BY <1>1, <1>6, <2>5 DEF ForwardTyped
    <3>11. AtSource' /\ OnItsWay'  BY <1>1, <1>2, <2>5 DEF AtSource, OnItsWay
    <3>12. RouteOfSource'  BY <1>1, <1>6, <2>5 DEF RouteOfSource
    <3> QED BY <3>8, <3>9, <3>10, <3>11, <3>12 DEF ForwardInv
  <2>6. CASE /\ x # <<>> /\ NextHop(n, x) \notin {None, Fault}
             /\ SendTo(NextHop(n, x), SubSeq(OfrToString(x), 1, Len(x))) /\ down' = down
    <3>1. NextHop(n, x) \in Nodes /\ x[Len(x)] \in Roads
      <4>1. NextHop(n, x) \in Nodes  BY <1>3, <2>3, <2>6, NextHopIs
      <4>2. PICK i \in 1..Len(x) : \A k \in i..Len(x) : x[k] # NoRoad
        BY <1>3, <2>3, <2>6, <4>1, NextHopIs
      <4> HIDE DEF x
      <4>3. Len(x) \in i..Len(x)  BY <2>3, <2>6
      <4> QED BY <2>3, <2>6, <4>1, <4>2, <4>3
    <3> HIDE DEF x
    <3>2. x \in Seq(Roads)
      <4>1. \A i \in 1..Len(x) : i \in 1..(Len(x) - 1) \/ i = Len(x)  BY <2>3, <2>6
      <4>2. \A i \in 1..Len(x) : x[i] \in Roads  BY <2>3, <2>6, <3>1, <4>1
      <4> HIDE DEF NoRoad
      <4>3. x \in [1..Len(x) -> Roads] /\ Len(x) \in Nat  BY <2>3, <2>6, <4>2
      <4> QED BY <4>3
    <3> DEFINE u == OfrToString(x)
               v == SubSeq(u, 1, Len(x))
    <3>3. u \in Seq(Chars) /\ Len(x) <= Len(u) /\ Len(x) \in Nat
      BY <2>6, <3>2, StringFacts, StringIsLong
    <3>4. IsPrefix(u, s) /\ s \in Seq(Chars)  BY <2>2, <2>3, <2>6, <3>1
    <3> HIDE DEF u
    <3>5. v \in Seq(Chars) /\ IsPrefix(v, s)  BY <3>3, <3>4, CutPrefix
    <3>6. SendTo(NextHop(n, x), v)  BY <2>6 DEF u
    <3> HIDE DEF v
    <3>7. /\ pkt' \in Packet /\ hops' \in 0..MaxHops /\ hops' = hops + 1 /\ pkt'.where = "air"
          /\ pkt'.route = v
      BY <1>3, <3>1, <3>5, <3>6, SendFacts
    <3>8. ForwardTyped'  BY <1>1, <1>6, <2>6, <3>7 DEF ForwardTyped
    <3>9. hops' >= 1 /\ hops' # 1  BY <1>2, <1>3, <3>7
    <3>10. AtSource' /\ OnItsWay'  BY <3>7, <3>9 DEF AtSource, OnItsWay
    <3>11. RouteOfSource'
      <4>1. s = OfrToString(ofr)' /\ ofr' # <<>>  BY <1>6, <2>2, <2>6
      <4> HIDE DEF s
      <4> QED BY <3>5, <3>7, <3>9, <4>1 DEF RouteOfSource
    <3>12. DeadKeepsPacket' /\ FaultOnlyAfterCut'  BY <1>2, <2>6, NobodyDown
    <3> QED BY <3>8, <3>10, <3>11, <3>12 DEF ForwardInv
  <2> HIDE DEF x
  <2> QED BY <1>6, <2>1, <2>5, <2>6, FollowCases
<1> QED BY <1>4, <1>5, <1>6 DEF HandleForward

\* Radio: the packet arrives or is lost.
LEMMA RadioInv ==
  ASSUME ForwardInv, Arrive \/ Lose
  PROVE  ForwardInv'
<1>1. /\ ForwardTyped /\ OnItsWay /\ RouteOfSource /\ DeadKeepsPacket /\ pkt.where = "air"
      /\ lst' = lst /\ down' = down /\ dst' = dst /\ ofr' = ofr /\ hops' = hops
      /\ changes' = changes
  BY DEF ForwardInv, Arrive, Lose
<1>2. down = {} /\ hops >= 1  BY <1>1 DEF DeadKeepsPacket, OnItsWay
<1>3. pkt \in Packet  BY <1>1 DEF ForwardTyped
<1>4. /\ pkt' \in Packet /\ pkt'.route = pkt.route
      /\ pkt'.kind = "FORWARD" \/ pkt'.where \in {"delivered", "lost"}
  <2> HIDE DEF Chars
  <2>1. CASE Arrive  BY <1>3, <2>1 DEF Arrive, Packet
  <2>2. CASE Lose  BY <1>3, <2>2 DEF Lose, Packet
  <2> QED BY <2>1, <2>2
<1>5. ForwardTyped'  BY <1>1, <1>4 DEF ForwardTyped
<1>6. AtSource' /\ OnItsWay'  BY <1>1, <1>2, <1>4 DEF AtSource, OnItsWay
<1>7. RouteOfSource'  BY <1>1, <1>4 DEF RouteOfSource
<1>8. DeadKeepsPacket' /\ FaultOnlyAfterCut'  BY <1>1, <1>2, NobodyDown
<1> QED BY <1>5, <1>6, <1>7, <1>8 DEF ForwardInv

\* The neighbour lists change, the packet does not.
LEMMA ChangedInv ==
  ASSUME ForwardInv, NEW n \in Nodes, NEW l \in Seq(Entries), Changed(n, l)
  PROVE  ForwardInv'
<1>1. /\ ForwardInv /\ changes < MaxChanges /\ changes' = changes + 1
      /\ lst' = [lst EXCEPT ![n] = l]
      /\ down' = down /\ pkt' = pkt /\ dst' = dst /\ ofr' = ofr /\ hops' = hops
  BY DEF Changed
<1>2. ForwardTyped'
  <2>1. lst' \in [Nodes -> Seq(Entries)]  BY <1>1 DEF ForwardInv, ForwardTyped
  <2>2. changes' \in 0..MaxChanges
    BY <1>1, ForwardingAssumption DEF ForwardInv, ForwardTyped
  <2> QED BY <1>1, <2>1, <2>2 DEF ForwardInv, ForwardTyped
<1>3. AtSource' /\ OnItsWay'  BY <1>1 DEF ForwardInv, AtSource, OnItsWay
<1>4. RouteOfSource'  BY <1>1 DEF ForwardInv, RouteOfSource
<1>5. DeadKeepsPacket' /\ FaultOnlyAfterCut'
  BY <1>1 DEF ForwardInv, DeadKeepsPacket, FaultOnlyAfterCut
<1> QED BY <1>2, <1>3, <1>4, <1>5 DEF ForwardInv

LEMMA HearInv ==
  ASSUME ForwardInv, NEW n \in Nodes, NEW m \in Nodes, NEW d \in BOOLEAN, Hear(n, m, d)
  PROVE  ForwardInv'
<1> DEFINE new == [addr |-> m, direct |-> d]
           l == IF m \in Named(n)
                  THEN [i \in DOMAIN lst[n] |-> IF lst[n][i].addr = m THEN new ELSE lst[n][i]]
                  ELSE <<new>> \o lst[n]
<1>1. new \in Entries /\ lst[n] \in Seq(Entries)  BY DEF Entries, ForwardInv, ForwardTyped
<1>2. Changed(n, l)  BY DEF Hear
<1> HIDE DEF new
<1>3. l \in Seq(Entries)
  <2>1. CASE m \in Named(n)
    <3> DEFINE u == [i \in DOMAIN lst[n] |-> IF lst[n][i].addr = m THEN new ELSE lst[n][i]]
    <3>1. Len(lst[n]) \in Nat /\ DOMAIN lst[n] = 1..Len(lst[n])  BY <1>1
    <3>2. u \in [1..Len(lst[n]) -> Entries]  BY <1>1, <3>1
    <3> HIDE DEF u
    <3>3. u \in Seq(Entries)  BY <3>1, <3>2
    <3> QED BY <2>1, <3>3 DEF u
  <2>2. CASE m \notin Named(n)
    <3>1. <<new>> \o lst[n] \in Seq(Entries)  BY <1>1
    <3> QED BY <2>2, <3>1
  <2> QED BY <2>1, <2>2
<1> HIDE DEF l
<1> QED BY <1>2, <1>3, ChangedInv

LEMMA CleanInv ==
  ASSUME ForwardInv, NEW n \in Nodes, NEW m \in Nodes, Clean(n, m)
  PROVE  ForwardInv'
<1>1. lst[n] \in Seq(Entries)  BY DEF ForwardInv, ForwardTyped
<1>2. PICK i \in DOMAIN lst[n] : Changed(n, RemoveAt(lst[n], i))  BY DEF Clean
<1>3. i \in 1..Len(lst[n])  BY <1>1
<1>4. RemoveAt(lst[n], i) \in Seq(Entries)  BY <1>1, <1>3, RemoveAtFacts
<1> QED BY <1>2, <1>4, ChangedInv

LEMMA ForwardInitInv == ForwardInit => ForwardInv
<1> SUFFICES ASSUME ForwardInit PROVE ForwardInv  OBVIOUS
<1>1. /\ lst = Lists /\ down = {} /\ ofr = <<>> /\ hops = 0 /\ changes = 0 /\ dst \in Nodes
  BY DEF ForwardInit
<1>2. PICK n \in Nodes : pkt = [where |-> "queued", at |-> n, kind |-> "SEND", route |-> <<>>]
  BY DEF ForwardInit
<1>3. pkt \in Packet /\ pkt.route = <<>> /\ pkt.kind = "SEND" /\ pkt.where = "queued"
  <2> HIDE DEF Chars
  <2>1. <<>> \in Seq(Chars)  OBVIOUS
  <2> QED BY <1>2, <2>1 DEF Packet
<1>4. ForwardTyped  BY <1>1, <1>3, ForwardingAssumption, ListsAssumption DEF ForwardTyped
<1>5. AtSource /\ OnItsWay /\ RouteOfSource
  BY <1>1, <1>3 DEF AtSource, OnItsWay, RouteOfSource
<1>6. DeadKeepsPacket /\ FaultOnlyAfterCut  BY <1>1 DEF DeadKeepsPacket, FaultOnlyAfterCut
<1> QED BY <1>4, <1>5, <1>6 DEF ForwardInv

LEMMA ForwardNextInv == ForwardInv /\ [ForwardNext]_forwardVars => ForwardInv'
<1> SUFFICES ASSUME ForwardInv, [ForwardNext]_forwardVars PROVE ForwardInv'  OBVIOUS
<1>1. ASSUME NEW n \in Nodes, HandleSend(n) PROVE ForwardInv'  BY <1>1, HandleSendInv
<1>2. ASSUME NEW n \in Nodes, HandleForward(n) PROVE ForwardInv'  BY <1>2, HandleForwardInv
<1>3. CASE Arrive \/ Lose  BY <1>3, RadioInv
<1>4. ASSUME NEW n \in Nodes, NEW m \in Nodes \ {n}, Clean(n, m) PROVE ForwardInv'
  BY <1>4, CleanInv
<1>5. ASSUME NEW n \in Nodes, NEW m \in Nodes \ {n}, NEW d \in BOOLEAN, Hear(n, m, d)
      PROVE  ForwardInv'
  BY <1>5, HearInv
<1>6. CASE UNCHANGED forwardVars
  BY <1>6 DEF forwardVars, ForwardInv, ForwardTyped, AtSource, OnItsWay, RouteOfSource,
              DeadKeepsPacket, FaultOnlyAfterCut
<1> QED BY <1>1, <1>2, <1>3, <1>4, <1>5, <1>6 DEF ForwardNext

LEMMA ForwardInductive == ForwardSpec => []ForwardInv
BY ForwardInitInv, ForwardNextInv, PTL DEF ForwardSpec

\* Whatever ids the map has, however the neighbour lists change and however
\* often relays parse, cut and write the route again: the first relay reads
\* what the source's daemon computed (extract_ofr undoes ofr_tostring), and
\* what a packet carries is always the beginning of that string.
THEOREM RouteStringStaysSound == ForwardSpec => []RouteStringIsSound
<1>1. ForwardInv => RouteStringIsSound
  <2> SUFFICES ASSUME ForwardInv PROVE RouteStringIsSound  OBVIOUS
  <2>1. ForwardTyped /\ RouteOfSource  BY DEF ForwardInv
  <2>2. ForwardTypeOK
    <3>1. \A n \in Nodes : \A i \in DOMAIN lst[n] : lst[n][i] \in Entries
      <4> SUFFICES ASSUME NEW n \in Nodes, NEW i \in DOMAIN lst[n] PROVE lst[n][i] \in Entries
        OBVIOUS
      <4>1. lst[n] \in Seq(Entries)  BY <2>1 DEF ForwardTyped
      <4> QED BY <4>1
    <3>2. /\ pkt.where \in {"queued", "air", "delivered", "dropped", "lost", "overrun"}
          /\ pkt.at \in Nodes /\ pkt.kind \in {"SEND", "FORWARD"} /\ pkt.route \in Seq(Chars)
      BY <2>1 DEF ForwardTyped, Packet
    <3>3. \A i \in DOMAIN pkt.route : pkt.route[i] \in Chars
      <4> HIDE DEF Chars
      <4> QED BY <3>2
    <3> QED BY <2>1, <3>1, <3>2, <3>3 DEF ForwardTyped, ForwardTypeOK
  <2>3. FirstRelayReadsOfr
    <3> SUFFICES ASSUME hops = 1, pkt.route # <<>> PROVE ExtractOfr(pkt.route) = ofr
      BY DEF FirstRelayReadsOfr
    <3>1. ofr # <<>> /\ pkt.route = OfrToString(ofr) /\ IsPrefix(pkt.route, OfrToString(ofr))
      BY <2>1 DEF RouteOfSource
    <3>2. ofr \in Seq(Roads)  BY <2>1, <3>1, ForwardingAssumption DEF ForwardTyped
    <3>3. pkt.route \in Seq(Chars)  BY <2>1 DEF ForwardTyped, Packet
    <3> QED BY <3>1, <3>2, <3>3, Reread
  <2>4. CarriedRouteIsPrefix  BY <2>1 DEF RouteOfSource, CarriedRouteIsPrefix
  <2> QED BY <2>2, <2>3, <2>4 DEF RouteStringIsSound
<1> QED BY <1>1, ForwardInductive, PTL

\* A daemon follows a null pointer only when a relay before it cut the route
\* string among the digits of a road id: never at the source and never at
\* the first relay.
THEOREM FaultHasACut == ForwardSpec => []FaultOnlyAfterCut
<1>1. ForwardInv => FaultOnlyAfterCut  BY DEF ForwardInv
<1> QED BY <1>1, ForwardInductive, PTL

\* restricted_forwarding_algo takes the road nearest to the destination and
\* on it a neighbour that none before it beats, and none at all unless it is
\* within RESTRICTED_RANGE, in every state and for every list.
THEOREM NextHopStaysBest == ForwardSpec => []NextHopBestSoFar
<1>1. ForwardInv => NextHopBestSoFar
  BY NextHopIsBest DEF ForwardInv, ForwardTyped, ListsTyped
<1> QED BY <1>1, ForwardInductive, PTL
=============================================================================
