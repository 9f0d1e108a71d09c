-------------------------------- MODULE CpcNs --------------------------------
(***************************************************************************)
(* The ns-2 form of CPC with the MSVR agent on top: CpcAgent::recv and     *)
(* processPacket (cpc/ns/cpc_agent.cc), the packet queue every simulated   *)
(* node shares (cpc/ns/cpc_queue_ns.cc), the callback that answers a       *)
(* routing request (msvr/msvr_agent.cc) and ns-2's pool of packet buffers  *)
(* (common/packet.h).                                                      *)
(*                                                                         *)
(* One action is one simulator event: recv runs to its end, the queue      *)
(* insertion, the synchronous request_routing_cb and the sending or the    *)
(* dropping included.  A packet is a buffer of the pool; the queue and the *)
(* lower layers hold pointers to buffers, so that a pointer may outlive    *)
(* the buffer's use.  Positions, the neighbour list and the map decide     *)
(* which next hop is taken and how long the path is; vehicles move         *)
(* between two events, so both are free choices here.  Pointers have four  *)
(* bytes, and what is sent of a header holds two bytes for each            *)
(* intersection: the pointer to a path of one arrives by half.             *)
(***************************************************************************)
EXTENDS Naturals, Sequences

CONSTANTS
    Nodes,      \* simulated nodes, each with one MsvrAgent
    Zero,       \* the node whose address is 0, which a cleared header names
    Ids,        \* the packets the applications send
    Src, Dst,   \* their source and destination nodes
    Bufs,       \* the Packet objects of the pool (bound)
    MaxPath,    \* intersections of the longest path getPaths returns
    MaxInfos,   \* neighbour information packets sent (bound)
    None        \* no payload

ASSUME NodesAssumption == Zero \in Nodes /\ None \notin Ids
ASSUME TrafficAssumption ==
    /\ Src \in [Ids -> Nodes] /\ Dst \in [Ids -> Nodes]
    /\ \A i \in Ids : Src[i] # Dst[i]
ASSUME BoundsAssumption == MaxPath \in Nat /\ MaxPath >= 2 /\ MaxInfos \in Nat

VARIABLES
    buf,        \* the content of every buffer
    q,          \* struct cpc_queue_ns, the one queue of the whole simulation: it is
                \* searched by destination only, so what is queued for each of them
    air,        \* <<buffer, receiver>>: the pointers the lower layers hold
    given,      \* packets the applications have sent (history)
    infos,      \* information packets sent so far (bound)
    delivered,  \* <<payload, node>> handed to a port-dmux (history)
    dropped,    \* destinations dropPacket(dst) was called for (history)
    drops,      \* such calls since the destination's entries were last removed (history)
    gotRouting, \* recv_routing has run (history)
    status      \* "run", or "fault" once the process has crashed

vars == <<buf, q, air, given, infos, delivered, dropped, drops, gotRouting, status>>

Payload == Ids \cup {None}
\* fflag: in use; ptype: the type in the common header; type: the first byte of
\* the MSVR header; plen: intersections of the path it points to, 0 for NULL.
Header == [fflag : BOOLEAN, ptype : {"data", "msvr"}, type : {"none", "info", "routing"},
           id : Payload, src : Nodes, dst : Nodes, plen : 0 .. MaxPath]

\* Packet::init clears every header: type PT_TCP, addresses 0, no path, and the
\* packet's data has been deleted.
Cleared(flag) == [fflag |-> flag, ptype |-> "data", type |-> "none", id |-> None,
                  src |-> Zero, dst |-> Zero, plen |-> 0]

\* Packet::alloc takes a buffer of the free list.  Every layer of the simulator
\* takes and returns buffers, so which one is a free choice.
FreeBufs(bs) == {b \in Bufs : ~bs[b].fflag}

\* Packet::free: nothing for a buffer that is not in use.
Freed(bs, b) == IF bs[b].fflag THEN [bs EXCEPT ![b] = Cleared(FALSE)] ELSE bs

Init ==
    /\ buf = [b \in Bufs |-> Cleared(FALSE)]
    /\ q = [d \in Nodes |-> << >>] /\ air = {} /\ given = {} /\ infos = 0 /\ delivered = {}
    /\ dropped = {} /\ drops = [d \in Nodes |-> 0]
    /\ gotRouting = FALSE /\ status = "run"

-----------------------------------------------------------------------------
(* cpc_queue_ns.cc *)

cpc_queue_ns_add(qq, b, d) == [qq EXCEPT ![d] = Append(@, b)]

\* Mutant: the search for the entries to remove stops at the first.
cpc_queue_ns_remove_First(qq, d) == [qq EXCEPT ![d] = Tail(@)]

\* Every entry for the destination is taken out, whatever packet it holds.
cpc_queue_ns_remove(qq, d) == [qq EXCEPT ![d] = << >>]

\* The packet of the first entry for the destination.
cpc_queue_ns_get(qq, d) == Head(qq[d])

\* A buffer the scheduler holds as an event has a positive uid: Packet::free
\* stops the program on it.  A buffer waiting in an interface queue is freed.
MayStop(bs, held, b) ==
    status' \in IF bs[b].fflag /\ \E n \in Nodes : <<b, n>> \in held
                THEN {"run", "fault"} ELSE {"run"}

-----------------------------------------------------------------------------
(* CpcAgent::dropPacket, CpcAgent::sendProtPacketWithData *)

\* The first packet queued for the destination is dropped.  Its entry stays in
\* the queue.
dropPacket(bs, qq, held, d) ==
    LET p == cpc_queue_ns_get(qq, d)
    IN  /\ buf' = Freed(bs, p)
        /\ q' = qq
        /\ air' = held
        /\ MayStop(bs, held, p)
        /\ dropped' = dropped \cup {d}
        /\ drops' = [drops EXCEPT ![d] = @ + 1]

\* Mutant: the entry of the packet just sent is left in the queue.
sendProtPacketWithData_NoRemove(bs, qq, held, s, d, next, plen) ==
    LET opkt == cpc_queue_ns_get(qq, d)
    IN  /\ \E npkt \in FreeBufs(bs) :
              LET from == IF npkt = opkt THEN Cleared(TRUE) ELSE bs[opkt]
                  copy == [from EXCEPT !.fflag = TRUE, !.src = s, !.dst = d,
                                       !.type = "routing", !.plen = plen]
              IN  /\ buf' = Freed([bs EXCEPT ![npkt] = copy], opkt)
                  /\ air' = held \cup {<<npkt, next>>}
        /\ MayStop(bs, held, opkt)
        /\ q' = qq
        /\ drops' = [drops EXCEPT ![d] = 0]
        /\ UNCHANGED dropped

\* Mutant: the original is not freed.
sendProtPacketWithData_KeepOriginal(bs, qq, held, s, d, next, plen) ==
    LET opkt == cpc_queue_ns_get(qq, d)
    IN  /\ \E npkt \in FreeBufs(bs) :
              LET from == IF npkt = opkt THEN Cleared(TRUE) ELSE bs[opkt]
                  copy == [from EXCEPT !.fflag = TRUE, !.src = s, !.dst = d,
                                       !.type = "routing", !.plen = plen]
              IN  /\ buf' = [bs EXCEPT ![npkt] = copy]
                  /\ air' = held \cup {<<npkt, next>>}
        /\ MayStop(bs, held, opkt)
        /\ q' = cpc_queue_ns_remove(qq, d)
        /\ drops' = [drops EXCEPT ![d] = 0]
        /\ UNCHANGED dropped

\* The first packet queued for the destination is copied, the copy gets the
\* addresses and the routing header, the original is freed, every entry for
\* the destination leaves the queue, and the copy is sent.  When the entry is
\* stale the pool may hand out the very buffer it points to.
sendProtPacketWithData(bs, qq, held, s, d, next, plen) ==
    LET opkt == cpc_queue_ns_get(qq, d)
    IN  /\ \E npkt \in FreeBufs(bs) :
              LET from == IF npkt = opkt THEN Cleared(TRUE) ELSE bs[opkt]
                  copy == [from EXCEPT !.fflag = TRUE, !.src = s, !.dst = d,
                                       !.type = "routing", !.plen = plen]
              IN  /\ buf' = Freed([bs EXCEPT ![npkt] = copy], opkt)
                  /\ air' = held \cup {<<npkt, next>>}
        /\ MayStop(bs, held, opkt)
        /\ q' = cpc_queue_ns_remove(qq, d)
        /\ drops' = [drops EXCEPT ![d] = 0]
        /\ UNCHANGED dropped

-----------------------------------------------------------------------------
(* msvr_agent.cc: request_routing_cb *)

\* "remove passed path": the road just travelled is taken off when the next hop
\* is on another road, which depends on where the vehicles are.
Shortened(plen) == {plen, plen - 1}

\* What a relay reads through the pointer in the header: the path of which it is
\* the pointer, or, where half of it is an older one's, whatever lies there.
PathRead(plen) == IF plen = 1 THEN 1 .. MaxPath ELSE {plen}

\* The neighbour list names the destination (a path is computed afresh, the
\* destination is the next hop), or the source computes the path, or a relay
\* reads it from the packet: one intersection is no road to follow, and the
\* pointer may lead nowhere, being NULL in a header no agent has written.
\* Without a neighbour on the way the packet is addressed to the destination
\* itself.
request_routing_cb(n, bs, qq, held, b) ==
    LET h == bs[b]
        SendAlong(next, plen) ==
            \E left \in Shortened(plen) :
                sendProtPacketWithData(bs, qq, held, h.src, h.dst, next, left)
    IN  \/ \E plen \in 2 .. MaxPath : SendAlong(h.dst, plen)
        \/ /\ h.src = n
           /\ \E next \in Nodes \ {n}, plen \in 2 .. MaxPath : SendAlong(next, plen)
        \/ /\ h.src # n
           /\ \E next \in Nodes \ {n}, plen \in PathRead(h.plen) \ {0, 1} : SendAlong(next, plen)
        \/ /\ h.src # n /\ 1 \in PathRead(h.plen)
           /\ dropPacket(bs, qq, held, h.dst)
        \/ /\ h.src # n /\ h.plen < 2
           /\ status' = "fault"
           /\ buf' = bs /\ q' = qq /\ air' = held
           /\ UNCHANGED <<dropped, drops>>

-----------------------------------------------------------------------------
(* CpcAgent::processPacket and CpcAgent::recv *)

\* The packet is for this node: the port-dmux takes it and frees it.  Otherwise
\* cpc_rt_find has no route, for MSVR never enters one, and the packet is queued
\* and the protocol asked at once.
processPacket(n, bs, held, b) ==
    IF bs[b].dst = n
    THEN /\ delivered' = delivered \cup {<<bs[b].id, n>>}
         /\ buf' = Freed(bs, b) /\ air' = held
         /\ UNCHANGED <<q, dropped, drops, status>>
    ELSE /\ request_routing_cb(n, bs, cpc_queue_ns_add(q, b, bs[b].dst), held, b)
         /\ UNCHANGED delivered

\* recv of a packet the application of node Src[i] hands down.
Inject(i) ==
    /\ status = "run" /\ i \notin given
    /\ \E b \in FreeBufs(buf) :
          processPacket(Src[i],
                        [buf EXCEPT ![b] = [Cleared(TRUE) EXCEPT
                            !.id = i, !.src = Src[i], !.dst = Dst[i]]],
                        air, b)
    /\ given' = given \cup {i}
    /\ UNCHANGED <<infos, gotRouting>>

\* An information packet refreshes the neighbour list, which is not kept here;
\* a routing packet is not expected.
routing_proto_cb(b) == gotRouting' = (gotRouting \/ buf[b].type = "routing")

\* recv of a packet the lower layers bring to node n.  The MAC layer has counted
\* num_forwards up, so a packet that comes back to its source is dropped.  One of
\* the protocol's own type goes to routing_proto_cb and is freed.
Arrive(b, n) ==
    /\ status = "run" /\ <<b, n>> \in air
    /\ LET held == air \ {<<b, n>>}
           done == /\ buf' = Freed(buf, b) /\ air' = held
                   /\ UNCHANGED <<q, delivered, dropped, drops, status>>
       IN  \/ buf[b].src = n /\ done /\ UNCHANGED gotRouting
           \/ buf[b].src # n /\ buf[b].ptype = "msvr" /\ done /\ routing_proto_cb(b)
           \/ /\ buf[b].src # n /\ buf[b].ptype # "msvr"
              /\ processPacket(n, buf, held, b) /\ UNCHANGED gotRouting
    /\ UNCHANGED <<given, infos>>

\* External: the lower layers lose the packet and free it.
Lose(b, n) ==
    /\ status = "run" /\ <<b, n>> \in air
    /\ air' = air \ {<<b, n>>}
    /\ buf' = Freed(buf, b)
    /\ UNCHANGED <<q, given, infos, delivered, dropped, drops, gotRouting, status>>

\* CpcAgent::sendProtPacket with the header sendInfo fills in.  Nobody reads the
\* destination of such a packet, the broadcast address.
sendProtPacket(n) == [Cleared(TRUE) EXCEPT !.ptype = "msvr", !.type = "info", !.src = n]

\* MsvrNeighTimer::expire on node n: an information packet in a fresh buffer is
\* broadcast.  The channel gives every receiver a copy of its own, so one of
\* them stands for all.
SendInfo(n) ==
    /\ status = "run" /\ infos < MaxInfos
    /\ infos' = infos + 1
    /\ \E b \in FreeBufs(buf), m \in Nodes \ {n} :
          /\ buf' = [buf EXCEPT ![b] = sendProtPacket(n)]
          /\ air' = air \cup {<<b, m>>}
    /\ UNCHANGED <<q, given, delivered, dropped, drops, gotRouting, status>>

Next ==
    \/ \E i \in Ids : Inject(i)
    \/ \E b \in Bufs, n \in Nodes : Arrive(b, n) \/ Lose(b, n)
    \/ \E n \in Nodes : SendInfo(n)

Spec == Init /\ [][Next]_vars

-----------------------------------------------------------------------------
(* Properties *)

\* Types of the simulation's queue, its buffers and what the lower layers hold.
TypeOK ==
    /\ buf \in [Bufs -> Header]
    /\ q \in [Nodes -> Seq(Bufs)]
    /\ air \subseteq Bufs \X Nodes
    /\ given \subseteq Ids /\ infos \in 0 .. MaxInfos
    /\ delivered \subseteq Payload \X Nodes
    /\ dropped \subseteq Nodes /\ drops \in [Nodes -> Nat]
    /\ gotRouting \in BOOLEAN /\ status \in {"run", "fault"}

\* Between two events the shared queue holds nothing but what dropPacket(dst)
\* left behind: for every destination as many entries as packets were dropped
\* since a packet for it was last sent.  The handler that queues a packet takes
\* it out again before it returns, whichever node it runs on.
QueueHoldsLeftovers == status = "run" => \A d \in Nodes : Len(q[d]) = drops[d]

\* The shared queue holds what dropPacket left in it, in states of the right
\* types.
QueueIsSound == TypeOK /\ QueueHoldsLeftovers

\* The pointers the lower layers hold and the buffers in use correspond.
OneHolderEach ==
    \A b \in Bufs :
        /\ buf[b].fflag <=> \E n \in Nodes : <<b, n>> \in air
        /\ \A m, n \in Nodes : <<b, m>> \in air /\ <<b, n>> \in air => m = n

\* A payload is in one buffer only, and in none once it was delivered.
OneBufferEach ==
    \A i \in Ids :
        /\ \A b, c \in Bufs : buf[b].id = i /\ buf[c].id = i => b = c
        /\ <<i, Dst[i]>> \in delivered => \A b \in Bufs : buf[b].id # i

\* Until some packet has been dropped by its destination, the pool is sound:
\* nothing is queued, every pointer the lower layers hold is to a buffer in use
\* and no buffer is held twice, every buffer in use is held, a payload is in one
\* buffer only, and a payload that was delivered is in none.
CustodyUntilDrop ==
    dropped = {} /\ status = "run" =>
        (\A d \in Nodes : q[d] = << >>) /\ OneHolderEach /\ OneBufferEach

\* The lower layers hold a pointer to the buffer.
InAir(b) == \E n \in Nodes : <<b, n>> \in air

\* A buffer that nobody holds any more, neither the lower layers nor the queue,
\* is lost to the pool.  That happens only to packets for a destination for
\* which a packet was dropped before.
LeakOnlyWhereDropped ==
    status = "run" =>
        \A b \in Bufs :
            /\ buf[b].fflag /\ ~InAir(b)
            /\ \A d \in Nodes : \A k \in DOMAIN q[d] : q[d][k] # b
            => buf[b].dst \in dropped

\* The payload is meant for the node, or a packet for the node was dropped
\* before; node 0 is also named by every cleared header.
Excused(id, n) ==
    \/ id # None /\ Dst[id] = n
    \/ n \in dropped
    \/ n = Zero /\ dropped # {}

\* A node is handed a payload that was meant for another node, or a packet
\* without payload, only when a packet for it, or for node 0 any packet, was
\* dropped before.
StrayOnlyWhereDropped == \A pn \in delivered : Excused(pn[1], pn[2])

\* recv_routing, which says "never reach here", is reached only through a buffer
\* that is freed by dropPacket, still queued, and in use again for an
\* information packet.
RoutingOnlyAfterDrop == gotRouting => dropped # {}

\* What follows from dropPacket leaving a freed packet in the queue (lost
\* buffers, stray payloads, packets sent as routing packets) stays with the
\* destinations for which a packet was dropped.
HarmOnlyWhereDropped ==
    /\ LeakOnlyWhereDropped
    /\ StrayOnlyWhereDropped
    /\ RoutingOnlyAfterDrop

-----------------------------------------------------------------------------
(* The inductive invariant behind these properties *)

\* Leftovers are there for destinations with drops only.
DropsAreKnown == \A d \in Nodes : drops[d] > 0 => d \in dropped

\* A buffer that is not in use has been cleared.
FreeIsCleared == \A b \in Bufs : ~buf[b].fflag => buf[b] = Cleared(FALSE)

\* Payloads are those the applications have sent.
PayloadsAreGiven ==
    /\ \A b \in Bufs : buf[b].id \in given \cup {None}
    /\ \A pn \in delivered : pn[1] \in given \cup {None}

\* A buffer in use that the lower layers do not hold was queued for a
\* destination with drops, and may still be queued.
UnheldWhereDropped ==
    status = "run" => \A b \in Bufs : buf[b].fflag /\ ~InAir(b) => buf[b].dst \in dropped

\* Payloads travel to their destinations, and only information packets have the
\* protocol's own type, but for what was made of a leftover.
HeadersAreExcused ==
    \A b \in Bufs :
        /\ buf[b].fflag /\ buf[b].ptype = "data" => Excused(buf[b].id, buf[b].dst)
        /\ buf[b].ptype = "msvr" /\ buf[b].type = "routing" => dropped # {}

NsInv ==
    /\ TypeOK /\ QueueHoldsLeftovers /\ DropsAreKnown /\ FreeIsCleared
    /\ PayloadsAreGiven /\ CustodyUntilDrop /\ UnheldWhereDropped
    /\ HeadersAreExcused /\ StrayOnlyWhereDropped /\ RoutingOnlyAfterDrop

=============================================================================
