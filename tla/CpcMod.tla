-------------------------------- MODULE CpcMod -------------------------------
(***************************************************************************)
(* The CPC kernel module (ns2/cpc/linux_kernel) and the library a routing  *)
(* protocol uses in user space to talk to it (ns2/cpc/linux).              *)
(*                                                                         *)
(* cpc_hook sends a locally generated packet on when the module has a      *)
(* route.  Otherwise it looks whether packets for the same destination     *)
(* wait already, asks the protocol for a route if there are none, and only *)
(* then puts the packet in the queue: three steps, each under a lock of    *)
(* its own.  The protocol answers by adding a route or by letting the      *)
(* queued packets go; the answer is handled in its sendmsg call, one       *)
(* packet per hold of the queue lock.                                      *)
(*                                                                         *)
(* The route table is a set of destinations here: routes are added and     *)
(* deleted by the protocol and expire at any time (see CpcRt).  Messages   *)
(* are assumed to reach cpc_netlink_rcv_skb.  cpc_rt_update is never       *)
(* called, since cpc_rt_get returns 0 or 1 and never a negative value.     *)
(***************************************************************************)
EXTENDS Naturals, Sequences, SequencesExt

CONSTANTS
  Packets,      \* the socket buffers that cross the hooks
  Dst,          \* the destination of each
  Inbound,      \* those that meet NF_INET_PRE_ROUTING; the rest are LOCAL_OUT
  Addrs,        \* IPv4 addresses
  Pids,         \* netlink port ids (process ids) the protocol can get
  QueueMaxLen,  \* queue_maxlen
  SockBuf,      \* requests that fit in the protocol's netlink socket buffer
  Faults        \* the kinds of failure that may happen

FaultKinds == {"kmalloc", "nlskb", "sendmsg", "copy", "register"}

ASSUME CpcAssumption ==
  /\ Dst \in [Packets -> Addrs]
  /\ Inbound \subseteq Packets
  /\ QueueMaxLen \in Nat /\ SockBuf \in Nat
  /\ 0 \notin Pids
  /\ Faults \subseteq FaultKinds

VARIABLES
  phase,        \* how far cpc_linux_init or cpc_linux_exit has come
  stuck,        \* a CPU spins on ifilock, which it holds itself
  loc,          \* where each packet is
  leaked,       \* packets with a buffer that belongs to nobody
  hookpc,       \* what the hook of a packet has still to do
  queue,        \* queue_list, oldest entry first
  queue_total,  \* the counter kept next to it
  routes,       \* destinations in the route table
  nlsock,       \* requests waiting in the protocol's netlink socket
  prot,         \* the port id of the running protocol, 0 if there is none
  peer_pid,     \* the port id the module has latched, 0 if none
  msg,          \* the message being handled, NoMsg if none
  unheard,      \* history: destinations with a request that got no answer
  overtaken     \* history: destinations whose answer a hook was too late for

lifeVars  == <<phase, stuck>>
queueVars == <<loc, leaked, queue, queue_total>>
nlVars    == <<nlsock, prot, peer_pid, msg>>
histVars  == <<unheard, overtaken>>
vars      == <<lifeVars, queueVars, hookpc, routes, nlVars, histVars>>

Phases == {"absent", "netlink", "hook0", "hook2", "adding", "up", "purging",
           "purged", "unhook0", "unhooked", "flushed", "unrouted"}

Locs == {"stack", "passed", "hooked", "queued", "held", "sent", "freed"}

\* The messages linux/nl.c sends; CPC_NOROUTE_FOUND has no sender.
Types == {"CPC_ROUTE_ADD", "CPC_ROUTE_DEL", "CPC_SEND_QUEUE", "CPC_DROP_QUEUE",
          "CPC_SEND_WITH_DATA"}

NoMsg == [type |-> "IDLE"]
Messages == [type : Types, dst : Addrs]
Idle == msg = NoMsg

May(kind) == kind \in Faults

------------------------------------------------------------------------------
(***************************************************************************)
(* cpc_hook.                                                               *)
(***************************************************************************)

Registered(p) == IF p \in Inbound
                   THEN phase \in {"hook0", "hook2", "adding", "up", "purging", "purged"}
                   ELSE phase \in {"hook2", "adding", "up", "purging", "purged", "unhook0"}

\* if_info_from_ifindex finds the interface.
IfKnown == phase \in {"up", "purging"}

HookCalled(p) == loc[p] = "stack" /\ Registered(p)

\* if_info_add and if_info_purge hold ifilock for writing with softirqs
\* enabled; a packet that is handled in a softirq on the same CPU, whether it
\* comes in or is the answer of a protocol handler, waits for it for ever.
HookSpins(p) ==
  /\ HookCalled(p)
  /\ phase \in {"adding", "purging"}
  /\ stuck' = TRUE
  /\ UNCHANGED <<phase, queueVars, hookpc, routes, nlVars, histVars>>

\* Inbound packets are always accepted, others when the interface is unknown.
HookPass(p) ==
  /\ HookCalled(p)
  /\ p \in Inbound \/ ~IfKnown
  /\ loc' = [loc EXCEPT ![p] = "passed"]
  /\ UNCHANGED <<lifeVars, leaked, queue, queue_total, hookpc, routes, nlVars, histVars>>

\* cpc_rt_get: with a route the packet is accepted.
HookLookup(p) ==
  /\ HookCalled(p) /\ p \notin Inbound /\ IfKnown
  /\ IF Dst[p] \in routes
       THEN loc' = [loc EXCEPT ![p] = "passed"] /\ UNCHANGED hookpc
       ELSE /\ loc' = [loc EXCEPT ![p] = "hooked"]
            /\ hookpc' = [hookpc EXCEPT ![p] = "find"]
  /\ UNCHANGED <<lifeVars, leaked, queue, queue_total, routes, nlVars, histVars>>

Matches(d) == {i \in DOMAIN queue : Dst[queue[i]] = d}

\* Mutant: another hook's packet is taken for a request that is under way.
HookFind_AnyPacket(p) ==
  /\ hookpc[p] = "find"
  /\ hookpc' = [hookpc EXCEPT ![p] = IF queue = <<>> THEN "request" ELSE "enqueue"]
  /\ UNCHANGED <<lifeVars, queueVars, routes, nlVars, histVars>>

\* cpc_queue_find: packets that wait already have asked for the route.
HookFind(p) ==
  /\ hookpc[p] = "find"
  /\ hookpc' = [hookpc EXCEPT ![p] = IF Matches(Dst[p]) = {} THEN "request"
                                                           ELSE "enqueue"]
  /\ UNCHANGED <<lifeVars, queueVars, routes, nlVars, histVars>>

\* cpc_netlink_send_rt_msg: the broadcast is lost when memory is short,
\* nobody listens or the listener's buffer is full.
RequestLost == May("nlskb") \/ prot = 0 \/ Len(nlsock) >= SockBuf

HookRequest(p) ==
  /\ hookpc[p] = "request"
  /\ hookpc' = [hookpc EXCEPT ![p] = "enqueue"]
  /\ \/ /\ prot # 0 /\ Len(nlsock) < SockBuf
        /\ nlsock' = Append(nlsock, Dst[p])
        /\ UNCHANGED unheard
     \/ /\ RequestLost
        /\ unheard' = unheard \cup {Dst[p]}
        /\ UNCHANGED nlsock
  /\ UNCHANGED <<lifeVars, queueVars, routes, prot, peer_pid, msg, overtaken>>

\* Mutant: the bound is tested with > instead of >=.
EnqueueEntry_OffByOne(p) ==
  /\ queue_total <= QueueMaxLen
  /\ loc' = [loc EXCEPT ![p] = "queued"]
  /\ queue' = Append(queue, p)
  /\ queue_total' = queue_total + 1
  /\ UNCHANGED leaked

\* __cpc_queue_enqueue_entry with room in the queue.
EnqueueEntry(p) ==
  /\ queue_total < QueueMaxLen
  /\ loc' = [loc EXCEPT ![p] = "queued"]
  /\ queue' = Append(queue, p)
  /\ queue_total' = queue_total + 1
  /\ UNCHANGED leaked

\* The hook ignores that the queue is full or that memory is short, and
\* steals the packet all the same.
EnqueueRefused(p) ==
  /\ queue_total >= QueueMaxLen \/ May("kmalloc")
  /\ leaked' = leaked \cup {p}
  /\ UNCHANGED <<loc, queue, queue_total>>

HookEnqueue(p) ==
  /\ hookpc[p] = "enqueue"
  /\ hookpc' = [hookpc EXCEPT ![p] = "idle"]
  /\ EnqueueEntry(p) \/ EnqueueRefused(p)
  /\ UNCHANGED <<lifeVars, routes, nlVars, histVars>>

------------------------------------------------------------------------------
(***************************************************************************)
(* The protocol: nl_cpc_callback, the library calls and their messages.    *)
(***************************************************************************)

\* What route_req_callback may do about a request for d.
Answers(d) == [type : Types \ {"CPC_ROUTE_DEL"}, dst : {d}]

PeerAccepts == peer_pid = 0 \/ peer_pid = prot

\* nl_send: the message is handled in sendmsg, or it is refused (the first
\* sender is latched) or fails and is not repeated.
Deliver(m) ==
  \/ /\ PeerAccepts
     /\ peer_pid' = prot
     /\ msg' = m
     /\ UNCHANGED unheard
  \/ /\ ~PeerAccepts \/ May("sendmsg")
     /\ unheard' = unheard \cup {m.dst}
     /\ UNCHANGED <<peer_pid, msg>>

ProtAnswer ==
  /\ prot # 0 /\ Idle /\ nlsock # <<>>
  /\ nlsock' = Tail(nlsock)
  /\ \E m \in Answers(Head(nlsock)) : Deliver(m)
  /\ UNCHANGED <<lifeVars, queueVars, hookpc, routes, prot, overtaken>>

\* cpc_rt_remove, when the protocol finds out that a route is broken.
ProtRemove(d) ==
  /\ prot # 0 /\ Idle /\ d \in routes
  /\ Deliver([type |-> "CPC_ROUTE_DEL", dst |-> d])
  /\ UNCHANGED <<lifeVars, queueVars, hookpc, routes, nlsock, prot, overtaken>>

ProtStart ==
  /\ phase = "up" /\ prot = 0
  /\ prot' \in Pids
  /\ UNCHANGED <<lifeVars, queueVars, hookpc, routes, nlsock, peer_pid, msg, histVars>>

\* cpc_nl_notifier is never registered, so nobody clears peer_pid, the route
\* table or the queue.
ProtExit ==
  /\ prot # 0 /\ Idle
  /\ prot' = 0 /\ nlsock' = <<>>
  /\ unheard' = unheard \cup {nlsock[i] : i \in DOMAIN nlsock}
  /\ UNCHANGED <<lifeVars, queueVars, hookpc, routes, peer_pid, msg, overtaken>>

------------------------------------------------------------------------------
(***************************************************************************)
(* cpc_netlink_receive_peer.                                               *)
(***************************************************************************)

NoneHeld == \A p \in Packets : loc[p] # "held"

\* The table is changed first; "armed" marks that this has been done.
TableDone == "armed" \in DOMAIN msg

MsgWithTable == [type |-> msg.type, dst |-> msg.dst, armed |-> TRUE]

\* cpc_rt_add or cpc_rt_del before the verdict; an addition may fail.
ChangeTable ==
  /\ ~Idle /\ ~TableDone
  /\ msg' = MsgWithTable
  /\ routes' \in CASE msg.type = "CPC_ROUTE_ADD" ->
                        {routes \cup {msg.dst}} \cup (IF May("kmalloc") THEN {routes} ELSE {})
                   [] msg.type = "CPC_ROUTE_DEL" -> {routes \ {msg.dst}}
                   [] OTHER -> {routes}
  /\ UNCHANGED <<lifeVars, queueVars, hookpc, nlsock, prot, peer_pid, histVars>>

\* __cpc_queue_find_entry: list_add and list_for_each_prev.
IsOldest(i, d) == i \in Matches(d) /\ \A j \in Matches(d) : i <= j

\* Mutant: the entry is found but not taken off the list.
Dequeue_FindOnly ==
  /\ ~Idle /\ TableDone /\ NoneHeld
  /\ \E i \in DOMAIN queue :
       /\ IsOldest(i, msg.dst)
       /\ loc' = [loc EXCEPT ![queue[i]] = "held"]
  /\ UNCHANGED <<lifeVars, queue, queue_total, leaked, hookpc, routes, nlVars, histVars>>

\* One round of the loop takes one entry out, under the queue lock.
Dequeue ==
  /\ ~Idle /\ TableDone /\ NoneHeld
  /\ \E i \in DOMAIN queue :
       /\ IsOldest(i, msg.dst)
       /\ loc' = [loc EXCEPT ![queue[i]] = "held"]
       /\ queue' = RemoveAt(queue, i)
  /\ queue_total' = queue_total - 1
  /\ UNCHANGED <<lifeVars, leaked, hookpc, routes, nlVars, histVars>>

\* cpc_queue_set_verdict: the route is looked up again for every packet, and
\* a packet without one is freed.
Verdict(p) ==
  /\ loc[p] = "held" /\ msg.type # "CPC_SEND_WITH_DATA"
  /\ loc' = [loc EXCEPT ![p] =
               IF msg.type \in {"CPC_ROUTE_ADD", "CPC_SEND_QUEUE"} /\ Dst[p] \in routes
                 THEN "sent" ELSE "freed"]
  /\ UNCHANGED <<lifeVars, leaked, queue, queue_total, hookpc, routes, nlVars, histVars>>

\* cpc_queue_send_with_data: a copy is sent, the original is not freed.
SendCopy(p) ==
  /\ loc[p] = "held" /\ msg.type = "CPC_SEND_WITH_DATA"
  /\ loc' = [loc EXCEPT ![p] = "sent"]
  /\ leaked' = leaked \cup {p}
  /\ UNCHANGED <<lifeVars, queue, queue_total, hookpc, routes, nlVars, histVars>>

\* Without memory for the copy it returns at once: the entry in hand is lost
\* and the rest stays in the queue.
CopyFails(p) ==
  /\ May("copy")
  /\ loc[p] = "held" /\ msg.type = "CPC_SEND_WITH_DATA"
  /\ loc' = [loc EXCEPT ![p] = "hooked"]
  /\ leaked' = leaked \cup {p}
  /\ msg' = NoMsg
  /\ unheard' = unheard \cup {msg.dst}
  /\ UNCHANGED <<lifeVars, queue, queue_total, hookpc, routes, nlsock, prot, peer_pid, overtaken>>

\* A hook for d that relies on a request which has been answered by now.
TooLate(d) == \E p \in Packets : hookpc[p] = "enqueue" /\ Dst[p] = d

\* Mutant: an answer disposes of one packet at most.
LoopEnd_AfterFirst ==
  /\ ~Idle /\ TableDone /\ NoneHeld
  /\ msg' = NoMsg
  /\ unheard' = unheard \ {msg.dst}
  /\ overtaken' = IF TooLate(msg.dst) THEN overtaken \cup {msg.dst}
                                      ELSE overtaken \ {msg.dst}
  /\ UNCHANGED <<lifeVars, queueVars, hookpc, routes, nlsock, prot, peer_pid>>

LoopEnd ==
  /\ ~Idle /\ TableDone /\ NoneHeld /\ Matches(msg.dst) = {}
  /\ msg' = NoMsg
  /\ unheard' = unheard \ {msg.dst}
  /\ overtaken' = IF TooLate(msg.dst) THEN overtaken \cup {msg.dst}
                                      ELSE overtaken \ {msg.dst}
  /\ UNCHANGED <<lifeVars, queueVars, hookpc, routes, nlsock, prot, peer_pid>>

\* cpc_rt_timeout removes a route; queued packets are not told.
RtExpire(d) ==
  /\ d \in routes
  /\ routes' = routes \ {d}
  /\ UNCHANGED <<lifeVars, queueVars, hookpc, nlVars, histVars>>

------------------------------------------------------------------------------
(***************************************************************************)
(* cpc_linux_init and cpc_linux_exit.  The protocol's netlink socket pins  *)
(* the module; nf_unregister_hook waits for hooks that are running.        *)
(***************************************************************************)

Quiet(S) == \A p \in S : hookpc[p] = "idle"

\* cpc_rt_init, cpc_queue_init, cpc_netlink_init; statics start out fresh.
Load ==
  /\ phase = "absent"
  /\ phase' = "netlink"
  /\ queue' = <<>> /\ queue_total' = 0 /\ peer_pid' = 0 /\ routes' = {}
  /\ UNCHANGED <<stuck, loc, leaked, hookpc, nlsock, prot, msg, histVars>>

Advance(from, to) ==
  /\ phase = from
  /\ phase' = to
  /\ UNCHANGED <<stuck, queueVars, hookpc, routes, nlVars, histVars>>

Unhook(S, from, to) == Quiet(S) /\ Advance(from, to)

\* cpc_queue_flush.
Flush ==
  /\ loc' = [p \in Packets |-> IF loc[p] = "queued" THEN "freed" ELSE loc[p]]
  /\ queue' = <<>> /\ queue_total' = 0
  /\ UNCHANGED leaked

\* A registration fails and the labels of cpc_linux_init undo the others.
InitFails ==
  /\ May("register")
  /\ phase \in {"netlink", "hook0"} /\ Quiet(Inbound)
  /\ phase' = "absent"
  /\ Flush
  /\ UNCHANGED <<stuck, hookpc, routes, nlVars, histVars>>

\* rmmod begins with if_info_purge.
PurgeBegin == prot = 0 /\ Advance("up", "purging")

QueueFini ==
  /\ phase = "unhooked"
  /\ phase' = "flushed"
  /\ Flush
  /\ UNCHANGED <<stuck, hookpc, routes, nlVars, histVars>>

RtFini ==
  /\ phase = "flushed"
  /\ phase' = "unrouted"
  /\ routes' = {}
  /\ UNCHANGED <<stuck, queueVars, hookpc, nlVars, histVars>>

NetlinkFini ==
  /\ phase = "unrouted"
  /\ phase' = "absent"
  /\ unheard' = {} /\ overtaken' = {}
  /\ UNCHANGED <<stuck, queueVars, hookpc, routes, nlVars>>

------------------------------------------------------------------------------
Init ==
  /\ phase = "absent" /\ stuck = FALSE
  /\ loc = [p \in Packets |-> "stack"] /\ leaked = {}
  /\ hookpc = [p \in Packets |-> "idle"]
  /\ queue = <<>> /\ queue_total = 0 /\ routes = {}
  /\ nlsock = <<>> /\ prot = 0 /\ peer_pid = 0 /\ msg = NoMsg
  /\ unheard = {} /\ overtaken = {}

HookStep(p) == HookPass(p) \/ HookLookup(p)

HookRest(p) == HookFind(p) \/ HookRequest(p) \/ HookEnqueue(p)

HandlerStep ==
  \/ ChangeTable \/ Dequeue \/ LoopEnd
  \/ \E p \in Packets : Verdict(p) \/ SendCopy(p) \/ CopyFails(p)

LoadStep ==
  \/ Load \/ Advance("netlink", "hook0") \/ Advance("hook0", "hook2")
  \/ Advance("hook2", "adding") \/ Advance("adding", "up") \/ InitFails

UnloadStep ==
  \/ PurgeBegin \/ Advance("purging", "purged")
  \/ Unhook(Inbound, "purged", "unhook0")
  \/ Unhook(Packets \ Inbound, "unhook0", "unhooked")
  \/ QueueFini \/ RtFini \/ NetlinkFini

Halted == stuck /\ UNCHANGED vars

Next ==
  \/ /\ ~stuck
     /\ \/ \E p \in Packets : HookStep(p) \/ HookRest(p) \/ HookSpins(p)
        \/ ProtAnswer \/ ProtStart \/ ProtExit
        \/ \E d \in Addrs : ProtRemove(d) \/ RtExpire(d)
        \/ HandlerStep \/ LoadStep \/ UnloadStep
  \/ Halted

Spec == Init /\ [][Next]_vars

(***************************************************************************)
(* A hook that was entered and a message that is being handled run to      *)
(* their end; a protocol that is alive gets back to its event loop.        *)
(***************************************************************************)
Fairness == /\ \A p \in Packets : WF_vars(~stuck /\ HookRest(p))
            /\ WF_vars(~stuck /\ HandlerStep)
            /\ WF_vars(~stuck /\ ProtAnswer)

FairSpec == Spec /\ Fairness

------------------------------------------------------------------------------
(***************************************************************************)
(* Properties.                                                             *)
(***************************************************************************)

\* Every variable holds a value of its C type, as far as the model keeps it.
TypeOK ==
  /\ phase \in Phases /\ stuck \in BOOLEAN
  /\ loc \in [Packets -> Locs] /\ leaked \subseteq Packets
  /\ hookpc \in [Packets -> {"idle", "find", "request", "enqueue"}]
  /\ queue \in Seq(Packets) /\ queue_total \in Nat
  /\ routes \subseteq Addrs
  /\ nlsock \in Seq(Addrs)
  /\ prot \in Pids \cup {0} /\ peer_pid \in Pids \cup {0}
  /\ Idle \/ /\ msg.type \in Types /\ msg.dst \in Addrs
  /\ unheard \subseteq Addrs /\ overtaken \subseteq Addrs

\* The list and the packets agree, and the list stays within queue_maxlen,
\* although hooks, verdicts and flushes interleave (cpc_queue.c).
QueueIntegrity ==
  /\ \A p \in Packets : loc[p] = "queued" <=> \E i \in DOMAIN queue : queue[i] = p
  /\ \A i, j \in DOMAIN queue : queue[i] = queue[j] => i = j
  /\ queue_total = Len(queue) /\ queue_total <= QueueMaxLen

\* A waiting packet is woken by something: a request that is about to be made
\* or waits in the protocol's socket, or a message that is being handled.
WakerFor(d) ==
  \/ \E q \in Packets : hookpc[q] = "request" /\ Dst[q] = d
  \/ \E i \in DOMAIN nlsock : nlsock[i] = d
  \/ ~Idle /\ msg.dst = d

\* A packet waits without a waker only when a request or its answer was lost,
\* or when the answer overtook the hook between its request and its enqueue:
\* these two are all the ways in which cpc_hook strands packets.
WaitingIsExplained ==
  \A p \in Packets :
    loc[p] = "queued" => WakerFor(Dst[p]) \/ Dst[p] \in unheard \cup overtaken

\* No packet is in the queue or in a hook of a module that is not loaded.
UnloadedIsEmpty ==
  phase \in {"absent", "flushed", "unrouted"} =>
    /\ \A p \in Packets : loc[p] \notin {"queued", "held"} /\ hookpc[p] = "idle"
    /\ Idle

\* The queue of cpc_queue.c, its counter and the socket buffers agree, and
\* cpc_exit leaves nothing in it, in states of the right types.
QueueIsSound == TypeOK /\ QueueIntegrity /\ UnloadedIsEmpty

\* Packets change hands as PacketCustody says: what a hook took over is handed
\* on or freed at most once, through repeated verdicts, copies and flushes.
OwnerOf(l) == IF l \in {"hooked", "queued", "held"} THEN "module"
              ELSE IF l = "freed" THEN "discarded" ELSE l

Custody == INSTANCE PacketCustody WITH owner <- [p \in Packets |-> OwnerOf(loc[p])]

CustodySpec == Custody!Spec

\* After the first message the module obeys one port id until it is loaded
\* again, even when that process has ended (cpc_netlink.c, peer_pid).
PeerIsLatched ==
  [][peer_pid # 0 /\ phase # "absent" => peer_pid' = peer_pid]_vars

\* Every packet in the queue leaves it, unless its request or answer was lost
\* or the answer overtook a hook for its destination.
EveryWaiterLeaves ==
  \A p \in Packets :
    loc[p] = "queued" ~>
      (loc[p] # "queued" \/ Dst[p] \in unheard \cup overtaken \/ stuck)

=============================================================================
