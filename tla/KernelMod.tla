------------------------------ MODULE KernelMod ------------------------------
(***************************************************************************)
(* The GeoSVR kernel module (src/system/kernel_mod) and the netlink        *)
(* conversation it has with the routing daemon geosvrd.                    *)
(*                                                                         *)
(* geosvr_hook runs for every IPv4 packet at NF_INET_PRE_ROUTING and at    *)
(* NF_INET_LOCAL_OUT.  A packet that needs a route is put in queue_list    *)
(* and, with the queue lock released again, a request for its destination  *)
(* is broadcast on a netlink socket.  The daemon answers each request with *)
(* GEOSVR_RSP_SEND or GEOSVR_RSP_DROP.  The answer is handled in the       *)
(* daemon's sendmsg call: a loop takes the queue lock once per packet and  *)
(* disposes of every queued packet for that destination, so hooks on other *)
(* CPUs enqueue between two rounds of the loop.                            *)
(*                                                                         *)
(* A step is a stretch of code between two points where another context    *)
(* can intervene.  Which answer the daemon gives is left open here.        *)
(* Socket buffers are assumed private to the module (not shared, not       *)
(* cloned) when a hook sees them.                                          *)
(***************************************************************************)
EXTENDS Naturals, Sequences, SequencesExt

CONSTANTS
  Packets,      \* the socket buffers that cross the hooks
  Info,         \* what the hooks can tell about each of them, see PacketInfo
  Addrs,        \* IPv4 addresses
  LocalAddr,    \* the address of eth0
  Pids,         \* netlink port ids (process ids) geosvrd can get
  QueueMaxLen,  \* queue_maxlen, 1024 in the code
  SockBuf,      \* requests that fit in the daemon's netlink socket buffer
  BcastFilter,  \* TRUE when the module parameter bcast_addr_str is given
  Faults        \* the kinds of failure that may happen, see FaultKinds

PRE_ROUTING == "NF_INET_PRE_ROUTING"
LOCAL_OUT   == "NF_INET_LOCAL_OUT"

\* hook  : where the packet meets geosvr_hook
\* gpsd  : UDP or TCP with port 2947 at one end
\* dev   : it travels over the interface recorded in ifip
\* cast  : "uni", "all" (limited broadcast or multicast) or "subnet"
\* saddr : "filter" (bcast_addr), "self" (the interface's address), "other"
\* encap : it carries a geosvr_hdr
\* daddr : its IP destination
PacketInfo == [hook : {PRE_ROUTING, LOCAL_OUT}, gpsd : BOOLEAN, dev : BOOLEAN,
               cast : {"uni", "all", "subnet"},
               saddr : {"filter", "self", "other"},
               encap : BOOLEAN, daddr : Addrs]

FaultKinds == {"kmalloc", "nlskb", "sendmsg", "route", "register", "nodev",
               "clone"}

ASSUME ConstantsAssumption ==
  /\ Info \in [Packets -> PacketInfo]
  /\ LocalAddr \in Addrs
  /\ QueueMaxLen \in Nat /\ SockBuf \in Nat
  /\ 0 \notin Pids
  /\ BcastFilter \in BOOLEAN
  /\ Faults \subseteq FaultKinds

VARIABLES
  phase,        \* how far module_init or module_exit has come
  ifip,         \* the interface record: "null", "set", "freed"
  oops,         \* the kernel followed a pointer to nothing or to freed memory
  loc,          \* where each packet is
  hookpc,       \* "request" while a hook has still to call req_normal
  queue,        \* queue_list, oldest entry first
  queue_total,  \* the counter kept next to it
  nlsock,       \* requests waiting in the daemon's netlink socket
  daemon,       \* the port id of the running daemon, 0 if there is none
  peer_pid,     \* the port id the module has latched, 0 if none
  rsp,          \* the answer being handled, NoRsp if none
  stamp,        \* history: the order in which packets entered the queue
  clock,        \* history: the next stamp
  unheard       \* history: destinations with a request that got no answer

modVars   == <<phase, ifip, oops>>
hookVars  == <<hookpc>>
queueVars == <<loc, queue, queue_total, stamp, clock>>
nlVars    == <<nlsock, daemon, peer_pid, rsp, unheard>>
vars      == <<modVars, hookVars, queueVars, nlVars>>

Phases == {"absent", "queue", "netlink", "hook0", "hook1", "up",
           "purged", "unhook0", "unhooked", "flushed"}

Locs == {"stack", "passed", "rejected", "queued", "held", "sent", "freed",
         "orphan"}

Requests == [req : {"SEND", "FORWARD"}, dst : Addrs]

\* kind is the nlmsg type; routed is route_len # 0.
Responses == [kind : {"IDLE", "RSP_SEND", "RSP_DROP"}, req : {"SEND", "FORWARD"},
              dst : Addrs, routed : BOOLEAN]

NoRsp == [kind |-> "IDLE", req |-> "SEND", dst |-> LocalAddr, routed |-> FALSE]

Idle == rsp.kind = "IDLE"

Dst(p) == Info[p].daddr

------------------------------------------------------------------------------
(***************************************************************************)
(* geosvr_hook.                                                            *)
(***************************************************************************)

\* The hook is called for packets that meet it while it is registered.
Registered(h) == IF h = PRE_ROUTING
                   THEN phase \in {"hook0", "hook1", "up", "purged"}
                   ELSE phase \in {"hook1", "up", "purged", "unhook0"}

\* ifaddr and bcaddr stay 0 for a packet that is not on the interface of
\* ifip, so neither the subnet broadcast nor the own address is recognised.
IsBcast(p) == \/ Info[p].cast = "all"
              \/ Info[p].cast = "subnet" /\ Info[p].dev

BcastAllowed(p) == \/ ~BcastFilter
                   \/ Info[p].saddr = "filter"
                   \/ Info[p].saddr = "self" /\ Info[p].dev

ForMe(p) == Info[p].dev /\ Dst(p) = LocalAddr

Verdict(p) ==
  IF Info[p].gpsd THEN "NF_ACCEPT"
  ELSE IF IsBcast(p) THEN (IF BcastAllowed(p) THEN "NF_ACCEPT" ELSE "NF_DROP")
  ELSE IF Info[p].hook = PRE_ROUTING /\ (~Info[p].encap \/ ForMe(p))
    THEN "NF_ACCEPT"
    ELSE "NF_STOLEN"

\* The hook is entered for p.  All but gpsd traffic dereferences ifip.
HookCalled(p) == loc[p] = "stack" /\ Registered(Info[p].hook)
IfipReadable(p) == Info[p].gpsd \/ ifip # "null"

\* ifip is NULL, or it was freed and its slab page reused.
HookOops(p) ==
  /\ HookCalled(p)
  /\ ~Info[p].gpsd /\ ifip # "set"
  /\ oops' = TRUE
  /\ UNCHANGED <<phase, ifip, hookVars, queueVars, nlVars>>

\* A buffer that somebody else has a clone of, as every packet tap makes one,
\* is freed by geosvr_ip_has_encapsulated, which goes on with a copy while the
\* hook, and whoever it passes the packet to, goes on with the freed one.
FreedInHook(p) == /\ "clone" \in Faults
                  /\ Info[p].hook = PRE_ROUTING /\ ~Info[p].gpsd /\ ~IsBcast(p)

HookUsesFreed(p) ==
  /\ HookCalled(p) /\ IfipReadable(p) /\ FreedInHook(p)
  /\ oops' = TRUE
  /\ UNCHANGED <<phase, ifip, hookVars, queueVars, nlVars>>

\* geosvr_ip_decapsulate returns NULL when memory is short; the hook then
\* accepts the packet it was going to steal.
DecapsulateFails(p) == Info[p].hook = PRE_ROUTING /\ "kmalloc" \in Faults

HookPass(p) ==
  /\ HookCalled(p) /\ IfipReadable(p)
  /\ \/ Verdict(p) = "NF_ACCEPT"
     \/ Verdict(p) = "NF_STOLEN" /\ DecapsulateFails(p)
  /\ loc' = [loc EXCEPT ![p] = "passed"]
  /\ UNCHANGED <<modVars, hookVars, queue, queue_total, stamp, clock, nlVars>>

HookReject(p) ==
  /\ HookCalled(p) /\ IfipReadable(p)
  /\ Verdict(p) = "NF_DROP"
  /\ loc' = [loc EXCEPT ![p] = "rejected"]
  /\ UNCHANGED <<modVars, hookVars, queue, queue_total, stamp, clock, nlVars>>

\* Mutant: the bound is tested with > instead of >=.
EnqueueEntry_OffByOne(p) ==
  IF queue_total > QueueMaxLen
    THEN /\ loc' = [loc EXCEPT ![p] = "orphan"]
         /\ UNCHANGED <<queue, queue_total, stamp, clock>>
    ELSE /\ loc' = [loc EXCEPT ![p] = "queued"]
         /\ queue' = Append(queue, p)
         /\ queue_total' = queue_total + 1
         /\ stamp' = [stamp EXCEPT ![p] = clock]
         /\ clock' = clock + 1

\* geosvr_queue_enqueue_packet under the queue lock.  The hook ignores its
\* result: a packet that was refused belongs to nobody.
EnqueueEntry(p) ==
  IF queue_total >= QueueMaxLen
    THEN /\ loc' = [loc EXCEPT ![p] = "orphan"]
         /\ UNCHANGED <<queue, queue_total, stamp, clock>>
    ELSE /\ loc' = [loc EXCEPT ![p] = "queued"]
         /\ queue' = Append(queue, p)
         /\ queue_total' = queue_total + 1
         /\ stamp' = [stamp EXCEPT ![p] = clock]
         /\ clock' = clock + 1

EnqueueNoMemory(p) ==
  /\ "kmalloc" \in Faults
  /\ loc' = [loc EXCEPT ![p] = "orphan"]
  /\ UNCHANGED <<queue, queue_total, stamp, clock>>

HookEnqueue(p) ==
  /\ HookCalled(p) /\ IfipReadable(p)
  /\ Verdict(p) = "NF_STOLEN"
  /\ EnqueueEntry(p) \/ EnqueueNoMemory(p)
  /\ hookpc' = [hookpc EXCEPT ![p] = "request"]
  /\ UNCHANGED <<modVars, nlVars>>

\* A hook at LOCAL_OUT reads the addresses for its request from the packet,
\* which it has queued before.  By then an answer loop may have taken the
\* packet: encapsulation writes over the header or moves the packet to a new
\* buffer, and whoever sends or drops the packet frees it.
HeaderGone(p) == Info[p].hook = LOCAL_OUT /\ loc[p] \in {"held", "sent", "freed"}

\* The destination the hook reads.  The relay path has made a copy of its
\* header.
DstRead(p) == IF HeaderGone(p) THEN Addrs ELSE {Dst(p)}

RequestOf(p, d) == [req |-> IF Info[p].hook = LOCAL_OUT THEN "SEND" ELSE "FORWARD",
                    dst |-> d]

\* geosvr_netlink_req_normal: no retry when memory is short, nobody listens
\* or the listener's buffer is full.
RequestLost == \/ {"kmalloc", "nlskb"} \cap Faults # {}
               \/ daemon = 0
               \/ Len(nlsock) >= SockBuf

\* Mutant: no request when geosvr_queue_find already reports another packet
\* for the destination.
HookRequest_SkipsIfQueued(p) ==
  /\ hookpc[p] = "request"
  /\ hookpc' = [hookpc EXCEPT ![p] = "idle"]
  /\ IF \E i \in DOMAIN queue : queue[i] # p /\ Dst(queue[i]) = Dst(p)
       THEN UNCHANGED <<nlsock, unheard>>
       ELSE \E d \in DstRead(p) :
              \/ /\ daemon # 0 /\ Len(nlsock) < SockBuf
                 /\ nlsock' = Append(nlsock, RequestOf(p, d))
                 /\ UNCHANGED unheard
              \/ /\ RequestLost
                 /\ unheard' = unheard \cup {d}
                 /\ UNCHANGED nlsock
  /\ UNCHANGED <<modVars, queueVars, daemon, peer_pid, rsp>>

HookRequest(p) ==
  /\ hookpc[p] = "request"
  /\ hookpc' = [hookpc EXCEPT ![p] = "idle"]
  /\ \E d \in DstRead(p) :
       \/ /\ daemon # 0 /\ Len(nlsock) < SockBuf
          /\ nlsock' = Append(nlsock, RequestOf(p, d))
          /\ UNCHANGED unheard
       \/ /\ RequestLost
          /\ unheard' = unheard \cup {d}
          /\ UNCHANGED nlsock
  /\ UNCHANGED <<modVars, queueVars, daemon, peer_pid, rsp>>

\* The buffer the hook reads from is not only freed but gone.
HookReadsFreed(p) ==
  /\ hookpc[p] = "request" /\ HeaderGone(p)
  /\ oops' = TRUE
  /\ UNCHANGED <<phase, ifip, hookVars, queueVars, nlVars>>

------------------------------------------------------------------------------
(***************************************************************************)
(* The daemon's end of the netlink socket, and geosvr_netlink_rcv_skb.     *)
(***************************************************************************)

\* RoutingManager answers a request with its own type and destination, with
\* or without a route, or by dropping it.
Answers(r) ==
  {[kind |-> "RSP_SEND", req |-> r.req, dst |-> r.dst, routed |-> b] :
      b \in BOOLEAN}
  \cup {[kind |-> "RSP_DROP", req |-> r.req, dst |-> r.dst, routed |-> FALSE]}

\* The first port id that answers is latched; any other gets -EBUSY.
PeerAccepts == peer_pid = 0 \/ peer_pid = daemon

\* nl_recv_msg takes one request, the routing manager decides, nl_send
\* enters the kernel with the answer.  There is no acknowledgement and no
\* retry, so a refused or failed answer is lost.
DaemonAnswer ==
  /\ daemon # 0 /\ Idle /\ nlsock # <<>>
  /\ nlsock' = Tail(nlsock)
  /\ \/ /\ PeerAccepts
        /\ peer_pid' = daemon
        /\ rsp' \in Answers(Head(nlsock))
        /\ UNCHANGED unheard
     \/ /\ ~PeerAccepts \/ "sendmsg" \in Faults
        /\ unheard' = unheard \cup {Head(nlsock).dst}
        /\ UNCHANGED <<peer_pid, rsp>>
  /\ UNCHANGED <<modVars, hookVars, queueVars, daemon>>

\* geosvrd is started after insmod and can be started again after it ended.
DaemonStart ==
  /\ phase = "up" /\ daemon = 0
  /\ daemon' \in Pids
  /\ UNCHANGED <<modVars, hookVars, queueVars, nlsock, peer_pid, rsp, unheard>>

\* The daemon ends or is killed; requests in its socket go with it.
DaemonExit ==
  /\ daemon # 0 /\ Idle
  /\ daemon' = 0
  /\ nlsock' = <<>>
  /\ unheard' = unheard \cup {nlsock[i].dst : i \in DOMAIN nlsock}
  /\ UNCHANGED <<modVars, hookVars, queueVars, peer_pid, rsp>>

------------------------------------------------------------------------------
(***************************************************************************)
(* geosvr_queue_send_pkt and geosvr_queue_drop_pkt.                        *)
(***************************************************************************)

Matches(d) == {i \in DOMAIN queue : Dst(queue[i]) = d}

NoneHeld == \A p \in Packets : loc[p] # "held"

\* Mutant: the search walks forwards from the head.
IsOldest_Newest(i, d) == i \in Matches(d) /\ \A j \in Matches(d) : j <= i

\* The entry __geosvr_queue_find_entry returns: list_add puts new entries at
\* the head and the search walks backwards, so the oldest match is found.
IsOldest(i, d) == i \in Matches(d) /\ \A j \in Matches(d) : i <= j

\* Mutant: the entry is found but not taken off the list.
Dequeue_FindOnly ==
  /\ ~Idle /\ NoneHeld
  /\ \E i \in DOMAIN queue :
       /\ IsOldest(i, rsp.dst)
       /\ loc' = [loc EXCEPT ![queue[i]] = "held"]
  /\ UNCHANGED <<modVars, hookVars, queue, queue_total, stamp, clock, nlVars>>

\* One round of the loop takes one entry out, under the queue lock.
Dequeue ==
  /\ ~Idle /\ NoneHeld
  /\ \E i \in DOMAIN queue :
       /\ IsOldest(i, rsp.dst)
       /\ loc' = [loc EXCEPT ![queue[i]] = "held"]
       /\ queue' = RemoveAt(queue, i)
  /\ queue_total' = queue_total - 1
  /\ UNCHANGED <<modVars, hookVars, stamp, clock, nlVars>>

May(o, kinds) == IF kinds \cap Faults # {} THEN {o} ELSE {}

\* The caller frees the packet when geosvr_ip_encapsulate fails, but it
\* ignores the result of geosvr_ip_forward: without a route to the next hop
\* nobody frees the packet.
Encapsulate == {"sent"} \cup May("freed", {"kmalloc", "route"})
IpForward == {"sent"} \cup May("orphan", {"route"})

\* What becomes of the entry, with the lock released.
Outcomes ==
  IF rsp.kind = "RSP_DROP" THEN {"freed"}
  ELSE IF rsp.routed THEN Encapsulate
  ELSE IF rsp.req = "SEND" THEN {"sent"}
  ELSE IpForward

Dispose(p) ==
  /\ loc[p] = "held"
  /\ \E o \in Outcomes : loc' = [loc EXCEPT ![p] = o]
  /\ UNCHANGED <<modVars, hookVars, queue, queue_total, stamp, clock, nlVars>>

\* Mutant: an answer disposes of one packet at most.
LoopEnd_AfterFirst ==
  /\ ~Idle /\ NoneHeld
  /\ rsp' = NoRsp
  /\ unheard' = unheard \ {rsp.dst}
  /\ UNCHANGED <<modVars, hookVars, queueVars, nlsock, daemon, peer_pid>>

\* No entry for the destination is left: the loop and the sendmsg call end.
LoopEnd ==
  /\ ~Idle /\ NoneHeld /\ Matches(rsp.dst) = {}
  /\ rsp' = NoRsp
  /\ unheard' = unheard \ {rsp.dst}
  /\ UNCHANGED <<modVars, hookVars, queueVars, nlsock, daemon, peer_pid>>

------------------------------------------------------------------------------
(***************************************************************************)
(* geosvr_linux_init and geosvr_linux_exit.  nf_unregister_hook returns    *)
(* only when no CPU is inside the hook.  An open netlink socket of the     *)
(* daemon pins the module, so rmmod waits until the daemon has ended.      *)
(***************************************************************************)

HookQuiet(h) == \A p \in Packets : hookpc[p] = "request" => Info[p].hook # h

\* queue_total is set; queue_list, peer_pid and ifip start out fresh.
QueueInit ==
  /\ phase = "absent"
  /\ phase' = "queue"
  /\ queue' = <<>> /\ queue_total' = 0
  /\ peer_pid' = 0 /\ ifip' = "null"
  /\ UNCHANGED <<oops, hookVars, loc, stamp, clock, nlsock, daemon, rsp, unheard>>

NetlinkInit ==
  /\ phase = "queue"
  /\ phase' = "netlink"
  /\ UNCHANGED <<ifip, oops, hookVars, queueVars, nlVars>>

RegisterHook(from, to) ==
  /\ phase = from
  /\ phase' = to
  /\ UNCHANGED <<ifip, oops, hookVars, queueVars, nlVars>>

\* dev_get_by_name and if_info_add; a missing device is only reported.
IfInfoAdd ==
  /\ phase = "hook1"
  /\ phase' = "up"
  /\ ifip' \in {"set"} \cup May("null", {"kmalloc", "nodev"})
  /\ UNCHANGED <<oops, hookVars, queueVars, nlVars>>

\* Every queued packet is freed under one hold of the queue lock.
Flush ==
  /\ loc' = [p \in Packets |-> IF loc[p] = "queued" THEN "freed" ELSE loc[p]]
  /\ queue' = <<>>
  /\ queue_total' = 0
  /\ UNCHANGED <<stamp, clock>>

\* One of the three registrations fails and the labels of
\* geosvr_linux_init undo the ones before it, in reverse order.
InitFails ==
  /\ "register" \in Faults
  /\ phase \in {"queue", "netlink", "hook0"}
  /\ HookQuiet(PRE_ROUTING)
  /\ Flush
  /\ phase' = "absent"
  /\ UNCHANGED <<ifip, oops, hookVars, nlVars>>

\* Mutant: the netlink socket does not pin the module.
IfInfoPurge_NotPinned ==
  /\ phase = "up"
  /\ IF ifip = "null"
       THEN oops' = TRUE /\ UNCHANGED <<phase, ifip>>
       ELSE ifip' = "freed" /\ phase' = "purged" /\ UNCHANGED oops
  /\ UNCHANGED <<hookVars, queueVars, nlVars>>

\* rmmod begins; if_info_purge reads ifip->dev before it frees the record.
IfInfoPurge ==
  /\ phase = "up" /\ daemon = 0
  /\ IF ifip = "null"
       THEN oops' = TRUE /\ UNCHANGED <<phase, ifip>>
       ELSE ifip' = "freed" /\ phase' = "purged" /\ UNCHANGED oops
  /\ UNCHANGED <<hookVars, queueVars, nlVars>>

UnregisterHook(h, from, to) ==
  /\ phase = from /\ HookQuiet(h)
  /\ phase' = to
  /\ UNCHANGED <<ifip, oops, hookVars, queueVars, nlVars>>

QueueFini ==
  /\ phase = "unhooked"
  /\ Flush
  /\ phase' = "flushed"
  /\ UNCHANGED <<ifip, oops, hookVars, nlVars>>

NetlinkFini ==
  /\ phase = "flushed"
  /\ phase' = "absent"
  /\ unheard' = {}
  /\ UNCHANGED <<ifip, oops, hookVars, queueVars, nlsock, daemon, peer_pid, rsp>>

------------------------------------------------------------------------------
Init ==
  /\ phase = "absent" /\ ifip = "null" /\ oops = FALSE
  /\ loc = [p \in Packets |-> "stack"]
  /\ hookpc = [p \in Packets |-> "idle"]
  /\ queue = <<>> /\ queue_total = 0
  /\ nlsock = <<>> /\ daemon = 0 /\ peer_pid = 0 /\ rsp = NoRsp
  /\ stamp = [p \in Packets |-> 0] /\ clock = 1
  /\ unheard = {}

HookStep(p) == HookPass(p) \/ HookReject(p) \/ HookEnqueue(p) \/ HookRequest(p)

HookFaults(p) == HookOops(p) \/ HookUsesFreed(p) \/ HookReadsFreed(p)

HandlerStep == Dequeue \/ LoopEnd \/ \E p \in Packets : Dispose(p)

LoadStep ==
  \/ QueueInit \/ NetlinkInit \/ RegisterHook("netlink", "hook0")
  \/ RegisterHook("hook0", "hook1") \/ IfInfoAdd \/ InitFails

UnloadStep ==
  \/ IfInfoPurge \/ UnregisterHook(PRE_ROUTING, "purged", "unhook0")
  \/ UnregisterHook(LOCAL_OUT, "unhook0", "unhooked")
  \/ QueueFini \/ NetlinkFini

\* After an oops the machine is considered dead.
Halted == oops /\ UNCHANGED vars

Next ==
  \/ /\ ~oops
     /\ \/ \E p \in Packets : HookStep(p) \/ HookFaults(p)
        \/ DaemonAnswer \/ DaemonStart \/ DaemonExit
        \/ HandlerStep
        \/ LoadStep \/ UnloadStep
  \/ Halted

Spec == Init /\ [][Next]_vars

(***************************************************************************)
(* A hook that was entered and an answer that is being handled run to      *)
(* their end, since both are kernel code without blocking.  A daemon that  *)
(* is alive gets back to its event loop.  Nothing makes packets arrive,    *)
(* daemons start or end, or the module come and go.                        *)
(***************************************************************************)
Fairness == /\ \A p \in Packets : WF_vars(~oops /\ HookRequest(p))
            /\ WF_vars(~oops /\ HandlerStep)
            /\ WF_vars(~oops /\ DaemonAnswer)

FairSpec == Spec /\ Fairness

------------------------------------------------------------------------------
(***************************************************************************)
(* Properties.                                                             *)
(***************************************************************************)

\* Every variable holds a value of its C type, as far as the model keeps it.
TypeOK ==
  /\ phase \in Phases
  /\ ifip \in {"null", "set", "freed"}
  /\ oops \in BOOLEAN
  /\ loc \in [Packets -> Locs]
  /\ hookpc \in [Packets -> {"idle", "request"}]
  /\ queue \in Seq(Packets)
  /\ queue_total \in Nat
  /\ nlsock \in Seq(Requests)
  /\ daemon \in Pids \cup {0}
  /\ peer_pid \in Pids \cup {0}
  /\ rsp \in Responses
  /\ stamp \in [Packets -> Nat]
  /\ clock \in Nat \ {0}
  /\ unheard \subseteq Addrs

\* queue_list and the packets agree: an entry is there exactly for the
\* packets in the queue, once each, queue_total counts them, and it never
\* exceeds queue_maxlen although hooks and the answer loop interleave
\* (geosvr_queue.c, __geosvr_queue_enqueue_entry, find_dequeue_entry, flush).
QueueIntegrity ==
  /\ \A p \in Packets : loc[p] = "queued" <=> \E i \in DOMAIN queue : queue[i] = p
  /\ \A i, j \in DOMAIN queue : queue[i] = queue[j] => i = j
  /\ queue_total = Len(queue)
  /\ queue_total <= QueueMaxLen

\* The queue of geosvr_queue.c, its counter and the socket buffers agree, in
\* states of the right types.
QueueIsSound == TypeOK /\ QueueIntegrity

\* Packets for one destination leave the queue in the order in which they
\* entered it: while one waits, none that came after it is on its way
\* (list_add with list_for_each_prev in __geosvr_queue_find_entry).
FifoPerDestination ==
  \A p, q \in Packets :
    /\ Dst(p) = Dst(q)
    /\ 0 < stamp[p] /\ stamp[p] < stamp[q]
    /\ loc[p] = "queued"
    => loc[q] = "queued"

\* A packet waits only while something will still wake it: its hook has yet
\* to send the request, a request for its destination is in the daemon's
\* socket, an answer for it is being handled, or a request was lost.  So a
\* packet enqueued behind the back of a running answer loop is not stranded
\* (geosvr_hook enqueues first and requests afterwards).
WaitingHasWaker ==
  \A p \in Packets :
    loc[p] = "queued" =>
      \/ hookpc[p] = "request"
      \/ \E i \in DOMAIN nlsock : nlsock[i].dst = Dst(p)
      \/ ~Idle /\ rsp.dst = Dst(p)
      \/ Dst(p) \in unheard

\* encapsulate and ip_forward read ifip->dev while an answer is handled;
\* the record is there then, although init registers the hooks before it is
\* set and exit frees it before the queue is emptied.
HandlerFindsIfip == ~NoneHeld => ifip = "set" /\ phase = "up"

\* No packet is in the queue of a module that is not loaded: geosvr_linux_exit
\* unregisters both hooks, and waits for them, before it flushes the queue.
UnloadedIsEmpty ==
  phase \in {"absent", "flushed"} =>
    /\ \A p \in Packets : loc[p] \notin {"queued", "held"} /\ hookpc[p] = "idle"
    /\ Idle

\* With eth0 present, the kernel can only fault on ifip in the two windows
\* in which geosvr_linux_init and geosvr_linux_exit leave a hook registered
\* without an interface record.  Freed packets are used only when a cloned
\* unicast packet comes in, or when an answer loop takes a packet of this
\* node between the hook's enqueue and its request; a packet that came in to
\* be relayed may be taken there.
OopsOnlyInWindow ==
  oops => \/ phase \in {"hook0", "hook1", "purged", "unhook0"}
          \/ phase = "up" /\ ifip = "null"
          \/ \E p \in Packets : HookCalled(p) /\ FreedInHook(p)
          \/ \E p \in Packets : hookpc[p] = "request" /\ HeaderGone(p)

\* Loading and unloading, in the order of geosvr_linux_init and
\* geosvr_linux_exit, leave no packet behind, take the interface record from
\* no answer, and let a hook fault in the known windows, for clones, and for
\* packets that are answered before they are asked for.
LoadingIsSafe == UnloadedIsEmpty /\ HandlerFindsIfip /\ OopsOnlyInWindow

\* Packets change hands as PacketCustody says; a packet that nobody owns any
\* more still counts as taken over by the module.
OwnerOf(l) == IF l \in {"queued", "held", "orphan"} THEN "module"
              ELSE IF l = "freed" THEN "discarded" ELSE l

Custody == INSTANCE PacketCustody WITH owner <- [p \in Packets |-> OwnerOf(loc[p])]

CustodySpec == Custody!Spec

\* Every packet in the queue leaves it, unless a request for its destination
\* was lost on the way to or from the daemon.
EveryWaiterLeaves ==
  \A p \in Packets :
    loc[p] = "queued" ~> (loc[p] # "queued" \/ Dst(p) \in unheard \/ oops)

=============================================================================
