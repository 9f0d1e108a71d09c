# A TLA+ verification of GeoSVR

GeoSVR is a geographic routing system for vehicles. On every node a Linux kernel
module catches IPv4 packets and asks a user-space daemon, `geosvrd`, for a route;
the daemon knows its neighbours from broadcast beacons and the road network from a
database, and answers with a route along roads and a next hop. The repository also
holds CPC, an earlier framework for routing protocols with a kernel module of its own,
and an ns-2 simulation of the same routing idea (MSVR) on top of CPC, with the simulator
vendored around it.

This directory models the deployed system under `src/system`, the CPC kernel module
under `ns2/cpc/linux_kernel`, and the simulated agents under `ns2/cpc/ns` and `ns2/msvr`.
All paths below are relative to `src/system` unless they start with `ns2/`.

## 1. Inventory

| Component | State | Operations | Interacts with |
|---|---|---|---|
| Kernel hook (`kernel_mod/geosvr_mod.c`) | `ifip`, registered hooks, module parameters | `geosvr_hook` at PRE_ROUTING and LOCAL_OUT, `geosvr_linux_init`, `geosvr_linux_exit` | queue, netlink, encapsulation |
| Kernel queue (`geosvr_queue.c`) | `queue_list`, `queue_total`, `queue_lock` | enqueue, find and dequeue, send, drop, flush, init, fini | hook (other CPUs), netlink handler |
| Netlink (`geosvr_netlink.c`) | `peer_pid`, the socket | `req_normal` (to the daemon), `rcv_skb` (from it), init, fini | daemon, queue |
| Encapsulation (`geosvr_ipenc.c`) | none | encapsulate, decapsulate, has_encapsulated, forward | reads `ifip` |
| Timers (`src/timer.cc`) | one heap object per timer, libevent's list of pending events | new, reset, free, callback | neighbour list and manager |
| Neighbour list (`src/neigh_list.cc`) | linked list, `num`, flags and two timer pointers per entry | insert, update, find, delete, expire, rebroadcast, cleaner | timers, connection manager |
| Neighbour manager (`src/neigh_manager.cc`) | `seqno`, beacon timer | recv_node, send_node, next hop | list, map, gps |
| Map manager (`src/map_manager.cc`) | graph with a type per road, the imported tables | import, get_optimal_route (search, restore, choose), on_road | database, routing manager |
| Routing manager (`src/routing_manager.cc`) | none but logs | answer a SEND or FORWARD request, encode and decode a route | all of the above |
| Connection manager (`src/conn_manager.cc`) | UDP and netlink sockets | receive, nl_recv_msg, nl_send, send_data | kernel, routing and neighbour manager |
| Database, GPS, configuration, main | tables, last position, settings | import rows, read a position, parse, start | |
| CPC kernel module (`ns2/cpc/linux_kernel/cpc_mod.c`, `cpc_queue.c`, `cpc_netlink.c`, `cpc_if_list.h`) | queue, `peer_pid`, interface list | `cpc_hook`, enqueue, find, set verdict, flush, dispatch of six message types, load and unload | route table, protocol process |
| CPC route table (`cpc_rt.c`) | `rt_head`, `rt_len`, one timer | add, delete, look up, timeout, flush | hook, netlink handler, timer softirq |
| CPC in ns-2 (`ns2/cpc/ns`) | one queue for all simulated nodes | `CpcAgent::recv`, `processPacket`, send and drop | ns-2's packet pool, MSVR |
| MSVR agent (`ns2/msvr/msvr_agent.cc`, `neigh`, `gps`) | neighbour list per vehicle | `request_routing_cb`, information packets, aging | map, CPC |
| MSVR map (`ns2/msvr/map/msvr_map.cc`) | graph with a type per road | `getPaths`, `getSrcAndDst`, `getRoadByPos` | MSVR agent |

What is hard here:

* **Kernel concurrency.** Hooks run on several CPUs. The loop that carries out an
  answer takes the queue lock once per packet, and a hook enqueues and requests in two
  steps. Loading and unloading race with both.
* **Lossy conversation.** Requests are netlink broadcasts without acknowledgement;
  answers are refused when the latched `peer_pid` is another one. Nothing is retried.
* **Failure paths.** Memory, routes, sockets, registrations and the interface may be
  missing, and most results are ignored by the caller.
* **Dangling pointers.** A neighbour keeps pointers to timers that free themselves when
  they fire; only two flag bits say whether a pointer is good.
* **Searches that edit their own map**, and loop until the map says stop.
* **Checks apart from uses.** `cpc_hook` looks for waiting packets, asks for a route and
  queues its packet under three separate locks; `cpc_rt_add` looks a destination up before
  it takes the lock; `cpc_rt_timeout` reads the clock before it takes the lock.
* **Clocks and counters.** `jiffies` wraps and passes through an `int`; `rt_len` counts
  refusals; sequence numbers start again with the daemon.
* **Old news.** Beacons are relayed, delayed and lost; lists keep expired entries, and next
  hops are chosen from them, each relay for itself.
* **Strings cut short.** A route is written and parsed at every hop, and its length is set
  in two different ways.
* **Pointers into a pool** (ns-2): queue entries outlive the buffers they point to.

What makes each part correct, and the lines where it can go wrong, are the
properties of section 4 and the `hazards` of `PROJECT.json`.

## 2. Modules

| Module | Models |
|---|---|
| `PacketCustody` | abstract: who owns a packet that crosses the hooks |
| `KernelMod` | hook, queue, netlink, encapsulation results, module lifecycle, the daemon's end of the socket |
| `Routing_proofs` | of `KernelMod`: inductive invariant, safety theorems, refinement of `PacketCustody`; of `Forwarding`: what the route string and the next hop are |
| `NeighList` | timers, neighbour list, `recv_node` |
| `NeighList_proofs` | inductive invariant and safety theorems |
| `MapRoutes` | `get_optimal_route` |
| `NeighNet` | beacons, relays and neighbour lists of several nodes in discrete time, with loss and restarts |
| `Forwarding` | the daemons' decisions about one packet from node to node, and the route string it carries |
| `MapImport` | `dedup_raw_data`, `import_data`, `import_map_data` |
| `Map_proofs` | inductive invariants and theorems of `MapRoutes` and `MapImport`, and that the import makes maps for the search |
| `NeighNet_proofs` | inductive invariant and safety theorems of `NeighNet` |
| `CpcMod` | CPC kernel module and the messages of its user library; implements `PacketCustody` too |
| `CpcRt` | CPC route table, its timer and the clock |
| `Cpc_proofs` | inductive invariants and safety theorems of the two, `CpcMod`'s refinement of `PacketCustody` |
| `ListFacts` | lemmas about taking an entry out of a list and putting one in, and induction for loops over a vector |
| `CpcNs` | CPC agent in ns-2, its queue and the packet pool, with MSVR's answers |
| `CpcNs_proofs` | inductive invariant and safety theorems of `CpcNs` |
| `MsvrGeo` | the street map of MSVR: matching and the ends of a path |
| `MsvrMap` | `getPaths` on that map |
| `MsvrForward` | MSVR's way of a packet from vehicle to vehicle, with the neighbour lists |
| `Msvr_proofs` | inductive invariants and safety theorems of `MsvrMap` and `MsvrForward` |
| `MC...` | instances for TLC |

How they fit: `KernelMod` leaves the daemon's answer open, `Forwarding` says how it is
decided, `MapRoutes` how its route is found and `MapImport` where the map comes from.
`NeighList` is about memory and timers of one list, `NeighNet` about what lists of several
nodes say; its timers are countdowns because of `NeighList`'s `FlagsTellTimers`. `CpcMod`
has the route table as a set whose members may vanish, which `CpcRt` refines in its own
terms. `CpcNs` leaves positions open, `MsvrForward` leaves buffers out, and takes any path
`MsvrMap` could return.

Operators named `X_Something` directly before `X` are deliberate faults; each is used
in place of `X` to see that a property notices it. They are no part of the
specifications.

### KernelMod

A packet is an identity; `Info` says what the hook's tests find out about it. `loc`
says where the socket buffer is, `"orphan"` meaning that nobody points to it any more.

| Step | Code |
|---|---|
| `HookPass`, `HookReject`, `HookOops` | `geosvr_hook` returning NF_ACCEPT or NF_DROP, or faulting on `ifip` |
| `HookUsesFreed` | `geosvr_ip_has_encapsulated` frees a buffer that has a clone, and the hook goes on with it |
| `HookEnqueue`, then `HookRequest` | the stealing path: `geosvr_queue_enqueue_packet`, then `geosvr_netlink_req_normal`; the lock is free in between |
| `HookReadsFreed` | for a packet of this node the request's addresses are read from the buffer just queued (`geosvr_mod.c:127`); when an answer loop has taken it meanwhile, `HookRequest` reads any destination (`DstRead`), or the buffer is gone and the hook faults |
| `DaemonAnswer` | `nl_recv_msg`, the decision of the routing manager (left open: `Answers`), `nl_send`, up to `geosvr_netlink_recv_peer` |
| `Dequeue`, `Dispose`, `LoopEnd` | one round and the end of the loops of `geosvr_queue_send_pkt` and `geosvr_queue_drop_pkt` |
| `DaemonStart`, `DaemonExit` | the daemon process, also killed and started again |
| `QueueInit` ... `IfInfoAdd`, `InitFails` | `geosvr_linux_init` and its error labels |
| `IfInfoPurge` ... `NetlinkFini` | `geosvr_linux_exit` |

History variables: `stamp` and `clock` (order of entry), `unheard` (destinations with a
request that got no answer). Assumptions, each taken from the code or the kernel
interfaces it uses:

* socket buffers are not shared when a hook sees them (`ip_rcv` takes care of that), but one
  that comes in may have a clone (fault `"clone"`);
* the destination in the GeoSVR header is the destination in the IP header, which is
  how `geosvr_ip_encapsulate` fills it in;
* `nf_unregister_hook` waits for hooks in progress, and an open netlink socket of the
  daemon pins the module (`netlink_kernel_create` gets `THIS_MODULE`);
* `run.sh` starts the daemon after `insmod`; setting `bcast_addr` is merged with the end
  of loading;
* the ICMP message of `geosvr_queue_drop_pkt` is one more locally generated packet;
* error messages to the daemon take no room in its socket.

### NeighList

`nb` are the entries in the list and `tm` the pending timers, both by heap chunk, so
chunks are reused as `malloc` reuses them. `geosvr_timer_new` leaves `in_cb_` unwritten:
`Unwritten` chooses a value for it, from `FreshInCb`, each time a timer is made.
`ub` records that freed memory was used; nothing is modelled after that. Times are
left out (an armed timer may fire any time), and so are positions (`in_circle` may say
either). `error()` is `g_error`, which ends the process: failing `malloc` and `send` are
therefore not steps. The destructors and `neigh_list_fini` are never reached, because
`event_dispatch` does not return.

### MapRoutes

One request is `Query` (or `QueryOffRoad`), rounds of `GetRoute`, and `Finish`, which is
`restore_routes` and `cal_optimal_route`. Map matching is left open: any two roads may be
the nearest ones. The node ids are the vertex indices, as `import_map_data` requires, and
road ids are unique, as `dedup_raw_data` makes them. Dijkstra's algorithm is Boost's: any
shortest path may come back, and an edge of the largest int is as good as absent. A
candidate found again is not stored again, since it changes neither the restoration nor
the choice; this keeps the endless search of section 5 a finite graph. Sums of types wrap
at `IntMax`; `SumsFit` says that the classes are small enough for a path without repetition
not to reach it, so that only the comparison's own start, the largest int, makes a sum wrap.
Standard deviations are compared as sums of squares cross-multiplied by the
lengths, which orders them the same way. The loops over a route or over the candidates are
recursive functions (`SumFrom`, `Length`, `CalOptimalRoute`), one value per round, because
this is the form the proofs can take apart.

### NeighNet

One origin is followed; `ent[n]` is what node `n` lists of it, `air` the copies on their
way. `SendNode` is `send_node` with its timer, `RecvNode` is `recv_node` with its early
returns (`RecvNew`, `RecvKnown`, `RecvIgnored`), `Expire`, `Relay` and `Cleaner` are the
three timers, `Stop`, `Start` and `Reset` end and start daemons, `Lose` loses a copy. `Tick`
waits for what is due: the periods are seconds, radio and event loop are faster. Where the
listeners are and whether they list one another changes all the time, and a daemon that was
just started lists nobody, so `in_circle` may say either of a relay (`InCircle`). The numbers
keep the order of the periods in `geosvr.conf`: beacons after 2, timeout after 3, cleaner after
5. Histories: in an entry `hops`, the number of relays its news has passed, `times`, how often
the node relayed it, and `outside`, how many repeats of it `in_circle` let in; `far`, the most
relays any news has passed.

### Forwarding

`HandleSend` and `HandleForward` are the two request handlers with everything they call:
`dst_is_direct`, `get_optimal_route` (any of `Ofrs`), `restricted_forwarding_algo`
(`NextHop`), `ofr_tostring` and `extract_ofr`, and the answer to the kernel. A route string
is a sequence of digits and commas, because the disagreement about its length is about
characters: the source's answer gives the length of the string, a relay's gives the number
of roads (`routing_manager.cc:211`), so the kernel copies only that many characters.
`Arrive` is the next node's kernel module; strings longer than the buffer of `nl_recv_msg`
lose their end (`RouteCap`, smaller than in the code so that it matters for short routes).
`Hear` and `Clean` change lists behind the packet's back; an entry that is INVALID is used
until it is cleaned away. A road id that does not exist makes `on_same_road` follow a null
pointer: `Fault`. The loops of `ofr_tostring`, `extract_ofr` and
`restricted_forwarding_algo` are recursive functions (`Written`, `ReadOne` and `ExtractOfr`,
`PickOn`), one value per round. The specification is called `ForwardSpec` because
`Routing_proofs` extends this module and `KernelMod` together.

### MapImport

`Fetch` is one row through `dedup_raw_data`, in any order, `ImportData` and `BuildMap` are
the two halves of the import. A position is its node. `BuildMap` ends in `"ub"` when it
reads past `nodes_`. Its specification is called `ImportSpec`, and its control state `stage`,
because `Map_proofs` extends this module and `MapRoutes` together.

### CpcMod and CpcRt

`HookLookup`, `HookFind`, `HookRequest` and `HookEnqueue` are the four parts of `cpc_hook`,
each under its own lock. `ProtAnswer` and `ProtRemove` are the protocol using `nl.c`;
`Deliver` is `cpc_netlink_rcv_skb` up to the dispatch; `ChangeTable`, `Dequeue`, `SendCopy`,
`CopyFails` and `LoopEnd` are the handling of a message, one packet per hold of the lock.
`HookSpins` is the hook in softirq spinning on `ifilock` that the interrupted writer holds;
nothing is modelled after it (`stuck`). Histories: `unheard`, destinations with a lost
request or answer; `overtaken`, destinations whose answer was handled while a hook stood
between request and enqueue.

In `CpcRt` a step ends where another context can come in: `AddBegin` (look-up), `AddEnd`
(under the lock), `Del`, `TimerFires` (reads `jiffies`), `Timeout` (under the lock),
`FlushTimer`, `FlushList`, `Tick`. `left` in an entry is history, the true time it has left.
`MaxDelay` is by how much kernel steps may be late. `skewed` remembers that a clock value
in use was cut off, by a wrap-around or by the `int` of `cpc_rt_timeout`; what the timing
properties say is said of the other behaviours. `raced` remembers that the timer was deleted
while its handler ran. Its specification is called `RtSpec` and its control state `rtphase`,
because `Cpc_proofs` extends both modules.

Assumptions: messages of the protocol reach `cpc_netlink_rcv_skb` (`cpcnl` is a static of
each file that includes the header, and `sock_net` of it is not followed);
`cpc_rt_update` is never called because `cpc_rt_get` returns 0 or 1; expired entries are
unlinked and not freed, which has no state here.

### CpcNs

An action is a simulator event: `Inject` and `Arrive` are `CpcAgent::recv` to its end, with
the queue, `request_routing_cb` and the sending or dropping. A packet is a buffer of the
pool, the queue and the lower layers (`air`) hold pointers. There is one queue for the whole
simulation; it is searched by destination only, so `q` has the entries of each destination in
their order. The MAC layer counts
`num_forwards`, so a packet that is back at its source is dropped. Left out: what neighbour
lists hold, the route table (MSVR never fills it), destructors. Pointers have four bytes, as
on the machines the simulator was written for. What is sent of the header ends two bytes per
intersection after its fixed part (`msvr_agent.cc:347`), where the pointer to the path is: with
one intersection half a pointer is sent, and the relay reads whatever it leads to (`PathRead`).

### MsvrGeo, MsvrMap and MsvrForward

Positions are in whole metres; distances are compared as squares, and `Off` is the integer part of
the distance to 100 m. Where two neighbours tie, the order of the list decides in the code
and either is taken in the model. `MsvrMap` has `Round` (one candidate), `Return`
(restoration and choice) and `ReadNothing` (an empty vector is read); sums of types wrap.
Its loops are recursive functions (`Total`, `SumOf`, `Restored` with `PutBack`) and its
specification is `SearchSpec`, because `Msvr_proofs` extends it and `MsvrForward` together.
`MsvrForward` has `Inject` and `Arrive` for the packet and `Expire` for the timer of a
vehicle, which sends its information packet and ages its own list. Ages are wall-clock
seconds, unrelated to simulated time, so any entry may be too old at any time or never.
`getPaths` returns any path here. Where paths are unique it stops the simulation exactly when
its loop is never entered or never left; where there are `Detours` that depends on types and on
earlier requests, and it may do either (`MayNotReturn`). A packet with one intersection left
meets the half pointer of `CpcNs`: it is dropped or goes `"astray"`, and is not followed further.

## 3. Runs

One run per module that has behaviour of its own; where the module states fairness the same
run checks safety and liveness. All but the last pass.

| Run | Instance | Shows |
|---|---|---|
| `kernel` | four packets (two of this node, one to forward, one broadcast), queue of 2, socket of 2, two pids, every fault | `QueueIsSound`, `FifoPerDestination`, `WaitingHasWaker`, `LoadingIsSafe`, `CustodySpec`, `EveryWaiterLeaves` |
| `neigh` | two neighbours, three timer chunks, 4 packets, seqnos 0 and 1, both values of `in_cb_` | `ListIsSound`, `TimersAreSound`, `RelaysAreEarned`, `SeqnoNeverBack`, `SilentNeighboursForgotten` |
| `map` | a square with diagonal and a loop, all assignments of classes 1 and 12 | `NoMarkSurvives`, `CandidatesDisjoint`, `AnswerIsSound`, `MarksAreTemporary` |
| `neighnet` | origin and two nodes that all hear one another, two lives of the origin, one lost copy, one restart of a listener, one repeat let in at each | `RestartHeardInTime`, `GoneIsForgottenInTime`, `RelaysAreSound` |
| `forwarding` | four cars along roads 1, 5, 12, 24, nine routes, every destination, two changes of lists, five hops | `RouteStringIsSound`, `FaultOnlyAfterCut`, `NextHopBestSoFar` |
| `mapimport` | two tables of segments, every order of their rows | `RoadsAreSound`, `DescriptorsAreIds` |
| `cpcmod` | three local packets, two destinations, queue of 2, socket of 2, two pids, every fault | `QueueIsSound`, `WaitingIsExplained`, `CustodySpec`, `EveryWaiterLeaves` |
| `cpcrt` | three destinations, lifetimes 1 and 2, table of 1 (which holds 2), clock of 8 ticks, `int` of 4 | `TableIsSound`, `TimerIsSound`, `NoEarlyExpiry`, `RoutesExpire` |
| `cpcns` | three nodes, three packets, four buffers, paths up to 3, one information packet | `QueueIsSound`, `CustodyUntilDrop`, `HarmOnlyWhereDropped` |
| `msvrmap` | the five intersections in a line that the code builds, and two more on ways about | `MarksStayOnlyWhereCrossed`, `CrashOnlyOutOfOrder`, `AnswerIsSound`, `ReturnsUnlessCutOff` |
| `msvrforward` | four vehicles around a bend, one move | `PathIsSound`, `PacketEnds` |
| `map_parallel` | two roads between two nodes, a third road | violates `MarksAreTemporary` (section 5) |

The bounds are the least in which the cases meet: two packets for one destination and one for
another are needed to see order and selective release; a queue and a socket of 2 fill up; two pids
give a restarted daemon; loading and unloading repeat. Three timer chunks are fewer than the four
that two entries own at most, so a freed chunk is reused at once by either entry; a neighbour can
expire, be cleaned and come back within four packets. The square has two disjoint detours and a
direct road, so a search takes up to three rounds, and class 12 gives roads of cost zero. Two
lives of the origin give the obsolete packets of a restart; `Horizon` exceeds the time bounds for
news of up to four relays, so these are met and not merely approached. With a restart and a repeat
that `in_circle` lets in, news passes four relays between the two listeners. Roads 1 and 12 let a
cut string name another road, 24 one that does not exist. A clock of 8 ticks wraps several times
while routes live for two, and an `int` of half its size cuts off values before they wrap. Four
buffers with three payloads leave one for the copy that `sendProtPacketWithData` makes. The line
alone has one candidate for each search; the sixth intersection gives a second one, and ties; the
seventh gives a third way to the fourth, longer than the direct road even when that is marked,
which a search then never marks. Three vehicles besides the source give two relays, which is what
a packet needs to go back and forth.

Bounds that are not in the code: `MaxPackets`, `MaxSeq` and the chunk sets (`NeighList`);
`MaxSeq`, `MaxLives`, `MaxLost`, `MaxResets`, `MaxOutside`, `Horizon` (`NeighNet`); `MaxChanges`,
`MaxHops` (`Forwarding`); `MaxRefused`, `MaxDelay` (`CpcRt`); `Bufs`, `MaxPath`, `MaxInfos`
(`CpcNs`); `MaxRounds` (`MsvrMap`); `MaxMoves` (`MsvrForward`). Sizes that are smaller than in the
code: queues, sockets, `RtMaxLen`, `RouteCap`, `LongMod`, `IntMod`, `IntMax`.

Symmetries: the two listeners of `NeighNet` and the buffers of `CpcNs`; none is named in a
specification, and neither run checks liveness.

Deadlock checking is on for `KernelMod`, `NeighList`, `MapRoutes`, `CpcMod` and `CpcRt`; after a
fault or a use of freed memory these stutter (`Halted`). It is off where behaviours end:
when the import is done (`MapImport`), the packet has arrived or is lost (`Forwarding`,
`MsvrForward`, `CpcNs`), the simulation has crashed (`MsvrMap`), or the horizon of a run is
reached (`NeighNet`).

### Fairness

* `KernelMod`: a hook and an answer in progress are kernel code that does not block, so
  `HookRequest` and the steps of the answer loop are weakly fair; a daemon that is alive
  returns to its event loop and reads the next request. Nothing makes packets arrive,
  daemons live, or modules load.
* `NeighList`: libevent serves every timer that is due, and the cleaner re-arms itself.
  Packets need not come.
* `MapRoutes`, `MsvrMap`: a call that was made runs on.
* `CpcMod`: as `KernelMod`, for the rest of a hook, the handling of a message and the
  protocol's next answer.
* `CpcRt`: the clock goes on, a due timer fires, and code under way (the handler, an addition,
  the flush) ends.
* `MsvrForward`: a packet does not stay in the air; it arrives or is lost. Timers and
  movements need not happen.

## 4. Properties

A property that ends in `IsSound`, `AreSound` or `IsSafe` and `HarmOnlyWhereDropped` are
conjunctions of named parts; the parts are what the comments in the
modules explain and what the proofs treat one by one. The type invariant of a module (`TypeOK`,
or `RtTypeOK`, `SearchTypeOK`, `ForwardTypeOK`, `ImportTypeOK` where two modules are proved about
together) is a part of one of them.

* **Queue.** `QueueIsSound` (list, counter and buffers agree), `FifoPerDestination`,
  `WaitingHasWaker` (no packet is stranded behind a running answer loop),
  `EveryWaiterLeaves`, `CustodySpec`.
* **Lifecycle.** `LoadingIsSafe`: `HandlerFindsIfip`, `UnloadedIsEmpty`, `OopsOnlyInWindow`. The
  last one delimits the windows in which the code does fault: between `nf_register_hook` and
  `if_info_add`, between `if_info_purge` and `nf_unregister_hook`, and for good when
  there is no `eth0`; and it says that freed packets are used in two ways only: when an incoming
  unicast packet has a clone, and when a packet of this node is answered for, by a request of
  another one, before its own hook has read the addresses for its request. The second happens at
  any time while the module runs.
* **Neighbours.** `ListIsSound`; `TimersAreSound`: `FlagsTellTimers`, `TimersKnowTheirEntry`,
  `NoUseAfterFree`; `SeqnoNeverBack`, `RelaysAreEarned`, `SilentNeighboursForgotten`.
  `NoUseAfterFree` holds only up to the unwritten `in_cb_`; the model reaches the use
  after free that follows a wrong value.
* **Routes.** `NoMarkSurvives`, `CandidatesDisjoint`, `AnswerIsSound` (`AnswerIsCheapest`),
  `MarksAreTemporary`. `AnswerIsCheapest` has an exception that the code has too: a first
  candidate that costs nothing leaves the minimum at the largest int and loses to any
  later candidate.
* **Several nodes.** `RestartHeardInTime` and `GoneIsForgottenInTime` bound how long lists may
  be wrong: by a timeout, a cleaner period and one wait for every relay the news has passed (and
  a beacon period until the new life is heard). The number of relays is not bounded by the code:
  a ring of nodes that forget in turn, or two that do not list each other, keep the news of a node
  that is gone for ever, and the bound then says that it must have been relayed all the time.
  `RelaysAreSound` says that such news never makes the node look direct (`DirectOnlyWhileHeard`),
  and that a node relays what it lists at most twice, and once more for every repeat that
  `in_circle` let in (`RelayedAtMostTwice`).
* **Forwarding.** `RouteStringIsSound`: `FirstRelayReadsOfr` (parsing undoes writing) and
  `CarriedRouteIsPrefix`; with `FaultOnlyAfterCut` it says what the wrong length does to a route,
  and what it cannot do. `NextHopBestSoFar` states the exact effect of the signed `min_dist`.
  Nothing keeps a packet from circling: the model reaches cycles, ended by `MaxHops`.
* **Import.** `RoadsAreSound` (`RoadsSpanTheirSegments`), `DescriptorsAreIds`: what holds for every
  order of rows, and what needs the first segment first.
* **CPC module.** `QueueIsSound` (`QueueIntegrity`, `UnloadedIsEmpty`), `WaitingIsExplained`,
  `CustodySpec`, `EveryWaiterLeaves`; `PeerIsLatched` is proved only. A packet may be stranded for
  good, in exactly the two ways that `unheard` and `overtaken` record.
* **CPC routes.** `TableIsSound`: `SortedByExpiry`, `OneRoutePerDestination`,
  `RtLenCountsRefusals`; `TimerIsSound`: `TimerArmedForHead`, `OverdueIsSeen`,
  `TimerGoneUnlessRaced`; `NoEarlyExpiry`, `RoutesExpire`.
* **ns-2 packets.** `QueueIsSound` (`QueueHoldsLeftovers`), `CustodyUntilDrop`,
  `HarmOnlyWhereDropped` (`LeakOnlyWhereDropped`, `StrayOnlyWhereDropped`, `RoutingOnlyAfterDrop`):
  `dropPacket` frees a packet and leaves it queued, and all harm to queue and pool comes after
  that.
* **MSVR map.** `MarksStayOnlyWhereCrossed`, `AnswerIsSound` (`AnswerCheapestUnlessTied`),
  `CrashOnlyOutOfOrder`, `ReturnsUnlessCutOff`. The last one says exactly when `getPaths` never
  returns: when some road to the destination is not marked and every path that ends with it is
  longer than a path that is marked throughout, or there is none (`CutOff`). The exceptions are
  reachable: a marked road can be crossed, since distances are doubles, and then stays marked; on
  the built map a search for a destination on the last road never ends, and with the added roads
  one from the third intersection to the fourth does not, although each of these roads ends a
  path. One of the causes that `CrashOnlyOutOfOrder` names came out of its proof: when both ends
  of the destination's road are equally far from the source's end, `getSrcAndDst` takes the
  target, but that road does not lead to it from an intersection nearer to the source, as
  `hasNextPath` demands.
* **MSVR forwarding.** `PathIsSound` (`PathLasts`), `PacketEnds`: packets circle for ever only as
  long as lists hold old positions. The exception `BackOnSourceRoad` also came out of the proof.
  On a narrow U of three roads with intersections at (0,0), (300,0), (300,100), (0,100) and
  vehicles at (280,0), the source, (270,60), (150,100), (100,0) and (30,100), the destination, a
  relay on the last road finds a vehicle on the source's road nearer to the end of the path,
  sends the packet back to it, and takes the last road off the path; TLC confirms it on that
  instance.

## 5. Disagreements between the code and what it says

The first one is a run that TLC must see violated. The others are covered by the passing
properties named with them, which say what the code does instead.

1. `map_manager.cc:391`: "temporaryly set type to max". With parallel roads `get_route`
   marks a road other than the one Dijkstra used, and `get_routes` never ends
   (`map_parallel`).
2. `kernel_mod/geosvr_queue.c:42` announces "dropping packet(s)" when the queue is full. The
   packet is not dropped: the hook ignores the result and returns NF_STOLEN. In `KernelMod` such
   a packet is an `"orphan"`, which `CustodySpec` counts as the module's for good.
3. `map_manager.cc:89`: "we transform type value from 12 to 0". `restore_routes` undoes
   the transformation for every road a search has used; `NoMarkSurvives` therefore allows
   both types.
4. `ns2/cpc/linux_kernel/cpc_rt.c:90`: "Max rt list len reached". Refused additions are
   counted as routes, so routes are refused by a short or empty table (`RtLenCountsRefusals`).
5. `ns2/cpc/linux_kernel/cpc_mod.c:106`: "local out route request" for every queued packet.
   The request comes before the enqueue; its answer can be over before the packet is queued,
   and later packets do not ask because one is waiting (`overtaken` in `WaitingIsExplained`).
6. `neigh_manager.cc:212`: "we ignore obsolete packet using seqno". After a restart of the
   sender relays of its former life replace its present position, for the time that
   `RestartHeardInTime` bounds.
7. `ns2/msvr/msvr_agent.cc:143`: "never reach here". A buffer freed by `dropPacket` and in
   use again for an information packet is sent as a routing packet (`RoutingOnlyAfterDrop`).
8. `ns2/msvr/map/msvr_map.cc:418`: "if no so, check distance to save node id". The test uses
   `path.first` before it is set, and an empty vector is read (`CrashOnlyOutOfOrder`).

## 6. Proofs

The theorems hold for any packets, addresses, pids, queue length and faults
(`ConstantsAssumption`), any addresses and finitely many chunks (`NeighAssumption`), and
any map with unique road ids whose classes are below the largest int (`MapAssumption`) and, for
the answer, small enough to be summed along a path (`SumsFit`). For the import they hold for
any tables in which a road numbers its segments differently (`TablesAssumption`), for
`NeighNet` for any network, periods and waits of which one is the longest (`NetAssumption`,
`NoEntryAssumption`), with any number of losses and restarts.
For CPC they hold for any packets, destinations, ports, queue length, socket size and faults
(`CpcAssumption`), and for any lifetimes, word sizes and table length as long as kernel steps
are late by less than half the range of the clock (`RtAssumption`, `2 * MaxDelay < LongMod`).
For `Forwarding` they hold for any nodes, any roads with positive ids, any routes over them,
distances in metres, neighbour lists and length of the buffer (`ForwardingAssumption`,
`ListsAssumption`); for `CpcNs` for any nodes, traffic and buffers (`NodesAssumption`,
`TrafficAssumption`, `BoundsAssumption`). For MSVR they hold for any finite street map in which
the ends of a road are apart and no two roads have the same ends (`GeoAssumption`), with types
that sum along a path to an `int` (`MapAssumption`, `TypesFit`), and any vehicles on it
(`CarsAssumption`).
TLC evaluates these assumptions in every run.

* **Routing_proofs, kernel module.** `IInv` is `TypeOK`, `QueueIntegrity`, `FifoPerDestination`,
  `WaitingHasWaker` and `OopsOnlyInWindow` with two parts that make them inductive.
  `StampOrder`: stamps are below `clock` and grow along the queue, so the oldest match is
  the one with the least stamp; `FifoPerDestination` is not inductive without it.
  `Lifecycle`: in which phases of loading and unloading a packet may be queued or held, a
  hook may still owe its request, the daemon may run, and what `ifip` is then;
  `HandlerFindsIfip` and `UnloadedIsEmpty` follow from it. There is one lemma per action
  or group of like actions, then `NextInv` and `Inductive`. `KeepsCustody` maps each
  action to one of `PacketCustody` or a stutter.
* **Routing_proofs, forwarding.** Three theories come before the invariant. *Numbers*: writing a
  road id in decimal and reading it is the identity, and so is reading a written route
  (`ReadWritten`, `WriteRead`). *Cut strings*: whatever beginning of a written route is read
  gives whole roads of it and then one more road or its first digits (`ReadPrefix`); written
  again, it is a beginning of the same string unless the last one is no road (`Reread`), and
  that road makes the relay fault. *Next hop*: `TryNextBest`, `PickOnIs` and `NextHopIs` follow
  the loop entry by entry, from which `NextHopBestSoFar` holds in every state with typed lists.
  `ForwardInv` is `ForwardTyped`, `AtSource`, `OnItsWay`, `RouteOfSource` (what a packet under way
  carries is a beginning of what its source wrote), `DeadKeepsPacket` and `FaultOnlyAfterCut`.
* **NeighList_proofs.** `IInv` adds `SkippedStayPending`: a timer that escaped
  `geosvr_timer_free` stays pending and no later entry in the chunk of its old one owns it.
  The step that matters is `UpdateFacts`: because the flags are truthful, the timers of
  the updated entry are distinct, pending and its own. `SeqnoMonotone` follows from the
  same facts. For `NoUnearnedRelay` the count of relays is not inductive by itself:
  `EarnedInv` says that relays sent and rebroadcast timers pending (`Owed`) are together no
  more than the packets accepted, and each action changes the two by at most what it earns.
* **Cpc_proofs, module.** `IInv` is `TypeOK`, `QueueIntegrity`, `Lifecycle` (what may be going on
  in which phase of loading and unloading) and `Explained`, which strengthens
  `WaitingIsExplained` to packets whose hook relies on a request already and has still to queue
  them. `KeepsCustody` maps each action to one of `PacketCustody` or a
  stutter.
* **Cpc_proofs, route table.** `RtInv` is `RtTypeOK` and four properties of the table with
  `AdderIsNew` (what an addition under way will insert is not listed, although the lock was free
  since the look-up), `Stopped` (what the flush leaves behind) and `ClockIsTrue`: unless `skewed`,
  `expires` of each entry, `left` and `jiffies` agree, and the handler's copy of the clock is not
  ahead. `NoEarlyExpiry` and `OverdueIsSeen` follow from the last one.
* **NeighNet_proofs.** `NetInv` is `TypeOK` with six parts. `StaleRunsOut` carries the time bounds:
  the time since a life was over, with what is left of a pending relay, of an entry's timer, or of
  the cleaner's once the entry is INVALID, is covered by the relays its news has passed and the
  periods; a relay adds one wait to the account and one hop to the news. `HopsAreCounted` limits the
  hops, and gives those of the origin's own packets, 0, from which `DirectOnlyWhileHeard` follows.
  `HeardOnceUp` is the restart: a neighbour that every beacon reaches either lists the former life,
  which `StaleRunsOut` ends, or has a beacon to come, or lists the present life with a timer that
  the next beacon renews in time; it needs `BeaconsAreLatest` and `NothingFromTheFuture`, by
  which a beacon is never obsolete to an entry of its own life. `RelaysPerEntry`:
  `RelayedAtMostTwice` alone is not inductive, because how often a node may still relay depends
  on whether its timer is pending and on whether it heard the origin itself.
* **CpcNs_proofs.** `NsInv` joins the properties with what a buffer may hold at all. The queue
  keeps pointers to buffers that were freed and are used again, so the proofs follow headers,
  not buffers: a buffer that nobody holds was queued for a destination with drops
  (`UnheldWhereDropped`), a header names its payload's destination or such a one
  (`HeadersAreExcused`), and a free buffer is cleared (`FreeIsCleared`).
* **ListFacts** holds what the kernel modules' proofs need to know of `RemoveAt` and
  `InsertAt`, and induction in a form the provers can use: the property of the numbers is given
  as the set of the numbers that have it (`InductionUpTo`, from the well-foundedness of the
  natural numbers), and `Recursion` says that a function defined from round to round exists.
  With the two, what a recursive function computes is proved round by round.
* **Map_proofs, search.** `IInv` is `CandidatesDisjoint` and `MarksAreUsed`: inside a search
  exactly the roads of the candidates are marked, and every other road has one of its two
  legitimate types. A shortest path runs over unmarked roads, so without parallel roads a
  new candidate is disjoint from the old ones (`FirstIsOpen`), and restoring the roads of
  the candidates restores all marks (`FinishInv`). `AnswerInv` adds `FoundInOrder`: the
  candidates come in the order of their sums, because a path that is open in a later round was
  open before and was not shorter than what was taken (`GetRouteAnswer`). This is why
  `cal_optimal_route` answers with a cheapest one although it starts by comparing with a sum
  that has wrapped: such a start is negative, keeps the first candidate, and the first is a
  cheapest (`FinishAnswer`). `SumUnwrapped` and `LengthIsSum` relate the `int` sums, Dijkstra's
  lengths and the true sums.
* **Map_proofs, import.** `ImportInv` follows the records row by row: `RecordOf` says which rows a
  record owes its end and its start to, `RecordsAreMerged` that there is one record for each
  road seen so far, `GraphIsMade` what nodes, edges and vertices are made of. The nodes are
  distinct and lie below their largest, so there are no more of them than vertices up to it
  (`InjectiveIsShort`): the graph's size is the largest node, never the length of `nodes_`.
  `ImportMakesMap` concludes that a finished import meets what `MapRoutes` assumes of its edges
  and vertices; that the classes are small is left to the table.
* **Msvr_proofs, search.** `SearchInv` is the types with `CandidatesAreRecords` (a candidate
  remembers, road by road, the types it found), `Kept` for each road that was not crossed (it has
  its own type, or the mark and exactly one candidate that remembers its own type),
  `RequestStands` and `AnswerStands`, and that a crash means that there was no path. Restoring
  puts back what the candidates remember in their order, so a road crossed a second time gets the
  mark back: that is why `MarksStayOnlyWhereCrossed` and the choice are proved for the other ones.
* **Msvr_proofs, relaying.** `RelayInv` is the types with true lists as long as nobody has moved,
  `PathIsLeft` (the path in the header is an end of the one the source got, by as many roads as
  were taken off) and `SpentForAReason` (a path is used up only in the two ways of `PathLasts`).

Each part of a property has a theorem of its own; `QueueSound`, `LoadingStaysSafe`, `ListSound`,
`TimersStaySound`, `TableStaysSound`, `TimerStaysSound` and `RelaysStaySound` put the parts
together as the runs check them.

Only model-checked:

* the liveness properties (`EveryWaiterLeaves` of both modules, `SilentNeighboursForgotten`,
  `MarksAreTemporary`, `RoutesExpire`, `ReturnsUnlessCutOff`, `PacketEnds`), which need reasoning
  about fairness and ENABLED.

## 7. Not modelled

* Header bytes, message formats and logging; anything after a buffer was freed under the hook.
  Small allocations that are never freed (`geo_hdr` in the relay path, the message
  in `geosvr_netlink_req_normal`) have no owner in the model.
* Floating-point geometry of the daemon: map matching, waiting times of rebroadcasts.
* MySQL, GPS and configuration: input of data. `main` and the linked lists have no behaviour
  of their own.
* `ns2/cpc/win`: a copy of the University of Bremen's AODV implementation for Windows behind
  three thin files that pass calls on.
* `ns2/cpc/routing_table.c` and `list.c`, which MSVR never fills, and `EchoAgent`, a test
  agent. In `ns2/msvr`, `msvr_nbl_find_furthest_nhop`, which nothing calls, the bytes of an
  encoded path, and the MSVR header that overlaps its neighbour in the packet.
* The ns-2 simulator around them and `lib/gpsd-2.35`: vendored code, and nearly all of the
  lines of this repository. Of the simulator only the packet pool appears, in `CpcNs`.

## 8. What is left

1. A bound for the number of relays that news can pass, and so for how long the news of a node
   that is gone stays, in networks where `in_circle` holds of every relay and no cycle is so long
   that its nodes forget in turn.
2. The geometry of the daemon's map matching, which `MapRoutes` and `Forwarding` leave open.
3. The lock inversion at `ns2/cpc/linux_kernel/cpc_if_list.h:60`. The model reaches it
   (`HookSpins`) and stops there; no property says how often it may happen, since nothing in the
   code prevents it.
4. The liveness properties, for a prover that handles fairness.
