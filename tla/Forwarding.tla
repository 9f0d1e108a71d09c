----------------------------- MODULE Forwarding -----------------------------
(***************************************************************************)
(* The way of one data packet through several nodes: the decisions of the  *)
(* routing daemons (RoutingManager, restricted_forwarding_algo), the route *)
(* string they exchange with their kernel modules, and the header in which *)
(* the packet carries it (geosvr_ipenc.c).                                 *)
(*                                                                         *)
(* The source's daemon computes a route, a list of road ids, writes it as  *)
(* a decimal string and names a next hop.  Every relay parses the string,  *)
(* chooses among its own neighbours on those roads and writes the string   *)
(* again.  Meanwhile the neighbour lists change.                           *)
(*                                                                         *)
(* Nodes do not move; what the lists say of them may be out of date.  The  *)
(* queueing of the packet inside a node is the subject of KernelMod, the   *)
(* search for routes that of MapRoutes.                                    *)
(***************************************************************************)
EXTENDS Integers, Sequences, SequencesExt, FiniteSetsExt

CONSTANTS
  Nodes,       \* the nodes of the network, with their daemons
  None,        \* address 0: no next hop
  Fault,       \* the daemon follows a null pointer instead
  Roads,       \* the road ids of the map
  OnRoad,      \* the roads a node is on, by roadid or by on_same_road
  Dist,        \* Dist[n][m]: distance between two nodes in metres
  RestrictedRange,  \* RESTRICTED_RANGE
  Ofrs,        \* what get_optimal_route may return
  Lists,       \* the neighbour lists at the start
  RouteCap,    \* characters of a route that fit in the buffer of nl_recv_msg
  MaxChanges,  \* bound: changes of neighbour lists
  MaxHops      \* bound: times the packet is sent

VARIABLES
  lst,      \* each node's neighbour list, newest entry first
  down,     \* nodes whose daemon has died
  pkt,      \* where the packet is and what it carries
  dst,      \* its destination
  ofr,      \* history: the route its source computed
  hops,     \* history: times it was sent
  changes   \* history: changes of neighbour lists

forwardVars == <<lst, down, pkt, dst, ofr, hops, changes>>

ASSUME ForwardingAssumption ==
  /\ None \notin Nodes /\ Fault \notin Nodes /\ None # Fault
  /\ Roads \subseteq Nat \ {0} /\ OnRoad \in [Nodes -> SUBSET Roads]
  /\ Dist \in [Nodes -> [Nodes -> Nat]] /\ RestrictedRange \in Nat
  /\ Ofrs \subseteq Seq(Roads)
  /\ RouteCap \in Nat /\ MaxChanges \in Nat /\ MaxHops \in Nat

\* What routing reads of an entry.
Entries == [addr : Nodes, direct : BOOLEAN]

ASSUME ListsAssumption == Lists \in [Nodes -> Seq(Entries)]

\* get_route and get_road_info know no such road.
NoRoad == -1

------------------------------------------------------------------------------
(***************************************************************************)
(* The route string.  A character is a digit or a comma.                   *)
(***************************************************************************)
Comma == 10
Chars == 0 .. Comma

\* lexical_cast<string>: from the last digit to the first by dividing by ten.
Decimal(id) ==
  LET q[k \in 0 .. id] == IF k = 0 THEN id ELSE q[k - 1] \div 10
      n == Min({k \in 0 .. id : q[k] < 10})
  IN [i \in 1 .. n + 1 |-> q[n + 1 - i] % 10]

\* sscanf("%d")
Number(t) ==
  LET v[k \in 0 .. Len(t)] == IF k = 0 THEN 0 ELSE 10 * v[k - 1] + t[k]
  IN v[Len(t)]

\* The string of ofr_tostring after each of the roads.
Written(r) ==
  LET w[k \in 0 .. Len(r)] == IF k = 0 THEN <<>> ELSE w[k - 1] \o Decimal(r[k]) \o <<Comma>>
  IN w

\* Mutant: the roads are written without commas.
OfrToString_Joined(r) ==
  LET w[k \in 0 .. Len(r)] == IF k = 0 THEN <<>> ELSE w[k - 1] \o Decimal(r[k])
  IN w[Len(r)]

\* ofr_tostring: every id with a comma, and the last comma taken off.
OfrToString(r) == Front(Written(r)[Len(r)])

\* The id that starts at i ends at the next comma or with the string.
TokenEnd(s, i) == Min({j \in i .. Len(s) + 1 : j = Len(s) + 1 \/ s[j] = Comma})

GetRoute(id) == IF id \in Roads THEN id ELSE NoRoad

\* Mutant: the next id starts at the comma.
ReadOne_PostIncrement(s, b) ==
  LET end == TokenEnd(s, b.start)
  IN IF b.start > Len(s) THEN b
     ELSE [start |-> end, ofr |-> Append(b.ofr, GetRoute(Number(SubSeq(s, b.start, end - 1))))]

\* One round of extract_ofr, unless start is at the end of the string.
ReadOne(s, b) ==
  LET end == TokenEnd(s, b.start)
  IN IF b.start > Len(s) THEN b
     ELSE [start |-> end + 1, ofr |-> Append(b.ofr, GetRoute(Number(SubSeq(s, b.start, end - 1))))]

\* extract_ofr: a string of n characters has no more than n ids.
ExtractOfr(s) ==
  LET x[k \in 0 .. Len(s)] == IF k = 0 THEN [start |-> 1, ofr |-> <<>>] ELSE ReadOne(s, x[k - 1])
  IN x[Len(s)].ofr

------------------------------------------------------------------------------
(***************************************************************************)
(* The choice of the next hop.                                             *)
(***************************************************************************)
Named(n) == {lst[n][i].addr : i \in DOMAIN lst[n]}

\* dst_is_direct, which does not look at INVALID
DstIsDirect(n, d) == \E i \in DOMAIN lst[n] : lst[n][i] = [addr |-> d, direct |-> TRUE]

\* The places in the list of the direct neighbours, and of those on road r.
Direct(n) == {i \in DOMAIN lst[n] : lst[n][i].direct}
OnSameRoad(n, r) == {i \in Direct(n) : r \in OnRoad[lst[n][i].addr]}

Abs(x) == IF x < 0 THEN -x ELSE x

\* Mutant: the comparison is turned round.
Nearer_Reversed(best, d) == best.next = None \/ Abs(d) > best.min

\* min_dist is numeric_limits<double>::max() before there is a next hop.
Nearer(best, d) == best.next = None \/ Abs(d) < best.min

\* The inner loop of restricted_forwarding_algo: min_dist is signed.
PickOn(n, r) ==
  LET Try(best, i) == LET d == Dist[n][lst[n][i].addr] - RestrictedRange
                      IN IF i \in OnSameRoad(n, r) /\ Nearer(best, d)
                           THEN [min |-> d, next |-> lst[n][i].addr] ELSE best
      b[i \in 0 .. Len(lst[n])] == IF i = 0 THEN [min |-> 0, next |-> None] ELSE Try(b[i - 1], i)
  IN b[Len(lst[n])].next

\* restricted_forwarding_algo tries the roads from the destination's end.
\* The first direct neighbour makes it look into the road's record, which is
\* a null pointer for an unknown road.
NextHop(n, r) ==
  LET hits == {i \in DOMAIN r : /\ Direct(n) # {}
                                /\ r[i] = NoRoad \/ OnSameRoad(n, r[i]) # {}}
  IN IF hits = {} THEN None
     ELSE IF r[Max(hits)] = NoRoad THEN Fault
     ELSE PickOn(n, r[Max(hits)])

------------------------------------------------------------------------------
(***************************************************************************)
(* The packet.                                                             *)
(***************************************************************************)
\* queued  : in the kernel queue of node at, with a request to its daemon;
\*           kind is the hook it came through
\* air     : sent to node at; route is empty when it has no geosvr_hdr
\* overrun : the daemon of node at reads past the end of its buffer
Packet == [where : {"queued", "air", "delivered", "dropped", "lost", "overrun"},
           at : Nodes, kind : {"SEND", "FORWARD"}, route : Seq(Chars)]

\* geosvr_queue_send_pkt: with a route the packet gets a geosvr_hdr
\* (geosvr_ip_encapsulate), without one it goes as it is.
SendTo(n, route) ==
  /\ hops < MaxHops /\ hops' = hops + 1
  /\ pkt' = [pkt EXCEPT !.where = "air", !.at = n, !.route = route]

\* drop_msg and geosvr_queue_drop_pkt
DropMsg == /\ pkt' = [pkt EXCEPT !.where = "dropped"] /\ UNCHANGED hops

Asked(n, kind) == pkt.where = "queued" /\ pkt.at = n /\ pkt.kind = kind /\ n \notin down

\* What both handlers do first: the packet is for this node or for one it
\* lists as direct (send_msg_without_handle), or for one it does not list.
HandleNear(n) ==
  /\ \/ (n = dst \/ DstIsDirect(n, dst)) /\ SendTo(dst, <<>>)
     \/ n # dst /\ dst \notin Named(n) /\ DropMsg
  /\ UNCHANGED <<down, ofr>>

Far(n) == n # dst /\ dst \in Named(n) /\ ~DstIsDirect(n, dst)

\* The checks of ofr.size() and of nhop.s_addr.
Found(next) == next # None

\* The rest of the handlers, for route r; len is the route_len they send.
FollowOfr(n, r, len) ==
  LET next == IF r = <<>> THEN None ELSE NextHop(n, r)
  IN CASE ~Found(next) -> DropMsg /\ UNCHANGED down
       [] next = Fault -> down' = down \cup {n} /\ UNCHANGED <<pkt, hops>>
       [] OTHER -> SendTo(next, SubSeq(OfrToString(r), 1, len)) /\ UNCHANGED down

\* handle_req_route_send_normal
HandleSend(n) ==
  /\ Asked(n, "SEND")
  /\ \/ HandleNear(n)
     \/ Far(n) /\ \E r \in Ofrs : ofr' = r /\ FollowOfr(n, r, Len(OfrToString(r)))
  /\ UNCHANGED <<lst, dst, changes>>

\* handle_req_route_forward_normal: route_len is the number of roads.
\* nl_recv_msg leaves no terminating zero behind a request that fills its
\* buffer.
HandleForward(n) ==
  /\ Asked(n, "FORWARD")
  /\ \/ HandleNear(n)
     \/ /\ Far(n) /\ Len(pkt.route) < RouteCap
        /\ LET r == ExtractOfr(pkt.route) IN FollowOfr(n, r, Len(r))
        /\ UNCHANGED ofr
     \/ /\ Far(n) /\ Len(pkt.route) >= RouteCap
        /\ pkt' = [pkt EXCEPT !.where = "overrun"] /\ UNCHANGED <<down, ofr, hops>>
  /\ UNCHANGED <<lst, dst, changes>>

\* geosvr_hook at NF_INET_PRE_ROUTING: a packet for this node is accepted,
\* another one loses its header and waits for a route.
Arrive ==
  /\ pkt.where = "air"
  /\ pkt' = IF pkt.at = dst THEN [pkt EXCEPT !.where = "delivered"]
                            ELSE [pkt EXCEPT !.where = "queued", !.kind = "FORWARD"]
  /\ UNCHANGED <<lst, down, dst, ofr, hops, changes>>

\* The next hop is out of range, or radio loses the packet.
Lose ==
  /\ pkt.where = "air"
  /\ pkt' = [pkt EXCEPT !.where = "lost"]
  /\ UNCHANGED <<lst, down, dst, ofr, hops, changes>>

------------------------------------------------------------------------------
(***************************************************************************)
(* The neighbour lists, as far as routing sees them (see NeighList).       *)
(***************************************************************************)
Changed(n, l) ==
  /\ changes < MaxChanges /\ changes' = changes + 1
  /\ lst' = [lst EXCEPT ![n] = l]
  /\ UNCHANGED <<down, pkt, dst, ofr, hops>>

\* neigh_list_insert puts the entry in front, neigh_list_update leaves it
\* where it is.
Hear(n, m, d) ==
  LET new == [addr |-> m, direct |-> d]
  IN Changed(n, IF m \in Named(n)
                  THEN [i \in DOMAIN lst[n] |-> IF lst[n][i].addr = m THEN new ELSE lst[n][i]]
                  ELSE <<new>> \o lst[n])

\* list_cleaner_cb
Clean(n, m) == \E i \in DOMAIN lst[n] : lst[n][i].addr = m /\ Changed(n, RemoveAt(lst[n], i))

------------------------------------------------------------------------------
ForwardInit ==
  /\ lst = Lists
  /\ down = {} /\ ofr = <<>> /\ hops = 0 /\ changes = 0
  /\ dst \in Nodes
  /\ \E n \in Nodes : pkt = [where |-> "queued", at |-> n, kind |-> "SEND", route |-> <<>>]

ForwardNext ==
  \/ \E n \in Nodes : HandleSend(n) \/ HandleForward(n)
  \/ Arrive \/ Lose
  \/ \E n \in Nodes : \E m \in Nodes \ {n} : Clean(n, m) \/ \E d \in BOOLEAN : Hear(n, m, d)

ForwardSpec == ForwardInit /\ [][ForwardNext]_forwardVars

------------------------------------------------------------------------------
(***************************************************************************)
(* Properties.                                                             *)
(***************************************************************************)

\* Every variable holds a value of its type.
ForwardTypeOK ==
  /\ \A n \in Nodes : \A i \in DOMAIN lst[n] : lst[n][i] \in Entries
  /\ down \subseteq Nodes /\ dst \in Nodes
  /\ pkt.where \in {"queued", "air", "delivered", "dropped", "lost", "overrun"}
  /\ pkt.at \in Nodes /\ pkt.kind \in {"SEND", "FORWARD"}
  /\ \A i \in DOMAIN pkt.route : pkt.route[i] \in Chars
  /\ ofr \in Ofrs \cup {<<>>}
  /\ hops \in 0 .. MaxHops /\ changes \in 0 .. MaxChanges

\* The first relay reads the very route the source's daemon computed:
\* extract_ofr undoes ofr_tostring, for ids of one and of several digits.
FirstRelayReadsOfr ==
  hops = 1 /\ pkt.where = "queued" /\ pkt.route # <<>> =>
    ExtractOfr(pkt.route) = ofr

\* However often it is parsed, cut (route_len is the number of roads in
\* handle_req_route_forward_normal) and written again, the route a packet
\* carries is the beginning of the string its source wrote: a relay loses
\* the roads near the destination, it never invents or reorders one.
CarriedRouteIsPrefix == ofr # <<>> => IsPrefix(pkt.route, OfrToString(ofr))

\* What ofr_tostring wrote is what extract_ofr reads, up to the cut that a
\* relay's wrong route_len makes, in states of the right types.
RouteStringIsSound == ForwardTypeOK /\ FirstRelayReadsOfr /\ CarriedRouteIsPrefix

\* A daemon dies of an unknown road only when a relay before it cut the
\* string inside a road id.
FaultOnlyAfterCut ==
  down # {} => LET s == OfrToString(ofr)  k == Len(pkt.route)
               IN /\ hops > 1 /\ 0 < k /\ k < Len(s)
                  /\ s[k] # Comma /\ s[k + 1] # Comma

\* restricted_forwarding_algo chooses, on the road nearest to the
\* destination that has a direct neighbour, one whose distance is as near
\* to RESTRICTED_RANGE as that of every neighbour listed before it, and of
\* those behind it too unless it is itself within the range: min_dist is
\* negative then and nothing compares as smaller.
NextHopBestSoFar ==
  \A n \in Nodes, r \in Ofrs :
    NextHop(n, r) \in Nodes =>
      \E i \in DOMAIN r :
        LET cand == OnSameRoad(n, r[i])
            Metres(j) == Dist[n][lst[n][j].addr]
            Off(j) == Abs(Metres(j) - RestrictedRange)
        IN /\ \A k \in i + 1 .. Len(r) : OnSameRoad(n, r[k]) = {}
           /\ \E j \in cand :
                /\ lst[n][j].addr = NextHop(n, r)
                /\ \A m \in cand : m < j \/ Metres(j) >= RestrictedRange => Off(j) <= Off(m)

=============================================================================
