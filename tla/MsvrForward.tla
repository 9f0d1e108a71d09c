----------------------------- MODULE MsvrForward -----------------------------
(***************************************************************************)
(* The way of one data packet through the vehicles of an MSVR simulation:  *)
(* the neighbour lists (msvr/neigh), which fill by information packets and *)
(* age, and request_routing_cb (msvr/msvr_agent.cc), which gives the       *)
(* packet a path of intersections, chooses the next vehicle along it and   *)
(* takes off what is passed.                                               *)
(*                                                                         *)
(* A vehicle knows where its neighbours were, but asks the simulator where *)
(* the source, the destination, itself and the next hop are: old and true  *)
(* positions meet.  A packet that comes back to its source is dropped, but *)
(* nothing is counted down: in another circle it would go for ever.        *)
(*                                                                         *)
(* Buffers and the queue are the subject of CpcNs, the search for paths    *)
(* that of MsvrMap: here getPaths returns any path between the two         *)
(* intersections, or never returns.  Pointers have four bytes, as there.   *)
(***************************************************************************)
EXTENDS MsvrGeo

CONSTANTS
    Cars,       \* the vehicles, each with an MsvrAgent
    Src, Dst,   \* source and destination of the packet
    Spots,      \* positions of vehicles
    Starts,     \* where the vehicles may be at the start
    Reach,      \* the distance in which a radio is heard
    None,       \* what a list holds of a vehicle it does not name
    MaxMoves    \* moves of vehicles (bound)

ASSUME CarsAssumption ==
    /\ Src \in Cars /\ Dst \in Cars /\ Src # Dst
    /\ Starts \subseteq [Cars -> Spots] /\ None \notin Spots
    /\ Reach \in Nat /\ MaxMoves \in Nat

VARIABLES
    pos,    \* where the vehicles are
    nbl,    \* nbl[c][d]: where c's list says that d is, or None
    pkt,    \* the packet: what became of it, the vehicle it goes to, its path
    orig,   \* the path getPaths returned last for it (history)
    moves   \* moves so far (history)

vars == <<pos, nbl, pkt, orig, moves>>

\* Some intersections are joined by more than one path.
Detours == \E u, v \in Nodes : Cardinality(AllPaths[u][v]) > 1

\* What getPaths may return between two intersections, for some types of the
\* roads.  Where every path is the only one, none when its loop is never entered
\* or never left; with detours what the rounds do depends on the types, and on
\* marks that earlier requests left, see MsvrMap, and any path is possible.
getPaths(u, v) ==
    LET paths == AllPaths[u][v]
        ways == {i \in RoadIdx : LeadsTo(i, u, v)}
        lasts == {RoadBetween(p[Len(p) - 1], p[Len(p)]) : p \in paths}
    IN  IF ways # {} /\ (Detours \/ ways \subseteq lasts) THEN paths ELSE {}

\* Functions, so that they are computed once.
RoadOf == [p \in Spots |-> getRoadByPos(p)]
PathsFor == [p1 \in Spots |-> [p2 \in Spots |->
              UNION {getPaths(r[1], r[2]) : r \in getSrcAndDst(p1, p2)}]]
MayNotReturn == [p1 \in Spots |-> [p2 \in Spots |->
                  Detours \/ \E r \in getSrcAndDst(p1, p2) : getPaths(r[1], r[2]) = {}]]

Near(c, d) == Dist2(pos[c], pos[d]) <= Square(Reach)
Running == pkt.where \in {"app", "air"}
Listed(c) == {d \in Cars : nbl[c][d] # None}

-----------------------------------------------------------------------------
(* msvr_nblist.cc: the next hop *)

\* abs(tmplen - goal), cut off to an integer: depending on the headers of the
\* build abs takes an int or a double.  Where the integers tie, the fraction or
\* the order of the list decides, and any of the vehicles is taken here.
Goal == 100
Root(d) == CHOOSE k \in 0 .. d : Square(k) <= d /\ d < Square(k + 1)
Off == [p \in Spots |-> [q \in Spots |->
          LET d == Dist2(p, q)  k == Root(d)
          IN  IF d >= Square(Goal) THEN k - Goal
              ELSE Goal - (IF Square(k) = d THEN k ELSE k + 1)]]
MaxOff == 200

\* Mutant: the distance to the point ahead is not compared.
Ahead_Anywhere(p, here, point) == TRUE

\* Nearer to the point ahead than this vehicle.
Ahead(p, here, point) == Dist2(point, p) < Dist2(here, point)

\* msvr_nbl_find_next_hop and msvr_get_next_hop; without a neighbour on the
\* roads and ahead, the destination itself.
NextHops(n, roads, here, point) ==
    LET fit == {c \in Listed(n) : /\ RoadOf[nbl[n][c]] \in roads
                                  /\ Off[here][nbl[n][c]] < MaxOff
                                  /\ Ahead(nbl[n][c], here, point)}
    IN  IF fit = {} THEN {Dst}
        ELSE {c \in fit : \A d \in fit : Off[here][nbl[n][c]] <= Off[here][nbl[n][d]]}

-----------------------------------------------------------------------------
(* msvr_agent.cc: request_routing_cb *)

FirstRoad(path) == RoadBetween(path[1], path[2])

\* The roads of the next hop: the first two of the path, or the last and that
\* of the destination; and the source's, also when it is no road at all.
HopRoads(path) ==
    LET r2 == IF Len(path) > 2 THEN RoadBetween(path[2], path[3]) ELSE RoadOf[pos[Dst]]
    IN  {FirstRoad(path), RoadOf[pos[Src]]} \cup ({r2} \ {NoRoad})

\* The second intersection ahead, if there is one.
PointAhead(path) == At[path[IF Len(path) > 2 THEN 3 ELSE 2]]

\* Mutant: every hop takes off a road.
Trimmed_EveryHop(path, relay, next) == Tail(path)

\* "remove passed path": the relay is on the first road, the next hop is not.
Trimmed(path, relay, next) ==
    IF FirstRoad(path) # RoadOf[pos[next]] /\ RoadOf[relay] = FirstRoad(path)
    THEN Tail(path) ELSE path

\* sendProtPacketWithData; the link layer brings the packet to the next hop if
\* it is near, or loses it.
Send(n, next, path) ==
    \E fate \in {"lost"} \cup (IF Near(n, next) THEN {"air"} ELSE {}) :
        pkt' = [where |-> fate, at |-> next, path |-> path]

\* The destination is in the list: the path is computed afresh, from the source
\* and not from the relay, and the packet sent to the destination.
RouteDirect(n) ==
    /\ Dst \in Listed(n)
    /\ \E path \in PathsFor[pos[Src]][pos[Dst]] :
          Send(n, Dst, Trimmed(path, pos[Src], Dst)) /\ orig' = path

\* Otherwise along the path: at the source the one it asks for, at a relay the
\* one in the packet.
RouteAlong(n, path) ==
    /\ Dst \notin Listed(n)
    /\ \E next \in NextHops(n, HopRoads(path), pos[n], PointAhead(path)) :
          Send(n, next, Trimmed(path, pos[n], next))

End(how) == pkt' = [pkt EXCEPT !.where = how] /\ UNCHANGED orig

\* getPaths reads an empty vector, or goes on for ever, see MsvrMap.
SimulationStops ==
    /\ MayNotReturn[pos[Src]][pos[Dst]]
    /\ End("halted")

\* CpcAgent::recv and processPacket for the packet of the application.
Inject ==
    /\ pkt.where = "app"
    /\ \/ RouteDirect(Src)
       \/ \E path \in PathsFor[pos[Src]][pos[Dst]] : RouteAlong(Src, path) /\ orig' = path
       \/ SimulationStops
    /\ UNCHANGED <<pos, nbl, moves>>

\* What becomes of a packet without a road to follow.
OutOfPath == {"dropped", "astray"}

\* The same for a packet from the air: the MAC layer has counted num_forwards
\* up, so one that is back at its source is dropped; so is one that has less
\* than two intersections left.  Of the pointer to these only half was sent, the
\* other half is an older one's: if they do not fit, the packet goes astray, and
\* is not followed further.
Arrive ==
    /\ pkt.where = "air"
    /\ LET n == pkt.at
       IN  \/ n = Src /\ End("looped")
           \/ n = Dst /\ End("delivered")
           \/ /\ n \notin {Src, Dst}
              /\ \/ RouteDirect(n)
                 \/ Dst \in Listed(n) /\ SimulationStops
                 \/ Len(pkt.path) >= 2 /\ RouteAlong(n, pkt.path) /\ UNCHANGED orig
                 \/ Len(pkt.path) < 2 /\ Dst \notin Listed(n) /\ \E how \in OutOfPath : End(how)
    /\ UNCHANGED <<pos, nbl, moves>>

-----------------------------------------------------------------------------
(* msvr_neigh.cc, msvr_nblist.cc, and the vehicles *)

\* An information packet of c renews its entry, or makes one.
msvr_nbladd(list, c) == [list EXCEPT ![c] = pos[c]]

\* Erases the entries that are too old.
msvr_nblaging(list, old) == [e \in Cars |-> IF e \in old THEN None ELSE list[e]]

\* MsvrNeighTimer::expire: an information packet to whom it reaches, then the
\* aging of the own list.  The age is that of the wall clock, which the
\* simulated time does not follow: any entry may be too old.
Expire(c) ==
    /\ Running
    /\ \E heard \in SUBSET {d \in Cars \ {c} : Near(c, d)}, old \in SUBSET Listed(c) :
          nbl' = [d \in Cars |-> IF d \in heard THEN msvr_nbladd(nbl[d], c)
                                 ELSE IF d = c THEN msvr_nblaging(nbl[d], old)
                                 ELSE nbl[d]]
    /\ UNCHANGED <<pos, pkt, orig, moves>>

\* External: the simulator moves a vehicle.
Move(c) ==
    /\ Running /\ moves < MaxMoves
    /\ \E p \in Spots \ {pos[c]} : pos' = [pos EXCEPT ![c] = p]
    /\ moves' = moves + 1
    /\ UNCHANGED <<nbl, pkt, orig>>

Init ==
    /\ pos \in Starts
    /\ nbl = [c \in Cars |-> [d \in Cars |-> None]]
    /\ pkt = [where |-> "app", at |-> Src, path |-> << >>]
    /\ orig = << >> /\ moves = 0

Next == Inject \/ Arrive \/ \E c \in Cars : Expire(c) \/ Move(c)

Spec == Init /\ [][Next]_vars

\* Packets do not stay in the air.
FairSpec == Spec /\ WF_vars(Inject \/ Arrive)

-----------------------------------------------------------------------------
(* Properties *)

\* Every variable holds a value of its type.
TypeOK ==
    /\ pos \in [Cars -> Spots]
    /\ \A c \in Cars : nbl[c] \in [Cars -> Spots \cup {None}]
    /\ pkt.where \in {"app", "air", "delivered", "lost", "looped", "halted"} \cup OutOfPath
    /\ pkt.at \in Cars /\ pkt.path \in Seq(Nodes)
    /\ orig \in Seq(Nodes) /\ moves \in 0 .. MaxMoves

\* A vehicle on the source's road is nearer to the end of the path than one on
\* the destination's road, which may therefore send the packet back to it: the
\* source's road counts at every hop.
BackOnSourceRoad ==
    /\ RoadOf[pos[Src]] # RoadOf[pos[Dst]]
    /\ \E c, n \in Cars :
          /\ RoadOf[pos[c]] = RoadOf[pos[Src]] /\ RoadOf[pos[n]] = RoadOf[pos[Dst]]
          /\ Dist2(At[orig[Len(orig)]], pos[c]) < Dist2(pos[n], At[orig[Len(orig)]])

\* Between vehicles that stand still a packet runs out of path only when the
\* path it was given does not end with its destination's road (getSrcAndDst
\* chooses the end of that road, not the way there), or when the last relay
\* took a way back to the source's road for a way ahead: otherwise no relay
\* takes off a road that is still needed.
PathLasts ==
    (pkt.where \in OutOfPath /\ moves = 0) =>
        \/ RoadBetween(orig[Len(orig) - 1], orig[Len(orig)]) # RoadOf[pos[Dst]]
        \/ BackOnSourceRoad

\* The path in the header lasts as far as PathLasts says, in states of the
\* right types.
PathIsSound == TypeOK /\ PathLasts

\* The lists say where the vehicles are, as far as they name them.
ListsAreTrue == \A c, e \in Cars : nbl[c][e] \in {None, pos[e]}

\* A packet circles for ever only between vehicles that go on believing old
\* positions: there is no hop count, a relay that lists the destination computes
\* the path afresh, and entries come and go all the while.  (A packet that has
\* run out of path, and one for which getPaths does not return, have ended.)
PacketEnds == <>[]ListsAreTrue => <>~Running

=============================================================================
