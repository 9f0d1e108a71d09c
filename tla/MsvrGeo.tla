------------------------------- MODULE MsvrGeo -------------------------------
(***************************************************************************)
(* The road map of the ns-2 MSVR agent as msvr/map/msvr_map.cc sees it:    *)
(* intersections with positions, the roads between them, the road of a     *)
(* position and the two intersections between which a packet travels.      *)
(* The search for paths (MsvrMap) and the relaying of packets along them   *)
(* (MsvrForward) share it.  Lengths are compared by their squares.         *)
(***************************************************************************)
EXTENDS Integers, Sequences, SequencesExt, FiniteSets, FiniteSetsExt

CONSTANTS
    Nodes,      \* intersections; the id of each is its vertex, from 0
    At,         \* At[n]: its position <<x, y>>, in metres
    Roads       \* the edges in order, each from s to t

RoadIdx == DOMAIN Roads

ASSUME GeoAssumption ==
    /\ 0 \in Nodes /\ Nodes \subseteq Nat /\ IsFiniteSet(Nodes)
    /\ At \in [Nodes -> Int \X Int]
    /\ Roads \in Seq([s : Nodes, t : Nodes])
    /\ \A i \in RoadIdx : At[Roads[i].s] # At[Roads[i].t]
    /\ \A i, j \in RoadIdx :
          {Roads[i].s, Roads[i].t} = {Roads[j].s, Roads[j].t} => i = j

\* No road: the id -1.
NoRoad == 0

Square(a) == a * a
Dist2(a, b) == Square(a[1] - b[1]) + Square(a[2] - b[2])
Ends(i) == {Roads[i].s, Roads[i].t}
RoadBetween(u, v) == CHOOSE i \in RoadIdx : Ends(i) = {u, v}
Joined(u, v) == \E i \in RoadIdx : Ends(i) = {u, v}

\* MSVR_ROAD_PAD
Pad == 30

-----------------------------------------------------------------------------
\* The rectangle around a road, widened on all sides.
OnRoad(p, i) ==
    \A c \in {1, 2} :
        LET ends == {At[n][c] : n \in Ends(i)}
        IN  Min(ends) - Pad <= p[c] /\ p[c] <= Max(ends) + Pad

\* The rectangles overlap: the first road counts, in the order of the vertices
\* the roads start from.
getRoadByPos(p) ==
    LET hit == {i \in RoadIdx : OnRoad(p, i)}
        Before(i, j) == \/ Roads[i].s < Roads[j].s
                        \/ Roads[i].s = Roads[j].s /\ i <= j
    IN  IF hit = {} THEN NoRoad ELSE CHOOSE i \in hit : \A j \in hit : Before(i, j)

\* The end of the source's road that is nearer to it.
NearerEnd(i, p) ==
    IF Dist2(At[Roads[i].s], p) < Dist2(At[Roads[i].t], p) THEN Roads[i].s ELSE Roads[i].t

\* Mutant: of the destination's road the nearer end is taken.
getSrcAndDst_Nearer(p1, p2) ==
    LET i == getRoadByPos(p1)
        j == getRoadByPos(p2)
        first == IF i = NoRoad THEN 0 ELSE NearerEnd(i, p1)
    IN  {<<first, IF j = NoRoad THEN 0 ELSE NearerEnd(j, At[first])>>}

\* One loop over the edges sets both intersections, so that the end of the
\* destination's road is chosen with what is known of the source when its edge
\* comes: before the source's own edge path.first is still 0, and the
\* coordinates it is compared with are uninitialised.  On the source's road or
\* next to it the other end is taken, else the farther one.
getSrcAndDst(p1, p2) ==
    LET i == getRoadByPos(p1)
        j == getRoadByPos(p2)
        known == i # NoRoad /\ i <= j
        first == IF i = NoRoad THEN 0 ELSE NearerEnd(i, p1)
        sofar == IF known THEN first ELSE 0
        s == Roads[j].s
        t == Roads[j].t
        second == CASE j = NoRoad -> {0}
                    [] j # NoRoad /\ sofar = s -> {t}
                    [] j # NoRoad /\ sofar = t -> {s}
                    [] j # NoRoad /\ sofar \notin {s, t} /\ ~known -> {s, t}
                    [] OTHER -> {IF Dist2(At[s], At[first]) > Dist2(At[t], At[first]) THEN s ELSE t}
    IN  {first} \X second

\* The paths without repetition.
PathsBetween(u, v) ==
    {s \in {<<u>> \o via \o <<v>> : via \in SeqOf(Nodes \ {u, v}, Cardinality(Nodes) - 2)} :
        /\ IsInjective(s)
        /\ \A k \in 1 .. Len(s) - 1 : Joined(s[k], s[k+1])}

\* A function, so that they are computed once.
AllPaths == [u \in Nodes |-> [v \in Nodes |-> PathsBetween(u, v)]]

\* Road i leads to dst from an intersection nearer to src than dst is.
LeadsTo(i, src, dst) ==
    /\ dst \in Ends(i)
    /\ \E o \in Ends(i) \ {dst} : Dist2(At[src], At[dst]) > Dist2(At[src], At[o])
=============================================================================
