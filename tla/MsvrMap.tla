------------------------------- MODULE MsvrMap -------------------------------
(***************************************************************************)
(* The search of the ns-2 MSVR agent (msvr/map/msvr_map.cc, getPaths): it  *)
(* collects candidate paths on the map of MsvrGeo and returns one of them. *)
(* Like the daemon's map manager (MapRoutes) each round marks the roads it *)
(* uses with the largest int; unlike it, the distances are doubles, so     *)
(* that a marked road is long but can still be travelled, and the types    *)
(* are put back from what the rounds saw rather than from a database.      *)
(*                                                                         *)
(* One action is one round of the loop of getPaths.  Boost's               *)
(* dijkstra_shortest_paths may return any shortest path.                   *)
(***************************************************************************)
EXTENDS MsvrGeo

CONSTANTS
    RoadType,   \* the type each road is made with
    Places,     \* positions of vehicles
    IntMax,     \* numeric_limits<int>::max()
    MaxRounds   \* rounds of one search (bound)

ASSUME MapAssumption ==
    /\ IntMax \in Nat /\ MaxRounds \in Nat
    /\ RoadType \in [RoadIdx -> 1 .. IntMax - 1]

\* The types along a path add up to an int.
ASSUME TypesFit ==
    \A i \in RoadIdx : RoadType[i] * Cardinality(Nodes) <= IntMax

VARIABLES
    pc,      \* "idle", "search" inside getPaths, "crash" once it read outside a vector
    asked,   \* the positions of the last request
    rect,    \* getSrcAndDst: the intersections the path is to join
    type,    \* the types in map_
    cands,   \* the candidates of this request
    crossed, \* roads that were marked already when a candidate took them (history)
    answer   \* what the last getPaths returned

searchVars == <<pc, asked, rect, type, cands, crossed, answer>>

-----------------------------------------------------------------------------
SearchInit ==
    /\ pc = "idle" /\ asked = << >> /\ rect = <<0, 0>>
    /\ type = RoadType
    /\ cands = << >> /\ crossed = {} /\ answer = << >>

\* getPaths is called.
Ask(p1, p2) ==
    /\ pc = "idle"
    /\ pc' = "search" /\ asked' = <<p1, p2>>
    /\ rect' \in getSrcAndDst(p1, p2)
    /\ cands' = << >> /\ answer' = << >>
    /\ UNCHANGED <<type, crossed>>

\* Mutant: a marked road counts too.
hasNextPath_Marked == \E i \in RoadIdx : LeadsTo(i, rect[1], rect[2])

\* A road that is not marked leads to the destination from an intersection
\* nearer to the source.
hasNextPath == \E i \in RoadIdx : type[i] # IntMax /\ LeadsTo(i, rect[1], rect[2])

\* The roads of a path from its end to its start: the order in which the
\* predecessors are walked.
RoadsBack(s) == [k \in 1 .. Len(s) - 1 |->
                    RoadBetween(s[Len(s) - k], s[Len(s) - k + 1])]
TypesOf(rs) == [k \in DOMAIN rs |-> type[rs[k]]]
Total(ts) ==
    LET f[k \in 0 .. Len(ts)] == IF k = 0 THEN 0 ELSE f[k-1] + ts[k]
    IN  f[Len(ts)]

\* External: dijkstra_shortest_paths and its predecessor map.
Shortest(u, v) ==
    LET all == AllPaths[u][v]
        Len2(s) == Total(TypesOf(RoadsBack(s)))
    IN  {s \in all : \A r \in all : Len2(s) <= Len2(r)}

\* One round: the roads of a shortest path are recorded with their types and
\* marked.
Round ==
    /\ pc = "search" /\ hasNextPath /\ Len(cands) < MaxRounds
    /\ \E s \in Shortest(rect[1], rect[2]) :
          LET rs == RoadsBack(s)
          IN  /\ cands' = Append(cands, [path |-> s, roads |-> rs, types |-> TypesOf(rs)])
              /\ type' = [i \in RoadIdx |-> IF i \in Range(rs) THEN IntMax ELSE type[i]]
              /\ crossed' = crossed \cup {i \in Range(rs) : type[i] = IntMax}
    /\ UNCHANGED <<pc, asked, rect, answer>>

-----------------------------------------------------------------------------
\* Signed addition wraps around in the build.
Wrap(x) == IF x > IntMax THEN x - 2 * (IntMax + 1) ELSE x
SumOf(c) ==
    LET f[k \in 0 .. Len(c.types)] == IF k = 0 THEN 0 ELSE Wrap(f[k-1] + c.types[k])
    IN  f[Len(c.types)]

\* meanSquare, squared and not yet divided by the number of roads; the mean is
\* an integer quotient.
Deviation(c) ==
    LET mean == SumOf(c) \div Len(c.types)
    IN  Total([k \in DOMAIN c.types |-> Square(c.types[k] - mean)])

\* A sum that wrapped is divided as an unsigned number: its mean exceeds every
\* type, and the more roads the less.
Evener(c, d) ==
    \/ SumOf(c) >= 0 /\ SumOf(d) >= 0
       /\ Deviation(c) * Len(d.types) < Deviation(d) * Len(c.types)
    \/ SumOf(c) >= 0 /\ SumOf(d) < 0
    \/ SumOf(c) < 0 /\ SumOf(d) < 0 /\ Len(c.types) > Len(d.types)

\* Mutant: the smallest deviation decides at once.
findMeanMin_Even(cs) ==
    CHOOSE k \in DOMAIN cs : \A j \in DOMAIN cs :
        Evener(cs[k], cs[j]) \/ (~Evener(cs[j], cs[k]) /\ k <= j)

\* The smallest sum, if one candidate alone has it, else the first of the
\* smallest deviation, whatever its sum.
findMeanMin(cs) ==
    LET least == {k \in DOMAIN cs : \A j \in DOMAIN cs : SumOf(cs[k]) <= SumOf(cs[j])}
    IN  IF Cardinality(least) = 1
        THEN CHOOSE k \in least : TRUE
        ELSE CHOOSE k \in DOMAIN cs : \A j \in DOMAIN cs :
                Evener(cs[k], cs[j]) \/ (~Evener(cs[j], cs[k]) /\ k <= j)

\* A candidate gives its roads the types it saw.
PutBack(ty, c) ==
    [i \in RoadIdx |-> IF i \in Range(c.roads)
                      THEN c.types[CHOOSE k \in DOMAIN c.roads : c.roads[k] = i] ELSE ty[i]]

\* Mutant: the first candidate's roads stay marked.
Restored_Later(cs) ==
    LET f[k \in 0 .. Len(cs)] == IF k <= 1 THEN type ELSE PutBack(f[k-1], cs[k])
    IN  f[Len(cs)]

\* The candidates are gone through in the order they were found.
Restored(cs) ==
    LET f[k \in 0 .. Len(cs)] == IF k = 0 THEN type ELSE PutBack(f[k-1], cs[k])
    IN  f[Len(cs)]

\* getPaths returns the chosen candidate.
Return ==
    /\ pc = "search" /\ ~hasNextPath /\ cands # << >>
    /\ pc' = "idle"
    /\ answer' = cands[findMeanMin(cands)].path
    /\ type' = Restored(cands)
    /\ UNCHANGED <<asked, rect, cands, crossed>>

\* Without a candidate paths_vec[0] is read all the same.
ReadNothing ==
    /\ pc = "search" /\ ~hasNextPath /\ cands = << >>
    /\ pc' = "crash"
    /\ UNCHANGED <<asked, rect, type, cands, crossed, answer>>

SearchNext ==
    \/ \E p1, p2 \in Places : Ask(p1, p2)
    \/ Round \/ Return \/ ReadNothing

SearchSpec == SearchInit /\ [][SearchNext]_searchVars

\* A call of getPaths runs on until it returns.
SearchFairSpec == SearchSpec /\ WF_searchVars(Round \/ Return \/ ReadNothing)

-----------------------------------------------------------------------------
(* Properties *)

\* Types of the map, the request and its candidates.
SearchTypeOK ==
    /\ pc \in {"idle", "search", "crash"}
    /\ asked \in {<< >>} \cup (Places \X Places)
    /\ rect \in Nodes \X Nodes
    /\ type \in [RoadIdx -> 1 .. IntMax]
    /\ Len(cands) <= MaxRounds
    /\ crossed \subseteq RoadIdx
    /\ answer \in Seq(Nodes)

\* getPaths leaves the map as it found it, except for roads that a candidate
\* took although an earlier one had marked them: the mark is then what is put
\* back last.
MarksStayOnlyWhereCrossed ==
    pc = "idle" => \A i \in RoadIdx : type[i] = RoadType[i] \/ i \in crossed

\* getPaths reads an empty list of candidates only when a vehicle is off the
\* map, or the destination's road comes before the source's in the edge list,
\* where its end is chosen before the source's is known, or both ends of that
\* road are equally far from the source's end, so that neither is the nearer
\* one, or an earlier search has left a road marked.
CrashOnlyOutOfOrder ==
    pc = "crash" =>
        LET i == getRoadByPos(asked[1])
            j == getRoadByPos(asked[2])
        IN  \/ i = NoRoad \/ j = NoRoad \/ j < i
            \/ Dist2(At[Roads[j].s], At[rect[1]]) = Dist2(At[Roads[j].t], At[rect[1]])
            \/ type # RoadType

\* Of the candidates the cheapest is returned, unless two are the cheapest or
\* one took a marked road.
AnswerCheapestUnlessTied ==
    (pc = "idle" /\ answer # << >> /\ crossed = {}) =>
        LET S(k) == Total(cands[k].types)
            mine == CHOOSE k \in DOMAIN cands : cands[k].path = answer
        IN  \/ \A k \in DOMAIN cands : S(mine) <= S(k)
            \/ \E j, k \in DOMAIN cands :
                  j # k /\ S(j) = S(k) /\ \A l \in DOMAIN cands : S(j) <= S(l)

\* getPaths returns what it is meant to, in states of the right types.
AnswerIsSound == SearchTypeOK /\ AnswerCheapestUnlessTied

\* How many roads of a path are marked.
Marks(s) == Cardinality({i \in Range(RoadsBack(s)) : type[i] = IntMax})

\* A road that is not marked leads to the destination, but no round will mark
\* it: whatever path ends with it, another one is all marked and yet shorter,
\* for it has no more marked roads than the first, which has this road besides.
\* So it is, too, when no path ends with the road at all.
CutOff ==
    LET paths == AllPaths[rect[1]][rect[2]]
    IN  \E i \in RoadIdx :
            /\ type[i] # IntMax /\ LeadsTo(i, rect[1], rect[2])
            /\ \A r \in paths : RoadsBack(r)[1] = i =>
                   \E s \in paths : Marks(s) = Len(s) - 1 /\ Marks(s) <= Marks(r)

\* getPaths returns, unless its rounds cut off a road and so keep hasNextPath
\* true; then it never returns.
ReturnsUnlessCutOff ==
    /\ (pc = "search") ~> (pc # "search" \/ CutOff)
    /\ [][pc = "search" /\ CutOff => pc' = "search" /\ CutOff']_searchVars
=============================================================================
