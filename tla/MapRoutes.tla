------------------------------ MODULE MapRoutes ------------------------------
(***************************************************************************)
(* The route search of MapManager (map_manager.cc): get_optimal_route      *)
(* collects candidate routes between two nodes of the map.  Each round of  *)
(* get_routes runs Dijkstra's algorithm over the types of the roads and    *)
(* then sets the types of the roads it reports to the largest int, in the  *)
(* map itself, so that the next round avoids them.  restore_routes puts    *)
(* the types back and cal_optimal_route picks one of the candidates.       *)
(*                                                                         *)
(* Positions are left out: on_road may match the ends of a request to any  *)
(* two roads, and either end of a road may be the nearer one.  Boost's     *)
(* dijkstra_shortest_paths may return any shortest path.                   *)
(***************************************************************************)
EXTENDS Integers, Sequences, SequencesExt, FiniteSets, FiniteSetsExt

CONSTANTS
  Nodes,    \* vertices of map_; their descriptors are the node ids
  Roads,    \* edges(*map_) in order: road id and the two nodes it joins
  Classes,  \* values of the rclass column of the road table
  Dist,     \* Dist[u][v]: the distance between two nodes
  IntMax    \* numeric_limits<int>::max()

ASSUME MapAssumption ==
  /\ Roads \in Seq([id : Nat, s : Nodes, t : Nodes])
  /\ \A i, j \in DOMAIN Roads : Roads[i].id = Roads[j].id => i = j
  /\ IntMax \in Nat
  /\ Classes \subseteq 0..(IntMax - 1) /\ 0 < IntMax

\* The types of a route without repetition can be summed up in an int: the
\* map's classes are small numbers.
ASSUME SumsFit ==
  /\ IsFiniteSet(Nodes)
  /\ \A c \in Classes : c * Cardinality(Nodes) <= IntMax

VARIABLES
  pc,      \* "idle", or "search" inside get_optimal_route
  rclass,  \* the types in the database, by road
  type,    \* the types in map_, by road
  rect,    \* the nodes between which routes are searched
  routes,  \* the candidates of this request, in order of first occurrence
  answer   \* what the last get_optimal_route returned, until the next request

vars == <<pc, rclass, type, rect, routes, answer>>

RoadIdx == DOMAIN Roads
Ends(i) == {Roads[i].s, Roads[i].t}
Between(u, v) == {i \in RoadIdx : Ends(i) = {u, v}}

\* struct Route, with the index of the road instead of its id.
RouteRecs == [road : RoadIdx, startid : Nodes, endid : Nodes, type : 0..IntMax]

------------------------------------------------------------------------------
\* get_rect when no road is near one of the positions.
NoRect == <<-1, -1>>

\* import_data
Imported(c) == IF c = 12 THEN 0 ELSE c

Init ==
  /\ rclass \in [RoadIdx -> Classes]
  /\ type = [i \in RoadIdx |-> Imported(rclass[i])]
  /\ pc = "idle" /\ rect = NoRect
  /\ routes = <<>> /\ answer = <<>>

\* get_rect: both ends of the road when it is the same for both positions,
\* else one end of each of the two roads.
Rects == {r \in Nodes \X Nodes :
            \E i, j \in RoadIdx : IF i = j THEN r = <<Roads[i].s, Roads[i].t>>
                                           ELSE r \in Ends(i) \X Ends(j)}

\* No road within 100 m of one of the positions.
QueryOffRoad ==
  /\ pc = "idle"
  /\ rect' = NoRect /\ routes' = <<>> /\ answer' = <<>>
  /\ UNCHANGED <<pc, rclass, type>>

Query ==
  /\ pc = "idle"
  /\ rect' \in Rects
  /\ pc' = "search" /\ routes' = <<>> /\ answer' = <<>>
  /\ UNCHANGED <<rclass, type>>

------------------------------------------------------------------------------
\* more_route: a road that is not marked leads to the destination from a
\* node that is nearer to the source.
MoreRoute ==
  LET src == rect[1]  dst == rect[2]
  IN \E i \in RoadIdx :
       /\ type[i] # IntMax /\ dst \in Ends(i)
       /\ LET other == IF Roads[i].s = dst THEN Roads[i].t ELSE Roads[i].s
          IN Dist[src][other] < Dist[src][dst]

\* The paths that dijkstra_shortest_paths and its predecessor map may give:
\* a road of type IntMax is infinitely long, two roads between the same
\* nodes count as the shorter of them.
Open(u, v) == {i \in Between(u, v) : type[i] # IntMax}
Paths(u, v) ==
  {s \in {<<u>> \o via \o <<v>> : via \in BoundedSeq(Nodes, Cardinality(Nodes) - 2)} :
     /\ IsInjective(s)
     /\ \A k \in 1..(Len(s) - 1) : Open(s[k], s[k+1]) # {}}
Step(s, k) == Min({type[i] : i \in Open(s[k], s[k+1])})
Length(s) ==
  LET upto[k \in 0..(Len(s) - 1)] == IF k = 0 THEN 0 ELSE upto[k-1] + Step(s, k)
  IN upto[Len(s) - 1]
ShortestPaths(u, v) ==
  LET all == Paths(u, v)
  IN {s \in all : \A r \in all : Length(s) <= Length(r)}

\* Mutant: the walk does not mark the roads it reports.
Marked_Never(used) == type

\* The walk over the predecessors in get_route reports the first road it
\* meets between two nodes and sets its type to the maximum.
FirstRoad(u, v) == Min(Between(u, v))
RouteAlong(s) ==
  [k \in 1..(Len(s) - 1) |->
     LET i == FirstRoad(s[k], s[k+1])
     IN [road |-> i, startid |-> s[k+1], endid |-> s[k], type |-> type[i]]]
RoadsIn(r) == {r[k].road : k \in DOMAIN r}
Marked(used) == [i \in RoadIdx |-> IF i \in used THEN IntMax ELSE type[i]]

\* One round of the loop of get_routes.  A candidate that is found again
\* changes nothing for restore_routes or cal_optimal_route.
GetRoute ==
  /\ pc = "search"
  /\ rect[1] = rect[2] => Between(rect[1], rect[2]) = {}
  /\ MoreRoute
  /\ \E s \in ShortestPaths(rect[1], rect[2]) :
       /\ routes' = IF RouteAlong(s) \in Range(routes) THEN routes
                                                       ELSE Append(routes, RouteAlong(s))
       /\ type' = Marked(RoadsIn(RouteAlong(s)))
  /\ UNCHANGED <<pc, rclass, rect, answer>>

\* The candidates when get_routes returns: for a node that is both ends, the
\* first road that leads from it to itself.
Candidates ==
  IF rect[1] = rect[2] /\ Between(rect[1], rect[2]) # {}
    THEN LET i == FirstRoad(rect[1], rect[2])
         IN << << [road |-> i, startid |-> rect[1], endid |-> rect[2], type |-> type[i]] >> >>
    ELSE routes

------------------------------------------------------------------------------
\* Mutant: only the roads of the first candidate are restored.
Restored_FirstOnly(cs) ==
  LET used == IF cs = <<>> THEN {} ELSE RoadsIn(cs[1])
  IN [i \in RoadIdx |-> IF i \in used THEN rclass[i] ELSE type[i]]

\* restore_routes copies the types of the database back.
Restored(cs) ==
  LET used == UNION {RoadsIn(cs[k]) : k \in DOMAIN cs}
  IN [i \in RoadIdx |-> IF i \in used THEN rclass[i] ELSE type[i]]

\* Signed addition wraps around in the build.
Wrap(x) == IF x > IntMax THEN x - 2 * (IntMax + 1) ELSE x

\* route_attribute adds the types of the route to the value x that type
\* comes with.  The deviation is kept as the sum of squares, still to be
\* divided by the number of roads; the mean is an integer quotient.  (The
\* code divides a wrapped sum as an unsigned number.  That deviation is never
\* looked at: no later sum is negative, so none equals a wrapped one.)
SumFrom(x, r) ==
  LET upto[k \in 0..Len(r)] == IF k = 0 THEN x ELSE Wrap(upto[k-1] + r[k].type)
  IN upto[Len(r)]
RouteAttribute(x, r) ==
  LET mean == SumFrom(x, r) \div Len(r)
  IN [route |-> r, sum |-> SumFrom(x, r),
      dev |-> FoldLeft(LAMBDA sum, e : sum + (e.type - mean) * (e.type - mean), 0, r)]

\* Mutant: the sums are compared the wrong way round.
Prefer_Larger(best, r) ==
  LET new == RouteAttribute(0, r)
  IN IF best.sum < new.sum THEN new ELSE best

\* cal_optimal_route: best is replaced by r when r has a smaller sum, or the
\* same sum and a smaller deviation.
Prefer(best, r) ==
  LET new == RouteAttribute(0, r)
      evener == best.dev * Len(r) > new.dev * Len(best.route)
  IN IF best.sum > new.sum \/ (best.sum = new.sum /\ evener) THEN new ELSE best

\* min_type is IntMax when the first candidate is added to it.
CalOptimalRoute(cs) ==
  LET best[k \in 0..(Len(cs) - 1)] ==
        IF k = 0 THEN RouteAttribute(IntMax, cs[1]) ELSE Prefer(best[k-1], cs[k+1])
  IN IF cs = <<>> THEN <<>> ELSE best[Len(cs) - 1].route

\* get_routes has no more routes: restore_routes, then cal_optimal_route.
Finish ==
  /\ pc = "search"
  /\ \/ rect[1] = rect[2] /\ Between(rect[1], rect[2]) # {}
     \/ ~MoreRoute
     \/ ShortestPaths(rect[1], rect[2]) = {}
  /\ pc' = "idle"
  /\ type' = Restored(Candidates)
  /\ answer' = CalOptimalRoute(Candidates)
  /\ routes' = Candidates
  /\ UNCHANGED <<rclass, rect>>

Next == QueryOffRoad \/ Query \/ GetRoute \/ Finish

Spec == Init /\ [][Next]_vars

\* A call of get_optimal_route runs on until it returns.
FairSpec == Spec /\ WF_vars(GetRoute \/ Finish)

------------------------------------------------------------------------------
(***************************************************************************)
(* Properties.                                                             *)
(***************************************************************************)

\* Every variable holds a value of its C++ type.
TypeOK ==
  /\ pc \in {"idle", "search"}
  /\ rclass \in [RoadIdx -> Classes]
  /\ type \in [RoadIdx -> 0..IntMax]
  /\ rect \in (Nodes \X Nodes) \cup {NoRect}
  /\ routes \in Seq(Seq(RouteRecs))
  /\ answer \in Seq(RouteRecs)

\* A search leaves no road at the maximum: between two requests every road
\* has its type from the database or the one import_data gave it, whatever
\* roads the rounds of the search ran over.
NoMarkSurvives ==
  pc = "idle" => \A i \in RoadIdx : type[i] \in {rclass[i], Imported(rclass[i])}

\* Candidates share no road, on a map without parallel roads.
NoParallelRoads == \A i, j \in RoadIdx : Ends(i) = Ends(j) => i = j
CandidatesDisjoint ==
  NoParallelRoads =>
  \A j, k \in DOMAIN routes :
     j # k => RoadsIn(routes[j]) \cap RoadsIn(routes[k]) = {}

\* No candidate is cheaper than the answer although the first sum wraps
\* around, because get_routes finds the candidates in order of their sums.
\* A first candidate of roads of type 0 does not wrap and loses to any other.
AnswerIsCheapest ==
  (pc = "idle" /\ answer # <<>> /\ NoParallelRoads) =>
  \/ \A k \in DOMAIN routes : SumFrom(0, answer) <= SumFrom(0, routes[k])
  \/ SumFrom(0, routes[1]) = 0

\* cal_optimal_route returns what it is meant to, in states of the right types.
AnswerIsSound == TypeOK /\ AnswerIsCheapest

\* Types are set to the maximum "temporaryly" only (get_route): every
\* marked road is restored, so get_routes comes to its end.
MarksAreTemporary ==
  (\E i \in RoadIdx : type[i] = IntMax) ~> (\A i \in RoadIdx : type[i] # IntMax)

------------------------------------------------------------------------------
(***************************************************************************)
(* The inductive invariant behind AnswerIsSound.                           *)
(***************************************************************************)

\* A candidate is no longer than a path can be, and none of its roads was
\* marked when it was found.
Unwrapped(r) ==
  /\ Len(r) < Cardinality(Nodes)
  /\ \A k \in DOMAIN r : r[k].type \in Classes \cup {0}

\* The candidates are in order of their sums, and no path that is still open
\* would make a cheaper one.
FoundInOrder ==
  NoParallelRoads /\ pc = "search" =>
    /\ \A k \in DOMAIN routes : Unwrapped(routes[k])
    /\ \A j, k \in DOMAIN routes : j <= k => SumFrom(0, routes[j]) <= SumFrom(0, routes[k])
    /\ \A k \in DOMAIN routes, s \in Paths(rect[1], rect[2]) :
         SumFrom(0, routes[k]) <= SumFrom(0, RouteAlong(s))

AnswerInv ==
  /\ TypeOK /\ FoundInOrder /\ AnswerIsCheapest
  /\ pc = "search" => rect \in Nodes \X Nodes

=============================================================================
