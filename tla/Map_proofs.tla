------------------------------ MODULE Map_proofs ------------------------------
(***************************************************************************)
(* Proofs about the map: the route search of MapRoutes, for every map,     *)
(* with or without parallel roads, and the import of MapImport, for every  *)
(* table in every order of its rows.                                       *)
(***************************************************************************)
EXTENDS MapRoutes, MapImport, ListFacts, FiniteSetTheorems

Used(rs) == UNION {RoadsIn(rs[k]) : k \in DOMAIN rs}

Unmarked(i) == type[i] \in {rclass[i], Imported(rclass[i])}

Loop == rect[1] = rect[2] /\ Between(rect[1], rect[2]) # {}

\* Inside a search exactly the roads of the candidates are marked.
MarksAreUsed ==
  /\ DOMAIN type = RoadIdx
  /\ \A i \in RoadIdx : rclass[i] \in Classes
  /\ \E S : routes \in Seq(S)
  /\ pc = "idle" => \A i \in RoadIdx : Unmarked(i)
  /\ pc # "idle" => \A i \in RoadIdx : IF i \in Used(routes) THEN type[i] = IntMax
                                                             ELSE Unmarked(i)
  /\ pc # "idle" /\ Loop => routes = <<>>

IInv == MarksAreUsed /\ CandidatesDisjoint

------------------------------------------------------------------------------
\* The candidates after a round of get_routes are the old ones and r.
Added(rs, r, new) ==
  /\ \E T : new \in Seq(T)
  /\ Used(new) = Used(rs) \cup RoadsIn(r)
  /\ \A k \in DOMAIN new : new[k] = r \/ (k \in DOMAIN rs /\ new[k] = rs[k])
  /\ \A j, k \in DOMAIN new : j # k => \/ j \in DOMAIN rs /\ new[j] = rs[j]
                                       \/ k \in DOMAIN rs /\ new[k] = rs[k]

\* get_routes adds a candidate at the end, unless it is there already.
LEMMA AddCandidate ==
  ASSUME NEW S, NEW rs \in Seq(S), NEW r, NEW new,
         new = IF r \in Range(rs) THEN rs ELSE Append(rs, r)
  PROVE  Added(rs, r, new)
<1> USE DEF Added
<1>1. CASE r \in Range(rs)
  <2>1. PICK k \in DOMAIN rs : rs[k] = r  BY <1>1 DEF Range
  <2>2. new = rs  BY <1>1
  <2> QED BY <2>1, <2>2 DEF Used
<1>2. CASE r \notin Range(rs)
  <2>1. new = Append(rs, r)  BY <1>2
  <2>2. rs \in Seq(S \cup {r}) /\ r \in S \cup {r}  OBVIOUS
  <2>3. new \in Seq(S \cup {r})  BY <2>1, <2>2
  <2>4. /\ DOMAIN rs = 1..Len(rs) /\ DOMAIN new = 1..(Len(rs) + 1) /\ Len(rs) \in Nat
        /\ new[Len(rs) + 1] = r
        /\ \A k \in DOMAIN rs : new[k] = rs[k]
    BY <2>1, <2>2
  <2>5. Used(new) = Used(rs) \cup RoadsIn(r)
    <3>1. DOMAIN new = DOMAIN rs \cup {Len(rs) + 1}  BY <2>4
    <3> QED BY <2>4, <3>1 DEF Used
  <2> QED BY <2>3, <2>4, <2>5
<1> QED BY <1>1, <1>2

\* Between the ends of an open stretch the first road is the open one, when
\* there are no parallel roads.
LEMMA FirstIsOpen ==
  ASSUME NoParallelRoads, NEW u, NEW v, Open(u, v) # {}
  PROVE  FirstRoad(u, v) \in RoadIdx /\ type[FirstRoad(u, v)] # IntMax
<1>1. PICK i \in Between(u, v) : type[i] # IntMax  BY DEF Open
<1>2. i \in RoadIdx /\ i \in Int  BY <1>1, MapAssumption DEF Between, RoadIdx
<1>3. Between(u, v) = {i}
  BY <1>1 DEF Between, NoParallelRoads
<1>4. Min({i}) = i  BY <1>2 DEF Min
<1> QED BY <1>1, <1>2, <1>3, <1>4 DEF FirstRoad

\* import_data marks no road.
LEMMA InitInv == Init => IInv
<1> SUFFICES ASSUME Init PROVE IInv
  OBVIOUS
<1>1. pc = "idle" /\ routes = <<>>  BY DEF Init
<1>2. routes \in Seq({})  BY <1>1
<1>3. MarksAreUsed  BY <1>1, <1>2 DEF Init, MarksAreUsed, Unmarked
<1>4. CandidatesDisjoint  BY <1>1 DEF CandidatesDisjoint
<1> QED BY <1>3, <1>4 DEF IInv

\* A round of get_routes marks the roads of the candidate it adds.  Without
\* parallel roads these were open before, so no older candidate has them.
LEMMA GetRouteInv ==
  ASSUME IInv, GetRoute
  PROVE  IInv'
<1>1. PICK s \in ShortestPaths(rect[1], rect[2]) :
        /\ routes' = IF RouteAlong(s) \in Range(routes) THEN routes
                                                        ELSE Append(routes, RouteAlong(s))
        /\ type' = Marked(RoadsIn(RouteAlong(s)))
  BY DEF GetRoute
<1> DEFINE r == RouteAlong(s)
<1>2. PICK S : routes \in Seq(S)  BY DEF IInv, MarksAreUsed
<1>3. /\ \E T : routes' \in Seq(T)
      /\ Used(routes') = Used(routes) \cup RoadsIn(r)
      /\ \A k \in DOMAIN routes' : routes'[k] = r \/ (k \in DOMAIN routes /\ routes'[k] = routes[k])
      /\ \A j, k \in DOMAIN routes' : j # k =>
           \/ j \in DOMAIN routes /\ routes'[j] = routes[j]
           \/ k \in DOMAIN routes /\ routes'[k] = routes[k]
  <2>1. Added(routes, r, routes')  BY <1>1, <1>2, AddCandidate
  <2> QED BY <2>1 DEF Added
<1>4. /\ pc = "search" /\ ~Loop /\ UNCHANGED <<pc, rclass, rect>>
  BY DEF GetRoute, Loop
<1> HIDE DEF r
<1>5. MarksAreUsed'
  <2>1. type' = [i \in RoadIdx |-> IF i \in RoadsIn(r) THEN IntMax ELSE type[i]]
    BY <1>1 DEF Marked, r
  <2>2. ~Loop'  BY <1>4 DEF Loop
  <2> QED BY <1>3, <1>4, <2>1, <2>2 DEF IInv, MarksAreUsed, Unmarked
<1>6. CandidatesDisjoint'
  <2> SUFFICES ASSUME NoParallelRoads, NEW j \in DOMAIN routes', NEW k \in DOMAIN routes', j # k
               PROVE  RoadsIn(routes'[j]) \cap RoadsIn(routes'[k]) = {}
    BY DEF CandidatesDisjoint, NoParallelRoads
  <2>1. \A i \in RoadsIn(r) : i \in RoadIdx /\ type[i] # IntMax
    <3>1. \A x \in 1..(Len(s) - 1) : Open(s[x], s[x+1]) # {}
      BY DEF ShortestPaths, Paths
    <3>2. DOMAIN r = 1..(Len(s) - 1)  BY DEF RouteAlong, r
    <3>3. \A x \in 1..(Len(s) - 1) : r[x].road = FirstRoad(s[x], s[x+1])
      BY DEF RouteAlong, r
    <3> QED BY <3>1, <3>2, <3>3, FirstIsOpen DEF RoadsIn
  <2>2. RoadsIn(r) \cap Used(routes) = {}
    BY <2>1, <1>4 DEF IInv, MarksAreUsed
  <2>3. \A x \in DOMAIN routes : RoadsIn(routes[x]) \subseteq Used(routes)
    BY DEF Used
  <2>4. CASE j \in DOMAIN routes /\ k \in DOMAIN routes /\ routes'[j] = routes[j] /\ routes'[k] = routes[k]
    BY <2>4 DEF IInv, CandidatesDisjoint
  <2>5. CASE j \in DOMAIN routes /\ routes'[j] = routes[j] /\ routes'[k] = r
    BY <2>2, <2>3, <2>5
  <2>6. CASE k \in DOMAIN routes /\ routes'[k] = routes[k] /\ routes'[j] = r
    BY <2>2, <2>3, <2>6
  <2> QED BY <1>3, <2>4, <2>5, <2>6
<1> QED BY <1>5, <1>6 DEF IInv

\* restore_routes reaches every marked road.
LEMMA FinishInv ==
  ASSUME IInv, Finish
  PROVE  IInv'
<1>1. /\ pc = "search" /\ pc' = "idle" /\ UNCHANGED <<rclass, rect>>
      /\ type' = Restored(Candidates) /\ routes' = Candidates
  BY DEF Finish
<1>2. type' = [i \in RoadIdx |-> IF i \in Used(Candidates) THEN rclass[i] ELSE type[i]]
  BY <1>1 DEF Restored, Used
<1>3. CASE Loop
  <2>1. PICK c : Candidates = << << c >> >>  BY <1>3 DEF Candidates, Loop
  <2>2. << << c >> >> \in Seq({<< c >>})  OBVIOUS
  <2>3. Used(routes) = {}  BY <1>1, <1>3 DEF IInv, MarksAreUsed, Used
  <2>4. \A i \in RoadIdx : Unmarked(i)  BY <1>1, <2>3 DEF IInv, MarksAreUsed
  <2>5. MarksAreUsed'
    BY <1>1, <1>2, <2>1, <2>2, <2>4 DEF IInv, MarksAreUsed, Unmarked
  <2>6. CandidatesDisjoint'
    <3>1. DOMAIN routes' = {1}  BY <1>1, <2>1
    <3> QED BY <3>1 DEF CandidatesDisjoint
  <2> QED BY <2>5, <2>6 DEF IInv
<1>4. CASE ~Loop
  <2>1. routes' = routes /\ Candidates = routes
    BY <1>1, <1>4 DEF Candidates, Loop
  <2>2. MarksAreUsed'
    BY <1>1, <1>2, <2>1 DEF IInv, MarksAreUsed, Unmarked
  <2>3. CandidatesDisjoint'  BY <2>1 DEF IInv, CandidatesDisjoint, NoParallelRoads
  <2> QED BY <2>2, <2>3 DEF IInv
<1> QED BY <1>3, <1>4

\* Every step of a request preserves the invariant.
LEMMA NextInv == IInv /\ [Next]_vars => IInv'
<1> SUFFICES ASSUME IInv, [Next]_vars PROVE IInv'
  OBVIOUS
<1>1. CASE QueryOffRoad
  <2>1. routes' = <<>> /\ <<>> \in Seq({}) /\ UNCHANGED <<pc, rclass, type>> /\ pc = "idle"
    BY <1>1 DEF QueryOffRoad
  <2>2. MarksAreUsed'  BY <2>1 DEF IInv, MarksAreUsed, Unmarked
  <2>3. CandidatesDisjoint'  BY <2>1 DEF CandidatesDisjoint
  <2> QED BY <2>2, <2>3 DEF IInv
<1>2. CASE Query
  <2>1. /\ routes' = <<>> /\ <<>> \in Seq({}) /\ UNCHANGED <<rclass, type>>
        /\ pc = "idle" /\ pc' = "search"
    BY <1>2 DEF Query
  <2>2. Used(routes') = {}  BY <2>1 DEF Used
  <2>3. MarksAreUsed'  BY <2>1, <2>2 DEF IInv, MarksAreUsed, Unmarked
  <2>4. CandidatesDisjoint'  BY <2>1 DEF CandidatesDisjoint
  <2> QED BY <2>3, <2>4 DEF IInv
<1>3. CASE GetRoute  BY <1>3, GetRouteInv
<1>4. CASE Finish  BY <1>4, FinishInv
<1>5. CASE UNCHANGED vars
  BY <1>5 DEF IInv, MarksAreUsed, CandidatesDisjoint, Unmarked, Loop, Used, vars
<1> QED BY <1>1, <1>2, <1>3, <1>4, <1>5 DEF Next

\* The invariant holds in every state of the route search.
LEMMA Inductive == Spec => []IInv
  BY InitInv, NextInv, PTL DEF Spec

------------------------------------------------------------------------------
(***************************************************************************)
(* Sums and paths.                                                         *)
(***************************************************************************)

\* The sums of route_attribute, type by type.
Sums(f, x, r) ==
  /\ f \in [0..Len(r) -> Int]
  /\ f[0] = x /\ \A k \in 1..Len(r) : f[k] = Wrap(f[k-1] + r[k].type)
  /\ SumFrom(x, r) = f[Len(r)]

\* route_attribute adds up the types one after the other.
LEMMA SumIsLoop ==
  ASSUME NEW x \in Int, NEW r, Len(r) \in Nat, IntMax \in Int,
         \A k \in 1..Len(r) : r[k].type \in Int
  PROVE  \E f : Sums(f, x, r)
<1> DEFINE N == Len(r)
           Is(f) == f = [k \in 0..N |-> IF k = 0 THEN x ELSE Wrap(f[k-1] + r[k].type)]
           next == [p \in Int \X (1..N) |-> Wrap(p[1] + r[p[2]].type)]
<1>0. N \in Nat /\ \A k \in 1..N : r[k].type \in Int  OBVIOUS
<1>1. \A y \in Int : Wrap(y) \in Int  BY DEF Wrap
<1>2. next \in [Int \X (1..N) -> Int]
  <2>1. \A p \in Int \X (1..N) : p[1] + r[p[2]].type \in Int  OBVIOUS
  <2> QED BY <1>1, <2>1
<1>3. \A y \in Int, k \in 1..N : next[<<y, k>>] = Wrap(y + r[k].type)
  OBVIOUS
<1> HIDE DEF next, N
<1>4. PICK g : IsLoop(g, N, Int, x, next)
  BY <1>0, <1>2, Recursion
<1>5. Is(g)
  <2>1. ASSUME NEW k \in 1..N PROVE g[k] = Wrap(g[k-1] + r[k].type)
    <3>1. k - 1 \in 0..N  BY <1>0
    <3> QED BY <1>3, <1>4, <3>1 DEF IsLoop
  <2>2. \A k \in 0..N : g[k] = IF k = 0 THEN x ELSE Wrap(g[k-1] + r[k].type)
    BY <1>4, <2>1 DEF IsLoop
  <2> QED BY <1>4, <2>2 DEF IsLoop
<1> DEFINE f == CHOOSE f : Is(f)
<1>6. Is(f)  BY <1>5
<1>7. SumFrom(x, r) = f[N]  BY DEF SumFrom, N
<1> HIDE DEF f
<1>8. f[0] = x /\ \A k \in 1..N : f[k] = Wrap(f[k-1] + r[k].type)
  BY <1>0, <1>6
<1> DEFINE P == {k \in 0..N : f[k] \in Int}
<1>9. \A k \in 0..N : k \in P
  <2>1. 0 \in P  BY <1>0, <1>8
  <2>2. ASSUME NEW k \in 1..N, k - 1 \in P PROVE k \in P
    <3>1. f[k-1] + r[k].type \in Int  BY <2>2, <1>0
    <3>2. Wrap(f[k-1] + r[k].type) \in Int  BY <1>1, <3>1
    <3>3. k \in 0..N  BY <1>0
    <3> QED BY <1>8, <3>2, <3>3
  <2> HIDE DEF P
  <2> QED BY <1>0, <2>1, <2>2, InductionUpTo
<1>10. f \in [0..N -> Int]
  <2>1. DOMAIN f = 0..N /\ f = [k \in 0..N |-> f[k]]  BY <1>6
  <2> QED BY <1>9, <2>1
<1> QED BY <1>7, <1>8, <1>10 DEF N, Sums

\* Fewer than C summands that are C-th parts of I have a sum within I.
LEMMA SumBound ==
  ASSUME NEW C \in Nat, NEW I \in Nat, NEW y \in Nat, NEW t \in Nat, NEW k \in 1..(C-1),
         C * y <= (k - 1) * I, t * C <= I
  PROVE  C * (y + t) <= k * I /\ y + t <= I
<1>1. C * (y + t) = C * y + t * C  OBVIOUS
<1>2. (k - 1) * I + I = k * I  OBVIOUS
<1>3. C * (y + t) <= k * I
  <2>1. C * y \in Int /\ t * C \in Int /\ (k-1) * I \in Int  OBVIOUS
  <2> QED BY <1>1, <1>2, <2>1
<1>4. ASSUME y + t > I PROVE FALSE
  <2>1. y + t >= I + 1  BY <1>4
  <2>2. C * (y + t) >= C * (I + 1)  BY <2>1
  <2>3. C * (I + 1) = C * I + C /\ C * I >= k * I  OBVIOUS
  <2>4. C * (y + t) \in Int /\ C * I \in Int /\ k * I \in Int /\ C * (I + 1) \in Int OBVIOUS
  <2> QED BY <1>3, <2>2, <2>3, <2>4
<1> QED BY <1>3, <1>4

\* Classes are small numbers.
LEMMA ClassFacts ==
  /\ IntMax \in Nat /\ IntMax \in Int /\ 0 < IntMax
  /\ \A c \in Classes \cup {0} : c \in Nat /\ c \in Int /\ c < IntMax /\ c * Cardinality(Nodes) <= IntMax
  /\ Cardinality(Nodes) \in Nat
<1>1. /\ IntMax \in Nat /\ IntMax \in Int /\ 0 < IntMax
      /\ Classes \subseteq 0..(IntMax - 1)
  BY MapAssumption
<1>2. Cardinality(Nodes) \in Nat  BY SumsFit, FS_CardinalityType
<1>3. \A c \in Classes : c \in Nat /\ c \in Int /\ c < IntMax  BY <1>1
<1>4. \A c \in Classes : c * Cardinality(Nodes) <= IntMax  BY SumsFit
<1>5. 0 * Cardinality(Nodes) <= IntMax  BY <1>1, <1>2
<1> QED BY <1>1, <1>2, <1>3, <1>4, <1>5

\* The types of a candidate add up to an int.  Added to the largest int they
\* wrap around, unless they are all 0.
LEMMA SumUnwrapped ==
  ASSUME NEW r \in Seq(RouteRecs), Unwrapped(r)
  PROVE  /\ \E f \in [0..Len(r) -> Int] :
              /\ f[0] = 0 /\ \A k \in 1..Len(r) : f[k] = f[k-1] + r[k].type
              /\ SumFrom(0, r) = f[Len(r)]
         /\ SumFrom(0, r) \in Nat
         /\ SumFrom(0, r) > 0 => SumFrom(IntMax, r) < 0
<1> DEFINE N == Len(r)
           C == Cardinality(Nodes)
<1>1. N \in Nat /\ IntMax \in Nat /\ IntMax \in Int /\ C \in Nat /\ N < C
  BY ClassFacts DEF Unwrapped
<1>2. \A k \in 1..N : r[k].type \in Nat /\ r[k].type \in Int /\ r[k].type * C <= IntMax
  BY ClassFacts DEF Unwrapped
<1>3. PICK f : Sums(f, 0, r)  BY <1>1, <1>2, SumIsLoop
<1>4. PICK g : Sums(g, IntMax, r)  BY <1>1, <1>2, SumIsLoop
<1>a. /\ f \in [0..N -> Int]
      /\ f[0] = 0 /\ \A k \in 1..N : f[k] = Wrap(f[k-1] + r[k].type)
      /\ SumFrom(0, r) = f[N]
  BY <1>3 DEF Sums
<1>b. /\ g \in [0..N -> Int]
      /\ g[0] = IntMax /\ \A k \in 1..N : g[k] = Wrap(g[k-1] + r[k].type)
      /\ SumFrom(IntMax, r) = g[N]
  BY <1>4 DEF Sums
<1> HIDE DEF N, C
<1> DEFINE P == {k \in 0..N : f[k] \in Nat /\ C * f[k] <= k * IntMax}
<1>5. ASSUME NEW k \in 1..N, k - 1 \in P
      PROVE  k \in P /\ f[k] = f[k-1] + r[k].type /\ f[k] <= IntMax
  <2>1. f[k-1] \in Nat /\ C * f[k-1] <= (k - 1) * IntMax  BY <1>5
  <2>2. /\ r[k].type \in Nat /\ r[k].type * C <= IntMax
        /\ k \in 1..(C - 1)
    BY <1>1, <1>2
  <2>3. C * (f[k-1] + r[k].type) <= k * IntMax /\ f[k-1] + r[k].type <= IntMax
    BY ONLY <1>1, <2>1, <2>2, SumBound
  <2>4. f[k] = f[k-1] + r[k].type
    <3>1. f[k] = Wrap(f[k-1] + r[k].type)  BY <1>a
    <3> QED BY <1>1, <2>1, <2>2, <2>3, <3>1 DEF Wrap
  <2>5. k \in 0..N /\ f[k] \in Nat  BY <1>1, <2>1, <2>2, <2>4
  <2> QED BY <2>3, <2>4, <2>5
<1>6. \A k \in 0..N : k \in P
  <2>1. 0 \in P  BY <1>1, <1>a
  <2> HIDE DEF P
  <2> QED BY <1>1, <1>5, <2>1, InductionUpTo
<1>7. \A k \in 1..N : f[k] = f[k-1] + r[k].type /\ f[k] <= IntMax
  <2> SUFFICES ASSUME NEW k \in 1..N PROVE f[k] = f[k-1] + r[k].type /\ f[k] <= IntMax
    OBVIOUS
  <2>1. k - 1 \in P  BY <1>1, <1>6
  <2> QED BY <1>5, <2>1
<1> DEFINE Q == {k \in 0..N : g[k] = IF f[k] = 0 THEN IntMax ELSE f[k] - IntMax - 2}
<1>8. ASSUME NEW k \in 1..N, k - 1 \in Q PROVE k \in Q
  <2>1. k - 1 \in P /\ k \in P  BY <1>1, <1>6
  <2>2. /\ f[k-1] \in Nat /\ f[k] \in Nat /\ r[k].type \in Nat
        /\ g[k] = Wrap(g[k-1] + r[k].type)
        /\ f[k] = f[k-1] + r[k].type /\ f[k] <= IntMax
        /\ g[k-1] = IF f[k-1] = 0 THEN IntMax ELSE f[k-1] - IntMax - 2
    BY <1>2, <1>b, <1>7, <1>8, <2>1
  <2>3. g[k] = IF f[k] = 0 THEN IntMax ELSE f[k] - IntMax - 2
    <3>1. CASE f[k-1] = 0  BY <1>1, <2>2, <3>1 DEF Wrap
    <3>2. CASE f[k-1] # 0
      <4>0. g[k-1] = f[k-1] - IntMax - 2  BY <2>2, <3>2
      <4>1. g[k-1] + r[k].type = f[k] - IntMax - 2
        <5>1. /\ f[k-1] \in Nat /\ r[k].type \in Nat /\ IntMax \in Nat
              /\ f[k] = f[k-1] + r[k].type
          BY <1>1, <2>2
        <5> QED BY ONLY <4>0, <5>1
      <4>2. Wrap(g[k-1] + r[k].type) = f[k] - IntMax - 2  BY <1>1, <2>2, <4>1 DEF Wrap
      <4> QED BY <1>1, <2>2, <3>2, <4>2
    <3> QED BY <3>1, <3>2
  <2> QED BY <1>1, <2>3
<1>9. \A k \in 0..N : k \in Q
  <2>1. 0 \in Q  BY <1>1, <1>a, <1>b
  <2> HIDE DEF Q
  <2> QED BY <1>1, <1>8, <2>1, InductionUpTo
<1>10. f[N] \in Nat /\ (f[N] > 0 => g[N] < 0)
  <2>1. N \in P /\ N \in Q  BY <1>1, <1>6, <1>9
  <2>2. f[N] <= IntMax  BY <1>1, <1>a, <1>7
  <2> QED BY <1>1, <2>1, <2>2
<1> QED BY <1>a, <1>b, <1>7, <1>10 DEF N

\* cal_optimal_route returns one of the candidates; the first one when its
\* sum has wrapped around and no other's has.
LEMMA AnswerIsCandidate ==
  ASSUME NEW R, NEW cs \in Seq(R), cs # <<>>
  PROVE  /\ \E k \in DOMAIN cs : CalOptimalRoute(cs) = cs[k]
         /\ /\ SumFrom(IntMax, cs[1]) \in Int /\ SumFrom(IntMax, cs[1]) < 0
            /\ \A k \in DOMAIN cs : SumFrom(0, cs[k]) \in Nat
            => CalOptimalRoute(cs) = cs[1]
<1> DEFINE N == Len(cs) - 1
           x == RouteAttribute(IntMax, cs[1])
           S == {RouteAttribute(0, cs[k]) : k \in DOMAIN cs} \cup {x}
           next == [p \in S \X (1..N) |-> Prefer(p[1], cs[p[2] + 1])]
           Is(f) == f = [k \in 0..N |-> IF k = 0 THEN x ELSE Prefer(f[k-1], cs[k+1])]
           f == CHOOSE f : Is(f)
<1>1. /\ N \in Nat /\ DOMAIN cs = 1..(N + 1) /\ 1 \in DOMAIN cs
      /\ \A k \in 1..N : k + 1 \in DOMAIN cs
  OBVIOUS
<1>2. CalOptimalRoute(cs) = f[N].route  BY DEF CalOptimalRoute
<1>3. x \in S /\ \A k \in DOMAIN cs : RouteAttribute(0, cs[k]) \in S  OBVIOUS
<1>4. \A b \in S : \E k \in DOMAIN cs : b.route = cs[k]
  <2>1. \A k \in DOMAIN cs : RouteAttribute(0, cs[k]).route = cs[k]  BY DEF RouteAttribute
  <2>2. x.route = cs[1]  BY DEF RouteAttribute
  <2> QED BY <1>1, <2>1, <2>2
<1> HIDE DEF N, S, x
<1>5. \A b, r : Prefer(b, r) = b \/ Prefer(b, r) = RouteAttribute(0, r)
  BY DEF Prefer
<1>6. \A b \in S, k \in 1..N : Prefer(b, cs[k+1]) \in S
  BY <1>1, <1>3, <1>5
<1>7. next \in [S \X (1..N) -> S]  BY <1>6
<1>8. \A b \in S, k \in 1..N : next[<<b, k>>] = Prefer(b, cs[k+1])  OBVIOUS
<1> HIDE DEF next
<1>9. PICK g : IsLoop(g, N, S, x, next)  BY <1>1, <1>3, <1>7, Recursion
<1>10. Is(g)
  <2>1. g \in [0..N -> S] /\ g[0] = x /\ \A k \in 1..N : g[k] = next[<<g[k-1], k>>]
    BY <1>9 DEF IsLoop
  <2>2. ASSUME NEW k \in 1..N PROVE g[k] = Prefer(g[k-1], cs[k+1])
    <3>1. k - 1 \in 0..N  BY <1>1
    <3> QED BY <1>8, <2>1, <3>1
  <2>3. \A k \in 0..N : g[k] = IF k = 0 THEN x ELSE Prefer(g[k-1], cs[k+1])
    BY <1>1, <2>1, <2>2
  <2> QED BY <2>1, <2>3
<1>11. Is(f)  BY <1>10
<1> HIDE DEF f
<1>12. f[0] = x /\ \A k \in 1..N : f[k] = Prefer(f[k-1], cs[k+1])  BY <1>1, <1>11
<1> DEFINE P == {k \in 0..N : f[k] \in S}
<1>13. \A k \in 0..N : k \in P
  <2>1. 0 \in P  BY <1>1, <1>3, <1>12
  <2>2. ASSUME NEW k \in 1..N, k - 1 \in P PROVE k \in P
    <3>1. Prefer(f[k-1], cs[k+1]) \in S  BY <1>6, <2>2
    <3> QED BY <1>1, <1>12, <3>1
  <2> HIDE DEF P
  <2> QED BY <1>1, <2>1, <2>2, InductionUpTo
<1>14. \E k \in DOMAIN cs : CalOptimalRoute(cs) = cs[k]
  <2>1. N \in P  BY <1>1, <1>13
  <2> QED BY <1>2, <1>4, <2>1
<1>15. ASSUME SumFrom(IntMax, cs[1]) \in Int, SumFrom(IntMax, cs[1]) < 0,
              \A k \in DOMAIN cs : SumFrom(0, cs[k]) \in Nat
       PROVE  CalOptimalRoute(cs) = cs[1]
  <2>1. x.sum \in Int /\ x.sum < 0 /\ x.route = cs[1]  BY <1>15 DEF x, RouteAttribute
  <2> DEFINE Q == {k \in 0..N : f[k] = x}
  <2>2. 0 \in Q  BY <1>1, <1>12
  <2>3. ASSUME NEW k \in 1..N, k - 1 \in Q PROVE k \in Q
    <3>1. RouteAttribute(0, cs[k+1]).sum \in Nat  BY <1>1, <1>15 DEF RouteAttribute
    <3>2. Prefer(x, cs[k+1]) = x  BY <2>1, <3>1 DEF Prefer
    <3> QED BY <1>1, <1>12, <2>3, <3>2
  <2> HIDE DEF Q
  <2>4. N \in Q  BY <1>1, <2>2, <2>3, InductionUpTo
  <2> QED BY <1>2, <2>1, <2>4 DEF Q
<1> QED BY <1>14, <1>15

\* The first road between two nodes that a road joins.
LEMMA FirstRoadFacts ==
  ASSUME NEW u, NEW v, Between(u, v) # {}
  PROVE  FirstRoad(u, v) \in Between(u, v) /\ FirstRoad(u, v) \in RoadIdx
<1>1. Between(u, v) \subseteq RoadIdx  BY DEF Between
<1>2. RoadIdx \subseteq Nat  BY MapAssumption DEF RoadIdx
<1>3. \E i \in Between(u, v) : \A j \in Between(u, v) : i <= j
  BY <1>1, <1>2, LeastExists
<1>4. FirstRoad(u, v) \in Between(u, v)  BY <1>3 DEF FirstRoad, Min
<1> QED BY <1>1, <1>4

\* A path is a sequence of nodes, no longer than there are nodes, along open
\* roads.
LEMMA PathFacts ==
  ASSUME NEW u \in Nodes, NEW v \in Nodes, NEW s \in Paths(u, v)
  PROVE  /\ s \in Seq(Nodes) /\ Len(s) \in Nat /\ 2 <= Len(s) /\ Len(s) <= Cardinality(Nodes)
         /\ \A k \in 1..(Len(s) - 1) : Open(s[k], s[k+1]) # {}
<1>1. PICK via \in BoundedSeq(Nodes, Cardinality(Nodes) - 2) : s = <<u>> \o via \o <<v>>
  BY DEF Paths
<1>2. PICK m \in 0..(Cardinality(Nodes) - 2) : via \in [1..m -> Nodes]
  BY <1>1 DEF BoundedSeq, SeqOf
<1>3. Cardinality(Nodes) \in Nat  BY SumsFit, FS_CardinalityType
<1>4. via \in Seq(Nodes) /\ Len(via) = m  BY <1>2, <1>3
<1>5. <<u>> \o via \in Seq(Nodes) /\ Len(<<u>> \o via) = m + 1
  BY <1>2, <1>3, <1>4
<1>6. s \in Seq(Nodes) /\ Len(s) = m + 2  BY <1>1, <1>2, <1>3, <1>5
<1>7. \A k \in 1..(Len(s) - 1) : Open(s[k], s[k+1]) # {}  BY DEF Paths
<1>8. 2 <= Len(s) /\ Len(s) <= Cardinality(Nodes)  BY <1>2, <1>3, <1>6
<1> QED BY <1>6, <1>7, <1>8

\* What the walk over a path reports.
LEMMA RouteFacts ==
  ASSUME NEW s \in Seq(Nodes), 1 <= Len(s), type \in [RoadIdx -> 0..IntMax],
         \A k \in 1..(Len(s) - 1) : Open(s[k], s[k+1]) # {}
  PROVE  /\ RouteAlong(s) \in Seq(RouteRecs) /\ Len(RouteAlong(s)) = Len(s) - 1
         /\ \A k \in 1..(Len(s) - 1) : RouteAlong(s)[k].type = type[FirstRoad(s[k], s[k+1])]
<1> DEFINE r == RouteAlong(s)
           e(k) == [road |-> FirstRoad(s[k], s[k+1]), startid |-> s[k+1], endid |-> s[k],
                    type |-> type[FirstRoad(s[k], s[k+1])]]
<1>1. r = [k \in 1..(Len(s) - 1) |-> e(k)]  BY DEF RouteAlong
<1>2. ASSUME NEW k \in 1..(Len(s) - 1) PROVE e(k) \in RouteRecs
  <2>1. Between(s[k], s[k+1]) # {}  BY DEF Open
  <2>2. FirstRoad(s[k], s[k+1]) \in RoadIdx  BY <2>1, FirstRoadFacts
  <2>3. s[k] \in Nodes /\ s[k+1] \in Nodes  OBVIOUS
  <2>4. type[FirstRoad(s[k], s[k+1])] \in 0..IntMax  BY <2>2
  <2> QED BY <2>2, <2>3, <2>4 DEF RouteRecs
<1>3. Len(s) - 1 \in Nat  OBVIOUS
<1> HIDE DEF e, r
<1>4. r \in [1..(Len(s) - 1) -> RouteRecs]  BY <1>1, <1>2
<1>5. r \in Seq(RouteRecs) /\ Len(r) = Len(s) - 1  BY <1>3, <1>4
<1>6. \A k \in 1..(Len(s) - 1) : r[k].type = type[FirstRoad(s[k], s[k+1])]
  BY <1>1 DEF e
<1> QED BY <1>5, <1>6 DEF r

\* Without parallel roads a stretch of a path is as long as the type of the
\* road that the walk reports, which is open.
LEMMA StepIsFirstRoad ==
  ASSUME NoParallelRoads, type \in [RoadIdx -> 0..IntMax], NEW s, NEW k,
         Open(s[k], s[k+1]) # {}
  PROVE  /\ FirstRoad(s[k], s[k+1]) \in RoadIdx
         /\ type[FirstRoad(s[k], s[k+1])] # IntMax
         /\ Step(s, k) = type[FirstRoad(s[k], s[k+1])]
<1>1. PICK i \in Between(s[k], s[k+1]) : type[i] # IntMax  BY DEF Open
<1>2. i \in RoadIdx /\ i \in Int  BY <1>1, MapAssumption DEF Between, RoadIdx
<1>3. Between(s[k], s[k+1]) = {i}  BY <1>1 DEF Between, NoParallelRoads
<1>4. Min({i}) = i  BY <1>2 DEF Min
<1>5. type[i] \in Int  BY <1>2, MapAssumption
<1>6. {type[j] : j \in Open(s[k], s[k+1])} = {type[i]}  BY <1>1, <1>3 DEF Open
<1>7. Min({type[i]}) = type[i]  BY <1>5 DEF Min
<1> QED BY <1>1, <1>2, <1>3, <1>4, <1>6, <1>7 DEF FirstRoad, Step

\* dijkstra_shortest_paths and route_attribute add up the same types.
LEMMA LengthIsSum ==
  ASSUME NoParallelRoads, type \in [RoadIdx -> 0..IntMax],
         NEW s \in Seq(Nodes), 1 <= Len(s), Unwrapped(RouteAlong(s)),
         \A k \in 1..(Len(s) - 1) : Open(s[k], s[k+1]) # {}
  PROVE  Length(s) = SumFrom(0, RouteAlong(s))
<1> DEFINE N == Len(s) - 1
           r == RouteAlong(s)
           Is(f) == f = [k \in 0..N |-> IF k = 0 THEN 0 ELSE f[k-1] + Step(s, k)]
           f == CHOOSE f : Is(f)
<1>1. N \in Nat  OBVIOUS
<1>2. /\ r \in Seq(RouteRecs) /\ Len(r) = N
      /\ \A k \in 1..N : r[k].type = type[FirstRoad(s[k], s[k+1])]
  BY RouteFacts
<1>3. \A k \in 1..N : Step(s, k) = r[k].type
  BY <1>2, StepIsFirstRoad
<1>4. Unwrapped(r)  OBVIOUS
<1>5. Length(s) = f[N]  BY DEF Length
<1>a. \A k \in 1..N : r[k].type \in Int
  <2>1. \A e \in RouteRecs : e.type \in Int  BY MapAssumption DEF RouteRecs
  <2> QED BY <1>1, <1>2, <2>1
<1> HIDE DEF N, r
<1>6. PICK h \in [0..N -> Int] :
        /\ h[0] = 0 /\ \A k \in 1..N : h[k] = h[k-1] + r[k].type
        /\ SumFrom(0, r) = h[N]
  <2>1. \E h \in [0..Len(r) -> Int] :
              /\ h[0] = 0 /\ \A k \in 1..Len(r) : h[k] = h[k-1] + r[k].type
              /\ SumFrom(0, r) = h[Len(r)]
    BY <1>2, <1>4, SumUnwrapped
  <2> QED BY <1>2, <2>1
<1>7. Is(h)
  <2>1. \A k \in 0..N : h[k] = IF k = 0 THEN 0 ELSE h[k-1] + Step(s, k)
    <3>1. ASSUME NEW k \in 1..N PROVE h[k] = h[k-1] + Step(s, k)
      BY <1>3, <1>6
    <3> QED BY <1>1, <1>6, <3>1
  <2> QED BY <2>1
<1>8. Is(f)  BY <1>7
<1> HIDE DEF f
<1>9. f[0] = 0 /\ \A k \in 1..N : f[k] = f[k-1] + r[k].type
  BY <1>1, <1>3, <1>8
<1> DEFINE P == {k \in 0..N : f[k] = h[k]}
<1>10. 0 \in P  BY <1>1, <1>6, <1>9
<1>11. ASSUME NEW k \in 1..N, k - 1 \in P PROVE k \in P
  BY <1>1, <1>6, <1>9, <1>11
<1> HIDE DEF P
<1>12. \A k \in 0..N : k \in P  BY <1>1, <1>10, <1>11, InductionUpTo
<1>13. N \in P  BY <1>1, <1>12
<1> QED BY <1>5, <1>6, <1>13 DEF P, r

------------------------------------------------------------------------------
(***************************************************************************)
(* The answer of cal_optimal_route.                                        *)
(***************************************************************************)

\* A search starts with no candidates.
LEMMA InitAnswer == Init => AnswerInv
<1> SUFFICES ASSUME Init PROVE AnswerInv
  OBVIOUS
<1>1. /\ pc = "idle" /\ routes = <<>> /\ answer = <<>> /\ rect = NoRect
      /\ rclass \in [RoadIdx -> Classes]
      /\ type = [i \in RoadIdx |-> Imported(rclass[i])]
  BY DEF Init
<1>2. \A c \in Classes : Imported(c) \in 0..IntMax  BY ClassFacts DEF Imported
<1>3. type \in [RoadIdx -> 0..IntMax]  BY <1>1, <1>2
<1>4. <<>> \in Seq(Seq(RouteRecs)) /\ <<>> \in Seq(RouteRecs)  OBVIOUS
<1>5. TypeOK  BY <1>1, <1>3, <1>4 DEF TypeOK
<1> QED BY <1>1, <1>5 DEF AnswerInv, FoundInOrder, AnswerIsCheapest

\* A round finds a shortest path.  What is open after the round was open
\* before, so it is no shorter, and no candidate comes before a cheaper one.
LEMMA GetRouteAnswer ==
  ASSUME IInv, AnswerInv, GetRoute
  PROVE  AnswerInv'
<1>1. PICK s \in ShortestPaths(rect[1], rect[2]) :
        /\ routes' = IF RouteAlong(s) \in Range(routes) THEN routes
                                                        ELSE Append(routes, RouteAlong(s))
        /\ type' = Marked(RoadsIn(RouteAlong(s)))
  BY DEF GetRoute
<1> DEFINE u == rect[1]
           v == rect[2]
           r == RouteAlong(s)
<1>2. /\ pc = "search" /\ ~Loop /\ UNCHANGED <<pc, rclass, rect, answer>>
      /\ TypeOK /\ u \in Nodes /\ v \in Nodes /\ rect \in Nodes \X Nodes
      /\ type \in [RoadIdx -> 0..IntMax] /\ routes \in Seq(Seq(RouteRecs))
  BY DEF GetRoute, Loop, AnswerInv, TypeOK
<1>3. s \in Paths(u, v) /\ \A p \in Paths(u, v) : Length(s) <= Length(p)
  BY <1>1 DEF ShortestPaths
<1> HIDE DEF r, u, v
<1>4. ASSUME NEW p \in Paths(u, v)
      PROVE  /\ p \in Seq(Nodes) /\ 1 <= Len(p) /\ Len(p) <= Cardinality(Nodes) /\ Len(p) \in Nat
             /\ \A k \in 1..(Len(p) - 1) : Open(p[k], p[k+1]) # {}
             /\ RouteAlong(p) \in Seq(RouteRecs) /\ Len(RouteAlong(p)) = Len(p) - 1
             /\ \A k \in 1..(Len(p) - 1) : RouteAlong(p)[k].type = type[FirstRoad(p[k], p[k+1])]
  <2>1. /\ p \in Seq(Nodes) /\ 1 <= Len(p) /\ Len(p) <= Cardinality(Nodes) /\ Len(p) \in Nat
        /\ \A k \in 1..(Len(p) - 1) : Open(p[k], p[k+1]) # {}
    <3>1. /\ p \in Seq(Nodes) /\ Len(p) \in Nat /\ 2 <= Len(p) /\ Len(p) <= Cardinality(Nodes)
          /\ \A k \in 1..(Len(p) - 1) : Open(p[k], p[k+1]) # {}
      BY <1>2, PathFacts
    <3> QED BY <3>1
  <2> QED BY <1>2, <2>1, RouteFacts
<1>5. TypeOK'
  <2>1. type' \in [RoadIdx -> 0..IntMax]
    <3>1. IntMax \in 0..IntMax  BY ClassFacts
    <3>2. type' = [i \in RoadIdx |-> IF i \in RoadsIn(r) THEN IntMax ELSE type[i]]
      BY <1>1 DEF Marked, r
    <3> QED BY <1>2, <3>1, <3>2
  <2>2. routes' \in Seq(Seq(RouteRecs))
    <3>1. RouteAlong(s) \in Seq(RouteRecs)  BY <1>3, <1>4
    <3> QED BY <1>1, <1>2, <3>1
  <2> QED BY <1>2, <2>1, <2>2 DEF TypeOK
<1>6. ASSUME NoParallelRoads, NEW p \in Paths(u, v)
      PROVE  /\ Unwrapped(RouteAlong(p))
             /\ Length(p) = SumFrom(0, RouteAlong(p)) /\ SumFrom(0, RouteAlong(p)) \in Nat
  <2>1. ASSUME NEW k \in 1..(Len(p) - 1) PROVE RouteAlong(p)[k].type \in Classes \cup {0}
    <3> DEFINE i == FirstRoad(p[k], p[k+1])
    <3>1. i \in RoadIdx /\ type[i] # IntMax  BY <1>4, <1>6, FirstIsOpen
    <3>2. type[i] \in {rclass[i], Imported(rclass[i])} /\ rclass[i] \in Classes
      BY <1>2, <3>1 DEF IInv, MarksAreUsed, Unmarked
    <3> QED BY <1>4, <3>2 DEF Imported
  <2>2. Unwrapped(RouteAlong(p))
    <3>1. DOMAIN RouteAlong(p) = 1..(Len(p) - 1)  BY DEF RouteAlong
    <3>2. Cardinality(Nodes) \in Nat  BY ClassFacts
    <3> QED BY <1>4, <2>1, <3>1, <3>2 DEF Unwrapped
  <2>3. Length(p) = SumFrom(0, RouteAlong(p))
    BY <1>2, <1>4, <1>6, <2>2, LengthIsSum
  <2> QED BY <1>4, <2>2, <2>3, SumUnwrapped
<1>7. FoundInOrder'
  <2> SUFFICES ASSUME NoParallelRoads
               PROVE  /\ \A k \in DOMAIN routes' : Unwrapped(routes'[k])
                      /\ \A j, k \in DOMAIN routes' :
                           j <= k => SumFrom(0, routes'[j]) <= SumFrom(0, routes'[k])
                      /\ \A k \in DOMAIN routes', p \in Paths(u, v)' :
                           SumFrom(0, routes'[k]) <= SumFrom(0, RouteAlong(p)')
    BY <1>2 DEF FoundInOrder, NoParallelRoads, u, v
  <2>1. /\ Unwrapped(r) /\ SumFrom(0, r) \in Nat
        /\ \A p \in Paths(u, v) : SumFrom(0, r) <= SumFrom(0, RouteAlong(p))
    BY <1>3, <1>6 DEF r
  <2>2. /\ \A k \in DOMAIN routes : Unwrapped(routes[k])
        /\ \A j, k \in DOMAIN routes : j <= k => SumFrom(0, routes[j]) <= SumFrom(0, routes[k])
        /\ \A k \in DOMAIN routes, p \in Paths(u, v) :
             SumFrom(0, routes[k]) <= SumFrom(0, RouteAlong(p))
    BY <1>2 DEF AnswerInv, FoundInOrder, u, v
  <2>3. ASSUME NEW p \in Paths(u, v)'
        PROVE  p \in Paths(u, v) /\ RouteAlong(p)' = RouteAlong(p)
    <3>1. \A i \in RoadIdx : type'[i] # IntMax => type[i] # IntMax /\ type'[i] = type[i]
      BY <1>1, <1>2 DEF Marked
    <3>2. \A x, y : Open(x, y)' \subseteq Open(x, y)
      BY <3>1 DEF Open, Between
    <3>3. p \in Paths(u, v)  BY <1>2, <3>2 DEF Paths, u, v
    <3>4. ASSUME NEW k \in 1..(Len(p) - 1)
          PROVE  type'[FirstRoad(p[k], p[k+1])] = type[FirstRoad(p[k], p[k+1])]
      <4> DEFINE i == FirstRoad(p[k], p[k+1])
      <4>1. Open(p[k], p[k+1])' # {}  BY DEF Paths
      <4>2. PICK j \in Between(p[k], p[k+1]) : type'[j] # IntMax  BY <4>1 DEF Open, Between
      <4>3. i = j
        <5>1. j \in RoadIdx /\ j \in Int  BY <4>2, MapAssumption DEF Between, RoadIdx
        <5>2. Between(p[k], p[k+1]) = {j}  BY <4>2 DEF Between, NoParallelRoads
        <5>3. Min({j}) = j  BY <5>1 DEF Min
        <5> QED BY <5>2, <5>3 DEF FirstRoad
      <4> QED BY <3>1, <4>2, <4>3 DEF Between
    <3> QED BY <3>3, <3>4 DEF RouteAlong
  <2>4. CASE r \in Range(routes)
    BY <1>1, <2>2, <2>3, <2>4 DEF r
  <2>5. CASE r \notin Range(routes)
    <3>1. routes' = Append(routes, r)  BY <1>1, <2>5 DEF r
    <3>2. r \in Seq(RouteRecs)  BY <1>3, <1>4 DEF r
    <3>3. /\ DOMAIN routes' = 1..(Len(routes) + 1) /\ DOMAIN routes = 1..Len(routes)
          /\ Len(routes) \in Nat
          /\ routes'[Len(routes) + 1] = r /\ \A k \in DOMAIN routes : routes'[k] = routes[k]
      BY <1>2, <3>1, <3>2
    <3>4. \A k \in DOMAIN routes : SumFrom(0, routes[k]) <= SumFrom(0, r)
      BY <1>3, <2>2 DEF r
    <3>5. \A k \in DOMAIN routes' : k \in DOMAIN routes \/ k = Len(routes) + 1  BY <3>3
    <3>6. \A j, k \in DOMAIN routes' : j <= k => SumFrom(0, routes'[j]) <= SumFrom(0, routes'[k])
      <4> SUFFICES ASSUME NEW j \in DOMAIN routes', NEW k \in DOMAIN routes', j <= k
                   PROVE  SumFrom(0, routes'[j]) <= SumFrom(0, routes'[k])
        OBVIOUS
      <4>1. CASE k \in DOMAIN routes
        <5>1. j \in DOMAIN routes  BY <3>3, <4>1
        <5> QED BY <2>2, <3>3, <4>1, <5>1
      <4>2. CASE k = Len(routes) + 1 /\ j \in DOMAIN routes
        BY <3>3, <3>4, <4>2
      <4>3. CASE k = Len(routes) + 1 /\ j = Len(routes) + 1
        BY <2>1, <3>3, <4>3
      <4> QED BY <3>5, <4>1, <4>2, <4>3
    <3>7. \A k \in DOMAIN routes' : Unwrapped(routes'[k])
      BY <2>1, <2>2, <3>3, <3>5
    <3>8. \A k \in DOMAIN routes', p \in Paths(u, v)' :
             SumFrom(0, routes'[k]) <= SumFrom(0, RouteAlong(p)')
      BY <2>1, <2>2, <2>3, <3>3, <3>5
    <3> QED BY <3>6, <3>7, <3>8
  <2> QED BY <2>4, <2>5
<1> QED BY <1>2, <1>5, <1>7 DEF AnswerInv, AnswerIsCheapest

\* The first sum wraps around, so that the first candidate stays the best.
LEMMA FinishAnswer ==
  ASSUME IInv, AnswerInv, Finish
  PROVE  AnswerInv'
<1>1. /\ pc = "search" /\ pc' = "idle" /\ UNCHANGED <<rclass, rect>>
      /\ type' = Restored(Candidates) /\ routes' = Candidates
      /\ answer' = CalOptimalRoute(Candidates)
  BY DEF Finish
<1>2. /\ TypeOK /\ rect \in Nodes \X Nodes /\ rclass \in [RoadIdx -> Classes]
      /\ type \in [RoadIdx -> 0..IntMax] /\ routes \in Seq(Seq(RouteRecs))
  BY <1>1 DEF AnswerInv, TypeOK
<1>3. Candidates \in Seq(Seq(RouteRecs))
  <2>1. CASE Loop
    <3> DEFINE i == FirstRoad(rect[1], rect[2])
               c == [road |-> i, startid |-> rect[1], endid |-> rect[2], type |-> type[i]]
    <3>1. Candidates = << << c >> >>  BY <2>1 DEF Candidates, Loop
    <3>2. i \in RoadIdx  BY <2>1, FirstRoadFacts DEF Loop
    <3>3. c \in RouteRecs  BY <1>2, <3>2 DEF RouteRecs
    <3> HIDE DEF c
    <3>4. << c >> \in Seq(RouteRecs)  BY <3>3
    <3> QED BY <3>1, <3>4
  <2>2. CASE ~Loop  BY <1>2, <2>2 DEF Candidates, Loop
  <2> QED BY <2>1, <2>2
<1>4. type' \in [RoadIdx -> 0..IntMax]
  <2>1. \A i \in RoadIdx : rclass[i] \in 0..IntMax  BY <1>2, ClassFacts
  <2> QED BY <1>1, <1>2, <2>1 DEF Restored
<1>5. Candidates # <<>> => \E k \in DOMAIN Candidates : answer' = Candidates[k]
  BY <1>1, <1>3, AnswerIsCandidate
<1>6. answer' \in Seq(RouteRecs)
  <2>1. CASE Candidates = <<>>
    <3>1. answer' = <<>>  BY <1>1, <2>1 DEF CalOptimalRoute
    <3> QED BY <3>1
  <2>2. CASE Candidates # <<>>  BY <1>3, <1>5, <2>2
  <2> QED BY <2>1, <2>2
<1>7. TypeOK'  BY <1>1, <1>2, <1>3, <1>4, <1>6 DEF TypeOK
<1>8. AnswerIsCheapest'
  <2> SUFFICES ASSUME NoParallelRoads, answer' # <<>>
               PROVE  \/ \A k \in DOMAIN Candidates :
                           SumFrom(0, answer') <= SumFrom(0, Candidates[k])
                      \/ SumFrom(0, Candidates[1]) = 0
    BY <1>1 DEF AnswerIsCheapest, NoParallelRoads
  <2>1. Candidates # <<>>  BY <1>1 DEF CalOptimalRoute
  <2>2. CASE Loop
    <3>1. PICK c : Candidates = << << c >> >>  BY <2>2 DEF Candidates, Loop
    <3>2. DOMAIN Candidates = {1} /\ answer' = << c >>  BY <1>5, <2>1, <3>1
    <3>3. << c >> \in Seq(RouteRecs)  BY <1>3, <3>1
    <3>4. SumFrom(0, << c >>) \in Int
      <4>1. \A e \in RouteRecs : e.type \in Int  BY ClassFacts DEF RouteRecs
      <4>2. PICK f : Sums(f, 0, << c >>)  BY <3>3, <4>1, ClassFacts, SumIsLoop
      <4> QED BY <4>2 DEF Sums
    <3> QED BY <3>1, <3>2, <3>4
  <2>3. CASE ~Loop
    <3>1. Candidates = routes  BY <2>3 DEF Candidates, Loop
    <3>2. /\ \A k \in DOMAIN routes : Unwrapped(routes[k])
          /\ \A j, k \in DOMAIN routes : j <= k => SumFrom(0, routes[j]) <= SumFrom(0, routes[k])
      BY <1>1 DEF AnswerInv, FoundInOrder
    <3>3. \A k \in DOMAIN routes : /\ SumFrom(0, routes[k]) \in Nat
                                   /\ SumFrom(0, routes[k]) > 0 => SumFrom(IntMax, routes[k]) < 0
      <4> SUFFICES ASSUME NEW k \in DOMAIN routes
                   PROVE  /\ SumFrom(0, routes[k]) \in Nat
                          /\ SumFrom(0, routes[k]) > 0 => SumFrom(IntMax, routes[k]) < 0
        OBVIOUS
      <4>1. routes[k] \in Seq(RouteRecs) /\ Unwrapped(routes[k])  BY <1>2, <3>2
      <4> QED BY <4>1, SumUnwrapped
    <3>4. 1 \in DOMAIN routes /\ \A k \in DOMAIN routes : 1 <= k  BY <1>2, <2>1, <3>1
    <3>5. SumFrom(IntMax, routes[1]) \in Int
      <4>1. \A e \in RouteRecs : e.type \in Int  BY ClassFacts DEF RouteRecs
      <4>2. routes[1] \in Seq(RouteRecs)  BY <1>2, <3>4
      <4>3. Len(routes[1]) \in Nat /\ \A k \in 1..Len(routes[1]) : routes[1][k].type \in Int
        BY <4>1, <4>2
      <4>4. PICK f : Sums(f, IntMax, routes[1])  BY <4>3, ClassFacts, SumIsLoop
      <4> QED BY <4>3, <4>4 DEF Sums
    <3>6. CASE SumFrom(0, routes[1]) = 0  BY <3>1, <3>6
    <3>7. CASE SumFrom(0, routes[1]) > 0
      <4>1. answer' = routes[1]
        BY <1>1, <1>3, <2>1, <3>1, <3>3, <3>4, <3>5, <3>7, AnswerIsCandidate
      <4> QED BY <3>1, <3>2, <3>4, <4>1
    <3> QED BY <3>3, <3>4, <3>6, <3>7
  <2> QED BY <2>2, <2>3
<1>9. FoundInOrder'  BY <1>1 DEF FoundInOrder
<1> QED BY <1>1, <1>7, <1>8, <1>9 DEF AnswerInv

\* Every step of a request preserves the invariant.
LEMMA NextAnswer == IInv /\ AnswerInv /\ [Next]_vars => AnswerInv'
<1> SUFFICES ASSUME IInv, AnswerInv, [Next]_vars PROVE AnswerInv'
  OBVIOUS
<1>0. <<>> \in Seq(Seq(RouteRecs)) /\ <<>> \in Seq(RouteRecs)  OBVIOUS
<1>1. CASE QueryOffRoad
  <2>1. /\ rect' = NoRect /\ routes' = <<>> /\ answer' = <<>> /\ pc' = "idle"
        /\ UNCHANGED <<rclass, type>>
    BY <1>1 DEF QueryOffRoad
  <2> QED BY <1>0, <2>1 DEF AnswerInv, TypeOK, FoundInOrder, AnswerIsCheapest
<1>2. CASE Query
  <2>1. /\ rect' \in Nodes \X Nodes /\ routes' = <<>> /\ answer' = <<>> /\ pc' = "search"
        /\ UNCHANGED <<rclass, type>>
    BY <1>2 DEF Query, Rects
  <2>2. TypeOK'  BY <1>0, <2>1 DEF AnswerInv, TypeOK
  <2>3. FoundInOrder'  BY <2>1 DEF FoundInOrder
  <2>4. AnswerIsCheapest'  BY <2>1 DEF AnswerIsCheapest
  <2> QED BY <2>1, <2>2, <2>3, <2>4 DEF AnswerInv
<1>3. CASE GetRoute  BY <1>3, GetRouteAnswer
<1>4. CASE Finish  BY <1>4, FinishAnswer
<1>5. CASE UNCHANGED vars
  <2>1. UNCHANGED <<pc, rclass, type, rect, routes, answer>>  BY <1>5 DEF vars
  <2>2. TypeOK'  BY <2>1 DEF AnswerInv, TypeOK
  <2>3. FoundInOrder'
    <3>1. Paths(rect[1], rect[2])' = Paths(rect[1], rect[2])
      BY <2>1 DEF Paths, Open, Between
    <3>2. \A s : RouteAlong(s)' = RouteAlong(s)  BY <2>1 DEF RouteAlong
    <3> QED BY <2>1, <3>1, <3>2 DEF AnswerInv, FoundInOrder, NoParallelRoads
  <2>4. AnswerIsCheapest'  BY <2>1 DEF AnswerInv, AnswerIsCheapest, NoParallelRoads
  <2> QED BY <2>1, <2>2, <2>3, <2>4 DEF AnswerInv
<1> QED BY <1>1, <1>2, <1>3, <1>4, <1>5 DEF Next

------------------------------------------------------------------------------
\* On every map, get_optimal_route leaves no road at the maximum behind.
THEOREM MapIsRestored == Spec => []NoMarkSurvives
<1>1. IInv => NoMarkSurvives
  BY DEF IInv, MarksAreUsed, NoMarkSurvives, Unmarked
<1> QED BY <1>1, Inductive, PTL

\* On every map without parallel roads, get_routes gives no road twice.
THEOREM RoutesShareNoRoad == Spec => []CandidatesDisjoint
  BY Inductive, PTL DEF IInv

\* On every map whose sums fit in an int, every variable keeps its type and
\* cal_optimal_route returns a cheapest candidate, unless the first candidate
\* costs nothing; the latter when there are no parallel roads.
THEOREM AnswerStaysSound == Spec => []AnswerIsSound
<1>1. IInv /\ AnswerInv => AnswerIsSound  BY DEF AnswerInv, AnswerIsSound
<1> QED BY <1>1, InitInv, InitAnswer, NextInv, NextAnswer, PTL DEF Spec

------------------------------------------------------------------------------
(***************************************************************************)
(* The import.                                                             *)
(***************************************************************************)


\* A row of another road, or of an earlier segment, leaves a record as it is.
LEMMA RecordStays ==
  ASSUME NEW rs \in Seq(Rows), NEW row \in Rows, NEW d \in Rows, RecordOf(d, rs),
         d.mainid # row.mainid \/ ~(row.subid > d.subid)
  PROVE  RecordOf(d, Append(rs, row))
<1> DEFINE t == Append(rs, row)
           n == Len(rs) + 1
<1>1. /\ DOMAIN rs = 1..Len(rs) /\ DOMAIN t = 1..n /\ Len(rs) \in Nat
      /\ t[n] = row /\ \A j \in DOMAIN rs : t[j] = rs[j] /\ rs[j] \in Rows
  OBVIOUS
<1> HIDE DEF t, n
<1>2. \A j \in DOMAIN t : j \in DOMAIN rs \/ j = n  BY <1>1 DEF n
<1>3. DOMAIN rs \subseteq DOMAIN t  BY <1>1 DEF n
<1>4. \E j \in DOMAIN t : t[j].mainid = d.mainid /\ t[j].subid = d.subid /\ t[j].endid = d.endid
  BY <1>1, <1>3 DEF RecordOf
<1>5. \A j \in DOMAIN t : t[j].mainid = d.mainid => t[j].subid <= d.subid
  <2>1. t[n].mainid = d.mainid => t[n].subid <= d.subid  BY <1>1 DEF Rows
  <2> QED BY <1>1, <1>2, <2>1 DEF RecordOf
<1>6. \E j \in DOMAIN t : /\ t[j].mainid = d.mainid /\ t[j].startid = d.startid
                          /\ \A k \in 1 .. j - 1 : t[k].mainid # d.mainid
  <2>1. PICK j \in DOMAIN rs : /\ rs[j].mainid = d.mainid /\ rs[j].startid = d.startid
                               /\ \A k \in 1 .. j - 1 : rs[k].mainid # d.mainid
    BY DEF RecordOf
  <2>2. \A k \in 1 .. j - 1 : k \in DOMAIN rs  BY <1>1
  <2> QED BY <1>1, <1>3, <2>1, <2>2
<1> QED BY <1>4, <1>5, <1>6 DEF RecordOf, t

\* A row of a later segment extends its road.
LEMMA RecordGrows ==
  ASSUME NEW rs \in Seq(Rows), NEW row \in Rows, NEW d \in Rows, RecordOf(d, rs),
         d.mainid = row.mainid, row.subid > d.subid
  PROVE  RecordOf([d EXCEPT !.subid = row.subid, !.endid = row.endid], Append(rs, row))
<1> DEFINE t == Append(rs, row)
           n == Len(rs) + 1
           e == [d EXCEPT !.subid = row.subid, !.endid = row.endid]
<1>1. /\ DOMAIN rs = 1..Len(rs) /\ DOMAIN t = 1..n /\ Len(rs) \in Nat
      /\ t[n] = row /\ \A j \in DOMAIN rs : t[j] = rs[j] /\ rs[j] \in Rows
  OBVIOUS
<1>2. e.mainid = d.mainid /\ e.startid = d.startid /\ e.subid = row.subid /\ e.endid = row.endid
  BY DEF Rows
<1> HIDE DEF t, n, e
<1>3. \A j \in DOMAIN t : j \in DOMAIN rs \/ j = n  BY <1>1 DEF n
<1>4. DOMAIN rs \subseteq DOMAIN t /\ n \in DOMAIN t  BY <1>1 DEF n
<1>5. \E j \in DOMAIN t : t[j].mainid = e.mainid /\ t[j].subid = e.subid /\ t[j].endid = e.endid
  BY <1>1, <1>2, <1>4
<1>6. \A j \in DOMAIN t : t[j].mainid = e.mainid => t[j].subid <= e.subid
  <2>1. ASSUME NEW j \in DOMAIN rs, rs[j].mainid = d.mainid PROVE rs[j].subid <= row.subid
    <3>1. rs[j].subid <= d.subid  BY <2>1 DEF RecordOf
    <3>2. rs[j].subid \in Nat /\ d.subid \in Nat /\ row.subid \in Nat  BY <1>1 DEF Rows
    <3> QED BY <3>1, <3>2
  <2>2. row.subid <= row.subid  BY DEF Rows
  <2> QED BY <1>1, <1>2, <1>3, <2>1, <2>2
<1>7. \E j \in DOMAIN t : /\ t[j].mainid = e.mainid /\ t[j].startid = e.startid
                          /\ \A k \in 1 .. j - 1 : t[k].mainid # e.mainid
  <2>1. PICK j \in DOMAIN rs : /\ rs[j].mainid = d.mainid /\ rs[j].startid = d.startid
                               /\ \A k \in 1 .. j - 1 : rs[k].mainid # d.mainid
    BY DEF RecordOf
  <2>2. \A k \in 1 .. j - 1 : k \in DOMAIN rs  BY <1>1
  <2> QED BY <1>1, <1>2, <1>4, <2>1, <2>2
<1> QED BY <1>5, <1>6, <1>7 DEF RecordOf, t, e

\* The first row of a road is its record.
LEMMA RecordBegins ==
  ASSUME NEW rs \in Seq(Rows), NEW row \in Rows,
         \A j \in DOMAIN rs : rs[j].mainid # row.mainid
  PROVE  RecordOf(row, Append(rs, row))
<1> DEFINE t == Append(rs, row)
           n == Len(rs) + 1
<1>1. /\ DOMAIN rs = 1..Len(rs) /\ DOMAIN t = 1..n /\ Len(rs) \in Nat
      /\ t[n] = row /\ \A j \in DOMAIN rs : t[j] = rs[j]
  OBVIOUS
<1> HIDE DEF t, n
<1>2. \A j \in DOMAIN t : j \in DOMAIN rs \/ j = n  BY <1>1 DEF n
<1>3. n \in DOMAIN t /\ \A k \in 1 .. n - 1 : k \in DOMAIN rs  BY <1>1 DEF n
<1>4. row.subid <= row.subid  BY DEF Rows
<1> QED BY <1>1, <1>2, <1>3, <1>4 DEF RecordOf, t


\* A vector that keeps of every value the first occurrence, up to position k.
Keeps(q, s, k) ==
  /\ q \in Seq(Nat) /\ IsInjective(q)
  /\ ToSet(q) = {s[j] : j \in 1..k}

\* One round of the loop with the bitmap.
LEMMA KeepOne ==
  ASSUME NEW s \in Seq(Nat), NEW k \in 1..Len(s), NEW q, Keeps(q, s, k - 1)
  PROVE  /\ s[k] \in ToSet(q) => Keeps(q, s, k)
         /\ s[k] \notin ToSet(q) => Keeps(Append(q, s[k]), s, k)
<1>1. 1..k = (1..(k-1)) \cup {k}  OBVIOUS
<1>2. {s[j] : j \in 1..k} = {s[j] : j \in 1..(k-1)} \cup {s[k]}
  BY ONLY <1>1
<1>3. q \in Seq(Nat) /\ IsInjective(q) /\ ToSet(q) = {s[j] : j \in 1..(k-1)} /\ s[k] \in Nat
  BY DEF Keeps
<1>4. CASE s[k] \in ToSet(q)
  BY <1>2, <1>3, <1>4 DEF Keeps
<1>5. CASE s[k] \notin ToSet(q)
  <2> DEFINE t == Append(q, s[k])
             n == Len(q) + 1
  <2>1. /\ t \in Seq(Nat) /\ DOMAIN t = 1..n /\ DOMAIN q = 1..Len(q) /\ Len(q) \in Nat
        /\ t[n] = s[k] /\ \A j \in DOMAIN q : t[j] = q[j]
    BY <1>3
  <2> HIDE DEF t, n
  <2>2. DOMAIN t = DOMAIN q \cup {n} /\ n \notin DOMAIN q  BY <2>1 DEF n
  <2>3. \A j \in DOMAIN q : t[j] # s[k]  BY <1>5, <2>1 DEF ToSet
  <2>4. IsInjective(t)  BY <1>3, <2>1, <2>2, <2>3 DEF IsInjective
  <2>5. ToSet(t) = ToSet(q) \cup {s[k]}  BY <2>1, <2>2 DEF ToSet
  <2> QED BY <1>2, <1>3, <1>5, <2>1, <2>4, <2>5 DEF Keeps, t
<1> QED BY <1>4, <1>5

\* nodes_ has every node once.
LEMMA FirstOnlyFacts ==
  ASSUME NEW s \in Seq(Nat)
  PROVE  FirstOnly(s) \in Seq(Nat) /\ IsInjective(FirstOnly(s)) /\ ToSet(FirstOnly(s)) = ToSet(s)
<1> DEFINE N == Len(s)
           Keep(q, k) == IF s[k] \in ToSet(q) THEN q ELSE Append(q, s[k])
           next == [p \in Seq(Nat) \X (1..N) |-> Keep(p[1], p[2])]
           Is(f) == f = [k \in 0..N |-> IF k = 0 THEN <<>> ELSE Keep(f[k-1], k)]
           f == CHOOSE f : Is(f)
<1>1. N \in Nat /\ \A k \in 1..N : s[k] \in Nat  OBVIOUS
<1>2. FirstOnly(s) = f[N]  BY DEF FirstOnly
<1>3. \A q \in Seq(Nat), k \in 1..N : Keep(q, k) \in Seq(Nat)  BY <1>1
<1> HIDE DEF N, Keep
<1>4. next \in [Seq(Nat) \X (1..N) -> Seq(Nat)]  BY <1>3
<1>5. \A q \in Seq(Nat), k \in 1..N : next[<<q, k>>] = Keep(q, k)  OBVIOUS
<1> HIDE DEF next
<1>6. PICK g : IsLoop(g, N, Seq(Nat), <<>>, next)
  <2>1. <<>> \in Seq(Nat)  OBVIOUS
  <2> QED BY <1>1, <1>4, <2>1, Recursion
<1>7. Is(g)
  <2>1. g \in [0..N -> Seq(Nat)] /\ g[0] = <<>> /\ \A k \in 1..N : g[k] = next[<<g[k-1], k>>]
    BY <1>6 DEF IsLoop
  <2>2. ASSUME NEW k \in 1..N PROVE g[k] = Keep(g[k-1], k)
    <3>1. k - 1 \in 0..N  BY <1>1
    <3> QED BY <1>5, <2>1, <3>1
  <2>3. \A k \in 0..N : g[k] = IF k = 0 THEN <<>> ELSE Keep(g[k-1], k)
    BY <1>1, <2>1, <2>2
  <2> QED BY <2>1, <2>3
<1>8. Is(f)  BY <1>7
<1> HIDE DEF f
<1>9. f[0] = <<>> /\ \A k \in 1..N : f[k] = Keep(f[k-1], k)  BY <1>1, <1>8
<1> DEFINE P == {k \in 0..N : Keeps(f[k], s, k)}
<1>10. 0 \in P
  <2>1. Keeps(<<>>, s, 0)
    <3>1. ToSet(<<>>) = {} /\ IsInjective(<<>>) /\ <<>> \in Seq(Nat)  BY DEF ToSet, IsInjective
    <3>2. {s[j] : j \in 1..0} = {}  OBVIOUS
    <3> QED BY <3>1, <3>2 DEF Keeps
  <2> QED BY <1>1, <1>9, <2>1
<1>11. ASSUME NEW k \in 1..N, k - 1 \in P PROVE k \in P
  <2>1. Keeps(f[k-1], s, k - 1)  BY <1>11
  <2>2. Keeps(Keep(f[k-1], k), s, k)  BY <2>1, KeepOne DEF N, Keep
  <2> QED BY <1>1, <1>9, <2>2
<1> HIDE DEF P
<1>12. \A k \in 0..N : k \in P  BY <1>1, <1>10, <1>11, InductionUpTo
<1>13. N \in P  BY <1>1, <1>12
<1>14. Keeps(f[N], s, N)  BY <1>13 DEF P
<1>15. ToSet(s) = {s[j] : j \in 1..N}  BY DEF ToSet, N
<1> QED BY <1>2, <1>14, <1>15 DEF Keeps

\* The nodes that import_data collects are the ends of the records.
LEMMA CollectedFacts ==
  ASSUME dedup \in Seq(Rows)
  PROVE  Collected \in Seq(Nat) /\ ToSet(Collected) = UsedNodes
<1> DEFINE N == 2 * Len(dedup)
           At(k) == EndsOf(dedup[(k + 1) \div 2])[IF k % 2 = 1 THEN 1 ELSE 2]
<1>1. Collected = [k \in 1..N |-> At(k)]  BY DEF Collected
<1>2. N \in Nat /\ Len(dedup) \in Nat /\ DOMAIN dedup = 1..Len(dedup)  OBVIOUS
<1>3. ASSUME NEW i \in DOMAIN dedup
      PROVE  /\ EndsOf(dedup[i])[1] \in Nat /\ EndsOf(dedup[i])[2] \in Nat
             /\ ToSet(EndsOf(dedup[i])) = {EndsOf(dedup[i])[1], EndsOf(dedup[i])[2]}
  <2>1. dedup[i] \in Rows  OBVIOUS
  <2> QED BY <2>1 DEF EndsOf, Rows, ToSet
<1>4. \A k \in 1..N : (k + 1) \div 2 \in DOMAIN dedup  BY <1>2
<1>5. \A k \in 1..N : At(k) \in Nat /\ At(k) \in ToSet(EndsOf(dedup[(k + 1) \div 2]))
  BY <1>3, <1>4
<1>6. Collected \in Seq(Nat)
  <2>1. Collected \in [1..N -> Nat]  BY <1>1, <1>5
  <2> QED BY <1>2, <2>1
<1>7. ToSet(Collected) = {At(k) : k \in 1..N}  BY <1>1 DEF ToSet
<1>8. ASSUME NEW i \in DOMAIN dedup
      PROVE  /\ 2 * i - 1 \in 1..N /\ At(2 * i - 1) = EndsOf(dedup[i])[1]
             /\ 2 * i \in 1..N /\ At(2 * i) = EndsOf(dedup[i])[2]
  <2>1. 2 * i - 1 \in 1..N /\ 2 * i \in 1..N  BY <1>2
  <2>2. ((2 * i - 1) + 1) \div 2 = i /\ (2 * i - 1) % 2 = 1  BY <1>2
  <2>3. (2 * i + 1) \div 2 = i /\ (2 * i) % 2 = 0  BY <1>2
  <2> QED BY <2>1, <2>2, <2>3
<1> HIDE DEF N, At
<1>9. UsedNodes \subseteq ToSet(Collected)
  <2> SUFFICES ASSUME NEW i \in DOMAIN dedup, NEW x \in ToSet(EndsOf(dedup[i]))
               PROVE  x \in {At(k) : k \in 1..N}
    BY <1>7 DEF UsedNodes
  <2> QED BY <1>3, <1>8
<1>10. ToSet(Collected) \subseteq UsedNodes
  BY <1>4, <1>5, <1>7 DEF UsedNodes
<1> QED BY <1>6, <1>9, <1>10


\* The values of a vector of numbers are bounded.
LEMMA VectorBounded ==
  ASSUME NEW s \in Seq(Nat)
  PROVE  \E b \in Nat : \A j \in DOMAIN s : s[j] <= b
<1> DEFINE N == Len(s)
           P == {k \in 0..N : \E b \in Nat : \A j \in 1..k : s[j] <= b}
<1>1. N \in Nat /\ DOMAIN s = 1..N /\ \A j \in 1..N : s[j] \in Nat  OBVIOUS
<1> HIDE DEF N
<1>2. 0 \in P  BY <1>1
<1>3. ASSUME NEW k \in 1..N, k - 1 \in P PROVE k \in P
  <2>1. PICK b \in Nat : \A j \in 1..(k-1) : s[j] <= b  BY <1>3
  <2>2. s[k] \in Nat  BY <1>1
  <2>3. PICK c \in Nat : b <= c /\ s[k] <= c
    <3>1. b + s[k] \in Nat /\ b <= b + s[k] /\ s[k] <= b + s[k]  BY <2>2
    <3> QED BY <3>1
  <2>4. \A j \in 1..k : s[j] <= c
    <3> SUFFICES ASSUME NEW j \in 1..k PROVE s[j] <= c  OBVIOUS
    <3>1. CASE j = k  BY <3>1, <2>3
    <3>2. CASE j # k
      <4>1. j \in 1..(k-1) /\ j \in 1..N  BY <3>2, <1>1
      <4>2. s[j] \in Nat /\ s[j] <= b  BY <4>1, <1>1, <2>1
      <4> QED BY <4>2, <2>3
    <3> QED BY <3>1, <3>2
  <2> QED BY <1>1, <2>4
<1> HIDE DEF P
<1>4. N \in P
  <2>1. \A k \in 0..N : k \in P  BY <1>1, <1>2, <1>3, InductionUpTo
  <2> QED BY <1>1, <2>1
<1> QED BY <1>1, <1>4 DEF P

\* A bounded set of numbers has a largest element.
LEMMA MaxFacts ==
  ASSUME NEW S \in SUBSET Nat, S # {}, NEW b \in Nat, \A y \in S : y <= b
  PROVE  Max(S) \in S /\ \A y \in S : y <= Max(S)
<1> DEFINE U == {u \in Nat : \A y \in S : y <= u}
<1>1. U \subseteq Nat /\ U # {}  OBVIOUS
<1>2. PICK m \in U : \A u \in U : m <= u  BY <1>1, LeastExists
<1>3. m \in Nat /\ \A y \in S : y \in Nat /\ y <= m  BY <1>2
<1>4. m \in S
  <2> SUFFICES ASSUME m \notin S PROVE FALSE  OBVIOUS
  <2>1. \A y \in S : y < m  BY <1>3
  <2>2. m - 1 \in Nat
    <3>1. PICK y \in S : TRUE  OBVIOUS
    <3>2. y \in Nat /\ y < m  BY <1>3, <2>1, <3>1
    <3> QED BY <1>3, <3>2
  <2>3. \A y \in S : y <= m - 1  BY <1>3, <2>1
  <2>4. m - 1 \in U  BY <2>2, <2>3
  <2> QED BY <1>2, <1>3, <2>4
<1> HIDE DEF U
<1>5. \E x \in S : \A y \in S : x >= y  BY <1>3, <1>4
<1>6. Max(S) \in S /\ \A y \in S : Max(S) >= y  BY <1>5 DEF Max
<1> QED BY <1>6, <1>3

\* Different numbers up to m fit into a vector of at most m + 1.
LEMMA InjectiveIsShort ==
  ASSUME NEW q \in Seq(Nat), IsInjective(q), NEW m \in Nat, \A j \in DOMAIN q : q[j] <= m
  PROVE  Len(q) - 1 <= m
<1>1. Len(q) \in Nat /\ DOMAIN q = 1..Len(q) /\ \A j \in 1..Len(q) : q[j] \in 0..m  OBVIOUS
<1>2. q \in [1..Len(q) -> 0..m]
  <2>1. q = [j \in 1..Len(q) |-> q[j]]  OBVIOUS
  <2> QED BY <1>1, <2>1
<1> SUFFICES ASSUME Len(q) > m + 1 PROVE FALSE
  BY <1>1
<1>3. IsFiniteSet(1..Len(q)) /\ Cardinality(1..Len(q)) = Len(q)
  <2>1. Len(q) \in Int /\ 1 \in Int /\ ~(1 > Len(q))  BY <1>1
  <2>2. Cardinality(1..Len(q)) = Len(q) - 1 + 1  BY <2>1, FS_Interval
  <2> QED BY <1>1, <2>1, <2>2, FS_Interval
<1>4. IsFiniteSet(0..m) /\ Cardinality(0..m) = m + 1
  <2>1. m \in Int /\ 0 \in Int /\ ~(0 > m)  OBVIOUS
  <2>2. Cardinality(0..m) = m - 0 + 1  BY <2>1, FS_Interval
  <2> QED BY <2>1, <2>2, FS_Interval
<1>5. \E x, y \in 1..Len(q) : x # y /\ q[x] = q[y]
  BY <1>2, <1>3, <1>4, FS_PigeonHole
<1> QED BY <1>1, <1>5 DEF IsInjective

\* The graph of import_map_data has the vertices up to the largest node of a
\* road.
LEMMA VerticesFacts ==
  ASSUME ImportTypeOK, GraphIsMade, stage \in {"build", "done", "ub"}, dedup # <<>>
  PROVE  /\ Vertices = 0 .. Max(UsedNodes)
         /\ UsedNodes \subseteq Vertices
         /\ Max(UsedNodes) \in Nat
<1> DEFINE M == Max(UsedNodes)
           S == {Len(nodes) - 1} \cup UNION {ToSet(edges[i].ends) : i \in DOMAIN edges}
<1>1. dedup \in Seq(Rows) /\ nodes \in Seq(Nat)  BY DEF ImportTypeOK
<1>2. IsInjective(nodes) /\ ToSet(nodes) = UsedNodes  BY DEF GraphIsMade
<1>3. DOMAIN edges = DOMAIN dedup /\ \A i \in DOMAIN dedup : edges[i].ends = EndsOf(dedup[i])
  BY DEF GraphIsMade
<1>4. UNION {ToSet(edges[i].ends) : i \in DOMAIN edges} = UsedNodes  BY <1>3 DEF UsedNodes
<1>5. UsedNodes \subseteq Nat /\ UsedNodes # {}
  <2>1. 1 \in DOMAIN dedup /\ dedup[1] \in Rows  BY <1>1
  <2>2. dedup[1].startid \in ToSet(EndsOf(dedup[1]))  BY DEF ToSet, EndsOf
  <2>3. ToSet(nodes) \subseteq Nat  BY <1>1 DEF ToSet
  <2> QED BY <1>2, <2>1, <2>2, <2>3 DEF UsedNodes
<1>6. \E b \in Nat : \A y \in UsedNodes : y <= b
  <2>1. \E b \in Nat : \A j \in DOMAIN nodes : nodes[j] <= b  BY <1>1, VectorBounded
  <2> QED BY <1>2, <2>1 DEF ToSet
<1>7. M \in UsedNodes /\ \A y \in UsedNodes : y <= M  BY <1>5, <1>6, MaxFacts
<1> HIDE DEF M
<1>8. M \in Nat  BY <1>5, <1>7
<1>9. \A j \in DOMAIN nodes : nodes[j] <= M  BY <1>2, <1>7 DEF ToSet
<1>10. Len(nodes) - 1 <= M  BY <1>1, <1>2, <1>8, <1>9, InjectiveIsShort
<1>11. Len(nodes) - 1 \in Nat
  <2>1. nodes # <<>>
    <3>1. ToSet(<<>>) = {}  BY DEF ToSet
    <3> QED BY <1>2, <1>5, <3>1
  <2> QED BY <1>1, <2>1
<1>12. S \in SUBSET Nat /\ M \in S /\ \A y \in S : y <= M
  BY <1>4, <1>5, <1>7, <1>10, <1>11
<1> HIDE DEF S
<1>13. Max(S) \in S /\ \A y \in S : y <= Max(S)  BY <1>8, <1>12, MaxFacts
<1>14. Max(S) = M
  <2>1. Max(S) \in Nat /\ Max(S) <= M /\ M <= Max(S)  BY <1>12, <1>13
  <2> QED BY <1>8, <2>1
<1>15. Vertices = 0 .. M  BY <1>14 DEF Vertices, S
<1>16. UsedNodes \subseteq 0 .. M  BY <1>5, <1>7, <1>8
<1> QED BY <1>8, <1>15, <1>16 DEF M

\* A road in the table has a record once all rows are read.
LEMMA SomeRecord ==
  ASSUME ImportInv, stage # "fetch"
  PROVE  dedup # <<>>
<1>1. ToSet(raw) = table /\ table # {}  BY TablesAssumption DEF ImportInv, GraphIsMade, ImportTypeOK
<1>2. PICK j \in DOMAIN raw : TRUE  BY <1>1 DEF ToSet
<1>3. PICK i \in DOMAIN dedup : TRUE  BY <1>2 DEF ImportInv, RecordsAreMerged
<1> QED BY <1>3


\* Before the first row there are no records and no graph.
LEMMA ImportBegins == ImportInit => ImportInv
<1> SUFFICES ASSUME ImportInit PROVE ImportInv  OBVIOUS
<1>1. ImportTypeOK
  <2>1. IsInjective(<<>>) /\ \A S : <<>> \in Seq(S)  BY DEF IsInjective
  <2> QED BY <2>1 DEF ImportInit, ImportTypeOK
<1>2. RecordsAreMerged  BY DEF ImportInit, RecordsAreMerged
<1>3. GraphIsMade  BY DEF ImportInit, GraphIsMade
<1> QED BY <1>1, <1>2, <1>3 DEF ImportInv

\* A row is merged into the records: what dedup_raw_data does with it.
LEMMA FetchInv ==
  ASSUME ImportInv, NEW row \in table, Fetch(row)
  PROVE  ImportInv'
<1> USE DEF ImportInv
<1>1. /\ stage = "fetch" /\ stage' = "fetch" /\ table' = table /\ nodes' = nodes
      /\ row \notin ToSet(raw) /\ raw' = Append(raw, row)
  BY DEF Fetch
<1>2. /\ table \in Tables /\ raw \in Seq(table) /\ IsInjective(raw) /\ dedup \in Seq(Rows)
      /\ nodes \in Seq(Nat)
  BY DEF ImportTypeOK
<1>3. row \in Rows /\ table \subseteq Rows  BY <1>2, TablesAssumption
<1>4. raw \in Seq(Rows) /\ DOMAIN raw = 1..Len(raw) /\ Len(raw) \in Nat
      /\ DOMAIN dedup = 1..Len(dedup) /\ Len(dedup) \in Nat
      /\ \A i \in DOMAIN dedup : dedup[i] \in Rows
  BY <1>2, <1>3
<1>5. /\ DOMAIN raw' = 1..(Len(raw) + 1) /\ raw'[Len(raw) + 1] = row
      /\ \A j \in DOMAIN raw : raw'[j] = raw[j]
  BY <1>1, <1>4
<1>6. \A j \in DOMAIN raw' : j \in DOMAIN raw \/ j = Len(raw) + 1  BY <1>4, <1>5
<1>7. raw' \in Seq(table) /\ IsInjective(raw)'
  <2>1. \A j \in DOMAIN raw : raw[j] # row  BY <1>1 DEF ToSet
  <2>2. IsInjective(raw')  BY <1>2, <1>5, <1>6, <2>1 DEF IsInjective
  <2> QED BY <1>1, <1>2, <2>2
<1>8. GraphIsMade'  BY <1>1 DEF GraphIsMade
<1>9. CASE Known(row.mainid) = {}
  <2>1. dedup' = Append(dedup, row)  BY <1>9 DEF Fetch
  <2>2. dedup' \in Seq(Rows)  BY <1>3, <1>4, <1>2, <2>1
  <2>3. ImportTypeOK'  BY <1>1, <1>2, <1>7, <2>2 DEF ImportTypeOK
  <2> DEFINE n == Len(dedup) + 1
  <2>4. DOMAIN dedup' = 1..n /\ dedup'[n] = row /\ \A i \in DOMAIN dedup : dedup'[i] = dedup[i]
    BY <1>2, <1>4, <2>1
  <2> HIDE DEF n
  <2>5. DOMAIN dedup' = DOMAIN dedup \cup {n} /\ n \notin DOMAIN dedup  BY <1>4, <2>4 DEF n
  <2>6. \A i \in DOMAIN dedup : dedup[i].mainid # row.mainid  BY <1>9 DEF Known
  <2>7. \A j \in DOMAIN raw : raw[j].mainid # row.mainid
    BY <2>6 DEF RecordsAreMerged
  <2>8. ASSUME NEW i \in DOMAIN dedup' PROVE RecordOf(dedup'[i], raw')
    <3>1. CASE i = n  BY <1>1, <1>3, <1>4, <2>4, <2>7, <3>1, RecordBegins
    <3>2. CASE i # n
      <4>1. i \in DOMAIN dedup /\ dedup'[i] = dedup[i]  BY <2>4, <2>5, <3>2
      <4>2. RecordOf(dedup[i], raw)  BY <4>1 DEF RecordsAreMerged
      <4> QED BY <1>1, <1>3, <1>4, <2>6, <4>1, <4>2, RecordStays
    <3> QED BY <3>1, <3>2
  <2>9. ASSUME NEW j \in DOMAIN raw' PROVE \E i \in DOMAIN dedup' : dedup'[i].mainid = raw'[j].mainid
    <3>1. CASE j = Len(raw) + 1  BY <1>5, <2>4, <2>5, <3>1
    <3>2. CASE j \in DOMAIN raw
      <4>1. PICK i \in DOMAIN dedup : dedup[i].mainid = raw[j].mainid  BY <3>2 DEF RecordsAreMerged
      <4> QED BY <1>5, <2>4, <2>5, <3>2, <4>1
    <3> QED BY <1>6, <3>1, <3>2
  <2>10. \A i, j \in DOMAIN dedup' : dedup'[i].mainid = dedup'[j].mainid => i = j
    BY <2>4, <2>5, <2>6 DEF RecordsAreMerged
  <2>11. RecordsAreMerged'  BY <2>8, <2>9, <2>10 DEF RecordsAreMerged
  <2> QED BY <1>8, <2>3, <2>11
<1>10. CASE Known(row.mainid) # {}
  <2>1. PICK m \in DOMAIN dedup : dedup[m].mainid = row.mainid  BY <1>10 DEF Known
  <2>2. Known(row.mainid) = {m}  BY <2>1 DEF Known, RecordsAreMerged
  <2>3. Min(Known(row.mainid)) = m
    <3>1. m \in Nat  BY <1>4, <2>1
    <3>2. \E x \in {m} : \A y \in {m} : x <= y  BY <3>1
    <3>3. Min({m}) \in {m}  BY <3>2 DEF Min
    <3> QED BY <2>2, <3>3
  <2> DEFINE ext == row.subid > dedup[m].subid
             new == [dedup[m] EXCEPT !.subid = row.subid, !.endid = row.endid]
  <2>4. dedup' = [i \in DOMAIN dedup |-> IF i = m /\ ext THEN new ELSE dedup[i]]
    BY <1>10, <2>3 DEF Fetch, Extends, Extended
  <2>5. new \in Rows /\ new.mainid = dedup[m].mainid  BY <1>3, <1>4, <2>1 DEF Rows
  <2> HIDE DEF ext, new
  <2>6. /\ DOMAIN dedup' = DOMAIN dedup
        /\ \A i \in DOMAIN dedup : /\ i = m /\ ext => dedup'[i] = new
                                   /\ ~(i = m /\ ext) => dedup'[i] = dedup[i]
    BY <2>4
  <2>7. dedup' \in Seq(Rows)
    <3>1. dedup' \in [1..Len(dedup) -> Rows]  BY <1>4, <2>4, <2>5
    <3> QED BY <1>4, <3>1
  <2>8. ImportTypeOK'  BY <1>1, <1>2, <1>7, <2>7 DEF ImportTypeOK
  <2>9. \A i \in DOMAIN dedup : dedup'[i].mainid = dedup[i].mainid  BY <2>5, <2>6
  <2>10. ASSUME NEW i \in DOMAIN dedup' PROVE RecordOf(dedup'[i], raw')
    <3>1. i \in DOMAIN dedup /\ dedup[i] \in Rows /\ RecordOf(dedup[i], raw)
      BY <1>4, <2>6 DEF RecordsAreMerged
    <3>2. CASE i = m /\ ext
      <4>1. dedup'[i] = new  BY <2>6, <3>1, <3>2
      <4>2. row.subid > dedup[m].subid /\ dedup[m] \in Rows /\ RecordOf(dedup[m], raw)
        BY <3>1, <3>2 DEF ext
      <4>3. RecordOf(new, Append(raw, row))  BY <1>3, <1>4, <2>1, <4>2, RecordGrows DEF new
      <4> QED BY <1>1, <4>1, <4>3
    <3>3. CASE ~(i = m /\ ext)
      <4>1. dedup'[i] = dedup[i]  BY <2>6, <3>1, <3>3
      <4>2. dedup[i].mainid # row.mainid \/ ~(row.subid > dedup[i].subid)
        BY <2>1, <3>1, <3>3 DEF ext, RecordsAreMerged
      <4> QED BY <1>1, <1>3, <1>4, <3>1, <4>1, <4>2, RecordStays
    <3> QED BY <3>2, <3>3
  <2>11. ASSUME NEW j \in DOMAIN raw' PROVE \E i \in DOMAIN dedup' : dedup'[i].mainid = raw'[j].mainid
    <3>1. CASE j = Len(raw) + 1  BY <1>5, <2>1, <2>6, <2>9, <3>1
    <3>2. CASE j \in DOMAIN raw
      <4>1. PICK i \in DOMAIN dedup : dedup[i].mainid = raw[j].mainid  BY <3>2 DEF RecordsAreMerged
      <4> QED BY <1>5, <2>6, <2>9, <3>2, <4>1
    <3> QED BY <1>6, <3>1, <3>2
  <2>12. \A i, j \in DOMAIN dedup' : dedup'[i].mainid = dedup'[j].mainid => i = j
    BY <2>6, <2>9 DEF RecordsAreMerged
  <2>13. RecordsAreMerged'  BY <2>10, <2>11, <2>12 DEF RecordsAreMerged
  <2> QED BY <1>8, <2>8, <2>13
<1> QED BY <1>9, <1>10

\* The nodes and the edges are those of the records.
LEMMA ImportDataInv ==
  ASSUME ImportInv, ImportData PROVE ImportInv'
<1> USE DEF ImportInv
<1>1. /\ stage = "import" /\ stage' = "build" /\ table' = table /\ raw' = raw /\ dedup' = dedup
      /\ nodes' = FirstOnly(Collected)
      /\ edges' = [i \in DOMAIN dedup |-> [road |-> dedup[i].mainid, ends |-> EndsOf(dedup[i])]]
  BY DEF ImportData
<1>2. dedup \in Seq(Rows)  BY DEF ImportTypeOK
<1>3. Collected \in Seq(Nat) /\ ToSet(Collected) = UsedNodes  BY <1>2, CollectedFacts
<1>4. nodes' \in Seq(Nat) /\ IsInjective(nodes') /\ ToSet(nodes') = UsedNodes
  BY <1>1, <1>3, FirstOnlyFacts
<1>5. UsedNodes' = UsedNodes  BY <1>1 DEF UsedNodes
<1>6. ImportTypeOK'  BY <1>1, <1>4 DEF ImportTypeOK
<1>7. RecordsAreMerged'  BY <1>1 DEF RecordsAreMerged
<1>8. GraphIsMade'
  <2>1. ToSet(raw) = table  BY <1>1 DEF GraphIsMade
  <2> QED BY <1>1, <1>4, <1>5, <2>1 DEF GraphIsMade
<1> QED BY <1>6, <1>7, <1>8

\* Every step of the import keeps the invariant.
LEMMA ImportKeeps == ImportInv /\ [ImportNext]_importVars => ImportInv'
<1> SUFFICES ASSUME ImportInv, [ImportNext]_importVars PROVE ImportInv'
  OBVIOUS
<1>1. CASE \E row \in table : Fetch(row)  BY <1>1, FetchInv
<1>2. CASE Fetched
  <2>1. ImportTypeOK'  BY <1>2 DEF Fetched, ImportTypeOK, ImportInv
  <2>2. RecordsAreMerged'  BY <1>2 DEF Fetched, RecordsAreMerged, ImportInv
  <2>3. GraphIsMade'  BY <1>2 DEF Fetched, GraphIsMade
  <2> QED BY <2>1, <2>2, <2>3 DEF ImportInv
<1>3. CASE ImportData  BY <1>3, ImportDataInv
<1>4. CASE BuildMap
  <2>1. /\ table' = table /\ raw' = raw /\ dedup' = dedup /\ nodes' = nodes /\ edges' = edges
        /\ stage = "build"
    BY <1>4 DEF BuildMap
  <2>2. Vertices' = Vertices /\ UsedNodes' = UsedNodes  BY <2>1 DEF Vertices, UsedNodes
  <2>3. ImportTypeOK'  BY <1>4, <2>1 DEF BuildMap, ImportTypeOK, ImportInv
  <2>4. RecordsAreMerged'  BY <2>1 DEF RecordsAreMerged, ImportInv
  <2>5. GraphIsMade'  BY <1>4, <2>1, <2>2 DEF BuildMap, GraphIsMade, ImportInv
  <2> QED BY <2>3, <2>4, <2>5 DEF ImportInv
<1>5. CASE UNCHANGED importVars
  <2>1. Vertices' = Vertices /\ UsedNodes' = UsedNodes  BY <1>5 DEF importVars, Vertices, UsedNodes
  <2>2. ImportTypeOK'  BY <1>5 DEF importVars, ImportTypeOK, ImportInv
  <2>3. RecordsAreMerged'  BY <1>5 DEF importVars, RecordsAreMerged, ImportInv
  <2>4. GraphIsMade'  BY <1>5, <2>1 DEF importVars, GraphIsMade, ImportInv
  <2> QED BY <2>2, <2>3, <2>4 DEF ImportInv
<1> QED BY <1>1, <1>2, <1>3, <1>4, <1>5 DEF ImportNext


\* What the records say of the roads of the table, once every row is read.
LEMMA RoadsFollow ==
  ASSUME ImportInv PROVE RoadsAreSound
<1> USE DEF ImportInv
<1>1. ImportTypeOK  OBVIOUS
<1> SUFFICES ASSUME stage # "fetch" PROVE RoadsSpanTheirSegments
  BY <1>1 DEF RoadsAreSound, RoadsSpanTheirSegments
<1>2. /\ table \in Tables /\ raw \in Seq(table) /\ dedup \in Seq(Rows)
      /\ ToSet(raw) = table /\ table \subseteq Rows
  BY TablesAssumption DEF ImportTypeOK, GraphIsMade
<1>3. \A r \in table : \E j \in DOMAIN raw : raw[j] = r  BY <1>2 DEF ToSet
<1>4. DOMAIN raw = 1..Len(raw) /\ Len(raw) \in Nat /\ \A j \in DOMAIN raw : raw[j] \in table
  BY <1>2
<1>5. {dedup[i].mainid : i \in DOMAIN dedup} = {r.mainid : r \in table}
  <2>1. ASSUME NEW i \in DOMAIN dedup PROVE \E r \in table : r.mainid = dedup[i].mainid
    <3>1. RecordOf(dedup[i], raw)  BY DEF RecordsAreMerged
    <3> QED BY <1>4, <3>1 DEF RecordOf
  <2>2. ASSUME NEW r \in table PROVE \E i \in DOMAIN dedup : r.mainid = dedup[i].mainid
    BY <1>3 DEF RecordsAreMerged
  <2> QED BY <2>1, <2>2
<1>6. ASSUME NEW i \in DOMAIN dedup
      PROVE  /\ dedup[i].endid = LastSegment(dedup[i].mainid).endid
             /\ raw[CameFirst(dedup[i].mainid)].startid = dedup[i].startid
  <2> DEFINE d == dedup[i]
             id == dedup[i].mainid
  <2>1. RecordOf(d, raw) /\ d \in Rows  BY <1>2 DEF RecordsAreMerged
  <2>2. PICK j \in DOMAIN raw : raw[j].mainid = id /\ raw[j].subid = d.subid /\ raw[j].endid = d.endid
    BY <2>1 DEF RecordOf
  <2>3. \A r \in Segments(id) : r \in Rows /\ r.mainid = id /\ r.subid <= raw[j].subid
    <3>1. \A k \in DOMAIN raw : raw[k].mainid = id => raw[k].subid <= d.subid
      BY <2>1 DEF RecordOf
    <3> QED BY <1>2, <1>3, <2>2, <3>1 DEF Segments
  <2>4. raw[j] \in Segments(id) /\ raw[j] \in Rows  BY <1>2, <1>4, <2>2 DEF Segments
  <2>5. \A s \in Segments(id) : raw[j].subid >= s.subid  BY <2>3, <2>4 DEF Rows
  <2> DEFINE L == LastSegment(id)
  <2>6. L \in Segments(id) /\ \A s \in Segments(id) : L.subid >= s.subid
    BY <2>4, <2>5 DEF LastSegment
  <2> HIDE DEF L
  <2>7. L.subid = raw[j].subid
    <3>1. L.subid \in Nat /\ raw[j].subid \in Nat  BY <2>3, <2>4, <2>6 DEF Rows
    <3> QED BY <2>4, <2>5, <2>6, <3>1
  <2>8. L = raw[j]
    <3>1. L \in table /\ raw[j] \in table /\ L.mainid = raw[j].mainid  BY <1>4, <2>2, <2>6 DEF Segments
    <3> QED BY <1>2, <2>7, <3>1, TablesAssumption
  <2> DEFINE First(k) == /\ raw[k].mainid = id
                         /\ \A l \in 1 .. k - 1 : raw[l].mainid # id
             c == CameFirst(id)
  <2>9. PICK k \in DOMAIN raw : First(k) /\ raw[k].startid = d.startid  BY <2>1 DEF RecordOf
  <2>10. c \in DOMAIN raw /\ First(c)
    BY <2>9 DEF CameFirst
  <2> HIDE DEF c
  <2>11. c = k
    <3>1. CASE c < k
      <4>1. c \in 1 .. k - 1  BY <1>4, <2>10, <3>1
      <4> QED BY <2>9, <2>10, <4>1
    <3>2. CASE k < c
      <4>1. k \in 1 .. c - 1  BY <1>4, <2>10, <3>2
      <4> QED BY <2>9, <2>10, <4>1
    <3> QED BY <1>4, <2>10, <3>1, <3>2
  <2> QED BY <2>2, <2>8, <2>9, <2>11 DEF L, c
<1> QED BY <1>5, <1>6 DEF RoadsSpanTheirSegments, RecordsAreMerged

\* What the graph says of the nodes, once it is built or the build failed.
LEMMA DescriptorsFollow ==
  ASSUME ImportInv PROVE DescriptorsAreIds
<1>1. ASSUME stage \in {"done", "ub"}
      PROVE  /\ Vertices = 0 .. Max(UsedNodes)
             /\ UsedNodes \subseteq Vertices
             /\ ToSet(nodes) = UsedNodes
  <2>1. dedup # <<>>  BY <1>1, SomeRecord
  <2> QED BY <1>1, <2>1, VerticesFacts DEF ImportInv, GraphIsMade
<1>2. ASSUME stage = "done", NEW i \in DOMAIN edges, NEW v \in ToSet(edges[i].ends)
      PROVE  v \in DOMAIN map /\ map[v] = v
  <2>1. i \in DOMAIN dedup /\ edges[i].ends = EndsOf(dedup[i])
    BY <1>2 DEF ImportInv, GraphIsMade
  <2>2. v \in UsedNodes  BY <1>2, <2>1 DEF UsedNodes
  <2>3. map = [w \in Vertices |-> w]  BY <1>2 DEF ImportInv, GraphIsMade
  <2> QED BY <1>1, <1>2, <2>2, <2>3
<1>3. ASSUME stage = "ub" PROVE \E v \in 0 .. Max(UsedNodes) : v \notin UsedNodes
  BY <1>1, <1>3 DEF ImportInv, GraphIsMade
<1> QED BY <1>2, <1>3 DEF DescriptorsAreIds

\* The imported map, as the route search reads it.
MapEdges == [i \in DOMAIN edges |->
               [id |-> edges[i].road, s |-> edges[i].ends[1], t |-> edges[i].ends[2]]]

\* What MapAssumption and SumsFit of MapRoutes say of Roads, with the edges of
\* the imported map, and of Nodes, with its vertices.
IsMap ==
  /\ MapEdges \in Seq([id : Nat, s : DOMAIN map, t : DOMAIN map])
  /\ \A i, j \in DOMAIN MapEdges : MapEdges[i].id = MapEdges[j].id => i = j
  /\ IsFiniteSet(DOMAIN map)

\* The finished map has vertices for the ends of all its edges.
LEMMA MapFollows ==
  ASSUME ImportInv, stage = "done" PROVE IsMap
<1>1. dedup # <<>>  BY SomeRecord
<1>2. Vertices = 0 .. Max(UsedNodes) /\ UsedNodes \subseteq Vertices /\ Max(UsedNodes) \in Nat
  BY <1>1, VerticesFacts DEF ImportInv
<1>3. DOMAIN map = Vertices  BY DEF ImportInv, GraphIsMade
<1>4. IsFiniteSet(DOMAIN map)
  <2>1. 0 \in Int /\ Max(UsedNodes) \in Int  BY <1>2
  <2> QED BY <1>2, <1>3, <2>1, FS_Interval
<1>5. edges = [i \in DOMAIN dedup |-> [road |-> dedup[i].mainid, ends |-> EndsOf(dedup[i])]]
  BY DEF ImportInv, GraphIsMade
<1>6. dedup \in Seq(Rows) /\ Len(dedup) \in Nat /\ DOMAIN dedup = 1..Len(dedup)
      /\ \A i \in DOMAIN dedup : dedup[i] \in Rows
  BY DEF ImportInv, ImportTypeOK
<1>7. MapEdges = [i \in 1..Len(dedup) |->
                    [id |-> dedup[i].mainid, s |-> dedup[i].startid, t |-> dedup[i].endid]]
  BY <1>5, <1>6 DEF MapEdges, EndsOf
<1>8. \A i \in DOMAIN dedup : dedup[i].startid \in UsedNodes /\ dedup[i].endid \in UsedNodes
  <2> SUFFICES ASSUME NEW i \in DOMAIN dedup
               PROVE  dedup[i].startid \in UsedNodes /\ dedup[i].endid \in UsedNodes
    OBVIOUS
  <2>1. dedup[i].startid \in ToSet(EndsOf(dedup[i])) /\ dedup[i].endid \in ToSet(EndsOf(dedup[i]))
    BY DEF ToSet, EndsOf
  <2> QED BY <2>1 DEF UsedNodes
<1>9. \A i \in 1..Len(dedup) : /\ dedup[i].mainid \in Nat
                               /\ dedup[i].startid \in DOMAIN map /\ dedup[i].endid \in DOMAIN map
  BY <1>2, <1>3, <1>6, <1>8 DEF Rows
<1>10. MapEdges \in [1..Len(dedup) -> [id : Nat, s : DOMAIN map, t : DOMAIN map]]
  BY <1>7, <1>9
<1>11. MapEdges \in Seq([id : Nat, s : DOMAIN map, t : DOMAIN map])
  <2> DEFINE E == [id : Nat, s : DOMAIN map, t : DOMAIN map]
  <2> HIDE DEF E
  <2>1. \A f \in [1..Len(dedup) -> E] : f \in Seq(E)  BY <1>6
  <2> QED BY <1>10, <2>1 DEF E
<1>12. \A i, j \in DOMAIN MapEdges : MapEdges[i].id = MapEdges[j].id => i = j
  BY <1>6, <1>7 DEF ImportInv, RecordsAreMerged
<1> QED BY <1>4, <1>11, <1>12 DEF IsMap

LEMMA ImportInductive == ImportSpec => []ImportInv
BY ImportBegins, ImportKeeps, PTL DEF ImportSpec

------------------------------------------------------------------------------
\* Whatever the order in which SELECT gives the rows, dedup_raw_data makes one
\* record of each road, which ends where its last segment ends and starts
\* where its first segment starts when that row came first.
THEOREM RoadsStaySound == ImportSpec => []RoadsAreSound
<1>1. ImportInv => RoadsAreSound  BY RoadsFollow
<1> QED BY <1>1, ImportInductive, PTL

\* In a finished map descriptors are node ids and edges join vertices of the
\* map; import_map_data reads nodes_.end() only when a number up to the largest
\* node is the end of no road.
THEOREM DescriptorsStayIds == ImportSpec => []DescriptorsAreIds
<1>1. ImportInv => DescriptorsAreIds  BY DescriptorsFollow
<1> QED BY <1>1, ImportInductive, PTL

\* The map that import_map_data finishes is one on which the route search may
\* run: what MapRoutes assumes of its edges and of its vertices holds.
THEOREM ImportMakesMap == ImportSpec => [](stage = "done" => IsMap)
<1>1. ImportInv => (stage = "done" => IsMap)  BY MapFollows
<1> QED BY <1>1, ImportInductive, PTL
=============================================================================
