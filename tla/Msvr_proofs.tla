----------------------------- MODULE Msvr_proofs -----------------------------
(***************************************************************************)
(* Proofs about the ns-2 MSVR agent on any map: the search of MsvrMap for  *)
(* any requests, and the path of a packet between any vehicles             *)
(* (MsvrForward).                                                          *)
(***************************************************************************)
EXTENDS MsvrMap, MsvrForward, ListFacts, FiniteSetTheorems

-----------------------------------------------------------------------------
(* The map *)

\* The roads are numbered from 1 and join intersections in different places.
LEMMA GeoFacts ==
  /\ Len(Roads) \in Nat /\ RoadIdx = 1..Len(Roads)
  /\ NoRoad \notin RoadIdx
  /\ Cardinality(Nodes) \in Nat
  /\ \A i \in RoadIdx : /\ Roads[i].s \in Nodes /\ Roads[i].t \in Nodes
                        /\ Roads[i].s \in Nat /\ Roads[i].t \in Nat
                        /\ Roads[i].s # Roads[i].t
<1> DEFINE R == [s : Nodes, t : Nodes]
<1>1. Roads \in Seq(R) /\ Nodes \subseteq Nat /\ IsFiniteSet(Nodes)
  BY GeoAssumption
<1>a. \A r \in R : r.s \in Nodes /\ r.t \in Nodes  OBVIOUS
<1> HIDE DEF R
<1>2. Len(Roads) \in Nat /\ RoadIdx = 1..Len(Roads)  BY <1>1 DEF RoadIdx
<1>3. \A i \in RoadIdx : Roads[i] \in R  BY <1>1, <1>2
<1>4. \A i \in RoadIdx : Roads[i].s # Roads[i].t  BY GeoAssumption
<1>5. Cardinality(Nodes) \in Nat  BY <1>1, FS_CardinalityType
<1>6. \A i \in RoadIdx : Roads[i].s \in Nodes /\ Roads[i].t \in Nodes  BY <1>a, <1>3
<1>7. NoRoad \notin RoadIdx  BY <1>2 DEF NoRoad
<1> QED BY <1>1, <1>2, <1>4, <1>5, <1>6, <1>7

\* getRoadByPos finds a road of the map or none.
LEMMA RoadFound ==
  ASSUME NEW p
  PROVE  getRoadByPos(p) = NoRoad \/ getRoadByPos(p) \in RoadIdx
<1> DEFINE hit == {i \in RoadIdx : OnRoad(p, i)}
           Before(i, j) == \/ Roads[i].s < Roads[j].s
                           \/ Roads[i].s = Roads[j].s /\ i <= j
           heads == {Roads[i].s : i \in hit}
<1>1. getRoadByPos(p) = IF hit = {} THEN NoRoad
                        ELSE CHOOSE i \in hit : \A j \in hit : Before(i, j)
  BY DEF getRoadByPos
<1>2. hit \subseteq RoadIdx  OBVIOUS
<1> HIDE DEF hit
<1>3. CASE hit # {}
  <2>1. heads \subseteq Nat /\ heads # {}  BY <1>2, <1>3, GeoFacts
  <2>2. PICK m \in heads : \A y \in heads : m <= y  BY <2>1, LeastExists
  <2> DEFINE same == {i \in hit : Roads[i].s = m}
  <2>3. same \subseteq Nat /\ same # {}
    <3>1. PICK i \in hit : Roads[i].s = m  BY <2>2
    <3>2. i \in same  BY <3>1
    <3>3. RoadIdx \subseteq Nat  BY GeoFacts
    <3> QED BY <1>2, <3>2, <3>3
  <2>4. PICK i \in same : \A y \in same : i <= y  BY <2>3, LeastExists
  <2>5. ASSUME NEW j \in hit PROVE Before(i, j)
    <3>1. m <= Roads[j].s /\ Roads[i].s = m  BY <2>2, <2>4
    <3>2. m \in Nat /\ Roads[j].s \in Nat  BY <2>1, <1>2, GeoFacts
    <3>3. CASE Roads[j].s = m  BY <2>4, <3>1, <3>3
    <3>4. CASE Roads[j].s # m  BY <3>1, <3>2, <3>4
    <3> QED BY <3>3, <3>4
  <2>6. \E k \in hit : \A j \in hit : Before(k, j)
    <3>1. i \in hit  BY <2>4
    <3> QED BY <2>5, <3>1
  <2> HIDE DEF Before
  <2>7. (CHOOSE k \in hit : \A j \in hit : Before(k, j)) \in hit  BY <2>6
  <2> QED BY <1>1, <1>2, <1>3, <2>7
<1> QED BY <1>1, <1>3

\* A path joins its two ends by roads and has no more intersections than there
\* are.
LEMMA PathFacts ==
  ASSUME NEW u \in Nodes, NEW v \in Nodes, NEW s \in PathsBetween(u, v)
  PROVE  /\ s \in Seq(Nodes) /\ Len(s) \in 2..Cardinality(Nodes)
         /\ s[1] = u /\ s[Len(s)] = v
         /\ \A k \in 1..(Len(s) - 1) : Joined(s[k], s[k+1])
<1> DEFINE c == Cardinality(Nodes)
<1>1. c \in Nat  BY GeoFacts
<1>2. PICK via \in SeqOf(Nodes \ {u, v}, c - 2) : s = <<u>> \o via \o <<v>>
  BY DEF PathsBetween
<1>3. \A k \in 1..(Len(s) - 1) : Joined(s[k], s[k+1])  BY DEF PathsBetween
<1>4. PICK m \in 0..(c - 2) : via \in [1..m -> Nodes \ {u, v}]  BY <1>2 DEF SeqOf
<1>5. via \in Seq(Nodes) /\ Len(via) = m  BY <1>4
<1>6. /\ s \in Seq(Nodes) /\ Len(s) = m + 2
      /\ s[1] = u /\ s[m + 2] = v
  BY <1>2, <1>5
<1> QED BY <1>1, <1>3, <1>4, <1>6

\* The road between two intersections that a road joins.
LEMMA RoadOfPair ==
  ASSUME NEW u, NEW v, Joined(u, v)
  PROVE  RoadBetween(u, v) \in RoadIdx /\ Ends(RoadBetween(u, v)) = {u, v}
BY DEF Joined, RoadBetween

\* The roads of a path are roads of the map, one less than its intersections.
LEMMA RoadsBackFacts ==
  ASSUME NEW u \in Nodes, NEW v \in Nodes, NEW s \in PathsBetween(u, v)
  PROVE  /\ RoadsBack(s) \in Seq(RoadIdx) /\ Len(RoadsBack(s)) = Len(s) - 1
         /\ DOMAIN RoadsBack(s) = 1..(Len(s) - 1)
<1> DEFINE n == Len(s) - 1
<1>1. /\ Len(s) \in 2..Cardinality(Nodes) /\ Cardinality(Nodes) \in Nat
      /\ \A k \in 1..n : Joined(s[k], s[k+1])
  BY PathFacts, GeoFacts
<1>2. n \in Nat  BY <1>1
<1>3. ASSUME NEW k \in 1..n
      PROVE  RoadBetween(s[Len(s) - k], s[Len(s) - k + 1]) \in RoadIdx
  <2>1. Len(s) - k \in 1..n  BY <1>1, <1>3
  <2> QED BY <1>1, <2>1, RoadOfPair
<1>4. RoadsBack(s) = [k \in 1..n |-> RoadBetween(s[Len(s) - k], s[Len(s) - k + 1])]
  BY DEF RoadsBack
<1>5. RoadsBack(s) \in [1..n -> RoadIdx]  BY <1>3, <1>4
<1> QED BY <1>2, <1>5

-----------------------------------------------------------------------------
(* getSrcAndDst *)

\* The ends of a path are intersections.
LEMMA RectTyped ==
  ASSUME NEW p1, NEW p2, NEW r \in getSrcAndDst(p1, p2)
  PROVE  r \in Nodes \X Nodes
<1> DEFINE i == getRoadByPos(p1)
           j == getRoadByPos(p2)
           known == i # NoRoad /\ i <= j
           first == IF i = NoRoad THEN 0 ELSE NearerEnd(i, p1)
           sofar == IF known THEN first ELSE 0
           s == Roads[j].s
           t == Roads[j].t
           far == IF Dist2(At[s], At[first]) > Dist2(At[t], At[first]) THEN s ELSE t
           second == CASE j = NoRoad -> {0}
                       [] j # NoRoad /\ sofar = s -> {t}
                       [] j # NoRoad /\ sofar = t -> {s}
                       [] j # NoRoad /\ sofar \notin {s, t} /\ ~known -> {s, t}
                       [] OTHER -> {far}
<1>1. getSrcAndDst(p1, p2) = {first} \X second  BY DEF getSrcAndDst
<1>2. /\ i = NoRoad \/ i \in RoadIdx
      /\ j = NoRoad \/ j \in RoadIdx
      /\ 0 \in Nodes
  BY RoadFound, GeoAssumption
<1>3. first \in Nodes
  <2>1. i \in RoadIdx => NearerEnd(i, p1) \in Nodes  BY GeoFacts DEF NearerEnd
  <2> QED BY <1>2, <2>1
<1> HIDE DEF i, j, first
<1>4. CASE j = NoRoad  BY <1>1, <1>2, <1>3, <1>4
<1>5. CASE j # NoRoad
  <2>1. s \in Nodes /\ t \in Nodes  BY <1>2, <1>5, GeoFacts
  <2>2. far \in {s, t}  OBVIOUS
  <2> HIDE DEF far, s, t, known
  <2>3. second \subseteq {s, t}  BY <1>5, <2>2
  <2> QED BY <1>1, <1>3, <2>1, <2>3
<1> QED BY <1>4, <1>5

\* Distances do not depend on the direction, and are positive between the ends
\* of a road.
LEMMA DistFacts ==
  /\ \A a, b \in Int \X Int : Dist2(a, b) = Dist2(b, a) /\ Dist2(a, b) \in Int /\ Dist2(a, a) = 0
  /\ \A a, b \in Int \X Int : a # b => Dist2(a, b) > 0
  /\ \A n \in Nodes : At[n] \in Int \X Int
<1>1. \A n \in Nodes : At[n] \in Int \X Int  BY GeoAssumption
<1>2. \A x \in Int : x * x \in Int /\ x * x >= 0 /\ (x # 0 => x * x > 0)  OBVIOUS
<1>3. ASSUME NEW a \in Int \X Int, NEW b \in Int \X Int
      PROVE  /\ Dist2(a, b) = Dist2(b, a) /\ Dist2(a, b) \in Int /\ Dist2(a, a) = 0
             /\ a # b => Dist2(a, b) > 0
  <2> DEFINE x == a[1] - b[1]
             y == a[2] - b[2]
  <2>1. a[1] \in Int /\ a[2] \in Int /\ b[1] \in Int /\ b[2] \in Int  OBVIOUS
  <2>2. x \in Int /\ y \in Int /\ b[1] - a[1] = -x /\ b[2] - a[2] = -y  BY <2>1
  <2>3. a # b => x # 0 \/ y # 0  BY <2>1
  <2>4. Dist2(a, b) = x * x + y * y  BY DEF Dist2, Square
  <2>5. Dist2(b, a) = (-x) * (-x) + (-y) * (-y)  BY <2>2 DEF Dist2, Square
  <2>6. Dist2(a, a) = 0  BY <2>1 DEF Dist2, Square
  <2> HIDE DEF x, y
  <2>7. (-x) * (-x) = x * x /\ (-y) * (-y) = y * y  BY <2>2
  <2>8. /\ x * x \in Int /\ x * x >= 0 /\ (x # 0 => x * x > 0)
        /\ y * y \in Int /\ y * y >= 0 /\ (y # 0 => y * y > 0)
    BY <1>2, <2>2
  <2> QED BY ONLY <2>3, <2>4, <2>5, <2>6, <2>7, <2>8
<1> QED BY <1>1, <1>3

\* With the source's road before the destination's, the end that getSrcAndDst
\* chooses of the latter is the farther one: its road leads there, unless both
\* ends are equally far.
LEMMA RoadLeads ==
  ASSUME NEW p1, NEW p2, NEW r \in getSrcAndDst(p1, p2),
         getRoadByPos(p1) # NoRoad, getRoadByPos(p2) # NoRoad,
         ~(getRoadByPos(p2) < getRoadByPos(p1)),
         Dist2(At[Roads[getRoadByPos(p2)].s], At[r[1]]) # Dist2(At[Roads[getRoadByPos(p2)].t], At[r[1]])
  PROVE  getRoadByPos(p2) \in RoadIdx /\ LeadsTo(getRoadByPos(p2), r[1], r[2])
<1> DEFINE i == getRoadByPos(p1)
           j == getRoadByPos(p2)
           known == i # NoRoad /\ i <= j
           first == IF i = NoRoad THEN 0 ELSE NearerEnd(i, p1)
           sofar == IF known THEN first ELSE 0
           s == Roads[j].s
           t == Roads[j].t
           far == IF Dist2(At[s], At[first]) > Dist2(At[t], At[first]) THEN s ELSE t
           second == CASE j = NoRoad -> {0}
                       [] j # NoRoad /\ sofar = s -> {t}
                       [] j # NoRoad /\ sofar = t -> {s}
                       [] j # NoRoad /\ sofar \notin {s, t} /\ ~known -> {s, t}
                       [] OTHER -> {far}
<1>1. getSrcAndDst(p1, p2) = {first} \X second  BY DEF getSrcAndDst
<1>2. i \in RoadIdx /\ j \in RoadIdx  BY RoadFound
<1>3. known /\ j # NoRoad
  <2>1. i \in Int /\ j \in Int  BY <1>2, GeoFacts
  <2> QED BY <2>1
<1>4. /\ s \in Nodes /\ t \in Nodes /\ s # t /\ Ends(j) = {s, t}
  BY <1>2, GeoFacts DEF Ends
<1>5. first \in Nodes  BY <1>2, GeoFacts DEF NearerEnd
<1>a. sofar = first  BY <1>3
<1> HIDE DEF i, first, known, sofar
<1>6. r[1] = first /\ r[2] \in second  BY <1>1
<1>7. Dist2(At[s], At[first]) # Dist2(At[t], At[first])  BY <1>6
<1> HIDE DEF j, s, t
<1>8. second = IF first = s THEN {t} ELSE IF first = t THEN {s} ELSE {far}
  BY <1>3, <1>4, <1>a
<1> HIDE DEF second
<1> DEFINE A == At[s]
           B == At[t]
           F == At[first]
<1>9. A \in Int \X Int /\ B \in Int \X Int /\ F \in Int \X Int  BY <1>4, <1>5, DistFacts
<1>10. /\ Dist2(F, A) = Dist2(A, F) /\ Dist2(F, B) = Dist2(B, F)
       /\ Dist2(F, A) \in Int /\ Dist2(F, B) \in Int
       /\ Dist2(F, F) = 0
       /\ (A # F => Dist2(F, A) > 0) /\ (B # F => Dist2(F, B) > 0)
  BY <1>9, DistFacts
<1>11. A # B  BY <1>2, GeoAssumption DEF s, t
<1>12. r[2] = s => Dist2(F, A) > Dist2(F, B)
  <2> SUFFICES ASSUME r[2] = s PROVE Dist2(F, A) > Dist2(F, B)
    OBVIOUS
  <2>1. CASE first = t
    <3>1. F = B  BY <2>1
    <3> QED BY <1>10, <1>11, <3>1
  <2>2. CASE first # t
    <3>1. far = s  BY <1>4, <1>6, <1>8, <2>2
    <3>2. Dist2(A, F) > Dist2(B, F)  BY <1>4, <3>1
    <3> QED BY <1>10, <3>2
  <2> QED BY <2>1, <2>2
<1>13. r[2] = t => Dist2(F, B) > Dist2(F, A)
  <2> SUFFICES ASSUME r[2] = t PROVE Dist2(F, B) > Dist2(F, A)
    OBVIOUS
  <2>1. CASE first = s
    <3>1. F = A  BY <2>1
    <3> QED BY <1>10, <1>11, <3>1
  <2>2. CASE first # s
    <3>1. far = t  BY <1>4, <1>6, <1>8, <2>2
    <3>2. ~(Dist2(A, F) > Dist2(B, F))  BY <1>4, <3>1
    <3> QED BY <1>7, <1>10, <3>2
  <2> QED BY <2>1, <2>2
<1>14. r[2] = s \/ r[2] = t  BY <1>6, <1>8
<1>15. LeadsTo(j, r[1], r[2])
  <2>1. LeadsTo(j, first, r[2]) <=>
          /\ r[2] \in {s, t}
          /\ \E o \in {s, t} \ {r[2]} : Dist2(F, At[r[2]]) > Dist2(F, At[o])
    BY <1>4 DEF LeadsTo
  <2>2. CASE r[2] = s
    <3>1. t \in {s, t} \ {r[2]}  BY <1>4, <2>2
    <3>2. Dist2(F, At[r[2]]) > Dist2(F, At[t])  BY <1>12, <2>2
    <3> QED BY <1>6, <2>1, <2>2, <3>1, <3>2
  <2>3. CASE r[2] = t
    <3>1. s \in {s, t} \ {r[2]}  BY <1>4, <2>3
    <3>2. Dist2(F, At[r[2]]) > Dist2(F, At[s])  BY <1>13, <2>3
    <3> QED BY <1>6, <2>1, <2>3, <3>1, <3>2
  <2> QED BY <1>14, <2>2, <2>3
<1> QED BY <1>2, <1>15 DEF j

-----------------------------------------------------------------------------
(* findMeanMin *)

\* f sums up ts, entry by entry.
SumsUp(f, ts) ==
  /\ f \in [0..Len(ts) -> Int]
  /\ f[0] = 0 /\ \A k \in 1..Len(ts) : f[k] = f[k-1] + ts[k]
  /\ Total(ts) = f[Len(ts)]

\* Total adds up the entries one after the other.
LEMMA TotalIsLoop ==
  ASSUME NEW ts, Len(ts) \in Nat, \A k \in 1..Len(ts) : ts[k] \in Int
  PROVE  \E f : SumsUp(f, ts)
<1> DEFINE N == Len(ts)
           Is(f) == f = [k \in 0..N |-> IF k = 0 THEN 0 ELSE f[k-1] + ts[k]]
           next == [p \in Int \X (1..N) |-> p[1] + ts[p[2]]]
           f == CHOOSE f : Is(f)
<1>1. N \in Nat /\ \A k \in 1..N : ts[k] \in Int  OBVIOUS
<1>2. Total(ts) = f[N]  BY DEF Total
<1>3. next \in [Int \X (1..N) -> Int]  BY <1>1
<1>4. \A y \in Int, k \in 1..N : next[<<y, k>>] = y + ts[k]  OBVIOUS
<1> HIDE DEF next, N
<1>5. PICK g : IsLoop(g, N, Int, 0, next)
  <2>1. 0 \in Int  OBVIOUS
  <2> QED BY <1>1, <1>3, <2>1, Recursion
<1>6. /\ g \in [0..N -> Int] /\ g[0] = 0
      /\ \A k \in 1..N : g[k] = next[<<g[k-1], k>>]
  BY <1>5 DEF IsLoop
<1>7. ASSUME NEW k \in 1..N PROVE g[k] = g[k-1] + ts[k]
  <2>1. k - 1 \in 0..N  BY <1>1
  <2> QED BY <1>4, <1>6, <2>1
<1>8. Is(g)
  <2>1. \A k \in 0..N : g[k] = IF k = 0 THEN 0 ELSE g[k-1] + ts[k]  BY <1>6, <1>7
  <2> QED BY <1>6, <2>1
<1>9. Is(f)  BY <1>8
<1> HIDE DEF f
<1>10. f[0] = 0 /\ \A k \in 1..N : f[k] = f[k-1] + ts[k]  BY <1>1, <1>9
<1> DEFINE P == {k \in 0..N : f[k] = g[k]}
<1>11. 0 \in P  BY <1>1, <1>6, <1>10
<1>12. ASSUME NEW k \in 1..N, k - 1 \in P PROVE k \in P
  <2>1. k \in 0..N  BY <1>1
  <2> QED BY <1>7, <1>10, <1>12, <2>1
<1> HIDE DEF P
<1>13. \A k \in 0..N : k \in P  BY <1>1, <1>11, <1>12, InductionUpTo
<1>14. f[N] = g[N]
  <2>1. N \in P  BY <1>1, <1>13
  <2> QED BY <2>1 DEF P
<1>15. SumsUp(g, ts)  BY <1>2, <1>6, <1>7, <1>14 DEF SumsUp, N
<1> QED BY <1>15

\* A sum of natural numbers is one.
LEMMA TotalIsNat ==
  ASSUME NEW ts, Len(ts) \in Nat, \A k \in 1..Len(ts) : ts[k] \in Nat
  PROVE  Total(ts) \in Nat
<1>1. PICK f : SumsUp(f, ts)  BY TotalIsLoop
<1> DEFINE P == {k \in 0..Len(ts) : f[k] \in Nat}
<1>2. 0 \in P  BY <1>1 DEF SumsUp
<1>3. ASSUME NEW k \in 1..Len(ts), k - 1 \in P PROVE k \in P
  <2>1. f[k] = f[k-1] + ts[k] /\ k \in 0..Len(ts)  BY <1>1 DEF SumsUp
  <2> QED BY <1>3, <2>1
<1> HIDE DEF P
<1>4. \A k \in 0..Len(ts) : k \in P  BY <1>2, <1>3, InductionUpTo
<1>5. Len(ts) \in P  BY <1>4
<1> QED BY <1>1, <1>5 DEF P, SumsUp

\* f sums up the types of c as the int variable of findMeanMin does.
IntSums(f, c) ==
  /\ f \in [0..Len(c.types) -> Int]
  /\ f[0] = 0 /\ \A k \in 1..Len(c.types) : f[k] = Wrap(f[k-1] + c.types[k])
  /\ SumOf(c) = f[Len(c.types)]

\* findMeanMin adds up the types one after the other.
LEMMA SumIsLoop ==
  ASSUME NEW c, Len(c.types) \in Nat, \A k \in 1..Len(c.types) : c.types[k] \in Int
  PROVE  \E f : IntSums(f, c)
<1> DEFINE N == Len(c.types)
           ts == c.types
           Is(f) == f = [k \in 0..N |-> IF k = 0 THEN 0 ELSE Wrap(f[k-1] + ts[k])]
           next == [p \in Int \X (1..N) |-> Wrap(p[1] + ts[p[2]])]
           f == CHOOSE f : Is(f)
<1>0. N \in Nat /\ IntMax \in Nat /\ \A k \in 1..N : ts[k] \in Int  BY MapAssumption
<1>1. \A y \in Int : Wrap(y) \in Int  BY <1>0 DEF Wrap
<1>2. SumOf(c) = f[N]  BY DEF SumOf
<1>3. next \in [Int \X (1..N) -> Int]
  <2>1. \A p \in Int \X (1..N) : p[1] + ts[p[2]] \in Int  BY <1>0
  <2> QED BY <1>1, <2>1
<1>4. \A y \in Int, k \in 1..N : next[<<y, k>>] = Wrap(y + ts[k])  OBVIOUS
<1> HIDE DEF next, N, ts
<1>5. PICK g : IsLoop(g, N, Int, 0, next)
  <2>1. 0 \in Int  OBVIOUS
  <2> QED BY <1>0, <1>3, <2>1, Recursion
<1>6. /\ g \in [0..N -> Int] /\ g[0] = 0
      /\ \A k \in 1..N : g[k] = next[<<g[k-1], k>>]
  BY <1>5 DEF IsLoop
<1>7. ASSUME NEW k \in 1..N PROVE g[k] = Wrap(g[k-1] + ts[k])
  <2>1. k - 1 \in 0..N  BY <1>0
  <2> QED BY <1>4, <1>6, <2>1
<1>8. Is(g)
  <2>1. \A k \in 0..N : g[k] = IF k = 0 THEN 0 ELSE Wrap(g[k-1] + ts[k])  BY <1>6, <1>7
  <2> QED BY <1>6, <2>1
<1>9. Is(f)  BY <1>8
<1> HIDE DEF f
<1>10. f[0] = 0 /\ \A k \in 1..N : f[k] = Wrap(f[k-1] + ts[k])  BY <1>0, <1>9
<1> DEFINE P == {k \in 0..N : f[k] = g[k]}
<1>11. 0 \in P  BY <1>0, <1>6, <1>10
<1>12. ASSUME NEW k \in 1..N, k - 1 \in P PROVE k \in P
  <2>1. k \in 0..N  BY <1>0
  <2> QED BY <1>7, <1>10, <1>12, <2>1
<1> HIDE DEF P
<1>13. \A k \in 0..N : k \in P  BY <1>0, <1>11, <1>12, InductionUpTo
<1>14. f[N] = g[N]
  <2>1. N \in P  BY <1>0, <1>13
  <2> QED BY <2>1 DEF P
<1>15. IntSums(g, c)  BY <1>2, <1>6, <1>7, <1>14 DEF IntSums, N, ts
<1> QED BY <1>15

\* Up to C summands that are C-th parts of I have a sum within I.
LEMMA PartsFit ==
  ASSUME NEW C \in Nat, NEW I \in Nat, NEW y \in Nat, NEW t \in Nat, NEW k \in 1..C,
         C * y <= (k - 1) * I, t * C <= I
  PROVE  C * (y + t) <= k * I /\ y + t <= I
<1>1. C * (y + t) = C * y + t * C  OBVIOUS
<1>2. (k - 1) * I + I = k * I  OBVIOUS
<1>3. C * (y + t) <= k * I
  <2>1. C * y \in Int /\ t * C \in Int /\ (k-1) * I \in Int  OBVIOUS
  <2> QED BY <1>1, <1>2, <2>1
<1>4. ASSUME y + t > I PROVE FALSE
  <2>1. y + t >= I + 1  BY <1>4
  <2>2. C * (y + t) >= C * (I + 1)  BY <2>1
  <2>3. C * (I + 1) = C * I + C /\ C * I >= k * I  OBVIOUS
  <2>4. C * (y + t) \in Int /\ C * I \in Int /\ k * I \in Int /\ C * (I + 1) \in Int OBVIOUS
  <2>5. C >= 1  OBVIOUS
  <2> QED BY <1>3, <2>2, <2>3, <2>4, <2>5
<1> QED BY <1>3, <1>4

\* A candidate whose types are those the roads were made with has a sum that
\* does not wrap around.
LEMMA SumFits ==
  ASSUME NEW c, Len(c.types) \in Nat, Len(c.types) <= Cardinality(Nodes),
         \A k \in 1..Len(c.types) : \E i \in RoadIdx : c.types[k] = RoadType[i]
  PROVE  SumOf(c) = Total(c.types) /\ Total(c.types) \in Nat
<1> DEFINE N == Len(c.types)
           ts == c.types
           C == Cardinality(Nodes)
<1>1. IntMax \in Nat /\ C \in Nat /\ N \in Nat /\ N <= C  BY MapAssumption, GeoFacts
<1>2. \A k \in 1..N : ts[k] \in Nat /\ ts[k] \in Int /\ ts[k] * C <= IntMax
  <2>1. \A i \in RoadIdx : RoadType[i] \in Nat /\ RoadType[i] * C <= IntMax
    BY MapAssumption, TypesFit
  <2> QED BY <2>1
<1>3. PICK g : IntSums(g, c)  BY <1>2, SumIsLoop
<1>4. PICK f : SumsUp(f, ts)  BY <1>2, TotalIsLoop
<1>5. Total(ts) \in Nat  BY <1>2, TotalIsNat
<1>a. /\ g[0] = 0 /\ \A k \in 1..N : g[k] = Wrap(g[k-1] + ts[k])
      /\ SumOf(c) = g[N]
  BY <1>3 DEF IntSums
<1>b. /\ f[0] = 0 /\ \A k \in 1..N : f[k] = f[k-1] + ts[k]
      /\ Total(ts) = f[N]
  BY <1>4 DEF SumsUp
<1> HIDE DEF N, ts, C
<1> DEFINE P == {k \in 0..N : f[k] = g[k] /\ f[k] \in Nat /\ C * f[k] <= k * IntMax}
<1>6. 0 \in P  BY <1>1, <1>a, <1>b
<1>7. ASSUME NEW k \in 1..N, k - 1 \in P PROVE k \in P
  <2>1. f[k-1] \in Nat /\ C * f[k-1] <= (k - 1) * IntMax /\ f[k-1] = g[k-1]  BY <1>7
  <2>2. ts[k] \in Nat /\ ts[k] * C <= IntMax /\ k \in 1..C /\ k \in 0..N  BY <1>1, <1>2
  <2>3. C * (f[k-1] + ts[k]) <= k * IntMax /\ f[k-1] + ts[k] <= IntMax
    BY ONLY <1>1, <2>1, <2>2, PartsFit
  <2>4. f[k] = f[k-1] + ts[k] /\ g[k] = Wrap(f[k-1] + ts[k])  BY <1>a, <1>b, <2>1
  <2>5. g[k] = f[k]  BY <1>1, <2>1, <2>2, <2>3, <2>4 DEF Wrap
  <2> QED BY <2>1, <2>2, <2>3, <2>4, <2>5
<1> HIDE DEF P
<1>8. \A k \in 0..N : k \in P  BY <1>1, <1>6, <1>7, InductionUpTo
<1>9. N \in P  BY <1>1, <1>8
<1> QED BY <1>5, <1>9, <1>a, <1>b DEF P, ts

\* Comparing fractions.
LEMMA FractionLess ==
  ASSUME NEW da \in Nat, NEW db \in Nat, NEW dc \in Nat,
         NEW la \in Nat \ {0}, NEW lb \in Nat \ {0}, NEW lc \in Nat \ {0},
         da * lb < db * la, ~(dc * lb < db * lc)
  PROVE  da * lc < dc * la
<1>0. da * lb \in Int /\ db * la \in Int /\ dc * lb \in Int /\ db * lc \in Int  OBVIOUS
<1>1. (da * lb) * lc < (db * la) * lc
  <2> DEFINE x == da * lb
             y == db * la
  <2>1. x \in Int /\ y \in Int /\ x < y  BY <1>0
  <2> HIDE DEF x, y
  <2>2. x * lc < y * lc  BY <2>1
  <2> QED BY <2>2 DEF x, y
<1>2. (db * lc) * la <= (dc * lb) * la
  <2> DEFINE x == db * lc
             y == dc * lb
  <2>1. x \in Int /\ y \in Int /\ x <= y  BY <1>0
  <2> HIDE DEF x, y
  <2>2. x * la <= y * la  BY <2>1
  <2> QED BY <2>2 DEF x, y
<1>3. (db * la) * lc = (db * lc) * la  OBVIOUS
<1>4. (da * lb) * lc = lb * (da * lc) /\ (dc * lb) * la = lb * (dc * la)  OBVIOUS
<1> DEFINE x == da * lc
           y == dc * la
<1>5. x \in Int /\ y \in Int  OBVIOUS
<1>6. (da * lb) * lc \in Int /\ (db * la) * lc \in Int /\ (dc * lb) * la \in Int  OBVIOUS
<1>7. lb * x < lb * y  BY <1>1, <1>2, <1>3, <1>4, <1>6
<1> HIDE DEF x, y
<1>8. x < y  BY <1>5, <1>7
<1> QED BY <1>8 DEF x, y

\* What a round records of a path.
Record(c) ==
  /\ c.path \in Seq(Nodes) /\ Len(c.path) \in 2..Cardinality(Nodes)
  /\ c.roads = RoadsBack(c.path) /\ c.roads \in Seq(RoadIdx) /\ c.types \in Seq(1..IntMax)
  /\ Len(c.roads) = Len(c.path) - 1 /\ Len(c.types) = Len(c.path) - 1

\* The sum and the deviation of a candidate are numbers.
LEMMA RecordFacts ==
  ASSUME NEW c, Record(c)
  PROVE  /\ Len(c.types) \in Nat \ {0} /\ Len(c.types) <= Cardinality(Nodes)
         /\ DOMAIN c.types = 1..Len(c.types) /\ DOMAIN c.roads = DOMAIN c.types
         /\ \A k \in DOMAIN c.types : c.types[k] \in 1..IntMax /\ c.roads[k] \in RoadIdx
         /\ SumOf(c) \in Int /\ Deviation(c) \in Nat
<1> DEFINE n == Len(c.types)
           ts == c.types
           mean == SumOf(c) \div n
           sq == [k \in DOMAIN ts |-> Square(ts[k] - mean)]
<1>1. IntMax \in Nat /\ Cardinality(Nodes) \in Nat  BY MapAssumption, GeoFacts
<1>2. n \in Nat \ {0} /\ n <= Cardinality(Nodes)  BY <1>1 DEF Record
<1>3. DOMAIN ts = 1..n /\ DOMAIN c.roads = 1..n  BY DEF Record
<1>4. \A k \in 1..n : ts[k] \in 1..IntMax /\ c.roads[k] \in RoadIdx
  <2> DEFINE T == 1..IntMax
             rs == c.roads
  <2>1. ts \in Seq(T) /\ rs \in Seq(RoadIdx) /\ Len(rs) = n  BY DEF Record
  <2> HIDE DEF T, ts, n, rs
  <2>2. \A k \in 1..n : ts[k] \in T /\ rs[k] \in RoadIdx  BY <2>1 DEF n, ts
  <2> QED BY <2>2 DEF T, rs
<1>5. \A k \in 1..n : ts[k] \in Int  BY <1>1, <1>4
<1>6. SumOf(c) \in Int
  <2>1. PICK f : IntSums(f, c)  BY <1>2, <1>5, SumIsLoop
  <2>2. f \in [0..n -> Int] /\ SumOf(c) = f[n] /\ n \in 0..n  BY <1>2, <2>1 DEF IntSums
  <2> QED BY <2>2
<1>7. Deviation(c) = Total(sq)  BY DEF Deviation
<1>8. mean \in Int  BY <1>2, <1>6
<1> HIDE DEF mean, n
<1>9. \A x \in Int : x * x \in Nat  OBVIOUS
<1>10. \A k \in 1..n : Square(ts[k] - mean) \in Nat
  <2>1. \A k \in 1..n : ts[k] - mean \in Int  BY <1>5, <1>8
  <2> QED BY <1>9, <2>1 DEF Square
<1>11. sq \in [1..n -> Nat]  BY <1>3, <1>10
<1> HIDE DEF sq
<1>12. Len(sq) = n /\ \A k \in 1..n : sq[k] \in Nat  BY <1>2, <1>11
<1>13. Total(sq) \in Nat  BY <1>2, <1>12, TotalIsNat
<1> QED BY <1>2, <1>3, <1>4, <1>6, <1>7, <1>13 DEF n

\* Being more even is a strict weak order on candidates.
LEMMA EvenerFacts ==
  ASSUME NEW a, NEW b, NEW c, Record(a), Record(b), Record(c)
  PROVE  /\ ~Evener(a, a)
         /\ Evener(a, b) => ~Evener(b, a)
         /\ Evener(a, b) /\ ~Evener(c, b) => Evener(a, c)
<1> DEFINE da == Deviation(a)
           db == Deviation(b)
           dc == Deviation(c)
           la == Len(a.types)
           lb == Len(b.types)
           lc == Len(c.types)
           sa == SumOf(a)
           sb == SumOf(b)
           sc == SumOf(c)
<1>1. /\ da \in Nat /\ la \in Nat \ {0} /\ sa \in Int
      /\ db \in Nat /\ lb \in Nat \ {0} /\ sb \in Int
      /\ dc \in Nat /\ lc \in Nat \ {0} /\ sc \in Int
  BY RecordFacts
<1>2. /\ Evener(a, a) <=> \/ sa >= 0 /\ sa >= 0 /\ da * la < da * la
                          \/ sa >= 0 /\ sa < 0
                          \/ sa < 0 /\ sa < 0 /\ la > la
      /\ Evener(a, b) <=> \/ sa >= 0 /\ sb >= 0 /\ da * lb < db * la
                          \/ sa >= 0 /\ sb < 0
                          \/ sa < 0 /\ sb < 0 /\ la > lb
      /\ Evener(b, a) <=> \/ sb >= 0 /\ sa >= 0 /\ db * la < da * lb
                          \/ sb >= 0 /\ sa < 0
                          \/ sb < 0 /\ sa < 0 /\ lb > la
      /\ Evener(c, b) <=> \/ sc >= 0 /\ sb >= 0 /\ dc * lb < db * lc
                          \/ sc >= 0 /\ sb < 0
                          \/ sc < 0 /\ sb < 0 /\ lc > lb
      /\ Evener(a, c) <=> \/ sa >= 0 /\ sc >= 0 /\ da * lc < dc * la
                          \/ sa >= 0 /\ sc < 0
                          \/ sa < 0 /\ sc < 0 /\ la > lc
  BY DEF Evener
<1>3. da * lb < db * la /\ ~(dc * lb < db * lc) => da * lc < dc * la
  BY <1>1, FractionLess
<1> HIDE DEF da, db, dc, la, lb, lc, sa, sb, sc
<1>4. da * la \in Int /\ da * lb \in Int /\ db * la \in Int  BY <1>1
<1>5. ~Evener(a, a)  BY <1>1, <1>2, <1>4
<1>6. Evener(a, b) => ~Evener(b, a)  BY <1>1, <1>2, <1>4
<1>7. Evener(a, b) /\ ~Evener(c, b) => Evener(a, c)  BY <1>1, <1>2, <1>3
<1> QED BY <1>5, <1>6, <1>7

\* findMeanMin returns one of the candidates: the only cheapest one, if there
\* is one.
LEMMA MeanMinFacts ==
  ASSUME NEW R, NEW cs \in Seq(R), cs # << >>, \A k \in DOMAIN cs : Record(cs[k])
  PROVE  /\ findMeanMin(cs) \in DOMAIN cs
         /\ \/ \A j \in DOMAIN cs : SumOf(cs[findMeanMin(cs)]) <= SumOf(cs[j])
            \/ \E j, k \in DOMAIN cs :
                  j # k /\ SumOf(cs[j]) = SumOf(cs[k])
                  /\ \A l \in DOMAIN cs : SumOf(cs[j]) <= SumOf(cs[l])
<1> DEFINE N == Len(cs)
           Best(n, k) == \A j \in 1..n :
                           Evener(cs[k], cs[j]) \/ (~Evener(cs[j], cs[k]) /\ k <= j)
           Sum(k) == SumOf(cs[k])
           Cheap(n, k) == \A j \in 1..n : Sum(k) <= Sum(j)
           least == {k \in DOMAIN cs : \A j \in DOMAIN cs : Sum(k) <= Sum(j)}
<1>1. N \in Nat /\ N >= 1 /\ DOMAIN cs = 1..N  OBVIOUS
<1>2. \A k \in 1..N : Record(cs[k])  BY <1>1
<1>3. \A k \in 1..N : Sum(k) \in Int  BY <1>2, RecordFacts
<1>4. findMeanMin(cs) = IF Cardinality(least) = 1 THEN CHOOSE k \in least : TRUE
                        ELSE CHOOSE k \in DOMAIN cs : \A j \in DOMAIN cs :
                               Evener(cs[k], cs[j]) \/ (~Evener(cs[j], cs[k]) /\ k <= j)
  BY DEF findMeanMin
<1>5. (CHOOSE k \in DOMAIN cs : \A j \in DOMAIN cs :
         Evener(cs[k], cs[j]) \/ (~Evener(cs[j], cs[k]) /\ k <= j))
      = CHOOSE k \in 1..N : Best(N, k)
  BY <1>1
<1> HIDE DEF N, Sum
<1> DEFINE P == {n \in 0..N : n >= 1 => (\E k \in 1..n : Best(n, k)) /\ (\E k \in 1..n : Cheap(n, k))}
<1>6. 0 \in P  BY <1>1
<1>7. ASSUME NEW n \in 1..N, n - 1 \in P PROVE n \in P
  <2>0. n \in Nat /\ n \in 0..N /\ n - 1 \in Nat /\ \A j \in 1..n : j \in 1..N /\ Record(cs[j])
    BY <1>1, <1>2
  <2>1. \E k \in 1..n : Best(n, k)
    <3>1. CASE n = 1
      <4>1. ~Evener(cs[1], cs[1])  BY <2>0, <3>1, EvenerFacts
      <4>2. Best(n, 1)  BY <3>1, <4>1
      <4> QED BY <3>1, <4>2
    <3>2. CASE n # 1
      <4>1. PICK k \in 1..(n - 1) : Best(n - 1, k)  BY <1>7, <2>0, <3>2
      <4>2. k \in 1..n /\ n \in 1..n /\ k <= n  BY <2>0
      <4>3. CASE Evener(cs[n], cs[k])
        <5>1. ASSUME NEW j \in 1..n
              PROVE  Evener(cs[n], cs[j]) \/ (~Evener(cs[j], cs[n]) /\ n <= j)
          <6>1. CASE j = n
            <7>1. ~Evener(cs[n], cs[n])  BY <2>0, <4>2, EvenerFacts
            <7> QED BY <2>0, <6>1, <7>1
          <6>2. CASE j # n
            <7>1. j \in 1..(n - 1)  BY <2>0, <6>2
            <7>2. Evener(cs[k], cs[j]) \/ ~Evener(cs[j], cs[k])  BY <4>1, <7>1
            <7>3. Record(cs[n]) /\ Record(cs[k]) /\ Record(cs[j])  BY <2>0, <4>2
            <7>4. ~Evener(cs[j], cs[k])  BY <7>2, <7>3, EvenerFacts
            <7> QED BY <4>3, <7>3, <7>4, EvenerFacts
          <6> QED BY <6>1, <6>2
        <5> QED BY <4>2, <5>1
      <4>4. CASE ~Evener(cs[n], cs[k])
        <5>1. ASSUME NEW j \in 1..n
              PROVE  Evener(cs[k], cs[j]) \/ (~Evener(cs[j], cs[k]) /\ k <= j)
          <6>1. CASE j = n  BY <4>2, <4>4, <6>1
          <6>2. CASE j # n
            <7>1. j \in 1..(n - 1)  BY <2>0, <6>2
            <7> QED BY <4>1, <7>1
          <6> QED BY <6>1, <6>2
        <5> QED BY <4>2, <5>1
      <4> QED BY <4>3, <4>4
    <3> QED BY <3>1, <3>2
  <2>2. \E k \in 1..n : Cheap(n, k)
    <3>0. \A j \in 1..n : Sum(j) \in Int  BY <1>3, <2>0
    <3>1. CASE n = 1
      <4>1. Cheap(n, 1)  BY <3>0, <3>1
      <4> QED BY <3>1, <4>1
    <3>2. CASE n # 1
      <4>1. PICK k \in 1..(n - 1) : Cheap(n - 1, k)  BY <1>7, <2>0, <3>2
      <4>2. k \in 1..n /\ n \in 1..n /\ \A j \in 1..n : j = n \/ j \in 1..(n - 1)  BY <2>0
      <4>3. CASE Sum(n) < Sum(k)
        <5>1. Cheap(n, n)  BY <3>0, <4>1, <4>2, <4>3
        <5> QED BY <4>2, <5>1
      <4>4. CASE ~(Sum(n) < Sum(k))
        <5>1. Cheap(n, k)  BY <3>0, <4>1, <4>2, <4>4
        <5> QED BY <4>2, <5>1
      <4> QED BY <4>3, <4>4
    <3> QED BY <3>1, <3>2
  <2> HIDE DEF Best, Cheap
  <2> QED BY <2>0, <2>1, <2>2
<1> HIDE DEF P
<1>8. \A n \in 0..N : n \in P  BY <1>1, <1>6, <1>7, InductionUpTo
<1>9. N \in P  BY <1>1, <1>8
<1>10. (\E k \in 1..N : Best(N, k)) /\ (\E k \in 1..N : Cheap(N, k))
  <2> HIDE DEF Best, Cheap
  <2> QED BY <1>1, <1>9 DEF P
<1>11. least # {} /\ least \subseteq 1..N  BY <1>1, <1>10
<1>12. IsFiniteSet(least)  BY <1>1, <1>11, FS_Interval, FS_Subset
<1>13. CASE Cardinality(least) = 1
  <2>1. findMeanMin(cs) \in least  BY <1>4, <1>11, <1>13
  <2> QED BY <2>1 DEF Sum
<1>14. CASE Cardinality(least) # 1
  <2>1. findMeanMin(cs) \in 1..N
    <3> HIDE DEF Best, least
    <3> QED BY <1>4, <1>5, <1>10, <1>14
  <2>2. PICK j \in least : TRUE  BY <1>11
  <2>3. \E k \in least : k # j
    <3>1. CASE least = {j}
      <4>1. Cardinality(least) = 1  BY <3>1, FS_Singleton
      <4> QED BY <1>14, <4>1
    <3> QED BY <2>2, <3>1
  <2>4. PICK k \in least : k # j  BY <2>3
  <2>5. j \in DOMAIN cs /\ k \in DOMAIN cs /\ \A l \in DOMAIN cs : Sum(j) <= Sum(l) /\ Sum(k) <= Sum(l)
    BY <2>2, <2>4
  <2>6. Sum(j) = Sum(k)  BY <1>1, <1>3, <2>5
  <2> QED BY <1>1, <2>1, <2>4, <2>5, <2>6 DEF Sum
<1> QED BY <1>13, <1>14

-----------------------------------------------------------------------------
(* getPaths *)

\* Every candidate that took road i saw it with type v, and one has taken it or
\* it has that type already.
SeenAs(cs, i, v) ==
  /\ \A k \in DOMAIN cs : \A m \in DOMAIN cs[k].roads :
        cs[k].roads[m] = i => cs[k].types[m] = v
  /\ type[i] = v \/ \E k \in DOMAIN cs : i \in Range(cs[k].roads)

\* Such a road gets the type back.
LEMMA RestoredFacts ==
  ASSUME NEW R, NEW cs \in Seq(R), \A k \in DOMAIN cs : Record(cs[k]),
         type \in [RoadIdx -> 1..IntMax]
  PROVE  /\ Restored(cs) \in [RoadIdx -> 1..IntMax]
         /\ \A i \in RoadIdx, v \in 1..IntMax : SeenAs(cs, i, v) => Restored(cs)[i] = v
<1> DEFINE N == Len(cs)
           T == [RoadIdx -> 1..IntMax]
           next == [p \in T \X (1..N) |-> PutBack(p[1], cs[p[2]])]
           Is(f) == f = [k \in 0..N |-> IF k = 0 THEN type ELSE PutBack(f[k-1], cs[k])]
           f == CHOOSE f : Is(f)
<1>1. N \in Nat /\ DOMAIN cs = 1..N /\ type \in T  OBVIOUS
<1>2. Restored(cs) = f[N]  BY DEF Restored
<1>3. ASSUME NEW ty \in T, NEW k \in 1..N
      PROVE  /\ PutBack(ty, cs[k]) \in T
             /\ \A i \in RoadIdx :
                  \/ i \notin Range(cs[k].roads) /\ PutBack(ty, cs[k])[i] = ty[i]
                  \/ \E m \in DOMAIN cs[k].roads :
                       cs[k].roads[m] = i /\ PutBack(ty, cs[k])[i] = cs[k].types[m]
  <2> DEFINE c == cs[k]
             M(i) == CHOOSE m \in DOMAIN c.roads : c.roads[m] = i
  <2>1. PutBack(ty, c) = [i \in RoadIdx |-> IF i \in Range(c.roads) THEN c.types[M(i)] ELSE ty[i]]
    BY DEF PutBack
  <2>2. /\ DOMAIN c.roads = DOMAIN c.types
        /\ \A m \in DOMAIN c.types : c.types[m] \in 1..IntMax
    <3>1. Record(cs[k])  BY <1>1
    <3> QED BY <3>1, RecordFacts
  <2> HIDE DEF c
  <2>3. ASSUME NEW i \in Range(c.roads)
        PROVE  M(i) \in DOMAIN c.roads /\ c.roads[M(i)] = i
    <3>1. \E m \in DOMAIN c.roads : c.roads[m] = i  BY DEF Range
    <3> QED BY <3>1
  <2> HIDE DEF M
  <2>4. \A i \in Range(c.roads) : c.types[M(i)] \in 1..IntMax  BY <2>2, <2>3
  <2>5. PutBack(ty, c) \in T  BY <2>1, <2>4
  <2>6. ASSUME NEW i \in RoadIdx
        PROVE  \/ i \notin Range(c.roads) /\ PutBack(ty, c)[i] = ty[i]
               \/ \E m \in DOMAIN c.roads : c.roads[m] = i /\ PutBack(ty, c)[i] = c.types[m]
    <3>1. CASE i \in Range(c.roads)
      <4>1. PutBack(ty, c)[i] = c.types[M(i)]  BY <2>1, <3>1
      <4> QED BY <2>3, <3>1, <4>1
    <3>2. CASE i \notin Range(c.roads)  BY <2>1, <3>2
    <3> QED BY <3>1, <3>2
  <2> QED BY <2>5, <2>6 DEF c
<1>4. next \in [T \X (1..N) -> T]
  <2> HIDE DEF T, N
  <2> QED BY <1>3
<1>5. \A ty \in T, k \in 1..N : next[<<ty, k>>] = PutBack(ty, cs[k])
  <2> HIDE DEF T, N
  <2> QED OBVIOUS
<1> HIDE DEF T, N, next
<1>6. PICK g : IsLoop(g, N, T, type, next)  BY <1>1, <1>4, Recursion
<1>7. /\ g \in [0..N -> T] /\ g[0] = type
      /\ \A k \in 1..N : g[k] = next[<<g[k-1], k>>]
  BY <1>6 DEF IsLoop
<1>8. ASSUME NEW k \in 1..N PROVE g[k-1] \in T /\ g[k] = PutBack(g[k-1], cs[k])
  <2>1. k - 1 \in 0..N  BY <1>1
  <2> QED BY <1>5, <1>7, <2>1
<1>9. Is(g)
  <2>1. \A k \in 0..N : g[k] = IF k = 0 THEN type ELSE PutBack(g[k-1], cs[k])  BY <1>7, <1>8
  <2> QED BY <1>7, <2>1
<1>10. Is(f)  BY <1>9
<1> HIDE DEF f
<1>11. f[0] = type /\ \A k \in 1..N : f[k] = PutBack(f[k-1], cs[k])  BY <1>1, <1>10
<1> DEFINE P == {k \in 0..N : f[k] \in T}
<1>12. \A k \in 0..N : k \in P
  <2>1. 0 \in P  BY <1>1, <1>11
  <2>2. ASSUME NEW k \in 1..N, k - 1 \in P PROVE k \in P
    <3>1. PutBack(f[k-1], cs[k]) \in T  BY <1>3, <2>2
    <3>2. k \in 0..N  BY <1>1
    <3> QED BY <1>11, <3>1, <3>2
  <2> HIDE DEF P
  <2> QED BY <1>1, <2>1, <2>2, InductionUpTo
<1>13. f[N] \in T
  <2>1. N \in P  BY <1>1, <1>12
  <2> QED BY <2>1
<1>14. ASSUME NEW i \in RoadIdx, NEW v \in 1..IntMax, SeenAs(cs, i, v)
       PROVE  f[N][i] = v
  <2> DEFINE Q == {k \in 0..N : type[i] = v \/ (\E j \in 1..k : i \in Range(cs[j].roads))
                                => f[k][i] = v}
  <2>1. 0 \in Q  BY <1>1, <1>11
  <2>2. ASSUME NEW k \in 1..N, k - 1 \in Q PROVE k \in Q
    <3>1. k \in 0..N /\ k - 1 \in 0..N /\ k \in DOMAIN cs  BY <1>1
    <3>2. f[k-1] \in T  BY <1>12, <3>1
    <3>3. f[k] = PutBack(f[k-1], cs[k])  BY <1>11
    <3>4. \/ i \notin Range(cs[k].roads) /\ f[k][i] = f[k-1][i]
          \/ f[k][i] = v
      BY <1>3, <1>14, <3>1, <3>2, <3>3 DEF SeenAs
    <3>5. CASE f[k][i] = v  BY <3>1, <3>5
    <3>6. CASE i \notin Range(cs[k].roads) /\ f[k][i] = f[k-1][i]
      <4>1. ASSUME type[i] = v \/ \E j \in 1..k : i \in Range(cs[j].roads)
            PROVE  f[k][i] = v
        <5>1. type[i] = v \/ \E j \in 1..(k-1) : i \in Range(cs[j].roads)
          <6>1. \A j \in 1..k : j = k \/ j \in 1..(k-1)  BY <3>1
          <6> QED BY <3>6, <4>1, <6>1
        <5>2. f[k-1][i] = v  BY <2>2, <5>1
        <5> QED BY <3>6, <5>2
      <4> QED BY <3>1, <4>1
    <3> QED BY <3>4, <3>5, <3>6
  <2> HIDE DEF Q
  <2>3. \A k \in 0..N : k \in Q  BY <1>1, <2>1, <2>2, InductionUpTo
  <2>4. N \in Q  BY <1>1, <2>3
  <2> QED BY <1>1, <1>14, <2>4 DEF Q, SeenAs
<1> QED BY <1>2, <1>13, <1>14 DEF T

Recs == [path : Seq(Nodes), roads : Seq(RoadIdx), types : Seq(1..IntMax)]

SearchTyped ==
  /\ pc \in {"idle", "search", "crash"}
  /\ asked \in {<< >>} \cup (Places \X Places)
  /\ rect \in Nodes \X Nodes
  /\ type \in [RoadIdx -> 1..IntMax]
  /\ cands \in Seq(Recs) /\ Len(cands) <= MaxRounds
  /\ crossed \subseteq RoadIdx
  /\ answer \in Seq(Nodes)

CandidatesAreRecords == \A k \in DOMAIN cands : Record(cands[k])

\* What is known of a road no candidate has taken while it was marked: at most
\* one candidate of this request has taken it, and saw its proper type; it is
\* marked just when there is such a candidate.
Kept(i) ==
  /\ \A k \in DOMAIN cands : \A m \in DOMAIN cands[k].roads :
        cands[k].roads[m] = i => cands[k].types[m] = RoadType[i]
  /\ \A j, k \in DOMAIN cands :
        i \in Range(cands[j].roads) /\ i \in Range(cands[k].roads) => j = k
  /\ pc = "idle" => type[i] = RoadType[i]
  /\ pc = "search" =>
        type[i] = IF \E k \in DOMAIN cands : i \in Range(cands[k].roads) THEN IntMax ELSE RoadType[i]

RequestStands ==
  pc # "idle" => asked \in Places \X Places /\ rect \in getSrcAndDst(asked[1], asked[2])

AnswerStands ==
  pc = "idle" /\ answer # << >> =>
    cands # << >> /\ answer = cands[findMeanMin(cands)].path

\* The inductive invariant of the search.
SearchInv ==
  /\ SearchTyped
  /\ CandidatesAreRecords
  /\ \A i \in RoadIdx \ crossed : Kept(i)
  /\ RequestStands
  /\ AnswerStands
  /\ pc = "crash" => ~hasNextPath

\* The agent starts with the map as it is made.
LEMMA SearchInitInv == SearchInit => SearchInv
<1> SUFFICES ASSUME SearchInit PROVE SearchInv
  OBVIOUS
<1>1. /\ pc = "idle" /\ asked = << >> /\ rect = <<0, 0>> /\ type = RoadType
      /\ cands = << >> /\ crossed = {} /\ answer = << >>
  BY DEF SearchInit
<1>2. /\ 0 \in Nodes /\ IntMax \in Nat /\ MaxRounds \in Nat
      /\ RoadType \in [RoadIdx -> 1..(IntMax - 1)]
  BY GeoAssumption, MapAssumption
<1>3. SearchTyped
  <2>1. type \in [RoadIdx -> 1..IntMax]  BY <1>1, <1>2
  <2>2. cands \in Seq(Recs) /\ Len(cands) = 0 /\ answer \in Seq(Nodes)  BY <1>1
  <2> QED BY <1>1, <1>2, <2>1, <2>2 DEF SearchTyped
<1>4. CandidatesAreRecords  BY <1>1 DEF CandidatesAreRecords
<1>5. \A i \in RoadIdx \ crossed : Kept(i)  BY <1>1 DEF Kept
<1> QED BY <1>1, <1>3, <1>4, <1>5 DEF SearchInv, RequestStands, AnswerStands

\* A request finds the roads unmarked that no candidate ever crossed.
LEMMA AskInv ==
  ASSUME SearchInv, NEW p1 \in Places, NEW p2 \in Places, Ask(p1, p2)
  PROVE  SearchInv'
<1>1. /\ pc = "idle" /\ pc' = "search" /\ asked' = <<p1, p2>>
      /\ rect' \in getSrcAndDst(p1, p2)
      /\ cands' = << >> /\ answer' = << >> /\ type' = type /\ crossed' = crossed
  BY DEF Ask
<1>2. rect' \in Nodes \X Nodes  BY <1>1, RectTyped
<1>3. SearchTyped'
  <2>1. SearchTyped /\ MaxRounds \in Nat  BY MapAssumption DEF SearchInv
  <2>2. cands' \in Seq(Recs) /\ Len(cands') = 0 /\ answer' \in Seq(Nodes)  BY <1>1
  <2>3. asked' \in Places \X Places  BY <1>1
  <2> QED BY <1>1, <1>2, <2>1, <2>2, <2>3 DEF SearchTyped
<1>4. CandidatesAreRecords'  BY <1>1 DEF CandidatesAreRecords
<1>5. ASSUME NEW i \in RoadIdx \ crossed PROVE Kept(i)'
  <2>1. type[i] = RoadType[i]  BY <1>1 DEF SearchInv, Kept
  <2> QED BY <1>1, <2>1 DEF Kept
<1>6. RequestStands'
  <2>1. asked'[1] = p1 /\ asked'[2] = p2 /\ asked' \in Places \X Places  BY <1>1
  <2> QED BY <1>1, <2>1 DEF RequestStands
<1> QED BY <1>1, <1>3, <1>4, <1>5, <1>6 DEF SearchInv, AnswerStands

\* A round takes a path and marks its roads.
LEMMA RoundInv == ASSUME SearchInv, Round PROVE SearchInv'
<1>1. PICK s \in Shortest(rect[1], rect[2]) :
        LET rs == RoadsBack(s)
        IN  /\ cands' = Append(cands, [path |-> s, roads |-> rs, types |-> TypesOf(rs)])
            /\ type' = [i \in RoadIdx |-> IF i \in Range(rs) THEN IntMax ELSE type[i]]
            /\ crossed' = crossed \cup {i \in Range(rs) : type[i] = IntMax}
  BY DEF Round
<1> DEFINE rs == RoadsBack(s)
           c == [path |-> s, roads |-> rs, types |-> TypesOf(rs)]
           n == Len(cands) + 1
<1>2. /\ cands' = Append(cands, c)
      /\ type' = [i \in RoadIdx |-> IF i \in Range(rs) THEN IntMax ELSE type[i]]
      /\ crossed' = crossed \cup {i \in Range(rs) : type[i] = IntMax}
      /\ pc = "search" /\ Len(cands) < MaxRounds
      /\ pc' = pc /\ asked' = asked /\ rect' = rect /\ answer' = answer
  BY <1>1 DEF Round
<1>3. SearchTyped /\ CandidatesAreRecords /\ RequestStands /\ \A i \in RoadIdx \ crossed : Kept(i)
  BY DEF SearchInv
<1>4. /\ rect[1] \in Nodes /\ rect[2] \in Nodes /\ type \in [RoadIdx -> 1..IntMax]
      /\ cands \in Seq(Recs) /\ IntMax \in Nat /\ MaxRounds \in Nat
  BY <1>3, MapAssumption DEF SearchTyped
<1>5. s \in PathsBetween(rect[1], rect[2])  BY <1>4 DEF Shortest, AllPaths
<1>6. /\ s \in Seq(Nodes) /\ Len(s) \in 2..Cardinality(Nodes) /\ Cardinality(Nodes) \in Nat
      /\ rs \in Seq(RoadIdx) /\ Len(rs) = Len(s) - 1 /\ DOMAIN rs = 1..(Len(s) - 1)
  BY <1>4, <1>5, PathFacts, RoadsBackFacts, GeoFacts
<1> HIDE DEF rs
<1>7. /\ DOMAIN TypesOf(rs) = DOMAIN rs
      /\ \A m \in DOMAIN rs : rs[m] \in RoadIdx /\ TypesOf(rs)[m] = type[rs[m]]
  <2>1. \A m \in DOMAIN rs : rs[m] \in RoadIdx  BY <1>6
  <2> QED BY <2>1 DEF TypesOf
<1>8. TypesOf(rs) \in Seq(1..IntMax) /\ Len(TypesOf(rs)) = Len(s) - 1
  <2>1. TypesOf(rs) \in [1..(Len(s) - 1) -> 1..IntMax]
    <3>1. \A m \in DOMAIN rs : type[rs[m]] \in 1..IntMax  BY <1>4, <1>7
    <3>2. TypesOf(rs) = [m \in DOMAIN rs |-> type[rs[m]]]  BY DEF TypesOf
    <3> QED BY <1>6, <3>1, <3>2
  <2> DEFINE T == 1..IntMax
             l == Len(s) - 1
             ts == TypesOf(rs)
  <2>2. l \in Nat  BY <1>6
  <2>3. ts \in [1..l -> T]  BY <2>1
  <2> HIDE DEF T, l, ts
  <2>4. ts \in Seq(T) /\ Len(ts) = l  BY <2>2, <2>3
  <2> QED BY <2>4 DEF T, l, ts
<1>9. c.path = s /\ c.roads = rs /\ c.types = TypesOf(rs) /\ c \in Recs
  BY <1>6, <1>8 DEF Recs
<1>10. Record(c)  BY <1>6, <1>8, <1>9 DEF Record, rs
<1> HIDE DEF c
<1>11. /\ cands' \in Seq(Recs) /\ n \in Nat /\ DOMAIN cands = 1..(n-1) /\ DOMAIN cands' = 1..n
       /\ cands'[n] = c /\ \A k \in 1..(n-1) : cands'[k] = cands[k]
       /\ Len(cands') = n /\ n <= MaxRounds /\ n >= 1
  BY <1>2, <1>4, <1>9
<1>12. Range(rs) \subseteq RoadIdx /\ \A i : i \in Range(rs) <=> \E m \in DOMAIN rs : rs[m] = i
  BY <1>7 DEF Range
<1> HIDE DEF n
<1>13. \A k \in 1..n : k = n \/ k \in 1..(n-1)  BY <1>11
<1>14. SearchTyped'
  <2>1. type' \in [RoadIdx -> 1..IntMax]
    <3>1. \A i \in RoadIdx : type[i] \in 1..IntMax /\ IntMax \in 1..IntMax  BY <1>4
    <3> QED BY <1>2, <3>1
  <2> QED BY <1>2, <1>3, <1>11, <1>12, <2>1 DEF SearchTyped
<1>15. CandidatesAreRecords'
  BY <1>3, <1>10, <1>11, <1>13 DEF CandidatesAreRecords
<1>16. ASSUME NEW i \in RoadIdx \ crossed' PROVE Kept(i)'
  <2>0. Kept(i)  BY <1>2, <1>3
  <2>1. i \in RoadIdx /\ (i \in Range(rs) => type[i] # IntMax)  BY <1>2
  <2>2. i \in Range(rs) => /\ type[i] = RoadType[i]
                           /\ \A k \in DOMAIN cands : i \notin Range(cands[k].roads)
    BY <1>2, <2>0, <2>1 DEF Kept
  <2>3. \A k \in DOMAIN cands' : \A m \in DOMAIN cands'[k].roads :
          cands'[k].roads[m] = i => cands'[k].types[m] = RoadType[i]
    <3> SUFFICES ASSUME NEW k \in DOMAIN cands', NEW m \in DOMAIN cands'[k].roads,
                        cands'[k].roads[m] = i
                 PROVE  cands'[k].types[m] = RoadType[i]
      OBVIOUS
    <3>1. CASE k = n
      <4>1. m \in DOMAIN rs /\ rs[m] = i /\ cands'[k].types[m] = type[i]
        BY <1>7, <1>9, <1>11, <3>1
      <4> QED BY <1>12, <2>2, <4>1
    <3>2. CASE k # n
      <4>1. k \in DOMAIN cands /\ cands'[k] = cands[k]  BY <1>11, <1>13, <3>2
      <4> QED BY <2>0, <4>1 DEF Kept
    <3> QED BY <3>1, <3>2
  <2>4. \A j, k \in DOMAIN cands' :
          i \in Range(cands'[j].roads) /\ i \in Range(cands'[k].roads) => j = k
    <3> SUFFICES ASSUME NEW j \in DOMAIN cands', NEW k \in DOMAIN cands',
                        i \in Range(cands'[j].roads), i \in Range(cands'[k].roads)
                 PROVE  j = k
      OBVIOUS
    <3>1. \A l \in DOMAIN cands' : l = n \/ (l \in DOMAIN cands /\ cands'[l] = cands[l])
      BY <1>11, <1>13
    <3>2. cands'[n].roads = rs  BY <1>9, <1>11
    <3> QED BY <2>0, <2>2, <3>1, <3>2 DEF Kept
  <2>5. type'[i] = IF \E k \in DOMAIN cands' : i \in Range(cands'[k].roads) THEN IntMax ELSE RoadType[i]
    <3>1. CASE i \in Range(rs)
      <4>1. type'[i] = IntMax  BY <1>2, <2>1, <3>1
      <4>2. n \in DOMAIN cands' /\ i \in Range(cands'[n].roads)  BY <1>9, <1>11, <3>1
      <4> QED BY <4>1, <4>2
    <3>2. CASE i \notin Range(rs)
      <4>1. type'[i] = type[i]  BY <1>2, <2>1, <3>2
      <4>2. (\E k \in DOMAIN cands' : i \in Range(cands'[k].roads))
            <=> \E k \in DOMAIN cands : i \in Range(cands[k].roads)
        <5>1. cands'[n].roads = rs  BY <1>9, <1>11
        <5>2. \A l \in DOMAIN cands' : l = n \/ (l \in DOMAIN cands /\ cands'[l] = cands[l])
          BY <1>11, <1>13
        <5>3. \A l \in DOMAIN cands : l \in DOMAIN cands' /\ cands'[l] = cands[l]
          BY <1>11
        <5> QED BY <3>2, <5>1, <5>2, <5>3
      <4> QED BY <1>2, <2>0, <4>1, <4>2 DEF Kept
    <3> QED BY <3>1, <3>2
  <2> QED BY <1>2, <2>3, <2>4, <2>5 DEF Kept
<1> QED BY <1>2, <1>3, <1>14, <1>15, <1>16 DEF SearchInv, RequestStands, AnswerStands

\* The types are put back.
LEMMA ReturnInv == ASSUME SearchInv, Return PROVE SearchInv'
<1>1. /\ pc = "search" /\ cands # << >> /\ pc' = "idle"
      /\ answer' = cands[findMeanMin(cands)].path /\ type' = Restored(cands)
      /\ asked' = asked /\ rect' = rect /\ cands' = cands /\ crossed' = crossed
  BY DEF Return
<1>2. SearchTyped /\ CandidatesAreRecords /\ \A i \in RoadIdx \ crossed : Kept(i)
  BY DEF SearchInv
<1>3. cands \in Seq(Recs) /\ type \in [RoadIdx -> 1..IntMax]  BY <1>2 DEF SearchTyped
<1>4. \A k \in DOMAIN cands : Record(cands[k])  BY <1>2 DEF CandidatesAreRecords
<1>5. findMeanMin(cands) \in DOMAIN cands  BY <1>1, <1>3, <1>4, MeanMinFacts
<1>6. SearchTyped'
  <2>1. answer' \in Seq(Nodes)  BY <1>1, <1>4, <1>5 DEF Record
  <2>2. type' \in [RoadIdx -> 1..IntMax]  BY <1>1, <1>3, <1>4, RestoredFacts
  <2> QED BY <1>1, <1>2, <2>1, <2>2 DEF SearchTyped
<1>7. CandidatesAreRecords'  BY <1>1, <1>2 DEF CandidatesAreRecords
<1>8. ASSUME NEW i \in RoadIdx \ crossed' PROVE Kept(i)'
  <2>1. Kept(i) /\ i \in RoadIdx  BY <1>1, <1>2
  <2>2. RoadType[i] \in 1..IntMax
    <3>1. RoadType[i] \in 1..(IntMax - 1) /\ IntMax \in Nat  BY <2>1, MapAssumption
    <3> QED BY <3>1
  <2>3. type'[i] = RoadType[i]
    <3>1. type[i] = RoadType[i] \/ \E k \in DOMAIN cands : i \in Range(cands[k].roads)
      BY <1>1, <2>1 DEF Kept
    <3>2. \A k \in DOMAIN cands : \A m \in DOMAIN cands[k].roads :
            cands[k].roads[m] = i => cands[k].types[m] = RoadType[i]
      BY <2>1 DEF Kept
    <3>3. SeenAs(cands, i, RoadType[i])  BY <3>1, <3>2 DEF SeenAs
    <3>4. Restored(cands)[i] = RoadType[i]  BY <1>3, <1>4, <2>1, <2>2, <3>3, RestoredFacts
    <3> QED BY <1>1, <3>4
  <2> QED BY <1>1, <2>1, <2>3 DEF Kept
<1> QED BY <1>1, <1>6, <1>7, <1>8 DEF SearchInv, RequestStands, AnswerStands

\* Every step of the search keeps the invariant.
LEMMA SearchNextInv == SearchInv /\ [SearchNext]_searchVars => SearchInv'
<1> SUFFICES ASSUME SearchInv, [SearchNext]_searchVars PROVE SearchInv'
  OBVIOUS
<1>1. CASE \E p1, p2 \in Places : Ask(p1, p2)  BY <1>1, AskInv
<1>2. CASE Round  BY <1>2, RoundInv
<1>3. CASE Return  BY <1>3, ReturnInv
<1>4. CASE ReadNothing
  <2>1. /\ pc = "search" /\ ~hasNextPath /\ cands = << >> /\ pc' = "crash"
        /\ asked' = asked /\ rect' = rect /\ type' = type /\ cands' = cands
        /\ crossed' = crossed /\ answer' = answer
    BY <1>4 DEF ReadNothing
  <2>2. ~hasNextPath'  BY <2>1 DEF hasNextPath
  <2>3. \A i \in RoadIdx \ crossed' : Kept(i)'  BY <2>1 DEF SearchInv, Kept
  <2>4. SearchTyped' /\ CandidatesAreRecords' /\ RequestStands' /\ AnswerStands'
    BY <2>1 DEF SearchInv, SearchTyped, CandidatesAreRecords, RequestStands, AnswerStands
  <2> QED BY <2>2, <2>3, <2>4 DEF SearchInv
<1>5. CASE UNCHANGED searchVars
  <2>1. /\ pc' = pc /\ asked' = asked /\ rect' = rect /\ type' = type /\ cands' = cands
        /\ crossed' = crossed /\ answer' = answer
    BY <1>5 DEF searchVars
  <2>2. hasNextPath' <=> hasNextPath  BY <2>1 DEF hasNextPath
  <2>3. \A i \in RoadIdx \ crossed' : Kept(i)'  BY <2>1 DEF SearchInv, Kept
  <2>4. SearchTyped' /\ CandidatesAreRecords' /\ RequestStands' /\ AnswerStands'
    BY <2>1 DEF SearchInv, SearchTyped, CandidatesAreRecords, RequestStands, AnswerStands
  <2> QED BY <2>1, <2>2, <2>3, <2>4 DEF SearchInv
<1> QED BY <1>1, <1>2, <1>3, <1>4, <1>5 DEF SearchNext

\* SearchInv is an invariant of the search.
LEMMA SearchInductive == SearchSpec => []SearchInv
BY SearchInitInv, SearchNextInv, PTL DEF SearchSpec

\* An unmarked road that leads to the destination keeps getPaths from reading
\* an empty list.
LEMMA CrashFollows == SearchInv => CrashOnlyOutOfOrder
<1> SUFFICES ASSUME SearchInv, pc = "crash",
                    getRoadByPos(asked[1]) # NoRoad, getRoadByPos(asked[2]) # NoRoad,
                    ~(getRoadByPos(asked[2]) < getRoadByPos(asked[1])),
                    Dist2(At[Roads[getRoadByPos(asked[2])].s], At[rect[1]])
                      # Dist2(At[Roads[getRoadByPos(asked[2])].t], At[rect[1]]),
                    type = RoadType
             PROVE  FALSE
  BY DEF CrashOnlyOutOfOrder
<1> DEFINE j == getRoadByPos(asked[2])
<1>1. rect \in getSrcAndDst(asked[1], asked[2]) /\ ~hasNextPath
  BY DEF SearchInv, RequestStands
<1>2. j \in RoadIdx /\ LeadsTo(j, rect[1], rect[2])  BY <1>1, RoadLeads
<1>3. type[j] # IntMax
  <2>1. RoadType[j] \in 1..(IntMax - 1) /\ IntMax \in Nat  BY <1>2, MapAssumption
  <2> QED BY <2>1
<1> QED BY <1>1, <1>2, <1>3 DEF hasNextPath

\* As long as no candidate crossed a marked road the candidates share no road,
\* so that the one returned is known by its path, and their sums are right.
LEMMA AnswerFollows == SearchInv => AnswerIsSound
<1> SUFFICES ASSUME SearchInv PROVE AnswerIsSound
  OBVIOUS
<1>1. SearchTypeOK  BY DEF SearchInv, SearchTyped, SearchTypeOK
<1>2. ASSUME pc = "idle", answer # << >>, crossed = {}
      PROVE  LET S(k) == Total(cands[k].types)
                 mine == CHOOSE k \in DOMAIN cands : cands[k].path = answer
             IN  \/ \A k \in DOMAIN cands : S(mine) <= S(k)
                 \/ \E j, k \in DOMAIN cands :
                       j # k /\ S(j) = S(k) /\ \A l \in DOMAIN cands : S(j) <= S(l)
  <2> DEFINE S(k) == Total(cands[k].types)
             mine == CHOOSE k \in DOMAIN cands : cands[k].path = answer
             best == findMeanMin(cands)
  <2>1. cands \in Seq(Recs) /\ cands # << >> /\ answer = cands[best].path
    BY <1>2 DEF SearchInv, SearchTyped, AnswerStands
  <2>2. \A k \in DOMAIN cands : Record(cands[k])  BY DEF SearchInv, CandidatesAreRecords
  <2>3. \A i \in RoadIdx : Kept(i)  BY <1>2 DEF SearchInv
  <2>4. /\ best \in DOMAIN cands
        /\ \/ \A j \in DOMAIN cands : SumOf(cands[best]) <= SumOf(cands[j])
           \/ \E j, k \in DOMAIN cands :
                 j # k /\ SumOf(cands[j]) = SumOf(cands[k])
                 /\ \A l \in DOMAIN cands : SumOf(cands[j]) <= SumOf(cands[l])
    BY <2>1, <2>2, MeanMinFacts
  <2> HIDE DEF best
  <2>5. mine = best
    <3> SUFFICES ASSUME NEW k \in DOMAIN cands, cands[k].path = answer PROVE k = best
      BY <2>1, <2>4
    <3>1. cands[k].roads = cands[best].roads  BY <2>1, <2>2, <2>4 DEF Record
    <3>2. 1 \in DOMAIN cands[k].roads /\ cands[k].roads[1] \in RoadIdx
      <4>1. Record(cands[k])  BY <2>2
      <4>2. /\ Len(cands[k].types) \in Nat \ {0} /\ DOMAIN cands[k].types = 1..Len(cands[k].types)
            /\ DOMAIN cands[k].roads = DOMAIN cands[k].types
            /\ \A m \in DOMAIN cands[k].types : cands[k].roads[m] \in RoadIdx
        BY <4>1, RecordFacts
      <4>3. 1 \in DOMAIN cands[k].types  BY <4>2
      <4> QED BY <4>2, <4>3
    <3>3. cands[k].roads[1] \in Range(cands[k].roads)  BY <3>2 DEF Range
    <3> QED BY <2>3, <2>4, <3>1, <3>2, <3>3 DEF Kept
  <2>6. ASSUME NEW k \in DOMAIN cands PROVE SumOf(cands[k]) = S(k)
    <3> DEFINE c == cands[k]
    <3>1. /\ Len(c.types) \in Nat \ {0} /\ Len(c.types) <= Cardinality(Nodes)
          /\ DOMAIN c.types = 1..Len(c.types) /\ DOMAIN c.roads = DOMAIN c.types
          /\ \A m \in DOMAIN c.types : c.roads[m] \in RoadIdx
      <4>1. Record(c)  BY <2>2
      <4> QED BY <4>1, RecordFacts
    <3>2. ASSUME NEW m \in 1..Len(c.types)
          PROVE  \E i \in RoadIdx : c.types[m] = RoadType[i]
      <4>1. c.roads[m] \in RoadIdx /\ m \in DOMAIN c.roads  BY <3>1
      <4>2. c.types[m] = RoadType[c.roads[m]]  BY <2>3, <4>1 DEF Kept
      <4> QED BY <4>1, <4>2
    <3> HIDE DEF c
    <3>3. SumOf(c) = Total(c.types)  BY <3>1, <3>2, SumFits
    <3> QED BY <3>3 DEF c
  <2> HIDE DEF S, mine
  <2>7. \/ \A k \in DOMAIN cands : S(mine) <= S(k)
        \/ \E j, k \in DOMAIN cands :
              j # k /\ S(j) = S(k) /\ \A l \in DOMAIN cands : S(j) <= S(l)
    <3>1. CASE \A j \in DOMAIN cands : SumOf(cands[best]) <= SumOf(cands[j])
      BY <2>4, <2>5, <2>6, <3>1
    <3>2. CASE \E j, k \in DOMAIN cands :
                 j # k /\ SumOf(cands[j]) = SumOf(cands[k])
                 /\ \A l \in DOMAIN cands : SumOf(cands[j]) <= SumOf(cands[l])
      BY <2>6, <3>2
    <3> QED BY <2>4, <3>1, <3>2
  <2> QED BY <2>7 DEF S, mine
<1>3. AnswerCheapestUnlessTied  BY <1>2 DEF AnswerCheapestUnlessTied
<1> QED BY <1>1, <1>3 DEF AnswerIsSound

\* On every map and for every sequence of requests, getPaths puts back the type
\* of each road that no candidate took while it was marked: what its rounds
\* saw is enough to undo their marks.
THEOREM MarksArePutBack == SearchSpec => []MarksStayOnlyWhereCrossed
<1>1. SearchInv => MarksStayOnlyWhereCrossed
  BY DEF SearchInv, Kept, MarksStayOnlyWhereCrossed
<1> QED BY <1>1, SearchInductive, PTL

\* getPaths reads paths_vec[0] of an empty vector only for a vehicle off the map,
\* a destination whose road comes before the source's, a tie between the ends
\* of its road, or after an earlier search left a mark.
THEOREM CrashHasACause == SearchSpec => []CrashOnlyOutOfOrder
BY CrashFollows, SearchInductive, PTL

\* findMeanMin's choice is the cheapest candidate, unless several are or a
\* candidate crossed a marked road; the sums do not overflow before that.
THEOREM SearchAnswerStaysSound == SearchSpec => []AnswerIsSound
BY AnswerFollows, SearchInductive, PTL

-----------------------------------------------------------------------------
(* request_routing_cb *)

\* What getPaths may return are paths of the map.
LEMMA PathsForFacts ==
  ASSUME NEW p1 \in Spots, NEW p2 \in Spots, NEW path \in PathsFor[p1][p2]
  PROVE  path \in Seq(Nodes) /\ Len(path) \in Nat /\ Len(path) >= 2
<1>1. PICK r \in getSrcAndDst(p1, p2) : path \in getPaths(r[1], r[2])
  BY DEF PathsFor
<1>2. r[1] \in Nodes /\ r[2] \in Nodes  BY RectTyped
<1>3. path \in PathsBetween(r[1], r[2])  BY <1>1, <1>2 DEF getPaths, AllPaths
<1>4. path \in Seq(Nodes) /\ Len(path) \in 2..Cardinality(Nodes)  BY <1>2, <1>3, PathFacts
<1> QED BY <1>4, GeoFacts

\* What is left of the path a packet was given.
LeftOf(path, all) ==
  /\ path \in Seq(Nodes) /\ all \in Seq(Nodes)
  /\ 1 <= Len(path) /\ Len(path) <= Len(all) /\ 2 <= Len(all)
  /\ \A m \in 1..Len(path) : path[m] = all[Len(all) - Len(path) + m]

\* A relay takes off one road at most.
LEMMA TrimmedFacts ==
  ASSUME NEW path, NEW all, NEW relay, NEW next, LeftOf(path, all), Len(path) >= 2
  PROVE  /\ LeftOf(Trimmed(path, relay, next), all)
         /\ Len(Trimmed(path, relay, next)) < 2 =>
              /\ FirstRoad(path) = RoadBetween(all[Len(all) - 1], all[Len(all)])
              /\ FirstRoad(path) # RoadOf[pos[next]] /\ RoadOf[relay] = FirstRoad(path)
              /\ Len(path) = 2 /\ path[2] = all[Len(all)]
<1>1. /\ path \in Seq(Nodes) /\ all \in Seq(Nodes) /\ Len(path) \in Nat /\ Len(all) \in Nat
      /\ Len(path) <= Len(all)
      /\ \A m \in 1..Len(path) : path[m] = all[Len(all) - Len(path) + m]
  BY DEF LeftOf
<1>2. CASE FirstRoad(path) # RoadOf[pos[next]] /\ RoadOf[relay] = FirstRoad(path)
  <2>1. Trimmed(path, relay, next) = Tail(path)  BY <1>2 DEF Trimmed
  <2>2. /\ Tail(path) \in Seq(Nodes) /\ Len(Tail(path)) = Len(path) - 1
        /\ \A m \in 1..(Len(path) - 1) : Tail(path)[m] = path[m + 1]
    BY <1>1
  <2>3. LeftOf(Tail(path), all)
    <3>1. ASSUME NEW m \in 1..(Len(path) - 1)
          PROVE  Tail(path)[m] = all[Len(all) - (Len(path) - 1) + m]
      <4>1. m + 1 \in 1..Len(path)  BY <1>1
      <4>2. Len(all) - Len(path) + (m + 1) = Len(all) - (Len(path) - 1) + m  BY <1>1
      <4> QED BY <1>1, <2>2, <4>1, <4>2
    <3> QED BY <1>1, <2>2, <3>1 DEF LeftOf
  <2>4. ASSUME Len(Tail(path)) < 2
        PROVE  /\ FirstRoad(path) = RoadBetween(all[Len(all) - 1], all[Len(all)])
               /\ Len(path) = 2 /\ path[2] = all[Len(all)]
    <3>1. Len(path) = 2  BY <1>1, <2>2, <2>4
    <3>2. Len(all) - Len(path) + 1 = Len(all) - 1 /\ Len(all) - Len(path) + 2 = Len(all)
      BY <1>1, <3>1
    <3>3. path[1] = all[Len(all) - 1] /\ path[2] = all[Len(all)]  BY <1>1, <3>1, <3>2
    <3> QED BY <3>1, <3>3 DEF FirstRoad
  <2> QED BY <1>2, <2>1, <2>3, <2>4
<1>3. CASE ~(FirstRoad(path) # RoadOf[pos[next]] /\ RoadOf[relay] = FirstRoad(path))
  <2>1. Trimmed(path, relay, next) = path  BY <1>3 DEF Trimmed
  <2> QED BY <1>1, <2>1
<1> QED BY <1>2, <1>3

Packets == [where : {"app", "air", "delivered", "lost", "looped", "halted"} \cup OutOfPath,
            at : Cars, path : Seq(Nodes)]

RelayTyped ==
  /\ pos \in [Cars -> Spots]
  /\ nbl \in [Cars -> [Cars -> Spots \cup {None}]]
  /\ pkt \in Packets
  /\ orig \in Seq(Nodes) /\ moves \in 0..MaxMoves

\* The path has run out for a reason.
Spent ==
  \/ RoadBetween(orig[Len(orig) - 1], orig[Len(orig)]) # RoadOf[pos[Dst]]
  \/ BackOnSourceRoad

\* A packet on its way to a relay has a path that is what is left of the one it
\* was given.
PathIsLeft == pkt.where = "air" /\ pkt.at # Dst => LeftOf(pkt.path, orig)

SpentForAReason ==
  /\ pkt.where \in OutOfPath => pkt.at # Dst /\ Len(pkt.path) < 2
  /\ moves = 0 /\ pkt.where \in {"air"} \cup OutOfPath /\ pkt.at # Dst /\ Len(pkt.path) < 2 => Spent

\* The inductive invariant: before anything moves the lists are true.
RelayInv ==
  /\ RelayTyped
  /\ moves = 0 => ListsAreTrue
  /\ PathIsLeft
  /\ SpentForAReason

\* The packet is with the application.
LEMMA RelayInitInv == Init => RelayInv
<1> SUFFICES ASSUME Init PROVE RelayInv
  OBVIOUS
<1>1. /\ pos \in [Cars -> Spots] /\ nbl = [c \in Cars |-> [d \in Cars |-> None]]
      /\ pkt = [where |-> "app", at |-> Src, path |-> << >>]
      /\ orig = << >> /\ moves = 0
  BY CarsAssumption DEF Init
<1>2. pkt.where = "app" /\ pkt \in Packets
  <2>1. << >> \in Seq(Nodes) /\ Src \in Cars  BY CarsAssumption
  <2> QED BY <1>1, <2>1 DEF Packets
<1>3. RelayTyped  BY <1>1, <1>2, CarsAssumption DEF RelayTyped
<1>4. ListsAreTrue  BY <1>1 DEF ListsAreTrue
<1> QED BY <1>2, <1>3, <1>4 DEF RelayInv, PathIsLeft, SpentForAReason, OutOfPath

\* The packet goes to next with the path p, and the invariant holds if the path
\* is in order unless next is the destination.
LEMMA SendInv ==
  ASSUME RelayInv, NEW n \in Cars, NEW next \in Cars, NEW p \in Seq(Nodes), Send(n, next, p),
         orig' \in Seq(Nodes), pos' = pos, nbl' = nbl, moves' = moves,
         next # Dst => LeftOf(p, orig'),
         moves = 0 /\ next # Dst /\ Len(p) < 2 => Spent'
  PROVE  RelayInv'
<1>1. PICK fate \in {"lost", "air"} : pkt' = [where |-> fate, at |-> next, path |-> p]
  BY DEF Send
<1>2. /\ pkt'.where = fate /\ pkt'.at = next /\ pkt'.path = p /\ pkt' \in Packets
  BY <1>1 DEF Packets
<1>3. RelayTyped'  BY <1>2 DEF RelayInv, RelayTyped
<1>4. (moves = 0 => ListsAreTrue)'  BY DEF RelayInv, ListsAreTrue
<1>5. PathIsLeft'  BY <1>2 DEF PathIsLeft
<1>6. SpentForAReason'  BY <1>1, <1>2 DEF SpentForAReason, OutOfPath
<1> QED BY <1>3, <1>4, <1>5, <1>6 DEF RelayInv

\* A packet that ends where it is.
LEMMA EndInv ==
  ASSUME RelayInv, NEW how \in {"delivered", "looped", "halted"} \cup OutOfPath, End(how),
         pos' = pos, nbl' = nbl, moves' = moves,
         how \in OutOfPath => pkt.where = "air" /\ pkt.at # Dst /\ Len(pkt.path) < 2
  PROVE  RelayInv'
<1>1. pkt' = [pkt EXCEPT !.where = how] /\ orig' = orig  BY DEF End
<1>2. RelayTyped  BY DEF RelayInv
<1>3. /\ pkt'.where = how /\ pkt'.at = pkt.at /\ pkt'.path = pkt.path /\ pkt' \in Packets
  BY <1>1, <1>2 DEF RelayTyped, Packets
<1>4. RelayTyped'  BY <1>1, <1>2, <1>3 DEF RelayTyped
<1>5. (moves = 0 => ListsAreTrue)'  BY DEF RelayInv, ListsAreTrue
<1>6. PathIsLeft'  BY <1>3 DEF PathIsLeft, OutOfPath
<1>7. Spent' <=> Spent  BY <1>1 DEF Spent, BackOnSourceRoad
<1>8. SpentForAReason'  BY <1>3, <1>7 DEF SpentForAReason, RelayInv, OutOfPath
<1> QED BY <1>4, <1>5, <1>6, <1>8 DEF RelayInv

\* To a listed destination.
LEMMA RouteDirectInv ==
  ASSUME RelayInv, NEW n \in Cars, RouteDirect(n), pos' = pos, nbl' = nbl, moves' = moves
  PROVE  RelayInv'
<1>1. PICK path \in PathsFor[pos[Src]][pos[Dst]] :
        Send(n, Dst, Trimmed(path, pos[Src], Dst)) /\ orig' = path
  BY DEF RouteDirect
<1>2. pos[Src] \in Spots /\ pos[Dst] \in Spots /\ Dst \in Cars
  BY CarsAssumption DEF RelayInv, RelayTyped
<1>3. path \in Seq(Nodes) /\ Len(path) \in Nat /\ Len(path) >= 2  BY <1>2, PathsForFacts
<1>4. LeftOf(path, path)  BY <1>3 DEF LeftOf
<1>5. Trimmed(path, pos[Src], Dst) \in Seq(Nodes)  BY <1>3, <1>4, TrimmedFacts DEF LeftOf
<1> QED BY <1>1, <1>2, <1>3, <1>5, SendInv

\* Along a path.
LEMMA RouteAlongInv ==
  ASSUME RelayInv, NEW n \in Cars, NEW path, RouteAlong(n, path), LeftOf(path, orig'),
         Len(path) >= 2, pos' = pos, nbl' = nbl, moves' = moves
  PROVE  RelayInv'
<1> DEFINE roads == HopRoads(path)
           point == PointAhead(path)
<1>1. PICK next \in NextHops(n, roads, pos[n], point) :
        Send(n, next, Trimmed(path, pos[n], next))
  BY DEF RouteAlong
<1> DEFINE p == Trimmed(path, pos[n], next)
<1>2. RelayTyped  BY DEF RelayInv
<1>3. \/ next = Dst
      \/ /\ next \in Cars /\ nbl[n][next] # None /\ RoadOf[nbl[n][next]] \in roads
         /\ Ahead(nbl[n][next], pos[n], point)
  BY DEF NextHops, Listed
<1>4. next \in Cars  BY <1>3, CarsAssumption
<1>5. /\ LeftOf(p, orig') /\ p \in Seq(Nodes) /\ orig' \in Seq(Nodes)
  <2>1. LeftOf(p, orig')  BY TrimmedFacts
  <2> HIDE DEF p
  <2> QED BY <2>1 DEF LeftOf
<1>6. ASSUME moves = 0, next # Dst, Len(p) < 2 PROVE Spent'
  <2> DEFINE last == RoadBetween(orig'[Len(orig') - 1], orig'[Len(orig')])
             end == orig'[Len(orig')]
  <2>1. /\ FirstRoad(path) = last
        /\ FirstRoad(path) # RoadOf[pos[next]] /\ RoadOf[pos[n]] = FirstRoad(path)
        /\ Len(path) = 2 /\ path[2] = end
    BY <1>6, TrimmedFacts
  <2>2. nbl[n][next] = pos[next]  BY <1>3, <1>4, <1>6 DEF RelayInv, ListsAreTrue
  <2>3. roads \subseteq {last, RoadOf[pos[Src]], RoadOf[pos[Dst]]}  BY <2>1 DEF HopRoads
  <2>4. point = At[end]  BY <2>1 DEF PointAhead
  <2>5. Dist2(At[end], pos[next]) < Dist2(pos[n], At[end])
    BY <1>3, <1>6, <2>2, <2>4 DEF Ahead
  <2>6. RoadOf[pos[next]] \in {RoadOf[pos[Src]], RoadOf[pos[Dst]]}
    BY <1>3, <1>6, <2>1, <2>2, <2>3
  <2>7. CASE last # RoadOf[pos[Dst]]  BY <2>7 DEF Spent
  <2>8. CASE last = RoadOf[pos[Dst]]
    <3>1. RoadOf[pos[next]] = RoadOf[pos[Src]] /\ RoadOf[pos[Src]] # RoadOf[pos[Dst]]
          /\ RoadOf[pos[n]] = RoadOf[pos[Dst]]
      BY <2>1, <2>6, <2>8
    <3>2. BackOnSourceRoad'  BY <1>4, <2>5, <3>1 DEF BackOnSourceRoad
    <3> QED BY <3>2 DEF Spent
  <2> QED BY <2>7, <2>8
<1> HIDE DEF p, roads, point
<1>7. Send(n, next, p)  BY <1>1 DEF p
<1> QED BY <1>4, <1>5, <1>6, <1>7, SendInv

\* The packet of the application.
LEMMA InjectInv == ASSUME RelayInv, Inject PROVE RelayInv'
<1>1. pos' = pos /\ nbl' = nbl /\ moves' = moves  BY DEF Inject
<1>2. Src \in Cars /\ pos[Src] \in Spots /\ pos[Dst] \in Spots
  BY CarsAssumption DEF RelayInv, RelayTyped
<1>3. CASE RouteDirect(Src)  BY <1>1, <1>2, <1>3, RouteDirectInv
<1>4. CASE \E path \in PathsFor[pos[Src]][pos[Dst]] : RouteAlong(Src, path) /\ orig' = path
  <2>1. PICK path \in PathsFor[pos[Src]][pos[Dst]] : RouteAlong(Src, path) /\ orig' = path
    BY <1>4
  <2>2. path \in Seq(Nodes) /\ Len(path) \in Nat /\ Len(path) >= 2  BY <1>2, PathsForFacts
  <2>3. LeftOf(path, orig')  BY <2>1, <2>2 DEF LeftOf
  <2> QED BY <1>1, <1>2, <2>1, <2>2, <2>3, RouteAlongInv
<1>5. CASE SimulationStops
  <2>1. End("halted")  BY <1>5 DEF SimulationStops
  <2> QED BY <1>1, <2>1, EndInv DEF OutOfPath
<1> QED BY <1>3, <1>4, <1>5 DEF Inject

\* A packet from the air.
LEMMA PacketArriveInv == ASSUME RelayInv, Arrive PROVE RelayInv'
<1> DEFINE n == pkt.at
<1>1. pos' = pos /\ nbl' = nbl /\ moves' = moves /\ pkt.where = "air"  BY DEF Arrive
<1>2. n \in Cars /\ Len(pkt.path) \in Nat  BY DEF RelayInv, RelayTyped, Packets
<1>3. CASE End("looped")  BY <1>1, <1>3, EndInv DEF OutOfPath
<1>4. CASE End("delivered")  BY <1>1, <1>4, EndInv DEF OutOfPath
<1>5. CASE n \notin {Src, Dst} /\ RouteDirect(n)  BY <1>1, <1>2, <1>5, RouteDirectInv
<1>6. CASE SimulationStops
  <2>1. End("halted")  BY <1>6 DEF SimulationStops
  <2> QED BY <1>1, <2>1, EndInv DEF OutOfPath
<1>7. CASE /\ n \notin {Src, Dst} /\ Len(pkt.path) >= 2
           /\ RouteAlong(n, pkt.path) /\ UNCHANGED orig
  <2>1. LeftOf(pkt.path, orig')  BY <1>1, <1>7 DEF RelayInv, PathIsLeft
  <2> QED BY <1>1, <1>2, <1>7, <2>1, RouteAlongInv
<1>8. CASE n \notin {Src, Dst} /\ Len(pkt.path) < 2 /\ \E how \in OutOfPath : End(how)
  BY <1>1, <1>8, EndInv DEF OutOfPath
<1> QED BY <1>3, <1>4, <1>5, <1>6, <1>7, <1>8 DEF Arrive

\* An information packet and the aging of a list.
LEMMA ExpireInv == ASSUME RelayInv, NEW c \in Cars, Expire(c) PROVE RelayInv'
<1>1. PICK heard \in SUBSET {d \in Cars \ {c} : Near(c, d)}, old \in SUBSET Listed(c) :
        nbl' = [d \in Cars |-> IF d \in heard THEN msvr_nbladd(nbl[d], c)
                               ELSE IF d = c THEN msvr_nblaging(nbl[d], old)
                               ELSE nbl[d]]
  BY DEF Expire
<1>2. pos' = pos /\ pkt' = pkt /\ orig' = orig /\ moves' = moves  BY DEF Expire
<1>3. RelayTyped  BY DEF RelayInv
<1>4. /\ pos[c] \in Spots
      /\ \A d \in Cars : /\ msvr_nbladd(nbl[d], c) \in [Cars -> Spots \cup {None}]
                         /\ msvr_nblaging(nbl[d], old) \in [Cars -> Spots \cup {None}]
                         /\ nbl[d] \in [Cars -> Spots \cup {None}]
  BY <1>3 DEF RelayTyped, msvr_nbladd, msvr_nblaging
<1>5. RelayTyped'  BY <1>1, <1>2, <1>3, <1>4 DEF RelayTyped
<1>6. ASSUME ListsAreTrue PROVE ListsAreTrue'
  <2> SUFFICES ASSUME NEW d \in Cars, NEW e \in Cars PROVE nbl'[d][e] \in {None, pos[e]}
    BY <1>2 DEF ListsAreTrue
  <2>1. nbl[d][e] \in {None, pos[e]} /\ nbl[d] \in [Cars -> Spots \cup {None}]
    BY <1>4, <1>6 DEF ListsAreTrue
  <2>2. msvr_nbladd(nbl[d], c)[e] \in {None, pos[e]}  BY <2>1 DEF msvr_nbladd
  <2>3. msvr_nblaging(nbl[d], old)[e] \in {None, pos[e]}  BY <2>1 DEF msvr_nblaging
  <2> QED BY <1>1, <2>1, <2>2, <2>3
<1>7. Spent' <=> Spent  BY <1>2 DEF Spent, BackOnSourceRoad
<1>8. SpentForAReason' /\ PathIsLeft'
  BY <1>2, <1>7 DEF RelayInv, SpentForAReason, PathIsLeft
<1> QED BY <1>2, <1>5, <1>6, <1>8 DEF RelayInv

\* Every step keeps the invariant.
LEMMA RelayNextInv == RelayInv /\ [Next]_vars => RelayInv'
<1> SUFFICES ASSUME RelayInv, [Next]_vars PROVE RelayInv'
  OBVIOUS
<1>1. CASE Inject  BY <1>1, InjectInv
<1>2. CASE Arrive  BY <1>2, PacketArriveInv
<1>3. CASE \E c \in Cars : Expire(c)  BY <1>3, ExpireInv
<1>4. CASE \E c \in Cars : Move(c)
  <2>1. PICK c \in Cars : Move(c)  BY <1>4
  <2>2. PICK p \in Spots : pos' = [pos EXCEPT ![c] = p]  BY <2>1 DEF Move
  <2>3. /\ nbl' = nbl /\ pkt' = pkt /\ orig' = orig /\ moves' = moves + 1
        /\ moves < MaxMoves
    BY <2>1 DEF Move
  <2>4. RelayTyped' /\ moves' # 0
    BY <2>2, <2>3, CarsAssumption DEF RelayInv, RelayTyped
  <2>5. PathIsLeft'  BY <2>3 DEF RelayInv, PathIsLeft
  <2>6. SpentForAReason'  BY <2>3, <2>4 DEF RelayInv, SpentForAReason
  <2> QED BY <2>4, <2>5, <2>6 DEF RelayInv
<1>5. CASE UNCHANGED vars
  <2>1. pos' = pos /\ nbl' = nbl /\ pkt' = pkt /\ orig' = orig /\ moves' = moves
    BY <1>5 DEF vars
  <2>2. Spent' <=> Spent  BY <2>1 DEF Spent, BackOnSourceRoad
  <2>3. RelayTyped' /\ (moves = 0 => ListsAreTrue)'
    BY <2>1 DEF RelayInv, RelayTyped, ListsAreTrue
  <2>4. SpentForAReason' /\ PathIsLeft'
    BY <2>1, <2>2 DEF RelayInv, SpentForAReason, PathIsLeft
  <2> QED BY <2>3, <2>4 DEF RelayInv
<1> QED BY <1>1, <1>2, <1>3, <1>4, <1>5 DEF Next

\* RelayInv is an invariant of the relaying.
LEMMA RelayInductive == Spec => []RelayInv
BY RelayInitInv, RelayNextInv, PTL DEF Spec

\* On every map and for every set of vehicles that stand still, a packet loses
\* its last road only where its path does not end on the destination's road or
\* leads back to the source's: request_routing_cb takes off what is passed.
THEOREM PathStaysSound == Spec => []PathIsSound
<1>1. RelayInv => PathIsSound
  <2> SUFFICES ASSUME RelayInv PROVE PathIsSound
    OBVIOUS
  <2>1. TypeOK  BY DEF RelayInv, RelayTyped, Packets, TypeOK, OutOfPath
  <2>2. PathLasts  BY DEF RelayInv, SpentForAReason, Spent, PathLasts
  <2> QED BY <2>1, <2>2 DEF PathIsSound
<1> QED BY <1>1, RelayInductive, PTL
=============================================================================
