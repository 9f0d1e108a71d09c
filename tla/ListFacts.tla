------------------------------ MODULE ListFacts ------------------------------
(***************************************************************************)
(* Facts that several proofs rest on.  What list_del and list_add of the   *)
(* kernel's lists do to the order of the entries, where a list is the      *)
(* sequence of its entries: the queues and the route table of the two      *)
(* kernel modules are such lists.  And induction for loops over a vector:  *)
(* what such a loop computes is a function defined from step to step.      *)
(***************************************************************************)
EXTENDS Integers, Sequences, SequencesExt, SequenceTheorems, WellFoundedInduction, TLAPS

\* Taking one entry out of a list leaves the others in their order
\* (list_del in both kernel modules).
LEMMA RemoveAtFacts ==
  ASSUME NEW S, NEW s \in Seq(S), NEW i \in 1..Len(s)
  PROVE  /\ RemoveAt(s, i) \in Seq(S)
         /\ Len(RemoveAt(s, i)) = Len(s) - 1
         /\ \A j \in 1..(Len(s) - 1) :
              RemoveAt(s, i)[j] = IF j < i THEN s[j] ELSE s[j + 1]
<1> DEFINE u == SubSeq(s, 1, i-1)
           v == SubSeq(s, i+1, Len(s))
<1>1. u \in Seq(S) /\ Len(u) = i - 1 /\ \A j \in 1..(i-1) : u[j] = s[j]
  OBVIOUS
<1>2. v \in Seq(S) /\ Len(v) = Len(s) - i /\ \A j \in 1..(Len(s)-i) : v[j] = s[i + j]
  OBVIOUS
<1> HIDE DEF u, v
<1>3. u \o v \in Seq(S) /\ Len(u \o v) = Len(s) - 1
  BY <1>1, <1>2
<1>4. ASSUME NEW j \in 1..(Len(s) - 1)
      PROVE  (u \o v)[j] = IF j < i THEN s[j] ELSE s[j + 1]
  <2>1. CASE j < i
    BY <1>1, <1>2, <2>1
  <2>2. CASE ~(j < i)
    <3>1. (u \o v)[j] = v[j - (i - 1)]
      BY <1>1, <1>2, <2>2
    <3>2. v[j - (i - 1)] = s[i + (j - (i - 1))]
      BY <1>2, <2>2
    <3> QED BY <3>1, <3>2, <2>2
  <2> QED BY <2>1, <2>2
<1>5. RemoveAt(s, i) = u \o v
  BY DEF RemoveAt, u, v
<1> QED
  BY <1>3, <1>4, <1>5

\* The list before and after an entry is taken out, seen from its entries.
LEMMA RemoveAtEntries ==
  ASSUME NEW S, NEW s \in Seq(S), NEW i \in 1..Len(s)
  PROVE  /\ \A j \in DOMAIN RemoveAt(s, i) :
              \E k \in DOMAIN s : k # i /\ RemoveAt(s, i)[j] = s[k]
         /\ \A k \in DOMAIN s :
              k # i => \E j \in DOMAIN RemoveAt(s, i) : RemoveAt(s, i)[j] = s[k]
<1> DEFINE r == RemoveAt(s, i)
<1>1. r \in Seq(S) /\ Len(r) = Len(s) - 1
      /\ \A j \in 1..(Len(s) - 1) : r[j] = IF j < i THEN s[j] ELSE s[j + 1]
  BY RemoveAtFacts
<1> HIDE DEF r
<1>2. ASSUME NEW j \in DOMAIN r PROVE \E k \in DOMAIN s : k # i /\ r[j] = s[k]
  <2>1. CASE j < i  BY <1>1, <2>1
  <2>2. CASE ~(j < i)
    <3>1. j + 1 \in DOMAIN s /\ j + 1 # i /\ r[j] = s[j + 1]  BY <1>1, <2>2
    <3> QED BY <3>1
  <2> QED BY <2>1, <2>2
<1>3. ASSUME NEW k \in DOMAIN s, k # i PROVE \E j \in DOMAIN r : r[j] = s[k]
  <2>1. CASE k < i  BY <1>1, <2>1
  <2>2. CASE ~(k < i)
    <3>1. k - 1 \in DOMAIN r /\ r[k - 1] = s[k]  BY <1>1, <1>3, <2>2
    <3> QED BY <3>1
  <2> QED BY <2>1, <2>2
<1> QED BY <1>2, <1>3 DEF r

\* A new entry before the k-th: the entries before it keep their places, the
\* others move up by one (__cpc_rt_add).
LEMMA InsertAtFacts ==
  ASSUME NEW S, NEW s \in Seq(S), NEW e \in S, NEW k \in 1..(Len(s) + 1)
  PROVE  /\ InsertAt(s, k, e) \in Seq(S)
         /\ Len(InsertAt(s, k, e)) = Len(s) + 1
         /\ \A j \in 1..(Len(s) + 1) :
              InsertAt(s, k, e)[j] = IF j < k THEN s[j] ELSE IF j = k THEN e ELSE s[j - 1]
<1> DEFINE u == SubSeq(s, 1, k-1)
           v == SubSeq(s, k, Len(s))
<1>1. u \in Seq(S) /\ Len(u) = k - 1 /\ \A j \in 1..(k-1) : u[j] = s[j]
  OBVIOUS
<1>2. v \in Seq(S) /\ Len(v) = Len(s) + 1 - k /\ \A j \in 1..(Len(s) + 1 - k) : v[j] = s[k + j - 1]
  OBVIOUS
<1> HIDE DEF u, v
<1> DEFINE w == u \o <<e>>
<1>3. w \in Seq(S) /\ Len(w) = k /\ w[k] = e /\ \A j \in 1..(k-1) : w[j] = s[j]
  BY <1>1
<1> HIDE DEF w
<1>4. w \o v \in Seq(S) /\ Len(w \o v) = Len(s) + 1
  <2>0. w \in Seq(S) /\ v \in Seq(S)
    BY <1>2, <1>3
  <2>1. w \o v \in Seq(S) /\ Len(w \o v) = Len(w) + Len(v)
    BY ONLY <2>0, ConcatProperties
  <2>2. Len(w) + Len(v) = Len(s) + 1
    <3>1. k \in Int /\ Len(s) \in Int  OBVIOUS
    <3> QED BY <1>2, <1>3, <3>1
  <2> QED BY <2>1, <2>2
<1>5. ASSUME NEW j \in 1..(Len(s) + 1)
      PROVE  (w \o v)[j] = IF j < k THEN s[j] ELSE IF j = k THEN e ELSE s[j - 1]
  <2>1. CASE j <= k
    BY <1>2, <1>3, <2>1
  <2>2. CASE ~(j <= k)
    <3>1. (w \o v)[j] = v[j - k]
      BY <1>2, <1>3, <2>2
    <3>2. v[j - k] = s[k + (j - k) - 1]
      BY <1>2, <2>2
    <3> QED BY <3>1, <3>2, <2>2
  <2> QED BY <2>1, <2>2
<1>6. InsertAt(s, k, e) = w \o v
  BY DEF InsertAt, u, v, w
<1> QED
  BY <1>4, <1>5, <1>6

------------------------------------------------------------------------------
\* A set of natural numbers has a least element.
LEMMA LeastExists ==
  ASSUME NEW T, T \subseteq Nat, T # {}
  PROVE  \E x \in T : \A y \in T : x <= y
<1>1. \A x, y \in T : y < x => <<y, x>> \in OpToRel(<, Nat)
  BY DEF OpToRel
<1>2. \E x \in T : \A y \in T : ~ (<<y, x>> \in OpToRel(<, Nat))
  BY NatLessThanWellFounded, WFMin
<1>3. \E x \in T : \A y \in T : ~ (y < x)
  BY ONLY <1>1, <1>2, Zenon
<1> QED BY <1>3

\* Induction up to N, with the property as the set of the numbers that have it.
LEMMA InductionUpTo ==
  ASSUME NEW N \in Nat, NEW P, 0 \in P, \A k \in 1..N : k - 1 \in P => k \in P
  PROVE  \A k \in 0..N : k \in P
<1> DEFINE T == {k \in 0..N : k \notin P}
<1> SUFFICES ASSUME T # {} PROVE FALSE
  OBVIOUS
<1>1. T \subseteq Nat  OBVIOUS
<1> HIDE DEF T
<1>2. PICK x \in T : \A y \in T : x <= y  BY <1>1, LeastExists
<1>3. x \in 0..N /\ x # 0 /\ x \notin P  BY DEF T
<1>4. x - 1 \in T  BY <1>3 DEF T
<1> QED BY <1>2, <1>3, <1>4

\* f[k] is what a loop has computed after k of its N rounds: it starts with x,
\* and round k makes next[<<v, k>>] of the value v.
IsLoop(f, N, S, x, next) ==
  /\ f \in [0..N -> S]
  /\ f[0] = x
  /\ \A k \in 1..N : f[k] = next[<<f[k-1], k>>]

\* Every such loop computes something.
LEMMA Recursion ==
  ASSUME NEW N \in Nat, NEW S, NEW x \in S, NEW next \in [S \X (1..N) -> S]
  PROVE  \E f : IsLoop(f, N, S, x, next)
<1> DEFINE Fcn(n, f) == f[0] = x /\ \A k \in 1..n : f[k] = next[<<f[k-1], k>>]
           P == {n \in 0..N : \E f \in [0..n -> S] : Fcn(n, f)}
<1>1. 0 \in P
  <2> DEFINE f == [k \in 0..0 |-> x]
  <2>1. f \in [0..0 -> S] /\ Fcn(0, f)  OBVIOUS
  <2> HIDE DEF f
  <2>2. \E g \in [0..0 -> S] : Fcn(0, g)  BY <2>1
  <2> QED BY <2>2
<1>2. ASSUME NEW n \in 1..N, n - 1 \in P PROVE n \in P
  <2>1. PICK f \in [0..(n-1) -> S] : Fcn(n - 1, f)  BY <1>2
  <2> DEFINE g == [k \in 0..n |-> IF k < n THEN f[k] ELSE next[<<f[n-1], n>>]]
  <2>2. next[<<f[n-1], n>>] \in S
    <3>1. f[n-1] \in S  OBVIOUS
    <3> QED BY <3>1
  <2>3. g \in [0..n -> S]  BY <2>2
  <2>4. g[0] = x /\ \A k \in 0..(n-1) : g[k] = f[k]  BY <2>1
  <2>5. g[n] = next[<<f[n-1], n>>]  OBVIOUS
  <2> HIDE DEF g
  <2>6. Fcn(n, g)
    <3> SUFFICES ASSUME NEW k \in 1..n PROVE g[k] = next[<<g[k-1], k>>]
      BY <2>4
    <3>1. k - 1 \in 0..(n-1) /\ g[k-1] = f[k-1]  BY <2>4
    <3>2. CASE k = n  BY <3>1, <3>2, <2>5
    <3>3. CASE k # n
      <4>1. k \in 1..(n-1) /\ k \in 0..(n-1)  BY <3>3
      <4> QED BY <4>1, <3>1, <2>1, <2>4
    <3> QED BY <3>2, <3>3
  <2> QED BY <2>3, <2>6
<1> HIDE DEF P
<1>3. N \in P  BY <1>1, <1>2, InductionUpTo
<1> QED BY <1>3 DEF P, IsLoop
=============================================================================
