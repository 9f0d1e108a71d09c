---------------------------- MODULE MCMapRoutes ----------------------------
(***************************************************************************)
(* Instances of MapRoutes for TLC.                                         *)
(***************************************************************************)
EXTENDS MapRoutes

Road(i, u, v) == [id |-> i, s |-> u, t |-> v]

\* A square 0-1-3-2 with its diagonal 0-3 and a road that leaves node 3 and
\* comes back to it.
Square == << Road(7, 0, 1), Road(3, 1, 3), Road(5, 0, 2), Road(4, 2, 3),
             Road(9, 0, 3), Road(8, 3, 3) >>

\* Two roads between the nodes 0 and 1.
Parallel == << Road(1, 0, 1), Road(2, 0, 1), Road(3, 1, 2) >>

\* Squared distances of the corners of a square, nodes in rows.
X == [n \in 0..3 |-> n % 2]
Y == [n \in 0..3 |-> n \div 2]
SquareDist == [u \in 0..3 |-> [v \in 0..3 |->
                 (X[u] - X[v]) * (X[u] - X[v]) + (Y[u] - Y[v]) * (Y[u] - Y[v])]]
=============================================================================
