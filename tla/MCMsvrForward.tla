--------------------------- MODULE MCMsvrForward ---------------------------
(***************************************************************************)
(* An instance of MsvrForward: four vehicles around the corner of a map.   *)
(***************************************************************************)
EXTENDS MsvrForward, TLC

CONSTANTS vs, va, vb, vd

Edge(u, v) == [s |-> u, t |-> v]

\* A street to the east, one to the north, one to the east again.
BendAt == [n \in 0..3 |-> << <<0, 0>>, <<300, 0>>, <<300, 300>>, <<600, 300>> >>[n + 1]]
BendRoads == << Edge(0, 1), Edge(1, 2), Edge(2, 3) >>

BendSpots == {<<100, 0>>, <<240, 0>>, <<300, 60>>, <<300, 150>>, <<400, 300>>}
BendStarts == {vs :> <<100, 0>> @@ va :> <<240, 0>> @@ vb :> <<300, 60>> @@ vd :> <<300, 150>>}
=============================================================================
