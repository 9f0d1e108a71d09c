---------------------------- MODULE MCForwarding ----------------------------
(***************************************************************************)
(* An instance of Forwarding for TLC: four cars along four roads.  The ids *)
(* have one and two digits; 1 is a road as well as the beginning of 12,    *)
(* while 2, the beginning of 24, is not a road.                            *)
(***************************************************************************)
EXTENDS Forwarding, TLC

CONSTANTS va, vb, vc, vd

MCOnRoad == va :> {12} @@ vb :> {12, 1} @@ vc :> {1, 24} @@ vd :> {24, 5}

Pos == va :> 0 @@ vb :> 90 @@ vc :> 210 @@ vd :> 300
MCDist == [n \in Nodes |-> [m \in Nodes |-> Abs(Pos[n] - Pos[m])]]

MCOfrs == {<<>>, <<12>>, <<12, 1>>, <<12, 1, 24>>, <<1, 24>>, <<24, 1, 12>>, <<1>>, <<24>>,
           <<12, 1, 24, 5>>}

Seen(m, x) == [addr |-> m, direct |-> x]

\* Each car lists the next ones as direct and the others from relays.
MCLists == va :> <<Seen(vb, TRUE), Seen(vc, FALSE), Seen(vd, FALSE)>>
        @@ vb :> <<Seen(vc, TRUE), Seen(va, TRUE), Seen(vd, FALSE)>>
        @@ vc :> <<Seen(vb, TRUE), Seen(vd, TRUE), Seen(va, FALSE)>>
        @@ vd :> <<Seen(vc, TRUE), Seen(vb, FALSE), Seen(va, FALSE)>>
=============================================================================
