------------------------------ MODULE MCMsvrMap ------------------------------
(***************************************************************************)
(* An instance of MsvrMap: the five intersections in a line that the       *)
(* constructor builds, and two more, added by hand as its TODO foresees:   *)
(* one on a detour between the second and the third, one on a way about    *)
(* the fourth.                                                             *)
(***************************************************************************)
EXTENDS MsvrMap

Edge(u, v) == [s |-> u, t |-> v]

DetourAt == [n \in 0..6 |-> << <<0, 0>>, <<100, 0>>, <<1400, 0>>, <<1500, 1000>>, <<1550, 0>>,
                               <<700, 300>>, <<1600, 500>> >>[n + 1]]
DetourRoads == << Edge(0, 1), Edge(1, 2), Edge(2, 3), Edge(3, 4), Edge(1, 5), Edge(5, 2),
                  Edge(2, 4), Edge(4, 6), Edge(6, 3) >>
DetourTypes == <<100, 100, 100, 100, 20, 60, 60, 100, 100>>
DetourPlaces == { <<0, 0>>, <<60, 0>>, <<700, 10>>, <<1300, 0>>, <<1490, 900>>, <<1540, 600>>,
                  <<1550, 0>>, <<400, 150>>, <<1000, 150>>, <<700, 500>>, <<1590, 600>> }
=============================================================================
