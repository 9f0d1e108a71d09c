---------------------------- MODULE MCMapImport ----------------------------
(***************************************************************************)
(* Instances of MapImport for TLC.                                         *)
(***************************************************************************)
EXTENDS MapImport

Seg(id, sub, s, e) == [mainid |-> id, subid |-> sub, startid |-> s, endid |-> e]

\* Nodes inside roads are numbered after the junctions.
Apart == {Seg(7, 1, 0, 4), Seg(7, 2, 4, 5), Seg(7, 3, 5, 1),
          Seg(8, 1, 1, 2), Seg(9, 1, 2, 6), Seg(9, 2, 6, 3)}

\* Junctions and nodes inside roads are numbered together.
Mixed == {Seg(7, 1, 0, 1), Seg(7, 2, 1, 2), Seg(8, 1, 2, 3), Seg(8, 2, 3, 0)}

MCTables == {Apart, Mixed}
=============================================================================
