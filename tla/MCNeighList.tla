---------------------------- MODULE MCNeighList ----------------------------
(***************************************************************************)
(* Instances of NeighList for TLC.                                         *)
(***************************************************************************)
EXTENDS NeighList, TLC

\* Chunks are interchangeable.
Chunks == Permutations(Objs) \cup Permutations(Tids)
=============================================================================
