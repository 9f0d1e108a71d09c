------------------------------- MODULE MCCpcMod ------------------------------
(***************************************************************************)
(* Instances of CpcMod for TLC.                                            *)
(***************************************************************************)
EXTENDS CpcMod

CONSTANTS o1, o2, o3, a, b

\* Two packets for a and one for b.
MCDst == [p \in Packets |-> IF p = o3 THEN b ELSE a]
=============================================================================
