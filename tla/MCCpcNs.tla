------------------------------- MODULE MCCpcNs -------------------------------
(***************************************************************************)
(* A small instance of CpcNs: three nodes, two packets from node 0 to      *)
(* node 2 and one from node 2 to node 1.                                   *)
(***************************************************************************)
EXTENDS CpcNs, TLC

CONSTANT Back   \* the packet that travels the other way

\* The pool hands out any free buffer, so the buffers are interchangeable.
BufSymmetry == Permutations(Bufs)

MCSrc == [i \in Ids |-> IF i = Back THEN 2 ELSE 0]
MCDst == [i \in Ids |-> IF i = Back THEN 1 ELSE 2]
=============================================================================
