------------------------------- MODULE MCCpcRt -------------------------------
(***************************************************************************)
(* Instances of CpcRt for TLC.                                             *)
(***************************************************************************)
EXTENDS CpcRt, TLC

\* Destinations are only compared with each other.
AddrSymmetry == Permutations(Daddrs)
=============================================================================
