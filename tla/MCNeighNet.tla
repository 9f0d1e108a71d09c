----------------------------- MODULE MCNeighNet -----------------------------
(***************************************************************************)
(* An instance of NeighNet for TLC.                                        *)
(***************************************************************************)
EXTENDS NeighNet, TLC

CONSTANTS o, a, b

Both(S) == S \cup {<<l[2], l[1]>> : l \in S}

\* a and b hear the origin and each other.
Triangle == Both({<<o, a>>, <<o, b>>, <<a, b>>})

\* The two corners of Triangle are alike.
Corners == Permutations({a, b})
=============================================================================
