---------------------------- MODULE MCKernelMod ----------------------------
(***************************************************************************)
(* Instances of KernelMod for TLC.                                         *)
(***************************************************************************)
EXTENDS KernelMod

CONSTANTS o1, o3, f1, b1, a, b, me

\* Locally generated packets o*, a packet f1 to be relayed, a subnet
\* broadcast b1.
Local(d) == [hook |-> LOCAL_OUT, gpsd |-> FALSE, dev |-> TRUE, cast |-> "uni",
             saddr |-> "self", encap |-> FALSE, daddr |-> d]
Relay(d) == [Local(d) EXCEPT !.hook = PRE_ROUTING, !.saddr = "other",
                             !.encap = TRUE]
Bcast(s) == [Local(b) EXCEPT !.hook = PRE_ROUTING, !.cast = "subnet",
                             !.saddr = s]

MCAddrs == {a, b, me}
MCInfo == [p \in Packets |-> CASE p = o1 -> Local(a)
                               [] p = o3 -> Local(b)
                               [] p = f1 -> Relay(a)
                               [] p = b1 -> Bcast("other")]
MCPids == {101, 102}
=============================================================================
