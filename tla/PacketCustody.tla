---------------------------- MODULE PacketCustody ----------------------------
(***************************************************************************)
(* What each of the two kernel modules, GeoSVR's own and that of CPC,      *)
(* promises the network stack about the packets that cross its netfilter   *)
(* hooks, whatever happens inside it.                                      *)
(*                                                                         *)
(* A packet belongs to the stack until a hook looks at it.  The hook lets  *)
(* it pass, rejects it, or takes it over (NF_STOLEN).  A packet that was   *)
(* taken over is handed on or discarded at most once and never comes back. *)
(* Nothing is promised about when, or whether, a packet taken over leaves. *)
(***************************************************************************)

CONSTANT Packets

VARIABLE owner

Owners == {"stack", "passed", "rejected", "module", "sent", "discarded"}

TypeOK == owner \in [Packets -> Owners]

Init == owner = [p \in Packets |-> "stack"]

\* The hook returns NF_ACCEPT: the packet continues through the stack.
Pass(p) == /\ owner[p] = "stack"
           /\ owner' = [owner EXCEPT ![p] = "passed"]

\* The hook returns NF_DROP: netfilter frees the packet.
Reject(p) == /\ owner[p] = "stack"
             /\ owner' = [owner EXCEPT ![p] = "rejected"]

\* The hook returns NF_STOLEN: the module owns the packet.
Take(p) == /\ owner[p] = "stack"
           /\ owner' = [owner EXCEPT ![p] = "module"]

\* The module hands the packet on to be transmitted.
Transmit(p) == /\ owner[p] = "module"
               /\ owner' = [owner EXCEPT ![p] = "sent"]

\* The module frees packets it owns: one of them, or many when it flushes.
Discard(S) == /\ \A p \in S : owner[p] = "module"
              /\ owner' = [p \in Packets |->
                             IF p \in S THEN "discarded" ELSE owner[p]]

Next == \/ \E p \in Packets : Pass(p) \/ Reject(p) \/ Take(p) \/ Transmit(p)
        \/ \E S \in SUBSET Packets : Discard(S)

Spec == Init /\ [][Next]_owner
=============================================================================
