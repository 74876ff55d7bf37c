-------------------------- MODULE MCNATAutoscaler --------------------------
(* A small instance of a NAT gateway with an autoscaler. *)
EXTENDS NATAutoscaler, TLC

CONSTANTS g1, a1, a2

(* One gateway that users give one IP. *)
MCOneIP == g1 :> {{a1}}

(* All in one network. *)
MCOneNetwork == [o \in NIC \union Gateway |-> "network"]

NICSymmetry == Permutations(NIC)
=============================================================================
