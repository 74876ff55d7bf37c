---------------------------- MODULE MCNATGateway ----------------------------
(* Small instances of the NAT gateways. *)
EXTENDS NATGateway, TLC

CONSTANTS g1, g2, a1, a2

(* One gateway that has one or two IPs. *)
MCTwoIPs == g1 :> {{a1}, {a1, a2}}

(* Two gateways with an IP each. *)
MCOneIP == g1 :> {{a1}} @@ g2 :> {{a2}}

(* All in one network. *)
MCOneNetwork == [o \in NIC \union Gateway |-> "network"]

NICSymmetry == Permutations(NIC)
=============================================================================
