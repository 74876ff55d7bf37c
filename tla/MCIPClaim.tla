----------------------------- MODULE MCIPClaim -----------------------------
(* Objects that want the IP of a user, an ephemeral IP, or one after the
   other. *)
EXTENDS IPClaim, TLC

CONSTANTS a1, a2

MCWants == {<<a1>>, <<Ask, a1>>, <<a2>>}

(* Objects are alike, and any of them may be a load balancer. *)
OwnerSymmetry == Permutations(Owner)
=============================================================================
