---------------------------- MODULE MCScheduler ----------------------------
(***************************************************************************)
(* Small instances of the scheduler: nodes in zones of their own and       *)
(* instances that refuse each other within a zone, or nobody.              *)
(***************************************************************************)
EXTENDS Scheduler, TLC

CONSTANTS i1, i2, n1, n2

MCNamespace == [i \in Instance |-> "ns"]

(* Every node is a zone of its own. *)
MCLabels == [n \in Node |-> "zone" :> n]

MCAnyNode == [i \in Instance |-> Node]
MCRefuse == [i \in Instance |-> {[selects |-> Instance, key |-> "zone"]}]
MCNoTerms == [i \in Instance |-> {}]

(* i1 is also to be spread over the zones. *)
MCSpread == i1 :> {[selects |-> Instance, empty |-> FALSE, key |-> "zone", maxSkew |-> 1]}
            @@ [i \in Instance |-> {}]

(* Nodes are alike. *)
NodeSymmetry == Permutations(Node)
=============================================================================
