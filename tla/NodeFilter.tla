----------------------------- MODULE NodeFilter -----------------------------
(***************************************************************************)
(* How the scheduler picks a node for an instance                          *)
(* (internal/controllers/scheduler_controller.go): the three filters, their *)
(* intersection, and the least used node.  A label selector is the set of  *)
(* instances it matches; a node affinity is the set of nodes it matches.   *)
(***************************************************************************)
EXTENDS Integers, FiniteSets, FiniteSetsExt

CONSTANTS
    Instance,       \* UIDs of instances
    Node,           \* names of nodes
    Namespace,      \* Namespace[i]: metadata.namespace
    Labels,         \* Labels[n]: the labels of node n, a function on keys
    NodeAffinity,   \* NodeAffinity[i]: nodes the required node affinity matches
    AntiAffinity,   \* AntiAffinity[i]: set of [selects, key]
    Spread          \* Spread[i]: set of [selects, empty, key, maxSkew]

(* Nodes m and n are in the same domain of topology key k. *)
SameDomain(k, m, n) ==
    /\ k \in DOMAIN Labels[m] /\ k \in DOMAIN Labels[n]
    /\ Labels[m][k] = Labels[n][k]

(* on[m] are the instances a snapshot has on node m. *)
Neighbours(i, m, on) == {e \in on[m] : Namespace[e] = Namespace[i]}

filterNodesByAffinity(i, nodes) == nodes \intersect NodeAffinity[i]

(* satisfyExistingInstanceAntiAffinity: no instance on a node of the same
   domain refuses i. *)
SatisfiesExisting(i, n, nodes, on) ==
    \A m \in nodes : \A e \in Neighbours(i, m, on) : \A t \in AntiAffinity[e] :
        ~(i \in t.selects /\ SameDomain(t.key, m, n))

(* satisfyInstanceAntiAffinity: i refuses no instance on a node of the same
   domain. *)
SatisfiesIncoming(i, n, nodes, on) ==
    \A t \in AntiAffinity[i] : \A m \in nodes : \A e \in Neighbours(i, m, on) :
        ~(e \in t.selects /\ SameDomain(t.key, m, n))

filterNodesByInstanceAntiAffinity(i, nodes, on) ==
    {n \in nodes : SatisfiesIncoming(i, n, nodes, on) /\ SatisfiesExisting(i, n, nodes, on)}

(* countInstancesMatchSelector: an empty selector counts nothing, and
   instances that are being deleted do not count. *)
CountMatching(i, c, m, on, deleting) ==
    IF c.empty THEN 0
    ELSE Cardinality({e \in Neighbours(i, m, on) : e \notin deleting /\ e \in c.selects})

(* Nodes with every topology key of the constraints of i. *)
SpreadNodes(i, nodes) == {n \in nodes : \A c \in Spread[i] : c.key \in DOMAIN Labels[n]}

(* tpCounts: constraints with the same key are counted together. *)
DomainCount(i, k, v, nodes, on, deleting) ==
    LET pairs == {x \in SpreadNodes(i, nodes) \X Spread[i] :
                    x[2].key = k /\ Labels[x[1]][k] = v}
    IN MapThenSumSet(LAMBDA x : CountMatching(i, x[2], x[1], on, deleting), pairs)

(* The count of the emptiest domain: the critical path. *)
MinCount(i, k, nodes, on, deleting) ==
    Min({DomainCount(i, k, Labels[n][k], nodes, on, deleting) : n \in SpreadNodes(i, nodes)})

WithinSkew(i, c, n, nodes, on, deleting) ==
    LET selfCount == IF i \in c.selects THEN 1 ELSE 0
    IN DomainCount(i, c.key, Labels[n][c.key], nodes, on, deleting) + selfCount
         - MinCount(i, c.key, nodes, on, deleting) <= c.maxSkew

filterNodesByTopology(i, nodes, on, deleting) ==
    {n \in SpreadNodes(i, nodes) :
        \A c \in Spread[i] : WithinSkew(i, c, n, nodes, on, deleting)}

(* Every filter looks at all nodes of the snapshot. *)
getNodesForInstance(i, nodes, on, deleting) ==
    filterNodesByAffinity(i, nodes)
         \intersect filterNodesByInstanceAntiAffinity(i, nodes, on)
         \intersect filterNodesByTopology(i, nodes, on, deleting)

(* The least used of the matching nodes; any of them when several are. *)
MinUsed(nodes, on) ==
    {n \in nodes : \A m \in nodes : Cardinality(on[n]) <= Cardinality(on[m])}

(* Instances i and e, on nodes n and m, are kept apart by an anti-affinity
   of one of them. *)
Refused(i, n, e, m) ==
    /\ Namespace[i] = Namespace[e]
    /\ \/ \E t \in AntiAffinity[i] : e \in t.selects /\ SameDomain(t.key, n, m)
       \/ \E t \in AntiAffinity[e] : i \in t.selects /\ SameDomain(t.key, n, m)
=============================================================================
