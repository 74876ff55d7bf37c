----------------------------- MODULE DaemonSet -----------------------------
(***************************************************************************)
(* A load balancer, the daemon set the load balancer controller keeps for  *)
(* it (internal/controllers/loadbalancer_controller.go), and the           *)
(* controller that keeps an instance of the daemon set on every node that  *)
(* should run one (internal/controllers/daemonset_controller.go).          *)
(*                                                                         *)
(* The controller sees daemon sets, nodes and instances through informer   *)
(* caches that lag behind.  So as not to act twice on the same view it     *)
(* writes down the creations and deletions it is about to issue            *)
(* (utils/expectations) and does nothing until each was seen by the        *)
(* handler of utils/handler/expectations.go.  That handler and the one     *)
(* that fills the work queue are two listeners of the instance informer,   *)
(* each with a goroutine of its own.                                       *)
(***************************************************************************)
EXTENDS Naturals, SequencesExt

CONSTANTS
    Node,         \* nodes
    Label,        \* labels a node may carry
    Inst,         \* names of instances
    Specs,        \* specifications the load balancer may have
    Nil,          \* no object
    InitialSpec,  \* specification of the load balancer at the start
    InitialNodes, \* InitialNodes[n]: label of the node at the start
    MaxChurn,     \* bound: changes by users
    MaxFaults,    \* bound: failed or lost requests, early timeouts, restarts
    MaxLag        \* bound: instance events on their way to the informer

(* A specification names the labels of the nodes that should run an instance
   and the IPs of the load balancer. *)
ASSUME SpecsAssumption == Specs # {} /\ \A s \in Specs : s.on \subseteq Label
ASSUME InitialAssumption ==
    InitialSpec \in Specs /\ InitialNodes \in [Node -> Label \union {Nil}]
ASSUME NilAssumption == Nil \notin Specs /\ Nil \notin Label
ASSUME FiniteAssumption == IsFiniteSet(Node) /\ IsFiniteSet(Inst)
ASSUME DaemonSetBounds == MaxChurn \in Nat /\ MaxFaults \in Nat /\ MaxLag \in Nat \ {0}

VARIABLES
    lb,         \* the load balancer
    routing,    \* whether its LoadBalancerRouting exists
    ds,         \* its daemon set
    dsCache,    \* the daemon set as the informer has it
    nodes,      \* nodes[n]: label of the node
    nodeCache,  \* nodeCache[n]: label of the node as the informer has it
    insts,      \* insts[i]: the instance
    watch,      \* instance events on their way to the informer
    store,      \* store[i]: the instance as the informer has it
    toObserve,  \* events not yet seen by ObserveExpectationsForController
    queue,      \* whether the daemon set is in the work queue
    rec,        \* the reconcile under way
    exp,        \* the expectations
    churn,      \* changes by users so far
    faults,     \* faults so far
    excused,    \* instances that were not made by a create with an answer
    shaken      \* nodes somebody else removed an instance from

objects == <<lb, routing, ds, nodes>>
caches == <<dsCache, nodeCache>>
vars == <<lb, routing, ds, dsCache, nodes, nodeCache, insts, watch, store, toObserve,
          queue, rec, exp, churn, faults, excused, shaken>>

(* node: GetTargetNodeName, from the node reference or the node affinity;
   bound: it has the reference; owned: the daemon set is its controller;
   match: its labels match the selector. *)
Object == [status : {"live", "deleting"}, node : Node, bound : BOOLEAN, owned : BOOLEAN,
           match : BOOLEAN, ips : {s.ips : s \in Specs}]

ASSUME NilObjectAssumption == Nil \notin Object

Idle == [pc |-> "idle"]
NoExpectations == [create |-> {}, delete |-> {}, expired |-> FALSE]

DSTypeOK ==
    /\ lb \in Specs \union {Nil} /\ ds \in Specs \union {Nil} /\ dsCache \in Specs \union {Nil}
    /\ routing \in BOOLEAN
    /\ nodes \in [Node -> Label \union {Nil}] /\ nodeCache \in [Node -> Label \union {Nil}]
    /\ insts \in [Inst -> Object \union {Nil}] /\ store \in [Inst -> Object \union {Nil}]
    /\ watch \in Seq([inst : Inst, obj : Object, gone : BOOLEAN])
    /\ toObserve \subseteq [inst : Inst, kind : {"create", "delete"}]
    /\ queue \in BOOLEAN
    /\ rec.pc \in {"idle", "manage", "sync"}
    /\ rec.pc # "idle" => rec.spec \in Specs /\ rec.nodes \in [Node -> Label \union {Nil}]
    /\ rec.pc = "sync" => DOMAIN rec.create \union rec.delete \subseteq Inst
    /\ exp \in [create : SUBSET Inst, delete : SUBSET Inst, expired : BOOLEAN]
    /\ churn \in 0 .. MaxChurn /\ faults \in 0 .. MaxFaults
    /\ excused \subseteq Inst /\ shaken \subseteq Node

(* The load balancer and its daemon set exist, the controller has just been
   started and there are no instances yet. *)
Init ==
    /\ lb = InitialSpec /\ ds = lb /\ dsCache = lb /\ routing = TRUE
    /\ nodes = InitialNodes /\ nodeCache = nodes
    /\ insts = [i \in Inst |-> Nil] /\ store = insts
    /\ watch = <<>> /\ toObserve = {}
    /\ queue = TRUE
    /\ rec = Idle
    /\ exp = NoExpectations
    /\ churn = 0 /\ faults = 0
    /\ excused = {} /\ shaken = {}
-----------------------------------------------------------------------------
(***************************************************************************)
(* The API server, users, and other controllers                            *)
(***************************************************************************)

Exists(i) == insts[i] # Nil
Live(i) == Exists(i) /\ insts[i].status = "live"

(* A name that was never used.  A name nothing remembers any more serves as
   one. *)
Fresh(i) ==
    /\ insts[i] = Nil /\ store[i] = Nil
    /\ \A k \in 1 .. Len(watch) : watch[k].inst # i
    /\ \A e \in toObserve : e.inst # i
    /\ i \notin exp.create \union exp.delete
    /\ rec.pc = "sync" => i \notin rec.delete

(* k such names, if there are as many; it does not matter which. *)
FreshNames(k) ==
    LET all == {S \in SUBSET {i \in Inst : Fresh(i)} : Cardinality(S) = k}
    IN IF all = {} THEN {} ELSE {CHOOSE S \in all : TRUE}

(* The instances change as in the function new: the watchers are told. *)
Write(new) ==
    /\ insts' = new
    /\ LET changed == {i \in Inst : new[i] # insts[i]}
           events == {[inst |-> i, gone |-> new[i] = Nil,
                       obj |-> IF new[i] = Nil THEN insts[i] ELSE new[i]] : i \in changed}
       IN /\ changed # {} => Len(watch) < MaxLag
          /\ \E order \in SetToSeqs(events) : watch' = watch \o order

Put(i, o) == Write([insts EXCEPT ![i] = o])

(* Deletion: an instance on a node has the finalizer of its metalnetlet, if
   that came in time. *)
Delete(i) ==
    \/ ~Exists(i) /\ UNCHANGED <<insts, watch>>
    \/ Exists(i) /\ insts[i].status = "deleting" /\ UNCHANGED <<insts, watch>>
    \/ Live(i) /\ Put(i, Nil)
    \/ Live(i) /\ insts[i].bound /\ Put(i, [insts[i] EXCEPT !.status = "deleting"])

Churn == churn < MaxChurn /\ churn' = churn + 1

UpdateLoadBalancer ==
    /\ Churn
    /\ lb # Nil
    /\ lb' \in Specs \ {lb}
    /\ UNCHANGED <<routing, ds, nodes, caches, insts, watch, store, toObserve, queue, rec, exp,
                   faults, excused, shaken>>

DeleteLoadBalancer ==
    /\ Churn
    /\ lb # Nil
    /\ lb' = Nil
    /\ UNCHANGED <<routing, ds, nodes, caches, insts, watch, store, toObserve, queue, rec, exp,
                   faults, excused, shaken>>

(* A node appears, disappears or gets other labels. *)
ChangeNode(n) ==
    /\ Churn
    /\ \E l \in (Label \union {Nil}) \ {nodes[n]} : nodes' = [nodes EXCEPT ![n] = l]
    /\ UNCHANGED <<lb, routing, ds, caches, insts, watch, store, toObserve, queue, rec, exp,
                   faults, excused, shaken>>

DeleteInstance(i) ==
    /\ Churn
    /\ Live(i)
    /\ Delete(i)
    /\ shaken' = shaken \union {insts[i].node}
    /\ UNCHANGED <<objects, caches, store, toObserve, queue, rec, exp, faults, excused>>

(* The labels of an instance change. *)
RelabelInstance(i) ==
    /\ Churn
    /\ Exists(i)
    /\ Put(i, [insts[i] EXCEPT !.match = ~@])
    /\ excused' = excused \union {i}
    /\ shaken' = shaken \union {insts[i].node}
    /\ UNCHANGED <<objects, caches, store, toObserve, queue, rec, exp, faults>>

(* A user creates an instance like those of the daemon set on a node. *)
CreateInstance(i) ==
    /\ Churn
    /\ ds # Nil
    /\ {i} \in FreshNames(1)
    /\ \E n \in Node :
          Put(i, [status |-> "live", node |-> n, bound |-> TRUE, owned |-> FALSE,
                  match |-> TRUE, ips |-> ds.ips])
    /\ excused' = excused \union {i}
    /\ UNCHANGED <<objects, caches, store, toObserve, queue, rec, exp, faults, shaken>>

(* The scheduler binds an instance to the node of its affinity. *)
BindInstance(i) ==
    /\ Live(i) /\ ~insts[i].bound
    /\ nodes[insts[i].node] # Nil
    /\ Put(i, [insts[i] EXCEPT !.bound = TRUE])
    /\ UNCHANGED <<objects, caches, store, toObserve, queue, rec, exp, churn, faults, excused,
                   shaken>>

(* The metalnetlet has cleaned up and removes its finalizer. *)
FinalizeInstance(i) ==
    /\ Exists(i) /\ insts[i].status = "deleting"
    /\ Put(i, Nil)
    /\ UNCHANGED <<objects, caches, store, toObserve, queue, rec, exp, churn, faults, excused,
                   shaken>>

(* What a controller owns is collected once the controller is gone. *)
CollectDaemonSet ==
    /\ lb = Nil /\ ds # Nil
    /\ ds' = Nil
    /\ UNCHANGED <<lb, routing, nodes, caches, insts, watch, store, toObserve, queue, rec, exp,
                   churn, faults, excused, shaken>>

CollectInstance(i) ==
    /\ ds = Nil
    /\ Live(i) /\ insts[i].owned
    /\ Delete(i)
    /\ shaken' = shaken \union {insts[i].node}
    /\ UNCHANGED <<objects, caches, store, toObserve, queue, rec, exp, churn, faults, excused>>
-----------------------------------------------------------------------------
(***************************************************************************)
(* The load balancer controller                                            *)
(***************************************************************************)

(* applyDaemonSetForLoadBalancer: server-side apply of the specification. *)
ApplyDaemonSet ==
    /\ lb # Nil
    /\ ds # lb
    /\ ds' = lb
    /\ UNCHANGED <<lb, routing, nodes, caches, insts, watch, store, toObserve, queue, rec, exp,
                   churn, faults, excused, shaken>>

(* The load balancer is not found: its routing is deleted. *)
DeleteRouting ==
    /\ lb = Nil /\ routing
    /\ routing' = FALSE
    /\ UNCHANGED <<lb, ds, nodes, caches, insts, watch, store, toObserve, queue, rec, exp,
                   churn, faults, excused, shaken>>
-----------------------------------------------------------------------------
(***************************************************************************)
(* Expectations, informers and event handlers                              *)
(***************************************************************************)

ExpectCreationsAndDeletions(create, delete) ==
    [create |-> create, delete |-> delete, expired |-> FALSE]

CreationObserved(x, i) == [x EXCEPT !.create = @ \ {i}]
DeletionObserved(x, i) == [x EXCEPT !.delete = @ \ {i}]

(* Mutant of Satisfied: deletions are not waited for. *)
SatisfiedByCreations(x) == x.expired \/ x.create = {}

(* Mutant of Satisfied: there is no timeout. *)
SatisfiedNever(x) == x.create = {} /\ x.delete = {}

Satisfied(x) == x.expired \/ (x.create = {} /\ x.delete = {})

(* Nothing is on its way to the expectations. *)
Quiet == watch = <<>> /\ toObserve = {} /\ rec = Idle

(* The expectations time out, in the middle of things or when there is
   nothing left to wait for. *)
Expire ==
    /\ ~Satisfied(exp) /\ ~exp.expired
    /\ exp' = [exp EXCEPT !.expired = TRUE]
    /\ \/ Quiet /\ UNCHANGED <<faults, shaken, excused>>
       \/ /\ ~Quiet /\ faults < MaxFaults
          /\ faults' = faults + 1
          /\ shaken' = Node
          /\ excused' = Inst
    /\ UNCHANGED <<objects, caches, insts, watch, store, toObserve, queue, rec, churn>>

(* The controller the event handler looks the expectations up for. *)
Observed(old, e) ==
    CASE ~e.obj.owned -> {}
      [] e.gone \/ (old = Nil /\ e.obj.status = "deleting") ->
           {[inst |-> e.inst, kind |-> "delete"]}
      [] ~e.gone /\ old = Nil /\ e.obj.status = "live" ->
           {[inst |-> e.inst, kind |-> "create"]}
      [] OTHER -> {}

(* An instance event reaches the informer and its two listeners: Owns puts
   the daemon set into the work queue, to be taken from there before or after
   the other one has looked at the event. *)
DeliverInstance ==
    /\ watch # <<>>
    /\ LET e == Head(watch)
           old == store[e.inst]
       IN /\ watch' = Tail(watch)
          /\ store' = [store EXCEPT ![e.inst] = IF e.gone THEN Nil ELSE e.obj]
          /\ toObserve' = toObserve \union Observed(old, e)
          /\ queue' = (queue \/ e.obj.owned \/ (old # Nil /\ old.owned))
    /\ UNCHANGED <<objects, caches, insts, rec, exp, churn, faults, excused, shaken>>

(* The watch breaks and the informer lists the instances again: of what came
   and went in between it learns nothing. *)
Relist ==
    /\ faults < MaxFaults
    /\ faults' = faults + 1
    /\ watch # <<>>
    /\ LET changed == {i \in Inst : store[i] # insts[i]}
           event(i) == [inst |-> i, gone |-> insts[i] = Nil,
                        obj |-> IF insts[i] = Nil THEN store[i] ELSE insts[i]]
       IN /\ watch' = <<>>
          /\ store' = insts
          /\ toObserve' = toObserve \union UNION {Observed(store[i], event(i)) : i \in changed}
          /\ queue' = (queue \/ \E i \in changed : event(i).obj.owned)
    /\ UNCHANGED <<objects, caches, insts, rec, exp, churn, excused, shaken>>

(* ObserveExpectationsForController *)
Observe(e) ==
    /\ e \in toObserve
    /\ toObserve' = toObserve \ {e}
    /\ exp' = IF e.kind = "create" THEN CreationObserved(exp, e.inst)
              ELSE DeletionObserved(exp, e.inst)
    /\ UNCHANGED <<objects, caches, insts, watch, store, queue, rec, churn, faults,
                   excused, shaken>>

(* For(&DaemonSet{}) *)
DeliverDaemonSet ==
    /\ dsCache # ds
    /\ dsCache' = ds
    /\ queue' = TRUE
    /\ UNCHANGED <<objects, nodeCache, insts, watch, store, toObserve, rec, exp, churn, faults,
                   excused, shaken>>

(* enqueueByNode: nodes that come or go are of interest, changes are not. *)
DeliverNode(n) ==
    /\ nodeCache[n] # nodes[n]
    /\ nodeCache' = [nodeCache EXCEPT ![n] = nodes[n]]
    /\ queue' = (queue \/ nodeCache[n] = Nil \/ nodes[n] = Nil)
    /\ UNCHANGED <<objects, dsCache, insts, watch, store, toObserve, rec, exp, churn, faults,
                   excused, shaken>>

(* The informers repeat what they have every ten hours. *)
Resync ==
    /\ ~queue
    /\ dsCache # Nil
    /\ queue' = TRUE
    /\ UNCHANGED <<objects, caches, insts, watch, store, toObserve, rec, exp, churn, faults,
                   excused, shaken>>
-----------------------------------------------------------------------------
(***************************************************************************)
(* The daemon set controller                                               *)
(***************************************************************************)

(* Mutant of Start: a daemon set that is not found is reconciled. *)
StartNotFound ==
    /\ queue
    /\ rec = Idle
    /\ queue' = FALSE
    /\ rec' = IF Satisfied(exp) THEN [pc |-> "manage", spec |-> dsCache, nodes |-> nodeCache]
              ELSE Idle
    /\ UNCHANGED <<objects, caches, insts, watch, store, toObserve, exp, churn, faults, excused,
                   shaken>>

(* Reconcile: the daemon set and the nodes are read; without a daemon set, or
   with expectations to wait for, there is nothing to do. *)
Start ==
    /\ queue
    /\ rec = Idle
    /\ queue' = FALSE
    /\ rec' = IF dsCache # Nil /\ Satisfied(exp)
              THEN [pc |-> "manage", spec |-> dsCache, nodes |-> nodeCache]
              ELSE Idle
    /\ UNCHANGED <<objects, caches, insts, watch, store, toObserve, exp, churn, faults, excused,
                   shaken>>

(* ClaimObject, from the instance in the cache. *)
Ours(o) == o # Nil /\ o.owned /\ o.match
Releases(o) == o # Nil /\ o.owned /\ ~o.match
Adopts(o) == o # Nil /\ ~o.owned /\ o.match /\ o.status = "live"

(* getDaemonInstances: the instances of the daemon set; one that is gone by
   the time it is adopted is none. *)
getDaemonInstances ==
    {i \in Inst : Ours(store[i]) \/ (Adopts(store[i]) /\ Exists(i))}

(* instanceNeedsUpdate *)
NeedsUpdate(spec) == {i \in getDaemonInstances : store[i].ips # spec.ips}

(* What the patches of adopt, release and updateInstance make of instance i. *)
Patched(i, spec) ==
    IF insts[i] = Nil THEN Nil
    ELSE [insts[i] EXCEPT
            !.owned = CASE Adopts(store[i]) -> TRUE
                        [] Releases(store[i]) -> FALSE
                        [] OTHER -> @,
            !.ips = IF i \in NeedsUpdate(spec) THEN spec.ips ELSE @]

On(n) == {i \in getDaemonInstances : store[i].node = n}
LiveOn(n) == {i \in On(n) : store[i].status = "live"}

(* nodeShouldRunDaemonInstance *)
ShouldRun(spec, l) == l # Nil /\ l \in spec.on

(* All instances but the oldest.  Instances of the same second may come in
   any order, so any of them may be the one. *)
Surplus(S) == {S \ {i} : i \in S}

(* instancesShouldBeOnNode: the nodes an instance is to be created for. *)
Needing(spec, known) == {n \in Node : ShouldRun(spec, known[n]) /\ LiveOn(n) = {}}

(* instancesShouldBeOnNode and getUnscheduledInstancesWithoutNode: the
   instances to delete, one set for each order the sort may come up with. *)
Unwanted(spec, known) ==
    LET choice == [n \in {m \in Node : ShouldRun(spec, known[m]) /\ LiveOn(m) # {}}
                     |-> Surplus(LiveOn(n))]
        refused == UNION {On(n) : n \in {m \in Node : known[m] # Nil /\ ~ShouldRun(spec, known[m])}}
        stray == {i \in getDaemonInstances : known[store[i].node] = Nil /\ ~store[i].bound}
        picks == {f \in [DOMAIN choice -> SUBSET Inst] : \A n \in DOMAIN choice : f[n] \in choice[n]}
    IN {refused \union stray \union UNION {f[n] : n \in DOMAIN f} : f \in picks}

(* manage up to the expectations of syncNodes: the instances are listed,
   claimed and patched, and what is to be created and deleted is written
   down.  An instance that is gone cannot be updated (error). *)
Manage ==
    /\ rec.pc = "manage"
    /\ Write([i \in Inst |-> Patched(i, rec.spec)])
    /\ \/ /\ \E i \in NeedsUpdate(rec.spec) : ~Exists(i)
          /\ rec' = Idle
          /\ queue' = TRUE
          /\ UNCHANGED exp
       \/ /\ \A i \in NeedsUpdate(rec.spec) : Exists(i)
          /\ LET needing == Needing(rec.spec, rec.nodes)
             IN \E names \in FreshNames(Cardinality(needing)), delete \in Unwanted(rec.spec, rec.nodes) :
                /\ exp' = ExpectCreationsAndDeletions(names, delete)
                /\ rec' = [pc |-> "sync", spec |-> rec.spec, nodes |-> rec.nodes,
                           create |-> CHOOSE f \in [names -> needing] : Range(f) = needing,
                           delete |-> delete, err |-> FALSE]
          /\ UNCHANGED queue
    /\ UNCHANGED <<objects, caches, store, toObserve, churn, faults, excused, shaken>>

(* A list or a patch fails. *)
ManageFails ==
    /\ rec.pc = "manage"
    /\ faults < MaxFaults
    /\ faults' = faults + 1
    /\ rec' = Idle
    /\ queue' = TRUE
    /\ UNCHANGED <<objects, caches, insts, watch, store, toObserve, exp, churn, excused, shaken>>

(* createInstance on node n *)
NewInstance(n) ==
    [status |-> "live", node |-> n, bound |-> FALSE, owned |-> TRUE, match |-> TRUE,
     ips |-> rec.spec.ips]

Created(i, err) ==
    rec' = [rec EXCEPT !.create = [j \in DOMAIN @ \ {i} |-> @[j]], !.err = @ \/ err]

(* Mutant of CreateOK: the creation need not be observed. *)
CreateOKObserved(i) ==
    /\ rec.pc = "sync" /\ i \in DOMAIN rec.create
    /\ Put(i, NewInstance(rec.create[i]))
    /\ Created(i, FALSE)
    /\ exp' = CreationObserved(exp, i)
    /\ UNCHANGED <<objects, caches, store, toObserve, queue, churn, faults, excused, shaken>>

CreateOK(i) ==
    /\ rec.pc = "sync" /\ i \in DOMAIN rec.create
    /\ Put(i, NewInstance(rec.create[i]))
    /\ Created(i, FALSE)
    /\ UNCHANGED <<objects, caches, store, toObserve, queue, exp, churn, faults, excused, shaken>>

(* The creation fails, or only its answer is lost: it is not expected. *)
CreateFails(i) ==
    /\ rec.pc = "sync" /\ i \in DOMAIN rec.create
    /\ faults < MaxFaults
    /\ faults' = faults + 1
    /\ \/ UNCHANGED <<insts, watch, excused>>
       \/ /\ Put(i, NewInstance(rec.create[i]))
          /\ excused' = excused \union {i}
    /\ Created(i, TRUE)
    /\ exp' = CreationObserved(exp, i)
    /\ UNCHANGED <<objects, caches, store, toObserve, queue, churn, shaken>>

(* The deletions come after the creations, in any order. *)
Deletes(i) == rec.pc = "sync" /\ DOMAIN rec.create = {} /\ i \in rec.delete

DeleteOK(i) ==
    /\ Deletes(i)
    /\ Delete(i)
    /\ rec' = [rec EXCEPT !.delete = @ \ {i}]
    /\ exp' = IF Exists(i) THEN exp ELSE DeletionObserved(exp, i)
    /\ UNCHANGED <<objects, caches, store, toObserve, queue, churn, faults, excused, shaken>>

(* The deletion fails, or only its answer is lost: it is not expected. *)
DeleteFails(i) ==
    /\ Deletes(i)
    /\ faults < MaxFaults
    /\ faults' = faults + 1
    /\ UNCHANGED <<insts, watch>> \/ Delete(i)
    /\ shaken' = shaken \union {n \in Node : Exists(i) /\ insts[i].node = n}
    /\ rec' = [rec EXCEPT !.delete = @ \ {i}, !.err = TRUE]
    /\ exp' = DeletionObserved(exp, i)
    /\ UNCHANGED <<objects, caches, store, toObserve, queue, churn, excused>>

(* An error puts the daemon set back into the queue. *)
Finish ==
    /\ rec.pc = "sync" /\ DOMAIN rec.create = {} /\ rec.delete = {}
    /\ rec' = Idle
    /\ queue' = (queue \/ rec.err)
    /\ UNCHANGED <<objects, caches, insts, watch, store, toObserve, exp, churn, faults, excused,
                   shaken>>

(* The controller manager stops and starts again: its memory is gone, and its
   informers list what there is. *)
Restart ==
    /\ faults < MaxFaults
    /\ faults' = faults + 1
    /\ dsCache' = ds /\ nodeCache' = nodes /\ store' = insts
    /\ watch' = <<>> /\ toObserve' = {}
    /\ queue' = TRUE
    /\ rec' = Idle
    /\ exp' = NoExpectations
    /\ UNCHANGED <<objects, insts, churn, excused, shaken>>
-----------------------------------------------------------------------------
User ==
    \/ UpdateLoadBalancer \/ DeleteLoadBalancer
    \/ \E n \in Node : ChangeNode(n)
    \/ \E i \in Inst : DeleteInstance(i) \/ RelabelInstance(i) \/ CreateInstance(i)

Others ==
    \/ \E i \in Inst : BindInstance(i) \/ FinalizeInstance(i) \/ CollectInstance(i)
    \/ CollectDaemonSet

LoadBalancerController == ApplyDaemonSet \/ DeleteRouting

Informers ==
    \/ DeliverInstance \/ DeliverDaemonSet \/ Resync
    \/ \E e \in toObserve : Observe(e)
    \/ \E n \in Node : DeliverNode(n)

Work ==
    \/ Start \/ Manage \/ Finish
    \/ \E i \in Inst : CreateOK(i) \/ DeleteOK(i)

Faults ==
    \/ ManageFails \/ Relist \/ Restart
    \/ \E i \in Inst : CreateFails(i) \/ DeleteFails(i)

Next == User \/ Others \/ LoadBalancerController \/ Informers \/ Expire \/ Work \/ Faults

(* Informers and controllers keep working, finalizers are removed, owned
   objects are collected, and time passes. *)
Fairness ==
    /\ WF_vars(LoadBalancerController)
    /\ WF_vars(CollectDaemonSet) /\ WF_vars(\E i \in Inst : CollectInstance(i))
    /\ WF_vars(\E i \in Inst : FinalizeInstance(i))
    /\ WF_vars(DeliverInstance) /\ WF_vars(DeliverDaemonSet)
    /\ WF_vars(\E e \in toObserve : Observe(e))
    /\ WF_vars(\E n \in Node : DeliverNode(n))
    /\ WF_vars(Resync) /\ WF_vars(Expire)
    /\ WF_vars(Work)

Spec == Init /\ [][Next]_vars /\ Fairness
-----------------------------------------------------------------------------
(***************************************************************************)
(* Properties                                                              *)
(***************************************************************************)

(* When the expectations are met the cache has caught up with what the
   controller did: an instance it created and still wants is there.  Without
   this the next reconcile would count it as missing. *)
SatisfiedMeansSeen ==
    Satisfied(exp) /\ rec.pc # "sync" =>
        \A i \in Inst \ excused : Live(i) /\ insts[i].owned => store[i] # Nil

(* However late events come, the controller never puts a second instance on
   a node that has one, unless the answer to the first creation was lost, the
   expectations timed out too early, or a user had a hand in it. *)
OnePerNode ==
    \A i, j \in Inst \ excused :
       Live(i) /\ Live(j) /\ insts[i].owned /\ insts[j].owned /\ insts[i].node = insts[j].node
          => i = j

(* Of several instances on a node that should run one, the deletions of the
   controller leave one behind, unless somebody else removed that one. *)
DedupeKeepsOne ==
    [][\A i \in Inst :
          /\ rec.pc = "sync" /\ rec'.pc = "sync" /\ i \in rec.delete \ rec'.delete
          /\ Live(i) /\ insts'[i] # insts[i]
          /\ insts[i].node \notin shaken'
          /\ ShouldRun(rec.spec, rec.nodes[insts[i].node])
          => \E j \in Inst : Live(j)' /\ insts'[j].node = insts[i].node]_vars

Served(n) == {i \in Inst : Live(i) /\ insts[i].owned /\ insts[i].match /\ insts[i].node = n}

(* Every node that should run an instance has exactly one, with the IPs of
   the load balancer, and every other node has none. *)
Settled ==
    IF lb = Nil THEN ~routing /\ \A i \in Inst : ~(Exists(i) /\ insts[i].owned)
    ELSE \A n \in Node : nodes[n] # Nil =>
            /\ Cardinality(Served(n)) = IF ShouldRun(lb, nodes[n]) THEN 1 ELSE 0
            /\ \A i \in Served(n) : insts[i].ips = lb.ips

(* When users stop changing things, the instances become what the load
   balancer asks for and stay so: no lost wake-up, expectation that is never
   met, duplicate or leftover remains. *)
Settles == <>[]Settled
=============================================================================
