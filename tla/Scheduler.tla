----------------------------- MODULE Scheduler -----------------------------
(***************************************************************************)
(* The instance scheduler (internal/controllers/scheduler_controller.go)   *)
(* and its cache (internal/controllers/scheduler/cache.go).                *)
(*                                                                         *)
(* A single worker picks a node for one instance at a time from a snapshot *)
(* of the cache, assumes the instance there and leaves the patch of        *)
(* spec.nodeRef to a goroutine of its own.  Three event handlers, each on  *)
(* its own informer listener, and a ticker that expires assumptions change *)
(* the cache concurrently.  Every method of the cache takes its lock but   *)
(* ForgetInstance, whose steps interleave with everything else.            *)
(***************************************************************************)
EXTENDS NodeFilter, SequencesExt

CONSTANTS
    NoNode,        \* nil node reference
    InitialNodes,  \* nodes that exist, and are cached, from the start
    MaxAttempts,   \* bound: assumptions made
    MaxChurn,      \* bound: updates of instances and deletions of nodes
    MaxRestarts    \* bound: restarts of the scheduler

ASSUME NoNodeAssumption == NoNode \notin Node
ASSUME FiniteAssumption == IsFiniteSet(Instance) /\ IsFiniteSet(Node)
ASSUME InitialNodesAssumption == InitialNodes \subseteq Node
ASSUME SchedulerBounds ==
    MaxAttempts \in Nat /\ MaxChurn \in Nat /\ MaxRestarts \in Nat

VARIABLES
    api,        \* api[i]: the instance as the API server has it
    nodes,      \* nodes[n]: whether the Node object n exists
    watch,      \* instance events on their way to the informer
    store,      \* store[i]: the instance as the informer has it
    unassigned, \* events not yet handled by handleUnassignedInstance
    assigned,   \* events not yet handled by handleAssignedInstances
    nodeEvents, \* events not yet handled by handleNode
    queue,      \* work queue of the reconciler
    rec,        \* the reconcile under way
    cache,      \* scheduler.Cache
    binds,      \* binding goroutines
    attempts,   \* assumptions made so far
    churn,      \* updates of instances and deletions of nodes so far
    restarts,   \* restarts so far
    corrupted,  \* instances for which a consistency check of the cache failed
    tried,      \* instances ever assumed to be on a node
    forgotten,  \* instances ForgetInstance ever went on to remove
    lost        \* instances dropped from the cache while bound or being bound

server == <<api, nodes>>
informer == <<watch, store, unassigned, assigned, nodeEvents>>
worker == <<queue, rec>>
history == <<churn, restarts, tried, forgotten>>
vars == <<api, nodes, watch, store, unassigned, assigned, nodeEvents, queue, rec,
          cache, binds, attempts, churn, restarts, corrupted, tried, forgotten, lost>>

Status == {"new", "live", "deleting", "gone"}
MaybeNode == Node \union {NoNode}
Object == [status : Status, node : MaybeNode]
Unborn == [status |-> "new", node |-> NoNode]

(* state: container of the entry of instanceStates; assumed: assumedInstances;
   finished: bindingFinished; deleting: the cached object is being deleted;
   on: instances of the ContainerInfos; known: containers whose node is set.
   A ContainerInfo with neither node nor instances does not exist. *)
Cache == [state : [Instance -> MaybeNode], assumed : SUBSET Instance,
          finished : SUBSET Instance, deleting : SUBSET Instance,
          on : [Node -> SUBSET Instance], known : SUBSET Node]

NewCache ==
    [state |-> [i \in Instance |-> NoNode], assumed |-> {}, finished |-> {},
     deleting |-> {}, on |-> [n \in Node |-> {}], known |-> {}]

(* patch, ok, failed: before the answer to the patch and before FinishBinding;
   forget, unlink, drop: the unsynchronised steps of ForgetInstance. *)
Stage == {"patch", "ok", "failed", "forget", "unlink", "drop"}
Bind == [inst : Instance, node : Node, attempt : Nat, stage : Stage]

Idle == [pc |-> "idle"]
Reconcile == {Idle} \union [pc : {"check", "pick"}, inst : Instance]
                    \union [pc : {"assume"}, inst : Instance, node : Node]

SchedulerTypeOK ==
    /\ api \in [Instance -> Object]
    /\ nodes \in [Node -> {"new", "up", "gone"}]
    /\ watch \in Seq([inst : Instance, obj : Object])
    /\ store \in [Instance -> Object]
    /\ unassigned \subseteq [inst : Instance, kind : {"create", "update"}]
    /\ assigned \in Seq([inst : Instance, kind : {"add", "update", "remove"},
                         node : Node, deleting : BOOLEAN])
    /\ nodeEvents \in Seq([node : Node, kind : {"create", "delete"}])
    /\ queue \subseteq Instance
    /\ rec \in Reconcile
    /\ cache \in Cache
    /\ binds \subseteq Bind
    /\ attempts \in Nat
    /\ churn \in 0 .. MaxChurn
    /\ restarts \in 0 .. MaxRestarts
    /\ corrupted \subseteq Instance
    /\ tried \subseteq Instance
    /\ forgotten \subseteq Instance
    /\ lost \subseteq Instance

Init ==
    /\ api = [i \in Instance |-> Unborn]
    /\ nodes = [n \in Node |-> IF n \in InitialNodes THEN "up" ELSE "new"]
    /\ watch = <<>>
    /\ store = [i \in Instance |-> Unborn]
    /\ unassigned = {}
    /\ assigned = <<>>
    /\ nodeEvents = <<>>
    /\ queue = {}
    /\ rec = Idle
    /\ cache = [NewCache EXCEPT !.known = InitialNodes]
    /\ binds = {}
    /\ attempts = 0
    /\ churn = 0
    /\ restarts = 0
    /\ corrupted = {}
    /\ tried = {}
    /\ forgotten = {}
    /\ lost = {}
-----------------------------------------------------------------------------
(***************************************************************************)
(* The API server, and who uses it besides the scheduler                   *)
(***************************************************************************)

(* The API server stores o as instance i and tells the watchers. *)
Put(i, o) ==
    /\ api' = [api EXCEPT ![i] = o]
    /\ watch' = Append(watch, [inst |-> i, obj |-> o])

CreateInstance(i) ==
    /\ api[i].status = "new"
    /\ Put(i, [status |-> "live", node |-> NoNode])
    /\ UNCHANGED <<nodes, store, unassigned, assigned, nodeEvents, worker, cache,
                   binds, attempts, history, corrupted, lost>>

(* Labels, addresses or status of an instance change. *)
TouchInstance(i) ==
    /\ api[i].status \in {"live", "deleting"}
    /\ churn < MaxChurn
    /\ churn' = churn + 1
    /\ Put(i, api[i])
    /\ UNCHANGED <<nodes, store, unassigned, assigned, nodeEvents, worker, cache,
                   binds, attempts, restarts, tried, forgotten, corrupted, lost>>

(* An instance that runs on a node has the finalizer of its metalnetlet, if
   that came in time. *)
DeleteInstance(i) ==
    /\ \/ /\ api[i].status = "live"
          /\ Put(i, [api[i] EXCEPT !.status = "gone"])
       \/ /\ api[i].status = "live" /\ api[i].node # NoNode
          /\ Put(i, [api[i] EXCEPT !.status = "deleting"])
       \/ /\ api[i].status = "deleting"
          /\ Put(i, [api[i] EXCEPT !.status = "gone"])
    /\ UNCHANGED <<nodes, store, unassigned, assigned, nodeEvents, worker, cache,
                   binds, attempts, history, corrupted, lost>>

NodeStep(n, from, to, kind) ==
    /\ nodes[n] = from
    /\ nodes' = [nodes EXCEPT ![n] = to]
    /\ nodeEvents' = Append(nodeEvents, [node |-> n, kind |-> kind])
    /\ UNCHANGED <<api, watch, store, unassigned, assigned, worker, cache, binds,
                   attempts, restarts, tried, forgotten, corrupted, lost>>

CreateNode(n) == NodeStep(n, "new", "up", "create") /\ UNCHANGED churn

DeleteNode(n) ==
    /\ churn < MaxChurn
    /\ churn' = churn + 1
    /\ NodeStep(n, "up", "gone", "delete")
-----------------------------------------------------------------------------
(***************************************************************************)
(* The cache                                                               *)
(***************************************************************************)

(* Mutant of addInstance: the container is not told. *)
addInstanceUnlinked(c, i, n, d, assume) ==
    [c EXCEPT !.state[i] = n,
              !.assumed = IF assume THEN @ \union {i} ELSE @,
              !.finished = @ \ {i},
              !.deleting = IF d THEN @ \union {i} ELSE @ \ {i}]

addInstance(c, i, n, d, assume) ==
    [c EXCEPT !.on[n] = @ \union {i},
              !.state[i] = n,
              !.assumed = IF assume THEN @ \union {i} ELSE @,
              !.finished = @ \ {i},
              !.deleting = IF d THEN @ \union {i} ELSE @ \ {i}]

(* The two halves of removeInstance: the container, then the entry. *)
Unlink(c, i, n) == [c EXCEPT !.on[n] = @ \ {i}]

Drop(c, i) ==
    [c EXCEPT !.state[i] = NoNode, !.assumed = @ \ {i}, !.finished = @ \ {i},
              !.deleting = @ \ {i}]

removeInstance(c, i, n) == Drop(Unlink(c, i, n), i)

(* Mutant of updateInstance: the container of the old object is forgotten. *)
updateInstanceInPlace(c, i, m, n, d) == addInstance(Drop(c, i), i, n, d, FALSE)

updateInstance(c, i, m, n, d) == addInstance(removeInstance(c, i, m), i, n, d, FALSE)

(* Mutant of AddInstance: an assumption is left to expire. *)
AddInstanceIgnored(c, i, n, d) ==
    IF c.state[i] = NoNode THEN addInstance(c, i, n, d, FALSE) ELSE c

(* An assumption becomes knowledge, an expired instance comes back, and an
   instance that was added before is left alone (error). *)
AddInstance(c, i, n, d) ==
    CASE c.state[i] # NoNode /\ i \in c.assumed -> updateInstance(c, i, c.state[i], n, d)
      [] c.state[i] = NoNode -> addInstance(c, i, n, d, FALSE)
      [] OTHER -> c

(* An absent or assumed instance is left alone (error). *)
UpdateInstance(c, i, n, d) ==
    IF c.state[i] # NoNode /\ i \notin c.assumed /\ c.state[i] = n
    THEN updateInstance(c, i, n, n, d) ELSE c

(* An absent instance is left alone (error). *)
RemoveInstance(c, i, n) == IF c.state[i] = n THEN removeInstance(c, i, n) ELSE c

(* The consistency checks of UpdateInstance and RemoveInstance that panic. *)
Corrupted(c, e) ==
    /\ c.state[e.inst] \notin {NoNode, e.node}
    /\ e.kind = "remove" \/ (e.kind = "update" /\ e.inst \notin c.assumed)

(* The instance exists and has a node. *)
Bound(i) == api[i].status \in {"live", "deleting"} /\ api[i].node # NoNode

(* The instances a step removes from the cache although they are bound, or
   on the way to being bound, and remain so. *)
Losing ==
    lost' = lost \union {i \in Instance :
                           /\ cache.state[i] # NoNode /\ cache'.state[i] = NoNode
                           /\ \/ api'[i].status \in {"live", "deleting"} /\ api'[i].node # NoNode
                              \/ \E b \in binds' : b.inst = i /\ b.stage = "patch"}
-----------------------------------------------------------------------------
(***************************************************************************)
(* The informer and the event handlers                                     *)
(***************************************************************************)

(* Mutant of isInstanceAssigned: no predicate. *)
isInstanceAssignedAlways(o) == TRUE

isInstanceAssigned(o) == o.node # NoNode

(* An event updates the informer's store and is passed to the listener whose
   predicate accepts the new object. *)
DeliverInstance ==
    /\ watch # <<>>
    /\ LET i == Head(watch).inst
           old == store[i]
           new == Head(watch).obj
       IN /\ watch' = Tail(watch)
          /\ store' = [store EXCEPT ![i] = new]
          /\ unassigned' =
               IF ~isInstanceAssigned(new) /\ new.status # "gone"
               THEN unassigned \union
                      {[inst |-> i, kind |-> IF old.status = "new" THEN "create" ELSE "update"]}
               ELSE unassigned
          /\ assigned' =
               IF isInstanceAssigned(new)
               THEN Append(assigned,
                      [inst |-> i, node |-> new.node, deleting |-> new.status = "deleting",
                       kind |-> CASE new.status = "gone" -> "remove"
                                  [] new.status # "gone" /\ old.node = NoNode -> "add"
                                  [] OTHER -> "update"])
               ELSE assigned
    /\ UNCHANGED <<server, nodeEvents, worker, cache, binds, attempts, history,
                   corrupted, lost>>

(* handleUnassignedInstance *)
HandleUnassigned(e) ==
    /\ e \in unassigned
    /\ unassigned' = unassigned \ {e}
    /\ \/ /\ e.kind = "update" /\ e.inst \in cache.assumed
          /\ UNCHANGED queue
       \/ /\ e.kind = "create" \/ e.inst \notin cache.assumed
          /\ queue' = queue \union {e.inst}
    /\ UNCHANGED <<server, watch, store, assigned, nodeEvents, rec, cache, binds,
                   attempts, history, corrupted, lost>>

(* handleAssignedInstances *)
HandleAssigned ==
    /\ assigned # <<>>
    /\ assigned' = Tail(assigned)
    /\ LET e == Head(assigned) IN
       /\ corrupted' = corrupted \union {i \in {e.inst} : Corrupted(cache, e)}
       /\ cache' = CASE e.kind = "add" -> AddInstance(cache, e.inst, e.node, e.deleting)
                     [] e.kind = "update" -> UpdateInstance(cache, e.inst, e.node, e.deleting)
                     [] e.kind = "remove" -> RemoveInstance(cache, e.inst, e.node)
    /\ UNCHANGED <<server, watch, store, unassigned, nodeEvents, worker, binds,
                   attempts, history>>
    /\ Losing

(* Mutant of Waiting: a new node is of no interest to anybody. *)
WaitingNobody == {}

(* The instances a new node may be for. *)
Waiting == {i \in Instance : store[i].status = "live" /\ store[i].node = NoNode}

(* handleNode: AddContainer and a look for waiting instances, or
   RemoveContainer. *)
HandleNode ==
    /\ nodeEvents # <<>>
    /\ nodeEvents' = Tail(nodeEvents)
    /\ LET e == Head(nodeEvents) IN
       \/ /\ e.kind = "create"
          /\ cache' = [cache EXCEPT !.known = @ \union {e.node}]
          /\ queue' = queue \union Waiting
       \/ /\ e.kind = "delete"
          /\ cache' = [cache EXCEPT !.known = @ \ {e.node}]
          /\ UNCHANGED queue
    /\ UNCHANGED <<server, watch, store, unassigned, assigned, rec, binds, attempts,
                   history, corrupted, lost>>

(* cleanupAssumedInstances, every second: a finished binding expires. *)
cleanupAssumedInstances ==
    /\ \E i \in cache.assumed : i \in cache.finished \/ cache.state[i] = NoNode
    /\ corrupted' = corrupted \union {i \in cache.assumed : cache.state[i] = NoNode}
    /\ LET expired == cache.assumed \intersect cache.finished IN
       cache' = [cache EXCEPT
                   !.state = [i \in Instance |-> IF i \in expired THEN NoNode ELSE @[i]],
                   !.on = [n \in Node |-> @[n] \ {i \in expired : cache.state[i] = n}],
                   !.assumed = @ \ expired,
                   !.finished = @ \ expired,
                   !.deleting = @ \ expired]
    /\ UNCHANGED <<server, informer, worker, binds, attempts, history>>
    /\ Losing
-----------------------------------------------------------------------------
(***************************************************************************)
(* The reconciler                                                          *)
(***************************************************************************)

(* Reconcile reads the instance from the informer's store, and leaves one
   that does not exist or is being deleted alone. *)
Get(i) ==
    /\ rec = Idle
    /\ i \in queue
    /\ attempts < MaxAttempts
    /\ queue' = queue \ {i}
    /\ rec' = IF store[i].status = "live" THEN [pc |-> "check", inst |-> i] ELSE Idle
    /\ UNCHANGED <<server, informer, cache, binds, attempts, history, corrupted, lost>>

(* skipSchedule *)
CheckAssumed ==
    /\ rec.pc = "check"
    /\ rec' = IF rec.inst \in cache.assumed THEN Idle ELSE [rec EXCEPT !.pc = "pick"]
    /\ UNCHANGED <<server, informer, queue, cache, binds, attempts, history, corrupted, lost>>

(* A snapshot is taken and a node picked from it; when none fits, an event
   is recorded and that is all. *)
Pick ==
    /\ rec.pc = "pick"
    /\ LET fits == getNodesForInstance(rec.inst, cache.known, cache.on, cache.deleting) IN
       \/ fits = {} /\ rec' = Idle
       \/ \E n \in MinUsed(fits, cache.on) :
             rec' = [pc |-> "assume", inst |-> rec.inst, node |-> n]
    /\ UNCHANGED <<server, informer, queue, cache, binds, attempts, history, corrupted, lost>>

(* AssumeInstance refuses an instance it has an entry for, and the reconcile
   is retried; else the binding goroutine is started. *)
Assume ==
    /\ rec.pc = "assume"
    /\ rec' = Idle
    /\ \/ /\ cache.state[rec.inst] # NoNode
          /\ queue' = queue \union {rec.inst}
          /\ UNCHANGED <<cache, attempts, binds, tried>>
       \/ /\ cache.state[rec.inst] = NoNode
          /\ cache' = addInstance(cache, rec.inst, rec.node, FALSE, TRUE)
          /\ attempts' = attempts + 1
          /\ tried' = tried \union {rec.inst}
          /\ binds' = binds \union {[inst |-> rec.inst, node |-> rec.node, stage |-> "patch",
                                     attempt |-> attempts + 1]}
          /\ UNCHANGED queue
    /\ UNCHANGED <<server, informer, churn, restarts, forgotten, corrupted, lost>>
-----------------------------------------------------------------------------
(***************************************************************************)
(* The binding goroutine                                                   *)
(***************************************************************************)

Advance(b, stage) == binds' = (binds \ {b}) \union {[b EXCEPT !.stage = stage]}

(* Mutant of Bindable: the node reference may be changed. *)
BindableAnew(o, n) == o.status \in {"live", "deleting"}

(* ValidateInstanceSpecUpdate: spec.nodeRef is immutable once it is set. *)
Bindable(o, n) == o.status \in {"live", "deleting"} /\ o.node \in {NoNode, n}

(* The patch of spec.nodeRef, without an optimistic lock, is applied; its
   answer may get lost. *)
PatchApplied(b) ==
    /\ b \in binds /\ b.stage = "patch"
    /\ Bindable(api[b.inst], b.node)
    /\ \/ /\ api[b.inst].node # b.node
          /\ Put(b.inst, [api[b.inst] EXCEPT !.node = b.node])
       \/ api[b.inst].node = b.node /\ UNCHANGED <<api, watch>>
    /\ Advance(b, "ok") \/ Advance(b, "failed")
    /\ UNCHANGED <<nodes, store, unassigned, assigned, nodeEvents, worker, cache, attempts,
                   history, corrupted, lost>>

(* The patch fails: the instance is gone or bound elsewhere, or the API
   server is not available. *)
PatchFailed(b) ==
    /\ b \in binds /\ b.stage = "patch"
    /\ Advance(b, "failed")
    /\ UNCHANGED <<server, informer, worker, cache, attempts, history, corrupted, lost>>

(* The deferred FinishBinding, whatever the outcome of the patch. *)
FinishBinding(b) ==
    /\ b \in binds
    /\ \/ b.stage = "ok" /\ binds' = binds \ {b}
       \/ b.stage = "failed" /\ Advance(b, "forget")
    /\ cache' = IF cache.state[b.inst] # NoNode /\ b.inst \in cache.assumed
                THEN [cache EXCEPT !.finished = @ \union {b.inst}] ELSE cache
    /\ UNCHANGED <<server, informer, worker, attempts, history, corrupted, lost>>

(* ForgetInstance, which runs without the lock: look at the entry, ... *)
ForgetInstance(b) ==
    /\ b \in binds /\ b.stage = "forget"
    /\ IF cache.state[b.inst] = b.node /\ b.inst \in cache.assumed
       THEN Advance(b, "unlink") /\ forgotten' = forgotten \union {b.inst}
       ELSE binds' = binds \ {b} /\ UNCHANGED forgotten
    /\ UNCHANGED <<server, informer, worker, cache, attempts, churn, restarts,
                   tried, corrupted, lost>>

(* ... remove the instance from its container, ... *)
ForgetUnlink(b) ==
    /\ b \in binds /\ b.stage = "unlink"
    /\ Advance(b, "drop")
    /\ cache' = Unlink(cache, b.inst, b.node)
    /\ UNCHANGED <<server, informer, worker, attempts, history, corrupted, lost>>

(* ... and remove its entry. *)
ForgetDrop(b) ==
    /\ b \in binds /\ b.stage = "drop"
    /\ binds' = binds \ {b}
    /\ cache' = Drop(cache, b.inst)
    /\ UNCHANGED <<server, informer, worker, attempts, history, corrupted>>
    /\ Losing
-----------------------------------------------------------------------------
(* The controller manager stops, for whatever reason, and starts again with
   an empty cache; its informers list what there is. *)
Restart ==
    /\ restarts < MaxRestarts
    /\ restarts' = restarts + 1
    /\ watch' = <<>>
    /\ store' = [i \in Instance |-> IF api[i].status = "gone" THEN Unborn ELSE api[i]]
    /\ unassigned' = {[inst |-> i, kind |-> "create"] :
                        i \in {j \in Instance : api[j].status = "live" /\ api[j].node = NoNode}}
    /\ assigned' \in SetToSeqs({[inst |-> i, kind |-> "add", node |-> api[i].node,
                                 deleting |-> api[i].status = "deleting"] :
                                   i \in {j \in Instance : Bound(j)}})
    /\ nodeEvents' \in SetToSeqs({[node |-> n, kind |-> "create"] :
                                     n \in {m \in Node : nodes[m] = "up"}})
    /\ queue' = {}
    /\ rec' = Idle
    /\ cache' = NewCache
    /\ binds' = {}
    /\ UNCHANGED <<server, attempts, churn, tried, forgotten, corrupted>>
    /\ Losing
-----------------------------------------------------------------------------
User ==
    \/ \E i \in Instance : CreateInstance(i) \/ TouchInstance(i) \/ DeleteInstance(i)
    \/ \E n \in Node : CreateNode(n) \/ DeleteNode(n)

Handlers ==
    \/ DeliverInstance
    \/ \E e \in unassigned : HandleUnassigned(e)
    \/ HandleAssigned
    \/ HandleNode

Reconciler ==
    \/ \E i \in Instance : Get(i)
    \/ CheckAssumed \/ Pick \/ Assume

Binding(b) ==
    \/ PatchApplied(b) \/ PatchFailed(b) \/ FinishBinding(b)
    \/ ForgetInstance(b) \/ ForgetUnlink(b) \/ ForgetDrop(b)

Next ==
    \/ User \/ Handlers \/ Reconciler \/ cleanupAssumedInstances
    \/ \E b \in binds : Binding(b)
    \/ Restart

(* The informer and its listeners, the worker, the goroutines and the ticker all
   get to run; nobody has to use the API, and nothing has to fail. *)
Fairness ==
    /\ WF_vars(Handlers)
    /\ \A i \in Instance : SF_vars(Get(i))
    /\ WF_vars(CheckAssumed \/ Pick \/ Assume)
    /\ WF_vars(cleanupAssumedInstances)
    /\ WF_vars(\E b \in binds : Binding(b))

Spec == Init /\ [][Next]_vars /\ Fairness
-----------------------------------------------------------------------------
(***************************************************************************)
(* Properties                                                              *)
(***************************************************************************)

(* The checks in UpdateInstance, RemoveInstance and cleanupAssumedInstances
   that panic because "the scheduler cache is corrupted" never fail: however
   assumptions, rejected second bindings and late events interleave, an
   event about an instance finds it in the container it says. *)
NeverCorrupted == corrupted \subseteq forgotten

(* instanceStates, assumedInstances and the containers of c agree on i. *)
Consistent(c, i) ==
    /\ \A n \in Node : i \in c.on[n] <=> c.state[i] = n
    /\ i \in c.assumed => c.state[i] # NoNode
    /\ i \in c.finished => i \in c.assumed

(* instanceStates, assumedInstances and the containers describe the same
   placement of every instance, as long as the unlocked ForgetInstance did
   not touch it: no instance is counted on two nodes, or on none. *)
CacheConsistent == \A i \in Instance \ forgotten : Consistent(cache, i)

(* No two instances that run are kept apart by an anti-affinity, on nodes
   that exist. *)
Apart(i, e) ==
    Bound(i) /\ Bound(e) /\ i # e /\ nodes[api[i].node] = "up" /\ nodes[api[e].node] = "up"
        => ~Refused(i, api[i].node, e, api[e].node)

(* Two instances that refuse each other only ever end up in the same domain
   when the cache lost sight of one of them between its binding and the event
   that confirms it: by expiry, by ForgetInstance or by a restart. *)
ApartUnlessLost ==
    \A i, e \in Instance \ (lost \union forgotten) : Apart(i, e)

(* What the API promises of required anti-affinity. *)
AntiAffinityKept == \A i, e \in Instance : Apart(i, e)

(* Nothing is on its way to the cache. *)
Quiet ==
    /\ watch = <<>> /\ assigned = <<>> /\ binds = {} /\ cache.assumed = {}
    /\ rec = Idle

(* When things calm down the cache has every instance that runs, on its node,
   and no other: no assumption, expiry or second attempt leaves one behind
   or missing. *)
CacheSettles ==
    Quiet => \A i \in Instance \ forgotten :
                cache.state[i] = IF Bound(i) THEN api[i].node ELSE NoNode

(* An instance no other instance and no node refuses. *)
Unconstrained(i) ==
    /\ NodeAffinity[i] = Node
    /\ Spread[i] = {}
    /\ \A e \in Instance : AntiAffinity[e] = {}

(* i waits although it could be bound, and it is not the bound on attempts
   that keeps it waiting. *)
Stranded(i) ==
    /\ api[i] = [status |-> "live", node |-> NoNode]
    /\ attempts < MaxAttempts
    /\ Unconstrained(i) /\ \E n \in Node : nodes[n] = "up"

(* An instance that any node suits does not wait for ever: once there is a
   node for it, an attempt to bind it is made, whichever of the instance and
   the node is seen first.  A failed attempt is not repeated by itself. *)
ScheduledUnlessFailed ==
    \A i \in Instance : []<>~(Stranded(i) /\ i \notin tried)
=============================================================================
