-------------------------- MODULE SchedulerProofs --------------------------
(***************************************************************************)
(* The cache of the scheduler stays well typed and consistent, for any     *)
(* instances, nodes, constraints and bounds.  The lemmas are about the     *)
(* methods of the cache; the theorems carry them through the concurrent    *)
(* handlers, the worker, the binding goroutines and restarts.              *)
(***************************************************************************)
EXTENDS Scheduler, FiniteSetTheorems, TLAPS

(***************************************************************************)
(* The methods of the cache keep it well typed.                            *)
(***************************************************************************)

(* An empty cache is well typed, with whatever nodes are known. *)
LEMMA NewCacheType ==
  ASSUME NEW N \in SUBSET Node
  PROVE  NewCache \in Cache /\ [NewCache EXCEPT !.known = N] \in Cache
  BY DEF NewCache, Cache, MaybeNode

(* addInstance keeps the type. *)
LEMMA AddType ==
  ASSUME NEW c \in Cache, NEW i \in Instance, NEW n \in Node,
         NEW d \in BOOLEAN, NEW a \in BOOLEAN
  PROVE  addInstance(c, i, n, d, a) \in Cache
  BY DEF addInstance, Cache, MaybeNode

(* Both halves of removeInstance keep the type. *)
LEMMA RemoveType ==
  ASSUME NEW c \in Cache, NEW i \in Instance, NEW n \in Node
  PROVE  /\ Unlink(c, i, n) \in Cache
         /\ Drop(c, i) \in Cache
         /\ removeInstance(c, i, n) \in Cache
<1>1. \A x \in Cache : Drop(x, i) \in Cache
  BY DEF Drop, Cache, MaybeNode
<1>2. Unlink(c, i, n) \in Cache
  BY DEF Unlink, Cache
<1> QED BY <1>1, <1>2 DEF removeInstance

(* So does the handling of an event about an assigned instance. *)
LEMMA EventType ==
  ASSUME NEW c \in Cache, NEW i \in Instance, NEW n \in Node, NEW d \in BOOLEAN
  PROVE  /\ AddInstance(c, i, n, d) \in Cache
         /\ UpdateInstance(c, i, n, d) \in Cache
         /\ RemoveInstance(c, i, n) \in Cache
<1>1. \A m \in Node : updateInstance(c, i, m, n, d) \in Cache
  BY RemoveType, AddType DEF updateInstance
<1>2. c.state[i] # NoNode => c.state[i] \in Node
  BY DEF Cache, MaybeNode
<1>3. AddInstance(c, i, n, d) \in Cache
  BY <1>1, <1>2, AddType DEF AddInstance
<1>4. UpdateInstance(c, i, n, d) \in Cache
  BY <1>1 DEF UpdateInstance
<1>5. RemoveInstance(c, i, n) \in Cache
  BY RemoveType DEF RemoveInstance
<1> QED BY <1>3, <1>4, <1>5

(***************************************************************************)
(* The methods of the cache keep it consistent.                            *)
(***************************************************************************)

(* What c and x have on instance j is the same. *)
Same(c, x, j) ==
    /\ \A n \in Node : j \in x.on[n] <=> j \in c.on[n]
    /\ x.state[j] = c.state[j]
    /\ j \in x.assumed <=> j \in c.assumed
    /\ j \in x.finished <=> j \in c.finished

(* Consistency of an instance depends on nothing else. *)
LEMMA SameConsistent ==
  ASSUME NEW c, NEW x, NEW j, Same(c, x, j), Consistent(c, j)
  PROVE  Consistent(x, j)
  BY DEF Same, Consistent

(* An operation on i leaves the others alone. *)
LEMMA OthersSame ==
  ASSUME NEW c \in Cache, NEW i \in Instance, NEW n \in Node,
         NEW d \in BOOLEAN, NEW a \in BOOLEAN, NEW j \in Instance, j # i
  PROVE  /\ Same(c, addInstance(c, i, n, d, a), j)
         /\ Same(c, Unlink(c, i, n), j)
         /\ Same(c, Drop(c, i), j)
         /\ Same(c, removeInstance(c, i, n), j)
<1>1. \A x \in Cache : Same(x, Drop(x, i), j)
  BY DEF Same, Drop, Cache
<1>2. Same(c, Unlink(c, i, n), j)
  BY DEF Same, Unlink, Cache
<1>3. Same(c, addInstance(c, i, n, d, a), j)
  BY DEF Same, addInstance, Cache
<1>4. Same(Unlink(c, i, n), removeInstance(c, i, n), j)
  BY <1>1, RemoveType DEF removeInstance
<1>5. Same(c, removeInstance(c, i, n), j)
  BY <1>2, <1>4 DEF Same
<1> QED BY <1>1, <1>2, <1>3, <1>5

(* An instance the cache does not have can be added, and one it has can be
   removed from the container it is in. *)
LEMMA OwnConsistent ==
  ASSUME NEW c \in Cache, NEW i \in Instance, NEW n \in Node,
         NEW d \in BOOLEAN, NEW a \in BOOLEAN, Consistent(c, i)
  PROVE  /\ c.state[i] = NoNode => Consistent(addInstance(c, i, n, d, a), i)
         /\ c.state[i] = n => /\ Consistent(removeInstance(c, i, n), i)
                              /\ removeInstance(c, i, n).state[i] = NoNode
<1>1. c.state[i] = NoNode => Consistent(addInstance(c, i, n, d, a), i)
  BY NoNodeAssumption DEF Consistent, addInstance, Cache
<1>2. ASSUME c.state[i] = n
      PROVE  /\ Consistent(removeInstance(c, i, n), i)
             /\ removeInstance(c, i, n).state[i] = NoNode
  BY <1>2, NoNodeAssumption DEF Consistent, removeInstance, Drop, Unlink, Cache
<1> QED BY <1>1, <1>2

(* Handling an event keeps every consistent instance consistent, the one it
   is about as well as the others. *)
LEMMA EventConsistent ==
  ASSUME NEW c \in Cache, NEW i \in Instance, NEW n \in Node, NEW d \in BOOLEAN,
         NEW j \in Instance, Consistent(c, j)
  PROVE  /\ Consistent(AddInstance(c, i, n, d), j)
         /\ Consistent(UpdateInstance(c, i, n, d), j)
         /\ Consistent(RemoveInstance(c, i, n), j)
<1>1. ASSUME NEW m \in Node, c.state[i] = m
      PROVE  Consistent(updateInstance(c, i, m, n, d), j)
  <2> DEFINE x == removeInstance(c, i, m)
  <2>1. x \in Cache
    BY RemoveType
  <2>2. CASE j = i
    <3>1. Consistent(x, i) /\ x.state[i] = NoNode
      BY <1>1, <2>2, OwnConsistent
    <3>2. Consistent(addInstance(x, i, n, d, FALSE), i)
      <4> HIDE DEF x
      <4> QED BY <2>1, <3>1, OwnConsistent
    <3> QED BY <2>2, <3>2 DEF updateInstance
  <2>3. CASE j # i
    <3>1. Consistent(x, j)
      BY <2>3, OthersSame, SameConsistent
    <3>2. Consistent(addInstance(x, i, n, d, FALSE), j)
      <4> HIDE DEF x
      <4> QED BY <2>1, <2>3, <3>1, OthersSame, SameConsistent
    <3> QED BY <3>2 DEF updateInstance
  <2> QED BY <2>2, <2>3
<1>2. c.state[i] = NoNode => Consistent(addInstance(c, i, n, d, FALSE), j)
  BY OwnConsistent, OthersSame, SameConsistent
<1>3. c.state[i] = n => Consistent(removeInstance(c, i, n), j)
  BY OwnConsistent, OthersSame, SameConsistent
<1>4. c.state[i] # NoNode => c.state[i] \in Node
  BY DEF Cache, MaybeNode
<1>5. Consistent(AddInstance(c, i, n, d), j)
  BY <1>1, <1>2, <1>4 DEF AddInstance
<1>6. Consistent(UpdateInstance(c, i, n, d), j)
  BY <1>1 DEF UpdateInstance
<1>7. Consistent(RemoveInstance(c, i, n), j)
  BY <1>3 DEF RemoveInstance
<1> QED BY <1>5, <1>6, <1>7

(***************************************************************************)
(* Type correctness                                                        *)
(***************************************************************************)

(* The events of an informer that lists a finite set form a sequence. *)
LEMMA ListingType ==
  ASSUME NEW S, IsFiniteSet(S), NEW s \in SetToSeqs(S)
  PROVE  s \in Seq(S)
<1>1. Cardinality(S) \in Nat
  BY FS_CardinalityType
<1>2. s \in [1 .. Cardinality(S) -> S]
  BY DEF SetToSeqs
<1> QED BY <1>1, <1>2

(* A queue of S is a queue of every larger set; its parts are what they
   should be. *)
LEMMA QueueType ==
  ASSUME NEW S, NEW T, NEW s \in Seq(S)
  PROVE  /\ s # <<>> => Head(s) \in S /\ Tail(s) \in Seq(S)
         /\ S \subseteq T => s \in Seq(T)
<1>1. s # <<>> => Head(s) \in S /\ Tail(s) \in Seq(S)
  OBVIOUS
<1>2. S \subseteq T => s \in Seq(T)
  OBVIOUS
<1> QED BY <1>1, <1>2

(* What a step adds to lost are instances. *)
LEMMA LosingType ==
  ASSUME lost \subseteq Instance, Losing
  PROVE  lost' \subseteq Instance
  BY DEF Losing

(* A goroutine that goes on is still a goroutine. *)
LEMMA AdvanceType ==
  ASSUME binds \subseteq Bind, NEW b \in binds, NEW stage \in Stage, Advance(b, stage)
  PROVE  binds' \subseteq Bind
  BY DEF Advance, Bind

(* An object that is put is one the watchers are told about. *)
LEMMA PutType ==
  ASSUME SchedulerTypeOK, NEW i \in Instance, NEW o \in Object, Put(i, o)
  PROVE  /\ api' \in [Instance -> Object]
         /\ watch' \in Seq([inst : Instance, obj : Object])
  BY DEF SchedulerTypeOK, Put

(* Every step keeps the state well typed. *)
LEMMA NextType == SchedulerTypeOK /\ [Next]_vars => SchedulerTypeOK'
<1> SUFFICES ASSUME SchedulerTypeOK, [Next]_vars PROVE SchedulerTypeOK'
  OBVIOUS
<1> USE SchedulerBounds
<1>1. ASSUME NEW i \in Instance, CreateInstance(i) PROVE SchedulerTypeOK'
  <2>1. [status |-> "live", node |-> NoNode] \in Object
    BY DEF Object, Status, MaybeNode
  <2> QED BY <1>1, <2>1, PutType DEF CreateInstance, SchedulerTypeOK, worker, history
<1>2. ASSUME NEW i \in Instance, TouchInstance(i) PROVE SchedulerTypeOK'
  <2>1. api[i] \in Object
    BY DEF SchedulerTypeOK
  <2>2. /\ api' \in [Instance -> Object]
        /\ watch' \in Seq([inst : Instance, obj : Object])
    BY <1>2, <2>1, PutType DEF TouchInstance
  <2> QED BY <1>2, <2>2 DEF TouchInstance, SchedulerTypeOK, worker
<1>3. ASSUME NEW i \in Instance, DeleteInstance(i) PROVE SchedulerTypeOK'
  <2>1. /\ [api[i] EXCEPT !.status = "gone"] \in Object
        /\ [api[i] EXCEPT !.status = "deleting"] \in Object
    BY DEF SchedulerTypeOK, Object, Status
  <2>2. /\ api' \in [Instance -> Object]
        /\ watch' \in Seq([inst : Instance, obj : Object])
    BY <1>3, <2>1, PutType DEF DeleteInstance
  <2> QED BY <1>3, <2>2 DEF DeleteInstance, SchedulerTypeOK, worker, history
<1>4. ASSUME NEW n \in Node, CreateNode(n) PROVE SchedulerTypeOK'
  BY <1>4 DEF CreateNode, NodeStep, SchedulerTypeOK, worker
<1>5. ASSUME NEW n \in Node, DeleteNode(n) PROVE SchedulerTypeOK'
  BY <1>5 DEF DeleteNode, NodeStep, SchedulerTypeOK, worker
<1>6. CASE DeliverInstance
  <2> DEFINE i == Head(watch).inst
             new == Head(watch).obj
  <2>1. /\ i \in Instance /\ new \in Object
        /\ watch' \in Seq([inst : Instance, obj : Object])
    <3>1. Head(watch) \in [inst : Instance, obj : Object]
      BY <1>6, QueueType DEF DeliverInstance, SchedulerTypeOK
    <3>2. watch' \in Seq([inst : Instance, obj : Object])
      BY <1>6, QueueType DEF DeliverInstance, SchedulerTypeOK
    <3> QED BY <3>1, <3>2
  <2>2. store' \in [Instance -> Object]
    BY <1>6, <2>1 DEF DeliverInstance, SchedulerTypeOK
  <2>3. unassigned' \subseteq [inst : Instance, kind : {"create", "update"}]
    BY <1>6, <2>1 DEF DeliverInstance, SchedulerTypeOK
  <2>4. isInstanceAssigned(new) => new.node \in Node
    BY <2>1 DEF isInstanceAssigned, Object, MaybeNode
  <2>5. assigned' \in Seq([inst : Instance, kind : {"add", "update", "remove"},
                           node : Node, deleting : BOOLEAN])
    <3> DEFINE E == [inst : Instance, kind : {"add", "update", "remove"},
                     node : Node, deleting : BOOLEAN]
               e == [inst |-> i, node |-> new.node, deleting |-> new.status = "deleting",
                     kind |-> CASE new.status = "gone" -> "remove"
                                [] new.status # "gone" /\ store[i].node = NoNode -> "add"
                                [] OTHER -> "update"]
    <3>1. e.kind \in {"add", "update", "remove"}
      OBVIOUS
    <3>2. isInstanceAssigned(new) => e \in E
      BY <2>1, <2>4, <3>1
    <3>3. assigned' = IF isInstanceAssigned(new) THEN Append(assigned, e) ELSE assigned
      BY <1>6 DEF DeliverInstance
    <3>4. assigned \in Seq(E)
      BY DEF SchedulerTypeOK
    <3> HIDE DEF E, e
    <3>5. assigned' \in Seq(E)
      BY <3>2, <3>3, <3>4
    <3> QED BY <3>5 DEF E
  <2> QED BY <1>6, <2>1, <2>2, <2>3, <2>5
          DEF DeliverInstance, SchedulerTypeOK, server, worker, history
<1>7. ASSUME NEW e \in unassigned, HandleUnassigned(e) PROVE SchedulerTypeOK'
  BY <1>7 DEF HandleUnassigned, SchedulerTypeOK, server, history
<1>8. CASE HandleAssigned
  <2> DEFINE e == Head(assigned)
  <2>1. /\ e \in [inst : Instance, kind : {"add", "update", "remove"},
                  node : Node, deleting : BOOLEAN]
        /\ assigned' \in Seq([inst : Instance, kind : {"add", "update", "remove"},
                              node : Node, deleting : BOOLEAN])
    <3> DEFINE E == [inst : Instance, kind : {"add", "update", "remove"},
                     node : Node, deleting : BOOLEAN]
    <3>1. assigned \in Seq(E) /\ assigned # <<>> /\ assigned' = Tail(assigned)
      BY <1>8 DEF HandleAssigned, SchedulerTypeOK
    <3> HIDE DEF E
    <3>2. Head(assigned) \in E /\ assigned' \in Seq(E)
      BY <3>1, QueueType
    <3> QED BY <3>2 DEF E
  <2>2. /\ AddInstance(cache, e.inst, e.node, e.deleting) \in Cache
        /\ UpdateInstance(cache, e.inst, e.node, e.deleting) \in Cache
        /\ RemoveInstance(cache, e.inst, e.node) \in Cache
    BY <2>1, EventType DEF SchedulerTypeOK
  <2>3. cache' \in Cache
    BY <1>8, <2>1, <2>2 DEF HandleAssigned
  <2>4. corrupted' \subseteq Instance
    BY <1>8, <2>1 DEF HandleAssigned, SchedulerTypeOK
  <2>5. lost' \subseteq Instance
    BY <1>8, LosingType DEF HandleAssigned, SchedulerTypeOK
  <2> QED BY <1>8, <2>1, <2>3, <2>4, <2>5
          DEF HandleAssigned, SchedulerTypeOK, server, worker, history
<1>9. CASE HandleNode
  <2>1. /\ Head(nodeEvents) \in [node : Node, kind : {"create", "delete"}]
        /\ nodeEvents' \in Seq([node : Node, kind : {"create", "delete"}])
    <3> DEFINE E == [node : Node, kind : {"create", "delete"}]
    <3>1. nodeEvents \in Seq(E) /\ nodeEvents # <<>> /\ nodeEvents' = Tail(nodeEvents)
      BY <1>9 DEF HandleNode, SchedulerTypeOK
    <3> HIDE DEF E
    <3>2. Head(nodeEvents) \in E /\ nodeEvents' \in Seq(E)
      BY <3>1, QueueType
    <3> QED BY <3>2 DEF E
  <2>2. cache' \in Cache
    <3>1. \A n \in Node : /\ [cache EXCEPT !.known = @ \union {n}] \in Cache
                          /\ [cache EXCEPT !.known = @ \ {n}] \in Cache
      BY DEF SchedulerTypeOK, Cache
    <3>2. Head(nodeEvents).node \in Node
      BY <2>1
    <3> QED BY <1>9, <3>1, <3>2 DEF HandleNode
  <2> QED BY <1>9, <2>1, <2>2 DEF HandleNode, Waiting, SchedulerTypeOK, server, history
<1>10. CASE cleanupAssumedInstances
  <2>1. cache' \in Cache
    BY <1>10 DEF cleanupAssumedInstances, SchedulerTypeOK, Cache, MaybeNode
  <2>2. corrupted' \subseteq Instance
    BY <1>10 DEF cleanupAssumedInstances, SchedulerTypeOK, Cache
  <2>3. lost' \subseteq Instance
    BY <1>10, LosingType DEF cleanupAssumedInstances, SchedulerTypeOK
  <2> QED BY <1>10, <2>1, <2>2, <2>3
          DEF cleanupAssumedInstances, SchedulerTypeOK, server, informer, worker, history
<1>11. ASSUME NEW i \in Instance, Get(i) PROVE SchedulerTypeOK'
  <2>1. rec' \in Reconcile
    BY <1>11 DEF Get, Reconcile
  <2> QED BY <1>11, <2>1 DEF Get, SchedulerTypeOK, server, informer, history
<1>12. CASE CheckAssumed
  <2>1. rec' \in Reconcile
    BY <1>12 DEF CheckAssumed, SchedulerTypeOK, Reconcile, Idle
  <2> QED BY <1>12, <2>1 DEF CheckAssumed, SchedulerTypeOK, server, informer, history
<1>13. CASE Pick
  <2>1. rec' \in Reconcile
    <3> DEFINE fits == getNodesForInstance(rec.inst, cache.known, cache.on, cache.deleting)
    <3>1. rec.inst \in Instance
      BY <1>13 DEF Pick, SchedulerTypeOK, Reconcile, Idle
    <3>2. MinUsed(fits, cache.on) \subseteq Node
      BY DEF MinUsed, getNodesForInstance, filterNodesByAffinity, SchedulerTypeOK, Cache
    <3> QED BY <1>13, <3>1, <3>2 DEF Pick, Reconcile
  <2> QED BY <1>13, <2>1 DEF Pick, SchedulerTypeOK, server, informer, history
<1>14. CASE Assume
  <2>1. rec.inst \in Instance /\ rec.node \in Node
    BY <1>14 DEF Assume, SchedulerTypeOK, Reconcile, Idle
  <2>2. cache' \in Cache
    BY <1>14, <2>1, AddType DEF Assume, SchedulerTypeOK
  <2>3. rec' \in Reconcile
    BY <1>14 DEF Assume, Reconcile
  <2>4. binds' \subseteq Bind /\ attempts' \in Nat
    <3>1. attempts \in Nat
      BY DEF SchedulerTypeOK
    <3>2. CASE cache.state[rec.inst] # NoNode
      BY <1>14, <3>1, <3>2 DEF Assume, SchedulerTypeOK
    <3>3. CASE cache.state[rec.inst] = NoNode
      BY <1>14, <2>1, <3>1, <3>3 DEF Assume, SchedulerTypeOK, Bind, Stage
    <3> QED BY <3>2, <3>3
  <2>5. queue' \subseteq Instance /\ tried' \subseteq Instance
    BY <1>14, <2>1 DEF Assume, SchedulerTypeOK
  <2> QED BY <1>14, <2>2, <2>3, <2>4, <2>5 DEF Assume, SchedulerTypeOK, server, informer
<1>15. ASSUME NEW b \in binds, Binding(b) PROVE SchedulerTypeOK'
  <2> USE DEF SchedulerTypeOK
  <2>1. b \in Bind
    OBVIOUS
  <2>2. CASE PatchApplied(b)
    <3>1. binds' \subseteq Bind
      BY <2>2, AdvanceType DEF PatchApplied, Stage
    <3>2. [api[b.inst] EXCEPT !.node = b.node] \in Object /\ b.inst \in Instance
      <4>1. b.inst \in Instance /\ b.node \in Node
        BY <2>1 DEF Bind
      <4>2. api[b.inst] \in Object
        BY <4>1
      <4> QED BY <4>1, <4>2 DEF Object, MaybeNode
    <3>3. /\ api' \in [Instance -> Object]
          /\ watch' \in Seq([inst : Instance, obj : Object])
      BY <2>2, <3>2, PutType DEF PatchApplied
    <3> QED BY <2>2, <3>1, <3>3 DEF PatchApplied, worker, history
  <2>3. CASE PatchFailed(b)
    BY <2>3, AdvanceType DEF PatchFailed, Stage, server, informer, worker, history
  <2>4. CASE FinishBinding(b)
    <3>1. binds' \subseteq Bind
      BY <2>4, AdvanceType DEF FinishBinding, Stage
    <3>2. cache' \in Cache
      BY <2>1, <2>4 DEF FinishBinding, Cache, Bind
    <3> QED BY <2>4, <3>1, <3>2 DEF FinishBinding, server, informer, worker, history
  <2>5. CASE ForgetInstance(b)
    <3>1. binds' \subseteq Bind
      BY <2>5, AdvanceType DEF ForgetInstance, Stage
    <3> QED BY <2>1, <2>5, <3>1 DEF ForgetInstance, Bind, server, informer, worker
  <2>6. CASE ForgetUnlink(b)
    <3>1. binds' \subseteq Bind
      BY <2>6, AdvanceType DEF ForgetUnlink, Stage
    <3>2. cache' \in Cache
      BY <2>1, <2>6, RemoveType DEF ForgetUnlink, Bind
    <3> QED BY <2>6, <3>1, <3>2 DEF ForgetUnlink, server, informer, worker, history
  <2>7. CASE ForgetDrop(b)
    <3>1. cache' \in Cache
      BY <2>1, <2>7, RemoveType DEF ForgetDrop, Bind
    <3>2. lost' \subseteq Instance
      BY <2>7, LosingType DEF ForgetDrop
    <3> QED BY <2>7, <3>1, <3>2 DEF ForgetDrop, server, informer, worker, history
  <2> QED BY <1>15, <2>2, <2>3, <2>4, <2>5, <2>6, <2>7 DEF Binding
<1>16. CASE Restart
  <2> DEFINE up == {m \in Node : nodes[m] = "up"}
             bound == {j \in Instance : Bound(j)}
             Added(i) == [inst |-> i, kind |-> "add", node |-> api[i].node,
                          deleting |-> api[i].status = "deleting"]
             Created(n) == [node |-> n, kind |-> "create"]
  <2>1. IsFiniteSet(up) /\ IsFiniteSet(bound)
    BY FiniteAssumption, FS_Subset
  <2>2. IsFiniteSet({Added(i) : i \in bound}) /\ IsFiniteSet({Created(n) : n \in up})
    <3>1. [i \in bound |-> Added(i)] \in Surjection(bound, {Added(i) : i \in bound})
      BY DEF Surjection
    <3>2. [n \in up |-> Created(n)] \in Surjection(up, {Created(n) : n \in up})
      BY DEF Surjection
    <3> HIDE DEF up, bound, Added, Created
    <3> QED BY <2>1, <3>1, <3>2, FS_Surjection
  <2>3. assigned' \in Seq([inst : Instance, kind : {"add", "update", "remove"},
                           node : Node, deleting : BOOLEAN])
    <3>1. assigned' \in Seq({Added(i) : i \in bound})
      BY <1>16, <2>2, ListingType DEF Restart
    <3>2. \A i \in bound : Added(i) \in [inst : Instance, kind : {"add", "update", "remove"},
                                         node : Node, deleting : BOOLEAN]
      BY DEF SchedulerTypeOK, Bound, Object, MaybeNode
    <3>3. {Added(i) : i \in bound} \subseteq
            [inst : Instance, kind : {"add", "update", "remove"}, node : Node, deleting : BOOLEAN]
      BY <3>2
    <3> HIDE DEF Added, bound
    <3> QED BY <3>1, <3>3, QueueType
  <2>4. nodeEvents' \in Seq([node : Node, kind : {"create", "delete"}])
    <3>1. nodeEvents' \in Seq({Created(n) : n \in up})
      BY <1>16, <2>2, ListingType DEF Restart
    <3>2. {Created(n) : n \in up} \subseteq [node : Node, kind : {"create", "delete"}]
      OBVIOUS
    <3> HIDE DEF Created, up
    <3> QED BY <3>1, <3>2, QueueType
  <2>5. store' \in [Instance -> Object]
    BY <1>16 DEF Restart, SchedulerTypeOK, Unborn, Object, Status, MaybeNode
  <2>6. cache' \in Cache /\ rec' \in Reconcile
    BY <1>16, NewCacheType DEF Restart, Reconcile
  <2>7. lost' \subseteq Instance
    BY <1>16, LosingType DEF Restart, SchedulerTypeOK
  <2> QED BY <1>16, <2>3, <2>4, <2>5, <2>6, <2>7 DEF Restart, SchedulerTypeOK, server
<1>17. CASE UNCHANGED vars
  BY <1>17 DEF vars, SchedulerTypeOK
<1> QED
  BY <1>1, <1>2, <1>3, <1>4, <1>5, <1>6, <1>7, <1>8, <1>9, <1>10, <1>11, <1>12, <1>13,
     <1>14, <1>15, <1>16, <1>17 DEF Next, User, Handlers, Reconciler

(* The scheduler starts well typed. *)
LEMMA InitType == Init => SchedulerTypeOK
<1> SUFFICES ASSUME Init PROVE SchedulerTypeOK
  OBVIOUS
<1>1. Unborn \in Object
  BY DEF Unborn, Object, Status, MaybeNode
<1>2. cache \in Cache
  BY NewCacheType, InitialNodesAssumption DEF Init
<1> QED
  BY <1>1, <1>2, SchedulerBounds DEF Init, SchedulerTypeOK, Reconcile

(* Every reachable state of the scheduler is well typed, whatever instances,
   nodes and constraints there are. *)
THEOREM SchedulerTypeCorrect == Spec => []SchedulerTypeOK
  BY InitType, NextType, PTL DEF Spec

(***************************************************************************)
(* Consistency of the cache                                                *)
(***************************************************************************)

(* ForgetInstance only goes on with instances that count as forgotten. *)
ForgettingMarked ==
    \A b \in binds : b.stage \in {"unlink", "drop"} => b.inst \in forgotten

(* The inductive invariant behind CacheConsistent. *)
CacheInv == SchedulerTypeOK /\ CacheConsistent /\ ForgettingMarked

(* Steps that leave the goroutines alone, or let one go on to an earlier
   stage than unlink, keep them marked. *)
LEMMA StillMarked ==
  ASSUME ForgettingMarked, forgotten \subseteq forgotten',
         \A b \in binds' : b.stage \in {"unlink", "drop"} =>
                              b \in binds \/ b.inst \in forgotten'
  PROVE  ForgettingMarked'
  BY DEF ForgettingMarked

(* Expiry removes every expired instance from the container it is in. *)
LEMMA CleanupConsistent ==
  ASSUME CacheInv, cleanupAssumedInstances
  PROVE  CacheConsistent'
<1> SUFFICES ASSUME NEW i \in Instance \ forgotten PROVE Consistent(cache', i)
  BY DEF CacheConsistent, cleanupAssumedInstances, history
<1>1. Consistent(cache, i) /\ cache \in Cache
  BY DEF CacheInv, CacheConsistent, SchedulerTypeOK
<1>2. CASE i \in cache.assumed \intersect cache.finished
  BY <1>1, <1>2, NoNodeAssumption DEF cleanupAssumedInstances, Consistent, Cache
<1>3. CASE i \notin cache.assumed \intersect cache.finished
  BY <1>1, <1>3 DEF cleanupAssumedInstances, Consistent, Cache
<1> QED BY <1>2, <1>3

(* Every step keeps the cache consistent. *)
LEMMA CacheStep == CacheInv /\ [Next]_vars => CacheInv'
<1> SUFFICES ASSUME CacheInv, [Next]_vars PROVE CacheConsistent' /\ ForgettingMarked'
  BY NextType DEF CacheInv
<1>1. ASSUME UNCHANGED <<cache, forgotten>> PROVE CacheConsistent'
  BY <1>1 DEF CacheInv, CacheConsistent
<1>2. ASSUME UNCHANGED <<binds, forgotten>> PROVE ForgettingMarked'
  BY <1>2 DEF CacheInv, ForgettingMarked
<1>3. cache \in Cache /\ binds \subseteq Bind
  BY DEF CacheInv, SchedulerTypeOK
<1>4. CASE User
  BY <1>1, <1>2, <1>4
     DEF User, CreateInstance, TouchInstance, DeleteInstance, CreateNode, DeleteNode,
         NodeStep, history
<1>5. CASE DeliverInstance \/ \E e \in unassigned : HandleUnassigned(e)
  BY <1>1, <1>2, <1>5 DEF DeliverInstance, HandleUnassigned, history
<1>6. CASE HandleAssigned
  <2> DEFINE e == Head(assigned)
             E == [inst : Instance, kind : {"add", "update", "remove"},
                   node : Node, deleting : BOOLEAN]
  <2>1. e \in E
    <3>1. assigned \in Seq(E) /\ assigned # <<>>
      BY <1>6 DEF HandleAssigned, CacheInv, SchedulerTypeOK
    <3> HIDE DEF E
    <3> QED BY <3>1, QueueType
  <2>2. ASSUME NEW i \in Instance \ forgotten PROVE Consistent(cache', i)
    <3>1. Consistent(cache, i)
      BY DEF CacheInv, CacheConsistent
    <3>2. /\ Consistent(AddInstance(cache, e.inst, e.node, e.deleting), i)
          /\ Consistent(UpdateInstance(cache, e.inst, e.node, e.deleting), i)
          /\ Consistent(RemoveInstance(cache, e.inst, e.node), i)
      BY <1>3, <2>1, <3>1, EventConsistent
    <3>3. e.kind \in {"add", "update", "remove"}
      BY <2>1
    <3> QED BY <1>6, <3>2, <3>3 DEF HandleAssigned
  <2>3. UNCHANGED <<binds, forgotten>>
    BY <1>6 DEF HandleAssigned, history
  <2> QED BY <1>2, <2>2, <2>3 DEF CacheConsistent
<1>7. CASE HandleNode
  <2>1. UNCHANGED <<binds, forgotten>> /\ \A i \in Instance : Same(cache, cache', i)
    BY <1>3, <1>7 DEF HandleNode, history, Same, Cache
  <2> QED BY <1>2, <2>1, SameConsistent DEF CacheInv, CacheConsistent
<1>8. CASE cleanupAssumedInstances
  <2>1. UNCHANGED <<binds, forgotten>>
    BY <1>8 DEF cleanupAssumedInstances, history
  <2> QED BY <1>2, <1>8, <2>1, CleanupConsistent
<1>9. CASE (\E i \in Instance : Get(i)) \/ CheckAssumed \/ Pick
  BY <1>1, <1>2, <1>9 DEF Get, CheckAssumed, Pick, history
<1>10. CASE Assume
  <2>1. rec.inst \in Instance /\ rec.node \in Node
    BY <1>10 DEF Assume, CacheInv, SchedulerTypeOK, Reconcile, Idle
  <2>2. ASSUME NEW i \in Instance \ forgotten PROVE Consistent(cache', i)
    <3>1. Consistent(cache, i)
      BY DEF CacheInv, CacheConsistent
    <3>2. CASE cache.state[rec.inst] # NoNode
      BY <1>10, <3>1, <3>2 DEF Assume
    <3>3. CASE cache.state[rec.inst] = NoNode
      <4>1. cache' = addInstance(cache, rec.inst, rec.node, FALSE, TRUE)
        BY <1>10, <3>3 DEF Assume
      <4>2. CASE i = rec.inst
        BY <1>3, <2>1, <3>1, <3>3, <4>1, <4>2, OwnConsistent
      <4>3. CASE i # rec.inst
        <5>1. Same(cache, cache', i)
          BY <1>3, <2>1, <4>1, <4>3, OthersSame
        <5> QED BY <3>1, <5>1, SameConsistent
      <4> QED BY <4>2, <4>3
    <3> QED BY <3>2, <3>3
  <2>3. forgotten' = forgotten
    BY <1>10 DEF Assume
  <2>4. ForgettingMarked'
    <3>1. \A b \in binds' : b \in binds \/ b.stage = "patch"
      <4>1. CASE cache.state[rec.inst] # NoNode
        BY <1>10, <4>1 DEF Assume
      <4>2. CASE cache.state[rec.inst] = NoNode
        BY <1>10, <4>2 DEF Assume
      <4> QED BY <4>1, <4>2
    <3> QED BY <2>3, <3>1, StillMarked DEF CacheInv
  <2> QED BY <2>2, <2>3, <2>4 DEF CacheConsistent
<1>11. ASSUME NEW b \in binds, Binding(b) PROVE CacheConsistent' /\ ForgettingMarked'
  <2>1. b.inst \in Instance /\ b.node \in Node
    BY <1>3 DEF Bind
  <2>2. \A st \in Stage : [b EXCEPT !.stage = st].stage = st /\ [b EXCEPT !.stage = st].inst = b.inst
    BY <1>3 DEF Bind
  <2>3. ASSUME NEW st \in Stage, Advance(b, st), forgotten \subseteq forgotten',
               st \in {"unlink", "drop"} => b.inst \in forgotten'
        PROVE  ForgettingMarked'
    <3>1. \A x \in binds' : x \in binds \/ x = [b EXCEPT !.stage = st]
      BY <2>3 DEF Advance
    <3> QED BY <2>2, <2>3, <3>1, StillMarked DEF CacheInv
  <2>4. ASSUME binds' = binds \ {b}, UNCHANGED forgotten PROVE ForgettingMarked'
    BY <2>4, StillMarked DEF CacheInv
  <2>5. CASE PatchApplied(b) \/ PatchFailed(b)
    <3>1. UNCHANGED <<cache, forgotten>> /\ (Advance(b, "ok") \/ Advance(b, "failed"))
      BY <2>5 DEF PatchApplied, PatchFailed, history
    <3>2. ForgettingMarked'
      BY <2>3, <3>1 DEF Stage
    <3> QED BY <1>1, <3>1, <3>2
  <2>6. CASE FinishBinding(b)
    <3>1. forgotten' = forgotten /\ (binds' = binds \ {b} \/ Advance(b, "forget"))
      BY <2>6 DEF FinishBinding, history
    <3>2. ForgettingMarked'
      BY <2>3, <2>4, <3>1 DEF Stage
    <3>3. ASSUME NEW i \in Instance \ forgotten PROVE Consistent(cache', i)
      <4>1. Consistent(cache, i)
        BY DEF CacheInv, CacheConsistent
      <4> QED BY <1>3, <2>1, <2>6, <4>1 DEF FinishBinding, Consistent, Cache
    <3> QED BY <3>1, <3>2, <3>3 DEF CacheConsistent
  <2>7. CASE ForgetInstance(b)
    <3>1. cache' = cache /\ forgotten \subseteq forgotten'
      BY <2>7 DEF ForgetInstance
    <3>2. \/ Advance(b, "unlink") /\ b.inst \in forgotten'
          \/ binds' = binds \ {b} /\ UNCHANGED forgotten
      BY <2>7 DEF ForgetInstance
    <3>3. ForgettingMarked'
      BY <2>3, <2>4, <3>1, <3>2 DEF Stage
    <3> QED BY <3>1, <3>3 DEF CacheInv, CacheConsistent
  <2>8. CASE ForgetUnlink(b)
    <3>1. forgotten' = forgotten /\ b.inst \in forgotten /\ Advance(b, "drop")
      BY <2>8 DEF ForgetUnlink, history, CacheInv, ForgettingMarked
    <3>2. ForgettingMarked'
      BY <2>3, <3>1 DEF Stage
    <3>3. ASSUME NEW i \in Instance \ forgotten PROVE Consistent(cache', i)
      <4>1. Consistent(cache, i) /\ i # b.inst
        BY <3>1 DEF CacheInv, CacheConsistent
      <4>2. cache' = Unlink(cache, b.inst, b.node)
        BY <2>8 DEF ForgetUnlink
      <4>3. Same(cache, cache', i)
        BY <1>3, <2>1, <4>1, <4>2, OthersSame
      <4> QED BY <4>1, <4>3, SameConsistent
    <3> QED BY <3>1, <3>2, <3>3 DEF CacheConsistent
  <2>9. CASE ForgetDrop(b)
    <3>1. forgotten' = forgotten /\ b.inst \in forgotten /\ binds' = binds \ {b}
      BY <2>9 DEF ForgetDrop, history, CacheInv, ForgettingMarked
    <3>2. ForgettingMarked'
      BY <2>4, <3>1
    <3>3. ASSUME NEW i \in Instance \ forgotten PROVE Consistent(cache', i)
      <4>1. Consistent(cache, i) /\ i # b.inst
        BY <3>1 DEF CacheInv, CacheConsistent
      <4>2. cache' = Drop(cache, b.inst)
        BY <2>9 DEF ForgetDrop
      <4>3. Same(cache, cache', i)
        BY <1>3, <2>1, <4>1, <4>2, OthersSame
      <4> QED BY <4>1, <4>3, SameConsistent
    <3> QED BY <3>1, <3>2, <3>3 DEF CacheConsistent
  <2> QED BY <1>11, <2>5, <2>6, <2>7, <2>8, <2>9 DEF Binding
<1>12. CASE Restart
  <2>1. cache' = NewCache /\ binds' = {} /\ forgotten' = forgotten
    BY <1>12 DEF Restart
  <2>2. \A i \in Instance : Consistent(NewCache, i)
    BY NoNodeAssumption DEF NewCache, Consistent
  <2> QED BY <2>1, <2>2 DEF CacheConsistent, ForgettingMarked
<1>13. CASE UNCHANGED vars
  BY <1>1, <1>2, <1>13 DEF vars
<1> QED
  BY <1>4, <1>5, <1>6, <1>7, <1>8, <1>9, <1>10, <1>11, <1>12, <1>13
     DEF Next, Handlers, Reconciler

(* instanceStates, assumedInstances and the containers agree on every
   instance the unlocked ForgetInstance did not touch, whatever the
   interleaving of handlers, worker, goroutines, expiry and restarts. *)
THEOREM ConsistentCache == Spec => []CacheConsistent
<1>1. Init => CacheInv
  <2> SUFFICES ASSUME Init PROVE CacheConsistent /\ ForgettingMarked
    BY InitType DEF CacheInv
  <2>1. \A i \in Instance : Consistent(cache, i)
    BY NoNodeAssumption DEF Init, NewCache, Consistent
  <2> QED BY <2>1 DEF Init, CacheConsistent, ForgettingMarked
<1> QED BY <1>1, CacheStep, PTL DEF Spec, CacheInv
=============================================================================
