------------------------ MODULE SchedulerEventProofs ------------------------
(***************************************************************************)
(* What the scheduler's cache knows from events and assumptions is right,  *)
(* for any instances, nodes, constraints and bounds: the checks that panic *)
(* never fail, a cache that has seen everything has everything, and        *)
(* instances that refuse each other are kept apart.                        *)
(***************************************************************************)
EXTENDS SchedulerProofs

(***************************************************************************)
(* The inductive invariant: events                                         *)
(***************************************************************************)

(* An object o that p can follow: it has not ended, and its node is final. *)
Before(o, p) == o.status # "gone" /\ o.node \in {NoNode, p.node}

(* Watchers have seen, or will see, i on its node before they see it go. *)
Shown(i) ==
    \/ store[i].node # NoNode
    \/ \E k \in DOMAIN watch : /\ watch[k].inst = i /\ watch[k].obj.status # "gone"
                               /\ watch[k].obj.node # NoNode

(* The last thing on its way to the informer about i is at k. *)
LastOf(i, k) ==
    watch[k].inst = i /\ \A h \in DOMAIN watch : k < h => watch[h].inst # i

(* The informer and its watch hold a history of i that ends with the instance
   as it is, unless it was gone before the informer began to list. *)
UpToDate(i) ==
    \/ \E k \in DOMAIN watch : LastOf(i, k) /\ watch[k].obj = api[i]
    \/ /\ \A k \in DOMAIN watch : watch[k].inst # i
       /\ store[i] = api[i] \/ (api[i].status = "gone" /\ store[i] = Unborn)

(* Events reach the informer in the order of the changes. *)
WatchInv ==
    /\ \A i \in Instance :
          /\ api[i].status = "new" => api[i].node = NoNode
          /\ store[i] = api[i] \/ Before(store[i], api[i])
          /\ UpToDate(i)
    /\ \A j \in DOMAIN watch :
          LET i == watch[j].inst
              o == watch[j].obj
          IN /\ Before(store[i], o)
             /\ o = api[i] \/ Before(o, api[i])
             /\ o.status = "gone" /\ o.node # NoNode => Shown(i)
             /\ \A k \in DOMAIN watch : j < k /\ watch[k].inst = i => Before(o, watch[k].obj)

(* An event of this kind about i waits for handleAssignedInstances. *)
Pending(i, kind) ==
    \E k \in DOMAIN assigned : assigned[k].inst = i /\ assigned[k].kind = kind

(* The informer has i on a node, or has announced its removal. *)
Backed(i) ==
    store[i].node # NoNode /\ (store[i].status = "gone" => Pending(i, "remove"))

(* Events name the node the instance has, and its removal comes last. *)
AssignedInv ==
    \A j \in DOMAIN assigned :
       LET i == assigned[j].inst IN
       /\ assigned[j].node = api[i].node
       /\ assigned[j].kind = "remove" => store[i].status = "gone"
       /\ assigned[j].kind # "remove" => Backed(i)
       /\ \A k \in DOMAIN assigned :
             j < k /\ assigned[k].inst = i => assigned[j].kind # "remove"

(* The cache knows where i is, and does not merely assume it. *)
Confirmed(i) == cache.state[i] # NoNode /\ i \notin cache.assumed

(* The cache knows i or is about to be told. *)
Told(i) == Confirmed(i) \/ Pending(i, "add")

(* What is known of an instance came from its events, and what the informer
   has of it is known. *)
KnownInv ==
    \A i \in Instance \ forgotten :
       /\ Confirmed(i) => cache.state[i] = api[i].node /\ Backed(i)
       /\ store[i].node # NoNode /\ store[i].status # "gone" => Told(i)
       /\ Pending(i, "remove") => Told(i)

EventInv == CacheInv /\ WatchInv /\ AssignedInv /\ KnownInv /\ NeverCorrupted

(***************************************************************************)
(* The inductive invariant: placements                                     *)
(***************************************************************************)

Attempted(i) == \E b \in binds : b.inst = i /\ b.stage = "patch"

(* i has a node or may be given one, and the cache never lost sight of it. *)
Counted(i) ==
    /\ i \notin lost \union forgotten
    /\ api[i].status # "gone"
    /\ api[i].node # NoNode \/ Attempted(i)

(* A node the cache has or had. *)
Met(n) == n \in cache.known \/ nodes[n] = "gone"

(* Instances i and e can be where they are. *)
KeptApart(i, n, e, m) == nodes[n] = "up" /\ nodes[m] = "up" => ~Refused(i, n, e, m)

NodesInv ==
    /\ \A j \in DOMAIN nodeEvents :
          IF nodeEvents[j].kind = "create" THEN nodes[nodeEvents[j].node] # "new"
                                           ELSE nodes[nodeEvents[j].node] = "gone"
    /\ \A n \in cache.known : nodes[n] # "new"

(* The cache has every instance that counts where it is or is going to be. *)
PlaceInv ==
    \A i \in Instance :
       Counted(i) =>
          /\ cache.state[i] \in Node /\ Met(cache.state[i])
          /\ api[i].node \in {NoNode, cache.state[i]}
          /\ \A b \in binds : b.inst = i /\ b.stage = "patch" => b.node = cache.state[i]

ApartInv ==
    /\ \A i, e \in Instance :
          Counted(i) /\ Counted(e) /\ i # e =>
             KeptApart(i, cache.state[i], e, cache.state[e])
    /\ rec.pc = "assume" =>
          /\ Met(rec.node)
          /\ \A e \in Instance :
                Counted(e) /\ e # rec.inst =>
                   KeptApart(rec.inst, rec.node, e, cache.state[e])

PlacementInv == EventInv /\ NodesInv /\ PlaceInv /\ ApartInv
-----------------------------------------------------------------------------
(***************************************************************************)
(* Queues                                                                  *)
(***************************************************************************)

(* t is s with e at its end. *)
Grown(s, t, e) ==
    /\ Len(s) + 1 \in DOMAIN t /\ t[Len(s) + 1] = e
    /\ \A k \in DOMAIN t : ~(Len(s) + 1 < k)
    /\ \A j \in DOMAIN s : j \in DOMAIN t /\ t[j] = s[j] /\ j < Len(s) + 1
    /\ \A j \in DOMAIN t : (j \in DOMAIN s /\ t[j] = s[j]) \/ (j = Len(s) + 1 /\ t[j] = e)
    /\ \A j, k \in DOMAIN t : j < k => j \in DOMAIN s /\ t[j] = s[j]

(* t is s without its first element e. *)
Shrunk(s, t, e) ==
    /\ 1 \in DOMAIN s /\ s[1] = e
    /\ \A j \in DOMAIN t : j + 1 \in DOMAIN s /\ t[j] = s[j + 1] /\ 1 < j + 1
    /\ \A j \in DOMAIN s : (j = 1 /\ s[j] = e) \/ (j - 1 \in DOMAIN t /\ t[j - 1] = s[j])
    /\ \A j, k \in DOMAIN t : j < k => j + 1 < k + 1
    /\ \A j \in DOMAIN s, k \in DOMAIN t : j - 1 < k => j < k + 1

LEMMA AppendGrows ==
  ASSUME NEW S, NEW s \in Seq(S), NEW e \in S
  PROVE  Grown(s, Append(s, e), e)
<1>1. Len(s) \in Nat /\ DOMAIN s = 1 .. Len(s)
  OBVIOUS
<1>2. /\ DOMAIN Append(s, e) = 1 .. Len(s) + 1
      /\ \A j \in 1 .. Len(s) : Append(s, e)[j] = s[j]
      /\ Append(s, e)[Len(s) + 1] = e
  OBVIOUS
<1>3. QED BY <1>1, <1>2 DEF Grown

LEMMA TailShrinks ==
  ASSUME NEW S, NEW s \in Seq(S), s # <<>>
  PROVE  Shrunk(s, Tail(s), Head(s)) /\ Head(s) \in S
<1>1. Len(s) \in Nat \ {0} /\ DOMAIN s = 1 .. Len(s)
  OBVIOUS
<1>2. /\ DOMAIN Tail(s) = 1 .. Len(s) - 1
      /\ \A j \in 1 .. Len(s) - 1 : Tail(s)[j] = s[j + 1]
      /\ Head(s) = s[1]
  OBVIOUS
<1>3. \A j \in 1 .. Len(s) : j = 1 \/ (j - 1 \in 1 .. Len(s) - 1 /\ (j - 1) + 1 = j)
  BY <1>1
<1>4. QED BY <1>1, <1>2, <1>3 DEF Shrunk

WatchEvent == [inst : Instance, obj : Object]
AssignedEvent == [inst : Instance, kind : {"add", "update", "remove"},
                  node : Node, deleting : BOOLEAN]

LEMMA EventTypes ==
  ASSUME SchedulerTypeOK
  PROVE  /\ watch \in Seq(WatchEvent) /\ assigned \in Seq(AssignedEvent)
         /\ \A j \in DOMAIN watch : watch[j] \in WatchEvent
         /\ \A j \in DOMAIN assigned : assigned[j] \in AssignedEvent
         /\ api \in [Instance -> Object] /\ store \in [Instance -> Object]
         /\ cache.state \in [Instance -> MaybeNode]
<1>1. watch \in Seq(WatchEvent) /\ assigned \in Seq(AssignedEvent)
  BY DEF SchedulerTypeOK, WatchEvent, AssignedEvent
<1>2. \A S : \A s \in Seq(S) : \A j \in DOMAIN s : s[j] \in S
  OBVIOUS
<1>3. QED BY <1>1, <1>2 DEF SchedulerTypeOK, Cache
-----------------------------------------------------------------------------
(***************************************************************************)
(* A change of an instance                                                 *)
(***************************************************************************)

(* i, which exists or is to be, becomes o. *)
Change(i, o) ==
    /\ Put(i, o)
    /\ i \in Instance /\ o \in Object /\ o.status # "new"
    /\ Before(api[i], o)
    /\ o.status = "gone" => o.node = api[i].node

(* What users and patches do to instances. *)
LEMMA Changes ==
  ASSUME SchedulerTypeOK, WatchInv, NEW i \in Instance
  PROVE  /\ CreateInstance(i) \/ TouchInstance(i) \/ DeleteInstance(i) => \E o : Change(i, o)
         /\ \A b \in binds :
               PatchApplied(b) => \/ UNCHANGED <<api, watch>> /\ api[b.inst].node = b.node
                                  \/ /\ \E o : Change(b.inst, o)
                                     /\ api[b.inst].node = NoNode
                                     /\ api'[b.inst].node = b.node
<1>1. api \in [Instance -> Object] /\ binds \subseteq Bind
  BY DEF SchedulerTypeOK
<1>2. ASSUME CreateInstance(i) PROVE \E o : Change(i, o)
  <2>1. Change(i, [status |-> "live", node |-> NoNode])
    BY <1>1, <1>2 DEF CreateInstance, Change, Before, Object, Status, MaybeNode, WatchInv
  <2> QED BY <2>1
<1>3. ASSUME TouchInstance(i) PROVE \E o : Change(i, o)
  <2>1. Change(i, api[i])
    BY <1>1, <1>3 DEF TouchInstance, Change, Before
  <2> QED BY <2>1
<1>4. ASSUME DeleteInstance(i) PROVE \E o : Change(i, o)
  <2>1. PICK st \in {"gone", "deleting"} : /\ Put(i, [api[i] EXCEPT !.status = st])
                                           /\ api[i].status \in {"live", "deleting"}
    BY <1>4 DEF DeleteInstance
  <2>2. /\ [api[i] EXCEPT !.status = st] \in Object
        /\ [api[i] EXCEPT !.status = st].status = st
        /\ [api[i] EXCEPT !.status = st].node = api[i].node
    BY <1>1 DEF Object, Status
  <2>3. Change(i, [api[i] EXCEPT !.status = st])
    BY <1>1, <2>1, <2>2 DEF Change, Before
  <2> QED BY <2>3
<1>5. ASSUME NEW b \in binds, PatchApplied(b), ~(UNCHANGED <<api, watch>> /\ api[b.inst].node = b.node)
      PROVE  /\ \E o : Change(b.inst, o)
             /\ api[b.inst].node = NoNode
             /\ api'[b.inst].node = b.node
  <2>1. b.inst \in Instance /\ b.node \in Node
    BY <1>1 DEF Bind
  <2>2. /\ Put(b.inst, [api[b.inst] EXCEPT !.node = b.node])
        /\ api[b.inst].status \in {"live", "deleting"}
        /\ api[b.inst].node = NoNode
    BY <1>5 DEF PatchApplied, Bindable
  <2>3. /\ [api[b.inst] EXCEPT !.node = b.node] \in Object
        /\ [api[b.inst] EXCEPT !.node = b.node].status = api[b.inst].status
        /\ [api[b.inst] EXCEPT !.node = b.node].node = b.node
    BY <1>1, <2>1 DEF Object, MaybeNode
  <2>4. Change(b.inst, [api[b.inst] EXCEPT !.node = b.node])
    BY <1>1, <2>1, <2>2, <2>3 DEF Change, Before
  <2>5. api'[b.inst].node = b.node
    BY <1>1, <2>1, <2>2, <2>3 DEF Put
  <2> QED BY <2>2, <2>4, <2>5
<1> QED BY <1>2, <1>3, <1>4, <1>5

(* The watch is told of a change in order. *)
LEMMA ChangeWatch ==
  ASSUME SchedulerTypeOK, WatchInv, NEW i, NEW o, Change(i, o), store' = store
  PROVE  WatchInv'
<1>1. /\ api' = [api EXCEPT ![i] = o] /\ api \in [Instance -> Object]
      /\ i \in Instance /\ o \in Object
      /\ Grown(watch, watch', [inst |-> i, obj |-> o])
  BY EventTypes, AppendGrows DEF Change, Put, WatchEvent
<1>2. /\ api'[i] = o
      /\ \A h \in Instance \ {i} : api'[h] = api[h]
  BY <1>1
<1>3. \A p \in Object : Before(p, api[i]) => Before(p, o)
  BY DEF Change, Before
<1>4. Before(api[i], o)
  BY DEF Change
<1>5. \A j \in DOMAIN watch : watch[j] \in WatchEvent
  BY EventTypes
<1>6. \A h \in Instance : Shown(h) => Shown(h)'
  BY <1>1 DEF Shown, Grown
<1>7. ASSUME NEW h \in Instance
      PROVE  /\ api'[h].status = "new" => api'[h].node = NoNode
             /\ store'[h] = api'[h] \/ Before(store'[h], api'[h])
             /\ UpToDate(h)'
  <2>1. CASE h = i
    <3>1. UpToDate(i)'
      BY <1>1, <1>2 DEF UpToDate, Grown, LastOf
    <3>2. store[i] \in Object
      BY EventTypes, <1>1
    <3> QED BY <1>2, <1>3, <1>4, <2>1, <3>1, <3>2 DEF WatchInv, Change
  <2>2. CASE h # i
    <3>1. UpToDate(h)
      BY DEF WatchInv
    <3>2. ASSUME NEW k \in DOMAIN watch, LastOf(h, k), watch[k].obj = api[h]
          PROVE  UpToDate(h)'
      <4>1. k \in DOMAIN watch' /\ watch'[k] = watch[k]
        BY <1>1 DEF Grown
      <4>2. LastOf(h, k)'
        BY <1>1, <2>2, <3>2, <4>1 DEF LastOf, Grown
      <4> QED BY <1>2, <2>2, <3>2, <4>1, <4>2 DEF UpToDate
    <3>3. ASSUME \A k \in DOMAIN watch : watch[k].inst # h
          PROVE  UpToDate(h)'
      <4>1. \A k \in DOMAIN watch' : watch'[k].inst # h
        BY <1>1, <2>2, <3>3 DEF Grown
      <4>2. store[h] = api[h] \/ (api[h].status = "gone" /\ store[h] = Unborn)
        BY <3>1, <3>3 DEF UpToDate, LastOf
      <4> QED BY <1>2, <2>2, <4>1, <4>2 DEF UpToDate
    <3>4. UpToDate(h)'
      BY <3>1, <3>2, <3>3 DEF UpToDate
    <3> QED BY <1>2, <2>2, <3>4 DEF WatchInv
  <2> QED BY <2>1, <2>2
<1>8. ASSUME NEW j \in DOMAIN watch, NEW h, h = watch[j].inst, NEW p, p = watch[j].obj
      PROVE  /\ Before(store'[h], p)
             /\ p = api'[h] \/ Before(p, api'[h])
             /\ p.status = "gone" /\ p.node # NoNode => Shown(h)'
             /\ h = i => Before(p, o)
             /\ \A k \in DOMAIN watch : j < k /\ watch[k].inst = h => Before(p, watch[k].obj)
  <2>1. h \in Instance /\ p \in Object
    BY <1>5, <1>8 DEF WatchEvent
  <2>2. /\ Before(store[h], p)
        /\ p = api[h] \/ Before(p, api[h])
        /\ p.status = "gone" /\ p.node # NoNode => Shown(h)
        /\ \A k \in DOMAIN watch : j < k /\ watch[k].inst = h => Before(p, watch[k].obj)
    BY <1>8 DEF WatchInv
  <2>3. h = i => Before(p, o)
    BY <1>3, <1>4, <2>1, <2>2
  <2> QED BY <1>2, <1>6, <2>1, <2>2, <2>3
<1>9. /\ Before(store'[i], o)
      /\ o = api'[i]
      /\ o.status = "gone" /\ o.node # NoNode => Shown(i)'
  <2>1. store[i] = api[i] \/ Before(store[i], api[i])
    BY <1>1 DEF WatchInv
  <2>2. store[i] \in Object
    BY EventTypes, <1>1
  <2>3. Before(store'[i], o)
    BY <1>3, <1>4, <2>1, <2>2
  <2>4. ASSUME o.status = "gone", o.node # NoNode PROVE Shown(i)
    <3>1. api[i].node # NoNode /\ api[i].status # "gone"
      BY <2>4 DEF Change, Before
    <3>2. UpToDate(i)
      BY <1>1 DEF WatchInv
    <3> QED BY <3>1, <3>2 DEF UpToDate, Shown, Unborn, LastOf
  <2> QED BY <1>1, <1>2, <1>6, <2>3, <2>4
<1>10. ASSUME NEW j \in DOMAIN watch', NEW h, h = watch'[j].inst, NEW p, p = watch'[j].obj
       PROVE  /\ Before(store'[h], p)
              /\ p = api'[h] \/ Before(p, api'[h])
              /\ p.status = "gone" /\ p.node # NoNode => Shown(h)'
              /\ \A k \in DOMAIN watch' : j < k /\ watch'[k].inst = h => Before(p, watch'[k].obj)
  <2>1. CASE j \in DOMAIN watch /\ watch'[j] = watch[j]
    <3>1. /\ Before(store'[h], p)
          /\ p = api'[h] \/ Before(p, api'[h])
          /\ p.status = "gone" /\ p.node # NoNode => Shown(h)'
          /\ h = i => Before(p, o)
          /\ \A k \in DOMAIN watch : j < k /\ watch[k].inst = h => Before(p, watch[k].obj)
      BY <1>8, <1>10, <2>1
    <3>2. ASSUME NEW k \in DOMAIN watch', j < k, watch'[k].inst = h
          PROVE  Before(p, watch'[k].obj)
      BY <1>1, <3>1, <3>2 DEF Grown
    <3> QED BY <3>1, <3>2
  <2>2. CASE j \notin DOMAIN watch \/ watch'[j] # watch[j]
    <3>1. h = i /\ p = o
      BY <1>1, <1>10, <2>2 DEF Grown
    <3>2. \A k \in DOMAIN watch' : ~(j < k)
      BY <1>1, <2>2 DEF Grown
    <3> QED BY <1>9, <3>1, <3>2
  <2> QED BY <2>1, <2>2
<1> QED BY <1>7, <1>10 DEF WatchInv

(* Events that are out remain true: a node, once given, is final. *)
LEMMA ChangeKnown ==
  ASSUME SchedulerTypeOK, AssignedInv, KnownInv, NEW i, NEW o, Change(i, o),
         UNCHANGED <<store, assigned, cache, forgotten>>
  PROVE  AssignedInv' /\ KnownInv'
<1>1. api' = [api EXCEPT ![i] = o] /\ api \in [Instance -> Object] /\ i \in Instance
  BY DEF Change, Put, SchedulerTypeOK
<1>2. \A h \in Instance : api[h].node # NoNode => api'[h].node = api[h].node
  BY <1>1 DEF Change, Before
<1>3. \A j \in DOMAIN assigned : assigned[j].inst \in Instance /\ assigned[j].node # NoNode
  BY EventTypes, NoNodeAssumption DEF AssignedEvent
<1>4. AssignedInv'
  BY <1>2, <1>3 DEF AssignedInv, Backed, Pending
<1>5. KnownInv'
  BY <1>2 DEF KnownInv, Confirmed, Told, Backed, Pending
<1> QED BY <1>4, <1>5
-----------------------------------------------------------------------------
(***************************************************************************)
(* Delivery of an event                                                    *)
(***************************************************************************)

(* The informer takes the change of i to o from the watch. *)
Delivery(i, o) ==
    /\ i \in Instance /\ o \in Object
    /\ Shrunk(watch, watch', [inst |-> i, obj |-> o])
    /\ store' = [store EXCEPT ![i] = o]
    /\ IF o.node # NoNode
       THEN \E e \in AssignedEvent :
               /\ Grown(assigned, assigned', e)
               /\ e.inst = i /\ e.node = o.node
               /\ e.kind = "remove" <=> o.status = "gone"
               /\ o.status # "gone" => (e.kind = "add" <=> store[i].node = NoNode)
       ELSE assigned' = assigned
    /\ UNCHANGED <<api, cache, binds, forgotten, corrupted>>

LEMMA Deliveries ==
  ASSUME SchedulerTypeOK, DeliverInstance
  PROVE  \E i, o : Delivery(i, o)
<1> DEFINE i == Head(watch).inst
           o == Head(watch).obj
           e == [inst |-> i, node |-> o.node, deleting |-> o.status = "deleting",
                 kind |-> CASE o.status = "gone" -> "remove"
                            [] o.status # "gone" /\ store[i].node = NoNode -> "add"
                            [] OTHER -> "update"]
<1>1. Shrunk(watch, watch', Head(watch)) /\ Head(watch) \in WatchEvent
  BY EventTypes, TailShrinks DEF DeliverInstance
<1>2. i \in Instance /\ o \in Object /\ Head(watch) = [inst |-> i, obj |-> o]
  BY <1>1 DEF WatchEvent
<1>3. /\ e.kind \in {"add", "update", "remove"}
      /\ e.kind = "remove" <=> o.status = "gone"
      /\ o.status # "gone" => (e.kind = "add" <=> store[i].node = NoNode)
      /\ e.inst = i /\ e.node = o.node
  OBVIOUS
<1>4. o.node # NoNode => e \in AssignedEvent
  BY <1>2, <1>3 DEF AssignedEvent, Object, MaybeNode
<1>5. /\ assigned' = IF o.node # NoNode THEN Append(assigned, e) ELSE assigned
      /\ store' = [store EXCEPT ![i] = o]
      /\ UNCHANGED <<api, cache, binds, forgotten, corrupted>>
  BY DEF DeliverInstance, isInstanceAssigned, server, history
<1> HIDE DEF i, o, e
<1>6. o.node # NoNode => Grown(assigned, assigned', e)
  BY <1>4, <1>5, EventTypes, AppendGrows
<1>7. Delivery(i, o)
  BY <1>1, <1>2, <1>3, <1>4, <1>5, <1>6 DEF Delivery
<1> QED BY <1>7

(* The rest of the history is a history. *)
LEMMA DeliveryWatch ==
  ASSUME SchedulerTypeOK, WatchInv, NEW i, NEW o, Delivery(i, o)
  PROVE  WatchInv' /\ Before(store[i], o) /\ (o.status = "gone" /\ o.node # NoNode => store[i].node # NoNode)
         /\ (o = api[i] \/ Before(o, api[i]))
<1>1. /\ i \in Instance /\ o \in Object /\ api' = api
      /\ Shrunk(watch, watch', [inst |-> i, obj |-> o])
      /\ store'[i] = o /\ \A h \in Instance \ {i} : store'[h] = store[h]
  BY EventTypes DEF Delivery
<1>2. 1 \in DOMAIN watch /\ watch[1].inst = i /\ watch[1].obj = o
  BY <1>1 DEF Shrunk
<1>3. /\ Before(store[i], o)
      /\ o = api[i] \/ Before(o, api[i])
      /\ o.status = "gone" /\ o.node # NoNode => Shown(i)
      /\ \A k \in DOMAIN watch : 1 < k /\ watch[k].inst = i => Before(o, watch[k].obj)
  BY <1>2 DEF WatchInv
<1>4. \A k \in DOMAIN watch : watch[k].inst = i /\ o.status = "gone" => k = 1
  BY <1>1, <1>3 DEF Shrunk, Before
<1>5. o.status = "gone" /\ o.node # NoNode => store[i].node # NoNode
  BY <1>2, <1>3, <1>4 DEF Shown
<1>6. ASSUME NEW h \in Instance, Shown(h) PROVE Shown(h)'
  <2>1. CASE store[h].node # NoNode
    BY <1>1, <1>3, <2>1 DEF Shown, Before
  <2>2. CASE store[h].node = NoNode
    <3>1. PICK k \in DOMAIN watch : /\ watch[k].inst = h /\ watch[k].obj.status # "gone"
                                    /\ watch[k].obj.node # NoNode
      BY <1>6, <2>2 DEF Shown
    <3>2. CASE k = 1
      BY <1>1, <1>2, <3>1, <3>2 DEF Shown
    <3>3. CASE k # 1
      <4>1. k - 1 \in DOMAIN watch' /\ watch'[k - 1] = watch[k]
        BY <1>1, <3>3 DEF Shrunk
      <4> QED BY <3>1, <4>1 DEF Shown
    <3> QED BY <3>2, <3>3
  <2> QED BY <2>1, <2>2
<1>7. ASSUME NEW h \in Instance PROVE UpToDate(h)'
  <2>1. UpToDate(h)
    BY DEF WatchInv
  <2>2. ASSUME NEW k \in DOMAIN watch, LastOf(h, k), watch[k].obj = api[h], k # 1
        PROVE  UpToDate(h)'
    <3>1. k - 1 \in DOMAIN watch' /\ watch'[k - 1] = watch[k]
      BY <1>1, <2>2 DEF Shrunk
    <3>2. ASSUME NEW g \in DOMAIN watch', k - 1 < g PROVE watch'[g].inst # h
      <4>1. g + 1 \in DOMAIN watch /\ watch'[g] = watch[g + 1]
        BY <1>1 DEF Shrunk
      <4>2. k < g + 1
        BY <1>1, <3>2 DEF Shrunk
      <4> QED BY <2>2, <4>1, <4>2 DEF LastOf
    <3>3. LastOf(h, k - 1)'
      BY <2>2, <3>1, <3>2 DEF LastOf
    <3> QED BY <1>1, <2>2, <3>1, <3>3 DEF UpToDate
  <2>3. ASSUME LastOf(h, 1), watch[1].obj = api[h] PROVE UpToDate(h)'
    <3>1. h = i
      BY <1>2, <2>3 DEF LastOf
    <3>2. \A g \in DOMAIN watch' : watch'[g].inst # i
      BY <1>1, <2>3, <3>1 DEF Shrunk, LastOf
    <3> QED BY <1>1, <1>2, <2>3, <3>1, <3>2 DEF UpToDate
  <2>4. ASSUME \A k \in DOMAIN watch : watch[k].inst # h,
               store[h] = api[h] \/ (api[h].status = "gone" /\ store[h] = Unborn)
        PROVE  UpToDate(h)'
    <3>1. h # i
      BY <1>2, <2>4
    <3>2. \A g \in DOMAIN watch' : watch'[g].inst # h
      BY <1>1, <2>4 DEF Shrunk
    <3> QED BY <1>1, <2>4, <3>1, <3>2 DEF UpToDate
  <2> QED BY <2>1, <2>2, <2>3, <2>4 DEF UpToDate
<1>8. \A h \in Instance : /\ api'[h].status = "new" => api'[h].node = NoNode
                          /\ store'[h] = api'[h] \/ Before(store'[h], api'[h])
  BY <1>1, <1>3 DEF WatchInv
<1>9. ASSUME NEW j \in DOMAIN watch', NEW h, h = watch'[j].inst, NEW p, p = watch'[j].obj
      PROVE  /\ Before(store'[h], p)
             /\ p = api'[h] \/ Before(p, api'[h])
             /\ p.status = "gone" /\ p.node # NoNode => Shown(h)'
             /\ \A k \in DOMAIN watch' : j < k /\ watch'[k].inst = h => Before(p, watch'[k].obj)
  <2>1. j + 1 \in DOMAIN watch /\ watch[j + 1] = watch'[j] /\ 1 < j + 1
    BY <1>1 DEF Shrunk
  <2>2. h \in Instance
    BY <1>9, <2>1, EventTypes DEF WatchEvent
  <2>3. /\ Before(store[h], p)
        /\ p = api[h] \/ Before(p, api[h])
        /\ p.status = "gone" /\ p.node # NoNode => Shown(h)
        /\ \A k \in DOMAIN watch : j + 1 < k /\ watch[k].inst = h => Before(p, watch[k].obj)
    BY <1>9, <2>1 DEF WatchInv
  <2>4. Before(store'[h], p)
    BY <1>1, <1>3, <1>9, <2>1, <2>2, <2>3
  <2>5. ASSUME NEW k \in DOMAIN watch', j < k, watch'[k].inst = h PROVE Before(p, watch'[k].obj)
    <3>1. k + 1 \in DOMAIN watch /\ watch[k + 1] = watch'[k] /\ j + 1 < k + 1
      BY <1>1, <2>5 DEF Shrunk
    <3> QED BY <2>3, <2>5, <3>1
  <2> QED BY <1>1, <1>6, <2>2, <2>3, <2>4, <2>5
<1>10. WatchInv'
  BY <1>7, <1>8, <1>9 DEF WatchInv
<1> QED BY <1>3, <1>5, <1>10

(* What is announced is announced for good, and once. *)
LEMMA DeliveryKnown ==
  ASSUME SchedulerTypeOK, WatchInv, AssignedInv, KnownInv, NEW i, NEW o, Delivery(i, o)
  PROVE  AssignedInv' /\ KnownInv'
<1>1. /\ i \in Instance /\ o \in Object /\ api' = api
      /\ store'[i] = o /\ \A h \in Instance \ {i} : store'[h] = store[h]
      /\ UNCHANGED <<cache, forgotten>>
  BY EventTypes DEF Delivery
<1>2. /\ Before(store[i], o)
      /\ o.status = "gone" /\ o.node # NoNode => store[i].node # NoNode
      /\ o = api[i] \/ Before(o, api[i])
  BY DeliveryWatch
<1>3. \A j \in DOMAIN assigned : assigned[j].inst = i => assigned[j].kind # "remove"
  BY <1>2 DEF AssignedInv, Before
<1>4. /\ \A j \in DOMAIN assigned : assigned[j] \in AssignedEvent
      /\ api[i] \in Object /\ store[i] \in Object
  BY <1>1, EventTypes
<1>5. CASE o.node = NoNode
  <2>1. assigned' = assigned
    BY <1>5 DEF Delivery
  <2>2. store[i].node = NoNode
    BY <1>2, <1>5 DEF Before
  <2>3. \A h \in Instance : Backed(h) => h # i
    BY <2>2 DEF Backed
  <2>4. \A h \in Instance : Backed(h) => Backed(h)'
    BY <1>1, <2>1, <2>3 DEF Backed, Pending
  <2>5. AssignedInv'
    <3>1. ASSUME NEW j \in DOMAIN assigned, NEW h, h = assigned[j].inst
          PROVE  /\ assigned[j].node = api[h].node
                 /\ assigned[j].kind = "remove" => store'[h].status = "gone"
                 /\ assigned[j].kind # "remove" => Backed(h)'
      <4>1. h \in Instance
        BY <1>4, <3>1 DEF AssignedEvent
      <4> QED BY <1>1, <1>3, <2>4, <3>1, <4>1 DEF AssignedInv
    <3> QED BY <1>1, <2>1, <3>1 DEF AssignedInv
  <2>6. KnownInv'
    BY <1>1, <1>5, <2>1, <2>4 DEF KnownInv, Confirmed, Told, Pending
  <2> QED BY <2>5, <2>6
<1>6. CASE o.node # NoNode
  <2>1. PICK e \in AssignedEvent :
               /\ Grown(assigned, assigned', e)
               /\ e.inst = i /\ e.node = o.node
               /\ e.kind = "remove" <=> o.status = "gone"
               /\ o.status # "gone" => (e.kind = "add" <=> store[i].node = NoNode)
    BY <1>6 DEF Delivery
  <2>2. \A h, kd : Pending(h, kd)' <=> Pending(h, kd) \/ (h = i /\ kd = e.kind)
    <3>1. ASSUME NEW h, NEW kd, Pending(h, kd)' PROVE Pending(h, kd) \/ (h = i /\ kd = e.kind)
      BY <2>1, <3>1 DEF Pending, Grown
    <3>2. ASSUME NEW h, NEW kd, Pending(h, kd) \/ (h = i /\ kd = e.kind) PROVE Pending(h, kd)'
      BY <2>1, <3>2 DEF Pending, Grown
    <3> QED BY <3>1, <3>2
  <2>3. \A h \in Instance : Backed(h) \/ h = i => Backed(h)'
    BY <1>1, <1>6, <2>1, <2>2 DEF Backed
  <2>4. o.node = api[i].node
    BY <1>2, <1>6 DEF Before
  <2>5. ASSUME NEW j \in DOMAIN assigned', NEW h, h = assigned'[j].inst
        PROVE  /\ assigned'[j].node = api[h].node
               /\ assigned'[j].kind = "remove" => store'[h].status = "gone"
               /\ assigned'[j].kind # "remove" => Backed(h)'
               /\ \A k \in DOMAIN assigned' :
                     j < k /\ assigned'[k].inst = h => assigned'[j].kind # "remove"
    <3>1. CASE j \in DOMAIN assigned /\ assigned'[j] = assigned[j]
      <4>1. h \in Instance
        BY <1>4, <2>5, <3>1 DEF AssignedEvent
      <4>2. /\ assigned[j].node = api[h].node
            /\ assigned[j].kind = "remove" => store[h].status = "gone"
            /\ assigned[j].kind # "remove" => Backed(h)
            /\ h = i => assigned[j].kind # "remove"
            /\ \A k \in DOMAIN assigned :
                  j < k /\ assigned[k].inst = h => assigned[j].kind # "remove"
        BY <1>3, <2>5, <3>1 DEF AssignedInv
      <4>3. ASSUME NEW k \in DOMAIN assigned', j < k, assigned'[k].inst = h
            PROVE  assigned[j].kind # "remove"
        BY <2>1, <4>2, <4>3 DEF Grown
      <4> QED BY <1>1, <2>3, <3>1, <4>1, <4>2, <4>3
    <3>2. CASE j \notin DOMAIN assigned \/ assigned'[j] # assigned[j]
      <4>1. assigned'[j] = e /\ h = i
        BY <2>1, <2>5, <3>2 DEF Grown
      <4>2. \A k \in DOMAIN assigned' : ~(j < k)
        BY <2>1, <3>2 DEF Grown
      <4> QED BY <1>1, <2>1, <2>3, <2>4, <4>1, <4>2
    <3> QED BY <3>1, <3>2
  <2>6. AssignedInv'
    BY <1>1, <2>5 DEF AssignedInv
  <2>7. ASSUME NEW h \in Instance \ forgotten
        PROVE  /\ Confirmed(h)' => cache'.state[h] = api'[h].node /\ Backed(h)'
               /\ store'[h].node # NoNode /\ store'[h].status # "gone" => Told(h)'
               /\ Pending(h, "remove")' => Told(h)'
    <3>1. /\ Confirmed(h) => cache.state[h] = api[h].node /\ Backed(h)
          /\ store[h].node # NoNode /\ store[h].status # "gone" => Told(h)
          /\ Pending(h, "remove") => Told(h)
      BY DEF KnownInv
    <3>2. (Confirmed(h)' <=> Confirmed(h)) /\ (Told(h) => Told(h)')
      BY <1>1, <2>2 DEF Confirmed, Told
    <3>3. CASE h # i
      BY <1>1, <2>2, <2>3, <3>1, <3>2, <3>3
    <3>4. CASE h = i
      <4>1. store[i].status # "gone"
        BY <1>2 DEF Before
      <4>2. CASE store[i].node # NoNode
        BY <1>1, <2>3, <3>1, <3>2, <3>4, <4>1, <4>2
      <4>3. CASE store[i].node = NoNode
        <5>1. e.kind = "add" /\ ~Confirmed(i)
          BY <1>2, <1>6, <2>1, <3>1, <3>4, <4>3 DEF Backed
        <5>2. Told(i)'
          BY <2>2, <5>1 DEF Told
        <5> QED BY <3>2, <3>4, <5>1, <5>2
      <4> QED BY <4>2, <4>3
    <3> QED BY <3>3, <3>4
  <2>8. KnownInv'
    BY <1>1, <2>7 DEF KnownInv
  <2> QED BY <2>6, <2>8
<1> QED BY <1>5, <1>6
-----------------------------------------------------------------------------
(***************************************************************************)
(* The handler of assigned instances                                       *)
(***************************************************************************)

(* An addition confirms, an update keeps what is confirmed, and a removal
   that finds the instance removes it. *)
LEMMA EventEffect ==
  ASSUME NEW c \in Cache, NEW i \in Instance, NEW n \in Node, NEW d \in BOOLEAN,
         Consistent(c, i)
  PROVE  /\ AddInstance(c, i, n, d).state[i] \in {n, c.state[i]} \ {NoNode}
         /\ i \in c.assumed => AddInstance(c, i, n, d).state[i] = n
         /\ i \notin AddInstance(c, i, n, d).assumed
         /\ UpdateInstance(c, i, n, d).state[i] = c.state[i]
         /\ i \in UpdateInstance(c, i, n, d).assumed <=> i \in c.assumed
         /\ RemoveInstance(c, i, n).state[i] = (IF c.state[i] = n THEN NoNode ELSE c.state[i])
         /\ i \in RemoveInstance(c, i, n).assumed <=> i \in c.assumed /\ c.state[i] # n
<1>1. /\ addInstance(c, i, n, d, FALSE).state[i] = n
      /\ addInstance(c, i, n, d, FALSE).assumed = c.assumed
      /\ \A m \in Node : /\ removeInstance(c, i, m).state[i] = NoNode
                        /\ removeInstance(c, i, m).assumed = c.assumed \ {i}
                        /\ updateInstance(c, i, m, n, d).state[i] = n
                        /\ updateInstance(c, i, m, n, d).assumed = c.assumed \ {i}
  <2>1. \A x \in Cache : /\ addInstance(x, i, n, d, FALSE).state[i] = n
                         /\ addInstance(x, i, n, d, FALSE).assumed = x.assumed
    BY DEF addInstance, Cache
  <2>2. ASSUME NEW m \in Node
        PROVE  /\ removeInstance(c, i, m).state[i] = NoNode
               /\ removeInstance(c, i, m).assumed = c.assumed \ {i}
    BY DEF removeInstance, Drop, Unlink, Cache
  <2>3. \A m \in Node : removeInstance(c, i, m) \in Cache
    BY RemoveType
  <2> QED BY <2>1, <2>2, <2>3 DEF updateInstance
<1>2. /\ n # NoNode /\ c.state[i] \in MaybeNode
      /\ i \in c.assumed => c.state[i] # NoNode
  BY NoNodeAssumption DEF Cache, Consistent
<1>3. /\ AddInstance(c, i, n, d).state[i] \in {n, c.state[i]} \ {NoNode}
      /\ i \in c.assumed => AddInstance(c, i, n, d).state[i] = n
      /\ i \notin AddInstance(c, i, n, d).assumed
  <2>1. CASE c.state[i] # NoNode /\ i \in c.assumed
    <3>1. AddInstance(c, i, n, d) = updateInstance(c, i, c.state[i], n, d) /\ c.state[i] \in Node
      BY <1>2, <2>1 DEF AddInstance, MaybeNode
    <3> QED BY <1>1, <1>2, <3>1
  <2>2. CASE c.state[i] = NoNode
    <3>1. AddInstance(c, i, n, d) = addInstance(c, i, n, d, FALSE) /\ i \notin c.assumed
      BY <1>2, <2>2 DEF AddInstance
    <3> QED BY <1>1, <1>2, <3>1
  <2>3. CASE c.state[i] # NoNode /\ i \notin c.assumed
    <3>1. AddInstance(c, i, n, d) = c
      BY <2>3 DEF AddInstance
    <3> QED BY <2>3, <3>1
  <2> QED BY <2>1, <2>2, <2>3
<1>4. /\ UpdateInstance(c, i, n, d).state[i] = c.state[i]
      /\ i \in UpdateInstance(c, i, n, d).assumed <=> i \in c.assumed
  BY <1>1 DEF UpdateInstance
<1>5. /\ RemoveInstance(c, i, n).state[i] = (IF c.state[i] = n THEN NoNode ELSE c.state[i])
      /\ i \in RemoveInstance(c, i, n).assumed <=> i \in c.assumed /\ c.state[i] # n
  BY <1>1 DEF RemoveInstance
<1> QED BY <1>3, <1>4, <1>5

(* Events about i concern nobody else. *)
LEMMA EventOthers ==
  ASSUME NEW c \in Cache, NEW i \in Instance, NEW n \in Node, NEW d \in BOOLEAN,
         NEW j \in Instance, j # i
  PROVE  /\ Same(c, AddInstance(c, i, n, d), j)
         /\ Same(c, UpdateInstance(c, i, n, d), j)
         /\ Same(c, RemoveInstance(c, i, n), j)
<1>1. ASSUME NEW m \in Node PROVE Same(c, updateInstance(c, i, m, n, d), j)
  <2>1. removeInstance(c, i, m) \in Cache /\ Same(c, removeInstance(c, i, m), j)
    BY RemoveType, OthersSame
  <2>2. \A x \in Cache : Same(x, addInstance(x, i, n, d, FALSE), j)
    BY OthersSame
  <2> QED BY <2>1, <2>2 DEF updateInstance, Same
<1>2. Same(c, addInstance(c, i, n, d, FALSE), j) /\ Same(c, removeInstance(c, i, n), j)
  BY OthersSame
<1>3. Same(c, c, j) /\ (c.state[i] # NoNode => c.state[i] \in Node)
  BY DEF Same, Cache, MaybeNode
<1> QED BY <1>1, <1>2, <1>3 DEF AddInstance, UpdateInstance, RemoveInstance

(* The handler takes e from its queue. *)
Handling(e) ==
    /\ e \in AssignedEvent
    /\ Shrunk(assigned, assigned', e)
    /\ \A j \in Instance \ {e.inst} : Same(cache, cache', j)
    /\ e.inst \notin forgotten =>
          /\ e.kind = "add" =>
                /\ cache'.state[e.inst] \in {e.node, cache.state[e.inst]} \ {NoNode}
                /\ e.inst \in cache.assumed => cache'.state[e.inst] = e.node
                /\ e.inst \notin cache'.assumed
          /\ e.kind = "update" =>
                /\ cache'.state[e.inst] = cache.state[e.inst]
                /\ e.inst \in cache'.assumed <=> e.inst \in cache.assumed
          /\ e.kind = "remove" =>
                /\ cache'.state[e.inst] =
                      (IF cache.state[e.inst] = e.node THEN NoNode ELSE cache.state[e.inst])
                /\ e.inst \in cache'.assumed <=>
                      e.inst \in cache.assumed /\ cache.state[e.inst] # e.node
    /\ corrupted' = corrupted \union {i \in {e.inst} : Corrupted(cache, e)}
    /\ UNCHANGED <<api, watch, store, binds, forgotten>>

LEMMA Handlings ==
  ASSUME CacheInv, HandleAssigned
  PROVE  \E e : Handling(e)
<1>1. PICK e : e = Head(assigned)
  OBVIOUS
<1>2. e \in AssignedEvent /\ Shrunk(assigned, assigned', e)
  BY <1>1, EventTypes, TailShrinks DEF HandleAssigned, CacheInv
<1>3. /\ e.inst \in Instance /\ e.node \in Node /\ e.deleting \in BOOLEAN
      /\ e.kind \in {"add", "update", "remove"} /\ cache \in Cache
  BY <1>2 DEF AssignedEvent, CacheInv, SchedulerTypeOK
<1>4. cache' = CASE e.kind = "add" -> AddInstance(cache, e.inst, e.node, e.deleting)
                 [] e.kind = "update" -> UpdateInstance(cache, e.inst, e.node, e.deleting)
                 [] e.kind = "remove" -> RemoveInstance(cache, e.inst, e.node)
  BY <1>1 DEF HandleAssigned
<1>5. \A j \in Instance \ {e.inst} : Same(cache, cache', j)
  BY <1>3, <1>4, EventOthers
<1>6. e.inst \notin forgotten => Consistent(cache, e.inst)
  BY <1>3 DEF CacheInv, CacheConsistent
<1>7. e.inst \notin forgotten =>
          /\ e.kind = "add" =>
                /\ cache'.state[e.inst] \in {e.node, cache.state[e.inst]} \ {NoNode}
                /\ e.inst \in cache.assumed => cache'.state[e.inst] = e.node
                /\ e.inst \notin cache'.assumed
          /\ e.kind = "update" =>
                /\ cache'.state[e.inst] = cache.state[e.inst]
                /\ e.inst \in cache'.assumed <=> e.inst \in cache.assumed
          /\ e.kind = "remove" =>
                /\ cache'.state[e.inst] =
                      (IF cache.state[e.inst] = e.node THEN NoNode ELSE cache.state[e.inst])
                /\ e.inst \in cache'.assumed <=>
                      e.inst \in cache.assumed /\ cache.state[e.inst] # e.node
  BY <1>3, <1>4, <1>6, EventEffect
<1>8. /\ corrupted' = corrupted \union {i \in {e.inst} : Corrupted(cache, e)}
      /\ UNCHANGED <<api, watch, store, binds, forgotten>>
  BY <1>1 DEF HandleAssigned, server, history
<1> QED BY <1>2, <1>5, <1>7, <1>8 DEF Handling

(* What is left to handle after e. *)
LEMMA HandlingPending ==
  ASSUME SchedulerTypeOK, AssignedInv, NEW e, Handling(e)
  PROVE  /\ \A i, kd : Pending(i, kd)' => Pending(i, kd)
         /\ \A i, kd : Pending(i, kd) => Pending(i, kd)' \/ (i = e.inst /\ kd = e.kind)
         /\ e.kind = "remove" => \A kd : ~Pending(e.inst, kd)'
         /\ Pending(e.inst, e.kind) /\ e.inst \in Instance
         /\ e.node = api[e.inst].node /\ e.node \in Node
         /\ e.kind = "remove" => store[e.inst].status = "gone"
         /\ e.kind # "remove" => Backed(e.inst)
         /\ AssignedInv'
<1>1. Shrunk(assigned, assigned', e) /\ 1 \in DOMAIN assigned /\ assigned[1] = e
  BY DEF Handling, Shrunk
<1>2. \A i, kd : Pending(i, kd)' => Pending(i, kd)
  BY <1>1 DEF Pending, Shrunk
<1>3. \A i, kd : Pending(i, kd) => Pending(i, kd)' \/ (i = e.inst /\ kd = e.kind)
  BY <1>1 DEF Pending, Shrunk
<1>4. /\ e.node = api[e.inst].node
      /\ e.kind = "remove" => store[e.inst].status = "gone"
      /\ e.kind # "remove" => Backed(e.inst)
      /\ \A k \in DOMAIN assigned : 1 < k /\ assigned[k].inst = e.inst => e.kind # "remove"
  BY <1>1 DEF AssignedInv
<1>5. e.kind = "remove" => \A k \in DOMAIN assigned' : assigned'[k].inst # e.inst
  BY <1>1, <1>4 DEF Shrunk
<1>6. e.kind = "remove" => \A kd : ~Pending(e.inst, kd)'
  BY <1>5 DEF Pending
<1>7. Pending(e.inst, e.kind) /\ e.inst \in Instance /\ e.node \in Node
  BY <1>1 DEF Pending, Handling, AssignedEvent
<1>8. ASSUME NEW j \in DOMAIN assigned', NEW i, i = assigned'[j].inst
      PROVE  /\ assigned'[j].node = api'[i].node
             /\ assigned'[j].kind = "remove" => store'[i].status = "gone"
             /\ assigned'[j].kind # "remove" => Backed(i)'
             /\ \A k \in DOMAIN assigned' :
                   j < k /\ assigned'[k].inst = i => assigned'[j].kind # "remove"
  <2>1. j + 1 \in DOMAIN assigned /\ assigned'[j] = assigned[j + 1]
    BY <1>1 DEF Shrunk
  <2>2. /\ assigned[j + 1].node = api[i].node
        /\ assigned[j + 1].kind = "remove" => store[i].status = "gone"
        /\ assigned[j + 1].kind # "remove" => Backed(i)
        /\ \A k \in DOMAIN assigned :
              j + 1 < k /\ assigned[k].inst = i => assigned[j + 1].kind # "remove"
    BY <1>8, <2>1 DEF AssignedInv
  <2>3. i = e.inst => e.kind # "remove"
    BY <1>5, <1>8
  <2>4. Backed(i) => Backed(i)'
    BY <1>3, <2>3 DEF Backed, Handling
  <2>5. ASSUME NEW k \in DOMAIN assigned', j < k, assigned'[k].inst = i
        PROVE  assigned[j + 1].kind # "remove"
    BY <1>1, <2>2, <2>5 DEF Shrunk
  <2> QED BY <2>1, <2>2, <2>4, <2>5 DEF Handling
<1>9. AssignedInv'
  BY <1>8 DEF AssignedInv
<1> QED BY <1>2, <1>3, <1>4, <1>6, <1>7, <1>9

(* Handling an event, the cache learns what there is to be known, and finds
   nothing that contradicts it. *)
LEMMA HandlingKnown ==
  ASSUME CacheInv, AssignedInv, KnownInv, NeverCorrupted, NEW e, Handling(e)
  PROVE  KnownInv' /\ NeverCorrupted'
<1>1. SchedulerTypeOK
  BY DEF CacheInv
<1>2. /\ \A i, kd : Pending(i, kd)' => Pending(i, kd)
      /\ \A i, kd : Pending(i, kd) => Pending(i, kd)' \/ (i = e.inst /\ kd = e.kind)
      /\ e.kind = "remove" => \A kd : ~Pending(e.inst, kd)'
      /\ Pending(e.inst, e.kind) /\ e.inst \in Instance
      /\ e.node = api[e.inst].node /\ e.node \in Node
      /\ e.kind = "remove" => store[e.inst].status = "gone"
      /\ e.kind # "remove" => Backed(e.inst)
  BY <1>1, HandlingPending
<1>3. UNCHANGED <<api, watch, store, binds, forgotten>>
  BY DEF Handling
<1>4. e.kind \in {"add", "update", "remove"} /\ e.node # NoNode
  BY <1>2, NoNodeAssumption DEF Handling, AssignedEvent
<1>5. ASSUME NEW i \in Instance \ forgotten
      PROVE  /\ Confirmed(i)' => cache'.state[i] = api'[i].node /\ Backed(i)'
             /\ store'[i].node # NoNode /\ store'[i].status # "gone" => Told(i)'
             /\ Pending(i, "remove")' => Told(i)'
  <2>1. /\ Confirmed(i) => cache.state[i] = api[i].node /\ Backed(i)
        /\ store[i].node # NoNode /\ store[i].status # "gone" => Told(i)
        /\ Pending(i, "remove") => Told(i)
    BY DEF KnownInv
  <2>2. CASE i # e.inst
    <3>1. /\ Confirmed(i)' <=> Confirmed(i)
          /\ cache'.state[i] = cache.state[i]
      BY <2>2 DEF Handling, Same, Confirmed
    <3>2. /\ Backed(i)' <=> Backed(i)
          /\ Told(i)' <=> Told(i)
      BY <1>2, <1>3, <2>2, <3>1 DEF Backed, Told
    <3> QED BY <1>2, <1>3, <2>1, <3>1, <3>2
  <2>3. CASE i = e.inst /\ e.kind = "add"
    <3>1. Confirmed(i)' /\ Told(i)'
      BY <2>3 DEF Handling, Confirmed, Told
    <3>2. cache'.state[i] = api[i].node
      <4>1. CASE i \in cache.assumed
        BY <1>2, <2>3, <4>1 DEF Handling
      <4>2. CASE i \notin cache.assumed
        <5>1. cache'.state[i] \in {e.node, cache.state[i]} \ {NoNode}
          BY <2>3 DEF Handling
        <5> QED BY <1>2, <2>1, <2>3, <4>2, <5>1 DEF Confirmed
      <4> QED BY <4>1, <4>2
    <3>3. Backed(i)'
      BY <1>2, <1>3, <2>3 DEF Backed
    <3> QED BY <1>3, <3>1, <3>2, <3>3
  <2>4. CASE i = e.inst /\ e.kind = "update"
    <3>1. /\ Confirmed(i)' <=> Confirmed(i)
          /\ cache'.state[i] = cache.state[i]
      BY <2>4 DEF Handling, Confirmed
    <3>2. Backed(i)' /\ (Told(i) => Told(i)')
      BY <1>2, <1>3, <2>4, <3>1 DEF Backed, Told
    <3> QED BY <1>2, <1>3, <2>1, <3>1, <3>2
  <2>5. CASE i = e.inst /\ e.kind = "remove"
    <3>1. Told(i) /\ ~Pending(i, "add")' /\ ~Pending(i, "remove")'
      BY <1>2, <2>1, <2>5
    <3>2. ~Pending(i, "add")
      BY <1>2, <2>5, <3>1
    <3>3. Confirmed(i) /\ cache.state[i] = e.node
      BY <1>2, <2>1, <2>5, <3>1, <3>2 DEF Told
    <3>4. cache'.state[i] = NoNode
      BY <2>5, <3>3 DEF Handling
    <3> QED BY <1>2, <1>3, <2>5, <3>1, <3>4 DEF Confirmed
  <2> QED BY <1>4, <2>2, <2>3, <2>4, <2>5
<1>6. KnownInv'
  BY <1>3, <1>5 DEF KnownInv
<1>7. ASSUME e.inst \notin forgotten PROVE ~Corrupted(cache, e)
  <2>1. /\ Confirmed(e.inst) => cache.state[e.inst] = e.node
        /\ e.kind = "remove" => Told(e.inst)
    BY <1>2, <1>7 DEF KnownInv
  <2>2. CASE e.kind = "remove"
    <3>1. ~Pending(e.inst, "add")
      BY <1>2, <2>2
    <3> QED BY <2>1, <2>2, <3>1 DEF Told, Corrupted
  <2>3. CASE e.kind # "remove"
    BY <2>1, <2>3 DEF Corrupted, Confirmed
  <2> QED BY <2>2, <2>3
<1>8. NeverCorrupted'
  BY <1>3, <1>7 DEF NeverCorrupted, Handling
<1> QED BY <1>6, <1>8
-----------------------------------------------------------------------------
(***************************************************************************)
(* The other steps                                                         *)
(***************************************************************************)

(* Nothing happens to instances and their events, and nothing to what the
   cache has confirmed. *)
Steady ==
    /\ UNCHANGED <<api, watch, store, assigned>>
    /\ forgotten \subseteq forgotten'
    /\ \A i \in Instance \ forgotten' :
          /\ Confirmed(i)' <=> Confirmed(i)
          /\ Confirmed(i) => cache'.state[i] = cache.state[i]

LEMMA SteadyKnown ==
  ASSUME WatchInv, AssignedInv, KnownInv, Steady
  PROVE  WatchInv' /\ AssignedInv' /\ KnownInv'
<1>1. WatchInv'
  BY DEF Steady, WatchInv, UpToDate, LastOf, Shown
<1>2. AssignedInv'
  BY DEF Steady, AssignedInv, Backed, Pending
<1>3. ASSUME NEW i \in Instance \ forgotten'
      PROVE  /\ Confirmed(i)' => cache'.state[i] = api'[i].node /\ Backed(i)'
             /\ store'[i].node # NoNode /\ store'[i].status # "gone" => Told(i)'
             /\ Pending(i, "remove")' => Told(i)'
  <2>1. /\ Confirmed(i) => cache.state[i] = api[i].node /\ Backed(i)
        /\ store[i].node # NoNode /\ store[i].status # "gone" => Told(i)
        /\ Pending(i, "remove") => Told(i)
    BY DEF Steady, KnownInv
  <2>2. /\ Confirmed(i)' <=> Confirmed(i)
        /\ Confirmed(i) => cache'.state[i] = cache.state[i]
    BY DEF Steady
  <2>3. \A kd : Pending(i, kd)' <=> Pending(i, kd)
    BY DEF Steady, Pending
  <2>4. Backed(i)' <=> Backed(i)
    BY <2>3 DEF Steady, Backed
  <2>5. Told(i)' <=> Told(i)
    BY <2>2, <2>3 DEF Told
  <2> QED BY <2>1, <2>2, <2>3, <2>4, <2>5 DEF Steady
<1> QED BY <1>1, <1>2, <1>3 DEF KnownInv

(* An operation that leaves the cache's view of every instance alone. *)
LEMMA SameSteady ==
  ASSUME UNCHANGED <<api, watch, store, assigned>>, forgotten \subseteq forgotten',
         \A i \in Instance \ forgotten' : Same(cache, cache', i)
  PROVE  Steady
  BY DEF Steady, Same, Confirmed

(* Expiry, assumptions and the goroutines only touch what is assumed. *)
LEMMA SteadySteps ==
  ASSUME CacheInv,
         \/ \E n \in Node : CreateNode(n) \/ DeleteNode(n)
         \/ \E e \in unassigned : HandleUnassigned(e)
         \/ HandleNode
         \/ cleanupAssumedInstances
         \/ Reconciler
         \/ \E b \in binds : Binding(b) /\ ~PatchApplied(b)
  PROVE  Steady
<1>1. cache \in Cache /\ binds \subseteq Bind /\ rec \in Reconcile
  BY DEF CacheInv, SchedulerTypeOK
<1>2. \A i \in Instance : Same(cache, cache, i)
  BY DEF Same
<1>3. CASE \E n \in Node : CreateNode(n) \/ DeleteNode(n)
  <2>1. UNCHANGED <<api, watch, store, assigned, forgotten, cache>>
    BY <1>3 DEF CreateNode, DeleteNode, NodeStep
  <2> QED BY <1>2, <2>1, SameSteady
<1>4. CASE \E e \in unassigned : HandleUnassigned(e)
  <2>1. UNCHANGED <<api, watch, store, assigned, forgotten, cache>>
    BY <1>4 DEF HandleUnassigned, server, history
  <2> QED BY <1>2, <2>1, SameSteady
<1>5. CASE HandleNode
  <2>1. UNCHANGED <<api, watch, store, assigned, forgotten>>
    BY <1>5 DEF HandleNode, server, history
  <2>2. \A i \in Instance : Same(cache, cache', i)
    BY <1>1, <1>5 DEF HandleNode, Same, Cache
  <2> QED BY <2>1, <2>2, SameSteady
<1>6. CASE cleanupAssumedInstances
  <2>1. UNCHANGED <<api, watch, store, assigned, forgotten>>
    BY <1>6 DEF cleanupAssumedInstances, server, informer, history
  <2>2. ASSUME NEW i \in Instance
        PROVE  /\ Confirmed(i)' <=> Confirmed(i)
               /\ Confirmed(i) => cache'.state[i] = cache.state[i]
    <3>1. cache'.state[i] =
             IF i \in cache.assumed \intersect cache.finished THEN NoNode ELSE cache.state[i]
      BY <1>1, <1>6 DEF cleanupAssumedInstances, Cache
    <3>2. cache'.assumed = cache.assumed \ (cache.assumed \intersect cache.finished)
      BY <1>1, <1>6 DEF cleanupAssumedInstances, Cache
    <3> QED BY <3>1, <3>2 DEF Confirmed
  <2> QED BY <2>1, <2>2 DEF Steady
<1>7. CASE (\E i \in Instance : Get(i)) \/ CheckAssumed \/ Pick
  <2>1. UNCHANGED <<api, watch, store, assigned, forgotten, cache>>
    BY <1>7 DEF Get, CheckAssumed, Pick, server, informer, history
  <2> QED BY <1>2, <2>1, SameSteady
<1>8. CASE Assume
  <2>1. UNCHANGED <<api, watch, store, assigned, forgotten>>
    BY <1>8 DEF Assume, server, informer
  <2>2. CASE cache' = cache
    BY <1>2, <2>1, <2>2, SameSteady
  <2>3. CASE cache' # cache
    <3>1. rec.inst \in Instance /\ rec.node \in Node
      BY <1>1, <1>8 DEF Assume, Reconcile, Idle
    <3>2. /\ cache' = addInstance(cache, rec.inst, rec.node, FALSE, TRUE)
          /\ cache.state[rec.inst] = NoNode
      BY <1>8, <2>3 DEF Assume
    <3>3. ASSUME NEW i \in Instance, i # rec.inst PROVE Same(cache, cache', i)
      BY <1>1, <3>1, <3>2, <3>3, OthersSame
    <3>4. rec.inst \in cache'.assumed
      BY <1>1, <3>1, <3>2 DEF addInstance, Cache
    <3> QED BY <2>1, <3>2, <3>3, <3>4 DEF Steady, Same, Confirmed
  <2> QED BY <2>2, <2>3
<1>9. ASSUME NEW b \in binds, Binding(b), ~PatchApplied(b) PROVE Steady
  <2>1. b.inst \in Instance /\ b.node \in Node
    BY <1>1 DEF Bind
  <2>2. CASE PatchFailed(b) \/ ForgetInstance(b)
    <3>1. UNCHANGED <<api, watch, store, assigned, cache>> /\ forgotten \subseteq forgotten'
      BY <2>2 DEF PatchFailed, ForgetInstance, server, informer, history
    <3> QED BY <1>2, <3>1, SameSteady
  <2>3. CASE FinishBinding(b)
    <3>1. UNCHANGED <<api, watch, store, assigned, forgotten>>
      BY <2>3 DEF FinishBinding, server, informer, history
    <3>2. cache'.state = cache.state /\ cache'.assumed = cache.assumed
      BY <1>1, <2>3 DEF FinishBinding, Cache
    <3> QED BY <3>1, <3>2 DEF Steady, Confirmed
  <2>4. CASE ForgetUnlink(b) \/ ForgetDrop(b)
    <3>1. UNCHANGED <<api, watch, store, assigned, forgotten>> /\ b.inst \in forgotten
      BY <2>4 DEF ForgetUnlink, ForgetDrop, server, informer, history, CacheInv, ForgettingMarked
    <3>2. cache' = Unlink(cache, b.inst, b.node) \/ cache' = Drop(cache, b.inst)
      BY <2>4 DEF ForgetUnlink, ForgetDrop
    <3>3. \A i \in Instance \ forgotten : Same(cache, cache', i)
      BY <1>1, <2>1, <3>1, <3>2, OthersSame
    <3> QED BY <3>1, <3>3, SameSteady
  <2> QED BY <1>9, <2>2, <2>3, <2>4 DEF Binding
<1> QED BY <1>3, <1>4, <1>5, <1>6, <1>7, <1>8, <1>9 DEF Reconciler
-----------------------------------------------------------------------------
(***************************************************************************)
(* A restart                                                               *)
(***************************************************************************)

(* A listing leaves nothing out. *)
LEMMA ListingComplete ==
  ASSUME NEW S, IsFiniteSet(S), NEW s \in SetToSeqs(S)
  PROVE  /\ \A k \in DOMAIN s : s[k] \in S
         /\ \A x \in S : \E k \in DOMAIN s : s[k] = x
         /\ \A j, k \in DOMAIN s : j # k => s[j] # s[k]
<1> DEFINE D == 1 .. Cardinality(S)
<1>1. Cardinality(S) \in Nat
  BY FS_CardinalityType
<1>2. s \in [D -> S] /\ DOMAIN s = D /\ \A j, k \in D : j # k => s[j] # s[k]
  BY DEF SetToSeqs
<1>3. Cardinality(D) = Cardinality(S)
  BY <1>1, FS_Interval
<1>4. s \in Injection(D, S)
  <2> HIDE DEF D
  <2> QED BY <1>2 DEF Injection, IsInjective
<1>5. s \in Surjection(D, S)
  <2> HIDE DEF D
  <2> QED BY <1>3, <1>4, FS_Injection
<1>6. \A x \in S : \E k \in D : s[k] = x
  <2> HIDE DEF D
  <2> QED BY <1>5 DEF Surjection
<1> QED BY <1>2, <1>6

(* The informer lists the instances that are bound as added. *)
LEMMA Relisted ==
  ASSUME SchedulerTypeOK, Restart
  PROVE  /\ \A k \in DOMAIN assigned' :
               /\ assigned'[k].inst \in Instance /\ Bound(assigned'[k].inst)
               /\ assigned'[k].kind = "add"
               /\ assigned'[k].node = api[assigned'[k].inst].node
         /\ \A i \in Instance :
               Bound(i) => \E k \in DOMAIN assigned' :
                              assigned'[k].inst = i /\ assigned'[k].kind = "add"
<1> DEFINE bound == {j \in Instance : Bound(j)}
           Added(i) == [inst |-> i, kind |-> "add", node |-> api[i].node,
                        deleting |-> api[i].status = "deleting"]
<1>1. IsFiniteSet(bound)
  BY FiniteAssumption, FS_Subset
<1>2. IsFiniteSet({Added(i) : i \in bound})
  <2>1. [i \in bound |-> Added(i)] \in Surjection(bound, {Added(i) : i \in bound})
    BY DEF Surjection
  <2> HIDE DEF bound, Added
  <2> QED BY <1>1, <2>1, FS_Surjection
<1>3. assigned' \in SetToSeqs({Added(i) : i \in bound})
  BY DEF Restart
<1>4. /\ \A k \in DOMAIN assigned' : \E i \in bound : assigned'[k] = Added(i)
      /\ \A i \in bound : \E k \in DOMAIN assigned' : assigned'[k] = Added(i)
  <2> HIDE DEF bound, Added
  <2> QED BY <1>2, <1>3, ListingComplete
<1> QED BY <1>4

(* After a restart everything there is has been listed. *)
LEMMA RestartKnown ==
  ASSUME CacheInv, WatchInv, Restart
  PROVE  WatchInv' /\ AssignedInv' /\ KnownInv'
<1>1. SchedulerTypeOK /\ api \in [Instance -> Object]
  BY DEF CacheInv, SchedulerTypeOK
<1>2. /\ watch' = <<>> /\ api' = api /\ forgotten' = forgotten
      /\ \A i \in Instance : store'[i] = IF api[i].status = "gone" THEN Unborn ELSE api[i]
      /\ \A i \in Instance : cache'.state[i] = NoNode
  BY DEF Restart, server, NewCache
<1>3. /\ \A k \in DOMAIN assigned' :
            /\ assigned'[k].inst \in Instance /\ Bound(assigned'[k].inst)
            /\ assigned'[k].kind = "add"
            /\ assigned'[k].node = api[assigned'[k].inst].node
      /\ \A i \in Instance : Bound(i) => Pending(i, "add")'
  BY <1>1, Relisted DEF Pending
<1>4. WatchInv'
  BY <1>2 DEF WatchInv, UpToDate, Before, Unborn
<1>5. \A i \in Instance : Bound(i) => Backed(i)'
  BY <1>2 DEF Bound, Backed
<1>6. AssignedInv'
  BY <1>2, <1>3, <1>5 DEF AssignedInv
<1>7. ASSUME NEW i \in Instance PROVE store'[i].node # NoNode => Bound(i)
  <2>1. api[i].status \in {"new", "live", "deleting", "gone"}
    BY <1>1 DEF Object, Status
  <2>2. api[i].status = "new" => api[i].node = NoNode
    BY DEF WatchInv
  <2> QED BY <1>2, <2>1, <2>2 DEF Bound, Unborn
<1>8. \A i \in Instance : ~Pending(i, "remove")'
  BY <1>3 DEF Pending
<1>9. KnownInv'
  BY <1>2, <1>3, <1>7, <1>8 DEF KnownInv, Confirmed, Told
<1> QED BY <1>4, <1>6, <1>9
-----------------------------------------------------------------------------
(***************************************************************************)
(* Theorems about the cache                                                *)
(***************************************************************************)

(* A check of the cache fails in two places only. *)
LEMMA CorruptionSteps ==
  ASSUME [Next]_vars, ~HandleAssigned, ~cleanupAssumedInstances
  PROVE  corrupted' = corrupted
<1>1. CASE User
  BY <1>1 DEF User, CreateInstance, TouchInstance, DeleteInstance, CreateNode, DeleteNode,
              NodeStep
<1>2. CASE Handlers
  BY <1>2 DEF Handlers, DeliverInstance, HandleUnassigned, HandleNode
<1>3. CASE Reconciler
  BY <1>3 DEF Reconciler, Get, CheckAssumed, Pick, Assume
<1>4. CASE \E b \in binds : Binding(b)
  BY <1>4 DEF Binding, PatchApplied, PatchFailed, FinishBinding, ForgetInstance,
              ForgetUnlink, ForgetDrop
<1>5. CASE Restart \/ UNCHANGED vars
  BY <1>5 DEF Restart, vars
<1> QED BY <1>1, <1>2, <1>3, <1>4, <1>5 DEF Next

(* Instances are only ever added to those ForgetInstance got hold of. *)
LEMMA ForgottenStays ==
  ASSUME [Next]_vars
  PROVE  forgotten \subseteq forgotten'
<1>1. CASE User
  BY <1>1 DEF User, CreateInstance, TouchInstance, DeleteInstance, CreateNode, DeleteNode,
              NodeStep, history
<1>2. CASE Handlers
  BY <1>2 DEF Handlers, DeliverInstance, HandleUnassigned, HandleAssigned, HandleNode, history
<1>3. CASE Reconciler
  BY <1>3 DEF Reconciler, Get, CheckAssumed, Pick, Assume, history
<1>4. CASE \E b \in binds : Binding(b)
  BY <1>4 DEF Binding, PatchApplied, PatchFailed, FinishBinding, ForgetInstance,
              ForgetUnlink, ForgetDrop, history
<1>5. CASE Restart \/ UNCHANGED vars \/ cleanupAssumedInstances
  BY <1>5 DEF Restart, vars, cleanupAssumedInstances, history
<1> QED BY <1>1, <1>2, <1>3, <1>4, <1>5 DEF Next

(* Every step keeps the events and the cache in line. *)
LEMMA EventStep == EventInv /\ [Next]_vars => EventInv'
<1> SUFFICES ASSUME EventInv, [Next]_vars
             PROVE  WatchInv' /\ AssignedInv' /\ KnownInv' /\ NeverCorrupted'
  BY CacheStep DEF EventInv
<1>1. CacheInv /\ SchedulerTypeOK /\ WatchInv /\ AssignedInv /\ KnownInv /\ NeverCorrupted
  BY DEF EventInv, CacheInv
<1>2. ASSUME corrupted' = corrupted PROVE NeverCorrupted'
  BY <1>1, <1>2, ForgottenStays DEF NeverCorrupted
<1>3. ASSUME NEW i \in Instance, CreateInstance(i) \/ TouchInstance(i) \/ DeleteInstance(i)
      PROVE  WatchInv' /\ AssignedInv' /\ KnownInv' /\ corrupted' = corrupted
  <2>1. UNCHANGED <<store, assigned, cache, forgotten, corrupted>>
    BY <1>3 DEF CreateInstance, TouchInstance, DeleteInstance, history
  <2>2. \E o : Change(i, o)
    BY <1>1, <1>3, Changes
  <2> QED BY <1>1, <2>1, <2>2, ChangeWatch, ChangeKnown
<1>4. CASE DeliverInstance
  <2>1. PICK i, o : Delivery(i, o)
    BY <1>1, <1>4, Deliveries
  <2>2. WatchInv'
    BY <1>1, <2>1, DeliveryWatch
  <2>3. AssignedInv' /\ KnownInv'
    BY <1>1, <2>1, DeliveryKnown
  <2> QED BY <1>2, <2>1, <2>2, <2>3 DEF Delivery
<1>5. CASE HandleAssigned
  <2>1. PICK e : Handling(e)
    BY <1>1, <1>5, Handlings
  <2>2. WatchInv'
    BY <1>1, <2>1 DEF Handling, WatchInv, UpToDate, LastOf, Shown
  <2> QED BY <1>1, <2>1, <2>2, HandlingPending, HandlingKnown
<1>6. CASE cleanupAssumedInstances
  <2>1. WatchInv' /\ AssignedInv' /\ KnownInv'
    BY <1>1, <1>6, SteadySteps, SteadyKnown
  <2>2. \A i \in cache.assumed : i \in Instance /\ (cache.state[i] = NoNode => i \in forgotten)
    BY <1>1 DEF CacheInv, CacheConsistent, Consistent, SchedulerTypeOK, Cache
  <2>3. NeverCorrupted'
    BY <1>1, <1>6, <2>2 DEF cleanupAssumedInstances, history, NeverCorrupted
  <2> QED BY <2>1, <2>3
<1>7. ASSUME NEW b \in binds, PatchApplied(b)
      PROVE  WatchInv' /\ AssignedInv' /\ KnownInv' /\ corrupted' = corrupted
  <2>1. UNCHANGED <<store, assigned, cache, forgotten, corrupted>> /\ b.inst \in Instance
    BY <1>1, <1>7 DEF PatchApplied, history, SchedulerTypeOK, Bind
  <2>2. CASE UNCHANGED <<api, watch>>
    <3>1. Steady
      BY <2>1, <2>2 DEF Steady, Confirmed
    <3> QED BY <1>1, <2>1, <3>1, SteadyKnown
  <2>3. CASE \E o : Change(b.inst, o)
    BY <1>1, <2>1, <2>3, ChangeWatch, ChangeKnown
  <2> QED BY <1>1, <1>7, <2>1, <2>2, <2>3, Changes
<1>8. ASSUME \/ \E n \in Node : CreateNode(n) \/ DeleteNode(n)
             \/ \E e \in unassigned : HandleUnassigned(e)
             \/ HandleNode
             \/ Reconciler
             \/ \E b \in binds : Binding(b) /\ ~PatchApplied(b)
      PROVE  WatchInv' /\ AssignedInv' /\ KnownInv'
  BY <1>1, <1>8, SteadySteps, SteadyKnown
<1>9. CASE Restart
  BY <1>1, <1>2, <1>9, RestartKnown DEF Restart
<1>10. CASE UNCHANGED vars
  <2>1. Steady /\ corrupted' = corrupted
    BY <1>10 DEF vars, Steady, Confirmed
  <2> QED BY <1>1, <1>2, <2>1, SteadyKnown
<1>11. ASSUME ~HandleAssigned, ~cleanupAssumedInstances PROVE NeverCorrupted'
  BY <1>2, <1>11, CorruptionSteps
<1> QED
  BY <1>3, <1>4, <1>5, <1>6, <1>7, <1>8, <1>9, <1>10, <1>11 DEF Next, User, Handlers

LEMMA InitEvents == Init => EventInv
<1> SUFFICES ASSUME Init PROVE EventInv
  OBVIOUS
<1>1. SchedulerTypeOK
  BY InitType
<1>2. CacheInv
  <2>1. \A i \in Instance : Consistent(cache, i)
    BY NoNodeAssumption DEF Init, NewCache, Consistent
  <2> QED BY <1>1, <2>1 DEF Init, CacheInv, CacheConsistent, ForgettingMarked
<1>3. WatchInv
  BY DEF Init, WatchInv, UpToDate, Before, Unborn
<1>4. AssignedInv /\ NeverCorrupted
  BY DEF Init, AssignedInv, NeverCorrupted
<1>5. KnownInv
  BY DEF Init, KnownInv, Confirmed, Told, Pending, Unborn, NewCache
<1> QED BY <1>2, <1>3, <1>4, <1>5 DEF EventInv

(* What the informer, its events and the cache say of an instance fits
   together, in every reachable state. *)
THEOREM EventInvariant == Spec => []EventInv
  BY InitEvents, EventStep, PTL DEF Spec

(* The checks of UpdateInstance, RemoveInstance and cleanupAssumedInstances
   that panic never fail for an instance that the unlocked ForgetInstance
   did not touch. *)
THEOREM NoCorruption == Spec => []NeverCorrupted
  BY EventInvariant, PTL DEF EventInv

(* Once every event is handled and nothing is assumed, the cache has exactly
   the instances that run, on their nodes. *)
THEOREM CacheIsComplete == Spec => []CacheSettles
<1>1. EventInv => CacheSettles
  <2> SUFFICES ASSUME EventInv, Quiet, NEW i \in Instance \ forgotten
               PROVE  cache.state[i] = IF Bound(i) THEN api[i].node ELSE NoNode
    BY DEF CacheSettles
  <2>1. /\ watch = <<>> /\ assigned = <<>> /\ cache.assumed = {}
        /\ WatchInv /\ KnownInv /\ api[i] \in Object
    BY DEF Quiet, EventInv, CacheInv, SchedulerTypeOK
  <2>2. store[i] = api[i] \/ (api[i].status = "gone" /\ store[i] = Unborn)
    BY <2>1 DEF WatchInv, UpToDate
  <2>3. \A kd : ~Pending(i, kd)
    BY <2>1 DEF Pending
  <2>4. /\ cache.state[i] # NoNode =>
              /\ cache.state[i] = api[i].node
              /\ store[i].node # NoNode /\ store[i].status # "gone"
        /\ store[i].node # NoNode /\ store[i].status # "gone" => cache.state[i] # NoNode
    BY <2>1, <2>3 DEF KnownInv, Confirmed, Told, Backed
  <2>5. api[i].status = "new" => api[i].node = NoNode
    BY <2>1 DEF WatchInv
  <2> QED BY <2>1, <2>2, <2>4, <2>5 DEF Bound, Unborn, Object, Status
<1> QED BY <1>1, EventInvariant, PTL
-----------------------------------------------------------------------------
(***************************************************************************)
(* Placements                                                              *)
(***************************************************************************)

(* Refusal is mutual. *)
LEMMA RefusedSymmetric ==
  ASSUME NEW i, NEW n, NEW e, NEW m, KeptApart(i, n, e, m)
  PROVE  KeptApart(e, m, i, n)
  BY DEF KeptApart, Refused, SameDomain

(* A node that passes the filters is known, and refuses nobody the snapshot
   has. *)
LEMMA FitsApart ==
  ASSUME NEW c \in Cache, NEW i \in Instance,
         NEW n \in MinUsed(getNodesForInstance(i, c.known, c.on, c.deleting), c.on),
         NEW m \in c.known, NEW e \in c.on[m]
  PROVE  ~Refused(i, n, e, m)
<1>1. n \in filterNodesByInstanceAntiAffinity(i, c.known, c.on)
  BY DEF MinUsed, getNodesForInstance
<1>2. SatisfiesIncoming(i, n, c.known, c.on) /\ SatisfiesExisting(i, n, c.known, c.on)
  BY <1>1 DEF filterNodesByInstanceAntiAffinity
<1>3. Namespace[e] = Namespace[i] => e \in Neighbours(i, m, c.on)
  BY DEF Neighbours
<1>4. \A k : SameDomain(k, n, m) => SameDomain(k, m, n)
  BY DEF SameDomain
<1> QED
  BY <1>2, <1>3, <1>4 DEF Refused, SatisfiesIncoming, SatisfiesExisting

LEMMA FitsKnown ==
  ASSUME NEW c, NEW i,
         NEW n \in MinUsed(getNodesForInstance(i, c.known, c.on, c.deleting), c.on)
  PROVE  n \in c.known
  BY DEF MinUsed, getNodesForInstance, filterNodesByAffinity

(* No instance comes to count, none that counts moves, and no node comes back. *)
Holding ==
    /\ \A i \in Instance :
          Counted(i)' => /\ Counted(i) /\ cache'.state[i] = cache.state[i]
                         /\ api'[i].node \in {NoNode, cache.state[i]}
    /\ \A b \in binds' : b.stage = "patch" => b \in binds
    /\ \A n \in Node : Met(n) => Met(n)' /\ (nodes'[n] = "up" => nodes[n] = "up")
    /\ rec' = rec \/ rec'.pc # "assume"

LEMMA HoldingApart ==
  ASSUME SchedulerTypeOK, PlaceInv, ApartInv, Holding
  PROVE  PlaceInv' /\ ApartInv'
<1>1. ASSUME NEW i \in Instance, Counted(i)'
      PROVE  /\ Counted(i) /\ cache'.state[i] = cache.state[i]
             /\ cache.state[i] \in Node /\ Met(cache.state[i]) /\ Met(cache.state[i])'
             /\ nodes'[cache.state[i]] = "up" => nodes[cache.state[i]] = "up"
             /\ api'[i].node \in {NoNode, cache.state[i]}
             /\ \A b \in binds : b.inst = i /\ b.stage = "patch" => b.node = cache.state[i]
  BY <1>1 DEF Holding, PlaceInv
<1>2. ASSUME NEW i \in Instance, Counted(i)'
      PROVE  /\ cache'.state[i] \in Node /\ Met(cache.state[i])' /\ cache'.state[i] = cache.state[i]
             /\ api'[i].node \in {NoNode, cache'.state[i]}
             /\ \A b \in binds' : b.inst = i /\ b.stage = "patch" => b.node = cache'.state[i]
  BY <1>1, <1>2 DEF Holding
<1>3. PlaceInv'
  BY <1>2 DEF PlaceInv, Met
<1>4. ASSUME NEW i \in Instance, NEW e \in Instance, Counted(i)', Counted(e)', i # e
      PROVE  KeptApart(i, cache.state[i], e, cache.state[e])'
  <2>1. KeptApart(i, cache.state[i], e, cache.state[e])
    BY <1>1, <1>4 DEF ApartInv
  <2> QED BY <1>1, <1>4, <2>1 DEF KeptApart
<1>5. ASSUME rec'.pc = "assume"
      PROVE  /\ Met(rec.node)'
             /\ \A e \in Instance :
                   Counted(e)' /\ e # rec'.inst =>
                      KeptApart(rec.inst, rec.node, e, cache.state[e])'
  <2>1. rec' = rec /\ rec.node \in Node
    BY <1>5 DEF Holding, SchedulerTypeOK, Reconcile, Idle
  <2>2. Met(rec.node) /\ Met(rec.node)' /\ (nodes'[rec.node] = "up" => nodes[rec.node] = "up")
    BY <1>5, <2>1 DEF Holding, ApartInv, Met
  <2>3. ASSUME NEW e \in Instance, Counted(e)', e # rec.inst
        PROVE  KeptApart(rec.inst, rec.node, e, cache.state[e])'
    <3>1. KeptApart(rec.inst, rec.node, e, cache.state[e])
      BY <1>1, <1>5, <2>1, <2>3 DEF ApartInv
    <3> QED BY <1>1, <2>1, <2>2, <2>3, <3>1 DEF KeptApart
  <2> QED BY <2>1, <2>2, <2>3
<1>6. ApartInv'
  BY <1>4, <1>5 DEF ApartInv
<1> QED BY <1>3, <1>6

(* Nothing changes about the nodes. *)
SameNodes == UNCHANGED <<nodes, nodeEvents>> /\ cache'.known = cache.known

LEMMA SameNodesKept ==
  ASSUME SameNodes, NodesInv
  PROVE  /\ NodesInv'
         /\ \A n \in Node : Met(n) => Met(n)' /\ (nodes'[n] = "up" => nodes[n] = "up")
  BY DEF SameNodes, NodesInv, Met

(* The methods of the cache know no other nodes. *)
LEMMA KnownSame ==
  ASSUME NEW c \in Cache, NEW i \in Instance, NEW n \in Node, NEW d \in BOOLEAN,
         NEW a \in BOOLEAN
  PROVE  /\ addInstance(c, i, n, d, a).known = c.known
         /\ Unlink(c, i, n).known = c.known
         /\ Drop(c, i).known = c.known
         /\ AddInstance(c, i, n, d).known = c.known
         /\ UpdateInstance(c, i, n, d).known = c.known
         /\ RemoveInstance(c, i, n).known = c.known
<1>1. \A x \in Cache : addInstance(x, i, n, d, a).known = x.known
  BY DEF addInstance, Cache
<1>2. \A x \in Cache : addInstance(x, i, n, d, FALSE).known = x.known
  BY DEF addInstance, Cache
<1>3. \A x \in Cache : Drop(x, i).known = x.known
  BY DEF Drop, Cache
<1>4. \A m \in Node : Unlink(c, i, m).known = c.known
  BY DEF Unlink, Cache
<1>5. \A m \in Node : Unlink(c, i, m) \in Cache /\ removeInstance(c, i, m) \in Cache
  BY RemoveType
<1>6. \A m \in Node : removeInstance(c, i, m).known = c.known
  BY <1>3, <1>4, <1>5 DEF removeInstance
<1>7. ASSUME NEW m \in Node PROVE updateInstance(c, i, m, n, d).known = c.known
  <2>1. PICK x \in Cache : x = removeInstance(c, i, m)
    BY <1>5
  <2>2. updateInstance(c, i, m, n, d) = addInstance(x, i, n, d, FALSE)
    BY <2>1 DEF updateInstance
  <2>3. addInstance(x, i, n, d, FALSE).known = x.known
    BY DEF addInstance, Cache
  <2> QED BY <1>6, <2>1, <2>2, <2>3
<1>8. c.state[i] # NoNode => c.state[i] \in Node
  BY DEF Cache, MaybeNode
<1> QED
  BY <1>1, <1>2, <1>3, <1>4, <1>6, <1>7, <1>8 DEF AddInstance, UpdateInstance, RemoveInstance

(* When no node and no placement that counts changes. *)
LEMMA HeldStep ==
  ASSUME SchedulerTypeOK, NodesInv, PlaceInv, ApartInv, SameNodes,
         \A i \in Instance :
            Counted(i)' => /\ Counted(i) /\ cache'.state[i] = cache.state[i]
                           /\ api'[i].node \in {NoNode, cache.state[i]},
         \A b \in binds' : b.stage = "patch" => b \in binds,
         rec' = rec \/ rec'.pc # "assume"
  PROVE  NodesInv' /\ PlaceInv' /\ ApartInv'
  BY SameNodesKept, HoldingApart DEF Holding

(* What counts as placed can only become less if nothing is assumed. *)
LEMMA StillCounted ==
  ASSUME lost \subseteq lost', forgotten \subseteq forgotten',
         \A b \in binds' : b.stage = "patch" => b \in binds,
         NEW i, api[i].status = "gone" => api'[i].status = "gone",
         api'[i].node # NoNode => api[i].node # NoNode \/ Attempted(i),
         Counted(i)'
  PROVE  Counted(i)
  BY DEF Counted, Attempted

(* A goroutine that goes on does not try again. *)
LEMMA AdvancePatch ==
  ASSUME binds \subseteq Bind, NEW b \in binds, NEW st \in Stage \ {"patch"}, Advance(b, st)
  PROVE  \A x \in binds' : x.stage = "patch" => x \in binds
<1>1. [b EXCEPT !.stage = st].stage = st
  BY DEF Bind
<1> QED BY <1>1 DEF Advance

(* A change by users. *)
LEMMA UserPlaces ==
  ASSUME PlacementInv, NEW i \in Instance,
         CreateInstance(i) \/ TouchInstance(i) \/ DeleteInstance(i)
  PROVE  NodesInv' /\ PlaceInv' /\ ApartInv'
<1>1. SchedulerTypeOK /\ WatchInv /\ NodesInv /\ PlaceInv /\ ApartInv /\ api \in [Instance -> Object]
  BY DEF PlacementInv, EventInv, CacheInv, SchedulerTypeOK
<1>2. UNCHANGED <<nodes, nodeEvents, cache, binds, lost, forgotten, rec>>
  BY DEF CreateInstance, TouchInstance, DeleteInstance, history, worker
<1>3. /\ api[i].status # "gone" /\ api[i] \in Object
      /\ api[i].status = "new" => api[i].node = NoNode
  BY <1>1 DEF CreateInstance, TouchInstance, DeleteInstance, WatchInv
<1>4. api'[i].node = api[i].node /\ \A h \in Instance \ {i} : api'[h] = api[h]
  <2>1. CASE CreateInstance(i)
    BY <1>1, <1>3, <2>1 DEF CreateInstance, Put
  <2>2. CASE TouchInstance(i)
    BY <1>1, <2>2 DEF TouchInstance, Put
  <2>3. CASE DeleteInstance(i)
    BY <1>1, <1>3, <2>3 DEF DeleteInstance, Put, Object
  <2> QED BY <2>1, <2>2, <2>3
<1>5. \A h \in Instance : /\ api'[h].node = api[h].node
                          /\ api[h].status = "gone" => api'[h].status = "gone"
  BY <1>3, <1>4
<1>6. \A h \in Instance : Counted(h)' => Counted(h)
  BY <1>2, <1>5, StillCounted
<1>7. SameNodes
  BY <1>2 DEF SameNodes
<1>8. \A h \in Instance : Counted(h) => api[h].node \in {NoNode, cache.state[h]}
  BY <1>1 DEF PlaceInv
<1> QED BY <1>1, <1>2, <1>5, <1>6, <1>7, <1>8, HeldStep

(* When instances, goroutines and the cache stay as they are. *)
LEMMA IdlePlaces ==
  ASSUME PlacementInv, UNCHANGED <<api, nodes, nodeEvents, cache, binds, lost, forgotten>>,
         rec' = rec \/ rec'.pc # "assume"
  PROVE  NodesInv' /\ PlaceInv' /\ ApartInv'
<1>1. SchedulerTypeOK /\ NodesInv /\ PlaceInv /\ ApartInv
  BY DEF PlacementInv, EventInv, CacheInv
<1>2. \A i \in Instance : Counted(i)' <=> Counted(i)
  BY DEF Counted, Attempted
<1>3. SameNodes
  BY DEF SameNodes
<1>4. \A i \in Instance : Counted(i) => api[i].node \in {NoNode, cache.state[i]}
  BY <1>1 DEF PlaceInv
<1> QED BY <1>1, <1>2, <1>3, <1>4, HeldStep

(* Nodes come once and go once, and the cache hears of it in order. *)
LEMMA NodePlaces ==
  ASSUME PlacementInv, HandleNode \/ \E n \in Node : CreateNode(n) \/ DeleteNode(n)
  PROVE  NodesInv' /\ PlaceInv' /\ ApartInv'
<1>1. /\ SchedulerTypeOK /\ NodesInv /\ PlaceInv /\ ApartInv /\ cache \in Cache
      /\ nodes \in [Node -> {"new", "up", "gone"}]
      /\ nodeEvents \in Seq([node : Node, kind : {"create", "delete"}])
  BY DEF PlacementInv, EventInv, CacheInv, SchedulerTypeOK
<1>2. UNCHANGED <<api, binds, lost, forgotten, rec>>
  BY DEF HandleNode, CreateNode, DeleteNode, NodeStep, server, worker, history
<1>3. ASSUME cache'.state = cache.state,
             \A n \in Node : Met(n) => Met(n)' /\ (nodes'[n] = "up" => nodes[n] = "up")
      PROVE  PlaceInv' /\ ApartInv'
  <2>1. \A i \in Instance : Counted(i)' <=> Counted(i)
    BY <1>2 DEF Counted, Attempted
  <2>2. \A i \in Instance : Counted(i) => api[i].node \in {NoNode, cache.state[i]}
    BY <1>1 DEF PlaceInv
  <2>3. Holding
    BY <1>2, <1>3, <2>1, <2>2 DEF Holding
  <2> QED BY <1>1, <2>3, HoldingApart
<1> DEFINE E == [node : Node, kind : {"create", "delete"}]
<1>4. \A n \in Node : Met(n) => nodes[n] # "new"
  BY <1>1 DEF Met, NodesInv
<1>5. CASE HandleNode
  <2>1. PICK e : e = Head(nodeEvents)
    OBVIOUS
  <2>2. Shrunk(nodeEvents, nodeEvents', e) /\ e \in E
    <3>1. nodeEvents \in Seq(E) /\ nodeEvents # <<>> /\ nodeEvents' = Tail(nodeEvents)
      BY <1>1, <1>5 DEF HandleNode
    <3> HIDE DEF E
    <3> QED BY <2>1, <3>1, TailShrinks
  <2>3. nodes' = nodes
    BY <1>5 DEF HandleNode, server
  <2>4. IF e.kind = "create" THEN nodes[e.node] # "new" ELSE nodes[e.node] = "gone"
    BY <1>1, <2>2 DEF NodesInv, Shrunk
  <2>5. /\ cache'.state = cache.state
        /\ cache'.known \subseteq cache.known \union {n \in {e.node} : e.kind = "create"}
        /\ cache.known \subseteq cache'.known \union {n \in {e.node} : e.kind # "create"}
    <3>1. CASE e.kind = "create"
      BY <1>1, <1>5, <2>1, <3>1 DEF HandleNode, Cache
    <3>2. CASE e.kind # "create"
      BY <1>1, <1>5, <2>1, <3>2 DEF HandleNode, Cache
    <3> QED BY <3>1, <3>2
  <2>6. NodesInv'
    <3>1. \A n \in cache'.known : nodes'[n] # "new"
      BY <1>1, <2>3, <2>4, <2>5 DEF NodesInv
    <3>2. ASSUME NEW j \in DOMAIN nodeEvents'
          PROVE  IF nodeEvents'[j].kind = "create" THEN nodes'[nodeEvents'[j].node] # "new"
                                                   ELSE nodes'[nodeEvents'[j].node] = "gone"
      BY <1>1, <2>2, <2>3 DEF NodesInv, Shrunk
    <3> QED BY <3>1, <3>2 DEF NodesInv
  <2>7. \A n \in Node : Met(n) => Met(n)' /\ (nodes'[n] = "up" => nodes[n] = "up")
    BY <2>3, <2>4, <2>5 DEF Met
  <2> QED BY <1>3, <2>5, <2>6, <2>7
<1>6. ASSUME NEW n \in Node, CreateNode(n) \/ DeleteNode(n)
      PROVE  NodesInv' /\ PlaceInv' /\ ApartInv'
  <2>1. PICK from, to, kind :
             /\ NodeStep(n, from, to, kind)
             /\ <<from, to, kind>> \in {<<"new", "up", "create">>, <<"up", "gone", "delete">>}
    BY <1>6 DEF CreateNode, DeleteNode
  <2>2. /\ nodes[n] = from /\ nodes' = [nodes EXCEPT ![n] = to] /\ cache' = cache
        /\ nodeEvents' = Append(nodeEvents, [node |-> n, kind |-> kind])
    BY <2>1 DEF NodeStep
  <2>3. \/ from = "new" /\ to = "up" /\ kind = "create"
        \/ from = "up" /\ to = "gone" /\ kind = "delete"
    BY <2>1
  <2>4. Grown(nodeEvents, nodeEvents', [node |-> n, kind |-> kind])
    <3>1. nodeEvents \in Seq(E) /\ [node |-> n, kind |-> kind] \in E
      BY <1>1, <2>3
    <3> HIDE DEF E
    <3> QED BY <2>2, <3>1, AppendGrows
  <2>5. \A m \in Node : /\ nodes'[m] # "new" \/ nodes[m] = "new"
                        /\ nodes[m] = "gone" => nodes'[m] = "gone"
                        /\ nodes'[m] = "up" => nodes[m] \in {"up", "new"}
    BY <1>1, <2>2, <2>3
  <2>6. \A j \in DOMAIN nodeEvents : nodeEvents[j].node \in Node
    <3>1. nodeEvents \in Seq(E)
      BY <1>1
    <3>2. \A j \in DOMAIN nodeEvents : nodeEvents[j] \in E
      <4> HIDE DEF E
      <4> QED BY <3>1
    <3> QED BY <3>2
  <2>7. NodesInv'
    <3>1. \A m \in cache'.known : nodes'[m] # "new"
      BY <1>1, <2>2, <2>5 DEF NodesInv, Cache
    <3>2. ASSUME NEW j \in DOMAIN nodeEvents'
          PROVE  IF nodeEvents'[j].kind = "create" THEN nodes'[nodeEvents'[j].node] # "new"
                                                   ELSE nodes'[nodeEvents'[j].node] = "gone"
      <4>1. CASE j \in DOMAIN nodeEvents /\ nodeEvents'[j] = nodeEvents[j]
        BY <1>1, <2>5, <2>6, <4>1 DEF NodesInv
      <4>2. CASE j \notin DOMAIN nodeEvents \/ nodeEvents'[j] # nodeEvents[j]
        <5>1. nodeEvents'[j] = [node |-> n, kind |-> kind]
          BY <2>4, <4>2 DEF Grown
        <5> QED BY <1>1, <2>2, <2>3, <5>1
      <4> QED BY <4>1, <4>2
    <3> QED BY <3>1, <3>2 DEF NodesInv
  <2>8. \A m \in Node : Met(m) => Met(m)' /\ (nodes'[m] = "up" => nodes[m] = "up")
    BY <1>4, <2>2, <2>5 DEF Met
  <2> QED BY <1>3, <2>2, <2>7, <2>8
<1> QED BY <1>5, <1>6

(* What a step drops although it counts is lost. *)
LEMMA DroppedIsLost ==
  ASSUME PlacementInv, Losing, UNCHANGED <<api, binds>>,
         NEW i \in Instance, Counted(i), Counted(i)'
  PROVE  cache'.state[i] # NoNode
<1>1. WatchInv /\ PlaceInv /\ api[i] \in Object
  BY DEF PlacementInv, EventInv, CacheInv, SchedulerTypeOK
<1>2. cache.state[i] # NoNode
  BY <1>1, NoNodeAssumption DEF PlaceInv
<1>3. api[i].node # NoNode => api[i].status \in {"live", "deleting"}
  BY <1>1 DEF WatchInv, Counted, Object, Status
<1>4. i \notin lost'
  BY DEF Counted
<1> QED BY <1>2, <1>3, <1>4 DEF Losing, Counted, Attempted

(* An event about an instance that counts moves it nowhere. *)
LEMMA HandlePlaces ==
  ASSUME PlacementInv, HandleAssigned
  PROVE  NodesInv' /\ PlaceInv' /\ ApartInv'
<1>1. /\ CacheInv /\ SchedulerTypeOK /\ WatchInv /\ AssignedInv
      /\ NodesInv /\ PlaceInv /\ ApartInv /\ cache \in Cache
  BY DEF PlacementInv, EventInv, CacheInv, SchedulerTypeOK
<1>2. PICK e : Handling(e)
  BY <1>1, Handlings
<1>3. /\ e.inst \in Instance /\ e.node = api[e.inst].node /\ e.node \in Node
      /\ e.kind = "remove" => store[e.inst].status = "gone"
  BY <1>1, <1>2, HandlingPending
<1>4. UNCHANGED <<api, nodes, nodeEvents, binds, forgotten, rec>> /\ lost \subseteq lost'
  BY DEF HandleAssigned, Losing, server, worker, history
<1>5. SameNodes
  <2>1. PICK x : x = Head(assigned)
    OBVIOUS
  <2>2. x \in AssignedEvent
    BY <1>1, <2>1, EventTypes, TailShrinks DEF HandleAssigned
  <2>3. /\ AddInstance(cache, x.inst, x.node, x.deleting).known = cache.known
        /\ UpdateInstance(cache, x.inst, x.node, x.deleting).known = cache.known
        /\ RemoveInstance(cache, x.inst, x.node).known = cache.known
    BY <1>1, <2>2, KnownSame DEF AssignedEvent
  <2> QED BY <1>4, <2>1, <2>2, <2>3 DEF HandleAssigned, SameNodes, AssignedEvent
<1>6. \A i \in Instance : Counted(i)' => Counted(i)
  BY <1>4, StillCounted
<1>7. ASSUME NEW i \in Instance, Counted(i) PROVE cache'.state[i] = cache.state[i]
  <2>1. /\ cache.state[i] \in Node /\ api[i].node \in {NoNode, cache.state[i]}
        /\ api[i].status # "gone" /\ i \notin forgotten
    BY <1>1, <1>7 DEF PlaceInv, Counted
  <2>2. CASE i # e.inst
    BY <1>2, <2>2 DEF Handling, Same
  <2>3. CASE i = e.inst
    <3>1. e.node = cache.state[i]
      BY <1>3, <2>1, <2>3, NoNodeAssumption
    <3>2. e.kind # "remove"
      BY <1>1, <1>3, <2>1, <2>3 DEF WatchInv, Before
    <3> QED BY <1>2, <2>1, <2>3, <3>1, <3>2 DEF Handling, AssignedEvent
  <2> QED BY <2>2, <2>3
<1>8. \A i \in Instance : Counted(i) => api[i].node \in {NoNode, cache.state[i]}
  BY <1>1 DEF PlaceInv
<1> QED BY <1>1, <1>4, <1>5, <1>6, <1>7, <1>8, HeldStep

(* An instance that expires while it counts is lost. *)
LEMMA CleanupPlaces ==
  ASSUME PlacementInv, cleanupAssumedInstances
  PROVE  NodesInv' /\ PlaceInv' /\ ApartInv'
<1>1. SchedulerTypeOK /\ NodesInv /\ PlaceInv /\ ApartInv /\ cache \in Cache
  BY DEF PlacementInv, EventInv, CacheInv, SchedulerTypeOK
<1>2. UNCHANGED <<api, nodes, nodeEvents, binds, forgotten, rec>> /\ lost \subseteq lost' /\ Losing
  BY DEF cleanupAssumedInstances, Losing, server, informer, worker, history
<1>3. SameNodes
  BY <1>1, <1>2 DEF cleanupAssumedInstances, SameNodes, Cache
<1>4. \A i \in Instance : Counted(i)' => Counted(i)
  BY <1>2, StillCounted
<1>5. ASSUME NEW i \in Instance, Counted(i)' PROVE cache'.state[i] = cache.state[i]
  <2>1. cache'.state[i] # NoNode
    BY <1>2, <1>4, <1>5, DroppedIsLost
  <2>2. cache'.state[i] \in {NoNode, cache.state[i]}
    BY <1>1 DEF cleanupAssumedInstances, Cache
  <2> QED BY <2>1, <2>2
<1>6. \A i \in Instance : Counted(i) => api[i].node \in {NoNode, cache.state[i]}
  BY <1>1 DEF PlaceInv
<1> QED BY <1>1, <1>2, <1>3, <1>4, <1>5, <1>6, HeldStep

(* The snapshot a node is picked from has every instance that counts. *)
LEMMA PickPlaces ==
  ASSUME PlacementInv, Pick
  PROVE  NodesInv' /\ PlaceInv' /\ ApartInv'
<1>1. /\ SchedulerTypeOK /\ NodesInv /\ PlaceInv /\ ApartInv /\ cache \in Cache
      /\ CacheConsistent /\ nodes \in [Node -> {"new", "up", "gone"}]
  BY DEF PlacementInv, EventInv, CacheInv, SchedulerTypeOK
<1>2. UNCHANGED <<api, nodes, nodeEvents, cache, binds, lost, forgotten>>
  BY DEF Pick, server, informer, history
<1>3. CASE rec' = Idle
  BY <1>2, <1>3, IdlePlaces DEF Idle
<1>4. CASE rec' # Idle
  <2>1. PICK n \in MinUsed(getNodesForInstance(rec.inst, cache.known, cache.on, cache.deleting),
                           cache.on) :
             rec' = [pc |-> "assume", inst |-> rec.inst, node |-> n]
    BY <1>4 DEF Pick
  <2>2. rec.inst \in Instance
    BY <1>1 DEF Pick, SchedulerTypeOK, Reconcile, Idle
  <2>3. n \in cache.known
    BY <2>1, FitsKnown
  <2>4. ASSUME NEW e \in Instance, Counted(e)
        PROVE  KeptApart(rec.inst, n, e, cache.state[e])
    <3>1. cache.state[e] \in Node /\ Met(cache.state[e]) /\ e \notin forgotten
      BY <1>1, <2>4 DEF PlaceInv, Counted
    <3>2. e \in cache.on[cache.state[e]]
      BY <1>1, <3>1 DEF CacheConsistent, Consistent
    <3>3. nodes[cache.state[e]] = "up" => cache.state[e] \in cache.known
      BY <3>1 DEF Met
    <3> QED BY <1>1, <2>1, <2>2, <3>2, <3>3, FitsApart DEF KeptApart
  <2>5. \A e \in Instance : Counted(e)' <=> Counted(e)
    BY <1>2 DEF Counted, Attempted
  <2>6. NodesInv' /\ PlaceInv'
    BY <1>1, <1>2, <2>5 DEF NodesInv, PlaceInv, Met
  <2>7. \A i, e \in Instance : Counted(i)' /\ Counted(e)' /\ i # e =>
                                   KeptApart(i, cache.state[i], e, cache.state[e])'
    BY <1>1, <1>2, <2>5 DEF ApartInv, KeptApart
  <2>8. /\ rec'.inst = rec.inst /\ rec'.node = n /\ Met(n)'
        /\ \A e \in Instance : Counted(e)' => KeptApart(rec'.inst, rec'.node, e, cache'.state[e])
    BY <1>2, <2>1, <2>3, <2>4, <2>5 DEF Met
  <2>9. ApartInv'
    BY <1>2, <2>7, <2>8 DEF ApartInv, KeptApart, Met
  <2> QED BY <2>6, <2>9
<1> QED BY <1>3, <1>4

(* The instance that is assumed did not count before, and the node it is
   assumed on was picked with all those in view that do. *)
LEMMA AssumePlaces ==
  ASSUME PlacementInv, Assume
  PROVE  NodesInv' /\ PlaceInv' /\ ApartInv'
<1>1. /\ SchedulerTypeOK /\ NodesInv /\ PlaceInv /\ ApartInv /\ cache \in Cache
      /\ rec \in Reconcile /\ rec.pc = "assume"
  BY DEF PlacementInv, EventInv, CacheInv, SchedulerTypeOK, Assume
<1>2. UNCHANGED <<api, nodes, nodeEvents, lost, forgotten>> /\ rec' = Idle
  BY DEF Assume, server, informer
<1>3. CASE cache.state[rec.inst] # NoNode
  <2>1. UNCHANGED <<cache, binds>>
    BY <1>3 DEF Assume
  <2> QED BY <1>2, <2>1, IdlePlaces DEF Idle
<1>4. CASE cache.state[rec.inst] = NoNode
  <2> DEFINE i0 == rec.inst
             n0 == rec.node
  <2>1. i0 \in Instance /\ n0 \in Node
    BY <1>1 DEF Reconcile, Idle
  <2>2. /\ cache' = addInstance(cache, i0, n0, FALSE, TRUE)
        /\ binds' = binds \union {[inst |-> i0, node |-> n0, stage |-> "patch",
                                   attempt |-> attempts + 1]}
    BY <1>4 DEF Assume
  <2>3. SameNodes
    BY <1>1, <1>2, <2>1, <2>2, KnownSame DEF SameNodes
  <2>4. /\ cache'.state[i0] = n0
        /\ \A e \in Instance \ {i0} : cache'.state[e] = cache.state[e]
    BY <1>1, <2>1, <2>2 DEF addInstance, Cache
  <2>5. /\ NodesInv' /\ \A n \in Node : Met(n) => Met(n)'
        /\ \A n \in Node : nodes'[n] = nodes[n]
    BY <1>1, <2>3, SameNodesKept DEF SameNodes
  <2>6. ~Counted(i0)
    BY <1>1, <1>4, <2>1, NoNodeAssumption DEF PlaceInv
  <2>7. ASSUME NEW e \in Instance, e # i0, Counted(e)' PROVE Counted(e)
    BY <1>2, <2>2, <2>7 DEF Counted, Attempted
  <2>8. ASSUME NEW e \in Instance, Counted(e)'
        PROVE  /\ cache'.state[e] \in Node /\ Met(cache'.state[e])
               /\ api'[e].node \in {NoNode, cache'.state[e]}
               /\ \A b \in binds' : b.inst = e /\ b.stage = "patch" => b.node = cache'.state[e]
    <3>1. CASE e = i0
      <4>1. api[i0].node = NoNode /\ ~Attempted(i0)
        BY <1>2, <2>6, <2>8, <3>1 DEF Counted
      <4>2. Met(n0)
        BY <1>1 DEF ApartInv
      <4>3. /\ cache'.state[e] = n0 /\ Met(cache'.state[e]) /\ api'[e].node = NoNode
        BY <1>2, <2>3, <2>4, <3>1, <4>1, <4>2 DEF Met, SameNodes
      <4>4. ASSUME NEW b \in binds', b.inst = i0, b.stage = "patch" PROVE b.node = n0
        <5>1. b \notin binds
          BY <4>1, <4>4 DEF Attempted
        <5>2. b = [inst |-> i0, node |-> n0, stage |-> "patch", attempt |-> attempts + 1]
          BY <2>2, <5>1
        <5> QED BY <5>2
      <4>5. \A b \in binds' : b.inst = e /\ b.stage = "patch" => b.node = cache'.state[e]
        BY <3>1, <4>3, <4>4
      <4> QED BY <2>1, <4>3, <4>5
    <3>2. CASE e # i0
      <4>1. /\ cache.state[e] \in Node /\ Met(cache.state[e])
            /\ api[e].node \in {NoNode, cache.state[e]}
            /\ \A b \in binds : b.inst = e /\ b.stage = "patch" => b.node = cache.state[e]
        BY <1>1, <2>7, <2>8, <3>2 DEF PlaceInv
      <4>2. \A b \in binds' : b \in binds \/ b.inst = i0
        BY <2>2
      <4> QED BY <1>2, <2>4, <3>2, <4>1, <4>2
    <3> QED BY <3>1, <3>2
  <2>9. PlaceInv'
    BY <2>5, <2>8 DEF PlaceInv, Met
  <2>10. \A e \in Instance \ {i0} : Counted(e)' => KeptApart(i0, n0, e, cache.state[e])
    BY <1>1, <2>7 DEF ApartInv
  <2>11. ASSUME NEW i \in Instance, NEW e \in Instance, Counted(i)', Counted(e)', i # e
         PROVE  KeptApart(i, cache'.state[i], e, cache'.state[e])
    <3>1. CASE i = i0
      BY <2>4, <2>10, <2>11, <3>1
    <3>2. CASE e = i0
      <4>1. KeptApart(e, cache'.state[e], i, cache'.state[i])
        BY <2>4, <2>10, <2>11, <3>2
      <4> QED BY <4>1, RefusedSymmetric
    <3>3. CASE i # i0 /\ e # i0
      BY <1>1, <2>4, <2>7, <2>11, <3>3 DEF ApartInv
    <3> QED BY <3>1, <3>2, <3>3
  <2>12. ASSUME NEW i \in Instance, NEW e \in Instance, Counted(i)', Counted(e)', i # e
         PROVE  KeptApart(i, cache.state[i], e, cache.state[e])'
    BY <1>2, <2>11, <2>12 DEF KeptApart
  <2>13. ApartInv'
    BY <1>2, <2>12 DEF ApartInv, Idle
  <2> QED BY <2>5, <2>9, <2>13
<1> QED BY <1>3, <1>4

(* A goroutine binds to the node that was assumed, or to none. *)
LEMMA BindingPlaces ==
  ASSUME PlacementInv, NEW b \in binds, Binding(b)
  PROVE  NodesInv' /\ PlaceInv' /\ ApartInv'
<1>1. /\ SchedulerTypeOK /\ WatchInv /\ NodesInv /\ PlaceInv /\ ApartInv /\ cache \in Cache
      /\ binds \subseteq Bind /\ ForgettingMarked /\ api \in [Instance -> Object]
  BY DEF PlacementInv, EventInv, CacheInv, SchedulerTypeOK
<1>2. b.inst \in Instance /\ b.node \in Node
  BY <1>1 DEF Bind
<1>3. UNCHANGED <<nodes, nodeEvents, rec>> /\ forgotten \subseteq forgotten' /\ lost \subseteq lost'
  BY DEF Binding, PatchApplied, PatchFailed, FinishBinding, ForgetInstance, ForgetUnlink,
         ForgetDrop, Losing, server, informer, worker, history
<1>4. \A x \in binds' : x.stage = "patch" => x \in binds
  <2>1. \/ binds' = binds \ {b}
        \/ \E st \in Stage \ {"patch"} : Advance(b, st)
    BY DEF Binding, PatchApplied, PatchFailed, FinishBinding, ForgetInstance, ForgetUnlink,
           ForgetDrop, Stage
  <2> QED BY <1>1, <2>1, AdvancePatch
<1>5. \A i \in Instance : Counted(i) => api[i].node \in {NoNode, cache.state[i]}
  BY <1>1 DEF PlaceInv
<1>6. CASE PatchApplied(b)
  <2>1. cache' = cache
    BY <1>6 DEF PatchApplied
  <2>2. SameNodes
    BY <1>3, <2>1 DEF SameNodes
  <2>3. /\ \A i \in Instance \ {b.inst} : api'[i] = api[i]
        /\ api'[b.inst].node = b.node
        /\ api[b.inst].status # "gone"
    <3>1. CASE UNCHANGED <<api, watch>> /\ api[b.inst].node = b.node
      BY <1>6, <3>1 DEF PatchApplied, Bindable
    <3>2. CASE (\E o : Change(b.inst, o)) /\ api'[b.inst].node = b.node
      BY <1>1, <3>2 DEF Change, Put, Before
    <3> QED BY <1>1, <1>2, <1>6, <3>1, <3>2, Changes
  <2>4. Attempted(b.inst)
    BY <1>6 DEF PatchApplied, Attempted
  <2>5. ASSUME NEW i \in Instance
        PROVE  /\ api[i].status = "gone" => api'[i].status = "gone"
               /\ api'[i].node # NoNode => api[i].node # NoNode \/ Attempted(i)
    BY <2>3, <2>4
  <2>6. \A i \in Instance : Counted(i)' => Counted(i)
    BY <1>3, <1>4, <2>5, StillCounted
  <2>7. Counted(b.inst) => b.node = cache.state[b.inst]
    BY <1>1, <1>2, <1>6 DEF PlaceInv, PatchApplied
  <2>8. \A i \in Instance : Counted(i) => api'[i].node \in {NoNode, cache.state[i]}
    BY <1>5, <2>3, <2>7
  <2> QED BY <1>1, <1>3, <1>4, <2>1, <2>2, <2>6, <2>8, HeldStep
<1>7. CASE ~PatchApplied(b)
  <2>1. api' = api
    BY <1>7 DEF Binding, PatchFailed, FinishBinding, ForgetInstance, ForgetUnlink,
           ForgetDrop, server
  <2>2. \A i \in Instance : Counted(i)' => Counted(i)
    BY <1>3, <1>4, <2>1, StillCounted
  <2>3. \/ cache' = cache
        \/ FinishBinding(b)
        \/ b.inst \in forgotten /\ cache' \in {Unlink(cache, b.inst, b.node), Drop(cache, b.inst)}
    BY <1>1, <1>7 DEF Binding, PatchFailed, ForgetInstance, ForgetUnlink, ForgetDrop,
           ForgettingMarked
  <2>4. cache'.known = cache.known /\ \A i \in Instance \ forgotten : cache'.state[i] = cache.state[i]
    <3>1. CASE cache' = cache
      BY <3>1
    <3>2. CASE FinishBinding(b)
      BY <1>1, <3>2 DEF FinishBinding, Cache
    <3>3. CASE b.inst \in forgotten /\ cache' \in {Unlink(cache, b.inst, b.node), Drop(cache, b.inst)}
      <4>1. cache'.known = cache.known
        BY <1>1, <1>2, <3>3 DEF Unlink, Drop, Cache
      <4>2. \A i \in Instance \ forgotten : Same(cache, cache', i)
        BY <1>1, <1>2, <3>3, OthersSame
      <4> QED BY <4>1, <4>2 DEF Same
    <3> QED BY <2>3, <3>1, <3>2, <3>3
  <2>5. SameNodes
    BY <1>3, <2>4 DEF SameNodes
  <2>6. \A i \in Instance : Counted(i) => cache'.state[i] = cache.state[i]
    BY <2>4 DEF Counted
  <2> QED BY <1>1, <1>3, <1>4, <1>5, <2>1, <2>2, <2>5, <2>6, HeldStep
<1> QED BY <1>6, <1>7

(* After a restart nothing counts: what had a node is lost. *)
LEMMA RestartPlaces ==
  ASSUME PlacementInv, Restart
  PROVE  NodesInv' /\ PlaceInv' /\ ApartInv'
<1>1. /\ SchedulerTypeOK /\ WatchInv /\ PlaceInv /\ api \in [Instance -> Object]
      /\ nodes \in [Node -> {"new", "up", "gone"}]
  BY DEF PlacementInv, EventInv, CacheInv, SchedulerTypeOK
<1>2. /\ UNCHANGED <<api, nodes, forgotten>> /\ binds' = {} /\ rec' = Idle /\ Losing
      /\ cache'.known = {} /\ \A i \in Instance : cache'.state[i] = NoNode
  BY DEF Restart, server, NewCache
<1>3. ASSUME NEW i \in Instance, Counted(i)' PROVE FALSE
  <2>1. api[i].node # NoNode /\ api[i].status # "gone" /\ i \notin forgotten /\ i \notin lost'
    BY <1>2, <1>3 DEF Counted, Attempted
  <2>2. api[i].status \in {"live", "deleting"}
    BY <1>1, <2>1 DEF WatchInv, Object, Status
  <2>3. cache.state[i] = NoNode
    BY <1>2, <2>1, <2>2 DEF Losing
  <2>4. i \notin lost
    BY <1>2, <2>1 DEF Losing
  <2>5. Counted(i)
    BY <2>1, <2>4 DEF Counted
  <2> QED BY <1>1, <2>3, <2>5, NoNodeAssumption DEF PlaceInv
<1>4. PlaceInv' /\ ApartInv'
  BY <1>2, <1>3 DEF PlaceInv, ApartInv, Idle
<1>5. NodesInv'
  <2> DEFINE up == {m \in Node : nodes[m] = "up"}
             Created(n) == [node |-> n, kind |-> "create"]
  <2>1. IsFiniteSet(up)
    BY FiniteAssumption, FS_Subset
  <2>2. IsFiniteSet({Created(n) : n \in up})
    <3>1. [n \in up |-> Created(n)] \in Surjection(up, {Created(n) : n \in up})
      BY DEF Surjection
    <3> HIDE DEF up, Created
    <3> QED BY <2>1, <3>1, FS_Surjection
  <2>3. nodeEvents' \in SetToSeqs({Created(n) : n \in up})
    BY DEF Restart
  <2>4. \A k \in DOMAIN nodeEvents' : \E n \in up : nodeEvents'[k] = Created(n)
    <3> HIDE DEF up, Created
    <3> QED BY <2>2, <2>3, ListingComplete
  <2> QED BY <1>2, <2>4 DEF NodesInv
<1> QED BY <1>4, <1>5

(* Every step keeps those that count where they are, and apart. *)
LEMMA PlacementStep == PlacementInv /\ [Next]_vars => PlacementInv'
<1> SUFFICES ASSUME PlacementInv, [Next]_vars PROVE NodesInv' /\ PlaceInv' /\ ApartInv'
  BY EventStep DEF PlacementInv
<1>1. CASE DeliverInstance \/ \E e \in unassigned : HandleUnassigned(e)
  <2>1. UNCHANGED <<api, nodes, nodeEvents, cache, binds, lost, forgotten, rec>>
    BY <1>1 DEF DeliverInstance, HandleUnassigned, server, worker, history
  <2> QED BY <2>1, IdlePlaces
<1>2. CASE (\E i \in Instance : Get(i)) \/ CheckAssumed
  <2>1. UNCHANGED <<api, nodes, nodeEvents, cache, binds, lost, forgotten>>
    BY <1>2 DEF Get, CheckAssumed, server, informer, history
  <2>2. rec'.pc # "assume"
    <3>1. rec \in Reconcile
      BY DEF PlacementInv, EventInv, CacheInv, SchedulerTypeOK
    <3> QED BY <1>2, <3>1 DEF Get, CheckAssumed, Reconcile, Idle
  <2> QED BY <2>1, <2>2, IdlePlaces
<1>3. CASE UNCHANGED vars
  BY <1>3, IdlePlaces DEF vars
<1> QED
  BY <1>1, <1>2, <1>3, UserPlaces, NodePlaces, HandlePlaces, CleanupPlaces, PickPlaces,
     AssumePlaces, BindingPlaces, RestartPlaces DEF Next, User, Handlers, Reconciler

(* The cache has every instance with a node, or on its way to one, that it
   did not lose, and none of these refuses another, in every reachable state. *)
THEOREM PlacementInvariant == Spec => []PlacementInv
<1>1. Init => PlacementInv
  <2> SUFFICES ASSUME Init PROVE PlacementInv
    OBVIOUS
  <2>1. NodesInv
    BY InitialNodesAssumption DEF Init, NodesInv, NewCache
  <2>2. \A i \in Instance : ~Counted(i)
    BY DEF Init, Counted, Attempted, Unborn
  <2> QED BY <2>1, <2>2, InitEvents DEF PlacementInv, PlaceInv, ApartInv, Init, Idle
<1> QED BY <1>1, PlacementStep, PTL DEF Spec

(* Two instances that refuse each other only ever end up in one domain when
   the cache lost one of them, or ForgetInstance got hold of it. *)
THEOREM KeptApartUnlessLost == Spec => []ApartUnlessLost
<1>1. PlacementInv => ApartUnlessLost
  <2> SUFFICES ASSUME PlacementInv, NEW i \in Instance \ (lost \union forgotten),
                      NEW e \in Instance \ (lost \union forgotten),
                      Bound(i), Bound(e), i # e,
                      nodes[api[i].node] = "up", nodes[api[e].node] = "up"
               PROVE  ~Refused(i, api[i].node, e, api[e].node)
    BY DEF ApartUnlessLost, Apart
  <2>1. Counted(i) /\ Counted(e)
    BY DEF Counted, Bound
  <2>2. api[i].node = cache.state[i] /\ api[e].node = cache.state[e]
    BY <2>1 DEF PlacementInv, PlaceInv, Bound
  <2> QED BY <2>1, <2>2 DEF PlacementInv, ApartInv, KeptApart
<1> QED BY <1>1, PlacementInvariant, PTL
=============================================================================
