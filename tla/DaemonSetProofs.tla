-------------------------- MODULE DaemonSetProofs --------------------------
(***************************************************************************)
(* What the expectations of the daemon set controller are for holds for    *)
(* any nodes, specifications, faults and lag of the informers: it does not *)
(* create a second instance for a node, and what it deletes leaves one.    *)
(***************************************************************************)
EXTENDS DaemonSet, FiniteSetTheorems, TLAPS

(***************************************************************************)
(* The inductive invariant                                                 *)
(***************************************************************************)

Event == [inst : Inst, obj : Object, gone : BOOLEAN]

RecType ==
    {Idle}
    \union [pc : {"manage"}, spec : Specs, nodes : [Node -> Label \union {Nil}]]
    \union [pc : {"sync"}, spec : Specs, nodes : [Node -> Label \union {Nil}],
            create : UNION {[S -> Node] : S \in SUBSET Inst}, delete : SUBSET Inst,
            err : BOOLEAN]

TypeInv == DSTypeOK /\ rec \in RecType

(* Nothing on its way to the informer is about i. *)
NoEvent(i) == \A k \in DOMAIN watch : watch[k].inst # i

(* The last event about i on its way to the informer is at k. *)
LastOf(i, k) ==
    watch[k].inst = i /\ \A h \in DOMAIN watch : k < h => watch[h].inst # i

(* What the informer has once event e is delivered. *)
After(e) == IF e.gone THEN Nil ELSE e.obj

UpToDate(i) ==
    \/ \E k \in DOMAIN watch : LastOf(i, k) /\ After(watch[k]) = insts[i]
    \/ NoEvent(i) /\ store[i] = insts[i]

(* o is or was the state of instance i: the node is final, a deletion too, and
   labels and owner are those it was created with, unless it is excused. *)
Version(i, o) ==
    /\ Exists(i) => o.node = insts[i].node
    /\ Live(i) => o.status = "live"
    /\ i \notin excused => o.owned /\ o.match

(* Event e can come after o. *)
Follows(e, o) == o.status = "deleting" => e.obj.status = "deleting"

(* The informer gets the history of every instance, in order. *)
WatchInv ==
    /\ \A i \in Inst : /\ UpToDate(i)
                       /\ insts[i] # Nil => Version(i, insts[i])
                       /\ store[i] # Nil => Version(i, store[i])
    /\ \A k \in DOMAIN watch :
          LET i == watch[k].inst IN
          /\ Version(i, watch[k].obj)
          /\ watch[k].gone => insts[i] = Nil
          /\ store[i] # Nil => Follows(watch[k], store[i])
          /\ \A h \in DOMAIN watch :
                k < h /\ watch[h].inst = i =>
                   ~watch[k].gone /\ Follows(watch[h], watch[k].obj)

(* What is still to be observed has reached the cache. *)
ObserveInv ==
    \A e \in toObserve :
       /\ store[e.inst] # Nil \/ NoEvent(e.inst)
       /\ e.kind = "delete" => store[e.inst] = Nil \/ store[e.inst].status = "deleting"

(* A live instance that the cache does not show is one whose creation is
   expected. *)
SeenInv ==
    \A i \in Inst \ excused :
       Live(i) /\ store[i] = Nil => i \in exp.create /\ ~exp.expired

(* The deletion of i is requested and not yet observed. *)
Deleted(i) ==
    /\ i \in exp.delete /\ ~exp.expired
    /\ rec.pc = "sync" => i \notin rec.delete

(* An instance that is shown, or about to be shown, as live and is not was
   deleted by somebody else, or its deletion is expected. *)
StaleInv ==
    \A i \in Inst :
       ~Live(i) =>
          /\ store[i] # Nil /\ store[i].status = "live" => store[i].node \in shaken \/ Deleted(i)
          /\ \A k \in DOMAIN watch :
                watch[k].inst = i /\ watch[k].obj.status = "live" =>
                   watch[k].obj.node \in shaken \/ Deleted(i)

(* Nothing knows of i. *)
Unknown(i) == insts[i] = Nil /\ store[i] = Nil /\ NoEvent(i) /\ \A e \in toObserve : e.inst # i

(* The instances to create are for nodes without one, and what is to be
   created and deleted is expected. *)
PlanInv ==
    /\ rec.pc = "manage" => Satisfied(exp)
    /\ rec.pc = "sync" =>
          /\ exp.expired => excused = Inst /\ shaken = Node
          /\ \A i \in DOMAIN rec.create :
                /\ Unknown(i) /\ i \in exp.create /\ i \notin rec.delete
                /\ \A j \in Inst \ excused : Live(j) => insts[j].node # rec.create[i]
          /\ \A i, j \in DOMAIN rec.create : rec.create[i] = rec.create[j] => i = j
          /\ \A i \in rec.delete : Live(i) => i \in exp.delete

(* Each node that should run an instance keeps one of those it has. *)
KeptInv ==
    rec.pc = "sync" =>
       \A i \in rec.delete :
          /\ Live(i) /\ insts[i].node \notin shaken
          /\ ShouldRun(rec.spec, rec.nodes[insts[i].node])
          => \E j \in Inst \ rec.delete : Live(j) /\ insts[j].node = insts[i].node

DaemonSetInv ==
    /\ TypeInv /\ WatchInv /\ ObserveInv /\ SeenInv /\ StaleInv /\ PlanInv /\ KeptInv
    /\ OnePerNode
-----------------------------------------------------------------------------
(***************************************************************************)
(* Sequences of events                                                     *)
(***************************************************************************)

(* t is s, followed by every element of E once. *)
Continues(s, t, E) ==
    /\ \A k \in DOMAIN s : k \in DOMAIN t /\ t[k] = s[k]
    /\ \A k \in DOMAIN t :
          \/ k \in DOMAIN s /\ t[k] = s[k]
          \/ /\ k \notin DOMAIN s /\ t[k] \in E
             /\ \A h \in DOMAIN s : h < k /\ ~(k < h)
    /\ \A x \in E : \E k \in DOMAIN t \ DOMAIN s : t[k] = x
    /\ \A j, k \in DOMAIN t \ DOMAIN s : j # k => t[j] # t[k]
    /\ \A j, k \in DOMAIN t : j < k => j # k

(* t is s without its first element e. *)
Shrunk(s, t, e) ==
    /\ 1 \in DOMAIN s /\ s[1] = e
    /\ \A j \in DOMAIN t : j + 1 \in DOMAIN s /\ t[j] = s[j + 1] /\ 1 < j + 1
    /\ \A j \in DOMAIN s : (j = 1 /\ s[j] = e) \/ (j - 1 \in DOMAIN t /\ t[j - 1] = s[j])
    /\ \A j, k \in DOMAIN t : j < k => j + 1 < k + 1
    /\ \A j \in DOMAIN s, k \in DOMAIN t : j - 1 < k => j < k + 1

LEMMA TailShrinks ==
  ASSUME NEW S, NEW s \in Seq(S), s # <<>>
  PROVE  Shrunk(s, Tail(s), Head(s)) /\ Head(s) \in S /\ Tail(s) \in Seq(S)
<1>1. Len(s) \in Nat \ {0} /\ DOMAIN s = 1 .. Len(s)
  OBVIOUS
<1>2. /\ DOMAIN Tail(s) = 1 .. Len(s) - 1
      /\ \A j \in 1 .. Len(s) - 1 : Tail(s)[j] = s[j + 1]
      /\ Head(s) = s[1]
  OBVIOUS
<1>3. \A j \in 1 .. Len(s) : j = 1 \/ (j - 1 \in 1 .. Len(s) - 1 /\ (j - 1) + 1 = j)
  BY <1>1
<1>4. Shrunk(s, Tail(s), Head(s))
  BY <1>1, <1>2, <1>3 DEF Shrunk
<1> QED BY <1>4

(* An order of a finite set leaves nothing out. *)
LEMMA OrderComplete ==
  ASSUME NEW S, IsFiniteSet(S), NEW s \in SetToSeqs(S)
  PROVE  /\ s \in Seq(S)
         /\ \A x \in S : \E k \in DOMAIN s : s[k] = x
         /\ \A j, k \in DOMAIN s : j # k => s[j] # s[k]
<1> DEFINE D == 1 .. Cardinality(S)
<1>1. Cardinality(S) \in Nat
  BY FS_CardinalityType
<1>2. s \in [D -> S] /\ DOMAIN s = D /\ \A j, k \in D : j # k => s[j] # s[k]
  BY DEF SetToSeqs
<1>3. Cardinality(D) = Cardinality(S)
  BY <1>1, FS_Interval
<1>4. s \in Injection(D, S)
  <2> HIDE DEF D
  <2> QED BY <1>2 DEF Injection, IsInjective
<1>5. s \in Surjection(D, S)
  <2> HIDE DEF D
  <2> QED BY <1>3, <1>4, FS_Injection
<1>6. \A x \in S : \E k \in D : s[k] = x
  <2> HIDE DEF D
  <2> QED BY <1>5 DEF Surjection
<1>7. s \in Seq(S)
  BY <1>1, <1>2
<1> QED BY <1>2, <1>6, <1>7

LEMMA OrderContinues ==
  ASSUME NEW S, NEW s \in Seq(S), NEW E \in SUBSET S, IsFiniteSet(E), NEW t \in SetToSeqs(E)
  PROVE  s \o t \in Seq(S) /\ Continues(s, s \o t, E)
<1>1. /\ t \in Seq(E)
      /\ \A x \in E : \E k \in DOMAIN t : t[k] = x
      /\ \A j, k \in DOMAIN t : j # k => t[j] # t[k]
  BY OrderComplete
<1>2. t \in Seq(S) /\ s \o t \in Seq(S)
  BY <1>1
<1> DEFINE m == Len(s)
           u == s \o t
<1>3. /\ m \in Nat /\ DOMAIN s = 1 .. m /\ Len(t) \in Nat /\ DOMAIN t = 1 .. Len(t)
      /\ DOMAIN u = 1 .. m + Len(t)
      /\ \A k \in 1 .. m : u[k] = s[k]
      /\ \A k \in m + 1 .. m + Len(t) : u[k] = t[k - m] /\ k - m \in 1 .. Len(t)
      /\ \A k \in 1 .. Len(t) : u[m + k] = t[k] /\ m + k \in m + 1 .. m + Len(t)
  BY <1>1, <1>2
<1>4. \A k \in 1 .. Len(t) : t[k] \in E
  BY <1>1, <1>3
<1> HIDE DEF m, u
<1>5. DOMAIN u \ DOMAIN s = m + 1 .. m + Len(t)
  BY <1>3
<1>6. \A k \in DOMAIN s : k \in DOMAIN u /\ u[k] = s[k]
  BY <1>3
<1>7. ASSUME NEW k \in DOMAIN u
      PROVE  \/ k \in DOMAIN s /\ u[k] = s[k]
             \/ /\ k \notin DOMAIN s /\ u[k] \in E
                /\ \A h \in DOMAIN s : h < k /\ ~(k < h)
  <2>1. CASE k \in DOMAIN s
    BY <1>3, <2>1
  <2>2. CASE k \notin DOMAIN s
    <3>1. k \in m + 1 .. m + Len(t)
      BY <1>5, <2>2
    <3>2. u[k] \in E
      BY <1>3, <1>4, <3>1
    <3>3. \A h \in DOMAIN s : h < k /\ ~(k < h)
      BY <1>3, <3>1
    <3> QED BY <2>2, <3>2, <3>3
  <2> QED BY <2>1, <2>2
<1>8. \A x \in E : \E k \in DOMAIN u \ DOMAIN s : u[k] = x
  <2> TAKE x \in E
  <2>1. PICK k \in 1 .. Len(t) : t[k] = x
    BY <1>1, <1>3
  <2>2. m + k \in DOMAIN u \ DOMAIN s /\ u[m + k] = x
    BY <1>3, <1>5, <2>1
  <2> QED BY <2>2
<1>9. \A j, k \in DOMAIN u \ DOMAIN s : j # k => u[j] # u[k]
  <2> TAKE j, k \in DOMAIN u \ DOMAIN s
  <2>1. /\ u[j] = t[j - m] /\ u[k] = t[k - m]
        /\ j - m \in 1 .. Len(t) /\ k - m \in 1 .. Len(t)
    BY <1>3, <1>5
  <2>2. j # k => j - m # k - m
    BY <1>3, <1>5
  <2> QED BY <1>1, <1>3, <2>1, <2>2
<1>10. \A j, k \in DOMAIN u : j < k => j # k
  BY <1>3
<1>11. Continues(s, u, E)
  BY <1>6, <1>7, <1>8, <1>9, <1>10 DEF Continues
<1> QED BY <1>2, <1>11 DEF u
-----------------------------------------------------------------------------
(***************************************************************************)
(* Types                                                                   *)
(***************************************************************************)

MaybeObject == Object \union {Nil}
Labels == [Node -> Label \union {Nil}]

LEMMA RecShape ==
  ASSUME NEW r \in RecType
  PROVE  /\ r.pc \in {"idle", "manage", "sync"}
         /\ r.pc # "idle" => r.spec \in Specs /\ r.nodes \in Labels
         /\ r.pc = "sync" =>
               /\ r = [pc |-> "sync", spec |-> r.spec, nodes |-> r.nodes,
                         create |-> r.create, delete |-> r.delete, err |-> r.err]
               /\ DOMAIN r.create \subseteq Inst
               /\ r.create \in [DOMAIN r.create -> Node]
               /\ r.delete \subseteq Inst /\ r.err \in BOOLEAN
<1>1. CASE r = Idle
  BY <1>1 DEF Idle
<1>2. CASE r \in [pc : {"manage"}, spec : Specs, nodes : Labels]
  BY <1>2
<1>3. CASE r \in [pc : {"sync"}, spec : Specs, nodes : Labels,
                    create : UNION {[S -> Node] : S \in SUBSET Inst}, delete : SUBSET Inst,
                    err : BOOLEAN]
  <2>1. PICK S \in SUBSET Inst : r.create \in [S -> Node]
    BY <1>3
  <2> QED BY <1>3, <2>1
<1> QED BY <1>1, <1>2, <1>3 DEF RecType, Labels

LEMMA SyncType ==
  ASSUME NEW s \in Specs, NEW nd \in Labels, NEW S \in SUBSET Inst, NEW c \in [S -> Node],
         NEW d \in SUBSET Inst, NEW e \in BOOLEAN
  PROVE  [pc |-> "sync", spec |-> s, nodes |-> nd, create |-> c, delete |-> d, err |-> e]
            \in RecType
  BY DEF RecType, Labels

(* The instances that a step changes, and what it tells of them. *)
Changed == {i \in Inst : insts'[i] # insts[i]}
Told(i) == [inst |-> i, gone |-> insts'[i] = Nil,
            obj |-> IF insts'[i] = Nil THEN insts[i] ELSE insts'[i]]

(* A step that tells the watchers what it changes. *)
Stored ==
    /\ insts' \in [Inst -> MaybeObject]
    /\ watch' \in Seq(Event)
    /\ Continues(watch, watch', {Told(i) : i \in Changed})

LEMMA WriteStored ==
  ASSUME DSTypeOK, NEW new \in [Inst -> MaybeObject], Write(new)
  PROVE  Stored /\ insts' = new
<1> DEFINE E == {Told(i) : i \in Changed}
<1>1. insts' = new /\ insts \in [Inst -> MaybeObject] /\ watch \in Seq(Event)
  BY DEF Write, DSTypeOK, MaybeObject, Event
<1>2. PICK order \in SetToSeqs(E) : watch' = watch \o order
  BY <1>1 DEF Write, Changed, Told
<1>3. ASSUME NEW i \in Changed PROVE Told(i) \in Event
  BY <1>1 DEF Changed, Told, Event, MaybeObject
<1>4. IsFiniteSet(E)
  <2>1. IsFiniteSet(Changed)
    BY FiniteAssumption, FS_Subset DEF Changed
  <2>2. [i \in Changed |-> Told(i)] \in Surjection(Changed, E)
    BY DEF Surjection
  <2> QED BY <2>1, <2>2, FS_Surjection
<1>5. E \in SUBSET Event
  BY <1>3
<1> HIDE DEF E
<1>6. watch' \in Seq(Event) /\ Continues(watch, watch', E)
  BY <1>1, <1>2, <1>4, <1>5, OrderContinues
<1> QED BY <1>1, <1>6 DEF Stored, E

LEMMA UnchangedStored ==
  ASSUME DSTypeOK, UNCHANGED <<insts, watch>>
  PROVE  Stored
<1>1. insts' \in [Inst -> MaybeObject] /\ watch' \in Seq(Event) /\ Changed = {}
  BY DEF DSTypeOK, MaybeObject, Event, Changed
<1>2. DOMAIN watch = 1 .. Len(watch) /\ Len(watch) \in Nat
  BY DEF DSTypeOK
<1>3. \A j, k \in DOMAIN watch : j < k => j # k
  BY <1>2
<1>4. {Told(i) : i \in Changed} = {}
  BY <1>1
<1> QED BY <1>1, <1>3, <1>4 DEF Stored, Continues

LEMMA PutStored ==
  ASSUME DSTypeOK, NEW i \in Inst, NEW o \in MaybeObject, Put(i, o)
  PROVE  Stored /\ insts' = [insts EXCEPT ![i] = o]
<1>1. [insts EXCEPT ![i] = o] \in [Inst -> MaybeObject]
  BY DEF DSTypeOK, MaybeObject
<1> QED BY <1>1, WriteStored DEF Put

(* A deletion ends the life of the instance, or marks it. *)
LEMMA DeleteStored ==
  ASSUME DSTypeOK, NEW i \in Inst, Delete(i)
  PROVE  /\ Stored
         /\ \/ insts' = insts /\ watch' = watch /\ ~Live(i)
            \/ Live(i) /\ insts' = [insts EXCEPT ![i] = Nil]
            \/ Live(i) /\ insts' = [insts EXCEPT ![i] = [insts[i] EXCEPT !.status = "deleting"]]
<1>1. insts[i] \in MaybeObject
  BY DEF DSTypeOK, MaybeObject
<1>2. CASE UNCHANGED <<insts, watch>> /\ ~Live(i)
  BY <1>2, UnchangedStored
<1>3. CASE Live(i) /\ Put(i, Nil)
  BY <1>3, PutStored DEF MaybeObject
<1>4. CASE Live(i) /\ Put(i, [insts[i] EXCEPT !.status = "deleting"])
  <2>1. [insts[i] EXCEPT !.status = "deleting"] \in MaybeObject
    BY <1>1, <1>4 DEF Live, Exists, MaybeObject, Object
  <2> QED BY <1>4, <2>1, PutStored
<1> QED BY <1>2, <1>3, <1>4 DEF Delete, Live, Exists

(***************************************************************************)
(* The plan of manage                                                      *)
(***************************************************************************)

LEMMA FreshNamesShape ==
  ASSUME NEW k, NEW names \in FreshNames(k)
  PROVE  /\ names \subseteq Inst /\ Cardinality(names) = k
         /\ \A i \in names : Fresh(i)
<1> DEFINE all == {S \in SUBSET {i \in Inst : Fresh(i)} : Cardinality(S) = k}
<1>1. all # {} /\ names = CHOOSE S \in all : TRUE
  BY DEF FreshNames
<1>2. names \in all
  <2> HIDE DEF all
  <2> QED BY <1>1
<1> QED BY <1>2

(* Every name gets a node of its own. *)
LEMMA AssignNodes ==
  ASSUME NEW names \in SUBSET Inst, NEW needing \in SUBSET Node,
         Cardinality(names) = Cardinality(needing),
         NEW c, c = CHOOSE f \in [names -> needing] : Range(f) = needing
  PROVE  /\ c \in [names -> needing]
         /\ \A i, j \in names : c[i] = c[j] => i = j
<1>1. IsFiniteSet(names) /\ IsFiniteSet(needing)
  BY FiniteAssumption, FS_Subset
<1>2. PICK f \in Bijection(names, needing) : TRUE
  BY <1>1, FS_SameCardinalityBij DEF ExistsBijection
<1>3. f \in [names -> needing] /\ Range(f) = needing
  BY <1>2 DEF Bijection, Surjection, Range
<1>4. c \in [names -> needing] /\ Range(c) = needing
  BY <1>3
<1>5. c \in Surjection(names, needing)
  BY <1>4 DEF Surjection, Range
<1>6. c \in Injection(names, needing)
  BY <1>1, <1>5, FS_Surjection
<1> QED BY <1>4, <1>6 DEF Injection, IsInjective

(* Where an instance should run, one that the cache shows as live stays. *)
LEMMA UnwantedShape ==
  ASSUME DSTypeOK, NEW spec, NEW known, NEW d \in Unwanted(spec, known)
  PROVE  /\ d \subseteq getDaemonInstances
         /\ \A i \in d : ShouldRun(spec, known[store[i].node]) =>
               \E j \in getDaemonInstances \ d :
                  store[j].status = "live" /\ store[j].node = store[i].node
<1> DEFINE should == {m \in Node : ShouldRun(spec, known[m]) /\ LiveOn(m) # {}}
           choice == [n \in should |-> Surplus(LiveOn(n))]
           refused == UNION {On(n) : n \in {m \in Node : known[m] # Nil /\ ~ShouldRun(spec, known[m])}}
           stray == {i \in getDaemonInstances : known[store[i].node] = Nil /\ ~store[i].bound}
<1>1. PICK f \in [should -> SUBSET Inst] :
         /\ \A n \in should : f[n] \in Surplus(LiveOn(n))
         /\ d = refused \union stray \union UNION {f[n] : n \in should}
  <2>1. PICK f \in [DOMAIN choice -> SUBSET Inst] :
           /\ \A n \in DOMAIN choice : f[n] \in choice[n]
           /\ d = refused \union stray \union UNION {f[n] : n \in DOMAIN f}
    BY DEF Unwanted
  <2> QED BY <2>1
<1>2. \A n \in should : f[n] \subseteq LiveOn(n) /\ \E j \in LiveOn(n) : f[n] = LiveOn(n) \ {j}
  BY <1>1 DEF Surplus
<1>3. \A n : LiveOn(n) \subseteq On(n) /\ On(n) \subseteq getDaemonInstances
  BY DEF LiveOn, On
<1>4. \A i \in refused : ~ShouldRun(spec, known[store[i].node]) /\ i \in getDaemonInstances
  BY DEF On
<1>5. \A i \in stray : ~ShouldRun(spec, known[store[i].node]) /\ i \in getDaemonInstances
  BY DEF ShouldRun
<1>6. \A n \in should : \A i \in f[n] : store[i].node = n /\ i \in getDaemonInstances
  BY <1>2 DEF LiveOn, On
<1> HIDE DEF refused, stray, should
<1>7. d \subseteq getDaemonInstances
  BY <1>1, <1>4, <1>5, <1>6
<1>8. ASSUME NEW i \in d, ShouldRun(spec, known[store[i].node])
      PROVE  \E j \in getDaemonInstances \ d :
                store[j].status = "live" /\ store[j].node = store[i].node
  <2>1. PICK n \in should : i \in f[n]
    BY <1>1, <1>4, <1>5, <1>8
  <2>2. store[i].node = n
    BY <1>6, <2>1
  <2>3. PICK j \in LiveOn(n) : f[n] = LiveOn(n) \ {j}
    BY <1>2, <2>1
  <2>4. j \in getDaemonInstances /\ store[j].node = n /\ store[j].status = "live"
    BY <2>3 DEF LiveOn, On
  <2>5. j \notin d
    <3>1. j \notin refused /\ j \notin stray
      BY <1>4, <1>5, <1>8, <2>2, <2>4
    <3>2. \A m \in should : j \notin f[m]
      BY <1>6, <2>3, <2>4
    <3> QED BY <1>1, <3>1, <3>2
  <2> QED BY <2>2, <2>4, <2>5
<1> QED BY <1>7, <1>8

(* The patches of manage keep what identifies an instance. *)
LEMMA PatchedShape ==
  ASSUME DSTypeOK, NEW spec \in Specs, NEW i \in Inst
  PROVE  /\ Patched(i, spec) \in MaybeObject
         /\ Patched(i, spec) = Nil <=> insts[i] = Nil
         /\ insts[i] # Nil =>
               /\ Patched(i, spec).status = insts[i].status
               /\ Patched(i, spec).node = insts[i].node
               /\ Patched(i, spec).match = insts[i].match
               /\ insts[i].owned /\ ~Releases(store[i]) => Patched(i, spec).owned
<1>1. CASE insts[i] = Nil
  BY <1>1 DEF Patched, MaybeObject
<1>2. CASE insts[i] # Nil
  <2>1. PICK x \in Object : insts[i] = x
    BY <1>2 DEF DSTypeOK
  <2> DEFINE ow == CASE Adopts(store[i]) -> TRUE
                     [] Releases(store[i]) -> FALSE
                     [] OTHER -> x.owned
             ip == IF i \in NeedsUpdate(spec) THEN spec.ips ELSE x.ips
  <2>2. ow \in BOOLEAN /\ (x.owned /\ ~Releases(store[i]) => ow)
    BY <2>1 DEF Object
  <2>3. ip \in {s.ips : s \in Specs}
    BY <2>1 DEF Object
  <2>4. Patched(i, spec) = [x EXCEPT !.owned = ow, !.ips = ip]
    BY <1>2, <2>1 DEF Patched
  <2> HIDE DEF ow, ip
  <2>5. [x EXCEPT !.owned = ow, !.ips = ip] \in Object
    BY <2>1, <2>2, <2>3 DEF Object
  <2>6. /\ [x EXCEPT !.owned = ow, !.ips = ip].status = x.status
        /\ [x EXCEPT !.owned = ow, !.ips = ip].node = x.node
        /\ [x EXCEPT !.owned = ow, !.ips = ip].match = x.match
        /\ [x EXCEPT !.owned = ow, !.ips = ip].owned = ow
    BY <2>1 DEF Object
  <2> QED BY <1>2, <2>1, <2>2, <2>4, <2>5, <2>6, NilObjectAssumption DEF MaybeObject
<1> QED BY <1>1, <1>2

(***************************************************************************)
(* Every step keeps the types.                                             *)
(***************************************************************************)

Kinds == [inst : Inst, kind : {"create", "delete"}]
Expecting == [create : SUBSET Inst, delete : SUBSET Inst, expired : BOOLEAN]

ServerType ==
    /\ lb \in Specs \union {Nil} /\ ds \in Specs \union {Nil} /\ routing \in BOOLEAN
    /\ nodes \in Labels
    /\ churn \in 0 .. MaxChurn /\ faults \in 0 .. MaxFaults
    /\ excused \subseteq Inst /\ shaken \subseteq Node

CacheType ==
    /\ dsCache \in Specs \union {Nil} /\ nodeCache \in Labels
    /\ store \in [Inst -> MaybeObject] /\ toObserve \subseteq Kinds

ControlType == queue \in BOOLEAN /\ rec \in RecType /\ exp \in Expecting

InstsType == insts \in [Inst -> MaybeObject] /\ watch \in Seq(Event)

LEMMA TypeParts == TypeInv <=> ServerType /\ CacheType /\ ControlType /\ InstsType
<1>1. TypeInv => ServerType /\ CacheType /\ ControlType /\ InstsType
  BY DEF TypeInv, DSTypeOK, ServerType, CacheType, ControlType, InstsType, MaybeObject, Labels,
         Kinds, Expecting, Event
<1>2. ASSUME ServerType, CacheType, ControlType, InstsType PROVE TypeInv
  <2>1. /\ rec.pc \in {"idle", "manage", "sync"}
        /\ rec.pc # "idle" => rec.spec \in Specs /\ rec.nodes \in Labels
        /\ rec.pc = "sync" => DOMAIN rec.create \union rec.delete \subseteq Inst
    BY <1>2, RecShape DEF ControlType
  <2> QED BY <1>2, <2>1 DEF TypeInv, DSTypeOK, ServerType, CacheType, ControlType, InstsType,
             MaybeObject, Labels, Kinds, Expecting, Event
<1> QED BY <1>1, <1>2

LEMMA TypePartsNext ==
  ASSUME ServerType', CacheType', ControlType', InstsType'
  PROVE  TypeInv'
<1>1. /\ rec'.pc \in {"idle", "manage", "sync"}
      /\ rec'.pc # "idle" => rec'.spec \in Specs /\ rec'.nodes \in Labels
      /\ rec'.pc = "sync" => DOMAIN rec'.create \union rec'.delete \subseteq Inst
  BY RecShape DEF ControlType
<1> QED BY <1>1 DEF TypeInv, DSTypeOK, ServerType, CacheType, ControlType, InstsType,
           MaybeObject, Labels, Kinds, Expecting, Event

(* The server's part, from the actions that write it. *)
LEMMA ServerTypes ==
  ASSUME TypeInv, [Next]_vars
  PROVE  ServerType'
<1>1. ServerType /\ insts \in [Inst -> MaybeObject]
  BY TypeParts DEF InstsType
<1>2. \A i \in Inst : Exists(i) => insts[i].node \in Node
  BY <1>1 DEF Exists, MaybeObject, Object
<1>3. MaxChurn \in Nat /\ MaxFaults \in Nat
  BY DaemonSetBounds
<1>4. CASE User
  <2>1. CASE UpdateLoadBalancer \/ DeleteLoadBalancer \/ \E n \in Node : ChangeNode(n)
    BY <1>1, <1>3, <2>1 DEF UpdateLoadBalancer, DeleteLoadBalancer, ChangeNode, Churn, ServerType, Labels
  <2>2. CASE \E i \in Inst : DeleteInstance(i) \/ RelabelInstance(i) \/ CreateInstance(i)
    BY <1>1, <1>2, <1>3, <2>2
       DEF DeleteInstance, RelabelInstance, CreateInstance, Churn, ServerType, objects, Live
  <2> QED BY <1>4, <2>1, <2>2 DEF User
<1>5. CASE Others \/ LoadBalancerController
  BY <1>1, <1>2, <1>5
     DEF Others, LoadBalancerController, BindInstance, FinalizeInstance, CollectInstance,
         CollectDaemonSet, ApplyDaemonSet, DeleteRouting, ServerType, objects, Live
<1>6. CASE Informers
  BY <1>1, <1>6 DEF Informers, DeliverInstance, DeliverDaemonSet, Resync, Observe, DeliverNode,
                    ServerType, objects
<1>7. CASE Expire
  BY <1>1, <1>3, <1>7 DEF Expire, ServerType, objects
<1>8. CASE Work
  BY <1>1, <1>8 DEF Work, Start, Manage, Finish, CreateOK, DeleteOK, ServerType, objects
<1>9. CASE Faults
  <2>1. CASE ManageFails \/ Relist \/ Restart
    BY <1>1, <1>3, <2>1 DEF ManageFails, Relist, Restart, ServerType, objects
  <2>2. CASE \E i \in Inst : CreateFails(i)
    BY <1>1, <1>3, <2>2 DEF CreateFails, ServerType, objects
  <2>3. CASE \E i \in Inst : DeleteFails(i)
    BY <1>1, <1>3, <2>3 DEF DeleteFails, ServerType, objects
  <2> QED BY <1>9, <2>1, <2>2, <2>3 DEF Faults
<1>10. CASE UNCHANGED vars
  BY <1>1, <1>10 DEF vars, ServerType
<1> QED BY <1>4, <1>5, <1>6, <1>7, <1>8, <1>9, <1>10 DEF Next

LEMMA ObservedKinds ==
  ASSUME NEW old, NEW e, e.inst \in Inst
  PROVE  Observed(old, e) \subseteq Kinds
  BY DEF Observed, Kinds

LEMMA CacheTypes ==
  ASSUME TypeInv, [Next]_vars
  PROVE  CacheType'
<1>1. ServerType /\ CacheType /\ InstsType
  BY TypeParts
<1>2. CASE DeliverInstance
  <2> DEFINE e == Head(watch)
  <2>1. e \in Event
    BY <1>1, <1>2, TailShrinks DEF DeliverInstance, InstsType
  <2>2. /\ store' = [store EXCEPT ![e.inst] = IF e.gone THEN Nil ELSE e.obj]
        /\ toObserve' = toObserve \union Observed(store[e.inst], e)
        /\ UNCHANGED caches
    BY <1>2 DEF DeliverInstance
  <2> HIDE DEF e
  <2>3. store' \in [Inst -> MaybeObject]
    BY <1>1, <2>1, <2>2 DEF CacheType, Event, MaybeObject
  <2>4. e.inst \in Inst
    BY <2>1 DEF Event
  <2>5. toObserve' \subseteq Kinds
    BY <1>1, <2>2, <2>4, ObservedKinds DEF CacheType
  <2> QED BY <1>1, <2>2, <2>3, <2>5 DEF CacheType, caches
<1>3. CASE Relist
  <2> DEFINE changed == {i \in Inst : store[i] # insts[i]}
             event(i) == [inst |-> i, gone |-> insts[i] = Nil,
                          obj |-> IF insts[i] = Nil THEN store[i] ELSE insts[i]]
  <2>1. toObserve' = toObserve \union UNION {Observed(store[i], event(i)) : i \in changed}
    BY <1>3 DEF Relist
  <2>2. ASSUME NEW i \in changed PROVE Observed(store[i], event(i)) \subseteq Kinds
    <3>1. event(i).inst \in Inst
      OBVIOUS
    <3> HIDE DEF event
    <3> QED BY <3>1, ObservedKinds
  <2>3. toObserve' \subseteq Kinds
    <3> HIDE DEF event, changed
    <3> QED BY <1>1, <2>1, <2>2 DEF CacheType
  <2> QED BY <1>1, <1>3, <2>3 DEF Relist, CacheType, InstsType, caches
<1>4. CASE Restart
  BY <1>1, <1>4 DEF Restart, CacheType, ServerType, InstsType
<1>5. CASE UNCHANGED vars \/ User \/ Others \/ LoadBalancerController
  BY <1>1, <1>5
     DEF vars, User, Others, LoadBalancerController, UpdateLoadBalancer, DeleteLoadBalancer,
         ChangeNode, DeleteInstance, RelabelInstance, CreateInstance, BindInstance,
         FinalizeInstance, CollectInstance, CollectDaemonSet, ApplyDaemonSet, DeleteRouting,
         CacheType, caches
<1>6. CASE DeliverDaemonSet \/ Resync \/ (\E e \in toObserve : Observe(e)) \/ \E n \in Node : DeliverNode(n)
  BY <1>1, <1>6 DEF DeliverDaemonSet, Resync, Observe, DeliverNode, CacheType, ServerType, Labels, caches
<1>7. CASE Expire \/ Work \/ ManageFails \/ \E i \in Inst : CreateFails(i) \/ DeleteFails(i)
  BY <1>1, <1>7 DEF Expire, Work, Start, Manage, Finish, CreateOK, DeleteOK, ManageFails,
                    CreateFails, DeleteFails, CacheType, caches
<1> QED BY <1>2, <1>3, <1>4, <1>5, <1>6, <1>7 DEF Next, Informers, Faults

(* What a step of syncNodes leaves of its plan. *)
LEMMA PlanShrinks ==
  ASSUME rec \in RecType, rec.pc = "sync", NEW i, NEW e \in BOOLEAN
  PROVE  /\ [rec EXCEPT !.create = [j \in DOMAIN @ \ {i} |-> @[j]], !.err = @ \/ e] \in RecType
         /\ [rec EXCEPT !.delete = @ \ {i}] \in RecType
         /\ [rec EXCEPT !.delete = @ \ {i}, !.err = TRUE] \in RecType
<1> DEFINE c == [j \in DOMAIN rec.create \ {i} |-> rec.create[j]]
           C == UNION {[S -> Node] : S \in SUBSET Inst}
           d == rec.delete \ {i}
           R == [pc : {"sync"}, spec : Specs, nodes : Labels, create : C, delete : SUBSET Inst,
                 err : BOOLEAN]
<1>1. rec \in R
  BY DEF RecType, Labels, Idle
<1>2. /\ DOMAIN rec.create \subseteq Inst /\ rec.create \in [DOMAIN rec.create -> Node]
      /\ rec.delete \subseteq Inst
  BY RecShape
<1>3. c \in C /\ d \in SUBSET Inst
  <2>1. c \in [DOMAIN rec.create \ {i} -> Node] /\ DOMAIN rec.create \ {i} \in SUBSET Inst
    BY <1>2
  <2>2. \A S \in SUBSET Inst : [S -> Node] \subseteq C
    OBVIOUS
  <2> HIDE DEF c, C
  <2>3. c \in C
    BY <2>1, <2>2
  <2> QED BY <1>2, <2>3
<1> HIDE DEF c, d, C
<1>4. /\ [rec EXCEPT !.create = c, !.err = @ \/ e] \in R
      /\ [rec EXCEPT !.delete = d] \in R
      /\ [rec EXCEPT !.delete = d, !.err = TRUE] \in R
  BY <1>1, <1>3
<1> QED BY <1>4 DEF RecType, Labels, C, c, d

LEMMA ExpectingTypes ==
  ASSUME NEW x \in Expecting, NEW i
  PROVE  /\ CreationObserved(x, i) \in Expecting /\ DeletionObserved(x, i) \in Expecting
         /\ [x EXCEPT !.expired = TRUE] \in Expecting
  BY DEF CreationObserved, DeletionObserved, Expecting

LEMMA ControlTypes ==
  ASSUME TypeInv, [Next]_vars
  PROVE  ControlType'
<1>1. ServerType /\ CacheType /\ ControlType /\ InstsType /\ DSTypeOK
  BY TypeParts DEF TypeInv
<1>2. queue \in BOOLEAN /\ rec \in RecType /\ exp \in Expecting /\ Idle \in RecType
  BY <1>1 DEF ControlType, RecType
<1>3. CASE UNCHANGED vars \/ User \/ Others \/ LoadBalancerController
  BY <1>2, <1>3
     DEF vars, User, Others, LoadBalancerController, UpdateLoadBalancer, DeleteLoadBalancer,
         ChangeNode, DeleteInstance, RelabelInstance, CreateInstance, BindInstance,
         FinalizeInstance, CollectInstance, CollectDaemonSet, ApplyDaemonSet, DeleteRouting,
         ControlType
<1>4. CASE DeliverInstance
  <2> DEFINE e == Head(watch)
  <2>1. e \in Event
    BY <1>1, <1>4, TailShrinks DEF DeliverInstance, InstsType
  <2>2. e.obj.owned \in BOOLEAN
    BY <2>1 DEF Event, Object
  <2>3. UNCHANGED <<rec, exp>> /\ queue' \in BOOLEAN
    <3>1. /\ queue' = (queue \/ e.obj.owned \/ (store[e.inst] # Nil /\ store[e.inst].owned))
          /\ UNCHANGED <<rec, exp>>
      BY <1>4 DEF DeliverInstance
    <3> QED BY <3>1
  <2> QED BY <1>2, <2>3 DEF ControlType
<1>5. CASE Relist
  <2>1. UNCHANGED <<rec, exp>> /\ queue' \in BOOLEAN
    BY <1>5 DEF Relist
  <2> QED BY <1>2, <2>1 DEF ControlType
<1>6. CASE DeliverDaemonSet \/ Resync \/ \E n \in Node : DeliverNode(n)
  BY <1>2, <1>6 DEF DeliverDaemonSet, Resync, DeliverNode, ControlType
<1>7. CASE \E e \in toObserve : Observe(e)
  BY <1>2, <1>7, ExpectingTypes DEF Observe, ControlType
<1>8. CASE Expire
  BY <1>2, <1>8, ExpectingTypes DEF Expire, ControlType
<1>9. CASE Start
  <2>1. UNCHANGED exp /\ queue' = FALSE
    BY <1>9 DEF Start
  <2>2. rec' \in RecType
    BY <1>1, <1>2, <1>9 DEF Start, CacheType, RecType, Labels
  <2> QED BY <1>2, <2>1, <2>2 DEF ControlType
<1>10. CASE Manage
  <2>1. CASE rec' = Idle /\ queue' = TRUE /\ UNCHANGED exp
    BY <1>2, <2>1 DEF ControlType
  <2>2. CASE ~(rec' = Idle /\ queue' = TRUE /\ UNCHANGED exp)
    <3> DEFINE needing == Needing(rec.spec, rec.nodes)
    <3>1. PICK names \in FreshNames(Cardinality(needing)), delete \in Unwanted(rec.spec, rec.nodes) :
             /\ exp' = ExpectCreationsAndDeletions(names, delete)
             /\ rec' = [pc |-> "sync", spec |-> rec.spec, nodes |-> rec.nodes,
                        create |-> CHOOSE f \in [names -> needing] : Range(f) = needing,
                        delete |-> delete, err |-> FALSE]
             /\ queue' = queue
      BY <1>10, <2>2 DEF Manage
    <3>2. needing \in SUBSET Node
      BY DEF Needing
    <3>3. names \in SUBSET Inst /\ Cardinality(names) = Cardinality(needing)
      BY FreshNamesShape
    <3>4. delete \in SUBSET Inst
      BY <1>1, UnwantedShape DEF getDaemonInstances
    <3>5. rec.spec \in Specs /\ rec.nodes \in Labels
      BY <1>2, <1>10, RecShape DEF Manage
    <3> DEFINE c == CHOOSE f \in [names -> needing] : Range(f) = needing
    <3>6. c \in [names -> Node]
      <4> HIDE DEF needing, c
      <4>1. c = CHOOSE f \in [names -> needing] : Range(f) = needing
        BY DEF c
      <4>2. c \in [names -> needing]
        BY <3>2, <3>3, <4>1, AssignNodes
      <4> QED BY <3>2, <4>2
    <3>7. rec' = [pc |-> "sync", spec |-> rec.spec, nodes |-> rec.nodes, create |-> c,
                  delete |-> delete, err |-> FALSE]
      BY <3>1
    <3> HIDE DEF c, needing
    <3>8. \A b \in BOOLEAN : [pc |-> "sync", spec |-> rec.spec, nodes |-> rec.nodes,
                              create |-> c, delete |-> delete, err |-> b] \in RecType
      BY <3>3, <3>4, <3>5, <3>6, SyncType
    <3>9. rec' \in RecType
      BY <3>7, <3>8, Zenon
    <3>10. exp' \in Expecting
      BY <3>1, <3>3, <3>4 DEF ExpectCreationsAndDeletions, Expecting
    <3> QED BY <1>2, <3>1, <3>9, <3>10 DEF ControlType
  <2> QED BY <2>1, <2>2
<1>11. CASE ManageFails \/ Restart
  <2>1. NoExpectations \in Expecting
    BY DEF NoExpectations, Expecting
  <2>2. rec' = Idle /\ queue' = TRUE /\ exp' \in {exp, NoExpectations}
    BY <1>11 DEF ManageFails, Restart
  <2> QED BY <1>2, <2>1, <2>2 DEF ControlType
<1>12. CASE Finish
  <2>1. rec.err \in BOOLEAN
    BY <1>2, <1>12, RecShape DEF Finish
  <2>2. queue' \in BOOLEAN
    BY <1>2, <1>12, <2>1 DEF Finish
  <2> QED BY <1>2, <1>12, <2>2 DEF Finish, ControlType
<1>13. CASE \E i \in Inst : CreateOK(i) \/ CreateFails(i)
  <2>1. PICK i \in Inst : CreateOK(i) \/ CreateFails(i)
    BY <1>13
  <2>2. rec.pc = "sync" /\ UNCHANGED queue
    BY <2>1 DEF CreateOK, CreateFails
  <2>3. \A e \in BOOLEAN :
           [rec EXCEPT !.create = [j \in DOMAIN @ \ {i} |-> @[j]], !.err = @ \/ e] \in RecType
    BY <1>2, <2>2, PlanShrinks
  <2>4. \E e \in BOOLEAN : rec' = [rec EXCEPT !.create = [j \in DOMAIN @ \ {i} |-> @[j]], !.err = @ \/ e]
    BY <2>1, Zenon DEF CreateOK, CreateFails, Created
  <2>5. rec' \in RecType
    BY <2>3, <2>4, Zenon
  <2>6. exp' \in {exp, CreationObserved(exp, i)}
    BY <2>1 DEF CreateOK, CreateFails
  <2> QED BY <1>2, <2>2, <2>5, <2>6, ExpectingTypes DEF ControlType
<1>14. CASE \E i \in Inst : DeleteOK(i) \/ DeleteFails(i)
  <2>1. PICK i \in Inst : DeleteOK(i) \/ DeleteFails(i)
    BY <1>14
  <2>2. rec.pc = "sync" /\ UNCHANGED queue
    BY <2>1 DEF DeleteOK, DeleteFails, Deletes
  <2>3. \/ rec' = [rec EXCEPT !.delete = @ \ {i}]
        \/ rec' = [rec EXCEPT !.delete = @ \ {i}, !.err = TRUE]
    BY <2>1, Zenon DEF DeleteOK, DeleteFails
  <2>4. rec' \in RecType
    <3>1. TRUE \in BOOLEAN
      OBVIOUS
    <3> QED BY <1>2, <2>2, <2>3, <3>1, PlanShrinks
  <2>5. exp' \in {exp, DeletionObserved(exp, i)}
    BY <2>1 DEF DeleteOK, DeleteFails
  <2> QED BY <1>2, <2>2, <2>4, <2>5, ExpectingTypes DEF ControlType
<1> QED BY <1>3, <1>4, <1>5, <1>6, <1>7, <1>8, <1>9, <1>10, <1>11, <1>12, <1>13, <1>14
        DEF Next, Informers, Work, Faults
-----------------------------------------------------------------------------
(***************************************************************************)
(* What the steps do to the instances                                      *)
(***************************************************************************)

(* Instance i is what it was, a later version of it, or new. *)
Evolves(i) ==
    \/ insts'[i] = insts[i]
    \/ /\ insts[i] # Nil
       /\ insts'[i] # Nil => /\ insts'[i].node = insts[i].node
                             /\ insts'[i].status = "live" => insts[i].status = "live"
    \/ Unknown(i)

(* Unless it is excused, i belongs to the daemon set. *)
Clean(i) == i \notin excused' /\ insts'[i] # Nil => insts'[i].owned /\ insts'[i].match

(* A step that changes instances and tells the watchers. *)
Recorded ==
    /\ Stored
    /\ UNCHANGED <<store, toObserve>>
    /\ excused \subseteq excused' /\ shaken \subseteq shaken'
    /\ \A i \in Inst : Evolves(i) /\ Clean(i)

(* A recorded step of somebody else than the daemon set controller. *)
Foreign ==
    /\ Recorded
    /\ UNCHANGED <<rec, exp>>
    /\ \A i \in Inst :
          /\ insts[i] = Nil /\ insts'[i] # Nil =>
                i \in excused' /\ i \notin exp.create /\ (rec.pc = "sync" => i \notin rec.delete)
          /\ Live(i) /\ ~Live(i)' => insts[i].node \in shaken'

(* The invariant as far as these steps rely on it. *)
Owned == \A i \in Inst \ excused : insts[i] # Nil => insts[i].owned /\ insts[i].match

LEMMA RecordedUnchanged ==
  ASSUME DSTypeOK, Owned, UNCHANGED <<insts, watch, store, toObserve>>,
         excused \subseteq excused', shaken \subseteq shaken'
  PROVE  Recorded
<1>1. \A i \in Inst : Evolves(i) /\ Clean(i)
  BY DEF Owned, Evolves, Clean
<1> QED BY <1>1, UnchangedStored DEF Recorded

LEMMA RecordedOne ==
  ASSUME DSTypeOK, Owned, Stored, UNCHANGED <<store, toObserve>>,
         excused \subseteq excused', shaken \subseteq shaken',
         NEW i \in Inst, NEW p, insts' = [insts EXCEPT ![i] = p],
         \/ Unknown(i)
         \/ /\ insts[i] # Nil
            /\ p # Nil => p.node = insts[i].node /\ (p.status = "live" => insts[i].status = "live"),
         p # Nil /\ i \notin excused' => p.owned /\ p.match
  PROVE  /\ Recorded
         /\ insts'[i] = p /\ \A j \in Inst \ {i} : insts'[j] = insts[j]
<1>1. insts'[i] = p /\ \A j \in Inst \ {i} : insts'[j] = insts[j]
  BY DEF DSTypeOK
<1>2. Evolves(i) /\ Clean(i)
  BY <1>1 DEF Evolves, Clean
<1>3. \A j \in Inst \ {i} : Evolves(j) /\ Clean(j)
  BY <1>1 DEF Evolves, Clean, Owned
<1> QED BY <1>1, <1>2, <1>3 DEF Recorded

(* A deletion, by whomever. *)
LEMMA RecordedDelete ==
  ASSUME DSTypeOK, Owned, NEW i \in Inst, Delete(i), UNCHANGED <<store, toObserve>>,
         excused \subseteq excused', shaken \subseteq shaken'
  PROVE  /\ Recorded
         /\ ~Live(i)' /\ \A j \in Inst \ {i} : insts'[j] = insts[j]
         /\ insts[i] = Nil => insts'[i] = Nil
<1>1. Stored
  BY DeleteStored
<1>2. CASE insts' = insts /\ watch' = watch /\ ~Live(i)
  <2>1. Recorded
    BY <1>2, RecordedUnchanged
  <2> QED BY <1>2, <2>1 DEF Live, Exists
<1>3. CASE Live(i) /\ insts' = [insts EXCEPT ![i] = Nil]
  <2>1. insts[i] # Nil
    BY <1>3 DEF Live, Exists
  <2>2. Recorded /\ insts'[i] = Nil /\ \A j \in Inst \ {i} : insts'[j] = insts[j]
    BY <1>1, <1>3, <2>1, RecordedOne
  <2> QED BY <2>2 DEF Live, Exists
<1>4. CASE Live(i) /\ insts' = [insts EXCEPT ![i] = [insts[i] EXCEPT !.status = "deleting"]]
  <2> DEFINE p == [insts[i] EXCEPT !.status = "deleting"]
  <2>1. insts[i] # Nil /\ insts[i] \in Object
    BY <1>4 DEF Live, Exists, DSTypeOK
  <2>2. /\ p.node = insts[i].node /\ p.status = "deleting"
        /\ p.owned = insts[i].owned /\ p.match = insts[i].match
    BY <2>1 DEF Object
  <2>3. insts' = [insts EXCEPT ![i] = p]
    BY <1>4
  <2> HIDE DEF p
  <2>4. i \notin excused' => p.owned /\ p.match
    BY <2>1, <2>2 DEF Owned
  <2>5. Recorded /\ insts'[i] = p /\ \A j \in Inst \ {i} : insts'[j] = insts[j]
    BY <1>1, <2>1, <2>2, <2>3, <2>4, RecordedOne
  <2> QED BY <2>1, <2>2, <2>5 DEF Live, Exists
<1> QED BY <1>2, <1>3, <1>4, DeleteStored

LEMMA FreshUnknown ==
  ASSUME DSTypeOK, NEW i \in Inst, Fresh(i)
  PROVE  /\ Unknown(i) /\ i \notin exp.create
         /\ rec.pc = "sync" => i \notin rec.delete
<1>1. DOMAIN watch = 1 .. Len(watch)
  BY DEF DSTypeOK
<1> QED BY <1>1 DEF Fresh, Unknown, NoEvent

LEMMA ForeignUnchanged ==
  ASSUME DSTypeOK, Owned, UNCHANGED <<insts, watch, store, toObserve, rec, exp, excused, shaken>>
  PROVE  Foreign
  BY RecordedUnchanged DEF Foreign, Live, Exists

LEMMA ForeignOne ==
  ASSUME Recorded, UNCHANGED <<rec, exp>>, NEW i \in Inst,
         \A j \in Inst \ {i} : insts'[j] = insts[j],
         insts[i] = Nil /\ insts'[i] # Nil =>
            i \in excused' /\ i \notin exp.create /\ (rec.pc = "sync" => i \notin rec.delete),
         Live(i) /\ ~Live(i)' => insts[i].node \in shaken'
  PROVE  Foreign
<1>1. \A j \in Inst \ {i} : Live(j)' <=> Live(j)
  BY DEF Live, Exists
<1> QED BY <1>1 DEF Foreign

(* Users, the other controllers and the informers of other objects. *)
LEMMA ForeignSteps ==
  ASSUME TypeInv, Owned,
         \/ User \/ Others \/ LoadBalancerController \/ DeliverDaemonSet \/ Resync
         \/ (\E n \in Node : DeliverNode(n)) \/ UNCHANGED vars
  PROVE  Foreign
<1>1. DSTypeOK /\ insts \in [Inst -> MaybeObject] /\ ds \in Specs \union {Nil}
  BY DEF TypeInv, DSTypeOK, MaybeObject
<1>2. CASE \/ UpdateLoadBalancer \/ DeleteLoadBalancer \/ (\E n \in Node : ChangeNode(n))
           \/ CollectDaemonSet \/ LoadBalancerController \/ DeliverDaemonSet \/ Resync
           \/ (\E n \in Node : DeliverNode(n)) \/ UNCHANGED vars
  <2>1. UNCHANGED <<insts, watch, store, toObserve, rec, exp, excused, shaken>>
    BY <1>2 DEF UpdateLoadBalancer, DeleteLoadBalancer, ChangeNode, CollectDaemonSet,
                LoadBalancerController, ApplyDaemonSet, DeleteRouting, DeliverDaemonSet, Resync,
                DeliverNode, vars
  <2> QED BY <1>1, <2>1, ForeignUnchanged
<1>3. ASSUME NEW i \in Inst, DeleteInstance(i) \/ CollectInstance(i)
      PROVE  Foreign
  <2>1. /\ Live(i) /\ Delete(i) /\ shaken' = shaken \union {insts[i].node}
        /\ UNCHANGED <<store, toObserve, rec, exp, excused>>
    BY <1>3 DEF DeleteInstance, CollectInstance
  <2>2. Recorded /\ \A j \in Inst \ {i} : insts'[j] = insts[j]
    BY <1>1, <2>1, RecordedDelete
  <2>3. insts[i] # Nil /\ insts[i].node \in shaken'
    BY <2>1 DEF Live, Exists
  <2> QED BY <2>1, <2>2, <2>3, ForeignOne
<1>4. ASSUME NEW i \in Inst, RelabelInstance(i)
      PROVE  Foreign
  <2> DEFINE p == [insts[i] EXCEPT !.match = ~@]
  <2>1. /\ insts[i] # Nil /\ Put(i, p) /\ excused' = excused \union {i}
        /\ shaken' = shaken \union {insts[i].node}
        /\ UNCHANGED <<store, toObserve, rec, exp>>
    BY <1>4 DEF RelabelInstance, Exists
  <2>2. insts[i] \in Object
    BY <1>1, <2>1 DEF MaybeObject
  <2>3. p \in Object /\ p.node = insts[i].node /\ p.status = insts[i].status
    BY <2>2 DEF Object
  <2> HIDE DEF p
  <2>4. Stored /\ insts' = [insts EXCEPT ![i] = p]
    BY <1>1, <2>1, <2>3, PutStored DEF MaybeObject
  <2>5. Recorded /\ insts'[i] = p /\ \A j \in Inst \ {i} : insts'[j] = insts[j]
    BY <1>1, <2>1, <2>3, <2>4, RecordedOne
  <2> QED BY <2>1, <2>5, ForeignOne
<1>5. ASSUME NEW i \in Inst, CreateInstance(i)
      PROVE  Foreign
  <2>1. PICK n \in Node : Put(i, [status |-> "live", node |-> n, bound |-> TRUE, owned |-> FALSE,
                                  match |-> TRUE, ips |-> ds.ips])
    BY <1>5 DEF CreateInstance
  <2> DEFINE p == [status |-> "live", node |-> n, bound |-> TRUE, owned |-> FALSE,
                   match |-> TRUE, ips |-> ds.ips]
  <2>2. /\ {i} \in FreshNames(1) /\ ds \in Specs /\ excused' = excused \union {i}
        /\ UNCHANGED <<store, toObserve, rec, exp, shaken>>
    BY <1>1, <1>5 DEF CreateInstance
  <2>3. Unknown(i) /\ i \notin exp.create /\ (rec.pc = "sync" => i \notin rec.delete)
    <3>1. Fresh(i)
      BY <2>2, FreshNamesShape
    <3> QED BY <1>1, <3>1, FreshUnknown
  <2>4. p \in Object
    BY <2>2 DEF Object
  <2> HIDE DEF p
  <2>5. Stored /\ insts' = [insts EXCEPT ![i] = p]
    BY <1>1, <2>1, <2>4, PutStored DEF MaybeObject, p
  <2>6. Recorded /\ insts'[i] = p /\ \A j \in Inst \ {i} : insts'[j] = insts[j]
    BY <1>1, <2>2, <2>3, <2>5, RecordedOne
  <2>7. ~Live(i) /\ i \in excused'
    BY <2>2, <2>3 DEF Unknown, Live, Exists
  <2> QED BY <2>2, <2>3, <2>6, <2>7, ForeignOne
<1>6. ASSUME NEW i \in Inst, BindInstance(i)
      PROVE  Foreign
  <2> DEFINE p == [insts[i] EXCEPT !.bound = TRUE]
  <2>1. /\ insts[i] # Nil /\ insts[i].status = "live" /\ Put(i, p)
        /\ UNCHANGED <<store, toObserve, rec, exp, excused, shaken>>
    BY <1>6 DEF BindInstance, Exists, Live
  <2>2. insts[i] \in Object
    BY <1>1, <2>1 DEF MaybeObject
  <2>3. /\ p \in Object /\ p.node = insts[i].node /\ p.status = insts[i].status
        /\ p.owned = insts[i].owned /\ p.match = insts[i].match
    BY <2>2 DEF Object
  <2> HIDE DEF p
  <2>4. Stored /\ insts' = [insts EXCEPT ![i] = p]
    BY <1>1, <2>1, <2>3, PutStored DEF MaybeObject
  <2>5. i \notin excused' => p.owned /\ p.match
    BY <2>1, <2>3 DEF Owned
  <2>6. Recorded /\ insts'[i] = p /\ \A j \in Inst \ {i} : insts'[j] = insts[j]
    BY <1>1, <2>1, <2>3, <2>4, <2>5, RecordedOne
  <2>7. Live(i)'
    BY <2>1, <2>3, <2>6, NilObjectAssumption DEF Live, Exists
  <2> QED BY <2>1, <2>6, <2>7, ForeignOne
<1>7. ASSUME NEW i \in Inst, FinalizeInstance(i)
      PROVE  Foreign
  <2>1. /\ insts[i] # Nil /\ ~Live(i) /\ Put(i, Nil)
        /\ UNCHANGED <<store, toObserve, rec, exp, excused, shaken>>
    BY <1>7 DEF FinalizeInstance, Exists, Live
  <2>2. Stored /\ insts' = [insts EXCEPT ![i] = Nil]
    BY <1>1, <2>1, PutStored DEF MaybeObject
  <2>3. Recorded /\ insts'[i] = Nil /\ \A j \in Inst \ {i} : insts'[j] = insts[j]
    BY <1>1, <2>1, <2>2, RecordedOne
  <2> QED BY <2>1, <2>3, ForeignOne
<1> QED BY <1>2, <1>3, <1>4, <1>5, <1>6, <1>7 DEF User, Others

(***************************************************************************)
(* The history survives a recorded step.                                   *)
(***************************************************************************)

LEMMA RecordedWatch ==
  ASSUME TypeInv, WatchInv, ObserveInv, Recorded
  PROVE  WatchInv' /\ ObserveInv'
<1>1. /\ insts \in [Inst -> MaybeObject] /\ store \in [Inst -> MaybeObject]
      /\ insts' \in [Inst -> MaybeObject]
      /\ \A k \in DOMAIN watch' : watch'[k] \in Event
  <2>1. watch' \in Seq(Event)
    BY DEF Recorded, Stored
  <2>2. \A k \in DOMAIN watch' : watch'[k] \in Event
    BY <2>1
  <2> QED BY <2>2 DEF TypeInv, DSTypeOK, MaybeObject, Recorded, Stored
<1>2. /\ UNCHANGED <<store, toObserve>> /\ excused \subseteq excused'
      /\ \A i \in Inst : Evolves(i) /\ Clean(i)
  BY DEF Recorded
<1>3. /\ \A i : Told(i).inst = i
      /\ \A i : insts'[i] = Nil => Told(i).gone /\ Told(i).obj = insts[i]
      /\ \A i : insts'[i] # Nil => ~Told(i).gone /\ Told(i).obj = insts'[i]
  BY Zenon DEF Told
<1>4. /\ \A k \in DOMAIN watch : k \in DOMAIN watch' /\ watch'[k] = watch[k]
      /\ \A k \in DOMAIN watch' :
            \/ k \in DOMAIN watch /\ watch'[k] = watch[k]
            \/ /\ k \notin DOMAIN watch /\ watch'[k].inst \in Changed
               /\ watch'[k] = Told(watch'[k].inst)
               /\ \A h \in DOMAIN watch : h < k /\ ~(k < h)
      /\ \A i \in Changed : \E k \in DOMAIN watch' \ DOMAIN watch : watch'[k] = Told(i)
      /\ \A j, k \in DOMAIN watch' \ DOMAIN watch : j # k => watch'[j].inst # watch'[k].inst
      /\ \A j, k \in DOMAIN watch' : j < k => j # k
  <2>1. \A i : Told(i).inst = i
    BY <1>3
  <2> QED BY <2>1 DEF Recorded, Stored, Continues
<1>5. ASSUME NEW i \in Changed, ~Unknown(i)
      PROVE  /\ i \in Inst /\ insts[i] # Nil /\ insts[i] \in Object
             /\ insts'[i] # Nil => /\ insts'[i].node = insts[i].node
                                   /\ insts'[i].status = "live" => insts[i].status = "live"
  BY <1>1, <1>2, <1>5 DEF Evolves, Changed, MaybeObject
<1>6. ASSUME NEW i \in Changed, ~Unknown(i), NEW o, Version(i, o)
      PROVE  Follows(Told(i), o)
  <2>1. insts[i] \in Object /\ insts[i] # Nil /\ insts'[i] \in MaybeObject
    BY <1>1, <1>5, <1>6
  <2>2. SUFFICES ASSUME o.status = "deleting" PROVE Told(i).obj.status = "deleting"
    BY DEF Follows
  <2>3. insts[i].status # "live"
    BY <1>6, <2>1, <2>2 DEF Version, Live, Exists
  <2>4. insts[i].status = "deleting"
    BY <2>1, <2>3 DEF Object
  <2>5. insts'[i] # Nil => insts'[i].status = "deleting"
    BY <1>5, <1>6, <2>1, <2>3 DEF Object, MaybeObject
  <2> QED BY <2>4, <2>5 DEF Told
<1>7. ASSUME NEW i \in Inst, ~Unknown(i), NEW o, Version(i, o)
      PROVE  /\ insts'[i] # Nil => o.node = insts'[i].node
             /\ insts'[i] # Nil /\ insts'[i].status = "live" => o.status = "live"
             /\ i \notin excused' => o.owned /\ o.match
  BY <1>2, <1>7 DEF Version, Live, Exists, Evolves
<1>8. ASSUME NEW i \in Inst PROVE UpToDate(i)'
  <2>1. CASE i \in Changed
    <3>1. PICK k \in DOMAIN watch' \ DOMAIN watch : watch'[k] = Told(i)
      BY <1>4, <2>1
    <3>2. watch'[k].inst = i
      BY <1>3, <3>1
    <3>3. ASSUME NEW h \in DOMAIN watch', k < h PROVE watch'[h].inst # i
      BY <1>4, <3>1, <3>2, <3>3
    <3>4. After(watch'[k]) = insts'[i]
      BY <1>3, <3>1 DEF After
    <3> QED BY <3>1, <3>2, <3>3, <3>4 DEF UpToDate, LastOf, After
  <2>2. CASE i \notin Changed
    <3>1. insts'[i] = insts[i] /\ store'[i] = store[i]
      BY <1>2, <2>2 DEF Changed
    <3>2. \A h \in DOMAIN watch' \ DOMAIN watch : watch'[h].inst # i
      BY <1>4, <2>2
    <3>3. CASE \E k \in DOMAIN watch : LastOf(i, k) /\ After(watch[k]) = insts[i]
      <4>1. PICK k \in DOMAIN watch : LastOf(i, k) /\ After(watch[k]) = insts[i]
        BY <3>3
      <4>2. k \in DOMAIN watch' /\ watch'[k] = watch[k]
        BY <1>4
      <4>3. \A h \in DOMAIN watch' : k < h => watch'[h].inst # i
        BY <1>4, <3>2, <4>1 DEF LastOf
      <4> QED BY <3>1, <4>1, <4>2, <4>3 DEF UpToDate, LastOf, After
    <3>4. CASE NoEvent(i) /\ store[i] = insts[i]
      BY <1>4, <3>1, <3>2, <3>4 DEF UpToDate, NoEvent
    <3> QED BY <3>3, <3>4 DEF WatchInv, UpToDate
  <2> QED BY <2>1, <2>2
<1>9. ASSUME NEW i \in Inst
      PROVE  /\ (insts[i] # Nil => Version(i, insts[i]))'
             /\ (store[i] # Nil => Version(i, store[i]))'
  <2>1. insts'[i] # Nil /\ i \notin excused' => insts'[i].owned /\ insts'[i].match
    BY <1>2 DEF Clean
  <2>2. (insts[i] # Nil => Version(i, insts[i]))'
    BY <2>1 DEF Version, Live, Exists
  <2>3. CASE store[i] # Nil
    <3>1. ~Unknown(i) /\ Version(i, store[i]) /\ store'[i] = store[i]
      BY <1>2, <2>3 DEF Unknown, WatchInv
    <3> QED BY <1>7, <2>2, <3>1 DEF Version, Live, Exists
  <2>4. CASE store[i] = Nil
    BY <1>2, <2>2, <2>4
  <2> QED BY <2>3, <2>4
<1>10. ASSUME NEW k \in DOMAIN watch', NEW i, i = watch'[k].inst
       PROVE  /\ Version(i, watch[k].obj)'
              /\ watch'[k].gone => insts'[i] = Nil
              /\ store'[i] # Nil => Follows(watch'[k], store'[i])
              /\ \A h \in DOMAIN watch' :
                    k < h /\ watch'[h].inst = i =>
                       ~watch'[k].gone /\ Follows(watch'[h], watch'[k].obj)
  <2>1. i \in Inst
    BY <1>1, <1>10 DEF Event
  <2>2. CASE k \in DOMAIN watch
    <3>1. watch'[k] = watch[k]
      BY <1>4, <2>2
    <3>2. ~Unknown(i) /\ Version(i, watch[k].obj)
      BY <1>10, <2>2, <3>1 DEF WatchInv, Unknown, NoEvent
    <3>3. Version(i, watch[k].obj)'
      BY <1>7, <2>1, <3>1, <3>2 DEF Version, Live, Exists
    <3>4. watch[k].gone => insts[i] = Nil /\ insts'[i] = Nil
      BY <1>2, <1>10, <2>1, <2>2, <3>1, <3>2 DEF WatchInv, Evolves
    <3>5. store[i] # Nil => Follows(watch[k], store[i])
      BY <1>10, <2>2, <3>1 DEF WatchInv
    <3>6. ASSUME NEW h \in DOMAIN watch', k < h, watch'[h].inst = i
          PROVE  ~watch'[k].gone /\ Follows(watch'[h], watch'[k].obj)
      <4>1. CASE h \in DOMAIN watch
        BY <1>4, <1>10, <2>2, <3>1, <3>6, <4>1 DEF WatchInv
      <4>2. CASE h \notin DOMAIN watch
        <5>1. i \in Changed /\ watch'[h] = Told(i)
          BY <1>4, <3>6, <4>2
        <5>2. ~watch[k].gone
          BY <1>5, <3>2, <3>4, <5>1
        <5>3. Follows(Told(i), watch[k].obj)
          <6> QED BY <1>6, <3>2, <5>1
        <5> QED BY <3>1, <5>1, <5>2, <5>3
      <4> QED BY <4>1, <4>2
    <3> QED BY <1>2, <3>1, <3>3, <3>4, <3>5, <3>6
  <2>3. CASE k \notin DOMAIN watch
    <3>1. i \in Changed /\ watch'[k] = Told(i)
      BY <1>4, <1>10, <2>3
    <3>2. watch'[k].gone <=> insts'[i] = Nil
      BY <1>3, <3>1
    <3>3. Version(i, watch[k].obj)'
      <4>1. CASE insts'[i] = Nil
        <5>1. watch'[k].obj = insts[i] /\ insts[i] # Nil
          BY <1>3, <3>1, <4>1 DEF Changed
        <5>2. i \notin excused' => insts[i].owned /\ insts[i].match
          BY <1>2, <2>1, <5>1 DEF WatchInv, Version
        <5> QED BY <4>1, <5>1, <5>2 DEF Version, Live, Exists
      <4>2. CASE insts'[i] # Nil
        <5>1. watch'[k].obj = insts'[i]
          BY <1>3, <3>1, <4>2
        <5> QED BY <1>2, <2>1, <4>2, <5>1 DEF Clean, Version, Live, Exists
      <4> QED BY <4>1, <4>2
    <3>4. store'[i] # Nil => Follows(watch'[k], store'[i])
      <4>1. store[i] # Nil => ~Unknown(i) /\ Version(i, store[i])
        BY <2>1 DEF WatchInv, Unknown
      <4>2. store[i] # Nil => Follows(Told(i), store[i])
        BY <1>6, <3>1, <4>1
      <4> QED BY <1>2, <3>1, <4>2
    <3>5. \A h \in DOMAIN watch' : k < h => watch'[h].inst # i
      BY <1>4, <1>10, <2>3
    <3> QED BY <3>2, <3>3, <3>4, <3>5
  <2> QED BY <2>2, <2>3
<1>11. WatchInv'
  BY <1>8, <1>9, <1>10 DEF WatchInv
<1>12. ObserveInv'
  <2> SUFFICES ASSUME NEW e \in toObserve
               PROVE  /\ store[e.inst] # Nil \/ NoEvent(e.inst)'
                      /\ e.kind = "delete" => store[e.inst] = Nil \/ store[e.inst].status = "deleting"
    BY <1>2 DEF ObserveInv, NoEvent
  <2>1. e.inst \in Inst
    BY DEF TypeInv, DSTypeOK
  <2>2. ASSUME store[e.inst] = Nil, NEW k \in DOMAIN watch', watch'[k].inst = e.inst
        PROVE  FALSE
    <3>1. NoEvent(e.inst)
      BY <2>2 DEF ObserveInv
    <3>2. e.inst \in Changed
      BY <1>4, <2>2, <3>1 DEF NoEvent
    <3>3. ~Unknown(e.inst)
      BY DEF Unknown
    <3>4. insts[e.inst] # Nil
      BY <1>5, <3>2, <3>3
    <3> QED BY <2>1, <2>2, <3>1, <3>4 DEF WatchInv, UpToDate, LastOf, NoEvent
  <2> QED BY <2>2 DEF ObserveInv, NoEvent
<1> QED BY <1>11, <1>12

(***************************************************************************)
(* What a recorded step means to the other parts of the invariant          *)
(***************************************************************************)

Born(i) == insts[i] = Nil /\ insts'[i] # Nil

LEMMA LiveBefore ==
  ASSUME Recorded, NEW i \in Inst, Live(i)', ~Born(i)
  PROVE  Live(i) /\ insts'[i].node = insts[i].node
  BY DEF Recorded, Evolves, Born, Live, Exists, Unknown

LEMMA StaleStep ==
  ASSUME TypeInv, WatchInv, StaleInv, Recorded,
         \A i \in Inst : Live(i) /\ ~Live(i)' => insts[i].node \in shaken' \/ Deleted(i)',
         \A i \in Inst : ~Live(i) /\ Deleted(i) => Deleted(i)'
  PROVE  StaleInv'
<1>1. /\ store' = store /\ shaken \subseteq shaken'
      /\ \A k \in DOMAIN watch' : watch'[k].inst \in Inst
  <2>1. watch' \in Seq(Event)
    BY DEF Recorded, Stored
  <2>2. \A k \in DOMAIN watch' : watch'[k] \in Event
    BY <2>1
  <2>3. \A k \in DOMAIN watch' : watch'[k].inst \in Inst
    BY <2>2 DEF Event
  <2> QED BY <2>3 DEF Recorded
<1>2. \A i : /\ Told(i).inst = i
             /\ insts'[i] = Nil => Told(i).obj = insts[i]
             /\ insts'[i] # Nil => Told(i).obj = insts'[i]
  BY Zenon DEF Told
<1>3. \A k \in DOMAIN watch' :
         \/ k \in DOMAIN watch /\ watch'[k] = watch[k]
         \/ watch'[k].inst \in Changed /\ watch'[k] = Told(watch'[k].inst)
  <2>1. \A i : Told(i).inst = i
    BY <1>2
  <2> QED BY <2>1 DEF Recorded, Stored, Continues
<1>4. ASSUME NEW i \in Inst, ~Live(i)', NEW o, o.status = "live", Version(i, o),
             ~Live(i) => o.node \in shaken \/ Deleted(i)
      PROVE  o.node \in shaken' \/ Deleted(i)'
  <2>1. CASE Live(i)
    BY <1>4, <2>1 DEF Version, Live
  <2>2. CASE ~Live(i)
    BY <1>1, <1>4, <2>2
  <2> QED BY <2>1, <2>2
<1>5. ASSUME NEW i \in Inst, ~Live(i)'
      PROVE  store[i] # Nil /\ store[i].status = "live" => store[i].node \in shaken' \/ Deleted(i)'
  BY <1>4, <1>5 DEF WatchInv, StaleInv
<1>6. ASSUME NEW i \in Inst, ~Live(i)', NEW k \in DOMAIN watch', watch'[k].inst = i,
             watch'[k].obj.status = "live"
      PROVE  watch'[k].obj.node \in shaken' \/ Deleted(i)'
  <2>1. CASE k \in DOMAIN watch /\ watch'[k] = watch[k]
    BY <1>4, <1>6, <2>1 DEF WatchInv, StaleInv
  <2>2. CASE i \in Changed /\ watch'[k] = Told(i)
    <3>1. insts'[i] = Nil
      BY <1>2, <1>6, <2>2 DEF Live, Exists
    <3>2. watch'[k].obj = insts[i] /\ Live(i)
      BY <1>2, <1>6, <2>2, <3>1 DEF Live, Exists, Changed
    <3> QED BY <1>6, <3>2
  <2> QED BY <1>3, <1>6, <2>1, <2>2
<1> QED BY <1>1, <1>5, <1>6 DEF StaleInv

LEMMA SeenStep ==
  ASSUME SeenInv, Recorded,
         \A i \in Inst \ excused' : Born(i) => i \in exp'.create /\ ~exp'.expired,
         \A i \in Inst \ excused' :
            Live(i) /\ i \in exp.create /\ ~exp.expired => i \in exp'.create /\ ~exp'.expired
  PROVE  SeenInv'
<1> SUFFICES ASSUME NEW i \in Inst \ excused', Live(i)', store'[i] = Nil
             PROVE  i \in exp'.create /\ ~exp'.expired
  BY DEF SeenInv
<1>1. store' = store /\ i \notin excused
  BY DEF Recorded
<1>2. CASE Born(i)
  BY <1>2
<1>3. CASE ~Born(i)
  <2>1. Live(i)
    BY <1>3, LiveBefore
  <2> QED BY <1>1, <2>1 DEF SeenInv
<1> QED BY <1>2, <1>3

LEMMA OneStep ==
  ASSUME OnePerNode, Owned, Recorded,
         \A i, j \in Inst \ excused' :
            Born(i) /\ i # j /\ Live(j)' => insts'[j].node # insts'[i].node
  PROVE  OnePerNode'
<1> SUFFICES ASSUME NEW i \in Inst \ excused', NEW j \in Inst \ excused', Live(i)', Live(j)',
                    insts'[i].owned, insts'[j].owned, insts'[i].node = insts'[j].node, i # j
             PROVE  FALSE
  BY DEF OnePerNode
<1>1. ~Born(i) /\ ~Born(j)
  OBVIOUS
<1>2. /\ Live(i) /\ insts'[i].node = insts[i].node
      /\ Live(j) /\ insts'[j].node = insts[j].node
  BY <1>1, LiveBefore
<1>3. excused \subseteq excused'
  BY DEF Recorded
<1>4. insts[i].owned /\ insts[j].owned
  BY <1>2, <1>3 DEF Owned, Live, Exists
<1> QED BY <1>2, <1>3, <1>4 DEF OnePerNode

(* The sync goes on with the rest of its plan. *)
Continued ==
    /\ rec.pc = "sync" /\ rec'.pc = "sync"
    /\ rec'.spec = rec.spec /\ rec'.nodes = rec.nodes
    /\ DOMAIN rec'.create \subseteq DOMAIN rec.create
    /\ \A i \in DOMAIN rec'.create : rec'.create[i] = rec.create[i]
    /\ rec'.delete \subseteq rec.delete

LEMMA KeptStep ==
  ASSUME TypeInv, KeptInv, Recorded, Continued,
         \A i \in Inst : Born(i) => i \notin rec'.delete,
         \A i \in Inst : Live(i) /\ ~Live(i)' => insts[i].node \in shaken' \/ i \in rec.delete
  PROVE  KeptInv'
<1> SUFFICES ASSUME NEW i \in rec'.delete, Live(i)', insts'[i].node \notin shaken',
                    ShouldRun(rec'.spec, rec'.nodes[insts'[i].node])
             PROVE  \E j \in Inst \ rec'.delete : Live(j)' /\ insts'[j].node = insts'[i].node
  BY DEF KeptInv
<1>1. i \in rec.delete /\ i \in Inst /\ ~Born(i) /\ shaken \subseteq shaken'
  BY RecShape DEF Continued, TypeInv, Recorded
<1>2. Live(i) /\ insts'[i].node = insts[i].node
  BY <1>1, LiveBefore
<1>3. PICK j \in Inst \ rec.delete : Live(j) /\ insts[j].node = insts[i].node
  BY <1>1, <1>2 DEF KeptInv, Continued
<1>4. Live(j)' /\ ~Born(j)
  BY <1>1, <1>2, <1>3 DEF Born, Live, Exists
<1>5. insts'[j].node = insts[j].node
  BY <1>3, <1>4, LiveBefore
<1> QED BY <1>2, <1>3, <1>4, <1>5 DEF Continued

LEMMA StillUnknown ==
  ASSUME Recorded, NEW i \in Inst, Unknown(i), ~Born(i)
  PROVE  Unknown(i)'
<1>1. i \notin Changed
  BY DEF Unknown, Born, Changed
<1>2. \A j : Told(j).inst = j
  BY DEF Told
<1>3. NoEvent(i)'
  BY <1>1, <1>2 DEF Unknown, NoEvent, Recorded, Stored, Continues
<1> QED BY <1>1, <1>3 DEF Unknown, Recorded, Changed

LEMMA PlanStep ==
  ASSUME TypeInv, PlanInv, Recorded, Continued,
         exp'.expired => exp.expired \/ (excused' = Inst /\ shaken' = Node),
         excused' \subseteq Inst, shaken' \subseteq Node,
         \A i \in DOMAIN rec'.create : ~Born(i) /\ i \in exp'.create,
         \A i \in Inst \ excused' :
            Born(i) => \A c \in DOMAIN rec'.create : insts'[i].node # rec'.create[c],
         \A i \in Inst : Born(i) => i \notin rec'.delete,
         \A i \in rec'.delete : i \in exp.delete => i \in exp'.delete
  PROVE  PlanInv'
<1>1. /\ DOMAIN rec.create \subseteq Inst /\ rec.delete \subseteq Inst
      /\ excused \subseteq excused' /\ shaken \subseteq shaken' /\ rec'.pc = "sync"
  BY RecShape DEF Continued, TypeInv, Recorded
<1>2. exp'.expired => excused' = Inst /\ shaken' = Node
  BY <1>1 DEF PlanInv, Continued
<1>3. ASSUME NEW i \in DOMAIN rec'.create
      PROVE  /\ Unknown(i)' /\ i \in exp'.create /\ i \notin rec'.delete
             /\ \A j \in Inst \ excused' : Live(j)' => insts'[j].node # rec'.create[i]
  <2>1. /\ i \in DOMAIN rec.create /\ rec'.create[i] = rec.create[i] /\ i \in Inst
        /\ Unknown(i) /\ i \notin rec.delete
        /\ \A j \in Inst \ excused : Live(j) => insts[j].node # rec.create[i]
    BY <1>1 DEF PlanInv, Continued
  <2>2. Unknown(i)'
    BY <2>1, StillUnknown
  <2>3. ASSUME NEW j \in Inst \ excused', Live(j)' PROVE insts'[j].node # rec'.create[i]
    <3>1. CASE Born(j)
      BY <3>1
    <3>2. CASE ~Born(j)
      BY <1>1, <2>1, <2>3, <3>2, LiveBefore
    <3> QED BY <3>1, <3>2
  <2> QED BY <2>1, <2>2, <2>3 DEF Continued
<1>4. \A i, j \in DOMAIN rec'.create : rec'.create[i] = rec'.create[j] => i = j
  BY DEF PlanInv, Continued
<1>5. ASSUME NEW i \in rec'.delete, Live(i)' PROVE i \in exp'.delete
  <2>1. i \in rec.delete /\ i \in Inst /\ ~Born(i)
    BY <1>1 DEF Continued
  <2>2. Live(i)
    BY <1>5, <2>1, LiveBefore
  <2> QED BY <2>1, <2>2 DEF PlanInv, Continued
<1> QED BY <1>1, <1>2, <1>3, <1>4, <1>5 DEF PlanInv

LEMMA OwnedInv ==
  ASSUME WatchInv
  PROVE  Owned
  BY DEF WatchInv, Owned, Version

(* Nobody but the controller puts the rest of the invariant at risk. *)
LEMMA ForeignKeeps ==
  ASSUME DaemonSetInv, Foreign, TypeInv'
  PROVE  DaemonSetInv'
<1>1. /\ TypeInv /\ WatchInv /\ ObserveInv /\ SeenInv /\ StaleInv /\ PlanInv /\ KeptInv
      /\ OnePerNode /\ Recorded /\ UNCHANGED <<rec, exp>> /\ Owned
  BY OwnedInv DEF DaemonSetInv, Foreign
<1>2. WatchInv' /\ ObserveInv'
  BY <1>1, RecordedWatch
<1>3. \A i \in Inst :
         /\ Born(i) => i \in excused' /\ i \notin exp.create /\ (rec.pc = "sync" => i \notin rec.delete)
         /\ Live(i) /\ ~Live(i)' => insts[i].node \in shaken'
  BY DEF Foreign, Born
<1>4. SeenInv'
  BY <1>1, <1>3, SeenStep
<1>5. \A i \in Inst : Deleted(i)' <=> Deleted(i)
  BY <1>1 DEF Deleted
<1>6. StaleInv'
  BY <1>1, <1>3, <1>5, StaleStep
<1>7. OnePerNode'
  BY <1>1, <1>3, OneStep
<1>8. PlanInv' /\ KeptInv'
  <2>1. CASE rec.pc # "sync"
    BY <1>1, <2>1 DEF PlanInv, KeptInv
  <2>2. CASE rec.pc = "sync"
    <3>1. Continued /\ excused' \subseteq Inst /\ shaken' \subseteq Node
      BY <1>1, <2>2 DEF Continued, TypeInv, DSTypeOK
    <3>2. \A i \in DOMAIN rec'.create : ~Born(i) /\ i \in exp'.create
      <4>1. \A i \in DOMAIN rec.create : i \in Inst /\ i \in exp.create
        BY <1>1, <2>2, RecShape DEF PlanInv, TypeInv
      <4> QED BY <1>1, <1>3, <4>1
    <3>3. PlanInv'
      BY <1>1, <1>3, <2>2, <3>1, <3>2, PlanStep
    <3>4. KeptInv'
      BY <1>1, <1>3, <2>2, <3>1, KeptStep
    <3> QED BY <3>3, <3>4
  <2> QED BY <2>1, <2>2
<1> QED BY <1>2, <1>4, <1>6, <1>7, <1>8 DEF DaemonSetInv
-----------------------------------------------------------------------------
(***************************************************************************)
(* The steps of the controller                                             *)
(***************************************************************************)

(* A reconcile begins or ends. *)
LEMMA BeginEndKeeps ==
  ASSUME DaemonSetInv, Start \/ ManageFails \/ Finish, TypeInv'
  PROVE  DaemonSetInv'
<1>1. /\ TypeInv /\ WatchInv /\ ObserveInv /\ SeenInv /\ StaleInv /\ PlanInv /\ OnePerNode
      /\ DSTypeOK /\ Owned
  BY OwnedInv DEF DaemonSetInv, TypeInv
<1>2. /\ UNCHANGED <<insts, watch, store, toObserve, exp, excused, shaken>>
      /\ rec'.pc # "sync" /\ (rec'.pc = "manage" => Satisfied(exp))
      /\ rec.pc = "sync" => rec.delete = {}
  BY DEF Start, ManageFails, Finish, Idle
<1>3. Recorded
  BY <1>1, <1>2, RecordedUnchanged
<1>4. WatchInv' /\ ObserveInv'
  BY <1>1, <1>3, RecordedWatch
<1>5. \A i \in Inst : ~Born(i) /\ (Live(i)' <=> Live(i))
  BY <1>2 DEF Born, Live, Exists
<1>6. SeenInv' /\ OnePerNode'
  BY <1>1, <1>2, <1>3, <1>5, SeenStep, OneStep
<1>7. \A i \in Inst : Deleted(i) => Deleted(i)'
  BY <1>2 DEF Deleted
<1>8. StaleInv'
  BY <1>1, <1>3, <1>5, <1>7, StaleStep
<1>9. PlanInv' /\ KeptInv'
  BY <1>2 DEF PlanInv, KeptInv, Satisfied
<1> QED BY <1>4, <1>6, <1>8, <1>9 DEF DaemonSetInv

(* Expectations that time out too early excuse everything; when all is
   quiet nothing is missing in the cache. *)
LEMMA ExpireKeeps ==
  ASSUME DaemonSetInv, Expire, TypeInv'
  PROVE  DaemonSetInv'
<1>1. /\ TypeInv /\ WatchInv /\ ObserveInv /\ SeenInv /\ StaleInv /\ PlanInv /\ KeptInv
      /\ OnePerNode /\ DSTypeOK /\ Owned /\ excused \subseteq Inst /\ shaken \subseteq Node
      /\ store \in [Inst -> MaybeObject] /\ exp \in Expecting
  BY OwnedInv DEF DaemonSetInv, TypeInv, DSTypeOK, MaybeObject, Expecting
<1>2. /\ UNCHANGED <<insts, watch, store, toObserve, rec>> /\ ~Satisfied(exp)
      /\ exp'.create = exp.create /\ exp'.delete = exp.delete
      /\ \/ Quiet /\ UNCHANGED <<shaken, excused>>
         \/ ~Quiet /\ shaken' = Node /\ excused' = Inst
  BY <1>1 DEF Expire, Expecting
<1>3. Recorded
  BY <1>1, <1>2, RecordedUnchanged
<1>4. WatchInv' /\ ObserveInv'
  BY <1>1, <1>3, RecordedWatch
<1>5. \A i \in Inst : ~Born(i) /\ (Live(i)' <=> Live(i))
  BY <1>2 DEF Born, Live, Exists
<1>6. OnePerNode'
  BY <1>1, <1>3, <1>5, OneStep
<1>7. CASE Quiet /\ UNCHANGED <<shaken, excused>>
  <2>1. watch = <<>> /\ rec.pc = "idle"
    BY <1>7 DEF Quiet, Idle
  <2>2. \A i \in Inst : store[i] = insts[i]
    BY <1>1, <2>1 DEF WatchInv, UpToDate
  <2>3. SeenInv' /\ StaleInv'
    BY <1>2, <2>1, <2>2 DEF SeenInv, StaleInv, Live, Exists
  <2>4. PlanInv' /\ KeptInv'
    BY <1>2, <2>1 DEF PlanInv, KeptInv
  <2> QED BY <1>4, <1>6, <2>3, <2>4 DEF DaemonSetInv
<1>8. CASE ~Quiet /\ shaken' = Node /\ excused' = Inst
  <2>1. SeenInv'
    BY <1>8 DEF SeenInv
  <2>2. StaleInv'
    <3>1. \A i \in Inst : store[i] # Nil => store[i].node \in Node
      BY <1>1 DEF MaybeObject, Object
    <3>2. \A k \in DOMAIN watch : watch[k].obj.node \in Node
      <4>1. watch \in Seq(Event)
        BY <1>1 DEF DSTypeOK, Event
      <4>2. \A k \in DOMAIN watch : watch[k] \in Event
        BY <4>1
      <4> QED BY <4>2 DEF Event, Object
    <3> QED BY <1>2, <1>8, <3>1, <3>2 DEF StaleInv
  <2>3. CASE rec.pc = "sync"
    <3>1. Continued
      BY <1>2, <2>3 DEF Continued
    <3>2. \A i \in DOMAIN rec'.create : ~Born(i) /\ i \in exp'.create
      <4>1. \A i \in DOMAIN rec.create : i \in Inst /\ i \in exp.create
        BY <1>1, <2>3, RecShape DEF PlanInv, TypeInv
      <4> QED BY <1>2, <1>5, <4>1
    <3>3. PlanInv'
      BY <1>1, <1>2, <1>3, <1>5, <1>8, <3>1, <3>2, PlanStep
    <3>4. KeptInv'
      BY <1>1, <1>3, <1>5, <3>1, KeptStep
    <3> QED BY <1>4, <1>6, <2>1, <2>2, <3>3, <3>4 DEF DaemonSetInv
  <2>4. CASE rec.pc # "sync"
    <3>1. rec.pc # "manage"
      BY <1>1, <1>2 DEF PlanInv
    <3>2. PlanInv' /\ KeptInv'
      BY <1>2, <2>4, <3>1 DEF PlanInv, KeptInv
    <3> QED BY <1>4, <1>6, <2>1, <2>2, <3>2 DEF DaemonSetInv
  <2> QED BY <2>3, <2>4
<1> QED BY <1>2, <1>7, <1>8

(* An instance is created, or it is not. *)
LEMMA CreateKeeps ==
  ASSUME DaemonSetInv, NEW i \in Inst, CreateOK(i) \/ CreateFails(i), TypeInv'
  PROVE  DaemonSetInv'
<1>1. /\ TypeInv /\ WatchInv /\ ObserveInv /\ SeenInv /\ StaleInv /\ PlanInv /\ KeptInv
      /\ OnePerNode /\ DSTypeOK /\ Owned /\ rec \in RecType /\ exp \in Expecting
      /\ excused' \subseteq Inst /\ shaken' \subseteq Node
  BY OwnedInv DEF DaemonSetInv, TypeInv, DSTypeOK, Expecting
<1>2. /\ rec.pc = "sync" /\ i \in DOMAIN rec.create
      /\ UNCHANGED <<store, toObserve, shaken>> /\ excused \subseteq excused'
  BY DEF CreateOK, CreateFails
<1>3. /\ rec.create \in [DOMAIN rec.create -> Node] /\ DOMAIN rec.create \subseteq Inst
      /\ rec.spec \in Specs
      /\ rec = [pc |-> "sync", spec |-> rec.spec, nodes |-> rec.nodes,
                create |-> rec.create, delete |-> rec.delete, err |-> rec.err]
  BY <1>1, <1>2, RecShape
<1>4. /\ Unknown(i) /\ i \in exp.create /\ i \notin rec.delete
      /\ \A j \in Inst \ excused : Live(j) => insts[j].node # rec.create[i]
      /\ exp.expired => excused = Inst /\ shaken = Node
      /\ \A c \in DOMAIN rec.create : rec.create[c] = rec.create[i] => c = i
  BY <1>1, <1>2 DEF PlanInv
<1> DEFINE p == NewInstance(rec.create[i])
<1>5. /\ p \in Object /\ p.node = rec.create[i] /\ p.owned /\ p.match /\ p # Nil
  <2>1. rec.create[i] \in Node
    BY <1>2, <1>3
  <2>2. p \in Object /\ p.node = rec.create[i] /\ p.owned /\ p.match
    BY <1>3, <2>1 DEF NewInstance, Object
  <2> QED BY <2>2, NilObjectAssumption
<1>6. /\ rec'.pc = "sync" /\ rec'.spec = rec.spec /\ rec'.nodes = rec.nodes
      /\ rec'.create = [j \in DOMAIN rec.create \ {i} |-> rec.create[j]]
      /\ rec'.delete = rec.delete
  <2>1. \E e \in BOOLEAN : Created(i, e)
    BY DEF CreateOK, CreateFails
  <2> QED BY <1>3, <2>1 DEF Created
<1>7. Continued /\ DOMAIN rec'.create = DOMAIN rec.create \ {i}
  BY <1>2, <1>6 DEF Continued
<1>8. /\ exp'.delete = exp.delete /\ exp'.expired = exp.expired
      /\ exp.create \ {i} \subseteq exp'.create
  BY <1>1 DEF CreateOK, CreateFails, CreationObserved, Expecting
<1>9. Recorded /\ (\A j \in Inst \ {i} : insts'[j] = insts[j]) /\ insts'[i] \in {Nil, p}
  <2>1. CASE UNCHANGED <<insts, watch>>
    <3>1. Recorded
      BY <1>1, <1>2, <2>1, RecordedUnchanged
    <3> QED BY <1>4, <2>1, <3>1 DEF Unknown
  <2>2. CASE Put(i, p)
    <3> HIDE DEF p
    <3>1. Stored /\ insts' = [insts EXCEPT ![i] = p]
      BY <1>1, <1>5, <2>2, PutStored DEF MaybeObject
    <3> QED BY <1>1, <1>2, <1>4, <1>5, <3>1, RecordedOne
  <2> QED BY <2>1, <2>2 DEF CreateOK, CreateFails
<1>10. insts'[i] # Nil => i \in excused' \/ i \in exp'.create
  <2>1. CASE CreateOK(i)
    BY <1>4, <2>1 DEF CreateOK
  <2>2. CASE CreateFails(i)
    <3>1. CASE UNCHANGED insts
      BY <1>4, <3>1 DEF Unknown
    <3>2. CASE excused' = excused \union {i}
      BY <3>2
    <3> QED BY <2>2, <3>1, <3>2 DEF CreateFails
  <2> QED BY <2>1, <2>2
<1> HIDE DEF p
<1>11. WatchInv' /\ ObserveInv'
  BY <1>1, <1>9, RecordedWatch
<1>12. \A j \in Inst : Born(j) => j = i
  BY <1>9 DEF Born
<1>13. ~Live(i) /\ \A j \in Inst : Live(j) => Live(j)'
  BY <1>4, <1>9 DEF Unknown, Live, Exists
<1>14. SeenInv'
  <2>1. \A j \in Inst \ excused' : Born(j) => j \in exp'.create /\ ~exp'.expired
    BY <1>2, <1>4, <1>8, <1>10, <1>12 DEF Born
  <2>2. \A j \in Inst \ excused' :
           Live(j) /\ j \in exp.create /\ ~exp.expired => j \in exp'.create /\ ~exp'.expired
    BY <1>8, <1>13
  <2> QED BY <1>1, <1>9, <2>1, <2>2, SeenStep
<1>15. \A j \in Inst : Deleted(j) <=> Deleted(j)'
  BY <1>2, <1>6, <1>8 DEF Deleted
<1>16. StaleInv'
  BY <1>1, <1>9, <1>13, <1>15, StaleStep
<1>17. Born(i) => insts'[i].node = rec.create[i]
  BY <1>5, <1>9 DEF Born
<1>18. OnePerNode'
  <2>1. ASSUME NEW j \in Inst \ excused', j # i, Live(j)', Born(i)
        PROVE  insts'[j].node # insts'[i].node
    <3>1. Live(j) /\ insts'[j].node = insts[j].node /\ j \notin excused
      BY <1>2, <1>9, <2>1 DEF Live, Exists
    <3> QED BY <1>4, <1>17, <2>1, <3>1
  <2> QED BY <1>1, <1>9, <1>12, <2>1, OneStep
<1>19. PlanInv'
  <2>1. \A j \in DOMAIN rec'.create : ~Born(j) /\ j \in exp'.create
    BY <1>1, <1>2, <1>3, <1>7, <1>8, <1>12 DEF PlanInv
  <2>2. \A j \in Inst : Born(j) => \A c \in DOMAIN rec'.create : insts'[j].node # rec'.create[c]
    BY <1>4, <1>6, <1>7, <1>12, <1>17
  <2>3. \A j \in Inst : Born(j) => j \notin rec'.delete
    BY <1>4, <1>6, <1>12
  <2> QED BY <1>1, <1>7, <1>8, <1>9, <2>1, <2>2, <2>3, PlanStep
<1>20. KeptInv'
  <2>1. \A j \in Inst : Born(j) => j \notin rec'.delete
    BY <1>4, <1>6, <1>12
  <2> QED BY <1>1, <1>7, <1>9, <1>13, <2>1, KeptStep
<1> QED BY <1>11, <1>14, <1>16, <1>18, <1>19, <1>20 DEF DaemonSetInv

(* An instance is deleted, or it is not. *)
LEMMA DeleteKeeps ==
  ASSUME DaemonSetInv, NEW i \in Inst, DeleteOK(i) \/ DeleteFails(i), TypeInv'
  PROVE  DaemonSetInv'
<1>1. /\ TypeInv /\ WatchInv /\ ObserveInv /\ SeenInv /\ StaleInv /\ PlanInv /\ KeptInv
      /\ OnePerNode /\ DSTypeOK /\ Owned /\ rec \in RecType /\ exp \in Expecting
      /\ excused' \subseteq Inst /\ shaken' \subseteq Node /\ insts \in [Inst -> MaybeObject]
  BY OwnedInv DEF DaemonSetInv, TypeInv, DSTypeOK, Expecting, MaybeObject
<1>2. /\ rec.pc = "sync" /\ i \in rec.delete /\ DOMAIN rec.create = {}
      /\ UNCHANGED <<store, toObserve, excused>> /\ shaken \subseteq shaken'
  BY DEF DeleteOK, DeleteFails, Deletes
<1>3. /\ Live(i) => i \in exp.delete
      /\ exp.expired => excused = Inst /\ shaken = Node
  BY <1>1, <1>2 DEF PlanInv
<1>4. /\ rec'.pc = "sync" /\ rec'.spec = rec.spec /\ rec'.nodes = rec.nodes
      /\ rec'.create = rec.create /\ rec'.delete = rec.delete \ {i}
  <2>1. \/ rec' = [rec EXCEPT !.delete = @ \ {i}]
        \/ \E e \in BOOLEAN : rec' = [rec EXCEPT !.delete = @ \ {i}, !.err = e]
    BY Zenon DEF DeleteOK, DeleteFails
  <2>2. rec = [pc |-> "sync", spec |-> rec.spec, nodes |-> rec.nodes,
               create |-> rec.create, delete |-> rec.delete, err |-> rec.err]
    BY <1>1, <1>2, RecShape
  <2>3. DOMAIN rec = {"pc", "spec", "nodes", "create", "delete", "err"}
    BY <2>2
  <2>4. CASE rec' = [rec EXCEPT !.delete = @ \ {i}]
    BY <1>2, <2>3, <2>4
  <2>5. ASSUME NEW e \in BOOLEAN, rec' = [rec EXCEPT !.delete = @ \ {i}, !.err = e]
        PROVE  /\ rec'.pc = rec.pc /\ rec'.spec = rec.spec /\ rec'.nodes = rec.nodes
               /\ rec'.create = rec.create /\ rec'.delete = rec.delete \ {i}
    BY <2>3, <2>5
  <2> QED BY <1>2, <2>1, <2>4, <2>5
<1>5. Continued
  BY <1>2, <1>4 DEF Continued
<1>6. /\ exp'.create = exp.create /\ exp'.expired = exp.expired
      /\ exp.delete \ {i} \subseteq exp'.delete
  BY <1>1 DEF DeleteOK, DeleteFails, DeletionObserved, Expecting
<1>7. /\ Recorded /\ (\A j \in Inst \ {i} : insts'[j] = insts[j])
      /\ insts[i] = Nil => insts'[i] = Nil
  <2>1. CASE UNCHANGED <<insts, watch>>
    BY <1>1, <1>2, <2>1, RecordedUnchanged
  <2>2. CASE Delete(i)
    BY <1>1, <1>2, <2>2, RecordedDelete
  <2> QED BY <2>1, <2>2 DEF DeleteOK, DeleteFails
<1>8. \A j \in Inst : ~Born(j)
  BY <1>7 DEF Born
<1>9. \A j \in Inst : Live(j) /\ ~Live(j)' => j = i
  BY <1>7 DEF Live, Exists
<1>10. WatchInv' /\ ObserveInv'
  BY <1>1, <1>7, RecordedWatch
<1>11. SeenInv' /\ OnePerNode'
  BY <1>1, <1>6, <1>7, <1>8, SeenStep, OneStep
<1>12. StaleInv'
  <2>1. ASSUME Live(i) PROVE insts[i].node \in shaken' \/ Deleted(i)'
    <3>1. insts[i].node \in Node /\ Exists(i)
      BY <1>1, <2>1 DEF Live, Exists, MaybeObject, Object
    <3>2. CASE DeleteFails(i)
      BY <3>1, <3>2 DEF DeleteFails
    <3>3. CASE DeleteOK(i)
      <4>1. exp' = exp
        BY <3>1, <3>3 DEF DeleteOK
      <4> QED BY <1>2, <1>3, <1>4, <2>1, <3>1, <4>1 DEF Deleted
    <3> QED BY <3>2, <3>3
  <2>2. \A j \in Inst : Deleted(j) => Deleted(j)'
    BY <1>2, <1>4, <1>6 DEF Deleted
  <2> QED BY <1>1, <1>7, <1>9, <2>1, <2>2, StaleStep
<1>13. PlanInv'
  <2>1. \A j \in DOMAIN rec'.create : ~Born(j) /\ j \in exp'.create
    BY <1>2, <1>4
  <2>2. \A j \in rec'.delete : j \in exp.delete => j \in exp'.delete
    BY <1>4, <1>6
  <2> QED BY <1>1, <1>5, <1>6, <1>7, <1>8, <2>1, <2>2, PlanStep
<1>14. KeptInv'
  BY <1>1, <1>2, <1>5, <1>7, <1>8, <1>9, KeptStep
<1> QED BY <1>10, <1>11, <1>12, <1>13, <1>14 DEF DaemonSetInv

(* The patches. *)
LEMMA ManageRecorded ==
  ASSUME TypeInv, WatchInv, Manage
  PROVE  /\ Recorded
         /\ \A i \in Inst : /\ ~Born(i) /\ (Live(i)' <=> Live(i))
                            /\ Live(i) => insts'[i].node = insts[i].node
<1>1. DSTypeOK /\ Owned /\ rec.spec \in Specs
  BY OwnedInv, RecShape DEF TypeInv, Manage
<1> DEFINE new == [i \in Inst |-> Patched(i, rec.spec)]
<1>2. ASSUME NEW i \in Inst
      PROVE  /\ new[i] \in MaybeObject /\ (new[i] = Nil <=> insts[i] = Nil)
             /\ insts[i] # Nil =>
                   /\ new[i].status = insts[i].status
                   /\ new[i].node = insts[i].node
                   /\ new[i].match = insts[i].match
                   /\ insts[i].owned /\ ~Releases(store[i]) => new[i].owned
  BY <1>1, PatchedShape
<1>3. new \in [Inst -> MaybeObject] /\ Write(new)
  BY <1>2 DEF Manage
<1> HIDE DEF new
<1>4. Stored /\ insts' = new
  BY <1>1, <1>3, WriteStored
<1>5. UNCHANGED <<store, toObserve, excused, shaken>>
  BY DEF Manage
<1>6. \A i \in Inst : Evolves(i)
  BY <1>2, <1>4 DEF Evolves
<1>7. ASSUME NEW i \in Inst, i \notin excused', insts'[i] # Nil
      PROVE  insts'[i].owned /\ insts'[i].match
  <2>1. insts[i] # Nil /\ insts[i].owned /\ insts[i].match
    BY <1>1, <1>2, <1>4, <1>5, <1>7 DEF Owned
  <2>2. ~Releases(store[i])
    BY <1>5, <1>7 DEF WatchInv, Version, Releases
  <2> QED BY <1>2, <1>4, <2>1, <2>2
<1>8. Recorded
  BY <1>4, <1>5, <1>6, <1>7 DEF Recorded, Clean
<1> QED BY <1>2, <1>4, <1>8 DEF Born, Live, Exists

(* A reconcile plans on a cache that has caught up with those before. *)
LEMMA ManageKeeps ==
  ASSUME DaemonSetInv, Manage, TypeInv'
  PROVE  DaemonSetInv'
<1>1. /\ TypeInv /\ WatchInv /\ ObserveInv /\ SeenInv /\ StaleInv /\ PlanInv
      /\ OnePerNode /\ DSTypeOK /\ Owned /\ exp \in Expecting
      /\ insts \in [Inst -> MaybeObject] /\ store \in [Inst -> MaybeObject]
  BY OwnedInv DEF DaemonSetInv, TypeInv, DSTypeOK, Expecting, MaybeObject
<1>2. rec.pc = "manage" /\ Satisfied(exp) /\ UNCHANGED <<store, excused, shaken>>
  BY <1>1 DEF Manage, PlanInv
<1>3. /\ Recorded
      /\ \A i \in Inst : /\ ~Born(i) /\ (Live(i)' <=> Live(i))
                         /\ Live(i) => insts'[i].node = insts[i].node
  BY <1>1, ManageRecorded
<1>4. WatchInv' /\ ObserveInv'
  BY <1>1, <1>3, RecordedWatch
<1>5. OnePerNode'
  BY <1>1, <1>3, OneStep
<1>6. \A i \in Inst : ~(i \in exp.create /\ ~exp.expired) /\ ~Deleted(i)
  BY <1>2 DEF Satisfied, Deleted
<1>7. SeenInv' /\ StaleInv'
  BY <1>1, <1>3, <1>6, SeenStep, StaleStep
<1>8. CASE rec' = Idle
  BY <1>4, <1>5, <1>7, <1>8 DEF DaemonSetInv, PlanInv, KeptInv, Idle
<1>9. CASE rec' # Idle
  <2> DEFINE needing == Needing(rec.spec, rec.nodes)
             known == rec.nodes
  <2>1. PICK names \in FreshNames(Cardinality(needing)), delete \in Unwanted(rec.spec, known) :
           /\ exp' = ExpectCreationsAndDeletions(names, delete)
           /\ rec' = [pc |-> "sync", spec |-> rec.spec, nodes |-> rec.nodes,
                      create |-> CHOOSE f \in [names -> needing] : Range(f) = needing,
                      delete |-> delete, err |-> FALSE]
    BY <1>9 DEF Manage
  <2> DEFINE c == CHOOSE f \in [names -> needing] : Range(f) = needing
  <2>2. /\ rec'.pc = "sync" /\ rec'.spec = rec.spec /\ rec'.nodes = known
        /\ rec'.create = c /\ rec'.delete = delete
        /\ exp'.create = names /\ exp'.delete = delete /\ ~exp'.expired
    <3>1. exp'.create = names /\ exp'.delete = delete /\ exp'.expired = FALSE
      BY <2>1 DEF ExpectCreationsAndDeletions
    <3> HIDE DEF c, needing
    <3>2. rec' = [pc |-> "sync", spec |-> rec.spec, nodes |-> rec.nodes,
                  create |-> c, delete |-> delete, err |-> FALSE]
      BY <2>1 DEF c, needing
    <3> QED BY <3>1, <3>2
  <2>3. names \in SUBSET Inst /\ Cardinality(names) = Cardinality(needing)
        /\ \A i \in names : Fresh(i)
    BY FreshNamesShape
  <2>4. /\ c \in [names -> needing]
        /\ \A i, j \in names : c[i] = c[j] => i = j
    <3>1. needing \in SUBSET Node
      BY DEF Needing
    <3> HIDE DEF needing, c
    <3>2. c = CHOOSE f \in [names -> needing] : Range(f) = needing
      BY DEF c
    <3> QED BY <2>3, <3>1, <3>2, AssignNodes
  <2>5. /\ delete \subseteq getDaemonInstances
        /\ \A i \in delete : ShouldRun(rec.spec, known[store[i].node]) =>
              \E j \in getDaemonInstances \ delete :
                 store[j].status = "live" /\ store[j].node = store[i].node
    BY <1>1, UnwantedShape
  <2>6. \A i \in getDaemonInstances : i \in Inst /\ store[i] # Nil
    BY DEF getDaemonInstances, Ours, Adopts
  <2>7. \A n \in needing : LiveOn(n) = {}
    BY DEF Needing
  <2> HIDE DEF c, needing
  <2>8. ASSUME NEW i \in names
        PROVE  /\ Unknown(i)' /\ i \notin delete
               /\ \A j \in Inst \ excused' : Live(j)' => insts'[j].node # c[i]
    <3>1. i \in Inst /\ Unknown(i)
      BY <1>1, <2>3, FreshUnknown
    <3>2. Unknown(i)'
      BY <1>3, <3>1, StillUnknown
    <3>3. i \notin delete
      BY <2>5, <2>6, <3>1 DEF Unknown
    <3>4. ASSUME NEW j \in Inst \ excused', Live(j)', insts'[j].node = c[i] PROVE FALSE
      <4>1. Live(j) /\ insts[j].node = c[i] /\ j \notin excused
        BY <1>2, <1>3, <3>4
      <4>2. store[j] # Nil
        BY <1>1, <1>6, <4>1 DEF SeenInv
      <4>3. /\ store[j].node = c[i] /\ store[j].status = "live"
            /\ store[j].owned /\ store[j].match
        BY <1>1, <4>1, <4>2 DEF WatchInv, Version, Live
      <4>4. j \in LiveOn(c[i])
        BY <4>2, <4>3 DEF LiveOn, On, getDaemonInstances, Ours
      <4> QED BY <2>4, <2>7, <4>4
    <3> QED BY <3>2, <3>3, <3>4
  <2>9. PlanInv'
    BY <2>2, <2>4, <2>8 DEF PlanInv
  <2>10. ASSUME NEW i \in delete, Live(i)', insts'[i].node \notin shaken',
                ShouldRun(rec.spec, known[insts'[i].node])
         PROVE  \E j \in Inst \ delete : Live(j)' /\ insts'[j].node = insts'[i].node
    <3>1. i \in Inst /\ store[i] # Nil
      BY <2>5, <2>6
    <3>2. Live(i) /\ insts'[i].node = insts[i].node /\ store[i].node = insts[i].node
      BY <1>1, <1>3, <2>10, <3>1 DEF WatchInv, Version, Live
    <3>3. PICK j \in getDaemonInstances \ delete :
             store[j].status = "live" /\ store[j].node = insts[i].node
      BY <2>5, <2>10, <3>2
    <3>4. j \in Inst /\ store[j] # Nil
      BY <2>6
    <3>5. Live(j)
      BY <1>1, <1>2, <1>6, <2>10, <3>2, <3>3, <3>4 DEF StaleInv
    <3>6. insts[j].node = insts[i].node
      BY <1>1, <3>3, <3>4, <3>5 DEF WatchInv, Version, Live
    <3> QED BY <1>3, <3>2, <3>4, <3>5, <3>6
  <2>11. KeptInv'
    BY <2>2, <2>10 DEF KeptInv
  <2> QED BY <1>4, <1>5, <1>7, <2>9, <2>11 DEF DaemonSetInv
<1> QED BY <1>8, <1>9
-----------------------------------------------------------------------------
(***************************************************************************)
(* The informer                                                            *)
(***************************************************************************)

LEMMA ObservedShape ==
  ASSUME NEW old, NEW e, NEW x \in Observed(old, e)
  PROVE  /\ x.inst = e.inst
         /\ x.kind = "delete" => e.gone \/ e.obj.status = "deleting"
  BY DEF Observed

LEMMA DeliverWatch ==
  ASSUME TypeInv, WatchInv, ObserveInv, DeliverInstance
  PROVE  WatchInv' /\ ObserveInv'
<1>1. PICK e : e = Head(watch)
  OBVIOUS
<1>2. PICK i : i = e.inst
  OBVIOUS
<1>3. /\ watch \in Seq(Event) /\ store \in [Inst -> MaybeObject]
      /\ watch # <<>> /\ watch' = Tail(watch)
      /\ store' = [store EXCEPT ![i] = After(e)]
      /\ toObserve' = toObserve \union Observed(store[i], e)
      /\ UNCHANGED <<insts, excused>>
  BY <1>1, <1>2 DEF TypeInv, DSTypeOK, Event, MaybeObject, DeliverInstance, After
<1>4. Shrunk(watch, watch', e) /\ e \in Event
  BY <1>1, <1>3, TailShrinks
<1>5. /\ i \in Inst /\ e.obj \in Object /\ e.obj # Nil
      /\ store'[i] = After(e) /\ \A j \in Inst \ {i} : store'[j] = store[j]
  BY <1>2, <1>3, <1>4, NilObjectAssumption DEF Event
<1>6. /\ 1 \in DOMAIN watch /\ watch[1] = e
      /\ \A j \in DOMAIN watch' : j + 1 \in DOMAIN watch /\ watch'[j] = watch[j + 1] /\ 1 < j + 1
      /\ \A j \in DOMAIN watch : (j = 1 /\ watch[j] = e) \/ (j - 1 \in DOMAIN watch' /\ watch'[j - 1] = watch[j])
      /\ \A j, k \in DOMAIN watch' : j < k => j + 1 < k + 1
      /\ \A j \in DOMAIN watch, k \in DOMAIN watch' : j - 1 < k => j < k + 1
  BY <1>4 DEF Shrunk
<1>7. /\ Version(i, e.obj)
      /\ e.gone => insts[i] = Nil
      /\ store[i] # Nil => Follows(e, store[i])
      /\ \A k \in DOMAIN watch' :
            watch'[k].inst = i => ~e.gone /\ Follows(watch'[k], e.obj)
  BY <1>2, <1>6 DEF WatchInv
<1>8. ASSUME NEW j \in Inst PROVE UpToDate(j)'
  <2>1. CASE \E k \in DOMAIN watch : LastOf(j, k) /\ After(watch[k]) = insts[j]
    <3>1. PICK k \in DOMAIN watch : LastOf(j, k) /\ After(watch[k]) = insts[j]
      BY <2>1
    <3>2. CASE k - 1 \in DOMAIN watch' /\ watch'[k - 1] = watch[k]
      <4>1. watch'[k - 1].inst = j /\ After(watch'[k - 1]) = insts'[j]
        BY <1>3, <3>1, <3>2 DEF LastOf
      <4>2. \A h \in DOMAIN watch' : k - 1 < h => watch'[h].inst # j
        BY <1>6, <3>1 DEF LastOf
      <4> QED BY <3>2, <4>1, <4>2 DEF UpToDate, LastOf, After
    <3>3. CASE k = 1 /\ watch[k] = e
      <4>1. j = i /\ After(e) = insts[i]
        BY <1>2, <3>1, <3>3 DEF LastOf
      <4>2. \A h \in DOMAIN watch' : watch'[h].inst # j
        BY <1>6, <3>1, <3>3 DEF LastOf
      <4> QED BY <1>3, <1>5, <4>1, <4>2 DEF UpToDate, NoEvent
    <3> QED BY <1>6, <3>2, <3>3
  <2>2. CASE NoEvent(j) /\ store[j] = insts[j]
    <3>1. j # i /\ \A h \in DOMAIN watch' : watch'[h].inst # j
      BY <1>2, <1>6, <2>2 DEF NoEvent
    <3> QED BY <1>3, <1>5, <2>2, <3>1 DEF UpToDate, NoEvent
  <2> QED BY <2>1, <2>2 DEF WatchInv, UpToDate
<1>9. ASSUME NEW j \in Inst
      PROVE  /\ (insts[j] # Nil => Version(j, insts[j]))'
             /\ (store[j] # Nil => Version(j, store[j]))'
  <2>1. insts[j] # Nil => Version(j, insts[j])
    BY DEF WatchInv
  <2>2. store'[j] # Nil => Version(j, store'[j])
    <3>1. CASE j = i
      BY <1>5, <1>7, <3>1 DEF After
    <3>2. CASE j # i
      BY <1>5, <3>2 DEF WatchInv
    <3> QED BY <3>1, <3>2
  <2> QED BY <1>3, <2>1, <2>2 DEF Version, Live, Exists
<1>10. ASSUME NEW k \in DOMAIN watch', NEW j, j = watch'[k].inst
       PROVE  /\ Version(j, watch[k].obj)'
              /\ watch'[k].gone => insts'[j] = Nil
              /\ store'[j] # Nil => Follows(watch'[k], store'[j])
              /\ \A h \in DOMAIN watch' :
                    k < h /\ watch'[h].inst = j =>
                       ~watch'[k].gone /\ Follows(watch'[h], watch'[k].obj)
  <2>1. k + 1 \in DOMAIN watch /\ watch'[k] = watch[k + 1] /\ j = watch[k + 1].inst
    BY <1>6, <1>10
  <2>2. /\ Version(j, watch'[k].obj)
        /\ watch'[k].gone => insts[j] = Nil
        /\ store[j] # Nil => Follows(watch'[k], store[j])
    BY <2>1 DEF WatchInv
  <2>3. Version(j, watch[k].obj)'
    BY <1>3, <2>2 DEF Version, Live, Exists
  <2>4. store'[j] # Nil => Follows(watch'[k], store'[j])
    <3>1. j \in Inst
      <4>1. watch[k + 1] \in Event
        BY <1>3, <2>1
      <4> QED BY <2>1, <4>1 DEF Event
    <3>2. CASE j = i
      BY <1>5, <1>7, <1>10, <3>2 DEF After
    <3>3. CASE j # i
      BY <1>5, <2>2, <3>1, <3>3
    <3> QED BY <3>2, <3>3
  <2>5. \A h \in DOMAIN watch' :
           k < h /\ watch'[h].inst = j => ~watch'[k].gone /\ Follows(watch'[h], watch'[k].obj)
    BY <1>6, <2>1 DEF WatchInv
  <2> QED BY <1>3, <2>2, <2>3, <2>4, <2>5
<1>11. WatchInv'
  BY <1>8, <1>9, <1>10 DEF WatchInv
<1>12. store'[i] # Nil \/ NoEvent(i)'
  <2>1. CASE e.gone
    BY <1>7, <2>1 DEF NoEvent
  <2>2. CASE ~e.gone
    BY <1>5, <2>2 DEF After
  <2> QED BY <2>1, <2>2
<1>13. ASSUME NEW x \in toObserve'
       PROVE  /\ store'[x.inst] # Nil \/ NoEvent(x.inst)'
              /\ x.kind = "delete" => store'[x.inst] = Nil \/ store'[x.inst].status = "deleting"
  <2>1. CASE x \in toObserve /\ x.inst # i
    <3>1. x.inst \in Inst
      BY <2>1 DEF TypeInv, DSTypeOK
    <3>2. NoEvent(x.inst) => NoEvent(x.inst)'
      BY <1>6, <1>13 DEF NoEvent
    <3> QED BY <1>5, <2>1, <3>1, <3>2 DEF ObserveInv
  <2>2. CASE x \in toObserve /\ x.inst = i
    <3>1. store[i] # Nil /\ (x.kind = "delete" => store[i].status = "deleting")
      BY <1>2, <1>6, <2>2 DEF ObserveInv, NoEvent
    <3>2. x.kind = "delete" => store'[i] = Nil \/ store'[i].status = "deleting"
      BY <1>5, <1>7, <3>1 DEF After, Follows
    <3> QED BY <1>12, <2>2, <3>2 DEF NoEvent
  <2>3. CASE x \in Observed(store[i], e)
    <3>1. x.inst = i /\ (x.kind = "delete" => e.gone \/ e.obj.status = "deleting")
      BY <1>2, <2>3, ObservedShape
    <3> QED BY <1>5, <1>12, <3>1 DEF After, NoEvent
  <2> QED BY <1>3, <2>1, <2>2, <2>3
<1>14. ObserveInv'
  BY <1>13 DEF ObserveInv, NoEvent
<1> QED BY <1>11, <1>14

LEMMA DeliverKeeps ==
  ASSUME DaemonSetInv, DeliverInstance, TypeInv'
  PROVE  DaemonSetInv'
<1>1. /\ TypeInv /\ WatchInv /\ ObserveInv /\ SeenInv /\ StaleInv /\ PlanInv /\ KeptInv
      /\ OnePerNode
  BY DEF DaemonSetInv
<1>2. WatchInv' /\ ObserveInv'
  BY <1>1, DeliverWatch
<1>3. PICK e : e = Head(watch)
  OBVIOUS
<1>4. PICK i : i = e.inst
  OBVIOUS
<1>5. /\ watch \in Seq(Event) /\ store \in [Inst -> MaybeObject]
      /\ watch # <<>> /\ watch' = Tail(watch)
      /\ store' = [store EXCEPT ![i] = After(e)]
      /\ toObserve' = toObserve \union Observed(store[i], e)
      /\ UNCHANGED <<insts, rec, exp, excused, shaken>>
  BY <1>1, <1>3, <1>4 DEF TypeInv, DSTypeOK, Event, MaybeObject, DeliverInstance, After
<1>6. Shrunk(watch, watch', e) /\ e \in Event
  BY <1>3, <1>5, TailShrinks
<1>7. /\ i \in Inst /\ e.obj # Nil
      /\ store'[i] = After(e) /\ \A j \in Inst \ {i} : store'[j] = store[j]
  BY <1>4, <1>5, <1>6, NilObjectAssumption DEF Event
<1>8. /\ 1 \in DOMAIN watch /\ watch[1] = e
      /\ \A k \in DOMAIN watch' : k + 1 \in DOMAIN watch /\ watch'[k] = watch[k + 1]
  BY <1>6 DEF Shrunk
<1>9. \A j \in Inst : Live(j)' <=> Live(j)
  BY <1>5 DEF Live, Exists
<1>10. SeenInv'
  <2>1. store'[i] = Nil => ~Live(i)
    BY <1>1, <1>4, <1>7, <1>8 DEF WatchInv, After, Live, Exists
  <2> QED BY <1>1, <1>5, <1>7, <1>9, <2>1 DEF SeenInv
<1>11. \A j \in Inst : Deleted(j)' <=> Deleted(j)
  BY <1>5 DEF Deleted
<1>12. StaleInv'
  <2> SUFFICES ASSUME NEW j \in Inst, ~Live(j)
               PROVE  /\ store'[j] # Nil /\ store'[j].status = "live" =>
                             store'[j].node \in shaken \/ Deleted(j)
                      /\ \A k \in DOMAIN watch' :
                            watch'[k].inst = j /\ watch'[k].obj.status = "live" =>
                               watch'[k].obj.node \in shaken \/ Deleted(j)
    BY <1>5, <1>9, <1>11 DEF StaleInv
  <2>1. \A k \in DOMAIN watch :
           watch[k].inst = j /\ watch[k].obj.status = "live" =>
              watch[k].obj.node \in shaken \/ Deleted(j)
    BY <1>1 DEF StaleInv
  <2>2. store'[j] # Nil /\ store'[j].status = "live" => store'[j].node \in shaken \/ Deleted(j)
    <3>1. CASE j = i
      BY <1>4, <1>7, <1>8, <2>1, <3>1 DEF After
    <3>2. CASE j # i
      BY <1>1, <1>7, <3>2 DEF StaleInv
    <3> QED BY <3>1, <3>2
  <2> QED BY <1>8, <2>1, <2>2
<1>13. PlanInv'
  <2>1. CASE rec.pc = "sync"
    <3>1. ASSUME NEW c \in DOMAIN rec.create PROVE Unknown(c)'
      <4>1. Unknown(c) /\ c \in Inst
        BY <1>1, <2>1, RecShape DEF PlanInv, TypeInv
      <4>2. c # i /\ \A k \in DOMAIN watch' : watch'[k].inst # c
        BY <1>4, <1>8, <4>1 DEF Unknown, NoEvent
      <4>3. \A x \in toObserve' : x.inst # c
        BY <1>4, <1>5, <4>1, <4>2, ObservedShape DEF Unknown
      <4> QED BY <1>5, <1>7, <4>1, <4>2, <4>3 DEF Unknown, NoEvent
    <3> QED BY <1>1, <1>5, <1>9, <2>1, <3>1, RecShape DEF PlanInv, TypeInv
  <2>2. CASE rec.pc # "sync"
    BY <1>1, <1>5, <2>2 DEF PlanInv
  <2> QED BY <2>1, <2>2
<1>14. KeptInv' /\ OnePerNode'
  BY <1>1, <1>5 DEF KeptInv, OnePerNode, Live, Exists
<1> QED BY <1>2, <1>10, <1>12, <1>13, <1>14 DEF DaemonSetInv

(* After a list the cache is up to date. *)
LEMMA Listed ==
  ASSUME WatchInv, watch' = <<>>, store' = insts, UNCHANGED <<insts, excused>>
  PROVE  WatchInv' /\ SeenInv' /\ StaleInv' /\ \A i : NoEvent(i)'
<1>1. DOMAIN watch' = {}
  OBVIOUS
<1>2. \A i : NoEvent(i)'
  BY <1>1 DEF NoEvent
<1>3. \A i \in Inst : UpToDate(i)'
  BY <1>2 DEF UpToDate
<1>4. \A i \in Inst : (insts[i] # Nil => Version(i, insts[i]))' /\ (store[i] # Nil => Version(i, store[i]))'
  BY DEF WatchInv, Version, Live, Exists
<1>5. WatchInv'
  BY <1>1, <1>3, <1>4 DEF WatchInv
<1>6. SeenInv' /\ StaleInv'
  BY <1>1 DEF SeenInv, StaleInv, Live, Exists
<1> QED BY <1>2, <1>5, <1>6

LEMMA RelistKeeps ==
  ASSUME DaemonSetInv, Relist, TypeInv'
  PROVE  DaemonSetInv'
<1>1. /\ TypeInv /\ WatchInv /\ ObserveInv /\ PlanInv /\ KeptInv /\ OnePerNode
      /\ insts \in [Inst -> MaybeObject]
  BY DEF DaemonSetInv, TypeInv, DSTypeOK, MaybeObject
<1> DEFINE changed == {i \in Inst : store[i] # insts[i]}
           event(i) == [inst |-> i, gone |-> insts[i] = Nil,
                        obj |-> IF insts[i] = Nil THEN store[i] ELSE insts[i]]
<1>2. /\ watch' = <<>> /\ store' = insts
      /\ toObserve' = toObserve \union UNION {Observed(store[i], event(i)) : i \in changed}
      /\ UNCHANGED <<insts, rec, exp, excused, shaken>>
  BY DEF Relist
<1>3. WatchInv' /\ SeenInv' /\ StaleInv' /\ \A i : NoEvent(i)'
  BY <1>1, <1>2, Listed
<1>4. \A i : /\ event(i).inst = i
             /\ event(i).gone => insts[i] = Nil
             /\ insts[i] # Nil => event(i).obj = insts[i]
  BY Zenon
<1> HIDE DEF event
<1>5. ASSUME NEW x \in toObserve', x \notin toObserve
      PROVE  /\ x.inst \in changed
             /\ x.kind = "delete" => insts[x.inst] = Nil \/ insts[x.inst].status = "deleting"
  <2>1. PICK i \in changed : x \in Observed(store[i], event(i))
    BY <1>2, <1>5
  <2> QED BY <1>4, <2>1, ObservedShape
<1>6. ASSUME NEW x \in toObserve, x.kind = "delete"
      PROVE  insts[x.inst] = Nil \/ insts[x.inst].status = "deleting"
  <2>1. x.inst \in Inst
    BY <1>1 DEF TypeInv, DSTypeOK
  <2>2. CASE store[x.inst] = Nil
    BY <1>1, <2>1, <2>2 DEF ObserveInv, WatchInv, UpToDate, NoEvent, LastOf
  <2>3. CASE store[x.inst] # Nil
    <3>1. store[x.inst].status = "deleting"
      BY <1>1, <1>6, <2>3 DEF ObserveInv
    <3>2. ~Live(x.inst)
      BY <1>1, <2>1, <2>3, <3>1 DEF WatchInv, Version
    <3> QED BY <1>1, <2>1, <3>2 DEF Live, Exists, MaybeObject, Object
  <2> QED BY <2>2, <2>3
<1>7. ObserveInv'
  <2>1. \A x \in toObserve' : NoEvent(x.inst)'
    BY <1>2 DEF NoEvent
  <2> QED BY <1>2, <1>5, <1>6, <2>1 DEF ObserveInv, NoEvent
<1>8. PlanInv'
  <2>1. CASE rec.pc = "sync"
    <3>1. ASSUME NEW c \in DOMAIN rec.create PROVE Unknown(c)'
      <4>1. Unknown(c)
        BY <1>1, <2>1 DEF PlanInv
      <4>2. c \notin changed
        BY <4>1 DEF Unknown
      <4>3. \A x \in toObserve' : x.inst # c
        BY <1>5, <4>1, <4>2 DEF Unknown
      <4> QED BY <1>2, <1>3, <4>1, <4>3 DEF Unknown, NoEvent
    <3>2. \A j \in Inst : Live(j)' <=> Live(j)
      BY <1>2 DEF Live, Exists
    <3> QED BY <1>1, <1>2, <2>1, <3>1, <3>2, RecShape DEF PlanInv, TypeInv
  <2>2. CASE rec.pc # "sync"
    BY <1>1, <1>2, <2>2 DEF PlanInv
  <2> QED BY <2>1, <2>2
<1>9. KeptInv' /\ OnePerNode'
  BY <1>1, <1>2 DEF KeptInv, OnePerNode, Live, Exists
<1> QED BY <1>3, <1>7, <1>8, <1>9 DEF DaemonSetInv

LEMMA RestartKeeps ==
  ASSUME DaemonSetInv, Restart, TypeInv'
  PROVE  DaemonSetInv'
<1>1. /\ watch' = <<>> /\ store' = insts /\ toObserve' = {} /\ rec' = Idle
      /\ UNCHANGED <<insts, excused>>
  BY DEF Restart
<1>2. WatchInv' /\ SeenInv' /\ StaleInv'
  BY <1>1, Listed DEF DaemonSetInv
<1>3. ObserveInv' /\ PlanInv' /\ KeptInv'
  BY <1>1 DEF ObserveInv, PlanInv, KeptInv, Idle
<1>4. OnePerNode'
  BY <1>1 DEF DaemonSetInv, OnePerNode, Live, Exists
<1> QED BY <1>2, <1>3, <1>4 DEF DaemonSetInv

(* What is observed is in the cache: nobody waits for it any more. *)
LEMMA ObserveKeeps ==
  ASSUME DaemonSetInv, NEW e \in toObserve, Observe(e), TypeInv'
  PROVE  DaemonSetInv'
<1>1. /\ TypeInv /\ WatchInv /\ ObserveInv /\ SeenInv /\ StaleInv /\ PlanInv /\ KeptInv
      /\ OnePerNode /\ exp \in Expecting
  BY DEF DaemonSetInv, TypeInv, DSTypeOK, Expecting
<1>2. /\ toObserve' = toObserve \ {e}
      /\ UNCHANGED <<insts, watch, store, rec, excused, shaken>>
  BY DEF Observe
<1>3. PICK i : i = e.inst /\ i \in Inst /\ e.kind \in {"create", "delete"}
  BY <1>1 DEF TypeInv, DSTypeOK
<1>4. /\ exp'.expired = exp.expired
      /\ exp'.create \subseteq exp.create /\ exp.create \ {i} \subseteq exp'.create
      /\ exp'.delete \subseteq exp.delete /\ exp.delete \ {i} \subseteq exp'.delete
      /\ e.kind = "create" => exp'.delete = exp.delete
      /\ e.kind = "delete" => exp'.create = exp.create
  BY <1>1, <1>3 DEF Observe, CreationObserved, DeletionObserved, Expecting
<1>5. store[i] = Nil => NoEvent(i) /\ insts[i] = Nil
  BY <1>1, <1>3 DEF ObserveInv, WatchInv, UpToDate, NoEvent, LastOf
<1>6. e.kind = "delete" =>
         ~Live(i) /\ (store[i] = Nil \/ store[i].status = "deleting")
  <2> SUFFICES ASSUME e.kind = "delete"
               PROVE  ~Live(i) /\ (store[i] = Nil \/ store[i].status = "deleting")
    OBVIOUS
  <2>1. store[i] = Nil \/ store[i].status = "deleting"
    BY <1>1, <1>3 DEF ObserveInv
  <2> QED BY <1>1, <1>3, <1>5, <2>1 DEF WatchInv, Version, Live, Exists
<1>7. \A j \in Inst : Live(j)' <=> Live(j)
  BY <1>2 DEF Live, Exists
<1>8. WatchInv'
  BY <1>1, <1>2 DEF WatchInv, UpToDate, LastOf, NoEvent, Version, Live, Exists
<1>9. ObserveInv'
  BY <1>1, <1>2 DEF ObserveInv, NoEvent
<1>10. SeenInv'
  <2>1. ~(Live(i) /\ store[i] = Nil)
    BY <1>5 DEF Live, Exists
  <2> QED BY <1>1, <1>2, <1>4, <1>7, <2>1 DEF SeenInv
<1>11. StaleInv'
  <2>1. \A j \in Inst \ {i} : Deleted(j) => Deleted(j)'
    BY <1>2, <1>4 DEF Deleted
  <2>2. e.kind = "create" => (Deleted(i) => Deleted(i)')
    BY <1>2, <1>4 DEF Deleted
  <2>3. e.kind = "delete" =>
           /\ store[i] # Nil => store[i].status # "live"
           /\ \A k \in DOMAIN watch : watch[k].inst = i => watch[k].obj.status # "live"
    BY <1>1, <1>5, <1>6 DEF WatchInv, Follows, NoEvent
  <2>4. \A j \in Inst \ {i} : ~Live(j)' =>
           /\ store'[j] # Nil /\ store'[j].status = "live" => store'[j].node \in shaken' \/ Deleted(j)'
           /\ \A k \in DOMAIN watch' : watch'[k].inst = j /\ watch'[k].obj.status = "live" =>
                 watch'[k].obj.node \in shaken' \/ Deleted(j)'
    BY <1>1, <1>2, <1>7, <2>1 DEF StaleInv
  <2>5. ~Live(i)' =>
           /\ store'[i] # Nil /\ store'[i].status = "live" => store'[i].node \in shaken' \/ Deleted(i)'
           /\ \A k \in DOMAIN watch' : watch'[k].inst = i /\ watch'[k].obj.status = "live" =>
                 watch'[k].obj.node \in shaken' \/ Deleted(i)'
    BY <1>1, <1>2, <1>3, <1>7, <2>2, <2>3 DEF StaleInv
  <2> QED BY <2>4, <2>5 DEF StaleInv
<1>12. PlanInv'
  <2>1. Satisfied(exp) => Satisfied(exp')
    BY <1>4 DEF Satisfied
  <2>2. CASE rec.pc = "sync"
    <3>1. ASSUME NEW c \in DOMAIN rec.create PROVE Unknown(c)' /\ c \in exp'.create
      <4>1. Unknown(c) /\ c \in exp.create
        BY <1>1, <2>2 DEF PlanInv
      <4>2. c # i
        BY <1>3, <4>1 DEF Unknown
      <4> QED BY <1>2, <1>4, <4>1, <4>2 DEF Unknown, NoEvent
    <3>2. \A d \in rec.delete : Live(d) => d \in exp'.delete
      BY <1>1, <1>3, <1>4, <1>6, <2>2 DEF PlanInv
    <3>3. rec.delete \subseteq Inst
      BY <1>1, <2>2, RecShape DEF TypeInv
    <3> QED BY <1>1, <1>2, <1>4, <1>7, <2>2, <3>1, <3>2, <3>3 DEF PlanInv
  <2>3. CASE rec.pc # "sync"
    BY <1>1, <1>2, <2>1, <2>3 DEF PlanInv, Satisfied
  <2> QED BY <2>2, <2>3
<1>13. KeptInv' /\ OnePerNode'
  BY <1>1, <1>2 DEF KeptInv, OnePerNode, Live, Exists
<1> QED BY <1>8, <1>9, <1>10, <1>11, <1>12, <1>13 DEF DaemonSetInv
-----------------------------------------------------------------------------
(***************************************************************************)
(* The theorems                                                            *)
(***************************************************************************)

LEMMA InstsTypes ==
  ASSUME DaemonSetInv, [Next]_vars
  PROVE  InstsType'
<1>1. TypeInv /\ WatchInv /\ DSTypeOK /\ Owned /\ rec \in RecType /\ InstsType
  BY OwnedInv, TypeParts DEF DaemonSetInv, TypeInv
<1>2. Stored => InstsType'
  BY DEF Stored, InstsType
<1>3. CASE \/ User \/ Others \/ LoadBalancerController \/ DeliverDaemonSet \/ Resync
           \/ (\E n \in Node : DeliverNode(n)) \/ UNCHANGED vars
  BY <1>1, <1>2, <1>3, ForeignSteps DEF Foreign, Recorded
<1>4. CASE Manage
  BY <1>1, <1>2, <1>4, ManageRecorded DEF Recorded
<1>5. ASSUME NEW i \in Inst, CreateOK(i) \/ CreateFails(i)
      PROVE  InstsType'
  <2>1. CASE UNCHANGED <<insts, watch>>
    BY <1>1, <1>2, <2>1, UnchangedStored
  <2>2. CASE Put(i, NewInstance(rec.create[i]))
    <3>1. rec.pc = "sync" /\ i \in DOMAIN rec.create
      BY <1>5 DEF CreateOK, CreateFails
    <3>2. rec.spec \in Specs /\ rec.create[i] \in Node
      BY <1>1, <3>1, RecShape
    <3>3. NewInstance(rec.create[i]) \in MaybeObject
      BY <3>2 DEF NewInstance, Object, MaybeObject
    <3> QED BY <1>1, <1>2, <2>2, <3>3, PutStored
  <2> QED BY <1>5, <2>1, <2>2 DEF CreateOK, CreateFails
<1>6. ASSUME NEW i \in Inst, DeleteOK(i) \/ DeleteFails(i)
      PROVE  InstsType'
  <2>1. CASE UNCHANGED <<insts, watch>>
    BY <1>1, <1>2, <2>1, UnchangedStored
  <2>2. CASE Delete(i)
    BY <1>1, <1>2, <2>2, DeleteStored
  <2> QED BY <1>6, <2>1, <2>2 DEF DeleteOK, DeleteFails
<1>7. CASE DeliverInstance
  <2>1. Tail(watch) \in Seq(Event)
    BY <1>1, <1>7, TailShrinks DEF DeliverInstance, InstsType
  <2> QED BY <1>1, <1>7, <2>1 DEF DeliverInstance, InstsType
<1>8. CASE Relist \/ Restart
  <2>1. watch' = <<>> /\ insts' = insts
    BY <1>8 DEF Relist, Restart
  <2> QED BY <1>1, <2>1 DEF InstsType
<1>9. CASE Expire \/ Start \/ ManageFails \/ Finish \/ \E e \in toObserve : Observe(e)
  BY <1>1, <1>9 DEF Expire, Start, ManageFails, Finish, Observe, InstsType
<1> QED BY <1>3, <1>4, <1>5, <1>6, <1>7, <1>8, <1>9 DEF Next, Informers, Work, Faults

LEMMA InvStep ==
  ASSUME DaemonSetInv, [Next]_vars
  PROVE  DaemonSetInv'
<1>1. TypeInv /\ Owned
  BY OwnedInv DEF DaemonSetInv
<1>2. TypeInv'
  BY <1>1, ServerTypes, CacheTypes, ControlTypes, InstsTypes, TypePartsNext
<1>3. CASE \/ User \/ Others \/ LoadBalancerController \/ DeliverDaemonSet \/ Resync
           \/ (\E n \in Node : DeliverNode(n)) \/ UNCHANGED vars
  BY <1>1, <1>2, <1>3, ForeignSteps, ForeignKeeps
<1>4. CASE DeliverInstance
  BY <1>2, <1>4, DeliverKeeps
<1>5. CASE \E e \in toObserve : Observe(e)
  BY <1>2, <1>5, ObserveKeeps
<1>6. CASE Expire
  BY <1>2, <1>6, ExpireKeeps
<1>7. CASE Start \/ ManageFails \/ Finish
  BY <1>2, <1>7, BeginEndKeeps
<1>8. CASE Manage
  BY <1>2, <1>8, ManageKeeps
<1>9. CASE \E i \in Inst : CreateOK(i) \/ CreateFails(i)
  BY <1>2, <1>9, CreateKeeps
<1>10. CASE \E i \in Inst : DeleteOK(i) \/ DeleteFails(i)
  BY <1>2, <1>10, DeleteKeeps
<1>11. CASE Relist
  BY <1>2, <1>11, RelistKeeps
<1>12. CASE Restart
  BY <1>2, <1>12, RestartKeeps
<1> QED BY <1>3, <1>4, <1>5, <1>6, <1>7, <1>8, <1>9, <1>10, <1>11, <1>12
        DEF Next, Informers, Work, Faults

LEMMA InvInit ==
  ASSUME Init
  PROVE  DaemonSetInv
<1>1. /\ insts = [i \in Inst |-> Nil] /\ store = insts /\ watch = <<>> /\ toObserve = {}
      /\ rec = Idle /\ excused = {} /\ shaken = {} /\ exp = NoExpectations
  BY DEF Init
<1>2. ServerType
  BY InitialAssumption, DaemonSetBounds DEF Init, ServerType, Labels
<1>3. CacheType
  BY InitialAssumption DEF Init, CacheType, Labels, MaybeObject
<1>4. ControlType
  <2>1. NoExpectations \in Expecting
    BY DEF NoExpectations, Expecting
  <2>2. queue \in BOOLEAN
    BY DEF Init
  <2> QED BY <1>1, <2>1, <2>2 DEF ControlType, RecType
<1>5. InstsType
  BY <1>1 DEF InstsType, MaybeObject
<1>6. TypeInv
  BY <1>2, <1>3, <1>4, <1>5, TypeParts
<1>7. DOMAIN watch = {} /\ \A i \in Inst : insts[i] = Nil /\ store[i] = Nil /\ ~Live(i)
  BY <1>1 DEF Live, Exists
<1>8. WatchInv /\ ObserveInv /\ SeenInv /\ StaleInv /\ OnePerNode
  BY <1>1, <1>7 DEF WatchInv, UpToDate, NoEvent, ObserveInv, SeenInv, StaleInv, OnePerNode
<1>9. rec.pc = "idle"
  BY <1>1 DEF Idle
<1>10. PlanInv /\ KeptInv
  BY <1>9 DEF PlanInv, KeptInv
<1> QED BY <1>6, <1>8, <1>10 DEF DaemonSetInv

(* However the events of the informers, the time-outs and the restarts fall,
   the controller's caches, its expectations and the plan of syncNodes
   (internal/controllers/daemonset_controller.go) stay consistent with the
   instances: the informer has a past state of each of them and gets the rest
   in order, what the cache does not show yet is expected, and what is planned
   is for nodes without an instance. *)
THEOREM DaemonSetInvariant == Spec => []DaemonSetInv
<1>1. Init => DaemonSetInv
  BY InvInit
<1>2. DaemonSetInv /\ [Next]_vars => DaemonSetInv'
  BY InvStep
<1> QED BY <1>1, <1>2, PTL DEF Spec

(* Every variable of the daemon set model keeps its type. *)
THEOREM DSTypeCorrect == Spec => []DSTypeOK
<1>1. DaemonSetInv => DSTypeOK
  BY DEF DaemonSetInv, TypeInv
<1> QED BY <1>1, DaemonSetInvariant, PTL

(* Once the expectations of utils/expectations are satisfied, every instance
   the controller created and that is still live is in the cache its next
   reconcile counts from. *)
THEOREM CreationsAreSeen == Spec => []SatisfiedMeansSeen
<1>1. DaemonSetInv => SatisfiedMeansSeen
  BY DEF DaemonSetInv, SeenInv, SatisfiedMeansSeen, Satisfied
<1> QED BY <1>1, DaemonSetInvariant, PTL

(* syncNodes never gives a node a second live instance, for any number of
   nodes and any lag, but for the instances that are excused. *)
THEOREM OneInstancePerNode == Spec => []OnePerNode
<1>1. DaemonSetInv => OnePerNode
  BY DEF DaemonSetInv
<1> QED BY <1>1, DaemonSetInvariant, PTL

(* A step that ends a deletion of the plan, while the reconcile goes on, is
   that deletion. *)
LEMMA PlanDeletes ==
  ASSUME TypeInv, [Next]_vars, rec.pc = "sync", rec'.pc = "sync",
         NEW i \in Inst, i \in rec.delete \ rec'.delete
  PROVE  DeleteOK(i) \/ DeleteFails(i)
<1>1. rec' # rec /\ rec' # Idle
  BY DEF Idle
<1>2. ~(UNCHANGED vars \/ User \/ Others \/ LoadBalancerController \/ Informers \/ Expire)
  BY <1>1
     DEF vars, User, Others, LoadBalancerController, UpdateLoadBalancer, DeleteLoadBalancer,
         ChangeNode, DeleteInstance, RelabelInstance, CreateInstance, BindInstance,
         FinalizeInstance, CollectInstance, CollectDaemonSet, ApplyDaemonSet, DeleteRouting,
         Informers, DeliverInstance, DeliverDaemonSet, Resync, Observe, DeliverNode, Expire
<1>3. ~(Start \/ Manage \/ Finish \/ ManageFails \/ Relist \/ Restart)
  BY <1>1 DEF Start, Manage, Finish, ManageFails, Relist, Restart, Idle
<1>4. PICK j \in Inst : CreateOK(j) \/ CreateFails(j) \/ DeleteOK(j) \/ DeleteFails(j)
  BY <1>2, <1>3 DEF Next, Work, Faults
<1>5. DOMAIN rec = {"pc", "spec", "nodes", "create", "delete", "err"}
  <2>1. rec = [pc |-> "sync", spec |-> rec.spec, nodes |-> rec.nodes,
               create |-> rec.create, delete |-> rec.delete, err |-> rec.err]
    BY RecShape DEF TypeInv
  <2> QED BY <2>1
<1>6. CASE CreateOK(j) \/ CreateFails(j)
  <2>1. \E e \in BOOLEAN : Created(j, e)
    BY <1>6 DEF CreateOK, CreateFails
  <2>2. rec'.delete = rec.delete
    BY <1>5, <2>1 DEF Created
  <2> QED BY <2>2
<1>7. CASE DeleteOK(j) \/ DeleteFails(j)
  <2>1. \/ rec' = [rec EXCEPT !.delete = @ \ {j}]
        \/ \E e \in BOOLEAN : rec' = [rec EXCEPT !.delete = @ \ {j}, !.err = e]
    BY <1>7, Zenon DEF DeleteOK, DeleteFails
  <2>2. rec'.delete = rec.delete \ {j}
    BY <1>5, <2>1
  <2>3. i = j
    BY <2>2
  <2> QED BY <1>7, <2>3
<1> QED BY <1>4, <1>6, <1>7

(* When syncNodes deletes one of several instances of a node that should run
   one, instancesShouldBeOnNode has left another out of the plan, and that one
   is still live unless somebody else removed an instance of the node. *)
THEOREM DedupeLeavesOne == Spec => DedupeKeepsOne
<1> DEFINE Leaves(i) ==
             /\ rec.pc = "sync" /\ rec'.pc = "sync" /\ i \in rec.delete \ rec'.delete
             /\ Live(i) /\ insts'[i] # insts[i]
             /\ insts[i].node \notin shaken'
             /\ ShouldRun(rec.spec, rec.nodes[insts[i].node])
             => \E j \in Inst : Live(j)' /\ insts'[j].node = insts[i].node
<1>1. ASSUME DaemonSetInv, [Next]_vars, NEW i \in Inst,
             rec.pc = "sync", rec'.pc = "sync", i \in rec.delete \ rec'.delete,
             Live(i), insts'[i] # insts[i], insts[i].node \notin shaken',
             ShouldRun(rec.spec, rec.nodes[insts[i].node])
      PROVE  \E j \in Inst : Live(j)' /\ insts'[j].node = insts[i].node
  <2>1. /\ TypeInv /\ KeptInv /\ DSTypeOK /\ insts[i].node \in Node /\ Exists(i)
    BY <1>1 DEF DaemonSetInv, TypeInv, DSTypeOK, Live, Exists, Object
  <2>2. DeleteOK(i) \/ DeleteFails(i)
    BY <1>1, <2>1, PlanDeletes
  <2>3. DeleteOK(i)
    BY <1>1, <2>1, <2>2 DEF DeleteFails
  <2>4. /\ insts[i].node \notin shaken
        /\ \A j \in Inst \ {i} : insts'[j] = insts[j]
    <3>1. Delete(i) /\ shaken' = shaken
      BY <2>3 DEF DeleteOK
    <3>2. insts \in [Inst -> MaybeObject]
      BY <2>1 DEF DSTypeOK, MaybeObject
    <3>3. \/ insts' = insts
          \/ \E o : insts' = [insts EXCEPT ![i] = o]
      BY <2>1, <3>1, DeleteStored
    <3> QED BY <1>1, <3>1, <3>2, <3>3
  <2>5. PICK j \in Inst \ rec.delete : Live(j) /\ insts[j].node = insts[i].node
    BY <1>1, <2>1, <2>4 DEF KeptInv
  <2>6. insts'[j] = insts[j] /\ j \in Inst
    BY <1>1, <2>4, <2>5
  <2> QED BY <2>5, <2>6 DEF Live, Exists
<1>2. DaemonSetInv /\ [Next]_vars => [\A i \in Inst : Leaves(i)]_vars
  BY <1>1
<1>3. Spec => [][\A i \in Inst : Leaves(i)]_vars
  <2> HIDE DEF Leaves
  <2> QED BY <1>2, DaemonSetInvariant, PTL DEF Spec
<1> QED BY <1>3 DEF DedupeKeepsOne
=============================================================================
