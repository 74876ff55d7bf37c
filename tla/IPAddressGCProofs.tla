------------------------- MODULE IPAddressGCProofs -------------------------
(***************************************************************************)
(* What the garbage collector can and cannot do to an IPAddress, for any   *)
(* number of requests, addresses, faults and any size of the absence       *)
(* cache.  The facts about a step of the API server come from the proofs   *)
(* of the allocator; here they are carried through the collector's steps,  *)
(* which delete an IPAddress from outside the allocator.                   *)
(***************************************************************************)
EXTENDS IPAddressGC, IPAllocationProofs, FiniteSetTheorems, SequenceTheorems

(* What the worker remembers between its steps: the claimer it read, and
   that a condemned address is one the collector has decided to delete. *)
WorkerInv ==
    /\ IsFiniteSet(absent)
    /\ gcPC # "idle" => gcClaim \in UID
    /\ gcPC = "delete" => gcAddr \in collected

GCInv == GCTypeOK /\ WorkerInv /\ StoreAgrees /\ UntouchedHeld
-----------------------------------------------------------------------------
(* The absence cache stays within its capacity: a full one gives up an
   entry for the UID it takes in. *)
LEMMA AddAbsentBound ==
  ASSUME NEW u \in UID, absent \subseteq UID, IsFiniteSet(absent),
         Cardinality(absent) <= CacheSize, AddAbsent(u)
  PROVE  /\ absent' \subseteq absent \union {u}
         /\ IsFiniteSet(absent')
         /\ Cardinality(absent') <= CacheSize
<1>1. CASE Cardinality(absent \union {u}) <= CacheSize /\ absent' = absent \union {u}
  BY <1>1, FS_AddElement
<1>2. CASE /\ Cardinality(absent \union {u}) > CacheSize
           /\ \E v \in absent : absent' = (absent \ {v}) \union {u}
  <2>1. PICK v \in absent : absent' = (absent \ {v}) \union {u}
    BY <1>2
  <2>2. u \notin absent
    <3>1. SUFFICES ASSUME u \in absent PROVE FALSE
      OBVIOUS
    <3>2. absent \union {u} = absent
      BY <3>1
    <3>3. Cardinality(absent) \in Nat
      BY FS_CardinalityType
    <3>4. QED BY <1>2, <3>2, <3>3, GCAssumption
  <2>3. IsFiniteSet(absent \ {v}) /\ Cardinality(absent \ {v}) = Cardinality(absent) - 1
    BY FS_RemoveElement
  <2>4. IsFiniteSet(absent') /\ Cardinality(absent') = Cardinality(absent \ {v}) + 1
    BY <2>1, <2>2, <2>3, FS_AddElement
  <2>5. Cardinality(absent) \in Nat
    BY FS_CardinalityType
  <2>6. QED BY <2>1, <2>3, <2>4, <2>5
<1>3. QED BY <1>1, <1>2 DEF AddAbsent

(* Notifying the watchers keeps the watch queues queues of claimers. *)
LEMMA NotifyType ==
  ASSUME ipAddresses' \in [Addr -> UID \union {NoUID}],
         watch \in [Addr -> Seq(UID \union {NoUID})], NotifyAddress
  PROVE  watch' \in [Addr -> Seq(UID \union {NoUID})]
<1>1. \A a \in Addr : Append(watch[a], ipAddresses'[a]) \in Seq(UID \union {NoUID})
  BY AppendProperties
<1>2. QED BY <1>1 DEF NotifyAddress

(* No event of an IP enqueues an address: no IPAddress is in a namespace. *)
LEMMA EventsQuiet == Events => UNCHANGED gc
<1> SUFFICES ASSUME Events PROVE UNCHANGED gc
  OBVIOUS
<1>1. \A u \in UID : enqueueByClaimer(u) = {}
  BY DEF enqueueByClaimer, ListIPAddresses, ClusterScope, IPNamespace
<1>2. queue' = queue
  BY <1>1 DEF Events
<1>3. QED BY <1>2 DEF Events, gc

(* The variables of the API server alone decide TypeOK. *)
LEMMA UnchangedType == TypeOK /\ UNCHANGED vars => TypeOK'
  BY DEF TypeOK, vars

(* Every step keeps the types and what the worker remembers. *)
LEMMA GCTypeStep ==
  ASSUME GCTypeOK, WorkerInv, [GCNext]_gcVars
  PROVE  GCTypeOK' /\ WorkerInv'
<1>0. TypeOK /\ First \in Addr
  BY PrefixInAddr DEF GCTypeOK
<1>1. CASE APIServerStep
  <2>1. TypeOK'
    BY <1>0, <1>1, NextType DEF APIServerStep
  <2>2. watch' \in [Addr -> Seq(UID \union {NoUID})]
    BY <1>1, <2>1, NotifyType DEF APIServerStep, Events, GCTypeOK, TypeOK
  <2>3. UNCHANGED gc
    BY <1>1, EventsQuiet DEF APIServerStep
  <2>4. QED BY <2>1, <2>2, <2>3 DEF GCTypeOK, WorkerInv, gc
<1>2. ASSUME NEW a \in Addr, DeliverAddress(a) PROVE GCTypeOK' /\ WorkerInv'
  <2>1. /\ watch[a] \in Seq(UID \union {NoUID}) /\ watch[a] # <<>>
        /\ Head(watch[a]) \in UID \union {NoUID}
        /\ Tail(watch[a]) \in Seq(UID \union {NoUID})
    BY <1>2, HeadTailProperties DEF DeliverAddress, GCTypeOK
  <2>2. /\ watch' \in [Addr -> Seq(UID \union {NoUID})]
        /\ cache' \in [Addr -> UID \union {NoUID}]
        /\ queue' \subseteq Addr
    BY <1>2, <2>1 DEF DeliverAddress, GCTypeOK
  <2>3. TypeOK'
    BY <1>0, <1>2, UnchangedType DEF DeliverAddress
  <2>4. QED BY <1>2, <2>2, <2>3 DEF DeliverAddress, GCTypeOK, WorkerInv
<1>3. CASE GCResync
  <2>1. TypeOK'
    BY <1>0, <1>3, UnchangedType DEF GCResync
  <2>2. QED BY <1>3, <2>1 DEF GCResync, GCTypeOK, WorkerInv
<1>4. ASSUME NEW a \in Addr, GCGet(a) PROVE GCTypeOK' /\ WorkerInv'
  <2>1. TypeOK'
    BY <1>0, <1>4, UnchangedType DEF GCGet
  <2>2. QED BY <1>4, <2>1 DEF GCGet, GCTypeOK, WorkerInv
<1>5. CASE GCCheck
  <2>1. TypeOK' /\ gcClaim \in UID
    BY <1>0, <1>5, UnchangedType DEF GCCheck, WorkerInv
  <2>2. /\ absent' \subseteq UID /\ IsFiniteSet(absent')
        /\ Cardinality(absent') <= CacheSize
    <3>1. CASE UNCHANGED absent
      BY <3>1 DEF GCTypeOK, WorkerInv
    <3>2. CASE AddAbsent(gcClaim)
      BY <2>1, <3>2, AddAbsentBound DEF GCTypeOK, WorkerInv
    <3>3. QED BY <1>5, <3>1, <3>2 DEF GCCheck
  <2>3. GCCondemn \/ (GCIdle /\ UNCHANGED collected)
    BY <1>5 DEF GCCheck
  <2>4. /\ gcPC' \in {"idle", "check", "delete"}
        /\ gcAddr' \in Addr
        /\ gcClaim' \in UID \union {NoUID}
        /\ collected' \subseteq Addr
        /\ gcPC' # "idle" => gcClaim' \in UID
        /\ gcPC' = "delete" => gcAddr' \in collected'
    BY <1>0, <2>1, <2>3 DEF GCCondemn, GCIdle, GCTypeOK
  <2>5. UNCHANGED <<watch, cache, queue, faults>>
    BY <1>5 DEF GCCheck
  <2>6. QED BY <2>1, <2>2, <2>4, <2>5 DEF GCTypeOK, WorkerInv
<1>6. CASE GCDelete
  <2>1. ipAddresses' \in [Addr -> UID \union {NoUID}]
    BY <1>6 DEF GCDelete, GCTypeOK, TypeOK
  <2>2. TypeOK'
    BY <1>0, <1>6, <2>1 DEF GCDelete, TypeOK, request
  <2>3. watch' \in [Addr -> Seq(UID \union {NoUID})]
    BY <1>6, <2>1, NotifyType DEF GCDelete, GCTypeOK
  <2>4. QED BY <1>0, <1>6, <2>2, <2>3 DEF GCDelete, GCIdle, GCTypeOK, WorkerInv
<1>7. CASE GCError
  <2>1. TypeOK'
    BY <1>0, <1>7, UnchangedType DEF GCError
  <2>2. faults' \in 0 .. MaxFaults
    BY <1>7, GCAssumption DEF GCError, GCTypeOK
  <2>3. QED BY <1>0, <1>7, <2>1, <2>2 DEF GCError, GCIdle, GCTypeOK, WorkerInv
<1>8. CASE GCRestart
  <2>1. TypeOK' /\ cache' \in [Addr -> UID \union {NoUID}]
    BY <1>0, <1>8, UnchangedType DEF GCRestart, TypeOK
  <2>2. faults' \in 0 .. MaxFaults
    BY <1>8, GCAssumption DEF GCRestart, GCTypeOK
  <2>3. watch' \in [Addr -> Seq(UID \union {NoUID})]
    BY <1>8, EmptySeq DEF GCRestart
  <2>4. absent' = {} /\ IsFiniteSet(absent') /\ Cardinality(absent') <= CacheSize
    BY <1>8, FS_EmptySet, GCAssumption DEF GCRestart
  <2>5. QED BY <1>0, <1>8, <2>1, <2>2, <2>3, <2>4 DEF GCRestart, GCIdle, GCTypeOK, WorkerInv
<1>9. CASE UNCHANGED gcVars
  <2>1. TypeOK'
    BY <1>0, <1>9, UnchangedType DEF gcVars
  <2>2. QED BY <1>9, <2>1 DEF gcVars, gc, GCTypeOK, WorkerInv
<1>10. QED
  BY <1>1, <1>2, <1>3, <1>4, <1>5, <1>6, <1>7, <1>8, <1>9 DEF GCNext, Deliver, GCWork

(* Besides the API server's own steps only GCDelete touches what it keeps,
   and of that only the IPAddress objects. *)
LEMMA GCStepKinds ==
  ASSUME [GCNext]_gcVars
  PROVE  \/ APIServerStep
         \/ GCDelete
         \/ UNCHANGED vars /\ collected \subseteq collected'
  BY DEF GCNext, Deliver, GCWork, DeliverAddress, GCResync, GCGet, GCCheck,
         GCCondemn, GCIdle, GCError, GCRestart, gcVars, gc

(* The collector's steps leave the store and the requests alone. *)
LEMMA GCStoreStep ==
  ASSUME TypeOK, StoreAgrees, [GCNext]_gcVars
  PROVE  StoreAgrees'
<1>1. CASE APIServerStep
  BY <1>1, StoreStep DEF APIServerStep
<1>2. CASE GCDelete
  BY <1>2 DEF GCDelete, StoreAgrees, request
<1>3. CASE UNCHANGED vars
  BY <1>3 DEF vars, StoreAgrees
<1>4. QED BY <1>1, <1>2, <1>3, GCStepKinds

(* UntouchedHeld survives the allocator's steps: of two requests that hold
   the same address, both would be its claimer unless it was condemned, so a
   release takes away nobody else's IPAddress. *)
LEMMA UntouchedServerStep ==
  ASSUME TypeOK, UntouchedHeld, Next, collected' = collected
  PROVE  UntouchedHeld'
<1>1. PICK u \in UID : Begin(u) \/ Serve(u) \/ DeleteIP(u) \/ Crash(u)
  BY DEF Next
<1> SUFFICES ASSUME NEW v \in UID, pc'[v] \in Holding, ip'[v] \notin collected
             PROVE  ipAddresses'[ip'[v]] = v
  BY DEF UntouchedHeld
<1>2. CASE v = u
  <2>1. ip'[u] = ip[u]
    BY <1>1, <1>2, HoldingChange
  <2>2. CASE pc[u] \in {"allocated", "stored"} /\ ipAddresses' = ipAddresses
    BY <1>2, <2>1, <2>2 DEF UntouchedHeld, Holding
  <2>3. QED BY <1>1, <1>2, <2>1, <2>2, HoldingChange
<1>3. CASE v # u
  <2>1. pc'[v] = pc[v] /\ ip'[v] = ip[v]
    BY <1>1, <1>3, OthersUnchanged DEF Untouched
  <2>2. ip[v] \in Addr /\ ipAddresses[ip[v]] = v /\ v # NoUID
    BY <2>1, NoUIDAssumption DEF UntouchedHeld, TypeOK
  <2>3. ~(ip[v] = ip[u] /\ pc[u] \in {"rollback", "deleted"})
    BY <1>3, <2>1, <2>2 DEF UntouchedHeld, Holding
  <2>4. QED BY <1>1, <2>1, <2>2, <2>3, AddressChange
<1>4. QED BY <1>2, <1>3

(* UntouchedHeld is inductive together with what the worker remembers. *)
LEMMA UntouchedStep ==
  ASSUME GCTypeOK, WorkerInv, UntouchedHeld, [GCNext]_gcVars
  PROVE  UntouchedHeld'
<1>1. CASE APIServerStep
  BY <1>1, UntouchedServerStep, EventsQuiet DEF APIServerStep, gc, GCTypeOK
<1>2. CASE GCDelete
  <2>1. gcAddr \in collected /\ collected' = collected /\ pc' = pc /\ ip' = ip
    BY <1>2 DEF GCDelete, WorkerInv, request
  <2>2. \A a \in Addr : a # gcAddr => ipAddresses'[a] = ipAddresses[a]
    BY <1>2 DEF GCDelete, GCTypeOK, TypeOK
  <2>3. QED BY <2>1, <2>2 DEF UntouchedHeld, GCTypeOK, TypeOK
<1>3. CASE UNCHANGED vars /\ collected \subseteq collected'
  BY <1>3 DEF vars, UntouchedHeld
<1>4. QED BY <1>1, <1>2, <1>3, GCStepKinds

(* The invariant of allocator and collector together. *)
THEOREM GCInvariant == GCSpec => []GCInv
<1>1. GCInit => GCInv
  <2> SUFFICES ASSUME GCInit PROVE GCInv
    OBVIOUS
  <2>1. TypeOK /\ First \in Addr /\ StoreAgrees /\ UntouchedHeld
    BY PrefixInAddr, NoUIDAssumption
       DEF GCInit, Init, TypeOK, PC, StoreAgrees, UntouchedHeld, Holding
  <2>2. watch \in [Addr -> Seq(UID \union {NoUID})]
    BY EmptySeq DEF GCInit
  <2>3. IsFiniteSet(absent) /\ Cardinality(absent) <= CacheSize /\ faults \in 0 .. MaxFaults
    BY FS_EmptySet, GCAssumption DEF GCInit
  <2>4. QED BY <2>1, <2>2, <2>3 DEF GCInit, GCInv, GCTypeOK, WorkerInv
<1>2. GCInv /\ [GCNext]_gcVars => GCInv'
  BY GCTypeStep, GCStoreStep, UntouchedStep DEF GCInv, GCTypeOK
<1>3. QED BY <1>1, <1>2, PTL DEF GCSpec

(* Type correctness of the collector beside the allocator; the absence cache
   never holds more than its capacity. *)
THEOREM GCTypeCorrect == GCSpec => []GCTypeOK
<1>1. GCInv => GCTypeOK
  BY DEF GCInv
<1>2. QED BY <1>1, GCInvariant, PTL

(* An address the collector never decided to delete is held by its IP. *)
THEOREM UntouchedAreHeld == GCSpec => []UntouchedHeld
<1>1. GCInv => UntouchedHeld
  BY DEF GCInv
<1>2. QED BY <1>1, GCInvariant, PTL
-----------------------------------------------------------------------------
(* A request of somebody else does not unsettle an IP. *)
LEMMA SettledServerStep ==
  ASSUME GCTypeOK, APIServerStep, NEW u \in UID, Settled(u), pc'[u] = "stored"
  PROVE  Settled(u)'
<1>0. TypeOK
  BY DEF GCTypeOK
<1>1. PICK w \in UID : Begin(w) \/ Serve(w) \/ DeleteIP(w) \/ Crash(w)
  BY DEF APIServerStep, Next
<1>2. w # u
  BY <1>0, <1>1, StoreChange DEF Settled
<1>3. pc'[u] = pc[u] /\ ip'[u] = ip[u] /\ ip[u] \in Addr
  BY <1>0, <1>1, <1>2, OthersUnchanged DEF Untouched, TypeOK
<1>4. ~(ip[u] = ip[w] /\ pc[w] \in {"rollback", "deleted"}) /\ u # NoUID
  BY <1>2, NoUIDAssumption DEF Settled, Holding
<1>5. ipAddresses'[ip[u]] = ipAddresses[ip[u]]
  BY <1>0, <1>1, <1>3, <1>4, AddressChange DEF Settled
<1>6. watch'[ip[u]] = watch[ip[u]]
  BY <1>3, <1>5 DEF APIServerStep, Events, NotifyAddress
<1>7. UNCHANGED <<cache, absent, gcPC, gcAddr, gcClaim>>
  BY EventsQuiet DEF APIServerStep, gc
<1>8. ASSUME NEW v \in UID, pc'[v] \in Holding, ip'[v] = ip[u]
      PROVE  v = u
  <2>1. CASE v # w
    BY <1>0, <1>1, <1>8, <2>1, OthersUnchanged DEF Untouched, Settled
  <2>2. CASE v = w
    <3>1. ip'[w] = ip[w]
      BY <1>0, <1>1, <1>8, <2>2, HoldingChange
    <3>2. CASE ipAddresses'[ip[w]] = w
      BY <1>5, <1>8, <2>2, <3>1, <3>2 DEF Settled
    <3>3. CASE pc[w] \in {"allocated", "stored"}
      BY <1>8, <2>2, <3>1, <3>3 DEF Settled, Holding
    <3>4. QED BY <1>0, <1>1, <1>8, <2>2, <3>2, <3>3, HoldingChange
  <2>3. QED BY <2>1, <2>2
<1>9. QED BY <1>3, <1>5, <1>6, <1>7, <1>8 DEF Settled

(* The worker does not condemn the address of a settled IP: if it looks at
   it, it asks for that very IP, and the live read finds it. *)
LEMMA SettledCheckStep ==
  ASSUME GCTypeOK, WorkerInv, StoreAgrees, GCCheck, NEW u \in UID, Settled(u)
  PROVE  Settled(u)'
<1>1. UNCHANGED vars /\ UNCHANGED <<watch, cache>>
  BY DEF GCCheck
<1>2. name[u] \in Name /\ ips[name[u]] = u
  BY DEF StoreAgrees, Settled, GCTypeOK, TypeOK
<1>3. gcClaim = u => GCIdle /\ UNCHANGED absent
  BY <1>2 DEF GCCheck, Settled
<1>4. u \notin absent'
  <2>1. CASE gcClaim = u
    BY <1>3, <2>1 DEF Settled
  <2>2. CASE gcClaim # u
    <3>1. absent' = absent \/ AddAbsent(gcClaim)
      BY DEF GCCheck
    <3>2. QED BY <2>2, <3>1 DEF AddAbsent, Settled
  <2>3. QED BY <2>1, <2>2
<1>5. /\ gcPC' = "delete" => gcAddr' # ip[u]
      /\ gcPC' # "check"
  BY <1>3 DEF GCCheck, GCIdle, GCCondemn, Settled
<1>6. QED BY <1>1, <1>4, <1>5 DEF Settled, vars

(* No step but the deletion of the IP itself unsettles it. *)
LEMMA SettledStep ==
  ASSUME GCInv, [GCNext]_gcVars, NEW u \in UID, Settled(u), pc'[u] = "stored"
  PROVE  Settled(u)'
<1>0. GCTypeOK /\ WorkerInv /\ StoreAgrees /\ ip[u] \in Addr
  BY DEF GCInv, GCTypeOK, TypeOK
<1>1. CASE APIServerStep
  BY <1>0, <1>1, SettledServerStep
<1>2. ASSUME NEW a \in Addr, DeliverAddress(a) PROVE Settled(u)'
  <2>1. a # ip[u] /\ UNCHANGED vars /\ UNCHANGED <<absent, gcPC, gcAddr, gcClaim>>
    BY <1>2 DEF DeliverAddress, Settled
  <2>2. watch'[ip[u]] = watch[ip[u]] /\ cache'[ip[u]] = cache[ip[u]]
    BY <1>0, <1>2, <2>1 DEF DeliverAddress, GCTypeOK
  <2>3. QED BY <2>1, <2>2 DEF Settled, vars
<1>3. CASE GCResync
  BY <1>3 DEF GCResync, Settled, vars
<1>4. ASSUME NEW a \in Addr, GCGet(a) PROVE Settled(u)'
  BY <1>4 DEF GCGet, Settled, vars
<1>5. CASE GCCheck
  BY <1>0, <1>5, SettledCheckStep
<1>6. CASE GCDelete
  <2>1. gcAddr # ip[u] /\ pc' = pc /\ ip' = ip /\ UNCHANGED <<cache, absent>> /\ gcPC' = "idle"
    BY <1>6 DEF GCDelete, GCIdle, Settled, request
  <2>2. ipAddresses'[ip[u]] = ipAddresses[ip[u]]
    BY <1>0, <1>6, <2>1 DEF GCDelete, GCTypeOK, TypeOK
  <2>3. watch'[ip[u]] = watch[ip[u]]
    BY <1>0, <1>6, <2>2 DEF GCDelete, NotifyAddress
  <2>4. QED BY <2>1, <2>2, <2>3 DEF Settled
<1>7. CASE GCError
  BY <1>7 DEF GCError, GCIdle, Settled, vars
<1>8. CASE GCRestart
  BY <1>0, <1>8 DEF GCRestart, GCIdle, Settled, vars
<1>9. CASE UNCHANGED gcVars
  BY <1>9 DEF gcVars, vars, gc, Settled
<1>10. QED
  BY <1>1, <1>2, <1>3, <1>4, <1>5, <1>6, <1>7, <1>8, <1>9 DEF GCNext, Deliver, GCWork

(* A settled IP keeps its IPAddress for life. *)
THEOREM SettledForLife == GCSpec => SettledStays
<1>1. GCInv /\ [GCNext]_gcVars =>
        [\A u \in UID : Settled(u) /\ pc'[u] = "stored" => Settled(u)']_gcVars
  BY SettledStep
<1>2. QED BY <1>1, GCInvariant, PTL DEF GCSpec, SettledStays
=============================================================================
