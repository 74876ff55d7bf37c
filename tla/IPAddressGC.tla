---------------------------- MODULE IPAddressGC ----------------------------
(***************************************************************************)
(* The garbage collector of IPAddress objects                              *)
(* (internal/controllers/ipaddressgc_controller.go), a controller of the   *)
(* controller manager, beside the allocator of the API server.             *)
(*                                                                         *)
(* The controller sees IPAddress objects through an informer cache that    *)
(* lags behind the API server, and looks at an address when its IPAddress  *)
(* changes and at every resync of the informer.  It is meant to look also  *)
(* when the IP that claims the address is deleted, but finds no address    *)
(* then.  One worker reconciles one address at a time: read the IPAddress  *)
(* from the cache, ask the API server for the claimer, delete the          *)
(* IPAddress by name.  Requests of the API server run between any two of   *)
(* these steps.                                                            *)
(***************************************************************************)
EXTENDS IPAllocation, Sequences, FiniteSets

CONSTANTS
    CacheSize,   \* capacity of the absence cache
    MaxFaults    \* bound: failed reconciles and restarts of the controller

ASSUME GCAssumption == CacheSize \in Nat \ {0} /\ MaxFaults \in Nat

VARIABLES
    watch,       \* watch[a]: changes of the IPAddress a not yet delivered
    cache,       \* cache[a]: claimer of a as the informer cache has it
    queue,       \* work queue: addresses to reconcile
    gcPC,        \* step of the worker: "idle", "check" or "delete"
    gcAddr,      \* the address being reconciled
    gcClaim,     \* its claimRef.uid as read from the cache
    absent,      \* AbsenceCache: UIDs found not to exist
    faults,      \* failed reconciles and restarts so far
    collected    \* addresses the collector has ever decided to delete

gc == <<cache, queue, gcPC, gcAddr, gcClaim, absent, faults, collected>>
gcVars == <<vars, watch, gc>>

GCTypeOK ==
    /\ TypeOK
    /\ watch \in [Addr -> Seq(UID \union {NoUID})]
    /\ cache \in [Addr -> UID \union {NoUID}]
    /\ queue \subseteq Addr
    /\ gcPC \in {"idle", "check", "delete"}
    /\ gcAddr \in Addr
    /\ gcClaim \in UID \union {NoUID}
    /\ absent \subseteq UID /\ Cardinality(absent) <= CacheSize
    /\ faults \in 0 .. MaxFaults
    /\ collected \subseteq Addr

GCInit ==
    /\ Init
    /\ watch = [a \in Addr |-> <<>>]
    /\ cache = [a \in Addr |-> NoUID]
    /\ queue = {}
    /\ gcPC = "idle"
    /\ gcAddr = First
    /\ gcClaim = NoUID
    /\ absent = {}
    /\ faults = 0
    /\ collected = {}
-----------------------------------------------------------------------------
(* The API server tells the watchers of IPAddress objects about a change. *)
NotifyAddress ==
    watch' = [a \in Addr |-> IF ipAddresses'[a] = ipAddresses[a] THEN watch[a]
                             ELSE Append(watch[a], ipAddresses'[a])]

(* An IPAddress is cluster-scoped, which is to have the empty namespace; an
   IP is in another one. *)
ClusterScope == ""
IPNamespace == "default"

(* r.List with client.InNamespace, answered from the cache. *)
ListIPAddresses(namespace) ==
    {a \in Addr : cache[a] # NoUID /\ namespace = ClusterScope}

(* What the handler of deleted IPs enqueues: of the IPAddress objects in the
   namespace of the claimer, those claimed by it. *)
enqueueByClaimer(u) == {a \in ListIPAddresses(IPNamespace) : cache[a] = u}

(* The events a step of the API server gives rise to.  The delete event of an
   IP is handled with the step: its handler enqueues nothing whenever it
   comes. *)
Events ==
    /\ NotifyAddress
    /\ queue' = queue \union
          UNION {enqueueByClaimer(u) : u \in {v \in UID : pc[v] = "stored" /\ pc'[v] # "stored"}}
    /\ UNCHANGED <<cache, gcPC, gcAddr, gcClaim, absent, faults, collected>>

APIServerStep == Next /\ Events

(* An IPAddress event reaches the controller: For(&IPAddress{}). *)
DeliverAddress(a) ==
    /\ watch[a] # <<>>
    /\ watch' = [watch EXCEPT ![a] = Tail(@)]
    /\ cache' = [cache EXCEPT ![a] = Head(watch[a])]
    /\ queue' = queue \union {a}
    /\ UNCHANGED <<vars, gcPC, gcAddr, gcClaim, absent, faults, collected>>

(* The periodic resync of the informer: every cached IPAddress is handed to
   the controller once more. *)
GCResync ==
    /\ queue' = queue \union {a \in Addr : cache[a] # NoUID}
    /\ UNCHANGED <<vars, watch, cache, gcPC, gcAddr, gcClaim, absent, faults, collected>>

(* Reconcile takes an address from the queue and reads its IPAddress from
   the cache; without one there is nothing to do. *)
GCGet(a) ==
    /\ gcPC = "idle"
    /\ a \in queue
    /\ queue' = queue \ {a}
    /\ \/ /\ cache[a] = NoUID
          /\ UNCHANGED <<gcPC, gcAddr, gcClaim>>
       \/ /\ cache[a] # NoUID
          /\ gcPC' = "check"
          /\ gcAddr' = a
          /\ gcClaim' = cache[a]
    /\ UNCHANGED <<vars, watch, cache, absent, faults, collected>>

(* The worker is done with the address. *)
GCIdle ==
    /\ gcPC' = "idle"
    /\ gcAddr' = First
    /\ gcClaim' = NoUID

(* Mutant of AddAbsent: nothing is ever evicted. *)
AddAbsentUnbounded(u) == absent' = absent \union {u}

(* AbsenceCache.Add: a full cache gives up an entry. *)
AddAbsent(u) ==
    \/ /\ Cardinality(absent \union {u}) <= CacheSize
       /\ absent' = absent \union {u}
    \/ /\ Cardinality(absent \union {u}) > CacheSize
       /\ \E v \in absent : absent' = (absent \ {v}) \union {u}

(* The address is to be deleted. *)
GCCondemn ==
    /\ gcPC' = "delete"
    /\ collected' = collected \union {gcAddr}
    /\ UNCHANGED <<gcAddr, gcClaim>>

(* Mutant of GCCheck: a failed read counts as a missing claimer. *)
GCCheckErrorIsAbsence ==
    /\ gcPC = "check"
    /\ \/ /\ gcClaim \notin absent
          /\ ips[name[gcClaim]] = gcClaim
          /\ GCIdle
          /\ UNCHANGED <<absent, collected>>
       \/ AddAbsent(gcClaim) /\ GCCondemn
    /\ UNCHANGED <<vars, watch, cache, queue, faults>>

(* Mutant of GCCheck: the UIDs are not compared. *)
GCCheckByName ==
    /\ gcPC = "check"
    /\ \/ /\ gcClaim \in absent
          /\ GCCondemn
          /\ UNCHANGED absent
       \/ /\ gcClaim \notin absent
          /\ ips[name[gcClaim]] # NoUID
          /\ GCIdle
          /\ UNCHANGED <<absent, collected>>
       \/ /\ gcClaim \notin absent
          /\ ips[name[gcClaim]] = NoUID
          /\ AddAbsent(gcClaim)
          /\ GCCondemn
    /\ UNCHANGED <<vars, watch, cache, queue, faults>>

(* ipAddressClaimerExists: a claimer known to be absent is not asked for
   again; otherwise a live read by name, and the UIDs are compared. *)
GCCheck ==
    /\ gcPC = "check"
    /\ \/ /\ gcClaim \in absent
          /\ GCCondemn
          /\ UNCHANGED absent
       \/ /\ gcClaim \notin absent
          /\ ips[name[gcClaim]] = gcClaim
          /\ GCIdle
          /\ UNCHANGED <<absent, collected>>
       \/ /\ gcClaim \notin absent
          /\ ips[name[gcClaim]] # gcClaim
          /\ AddAbsent(gcClaim)
          /\ GCCondemn
    /\ UNCHANGED <<vars, watch, cache, queue, faults>>

(* Delete by name, with no precondition on UID or version. *)
GCDelete ==
    /\ gcPC = "delete"
    /\ ipAddresses' = [ipAddresses EXCEPT ![gcAddr] = NoUID]
    /\ NotifyAddress
    /\ GCIdle
    /\ UNCHANGED <<ips, request, cache, queue, absent, faults, collected>>

(* The live read or the delete fails: the request goes back to the queue. *)
GCError ==
    /\ gcPC \in {"check", "delete"}
    /\ faults < MaxFaults
    /\ faults' = faults + 1
    /\ queue' = queue \union {gcAddr}
    /\ GCIdle
    /\ UNCHANGED <<vars, watch, cache, absent, collected>>

(* The controller manager restarts: its memory is gone, and the informer
   lists the IPAddress objects there are and queues each of them. *)
GCRestart ==
    /\ faults < MaxFaults
    /\ faults' = faults + 1
    /\ watch' = [a \in Addr |-> <<>>]
    /\ cache' = ipAddresses
    /\ queue' = {a \in Addr : ipAddresses[a] # NoUID}
    /\ absent' = {}
    /\ GCIdle
    /\ UNCHANGED <<vars, collected>>
-----------------------------------------------------------------------------
Deliver == \/ \E a \in Addr : DeliverAddress(a)
           \/ GCResync

GCWork == (\E a \in Addr : GCGet(a)) \/ GCCheck \/ GCDelete

GCNext == APIServerStep \/ Deliver \/ GCWork \/ GCError \/ GCRestart

(* Watches deliver, resyncs recur, and the worker serves the queue in order:
   GCGet is disabled while it is busy with another address. *)
GCFairness ==
    /\ \A u \in UID : WF_gcVars(Serve(u) /\ Events)
    /\ \A a \in Addr : WF_gcVars(DeliverAddress(a)) /\ SF_gcVars(GCGet(a))
    /\ WF_gcVars(GCResync)
    /\ WF_gcVars(GCCheck)
    /\ WF_gcVars(GCDelete)

GCSpec == GCInit /\ [][GCNext]_gcVars /\ GCFairness
-----------------------------------------------------------------------------
(***************************************************************************)
(* Properties                                                              *)
(***************************************************************************)

(* An IPAddress without an IP to use it -- left by a crash, a swallowed
   release error or a lost answer -- does not stay: there are only so many
   requests, and in the end none that is over and done with holds one.  The
   delete event of the IP does not help, as its handler finds no IPAddress;
   what is left behind by a deletion goes with the next resync. *)
LeaksCollected ==
    <>[](\A a \in Addr, u \in UID :
            ipAddresses[a] = u => pc[u] \notin {"done", "refused", "full"})

(* The collector is the only one to come between an IP and its IPAddress: an
   address it has never decided to delete is held as the allocator alone
   would hold it, whatever fails and whatever the cache shows. *)
UntouchedHeld ==
    \A u \in UID : pc[u] \in Holding /\ ip[u] \notin collected => ipAddresses[ip[u]] = u

(* The IP exists, its IPAddress is in place, the collector has caught up with
   it, and nobody is left that could delete the IPAddress by its name. *)
Settled(u) ==
    /\ pc[u] = "stored"
    /\ ipAddresses[ip[u]] = u
    /\ watch[ip[u]] = <<>> /\ cache[ip[u]] = u
    /\ u \notin absent
    /\ gcPC = "delete" => gcAddr # ip[u]
    /\ gcPC = "check" /\ gcAddr = ip[u] => gcClaim = u
    /\ \A v \in UID : pc[v] \in Holding /\ ip[v] = ip[u] => v = u

(* Once the races around its creation are past, an IP keeps its address for
   life: no reconcile, restart, failure or request of another IP can take
   the IPAddress away before the IP itself is deleted. *)
SettledStays ==
    [][\A u \in UID : Settled(u) /\ pc'[u] = "stored" => Settled(u)']_gcVars

(* ip-lifecycle.md: without an IPAddress the address is vacant, so no IP
   that exists uses it. *)
VacantMeansUnused ==
    \A u \in UID : pc[u] = "stored" => ipAddresses[ip[u]] # NoUID
=============================================================================
