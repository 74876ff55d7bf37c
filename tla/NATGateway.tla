----------------------------- MODULE NATGateway -----------------------------
(***************************************************************************)
(* The NAT gateway controller                                              *)
(* (internal/controllers/natgateway_controller.go), the claim of network   *)
(* interfaces for NAT (internal/client/client.go) and the controller that  *)
(* takes back the claims of gateways that are gone                         *)
(* (internal/controllers/networkinterfacenatrelease_controller.go).        *)
(*                                                                         *)
(* A gateway claims every network interface without a public IP, whatever  *)
(* network either of them is in, and gives each one a port range on one of *)
(* its IPs in its NATTable. What it knows of gateways, interfaces and      *)
(* tables comes from caches that lag behind.                               *)
(* One IP family is modelled: the NATs of different families of an         *)
(* interface are independent of each other.                                *)
(***************************************************************************)
EXTENDS NATSlots, Sequences

CONSTANTS
    NIC,         \* network interfaces
    Gateway,     \* NAT gateways
    IP,          \* addresses
    IPSets,      \* IPSets[g]: sets of addresses users may give the gateway g
    Ports,       \* values of spec.portsPerNetworkInterface
    networkRef,  \* networkRef[o]: the network of an interface or a gateway o, for good
    NoGateway,   \* no claim
    NoTable,     \* the NATTable does not exist
    MaxChurn,    \* bound: changes users make
    MaxFaults,   \* bound: failed calls, lost answers and restarts
    MaxLag       \* bound: writes of an object a cache is behind

ASSUME NATAssumption ==
    /\ IsFiniteSet(NIC) /\ IsFiniteSet(Gateway) /\ IsFiniteSet(IP)
    /\ NoGateway \notin Gateway
    /\ \A g \in Gateway : IPSets[g] \subseteq SUBSET IP
    /\ Ports \subseteq Nat \ {0}
    /\ MaxChurn \in Nat /\ MaxFaults \in Nat /\ MaxLag \in Nat \ {0}

VARIABLES
    nic, nicWatch, nicCache,        \* interfaces: API server, on the way, cached
    gw, gwWatch, gwCache,           \* gateways, likewise
    table, tableWatch, tableCache,  \* NATTables, likewise
    queue,      \* work queue of the gateway controller
    rec,        \* the reconcile of a gateway under way
    stale,      \* interfaces of which the reconcile has an outdated copy
    relQueue,   \* work queue of the release controller
    rel,        \* the interface whose NAT is being released
    churn, faults

nicVars == <<nic, nicWatch, nicCache>>
gwVars == <<gw, gwWatch, gwCache>>
tableVars == <<table, tableWatch, tableCache>>
relVars == <<relQueue, rel>>
vars == <<nicVars, gwVars, tableVars, queue, rec, stale, relVars, churn, faults>>

Status == {"new", "live", "deleting", "gone"}

(* public: has a public IP; nat: the gateway that claims it. *)
NICObject == [status : Status, public : BOOLEAN, nat : Gateway \union {NoGateway}]

GatewayObject == [status : {"new", "live", "gone"}, ips : SUBSET IP, ppi : Ports \union {0},
                  used : Nat, requests : Nat]

SectionSet == SUBSET [nic : NIC, ip : IP, port : Nat, end : Nat]
Table == SectionSet \union {NoTable}

Idle == [pc |-> "idle"]

(* mine: interfaces found to be claimed; todo: free interfaces still to be
   claimed; sections: the table so far; seen: the status it started from;
   spare: a slot was taken for a claim that failed; failed: errs is not
   empty; fresh: the table it started from was up to date (for the
   properties only). *)
Reconcile ==
    {Idle} \union
    [pc : {"drop"}, g : Gateway] \union
    [pc : {"claim", "apply", "status"}, g : Gateway, ips : SUBSET IP, ppi : Ports,
     mine : SUBSET NIC, todo : SUBSET NIC, sections : SectionSet, requests : Nat,
     seen : [used : Nat, requests : Nat],
     spare : BOOLEAN, fresh : BOOLEAN, failed : BOOLEAN]

NATTypeOK ==
    /\ nic \in [NIC -> NICObject] /\ nicCache \in [NIC -> NICObject]
    /\ nicWatch \in [NIC -> Seq(NICObject)]
    /\ gw \in [Gateway -> GatewayObject] /\ gwCache \in [Gateway -> GatewayObject]
    /\ gwWatch \in [Gateway -> Seq(GatewayObject)]
    /\ table \in [Gateway -> Table] /\ tableCache \in [Gateway -> Table]
    /\ tableWatch \in [Gateway -> Seq(Table)]
    /\ queue \subseteq Gateway
    /\ rec \in Reconcile
    /\ stale \subseteq NIC
    /\ relQueue \subseteq NIC
    /\ rel \subseteq NIC
    /\ churn \in 0 .. MaxChurn
    /\ faults \in 0 .. MaxFaults

Exists(o) == o.status \in {"live", "deleting"}

(* The controllers start with what users have created before. *)
Init ==
    /\ \E some \in SUBSET NIC :
          nic = [n \in NIC |-> [status |-> IF n \in some THEN "live" ELSE "new",
                               public |-> FALSE, nat |-> NoGateway]]
    /\ nicCache = nic
    /\ nicWatch = [n \in NIC |-> <<>>]
    /\ gw \in [Gateway -> {[status |-> "new", ips |-> {}, ppi |-> 0, used |-> 0, requests |-> 0]}
                         \union [status : {"live"}, ips : UNION {IPSets[g] : g \in Gateway},
                                 ppi : Ports, used : {0}, requests : {0}]]
    /\ \A g \in Gateway : gw[g].status = "live" => gw[g].ips \in IPSets[g]
    /\ gwCache = gw
    /\ gwWatch = [g \in Gateway |-> <<>>]
    /\ table = [g \in Gateway |-> NoTable]
    /\ tableCache = table
    /\ tableWatch = [g \in Gateway |-> <<>>]
    /\ queue = {g \in Gateway : gw[g].status = "live"}
    /\ rec = Idle
    /\ stale = {}
    /\ relQueue = {}
    /\ rel = {}
    /\ churn = 0
    /\ faults = 0
-----------------------------------------------------------------------------
(***************************************************************************)
(* The API server, and who else uses it                                    *)
(***************************************************************************)

(* A write tells the watchers; one that changes nothing tells nobody. *)
Told(watch, k, old, new) ==
    IF new = old THEN watch ELSE [watch EXCEPT ![k] = Append(@, new)]

PutNIC(n, o) ==
    /\ nic' = [nic EXCEPT ![n] = o]
    /\ nicWatch' = Told(nicWatch, n, nic[n], o)
    /\ Len(nicWatch'[n]) <= MaxLag
    /\ stale' = IF o = nic[n] \/ rec = Idle THEN stale ELSE stale \union {n}
    /\ UNCHANGED nicCache

PutGateway(g, o) ==
    /\ gw' = [gw EXCEPT ![g] = o]
    /\ gwWatch' = Told(gwWatch, g, gw[g], o)
    /\ Len(gwWatch'[g]) <= MaxLag
    /\ UNCHANGED gwCache

PutTable(g, t) ==
    /\ table' = [table EXCEPT ![g] = t]
    /\ tableWatch' = Told(tableWatch, g, table[g], t)
    /\ Len(tableWatch'[g]) <= MaxLag
    /\ UNCHANGED tableCache

Churn == churn < MaxChurn /\ churn' = churn + 1
Fault == faults < MaxFaults /\ faults' = faults + 1

CreateNIC(n) ==
    /\ nic[n].status = "new"
    /\ Churn
    /\ PutNIC(n, [nic[n] EXCEPT !.status = "live"])
    /\ UNCHANGED <<gwVars, tableVars, queue, rec, relVars, faults>>

(* An interface is given a public IP, which validation only allows if its
   NAT goes at the same time, or loses it. *)
TogglePublicIP(n) ==
    /\ Exists(nic[n])
    /\ Churn
    /\ PutNIC(n, [nic[n] EXCEPT !.public = ~@,
                                !.nat = IF nic[n].public THEN @ ELSE NoGateway])
    /\ UNCHANGED <<gwVars, tableVars, queue, rec, relVars, faults>>

(* With or without a finalizer to wait for. *)
DeleteNIC(n) ==
    /\ nic[n].status = "live"
    /\ Churn
    /\ \E s \in {"deleting", "gone"} : PutNIC(n, [nic[n] EXCEPT !.status = s])
    /\ UNCHANGED <<gwVars, tableVars, queue, rec, relVars, faults>>

FinalizeNIC(n) ==
    /\ nic[n].status = "deleting"
    /\ PutNIC(n, [nic[n] EXCEPT !.status = "gone"])
    /\ UNCHANGED <<gwVars, tableVars, queue, rec, relVars, churn, faults>>

CreateGateway(g, ips, ppi) ==
    /\ gw[g].status = "new"
    /\ Churn
    /\ PutGateway(g, [gw[g] EXCEPT !.status = "live", !.ips = ips, !.ppi = ppi])
    /\ UNCHANGED <<nicVars, tableVars, queue, rec, stale, relVars, faults>>

(* Users and the autoscaler change IPs and ports per interface. *)
UpdateGateway(g, ips, ppi) ==
    /\ gw[g].status = "live"
    /\ <<ips, ppi>> # <<gw[g].ips, gw[g].ppi>>
    /\ Churn
    /\ PutGateway(g, [gw[g] EXCEPT !.ips = ips, !.ppi = ppi])
    /\ UNCHANGED <<nicVars, tableVars, queue, rec, stale, relVars, faults>>

DeleteGateway(g) ==
    /\ gw[g].status = "live"
    /\ Churn
    /\ PutGateway(g, [gw[g] EXCEPT !.status = "gone"])
    /\ UNCHANGED <<nicVars, tableVars, queue, rec, stale, relVars, faults>>
-----------------------------------------------------------------------------
(***************************************************************************)
(* Events                                                                  *)
(***************************************************************************)

(* An interface that is there for any gateway to claim: its networkRef is
   not compared with the gateway's, neither here nor in listing them. *)
Claimable(o) == o.status # "new" /\ ~o.public /\ o.nat = NoGateway

(* An interface the release controller does more than read. *)
Releasable(o) == o.status = "live" /\ o.nat # NoGateway

(* Mutant of Interested: an interface without a claim is looked up by it. *)
InterestedUnclaimed(o) ==
    {o.nat} \union {g \in Gateway : Claimable(o) /\ gwCache[g].status = "live"}

(* Mutant of Interested: only the claimer hears of an interface. *)
InterestedClaimer(o) == {o.nat} \ {NoGateway}

(* enqueueByNetworkInterfaceNAT and enqueueByNATGatewayNetworkInterfaceSelection
   for one of the objects of an event. *)
Interested(o) ==
    ({o.nat} \ {NoGateway}) \union
    {g \in Gateway : Claimable(o) /\ gwCache[g].status = "live"}

(* Mutant of Enqueued: the old object of an update is not looked at. *)
EnqueuedNew(old, new) == Interested(new)

(* An update is mapped by its old and by its new object. *)
Enqueued(old, new) == Interested(old) \union Interested(new)

DeliverNIC(n) ==
    /\ nicWatch[n] # <<>>
    /\ nicWatch' = [nicWatch EXCEPT ![n] = Tail(@)]
    /\ nicCache' = [nicCache EXCEPT ![n] = Head(nicWatch[n])]
    /\ queue' = queue \union Enqueued(nicCache[n], Head(nicWatch[n]))
    /\ relQueue' = relQueue \union {m \in {n} : Releasable(Head(nicWatch[n]))}
    /\ UNCHANGED <<nic, gwVars, tableVars, rec, stale, rel, churn, faults>>

(* For(&NATGateway{}); the release controller only cares for deletions. *)
DeliverGateway(g) ==
    /\ gwWatch[g] # <<>>
    /\ gwWatch' = [gwWatch EXCEPT ![g] = Tail(@)]
    /\ gwCache' = [gwCache EXCEPT ![g] = Head(gwWatch[g])]
    /\ queue' = queue \union {g}
    /\ relQueue' = relQueue \union
          {n \in NIC : /\ Head(gwWatch[g]).status = "gone"
                       /\ Releasable(nicCache[n]) /\ nicCache[n].nat = g}
    /\ UNCHANGED <<nicVars, gw, tableVars, rec, stale, rel, churn, faults>>

(* Owns(&NATTable{}) *)
DeliverTable(g) ==
    /\ tableWatch[g] # <<>>
    /\ tableWatch' = [tableWatch EXCEPT ![g] = Tail(@)]
    /\ tableCache' = [tableCache EXCEPT ![g] = Head(tableWatch[g])]
    /\ queue' = queue \union {g}
    /\ UNCHANGED <<nicVars, gwVars, table, rec, stale, relVars, churn, faults>>
-----------------------------------------------------------------------------
(***************************************************************************)
(* The gateway controller                                                  *)
(***************************************************************************)

(* getExistingAllocations: the sections that are still good. *)
getExistingAllocations(g, ips, ppi) ==
    {s \in IF tableCache[g] = NoTable THEN {} ELSE tableCache[g] :
        s.ip \in ips /\ HasSlot(s.port, s.end, ppi)}

(* How UseNextFree may serve the interfaces ns one after the other, in any
   order, until they are served or nothing is free. *)
Placements(ns, ips, ppi, used) ==
    LET free == FreeSlots(ips, ppi, used)
        some == {a \in SUBSET ns : \/ a = ns /\ Cardinality(ns) <= Cardinality(free)
                                   \/ Cardinality(a) = Cardinality(free)}
    IN UNION {{f \in [a -> free] :
                  /\ \A m, n \in a : f[m] = f[n] => m = n
                  /\ \A n \in a : \A t \in 0 .. f[n][2] - 1 :
                        \/ <<f[n][1], t>> \notin free
                        \/ \E m \in a : f[m] = <<f[n][1], t>>} : a \in some}

(* ReleaseNetworkInterfaceNAT of these interfaces may fail or not: the patch
   has the changed object itself as its base and changes nothing, but it
   names a version, and a copy that is outdated makes it fail. *)
ReleaseFails(ns) == {FALSE} \union {\E n \in ns : nicWatch[n] # <<>>}

(* Reconcile reads its caches: a gateway that is gone only has its table
   left to delete.  Interfaces claimed by this gateway keep their sections or
   get a slot; those there is none for are released; free ones are yet to be
   claimed.  (No interface has both a NAT and a public IP.) *)
Start(g) ==
    /\ rec = Idle
    /\ g \in queue
    /\ queue' = queue \ {g}
    /\ \/ /\ gwCache[g].status # "live"
          /\ rec' = [pc |-> "drop", g |-> g]
          /\ UNCHANGED stale
       \/ /\ gwCache[g].status = "live"
          /\ stale' = {n \in NIC : nicWatch[n] # <<>>}
          /\ LET o == gwCache[g]
                 mine == {n \in NIC : Exists(nicCache[n]) /\ nicCache[n].nat = g}
                 free == {n \in NIC : nicCache[n].status = "live" /\ Claimable(nicCache[n])}
                 kept == {s \in getExistingAllocations(g, o.ips, o.ppi) : s.nic \in mine}
                 lacking == mine \ {s.nic : s \in kept}
             IN \E f \in Placements(lacking, o.ips, o.ppi, SlotsOf(kept, o.ppi)) :
                LET released == lacking \ DOMAIN f IN
                \E failed \in ReleaseFails(released) :
                rec' = [pc |-> "claim", g |-> g, ips |-> o.ips, ppi |-> o.ppi,
                        mine |-> mine, todo |-> IF released = {} THEN free ELSE {},
                        sections |-> kept \union {Section(n, f[n], o.ppi) : n \in DOMAIN f},
                        requests |-> Cardinality(mine) + Cardinality(free),
                        seen |-> [used |-> o.used, requests |-> o.requests],
                        spare |-> FALSE, fresh |-> tableWatch[g] = <<>>, failed |-> failed]
    /\ UNCHANGED <<nicVars, gwVars, tableVars, relVars, churn, faults>>

(* The slots the next free interface may get. *)
Offers == UseNextFree(rec.ips, rec.ppi, SlotsOf(rec.sections, rec.ppi))

Claimed(n) ==
    \E slot \in Offers :
       rec' = [rec EXCEPT !.todo = @ \ {n}, !.spare = FALSE,
                          !.sections = @ \union {Section(n, slot, rec.ppi)}]

(* The slot that was taken is left for the next one. *)
NotClaimed(n, failed) ==
    rec' = [rec EXCEPT !.todo = @ \ {n}, !.spare = TRUE, !.failed = @ \/ failed]

(* Mutant of ClaimNIC: the patch has no optimistic lock. *)
ClaimNICUnlocked(n) ==
    /\ PutNIC(n, [nic[n] EXCEPT !.nat = rec.g])
    /\ Claimed(n)
    /\ UNCHANGED faults

(* ClaimNetworkInterfaceNAT: a patch with an optimistic lock, repeated with
   a new copy from the cache when it fails for being outdated. *)
ClaimNIC(n) ==
    \/ /\ n \notin stale /\ Exists(nic[n]) /\ ~nic[n].public
       /\ PutNIC(n, [nic[n] EXCEPT !.nat = rec.g])
       /\ Claimed(n) /\ UNCHANGED faults
    \/ /\ n \notin stale /\ Exists(nic[n]) /\ nic[n].public       \* not valid
       /\ NotClaimed(n, TRUE) /\ UNCHANGED <<nicVars, stale, faults>>
    \/ /\ ~Exists(nic[n])                                         \* not found
       /\ NotClaimed(n, FALSE) /\ UNCHANGED <<nicVars, stale, faults>>
    \/ /\ n \in stale /\ Exists(nic[n])
       /\ UNCHANGED <<nicVars, faults>>
       /\ LET copy == nicCache[n] IN
          \/ ~Exists(copy) /\ NotClaimed(n, FALSE) /\ UNCHANGED stale
          \/ Exists(copy) /\ copy.nat = rec.g /\ Claimed(n) /\ UNCHANGED stale
          \/ /\ Exists(copy) /\ copy.nat \notin {NoGateway, rec.g}
             /\ NotClaimed(n, TRUE) /\ UNCHANGED stale
          \/ /\ Exists(copy) /\ copy.nat = NoGateway
             /\ \/ nicWatch[n] = <<>> /\ stale' = stale \ {n} /\ UNCHANGED rec
                \/ nicWatch[n] # <<>> /\ NotClaimed(n, TRUE) /\ UNCHANGED stale
    \/ /\ Fault
       /\ \/ UNCHANGED <<nicVars, stale>>
          \/ n \notin stale /\ Exists(nic[n]) /\ ~nic[n].public
             /\ PutNIC(n, [nic[n] EXCEPT !.nat = rec.g])
       /\ NotClaimed(n, TRUE)

ClaimFree(n) ==
    /\ rec.pc = "claim"
    /\ n \in rec.todo /\ Offers # {}
    /\ ClaimNIC(n)
    /\ UNCHANGED <<gwVars, tableVars, queue, relVars, churn>>

(* Mutant of Finish: the request is always put back. *)
FinishRequeued(failed) ==
    /\ rec' = Idle
    /\ stale' = {}
    /\ queue' = queue \union {rec.g}

(* The reconcile is over; one that failed is repeated. *)
Finish(failed) ==
    /\ rec' = Idle
    /\ stale' = {}
    /\ queue' = IF failed THEN queue \union {rec.g} ELSE queue

(* applyNATTable, once there is nobody left to claim or nothing to offer. *)
Apply ==
    /\ rec.pc = "claim"
    /\ rec.todo = {} \/ Offers = {}
    /\ \/ /\ PutTable(rec.g, rec.sections)
          /\ \/ rec.failed /\ Finish(TRUE)
             \/ /\ ~rec.failed
                /\ rec' = [rec EXCEPT !.pc = "status"]
                /\ UNCHANGED <<stale, queue>>
          /\ UNCHANGED faults
       \/ /\ Fault
          /\ PutTable(rec.g, rec.sections) \/ UNCHANGED tableVars
          /\ Finish(TRUE)
    /\ UNCHANGED <<nicVars, gwVars, relVars, churn>>

(* updateNATGatewayUsedRequests: what differs from the copy is patched. *)
UpdateStatus ==
    /\ rec.pc = "status"
    /\ LET used == Cardinality(rec.sections) + (IF rec.spare THEN 1 ELSE 0)
           now == [used |-> used, requests |-> rec.requests]
           o == gw[rec.g]
       IN \/ /\ now = rec.seen \/ o.status = "live"
             /\ PutGateway(rec.g,
                  [o EXCEPT !.used = IF used = rec.seen.used THEN @ ELSE used,
                            !.requests = IF rec.requests = rec.seen.requests THEN @ ELSE rec.requests])
             /\ Finish(FALSE)
             /\ UNCHANGED faults
          \/ /\ now # rec.seen /\ o.status # "live"
             /\ Finish(TRUE)
             /\ UNCHANGED <<gwVars, faults>>
          \/ /\ now # rec.seen /\ Fault
             /\ Finish(TRUE)
             /\ UNCHANGED gwVars
    /\ UNCHANGED <<nicVars, tableVars, relVars, churn>>

DropTable ==
    /\ rec.pc = "drop"
    /\ \/ PutTable(rec.g, NoTable) /\ Finish(FALSE) /\ UNCHANGED faults
       \/ Fault /\ Finish(TRUE) /\ UNCHANGED tableVars
    /\ UNCHANGED <<nicVars, gwVars, relVars, churn>>
-----------------------------------------------------------------------------
(***************************************************************************)
(* The release controller                                                  *)
(***************************************************************************)

(* Reconcile of the cached interface: its claimer is looked for, and if it
   is gone its NAT is to be removed. *)
ReleaseGet(n) ==
    /\ rel = {}
    /\ n \in relQueue
    /\ relQueue' = relQueue \ {n}
    /\ LET o == nicCache[n] IN
       rel' = IF Releasable(o) /\ gw[o.nat].status # "live" THEN {n} ELSE {}
    /\ UNCHANGED <<nicVars, gwVars, tableVars, queue, rec, stale, churn, faults>>

(* The patch, without a lock, writes the NATs that were found to be good:
   whoever claims the interface by now loses it. *)
ReleasePatch(n) ==
    /\ n \in rel
    /\ rel' = {}
    /\ \/ /\ Exists(nic[n])
          /\ PutNIC(n, [nic[n] EXCEPT !.nat = NoGateway])
          /\ UNCHANGED <<relQueue, faults>>
       \/ /\ ~Exists(nic[n])
          /\ relQueue' = relQueue \union {n}
          /\ UNCHANGED <<nicVars, stale, faults>>
       \/ /\ Fault
          /\ relQueue' = relQueue \union {n}
          /\ UNCHANGED <<nicVars, stale>>
    /\ UNCHANGED <<gwVars, tableVars, queue, rec, churn>>
-----------------------------------------------------------------------------
(* The controller manager restarts: its informers list what there is, and
   every object they find is queued as if it were new. *)
Restart ==
    /\ Fault
    /\ nicCache' = nic /\ nicWatch' = [n \in NIC |-> <<>>]
    /\ gwCache' = gw /\ gwWatch' = [g \in Gateway |-> <<>>]
    /\ tableCache' = table /\ tableWatch' = [g \in Gateway |-> <<>>]
    /\ queue' = {g \in Gateway : gw[g].status = "live" \/ table[g] # NoTable}
    /\ relQueue' = {n \in NIC : Releasable(nic[n])}
    /\ rel' = {}
    /\ rec' = Idle
    /\ stale' = {}
    /\ UNCHANGED <<nic, gw, table, churn>>

User ==
    \/ \E n \in NIC : CreateNIC(n) \/ TogglePublicIP(n) \/ DeleteNIC(n) \/ FinalizeNIC(n)
    \/ \E g \in Gateway : \/ \E ips \in IPSets[g], p \in Ports :
                                CreateGateway(g, ips, p) \/ UpdateGateway(g, ips, p)
                          \/ DeleteGateway(g)

Deliver ==
    \/ \E n \in NIC : DeliverNIC(n)
    \/ \E g \in Gateway : DeliverGateway(g) \/ DeliverTable(g)

Work == (\E n \in NIC : ClaimFree(n)) \/ Apply \/ UpdateStatus \/ DropTable

Next ==
    \/ User \/ Deliver \/ Work \/ Restart
    \/ \E g \in Gateway : Start(g)
    \/ \E n \in NIC : ReleaseGet(n) \/ ReleasePatch(n)

(* Watches deliver, and both workers go through their queues; SF because a
   worker that is free takes up what has waited longest. *)
Fairness ==
    /\ WF_vars(\E n \in NIC : DeliverNIC(n))
    /\ WF_vars(\E g \in Gateway : DeliverGateway(g))
    /\ WF_vars(\E g \in Gateway : DeliverTable(g))
    /\ \A n \in NIC : SF_vars(ReleaseGet(n))
    /\ WF_vars(\E n \in NIC : ReleasePatch(n))
    /\ \A g \in Gateway : SF_vars(Start(g))
    /\ WF_vars(Work)

Spec == Init /\ [][Next]_vars /\ Fairness
-----------------------------------------------------------------------------
(***************************************************************************)
(* Properties                                                              *)
(***************************************************************************)

(* However stale the caches it is made from, no NATTable ever gives a port
   to two interfaces, an interface two ranges, or a port that is not
   ephemeral: existing sections, those of other ports per interface too, and
   new slots never meet. *)
SectionsDisjoint == \A g \in Gateway : table[g] # NoTable => WellFormed(table[g])

(* A table that is computed from the table before it leaves the interfaces
   that are still claimed where they were, unless their IP or the number of
   ports is gone: connections survive the coming and going of others. *)
AllocationsStay ==
    [][\A g \in Gateway :
          table'[g] # table[g] /\ table[g] # NoTable /\ rec.pc = "claim" /\ rec.fresh =>
             \A s \in table[g] :
                s.nic \in rec.mine /\ s.ip \in rec.ips /\ s.end = endPort(s.port, rec.ppi)
                => s \in table'[g]]_vars

(* No gateway takes an interface another one claims: a claim is only ever
   made of an interface without one, whatever copy it was decided on. *)
ClaimsNotStolen ==
    [][\A n \in NIC :
          nic[n].nat # NoGateway /\ nic'[n].nat # nic[n].nat => nic'[n].nat = NoGateway]_vars

(* Nothing is under way. *)
Quiet ==
    /\ \A n \in NIC : nicWatch[n] = <<>>
    /\ \A g \in Gateway : gwWatch[g] = <<>> /\ tableWatch[g] = <<>>
    /\ queue = {} /\ rec = Idle /\ relQueue = {} /\ rel = {}

ClaimedBy(g) == {n \in NIC : Exists(nic[n]) /\ nic[n].nat = g}
Eligible == {n \in NIC : nic[n].status = "live" /\ Claimable(nic[n])}
InNetwork(g) == {n \in NIC : networkRef[n] = networkRef[g]}

(* When things calm down every table has the interfaces its gateway claims,
   all of them or as many as fit, the status counts them and those it would
   claim, no interface of its network is left to claim while a gateway has
   room, and nothing remains of gateways that are gone: no event that would
   have been needed was missed. *)
TablesSettle ==
    Quiet =>
      \A g \in Gateway :
         IF gw[g].status = "live"
         THEN /\ table[g] # NoTable
              /\ LET served == {s.nic : s \in table[g]}
                     full == FreeSlots(gw[g].ips, gw[g].ppi, SlotsOf(table[g], gw[g].ppi)) = {}
                 IN /\ served \subseteq ClaimedBy(g)
                    /\ full \/ (served = ClaimedBy(g) /\ Eligible \cap InNetwork(g) = {})
              /\ gw[g].used = Cardinality(table[g])
              /\ gw[g].requests = Cardinality(ClaimedBy(g) \union Eligible)
         ELSE table[g] = NoTable /\ ~\E n \in ClaimedBy(g) : nic[n].status = "live"

(* An interface the gateway found no room for is no longer claimed by it, so
   that another gateway may serve it: what ReleaseNetworkInterfaceNAT is
   for.  It does not hold: the patch it sends is empty. *)
UnservedReleased ==
    Quiet => \A g \in Gateway :
                gw[g].status = "live" => ClaimedBy(g) = {s.nic : s \in table[g]}

(* Things do calm down: gateways that share interfaces, and a controller
   that hears of its own writes, do not keep each other busy for ever. *)
CalmsDown == <>[]Quiet
=============================================================================
