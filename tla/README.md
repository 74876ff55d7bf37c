# Verification of onmetal-api-net

onmetal-api-net is the network side of an infrastructure API: an aggregated
Kubernetes API server that hands out IP addresses and network IDs, controllers
that schedule load balancer instances, fill NAT tables and collect garbage, and
two agents, the *metalnetlet* towards the metalnet clusters and the *apinetlet*
towards the onmetal API. Nearly all of its logic is concurrent: requests of the
API server interleave, and controllers act on caches that lag behind what the
API server has.

This directory holds TLA+ models of that logic, TLC runs that check them on
small instances, and TLAPS proofs of what matters most for instances of any size.
`PROJECT.json` lists components, runs, mutants, hazards, theorems, and maps
every definition to the lines of source it models.

## Inventory

| Component | State | Operations | Hard about it | Correct when |
|---|---|---|---|---|
| IP storage, address allocator (`internal/registry/ip`) | IP and IPAddress objects | create, delete, rollback, release | requests race for an address between Get and Create; errors are swallowed; crash between two writes | no two IPs have one address; an IP's IPAddress stays while the IP does; `ErrFull` only after a whole scan |
| IPAddress collector (`ipaddressgc_controller.go`) | informer cache, queue, absence cache | reconcile, deletion handler | an IPAddress exists before its IP; delete by name from a stale read | leaks are collected; an IP in use keeps its address |
| Scheduler (`scheduler_controller.go`) and its cache (`scheduler/cache.go`) | cache of nodes and placed instances, assumptions, binding goroutines | three event handlers, reconcile, bind, expiry | optimistic assumption, events out of step with it, one method without the lock | cache consistent and right in the end; anti-affinity kept; nothing left waiting |
| Claiming of public IPs (`internal/registry/ipallocator`) | claimRef of IPs | claim, create ephemeral, release, commit, revert | claim from a lister without optimistic lock; partial failure | one claimer per IP; nothing claimed by nobody, nothing released in use |
| Network IDs (`internal/registry/network`, `networkidgc_controller.go`) | Network and NetworkID objects | as for IPs | as for IPs | as for IPs |
| NAT gateway (`natgateway_controller.go`, `internal/natgateway`) | NATTable, NATs of network interfaces, port slots | reconcile, claim, release, autoscale | table computed from two lagging caches; slot arithmetic | no port range of an IP used twice; allocations stay put |
| Daemon sets and load balancers (`daemonset_controller.go`, `loadbalancer_controller.go`) | instances per node, expectations | reconcile, adopt, release, observe | creations not yet in the cache | in the end one instance per eligible node |
| metalnetlet | finalizers, metalnet objects | reconcile instance, interface, network, node | crash between the two clusters; nodes that go away | no metalnet object survives its owner |
| apinetlet | finalizers, API objects in the other cluster | reconcile per kind | as for the metalnetlet | as for the metalnetlet |
| Storage of the other kinds, validation, certificate approval, containers, start-up, generated code | little or none | | | see PROJECT.json |

The components meet in the API server. The IP storage and the collector share
the IPAddress objects; the public-IP claimer reads IPs through an informer and
patches or creates them; the load balancer controller applies a DaemonSet, the
daemon set controller creates Instances with a node affinity, the scheduler
binds them to a Node that the metalnetlet has created, and the metalnetlet turns
bound instances into metalnet load balancers.

## Modules

    AddressAssignment            what users of IPs are promised
      ^ implemented by
    IPAllocation                 API server: create and delete of IPs
      ^ extended by
    IPAddressGC                  the collector beside it
    IPAllocationProofs           theorems about IPAllocation
    IPAddressGCProofs            theorems about IPAddressGC

    NodeFilter                   the filters of the scheduler as operators
      ^ extended by
    Scheduler                    API, informer, handlers, worker, cache, binding
    SchedulerProofs              theorems about Scheduler: types, the cache's indexes
      ^ extended by
    SchedulerEventProofs         theorems about its events and placements

    NATSlots                     port ranges and slots as operators
      ^ extended by
    NATGateway                   API, caches, gateway and release controllers
      ^ extended by
    NATAutoscaler                the same with an autoscaler for every gateway
    NATGatewayProofs             theorems about NATGateway and NATAutoscaler

    DaemonSet                    load balancer and daemon set controllers
    DaemonSetProofs              theorems about DaemonSet

    IPClaim                      claims of public IPs in the API server
    IPClaimProofs                theorems about IPClaim

    Network                      apinetlet, network storage, collector, metalnetlets
    NetworkProofs                theorems about Network

    MCIPAllocation, MCIPAddressGC, MCScheduler, MCNATGateway, MCNATAutoscaler,
    MCDaemonSet, MCIPClaim, MCNetwork                           instances for TLC

### IPAllocation

A create request reserves its address by creating an `IPAddress` named after it
(`createIPAddress`), and stores the IP only then; a delete removes the IP first
and its `IPAddress` in `afterDelete`. `pc[u]` says where the request for the IP
with UID `u`, and later its deletion, stands; `ipAddresses` and `ips` are what is
in etcd. The API server draws a fresh UID for every create, so that a UID stands
for a request, for the object and for its deletion. `Get`, `CreateIPAddress`, `StoreIP`,
`Rollback`, `DeleteIP` and `AfterDelete` are the calls that other requests can come
between. Each has an action for its failure: `GetError` (skipped by the
iterator), `CreateIPAddressError` (which may have created the object all the
same), `StoreIPError` (validation), `ReleaseError` (logged and swallowed).
`Crash` ends a request at any point and leaves what it had written. Addresses
are integers; `NextAddr`, `Ends` and `Advance` are the wrapping iterator, started at any
offset, as the code starts at a random one. It has two edges. `AddOffsetAddress` adds the offset
to the address as a number and reads the sum back from its bytes, which have no leading
zeros: where the first byte is 0 (`a < FullWidth`; 64:ff9b::/96 is such a prefix)
they are too few, and `ipIterator` answers the error with an iterator that has ended (second
disjunct of `BeginNext`). And `netip.Addr.Next` of the last address there is (`Top`) is invalid,
is not compared as greater than the last of the prefix, and ends the scan without
wrapping (`Ends`). `tried` only exists to state `FullMeansAllTried`, which has the scan
each start allows (`Scan`) as what must have been tried. IPv6 prefixes within ::/96, whose
numbers may have just the four bytes of an IPv4 address and are read back as one, are left out.

`Spec` has weak fairness of the steps a running server takes for a request it has
begun: a goroutine that serves a request is not held up for ever. Nobody is
assumed to make requests, and crashes and errors are never required.

### IPAddressGC

`Events` adds to every step of `IPAllocation` what its watchers will be told.
`watch[a]` is the queue of changes of one `IPAddress`, `cache` what the informer
has made of it. A reconcile is three steps, `GCGet` (cache), `GCCheck` (absence
cache, then a live read of the claimer), `GCDelete` (by name); `GCError` fails
either call, `GCRestart` loses all memory and lists anew. The handler of deleted IPs
(`enqueueByClaimer`) lists IPAddresses with `client.InNamespace` of the claimer's namespace
(`ipaddressgc_controller.go:131-133`); they are cluster-scoped, so that the cache has none
there, and the deletion of an IP enqueues nothing. (That of the network IDs,
`networkidgc_controller.go:132`, has no such filter.) An address is therefore looked at when
its own IPAddress changes, on a restart, or when the informer's periodic resync hands
out what it has (`GCResync`). That the cache answers so is a property of controller-runtime,
which is not part of the repository.

Fairness: watches deliver, resyncs recur, and the worker works on; `GCGet` has strong fairness
because it is disabled while the one worker is busy, and the queue is served in order.
`LeaksCollected` rests on the fairness of `GCResync`, with the default period of ten hours.

### NodeFilter and Scheduler

`NodeFilter` has node affinity, both directions of instance anti-affinity,
topology spread and the choice of the least used node as operators on a
snapshot. A label selector is the set of instances it selects and a node
selector the set of nodes it accepts.

`Scheduler` keeps the API server (`api`, `nodes`), the informer (`watch`,
`store`), one queue for each listener (`unassigned`, `assigned`, `nodeEvents`:
listeners run at their own pace, and each keeps its order), the worker (`queue`,
`rec`), the cache record and the binding goroutines (`binds`). The methods of the
cache are operators from cache to cache and are used by the actions that call
them. `ForgetInstance` takes no lock in the code, so its look at the entry, the
removal from the container and the removal of the entry are three steps; that is
the whole of what an unlocked method can do at the granularity of the cache's
maps, and a torn map is not modelled. `corrupted` collects the instances for
which one of the checks that panic would have failed; the model goes on, so that
one panic does not hide the next. `Restart` starts with an empty cache and lists.

Fairness: the informer with its listeners, the worker, the ticker and the
binding goroutines keep running. `Get(i)` has strong fairness, because it is disabled while the one
worker is busy with another instance; a work queue serves its items in order,
so that no instance is passed over for ever.

### NATSlots and NATGateway

`NATSlots` has the arithmetic of `allocation.go` (which slot a range is, which
range a slot is, what `Use` accepts) and what `UseNextFree` of `slots.go` may return: the
lowest free slot of any IP that has one, since IPs come out of a map.

`NATGateway` keeps interfaces, gateways and tables three times each: in the API
server, on their way in a watch, and in the cache. A reconcile (`rec`) reads all
caches in `Start`, where the interfaces already claimed keep their range or are
given a slot (`Placements`); then it claims the free ones one at a time
(`ClaimFree`), applies the table (`Apply`) and patches the status (`UpdateStatus`),
and anything may happen in between. `stale` has the interfaces of which the
reconcile's copy is outdated: a claim of one of them meets the optimistic lock and is
retried from the cache, as in `ClaimNetworkInterfaceNAT`. `ReleaseGet` and
`ReleasePatch` are the release controller: a live look at the claimer, then a patch
without a lock. `Restart` lists everything anew. `rec.fresh` only exists to
state `AllocationsStay`, and the networks of gateways and interfaces (`networkRef`, which validation
makes immutable) only to state `TablesSettle`: the code does not look at them.

Fairness: the informer of each kind delivers, the worker goes on with the reconcile it has begun, and
both work queues are served in order (`SF` of `Start` and `ReleaseGet`, which are disabled
while their worker is busy). Users need do nothing and no call need fail.

### NATAutoscaler

`determineDesiredNumberOfIPs` computes the number of IPs from what the gateway
controller wrote into the status, and `manageNATGatewayIPs` adds or removes some, with
an optimistic lock: a reconcile from an outdated cache changes nothing and is
repeated, so that one action stands for the attempt that gets through. Both
controllers listen to one cache, and every event of a gateway puts its autoscaler
into the queue; the queue needs no variable, because the autoscaler is at work as long as
the cached gateway asks for another number of IPs (`enqueueByNATGateway`).
The division rounds towards zero, which `Quotient` keeps.

### DaemonSet

One load balancer, its daemon set (`ApplyDaemonSet`, `DeleteRouting`), and the
instances. The instance informer (`watch`, `store`) has two listeners with goroutines
of their own: the one that fills the work queue acts with the delivery, the one that
observes expectations (`toObserve`) at any time after it. `Start` reads daemon set and
nodes from their caches and asks `Satisfied`; `Manage` adopts, releases, updates in place
and writes down in `exp` what it is about to create and delete; `CreateOK`,
`DeleteOK` and their failures are the requests, each answered by itself. `CreateFails` may have created the
object, and takes the expectation back. `Relist` is a watch that broke off: the events in
between are lost and only the difference arrives. `Expire` is the timeout of expectations,
too early only as a fault. `Others` are the scheduler, finalizers and the cluster's
garbage collector. `excused` has the instances that were made by a user or by a
creation without an answer, and all of them once expectations expired too early;
`shaken` the nodes somebody else removed an instance from.

Because of the two listeners a wake-up can be lost: the reconcile runs, is not satisfied,
and ends before the expectation is observed, and nothing enqueues the daemon
set again. A new label of a node does not enqueue it either. Both are healed
only by the resync of the informers (`Resync`, ten hours by default), so that `Settles`
rests on the fairness of `Resync`. Instances bound to a node that is gone are left
alone by the code; `Settled` speaks of nodes that exist.

### IPClaim

Network interfaces, NAT gateways and load balancers (`Owner`) come with a list of
IPs to claim or with requests for ephemeral ones. `req[c]` is the request for one object:
`AllocateCreate` and `AllocateUpdate` are the begin hooks; an update keeps an address the
object had for the first entry of the new list that names it, and what is still `todo` are
positions of the list, not addresses, since a list may name an address twice. `claimIP` and `PatchClaim` a
claim (look-up in the lister, then an unlocked patch), `createEphemeralIP` and
`DeleteEphemeral` the IPs that are made for the object, `Begun` ends the
transaction, `Write` is the store's write to etcd and `Rerun` its retry after a
conflict, `release` and `releaseIP` give IPs back. `claimIP` sets the claim on the object
the lister holds (`cache`); this is a data race with the other requests of the
server, so that `LooksFree` lets a racing reader see either value. An ephemeral IP has an owner reference and no claim, and is
therefore open to claims by others. The generic store commits an update, and so
releases IPs, before the write. A create by server-side apply comes the same way and is committed
before its write, while a POST is reverted when its write fails; `WriteFails` has both.
`CollectIP` is the cluster's garbage collector, which looks for the owner of an ephemeral
IP. That of a load balancer it cannot find: `internal/registry/loadbalancer/storage.go:25,165-167`
names the API group of onmetal-api in the reference. So where that group is served too, the IP
may be collected while its load balancer lives.

Three ghosts name the ways in which the code gives up what one would like to
have. `lost`: a claim overwritten by one that looked before it could be seen; a release
by an update that was then not written; a write that failed and took effect; an IP deleted by
its user, by the cluster's garbage collector, or by someone who had claimed the
ephemeral IP. `leaky`: objects with a request that broke off after a claim.
`poisoned`: claims marked in a lister and not made. The properties say that there are no
others. Nothing cleans `leaky` claims up: there is no `IPGarbageCollector`, which
`docs/concepts/ip-lifecycle.md:38-39` names.

### Network

A network from the onmetal API to the metalnet clusters and back: `om` the networks
of the onmetal API, `an` those of this API, `mn[p]` those of metalnet in partition `p`, `ids`
the NetworkIDs. The apinetlet (`A...`) sets its finalizer, applies the network, waits
for it, and writes provider ID and status; a creation in the API server reserves an ID
(`Reserve`), stores the network (`Store`) or is refused by validation and takes the ID back
(`Refuse`, `Undo`), and goes on when its client has given up (`ApplyGivenUp`). The apinetlet
only ever applies, and for an apply the generic store calls finish(true) before it writes: if the
network exists by then (`StoreConflicts`), or etcd fails (`Abandon`), the ID stays claimed
by a UID that was never stored, and the server tries again with what is there. A metalnetlet
(`M...`) sets its finalizer and applies the metalnet network. On deletion each stage waits for the next one, `AfterDelete` releases
the ID, and the collector (`G...`) removes what a crash, a lost answer (`ReserveLost`) or
an error left. Every creation has a UID of its own, from which metalnet objects get their
names. `anSeen`, `omSeen`, `idSeen` are caches that hold some earlier state. The
finalizers of an apinet network are patched as a whole list by a library outside the
repository; whether it takes a lock is not known, so `PatchFinalizers` allows the write
of another partition to be overwritten, noted in `overwritten`. `robbed` has UIDs
whose NetworkID was deleted by another request or by the collector, as with IPs.

Fairness: weak, of each of these groups as a whole: the informers of apinetlet and
collector, the apinetlet, the API servers of apinet and metalnet, the collector, and
for each partition its informer and its metalnetlet. The informers of two partitions
have to be fair each for itself: as long as one lags, its metalnetlet repeats its
patch of the finalizers, and each patch is news for the other one.

## Runs

| Run | Instance | Shows |
|---|---|---|
| `ip_allocation` | 3 requests, 2 keys, 2 addresses, of which the first has a zero byte in front, and one outside on either side | uniqueness, holding, releases only by the owner, scans as complete as the start allows, every request answered, refinement of `AddressAssignment` |
| `ip_gc` | 2 requests for one key, the last 2 addresses there are, absence cache of 1, one fault | only the collector comes between an IP and its IPAddress; an IP that is settled stays so; leaked addresses are collected |
| `ip_gc_vacant` | the same with 2 addresses, no fault | **violation**: the collector takes the IPAddress of an IP that is being created |
| `scheduler` | 1 instance, a node there at the start and one later, 2 attempts, 1 update or node deletion, 1 restart | cache consistent, checks never fail, cache right once all is quiet, an instance is tried once there is a node |
| `scheduler_pair` | 2 instances that refuse each other, one also spread, 2 zones, 3 attempts | they only meet when the cache lost sight of one |
| `scheduler_antiaffinity` | 2 instances that refuse each other, 1 node | **violation**: an assumption expires before its binding is confirmed |
| `nat` | 1 gateway that its autoscaler gives 0 to 2 IPs of 4 ports each, 2 or 4 ports per interface, 2 interfaces, 1 change by a user | port ranges disjoint and kept; tables right and IPs as many as needed once all is quiet |
| `nat_shared` | 2 gateways with 1 IP each, 1 interface, 1 change by a user, 1 fault | no claim stolen, tables right once all is quiet, the controllers come to rest |
| `nat_release` | 1 gateway without an autoscaler, 2 interfaces | **violation**: an interface a full gateway cannot serve stays claimed |
| `daemonset` | 1 node with 2 labels, 2 names, wide and narrow specifications, 1 change by a user, 1 fault, 2 events in flight | no duplicate of the controller's own making, duplicates reduced to one, the instances settle |
| `ip_claim` | 2 objects, 2 addresses (one the IP of a user), 1 server, 2 updates or deletions, 1 fault | objects have their IPs, releases take nobody else's, no claim without a use, what is free looks free, but for the named exceptions |
| `network` | 1 network, 1 partition, 2 IDs, 2 creations, 1 fault | a VNI in use stays reserved, the provider ID is right after retries, all is served or cleaned up in the end |

Why the bounds are enough. Two addresses are the least over which an iterator
wraps and an IP can be given a second address, with an edge of the address space
at one of them (the zero byte in `ip_allocation`, the end in `ip_gc`); three requests let one address be
held, fought over and freed; two keys for three requests make a key collide. In
the collector, one key for two IPs makes its look-up by name find an IP with another UID, and
a cache of one makes the second absent UID evict the first. In the scheduler
two attempts let an instance expire, be bound anew to the other node and be refused;
the pair has a third to be tried once more. For the NAT gateway, four ports make two slots of
two or one of four, so that two interfaces fit, are too many, and have to be moved
when the number of ports changes; the last slot ends at the last port. The gateways
may exist before the controllers start or be created later. A cache that is one
write behind for every object (`MaxLag`) already lets any of the three caches be
ahead of any other. With an autoscaler the gateway goes from no IP to two and back.
For daemon sets two names allow the one duplicate there can be and the one
replacement, and two events in flight let an addition and a removal be seen in
one reconcile. For claims the lists of `MCWants` make an object keep one IP, swap
it, or ask for one too many, and the other object wants the same one; both may be load
balancers, which adds the collections of living objects' IPs and takes nothing away. For networks the
second creation is the retry of one that was given up while it was still under way,
with an ID of its own; the first one takes a fixed ID (`FirstIDs`), which loses
nothing, since IDs are alike. `MaxAttempts`, `MaxChurn`, `MaxRestarts`, `MaxFaults`,
`MaxCreates` and `MaxLag` are the only bounds. They cut off behaviours and never change a step.
`CHECK_DEADLOCK FALSE` throughout: when the requests are used up the system may stop.
`NodeSymmetry`, `NICSymmetry` and `OwnerSymmetry` are used only in runs without liveness
where nodes, interfaces and objects are alike.

Larger instances were checked once, without an error: `DaemonSet` with 2 nodes, 3
names and one event in flight; `Network` with 2 partitions, 1 ID and 1 creation
(with liveness), and with 2 networks, 1 ID and 2 creations; `NATAutoscaler` with
a fault and 0 or 1 IPs at least, with 3 interfaces, and with users who give two
IPs.

### The three divergences

`ip_gc_vacant`. `docs/concepts/ip-lifecycle.md:13-15` takes a missing IPAddress to
mean that the address is vacant. `beginCreate` creates the IPAddress before the
IP is stored; the collector, told of the new IPAddress, finds no IP, notes its
UID as absent and deletes the IPAddress. The IP is stored afterwards and has
an address that the next request may get as well. `AddressesUnique` therefore
holds of the allocator alone, and `SettledStays` says from when on an IP is safe.

`scheduler_antiaffinity`. `api/core/v1alpha1/instance_types.go:64-65` promises that an
instance is not scheduled onto a node where its anti-affinity is not met. An
assumption whose binding is finished is dropped at the next tick of the cache,
whether the event of the binding has arrived or not; a snapshot taken in between lacks
the instance. `ApartUnlessLost` says that this, a restart and `ForgetInstance` are
the only ways.

`nat_release`. `internal/client/client.go:95` says that `ReleaseNetworkInterfaceNAT`
releases the NAT. It removes the NAT from the object and then gives the same object as
the base of its patch, which is therefore empty. A gateway that was full keeps its claim on
interfaces it does not serve, and another gateway with room cannot have them. This is
why `TablesSettle` asks for all claimed interfaces in the table only while there is room.

Further disagreements with the docs, not turned into runs.

Networks of NAT gateways: `docs/concepts/objects.md:168-170` has a gateway claim the
interfaces "inside its network", and so has
`docs/concepts/onmetal-api-integration.md:52-54`. The code
(`natgateway_controller.go:142-176` and `406-443`) takes the interfaces of the gateway's
namespace and asks for the IP family, the public IP and the claim; `networkRef` is not
compared. A gateway therefore claims interfaces of other networks, and keeps their own
gateways from having them. `TablesSettle` demands what docs and code agree on, that no
interface of the gateway's network is left unclaimed while it has room; the requests in
the status are those the code selects. With gateway and interface in different networks,
"every claim is by a gateway of the interface's network" fails after two steps, a
`Start` and a `ClaimFree`.

The deletion of an IP does not make the collector look at its IPAddress, although a
handler is there for it (above). `ErrFull`, "all IPs are allocated"
(`ipaddressallocator.go:40`), is also the answer at the edges of the address space, with
addresses that are free, and whenever the calls for all of them fail. Only the collector
gives back the ID of a network whose write failed, against what `finish` in
`internal/registry/network/storage.go:113-122` is meant for. An autoscaler leaves a
shortage of less than a whole IP as it is, since the division rounds towards zero: a
single interface without a slot gets none if an IP has two slots, against
`docs/concepts/onmetal-api-integration.md:49-50` ("ensuring there are enough public IPs
available"). `ScaledToRequests` states what does hold. And an ephemeral IP is not
claimed by the object it is made for, although `docs/concepts/ip-lifecycle.md:45-46`
says so.

Also seen, and left as exceptions in the properties: without `forgotten` in
`NeverCorrupted` TLC finds a run in which the unlocked `ForgetInstance` removes an
entry an event has just confirmed, the instance is assumed on another node, and
its next event meets the check that panics. And a binding that failed is not
retried until the instance is updated or a node created, which is why
`ScheduledUnlessFailed` speaks of the first attempt only. `AllocationsStay` speaks of
interfaces the reconcile found claimed: one whose claim has not reached the cache is taken
for free, its second claim fails, and its ports may go to another interface in
the table that is then applied; the next reconcile finds it a new range. With one
port per interface `slotForPorts` accepts no range, and nothing is ever kept.

## Proofs

`IPAllocationProofs` proves, for any sets of UIDs and keys and any prefix (from
`RangeAssumption`, `NoUIDAssumption`, `NoAddressAssumption`): `TypeCorrect`,
`ClaimHeld`, `Uniqueness`, `OwnReleases`, `StoreAgreement`, `FullIsComplete` and
`AllocationImplementsAssignment`. `HeldByClaimer` is the core: once typed, it
is inductive by itself, because only a Create that found nothing sets a
claimer and only a release by a holder clears one, and two holders of one
address would both be its claimer. Uniqueness and own releases follow from it, the
refinement from it and `StoreAgrees`. `FullMeansAllTried` needs a strengthening: what
the iterator has left behind is the arc from where it started up to where it
stands, on the circle of the prefix; it closes when the iterator is back at its start.
An iterator that has begun started at an address that can be read back, and one over a prefix that
ends with the address space never passes its end; so each ends with its `Scan`.

`IPAddressGCProofs` proves `GCTypeCorrect`, `UntouchedAreHeld` and `SettledForLife`, for any
size of the absence cache and any number of faults. To `UntouchedHeld` the invariant adds
that the worker never has an address in hand to delete that is not noted in `collected`,
and `StoreAgrees`, without which the look-up of a claimer says nothing about the request.
`SettledStays` needs no more: everything it rests on is in `Settled` itself. A lemma says that the
deletion of an IP puts nothing into the queue (`EventsQuiet`).

`SchedulerProofs` proves `SchedulerTypeCorrect` and `ConsistentCache` for any
finite sets of instances and nodes and any constraints. The inductive invariant
adds to `CacheConsistent` that an instance in the hands of the unlocked steps of
`ForgetInstance` is in `forgotten`; each method of the cache has a lemma that it
preserves the consistency of every instance, and the actions cite these lemmas.

`SchedulerEventProofs` proves `NoCorruption`, `CacheIsComplete` and `KeptApartUnlessLost`,
for the same constants. The first two need the way of an event as a whole (`EventInv`):
what the informer and its watch hold of an instance is a history in which a node, once
given, is final, the end comes last, and the last entry is the instance as it is
(`WatchInv`); what waits for `handleAssignedInstances` names the node of the API server, and
nothing follows a removal (`AssignedInv`); and what the cache has confirmed came from such
events, while what the informer has is confirmed or about to be added (`KnownInv`). So an
update or a removal never meets an instance the cache does not know or has elsewhere, which
is what the panics are about, even when an expired assumption was repeated on another node.
`ApartUnlessLost` needs the placements (`PlacementInv`): an instance counts if it has a node or
a patch to one under way, is not gone, lost or forgotten; the cache has every one that
counts on that node, which it knows or which is gone (`PlaceInv`), no two of them refuse
each other, and neither do they and the node the worker has picked (`ApartInv`). The last part
spans the moment between the snapshot and the assumption. Patches of instances that
have gone in the meantime had to be left out: their cache entries are removed while the goroutine
still tries. For the restart the proof needs that the list of an informer leaves
nothing out, by the pigeonhole principle (`ListingComplete`).

`NATGatewayProofs` proves `NATTypeCorrect`, `PortsNeverShared`, `ClaimsAreNotStolen` and
`AllocationsAreStable`, for any range of ports (`PortsAssumption`), any positive numbers of
ports per interface and caches of any lag. Disjointness comes from arithmetic: two slots of one size
have no port in common (`SlotsApart`), and a section that is kept is that of a slot.
The table under computation is therefore cut into slots of the size the reconcile has read
(`Sliced`), and what is still to be claimed is not in it; without the second part the section
of a claim that comes through could be the second one of an interface. A claim can only
steal if the copy it is made on is outdated unnoticed, which `RecInv` excludes. `AllocationsAreStable` assumes
`1 \notin Ports`: with one port per interface `slotForPorts` accepts no range, so that the
statement is false of the code, as said above.

`TablesAreRight` is `TablesSettle`, and speaks of states in which everything is quiet; what
leads there is a long history of all actors. Its invariant (`SettleInv`) says for
every other state why nothing is forgotten: what is not yet right is accounted for by an event
on its way, the queue or the reconcile under way. An interface event wakes a gateway if
one of the objects on its way, or the cached one it replaces, is claimed by the gateway or free
(`Wakes`); this is where `Enqueued` must look at the old object as well as at the new one. A gateway
that nothing will wake (`Calm`) and nobody works on is right as far as the cache
goes (`Rest`). A reconcile under way has read the gateway as it is unless it will
be repeated (`Read`), and has a table that is right, or fills all slots, unless it has failed or
something will wake it (`Plan`): had it claimed an interface itself, it would hear of that. The gateway
that is gone needs `ReleaseInv`, that a live interface it claims is in the hands of the
release controller or the event of the end is still to come, and both need that the
cached gateways lag behind in one direction only (`HeardInv`). Every step of somebody else is shown to be
`Steady` for a gateway, from which the rest follows at once; the reconcile's own steps have a
lemma each. That a table is full when interfaces are left over is a matter of counting
(`PlacementsExhaust`, which is why `NATAssumption` has finitely many addresses), and that
`UseNextFree` finds a slot while there is one needs the least of a set of numbers (`UseNextFreeFinds`). TLC
had checked `SettleInv` on the instances of `nat` and `nat_shared` before.

`ScaledInvariant`, `ScaledTablesAreRight` and `ScaledAllocationsAreStable` state the same of gateways
with autoscalers, whose step is one more write of a gateway. `ScalesToRequests` is
`ScaledToRequests`: the status is right once things are quiet, and what remains is arithmetic
of a division that rounds towards zero (`QuotientSign`, `DesiredBounds`). It assumes that an IP
has at least one slot, by which the code divides.
These theorems, and `TablesAreRight`, also assume `NoTable \notin SectionSet`, that the marker for no table
is not a table. It is a hypothesis of the theorems because TLC cannot evaluate it of a model value.

`NetworkProofs` proves `NetworkTypeCorrect`, `VNIsAreHeld` and `ProvidersAreCurrent`, for any
networks, IDs, partitions, creations and faults. `IDHeldWhileUsed` relates a metalnet
cluster to the NetworkIDs, two hops away. The invariant closes them one at a time: a metalnet
network is held by the partition's finalizer on the apinet network with its UID
(`MetalnetInv`); what the partition's cache shows of a network that has the finalizer and is
not being deleted is true of the stored one (`ViewInv`); a stored network, or one about to be
stored, has its ID (`HeldInv`); who was looked for in vain does not turn up, unless
robbed (`AbsentInv`); and a UID is given once (`UIDInv`). `ProviderCurrent` needs that the
apinetlet never deletes what is live, for which its cache must lag behind in one direction only
(`LiveInv`). The proof showed that `ApplyCreate` had lost its bound on the number of creations, which no
run could see, because the retries end there.

`IPClaimProofs` proves `ClaimTypeCorrect`, `ObjectsHaveTheirIPs`, `ClaimsAreUsed`,
`FreeIPsLookFree` and `ReleasesAreOwn`, for any objects, servers, addresses, lists and faults.
`ClaimBacked` speaks of stored objects only; its strengthening has to say for every step of
every request what the object relies on at that moment (`Keeps`: what is stored, what the
transaction has claimed, what an update will keep) and that it holds or has lost this
(`HeldInv`), and that what is to be released is not relied on by the same object
(`Spares`), from which `ReleasesOwn` follows. `UsedInv` is the converse: a claim is relied on
or leaky. `CacheInv` says how far a lister's object may differ from the store: by events on
their way, by a claim in progress, or poisoned. An earlier form of the model kept the list of
addresses still to be claimed; with an address twice in a list it kept both entries of it,
where the code keeps the first, which came out when the invariant failed for such a list.

`DaemonSetProofs` proves `DSTypeCorrect`, `CreationsAreSeen`, `OneInstancePerNode` and
`DedupeLeavesOne`, for any finite sets of nodes and instances (`FiniteAssumption`), any
specifications, faults and lag. What a reconcile may conclude from its cache is the core. The
informer has a past state of every instance and gets the rest of the history in order, in
which the node and a deletion are final and an instance nobody else touched keeps owner and labels
(`WatchInv`); what `ObserveExpectationsForController` has yet to look at is in the cache
already (`ObserveInv`). So a live instance that the cache does not show is an expected creation
(`SeenInv`), and a dead one that it shows as live was deleted by somebody else or is an
expected deletion (`StaleInv`). `PlanInv` and `KeptInv` carry this through `syncNodes`, where the
cache moves on: the names to be created are unknown to everybody and stand for distinct nodes
without an instance (by counting, as there are as many names as nodes), and where one of several
instances is to be deleted another one is not. Observing an event never removes an expectation too soon,
since it has reached the cache before. The proof showed that `Fresh` must not hand out a
name the plan still wants to delete, as no name is ever used twice; the bounds of the run
do not reach this.

The assumptions on the constants are named in the modules that declare them. Besides those
above they say that the markers for "none" are not objects (`NilObjectAssumption`),
which TLC evaluates on every run.

Only model-checked: liveness (`RequestsAnswered`, `LeaksCollected`,
`ScheduledUnlessFailed`, `CalmsDown`, `Settles`, `Converges`), which is out of reach of the
prover. Every invariant and every action property that a passing run checks is a theorem.

## Not modelled

Within the modelled parts: dry runs; ambiguous failures of the store's own write of
an IP (in `IPAllocation` its answer is definite, in `IPClaim` it is not);
prefixes beyond the sizes `PrefixSize` can count (it is 0 for them, and `rand.Int63n(0)` panics), and IPv6
prefixes within ::/96; changes of node labels in the
scheduler; finalizers of other controllers on a network of onmetal-api; instances created with `spec.nodeRef`; an instance name used again by an object
with another UID; selectors that do not parse; patches still on their way when the
scheduler restarts; a second IP family of an interface; load balancers that are
not public, whose create and update hooks return no finish function
(`internal/registry/loadbalancer/storage.go:75`); NAT gateways with finalizers;
ports per interface of 0, which nothing validates and which divides by zero, and of 1
(which does not settle with two IPs); networks created with an ID of the user's choice.

Not modelled at all: the controllers of the apinetlet and the metalnetlet for the
other kinds. They use the finalizer-and-apply protocol of `Network`; most of their
code translates one object into another, field by field, which says nothing once
the fields are abstracted. What is hard about the instance controller of the metalnetlet (a stop
between its finalizer and the load balancers of metalnet, a node that goes away) is
listed under the hazards. Certificate approval is a stateless decision; the stores
of the remaining kinds have no hooks; start-up code appears as `Init` and the restarts.

About two thirds of the Go code is generated (conversions, deep copies, clients,
OpenAPI): of some 61000 lines about 20000 are written by hand, and much of those
are types, validation of single objects, command lines and wiring. The map covers the
controllers and storages with state of their own, and is small against the whole.

## Plan

1. The instance and network interface controllers of the metalnetlet, by the protocol of
   `Network`, with nodes that go away; then those of the apinetlet.
2. `DaemonSet` against an abstract specification "one instance per node", and composed
   with `Scheduler` by its node affinity.
3. The liveness properties on larger instances, since no proof covers them.
