------------------------------ MODULE IPClaim ------------------------------
(***************************************************************************)
(* How network interfaces, NAT gateways and load balancers get their       *)
(* public IPs when they are stored (internal/registry/ipallocator and the  *)
(* storages of these kinds).  A request names IPs to claim, or asks for an *)
(* ephemeral IP.  An IP is claimed by a patch of spec.claimRef, on the     *)
(* strength of what the lister of the server shows and without a lock; an  *)
(* ephemeral IP has an owner reference and no claim.  The transaction is   *)
(* committed or reverted by the generic store, which commits an update, or *)
(* a create by server-side apply, before it writes to etcd, and begins     *)
(* anew when that write conflicts.                                         *)
(***************************************************************************)
EXTENDS Naturals, SequencesExt

CONSTANTS
    Addr,         \* addresses of public IPs
    Owner,        \* UIDs of network interfaces, NAT gateways, load balancers
    LoadBalancer, \* those of load balancers
    Server,       \* API servers, each with a lister of its own
    Wants,        \* lists of requests an object may come with
    Ask,          \* a request without an address
    Nil,          \* no object, no claim
    InitialIPs,   \* addresses of the IPs a user has created
    MaxChurn,     \* bound: updates and deletions by users
    MaxFaults     \* bound: failing requests, conflicts, restarts

ASSUME WantsAssumption == Wants \subseteq Seq(Addr \union {Ask}) /\ Wants # {}
ASSUME ClaimAssumption ==
    LoadBalancer \subseteq Owner /\ InitialIPs \subseteq Addr /\ Ask \notin Addr /\ Nil \notin Owner /\ Nil \notin Addr
ASSUME ClaimBounds == MaxChurn \in Nat /\ MaxFaults \in Nat

VARIABLES
    ips,      \* ips[a]: the IP with address a
    cache,    \* cache[s][a]: the same in the lister of server s
    news,     \* news[s]: addresses whose IP changed and s was not told yet
    server,   \* server[c]: the server that serves the requests for c
    objs,     \* objs[c]: addresses of the object c, or Nil
    req,      \* req[c]: the request for c
    churn,    \* changes by users so far
    faults,   \* faults so far
    lost,     \* <<c, a>>: c has a known way of having lost a
    leaky,    \* objects with a request that broke off after a claim
    poisoned  \* <<s, a>>: a claim of a that was marked at s and not made

world == <<ips, cache, news>>
ghosts == <<lost, leaky, poisoned>>
vars == <<ips, cache, news, server, objs, req, churn, faults, lost, leaky, poisoned>>

Claimer == Owner \union {Nil}
IP == [claim : Claimer, owner : Claimer]
Free == {o \in IP : o.claim = Nil}

ASSUME NilObjectAssumption == Nil \notin IP /\ \A S \in SUBSET Addr : S # Nil

(* want, todo: the list of requests, and the positions in it that are left to
   allocate; next: where the request goes when its releases are done. *)
Request(pc) ==
    [pc |-> pc, next |-> pc, want |-> <<>>, todo |-> {}, got |-> {}, rel |-> {},
     addr |-> Nil, saw |-> Nil, data |-> Nil]

ClaimTypeOK ==
    /\ ips \in [Addr -> IP \union {Nil}]
    /\ cache \in [Server -> [Addr -> IP \union {Nil}]]
    /\ news \in [Server -> SUBSET Addr]
    /\ server \in [Owner -> Server]
    /\ objs \in [Owner -> (SUBSET Addr) \union {Nil}]
    /\ \A c \in Owner :
          /\ req[c].pc \in {"new", "idle", "gone", "alloc", "patch", "write", "release",
                            "delete", "unclaim"}
          /\ req[c].next \in {"new", "idle", "gone", "write"}
          /\ req[c].got \union req[c].rel \subseteq Addr
          /\ req[c].pc \in {"patch", "delete", "unclaim"} => req[c].addr \in Addr
          /\ req[c].pc = "idle" => objs[c] # Nil
          /\ req[c].pc \in {"new", "gone"} => objs[c] = Nil
    /\ churn \in 0 .. MaxChurn /\ faults \in 0 .. MaxFaults
    /\ lost \subseteq Owner \X Addr /\ leaky \subseteq Owner /\ poisoned \subseteq Server \X Addr

Init ==
    /\ ips = [a \in Addr |-> IF a \in InitialIPs THEN [claim |-> Nil, owner |-> Nil] ELSE Nil]
    /\ cache = [s \in Server |-> ips]
    /\ news = [s \in Server |-> {}]
    /\ server \in [Owner -> Server]
    /\ objs = [c \in Owner |-> Nil]
    /\ req = [c \in Owner |-> Request("new")]
    /\ churn = 0 /\ faults = 0
    /\ lost = {} /\ leaky = {} /\ poisoned = {}
-----------------------------------------------------------------------------
(***************************************************************************)
(* The IPs and the informers                                               *)
(***************************************************************************)

(* IP a becomes o, and the servers are to be told. *)
PutIP(a, o) ==
    /\ ips' = [ips EXCEPT ![a] = o]
    /\ news' = IF o = ips[a] THEN news ELSE [s \in Server |-> news[s] \union {a}]

Holders(a) == IF ips[a] = Nil THEN {} ELSE {ips[a].claim, ips[a].owner} \ {Nil}

(* The IP named by a look-up that found its owner to be o; the names of
   ephemeral IPs are random. *)
SameIP(a, o) == ips[a] # Nil /\ ips[a].owner = o

(* Mutant of Deliver: the lister keeps what it believes to be claimed. *)
DeliverUnclaimed(s, a) ==
    /\ a \in news[s]
    /\ news' = [news EXCEPT ![s] = @ \ {a}]
    /\ cache' = IF cache[s][a] # Nil /\ cache[s][a].claim # Nil THEN cache
                ELSE [cache EXCEPT ![s][a] = ips[a]]
    /\ UNCHANGED <<ips, server, objs, req, churn, faults, ghosts>>

Deliver(s, a) ==
    /\ a \in news[s]
    /\ news' = [news EXCEPT ![s] = @ \ {a}]
    /\ cache' = [cache EXCEPT ![s][a] = ips[a]]
    /\ poisoned' = poisoned \ {<<s, a>>}
    /\ UNCHANGED <<ips, server, objs, req, churn, faults, lost, leaky>>

Churn == churn < MaxChurn /\ churn' = churn + 1
Fault == faults < MaxFaults /\ faults' = faults + 1

(* A user deletes an IP, whoever uses it. *)
DeleteIP(a) ==
    /\ Churn
    /\ ips[a] # Nil
    /\ PutIP(a, Nil)
    /\ lost' = lost \union Holders(a) \X {a}
    /\ UNCHANGED <<cache, server, objs, req, faults, leaky, poisoned>>

(* The garbage collector of the cluster finds no owner of an ephemeral IP:
   there is none any more, or none yet, or it is a load balancer, which the
   reference looks for in the API group of onmetal-api. *)
CollectIP(a) ==
    /\ ips[a] # Nil /\ ips[a].owner # Nil
    /\ objs[ips[a].owner] = Nil \/ ips[a].owner \in LoadBalancer
    /\ PutIP(a, Nil)
    /\ lost' = lost \union Holders(a) \X {a}
    /\ UNCHANGED <<cache, server, objs, req, churn, faults, leaky, poisoned>>
-----------------------------------------------------------------------------
(***************************************************************************)
(* Requests                                                                *)
(***************************************************************************)

(* Request r with the addresses R to release; with none left it goes on. *)
Releasing(r, R) ==
    IF R # {} THEN [r EXCEPT !.pc = "release", !.rel = R, !.addr = Nil, !.saw = Nil]
    ELSE IF r.next = "write" THEN [r EXCEPT !.pc = "write", !.rel = {}, !.addr = Nil, !.saw = Nil]
    ELSE Request(r.next)

At(c, pc) == req[c].pc = pc
Set(c, r) == req' = [req EXCEPT ![c] = r]

(* AllocateCreate: every IP of the list is to be allocated. *)
AllocateCreate(c, w) ==
    /\ At(c, "new")
    /\ Set(c, [Request("alloc") EXCEPT !.want = w, !.todo = DOMAIN w, !.next = "gone"])
    /\ UNCHANGED <<world, server, objs, churn, faults, ghosts>>

(* AllocateUpdate: from the addresses of the old object and the requests of
   the new one.  An old address is kept once. *)
UpdateRequest(c, w) ==
    [Request("alloc") EXCEPT
        !.want = w, !.next = "idle",
        !.todo = {k \in DOMAIN w : w[k] \notin objs[c] \/ \E j \in 1 .. k - 1 : w[j] = w[k]},
        !.rel = objs[c] \ Range(w)]

AllocateUpdate(c, w) ==
    /\ Churn
    /\ At(c, "idle")
    /\ Set(c, UpdateRequest(c, w))
    /\ UNCHANGED <<world, server, objs, faults, ghosts>>

(* Mutant of DeleteObject: the IPs are released while finalizers still keep
   the object. *)
DeleteObjectKept(c) ==
    /\ Churn
    /\ At(c, "idle")
    /\ Set(c, Releasing(Request("gone"), objs[c]))
    /\ UNCHANGED <<world, server, objs, faults, ghosts>>

(* The object is gone from the store; afterDelete releases its IPs. *)
DeleteObject(c) ==
    /\ Churn
    /\ At(c, "idle")
    /\ objs' = [objs EXCEPT ![c] = Nil]
    /\ Set(c, Releasing(Request("gone"), objs[c]))
    /\ UNCHANGED <<world, server, faults, ghosts>>

(* Mutant of Refuse: all IPs that were asked for are released. *)
RefuseReleases(c) ==
    /\ Set(c, Releasing(Request(req[c].next), (req[c].got \union Range(req[c].want)) \ {Ask}))
    /\ UNCHANGED leaky

(* allocateIPs returns an error: what it allocated so far stays allocated. *)
Refuse(c) ==
    /\ Set(c, Request(req[c].next))
    /\ leaky' = IF req[c].got = {} THEN leaky ELSE leaky \union {c}

Allocated(c, a) ==
    Set(c, [req[c] EXCEPT !.pc = "alloc", !.got = @ \union {a},
                       !.todo = {k \in @ : \E j \in @ : j < k},
                       !.addr = Nil, !.saw = Nil, !.data = Nil])

(* The request that is next. *)
Wanted(c, x) ==
    /\ At(c, "alloc")
    /\ \E k \in req[c].todo : (\A j \in req[c].todo : k <= j) /\ req[c].want[k] = x

Cached(c, a) == cache[server[c]][a]

(* Requests on the same server that have changed the object of the lister
   for a just now.  There is no lock: c may read it as it was before, and
   they may overwrite what c writes before c reads it back. *)
Racing(c, a) ==
    {d \in Owner \ {c} : At(d, "patch") /\ req[d].addr = a /\ server[d] = server[c]}

LooksFree(c, a) ==
    \/ Cached(c, a) \in Free
    \/ Cached(c, a) # Nil /\ Cached(c, a).claim \in Racing(c, a)

(* Mutant of claimIP: a claim in the lister is no obstacle. *)
claimIPUnchecked(c, a) ==
    /\ Wanted(c, a)
    /\ Cached(c, a) # Nil
    /\ cache' = [cache EXCEPT ![server[c]][a].claim = c]
    /\ Set(c, [req[c] EXCEPT !.pc = "patch", !.addr = a, !.saw = Cached(c, a), !.data = c])
    /\ UNCHANGED <<ips, news, server, objs, churn, faults, ghosts>>

(* claimIP up to the patch.  The object of the lister is changed in place. *)
claimIP(c, a) ==
    /\ Wanted(c, a)
    /\ LooksFree(c, a)
    /\ cache' = [cache EXCEPT ![server[c]][a].claim = c]
    /\ \E d \in Racing(c, a) \union {c} :
          Set(c, [req[c] EXCEPT !.pc = "patch", !.addr = a, !.data = d,
                                !.saw = [Cached(c, a) EXCEPT !.claim = Nil]])
    /\ UNCHANGED <<ips, news, server, objs, churn, faults, ghosts>>

(* ErrNotFound or ErrAllocated, from what the lister shows. *)
NotClaimable(c, a) ==
    /\ Wanted(c, a)
    /\ Cached(c, a) \notin Free
    /\ Refuse(c)
    /\ UNCHANGED <<world, server, objs, churn, faults, lost, poisoned>>

(* c's patch writes the claim of d.  Whoever had the claim has lost it if
   c could not have seen it. *)
Claims(c, a, d) ==
    /\ PutIP(a, [ips[a] EXCEPT !.claim = d])
    /\ LET ousted == {x \in Holders(a) : x = ips[a].claim /\ x # d /\ x # req[c].saw.claim}
       IN lost' = lost \union (ousted \union ({c} \ {d})) \X {a}

(* The patch succeeds. *)
PatchClaim(c) ==
    LET a == req[c].addr
    IN /\ At(c, "patch")
       /\ \/ /\ SameIP(a, req[c].saw.owner)
             /\ Claims(c, a, req[c].data)
             /\ Allocated(c, a)
             /\ leaky' = IF req[c].data = c THEN leaky ELSE leaky \union {req[c].data}
          \/ /\ ~SameIP(a, req[c].saw.owner)
             /\ Refuse(c)
             /\ UNCHANGED <<ips, news, lost>>
       /\ UNCHANGED <<cache, server, objs, churn, faults, poisoned>>

(* The patch fails, or only its answer is lost.  The lister keeps showing
   the claim. *)
PatchFails(c) ==
    LET a == req[c].addr
    IN /\ Fault
       /\ At(c, "patch")
       /\ Set(c, Request(req[c].next))
       /\ \/ /\ UNCHANGED <<ips, news, lost>>
             /\ poisoned' = poisoned \union {<<server[c], a>>}
             /\ leaky' = IF req[c].got = {} THEN leaky ELSE leaky \union {c}
          \/ /\ SameIP(a, req[c].saw.owner)
             /\ Claims(c, a, req[c].data)
             /\ leaky' = leaky \union {c, req[c].data}
             /\ UNCHANGED poisoned
       /\ UNCHANGED <<cache, server, objs, churn>>

(* Only the owner reference tells whose it is. *)
Ephemeral(c) == [claim |-> Nil, owner |-> c]

(* The IP is stored under an address that is free; see IPAllocation. *)
createEphemeralIP(c, a) ==
    /\ Wanted(c, Ask)
    /\ ips[a] = Nil
    /\ PutIP(a, Ephemeral(c))
    /\ Allocated(c, a)
    /\ UNCHANGED <<cache, server, objs, churn, faults, ghosts>>

(* There is no free address, or the request fails, or its answer is lost. *)
NoEphemeralIP(c) ==
    /\ Wanted(c, Ask)
    /\ \/ (\A a \in Addr : ips[a] # Nil) /\ UNCHANGED <<ips, news, faults>>
       \/ Fault /\ UNCHANGED <<ips, news>>
       \/ Fault /\ \E a \in Addr : ips[a] = Nil /\ PutIP(a, Ephemeral(c))
    /\ Refuse(c)
    /\ UNCHANGED <<cache, server, objs, churn, lost, poisoned>>
-----------------------------------------------------------------------------
(***************************************************************************)
(* The generic store, commit and revert                                    *)
(***************************************************************************)

Updating(c) == objs[c] # Nil
Done(c) == At(c, "alloc") /\ req[c].todo = {}

(* Mutant of Begun: a create that is refused gives nothing back. *)
BegunKeeps(c, ok) ==
    /\ Done(c)
    /\ Set(c, Releasing([req[c] EXCEPT !.next = IF ok THEN "write" ELSE @], req[c].rel))
    /\ UNCHANGED <<world, server, objs, churn, faults, ghosts>>

(* All IPs are allocated and the object is validated.  If it is valid an
   update is committed: the addresses it gives up are released.  If not, a
   create gives back what it got, and an update releases the addresses that
   the object was to give up and still has. *)
Begun(c, ok) ==
    /\ Done(c)
    /\ \/ /\ ok
          /\ Set(c, Releasing([req[c] EXCEPT !.next = "write"], req[c].rel))
          /\ UNCHANGED <<lost, leaky>>
       \/ /\ ~ok /\ ~Updating(c)
          /\ Set(c, Releasing(req[c], req[c].got))
          /\ UNCHANGED <<lost, leaky>>
       \/ /\ ~ok /\ Updating(c)
          /\ Set(c, Releasing(req[c], req[c].rel))
          /\ lost' = lost \union {c} \X req[c].rel
          /\ leaky' = IF req[c].got = {} THEN leaky ELSE leaky \union {c}
    /\ UNCHANGED <<world, server, objs, churn, faults, poisoned>>

(* What the object has once it is written. *)
NewIPs(c) == req[c].got \union (IF Updating(c) THEN objs[c] \intersect Range(req[c].want) ELSE {})

Write(c) ==
    /\ At(c, "write")
    /\ objs' = [objs EXCEPT ![c] = NewIPs(c)]
    /\ Set(c, Request("idle"))
    /\ UNCHANGED <<world, server, churn, faults, ghosts>>

(* etcd answers with an error, whether or not it has written the object: a
   POST gives its IPs back; an update, or a create by apply, was committed
   and is over. *)
WriteFails(c) ==
    /\ Fault
    /\ At(c, "write")
    /\ \E written \in BOOLEAN :
          LET after == Request(IF written \/ Updating(c) THEN "idle" ELSE "gone") IN
          /\ objs' = IF written THEN [objs EXCEPT ![c] = NewIPs(c)] ELSE objs
          /\ \/ /\ Set(c, after)
                /\ lost' = IF written \/ ~Updating(c) THEN lost
                           ELSE lost \union {c} \X (objs[c] \ Range(req[c].want))
                /\ leaky' = IF written \/ req[c].got = {} THEN leaky ELSE leaky \union {c}
             \/ /\ ~Updating(c)
                /\ Set(c, Releasing(after, req[c].got))
                /\ lost' = IF written THEN lost \union {c} \X req[c].got ELSE lost
                /\ UNCHANGED leaky
    /\ UNCHANGED <<world, server, churn, poisoned>>

(* The write of an update conflicts: everything is done once more.  (A create
   by apply is done once more for another UID, as a request of its own.) *)
Rerun(c) ==
    /\ Fault
    /\ At(c, "write") /\ Updating(c)
    /\ Set(c, UpdateRequest(c, req[c].want))
    /\ lost' = lost \union {c} \X (objs[c] \ Range(req[c].want))
    /\ leaky' = IF req[c].got = {} THEN leaky ELSE leaky \union {c}
    /\ UNCHANGED <<world, server, objs, churn, poisoned>>
-----------------------------------------------------------------------------
(***************************************************************************)
(* release                                                                 *)
(***************************************************************************)

Released(c, a) == Set(c, Releasing(req[c], req[c].rel \ {a}))

(* getIPFromClient: a controlled IP is taken for an ephemeral one. *)
release(c, a) ==
    /\ At(c, "release") /\ a \in req[c].rel
    /\ IF ips[a] = Nil \/ (ips[a].owner = Nil /\ ips[a].claim = Nil) THEN Released(c, a)
       ELSE Set(c, [req[c] EXCEPT !.pc = IF ips[a].owner # Nil THEN "delete" ELSE "unclaim",
                                  !.addr = a, !.saw = ips[a]])
    /\ UNCHANGED <<world, server, objs, churn, faults, ghosts>>

(* Delete by name, whoever uses the IP. *)
DeleteEphemeral(c) ==
    LET a == req[c].addr
    IN /\ At(c, "delete")
       /\ IF SameIP(a, req[c].saw.owner)
          THEN PutIP(a, Nil) /\ lost' = lost \union (Holders(a) \ {c}) \X {a}
          ELSE UNCHANGED <<ips, news, lost>>
       /\ Released(c, a)
       /\ UNCHANGED <<cache, server, objs, churn, faults, leaky, poisoned>>

(* releaseIP: the claim is cleared, whosever it is by now. *)
releaseIP(c) ==
    LET a == req[c].addr
    IN /\ At(c, "unclaim")
       /\ IF SameIP(a, Nil)
          THEN /\ PutIP(a, [ips[a] EXCEPT !.claim = Nil])
               /\ lost' = IF <<c, a>> \in lost THEN lost \union Holders(a) \X {a} ELSE lost
          ELSE UNCHANGED <<ips, news, lost>>
       /\ Released(c, a)
       /\ UNCHANGED <<cache, server, objs, churn, faults, leaky, poisoned>>

(* An error is logged and forgotten. *)
ReleaseFails(c) ==
    /\ Fault
    /\ req[c].pc \in {"delete", "unclaim"}
    /\ Released(c, req[c].addr)
    /\ leaky' = leaky \union {c}
    /\ UNCHANGED <<world, server, objs, churn, lost, poisoned>>

(* A server stops: its requests are gone, and its informer lists the IPs. *)
Crash(s) ==
    LET broken == {c \in Owner : server[c] = s /\ req[c].pc \notin {"new", "idle", "gone"}}
    IN /\ Fault
       /\ req' = [c \in Owner |->
                    IF c \in broken THEN Request(IF Updating(c) THEN "idle" ELSE "gone")
                    ELSE req[c]]
       /\ cache' = [cache EXCEPT ![s] = ips]
       /\ news' = [news EXCEPT ![s] = {}]
       /\ poisoned' = {x \in poisoned : x[1] # s}
       /\ leaky' = leaky \union broken
       /\ lost' = lost \union UNION {{c} \X (objs[c] \ Range(req[c].want)) :
                                        c \in {d \in broken : Updating(d)}}
       /\ UNCHANGED <<ips, server, objs, churn>>
-----------------------------------------------------------------------------
User(c) ==
    \/ \E w \in Wants : AllocateCreate(c, w) \/ AllocateUpdate(c, w)
    \/ DeleteObject(c)

Allocate(c) ==
    \/ \E a \in Addr : claimIP(c, a) \/ NotClaimable(c, a) \/ createEphemeralIP(c, a)
    \/ PatchClaim(c) \/ NoEphemeralIP(c)

Serve(c) ==
    \/ Allocate(c)
    \/ \E ok \in BOOLEAN : Begun(c, ok)
    \/ Write(c)
    \/ \E a \in Addr : release(c, a)
    \/ DeleteEphemeral(c) \/ releaseIP(c)

Fails(c) == PatchFails(c) \/ WriteFails(c) \/ Rerun(c) \/ ReleaseFails(c)

Next ==
    \/ \E c \in Owner : User(c) \/ Serve(c) \/ Fails(c)
    \/ \E s \in Server : Crash(s) \/ \E a \in Addr : Deliver(s, a)
    \/ \E a \in Addr : DeleteIP(a) \/ CollectIP(a)

Spec == Init /\ [][Next]_vars
-----------------------------------------------------------------------------
(***************************************************************************)
(* Properties                                                              *)
(***************************************************************************)

(* An update that gives up a is committed and about to be written. *)
GivesUp(c, a) == req[c].next = "write" /\ a \notin Range(req[c].want)

(* An object that is stored has its IPs: each exists and is claimed by the
   object, or is its ephemeral IP.  The exceptions are named by lost: a claim
   that was made over it by somebody who looked before it could be seen, an
   update that released and was then not written, a write that failed and
   was written nevertheless, and an IP that was deleted by its user, by the
   garbage collector, or by somebody who had claimed the ephemeral IP. *)
ClaimBacked ==
    \A c \in Owner : objs[c] # Nil =>
       \A a \in objs[c] : <<c, a>> \in lost \/ c \in Holders(a) \/ GivesUp(c, a)

(* A release, which looks an IP up by its address and not at who claims it,
   takes nobody else's IP away, unless the object had itself lost it. *)
ReleasesOwn ==
    [][\A c \in Owner, a \in Addr :
          req[c].pc \in {"delete", "unclaim"} /\ req[c].addr = a /\ req'[c] # req[c]
             /\ ips'[a] # ips[a]
          => c \in Holders(a) \/ <<c, a>> \in lost]_vars

Quiet ==
    /\ \A c \in Owner : req[c].pc \in {"new", "idle", "gone"}
    /\ \A s \in Server : news[s] = {}

(* When all is quiet a claim belongs to an object that uses the IP, but for
   objects one of whose requests broke off after a claim: nothing collects
   such claims. *)
ClaimsUsed ==
    Quiet => \A a \in Addr :
       ips[a] # Nil /\ ips[a].claim # Nil =>
          LET c == ips[a].claim IN c \in leaky \/ (objs[c] # Nil /\ a \in objs[c])

(* When all is quiet an IP that is free looks free to every server, although
   claimIP changes the objects of the lister in place, unless its patch
   failed. *)
FreeLooksFree ==
    Quiet => \A s \in Server, a \in Addr :
       ips[a] \in Free => <<s, a>> \in poisoned \/ cache[s][a] \in Free
=============================================================================
