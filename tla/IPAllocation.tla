---------------------------- MODULE IPAllocation ----------------------------
(***************************************************************************)
(* Creation and deletion of IP objects by the aggregated API server        *)
(* (internal/registry/ip/storage.go) and the allocator behind it           *)
(* (internal/registry/ip/ipaddressallocator/ipaddressallocator.go).        *)
(*                                                                         *)
(* A create request first reserves an address by creating the cluster      *)
(* scoped IPAddress object named after it, and stores the IP object only   *)
(* afterwards; a delete request removes the IP object first and its        *)
(* IPAddress afterwards.  The steps of different requests interleave, any  *)
(* of them may fail, and the server may stop between any two.              *)
(*                                                                         *)
(* The API server gives every create request a fresh UID before anything   *)
(* else happens, and at most one delete request removes the object, so the *)
(* UID names the request, the IP object and its deletion alike.            *)
(***************************************************************************)
EXTENDS Naturals

CONSTANTS
    UID,            \* UIDs of IP objects ever requested
    Name,           \* namespace/name keys of IP objects
    First, Last,    \* first and last address of the configured prefix
    FullWidth,      \* the first address whose first byte is not 0
    Top,            \* the last address of the address space
    NoUID           \* no object

ASSUME RangeAssumption ==
    /\ First \in Nat /\ Last \in Nat /\ FullWidth \in Nat /\ Top \in Nat
    /\ 0 < First /\ First <= Last /\ Last <= Top
ASSUME NoUIDAssumption == NoUID \notin UID

VARIABLES
    ipAddresses,  \* ipAddresses[a]: spec.claimRef.uid of the IPAddress named a
    ips,          \* ips[n]: UID of the IP object stored under key n
    pc,           \* where the request for u, or its deletion, stands
    name,         \* name[u]: metadata.name of the IP
    ip,           \* ip[u]: the address under consideration, then spec.ip
    start,        \* start[u]: where the address iterator of u started
    explicit,     \* explicit[u]: the request came with spec.ip set
    tried         \* tried[u]: the addresses u's iterator has left behind

etcd == <<ipAddresses, ips>>
request == <<pc, name, ip, start, explicit, tried>>
vars == <<ipAddresses, ips, pc, name, ip, start, explicit, tried>>

(* The prefix the allocator serves, and the addresses a request may ask
   for: one outside the prefix on either side, where there is one, is
   enough. *)
Prefix == First .. Last
Addr == {a \in (First - 1) .. (Last + 1) : a <= Top}

ASSUME NoAddressAssumption == NoUID \notin Addr

PC == {"new",         \* not requested yet
       "get",         \* allocateFromIterator, before the Get of ip[u]
       "create",      \* before the Create of the IPAddress ip[u]
       "allocated",   \* beginCreate returned, the IP object is not stored yet
       "stored",      \* the IP object exists
       "rollback",    \* the create failed, before finish(false)
       "deleted",     \* the IP object is gone, before afterDelete
       "full",        \* the create was refused with ErrFull
       "refused",     \* the create was refused with another error
       "done"}        \* nothing left to do for u

(* The request, or the deletion, is being worked on by a server. *)
InFlight == {"get", "create", "allocated", "rollback", "deleted"}

(* The IP object has been given ip[u], and has not given it back. *)
Holding == {"allocated", "stored", "rollback", "deleted"}

TypeOK ==
    /\ ipAddresses \in [Addr -> UID \union {NoUID}]
    /\ ips \in [Name -> UID \union {NoUID}]
    /\ pc \in [UID -> PC]
    /\ name \in [UID -> Name]
    /\ ip \in [UID -> Addr]
    /\ start \in [UID -> Addr]
    /\ explicit \in [UID -> BOOLEAN]
    /\ tried \in [UID -> SUBSET Addr]

Init ==
    /\ ipAddresses = [a \in Addr |-> NoUID]
    /\ ips = [n \in Name |-> NoUID]
    /\ pc = [u \in UID |-> "new"]
    /\ name \in [UID -> Name]
    /\ ip = [u \in UID |-> First]
    /\ start = [u \in UID |-> First]
    /\ explicit = [u \in UID |-> FALSE]
    /\ tried = [u \in UID |-> {}]
-----------------------------------------------------------------------------
(***************************************************************************)
(* beginCreate                                                             *)
(***************************************************************************)

(* spec.ip is set: Allocate checks the range before anything else. *)
BeginExplicit(u, a) ==
    /\ pc[u] = "new"
    /\ ~(a < First \/ Last < a)
    /\ explicit' = [explicit EXCEPT ![u] = TRUE]
    /\ ip' = [ip EXCEPT ![u] = a]
    /\ pc' = [pc EXCEPT ![u] = "create"]
    /\ UNCHANGED <<etcd, name, start, tried>>

(* ErrNotInRange *)
RefuseExplicit(u, a) ==
    /\ pc[u] = "new"
    /\ a < First \/ Last < a
    /\ pc' = [pc EXCEPT ![u] = "refused"]
    /\ UNCHANGED <<etcd, name, ip, start, explicit, tried>>

(* spec.ip is not set: AllocateNext starts at a random offset.  An address
   is computed as a number and read back from its bytes, without leading
   zeros; with a first byte of 0 they are too few, and the iterator that
   ipIterator returns after this error ends before it has begun. *)
BeginNext(u, s) ==
    /\ pc[u] = "new"
    /\ start' = [start EXCEPT ![u] = s]
    /\ ip' = [ip EXCEPT ![u] = s]
    /\ \/ s >= FullWidth /\ pc' = [pc EXCEPT ![u] = "get"]
       \/ s < FullWidth /\ pc' = [pc EXCEPT ![u] = "full"]
    /\ UNCHANGED <<etcd, name, explicit, tried>>

(* Mutant of NextAddr: never wraps. *)
NextAddrUnbounded(a) == a + 1

(* The address after a; there is no modulo for addresses. *)
NextAddr(a) == IF a + 1 > Last THEN First ELSE a + 1

(* Mutant of Ends: the scan is over at the end of the prefix. *)
EndsAtLast(u) == ip[u] = Last

(* The iterator is back at start; or it is at the end of the address space,
   where netip's Next returns an invalid address, which no comparison turns
   into the first of the prefix and which ends the scan. *)
Ends(u) == ip[u] = Top \/ NextAddr(ip[u]) = start[u]

(* Mutant of Advance: the iterator does not remember where it started. *)
AdvanceForever(u) ==
    /\ tried' = [tried EXCEPT ![u] = @ \union {ip[u]}]
    /\ ip' = [ip EXCEPT ![u] = NextAddr(ip[u])]
    /\ pc' = [pc EXCEPT ![u] = "get"]
    /\ UNCHANGED <<name, start, explicit>>

(* "continue": the iterator moves on, or ends with ErrFull. *)
Advance(u) ==
    /\ tried' = [tried EXCEPT ![u] = @ \union {ip[u]}]
    /\ \/ /\ Ends(u)
          /\ pc' = [pc EXCEPT ![u] = "full"]
          /\ UNCHANGED ip
       \/ /\ ~Ends(u)
          /\ pc' = [pc EXCEPT ![u] = "get"]
          /\ ip' = [ip EXCEPT ![u] = NextAddr(ip[u])]
    /\ UNCHANGED <<name, start, explicit>>

(* What a request knows besides the address is gone with beginCreate. *)
EndBegin(u) ==
    /\ start' = [start EXCEPT ![u] = First]
    /\ explicit' = [explicit EXCEPT ![u] = FALSE]
    /\ tried' = [tried EXCEPT ![u] = {}]

(* The request is over, and what it knew is gone. *)
End(u, how) ==
    /\ pc' = [pc EXCEPT ![u] = how]
    /\ ip' = [ip EXCEPT ![u] = First]
    /\ EndBegin(u)
    /\ UNCHANGED name

(* An address that is not taken at the time of the Get is worth a Create. *)
Get(u) ==
    /\ pc[u] = "get"
    /\ \/ /\ ipAddresses[ip[u]] = NoUID
          /\ pc' = [pc EXCEPT ![u] = "create"]
          /\ UNCHANGED <<name, ip, start, explicit, tried>>
       \/ /\ ipAddresses[ip[u]] # NoUID
          /\ Advance(u)
    /\ UNCHANGED etcd

(* The Get fails for another reason than NotFound. *)
GetError(u) ==
    /\ pc[u] = "get"
    /\ Advance(u)
    /\ UNCHANGED etcd

(* Mutant of CreateFails: an explicit request whose Create fails goes
   through finish(false). *)
CreateFailsReleases(u) ==
    \/ /\ explicit[u]
       /\ pc' = [pc EXCEPT ![u] = "rollback"]
       /\ UNCHANGED <<name, ip, start, explicit, tried>>
    \/ ~explicit[u] /\ Advance(u)

(* A failed Create ends an explicit request and moves the iterator on. *)
CreateFails(u) ==
    \/ explicit[u] /\ End(u, "refused")
    \/ ~explicit[u] /\ Advance(u)

(* Mutant of CreateIPAddress: an update, relying on the earlier Get. *)
CreateIPAddressUnchecked(u) ==
    /\ pc[u] = "create"
    /\ ipAddresses' = [ipAddresses EXCEPT ![ip[u]] = u]
    /\ pc' = [pc EXCEPT ![u] = "allocated"]
    /\ EndBegin(u)
    /\ UNCHANGED <<ips, name, ip>>

(* createIPAddress: the Create succeeds only if no such IPAddress exists. *)
CreateIPAddress(u) ==
    /\ pc[u] = "create"
    /\ \/ /\ ipAddresses[ip[u]] = NoUID
          /\ ipAddresses' = [ipAddresses EXCEPT ![ip[u]] = u]
          /\ pc' = [pc EXCEPT ![u] = "allocated"]
          /\ EndBegin(u)
          /\ UNCHANGED <<name, ip>>
       \/ /\ ipAddresses[ip[u]] # NoUID
          /\ CreateFails(u)
          /\ UNCHANGED ipAddresses
    /\ UNCHANGED ips

(* The Create returns an error other than AlreadyExists; the IPAddress may
   have been created all the same when only the answer was lost. *)
CreateIPAddressError(u) ==
    /\ pc[u] = "create"
    /\ CreateFails(u)
    /\ \/ UNCHANGED ipAddresses
       \/ /\ ipAddresses[ip[u]] = NoUID
          /\ ipAddresses' = [ipAddresses EXCEPT ![ip[u]] = u]
    /\ UNCHANGED ips
-----------------------------------------------------------------------------
(***************************************************************************)
(* The generic store around the hooks, and afterDelete                     *)
(***************************************************************************)

(* Mutant of StoreIP: the write replaces an object of the same key. *)
StoreIPReplaces(u) ==
    /\ pc[u] = "allocated"
    /\ ips' = [ips EXCEPT ![name[u]] = u]
    /\ pc' = [pc EXCEPT ![u] = "stored"]
    /\ UNCHANGED <<ipAddresses, name, ip, start, explicit, tried>>

(* The IP object is written unless its key is taken. *)
StoreIP(u) ==
    /\ pc[u] = "allocated"
    /\ \/ /\ ips[name[u]] = NoUID
          /\ ips' = [ips EXCEPT ![name[u]] = u]
          /\ pc' = [pc EXCEPT ![u] = "stored"]
       \/ /\ ips[name[u]] # NoUID
          /\ pc' = [pc EXCEPT ![u] = "rollback"]
          /\ UNCHANGED ips
    /\ UNCHANGED <<ipAddresses, name, ip, start, explicit, tried>>

(* Validation or the write fails. *)
StoreIPError(u) ==
    /\ pc[u] = "allocated"
    /\ pc' = [pc EXCEPT ![u] = "rollback"]
    /\ UNCHANGED <<etcd, name, ip, start, explicit, tried>>

(* Release deletes the IPAddress by its name, whoever it is claimed by. *)
Release(u) == ipAddresses' = [ipAddresses EXCEPT ![ip[u]] = NoUID]

(* finish(false) *)
Rollback(u) ==
    /\ pc[u] = "rollback"
    /\ Release(u)
    /\ End(u, "done")
    /\ UNCHANGED ips

(* Mutant of DeleteIP: the address is released before the object goes. *)
DeleteIPAfterRelease(u) ==
    /\ pc[u] = "stored"
    /\ \/ /\ ipAddresses[ip[u]] = u
          /\ Release(u)
          /\ UNCHANGED <<ips, request>>
       \/ /\ ipAddresses[ip[u]] # u
          /\ ips' = [ips EXCEPT ![name[u]] = NoUID]
          /\ End(u, "done")
          /\ UNCHANGED ipAddresses

(* The IP object is removed from the store. *)
DeleteIP(u) ==
    /\ pc[u] = "stored"
    /\ ips' = [ips EXCEPT ![name[u]] = NoUID]
    /\ pc' = [pc EXCEPT ![u] = "deleted"]
    /\ UNCHANGED <<ipAddresses, name, ip, start, explicit, tried>>

(* afterDelete *)
AfterDelete(u) ==
    /\ pc[u] = "deleted"
    /\ Release(u)
    /\ End(u, "done")
    /\ UNCHANGED ips

(* The Delete in Release fails: the error is logged and swallowed. *)
ReleaseError(u) ==
    /\ pc[u] \in {"rollback", "deleted"}
    /\ End(u, "done")
    /\ UNCHANGED etcd

(* The API server stops while it works on u; what it had written stays. *)
Crash(u) ==
    /\ pc[u] \in InFlight
    /\ End(u, "done")
    /\ UNCHANGED etcd
-----------------------------------------------------------------------------
Begin(u) ==
    \/ \E a \in Addr : BeginExplicit(u, a) \/ RefuseExplicit(u, a)
    \/ \E s \in Prefix : BeginNext(u, s)

(* What a running server does for a request once it has begun. *)
Serve(u) ==
    \/ Get(u) \/ GetError(u)
    \/ CreateIPAddress(u) \/ CreateIPAddressError(u)
    \/ StoreIP(u) \/ StoreIPError(u) \/ Rollback(u)
    \/ AfterDelete(u) \/ ReleaseError(u)

Next == \E u \in UID : Begin(u) \/ Serve(u) \/ DeleteIP(u) \/ Crash(u)

(* A request that has begun is worked on until it is answered; nobody has
   to make or delete IPs, and a server does not have to crash. *)
Fairness == \A u \in UID : WF_vars(Serve(u))

Spec == Init /\ [][Next]_vars /\ Fairness
-----------------------------------------------------------------------------
(***************************************************************************)
(* Properties                                                              *)
(***************************************************************************)

(* No two IP objects that exist at the same time have the same address:
   what the whole reserve-then-store protocol of beginCreate is for. *)
AddressesUnique ==
    \A u, v \in UID : pc[u] = "stored" /\ pc[v] = "stored" /\ ip[u] = ip[v] => u = v

(* From the moment beginCreate returns until the address is given back, the
   IPAddress named after it exists and is claimed by this very IP: neither
   another request, its rollback, nor a late afterDelete takes it away. *)
HeldByClaimer ==
    \A u \in UID : pc[u] \in Holding => ipAddresses[ip[u]] = u

(* The store has an IP object under a key exactly when the request for it
   got as far as storing it, so a failed create never leaves one behind and
   a later delete finds the object it is for. *)
StoreAgrees ==
    \A n \in Name, u \in UID : ips[n] = u <=> pc[u] = "stored" /\ name[u] = n

(* What an iterator that starts at s looks at before it ends: the whole
   prefix, save at the two edges of the address space. *)
Scan(s) == IF s < FullWidth THEN {} ELSE IF Last = Top THEN s .. Last ELSE Prefix

(* ErrFull ("all IPs are allocated") comes only after the iterator, wherever
   it started, has looked at every address of the prefix, with exactly two
   exceptions: a start whose first byte is 0, from which nothing is tried,
   and a prefix that ends with the address space, of which what lies before
   the start is not tried. *)
FullMeansAllTried ==
    \A u \in UID : pc[u] = "full" => tried[u] = Scan(start[u])

(* Release deletes by name without looking at the claimer; still, an
   IPAddress only ever goes away by the hand of the IP it is claimed by, and
   its claimer never changes while it exists. *)
ReleasesOnlyOwn ==
    [][\A a \in Addr :
          ipAddresses[a] # NoUID /\ ipAddresses'[a] # ipAddresses[a] =>
             /\ ipAddresses'[a] = NoUID
             /\ pc[ipAddresses[a]] \in {"rollback", "deleted"}
             /\ ip[ipAddresses[a]] = a]_vars

(* Every create and delete the server works on is answered: the scan for a
   vacant address ends even while others keep taking and freeing them. *)
RequestsAnswered ==
    \A u \in UID : pc[u] \in InFlight ~> pc[u] \notin InFlight

(* The addresses of the IP objects that exist. *)
Seen == [u \in UID |-> IF pc[u] = "stored" THEN ip[u] ELSE NoUID]

(* The promise of the IP API: IP objects and their addresses as a user sees
   them, with reservations, rollbacks and releases hidden. *)
Assignment == INSTANCE AddressAssignment WITH
    Owner <- UID,
    Address <- Addr,
    NoAddress <- NoUID,
    assigned <- Seen

(* What users see of IP creation and deletion is an assignment of addresses
   in which nobody is given an address another existing IP has. *)
ImplementsAssignment == Assignment!Spec
=============================================================================
