------------------------ MODULE IPAllocationProofs ------------------------
(***************************************************************************)
(* The allocator alone keeps addresses apart, for any number of requests,  *)
(* keys and addresses: type correctness, the inductive invariant behind    *)
(* HeldByClaimer and StoreAgrees, completeness of the scan, and that the   *)
(* protocol implements the abstract assignment of addresses.               *)
(***************************************************************************)
EXTENDS IPAllocation, TLAPS

(* The addresses an iterator started at s has left behind when at i. *)
Behind(s, i) == IF s <= i THEN s .. (i - 1) ELSE (s .. Last) \union (First .. (i - 1))

(* A scan is inside the prefix, has tried what it has left behind, and has
   not gone round where the prefix ends with the address space. *)
Scanning(u) ==
    /\ start[u] \in Prefix /\ start[u] >= FullWidth
    /\ ip[u] \in Prefix
    /\ Last = Top => start[u] <= ip[u]
    /\ tried[u] = Behind(start[u], ip[u])

(* What holds of u's iterator while the request runs. *)
ScanInv ==
    \A u \in UID :
       /\ pc[u] = "new" => ~explicit[u] /\ tried[u] = {}
       /\ pc[u] = "get" => ~explicit[u]
       /\ pc[u] \in {"get", "create"} /\ ~explicit[u] => Scanning(u)

-----------------------------------------------------------------------------
(* The prefix lies inside the addresses that can be asked for. *)
LEMMA PrefixInAddr == First \in Prefix /\ Prefix \subseteq Addr
  BY RangeAssumption DEF Prefix, Addr

(* NextAddr never leaves the prefix. *)
LEMMA NextAddrInPrefix ==
  ASSUME NEW a \in Addr
  PROVE  NextAddr(a) \in Prefix
  BY RangeAssumption DEF NextAddr, Prefix, Addr

(* One step of the iterator: either it ends, and has then left behind what a
   scan from its start can, or it leaves one more address behind. *)
LEMMA IteratorStep ==
  ASSUME NEW s \in Prefix, NEW i \in Prefix, s >= FullWidth, Last = Top => s <= i
  PROVE  IF i = Top \/ NextAddr(i) = s
         THEN Behind(s, i) \union {i} = Scan(s)
         ELSE /\ Behind(s, i) \union {i} = Behind(s, NextAddr(i))
              /\ Last = Top => s <= NextAddr(i)
  BY RangeAssumption DEF NextAddr, Prefix, Behind, Scan

(* An iterator that has not moved has left nothing behind. *)
LEMMA IteratorStart ==
  ASSUME NEW s \in Prefix
  PROVE  Behind(s, s) = {}
  BY RangeAssumption DEF Prefix, Behind

-----------------------------------------------------------------------------
(* The part of TypeOK about the requests' own variables. *)
RequestTypeOK ==
    /\ pc \in [UID -> PC]
    /\ name \in [UID -> Name]
    /\ ip \in [UID -> Addr]
    /\ start \in [UID -> Addr]
    /\ explicit \in [UID -> BOOLEAN]
    /\ tried \in [UID -> SUBSET Addr]

(* The three ways a request's own variables change keep their types. *)
LEMMA AdvanceType ==
  ASSUME TypeOK, NEW u \in UID, Advance(u)
  PROVE  RequestTypeOK'
  BY PrefixInAddr, NextAddrInPrefix DEF Advance, TypeOK, RequestTypeOK, PC

LEMMA EndType ==
  ASSUME TypeOK, NEW u \in UID, NEW how \in PC, End(u, how)
  PROVE  RequestTypeOK'
  BY PrefixInAddr DEF End, EndBegin, TypeOK, RequestTypeOK

LEMMA CreateFailsType ==
  ASSUME TypeOK, NEW u \in UID, CreateFails(u)
  PROVE  RequestTypeOK'
  BY AdvanceType, EndType DEF CreateFails, PC

(* A step of the protocol keeps the types. *)
LEMMA NextType == TypeOK /\ [Next]_vars => TypeOK'
<1> SUFFICES ASSUME TypeOK, [Next]_vars PROVE TypeOK'
  OBVIOUS
<1>1. ASSUME NEW u \in UID, NEW a \in Addr, BeginExplicit(u, a) \/ RefuseExplicit(u, a)
      PROVE  TypeOK'
  BY <1>1 DEF BeginExplicit, RefuseExplicit, TypeOK, PC, etcd
<1>2. ASSUME NEW u \in UID, NEW s \in Prefix, BeginNext(u, s)
      PROVE  TypeOK'
  BY <1>2, PrefixInAddr DEF BeginNext, TypeOK, PC, etcd
<1>3. ASSUME NEW u \in UID, Get(u) \/ GetError(u)
      PROVE  TypeOK'
  BY <1>3, AdvanceType DEF Get, GetError, TypeOK, RequestTypeOK, PC, etcd
<1>4. ASSUME NEW u \in UID, CreateIPAddress(u)
      PROVE  TypeOK'
  <2>1. CASE ipAddresses[ip[u]] = NoUID
    <3>1. /\ ipAddresses' = [ipAddresses EXCEPT ![ip[u]] = u]
          /\ pc' = [pc EXCEPT ![u] = "allocated"]
          /\ EndBegin(u)
          /\ UNCHANGED <<ips, name, ip>>
      BY <1>4, <2>1 DEF CreateIPAddress
    <3>2. /\ start' \in [UID -> Addr] /\ explicit' \in [UID -> BOOLEAN]
          /\ tried' \in [UID -> SUBSET Addr]
      BY <3>1, PrefixInAddr DEF EndBegin, TypeOK
    <3>3. ipAddresses' \in [Addr -> UID \union {NoUID}] /\ pc' \in [UID -> PC]
      BY <3>1 DEF TypeOK, PC
    <3>4. QED BY <3>1, <3>2, <3>3 DEF TypeOK
  <2>2. CASE ipAddresses[ip[u]] # NoUID
    BY <1>4, <2>2, CreateFailsType DEF CreateIPAddress, TypeOK, RequestTypeOK
  <2>3. QED BY <2>1, <2>2
<1>5. ASSUME NEW u \in UID, CreateIPAddressError(u)
      PROVE  TypeOK'
  <2>1. CreateFails(u)
    BY <1>5 DEF CreateIPAddressError
  <2>2. ipAddresses' \in [Addr -> UID \union {NoUID}] /\ ips' = ips
    BY <1>5 DEF CreateIPAddressError, TypeOK
  <2>3. QED BY <2>1, <2>2, CreateFailsType DEF TypeOK, RequestTypeOK
<1>6. ASSUME NEW u \in UID, StoreIP(u) \/ StoreIPError(u) \/ DeleteIP(u)
      PROVE  TypeOK'
  BY <1>6 DEF StoreIP, StoreIPError, DeleteIP, TypeOK, PC, etcd
<1>7. ASSUME NEW u \in UID, Rollback(u) \/ AfterDelete(u)
      PROVE  TypeOK'
  <2>1. End(u, "done") /\ Release(u) /\ ips' = ips
    BY <1>7 DEF Rollback, AfterDelete
  <2>2. "done" \in PC
    BY DEF PC
  <2>3. QED BY <2>1, <2>2, EndType DEF Release, TypeOK, RequestTypeOK
<1>8. ASSUME NEW u \in UID, ReleaseError(u) \/ Crash(u)
      PROVE  TypeOK'
  <2>1. End(u, "done") /\ UNCHANGED etcd
    BY <1>8 DEF ReleaseError, Crash
  <2>2. "done" \in PC
    BY DEF PC
  <2>3. QED BY <2>1, <2>2, EndType DEF TypeOK, RequestTypeOK, etcd
<1>9. CASE UNCHANGED vars
  BY <1>9 DEF TypeOK, vars
<1>10. QED
  BY <1>1, <1>2, <1>3, <1>4, <1>5, <1>6, <1>7, <1>8, <1>9 DEF Next, Begin, Serve

(* Type correctness: every request stays on its path through beginCreate,
   the store and the finish and delete hooks, with addresses it can have. *)
THEOREM TypeCorrect == Spec => []TypeOK
<1>1. Init => TypeOK
  BY PrefixInAddr DEF Init, TypeOK, PC
<1>2. QED
  BY <1>1, NextType, PTL DEF Spec
-----------------------------------------------------------------------------
(* The step leaves everything v's request knows alone. *)
Untouched(v) ==
    /\ pc'[v] = pc[v] /\ name'[v] = name[v] /\ ip'[v] = ip[v]
    /\ start'[v] = start[v] /\ explicit'[v] = explicit[v] /\ tried'[v] = tried[v]

(* Only the request of u itself changes what u has; other requests are left
   alone by every step. *)
LEMMA OthersUnchanged ==
  ASSUME TypeOK, NEW u \in UID, Begin(u) \/ Serve(u) \/ DeleteIP(u) \/ Crash(u),
         NEW v \in UID, v # u
  PROVE  Untouched(v)
<1>1. ASSUME Advance(u)
      PROVE  Untouched(v)
  BY <1>1 DEF Advance, TypeOK, Untouched
<1>2. ASSUME NEW how, End(u, how)
      PROVE  Untouched(v)
  BY <1>2 DEF End, EndBegin, TypeOK, Untouched
<1>3. ASSUME NEW a \in Addr, NEW s \in Prefix,
             BeginExplicit(u, a) \/ RefuseExplicit(u, a) \/ BeginNext(u, s)
      PROVE  Untouched(v)
  BY <1>3 DEF BeginExplicit, RefuseExplicit, BeginNext, TypeOK, Untouched
<1>4. ASSUME StoreIP(u) \/ StoreIPError(u) \/ DeleteIP(u)
      PROVE  Untouched(v)
  BY <1>4 DEF StoreIP, StoreIPError, DeleteIP, TypeOK, Untouched
<1>5. ASSUME Get(u) \/ GetError(u)
      PROVE  Untouched(v)
  BY <1>1, <1>5 DEF Get, GetError, TypeOK, Untouched
<1>6. ASSUME CreateIPAddress(u) \/ CreateIPAddressError(u)
      PROVE  Untouched(v)
  <2>1. CASE CreateFails(u)
    BY <1>1, <1>2, <2>1 DEF CreateFails
  <2>2. CASE pc' = [pc EXCEPT ![u] = "allocated"] /\ EndBegin(u) /\ UNCHANGED <<name, ip>>
    BY <2>2 DEF EndBegin, TypeOK, Untouched
  <2>3. QED BY <1>6, <2>1, <2>2 DEF CreateIPAddress, CreateIPAddressError
<1>7. ASSUME Rollback(u) \/ AfterDelete(u) \/ ReleaseError(u) \/ Crash(u)
      PROVE  Untouched(v)
  BY <1>2, <1>7 DEF Rollback, AfterDelete, ReleaseError, Crash
<1>8. First \in Addr /\ First \in Prefix
  BY PrefixInAddr
<1>9. QED
  BY <1>3, <1>4, <1>5, <1>6, <1>7, <1>8 DEF Begin, Serve

(* A step of u may create the IPAddress of a vacant address with u as its
   claimer, may delete the one of u's own address when a release is due, and
   changes no other IPAddress. *)
LEMMA AddressChange ==
  ASSUME TypeOK, NEW u \in UID, Begin(u) \/ Serve(u) \/ DeleteIP(u) \/ Crash(u),
         NEW a \in Addr
  PROVE  \/ ipAddresses'[a] = ipAddresses[a]
         \/ ipAddresses[a] = NoUID /\ ipAddresses'[a] = u
         \/ a = ip[u] /\ pc[u] \in {"rollback", "deleted"} /\ ipAddresses'[a] = NoUID
<1>1. ASSUME Rollback(u) \/ AfterDelete(u)
      PROVE  \/ ipAddresses'[a] = ipAddresses[a]
             \/ a = ip[u] /\ pc[u] \in {"rollback", "deleted"} /\ ipAddresses'[a] = NoUID
  BY <1>1 DEF Rollback, AfterDelete, Release, TypeOK
<1>2. ASSUME CreateIPAddress(u) \/ CreateIPAddressError(u)
      PROVE  \/ ipAddresses'[a] = ipAddresses[a]
             \/ ipAddresses[a] = NoUID /\ ipAddresses'[a] = u
  BY <1>2 DEF CreateIPAddress, CreateIPAddressError, TypeOK
<1>3. ASSUME \/ Begin(u) \/ Get(u) \/ GetError(u) \/ StoreIP(u) \/ StoreIPError(u)
             \/ DeleteIP(u) \/ ReleaseError(u) \/ Crash(u)
      PROVE  ipAddresses'[a] = ipAddresses[a]
  BY <1>3 DEF Begin, BeginExplicit, RefuseExplicit, BeginNext, Get, GetError, StoreIP,
              StoreIPError, DeleteIP, ReleaseError, Crash, etcd
<1>4. QED BY <1>1, <1>2, <1>3 DEF Serve

(* u comes to hold an address only by creating its IPAddress, and moves on
   while it holds one without touching it. *)
LEMMA HoldingChange ==
  ASSUME TypeOK, NEW u \in UID, Begin(u) \/ Serve(u) \/ DeleteIP(u) \/ Crash(u),
         pc'[u] \in Holding
  PROVE  /\ ip'[u] = ip[u]
         /\ \/ ipAddresses'[ip[u]] = u
            \/ pc[u] \in {"allocated", "stored"} /\ ipAddresses' = ipAddresses
<1>1. ASSUME Advance(u) PROVE pc'[u] \in {"full", "get"}
  BY <1>1 DEF Advance, TypeOK
<1>2. ASSUME NEW how, End(u, how) PROVE pc'[u] = how
  BY <1>2 DEF End, TypeOK
<1>3. ~Begin(u) /\ ~Get(u) /\ ~GetError(u)
  BY <1>1 DEF Begin, BeginExplicit, RefuseExplicit, BeginNext, Get, GetError, Holding, TypeOK
<1>4. ~Rollback(u) /\ ~AfterDelete(u) /\ ~ReleaseError(u) /\ ~Crash(u)
  BY <1>2 DEF Rollback, AfterDelete, ReleaseError, Crash, Holding
<1>5. ~CreateFails(u)
  BY <1>1, <1>2 DEF CreateFails, Holding
<1>6. CASE CreateIPAddress(u) \/ CreateIPAddressError(u)
  BY <1>5, <1>6 DEF CreateIPAddress, CreateIPAddressError, TypeOK
<1>7. CASE StoreIP(u) \/ StoreIPError(u) \/ DeleteIP(u)
  BY <1>7 DEF StoreIP, StoreIPError, DeleteIP, etcd
<1>8. QED BY <1>3, <1>4, <1>6, <1>7 DEF Serve

(* HeldByClaimer is inductive: a Create never takes an address somebody
   holds, and a Release only removes the IPAddress of the one releasing. *)
LEMMA HeldStep == TypeOK /\ HeldByClaimer /\ [Next]_vars => HeldByClaimer'
<1> SUFFICES ASSUME TypeOK, HeldByClaimer, [Next]_vars PROVE HeldByClaimer'
  OBVIOUS
<1>1. ASSUME NEW u \in UID, Begin(u) \/ Serve(u) \/ DeleteIP(u) \/ Crash(u),
             NEW v \in UID, pc'[v] \in Holding
      PROVE  ipAddresses'[ip'[v]] = v
  <2>1. CASE v = u
    <3>1. ip'[u] = ip[u]
      BY <1>1, <2>1, HoldingChange
    <3>2. CASE ipAddresses'[ip[u]] = u
      BY <2>1, <3>1, <3>2
    <3>3. CASE pc[u] \in {"allocated", "stored"} /\ ipAddresses' = ipAddresses
      BY <2>1, <3>1, <3>3 DEF HeldByClaimer, Holding
    <3>4. QED BY <1>1, <2>1, <3>2, <3>3, HoldingChange
  <2>2. CASE v # u
    <3>1. pc'[v] = pc[v] /\ ip'[v] = ip[v]
      BY <1>1, <2>2, OthersUnchanged DEF Untouched
    <3>2. ip[v] \in Addr /\ ipAddresses[ip[v]] = v
      BY <1>1, <3>1 DEF HeldByClaimer, TypeOK
    <3>3. ~(ip[v] = ip[u] /\ pc[u] \in {"rollback", "deleted"})
      BY <2>2, <3>2 DEF HeldByClaimer, Holding
    <3>4. v # NoUID
      BY NoUIDAssumption
    <3>5. ipAddresses'[ip[v]] = ipAddresses[ip[v]]
      BY <1>1, <3>2, <3>3, <3>4, AddressChange
    <3>6. QED BY <3>1, <3>2, <3>5
  <2>3. QED BY <2>1, <2>2
<1>2. CASE UNCHANGED vars
  BY <1>2 DEF vars, HeldByClaimer
<1>3. QED BY <1>1, <1>2 DEF Next, HeldByClaimer

(* From the return of beginCreate to the release, the IPAddress of an IP is
   there and claimed by it. *)
THEOREM ClaimHeld == Spec => []HeldByClaimer
<1>1. Init => HeldByClaimer
  BY DEF Init, HeldByClaimer, Holding
<1>2. QED BY <1>1, HeldStep, TypeCorrect, PTL DEF Spec

(* No two existing IPs have the same address. *)
THEOREM Uniqueness == Spec => []AddressesUnique
<1>1. HeldByClaimer => AddressesUnique
  BY DEF HeldByClaimer, AddressesUnique, Holding
<1>2. QED BY <1>1, ClaimHeld, PTL

(* An IPAddress goes away only by the hand of its claimer. *)
THEOREM OwnReleases == Spec => ReleasesOnlyOwn
<1>1. TypeOK /\ HeldByClaimer /\ [Next]_vars =>
        [\A a \in Addr :
           ipAddresses[a] # NoUID /\ ipAddresses'[a] # ipAddresses[a] =>
              /\ ipAddresses'[a] = NoUID
              /\ pc[ipAddresses[a]] \in {"rollback", "deleted"}
              /\ ip[ipAddresses[a]] = a]_vars
  <2> SUFFICES ASSUME TypeOK, HeldByClaimer, Next, NEW a \in Addr,
                      ipAddresses[a] # NoUID, ipAddresses'[a] # ipAddresses[a]
               PROVE  /\ ipAddresses'[a] = NoUID
                      /\ pc[ipAddresses[a]] \in {"rollback", "deleted"}
                      /\ ip[ipAddresses[a]] = a
    OBVIOUS
  <2>1. PICK u \in UID : Begin(u) \/ Serve(u) \/ DeleteIP(u) \/ Crash(u)
    BY DEF Next
  <2>2. a = ip[u] /\ pc[u] \in {"rollback", "deleted"} /\ ipAddresses'[a] = NoUID
    BY <2>1, AddressChange
  <2>3. ipAddresses[a] = u
    BY <2>2 DEF HeldByClaimer, Holding
  <2>4. QED BY <2>2, <2>3
<1>2. QED BY <1>1, TypeCorrect, ClaimHeld, PTL DEF Spec, ReleasesOnlyOwn
-----------------------------------------------------------------------------
(* How u's own place and the store change together. *)
LEMMA StoreChange ==
  ASSUME TypeOK, NEW u \in UID, Begin(u) \/ Serve(u) \/ DeleteIP(u) \/ Crash(u)
  PROVE  /\ name' = name
         /\ \/ ips' = ips /\ (pc[u] # "stored" /\ pc'[u] # "stored")
            \/ /\ ips[name[u]] = NoUID /\ ips' = [ips EXCEPT ![name[u]] = u]
               /\ pc[u] = "allocated" /\ pc'[u] = "stored"
               /\ ip' = ip /\ ipAddresses' = ipAddresses
            \/ /\ pc[u] = "stored" /\ ips' = [ips EXCEPT ![name[u]] = NoUID]
               /\ pc'[u] # "stored"
<1>1. ASSUME Advance(u) PROVE pc'[u] # "stored" /\ name' = name
  BY <1>1 DEF Advance, TypeOK
<1>2. ASSUME NEW how, End(u, how) PROVE pc'[u] = how /\ name' = name
  BY <1>2 DEF End, TypeOK
<1>3. CASE Begin(u) \/ Get(u) \/ GetError(u)
  BY <1>1, <1>3 DEF Begin, BeginExplicit, RefuseExplicit, BeginNext, Get, GetError, TypeOK, etcd
<1>4. CASE CreateIPAddress(u) \/ CreateIPAddressError(u)
  BY <1>1, <1>2, <1>4 DEF CreateIPAddress, CreateIPAddressError, CreateFails, TypeOK
<1>5. CASE Rollback(u) \/ AfterDelete(u) \/ ReleaseError(u) \/ Crash(u)
  BY <1>2, <1>5 DEF Rollback, AfterDelete, ReleaseError, Crash, InFlight, etcd
<1>6. CASE StoreIP(u)
  BY <1>6 DEF StoreIP, TypeOK
<1>7. CASE StoreIPError(u) \/ DeleteIP(u)
  BY <1>7 DEF StoreIPError, DeleteIP, TypeOK, etcd
<1>8. QED BY <1>3, <1>4, <1>5, <1>6, <1>7 DEF Serve

(* The store has exactly the objects whose requests got that far. *)
LEMMA StoreStep == TypeOK /\ StoreAgrees /\ [Next]_vars => StoreAgrees'
<1> SUFFICES ASSUME TypeOK, StoreAgrees, [Next]_vars PROVE StoreAgrees'
  OBVIOUS
<1>1. ASSUME NEW u \in UID, Begin(u) \/ Serve(u) \/ DeleteIP(u) \/ Crash(u),
             NEW n \in Name, NEW v \in UID
      PROVE  ips'[n] = v <=> pc'[v] = "stored" /\ name'[v] = n
  <2>1. v # u => pc'[v] = pc[v]
    BY <1>1, OthersUnchanged DEF Untouched
  <2>2. name' = name /\ name[u] \in Name /\ NoUID # v
    BY <1>1, StoreChange, NoUIDAssumption DEF TypeOK
  <2>3. ips[n] = v <=> pc[v] = "stored" /\ name[v] = n
    BY DEF StoreAgrees
  <2>4. CASE ips' = ips /\ (pc[u] # "stored" /\ pc'[u] # "stored")
    BY <2>1, <2>2, <2>3, <2>4
  <2>5. CASE ips[name[u]] = NoUID /\ ips' = [ips EXCEPT ![name[u]] = u]
             /\ pc[u] = "allocated" /\ pc'[u] = "stored"
    BY <2>1, <2>2, <2>3, <2>5 DEF TypeOK
  <2>6. CASE pc[u] = "stored" /\ ips' = [ips EXCEPT ![name[u]] = NoUID] /\ pc'[u] # "stored"
    <3>1. ips[name[u]] = u
      BY <2>2, <2>6 DEF StoreAgrees
    <3>2. QED BY <2>1, <2>2, <2>3, <2>6, <3>1 DEF TypeOK
  <2>7. QED BY <1>1, <2>4, <2>5, <2>6, StoreChange
<1>2. CASE UNCHANGED vars
  BY <1>2 DEF vars, StoreAgrees
<1>3. QED BY <1>1, <1>2 DEF Next, StoreAgrees

(* The store and the requests never disagree about which IPs exist. *)
THEOREM StoreAgreement == Spec => []StoreAgrees
<1>1. Init => StoreAgrees
  BY NoUIDAssumption DEF Init, StoreAgrees
<1>2. QED BY <1>1, StoreStep, TypeCorrect, PTL DEF Spec
-----------------------------------------------------------------------------
(* What a user sees of u changes only when the IP object of u is stored or
   removed; it is then stored with an address no other existing IP has. *)
LEMMA AssignmentStep ==
  TypeOK /\ HeldByClaimer /\ [Next]_vars => [Assignment!Next]_Seen
<1> SUFFICES ASSUME TypeOK, HeldByClaimer, [Next]_vars
             PROVE  Assignment!Next \/ Seen' = Seen
  OBVIOUS
<1>1. ASSUME NEW u \in UID, Begin(u) \/ Serve(u) \/ DeleteIP(u) \/ Crash(u)
      PROVE  Assignment!Next \/ Seen' = Seen
  <2>1. \A v \in UID : v # u => pc'[v] = pc[v] /\ ip'[v] = ip[v]
    BY <1>1, OthersUnchanged DEF Untouched
  <2>2. \A v \in UID : v # u => Seen'[v] = Seen[v]
    BY <2>1 DEF Seen
  <2>3. CASE pc[u] # "stored" /\ pc'[u] # "stored"
    BY <2>1, <2>3 DEF Seen
  <2>4. CASE pc[u] = "allocated" /\ pc'[u] = "stored" /\ ip' = ip
    <3>1. ip[u] \in Addr /\ ip[u] # NoUID
      BY NoAddressAssumption DEF TypeOK
    <3>2. Seen[u] = NoUID /\ Seen'[u] = ip[u]
      BY <2>4 DEF Seen
    <3>3. Seen' = [Seen EXCEPT ![u] = ip[u]]
      BY <2>2, <3>2 DEF Seen
    <3>4. ASSUME NEW v \in UID PROVE Seen[v] # ip[u]
      <4>1. CASE pc[v] = "stored"
        <5>1. ipAddresses[ip[v]] = v /\ ipAddresses[ip[u]] = u /\ v # u
          BY <2>4, <4>1 DEF HeldByClaimer, Holding
        <5>2. QED BY <4>1, <5>1 DEF Seen
      <4>2. CASE pc[v] # "stored"
        BY <3>1, <4>2 DEF Seen
      <4>3. QED BY <4>1, <4>2
    <3>5. Assignment!Assign(u, ip[u])
      BY <3>2, <3>3, <3>4 DEF Assignment!Assign
    <3>6. QED BY <3>1, <3>5 DEF Assignment!Next
  <2>5. CASE pc[u] = "stored" /\ pc'[u] # "stored"
    <3>1. Seen[u] = ip[u] /\ Seen'[u] = NoUID /\ ip[u] # NoUID
      BY <2>5, NoAddressAssumption DEF Seen, TypeOK
    <3>2. Seen' = [Seen EXCEPT ![u] = NoUID]
      BY <2>2, <3>1 DEF Seen
    <3>3. QED BY <3>1, <3>2 DEF Assignment!Next, Assignment!Unassign
  <2>6. QED BY <1>1, <2>3, <2>4, <2>5, StoreChange
<1>2. CASE UNCHANGED vars
  BY <1>2 DEF vars, Seen
<1>3. QED BY <1>1, <1>2 DEF Next

(* The reserve-then-store protocol implements the promise of the IP API. *)
THEOREM AllocationImplementsAssignment == Spec => ImplementsAssignment
<1>1. Init => Assignment!Init
  BY DEF Init, Assignment!Init, Seen
<1>2. QED
  BY <1>1, AssignmentStep, TypeCorrect, ClaimHeld, PTL
     DEF Spec, ImplementsAssignment, Assignment!Spec
-----------------------------------------------------------------------------
(* A step of the iterator of u while it scans. *)
LEMMA AdvanceScan ==
  ASSUME TypeOK, NEW u \in UID, Scanning(u), ~explicit[u], Advance(u)
  PROVE  /\ ~explicit'[u]
         /\ \/ pc'[u] = "get" /\ Scanning(u)'
            \/ pc'[u] = "full" /\ tried'[u] = Scan(start'[u])
<1>1. start'[u] = start[u] /\ explicit'[u] = explicit[u]
  BY DEF Advance
<1>2. tried'[u] = tried[u] \union {ip[u]}
  BY DEF Advance, TypeOK
<1>3. CASE Ends(u)
  <2>1. pc'[u] = "full"
    BY <1>3 DEF Advance, TypeOK
  <2>2. QED BY <1>1, <1>2, <1>3, <2>1, IteratorStep DEF Scanning, Ends
<1>4. CASE ~Ends(u)
  <2>1. pc'[u] = "get" /\ ip'[u] = NextAddr(ip[u])
    BY <1>4 DEF Advance, TypeOK
  <2>2. NextAddr(ip[u]) \in Prefix
    BY NextAddrInPrefix DEF TypeOK
  <2>3. QED BY <1>1, <1>2, <1>4, <2>1, <2>2, IteratorStep DEF Scanning, Ends
<1>5. QED BY <1>3, <1>4

(* The invariant of the scan is inductive. *)
LEMMA ScanStep ==
  TypeOK /\ ScanInv /\ FullMeansAllTried /\ [Next]_vars => (ScanInv /\ FullMeansAllTried)'
<1> DEFINE Ok(v) == /\ pc[v] = "new" => ~explicit[v] /\ tried[v] = {}
                    /\ pc[v] = "get" => ~explicit[v]
                    /\ pc[v] \in {"get", "create"} /\ ~explicit[v] => Scanning(v)
                    /\ pc[v] = "full" => tried[v] = Scan(start[v])
<1> SUFFICES ASSUME TypeOK, \A v \in UID : Ok(v), [Next]_vars
             PROVE  \A v \in UID : Ok(v)'
  BY DEF ScanInv, FullMeansAllTried
<1>1. ASSUME NEW u \in UID, Begin(u) \/ Serve(u) \/ DeleteIP(u) \/ Crash(u),
             NEW v \in UID
      PROVE  Ok(v)'
  <2>1. CASE v # u
    <3>1. Untouched(v) /\ Ok(v)
      BY <1>1, <2>1, OthersUnchanged
    <3>2. QED BY <3>1 DEF Untouched, Scanning
  <2>2. ASSUME NEW how \in {"refused", "done"}, End(u, how) PROVE Ok(u)'
    BY <2>2 DEF End, TypeOK
  <2>3. CASE Begin(u)
    <3>1. Ok(u) /\ pc[u] = "new"
      BY <2>3 DEF Begin, BeginExplicit, RefuseExplicit, BeginNext
    <3>2. ASSUME NEW a \in Addr, BeginExplicit(u, a) PROVE Ok(u)'
      <4>1. pc'[u] = "create" /\ explicit'[u] = TRUE
        BY <3>2 DEF BeginExplicit, TypeOK
      <4>2. QED BY <4>1
    <3>3. ASSUME NEW a \in Addr, RefuseExplicit(u, a) PROVE Ok(u)'
      BY <3>3 DEF RefuseExplicit, TypeOK
    <3>4. ASSUME NEW s \in Prefix, BeginNext(u, s) PROVE Ok(u)'
      <4>1. /\ start'[u] = s /\ ip'[u] = s
            /\ explicit'[u] = explicit[u] /\ tried'[u] = tried[u]
        BY <3>4 DEF BeginNext, TypeOK
      <4>2. CASE s >= FullWidth /\ pc'[u] = "get"
        <5>1. Behind(s, s) = {}
          BY IteratorStart
        <5>2. Scanning(u)'
          BY <3>1, <4>1, <4>2, <5>1 DEF Scanning, Prefix
        <5>3. QED BY <3>1, <4>1, <4>2, <5>2
      <4>3. CASE s < FullWidth /\ pc'[u] = "full"
        BY <3>1, <4>1, <4>3 DEF Scan
      <4>4. QED BY <3>4, <4>2, <4>3 DEF BeginNext, TypeOK
    <3>5. Ok(u)'
      BY <2>3, <3>2, <3>3, <3>4 DEF Begin
    <3>6. QED BY <2>1, <3>5
  <2>4. CASE Get(u) \/ GetError(u)
    <3>1. Ok(u) /\ pc[u] = "get"
      BY <2>4 DEF Get, GetError
    <3>2. CASE Advance(u)
      BY <2>1, <3>1, <3>2, AdvanceScan
    <3>3. CASE pc' = [pc EXCEPT ![u] = "create"] /\ UNCHANGED <<name, ip, start, explicit, tried>>
      <4>1. pc'[u] = "create" /\ explicit'[u] = explicit[u] /\ tried'[u] = tried[u]
        BY <3>3 DEF TypeOK
      <4>2. Scanning(u)'
        BY <3>1, <3>3 DEF Scanning
      <4>3. QED BY <2>1, <3>1, <4>1, <4>2
    <3>4. QED BY <2>4, <3>2, <3>3 DEF Get, GetError
  <2>5. CASE CreateIPAddress(u) \/ CreateIPAddressError(u)
    <3>1. Ok(u) /\ pc[u] = "create"
      BY <2>5 DEF CreateIPAddress, CreateIPAddressError
    <3>2. CASE explicit[u] /\ End(u, "refused")
      BY <2>1, <2>2, <3>2
    <3>3. CASE ~explicit[u] /\ Advance(u)
      BY <2>1, <3>1, <3>3, AdvanceScan
    <3>4. CASE pc' = [pc EXCEPT ![u] = "allocated"]
      <4>1. pc'[u] = "allocated"
        BY <3>4 DEF TypeOK
      <4>2. QED BY <2>1, <4>1
    <3>5. QED BY <2>5, <3>2, <3>3, <3>4 DEF CreateIPAddress, CreateIPAddressError, CreateFails
  <2>6. CASE StoreIP(u) \/ StoreIPError(u) \/ DeleteIP(u)
    <3>1. pc'[u] \in {"stored", "rollback", "deleted"}
      BY <2>6 DEF StoreIP, StoreIPError, DeleteIP, TypeOK
    <3>2. QED BY <2>1, <3>1
  <2>7. CASE Rollback(u) \/ AfterDelete(u) \/ ReleaseError(u) \/ Crash(u)
    BY <2>1, <2>2, <2>7 DEF Rollback, AfterDelete, ReleaseError, Crash
  <2>8. QED BY <1>1, <2>3, <2>4, <2>5, <2>6, <2>7 DEF Serve
<1>2. CASE UNCHANGED vars
  BY <1>2 DEF vars, Scanning
<1>3. QED BY <1>1, <1>2 DEF Next

(* ErrFull comes only after every address of the prefix has been tried,
   whatever the prefix and the offset the scan started from, except at the
   edges of the address space, where exactly Scan has been tried. *)
THEOREM FullIsComplete == Spec => []FullMeansAllTried
<1>1. Init => ScanInv /\ FullMeansAllTried
  BY DEF Init, ScanInv, FullMeansAllTried
<1>2. QED BY <1>1, ScanStep, TypeCorrect, PTL DEF Spec
=============================================================================
