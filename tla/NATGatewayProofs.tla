-------------------------- MODULE NATGatewayProofs --------------------------
(***************************************************************************)
(* Port ranges never overlap, ranges that are good stay, claims are not    *)
(* stolen, and tables, status and IPs are right once nothing is under way, *)
(* for any number of gateways, interfaces, addresses, ports per interface, *)
(* user changes and faults, and however far the caches lag behind.         *)
(***************************************************************************)
EXTENDS NATAutoscaler, FiniteSetTheorems, SequenceTheorems, WellFoundedInduction, TLAPS

-----------------------------------------------------------------------------
(***************************************************************************)
(* Slots                                                                   *)
(***************************************************************************)

(* s is the port range of a slot of ppi ports. *)
OfSlot(s, slot, ppi) ==
    /\ slot \in 0 .. SlotsPerIP(ppi) - 1
    /\ s.port = portForSlot(slot, ppi)
    /\ s.end = endPort(s.port, ppi)

(* The sections cut the ephemeral ports into slots of ppi ports each. *)
Sliced(sections, ppi) ==
    \A s \in sections : \E slot \in Nat : OfSlot(s, slot, ppi)

(* Division undoes multiplication. *)
LEMMA DivMul ==
  ASSUME NEW k \in Nat, NEW d \in Nat \ {0}
  PROVE  (k * d) \div d = k
  OBVIOUS

(* Rounding down rounds down. *)
LEMMA DivBound ==
  ASSUME NEW n \in Nat, NEW d \in Nat \ {0}
  PROVE  n \div d \in Nat /\ (n \div d) * d <= n
  OBVIOUS

(* Multiples of a positive number are as far apart as it is large. *)
LEMMA MulStep ==
  ASSUME NEW k \in Nat, NEW m \in Nat, NEW d \in Nat \ {0}, k < m
  PROVE  k * d \in Nat /\ m * d \in Nat /\ k * d + d <= m * d
<1>1. (m - (k + 1)) * d >= 0
  OBVIOUS
<1>2. (m - (k + 1)) * d = m * d - k * d - d
  OBVIOUS
<1>3. QED BY <1>1, <1>2

(* The ports of a slot are ephemeral, and the slot is found again. *)
LEMMA SlotRange ==
  ASSUME NEW s, NEW slot, NEW ppi \in Nat \ {0}, OfSlot(s, slot, ppi)
  PROVE  /\ s.port \in Nat /\ s.end \in Nat
         /\ MinPort <= s.port /\ s.port <= s.end /\ s.end <= MaxPort
         /\ slotForPorts(s.port, ppi) = slot
<1> DEFINE n == MaxPort + 1 - MinPort
<1>1. n \in Nat /\ MinPort \in Nat
  BY PortsAssumption
<1>2. (n \div ppi) \in Nat /\ (n \div ppi) * ppi <= n
  BY <1>1, DivBound
<1>3. slot \in Nat /\ slot < n \div ppi
  BY <1>2 DEF OfSlot, SlotsPerIP
<1>4. slot * ppi \in Nat /\ slot * ppi + ppi <= (n \div ppi) * ppi
  BY <1>2, <1>3, MulStep
<1>5. s.port = slot * ppi + MinPort /\ s.end = s.port + ppi - 1
  BY DEF OfSlot, portForSlot, endPort
<1>6. s.port - MinPort = slot * ppi /\ (slot * ppi) \div ppi = slot
  BY <1>1, <1>3, <1>4, <1>5, DivMul
<1>7. slotForPorts(s.port, ppi) = slot
  BY <1>6 DEF slotForPorts
<1>8. (n \div ppi) * ppi \in Nat
  BY <1>2
<1> HIDE DEF n
<1>9. s.end <= n + MinPort - 1
  BY <1>1, <1>2, <1>4, <1>5, <1>8
<1>10. n + MinPort - 1 = MaxPort
  BY PortsAssumption DEF n
<1>11. QED BY <1>1, <1>4, <1>5, <1>7, <1>9, <1>10

(* Different slots have no port in common. *)
LEMMA SlotsApart ==
  ASSUME NEW s, NEW t, NEW i, NEW j, NEW ppi \in Nat \ {0},
         OfSlot(s, i, ppi), OfSlot(t, j, ppi), i # j
  PROVE  s.end < t.port \/ t.end < s.port
<1>1. i \in Nat /\ j \in Nat /\ MinPort \in Nat
  BY PortsAssumption DEF OfSlot
<1>2. /\ s.port = i * ppi + MinPort /\ s.end = s.port + ppi - 1
      /\ t.port = j * ppi + MinPort /\ t.end = t.port + ppi - 1
  BY DEF OfSlot, portForSlot, endPort
<1>3. CASE i < j
  <2>1. i * ppi \in Nat /\ j * ppi \in Nat /\ i * ppi + ppi <= j * ppi
    BY <1>1, <1>3, MulStep
  <2>2. QED BY <1>1, <1>2, <2>1
<1>4. CASE j < i
  <2>1. i * ppi \in Nat /\ j * ppi \in Nat /\ j * ppi + ppi <= i * ppi
    BY <1>1, <1>4, MulStep
  <2>2. QED BY <1>1, <1>2, <2>1
<1>5. QED BY <1>1, <1>3, <1>4

(* A section made for a slot has the ports of the slot. *)
LEMMA SectionOfSlot ==
  ASSUME NEW n, NEW slot, NEW ppi, slot[2] \in 0 .. SlotsPerIP(ppi) - 1
  PROVE  /\ OfSlot(Section(n, slot, ppi), slot[2], ppi)
         /\ Section(n, slot, ppi).nic = n
         /\ Section(n, slot, ppi).ip = slot[1]
  BY DEF OfSlot, Section

(* SlotsPerIP is a number of slots. *)
LEMMA SlotsPerIPType ==
  ASSUME NEW ppi \in Nat \ {0}
  PROVE  SlotsPerIP(ppi) \in Nat
<1>1. MaxPort + 1 - MinPort \in Nat
  BY PortsAssumption
<1>2. QED BY <1>1, DivBound DEF SlotsPerIP

(* What a free slot is. *)
LEMMA FreeSlot ==
  ASSUME NEW ips, NEW ppi \in Nat \ {0}, NEW used, NEW f \in FreeSlots(ips, ppi, used)
  PROVE  /\ f \notin used
         /\ f[1] \in ips
         /\ f[2] \in 0 .. SlotsPerIP(ppi) - 1
         /\ f = <<f[1], f[2]>>
  BY DEF FreeSlots

(* Giving free slots to interfaces that have none keeps a table well formed. *)
LEMMA PlacedWellFormed ==
  ASSUME NEW sections, NEW ips, NEW ppi \in Nat \ {0}, NEW ns,
         WellFormed(sections), Sliced(sections, ppi),
         NEW f \in [ns -> FreeSlots(ips, ppi, SlotsOf(sections, ppi))],
         \A m, n \in ns : f[m] = f[n] => m = n,
         \A s \in sections : s.nic \notin ns
  PROVE  LET all == sections \union {Section(n, f[n], ppi) : n \in ns}
         IN WellFormed(all) /\ Sliced(all, ppi)
<1> DEFINE new == {Section(n, f[n], ppi) : n \in ns}
           all == sections \union new
<1>1. ASSUME NEW n \in ns
      PROVE  /\ f[n] \notin SlotsOf(sections, ppi)
             /\ f[n][2] \in 0 .. SlotsPerIP(ppi) - 1
             /\ f[n] = <<f[n][1], f[n][2]>>
  BY FreeSlot
<1>2. ASSUME NEW n \in ns
      PROVE  /\ OfSlot(Section(n, f[n], ppi), f[n][2], ppi)
             /\ Section(n, f[n], ppi).nic = n
             /\ Section(n, f[n], ppi).ip = f[n][1]
  BY <1>1, SectionOfSlot
<1>3. Sliced(all, ppi)
  <2>1. SUFFICES ASSUME NEW s \in new PROVE \E slot \in Nat : OfSlot(s, slot, ppi)
    BY DEF Sliced
  <2>2. PICK n \in ns : s = Section(n, f[n], ppi)
    OBVIOUS
  <2>3. f[n][2] \in Nat
    BY <1>1, SlotsPerIPType
  <2>4. QED BY <1>2, <2>2, <2>3
<1>4. ASSUME NEW s \in all
      PROVE  MinPort <= s.port /\ s.port <= s.end /\ s.end <= MaxPort
  BY <1>3, SlotRange DEF Sliced
<1>5. ASSUME NEW s \in sections, NEW t \in new
      PROVE  /\ s.nic # t.nic
             /\ s.ip = t.ip => s.end < t.port \/ t.end < s.port
  <2>1. PICK n \in ns : t = Section(n, f[n], ppi)
    OBVIOUS
  <2>2. PICK i \in Nat : OfSlot(s, i, ppi)
    BY DEF Sliced
  <2>3. i = slotForPorts(s.port, ppi)
    BY <2>2, SlotRange
  <2>4. <<s.ip, i>> # f[n]
    BY <1>1, <2>3 DEF SlotsOf
  <2>5. s.ip = t.ip => i # f[n][2]
    BY <1>1, <1>2, <2>1, <2>4
  <2>6. QED BY <1>2, <2>1, <2>2, <2>5, SlotsApart
<1>6. ASSUME NEW s \in new, NEW t \in new, s # t
      PROVE  /\ s.nic # t.nic
             /\ s.ip = t.ip => s.end < t.port \/ t.end < s.port
  <2>1. PICK m \in ns : s = Section(m, f[m], ppi)
    OBVIOUS
  <2>2. PICK n \in ns : t = Section(n, f[n], ppi)
    OBVIOUS
  <2>3. m # n /\ f[m] # f[n]
    BY <1>6, <2>1, <2>2
  <2>4. s.ip = t.ip => f[m][2] # f[n][2]
    BY <1>1, <1>2, <2>1, <2>2, <2>3
  <2>5. QED BY <1>2, <2>1, <2>2, <2>3, <2>4, SlotsApart
<1>7. ASSUME NEW s \in all, NEW t \in all, s # t
      PROVE  /\ s.nic # t.nic
             /\ s.ip = t.ip => s.end < t.port \/ t.end < s.port
  <2>1. CASE s \in sections /\ t \in sections
    BY <1>7, <2>1 DEF WellFormed
  <2>2. CASE s \in sections /\ t \in new
    BY <1>5, <2>2
  <2>3. CASE s \in new /\ t \in sections
    BY <1>5, <2>3
  <2>4. CASE s \in new /\ t \in new
    BY <1>6, <1>7, <2>4
  <2>5. QED BY <2>1, <2>2, <2>3, <2>4
<1>8. WellFormed(all)
  BY <1>4, <1>7 DEF WellFormed
<1>9. QED BY <1>3, <1>8
-----------------------------------------------------------------------------
(***************************************************************************)
(* Caches                                                                  *)
(***************************************************************************)

(* A cache with nothing on the way is up to date; otherwise what comes last
   is the object as it is. *)
Follows(obj, watch, cached) ==
    IF watch = <<>> THEN cached = obj ELSE watch[Len(watch)] = obj

(* A write tells the watchers, and they can still catch up. *)
LEMMA ToldFollows ==
  ASSUME NEW K, NEW S, NEW obj \in [K -> S], NEW watch \in [K -> Seq(S)], NEW cache,
         NEW k \in K, NEW new \in S,
         \A j \in K : Follows(obj[j], watch[j], cache[j])
  PROVE  LET told == Told(watch, k, obj[k], new)
         IN /\ told \in [K -> Seq(S)]
            /\ \A j \in K : Follows([obj EXCEPT ![k] = new][j], told[j], cache[j])
<1> DEFINE told == Told(watch, k, obj[k], new)
<1>1. CASE new = obj[k]
  <2>1. told = watch /\ [obj EXCEPT ![k] = new] = obj
    BY <1>1 DEF Told
  <2>2. QED BY <2>1
<1>2. CASE new # obj[k]
  <2>1. told = [watch EXCEPT ![k] = Append(watch[k], new)]
    BY <1>2 DEF Told
  <2>2. /\ Append(watch[k], new) \in Seq(S)
        /\ Append(watch[k], new) # <<>>
        /\ Append(watch[k], new)[Len(Append(watch[k], new))] = new
    BY AppendProperties
  <2>3. told \in [K -> Seq(S)]
    BY <2>1, <2>2
  <2>4. ASSUME NEW j \in K
        PROVE  Follows([obj EXCEPT ![k] = new][j], told[j], cache[j])
    <3>1. CASE j = k
      BY <2>1, <2>2, <3>1 DEF Follows
    <3>2. CASE j # k
      BY <2>1, <3>2
    <3>3. QED BY <3>1, <3>2
  <2>5. QED BY <2>3, <2>4
<1>3. QED BY <1>1, <1>2

(* The last event stays the last one when the first is taken away. *)
LEMMA LastOfTail ==
  ASSUME NEW S, NEW q \in Seq(S), q # <<>>
  PROVE  /\ Head(q) \in S /\ Tail(q) \in Seq(S)
         /\ IF Tail(q) = <<>> THEN Head(q) = q[Len(q)]
                              ELSE Tail(q)[Len(Tail(q))] = q[Len(q)]
<1>1. PICK t : t = Tail(q)
  OBVIOUS
<1>2. /\ Head(q) \in S /\ t \in Seq(S)
      /\ Len(q) \in Nat \ {0} /\ Len(t) = Len(q) - 1 /\ Len(t) \in Nat
      /\ Head(q) = q[1]
      /\ \A i \in 1 .. Len(t) : t[i] = q[i + 1]
  BY <1>1, HeadTailProperties, EmptySeq, LenProperties
<1>3. CASE t = <<>>
  <2>1. Len(t) = 0
    BY <1>3
  <2>2. Len(q) = 1
    BY <1>2, <2>1
  <2>3. Head(q) = q[Len(q)]
    BY <1>2, <2>2
  <2>4. QED BY <1>1, <1>2, <1>3, <2>3, Zenon
<1>4. CASE t # <<>>
  <2>1. Len(t) \in Nat \ {0}
    BY <1>2, <1>4, EmptySeq
  <2>2. t[Len(t)] = q[Len(q)]
    BY <1>2, <2>1
  <2>3. QED BY <1>1, <1>2, <1>4, <2>2
<1>5. QED BY <1>3, <1>4

(* The delivery of an event brings the cache closer. *)
LEMMA DeliveredFollows ==
  ASSUME NEW S, NEW q \in Seq(S), q # <<>>, NEW obj, NEW cached, Follows(obj, q, cached)
  PROVE  /\ Head(q) \in S /\ Tail(q) \in Seq(S)
         /\ Follows(obj, Tail(q), Head(q))
  BY LastOfTail DEF Follows

-----------------------------------------------------------------------------
(***************************************************************************)
(* The invariant                                                           *)
(***************************************************************************)

(* Gateways as they can be: a live one has a valid number of ports. *)
ValidGateway == {o \in GatewayObject : o.status = "live" => o.ppi \in Ports}

(* Tables as the controller makes them: well formed, of slots of one size. *)
ValidTable ==
    {t \in SectionSet : WellFormed(t) /\ \E ppi \in Ports : Sliced(t, ppi)} \union {NoTable}

NICInv ==
    /\ nic \in [NIC -> NICObject] /\ nicCache \in [NIC -> NICObject]
    /\ nicWatch \in [NIC -> Seq(NICObject)]
    /\ \A n \in NIC : Follows(nic[n], nicWatch[n], nicCache[n])

GatewayInv ==
    /\ gw \in [Gateway -> ValidGateway] /\ gwCache \in [Gateway -> ValidGateway]
    /\ gwWatch \in [Gateway -> Seq(ValidGateway)]

TableInv ==
    /\ table \in [Gateway -> ValidTable] /\ tableCache \in [Gateway -> ValidTable]
    /\ tableWatch \in [Gateway -> Seq(ValidTable)]
    /\ \A g \in Gateway : Follows(table[g], tableWatch[g], tableCache[g])

(* The table of a reconcile under way will do, whoever has been served; those
   still to be claimed are not in it, and are free as far as their copies
   are up to date. *)
RecInv ==
    /\ rec \in Reconcile
    /\ rec.pc \notin {"idle", "drop"} =>
          /\ WellFormed(rec.sections) /\ Sliced(rec.sections, rec.ppi)
          /\ \A s \in rec.sections : s.nic \notin rec.todo
    /\ rec.pc = "claim" => \A n \in rec.todo \ stale : nic[n].nat = NoGateway

QueueInv ==
    /\ queue \subseteq Gateway
    /\ stale \subseteq NIC
    /\ relQueue \subseteq NIC
    /\ rel \subseteq NIC
    /\ churn \in 0 .. MaxChurn
    /\ faults \in 0 .. MaxFaults

NATInv == NICInv /\ GatewayInv /\ TableInv /\ RecInv /\ QueueInv

(* A reconcile that started from the current table keeps what is good of it. *)
FreshInv ==
    rec.pc = "claim" /\ rec.fresh /\ table[rec.g] # NoTable =>
        \A s \in table[rec.g] :
           s.nic \in rec.mine /\ s.ip \in rec.ips /\ s.end = endPort(s.port, rec.ppi)
           => s \in rec.sections

(* A reconcile that has read its gateway. *)
Busy ==
    [pc : {"claim", "apply", "status"}, g : Gateway, ips : SUBSET IP, ppi : Ports,
     mine : SUBSET NIC, todo : SUBSET NIC, sections : SectionSet, requests : Nat,
     seen : [used : Nat, requests : Nat],
     spare : BOOLEAN, fresh : BOOLEAN, failed : BOOLEAN]

(* What a reconcile knows, by the step it is at. *)
LEMMA RecKinds ==
  ASSUME rec \in Reconcile
  PROVE  /\ rec.pc \notin {"idle", "drop"} => rec \in Busy
         /\ rec.pc \in {"claim", "status"} => rec \in Busy
         /\ rec.pc # "idle" => rec.g \in Gateway /\ rec # Idle
  BY DEF Reconcile, Busy, Idle

(* Ports per interface are positive. *)
LEMMA PortsPositive == Ports \subseteq Nat \ {0}
  BY NATAssumption

-----------------------------------------------------------------------------
(* A write of an interface. *)
LEMMA PutNICInv ==
  ASSUME NICInv, NEW n \in NIC, NEW o \in NICObject, PutNIC(n, o)
  PROVE  NICInv'
<1>1. /\ nicWatch' \in [NIC -> Seq(NICObject)]
      /\ \A j \in NIC : Follows(nic'[j], nicWatch'[j], nicCache[j])
  BY ToldFollows DEF NICInv, PutNIC
<1>2. nic' \in [NIC -> NICObject] /\ nicCache' = nicCache
  BY DEF NICInv, PutNIC
<1>3. QED BY <1>1, <1>2 DEF NICInv

(* Whoever writes an interface writes an interface, and follows it. *)
LEMMA NICStep ==
  ASSUME NICInv, RecInv, [Next]_vars
  PROVE  NICInv'
<1>0. \A n \in NIC : nic[n] \in NICObject
  BY DEF NICInv
<1>1. ASSUME NEW n \in NIC,
             CreateNIC(n) \/ TogglePublicIP(n) \/ DeleteNIC(n) \/ FinalizeNIC(n)
      PROVE  NICInv'
  <2>1. \E o \in NICObject : PutNIC(n, o)
    BY <1>0, <1>1 DEF CreateNIC, TogglePublicIP, DeleteNIC, FinalizeNIC, NICObject, Status
  <2>2. QED BY <2>1, PutNICInv
<1>2. ASSUME NEW n \in NIC, ClaimFree(n) PROVE NICInv'
  <2>1. rec.g \in Gateway
    BY <1>2, RecKinds DEF ClaimFree, RecInv
  <2>2. [nic[n] EXCEPT !.nat = rec.g] \in NICObject
    BY <1>0, <2>1 DEF NICObject
  <2>3. CASE PutNIC(n, [nic[n] EXCEPT !.nat = rec.g])
    BY <2>2, <2>3, PutNICInv
  <2>4. CASE UNCHANGED nicVars
    BY <2>4 DEF nicVars, NICInv
  <2>5. QED BY <1>2, <2>3, <2>4 DEF ClaimFree, ClaimNIC
<1>3. ASSUME NEW n \in NIC, ReleasePatch(n) PROVE NICInv'
  <2>1. [nic[n] EXCEPT !.nat = NoGateway] \in NICObject
    BY <1>0 DEF NICObject
  <2>2. CASE PutNIC(n, [nic[n] EXCEPT !.nat = NoGateway])
    BY <2>1, <2>2, PutNICInv
  <2>3. CASE UNCHANGED nicVars
    BY <2>3 DEF nicVars, NICInv
  <2>4. QED BY <1>3, <2>2, <2>3 DEF ReleasePatch
<1>4. ASSUME NEW n \in NIC, DeliverNIC(n) PROVE NICInv'
  <2>1. /\ nic' = nic /\ nicWatch[n] # <<>>
        /\ nicWatch' = [nicWatch EXCEPT ![n] = Tail(nicWatch[n])]
        /\ nicCache' = [nicCache EXCEPT ![n] = Head(nicWatch[n])]
    BY <1>4 DEF DeliverNIC
  <2>2. /\ Head(nicWatch[n]) \in NICObject /\ Tail(nicWatch[n]) \in Seq(NICObject)
        /\ Follows(nic[n], Tail(nicWatch[n]), Head(nicWatch[n]))
    BY <2>1, DeliveredFollows DEF NICInv
  <2>3. QED BY <2>1, <2>2 DEF NICInv
<1>5. CASE Restart
  <2>1. nic' = nic /\ nicCache' = nic /\ nicWatch' = [n \in NIC |-> <<>>]
    BY <1>5 DEF Restart
  <2>2. nicWatch' \in [NIC -> Seq(NICObject)]
    BY <2>1, EmptySeq
  <2>3. QED BY <2>1, <2>2 DEF NICInv, Follows
<1>6. CASE UNCHANGED nicVars
  BY <1>6 DEF nicVars, NICInv
<1>7. ASSUME NEW g \in Gateway, NEW ips, NEW p,
             \/ CreateGateway(g, ips, p) \/ UpdateGateway(g, ips, p) \/ DeleteGateway(g)
             \/ DeliverGateway(g) \/ DeliverTable(g) \/ Start(g)
      PROVE  UNCHANGED nicVars
  BY <1>7 DEF CreateGateway, UpdateGateway, DeleteGateway, DeliverGateway, DeliverTable, Start
<1>8. ASSUME Apply \/ UpdateStatus \/ DropTable \/ (\E n \in NIC : ReleaseGet(n))
             \/ UNCHANGED vars
      PROVE  UNCHANGED nicVars
  BY <1>8 DEF Apply, UpdateStatus, DropTable, ReleaseGet, vars
<1>9. QED
  BY <1>1, <1>2, <1>3, <1>4, <1>5, <1>6, <1>7, <1>8 DEF Next, User, Deliver, Work
-----------------------------------------------------------------------------
(* A write of a gateway. *)
LEMMA PutGatewayInv ==
  ASSUME GatewayInv, NEW g \in Gateway, NEW o \in ValidGateway, PutGateway(g, o)
  PROVE  GatewayInv'
<1>1. gwWatch' \in [Gateway -> Seq(ValidGateway)]
  <2>1. CASE o = gw[g]
    BY <2>1 DEF PutGateway, Told, GatewayInv
  <2>2. CASE o # gw[g]
    <3>1. Append(gwWatch[g], o) \in Seq(ValidGateway)
      BY AppendProperties DEF GatewayInv
    <3>2. QED BY <2>2, <3>1 DEF PutGateway, Told, GatewayInv
  <2>3. QED BY <2>1, <2>2
<1>2. QED BY <1>1 DEF PutGateway, GatewayInv

(* The status of a reconcile counts what it has in its table. *)
LEMMA StatusType ==
  ASSUME RecInv, rec.pc = "status"
  PROVE  Cardinality(rec.sections) \in Nat
<1>1. rec \in Busy /\ WellFormed(rec.sections)
  BY RecKinds DEF RecInv
<1>2. rec.sections \in SUBSET [nic : NIC, ip : IP, port : Nat, end : Nat]
  BY <1>1 DEF Busy, SectionSet
<1>3. [s \in rec.sections |-> s.nic] \in Injection(rec.sections, NIC)
  BY <1>1, <1>2 DEF WellFormed, Injection, IsInjective
<1>4. IsFiniteSet(rec.sections)
  BY <1>3, FS_Injection, NATAssumption
<1>5. QED BY <1>4, FS_CardinalityType

(* Whoever writes a gateway leaves it a gateway. *)
LEMMA GatewayStep ==
  ASSUME GatewayInv, RecInv, [Next]_vars
  PROVE  GatewayInv'
<1>0. \A g \in Gateway : gw[g] \in GatewayObject /\ gw[g] \in ValidGateway
  BY DEF GatewayInv, ValidGateway
<1>1. ASSUME NEW g \in Gateway, NEW ips \in IPSets[g], NEW p \in Ports,
             CreateGateway(g, ips, p) \/ UpdateGateway(g, ips, p)
      PROVE  GatewayInv'
  <2>1. ips \in SUBSET IP
    BY NATAssumption
  <2>2. /\ [gw[g] EXCEPT !.status = "live", !.ips = ips, !.ppi = p] \in ValidGateway
        /\ [gw[g] EXCEPT !.ips = ips, !.ppi = p] \in ValidGateway
    BY <1>0, <2>1 DEF ValidGateway, GatewayObject
  <2>3. QED BY <1>1, <2>2, PutGatewayInv DEF CreateGateway, UpdateGateway
<1>2. ASSUME NEW g \in Gateway, DeleteGateway(g) PROVE GatewayInv'
  <2>1. [gw[g] EXCEPT !.status = "gone"] \in ValidGateway
    BY <1>0 DEF ValidGateway, GatewayObject
  <2>2. QED BY <1>2, <2>1, PutGatewayInv DEF DeleteGateway
<1>3. CASE UpdateStatus
  <2>1. rec \in Busy /\ rec.g \in Gateway
    BY <1>3, RecKinds DEF UpdateStatus, RecInv
  <2>2. Cardinality(rec.sections) \in Nat
    BY <1>3, StatusType DEF UpdateStatus
  <2>3. Cardinality(rec.sections) + (IF rec.spare THEN 1 ELSE 0) \in Nat /\ rec.requests \in Nat
    BY <2>1, <2>2 DEF Busy
  <2>4. ASSUME NEW used \in Nat, NEW requests \in Nat
        PROVE  [gw[rec.g] EXCEPT !.used = used, !.requests = requests] \in ValidGateway
    BY <1>0, <2>1 DEF ValidGateway, GatewayObject
  <2>5. gw[rec.g].used \in Nat /\ gw[rec.g].requests \in Nat
    BY <1>0, <2>1 DEF GatewayObject
  <2>6. CASE UNCHANGED gwVars
    BY <2>6 DEF gwVars, GatewayInv
  <2>7. CASE \E used \in Nat, requests \in Nat :
                PutGateway(rec.g, [gw[rec.g] EXCEPT !.used = used, !.requests = requests])
    BY <2>1, <2>4, <2>7, PutGatewayInv
  <2>8. QED BY <1>3, <2>3, <2>5, <2>6, <2>7 DEF UpdateStatus
<1>4. ASSUME NEW g \in Gateway, DeliverGateway(g) PROVE GatewayInv'
  <2>1. /\ gw' = gw /\ gwWatch[g] # <<>>
        /\ gwWatch' = [gwWatch EXCEPT ![g] = Tail(gwWatch[g])]
        /\ gwCache' = [gwCache EXCEPT ![g] = Head(gwWatch[g])]
    BY <1>4 DEF DeliverGateway
  <2>2. Head(gwWatch[g]) \in ValidGateway /\ Tail(gwWatch[g]) \in Seq(ValidGateway)
    BY <2>1, HeadTailProperties DEF GatewayInv
  <2>3. QED BY <2>1, <2>2 DEF GatewayInv
<1>5. CASE Restart
  <2>1. gw' = gw /\ gwCache' = gw /\ gwWatch' = [g \in Gateway |-> <<>>]
    BY <1>5 DEF Restart
  <2>2. gwWatch' \in [Gateway -> Seq(ValidGateway)]
    BY <2>1, EmptySeq
  <2>3. QED BY <2>1, <2>2 DEF GatewayInv
<1>6. CASE UNCHANGED gwVars
  BY <1>6 DEF gwVars, GatewayInv
<1>7. ASSUME NEW n \in NIC,
             \/ CreateNIC(n) \/ TogglePublicIP(n) \/ DeleteNIC(n) \/ FinalizeNIC(n)
             \/ DeliverNIC(n) \/ ClaimFree(n) \/ ReleaseGet(n) \/ ReleasePatch(n)
      PROVE  UNCHANGED gwVars
  BY <1>7 DEF CreateNIC, TogglePublicIP, DeleteNIC, FinalizeNIC, DeliverNIC, ClaimFree,
              ReleaseGet, ReleasePatch
<1>8. ASSUME \/ Apply \/ DropTable \/ UNCHANGED vars
             \/ \E g \in Gateway : DeliverTable(g) \/ Start(g)
      PROVE  UNCHANGED gwVars
  BY <1>8 DEF Apply, DropTable, DeliverTable, Start, vars
<1>9. QED
  BY <1>1, <1>2, <1>3, <1>4, <1>5, <1>6, <1>7, <1>8 DEF Next, User, Deliver, Work
-----------------------------------------------------------------------------
(* A write of a table. *)
LEMMA PutTableInv ==
  ASSUME TableInv, NEW g \in Gateway, NEW t \in ValidTable, PutTable(g, t)
  PROVE  TableInv'
<1>1. /\ tableWatch' \in [Gateway -> Seq(ValidTable)]
      /\ \A j \in Gateway : Follows(table'[j], tableWatch'[j], tableCache[j])
  BY ToldFollows DEF TableInv, PutTable
<1>2. table' \in [Gateway -> ValidTable] /\ tableCache' = tableCache
  BY DEF TableInv, PutTable
<1>3. QED BY <1>1, <1>2 DEF TableInv

(* The tables that are stored are the tables of reconciles. *)
LEMMA TableStep ==
  ASSUME TableInv, RecInv, [Next]_vars
  PROVE  TableInv'
<1>1. CASE Apply
  <2>1. rec \in Busy /\ rec.g \in Gateway /\ WellFormed(rec.sections) /\ Sliced(rec.sections, rec.ppi)
    BY <1>1, RecKinds DEF Apply, RecInv
  <2>2. rec.sections \in ValidTable
    BY <2>1 DEF ValidTable, Busy
  <2>3. CASE PutTable(rec.g, rec.sections)
    BY <2>1, <2>2, <2>3, PutTableInv
  <2>4. CASE UNCHANGED tableVars
    BY <2>4 DEF tableVars, TableInv
  <2>5. QED BY <1>1, <2>3, <2>4 DEF Apply
<1>2. CASE DropTable
  <2>1. rec.g \in Gateway /\ NoTable \in ValidTable
    BY <1>2, RecKinds DEF DropTable, RecInv, ValidTable
  <2>2. CASE PutTable(rec.g, NoTable)
    BY <2>1, <2>2, PutTableInv
  <2>3. CASE UNCHANGED tableVars
    BY <2>3 DEF tableVars, TableInv
  <2>4. QED BY <1>2, <2>2, <2>3 DEF DropTable
<1>3. ASSUME NEW g \in Gateway, DeliverTable(g) PROVE TableInv'
  <2>1. /\ table' = table /\ tableWatch[g] # <<>>
        /\ tableWatch' = [tableWatch EXCEPT ![g] = Tail(tableWatch[g])]
        /\ tableCache' = [tableCache EXCEPT ![g] = Head(tableWatch[g])]
    BY <1>3 DEF DeliverTable
  <2>2. /\ Head(tableWatch[g]) \in ValidTable /\ Tail(tableWatch[g]) \in Seq(ValidTable)
        /\ Follows(table[g], Tail(tableWatch[g]), Head(tableWatch[g]))
    BY <2>1, DeliveredFollows DEF TableInv
  <2>3. QED BY <2>1, <2>2 DEF TableInv
<1>4. CASE Restart
  <2>1. table' = table /\ tableCache' = table /\ tableWatch' = [g \in Gateway |-> <<>>]
    BY <1>4 DEF Restart
  <2>2. tableWatch' \in [Gateway -> Seq(ValidTable)]
    BY <2>1, EmptySeq
  <2>3. QED BY <2>1, <2>2 DEF TableInv, Follows
<1>5. CASE UNCHANGED tableVars
  BY <1>5 DEF tableVars, TableInv
<1>6. ASSUME NEW n \in NIC,
             \/ CreateNIC(n) \/ TogglePublicIP(n) \/ DeleteNIC(n) \/ FinalizeNIC(n)
             \/ DeliverNIC(n) \/ ClaimFree(n) \/ ReleaseGet(n) \/ ReleasePatch(n)
      PROVE  UNCHANGED tableVars
  BY <1>6 DEF CreateNIC, TogglePublicIP, DeleteNIC, FinalizeNIC, DeliverNIC, ClaimFree,
              ReleaseGet, ReleasePatch
<1>7. ASSUME NEW g \in Gateway, NEW ips, NEW p,
             \/ CreateGateway(g, ips, p) \/ UpdateGateway(g, ips, p) \/ DeleteGateway(g)
             \/ DeliverGateway(g) \/ Start(g)
      PROVE  UNCHANGED tableVars
  BY <1>7 DEF CreateGateway, UpdateGateway, DeleteGateway, DeliverGateway, Start
<1>8. UpdateStatus \/ UNCHANGED vars => UNCHANGED tableVars
  BY DEF UpdateStatus, vars
<1>9. QED
  BY <1>1, <1>2, <1>3, <1>4, <1>5, <1>6, <1>7, <1>8 DEF Next, User, Deliver, Work
-----------------------------------------------------------------------------
(* What a reconcile that is not interested in the step still knows: a change
   of an interface makes its copy outdated. *)
LEMMA RecUntouched ==
  ASSUME NICInv, RecInv, rec' = rec,
         \/ UNCHANGED <<nic, stale>>
         \/ \E n \in NIC : \E o : PutNIC(n, o)
  PROVE  RecInv'
<1>1. CASE UNCHANGED <<nic, stale>>
  BY <1>1 DEF RecInv
<1>2. ASSUME NEW m \in NIC, NEW o, PutNIC(m, o) PROVE RecInv'
  <2>1. ASSUME rec.pc = "claim", NEW n \in rec.todo \ stale' PROVE nic'[n].nat = NoGateway
    <3>1. rec # Idle /\ n \in NIC
      BY <2>1, RecKinds DEF RecInv, Busy
    <3>2. n \notin stale
      BY <1>2, <2>1 DEF PutNIC
    <3>3. nic'[n] = nic[n]
      BY <1>2, <2>1, <3>1 DEF PutNIC, NICInv
    <3>4. QED BY <2>1, <3>2, <3>3 DEF RecInv
  <2>2. QED BY <2>1 DEF RecInv
<1>3. QED BY <1>1, <1>2

(* getExistingAllocations keeps ranges of slots of the gateway's size only:
   the size is all it compares, and ranges were cut to their size. *)
LEMMA ExistingSliced ==
  ASSUME TableInv, NEW g \in Gateway, NEW ips, NEW ppi \in Ports
  PROVE  LET kept == getExistingAllocations(g, ips, ppi)
         IN kept \in SectionSet /\ WellFormed(kept) /\ Sliced(kept, ppi)
<1> DEFINE kept == getExistingAllocations(g, ips, ppi)
           t == tableCache[g]
<1>1. CASE t = NoTable
  <2>1. kept = {}
    BY <1>1 DEF getExistingAllocations
  <2>2. QED BY <2>1 DEF SectionSet, WellFormed, Sliced
<1>2. CASE t # NoTable
  <2>1. kept \subseteq t /\ \A s \in kept : endPort(s.port, ppi) = s.end
    BY <1>2 DEF getExistingAllocations, HasSlot
  <2>2. t \in ValidTable
    BY DEF TableInv
  <2>3. PICK p \in Ports : t \in SectionSet /\ WellFormed(t) /\ Sliced(t, p)
    BY <1>2, <2>2 DEF ValidTable
  <2>4. ASSUME NEW s \in kept PROVE \E slot \in Nat : OfSlot(s, slot, ppi)
    <3>1. PICK slot \in Nat : OfSlot(s, slot, p)
      BY <2>1, <2>3 DEF Sliced
    <3>2. s.port \in Nat /\ p \in Nat /\ ppi \in Nat
      BY <3>1, SlotRange, PortsPositive
    <3>3. p = ppi
      BY <2>1, <3>1, <3>2 DEF OfSlot, endPort
    <3>4. QED BY <3>1, <3>3
  <2>5. Sliced(kept, ppi)
    BY <2>4 DEF Sliced
  <2>6. kept \in SectionSet /\ WellFormed(kept)
    BY <2>1, <2>3 DEF SectionSet, WellFormed
  <2>7. QED BY <2>5, <2>6
<1>3. QED BY <1>1, <1>2

(* A part of a good table is good. *)
LEMMA PartSliced ==
  ASSUME NEW all, NEW part, part \subseteq all, NEW ppi,
         all \in SectionSet, WellFormed(all), Sliced(all, ppi)
  PROVE  part \in SectionSet /\ WellFormed(part) /\ Sliced(part, ppi)
  BY DEF SectionSet, WellFormed, Sliced

(* UseNextFree gives free slots to some of the interfaces, one to each. *)
LEMMA PlacementsType ==
  ASSUME NEW ns, NEW ips, NEW ppi, NEW used, NEW f \in Placements(ns, ips, ppi, used)
  PROVE  /\ DOMAIN f \subseteq ns
         /\ f \in [DOMAIN f -> FreeSlots(ips, ppi, used)]
         /\ \A m, n \in DOMAIN f : f[m] = f[n] => m = n
  BY DEF Placements

(* The sections for slots are sections. *)
LEMMA PlacedSections ==
  ASSUME NEW ips \in SUBSET IP, NEW ppi \in Nat \ {0}, NEW used, NEW ns \in SUBSET NIC,
         NEW f \in [ns -> FreeSlots(ips, ppi, used)]
  PROVE  {Section(n, f[n], ppi) : n \in ns} \in SectionSet
<1>1. ASSUME NEW n \in ns
      PROVE  Section(n, f[n], ppi) \in [nic : NIC, ip : IP, port : Nat, end : Nat]
  <2>1. f[n][1] \in IP /\ f[n][2] \in 0 .. SlotsPerIP(ppi) - 1
    BY FreeSlot
  <2>2. OfSlot(Section(n, f[n], ppi), f[n][2], ppi)
    BY <2>1, SectionOfSlot
  <2>3. Section(n, f[n], ppi).port \in Nat /\ Section(n, f[n], ppi).end \in Nat
    BY <2>2, SlotRange
  <2>4. QED BY <2>1, <2>3 DEF Section
<1>2. QED BY <1>1 DEF SectionSet

(* The table a reconcile starts with is good, and the interfaces it has yet
   to claim are neither in it nor claimed by anybody. *)
LEMMA StartRec ==
  ASSUME NICInv, GatewayInv, TableInv, NEW g \in Gateway, Start(g)
  PROVE  RecInv'
<1>1. CASE rec' = [pc |-> "drop", g |-> g]
  BY <1>1 DEF RecInv, Reconcile
<1>2. CASE gwCache[g].status = "live"
  <2> DEFINE o == gwCache[g]
             mine == {n \in NIC : Exists(nicCache[n]) /\ nicCache[n].nat = g}
             free == {n \in NIC : nicCache[n].status = "live" /\ Claimable(nicCache[n])}
             kept == {s \in getExistingAllocations(g, o.ips, o.ppi) : s.nic \in mine}
             lacking == mine \ {s.nic : s \in kept}
  <2>1. stale' = {n \in NIC : nicWatch[n] # <<>>} /\ UNCHANGED nicVars
    BY <1>2 DEF Start
  <2>2. PICK f \in Placements(lacking, o.ips, o.ppi, SlotsOf(kept, o.ppi)) :
        \E failed \in ReleaseFails(lacking \ DOMAIN f) :
           rec' = [pc |-> "claim", g |-> g, ips |-> o.ips, ppi |-> o.ppi,
                   mine |-> mine, todo |-> IF lacking \ DOMAIN f = {} THEN free ELSE {},
                   sections |-> kept \union {Section(n, f[n], o.ppi) : n \in DOMAIN f},
                   requests |-> Cardinality(mine) + Cardinality(free),
                   seen |-> [used |-> o.used, requests |-> o.requests],
                   spare |-> FALSE, fresh |-> tableWatch[g] = <<>>, failed |-> failed]
    BY <1>2 DEF Start
  <2>3. PICK failed \in ReleaseFails(lacking \ DOMAIN f) :
           rec' = [pc |-> "claim", g |-> g, ips |-> o.ips, ppi |-> o.ppi,
                   mine |-> mine, todo |-> IF lacking \ DOMAIN f = {} THEN free ELSE {},
                   sections |-> kept \union {Section(n, f[n], o.ppi) : n \in DOMAIN f},
                   requests |-> Cardinality(mine) + Cardinality(free),
                   seen |-> [used |-> o.used, requests |-> o.requests],
                   spare |-> FALSE, fresh |-> tableWatch[g] = <<>>, failed |-> failed]
    BY <2>2
  <2>4. failed \in BOOLEAN
    BY DEF ReleaseFails
  <2>5. o \in GatewayObject /\ o.ppi \in Ports /\ o.ips \in SUBSET IP
    BY <1>2 DEF GatewayInv, ValidGateway, GatewayObject
  <2>6. o.used \in Nat /\ o.requests \in Nat /\ o.ppi \in Nat \ {0}
    BY <2>5, PortsPositive DEF GatewayObject
  <2>7. mine \in SUBSET NIC /\ free \in SUBSET NIC /\ lacking \in SUBSET NIC
    OBVIOUS
  <2>8. Cardinality(mine) + Cardinality(free) \in Nat
    <3>1. IsFiniteSet(mine) /\ IsFiniteSet(free)
      BY <2>7, FS_Subset, NATAssumption
    <3>2. QED BY <3>1, FS_CardinalityType
  <2>9. kept \in SectionSet /\ WellFormed(kept) /\ Sliced(kept, o.ppi)
    <3> DEFINE all == getExistingAllocations(g, o.ips, o.ppi)
    <3>1. kept \subseteq all
      OBVIOUS
    <3>2. all \in SectionSet /\ WellFormed(all) /\ Sliced(all, o.ppi)
      BY <2>5, ExistingSliced
    <3> HIDE DEF all, kept
    <3>3. QED BY <3>1, <3>2, PartSliced
  <2>10. \A s \in kept : s.nic \in mine
    OBVIOUS
  <2>11. \A n \in lacking : \A s \in kept : s.nic # n
    OBVIOUS
  <2>12. \A n \in free : n \notin mine /\ nicCache[n].nat = NoGateway
    BY NATAssumption DEF Claimable
  <2> HIDE DEF o, mine, free, kept, lacking
  <2> DEFINE new == {Section(n, f[n], o.ppi) : n \in DOMAIN f}
             todo == IF lacking \ DOMAIN f = {} THEN free ELSE {}
  <2>13. /\ DOMAIN f \subseteq lacking
         /\ f \in [DOMAIN f -> FreeSlots(o.ips, o.ppi, SlotsOf(kept, o.ppi))]
         /\ \A m, n \in DOMAIN f : f[m] = f[n] => m = n
    BY <2>2, PlacementsType
  <2>14. WellFormed(kept \union new) /\ Sliced(kept \union new, o.ppi)
    BY <2>6, <2>9, <2>11, <2>13, PlacedWellFormed
  <2>15. new \in SectionSet
    BY <2>5, <2>6, <2>7, <2>13, PlacedSections
  <2>16. kept \union new \in SectionSet
    BY <2>9, <2>15 DEF SectionSet
  <2>17. \A s \in new : s.nic \in mine
    BY <2>13 DEF Section, lacking
  <2>18. \A s \in kept \union new : s.nic \notin todo
    BY <2>10, <2>12, <2>17
  <2>19. rec' \in Reconcile
    <3>1. todo \in SUBSET NIC /\ (tableWatch[g] = <<>>) \in BOOLEAN
      BY <2>7
    <3>2. rec' \in Busy
      BY <2>3, <2>4, <2>5, <2>6, <2>7, <2>8, <2>16, <3>1 DEF Busy
    <3>3. QED BY <3>2 DEF Busy, Reconcile
  <2>20. ASSUME NEW n \in todo, n \notin stale' PROVE nic'[n].nat = NoGateway
    <3>1. n \in free /\ n \in NIC
      BY <2>7, <2>20
    <3>2. nic'[n] = nic[n] /\ nicWatch[n] = <<>>
      BY <2>1, <2>20, <3>1 DEF nicVars
    <3>3. QED BY <2>12, <3>1, <3>2 DEF NICInv, Follows
  <2>21. /\ rec'.pc = "claim" /\ rec'.todo = todo /\ rec'.ppi = o.ppi
         /\ rec'.sections = kept \union new
    BY <2>3
  <2> HIDE DEF new, todo
  <2>22. QED BY <2>14, <2>18, <2>19, <2>20, <2>21 DEF RecInv
<1>3. QED BY <1>1, <1>2 DEF Start

(* An interface that is claimed gets a slot nobody has. *)
LEMMA ClaimedRec ==
  ASSUME RecInv, rec.pc = "claim", NEW n \in rec.todo, Claimed(n)
  PROVE  /\ rec' \in Busy /\ rec'.pc = "claim" /\ rec'.todo = rec.todo \ {n}
         /\ WellFormed(rec'.sections) /\ Sliced(rec'.sections, rec'.ppi)
         /\ \A s \in rec'.sections : s.nic \notin rec'.todo
<1>1. /\ rec \in Busy /\ WellFormed(rec.sections) /\ Sliced(rec.sections, rec.ppi)
      /\ \A s \in rec.sections : s.nic \notin rec.todo
  BY RecKinds DEF RecInv
<1>2. PICK slot \in Offers :
        rec' = [rec EXCEPT !.todo = @ \ {n}, !.spare = FALSE,
                           !.sections = @ \union {Section(n, slot, rec.ppi)}]
  BY DEF Claimed
<1>3. slot \in FreeSlots(rec.ips, rec.ppi, SlotsOf(rec.sections, rec.ppi))
  BY <1>2 DEF Offers, UseNextFree
<1>4. n \in NIC /\ rec.ips \in SUBSET IP /\ rec.ppi \in Nat \ {0} /\ rec.sections \in SectionSet
  BY <1>1, PortsPositive DEF Busy
<1> DEFINE f == [m \in {n} |-> slot]
           new == {Section(m, f[m], rec.ppi) : m \in {n}}
<1>5. /\ f \in [{n} -> FreeSlots(rec.ips, rec.ppi, SlotsOf(rec.sections, rec.ppi))]
      /\ \A l, m \in {n} : f[l] = f[m] => l = m
      /\ new = {Section(n, slot, rec.ppi)}
  BY <1>3
<1>6. WellFormed(rec.sections \union new) /\ Sliced(rec.sections \union new, rec.ppi)
  <2>1. \A s \in rec.sections : s.nic \notin {n}
    BY <1>1
  <2> HIDE DEF f
  <2>2. QED BY <1>1, <1>4, <1>5, <2>1, PlacedWellFormed
<1>7. new \in SectionSet
  <2>1. {n} \in SUBSET NIC
    BY <1>4
  <2> HIDE DEF f
  <2>2. QED BY <1>4, <1>5, <2>1, PlacedSections
<1>8. rec.sections \union {Section(n, slot, rec.ppi)} \in SectionSet
  BY <1>4, <1>5, <1>7 DEF SectionSet
<1>9. rec' \in Busy
  BY <1>1, <1>2, <1>8 DEF Busy
<1>10. /\ rec'.pc = "claim" /\ rec'.todo = rec.todo \ {n} /\ rec'.ppi = rec.ppi
       /\ rec'.sections = rec.sections \union {Section(n, slot, rec.ppi)}
  BY <1>1, <1>2 DEF Busy
<1>11. Section(n, slot, rec.ppi).nic = n
  BY DEF Section
<1>12. QED BY <1>1, <1>5, <1>6, <1>9, <1>10, <1>11

(* An interface that is not claimed is left out. *)
LEMMA NotClaimedRec ==
  ASSUME RecInv, rec.pc = "claim", NEW n, NEW failed \in BOOLEAN, NotClaimed(n, failed)
  PROVE  /\ rec' \in Busy /\ rec'.pc = "claim" /\ rec'.todo = rec.todo \ {n}
         /\ WellFormed(rec'.sections) /\ Sliced(rec'.sections, rec'.ppi)
         /\ \A s \in rec'.sections : s.nic \notin rec'.todo
<1>1. /\ rec \in Busy /\ WellFormed(rec.sections) /\ Sliced(rec.sections, rec.ppi)
      /\ \A s \in rec.sections : s.nic \notin rec.todo
  BY RecKinds DEF RecInv
<1>2. /\ rec' \in Busy /\ rec'.pc = "claim" /\ rec'.todo = rec.todo \ {n}
      /\ rec'.sections = rec.sections /\ rec'.ppi = rec.ppi
  BY <1>1 DEF NotClaimed, Busy
<1>3. QED BY <1>1, <1>2

(* A claim, whatever becomes of it, leaves the other interfaces as they are,
   and a copy is only taken for current again when it is. *)
LEMMA ClaimRec ==
  ASSUME NICInv, RecInv, NEW n \in NIC, ClaimFree(n)
  PROVE  RecInv'
<1>1. rec.pc = "claim" /\ n \in rec.todo /\ rec \in Busy /\ ClaimNIC(n)
  BY RecKinds DEF ClaimFree, RecInv
<1>2. CASE Claimed(n) \/ NotClaimed(n, TRUE) \/ NotClaimed(n, FALSE)
  <2>1. /\ rec' \in Busy /\ rec'.pc = "claim" /\ rec'.todo = rec.todo \ {n}
        /\ WellFormed(rec'.sections) /\ Sliced(rec'.sections, rec'.ppi)
        /\ \A s \in rec'.sections : s.nic \notin rec'.todo
    BY <1>1, <1>2, ClaimedRec, NotClaimedRec
  <2>2. rec' \in Reconcile
    BY <2>1 DEF Busy, Reconcile
  <2>3. ASSUME NEW m \in rec'.todo \ stale' PROVE nic'[m].nat = NoGateway
    <3>1. m # n /\ m \in rec.todo /\ m \in NIC
      BY <1>1, <2>1, <2>3 DEF Busy
    <3>2. nic'[m] = nic[m]
      BY <1>1, <3>1 DEF ClaimNIC, PutNIC, nicVars, NICInv
    <3>3. stale \subseteq stale' \union {n}
      BY <1>1 DEF ClaimNIC, PutNIC
    <3>4. m \notin stale
      BY <2>3, <3>1, <3>3
    <3>5. QED BY <1>1, <3>1, <3>2, <3>4 DEF RecInv
  <2>4. QED BY <2>1, <2>2, <2>3 DEF RecInv
<1>3. CASE /\ UNCHANGED <<nicVars, rec>> /\ stale' = stale \ {n}
           /\ nicCache[n].nat = NoGateway /\ nicWatch[n] = <<>>
  <2>1. nic[n].nat = NoGateway
    BY <1>3 DEF NICInv, Follows
  <2>2. QED BY <1>3, <2>1 DEF RecInv, nicVars
<1>4. QED BY <1>1, <1>2, <1>3 DEF ClaimNIC

(* Every step keeps what is known of a reconcile. *)
LEMMA RecStep ==
  ASSUME NICInv, GatewayInv, TableInv, RecInv, [Next]_vars
  PROVE  RecInv'
<1>1. ASSUME NEW failed, Finish(failed) PROVE RecInv'
  BY <1>1 DEF Finish, RecInv, Reconcile, Idle
<1>2. CASE Apply
  <2>1. CASE rec' = [rec EXCEPT !.pc = "status"]
    <3>1. rec \in Busy /\ rec.pc = "claim"
      BY <1>2, RecKinds DEF Apply, RecInv
    <3>2. /\ rec' \in Busy /\ rec'.pc = "status" /\ rec'.sections = rec.sections
          /\ rec'.ppi = rec.ppi /\ rec'.todo = rec.todo
      BY <2>1, <3>1 DEF Busy
    <3>3. rec' \in Reconcile
      BY <3>2 DEF Busy, Reconcile
    <3>4. QED BY <3>1, <3>2, <3>3 DEF RecInv
  <2>2. QED BY <1>1, <1>2, <2>1 DEF Apply
<1>3. CASE UpdateStatus
  BY <1>1, <1>3 DEF UpdateStatus
<1>4. CASE DropTable
  BY <1>1, <1>4 DEF DropTable
<1>5. ASSUME NEW g \in Gateway, Start(g) PROVE RecInv'
  BY <1>5, StartRec
<1>6. ASSUME NEW n \in NIC, ClaimFree(n) PROVE RecInv'
  BY <1>6, ClaimRec
<1>7. CASE Restart
  BY <1>7 DEF Restart, RecInv, Reconcile, Idle
<1>8. ASSUME NEW n \in NIC,
             \/ CreateNIC(n) \/ TogglePublicIP(n) \/ DeleteNIC(n) \/ FinalizeNIC(n)
             \/ ReleasePatch(n)
      PROVE  RecInv'
  <2>1. rec' = rec /\ (UNCHANGED <<nic, stale>> \/ \E o : PutNIC(n, o))
    BY <1>8 DEF CreateNIC, TogglePublicIP, DeleteNIC, FinalizeNIC, ReleasePatch, nicVars
  <2>2. QED BY <2>1, RecUntouched
<1>9. ASSUME UNCHANGED <<nic, stale, rec>> PROVE RecInv'
  BY <1>9, RecUntouched
<1>10. ASSUME NEW g \in Gateway, NEW ips, NEW p,
             \/ CreateGateway(g, ips, p) \/ UpdateGateway(g, ips, p) \/ DeleteGateway(g)
             \/ DeliverGateway(g) \/ DeliverTable(g)
      PROVE  UNCHANGED <<nic, stale, rec>>
  BY <1>10 DEF CreateGateway, UpdateGateway, DeleteGateway, DeliverGateway, DeliverTable,
               nicVars
<1>11. ASSUME UNCHANGED vars \/ \E n \in NIC : DeliverNIC(n) \/ ReleaseGet(n)
       PROVE  UNCHANGED <<nic, stale, rec>>
  BY <1>11 DEF DeliverNIC, ReleaseGet, vars, nicVars
<1>12. QED
  BY <1>2, <1>3, <1>4, <1>5, <1>6, <1>7, <1>8, <1>9, <1>10, <1>11
     DEF Next, User, Deliver, Work
-----------------------------------------------------------------------------
(* Events are mapped to gateways. *)
LEMMA EnqueuedType ==
  ASSUME NEW old \in NICObject, NEW new \in NICObject
  PROVE  Enqueued(old, new) \subseteq Gateway
  BY DEF Enqueued, Interested, NICObject

(* The queues hold what they are for, and the bounds are kept. *)
LEMMA QueueStep ==
  ASSUME NICInv, RecInv, QueueInv, [Next]_vars
  PROVE  QueueInv'
<1>1. ASSUME Fault PROVE faults' \in 0 .. MaxFaults
  BY <1>1, NATAssumption DEF Fault, QueueInv
<1>2. ASSUME Churn PROVE churn' \in 0 .. MaxChurn
  BY <1>2, NATAssumption DEF Churn, QueueInv
<1>3. ASSUME NEW n \in NIC, NEW o, PutNIC(n, o) PROVE stale' \subseteq NIC
  BY <1>3 DEF PutNIC, QueueInv
<1>4. ASSUME NEW failed, Finish(failed), rec.g \in Gateway
      PROVE  stale' \subseteq NIC /\ queue' \subseteq Gateway
  BY <1>4 DEF Finish, QueueInv
<1>5. ASSUME NEW n \in NIC, CreateNIC(n) \/ TogglePublicIP(n) \/ DeleteNIC(n)
      PROVE  QueueInv'
  <2>1. /\ Churn /\ UNCHANGED <<queue, relVars, faults>> /\ \E o : PutNIC(n, o)
    BY <1>5 DEF CreateNIC, TogglePublicIP, DeleteNIC
  <2>2. QED BY <1>2, <1>3, <2>1 DEF QueueInv, relVars
<1>6. ASSUME NEW n \in NIC, FinalizeNIC(n) PROVE QueueInv'
  BY <1>3, <1>6 DEF FinalizeNIC, QueueInv, relVars
<1>7. ASSUME NEW g \in Gateway, NEW ips, NEW p,
             CreateGateway(g, ips, p) \/ UpdateGateway(g, ips, p) \/ DeleteGateway(g)
      PROVE  QueueInv'
  <2>1. Churn /\ UNCHANGED <<queue, stale, relVars, faults>>
    BY <1>7 DEF CreateGateway, UpdateGateway, DeleteGateway
  <2>2. QED BY <1>2, <2>1 DEF QueueInv, relVars
<1>8. ASSUME NEW n \in NIC, DeliverNIC(n) PROVE QueueInv'
  <2>1. nicCache[n] \in NICObject /\ Head(nicWatch[n]) \in NICObject
    BY <1>8, HeadTailProperties DEF DeliverNIC, NICInv
  <2>2. Enqueued(nicCache[n], Head(nicWatch[n])) \subseteq Gateway
    BY <2>1, EnqueuedType
  <2>3. QED BY <1>8, <2>2 DEF DeliverNIC, QueueInv
<1>9. ASSUME NEW g \in Gateway, DeliverGateway(g) \/ DeliverTable(g) PROVE QueueInv'
  BY <1>9 DEF DeliverGateway, DeliverTable, QueueInv, relVars
<1>10. ASSUME NEW g \in Gateway, Start(g) PROVE QueueInv'
  <2>1. /\ queue' \subseteq queue /\ stale' \subseteq NIC
        /\ UNCHANGED <<relVars, churn, faults>>
    BY <1>10 DEF Start, QueueInv
  <2>2. QED BY <2>1 DEF QueueInv, relVars
<1>11. ASSUME NEW n \in NIC, ClaimFree(n) PROVE QueueInv'
  <2>1. UNCHANGED <<queue, relVars, churn>>
    BY <1>11 DEF ClaimFree
  <2>2. faults' \in 0 .. MaxFaults
    BY <1>1, <1>11 DEF ClaimFree, ClaimNIC, QueueInv
  <2>3. stale' \subseteq NIC
    <3>1. stale' = stale \/ stale' = stale \ {n} \/ \E o : PutNIC(n, o)
      BY <1>11 DEF ClaimFree, ClaimNIC
    <3>2. QED BY <1>3, <3>1 DEF QueueInv
  <2>4. QED BY <2>1, <2>2, <2>3 DEF QueueInv, relVars
<1>12. CASE Apply \/ UpdateStatus \/ DropTable
  <2>1. rec.g \in Gateway
    BY <1>12, RecKinds DEF Apply, UpdateStatus, DropTable, RecInv
  <2>2. UNCHANGED <<relVars, churn>>
    BY <1>12 DEF Apply, UpdateStatus, DropTable
  <2>3. faults' \in 0 .. MaxFaults
    BY <1>1, <1>12 DEF Apply, UpdateStatus, DropTable, QueueInv
  <2>4. (\E failed : Finish(failed)) \/ UNCHANGED <<stale, queue>>
    BY <1>12 DEF Apply, UpdateStatus, DropTable
  <2>5. QED BY <1>4, <2>1, <2>2, <2>3, <2>4 DEF QueueInv, relVars
<1>13. ASSUME NEW n \in NIC, ReleaseGet(n) PROVE QueueInv'
  BY <1>13 DEF ReleaseGet, QueueInv
<1>14. ASSUME NEW n \in NIC, ReleasePatch(n) PROVE QueueInv'
  <2>1. rel' = {} /\ UNCHANGED <<queue, churn>> /\ relQueue' \subseteq NIC
    BY <1>14 DEF ReleasePatch, QueueInv
  <2>2. faults' \in 0 .. MaxFaults
    BY <1>1, <1>14 DEF ReleasePatch, QueueInv
  <2>3. stale' \subseteq NIC
    BY <1>3, <1>14 DEF ReleasePatch, QueueInv
  <2>4. QED BY <2>1, <2>2, <2>3 DEF QueueInv
<1>15. CASE Restart
  BY <1>1, <1>15 DEF Restart, QueueInv
<1>16. CASE UNCHANGED vars
  BY <1>16 DEF vars, QueueInv, relVars
<1>17. QED
  BY <1>5, <1>6, <1>7, <1>8, <1>9, <1>10, <1>11, <1>12, <1>13, <1>14, <1>15, <1>16
     DEF Next, User, Deliver, Work

(* Nothing is wrong in the beginning. *)
LEMMA InitInv ==
  ASSUME Init
  PROVE  NATInv
<1>1. NICInv
  <2>1. PICK some \in SUBSET NIC :
          nic = [n \in NIC |-> [status |-> IF n \in some THEN "live" ELSE "new",
                                public |-> FALSE, nat |-> NoGateway]]
    BY DEF Init
  <2>2. nic \in [NIC -> NICObject]
    BY <2>1 DEF NICObject, Status
  <2>3. nicWatch \in [NIC -> Seq(NICObject)]
    BY EmptySeq DEF Init
  <2>4. QED BY <2>2, <2>3 DEF Init, NICInv, Follows
<1>2. GatewayInv
  <2>1. ASSUME NEW g \in Gateway PROVE gw[g] \in ValidGateway
    <3>1. CASE gw[g] = [status |-> "new", ips |-> {}, ppi |-> 0, used |-> 0, requests |-> 0]
      BY <3>1 DEF ValidGateway, GatewayObject
    <3>2. CASE gw[g] \in [status : {"live"}, ips : UNION {IPSets[h] : h \in Gateway},
                          ppi : Ports, used : {0}, requests : {0}]
      <4>1. gw[g].ips \in SUBSET IP
        BY <3>2, NATAssumption DEF Init
      <4>2. QED BY <3>2, <4>1 DEF ValidGateway, GatewayObject
    <3>3. QED BY <3>1, <3>2 DEF Init
  <2>2. gwWatch \in [Gateway -> Seq(ValidGateway)]
    BY EmptySeq DEF Init
  <2>3. gw \in [Gateway -> ValidGateway]
    BY <2>1 DEF Init
  <2>4. QED BY <2>2, <2>3 DEF Init, GatewayInv
<1>3. TableInv
  <2>1. tableWatch \in [Gateway -> Seq(ValidTable)]
    BY EmptySeq DEF Init
  <2>2. table \in [Gateway -> ValidTable]
    BY DEF Init, ValidTable
  <2>3. QED BY <2>1, <2>2 DEF Init, TableInv, Follows
<1>4. RecInv
  BY DEF Init, RecInv, Reconcile, Idle
<1>5. QueueInv
  BY NATAssumption DEF Init, QueueInv
<1>6. QED BY <1>1, <1>2, <1>3, <1>4, <1>5 DEF NATInv

(* Every step keeps the invariant. *)
LEMMA InvStep ==
  ASSUME NATInv, [Next]_vars
  PROVE  NATInv'
  BY NICStep, GatewayStep, TableStep, RecStep, QueueStep DEF NATInv

(* The invariant of the gateway controller and the release controller. *)
THEOREM NATInvariant == Spec => []NATInv
<1>1. Init => NATInv
  BY InitInv
<1>2. NATInv /\ [Next]_vars => NATInv'
  BY InvStep
<1>3. QED BY <1>1, <1>2, PTL DEF Spec

(* Sequences over a smaller set are sequences over a larger one. *)
LEMMA SeqWider ==
  ASSUME NEW S, NEW T, S \subseteq T
  PROVE  Seq(S) \subseteq Seq(T)
<1> SUFFICES ASSUME NEW q \in Seq(S) PROVE q \in Seq(T)
  OBVIOUS
<1>1. Len(q) \in Nat /\ q \in [1 .. Len(q) -> S]
  BY LenProperties
<1>2. q \in [1 .. Len(q) -> T]
  BY <1>1
<1>3. QED BY <1>1, <1>2, SeqDef

(* The invariant implies the type invariant. *)
LEMMA InvariantTyped ==
  ASSUME NATInv
  PROVE  NATTypeOK
<1>1. ValidGateway \subseteq GatewayObject /\ ValidTable \subseteq Table
  BY DEF ValidGateway, ValidTable, Table
<1>2. Seq(ValidGateway) \subseteq Seq(GatewayObject) /\ Seq(ValidTable) \subseteq Seq(Table)
  BY <1>1, SeqWider
<1>3. /\ gw \in [Gateway -> GatewayObject] /\ gwCache \in [Gateway -> GatewayObject]
      /\ gwWatch \in [Gateway -> Seq(GatewayObject)]
  BY <1>1, <1>2 DEF NATInv, GatewayInv
<1>4. /\ table \in [Gateway -> Table] /\ tableCache \in [Gateway -> Table]
      /\ tableWatch \in [Gateway -> Seq(Table)]
  BY <1>1, <1>2 DEF NATInv, TableInv
<1>5. QED BY <1>3, <1>4 DEF NATInv, NICInv, RecInv, QueueInv, NATTypeOK

(* Type correctness of the NAT gateway controller and its API objects. *)
THEOREM NATTypeCorrect == Spec => []NATTypeOK
<1>1. NATInv => NATTypeOK
  BY InvariantTyped
<1>2. QED BY <1>1, NATInvariant, PTL

(* The invariant has well-formed tables only. *)
LEMMA InvariantDisjoint ==
  ASSUME NATInv
  PROVE  SectionsDisjoint
  BY DEF NATInv, TableInv, ValidTable, SectionsDisjoint

(* No NATTable gives a port to two interfaces, however stale the caches it
   was computed from and whatever the ports per interface were before. *)
THEOREM PortsNeverShared == Spec => []SectionsDisjoint
<1>1. NATInv => SectionsDisjoint
  BY InvariantDisjoint
<1>2. QED BY <1>1, NATInvariant, PTL
-----------------------------------------------------------------------------
(* Users and the release controller only ever take a claim away; a gateway
   claims an interface whose copy is up to date and shows no claim. *)
LEMMA ClaimChange ==
  ASSUME NATInv, Next, NEW n \in NIC, nic[n].nat # NoGateway, nic'[n].nat # nic[n].nat
  PROVE  nic'[n].nat = NoGateway
<1>0. NICInv /\ RecInv /\ nic[n] \in NICObject
  BY DEF NATInv, NICInv
<1>1. ASSUME NEW m \in NIC, NEW o \in NICObject, PutNIC(m, o)
      PROVE  nic'[n] = IF n = m THEN o ELSE nic[n]
  BY <1>0, <1>1 DEF PutNIC, NICInv
<1>2. ASSUME NEW m \in NIC,
             CreateNIC(m) \/ TogglePublicIP(m) \/ DeleteNIC(m) \/ FinalizeNIC(m)
      PROVE  nic'[n].nat \in {nic[n].nat, NoGateway}
  <2>1. nic[m] \in NICObject
    BY <1>0 DEF NICInv
  <2>2. PICK o \in NICObject : PutNIC(m, o) /\ o.nat \in {nic[m].nat, NoGateway}
    <3>1. ASSUME NEW st \in Status
          PROVE  /\ [nic[m] EXCEPT !.status = st] \in NICObject
                 /\ [nic[m] EXCEPT !.status = st].nat = nic[m].nat
      BY <2>1 DEF NICObject
    <3>2. CASE TogglePublicIP(m)
      <4> DEFINE o == [nic[m] EXCEPT !.public = ~@,
                                     !.nat = IF nic[m].public THEN @ ELSE NoGateway]
      <4>1. o \in NICObject /\ o.nat \in {nic[m].nat, NoGateway}
        BY <2>1 DEF NICObject
      <4>2. PutNIC(m, o)
        BY <3>2 DEF TogglePublicIP
      <4>3. QED BY <4>1, <4>2
    <3>3. CASE CreateNIC(m) \/ DeleteNIC(m) \/ FinalizeNIC(m)
      BY <3>1, <3>3 DEF CreateNIC, DeleteNIC, FinalizeNIC, Status
    <3>4. QED BY <1>2, <3>2, <3>3
  <2>3. QED BY <1>1, <2>2
<1>3. ASSUME NEW m \in NIC, ReleasePatch(m) PROVE nic'[n].nat \in {nic[n].nat, NoGateway}
  BY <1>0, <1>3 DEF ReleasePatch, PutNIC, NICInv, NICObject, nicVars
<1>4. ASSUME NEW m \in NIC, ClaimFree(m) PROVE nic'[n] = nic[n]
  <2>1. m \in stale => UNCHANGED nic
    BY <1>4 DEF ClaimFree, ClaimNIC, nicVars
  <2>2. m # n => nic'[n] = nic[n]
    BY <1>0, <1>4 DEF ClaimFree, ClaimNIC, PutNIC, NICInv, nicVars
  <2>3. m \notin stale => nic[m].nat = NoGateway
    BY <1>0, <1>4 DEF ClaimFree, RecInv
  <2>4. QED BY <2>1, <2>2, <2>3
<1>5. ASSUME NEW g \in Gateway, NEW ips, NEW p,
             \/ CreateGateway(g, ips, p) \/ UpdateGateway(g, ips, p) \/ DeleteGateway(g)
             \/ DeliverGateway(g) \/ DeliverTable(g) \/ Start(g)
      PROVE  nic' = nic
  BY <1>5 DEF CreateGateway, UpdateGateway, DeleteGateway, DeliverGateway, DeliverTable,
              Start, nicVars
<1>6. ASSUME \/ Apply \/ UpdateStatus \/ DropTable \/ Restart
             \/ \E m \in NIC : DeliverNIC(m) \/ ReleaseGet(m)
      PROVE  nic' = nic
  BY <1>6 DEF Apply, UpdateStatus, DropTable, Restart, DeliverNIC, ReleaseGet, nicVars
<1>7. QED
  BY <1>2, <1>3, <1>4, <1>5, <1>6 DEF Next, User, Deliver, Work

(* No gateway takes an interface another one claims. *)
THEOREM ClaimsAreNotStolen == Spec => ClaimsNotStolen
<1>1. NATInv /\ [Next]_vars =>
        [\A n \in NIC : nic[n].nat # NoGateway /\ nic'[n].nat # nic[n].nat
                        => nic'[n].nat = NoGateway]_vars
  BY ClaimChange
<1>2. QED BY <1>1, NATInvariant, PTL DEF Spec, ClaimsNotStolen
-----------------------------------------------------------------------------
(* A range of the right size on an IP the gateway still has is kept, if it is
   of more than one port: HasSlot wants the last port to be above the first. *)
LEMMA ExistingKept ==
  ASSUME 1 \notin Ports, TableInv, NEW g \in Gateway, NEW ips, NEW ppi \in Ports,
         tableCache[g] # NoTable, NEW s \in tableCache[g],
         s.ip \in ips, s.end = endPort(s.port, ppi)
  PROVE  s \in getExistingAllocations(g, ips, ppi)
<1>1. PICK p \in Ports : Sliced(tableCache[g], p)
  BY DEF TableInv, ValidTable
<1>2. PICK slot \in Nat : OfSlot(s, slot, p)
  BY <1>1 DEF Sliced
<1>3. ppi \in Nat \ {0, 1} /\ p \in Nat \ {0}
  BY PortsPositive
<1>4. /\ s.port \in Nat /\ s.end \in Nat
      /\ MinPort <= s.port /\ s.end <= MaxPort
      /\ slotForPorts(s.port, p) = slot
  BY <1>2, <1>3, SlotRange
<1>5. p = ppi
  BY <1>2, <1>3, <1>4 DEF OfSlot, endPort
<1>6. s.port < s.end
  BY <1>3, <1>4 DEF endPort
<1>7. (s.port - MinPort) \div ppi < SlotsPerIP(ppi)
  <2>1. slot \in 0 .. SlotsPerIP(ppi) - 1 /\ SlotsPerIP(ppi) \in Nat
    BY <1>2, <1>3, <1>5, SlotsPerIPType DEF OfSlot
  <2>2. (s.port - MinPort) \div ppi = slot
    BY <1>4, <1>5 DEF slotForPorts
  <2>3. QED BY <2>1, <2>2
<1>8. HasSlot(s.port, s.end, ppi)
  BY <1>4, <1>6, <1>7, PortsAssumption DEF HasSlot
<1>9. QED BY <1>8 DEF getExistingAllocations

(* A reconcile that starts from the current table keeps what is good of it. *)
LEMMA StartFresh ==
  ASSUME 1 \notin Ports, GatewayInv, TableInv, NEW g \in Gateway, Start(g)
  PROVE  FreshInv'
<1>1. CASE rec' = [pc |-> "drop", g |-> g]
  BY <1>1 DEF FreshInv
<1>2. CASE gwCache[g].status = "live"
  <2> DEFINE o == gwCache[g]
             mine == {n \in NIC : Exists(nicCache[n]) /\ nicCache[n].nat = g}
             free == {n \in NIC : nicCache[n].status = "live" /\ Claimable(nicCache[n])}
             kept == {s \in getExistingAllocations(g, o.ips, o.ppi) : s.nic \in mine}
             lacking == mine \ {s.nic : s \in kept}
  <2>0. \E f \in Placements(lacking, o.ips, o.ppi, SlotsOf(kept, o.ppi)) :
        \E failed \in ReleaseFails(lacking \ DOMAIN f) :
           rec' = [pc |-> "claim", g |-> g, ips |-> o.ips, ppi |-> o.ppi,
                   mine |-> mine, todo |-> IF lacking \ DOMAIN f = {} THEN free ELSE {},
                   sections |-> kept \union {Section(n, f[n], o.ppi) : n \in DOMAIN f},
                   requests |-> Cardinality(mine) + Cardinality(free),
                   seen |-> [used |-> o.used, requests |-> o.requests],
                   spare |-> FALSE, fresh |-> tableWatch[g] = <<>>, failed |-> failed]
    BY <1>2 DEF Start
  <2> HIDE DEF o, mine, free, kept, lacking
  <2>1. /\ rec'.g = g /\ rec'.ips = o.ips /\ rec'.ppi = o.ppi /\ rec'.mine = mine
        /\ kept \subseteq rec'.sections /\ rec'.fresh = (tableWatch[g] = <<>>)
    BY <2>0
  <2>2. o.ppi \in Ports /\ table' = table
    BY <1>2 DEF GatewayInv, ValidGateway, Start, tableVars, o
  <2>3. tableWatch[g] = <<>> => tableCache[g] = table[g]
    BY DEF TableInv, Follows
  <2>4. ASSUME tableWatch[g] = <<>>, table[g] # NoTable, NEW s \in table[g],
               s.nic \in mine, s.ip \in o.ips, s.end = endPort(s.port, o.ppi)
        PROVE  s \in kept
    <3>1. s \in getExistingAllocations(g, o.ips, o.ppi)
      BY <2>2, <2>3, <2>4, ExistingKept
    <3>2. QED BY <2>4, <3>1 DEF kept
  <2>5. QED BY <2>1, <2>2, <2>4 DEF FreshInv
<1>3. QED BY <1>1, <1>2 DEF Start

(* Until it is applied, nobody else changes the table, and claims only add. *)
LEMMA FreshStep ==
  ASSUME 1 \notin Ports, NATInv, FreshInv, [Next]_vars
  PROVE  FreshInv'
<1>0. RecInv /\ GatewayInv /\ TableInv
  BY DEF NATInv
<1>1. ASSUME NEW g \in Gateway, Start(g) PROVE FreshInv'
  BY <1>0, <1>1, StartFresh
<1>2. ASSUME NEW n \in NIC, ClaimFree(n) PROVE FreshInv'
  <2>1. rec.pc = "claim" /\ rec \in Busy /\ table' = table
    BY <1>0, <1>2, RecKinds DEF ClaimFree, RecInv, tableVars
  <2>2. /\ rec'.g = rec.g /\ rec'.ips = rec.ips /\ rec'.ppi = rec.ppi
        /\ rec'.mine = rec.mine /\ rec'.fresh = rec.fresh
        /\ rec.sections \subseteq rec'.sections
    <3>1. CASE Claimed(n)
      BY <2>1, <3>1 DEF Claimed, Busy
    <3>2. CASE NotClaimed(n, TRUE) \/ NotClaimed(n, FALSE)
      BY <2>1, <3>2 DEF NotClaimed, Busy
    <3>3. CASE rec' = rec
      BY <3>3
    <3>4. QED BY <1>2, <3>1, <3>2, <3>3 DEF ClaimFree, ClaimNIC
  <2>3. QED BY <2>1, <2>2 DEF FreshInv
<1>3. CASE Apply \/ UpdateStatus \/ DropTable \/ Restart
  <2>1. rec' = Idle \/ rec' = [rec EXCEPT !.pc = "status"]
    BY <1>3 DEF Apply, UpdateStatus, DropTable, Restart, Finish
  <2>2. rec'.pc # "claim"
    BY <1>0, <2>1 DEF Idle, RecInv, Reconcile
  <2>3. QED BY <2>2 DEF FreshInv
<1>4. CASE UNCHANGED <<table, rec>>
  BY <1>4 DEF FreshInv
<1>5. ASSUME NEW n \in NIC,
             \/ CreateNIC(n) \/ TogglePublicIP(n) \/ DeleteNIC(n) \/ FinalizeNIC(n)
             \/ DeliverNIC(n) \/ ReleaseGet(n) \/ ReleasePatch(n)
      PROVE  UNCHANGED <<table, rec>>
  BY <1>5 DEF CreateNIC, TogglePublicIP, DeleteNIC, FinalizeNIC, DeliverNIC, ReleaseGet,
              ReleasePatch, tableVars
<1>6. ASSUME NEW g \in Gateway, NEW ips, NEW p,
             \/ CreateGateway(g, ips, p) \/ UpdateGateway(g, ips, p) \/ DeleteGateway(g)
             \/ DeliverGateway(g) \/ DeliverTable(g)
      PROVE  UNCHANGED <<table, rec>>
  BY <1>6 DEF CreateGateway, UpdateGateway, DeleteGateway, DeliverGateway, DeliverTable,
              tableVars
<1>7. UNCHANGED vars => UNCHANGED <<table, rec>>
  BY DEF vars, tableVars
<1>8. QED
  BY <1>1, <1>2, <1>3, <1>4, <1>5, <1>6, <1>7 DEF Next, User, Deliver, Work

(* Only the gateway's own reconcile changes its table. *)
LEMMA TableChange ==
  ASSUME NATInv, Next, rec.pc = "claim", NEW g \in Gateway, table'[g] # table[g]
  PROVE  g = rec.g /\ table'[g] = rec.sections
<1>1. ASSUME NEW n \in NIC,
             \/ CreateNIC(n) \/ TogglePublicIP(n) \/ DeleteNIC(n) \/ FinalizeNIC(n)
             \/ DeliverNIC(n) \/ ReleaseGet(n) \/ ReleasePatch(n) \/ ClaimFree(n)
      PROVE  FALSE
  BY <1>1 DEF CreateNIC, TogglePublicIP, DeleteNIC, FinalizeNIC, DeliverNIC, ReleaseGet,
              ReleasePatch, ClaimFree, tableVars
<1>2. ASSUME NEW h \in Gateway, NEW ips, NEW p,
             \/ CreateGateway(h, ips, p) \/ UpdateGateway(h, ips, p) \/ DeleteGateway(h)
             \/ DeliverGateway(h) \/ DeliverTable(h) \/ Start(h)
      PROVE  FALSE
  BY <1>2 DEF CreateGateway, UpdateGateway, DeleteGateway, DeliverGateway, DeliverTable,
              Start, tableVars
<1>3. ~UpdateStatus /\ ~DropTable /\ ~Restart
  BY DEF UpdateStatus, DropTable, Restart
<1>4. Apply
  BY <1>1, <1>2, <1>3 DEF Next, User, Deliver, Work
<1>5. QED BY <1>4 DEF Apply, PutTable, tableVars, NATInv, TableInv

(* Ranges that are still good stay where they are.  With a single port per
   interface they do not, because no range of one port passes for existing:
   the theorem is about the other numbers of ports. *)
THEOREM AllocationsAreStable ==
  ASSUME 1 \notin Ports
  PROVE  Spec => AllocationsStay
<1> DEFINE Stays == \A g \in Gateway :
          table'[g] # table[g] /\ table[g] # NoTable /\ rec.pc = "claim" /\ rec.fresh =>
             \A s \in table[g] :
                s.nic \in rec.mine /\ s.ip \in rec.ips /\ s.end = endPort(s.port, rec.ppi)
                => s \in table'[g]
<1>1. NATInv /\ FreshInv /\ [Next]_vars => [Stays]_vars
  BY TableChange DEF FreshInv
<1>2. Init => FreshInv
  BY DEF Init, FreshInv, Idle
<1>3. NATInv /\ FreshInv /\ [Next]_vars => FreshInv'
  BY FreshStep
<1>4. QED BY <1>1, <1>2, <1>3, NATInvariant, PTL DEF Spec, AllocationsStay
-----------------------------------------------------------------------------
(***************************************************************************)
(* No event is missed                                                      *)
(***************************************************************************)

(* The gateway g is concerned by an interface: it claims it or may do so. *)
Concerns(o, g) == o.nat = g \/ Claimable(o)

(* An event that is on its way will wake the reconcile of g. *)
Wakes(n, g) ==
    /\ nicWatch[n] # <<>>
    /\ \/ Concerns(nicCache[n], g)
       \/ \E k \in DOMAIN nicWatch[n] : Concerns(nicWatch[n][k], g)

(* Nothing will wake the reconcile of g. *)
Calm(g) ==
    /\ g \notin queue /\ gwWatch[g] = <<>> /\ tableWatch[g] = <<>>
    /\ \A n \in NIC : ~Wakes(n, g)

(* The interfaces as a reconcile finds them. *)
Mine(g) == {n \in NIC : Exists(nicCache[n]) /\ nicCache[n].nat = g}
Free == {n \in NIC : nicCache[n].status = "live" /\ Claimable(nicCache[n])}

Served(sections) == {s.nic : s \in sections}
Full(g, sections) == FreeSlots(gw[g].ips, gw[g].ppi, SlotsOf(sections, gw[g].ppi)) = {}

(* What a reconcile that is not to be repeated leaves behind. *)
Right(g) ==
    /\ table[g] # NoTable
    /\ Served(table[g]) \subseteq Mine(g)
    /\ Full(g, table[g]) \/ (Served(table[g]) = Mine(g) /\ Free = {})
    /\ gw[g].used = Cardinality(table[g])
    /\ gw[g].requests = Cardinality(Mine(g)) + Cardinality(Free)

Working(g) == rec # Idle /\ rec.g = g

(* A gateway nobody works on and nothing will wake is as it should be. *)
Rest(g) ==
    ~Working(g) /\ g \notin queue /\ gwWatch[g] = <<>> =>
       IF gw[g].status = "live" THEN Calm(g) => Right(g) ELSE table[g] = NoTable

(* What the reconcile of g has read of the gateway is still true, or it will
   be repeated. *)
Read(g) ==
    Working(g) /\ g \notin queue /\ gwWatch[g] = <<>> =>
       IF rec.pc = "drop" THEN gw[g].status # "live"
       ELSE /\ gw[g].status = "live"
            /\ rec.ips = gw[g].ips /\ rec.ppi = gw[g].ppi
            /\ rec.seen.used = gw[g].used /\ rec.seen.requests = gw[g].requests

(* Its table is right, or it will be repeated. *)
Plan(g) ==
    rec.pc \in {"claim", "status"} /\ rec.g = g /\ Calm(g) /\ ~rec.failed =>
       /\ ~rec.spare
       /\ rec.requests = Cardinality(Mine(g)) + Cardinality(Free)
       /\ rec.todo \subseteq Free
       /\ Served(rec.sections) \subseteq Mine(g)
       /\ \/ Full(g, rec.sections)
          \/ Served(rec.sections) = Mine(g) /\ rec.todo = Free
       /\ rec.pc = "status" =>
             /\ table[g] = rec.sections
             /\ Full(g, rec.sections) \/ Free = {}

(* A live interface does not stay claimed by a gateway that is gone. *)
ReleaseInv ==
    /\ \A m, n \in rel : m = n
    /\ \A n \in NIC \ (relQueue \union rel) :
          nicWatch[n] = <<>> /\ Releasable(nic[n]) =>
             gw[nic[n].nat].status = "live" \/ gwWatch[nic[n].nat] # <<>>

(* The cached gateways follow the stored ones, and nobody has heard of one
   that is not yet created. *)
HeardInv ==
    \A g \in Gateway : /\ Follows(gw[g], gwWatch[g], gwCache[g])
                       /\ gw[g].status = "new" => gwWatch[g] = <<>>

SettleInv ==
    /\ HeardInv /\ ReleaseInv
    /\ \A g \in Gateway : Rest(g) /\ Read(g) /\ Plan(g)
    /\ rec.pc = "status" => ~rec.failed

(* The step leaves the gateway g and what its reconcile would find as they
   are, or something will wake its reconcile. *)
Steady(g) ==
    /\ g \notin queue' /\ gwWatch'[g] = <<>> =>
          g \notin queue /\ gwWatch[g] = <<>> /\ gw'[g] = gw[g]
    /\ gw'[g].status = "live" /\ Calm(g)' =>
          Calm(g) /\ Mine(g)' = Mine(g) /\ Free' = Free

(* A gateway nobody works on stays right in a steady step. *)
LEMMA SteadyRest ==
  ASSUME NEW g \in Gateway, Steady(g), Rest(g), table'[g] = table[g],
         Working(g) => Working(g)'
  PROVE  Rest(g)'
<1> SUFFICES ASSUME ~Working(g)', g \notin queue', gwWatch'[g] = <<>>
             PROVE  /\ gw'[g].status = "live" /\ Calm(g)' => Right(g)'
                    /\ gw'[g].status # "live" => table'[g] = NoTable
  BY DEF Rest
<1>1. ~Working(g) /\ g \notin queue /\ gwWatch[g] = <<>> /\ gw'[g] = gw[g]
  BY DEF Steady
<1>2. ASSUME gw'[g].status = "live", Calm(g)' PROVE Right(g)'
  <2>1. Calm(g) /\ Mine(g)' = Mine(g) /\ Free' = Free
    BY <1>2 DEF Steady
  <2>2. Right(g)
    BY <1>1, <1>2, <2>1 DEF Rest
  <2>3. QED BY <1>1, <2>1, <2>2 DEF Right, Full
<1>3. ASSUME gw'[g].status # "live" PROVE table'[g] = NoTable
  BY <1>1, <1>3 DEF Rest
<1>4. QED BY <1>2, <1>3

(* What a reconcile has read stays true in a steady step. *)
LEMMA SteadyRead ==
  ASSUME NEW g \in Gateway, Steady(g), Read(g), rec' = rec
  PROVE  Read(g)'
  BY DEF Read, Steady, Working

(* What a reconcile has computed stays right in a steady step. *)
LEMMA SteadyPlan ==
  ASSUME NEW g \in Gateway, Steady(g), Read(g), Plan(g), rec' = rec, table'[g] = table[g]
  PROVE  Plan(g)'
<1> SUFFICES ASSUME rec.pc \in {"claim", "status"}, rec.g = g, Calm(g)', ~rec.failed
             PROVE  Plan(g)'
  BY DEF Plan
<1>1. Working(g) /\ rec.pc # "drop"
  BY DEF Working, Idle
<1>2. g \notin queue /\ gwWatch[g] = <<>> /\ gw'[g] = gw[g] /\ gw[g].status = "live"
  BY <1>1 DEF Steady, Read, Calm
<1>3. Calm(g) /\ Mine(g)' = Mine(g) /\ Free' = Free
  BY <1>2 DEF Steady
<1>4. QED BY <1>2, <1>3 DEF Plan, Full

(* Nothing the reconcile of g does in between. *)
LEMMA SteadyKeeps ==
  ASSUME NEW g \in Gateway, Steady(g), Rest(g), Read(g), Plan(g), rec' = rec,
         table'[g] = table[g]
  PROVE  Rest(g)' /\ Read(g)' /\ Plan(g)'
<1>1. Working(g) => Working(g)'
  BY DEF Working
<1>2. QED BY <1>1, SteadyRest, SteadyRead, SteadyPlan

(* A write of an interface only adds to what is on its way. *)
LEMMA PutNICSteady ==
  ASSUME NICInv, NEW n \in NIC, NEW o \in NICObject, PutNIC(n, o),
         UNCHANGED <<gw, gwWatch, tableWatch, queue>>, NEW g \in Gateway
  PROVE  Steady(g)
<1>1. nicCache' = nicCache /\ nicWatch' = Told(nicWatch, n, nic[n], o)
  BY DEF PutNIC
<1>2. nicWatch \in [NIC -> Seq(NICObject)]
  BY DEF NICInv
<1>3. ASSUME NEW m \in NIC, Wakes(m, g) PROVE Wakes(m, g)'
  <2>1. CASE nicWatch'[m] = nicWatch[m]
    BY <1>1, <1>3, <2>1 DEF Wakes
  <2>2. CASE nicWatch'[m] = Append(nicWatch[m], o)
    <3>1. /\ nicWatch'[m] # <<>>
          /\ \A k \in DOMAIN nicWatch[m] :
                k \in DOMAIN nicWatch'[m] /\ nicWatch'[m][k] = nicWatch[m][k]
      BY <1>2, <2>2, AppendProperties
    <3>2. QED BY <1>1, <1>3, <3>1 DEF Wakes
  <2>3. QED BY <1>1, <1>2, <2>1, <2>2 DEF Told
<1>4. Calm(g)' => Calm(g)
  BY <1>3 DEF Calm
<1>5. Mine(g)' = Mine(g) /\ Free' = Free
  BY <1>1 DEF Mine, Free
<1>6. QED BY <1>4, <1>5 DEF Steady

(* A step that is about another gateway, or nobody else's business. *)
LEMMA UnchangedSteady ==
  ASSUME UNCHANGED <<nicWatch, nicCache>>, NEW g \in Gateway, gw'[g] = gw[g],
         gwWatch'[g] = gwWatch[g], tableWatch'[g] = tableWatch[g], g \in queue => g \in queue'
  PROVE  Steady(g)
<1>1. \A m \in NIC : Wakes(m, g)' <=> Wakes(m, g)
  BY DEF Wakes
<1>2. Mine(g)' = Mine(g) /\ Free' = Free
  BY DEF Mine, Free
<1>3. QED BY <1>1, <1>2 DEF Steady, Calm

(* An event that concerns the gateway wakes it, another one does not matter. *)
LEMMA DeliverNICSteady ==
  ASSUME NICInv, HeardInv, NEW n \in NIC, DeliverNIC(n), NEW g \in Gateway
  PROVE  Steady(g)
<1>1. PICK q : q = nicWatch[n]
  OBVIOUS
<1>2. PICK old : old = nicCache[n]
  OBVIOUS
<1>3. /\ q # <<>> /\ q \in Seq(NICObject)
      /\ nicWatch' = [nicWatch EXCEPT ![n] = Tail(q)]
      /\ nicCache' = [nicCache EXCEPT ![n] = Head(q)]
      /\ queue' = queue \union Enqueued(old, Head(q))
      /\ UNCHANGED <<gw, gwWatch, gwCache, tableWatch>>
  BY <1>1, <1>2 DEF DeliverNIC, NICInv, gwVars, tableVars
<1>4. nicWatch \in [NIC -> Seq(NICObject)] /\ nicCache \in [NIC -> NICObject]
  BY DEF NICInv
<1>5. /\ nicWatch'[n] = Tail(q) /\ nicCache'[n] = Head(q)
      /\ \A m \in NIC \ {n} : nicWatch'[m] = nicWatch[m] /\ nicCache'[m] = nicCache[m]
  BY <1>3, <1>4
<1>6. ASSUME gw'[g].status = "live", Calm(g)'
      PROVE  Calm(g) /\ Mine(g)' = Mine(g) /\ Free' = Free
  <2>1. gwCache[g].status = "live" /\ g # NoGateway
    BY <1>3, <1>6, NATAssumption DEF HeardInv, Follows, Calm
  <2>2. g \notin Interested(old) /\ g \notin Interested(Head(q)) /\ g \notin queue
    BY <1>3, <1>6 DEF Calm, Enqueued
  <2>3. ~Concerns(old, g) /\ ~Concerns(Head(q), g)
    BY <2>1, <2>2 DEF Interested, Concerns
  <2>4. \A k \in DOMAIN q : q[k] = Head(q) \/ \E j \in DOMAIN Tail(q) : Tail(q)[j] = q[k]
    <3>1. PICK t : t = Tail(q)
      OBVIOUS
    <3>2. /\ Len(q) \in Nat \ {0} /\ Len(t) = Len(q) - 1 /\ Head(q) = q[1]
          /\ DOMAIN q = 1 .. Len(q) /\ DOMAIN t = 1 .. Len(t)
          /\ \A i \in 1 .. Len(t) : t[i] = q[i + 1]
      BY <1>3, <3>1, HeadTailProperties, EmptySeq, LenProperties
    <3>3. ASSUME NEW k \in 1 .. Len(q), k # 1 PROVE k - 1 \in 1 .. Len(t) /\ t[k - 1] = q[k]
      BY <3>2, <3>3
    <3>4. QED BY <3>1, <3>2, <3>3
  <2>5. ~Wakes(n, g)' => \A j \in DOMAIN Tail(q) : ~Concerns(Tail(q)[j], g)
    <3>1. CASE Tail(q) = <<>>
      BY <3>1
    <3>2. CASE Tail(q) # <<>>
      BY <1>5, <3>2 DEF Wakes
    <3>3. QED BY <3>1, <3>2
  <2>6. ~Wakes(n, g)
    BY <1>1, <1>2, <1>6, <2>3, <2>4, <2>5 DEF Wakes, Calm
  <2>7. \A m \in NIC \ {n} : Wakes(m, g) <=> Wakes(m, g)'
    BY <1>5 DEF Wakes
  <2>8. Calm(g)
    BY <1>3, <1>6, <2>2, <2>6, <2>7 DEF Calm
  <2>9. n \notin Mine(g) /\ n \notin Free /\ n \notin Mine(g)' /\ n \notin Free'
    BY <1>2, <1>5, <2>3 DEF Mine, Free, Concerns
  <2>10. Mine(g)' = Mine(g) /\ Free' = Free
    BY <1>5, <2>9 DEF Mine, Free
  <2>11. QED BY <2>8, <2>10
<1>7. QED BY <1>3, <1>6 DEF Steady

(* A write of a gateway that changes something is on its way. *)
LEMMA PutGatewayTold ==
  ASSUME GatewayInv, NEW h \in Gateway, NEW o \in ValidGateway, PutGateway(h, o),
         NEW g \in Gateway, gwWatch'[g] = <<>>
  PROVE  gwWatch[g] = <<>> /\ gw'[g] = gw[g]
<1>1. gw' = [gw EXCEPT ![h] = o] /\ gwWatch' = Told(gwWatch, h, gw[h], o)
  BY DEF PutGateway
<1>2. gw \in [Gateway -> ValidGateway] /\ gwWatch \in [Gateway -> Seq(ValidGateway)]
  BY DEF GatewayInv
<1>3. CASE g # h \/ o = gw[h]
  BY <1>1, <1>2, <1>3 DEF Told
<1>4. CASE g = h /\ o # gw[h]
  <2>1. gwWatch'[g] = Append(gwWatch[g], o) /\ gwWatch[g] \in Seq(ValidGateway)
    BY <1>1, <1>2, <1>4 DEF Told
  <2>2. Append(gwWatch[g], o) # <<>>
    BY <2>1, AppendProperties
  <2>3. QED BY <2>1, <2>2
<1>5. QED BY <1>3, <1>4

(* A write of a gateway wakes its reconcile, and concerns no other. *)
LEMMA PutGatewaySteady ==
  ASSUME HeardInv, NATInv, NEW h \in Gateway, NEW o \in ValidGateway, PutGateway(h, o),
         UNCHANGED <<nicWatch, nicCache, tableWatch>>, NEW g \in Gateway,
         g \in queue => g \in queue'
  PROVE  Steady(g)
<1>1. gwWatch'[g] = <<>> => gwWatch[g] = <<>> /\ gw'[g] = gw[g]
  BY PutGatewayTold DEF NATInv
<1>2. \A m \in NIC : Wakes(m, g)' <=> Wakes(m, g)
  BY DEF Wakes
<1>3. Mine(g)' = Mine(g) /\ Free' = Free
  BY DEF Mine, Free
<1>4. QED BY <1>1, <1>2, <1>3 DEF Steady, Calm

(* A gateway that is in the queue is steady. *)
LEMMA QueuedSteady ==
  ASSUME NEW g, g \in queue'
  PROVE  Steady(g)
  BY DEF Steady, Calm
-----------------------------------------------------------------------------
(* The watchers of a gateway hear of every write of it. *)
LEMMA PutGatewayHeard ==
  ASSUME GatewayInv, HeardInv, NEW h \in Gateway, NEW o \in ValidGateway, PutGateway(h, o),
         o.status # "new" \/ o = gw[h]
  PROVE  HeardInv'
<1>1. gw \in [Gateway -> ValidGateway] /\ gwWatch \in [Gateway -> Seq(ValidGateway)]
  BY DEF GatewayInv
<1>2. gw' = [gw EXCEPT ![h] = o] /\ gwWatch' = Told(gwWatch, h, gw[h], o) /\ gwCache' = gwCache
  BY DEF PutGateway
<1>3. \A g \in Gateway : Follows(gw'[g], gwWatch'[g], gwCache'[g])
  BY <1>1, <1>2, ToldFollows DEF HeardInv
<1>4. ASSUME NEW g \in Gateway, gw'[g].status = "new" PROVE gwWatch'[g] = <<>>
  BY <1>1, <1>2, <1>4 DEF HeardInv, Told
<1>5. QED BY <1>3, <1>4 DEF HeardInv

(* What a reconcile writes into the status of its gateway. *)
LEMMA StatusWrite ==
  ASSUME NATInv, UpdateStatus
  PROVE  \/ UNCHANGED gwVars
         \/ \E o \in ValidGateway : PutGateway(rec.g, o) /\ (o.status # "new" \/ o = gw[rec.g])
<1>1. rec \in Busy /\ rec.g \in Gateway /\ rec.seen \in [used : Nat, requests : Nat]
  BY RecKinds DEF UpdateStatus, NATInv, RecInv, Busy
<1>2. gw[rec.g] \in ValidGateway /\ gw[rec.g] \in GatewayObject
  BY <1>1 DEF NATInv, GatewayInv, ValidGateway
<1>3. Cardinality(rec.sections) + (IF rec.spare THEN 1 ELSE 0) \in Nat /\ rec.requests \in Nat
  <2>1. Cardinality(rec.sections) \in Nat
    BY StatusType DEF UpdateStatus, NATInv
  <2>2. QED BY <1>1, <2>1 DEF Busy
<1>4. PICK used \in Nat : used = Cardinality(rec.sections) + (IF rec.spare THEN 1 ELSE 0)
  BY <1>3
<1>5. PICK o : o = [gw[rec.g] EXCEPT
                      !.used = IF used = rec.seen.used THEN @ ELSE used,
                      !.requests = IF rec.requests = rec.seen.requests THEN @ ELSE rec.requests]
  OBVIOUS
<1>6. o \in ValidGateway /\ o.status = gw[rec.g].status
  BY <1>2, <1>3, <1>5 DEF ValidGateway, GatewayObject
<1>7. used = rec.seen.used /\ rec.requests = rec.seen.requests => o = gw[rec.g]
  BY <1>2, <1>5 DEF GatewayObject
<1>8. [used |-> used, requests |-> rec.requests] = rec.seen
      => used = rec.seen.used /\ rec.requests = rec.seen.requests
  BY <1>1
<1>9. \/ UNCHANGED gwVars
      \/ /\ PutGateway(rec.g, o)
         /\ [used |-> used, requests |-> rec.requests] = rec.seen \/ gw[rec.g].status = "live"
  BY <1>4, <1>5 DEF UpdateStatus
<1>10. QED BY <1>6, <1>7, <1>8, <1>9

(* Whoever writes a gateway writes a gateway. *)
LEMMA GatewayWrites ==
  ASSUME NATInv, [Next]_vars,
         ~(\E g \in Gateway : DeliverGateway(g)), ~Restart
  PROVE  \/ UNCHANGED gwVars
         \/ \E g \in Gateway, o \in ValidGateway : PutGateway(g, o) /\ (o.status # "new" \/ o = gw[g])
<1>0. \A g \in Gateway : gw[g] \in GatewayObject /\ gw[g] \in ValidGateway
  BY DEF NATInv, GatewayInv, ValidGateway
<1>1. ASSUME NEW g \in Gateway, NEW ips \in IPSets[g], NEW p \in Ports,
             CreateGateway(g, ips, p) \/ UpdateGateway(g, ips, p)
      PROVE  \E o \in ValidGateway : PutGateway(g, o) /\ o.status = "live"
  <2>1. ips \in SUBSET IP
    BY NATAssumption
  <2>2. /\ [gw[g] EXCEPT !.status = "live", !.ips = ips, !.ppi = p] \in ValidGateway
        /\ [gw[g] EXCEPT !.ips = ips, !.ppi = p] \in ValidGateway
        /\ [gw[g] EXCEPT !.status = "live", !.ips = ips, !.ppi = p].status = "live"
        /\ [gw[g] EXCEPT !.ips = ips, !.ppi = p].status = gw[g].status
    BY <1>0, <2>1 DEF ValidGateway, GatewayObject
  <2>3. QED BY <1>1, <2>2 DEF CreateGateway, UpdateGateway
<1>2. ASSUME NEW g \in Gateway, DeleteGateway(g)
      PROVE  \E o \in ValidGateway : PutGateway(g, o) /\ o.status = "gone"
  <2>1. /\ [gw[g] EXCEPT !.status = "gone"] \in ValidGateway
        /\ [gw[g] EXCEPT !.status = "gone"].status = "gone"
    BY <1>0 DEF ValidGateway, GatewayObject
  <2>2. QED BY <1>2, <2>1 DEF DeleteGateway
<1>3. CASE UpdateStatus
  <2>1. rec.g \in Gateway
    BY <1>3, RecKinds DEF UpdateStatus, NATInv, RecInv
  <2>2. QED BY <1>3, <2>1, StatusWrite
<1>4. ASSUME NEW n \in NIC,
             \/ CreateNIC(n) \/ TogglePublicIP(n) \/ DeleteNIC(n) \/ FinalizeNIC(n)
             \/ DeliverNIC(n) \/ ClaimFree(n) \/ ReleaseGet(n) \/ ReleasePatch(n)
      PROVE  UNCHANGED gwVars
  BY <1>4 DEF CreateNIC, TogglePublicIP, DeleteNIC, FinalizeNIC, DeliverNIC, ClaimFree,
              ReleaseGet, ReleasePatch
<1>5. ASSUME \/ Apply \/ DropTable \/ UNCHANGED vars
             \/ \E g \in Gateway : DeliverTable(g) \/ Start(g)
      PROVE  UNCHANGED gwVars
  BY <1>5 DEF Apply, DropTable, DeliverTable, Start, vars
<1>6. QED
  BY <1>1, <1>2, <1>3, <1>4, <1>5 DEF Next, User, Deliver, Work

(* Every step keeps the cached gateways behind the stored ones. *)
LEMMA HeardStep ==
  ASSUME NATInv, HeardInv, [Next]_vars
  PROVE  HeardInv'
<1>0. GatewayInv
  BY DEF NATInv
<1>1. CASE UNCHANGED gwVars
  BY <1>1 DEF gwVars, HeardInv
<1>2. ASSUME NEW g \in Gateway, DeliverGateway(g) PROVE HeardInv'
  <2>1. /\ gw' = gw /\ gwWatch[g] # <<>>
        /\ gwWatch' = [gwWatch EXCEPT ![g] = Tail(gwWatch[g])]
        /\ gwCache' = [gwCache EXCEPT ![g] = Head(gwWatch[g])]
        /\ gwWatch \in [Gateway -> Seq(ValidGateway)]
        /\ gwCache \in [Gateway -> ValidGateway]
    BY <1>0, <1>2 DEF DeliverGateway, GatewayInv
  <2>2. Follows(gw[g], Tail(gwWatch[g]), Head(gwWatch[g])) /\ gw[g].status # "new"
    BY <2>1, DeliveredFollows DEF HeardInv
  <2>3. QED BY <2>1, <2>2 DEF HeardInv
<1>3. CASE Restart
  BY <1>3 DEF Restart, HeardInv, Follows
<1>4. QED BY <1>0, <1>1, <1>2, <1>3, GatewayWrites, PutGatewayHeard
-----------------------------------------------------------------------------
(* A step that leaves no interface alone that was to be looked at, and no
   gateway dead that was alive. *)
LEMMA ReleaseKept ==
  ASSUME ReleaseInv, NICInv, rel' = rel \/ rel' = {},
         \A n \in NIC : n \notin relQueue' \union rel' /\ nicWatch'[n] = <<>>
                        /\ Releasable(nic'[n]) =>
            n \notin relQueue \union rel /\ nicWatch[n] = <<>> /\ nic'[n] = nic[n],
         \A g \in Gateway : gwWatch'[g] = <<>> => gwWatch[g] = <<>> /\ gw'[g] = gw[g]
  PROVE  ReleaseInv'
<1>1. \A m, n \in rel' : m = n
  BY DEF ReleaseInv
<1>2. ASSUME NEW n \in NIC \ (relQueue' \union rel'), nicWatch'[n] = <<>>, Releasable(nic'[n])
      PROVE  gw'[nic'[n].nat].status = "live" \/ gwWatch'[nic'[n].nat] # <<>>
  <2>1. n \notin relQueue \union rel /\ nicWatch[n] = <<>> /\ nic'[n] = nic[n]
    BY <1>2
  <2>2. nic[n].nat \in Gateway
    BY <1>2, <2>1 DEF NICInv, NICObject, Releasable
  <2>3. gw[nic[n].nat].status = "live" \/ gwWatch[nic[n].nat] # <<>>
    BY <1>2, <2>1 DEF ReleaseInv
  <2>4. QED BY <2>1, <2>2, <2>3
<1>3. QED BY <1>1, <1>2 DEF ReleaseInv

(* A write that changes something is on its way. *)
LEMMA PutNICTold ==
  ASSUME NICInv, NEW n \in NIC, NEW o, o \in NICObject, PutNIC(n, o), NEW m \in NIC,
         nicWatch'[m] = <<>>
  PROVE  nicWatch[m] = <<>> /\ nic'[m] = nic[m]
<1>1. /\ nic \in [NIC -> NICObject] /\ nicWatch \in [NIC -> Seq(NICObject)]
      /\ nic' = [nic EXCEPT ![n] = o] /\ nicWatch' = Told(nicWatch, n, nic[n], o)
  BY DEF NICInv, PutNIC
<1>2. CASE m # n \/ o = nic[n]
  BY <1>1, <1>2 DEF Told
<1>3. CASE m = n /\ o # nic[n]
  <2>1. nicWatch'[m] = Append(nicWatch[m], o) /\ nicWatch[m] \in Seq(NICObject)
    BY <1>1, <1>3 DEF Told
  <2>2. Append(nicWatch[m], o) # <<>>
    BY <2>1, AppendProperties
  <2>3. QED BY <2>1, <2>2
<1>4. QED BY <1>2, <1>3

(* Whoever writes an interface writes an interface. *)
LEMMA NICWrites ==
  ASSUME NATInv, NEW n \in NIC,
         \/ CreateNIC(n) \/ TogglePublicIP(n) \/ DeleteNIC(n) \/ FinalizeNIC(n)
         \/ ClaimFree(n) \/ ReleasePatch(n)
  PROVE  UNCHANGED nicVars \/ \E o \in NICObject : PutNIC(n, o)
<1>0. nic[n] \in NICObject
  BY DEF NATInv, NICInv
<1>1. CASE CreateNIC(n) \/ TogglePublicIP(n) \/ DeleteNIC(n) \/ FinalizeNIC(n)
  BY <1>0, <1>1 DEF CreateNIC, TogglePublicIP, DeleteNIC, FinalizeNIC, NICObject, Status
<1>2. CASE ClaimFree(n)
  <2>1. rec.g \in Gateway
    BY <1>2, RecKinds DEF ClaimFree, NATInv, RecInv
  <2>2. [nic[n] EXCEPT !.nat = rec.g] \in NICObject
    BY <1>0, <2>1 DEF NICObject
  <2>3. QED BY <1>2, <2>2 DEF ClaimFree, ClaimNIC
<1>3. CASE ReleasePatch(n)
  <2>1. [nic[n] EXCEPT !.nat = NoGateway] \in NICObject
    BY <1>0 DEF NICObject
  <2>2. QED BY <1>3, <2>1 DEF ReleasePatch
<1>4. QED BY <1>1, <1>2, <1>3

(* An event of an interface that is to be released is looked at. *)
LEMMA DeliverNICRelease ==
  ASSUME NATInv, ReleaseInv, NEW n \in NIC, DeliverNIC(n)
  PROVE  ReleaseInv'
<1>0. NICInv
  BY DEF NATInv
<1>1. /\ nicWatch[n] # <<>> /\ nicWatch \in [NIC -> Seq(NICObject)]
      /\ nicWatch' = [nicWatch EXCEPT ![n] = Tail(nicWatch[n])]
      /\ relQueue' = relQueue \union {m \in {n} : Releasable(Head(nicWatch[n]))}
      /\ UNCHANGED <<nic, gw, gwWatch, rel>>
  BY <1>0 DEF DeliverNIC, NICInv, gwVars
<1>2. Follows(nic[n], Tail(nicWatch[n]), Head(nicWatch[n]))
  BY <1>0, <1>1, DeliveredFollows DEF NICInv
<1>3. Tail(nicWatch[n]) = <<>> /\ Releasable(nic[n]) => n \in relQueue'
  BY <1>1, <1>2 DEF Follows
<1>4. \A m \in NIC : m \notin relQueue' \union rel' /\ nicWatch'[m] = <<>>
                     /\ Releasable(nic'[m]) =>
         m \notin relQueue \union rel /\ nicWatch[m] = <<>> /\ nic'[m] = nic[m]
  BY <1>1, <1>3
<1>5. QED BY <1>0, <1>1, <1>4, ReleaseKept

(* The end of a gateway has the interfaces it claims looked at. *)
LEMMA DeliverGatewayRelease ==
  ASSUME NATInv, HeardInv, ReleaseInv, NEW g \in Gateway, DeliverGateway(g)
  PROVE  ReleaseInv'
<1>1. /\ gwWatch[g] # <<>> /\ gwWatch \in [Gateway -> Seq(ValidGateway)]
      /\ gw \in [Gateway -> ValidGateway]
      /\ gwWatch' = [gwWatch EXCEPT ![g] = Tail(gwWatch[g])]
      /\ relQueue' = relQueue \union
          {n \in NIC : /\ Head(gwWatch[g]).status = "gone"
                       /\ Releasable(nicCache[n]) /\ nicCache[n].nat = g}
      /\ UNCHANGED <<nic, nicWatch, gw, rel>>
  BY DEF DeliverGateway, NATInv, GatewayInv, nicVars
<1>2. Follows(gw[g], Tail(gwWatch[g]), Head(gwWatch[g]))
  BY <1>1, DeliveredFollows DEF HeardInv
<1>3. gw[g].status \in {"live", "gone"}
  BY <1>1 DEF HeardInv, ValidGateway, GatewayObject
<1>4. ASSUME NEW n \in NIC, n \notin relQueue', n \notin rel, nicWatch[n] = <<>>,
             Releasable(nic[n])
      PROVE  gw[nic[n].nat].status = "live" \/ gwWatch'[nic[n].nat] # <<>>
  <2>1. nicCache[n] = nic[n]
    BY <1>4 DEF NATInv, NICInv, Follows
  <2>2. nic[n].nat \in Gateway
    BY <1>4 DEF NATInv, NICInv, NICObject, Releasable
  <2>3. gw[nic[n].nat].status = "live" \/ gwWatch[nic[n].nat] # <<>>
    BY <1>1, <1>4 DEF ReleaseInv
  <2>4. CASE nic[n].nat # g
    BY <1>1, <2>2, <2>3, <2>4
  <2>5. CASE nic[n].nat = g /\ Tail(gwWatch[g]) # <<>>
    BY <1>1, <2>5
  <2>6. CASE nic[n].nat = g /\ Tail(gwWatch[g]) = <<>>
    <3>1. Head(gwWatch[g]) = gw[g]
      BY <1>2, <2>6 DEF Follows
    <3>2. Head(gwWatch[g]).status # "gone"
      BY <1>1, <1>4, <2>1, <2>6
    <3>3. QED BY <1>3, <2>6, <3>1, <3>2
  <2>7. QED BY <2>4, <2>5, <2>6
<1>5. QED BY <1>1, <1>4 DEF ReleaseInv

(* An interface whose claimer is found to be gone is released. *)
LEMMA ReleaseGetRelease ==
  ASSUME NATInv, ReleaseInv, NEW n \in NIC, ReleaseGet(n)
  PROVE  ReleaseInv'
<1>1. /\ rel = {} /\ relQueue' = relQueue \ {n}
      /\ rel' = IF Releasable(nicCache[n]) /\ gw[nicCache[n].nat].status # "live" THEN {n} ELSE {}
      /\ UNCHANGED <<nic, nicWatch, gw, gwWatch>>
  BY DEF ReleaseGet, nicVars, gwVars
<1>2. \A l, m \in rel' : l = m
  BY <1>1
<1>3. ASSUME NEW m \in NIC, m \notin relQueue', m \notin rel', nicWatch[m] = <<>>,
             Releasable(nic[m])
      PROVE  gw[nic[m].nat].status = "live" \/ gwWatch[nic[m].nat] # <<>>
  <2>1. CASE m = n
    <3>1. nicCache[n] = nic[n]
      BY <1>3, <2>1 DEF NATInv, NICInv, Follows
    <3>2. QED BY <1>1, <1>3, <2>1, <3>1
  <2>2. CASE m # n
    BY <1>1, <1>3, <2>2 DEF ReleaseInv
  <2>3. QED BY <2>1, <2>2
<1>4. QED BY <1>1, <1>2, <1>3 DEF ReleaseInv

(* A release that is not done is repeated. *)
LEMMA ReleasePatchRelease ==
  ASSUME NATInv, ReleaseInv, NEW n \in NIC, ReleasePatch(n)
  PROVE  ReleaseInv'
<1>0. NICInv
  BY DEF NATInv
<1>1. rel' = {} /\ UNCHANGED <<gw, gwWatch>> /\ \A m \in rel : m = n
  BY DEF ReleasePatch, gwVars, ReleaseInv
<1>2. CASE UNCHANGED nicVars /\ relQueue' = relQueue \union {n}
  <2>1. \A m \in NIC : m \notin relQueue' \union rel' => m \notin relQueue \union rel
    BY <1>1, <1>2
  <2>2. nicWatch' = nicWatch /\ nic' = nic
    BY <1>2 DEF nicVars
  <2>3. QED BY <1>0, <1>1, <2>1, <2>2, ReleaseKept
<1>3. CASE PutNIC(n, [nic[n] EXCEPT !.nat = NoGateway]) /\ relQueue' = relQueue
  <2>1. nic \in [NIC -> NICObject] /\ [nic[n] EXCEPT !.nat = NoGateway] \in NICObject
    BY <1>0 DEF NICInv, NICObject
  <2>2. ASSUME NEW m \in NIC, nicWatch'[m] = <<>>
        PROVE  nicWatch[m] = <<>> /\ nic'[m] = nic[m]
    BY <1>0, <1>3, <2>1, <2>2, PutNICTold
  <2>3. nic'[n].nat = NoGateway
    BY <1>3, <2>1 DEF PutNIC, NICObject
  <2>4. \A m \in NIC : m \notin relQueue' \union rel' /\ nicWatch'[m] = <<>>
                       /\ Releasable(nic'[m]) =>
           m \notin relQueue \union rel /\ nicWatch[m] = <<>> /\ nic'[m] = nic[m]
    BY <1>1, <1>3, <2>2, <2>3 DEF Releasable
  <2>5. QED BY <1>0, <1>1, <2>4, ReleaseKept
<1>4. QED BY <1>2, <1>3 DEF ReleasePatch

(* Every step keeps the interfaces of gateways that are gone in sight. *)
LEMMA ReleaseStep ==
  ASSUME NATInv, HeardInv, ReleaseInv, [Next]_vars
  PROVE  ReleaseInv'
<1>0. NICInv /\ GatewayInv
  BY DEF NATInv
<1>1. ASSUME NEW n \in NIC,
             \/ CreateNIC(n) \/ TogglePublicIP(n) \/ DeleteNIC(n) \/ FinalizeNIC(n)
             \/ ClaimFree(n)
      PROVE  ReleaseInv'
  <2>1. UNCHANGED <<gw, gwWatch, relQueue, rel>>
    BY <1>1 DEF CreateNIC, TogglePublicIP, DeleteNIC, FinalizeNIC, ClaimFree, gwVars, relVars
  <2>2. \A m \in NIC : nicWatch'[m] = <<>> => nicWatch[m] = <<>> /\ nic'[m] = nic[m]
    <3>1. CASE UNCHANGED nicVars
      BY <3>1 DEF nicVars
    <3>2. CASE \E o \in NICObject : PutNIC(n, o)
      BY <1>0, <3>2, PutNICTold
    <3>3. QED BY <1>1, <3>1, <3>2, NICWrites
  <2>3. QED BY <1>0, <2>1, <2>2, ReleaseKept
<1>2. ASSUME UNCHANGED <<nicVars, relVars>>, ~(\E g \in Gateway : DeliverGateway(g)), ~Restart
      PROVE  ReleaseInv'
  <2>1. UNCHANGED <<nic, nicWatch, relQueue, rel>>
    BY <1>2 DEF nicVars, relVars
  <2>2. \A g \in Gateway : gwWatch'[g] = <<>> => gwWatch[g] = <<>> /\ gw'[g] = gw[g]
    <3>1. CASE UNCHANGED gwVars
      BY <3>1 DEF gwVars
    <3>2. CASE \E h \in Gateway, o \in ValidGateway : PutGateway(h, o)
      BY <1>0, <3>2, PutGatewayTold
    <3>3. QED BY <1>2, <3>1, <3>2, GatewayWrites
  <2>3. QED BY <1>0, <2>1, <2>2, ReleaseKept
<1>3. ASSUME NEW n \in NIC, DeliverNIC(n) \/ ReleaseGet(n) \/ ReleasePatch(n)
      PROVE  ReleaseInv'
  BY <1>3, DeliverNICRelease, ReleaseGetRelease, ReleasePatchRelease
<1>4. ASSUME NEW g \in Gateway, DeliverGateway(g) PROVE ReleaseInv'
  BY <1>4, DeliverGatewayRelease
<1>5. CASE Restart
  BY <1>5 DEF Restart, ReleaseInv
<1>6. ASSUME NEW g \in Gateway, NEW ips, NEW p,
             \/ CreateGateway(g, ips, p) \/ UpdateGateway(g, ips, p) \/ DeleteGateway(g)
             \/ DeliverTable(g) \/ Start(g)
      PROVE  UNCHANGED <<nicVars, relVars>>
  BY <1>6 DEF CreateGateway, UpdateGateway, DeleteGateway, DeliverTable, Start
<1>7. ASSUME Apply \/ UpdateStatus \/ DropTable \/ UNCHANGED vars
      PROVE  UNCHANGED <<nicVars, relVars>>
  BY <1>7 DEF Apply, UpdateStatus, DropTable, vars
<1>8. QED
  BY <1>1, <1>2, <1>3, <1>4, <1>5, <1>6, <1>7 DEF Next, User, Deliver, Work
-----------------------------------------------------------------------------
(* Users, events and the release controller leave a gateway as it is, or its
   reconcile will be repeated. *)
LEMMA EventSteady ==
  ASSUME NATInv, HeardInv, NEW g \in Gateway,
         \/ User \/ Deliver \/ UNCHANGED vars
         \/ \E n \in NIC : ReleaseGet(n) \/ ReleasePatch(n)
  PROVE  Steady(g) /\ UNCHANGED <<rec, table>>
<1>0. NICInv /\ gw \in [Gateway -> ValidGateway] /\ gwWatch \in [Gateway -> Seq(ValidGateway)]
      /\ tableWatch \in [Gateway -> Seq(ValidTable)]
  BY DEF NATInv, GatewayInv, TableInv
<1>1. ASSUME NEW n \in NIC,
             \/ CreateNIC(n) \/ TogglePublicIP(n) \/ DeleteNIC(n) \/ FinalizeNIC(n)
             \/ ReleasePatch(n)
      PROVE  Steady(g) /\ UNCHANGED <<rec, table>>
  <2>1. UNCHANGED <<gw, gwWatch, tableWatch, queue, rec, table>>
    BY <1>1 DEF CreateNIC, TogglePublicIP, DeleteNIC, FinalizeNIC, ReleasePatch, gwVars,
                tableVars
  <2>2. CASE UNCHANGED nicVars
    BY <2>1, <2>2, UnchangedSteady DEF nicVars
  <2>3. CASE \E o \in NICObject : PutNIC(n, o)
    BY <1>0, <2>1, <2>3, PutNICSteady
  <2>4. QED BY <1>1, <2>2, <2>3, NICWrites
<1>2. ASSUME NEW h \in Gateway, NEW ips \in IPSets[h], NEW p \in Ports,
             CreateGateway(h, ips, p) \/ UpdateGateway(h, ips, p)
      PROVE  Steady(g) /\ UNCHANGED <<rec, table>>
  <2>1. UNCHANGED <<nicWatch, nicCache, tableWatch, queue, rec, table>>
    BY <1>2 DEF CreateGateway, UpdateGateway, nicVars, tableVars
  <2>2. gw[h] \in GatewayObject /\ ips \in SUBSET IP
    BY <1>0, NATAssumption DEF ValidGateway
  <2>3. /\ [gw[h] EXCEPT !.status = "live", !.ips = ips, !.ppi = p] \in ValidGateway
        /\ [gw[h] EXCEPT !.ips = ips, !.ppi = p] \in ValidGateway
    BY <2>2 DEF ValidGateway, GatewayObject
  <2>4. PICK o \in ValidGateway : PutGateway(h, o)
    BY <1>2, <2>3 DEF CreateGateway, UpdateGateway
  <2>5. QED BY <2>1, <2>4, PutGatewaySteady
<1>3. ASSUME NEW n \in NIC, DeliverNIC(n) PROVE Steady(g) /\ UNCHANGED <<rec, table>>
  BY <1>0, <1>3, DeliverNICSteady DEF DeliverNIC, tableVars
<1>4. ASSUME NEW h \in Gateway, DeliverGateway(h) \/ DeliverTable(h)
      PROVE  Steady(g) /\ UNCHANGED <<rec, table>>
  <2>1. UNCHANGED <<nicWatch, nicCache, gw, rec, table>> /\ queue' = queue \union {h}
    BY <1>4 DEF DeliverGateway, DeliverTable, nicVars, gwVars, tableVars
  <2>2. CASE g = h
    BY <2>1, <2>2, QueuedSteady
  <2>3. CASE g # h
    <3>1. gwWatch'[g] = gwWatch[g] /\ tableWatch'[g] = tableWatch[g]
      BY <1>0, <1>4, <2>3 DEF DeliverGateway, DeliverTable, gwVars, tableVars
    <3>2. QED BY <2>1, <3>1, UnchangedSteady
  <2>4. QED BY <2>2, <2>3
<1>5. ASSUME UNCHANGED vars \/ \E n \in NIC : ReleaseGet(n)
      PROVE  Steady(g) /\ UNCHANGED <<rec, table>>
  <2>1. UNCHANGED <<nicWatch, nicCache, gw, gwWatch, tableWatch, queue, rec, table>>
    BY <1>5 DEF ReleaseGet, vars, nicVars, gwVars, tableVars
  <2>2. QED BY <2>1, UnchangedSteady
<1>6. ASSUME NEW h \in Gateway, DeleteGateway(h) PROVE Steady(g) /\ UNCHANGED <<rec, table>>
  <2>1. UNCHANGED <<nicWatch, nicCache, tableWatch, queue, rec, table>>
    BY <1>6 DEF DeleteGateway, nicVars, tableVars
  <2>2. gw[h] \in GatewayObject
    BY <1>0 DEF ValidGateway
  <2>3. [gw[h] EXCEPT !.status = "gone"] \in ValidGateway
    BY <2>2 DEF ValidGateway, GatewayObject
  <2>4. PICK o \in ValidGateway : PutGateway(h, o)
    BY <1>6, <2>3 DEF DeleteGateway
  <2>5. QED BY <2>1, <2>4, PutGatewaySteady
<1>7. QED BY <1>1, <1>2, <1>3, <1>4, <1>5, <1>6 DEF User, Deliver

(* Nothing is said of a reconcile that is not under way. *)
LEMMA NotWorking ==
  ASSUME NEW g, ~Working(g)'
  PROVE  Read(g)' /\ Plan(g)'
  BY DEF Working, Read, Plan, Idle

(* The reconcile of another gateway is steady too. *)
LEMMA OtherSteady ==
  ASSUME NATInv, HeardInv, NEW g \in Gateway,
         Work, g # rec.g
  PROVE  Steady(g) /\ table'[g] = table[g] /\ ~Working(g)'
<1>0. /\ NICInv /\ tableWatch \in [Gateway -> Seq(ValidTable)] /\ table \in [Gateway -> ValidTable]
      /\ gw \in [Gateway -> ValidGateway] /\ gwWatch \in [Gateway -> Seq(ValidGateway)]
  BY DEF NATInv, TableInv, GatewayInv
<1>1. rec.g \in Gateway /\ rec # Idle /\ rec \in Reconcile
  BY RecKinds DEF Work, ClaimFree, Apply, UpdateStatus, DropTable, NATInv, RecInv
<1>2. ASSUME NEW n \in NIC, ClaimFree(n)
      PROVE  Steady(g) /\ table'[g] = table[g] /\ ~Working(g)'
  <2>1. UNCHANGED <<gw, gwWatch, tableWatch, queue, table>>
    BY <1>2 DEF ClaimFree, gwVars, tableVars
  <2>2. Steady(g)
    <3>1. CASE UNCHANGED nicVars
      BY <2>1, <3>1, UnchangedSteady DEF nicVars
    <3>2. CASE \E o \in NICObject : PutNIC(n, o)
      BY <1>0, <2>1, <3>2, PutNICSteady
    <3>3. QED BY <1>2, <3>1, <3>2, NICWrites
  <2>3. rec'.g = rec.g
    <3>1. rec \in Busy
      BY <1>2, RecKinds DEF ClaimFree, NATInv, RecInv
    <3>2. CASE Claimed(n)
      BY <3>1, <3>2 DEF Claimed, Busy
    <3>3. CASE NotClaimed(n, TRUE) \/ NotClaimed(n, FALSE)
      BY <3>1, <3>3 DEF NotClaimed, Busy
    <3>4. CASE rec' = rec
      BY <3>4
    <3>5. QED BY <1>2, <3>2, <3>3, <3>4 DEF ClaimFree, ClaimNIC
  <2>4. QED BY <2>1, <2>2, <2>3 DEF Working
<1>3. ASSUME Apply \/ DropTable PROVE Steady(g) /\ table'[g] = table[g] /\ ~Working(g)'
  <2>1. UNCHANGED <<nicWatch, nicCache, gw, gwWatch>> /\ queue \subseteq queue'
    BY <1>3 DEF Apply, DropTable, Finish, nicVars, gwVars
  <2>2. tableWatch'[g] = tableWatch[g] /\ table'[g] = table[g]
    BY <1>0, <1>3 DEF Apply, DropTable, PutTable, Told, tableVars
  <2>3. Steady(g)
    BY <2>1, <2>2, UnchangedSteady
  <2>4. ~Working(g)'
    <3>1. CASE rec' = Idle
      BY <3>1 DEF Working
    <3>2. CASE rec' = [rec EXCEPT !.pc = "status"] /\ rec.pc = "claim"
      <4>1. rec \in Busy
        BY <3>2, RecKinds DEF NATInv, RecInv
      <4>2. rec'.g = rec.g
        BY <3>2, <4>1 DEF Busy
      <4>3. QED BY <4>2 DEF Working
    <3>3. QED BY <1>3, <3>1, <3>2 DEF Apply, DropTable, Finish
  <2>5. QED BY <2>2, <2>3, <2>4
<1>4. CASE UpdateStatus
  <2>1. UNCHANGED <<nicWatch, nicCache, tableWatch, table>> /\ queue \subseteq queue' /\ rec' = Idle
    BY <1>4 DEF UpdateStatus, Finish, nicVars, tableVars
  <2>2. CASE UNCHANGED gwVars
    BY <2>1, <2>2, UnchangedSteady DEF gwVars, Working
  <2>3. CASE \E o \in ValidGateway : PutGateway(rec.g, o)
    BY <1>1, <2>1, <2>3, PutGatewaySteady DEF Working
  <2>4. QED BY <1>4, <2>2, <2>3, StatusWrite
<1>5. QED BY <1>2, <1>3, <1>4 DEF Work
-----------------------------------------------------------------------------
(* There are finitely many slots. *)
LEMMA FreeSlotsFinite ==
  ASSUME NEW ips \in SUBSET IP, NEW ppi \in Nat \ {0}, NEW used
  PROVE  IsFiniteSet(FreeSlots(ips, ppi, used))
<1>1. IsFiniteSet(ips)
  BY FS_Subset, NATAssumption
<1>2. IsFiniteSet(0 .. SlotsPerIP(ppi) - 1)
  BY SlotsPerIPType, FS_Interval
<1>3. IsFiniteSet(ips \X (0 .. SlotsPerIP(ppi) - 1))
  BY <1>1, <1>2, FS_Product
<1>4. FreeSlots(ips, ppi, used) \in SUBSET (ips \X (0 .. SlotsPerIP(ppi) - 1))
  BY DEF FreeSlots
<1>5. QED BY <1>3, <1>4, FS_Subset

(* UseNextFree leaves an interface without a slot only when there is none. *)
LEMMA PlacementsExhaust ==
  ASSUME NEW ns, NEW ips \in SUBSET IP, NEW ppi \in Nat \ {0}, NEW sections,
         NEW f \in Placements(ns, ips, ppi, SlotsOf(sections, ppi)), DOMAIN f # ns
  PROVE  FreeSlots(ips, ppi,
            SlotsOf(sections \union {Section(n, f[n], ppi) : n \in DOMAIN f}, ppi)) = {}
<1> DEFINE new == {Section(n, f[n], ppi) : n \in DOMAIN f}
           free == FreeSlots(ips, ppi, SlotsOf(sections, ppi))
<1>1. /\ f \in [DOMAIN f -> free]
      /\ \A m, n \in DOMAIN f : f[m] = f[n] => m = n
      /\ Cardinality(DOMAIN f) = Cardinality(free)
  BY DEF Placements
<1>2. IsFiniteSet(free)
  BY FreeSlotsFinite
<1>3. \A slot \in free : slot[2] \in 0 .. SlotsPerIP(ppi) - 1 /\ slot = <<slot[1], slot[2]>>
  BY FreeSlot
<1>4. f \in Surjection(DOMAIN f, free)
  <2> HIDE DEF free
  <2>1. f \in Injection(DOMAIN f, free)
    BY <1>1 DEF Injection, IsInjective
  <2>2. QED BY <1>1, <1>2, <2>1, FS_Injection
<1>5. ASSUME NEW slot \in free PROVE slot \in SlotsOf(sections \union new, ppi)
  <2>1. PICK n \in DOMAIN f : f[n] = slot
    BY <1>4 DEF Surjection
  <2>2. /\ OfSlot(Section(n, slot, ppi), slot[2], ppi)
        /\ Section(n, slot, ppi).ip = slot[1]
    BY <1>3, SectionOfSlot
  <2>3. slotForPorts(Section(n, slot, ppi).port, ppi) = slot[2]
    BY <2>2, SlotRange
  <2>4. Section(n, slot, ppi) \in sections \union new
    BY <2>1
  <2>5. slot = <<Section(n, slot, ppi).ip, slotForPorts(Section(n, slot, ppi).port, ppi)>>
    BY <1>3, <2>2, <2>3
  <2> HIDE DEF new, free
  <2>6. QED BY <2>4, <2>5 DEF SlotsOf
<1>6. SlotsOf(sections, ppi) \subseteq SlotsOf(sections \union new, ppi)
  BY DEF SlotsOf
<1>7. QED BY <1>5, <1>6 DEF FreeSlots

(* A reconcile that is not disturbed starts with a table that will do. *)
LEMMA StartPlan ==
  ASSUME NATInv, HeardInv, NEW g \in Gateway, Start(g)
  PROVE  Working(g)' /\ Read(g)' /\ Plan(g)' /\ rec'.pc # "status"
<1>0. UNCHANGED <<nicWatch, nicCache, gw, gwWatch, gwCache>>
  BY DEF Start, nicVars, gwVars
<1>1. gwWatch[g] = <<>> => gwCache[g] = gw[g]
  BY DEF HeardInv, Follows
<1>2. CASE gwCache[g].status # "live"
  <2>1. rec' = [pc |-> "drop", g |-> g]
    BY <1>2 DEF Start
  <2>2. rec'.pc = "drop" /\ rec'.g = g /\ rec' # Idle
    BY <2>1 DEF Idle
  <2>3. QED BY <1>0, <1>1, <1>2, <2>2 DEF Working, Read, Plan
<1>3. CASE gwCache[g].status = "live"
  <2> DEFINE o == gwCache[g]
             mine == {n \in NIC : Exists(nicCache[n]) /\ nicCache[n].nat = g}
             free == {n \in NIC : nicCache[n].status = "live" /\ Claimable(nicCache[n])}
             kept == {s \in getExistingAllocations(g, o.ips, o.ppi) : s.nic \in mine}
             lacking == mine \ {s.nic : s \in kept}
  <2>1. PICK f \in Placements(lacking, o.ips, o.ppi, SlotsOf(kept, o.ppi)),
             failed \in BOOLEAN :
           rec' = [pc |-> "claim", g |-> g, ips |-> o.ips, ppi |-> o.ppi,
                   mine |-> mine, todo |-> IF lacking \ DOMAIN f = {} THEN free ELSE {},
                   sections |-> kept \union {Section(n, f[n], o.ppi) : n \in DOMAIN f},
                   requests |-> Cardinality(mine) + Cardinality(free),
                   seen |-> [used |-> o.used, requests |-> o.requests],
                   spare |-> FALSE, fresh |-> tableWatch[g] = <<>>, failed |-> failed]
    BY <1>3 DEF Start, ReleaseFails
  <2>2. o.ppi \in Ports /\ o.ips \in SUBSET IP /\ o.ppi \in Nat \ {0}
    BY <1>3, PortsPositive DEF NATInv, GatewayInv, ValidGateway, GatewayObject
  <2>3. Mine(g)' = mine /\ Free' = free
    BY <1>0 DEF Mine, Free
  <2>4. Served(kept) \subseteq mine /\ lacking = mine \ Served(kept)
    BY DEF Served
  <2> HIDE DEF o, mine, free, kept, lacking
  <2> DEFINE new == {Section(n, f[n], o.ppi) : n \in DOMAIN f}
             todo == IF lacking \ DOMAIN f = {} THEN free ELSE {}
  <2>5. DOMAIN f \subseteq lacking
    BY <2>1, PlacementsType
  <2>6. Served(new) = DOMAIN f
    <3>1. \A n \in DOMAIN f : Section(n, f[n], o.ppi).nic = n /\ Section(n, f[n], o.ppi) \in new
      BY DEF Section
    <3>2. \A s \in new : s.nic \in DOMAIN f
      BY DEF Section
    <3> HIDE DEF new
    <3>3. QED BY <3>1, <3>2 DEF Served
  <2>7. Served(kept \union new) = Served(kept) \union Served(new)
    BY DEF Served
  <2>8. Served(kept \union new) \subseteq mine
    BY <2>4, <2>5, <2>6, <2>7
  <2>9. \/ FreeSlots(o.ips, o.ppi, SlotsOf(kept \union new, o.ppi)) = {}
        \/ Served(kept \union new) = mine /\ todo = free
    <3>1. CASE DOMAIN f = lacking
      BY <2>4, <2>6, <2>7, <3>1
    <3>2. CASE DOMAIN f # lacking
      BY <2>1, <2>2, <3>2, PlacementsExhaust
    <3>3. QED BY <3>1, <3>2
  <2>10. todo \subseteq free
    OBVIOUS
  <2>11. /\ rec'.pc = "claim" /\ rec'.g = g /\ rec'.ips = o.ips /\ rec'.ppi = o.ppi
         /\ rec'.todo = todo /\ rec'.sections = kept \union new
         /\ rec'.requests = Cardinality(mine) + Cardinality(free)
         /\ rec'.seen.used = o.used /\ rec'.seen.requests = o.requests
         /\ rec' # Idle
    BY <2>1 DEF Idle
  <2>12. ~rec'.spare
    BY <2>1, Zenon
  <2>13. gwWatch[g] = <<>> => o = gw[g]
    BY <1>1 DEF o
  <2> HIDE DEF new, todo
  <2>14. Read(g)' /\ Working(g)'
    BY <1>0, <1>3, <2>11, <2>13 DEF Read, Working, o
  <2>15. ASSUME Calm(g)' PROVE Plan(g)'
    <3>1. o = gw[g]
      BY <1>0, <2>13, <2>15 DEF Calm
    <3>2. Full(g, rec.sections)' <=> FreeSlots(o.ips, o.ppi, SlotsOf(kept \union new, o.ppi)) = {}
      BY <1>0, <2>11, <3>1 DEF Full
    <3>3. QED BY <2>3, <2>8, <2>9, <2>10, <2>11, <2>12, <3>2 DEF Plan
  <2>16. QED BY <2>11, <2>14, <2>15 DEF Plan
<1>4. QED BY <1>2, <1>3
-----------------------------------------------------------------------------
(* A set of numbers that is not empty has a least one. *)
LEMMA LeastNumber ==
  ASSUME NEW T, T \subseteq Nat, T # {}
  PROVE  \E x \in T : \A y \in T : ~(y < x)
<1> DEFINE R == OpToRel(<, Nat)
<1>1. \A x, y \in Nat : y < x => <<y, x>> \in R
  BY DEF OpToRel
<1>2. IsWellFoundedOn(R, Nat)
  BY NatLessThanWellFounded
<1> HIDE DEF R
<1>3. \E x \in T : \A y \in T : ~(<<y, x>> \in R)
  BY <1>2, WFMin
<1>4. QED BY <1>1, <1>3

(* As long as a slot is free UseNextFree finds one. *)
LEMMA UseNextFreeFinds ==
  ASSUME NEW ips, NEW ppi \in Nat \ {0}, NEW used, UseNextFree(ips, ppi, used) = {}
  PROVE  FreeSlots(ips, ppi, used) = {}
<1> SUFFICES ASSUME NEW f \in FreeSlots(ips, ppi, used) PROVE FALSE
  OBVIOUS
<1> DEFINE free == FreeSlots(ips, ppi, used)
           T == {t \in Nat : <<f[1], t>> \in free}
<1>1. f = <<f[1], f[2]>> /\ f[2] \in Nat
  BY FreeSlot, SlotsPerIPType
<1>2. T \subseteq Nat /\ f[2] \in T
  BY <1>1
<1>3. PICK x \in T : \A y \in T : ~(y < x)
  <2> HIDE DEF T
  <2>1. QED BY <1>2, LeastNumber
<1>4. \A t \in 0 .. x - 1 : <<f[1], t>> \notin free
  <2>1. \A t \in 0 .. x - 1 : t \in Nat /\ t < x
    BY <1>3
  <2>2. QED BY <1>3, <2>1
<1>5. PICK e : e = <<f[1], x>>
  OBVIOUS
<1>6. e \in free /\ e[1] = f[1] /\ e[2] = x
  BY <1>3, <1>5
<1>7. e \in UseNextFree(ips, ppi, used)
  BY <1>4, <1>6 DEF UseNextFree
<1>8. QED BY <1>7

(* A reconcile that claims an interface hears of it, and one that fails to do
   so is repeated: one that nothing will wake has not claimed any. *)
LEMMA ClaimPlan ==
  ASSUME NATInv, NEW g \in Gateway, Read(g), Plan(g), NEW n \in NIC, ClaimFree(n), rec.g = g
  PROVE  Rest(g)' /\ Read(g)' /\ Plan(g)'
<1>0. NICInv /\ rec \in Busy /\ rec.pc = "claim" /\ n \in rec.todo /\ ClaimNIC(n)
  BY RecKinds DEF ClaimFree, NATInv, RecInv
<1>1. UNCHANGED <<gw, gwWatch, tableWatch, queue, table>>
  BY DEF ClaimFree, gwVars, tableVars
<1>2. /\ rec'.pc = "claim" /\ rec'.g = g /\ rec'.ips = rec.ips /\ rec'.ppi = rec.ppi
      /\ rec'.seen = rec.seen
  <2>1. CASE Claimed(n)
    BY <1>0, <2>1 DEF Claimed, Busy
  <2>2. CASE NotClaimed(n, TRUE) \/ NotClaimed(n, FALSE)
    BY <1>0, <2>2 DEF NotClaimed, Busy
  <2>3. CASE rec' = rec
    BY <1>0, <2>3
  <2>4. QED BY <1>0, <2>1, <2>2, <2>3 DEF ClaimNIC
<1>3. Working(g)' /\ Working(g)
  BY <1>0, <1>2 DEF Working, Idle
<1>4. Rest(g)'
  BY <1>3 DEF Rest
<1>5. Read(g)'
  BY <1>0, <1>1, <1>2, <1>3 DEF Read
<1>6. Steady(g)
  <2>1. CASE UNCHANGED nicVars
    BY <1>1, <2>1, UnchangedSteady DEF nicVars
  <2>2. CASE \E o \in NICObject : PutNIC(n, o)
    BY <1>0, <1>1, <2>2, PutNICSteady
  <2>3. QED BY <2>1, <2>2, NICWrites
<1>7. ASSUME Calm(g)', ~rec'.failed PROVE rec' = rec
  <2>1. gw[g].status = "live"
    BY <1>0, <1>1, <1>3, <1>7 DEF Read, Calm
  <2>2. Calm(g)
    BY <1>1, <1>6, <1>7, <2>1 DEF Steady
  <2>3. ~NotClaimed(n, TRUE) /\ (NotClaimed(n, FALSE) => ~rec.failed) /\ (Claimed(n) => ~rec.failed)
    <3>1. ~NotClaimed(n, TRUE)
      BY <1>0, <1>7 DEF NotClaimed, Busy
    <3>2. ASSUME NotClaimed(n, FALSE) PROVE ~rec.failed
      BY <1>0, <1>7, <3>2 DEF NotClaimed, Busy
    <3>3. ASSUME Claimed(n) PROVE ~rec.failed
      <4>1. rec'.failed = rec.failed
        BY <1>0, <3>3 DEF Claimed, Busy
      <4>2. QED BY <1>7, <4>1
    <3>4. QED BY <3>1, <3>2, <3>3
  <2>4. ASSUME ~rec.failed
        PROVE  /\ Exists(nic[n]) /\ Exists(nicCache[n]) /\ nicCache[n].nat = NoGateway
               /\ ~PutNIC(n, [nic[n] EXCEPT !.nat = rec.g])
    <3>1. n \in Free
      BY <1>0, <2>2, <2>4 DEF Plan
    <3>2. nicCache[n].status = "live" /\ Claimable(nicCache[n]) /\ nicCache' = nicCache
      BY <1>0, <3>1 DEF Free, ClaimNIC, PutNIC, nicVars
    <3>3. nicWatch[n] = <<>> /\ nicWatch'[n] = <<>>
      BY <1>7, <2>2, <3>2 DEF Calm, Wakes, Concerns
    <3>4. nic[n] = nicCache[n]
      BY <1>0, <3>3 DEF NICInv, Follows
    <3>5. ASSUME PutNIC(n, [nic[n] EXCEPT !.nat = rec.g]) PROVE FALSE
      <4>1. nic[n] \in NICObject /\ nic \in [NIC -> NICObject]
        BY <1>0 DEF NICInv
      <4>2. [nic[n] EXCEPT !.nat = rec.g] \in NICObject
        BY <4>1 DEF NICObject
      <4>3. nic'[n] = nic[n]
        BY <1>0, <3>3, <3>5, <4>2, PutNICTold
      <4>4. nic'[n].nat = g
        BY <3>5, <4>1 DEF PutNIC, NICObject
      <4>5. QED BY <3>2, <3>4, <4>3, <4>4, NATAssumption DEF Claimable
    <3>6. QED BY <3>2, <3>4, <3>5 DEF Exists, Claimable
  <2>5. rec.g # NoGateway
    BY NATAssumption
  <2>6. QED BY <1>0, <2>3, <2>4, <2>5 DEF ClaimNIC
<1>8. Plan(g)'
  <2>1. SUFFICES ASSUME Calm(g)', ~rec'.failed PROVE Plan(g)'
    BY DEF Plan
  <2>2. rec' = rec
    BY <1>7, <2>1
  <2>3. QED BY <1>1, <1>6, <2>2, SteadyPlan
<1>9. QED BY <1>4, <1>5, <1>8

(* A reconcile that has applied its table has it stored, or will hear of it. *)
LEMMA ApplyPlan ==
  ASSUME NATInv, NEW g \in Gateway, Read(g), Plan(g), Apply, rec.g = g
  PROVE  /\ Rest(g)' /\ Read(g)' /\ Plan(g)'
         /\ rec'.pc = "status" => ~rec'.failed
<1>0. rec \in Busy /\ rec.pc = "claim" /\ rec.ppi \in Nat \ {0}
  BY RecKinds, PortsPositive DEF Apply, NATInv, RecInv, Busy
<1>1. UNCHANGED <<nicWatch, nicCache, gw, gwWatch>>
  BY DEF Apply, nicVars, gwVars
<1>2. CASE Finish(TRUE)
  <2>1. rec' = Idle /\ g \in queue'
    BY <1>2 DEF Finish
  <2>2. QED BY <2>1, NotWorking DEF Rest, Working, Idle
<1>3. CASE /\ PutTable(g, rec.sections) /\ ~rec.failed
           /\ rec' = [rec EXCEPT !.pc = "status"] /\ queue' = queue
  <2>1. /\ rec'.pc = "status" /\ rec'.g = g /\ rec'.ips = rec.ips /\ rec'.ppi = rec.ppi
        /\ rec'.seen = rec.seen /\ rec'.sections = rec.sections /\ rec'.todo = rec.todo
        /\ rec'.requests = rec.requests
    BY <1>0, <1>3 DEF Busy
  <2>2. rec'.spare = rec.spare /\ rec'.failed = rec.failed
    BY <1>0, <1>3 DEF Busy
  <2>3. Working(g)' /\ Working(g)
    BY <1>0, <2>1 DEF Working, Idle
  <2>4. Rest(g)' /\ Read(g)'
    BY <1>0, <1>1, <1>3, <2>1, <2>3 DEF Rest, Read
  <2>5. ASSUME Calm(g)' PROVE Plan(g)'
    <3>1. table' = [table EXCEPT ![g] = rec.sections] /\ table \in [Gateway -> ValidTable]
          /\ tableWatch' = Told(tableWatch, g, table[g], rec.sections)
          /\ tableWatch \in [Gateway -> Seq(ValidTable)] /\ rec.sections \in ValidTable
      BY <1>0, <1>3 DEF PutTable, NATInv, TableInv, RecInv, ValidTable, Busy
    <3>2. tableWatch'[g] = <<>>
      BY <2>5 DEF Calm
    <3>3. tableWatch[g] = <<>>
      <4>1. CASE rec.sections = table[g]
        BY <3>1, <3>2, <4>1 DEF Told
      <4>2. CASE rec.sections # table[g]
        <5>1. tableWatch'[g] = Append(tableWatch[g], rec.sections)
              /\ tableWatch[g] \in Seq(ValidTable)
          BY <3>1, <4>2 DEF Told
        <5>2. Append(tableWatch[g], rec.sections) # <<>>
          BY <3>1, <5>1, AppendProperties
        <5>3. QED BY <3>2, <5>1, <5>2
      <4>3. QED BY <4>1, <4>2
    <3>4. Calm(g) /\ Mine(g)' = Mine(g) /\ Free' = Free
      <4>1. \A m \in NIC : Wakes(m, g)' <=> Wakes(m, g)
        BY <1>1 DEF Wakes
      <4>2. QED BY <1>1, <1>3, <2>5, <3>3, <4>1 DEF Calm, Mine, Free
    <3>5. /\ rec.ips = gw[g].ips /\ rec.ppi = gw[g].ppi
      BY <1>0, <2>3, <3>4 DEF Read, Calm
    <3>6. Offers = {} => Full(g, rec.sections)
      BY <1>0, <3>5, UseNextFreeFinds DEF Offers, Full
    <3>7. /\ ~rec.spare
          /\ rec.requests = Cardinality(Mine(g)) + Cardinality(Free)
          /\ rec.todo \subseteq Free
          /\ Served(rec.sections) \subseteq Mine(g)
          /\ \/ Full(g, rec.sections)
             \/ Served(rec.sections) = Mine(g) /\ rec.todo = Free
      BY <1>0, <1>3, <3>4 DEF Plan
    <3>8. Full(g, rec.sections) \/ Free = {}
      BY <3>6, <3>7 DEF Apply
    <3>9. table'[g] = rec'.sections
      BY <2>1, <3>1
    <3>10. Full(g, rec.sections)' <=> Full(g, rec.sections)
      BY <1>1, <2>1 DEF Full
    <3>11. QED BY <2>1, <2>2, <3>4, <3>7, <3>8, <3>9, <3>10 DEF Plan
  <2>6. Plan(g)'
    BY <2>5 DEF Plan
  <2>7. QED BY <1>3, <2>2, <2>4, <2>6
<1>4. QED BY <1>2, <1>3 DEF Apply

(* A reconcile that ends well leaves a gateway that is right, or will hear of
   what it has written. *)
LEMMA StatusPlan ==
  ASSUME NoTable \notin SectionSet, NATInv, HeardInv, NEW g \in Gateway, Read(g), Plan(g),
         UpdateStatus, rec.g = g, ~rec.failed
  PROVE  Rest(g)' /\ Read(g)' /\ Plan(g)'
<1>0. rec \in Busy /\ rec.pc = "status" /\ rec' = Idle /\ ~Working(g)'
  BY RecKinds DEF UpdateStatus, NATInv, RecInv, Finish, Working
<1>1. Read(g)' /\ Plan(g)'
  BY <1>0, NotWorking
<1>2. UNCHANGED <<nicWatch, nicCache, tableWatch, table>>
  BY DEF UpdateStatus, nicVars, tableVars
<1>3. Working(g)
  BY <1>0 DEF Working, Idle
<1>4. CASE Finish(TRUE)
  <2>1. g \in queue'
    BY <1>4 DEF Finish
  <2>2. QED BY <1>1, <2>1 DEF Rest
<1>5. CASE ~Finish(TRUE)
  <2>1. PICK used : used = Cardinality(rec.sections) + (IF rec.spare THEN 1 ELSE 0)
    OBVIOUS
  <2>2. PICK o : o = [gw[g] EXCEPT
                        !.used = IF used = rec.seen.used THEN @ ELSE used,
                        !.requests = IF rec.requests = rec.seen.requests THEN @ ELSE rec.requests]
    OBVIOUS
  <2>3. PutGateway(g, o) /\ queue' = queue
    BY <1>5, <2>1, <2>2 DEF UpdateStatus, Finish
  <2>4. gw[g] \in GatewayObject /\ gw[g] \in ValidGateway
    BY DEF NATInv, GatewayInv, ValidGateway
  <2>5. /\ o.used = IF used = rec.seen.used THEN gw[g].used ELSE used
        /\ o.requests = IF rec.requests = rec.seen.requests THEN gw[g].requests ELSE rec.requests
    BY <2>2, <2>4 DEF GatewayObject
  <2>6. o \in ValidGateway
    <3>1. Cardinality(rec.sections) \in Nat
      BY <1>0, StatusType DEF NATInv
    <3>2. used \in Nat /\ rec.requests \in Nat
      BY <1>0, <2>1, <3>1 DEF Busy
    <3>3. QED BY <2>2, <2>4, <3>2 DEF ValidGateway, GatewayObject
  <2>7. ASSUME g \notin queue', gwWatch'[g] = <<>>
        PROVE  gw'[g].status = "live" /\ (Calm(g)' => Right(g)')
    <3>1. gwWatch[g] = <<>> /\ gw'[g] = gw[g] /\ gw'[g] = o
      <4>1. gw'[g] = o
        BY <2>3, <2>4 DEF PutGateway, NATInv, GatewayInv
      <4>2. QED BY <2>3, <2>6, <2>7, <4>1, PutGatewayTold DEF NATInv
    <3>2. /\ gw[g].status = "live"
          /\ rec.seen.used = gw[g].used /\ rec.seen.requests = gw[g].requests
      BY <1>0, <1>3, <2>3, <2>7, <3>1 DEF Read
    <3>3. used = gw[g].used /\ rec.requests = gw[g].requests
      BY <2>5, <3>1, <3>2
    <3>4. ASSUME Calm(g)' PROVE Right(g)'
      <4>1. Steady(g)
        BY <1>2, <2>3, <2>6, PutGatewaySteady
      <4>2. Calm(g) /\ Mine(g)' = Mine(g) /\ Free' = Free
        BY <3>1, <3>2, <3>4, <4>1 DEF Steady
      <4>3. /\ ~rec.spare
            /\ rec.requests = Cardinality(Mine(g)) + Cardinality(Free)
            /\ rec.todo \subseteq Free
            /\ Served(rec.sections) \subseteq Mine(g)
            /\ \/ Full(g, rec.sections)
               \/ Served(rec.sections) = Mine(g) /\ rec.todo = Free
            /\ table[g] = rec.sections
            /\ Full(g, rec.sections) \/ Free = {}
        BY <1>0, <4>2 DEF Plan
      <4>4. used = Cardinality(table[g])
        <5>1. Cardinality(rec.sections) \in Nat
          BY <1>0, StatusType DEF NATInv
        <5>2. QED BY <2>1, <4>3, <5>1
      <4>5. table[g] # NoTable
        BY <1>0, <4>3 DEF Busy
      <4>6. Full(g, table[g])' <=> Full(g, rec.sections)
        BY <1>2, <3>1, <4>3 DEF Full
      <4>7. QED BY <1>2, <3>1, <3>3, <4>2, <4>3, <4>4, <4>5, <4>6 DEF Right
    <3>5. QED BY <3>1, <3>2, <3>4
  <2>8. Rest(g)'
    BY <2>7 DEF Rest
  <2>9. QED BY <1>1, <2>8
<1>6. QED BY <1>4, <1>5

(* A gateway that is gone loses its table. *)
LEMMA DropPlan ==
  ASSUME NATInv, NEW g \in Gateway, Read(g), DropTable, rec.g = g
  PROVE  Rest(g)' /\ Read(g)' /\ Plan(g)'
<1>0. rec.pc = "drop" /\ rec # Idle /\ rec' = Idle /\ ~Working(g)'
  BY RecKinds DEF DropTable, NATInv, RecInv, Finish, Working
<1>1. Read(g)' /\ Plan(g)'
  BY <1>0, NotWorking
<1>2. UNCHANGED <<gw, gwWatch>>
  BY DEF DropTable, gwVars
<1>3. CASE Finish(TRUE)
  <2>1. g \in queue'
    BY <1>3 DEF Finish
  <2>2. QED BY <1>1, <2>1 DEF Rest
<1>4. CASE PutTable(g, NoTable) /\ Finish(FALSE)
  <2>1. queue' = queue /\ table'[g] = NoTable
    BY <1>4 DEF Finish, PutTable, NATInv, TableInv
  <2>2. g \notin queue' /\ gwWatch'[g] = <<>> => gw'[g].status # "live"
    BY <1>0, <1>2, <2>1 DEF Read, Working
  <2>3. Rest(g)'
    BY <2>1, <2>2 DEF Rest
  <2>4. QED BY <1>1, <2>3
<1>5. QED BY <1>3, <1>4 DEF DropTable

(* Every step keeps what is known of a gateway. *)
LEMMA PlanStep ==
  ASSUME NoTable \notin SectionSet, NATInv, SettleInv, [Next]_vars, NEW g \in Gateway
  PROVE  Rest(g)' /\ Read(g)' /\ Plan(g)'
<1>0. HeardInv /\ Rest(g) /\ Read(g) /\ Plan(g)
  BY DEF SettleInv
<1>1. CASE \/ User \/ Deliver \/ UNCHANGED vars
           \/ \E n \in NIC : ReleaseGet(n) \/ ReleasePatch(n)
  <2>1. Steady(g) /\ rec' = rec /\ table'[g] = table[g]
    BY <1>0, <1>1, EventSteady
  <2>2. QED BY <1>0, <2>1, SteadyKeeps
<1>2. CASE Work /\ rec.g # g
  <2>1. Steady(g) /\ table'[g] = table[g] /\ ~Working(g)' /\ ~Working(g)
    BY <1>0, <1>2, OtherSteady DEF Working
  <2>2. QED BY <1>0, <2>1, SteadyRest, NotWorking
<1>3. CASE Work /\ rec.g = g
  <2>1. ASSUME NEW n \in NIC, ClaimFree(n) PROVE Rest(g)' /\ Read(g)' /\ Plan(g)'
    BY <1>0, <1>3, <2>1, ClaimPlan
  <2>2. CASE Apply
    BY <1>0, <1>3, <2>2, ApplyPlan
  <2>3. CASE UpdateStatus
    <3>1. ~rec.failed
      BY <2>3 DEF SettleInv, UpdateStatus
    <3>2. QED BY <1>0, <1>3, <2>3, <3>1, StatusPlan
  <2>4. CASE DropTable
    BY <1>0, <1>3, <2>4, DropPlan
  <2>5. QED BY <1>3, <2>1, <2>2, <2>3, <2>4 DEF Work
<1>4. ASSUME NEW h \in Gateway, Start(h) PROVE Rest(g)' /\ Read(g)' /\ Plan(g)'
  <2>1. Working(h)' /\ Read(h)' /\ Plan(h)'
    BY <1>0, <1>4, StartPlan
  <2>2. CASE g = h
    BY <2>1, <2>2 DEF Rest
  <2>3. CASE g # h
    <3>1. ~Working(g) /\ ~Working(g)'
      BY <1>4, <2>1, <2>3 DEF Working, Start
    <3>2. UNCHANGED <<nicWatch, nicCache, gw, gwWatch, tableWatch, table>> /\ queue' = queue \ {h}
      BY <1>4 DEF Start, nicVars, gwVars, tableVars
    <3>3. Steady(g)
      BY <2>3, <3>2, UnchangedSteady
    <3>4. QED BY <1>0, <3>1, <3>2, <3>3, SteadyRest, NotWorking
  <2>4. QED BY <2>2, <2>3
<1>5. CASE Restart
  <2>1. rec' = Idle /\ gw' = gw /\ table' = table
        /\ queue' = {h \in Gateway : gw[h].status = "live" \/ table[h] # NoTable}
    BY <1>5 DEF Restart
  <2>2. ~Working(g)' /\ (g \notin queue' => gw'[g].status # "live" /\ table'[g] = NoTable)
    BY <2>1 DEF Working
  <2>3. Rest(g)'
    BY <2>2 DEF Rest
  <2>4. QED BY <2>2, <2>3, NotWorking
<1>6. QED BY <1>1, <1>2, <1>3, <1>4, <1>5 DEF Next

(* Every step keeps the invariant. *)
LEMMA SettleStep ==
  ASSUME NoTable \notin SectionSet, NATInv, SettleInv, [Next]_vars
  PROVE  SettleInv'
<1>1. HeardInv' /\ ReleaseInv'
  BY HeardStep, ReleaseStep DEF SettleInv
<1>2. \A g \in Gateway : Rest(g)' /\ Read(g)' /\ Plan(g)'
  BY PlanStep
<1>3. ASSUME rec'.pc = "status" PROVE ~rec'.failed
  <2>1. CASE rec' = rec
    BY <1>3, <2>1 DEF SettleInv
  <2>2. CASE Apply
    <3>1. rec.g \in Gateway
      BY <2>2, RecKinds DEF Apply, NATInv, RecInv
    <3>2. PICK g \in Gateway : rec.g = g
      BY <3>1
    <3>3. QED BY <1>3, <2>2, <3>2, ApplyPlan DEF SettleInv
  <2>3. ASSUME NEW n \in NIC, ClaimFree(n) PROVE rec' = rec \/ rec'.pc = "claim"
    <3>1. rec \in Busy /\ rec.pc = "claim"
      BY <2>3, RecKinds DEF ClaimFree, NATInv, RecInv
    <3>2. CASE Claimed(n)
      BY <3>1, <3>2 DEF Claimed, Busy
    <3>3. CASE NotClaimed(n, TRUE) \/ NotClaimed(n, FALSE)
      BY <3>1, <3>3 DEF NotClaimed, Busy
    <3>4. QED BY <2>3, <3>2, <3>3 DEF ClaimFree, ClaimNIC
  <2>4. UpdateStatus \/ DropTable \/ Restart => rec' = Idle
    BY DEF UpdateStatus, DropTable, Restart, Finish
  <2>5. ASSUME NEW g \in Gateway, Start(g) PROVE rec'.pc # "status"
    BY <2>5, StartPlan DEF SettleInv
  <2>6. Idle.pc = "idle"
    BY DEF Idle
  <2>7. ASSUME \/ User \/ Deliver \/ UNCHANGED vars
               \/ \E n \in NIC : ReleaseGet(n) \/ ReleasePatch(n)
        PROVE  rec' = rec
    BY <2>7 DEF User, Deliver, CreateNIC, TogglePublicIP, DeleteNIC, FinalizeNIC, CreateGateway,
       UpdateGateway, DeleteGateway, DeliverNIC, DeliverGateway, DeliverTable, ReleaseGet,
       ReleasePatch, vars
  <2>8. QED BY <1>3, <2>1, <2>2, <2>3, <2>4, <2>5, <2>6, <2>7 DEF Next, Work
<1>4. QED BY <1>1, <1>2, <1>3 DEF SettleInv

(* In the beginning the live gateways are in the queue and no interface is
   claimed. *)
LEMMA SettleInit ==
  ASSUME Init
  PROVE  SettleInv
<1>1. HeardInv
  BY DEF Init, HeardInv, Follows
<1>2. ReleaseInv
  <2>1. \A n \in NIC : nic[n].nat = NoGateway
    BY DEF Init
  <2>2. QED BY <2>1 DEF Init, ReleaseInv, Releasable
<1>3. rec = Idle /\ Idle.pc = "idle"
  BY DEF Init, Idle
<1>4. ASSUME NEW g \in Gateway PROVE Rest(g) /\ Read(g) /\ Plan(g)
  <2>1. g \notin queue => gw[g].status # "live" /\ table[g] = NoTable
    BY DEF Init
  <2>2. Rest(g)
    BY <2>1 DEF Rest
  <2>3. QED BY <1>3, <2>2 DEF Read, Plan, Working
<1>5. QED BY <1>1, <1>2, <1>3, <1>4 DEF SettleInv

(* When nothing is under way, nothing will wake anybody. *)
LEMMA SettledQuiet ==
  ASSUME NATInv, SettleInv, Quiet, NEW g \in Gateway
  PROVE  /\ gw[g].status = "live" => Right(g)
         /\ gw[g].status # "live" => table[g] = NoTable
         /\ Mine(g) = ClaimedBy(g) /\ Free = Eligible
<1>1. ~Working(g) /\ Calm(g)
  BY DEF Quiet, Working, Calm, Wakes
<1>2. \A n \in NIC : nicCache[n] = nic[n]
  BY DEF Quiet, NATInv, NICInv, Follows
<1>3. Mine(g) = ClaimedBy(g) /\ Free = Eligible
  BY <1>2 DEF Mine, Free, ClaimedBy, Eligible
<1>4. Rest(g) /\ g \notin queue /\ gwWatch[g] = <<>>
  BY <1>1 DEF SettleInv, Calm
<1>5. QED BY <1>1, <1>3, <1>4 DEF Rest

(* Those claimed and those free are not the same. *)
LEMMA RequestsCounted ==
  ASSUME NEW g \in Gateway
  PROVE  Cardinality(ClaimedBy(g) \union Eligible) = Cardinality(ClaimedBy(g)) + Cardinality(Eligible)
<1>1. ClaimedBy(g) \in SUBSET NIC /\ Eligible \in SUBSET NIC
  BY DEF ClaimedBy, Eligible
<1>2. IsFiniteSet(ClaimedBy(g)) /\ IsFiniteSet(Eligible)
  BY <1>1, FS_Subset, NATAssumption
<1>3. ClaimedBy(g) \cap Eligible = {}
  BY NATAssumption DEF ClaimedBy, Eligible, Claimable
<1>4. Cardinality(ClaimedBy(g) \cap Eligible) = 0
  BY <1>3, FS_EmptySet
<1>5. Cardinality(ClaimedBy(g)) \in Nat /\ Cardinality(Eligible) \in Nat
  BY <1>2, FS_CardinalityType
<1>6. Cardinality(ClaimedBy(g) \union Eligible)
        = Cardinality(ClaimedBy(g)) + Cardinality(Eligible) - Cardinality(ClaimedBy(g) \cap Eligible)
  BY <1>2, FS_Union
<1>7. QED BY <1>4, <1>5, <1>6

(* The invariant says what is right once things have calmed down. *)
LEMMA SettledRight ==
  ASSUME NATInv, SettleInv
  PROVE  TablesSettle
<1> SUFFICES ASSUME Quiet, NEW g \in Gateway
             PROVE  IF gw[g].status = "live"
         THEN /\ table[g] # NoTable
              /\ LET served == {s.nic : s \in table[g]}
                     full == FreeSlots(gw[g].ips, gw[g].ppi, SlotsOf(table[g], gw[g].ppi)) = {}
                 IN /\ served \subseteq ClaimedBy(g)
                    /\ full \/ (served = ClaimedBy(g) /\ Eligible \cap InNetwork(g) = {})
              /\ gw[g].used = Cardinality(table[g])
              /\ gw[g].requests = Cardinality(ClaimedBy(g) \union Eligible)
         ELSE table[g] = NoTable /\ ~\E n \in ClaimedBy(g) : nic[n].status = "live"
  BY DEF TablesSettle
<1>1. CASE gw[g].status = "live"
  <2>1. Right(g) /\ Mine(g) = ClaimedBy(g) /\ Free = Eligible
    BY <1>1, SettledQuiet
  <2>2. gw[g].requests = Cardinality(ClaimedBy(g) \union Eligible)
    BY <2>1, RequestsCounted DEF Right
  <2>3. QED BY <1>1, <2>1, <2>2 DEF Right, Served, Full
<1>2. CASE gw[g].status # "live"
  <2>1. table[g] = NoTable
    BY <1>2, SettledQuiet
  <2>2. ASSUME NEW n \in ClaimedBy(g), nic[n].status = "live" PROVE FALSE
    <3>1. n \in NIC /\ Releasable(nic[n]) /\ nic[n].nat = g
      BY <2>2, NATAssumption DEF ClaimedBy, Releasable
    <3>2. gw[g].status = "live" \/ gwWatch[g] # <<>>
      BY <3>1 DEF SettleInv, ReleaseInv, Quiet
    <3>3. QED BY <1>2, <3>2 DEF Quiet
  <2>3. QED BY <1>2, <2>1, <2>2
<1>3. QED BY <1>1, <1>2

(* When things calm down every gateway has the table and the status it should
   have and nothing is left of gateways that are gone: whatever order events,
   writes and reconciles come in, and whichever of them fail, no event that
   would have been needed is missed. *)
THEOREM TablesAreRight ==
  ASSUME NoTable \notin SectionSet
  PROVE  Spec => []TablesSettle
<1>1. Init => SettleInv
  BY SettleInit
<1>2. NATInv /\ SettleInv /\ [Next]_vars => SettleInv'
  BY SettleStep
<1>3. NATInv /\ SettleInv => TablesSettle
  BY SettledRight
<1>4. QED BY <1>1, <1>2, <1>3, NATInvariant, PTL DEF Spec
-----------------------------------------------------------------------------
(***************************************************************************)
(* With autoscalers                                                        *)
(***************************************************************************)

(* An autoscaler gives a live gateway other IPs, and does nothing else. *)
LEMMA ScaleWrite ==
  ASSUME NATInv, HeardInv, NEW g \in Gateway, manageNATGatewayIPs(g)
  PROVE  /\ \E o \in ValidGateway : PutGateway(g, o) /\ o.status = "live"
         /\ UNCHANGED <<nicVars, tableVars, queue, rec, stale, relVars, churn, faults>>
<1>1. gwWatch[g] = <<>> /\ gwCache[g].status = "live"
  BY DEF manageNATGatewayIPs, enqueueByNATGateway, Resizable
<1>2. gw[g].status = "live" /\ gw[g] \in ValidGateway /\ gw[g] \in GatewayObject
  BY <1>1 DEF HeardInv, Follows, NATInv, GatewayInv, ValidGateway
<1>3. PICK s \in SUBSET IP : PutGateway(g, [gw[g] EXCEPT !.ips = s])
  BY DEF manageNATGatewayIPs, Resized
<1>4. [gw[g] EXCEPT !.ips = s] \in ValidGateway /\ [gw[g] EXCEPT !.ips = s].status = "live"
  BY <1>2 DEF ValidGateway, GatewayObject
<1>5. QED BY <1>3, <1>4 DEF manageNATGatewayIPs

(* The work of an autoscaler keeps both invariants. *)
LEMMA ScaleStep ==
  ASSUME NATInv, SettleInv, NEW h \in Gateway, manageNATGatewayIPs(h)
  PROVE  NATInv' /\ SettleInv'
<1>0. HeardInv /\ ReleaseInv /\ NICInv /\ GatewayInv
  BY DEF SettleInv, NATInv
<1>1. PICK o \in ValidGateway : PutGateway(h, o) /\ o.status = "live"
  BY <1>0, ScaleWrite
<1>2. /\ UNCHANGED <<nic, nicWatch, nicCache, table, tableWatch, tableCache>>
      /\ UNCHANGED <<queue, rec, stale, relQueue, rel, churn, faults>>
  BY DEF manageNATGatewayIPs, nicVars, tableVars, relVars
<1>3. NATInv'
  <2>1. GatewayInv'
    BY <1>0, <1>1, PutGatewayInv
  <2>2. NICInv' /\ TableInv' /\ RecInv' /\ QueueInv'
    BY <1>2 DEF NATInv, NICInv, TableInv, RecInv, QueueInv
  <2>3. QED BY <2>1, <2>2 DEF NATInv
<1>4. HeardInv'
  BY <1>0, <1>1, PutGatewayHeard
<1>5. ReleaseInv'
  <2>1. \A g \in Gateway : gwWatch'[g] = <<>> => gwWatch[g] = <<>> /\ gw'[g] = gw[g]
    BY <1>0, <1>1, PutGatewayTold
  <2>2. QED BY <1>0, <1>2, <2>1, ReleaseKept
<1>6. ASSUME NEW g \in Gateway PROVE Rest(g)' /\ Read(g)' /\ Plan(g)'
  <2>1. Steady(g)
    BY <1>0, <1>1, <1>2, PutGatewaySteady
  <2>2. Rest(g) /\ Read(g) /\ Plan(g)
    BY DEF SettleInv
  <2>3. QED BY <1>2, <2>1, <2>2, SteadyKeeps
<1>7. rec'.pc = "status" => ~rec'.failed
  BY <1>2 DEF SettleInv
<1>8. QED BY <1>3, <1>4, <1>5, <1>6, <1>7 DEF SettleInv

(* With autoscalers the gateway controller keeps its invariants. *)
THEOREM ScaledInvariant ==
  ASSUME NoTable \notin SectionSet
  PROVE  ScaledSpec => [](NATInv /\ SettleInv)
<1>1. Init => NATInv /\ SettleInv
  BY InitInv, SettleInit
<1>2. NATInv /\ SettleInv /\ [ScaledNext]_vars => NATInv' /\ SettleInv'
  <2> SUFFICES ASSUME NATInv, SettleInv, [ScaledNext]_vars PROVE NATInv' /\ SettleInv'
    OBVIOUS
  <2>1. CASE [Next]_vars
    BY <2>1, InvStep, SettleStep
  <2>2. ASSUME NEW g \in Gateway, manageNATGatewayIPs(g) PROVE NATInv' /\ SettleInv'
    BY <2>2, ScaleStep
  <2>3. QED BY <2>1, <2>2 DEF ScaledNext
<1>3. QED BY <1>1, <1>2, PTL DEF ScaledSpec

(* Gateways that are scaled while they work have well-formed tables, and the
   right ones when things calm down. *)
THEOREM ScaledTablesAreRight ==
  ASSUME NoTable \notin SectionSet
  PROVE  ScaledSpec => [](NATTypeOK /\ SectionsDisjoint /\ TablesSettle)
<1>1. NATInv /\ SettleInv => NATTypeOK /\ SectionsDisjoint /\ TablesSettle
  BY InvariantTyped, InvariantDisjoint, SettledRight
<1>2. QED BY <1>1, ScaledInvariant, PTL

(* Ranges that are still good stay while the gateway is scaled. *)
THEOREM ScaledAllocationsAreStable ==
  ASSUME NoTable \notin SectionSet, 1 \notin Ports
  PROVE  ScaledSpec => AllocationsStay
<1> DEFINE Stays == \A g \in Gateway :
          table'[g] # table[g] /\ table[g] # NoTable /\ rec.pc = "claim" /\ rec.fresh =>
             \A s \in table[g] :
                s.nic \in rec.mine /\ s.ip \in rec.ips /\ s.end = endPort(s.port, rec.ppi)
                => s \in table'[g]
<1>1. ASSUME NATInv, FreshInv, [ScaledNext]_vars PROVE [Stays]_vars /\ FreshInv'
  <2>1. CASE [Next]_vars
    BY <1>1, <2>1, FreshStep, TableChange DEF FreshInv
  <2>2. ASSUME NEW g \in Gateway, manageNATGatewayIPs(g) PROVE [Stays]_vars /\ FreshInv'
    <3>1. UNCHANGED <<table, rec>>
      BY <2>2 DEF manageNATGatewayIPs, tableVars
    <3>2. QED BY <1>1, <3>1 DEF FreshInv
  <2>3. QED BY <1>1, <2>1, <2>2 DEF ScaledNext
<1>2. NATInv /\ FreshInv /\ [ScaledNext]_vars => [Stays]_vars /\ FreshInv'
  BY <1>1
<1>3. Init => FreshInv
  BY DEF Init, FreshInv, Idle
<1>4. QED BY <1>2, <1>3, ScaledInvariant, PTL DEF ScaledSpec, AllocationsStay

(* A quotient of zero is of less than the divisor. *)
LEMMA QuotientSign ==
  ASSUME NEW a \in Int, NEW b \in Nat \ {0}
  PROVE  /\ Quotient(a, b) \in Int
         /\ Quotient(a, b) >= 0 => a > -b
         /\ Quotient(a, b) <= 0 => a < b
<1>1. ASSUME NEW n \in Nat PROVE n \div b \in Nat /\ (n \div b = 0 => n < b)
  OBVIOUS
<1>2. CASE a < 0
  <2>1. PICK n \in Nat : n = -a
    BY <1>2
  <2>2. PICK q \in Nat : q = n \div b
    BY <1>1
  <2>3. q = 0 => n < b
    BY <1>1, <2>2
  <2>4. Quotient(a, b) = -q
    BY <1>2, <2>1, <2>2 DEF Quotient
  <2>5. QED BY <1>2, <2>1, <2>3, <2>4
<1>3. CASE a >= 0
  <2>1. PICK q \in Nat : q = a \div b
    BY <1>1, <1>3
  <2>2. q = 0 => a < b
    BY <1>1, <1>3, <2>1
  <2>3. Quotient(a, b) = q
    BY <1>3, <2>1 DEF Quotient
  <2>4. QED BY <1>3, <2>2, <2>3
<1>4. QED BY <1>2, <1>3

(* A gateway whose number of IPs is the one that is wanted has neither one too
   many nor one too few. *)
LEMMA DesiredBounds ==
  ASSUME NEW o, SlotsPerIP(o.ppi) \in Nat \ {0}, Cardinality(o.ips) \in Nat, o.requests \in Nat,
         determineDesiredNumberOfIPs(o) = Cardinality(o.ips)
  PROVE  LET slots == SlotsPerIP(o.ppi)
             total == Cardinality(o.ips)
         IN /\ total \in MinIPs .. MaxIPs
            /\ total < MaxIPs => o.requests < slots * (total + 1)
            /\ total > MinIPs => o.requests > slots * (total - 1)
<1>1. PICK slots \in Nat \ {0} : slots = SlotsPerIP(o.ppi)
  OBVIOUS
<1>2. PICK total \in Nat : total = Cardinality(o.ips)
  OBVIOUS
<1>3. PICK r \in Nat : r = o.requests
  OBVIOUS
<1>4. PICK all \in Int : all = slots * total
  OBVIOUS
<1>5. slots * (total + 1) = all + slots /\ slots * (total - 1) = all - slots
  BY <1>4
<1>6. PICK q : q = Quotient(all - r, slots)
  OBVIOUS
<1>7. q \in Int /\ (q >= 0 => all - r > -slots) /\ (q <= 0 => all - r < slots)
  <2>1. PICK d \in Int : d = all - r
    OBVIOUS
  <2>2. q = Quotient(d, slots)
    BY <1>6, <2>1
  <2>3. q \in Int /\ (q >= 0 => d > -slots) /\ (q <= 0 => d < slots)
    BY <2>2, QuotientSign
  <2>4. QED BY <2>1, <2>3
<1>8. determineDesiredNumberOfIPs(o) =
        LET desired == total - q
            atLeast == IF desired < MinIPs THEN MinIPs ELSE desired
        IN IF atLeast > MaxIPs THEN MaxIPs ELSE atLeast
  BY <1>1, <1>2, <1>3, <1>4, <1>6 DEF determineDesiredNumberOfIPs
<1>9. total = LET desired == total - q
                  atLeast == IF desired < MinIPs THEN MinIPs ELSE desired
              IN IF atLeast > MaxIPs THEN MaxIPs ELSE atLeast
  BY <1>2, <1>8
<1>10. /\ total \in MinIPs .. MaxIPs
       /\ total < MaxIPs => q >= 0
       /\ total > MinIPs => q <= 0
  BY <1>7, <1>9, AutoscalerAssumption
<1>11. /\ total < MaxIPs => r < all + slots
       /\ total > MinIPs => r > all - slots
  BY <1>7, <1>10
<1>12. QED BY <1>1, <1>2, <1>3, <1>5, <1>10, <1>11

(* When the gateway controller and the autoscalers have calmed down, the IPs of
   a gateway match the interfaces that want a slot: determineDesiredNumberOfIPs
   works with a count that is right by then.  It divides by the number of slots
   of an IP, which is therefore not zero. *)
THEOREM ScalesToRequests ==
  ASSUME NoTable \notin SectionSet, \A p \in Ports : SlotsPerIP(p) > 0
  PROVE  ScaledSpec => []ScaledToRequests
<1>1. ASSUME NATInv, SettleInv PROVE ScaledToRequests
  <2> SUFFICES ASSUME Quiet, ~(\E g \in Gateway : enqueueByNATGateway(g)),
                      NEW g \in Gateway, gw[g].status = "live"
               PROVE  LET slots == SlotsPerIP(gw[g].ppi)
                          total == Cardinality(gw[g].ips)
                          wanted == Cardinality(ClaimedBy(g) \union Eligible)
                      IN /\ total \in MinIPs .. MaxIPs
                         /\ total < MaxIPs => wanted < slots * (total + 1)
                         /\ total > MinIPs => wanted > slots * (total - 1)
    BY DEF ScaledToRequests
  <2>1. gwCache[g] = gw[g]
    BY <1>1 DEF SettleInv, HeardInv, Follows, Quiet
  <2>2. determineDesiredNumberOfIPs(gw[g]) = Cardinality(gw[g].ips)
    BY <2>1 DEF enqueueByNATGateway, Resizable
  <2>3. gw[g].requests = Cardinality(ClaimedBy(g) \union Eligible)
    BY <1>1, SettledRight DEF TablesSettle
  <2>4. gw[g].ppi \in Ports /\ gw[g].ips \in SUBSET IP /\ gw[g].requests \in Nat
    BY <1>1 DEF NATInv, GatewayInv, ValidGateway, GatewayObject
  <2>5. SlotsPerIP(gw[g].ppi) \in Nat \ {0}
    <3>1. PICK p \in Ports : p = gw[g].ppi
      BY <2>4
    <3>2. SlotsPerIP(p) \in Nat
      BY PortsPositive, SlotsPerIPType
    <3>3. QED BY <3>1, <3>2
  <2>6. Cardinality(gw[g].ips) \in Nat
    BY <2>4, FS_Subset, FS_CardinalityType, NATAssumption
  <2>7. QED BY <2>2, <2>3, <2>4, <2>5, <2>6, DesiredBounds
<1>2. NATInv /\ SettleInv => ScaledToRequests
  BY <1>1
<1>3. QED BY <1>2, ScaledInvariant, PTL
=============================================================================
