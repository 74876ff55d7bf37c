------------------------------ MODULE NATSlots ------------------------------
(***************************************************************************)
(* Port ranges of a NAT gateway (internal/natgateway/allocation.go and     *)
(* utils/container/slots.go): the ephemeral ports of every IP are cut into *)
(* slots of as many ports as an interface gets.                            *)
(***************************************************************************)
EXTENDS Naturals, FiniteSets

CONSTANTS
    MinPort,   \* minEphemeralPort
    MaxPort    \* maxEphemeralPort

ASSUME PortsAssumption == MinPort \in Nat /\ MaxPort \in Nat /\ MinPort <= MaxPort

SlotsPerIP(ppi) == (MaxPort + 1 - MinPort) \div ppi

endPort(port, ppi) == port + ppi - 1

(* Mutant of HasSlot: the last ephemeral port is taken for one too many. *)
HasSlotBelowMax(port, end, ppi) ==
    /\ ~(port < MinPort \/ port >= end \/ end >= MaxPort)
    /\ endPort(port, ppi) = end
    /\ (port - MinPort) \div ppi < SlotsPerIP(ppi)

(* A range Use finds a slot for. *)
HasSlot(port, end, ppi) ==
    /\ ~(port < MinPort \/ port >= end \/ end > MaxPort)
    /\ endPort(port, ppi) = end
    /\ (port - MinPort) \div ppi < SlotsPerIP(ppi)

slotForPorts(port, ppi) == (port - MinPort) \div ppi

(* Mutant of portForSlot: the slots overlap by a port. *)
portForSlotOverlapping(slot, ppi) == slot * (ppi - 1) + MinPort

(* The first port of a slot; endPort gives the last. *)
portForSlot(slot, ppi) == slot * ppi + MinPort

(* The slots of KeySlots that are not in use. *)
FreeSlots(ips, ppi, used) == (ips \X (0 .. SlotsPerIP(ppi) - 1)) \ used

(* What UseNextFree may return: the first free slot of any IP that has one,
   as the IPs are gone through in no particular order. *)
UseNextFree(ips, ppi, used) ==
    LET free == FreeSlots(ips, ppi, used) IN
    {f \in free : \A t \in 0 .. f[2] - 1 : <<f[1], t>> \notin free}

(* A NATIPSection of nic on ip for the slot. *)
Section(nic, slot, ppi) ==
    [nic |-> nic, ip |-> slot[1], port |-> portForSlot(slot[2], ppi),
     end |-> endPort(portForSlot(slot[2], ppi), ppi)]

(* The slots of the sections. *)
SlotsOf(sections, ppi) == {<<s.ip, slotForPorts(s.port, ppi)>> : s \in sections}

(* No port of an IP is in two sections, no interface has two sections, and
   no section leaves the ephemeral ports. *)
WellFormed(sections) ==
    /\ \A s \in sections : MinPort <= s.port /\ s.port <= s.end /\ s.end <= MaxPort
    /\ \A s, t \in sections :
          s # t => /\ s.nic # t.nic
                   /\ s.ip = t.ip => s.end < t.port \/ t.end < s.port
=============================================================================
