------------------------- MODULE AddressAssignment -------------------------
(***************************************************************************)
(* What the IP API promises its users, without saying how: an IP object    *)
(* that exists has one address, and no other existing IP object has it.    *)
(***************************************************************************)
CONSTANTS
    Owner,      \* the IP objects, told apart by their UID
    Address,    \* the addresses an IP object may have
    NoAddress   \* the IP object does not exist

VARIABLE assigned   \* assigned[o]: the address of the existing object o

TypeOK == assigned \in [Owner -> Address \union {NoAddress}]

Init == assigned = [o \in Owner |-> NoAddress]

(* The object comes into existence with an address nobody has. *)
Assign(o, a) ==
    /\ assigned[o] = NoAddress
    /\ \A p \in Owner : assigned[p] # a
    /\ assigned' = [assigned EXCEPT ![o] = a]

(* The object is deleted; its address may be given away from now on. *)
Unassign(o) ==
    /\ assigned[o] # NoAddress
    /\ assigned' = [assigned EXCEPT ![o] = NoAddress]

Next == \E o \in Owner : Unassign(o) \/ \E a \in Address : Assign(o, a)

Spec == Init /\ [][Next]_assigned
=============================================================================
