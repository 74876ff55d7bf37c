--------------------------- MODULE NATAutoscaler ---------------------------
(***************************************************************************)
(* NAT gateways with an autoscaler each                                    *)
(* (internal/controllers/natgatewayautoscaler_controller.go): it adds IPs  *)
(* to a gateway, or takes some away, by what the gateway controller says   *)
(* in status.requestedNATIPs.  Both run in the controller manager and      *)
(* share its cache.                                                        *)
(***************************************************************************)
EXTENDS NATGateway, Integers

CONSTANTS
    MinIPs,    \* spec.minPublicIPs
    MaxIPs     \* spec.maxPublicIPs

ASSUME AutoscalerAssumption == MinIPs \in Nat /\ MaxIPs \in Nat /\ MinIPs <= MaxIPs

(* Division of Go: towards zero. *)
Quotient(a, b) == IF a < 0 THEN -((-a) \div b) ELSE a \div b

(* Mutant of determineDesiredNumberOfIPs: status.usedNATIPs is looked at. *)
determineDesiredNumberOfIPsUsed(o) ==
    LET slots == SlotsPerIP(o.ppi)
        total == Cardinality(o.ips)
        desired == total - Quotient(slots * total - o.used, slots)
        atLeast == IF desired < MinIPs THEN MinIPs ELSE desired
    IN IF atLeast > MaxIPs THEN MaxIPs ELSE atLeast

(* The number of IPs for the requests of gateway o, within its bounds. *)
determineDesiredNumberOfIPs(o) ==
    LET slots == SlotsPerIP(o.ppi)
        total == Cardinality(o.ips)
        desired == total - Quotient(slots * total - o.requests, slots)
        atLeast == IF desired < MinIPs THEN MinIPs ELSE desired
    IN IF atLeast > MaxIPs THEN MaxIPs ELSE atLeast

(* New IPs get addresses nobody has; the ones that go are the last of the list,
   which may be any. *)
Resized(ips, n) ==
    {s \in SUBSET IP : Cardinality(s) = n /\ (s \subseteq ips \/ ips \subseteq s)}

(* A gateway the autoscaler does more than read. *)
Resizable(o) == o.status = "live" /\ determineDesiredNumberOfIPs(o) # Cardinality(o.ips)

(* enqueueByNATGateway: every event of a gateway, also if only the status has
   changed, wakes its autoscaler, and a failed reconcile is repeated.  So the
   autoscaler is at work as long as the cached gateway asks for another number. *)
enqueueByNATGateway(g) == Resizable(gwCache[g])

(* manageNATGatewayIPs: the patch has a lock, so that it fails, and is tried
   again, if the cached gateway is not the current one. *)
manageNATGatewayIPs(g) ==
    /\ enqueueByNATGateway(g)
    /\ gwWatch[g] = <<>>
    /\ \E s \in Resized(gw[g].ips, determineDesiredNumberOfIPs(gw[g])) :
          PutGateway(g, [gw[g] EXCEPT !.ips = s])
    /\ UNCHANGED <<nicVars, tableVars, queue, rec, stale, relVars, churn, faults>>

ScaledNext == Next \/ \E g \in Gateway : manageNATGatewayIPs(g)

ScaledSpec == Init /\ [][ScaledNext]_vars

(* When both controllers have calmed down, the IPs of a gateway match the
   interfaces there are, however the status lagged behind while it scaled: the
   interfaces without a slot would not fill another IP, and no IP could be
   spared.  It is not said that every interface has a slot: the division drops a
   shortage of less than an IP. *)
ScaledToRequests ==
    Quiet /\ ~(\E g \in Gateway : enqueueByNATGateway(g)) =>
        \A g \in Gateway : gw[g].status = "live" =>
            LET slots == SlotsPerIP(gw[g].ppi)
                total == Cardinality(gw[g].ips)
                wanted == Cardinality(ClaimedBy(g) \union Eligible)
            IN /\ total \in MinIPs .. MaxIPs
               /\ total < MaxIPs => wanted < slots * (total + 1)
               /\ total > MinIPs => wanted > slots * (total - 1)
=============================================================================
