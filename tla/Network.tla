------------------------------ MODULE Network ------------------------------
(***************************************************************************)
(* A network on its way through three API servers.  For a network of       *)
(* onmetal-api the apinetlet (apinetlet/controllers/network_controller.go) *)
(* applies a Network of apinet; the API server of apinet gives it an ID    *)
(* (internal/registry/network: storage.go, networkidallocator); the        *)
(* metalnetlet of every partition                                          *)
(* (metalnetlet/controllers/network_controller.go) applies a network of    *)
(* metalnet with that ID as VNI.  Removal goes the same way, and each      *)
(* stage holds back the one before with a finalizer.  The ID is an object  *)
(* NetworkID, claimed by UID: its creation is the reservation.  IDs whose  *)
(* claimer is gone are collected                                           *)
(* (internal/controllers/networkidgc_controller.go).                       *)
(*                                                                         *)
(* A cache holds some earlier state of the objects it follows; a work      *)
(* queue holds a key at most once.                                         *)
(***************************************************************************)
EXTENDS Naturals, FiniteSets

CONSTANTS
    Net,        \* networks of onmetal-api; also the names of their apinet networks
    Partition,  \* partitions, each with a metalnetlet
    ID,         \* network IDs (VNIs) of the range
    Nil,        \* no object
    FirstIDs,   \* bound: IDs for the first network; as IDs are alike, one will do
    MaxCreates, \* bound: creations of apinet networks
    MaxFaults   \* bound: failed or lost requests, restarts

ASSUME NilNetAssumption == Nil \notin Net \union Partition \union ID
ASSUME NetworkBounds == FirstIDs \subseteq ID /\ MaxCreates \in Nat /\ MaxFaults \in Nat

(* A creation of an apinet network has a UID of its own; 0 stands for none. *)
UID == 1..MaxCreates

VARIABLES
    om,         \* om[u]: the onmetal-api network
    omSeen,     \* omSeen[u]: the same in the cache of the apinetlet
    an,         \* an[u]: the apinet network
    anSeen,     \* anSeen[p][u]: the same in the cache of p's metalnetlet
    mn,         \* mn[p][t]: the metalnet network for the apinet network with UID t
    ids,        \* ids[v]: UID that claims NetworkID v, or 0
    idSeen,     \* idSeen[v]: the same in the cache of the collector
    req,        \* req[t]: what the API server still does for the network with UID t
    creates,    \* creations so far
    aq, arec,   \* apinetlet: work queue, reconcile under way
    mq,         \* mq[p]: work queue of p's metalnetlet
    gcq, grec,  \* collector: work queue, reconcile under way
    absent,     \* collector: the absence cache
    faults,     \* faults so far
    robbed,     \* UIDs whose NetworkID somebody else deleted
    overwritten \* <<p, u>>: another partition's patch dropped p's finalizer

onmetal == <<om, omSeen>>
server == <<ids, req, creates>>
apinetlet == <<aq, arec>>
metalnetlet == <<mn, mq>>
gc == <<idSeen, grec, absent>>
ghosts == <<robbed, overwritten>>
vars == <<onmetal, an, anSeen, server, apinetlet, metalnetlet, gcq, gc, faults, ghosts>>

(* A network is gone when its record says so: the name is never used again. *)
OnmetalNetwork == [st : {"live", "deleting", "gone"}, fin : BOOLEAN,
                   provider : 0..MaxCreates, status : {"", "Pending", "Available"}]
APINetNetwork == [uid : UID, id : ID, del : BOOLEAN, fins : SUBSET Partition]
MetalnetNetwork == [net : Net, id : ID, del : BOOLEAN]
Request == [net : Net, id : ID, pc : {"store", "undo", "release"}]

ASSUME NilObjectAssumption ==
    Nil \notin APINetNetwork /\ Nil \notin MetalnetNetwork /\ Nil \notin Request

Idle == [pc |-> "idle"]

Init ==
    /\ om = [u \in Net |-> [st |-> "live", fin |-> FALSE, provider |-> 0, status |-> ""]]
    /\ omSeen = om
    /\ an = [u \in Net |-> Nil]
    /\ anSeen = [p \in Partition |-> an]
    /\ mn = [p \in Partition |-> [t \in UID |-> Nil]]
    /\ ids = [v \in ID |-> 0]
    /\ idSeen = ids
    /\ req = [t \in UID |-> Nil]
    /\ creates = 0
    /\ aq = Net /\ arec = Idle
    /\ mq = [p \in Partition |-> {}]
    /\ gcq = {} /\ grec = Idle /\ absent = {}
    /\ faults = 0
    /\ robbed = {} /\ overwritten = {}

Fault == faults < MaxFaults /\ faults' = faults + 1

-----------------------------------------------------------------------------
(* The onmetal-api server. *)

(* A write of network u: without finalizers a deleting object is removed.  Only
   the finalizer of the apinetlet is modelled. *)
PutOnmetal(u, x) ==
    om' = [om EXCEPT ![u] = IF x.st = "deleting" /\ ~x.fin THEN [x EXCEPT !.st = "gone"] ELSE x]

DeleteNetwork(u) ==
    /\ om[u].st = "live"
    /\ PutOnmetal(u, [om[u] EXCEPT !.st = "deleting"])
    /\ UNCHANGED <<omSeen, an, anSeen, server, apinetlet, metalnetlet, gcq, gc, faults, ghosts>>

DeliverOnmetal(u) ==
    /\ omSeen[u] # om[u]
    /\ omSeen' = [omSeen EXCEPT ![u] = om[u]]
    /\ aq' = aq \union {u}
    /\ UNCHANGED <<om, an, anSeen, server, arec, metalnetlet, gcq, gc, faults, ghosts>>

-----------------------------------------------------------------------------
(* The API server of apinet. *)

(* A write of the apinet network named u.  Without finalizers a deleting object
   is removed: afterDelete is left to do, and the collector looks at the IDs of
   the network. *)
PutAPINet(u, x) ==
    IF x.del /\ x.fins = {}
    THEN /\ an' = [an EXCEPT ![u] = Nil]
         /\ req' = [req EXCEPT ![x.uid] = [net |-> u, id |-> x.id, pc |-> "release"]]
         /\ gcq' = gcq \union {v \in ID : idSeen[v] = x.uid}
    ELSE /\ an' = [an EXCEPT ![u] = x]
         /\ UNCHANGED <<req, gcq>>

DeleteAPINet(u) == PutAPINet(u, [an[u] EXCEPT !.del = TRUE])

(* Mutant of Reserve: the new ID is not written to the network. *)
ReserveUnset(u, t, v) ==
    /\ ids[v] = 0
    /\ ids' = [ids EXCEPT ![v] = t]
    /\ req' = [req EXCEPT ![t] = [net |-> u, id |-> Nil, pc |-> "store"]]
    /\ creates' = t

(* The NetworkID is created before the network is stored.  The allocator takes
   any ID its lister does not know. *)
Reserve(u, t, v) ==
    /\ ids[v] = 0
    /\ ids' = [ids EXCEPT ![v] = t]
    /\ req' = [req EXCEPT ![t] = [net |-> u, id |-> v, pc |-> "store"]]
    /\ creates' = t

(* Deletes NetworkID v by name, on behalf of the network with UID t. *)
Release(v, t) ==
    /\ ids' = [ids EXCEPT ![v] = 0]
    /\ robbed' = robbed \union ({ids[v]} \ {0, t})

(* The outcome of the creation; a waiting apinetlet has its answer. *)
Waits(t) == arec.pc = "create" /\ arec.uid = t

Store(t) ==
    /\ req[t] # Nil /\ req[t].pc = "store"
    /\ an[req[t].net] = Nil
    /\ LET u == req[t].net IN
       /\ an' = [an EXCEPT ![u] = [uid |-> t, id |-> req[t].id, del |-> FALSE, fins |-> {}]]
       /\ aq' = aq \union {u}
       /\ req' = [req EXCEPT ![t] = Nil]
       /\ arec' = IF Waits(t) THEN [arec EXCEPT !.pc = "applied"] ELSE arec
    /\ UNCHANGED <<onmetal, anSeen, ids, creates, metalnetlet, gcq, gc, faults, ghosts>>

(* Mutant of StoreConflicts: the answer is the object that was to be created. *)
StoreConflictsAnswered(t) ==
    /\ req[t] # Nil /\ req[t].pc = "store"
    /\ an[req[t].net] # Nil
    /\ req' = [req EXCEPT ![t] = Nil]
    /\ arec' = IF Waits(t) THEN [arec EXCEPT !.pc = "applied"] ELSE arec
    /\ UNCHANGED <<onmetal, an, anSeen, ids, creates, aq, metalnetlet, gcq, gc, faults, ghosts>>

(* The network exists by now: the write fails, and the server tries again with
   the network it then reads.  The network is created by an apply, for which the
   generic store calls finish(true) before it writes: the ID stays claimed by
   a UID that is never stored. *)
StoreConflicts(t) ==
    /\ req[t] # Nil /\ req[t].pc = "store"
    /\ an[req[t].net] # Nil
    /\ req' = [req EXCEPT ![t] = Nil]
    /\ arec' = IF Waits(t) THEN [arec EXCEPT !.pc = "apply"] ELSE arec
    /\ UNCHANGED <<onmetal, an, anSeen, ids, creates, aq, metalnetlet, gcq, gc, faults, ghosts>>

(* Admission or validation refuses the network before the write. *)
Refuse(t) ==
    /\ req[t] # Nil /\ req[t].pc = "store"
    /\ Fault
    /\ req' = [req EXCEPT ![t].pc = "undo"]
    /\ UNCHANGED <<onmetal, an, anSeen, ids, creates, apinetlet, metalnetlet, gcq, gc, ghosts>>

(* afterDelete: the network is removed from etcd, its ID is released. *)
AfterDelete(t) ==
    /\ req[t] # Nil /\ req[t].pc = "release"
    /\ Release(req[t].id, t)
    /\ req' = [req EXCEPT ![t] = Nil]
    /\ UNCHANGED <<onmetal, an, anSeen, creates, apinetlet, metalnetlet, gcq, gc, faults, overwritten>>

(* finish(false) releases the ID of a refused network. *)
Undo(t) ==
    /\ req[t] # Nil /\ req[t].pc = "undo"
    /\ Release(req[t].id, t)
    /\ req' = [req EXCEPT ![t] = Nil]
    /\ UNCHANGED <<onmetal, an, anSeen, creates, apinetlet, metalnetlet, gcq, gc, faults, overwritten>>

(* The API server stops, etcd fails to write the network, or a release fails:
   nobody goes on with the request, and the ID stays claimed. *)
Abandon(t) ==
    /\ req[t] # Nil
    /\ Fault
    /\ req' = [req EXCEPT ![t] = Nil]
    /\ UNCHANGED <<onmetal, an, anSeen, ids, creates, apinetlet, metalnetlet, gcq, gc, ghosts>>

(* The allocator had moved on to this ID because the creation of another one,
   v, took effect but seemed to fail. *)
ReserveLost(t, v) ==
    /\ req[t] # Nil /\ req[t].pc = "store"
    /\ ids[v] = 0
    /\ Fault
    /\ ids' = [ids EXCEPT ![v] = t]
    /\ UNCHANGED <<onmetal, an, anSeen, req, creates, apinetlet, metalnetlet, gcq, gc, ghosts>>

-----------------------------------------------------------------------------
(* The apinetlet.  It reads the network from its cache and then acts on it. *)

Take(u) == arec = Idle /\ u \in aq
Requeue == arec' = Idle /\ aq' = aq \union {arec.net}

(* deleteGone: the change of the apinet network brings the key back. *)
ADeleteGone(u) ==
    /\ Take(u) /\ omSeen[u].st = "gone"
    /\ IF an[u] = Nil THEN UNCHANGED <<an, req, gcq>> ELSE DeleteAPINet(u)
    /\ aq' = IF an' = an THEN aq \ {u} ELSE aq
    /\ UNCHANGED <<onmetal, anSeen, ids, creates, arec, metalnetlet, gc, faults, ghosts>>

(* delete: as long as the apinet network exists the key is requeued.  A network
   that is deleting has the finalizer. *)
ADelete(u) ==
    /\ Take(u) /\ omSeen[u].st = "deleting"
    /\ IF an[u] # Nil
       THEN DeleteAPINet(u) /\ UNCHANGED apinetlet
       ELSE /\ arec' = [pc |-> "unfinalize", net |-> u]
            /\ aq' = aq \ {u}
            /\ UNCHANGED <<an, req, gcq>>
    /\ UNCHANGED <<onmetal, anSeen, ids, creates, metalnetlet, gc, faults, ghosts>>

AUnfinalize ==
    /\ arec.pc = "unfinalize"
    /\ IF om[arec.net].st = "gone"
       THEN Requeue /\ UNCHANGED om
       ELSE /\ PutOnmetal(arec.net, [om[arec.net] EXCEPT !.fin = FALSE])
            /\ arec' = Idle /\ UNCHANGED aq
    /\ UNCHANGED <<omSeen, an, anSeen, server, metalnetlet, gcq, gc, faults, ghosts>>

(* reconcile without the finalizer: it is patched in and the key is requeued.  A
   deleting network takes no new finalizer. *)
AEnsureFinalizer(u) ==
    /\ Take(u) /\ omSeen[u].st = "live" /\ ~omSeen[u].fin
    /\ om[u].st = "live"
    /\ PutOnmetal(u, [om[u] EXCEPT !.fin = TRUE])
    /\ UNCHANGED <<omSeen, an, anSeen, server, apinetlet, metalnetlet, gcq, gc, faults, ghosts>>

(* reconcile with the apinet network applied: the provider ID is patched in and
   the key is requeued, or else the status is set.  A patch is the difference to
   the cached network: none if that is Available. *)
Applied(u, view, t, rest) ==
    /\ om' = IF om[u].st = "gone" THEN om
             ELSE IF view.provider = 0 THEN [om EXCEPT ![u].provider = t]
             ELSE IF view.status = "Available" THEN om
             ELSE [om EXCEPT ![u].status = "Available"]
    /\ aq' = IF om[u].st = "gone" \/ view.provider = 0 THEN rest \union {u} ELSE rest
    /\ arec' = Idle

(* reconcile: the apinet network is applied.  If it exists the server changes
   nothing. *)
AApply(u) ==
    /\ Take(u) /\ omSeen[u].st = "live" /\ omSeen[u].fin
    /\ IF an[u] # Nil
       THEN Applied(u, omSeen[u], an[u].uid, aq \ {u})
       ELSE /\ arec' = [pc |-> "apply", net |-> u, uid |-> 0,
                        provider |-> omSeen[u].provider, status |-> omSeen[u].status]
            /\ aq' = aq \ {u}
            /\ UNCHANGED om
    /\ UNCHANGED <<omSeen, an, anSeen, server, metalnetlet, gcq, gc, faults, ghosts>>

(* The server finds the network when it tries again ... *)
ApplyExisting ==
    /\ arec.pc = "apply" /\ an[arec.net] # Nil
    /\ arec' = [arec EXCEPT !.pc = "applied", !.uid = an[arec.net].uid]
    /\ UNCHANGED <<onmetal, an, anSeen, server, aq, metalnetlet, gcq, gc, faults, ghosts>>

(* ... or creates it: beginCreate reserves an ID ... *)
ApplyCreate ==
    /\ arec.pc = "apply" /\ an[arec.net] = Nil
    /\ creates < MaxCreates
    /\ \E v \in IF creates = 0 THEN FirstIDs ELSE ID : Reserve(arec.net, creates + 1, v)
    /\ arec' = [arec EXCEPT !.pc = "create", !.uid = creates + 1]
    /\ UNCHANGED <<onmetal, an, anSeen, aq, metalnetlet, gcq, gc, faults, ghosts>>

(* After an error a network that has no status as far as the apinetlet knows is
   Pending. *)
ApplyError ==
    /\ om' = IF om[arec.net].st # "gone" /\ arec.status = ""
             THEN [om EXCEPT ![arec.net].status = "Pending"] ELSE om
    /\ Requeue
    /\ UNCHANGED <<omSeen, an, anSeen, server, metalnetlet, gcq, gc, ghosts>>

(* ... or there is no ID, the network was refused or not written, or the API
   server has stopped. *)
ApplyFails ==
    /\ \/ arec.pc = "apply" /\ an[arec.net] = Nil /\ \A v \in ID : ids[v] # 0
       \/ arec.pc = "create" /\ req[arec.uid] = Nil
    /\ ApplyError
    /\ UNCHANGED faults

(* The request fails or is given up; the server may still be at work on it. *)
ApplyGivenUp ==
    /\ arec.pc \in {"apply", "create"}
    /\ Fault
    /\ ApplyError

AApplied ==
    /\ arec.pc = "applied"
    /\ Applied(arec.net, arec, arec.uid, aq)
    /\ UNCHANGED <<omSeen, an, anSeen, server, metalnetlet, gcq, gc, faults, ghosts>>

(* A patch fails. *)
AFail ==
    /\ arec.pc \in {"applied", "unfinalize"}
    /\ Fault
    /\ Requeue
    /\ UNCHANGED <<onmetal, an, anSeen, server, metalnetlet, gcq, gc, ghosts>>

(* After a restart everything that exists is listed and enqueued. *)
ARestart ==
    /\ Fault
    /\ arec' = Idle
    /\ omSeen' = om
    /\ aq' = {u \in Net : om[u].st # "gone" \/ an[u] # Nil}
    /\ UNCHANGED <<om, an, anSeen, server, metalnetlet, gcq, gc, ghosts>>

-----------------------------------------------------------------------------
(* The metalnetlet of partition p. *)

(* p replaces the finalizers of apinet network u by fins, computed from its
   cached view.  If it patches without a lock on the version, the finalizer of
   another partition that the view does not show is dropped.  A deleting network
   takes no new finalizer. *)
PatchFinalizers(p, u, fins) ==
    /\ an[u] # Nil
    /\ an[u].del => fins \subseteq an[u].fins
    /\ PutAPINet(u, [an[u] EXCEPT !.fins = fins])
    /\ overwritten' = overwritten \union {<<q, u>> : q \in an[u].fins \ (fins \union {p})}

DeliverAPINet(p, u) ==
    /\ anSeen[p][u] # an[u]
    /\ anSeen' = [anSeen EXCEPT ![p][u] = an[u]]
    /\ mq' = [mq EXCEPT ![p] = @ \union {u}]
    /\ UNCHANGED <<onmetal, an, server, apinetlet, mn, gcq, gc, faults, ghosts>>

(* deleteGone: every metalnet network made for an apinet network of that name. *)
MDeleteGone(p, u) ==
    /\ u \in mq[p] /\ anSeen[p][u] = Nil
    /\ mn' = [mn EXCEPT ![p] =
           [t \in UID |-> IF @[t] # Nil /\ @[t].net = u THEN [@[t] EXCEPT !.del = TRUE] ELSE @[t]]]
    /\ mq' = IF mn' = mn THEN [mq EXCEPT ![p] = @ \ {u}] ELSE mq
    /\ UNCHANGED <<onmetal, an, anSeen, server, apinetlet, gcq, gc, faults, ghosts>>

Deleting(p, u) == u \in mq[p] /\ anSeen[p][u] # Nil /\ anSeen[p][u].del

(* delete: without the finalizer of the partition, which only waits for others,
   there is nothing to do; as long as the metalnet network exists the key is
   requeued. *)
MDelete(p, u) ==
    /\ Deleting(p, u)
    /\ IF p \notin anSeen[p][u].fins
       THEN mq' = [mq EXCEPT ![p] = @ \ {u}] /\ UNCHANGED mn
       ELSE /\ mn[p][anSeen[p][u].uid] # Nil
            /\ mn' = [mn EXCEPT ![p][anSeen[p][u].uid].del = TRUE]
            /\ UNCHANGED mq
    /\ UNCHANGED <<onmetal, an, anSeen, server, apinetlet, gcq, gc, faults, ghosts>>

(* Mutant of MUnfinalize: the deletion was issued, which is taken for done. *)
MUnfinalizeEarly(p, u) ==
    /\ Deleting(p, u) /\ p \in anSeen[p][u].fins
    /\ mn[p][anSeen[p][u].uid] # Nil => mn[p][anSeen[p][u].uid].del
    /\ PatchFinalizers(p, u, anSeen[p][u].fins \ {p})
    /\ aq' = aq \union {u}
    /\ mq' = [mq EXCEPT ![p] = @ \ {u}]
    /\ UNCHANGED <<onmetal, anSeen, ids, creates, arec, mn, gc, faults, robbed>>

(* delete: the metalnet network is gone.  (If the patch is refused the key is
   requeued and nothing has changed.) *)
MUnfinalize(p, u) ==
    /\ Deleting(p, u) /\ p \in anSeen[p][u].fins
    /\ mn[p][anSeen[p][u].uid] = Nil
    /\ PatchFinalizers(p, u, anSeen[p][u].fins \ {p})
    /\ aq' = aq \union {u}
    /\ mq' = [mq EXCEPT ![p] = @ \ {u}]
    /\ UNCHANGED <<onmetal, anSeen, ids, creates, arec, mn, gc, faults, robbed>>

(* reconcile without the finalizer: it is patched in and the key is requeued. *)
MEnsureFinalizer(p, u) ==
    /\ u \in mq[p] /\ anSeen[p][u] # Nil
    /\ ~anSeen[p][u].del /\ p \notin anSeen[p][u].fins
    /\ PatchFinalizers(p, u, anSeen[p][u].fins \union {p})
    /\ aq' = aq \union {u}
    /\ UNCHANGED <<onmetal, anSeen, ids, creates, arec, metalnetlet, gc, faults, robbed>>

(* reconcile: the metalnet network is applied. *)
MApply(p, u) ==
    /\ u \in mq[p] /\ anSeen[p][u] # Nil
    /\ ~anSeen[p][u].del /\ p \in anSeen[p][u].fins
    /\ LET t == anSeen[p][u].uid IN
       mn' = IF mn[p][t] = Nil
             THEN [mn EXCEPT ![p][t] = [net |-> u, id |-> anSeen[p][u].id, del |-> FALSE]]
             ELSE mn
    /\ mq' = IF mn' = mn THEN [mq EXCEPT ![p] = @ \ {u}] ELSE mq
    /\ UNCHANGED <<onmetal, an, anSeen, server, apinetlet, gcq, gc, faults, ghosts>>

(* metalnet has cleaned up. *)
RemoveMetalnet(p, t) ==
    /\ mn[p][t] # Nil /\ mn[p][t].del
    /\ mn' = [mn EXCEPT ![p][t] = Nil]
    /\ mq' = [mq EXCEPT ![p] = @ \union {mn[p][t].net}]
    /\ UNCHANGED <<onmetal, an, anSeen, server, apinetlet, gcq, gc, faults, ghosts>>

MRestart(p) ==
    /\ Fault
    /\ anSeen' = [anSeen EXCEPT ![p] = an]
    /\ mq' = [mq EXCEPT ![p] = {u \in Net : an[u] # Nil
                  \/ \E t \in UID : mn[p][t] # Nil /\ mn[p][t].net = u}]
    /\ UNCHANGED <<onmetal, an, server, apinetlet, mn, gcq, gc, ghosts>>

-----------------------------------------------------------------------------
(* The collector of NetworkIDs. *)

(* (The key of a NetworkID that is gone is taken without effect.) *)
DeliverNetworkID(v) ==
    /\ idSeen[v] # ids[v]
    /\ idSeen' = [idSeen EXCEPT ![v] = ids[v]]
    /\ gcq' = IF ids[v] = 0 THEN gcq \ {v} ELSE gcq \union {v}
    /\ UNCHANGED <<onmetal, an, anSeen, server, apinetlet, metalnetlet, grec, absent, faults, ghosts>>

(* Mutant of networkIDClaimerExists: the UIDs are not compared.  (With a single
   network every claimer has its name.) *)
networkIDClaimerNamed(t) ==
    t \notin absent /\ \E u \in Net : an[u] # Nil

(* The claimer is read from the API server, by name and UID. *)
networkIDClaimerExists(t) ==
    t \notin absent /\ \E u \in Net : an[u] # Nil /\ an[u].uid = t

(* Reconcile: the claimer of the cached NetworkID is looked up.  The network of
   a claimer whose creation is under way will be without its ID. *)
GCheck(v) ==
    /\ grec = Idle /\ v \in gcq
    /\ gcq' = gcq \ {v}
    /\ IF idSeen[v] = 0 \/ networkIDClaimerExists(idSeen[v])
       THEN UNCHANGED <<grec, absent, robbed>>
       ELSE LET t == idSeen[v] IN
            /\ grec' = [pc |-> "delete", id |-> v, uid |-> t]
            /\ absent' = absent \union {t}
            /\ robbed' = IF req[t] # Nil /\ req[t].pc = "store" THEN robbed \union {t} ELSE robbed
    /\ UNCHANGED <<onmetal, an, anSeen, server, apinetlet, metalnetlet, idSeen, faults, overwritten>>

(* Reconcile: the NetworkID is deleted by name; if it is gone that is an error. *)
GDelete ==
    /\ grec.pc = "delete"
    /\ Release(grec.id, grec.uid)
    /\ gcq' = IF ids[grec.id] = 0 THEN gcq \union {grec.id} ELSE gcq
    /\ grec' = Idle
    /\ UNCHANGED <<onmetal, an, anSeen, req, creates, apinetlet, metalnetlet, idSeen, absent, faults, overwritten>>

(* The deletion fails. *)
GFail ==
    /\ grec.pc = "delete"
    /\ Fault
    /\ grec' = Idle
    /\ gcq' = gcq \union {grec.id}
    /\ UNCHANGED <<onmetal, an, anSeen, server, apinetlet, metalnetlet, idSeen, absent, ghosts>>

GRestart ==
    /\ Fault
    /\ grec' = Idle /\ absent' = {}
    /\ idSeen' = ids
    /\ gcq' = {v \in ID : ids[v] # 0}
    /\ UNCHANGED <<onmetal, an, anSeen, server, apinetlet, metalnetlet, ghosts>>

-----------------------------------------------------------------------------
Informers ==
    \/ \E u \in Net : DeliverOnmetal(u)
    \/ \E v \in ID : DeliverNetworkID(v)
APINetInformer(p) == \E u \in Net : DeliverAPINet(p, u)
APINetlet ==
    \/ \E u \in Net : \/ ADeleteGone(u) \/ ADelete(u)
                      \/ AEnsureFinalizer(u) \/ AApply(u)
    \/ AUnfinalize \/ ApplyExisting \/ ApplyCreate \/ ApplyFails \/ AApplied
Metalnetlet(p) ==
    \E u \in Net : \/ MDeleteGone(p, u) \/ MDelete(p, u)
                   \/ MUnfinalize(p, u) \/ MEnsureFinalizer(p, u) \/ MApply(p, u)
APIServer == \E t \in UID : Store(t) \/ StoreConflicts(t) \/ AfterDelete(t) \/ Undo(t)
Metalnet == \E p \in Partition, t \in UID : RemoveMetalnet(p, t)
Collector == GDelete \/ \E v \in ID : GCheck(v)
Faults ==
    \/ ApplyGivenUp \/ AFail \/ ARestart \/ GFail \/ GRestart
    \/ \E p \in Partition : MRestart(p)
    \/ \E t \in UID : Refuse(t) \/ Abandon(t) \/ \E v \in ID : ReserveLost(t, v)

Next ==
    \/ \E u \in Net : DeleteNetwork(u)
    \/ Informers \/ APINetlet \/ APIServer \/ Metalnet \/ Collector \/ Faults
    \/ \E p \in Partition : APINetInformer(p) \/ Metalnetlet(p)

(* Informers deliver, every controller goes on while it has work, the API server
   finishes what it began and metalnet finalizes its networks. *)
Fairness ==
    /\ WF_vars(Informers)
    /\ WF_vars(APINetlet) /\ WF_vars(APIServer \/ Metalnet) /\ WF_vars(Collector)
    /\ \A p \in Partition : WF_vars(APINetInformer(p)) /\ WF_vars(Metalnetlet(p))

Spec == Init /\ [][Next]_vars /\ Fairness

-----------------------------------------------------------------------------
(* Every variable has its type. *)
NetworkTypeOK ==
    /\ om \in [Net -> OnmetalNetwork] /\ omSeen \in [Net -> OnmetalNetwork]
    /\ \A u \in Net : an[u] \in APINetNetwork \union {Nil}
    /\ \A p \in Partition, u \in Net : anSeen[p][u] \in APINetNetwork \union {Nil}
    /\ \A p \in Partition, t \in UID :
           mn[p][t] \in MetalnetNetwork \union {Nil}
    /\ ids \in [ID -> 0..MaxCreates] /\ idSeen \in [ID -> 0..MaxCreates]
    /\ \A t \in UID : req[t] \in Request \union {Nil}
    /\ creates \in 0..MaxCreates
    /\ aq \subseteq Net /\ mq \in [Partition -> SUBSET Net]
    /\ arec.pc \in {"idle", "unfinalize", "apply", "create", "applied"}
    /\ gcq \subseteq ID /\ grec.pc \in {"idle", "delete"} /\ absent \subseteq UID
    /\ faults \in 0..MaxFaults
    /\ robbed \subseteq UID /\ overwritten \subseteq Partition \X Net

(* As long as a partition has a metalnet network its VNI is reserved for it: the
   NetworkID is claimed by the apinet network the metalnet network was made for,
   however removals, restarts and retries interleave.  So no two networks of a
   partition share a VNI.  Two things can break it: a NetworkID deleted by name
   under the wrong or a too early look (robbed), and a finalizer lost to the
   patch of another partition. *)
IDHeldWhileUsed ==
    \A p \in Partition, t \in UID :
        mn[p][t] # Nil =>
            \/ ids[mn[p][t].id] = t
            \/ t \in robbed
            \/ <<p, mn[p][t].net>> \in overwritten

(* The provider ID a live network has been given names the apinet network that
   exists for it, also if the creation was given up and tried again. *)
ProviderCurrent ==
    \A u \in Net :
        om[u].st = "live" /\ om[u].provider # 0 =>
            an[u] # Nil /\ an[u].uid = om[u].provider /\ ~an[u].del

(* What is served: the network is available and every partition has it. *)
Served(u) ==
    /\ om[u].status = "Available" /\ om[u].provider # 0
    /\ an[u] # Nil
    /\ \A p \in Partition :
           /\ p \in an[u].fins
           /\ mn[p][an[u].uid] # Nil /\ ~mn[p][an[u].uid].del

(* What is cleaned up: nothing of the network is left in any API server. *)
CleanedUp(u) ==
    /\ om[u].st = "gone" /\ an[u] = Nil
    /\ \A p \in Partition, t \in UID : mn[p][t] # Nil => mn[p][t].net # u

(* Once users and faults have come to rest every network that still exists is
   served, a deleted one is cleaned up in all partitions, and no NetworkID is left
   that no network has: what creations that met a conflict, failed or were given
   up have reserved goes by the hand of the collector. *)
Converges ==
    <>[](/\ \A u \in Net : IF om[u].st = "live" THEN Served(u) ELSE CleanedUp(u)
         /\ \A v \in ID : ids[v] # 0 => \E u \in Net : an[u] # Nil /\ an[u].uid = ids[v])
=============================================================================
