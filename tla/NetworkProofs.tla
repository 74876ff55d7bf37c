--------------------------- MODULE NetworkProofs ---------------------------
(***************************************************************************)
(* A VNI in use is reserved, and a provider ID is current, for any number  *)
(* of networks, partitions, IDs, creations and faults.                     *)
(***************************************************************************)
EXTENDS Network, TLAPS

(* A reconcile of the apinetlet that applies a network. *)
Applying == [pc : {"apply", "create", "applied"}, net : Net, uid : 0..MaxCreates,
             provider : 0..MaxCreates, status : {"", "Pending", "Available"}]

ServerType ==
    /\ an \in [Net -> APINetNetwork \union {Nil}]
    /\ ids \in [ID -> 0..MaxCreates]
    /\ req \in [UID -> Request \union {Nil}]
    /\ creates \in 0..MaxCreates

OnmetalType ==
    /\ om \in [Net -> OnmetalNetwork] /\ omSeen \in [Net -> OnmetalNetwork]
    /\ aq \subseteq Net
    /\ arec \in {Idle} \union [pc : {"unfinalize"}, net : Net] \union Applying

MetalnetType ==
    /\ anSeen \in [Partition -> [Net -> APINetNetwork \union {Nil}]]
    /\ mn \in [Partition -> [UID -> MetalnetNetwork \union {Nil}]]
    /\ mq \in [Partition -> SUBSET Net]
    /\ overwritten \subseteq Partition \X Net

CollectorType ==
    /\ idSeen \in [ID -> 0..MaxCreates]
    /\ gcq \subseteq ID
    /\ grec \in {Idle} \union [pc : {"delete"}, id : ID, uid : UID]
    /\ absent \subseteq UID
    /\ robbed \subseteq UID

Types == ServerType /\ OnmetalType /\ MetalnetType /\ CollectorType /\ faults \in 0..MaxFaults

(* A UID is given to one creation, and until the network is stored, and again
   when it is removed, no network has it. *)
UIDInv ==
    /\ \A v \in ID : ids[v] <= creates /\ idSeen[v] <= creates
    /\ \A t \in UID : req[t] # Nil => t <= creates
    /\ \A u \in Net : an[u] # Nil => an[u].uid <= creates /\ req[an[u].uid] = Nil
    /\ \A u, w \in Net : an[u] # Nil /\ an[w] # Nil /\ an[u].uid = an[w].uid => u = w

(* Whoever is looked for in vain does not turn up later, except when its
   creation was under way. *)
AbsentInv ==
    \A t \in absent :
       t \in robbed \/ ( /\ \A u \in Net : an[u] # Nil => an[u].uid # t
                         /\ req[t] # Nil => req[t].pc # "store" )

(* The reservation stands for the network that is to be or has been stored. *)
HeldInv ==
    /\ \A u \in Net : an[u] # Nil => ids[an[u].id] = an[u].uid \/ an[u].uid \in robbed
    /\ \A t \in UID :
          req[t] # Nil /\ req[t].pc = "store" => ids[req[t].id] = t \/ t \in robbed
    /\ grec.pc = "delete" => grec.uid \in absent
    /\ \A t \in absent : t <= creates

(* What p knows of u's network, as long as its finalizer is there, is true of
   the network that is stored. *)
ViewInv ==
    \A p \in Partition, u \in Net :
       anSeen[p][u] # Nil /\ ~anSeen[p][u].del /\ p \in anSeen[p][u].fins =>
          \/ <<p, u>> \in overwritten
          \/ /\ an[u] # Nil /\ p \in an[u].fins
             /\ an[u].uid = anSeen[p][u].uid /\ an[u].id = anSeen[p][u].id

(* A metalnet network is held by p's finalizer on the apinet network it was
   made for, and p knows of no other. *)
MetalnetInv ==
    \A p \in Partition, t \in UID :
       mn[p][t] # Nil =>
          LET u == mn[p][t].net IN
          \/ <<p, u>> \in overwritten
          \/ /\ an[u] # Nil /\ p \in an[u].fins
             /\ an[u].uid = t /\ an[u].id = mn[p][t].id
             /\ anSeen[p][u] # Nil /\ anSeen[p][u].uid = t

(* The apinetlet deletes nothing that is live, and what it has applied is what
   is stored. *)
LiveInv ==
    /\ \A u \in Net : omSeen[u].st # "live" => om[u].st # "live"
    /\ \A u \in Net : an[u] # Nil /\ an[u].del => om[u].st # "live"
    /\ arec.pc = "unfinalize" => om[arec.net].st # "live"
    /\ arec.pc = "applied" /\ om[arec.net].st = "live" =>
          an[arec.net] # Nil /\ an[arec.net].uid = arec.uid
    /\ arec.pc = "create" =>
          /\ arec.uid \in 1..creates
          /\ req[arec.uid] # Nil => req[arec.uid].net = arec.net
          /\ \A u \in Net : an[u] # Nil => an[u].uid # arec.uid

NetworkInv ==
    /\ Types /\ UIDInv /\ AbsentInv /\ HeldInv /\ ViewInv /\ MetalnetInv
    /\ LiveInv /\ ProviderCurrent
-----------------------------------------------------------------------------
(***************************************************************************)
(* Types                                                                   *)
(***************************************************************************)

(* A write of an apinet network that exists: its identity stays. *)
Rewritten(u, x) ==
    /\ an[u] # Nil /\ x \in APINetNetwork
    /\ x.uid = an[u].uid /\ x.id = an[u].id /\ (an[u].del => x.del)
    /\ PutAPINet(u, x)

(* A write replaces the network or, if nothing holds it back, removes it and
   leaves its ID to be released. *)
LEMMA RewrittenEffect ==
  ASSUME ServerType, NEW u \in Net, NEW x, Rewritten(u, x)
  PROVE  /\ \A w \in Net \ {u} : an'[w] = an[w]
         /\ \/ /\ an'[u] = x /\ req' = req /\ ~(x.del /\ x.fins = {})
            \/ /\ an'[u] = Nil /\ x.del /\ x.fins = {}
               /\ req' = [req EXCEPT ![x.uid] = [net |-> u, id |-> x.id, pc |-> "release"]]
  BY DEF ServerType, Rewritten, PutAPINet

(* Removal by the apinetlet and patches of finalizers are such writes. *)
LEMMA DeleteRewrites ==
  ASSUME ServerType, NEW u \in Net, an[u] # Nil, DeleteAPINet(u)
  PROVE  \E x : Rewritten(u, x) /\ x.fins = an[u].fins /\ x.del
<1>1. an[u] \in APINetNetwork
  BY DEF ServerType
<1>2. [an[u] EXCEPT !.del = TRUE] \in APINetNetwork
  BY <1>1 DEF APINetNetwork
<1>3. QED BY <1>1, <1>2 DEF DeleteAPINet, Rewritten, APINetNetwork

LEMMA PatchRewrites ==
  ASSUME ServerType, NEW p \in Partition, NEW u \in Net, NEW fins \in SUBSET Partition,
         PatchFinalizers(p, u, fins)
  PROVE  /\ \E x : Rewritten(u, x) /\ x.fins = fins /\ x.del = an[u].del
         /\ overwritten' = overwritten \union {<<q, u>> : q \in an[u].fins \ (fins \union {p})}
<1>1. an[u] # Nil /\ an[u] \in APINetNetwork
  BY DEF ServerType, PatchFinalizers
<1>2. [an[u] EXCEPT !.fins = fins] \in APINetNetwork
  BY <1>1 DEF APINetNetwork
<1>3. QED BY <1>1, <1>2 DEF PatchFinalizers, Rewritten, APINetNetwork

(* The patches are computed from finalizers the metalnetlet has seen. *)
LEMMA MetalnetletPatches ==
  ASSUME ServerType, MetalnetType, NEW p \in Partition, NEW u \in Net,
         MUnfinalize(p, u) \/ MEnsureFinalizer(p, u)
  PROVE  \E fins \in SUBSET Partition : PatchFinalizers(p, u, fins)
<1>1. anSeen[p][u] \in APINetNetwork
  BY DEF MetalnetType, MUnfinalize, MEnsureFinalizer, Deleting
<1>2. anSeen[p][u].fins \in SUBSET Partition
  BY <1>1 DEF APINetNetwork
<1>3. QED BY <1>2 DEF MUnfinalize, MEnsureFinalizer

(* What a write does to the types of the API server. *)
LEMMA RewrittenType ==
  ASSUME ServerType, NEW u \in Net, NEW x, Rewritten(u, x), UNCHANGED <<ids, creates>>
  PROVE  ServerType' /\ (gcq \subseteq ID => gcq' \subseteq ID)
<1>1. x \in APINetNetwork /\ x.uid \in UID /\ x.id \in ID
  BY DEF Rewritten, APINetNetwork
<1>2. [net |-> u, id |-> x.id, pc |-> "release"] \in Request
  BY <1>1 DEF Request
<1>3. an' \in [Net -> APINetNetwork \union {Nil}] /\ req' \in [UID -> Request \union {Nil}]
  BY <1>1, <1>2 DEF Rewritten, PutAPINet, ServerType
<1>4. gcq \subseteq ID => gcq' \subseteq ID
  BY DEF Rewritten, PutAPINet
<1>5. QED BY <1>3, <1>4 DEF ServerType

(* The requests of the API server. *)
LEMMA RequestFields ==
  ASSUME ServerType, NEW t \in UID, req[t] # Nil
  PROVE  req[t] \in Request /\ req[t].net \in Net /\ req[t].id \in ID
  BY DEF ServerType, Request

LEMMA UIDNat == \A t \in UID : t \in Nat /\ 0 < t /\ t <= MaxCreates /\ t \in 0..MaxCreates
  BY NetworkBounds DEF UID

(* What the apinetlet and the collector are at. *)
LEMMA ArecShape ==
  ASSUME NEW r \in {Idle} \union [pc : {"unfinalize"}, net : Net] \union Applying
  PROVE  /\ r.pc \in {"idle", "unfinalize", "apply", "create", "applied"}
         /\ r.pc # "idle" => r.net \in Net
         /\ r.pc \in {"apply", "create", "applied"} => r \in Applying /\ r.uid \in 0..MaxCreates
<1>1. CASE r = Idle
  BY <1>1 DEF Idle
<1>2. CASE r \in [pc : {"unfinalize"}, net : Net]
  BY <1>2
<1>3. CASE r \in Applying
  BY <1>3 DEF Applying
<1>4. QED BY <1>1, <1>2, <1>3

LEMMA ArecFields ==
  ASSUME OnmetalType
  PROVE  /\ arec.pc \in {"idle", "unfinalize", "apply", "create", "applied"}
         /\ arec.pc # "idle" => arec.net \in Net
         /\ arec.pc \in {"apply", "create", "applied"} =>
               arec \in Applying /\ arec.uid \in 0..MaxCreates
  BY ArecShape DEF OnmetalType

LEMMA GrecFields ==
  ASSUME CollectorType
  PROVE  /\ grec.pc \in {"idle", "delete"}
         /\ grec.pc = "delete" => grec.id \in ID /\ grec.uid \in UID
<1>1. CASE grec = Idle
  BY <1>1 DEF Idle
<1>2. CASE grec # Idle
  BY <1>2 DEF CollectorType
<1>3. QED BY <1>1, <1>2

(***************************************************************************)
(* What a step does to the API server of apinet and to the collector's     *)
(* memory: it writes a network, reserves an ID, stores a network, ends a   *)
(* request, loses a reservation, collects an ID, looks for a claimer, or   *)
(* does none of these.                                                     *)
(***************************************************************************)
Memory == <<idSeen, grec, absent>>

Writes(u) ==
    /\ \E x : Rewritten(u, x)
    /\ UNCHANGED <<ids, creates, robbed, Memory>>

Reserves ==
    /\ arec.net \in Net /\ creates < MaxCreates /\ an[arec.net] = Nil
    /\ \E v \in ID : Reserve(arec.net, creates + 1, v)
    /\ UNCHANGED <<an, robbed, Memory>>

Stores(t) ==
    /\ req[t] # Nil /\ req[t].pc = "store" /\ an[req[t].net] = Nil
    /\ an' = [an EXCEPT ![req[t].net] =
                  [uid |-> t, id |-> req[t].id, del |-> FALSE, fins |-> {}]]
    /\ req' = [req EXCEPT ![t] = Nil]
    /\ UNCHANGED <<ids, creates, robbed, Memory>>

Ends(t) ==
    /\ req[t] # Nil
    /\ \/ req' = [req EXCEPT ![t] = Nil]
       \/ req' = [req EXCEPT ![t].pc = "undo"]
    /\ \/ UNCHANGED <<ids, robbed>>
       \/ req[t].pc # "store" /\ Release(req[t].id, t)
    /\ UNCHANGED <<an, creates, Memory>>

Loses(t, v) ==
    /\ req[t] # Nil /\ req[t].pc = "store" /\ ids[v] = 0
    /\ ids' = [ids EXCEPT ![v] = t]
    /\ UNCHANGED <<an, req, creates, robbed, Memory>>

Rests ==
    /\ UNCHANGED <<an, ids, req, creates, robbed>>
    /\ \/ UNCHANGED <<grec, absent>>
       \/ grec' = Idle /\ absent' \subseteq absent
    /\ \A v \in ID : idSeen'[v] = idSeen[v] \/ idSeen'[v] = ids[v]

LEMMA StepKinds ==
  ASSUME Types, [Next]_vars
  PROVE  \/ \E u \in Net : Writes(u)
         \/ Reserves
         \/ \E t \in UID : Stores(t) \/ Ends(t) \/ \E v \in ID : Loses(t, v)
         \/ GDelete
         \/ \E v \in ID : GCheck(v)
         \/ Rests
<1>0. ServerType /\ OnmetalType /\ MetalnetType /\ CollectorType
  BY DEF Types
<1>1. ASSUME NEW u \in Net, ADeleteGone(u) \/ ADelete(u) PROVE Writes(u) \/ Rests
  <2>1. UNCHANGED <<ids, creates, robbed, Memory>>
    BY <1>1 DEF ADeleteGone, ADelete, gc, ghosts, Memory
  <2>2. CASE UNCHANGED <<an, req>>
    BY <2>1, <2>2 DEF Rests, Memory
  <2>3. CASE an[u] # Nil /\ DeleteAPINet(u)
    BY <1>0, <2>1, <2>3, DeleteRewrites DEF Writes
  <2>4. QED BY <1>1, <2>2, <2>3 DEF ADeleteGone, ADelete
<1>2. ASSUME NEW p \in Partition, NEW u \in Net, MUnfinalize(p, u) \/ MEnsureFinalizer(p, u)
      PROVE  Writes(u)
  <2>1. UNCHANGED <<ids, creates, robbed, Memory>>
    BY <1>2 DEF MUnfinalize, MEnsureFinalizer, gc, Memory
  <2>2. QED BY <1>0, <1>2, <2>1, MetalnetletPatches, PatchRewrites DEF Writes
<1>3. CASE ApplyCreate
  <2>1. arec.net \in Net
    BY <1>0, <1>3, ArecFields DEF ApplyCreate
  <2>2. QED BY <1>3, <2>1, NetworkBounds DEF ApplyCreate, Reserves, Memory, gc, ghosts
<1>4. ASSUME NEW t \in UID, Store(t) PROVE Stores(t)
  BY <1>4 DEF Store, Stores, Memory, gc, ghosts
<1>5. ASSUME NEW t \in UID, StoreConflicts(t) \/ Refuse(t) \/ AfterDelete(t) \/ Undo(t) \/ Abandon(t)
      PROVE  Ends(t)
  BY <1>5 DEF StoreConflicts, Refuse, AfterDelete, Undo, Abandon, Ends, Memory, gc, ghosts
<1>6. ASSUME NEW t \in UID, NEW v \in ID, ReserveLost(t, v) PROVE Loses(t, v)
  BY <1>6 DEF ReserveLost, Loses, Memory, gc, ghosts
<1>7. CASE UNCHANGED <<an, ids, req, creates, robbed, Memory>>
  BY <1>7 DEF Rests, Memory
<1>8. ASSUME NEW u \in Net,
             \/ DeleteNetwork(u) \/ DeliverOnmetal(u) \/ AEnsureFinalizer(u) \/ AApply(u)
             \/ \E p \in Partition : DeliverAPINet(p, u) \/ MDeleteGone(p, u)
                                     \/ MDelete(p, u) \/ MApply(p, u)
      PROVE  UNCHANGED <<an, ids, req, creates, robbed, Memory>>
  BY <1>8 DEF DeleteNetwork, DeliverOnmetal, AEnsureFinalizer, AApply, DeliverAPINet,
              MDeleteGone, MDelete, MApply, server, gc, ghosts, Memory
<1>9. ASSUME \/ AUnfinalize \/ ApplyExisting \/ ApplyFails \/ ApplyGivenUp \/ AApplied
             \/ AFail \/ ARestart
      PROVE  UNCHANGED <<an, ids, req, creates, robbed, Memory>>
  BY <1>9 DEF AUnfinalize, ApplyExisting, ApplyFails, ApplyGivenUp, ApplyError, AApplied,
              AFail, ARestart, server, gc, ghosts, Memory
<1>10. ASSUME \/ \E p \in Partition : MRestart(p)
              \/ \E p \in Partition, t \in UID : RemoveMetalnet(p, t)
              \/ UNCHANGED vars
       PROVE  UNCHANGED <<an, ids, req, creates, robbed, Memory>>
  BY <1>10 DEF MRestart, RemoveMetalnet, server, gc, ghosts, Memory, vars
<1>11. ASSUME GFail \/ GRestart \/ \E v \in ID : DeliverNetworkID(v) PROVE Rests
  BY <1>0, <1>11 DEF GFail, GRestart, DeliverNetworkID, Rests, server, ghosts, CollectorType
<1>12. QED
  BY <1>1, <1>2, <1>3, <1>4, <1>5, <1>6, <1>7, <1>8, <1>9, <1>10, <1>11
     DEF Next, Informers, APINetlet, APIServer, Metalnet, Collector, Faults,
         APINetInformer, Metalnetlet

(* Deletion of a NetworkID by name. *)
LEMMA ReleaseType ==
  ASSUME ServerType, CollectorType, NEW v \in ID, NEW t, Release(v, t)
  PROVE  ids' \in [ID -> 0..MaxCreates] /\ robbed' \subseteq UID
<1>1. 0 \in 0..MaxCreates /\ ids[v] \in 0..MaxCreates /\ 0..MaxCreates = UID \union {0}
  BY NetworkBounds DEF ServerType, UID
<1>2. ids' \in [ID -> 0..MaxCreates]
  BY <1>1 DEF Release, ServerType
<1>3. robbed' \subseteq UID
  BY <1>1 DEF Release, CollectorType
<1>4. QED BY <1>2, <1>3

LEMMA ServerTypeStep ==
  ASSUME Types, [Next]_vars
  PROVE  ServerType'
<1>0. ServerType /\ OnmetalType /\ MetalnetType /\ CollectorType
  BY DEF Types
<1>1. ASSUME NEW u \in Net, Writes(u) PROVE ServerType'
  BY <1>0, <1>1, RewrittenType DEF Writes
<1>2. CASE Reserves
  <2>1. creates + 1 \in UID /\ creates + 1 \in 0..MaxCreates
    BY <1>0, <1>2, NetworkBounds DEF Reserves, ServerType, UID
  <2>2. PICK v \in ID : Reserve(arec.net, creates + 1, v)
    BY <1>2 DEF Reserves
  <2>3. [net |-> arec.net, id |-> v, pc |-> "store"] \in Request
    BY <1>2 DEF Request, Reserves
  <2>4. an' = an
    BY <1>2 DEF Reserves
  <2>5. QED BY <1>0, <2>1, <2>2, <2>3, <2>4 DEF Reserve, ServerType
<1>3. ASSUME NEW t \in UID, Stores(t) PROVE ServerType'
  <2>1. req[t] # Nil /\ req[t] \in Request /\ req[t].net \in Net /\ req[t].id \in ID
    BY <1>0, <1>3, RequestFields DEF Stores
  <2>2. [uid |-> t, id |-> req[t].id, del |-> FALSE, fins |-> {}] \in APINetNetwork
    BY <2>1 DEF APINetNetwork
  <2>3. QED BY <1>0, <1>3, <2>1, <2>2 DEF Stores, ServerType
<1>4. ASSUME NEW t \in UID, Ends(t) PROVE ServerType'
  <2>1. req[t] \in Request /\ req[t].id \in ID /\ [req[t] EXCEPT !.pc = "undo"] \in Request
    BY <1>0, <1>4, RequestFields DEF Ends, Request
  <2>2. ids' \in [ID -> 0..MaxCreates]
    BY <1>0, <1>4, <2>1, ReleaseType DEF Ends, ServerType
  <2>3. req' \in [UID -> Request \union {Nil}]
    BY <1>0, <1>4, <2>1 DEF Ends, ServerType
  <2>4. QED BY <1>0, <1>4, <2>2, <2>3 DEF Ends, ServerType
<1>5. ASSUME NEW t \in UID, NEW v \in ID, Loses(t, v) PROVE ServerType'
  BY <1>0, <1>5, UIDNat DEF Loses, ServerType
<1>6. CASE GDelete
  <2>1. ids' \in [ID -> 0..MaxCreates]
    BY <1>0, <1>6, GrecFields, ReleaseType DEF GDelete
  <2>2. QED BY <1>0, <1>6, <2>1 DEF GDelete, ServerType
<1>7. ASSUME NEW v \in ID, GCheck(v) PROVE ServerType'
  BY <1>0, <1>7 DEF GCheck, ServerType, server
<1>8. CASE Rests
  BY <1>0, <1>8 DEF Rests, ServerType
<1>9. QED BY StepKinds, <1>1, <1>2, <1>3, <1>4, <1>5, <1>6, <1>7, <1>8

LEMMA CollectorTypeStep ==
  ASSUME Types, [Next]_vars
  PROVE  CollectorType'
<1>0. ServerType /\ OnmetalType /\ MetalnetType /\ CollectorType
  BY DEF Types
<1>1. ASSUME NEW u \in Net, ADeleteGone(u) \/ ADelete(u) PROVE CollectorType'
  <2>1. UNCHANGED <<ids, creates, robbed, Memory>>
    BY <1>1 DEF ADeleteGone, ADelete, gc, ghosts, Memory
  <2>2. gcq' \subseteq ID
    <3>1. CASE UNCHANGED gcq
      BY <1>0, <3>1 DEF CollectorType
    <3>2. CASE an[u] # Nil /\ DeleteAPINet(u)
      BY <1>0, <2>1, <3>2, DeleteRewrites, RewrittenType DEF CollectorType
    <3>3. QED BY <1>1, <3>1, <3>2 DEF ADeleteGone, ADelete
  <2>3. QED BY <1>0, <2>1, <2>2 DEF CollectorType, Memory
<1>2. ASSUME NEW p \in Partition, NEW u \in Net, MUnfinalize(p, u) \/ MEnsureFinalizer(p, u)
      PROVE  CollectorType'
  <2>1. UNCHANGED <<ids, creates, robbed, Memory>>
    BY <1>2 DEF MUnfinalize, MEnsureFinalizer, gc, Memory
  <2>2. gcq' \subseteq ID
    BY <1>0, <1>2, <2>1, MetalnetletPatches, PatchRewrites, RewrittenType DEF CollectorType
  <2>3. QED BY <1>0, <2>1, <2>2 DEF CollectorType, Memory
<1>3. ASSUME NEW t \in UID, AfterDelete(t) \/ Undo(t) PROVE CollectorType'
  <2>1. robbed' \subseteq UID
    BY <1>0, <1>3, RequestFields, ReleaseType DEF AfterDelete, Undo
  <2>2. QED BY <1>0, <1>3, <2>1 DEF AfterDelete, Undo, gc, CollectorType
<1>4. CASE GDelete
  <2>1. robbed' \subseteq UID
    BY <1>0, <1>4, GrecFields, ReleaseType DEF GDelete
  <2>2. gcq' \subseteq ID
    BY <1>0, <1>4, GrecFields DEF GDelete, CollectorType
  <2>3. QED BY <1>0, <1>4, <2>1, <2>2 DEF GDelete, CollectorType
<1>5. ASSUME NEW v \in ID, GCheck(v) PROVE CollectorType'
  <2>1. gcq' \subseteq ID /\ idSeen' = idSeen
    BY <1>0, <1>5 DEF GCheck, CollectorType
  <2>2. CASE UNCHANGED <<grec, absent, robbed>>
    BY <1>0, <2>1, <2>2 DEF CollectorType
  <2>3. CASE idSeen[v] # 0 /\ ~UNCHANGED <<grec, absent, robbed>>
    <3>1. idSeen[v] \in UID
      BY <1>0, <2>3, NetworkBounds DEF CollectorType, UID
    <3>2. [pc |-> "delete", id |-> v, uid |-> idSeen[v]]
             \in [pc : {"delete"}, id : ID, uid : UID]
      BY <3>1
    <3>3. /\ grec' = [pc |-> "delete", id |-> v, uid |-> idSeen[v]]
          /\ absent' = absent \union {idSeen[v]}
          /\ robbed' \in {robbed, robbed \union {idSeen[v]}}
      BY <1>5, <2>3 DEF GCheck
    <3>4. QED BY <1>0, <2>1, <3>1, <3>2, <3>3 DEF CollectorType
  <2>4. QED BY <1>5, <2>2, <2>3 DEF GCheck
<1>6. CASE GFail
  <2>1. gcq' \subseteq ID
    BY <1>0, <1>6, GrecFields DEF GFail, CollectorType
  <2>2. QED BY <1>0, <1>6, <2>1 DEF GFail, CollectorType, ghosts
<1>7. CASE GRestart
  BY <1>0, <1>7 DEF GRestart, CollectorType, ServerType, server, ghosts
<1>8. ASSUME NEW v \in ID, DeliverNetworkID(v) PROVE CollectorType'
  BY <1>0, <1>8 DEF DeliverNetworkID, CollectorType, ServerType, ghosts
<1>9. CASE UNCHANGED <<gcq, robbed, Memory>>
  BY <1>0, <1>9 DEF CollectorType, Memory
<1>10. ASSUME NEW u \in Net,
             \/ DeleteNetwork(u) \/ DeliverOnmetal(u) \/ AEnsureFinalizer(u) \/ AApply(u)
             \/ \E p \in Partition : DeliverAPINet(p, u) \/ MDeleteGone(p, u)
                                     \/ MDelete(p, u) \/ MApply(p, u)
      PROVE  UNCHANGED <<gcq, robbed, Memory>>
  BY <1>10 DEF DeleteNetwork, DeliverOnmetal, AEnsureFinalizer, AApply, DeliverAPINet,
              MDeleteGone, MDelete, MApply, gc, ghosts, Memory
<1>11. ASSUME \/ AUnfinalize \/ ApplyExisting \/ ApplyCreate \/ ApplyFails \/ ApplyGivenUp
              \/ AApplied \/ AFail \/ ARestart
      PROVE  UNCHANGED <<gcq, robbed, Memory>>
  BY <1>11 DEF AUnfinalize, ApplyExisting, ApplyCreate, ApplyFails, ApplyGivenUp, ApplyError,
               AApplied, AFail, ARestart, gc, ghosts, Memory
<1>12. ASSUME \/ \E p \in Partition : MRestart(p)
              \/ \E t \in UID : \/ Store(t) \/ StoreConflicts(t) \/ Refuse(t) \/ Abandon(t)
                                \/ \E v \in ID : ReserveLost(t, v)
                                \/ \E p \in Partition : RemoveMetalnet(p, t)
              \/ UNCHANGED vars
       PROVE  UNCHANGED <<gcq, robbed, Memory>>
  BY <1>12 DEF MRestart, Store, StoreConflicts, Refuse, Abandon, ReserveLost, RemoveMetalnet,
               gc, ghosts, Memory, vars
<1>13. QED
  BY <1>1, <1>2, <1>3, <1>4, <1>5, <1>6, <1>7, <1>8, <1>9, <1>10, <1>11, <1>12
     DEF Next, Informers, APINetlet, APIServer, Metalnet, Collector, Faults,
         APINetInformer, Metalnetlet

(* A deleted object that nothing holds back is removed. *)
LEMMA PutOnmetalType ==
  ASSUME OnmetalType, NEW u \in Net, NEW x \in OnmetalNetwork, PutOnmetal(u, x)
  PROVE  om' \in [Net -> OnmetalNetwork]
<1>1. [x EXCEPT !.st = "gone"] \in OnmetalNetwork
  BY DEF OnmetalNetwork
<1>2. QED BY <1>1 DEF PutOnmetal, OnmetalType

(* The outcome of an apply. *)
LEMMA AppliedType ==
  ASSUME OnmetalType, NEW u \in Net, NEW view, NEW t \in 0..MaxCreates,
         NEW rest \in SUBSET Net, Applied(u, view, t, rest), omSeen' = omSeen
  PROVE  OnmetalType'
<1>1. om[u] \in OnmetalNetwork
  BY DEF OnmetalType
<1>2. [om[u] EXCEPT !.provider = t] \in OnmetalNetwork
  BY <1>1 DEF OnmetalNetwork
<1>3. [om[u] EXCEPT !.status = "Available"] \in OnmetalNetwork
  BY <1>1 DEF OnmetalNetwork
<1>4. om' \in [Net -> OnmetalNetwork]
  BY <1>2, <1>3 DEF Applied, OnmetalType
<1>5. QED BY <1>4 DEF Applied, OnmetalType

LEMMA OnmetalTypeStep ==
  ASSUME Types, [Next]_vars
  PROVE  OnmetalType'
<1>0. ServerType /\ OnmetalType /\ MetalnetType /\ CollectorType
  BY DEF Types
<1>a. \A u \in Net : om[u] \in OnmetalNetwork /\ omSeen[u] \in OnmetalNetwork
  BY <1>0 DEF OnmetalType
<1>b. \A u \in Net : an[u] # Nil => an[u].uid \in 0..MaxCreates
  BY <1>0, UIDNat DEF ServerType, APINetNetwork
<1>1. ASSUME NEW u \in Net, DeleteNetwork(u) PROVE OnmetalType'
  <2>1. [om[u] EXCEPT !.st = "deleting"] \in OnmetalNetwork
    BY <1>a DEF OnmetalNetwork
  <2>2. QED BY <1>0, <1>1, <2>1, PutOnmetalType DEF DeleteNetwork, OnmetalType, apinetlet
<1>2. ASSUME NEW u \in Net, DeliverOnmetal(u) PROVE OnmetalType'
  BY <1>0, <1>2 DEF DeliverOnmetal, OnmetalType
<1>3. ASSUME NEW u \in Net, ADeleteGone(u) PROVE OnmetalType'
  BY <1>0, <1>3 DEF ADeleteGone, OnmetalType, onmetal
<1>4. ASSUME NEW u \in Net, ADelete(u) PROVE OnmetalType'
  <2>1. arec' = arec \/ arec' = [pc |-> "unfinalize", net |-> u]
    BY <1>4 DEF ADelete, apinetlet
  <2>2. aq' \subseteq Net
    BY <1>0, <1>4 DEF ADelete, apinetlet, OnmetalType
  <2>3. QED BY <1>0, <1>4, <2>1, <2>2 DEF ADelete, OnmetalType, onmetal
<1>5. CASE AUnfinalize
  <2>1. arec.net \in Net
    BY <1>0, <1>5, ArecFields DEF AUnfinalize
  <2>2. [om[arec.net] EXCEPT !.fin = FALSE] \in OnmetalNetwork
    BY <1>a, <2>1 DEF OnmetalNetwork
  <2>3. om' \in [Net -> OnmetalNetwork]
    BY <1>0, <1>5, <2>1, <2>2, PutOnmetalType DEF AUnfinalize, OnmetalType
  <2>4. QED BY <1>0, <1>5, <2>1, <2>3 DEF AUnfinalize, Requeue, OnmetalType
<1>6. ASSUME NEW u \in Net, AEnsureFinalizer(u) PROVE OnmetalType'
  <2>1. [om[u] EXCEPT !.fin = TRUE] \in OnmetalNetwork
    BY <1>a DEF OnmetalNetwork
  <2>2. QED BY <1>0, <1>6, <2>1, PutOnmetalType DEF AEnsureFinalizer, OnmetalType, apinetlet
<1>7. ASSUME NEW u \in Net, AApply(u) PROVE OnmetalType'
  <2>1. CASE an[u] # Nil
    <3>1. an[u].uid \in 0..MaxCreates /\ aq \ {u} \in SUBSET Net
      BY <1>0, <1>b, <2>1 DEF OnmetalType
    <3>2. Applied(u, omSeen[u], an[u].uid, aq \ {u}) /\ omSeen' = omSeen
      BY <1>7, <2>1 DEF AApply
    <3>3. QED BY <1>0, <3>1, <3>2, AppliedType
  <2>2. CASE an[u] = Nil
    <3>a. omSeen[u] \in OnmetalNetwork
      BY <1>a
    <3>b. 0 \in 0..MaxCreates
      BY NetworkBounds
    <3>1. /\ omSeen[u].provider \in 0..MaxCreates
          /\ omSeen[u].status \in {"", "Pending", "Available"}
      BY <3>a DEF OnmetalNetwork
    <3>2. [pc |-> "apply", net |-> u, uid |-> 0, provider |-> omSeen[u].provider,
           status |-> omSeen[u].status] \in Applying
      BY <3>b, <3>1 DEF Applying
    <3>3. QED BY <1>0, <1>7, <2>2, <3>2 DEF AApply, OnmetalType
  <2>3. QED BY <2>1, <2>2
<1>8. CASE ApplyExisting
  <2>1. [arec EXCEPT !.pc = "applied", !.uid = an[arec.net].uid] \in Applying
    BY <1>0, <1>8, <1>b, ArecFields DEF ApplyExisting, Applying
  <2>2. QED BY <1>0, <1>8, <2>1 DEF ApplyExisting, OnmetalType, onmetal
<1>9. CASE ApplyCreate
  <2>1. creates + 1 \in 0..MaxCreates
    BY <1>0, <1>9, NetworkBounds DEF ApplyCreate, ServerType
  <2>2. [arec EXCEPT !.pc = "create", !.uid = creates + 1] \in Applying
    BY <1>0, <1>9, <2>1, ArecFields DEF ApplyCreate, Applying
  <2>3. QED BY <1>0, <1>9, <2>2 DEF ApplyCreate, OnmetalType, onmetal
<1>10. CASE ApplyFails \/ ApplyGivenUp
  <2>1. arec.net \in Net /\ ApplyError
    BY <1>0, <1>10, ArecFields DEF ApplyFails, ApplyGivenUp
  <2>2. [om[arec.net] EXCEPT !.status = "Pending"] \in OnmetalNetwork
    BY <1>a, <2>1 DEF OnmetalNetwork
  <2>3. QED BY <1>0, <2>1, <2>2 DEF ApplyError, Requeue, OnmetalType
<1>11. CASE AApplied
  <2>1. arec.net \in Net /\ arec.uid \in 0..MaxCreates /\ aq \in SUBSET Net
    BY <1>0, <1>11, ArecFields DEF AApplied, OnmetalType
  <2>2. Applied(arec.net, arec, arec.uid, aq) /\ omSeen' = omSeen
    BY <1>11 DEF AApplied
  <2>3. QED BY <1>0, <2>1, <2>2, AppliedType
<1>12. CASE AFail
  BY <1>0, <1>12, ArecFields DEF AFail, Requeue, OnmetalType, onmetal
<1>13. CASE ARestart
  BY <1>0, <1>13 DEF ARestart, OnmetalType
<1>14. ASSUME NEW t \in UID, Store(t) \/ StoreConflicts(t) PROVE OnmetalType'
  <2>1. arec' \in {Idle} \union [pc : {"unfinalize"}, net : Net] \union Applying
    <3>1. CASE Waits(t)
      <4>1. \A c \in {"apply", "applied"} : [arec EXCEPT !.pc = c] \in Applying
        BY <1>0, <3>1, ArecFields DEF Waits, Applying
      <4>2. QED BY <1>14, <3>1, <4>1 DEF Store, StoreConflicts
    <3>2. CASE ~Waits(t)
      BY <1>0, <1>14, <3>2 DEF Store, StoreConflicts, OnmetalType
    <3>3. QED BY <3>1, <3>2
  <2>2. aq' \subseteq Net
    BY <1>0, <1>14, RequestFields DEF Store, StoreConflicts, OnmetalType
  <2>3. QED BY <1>0, <1>14, <2>1, <2>2 DEF Store, StoreConflicts, OnmetalType, onmetal
<1>15. ASSUME NEW p \in Partition, NEW u \in Net, MUnfinalize(p, u) \/ MEnsureFinalizer(p, u)
      PROVE  OnmetalType'
  BY <1>0, <1>15 DEF MUnfinalize, MEnsureFinalizer, OnmetalType, onmetal
<1>16. CASE UNCHANGED <<onmetal, apinetlet>>
  BY <1>0, <1>16 DEF OnmetalType, onmetal, apinetlet
<1>17. ASSUME \E t \in UID : \/ Undo(t) \/ Refuse(t) \/ AfterDelete(t) \/ Abandon(t)
                             \/ \E v \in ID : ReserveLost(t, v)
                             \/ \E p \in Partition : RemoveMetalnet(p, t)
       PROVE  UNCHANGED <<onmetal, apinetlet>>
  BY <1>17 DEF Undo, Refuse, AfterDelete, Abandon, ReserveLost, RemoveMetalnet
<1>18. ASSUME NEW p \in Partition,
              \/ MRestart(p)
              \/ \E u \in Net : \/ DeliverAPINet(p, u) \/ MDeleteGone(p, u)
                                \/ MDelete(p, u) \/ MApply(p, u)
       PROVE  UNCHANGED <<onmetal, apinetlet>>
  BY <1>18 DEF MRestart, DeliverAPINet, MDeleteGone, MDelete, MApply
<1>19. ASSUME \/ \E v \in ID : DeliverNetworkID(v) \/ GCheck(v)
              \/ GDelete \/ GFail \/ GRestart \/ UNCHANGED vars
       PROVE  UNCHANGED <<onmetal, apinetlet>>
  BY <1>19 DEF DeliverNetworkID, GCheck, GDelete, GFail, GRestart, vars
<1>20. QED
  BY <1>1, <1>2, <1>3, <1>4, <1>5, <1>6, <1>7, <1>8, <1>9, <1>10, <1>11, <1>12, <1>13,
     <1>14, <1>15, <1>16, <1>17, <1>18, <1>19
     DEF Next, Informers, APINetlet, APIServer, Metalnet, Collector, Faults,
         APINetInformer, Metalnetlet

LEMMA MetalnetTypeStep ==
  ASSUME Types, [Next]_vars
  PROVE  MetalnetType'
<1>0. ServerType /\ OnmetalType /\ MetalnetType /\ CollectorType
  BY DEF Types
<1>1. ASSUME NEW p \in Partition, NEW u \in Net, DeliverAPINet(p, u) PROVE MetalnetType'
  <2>1. an[u] \in APINetNetwork \union {Nil}
    BY <1>0 DEF ServerType
  <2>2. QED BY <1>0, <1>1, <2>1 DEF DeliverAPINet, MetalnetType, ghosts
<1>2. ASSUME NEW p \in Partition, MRestart(p) PROVE MetalnetType'
  BY <1>0, <1>2 DEF MRestart, MetalnetType, ServerType, ghosts
<1>3. ASSUME NEW p \in Partition, NEW u \in Net, MDeleteGone(p, u) PROVE MetalnetType'
  <2>1. mn[p] \in [UID -> MetalnetNetwork \union {Nil}]
    BY <1>0 DEF MetalnetType
  <2>2. \A t \in UID : mn[p][t] # Nil => [mn[p][t] EXCEPT !.del = TRUE] \in MetalnetNetwork
    BY <2>1 DEF MetalnetNetwork
  <2>3. mn' \in [Partition -> [UID -> MetalnetNetwork \union {Nil}]]
    BY <1>0, <1>3, <2>1, <2>2 DEF MDeleteGone, MetalnetType
  <2>4. mq' \in [Partition -> SUBSET Net]
    BY <1>0, <1>3 DEF MDeleteGone, MetalnetType
  <2>5. QED BY <1>0, <1>3, <2>3, <2>4 DEF MDeleteGone, MetalnetType, ghosts
<1>4. ASSUME NEW p \in Partition, NEW u \in Net, MDelete(p, u) PROVE MetalnetType'
  <2>1. anSeen[p][u].uid \in UID
    BY <1>0, <1>4 DEF MDelete, Deleting, MetalnetType, APINetNetwork
  <2>2. PICK t \in UID : t = anSeen[p][u].uid
    BY <2>1
  <2>3. mn' \in [Partition -> [UID -> MetalnetNetwork \union {Nil}]]
    <3>1. CASE p \notin anSeen[p][u].fins
      BY <1>0, <1>4, <3>1 DEF MDelete, MetalnetType
    <3>2. CASE p \in anSeen[p][u].fins
      <4>1. mn[p][t] # Nil /\ mn' = [mn EXCEPT ![p][t].del = TRUE]
        BY <1>4, <2>2, <3>2 DEF MDelete
      <4>2. mn[p] \in [UID -> MetalnetNetwork \union {Nil}] /\ mn[p][t] \in MetalnetNetwork
        BY <1>0, <4>1 DEF MetalnetType
      <4>3. [mn[p][t] EXCEPT !.del = TRUE] \in MetalnetNetwork
        BY <4>2 DEF MetalnetNetwork
      <4>4. QED BY <1>0, <4>1, <4>2, <4>3 DEF MetalnetType
    <3>3. QED BY <3>1, <3>2
  <2>4. mq' \in [Partition -> SUBSET Net]
    BY <1>0, <1>4 DEF MDelete, MetalnetType
  <2>5. QED BY <1>0, <1>4, <2>3, <2>4 DEF MDelete, MetalnetType, ghosts
<1>5. ASSUME NEW p \in Partition, NEW u \in Net, MApply(p, u) PROVE MetalnetType'
  <2>1. anSeen[p][u].uid \in UID /\ anSeen[p][u].id \in ID
    BY <1>0, <1>5 DEF MApply, MetalnetType, APINetNetwork
  <2>2. [net |-> u, id |-> anSeen[p][u].id, del |-> FALSE] \in MetalnetNetwork
    BY <2>1 DEF MetalnetNetwork
  <2>3. mn' \in [Partition -> [UID -> MetalnetNetwork \union {Nil}]]
    BY <1>0, <1>5, <2>1, <2>2 DEF MApply, MetalnetType
  <2>4. mq' \in [Partition -> SUBSET Net]
    BY <1>0, <1>5 DEF MApply, MetalnetType
  <2>5. QED BY <1>0, <1>5, <2>3, <2>4 DEF MApply, MetalnetType, ghosts
<1>6. ASSUME NEW p \in Partition, NEW t \in UID, RemoveMetalnet(p, t) PROVE MetalnetType'
  <2>1. mn[p][t].net \in Net
    BY <1>0, <1>6 DEF RemoveMetalnet, MetalnetType, MetalnetNetwork
  <2>2. QED BY <1>0, <1>6, <2>1 DEF RemoveMetalnet, MetalnetType, ghosts
<1>7. ASSUME NEW p \in Partition, NEW u \in Net, MUnfinalize(p, u) \/ MEnsureFinalizer(p, u)
      PROVE  MetalnetType'
  <2>1. PICK fins \in SUBSET Partition : PatchFinalizers(p, u, fins)
    BY <1>0, <1>7, MetalnetletPatches
  <2>2. an[u] \in APINetNetwork /\ an[u].fins \subseteq Partition
    BY <1>0, <2>1 DEF PatchFinalizers, ServerType, APINetNetwork
  <2>3. overwritten' \subseteq Partition \X Net
    BY <1>0, <2>1, <2>2 DEF PatchFinalizers, MetalnetType
  <2>4. QED BY <1>0, <1>7, <2>3 DEF MUnfinalize, MEnsureFinalizer, MetalnetType, metalnetlet
<1>8. CASE UNCHANGED <<anSeen, metalnetlet, overwritten>>
  BY <1>0, <1>8 DEF MetalnetType, metalnetlet
<1>9. ASSUME NEW u \in Net,
             \/ DeleteNetwork(u) \/ DeliverOnmetal(u) \/ AEnsureFinalizer(u) \/ AApply(u)
             \/ ADeleteGone(u) \/ ADelete(u)
      PROVE  UNCHANGED <<anSeen, metalnetlet, overwritten>>
  BY <1>9 DEF DeleteNetwork, DeliverOnmetal, AEnsureFinalizer, AApply, ADeleteGone, ADelete,
              ghosts
<1>10. ASSUME \/ AUnfinalize \/ ApplyExisting \/ ApplyCreate \/ ApplyFails \/ ApplyGivenUp
              \/ AApplied \/ AFail \/ ARestart
       PROVE  UNCHANGED <<anSeen, metalnetlet, overwritten>>
  BY <1>10 DEF AUnfinalize, ApplyExisting, ApplyCreate, ApplyFails, ApplyGivenUp, ApplyError,
               AApplied, AFail, ARestart, ghosts
<1>11. ASSUME \E t \in UID : \/ Store(t) \/ StoreConflicts(t) \/ Refuse(t) \/ AfterDelete(t) \/ Undo(t)
                             \/ Abandon(t) \/ \E v \in ID : ReserveLost(t, v)
       PROVE  UNCHANGED <<anSeen, metalnetlet, overwritten>>
  BY <1>11 DEF Store, StoreConflicts, Refuse, AfterDelete, Undo, Abandon, ReserveLost, ghosts
<1>12. ASSUME \/ \E v \in ID : DeliverNetworkID(v) \/ GCheck(v)
              \/ GDelete \/ GFail \/ GRestart \/ UNCHANGED vars
       PROVE  UNCHANGED <<anSeen, metalnetlet, overwritten>>
  BY <1>12 DEF DeliverNetworkID, GCheck, GDelete, GFail, GRestart, vars, ghosts
<1>13. QED
  BY <1>1, <1>2, <1>3, <1>4, <1>5, <1>6, <1>7, <1>8, <1>9, <1>10, <1>11, <1>12
     DEF Next, Informers, APINetlet, APIServer, Metalnet, Collector, Faults,
         APINetInformer, Metalnetlet

LEMMA FaultsStep ==
  ASSUME Types, [Next]_vars
  PROVE  faults' \in 0..MaxFaults
<1>1. CASE UNCHANGED faults
  BY <1>1 DEF Types
<1>2. CASE Fault
  BY <1>2, NetworkBounds DEF Types, Fault
<1>3. ASSUME NEW u \in Net,
             \/ DeleteNetwork(u) \/ DeliverOnmetal(u) \/ AEnsureFinalizer(u) \/ AApply(u)
             \/ ADeleteGone(u) \/ ADelete(u)
             \/ \E p \in Partition :
                   \/ DeliverAPINet(p, u) \/ MDeleteGone(p, u) \/ MDelete(p, u)
                   \/ MUnfinalize(p, u) \/ MEnsureFinalizer(p, u) \/ MApply(p, u)
      PROVE  UNCHANGED faults
  BY <1>3 DEF DeleteNetwork, DeliverOnmetal, AEnsureFinalizer, AApply, ADeleteGone, ADelete,
              DeliverAPINet, MDeleteGone, MDelete, MUnfinalize, MEnsureFinalizer, MApply
<1>4. ASSUME \/ AUnfinalize \/ ApplyExisting \/ ApplyCreate \/ ApplyFails \/ AApplied
             \/ GDelete \/ \E v \in ID : DeliverNetworkID(v) \/ GCheck(v)
             \/ UNCHANGED vars
      PROVE  UNCHANGED faults
  BY <1>4 DEF AUnfinalize, ApplyExisting, ApplyCreate, ApplyFails, AApplied, GDelete,
              DeliverNetworkID, GCheck, vars
<1>5. ASSUME NEW t \in UID,
             \/ Store(t) \/ StoreConflicts(t) \/ Refuse(t) \/ AfterDelete(t) \/ Undo(t)
             \/ \E p \in Partition : RemoveMetalnet(p, t)
      PROVE  UNCHANGED faults \/ Fault
  BY <1>5 DEF Store, StoreConflicts, Refuse, AfterDelete, Undo, RemoveMetalnet
<1>6. ASSUME Faults PROVE Fault
  BY <1>6 DEF Faults, Refuse, ApplyGivenUp, AFail, ARestart, GFail, GRestart, MRestart, Abandon,
              ReserveLost
<1>7. QED
  BY <1>1, <1>2, <1>3, <1>4, <1>5, <1>6
     DEF Next, Informers, APINetlet, APIServer, Metalnet, Collector, APINetInformer, Metalnetlet

LEMMA TypesStep ==
  ASSUME Types, [Next]_vars
  PROVE  Types'
  BY ServerTypeStep, OnmetalTypeStep, MetalnetTypeStep, CollectorTypeStep, FaultsStep DEF Types

LEMMA TypesInit == Init => Types
<1>1. SUFFICES ASSUME Init PROVE Types
  OBVIOUS
<1>2. 0 \in 0..MaxCreates /\ 0 \in 0..MaxFaults
  BY NetworkBounds
<1>3. [st |-> "live", fin |-> FALSE, provider |-> 0, status |-> ""] \in OnmetalNetwork
  BY <1>2 DEF OnmetalNetwork
<1>4. ServerType
  BY <1>1, <1>2 DEF Init, ServerType
<1>5. OnmetalType
  BY <1>1, <1>3 DEF Init, OnmetalType
<1>6. MetalnetType
  BY <1>1 DEF Init, MetalnetType
<1>7. CollectorType
  BY <1>1, <1>2 DEF Init, CollectorType
<1>8. QED BY <1>1, <1>2, <1>4, <1>5, <1>6, <1>7 DEF Init, Types

(* The types of the invariant are those the runs check. *)
LEMMA TypesImply == Types => NetworkTypeOK
<1>1. SUFFICES ASSUME Types PROVE NetworkTypeOK
  OBVIOUS
<1>2. ServerType /\ OnmetalType /\ MetalnetType /\ CollectorType /\ faults \in 0..MaxFaults
  BY <1>1 DEF Types
<1>3. /\ arec.pc \in {"idle", "unfinalize", "apply", "create", "applied"}
      /\ grec.pc \in {"idle", "delete"}
  BY <1>2, ArecFields, GrecFields
<1>4. QED
  BY <1>2, <1>3 DEF NetworkTypeOK, ServerType, OnmetalType, MetalnetType, CollectorType

-----------------------------------------------------------------------------
(***************************************************************************)
(* Reservations                                                            *)
(***************************************************************************)

(* What the proofs need of the types, element by element. *)
LEMMA ServerElements ==
  ASSUME ServerType
  PROVE  /\ creates \in Nat /\ creates <= MaxCreates
         /\ \A v \in ID : ids[v] \in Nat
         /\ \A u \in Net : an[u] # Nil =>
               /\ an[u] \in APINetNetwork /\ an[u].uid \in UID /\ an[u].id \in ID
               /\ an[u].uid \in Nat /\ 0 < an[u].uid
         /\ \A t \in UID : req[t] # Nil => req[t] \in Request /\ req[t].id \in ID
<1>1. creates \in Nat /\ creates <= MaxCreates /\ \A v \in ID : ids[v] \in Nat
  BY NetworkBounds DEF ServerType
<1>2. \A u \in Net : an[u] # Nil => an[u] \in APINetNetwork
  BY DEF ServerType
<1>3. \A u \in Net : an[u] # Nil => an[u].uid \in UID /\ an[u].id \in ID
  BY <1>2 DEF APINetNetwork
<1>4. QED BY <1>1, <1>2, <1>3, UIDNat, RequestFields

(* The effect of a write, as the invariants see it. *)
LEMMA WritesEffect ==
  ASSUME ServerType, NEW u \in Net, Writes(u)
  PROVE  /\ an[u] # Nil
         /\ \A w \in Net : an'[w] # Nil =>
               an[w] # Nil /\ an'[w].uid = an[w].uid /\ an'[w].id = an[w].id
         /\ \A w \in Net \ {u} : an'[w] = an[w]
         /\ \/ req' = req
            \/ /\ an'[u] = Nil
               /\ \A t \in UID \ {an[u].uid} : req'[t] = req[t]
               /\ req'[an[u].uid] # Nil /\ req'[an[u].uid].pc = "release"
<1>1. PICK x : Rewritten(u, x)
  BY DEF Writes
<1>2. an[u] # Nil /\ x \in APINetNetwork /\ x.uid = an[u].uid /\ x.id = an[u].id
  BY <1>1 DEF Rewritten
<1>3. /\ \A w \in Net \ {u} : an'[w] = an[w]
      /\ \/ an'[u] = x /\ req' = req
         \/ /\ an'[u] = Nil
            /\ req' = [req EXCEPT ![x.uid] = [net |-> u, id |-> x.id, pc |-> "release"]]
  BY <1>1, RewrittenEffect
<1>4. x.uid \in UID /\ x.id \in ID
  BY <1>2 DEF APINetNetwork
<1>5. [net |-> u, id |-> x.id, pc |-> "release"] \in Request
  BY <1>4 DEF Request
<1>6. [net |-> u, id |-> x.id, pc |-> "release"] # Nil
  BY <1>5, NilObjectAssumption
<1>7. \A w \in Net : an'[w] # Nil =>
         an[w] # Nil /\ an'[w].uid = an[w].uid /\ an'[w].id = an[w].id
  BY <1>2, <1>3
<1>8. \/ req' = req
      \/ /\ an'[u] = Nil
         /\ \A t \in UID \ {an[u].uid} : req'[t] = req[t]
         /\ req'[an[u].uid] # Nil /\ req'[an[u].uid].pc = "release"
  BY <1>2, <1>3, <1>4, <1>6 DEF ServerType
<1>9. QED BY <1>2, <1>3, <1>7, <1>8

(* The effect of a reservation. *)
LEMMA ReservesEffect ==
  ASSUME ServerType, Reserves
  PROVE  /\ creates' = creates + 1 /\ creates + 1 \in UID
         /\ \A t \in UID \ {creates + 1} : req'[t] = req[t]
         /\ \E v \in ID :
               /\ ids[v] = 0 /\ ids' = [ids EXCEPT ![v] = creates + 1]
               /\ req'[creates + 1] = [net |-> arec.net, id |-> v, pc |-> "store"]
         /\ req'[creates + 1] # Nil
<1>1. creates + 1 \in UID
  BY NetworkBounds DEF Reserves, ServerType, UID
<1>2. PICK v \in ID : Reserve(arec.net, creates + 1, v)
  BY DEF Reserves
<1>3. [net |-> arec.net, id |-> v, pc |-> "store"] \in Request
  BY DEF Request, Reserves
<1>4. [net |-> arec.net, id |-> v, pc |-> "store"] # Nil
  BY <1>3, NilObjectAssumption
<1>5. QED BY <1>1, <1>2, <1>4 DEF Reserve, ServerType

(* The effect of a network's being stored. *)
LEMMA StoresEffect ==
  ASSUME ServerType, NEW t \in UID, Stores(t)
  PROVE  \E n \in Net :
         /\ n = req[t].net /\ an[n] = Nil
         /\ an'[n].uid = t /\ an'[n].id = req[t].id /\ ~an'[n].del /\ an'[n] # Nil
         /\ \A w \in Net \ {n} : an'[w] = an[w]
         /\ req'[t] = Nil /\ \A s \in UID \ {t} : req'[s] = req[s]
<1>1. req[t].net \in Net /\ req[t].id \in ID
  BY RequestFields DEF Stores
<1>2. [uid |-> t, id |-> req[t].id, del |-> FALSE, fins |-> {}] \in APINetNetwork
  BY <1>1 DEF APINetNetwork
<1>3. [uid |-> t, id |-> req[t].id, del |-> FALSE, fins |-> {}] # Nil
  BY <1>2, NilObjectAssumption
<1>4. QED BY <1>1, <1>3 DEF Stores, ServerType

(* The effect of a request's coming to its end. *)
LEMMA EndsEffect ==
  ASSUME ServerType, NEW t \in UID, Ends(t)
  PROVE  /\ \A s \in UID \ {t} : req'[s] = req[s]
         /\ req'[t] # Nil => req'[t].pc = "undo" /\ req'[t].net = req[t].net
  BY RequestFields DEF Ends, ServerType, Request

LEMMA UIDStep ==
  ASSUME Types, UIDInv, [Next]_vars
  PROVE  UIDInv'
<1>0. ServerType /\ CollectorType /\ ServerType' /\ CollectorType'
  BY ServerTypeStep, CollectorTypeStep DEF Types
<1>a. /\ creates \in Nat /\ \A v \in ID : ids[v] \in Nat /\ idSeen[v] \in Nat
      /\ \A u \in Net : an[u] # Nil => an[u].uid \in UID /\ an[u].uid \in Nat
  BY <1>0, ServerElements, NetworkBounds DEF CollectorType
<1>1. ASSUME NEW u \in Net, Writes(u) PROVE UIDInv'
  <2>1. UNCHANGED <<ids, creates, idSeen>>
    BY <1>1 DEF Writes, Memory
  <2>2. QED BY <1>0, <1>a, <1>1, <2>1, WritesEffect DEF UIDInv
<1>2. CASE Reserves
  <2>1. an' = an /\ idSeen' = idSeen
    BY <1>2 DEF Reserves, Memory
  <2>2. creates' = creates + 1 /\ \A t \in UID \ {creates + 1} : req'[t] = req[t]
    BY <1>0, <1>2, ReservesEffect
  <2>3. \A v \in ID : ids'[v] = ids[v] \/ ids'[v] = creates + 1
    BY <1>0, <1>2, ReservesEffect DEF ServerType
  <2>4. /\ \A v \in ID : ids'[v] <= creates' /\ idSeen'[v] <= creates'
        /\ \A t \in UID : req'[t] # Nil => t <= creates'
    BY <1>a, <2>1, <2>2, <2>3, UIDNat DEF UIDInv
  <2>5. \A u \in Net : an'[u] # Nil => an'[u].uid <= creates' /\ req'[an'[u].uid] = Nil
    BY <1>a, <2>1, <2>2 DEF UIDInv
  <2>6. QED BY <2>1, <2>4, <2>5 DEF UIDInv
<1>3. ASSUME NEW t \in UID, Stores(t) PROVE UIDInv'
  <2>1. UNCHANGED <<ids, creates, idSeen>> /\ req[t] # Nil
    BY <1>3 DEF Stores, Memory
  <2>2. \A w \in Net : an[w] # Nil => an[w].uid # t
    BY <2>1 DEF UIDInv
  <2>3. PICK n \in Net :
           /\ an[n] = Nil /\ an'[n].uid = t
           /\ \A w \in Net \ {n} : an'[w] = an[w]
           /\ req'[t] = Nil /\ \A s \in UID \ {t} : req'[s] = req[s]
    BY <1>0, <1>3, StoresEffect
  <2>4. \A u \in Net : an'[u] # Nil => an'[u].uid <= creates /\ req'[an'[u].uid] = Nil
    BY <1>a, <2>1, <2>2, <2>3 DEF UIDInv
  <2>5. \A u, w \in Net : an'[u] # Nil /\ an'[w] # Nil /\ an'[u].uid = an'[w].uid => u = w
    BY <2>2, <2>3 DEF UIDInv
  <2>6. \A s \in UID : req'[s] # Nil => s <= creates
    BY <2>3 DEF UIDInv
  <2>7. QED BY <2>1, <2>4, <2>5, <2>6 DEF UIDInv
<1>4. ASSUME NEW t \in UID, Ends(t) PROVE UIDInv'
  <2>1. UNCHANGED <<an, creates, idSeen>> /\ req[t] # Nil
    BY <1>4 DEF Ends, Memory
  <2>2. \A v \in ID : ids'[v] = ids[v] \/ ids'[v] = 0
    BY <1>0, <1>4, RequestFields DEF Ends, Release, ServerType
  <2>3. QED BY <1>0, <1>a, <1>4, <2>1, <2>2, EndsEffect DEF UIDInv
<1>5. ASSUME NEW t \in UID, NEW v \in ID, Loses(t, v) PROVE UIDInv'
  BY <1>0, <1>a, <1>5 DEF Loses, ServerType, UIDInv, Memory
<1>6. CASE GDelete
  <2>1. \A v \in ID : ids'[v] = ids[v] \/ ids'[v] = 0
    BY <1>0, <1>6, GrecFields DEF GDelete, Release, ServerType
  <2>2. QED BY <1>a, <1>6, <2>1 DEF GDelete, UIDInv
<1>7. ASSUME NEW v \in ID, GCheck(v) PROVE UIDInv'
  BY <1>7 DEF GCheck, UIDInv, server
<1>8. CASE Rests
  BY <1>8 DEF Rests, UIDInv
<1>9. QED BY StepKinds, <1>1, <1>2, <1>3, <1>4, <1>5, <1>6, <1>7, <1>8

LEMMA AbsentStep ==
  ASSUME Types, UIDInv, AbsentInv, HeldInv, [Next]_vars
  PROVE  AbsentInv'
<1>0. ServerType /\ CollectorType /\ ServerType' /\ CollectorType'
  BY ServerTypeStep, CollectorTypeStep DEF Types
<1>a. creates \in Nat /\ \A t \in absent : t \in UID /\ t \in Nat /\ t <= creates
  BY <1>0, ServerElements, UIDNat DEF CollectorType, HeldInv
<1>1. ASSUME NEW u \in Net, Writes(u) PROVE AbsentInv'
  <2>1. UNCHANGED <<robbed, absent>>
    BY <1>1 DEF Writes, Memory
  <2>2. QED BY <1>0, <1>a, <1>1, <2>1, WritesEffect DEF AbsentInv
<1>2. CASE Reserves
  <2>1. UNCHANGED <<an, robbed, absent>>
    BY <1>2 DEF Reserves, Memory
  <2>2. \A t \in absent : req'[t] = req[t]
    BY <1>0, <1>a, <1>2, ReservesEffect
  <2>3. QED BY <2>1, <2>2 DEF AbsentInv
<1>3. ASSUME NEW t \in UID, Stores(t) PROVE AbsentInv'
  <2>1. UNCHANGED <<robbed, absent>> /\ req[t] # Nil /\ req[t].pc = "store"
    BY <1>3 DEF Stores, Memory
  <2>2. PICK n \in Net :
           /\ an'[n].uid = t /\ \A w \in Net \ {n} : an'[w] = an[w]
           /\ req'[t] = Nil /\ \A s \in UID \ {t} : req'[s] = req[s]
    BY <1>0, <1>3, StoresEffect
  <2>3. QED BY <1>a, <2>1, <2>2 DEF AbsentInv
<1>4. ASSUME NEW t \in UID, Ends(t) PROVE AbsentInv'
  <2>1. UNCHANGED <<an, absent>> /\ robbed \subseteq robbed'
    BY <1>4 DEF Ends, Memory, Release
  <2>2. QED BY <1>0, <1>a, <1>4, <2>1, EndsEffect DEF AbsentInv
<1>5. ASSUME NEW t \in UID, NEW v \in ID, Loses(t, v) PROVE AbsentInv'
  BY <1>5 DEF Loses, AbsentInv, Memory
<1>6. CASE GDelete
  BY <1>6 DEF GDelete, Release, AbsentInv
<1>7. ASSUME NEW v \in ID, GCheck(v) PROVE AbsentInv'
  <2>1. UNCHANGED <<an, req>> /\ robbed \subseteq robbed'
    BY <1>7 DEF GCheck, server
  <2>2. CASE UNCHANGED absent
    BY <2>1, <2>2 DEF AbsentInv
  <2>3. CASE ~UNCHANGED absent
    <3>1. ~networkIDClaimerExists(idSeen[v])
      BY <1>7, <2>3 DEF GCheck
    <3>2. /\ absent' = absent \union {idSeen[v]}
          /\ req[idSeen[v]] # Nil /\ req[idSeen[v]].pc = "store" => idSeen[v] \in robbed'
      BY <1>7, <2>3 DEF GCheck
    <3>3. QED BY <2>1, <3>1, <3>2 DEF AbsentInv, networkIDClaimerExists
  <2>4. QED BY <2>2, <2>3
<1>8. CASE Rests
  BY <1>8 DEF Rests, AbsentInv
<1>9. QED BY StepKinds, <1>1, <1>2, <1>3, <1>4, <1>5, <1>6, <1>7, <1>8

LEMMA HeldStep ==
  ASSUME Types, UIDInv, AbsentInv, HeldInv, [Next]_vars
  PROVE  HeldInv'
<1>0. ServerType /\ CollectorType /\ ServerType' /\ CollectorType'
  BY ServerTypeStep, CollectorTypeStep DEF Types
<1>a. /\ creates \in Nat /\ \A t \in absent : t \in Nat
      /\ \A u \in Net : an[u] # Nil => /\ an[u].uid \in UID /\ an[u].id \in ID
                                       /\ an[u].uid \in Nat /\ 0 < an[u].uid
      /\ \A t \in UID : /\ t \in Nat /\ 0 < t
                        /\ req[t] # Nil => req[t].id \in ID
  BY <1>0, ServerElements, UIDNat DEF CollectorType
<1>1. ASSUME NEW u \in Net, Writes(u) PROVE HeldInv'
  <2>1. UNCHANGED <<ids, creates, robbed, grec, absent>>
    BY <1>1 DEF Writes, Memory
  <2>2. QED BY <1>0, <1>a, <1>1, <2>1, WritesEffect DEF HeldInv
<1>2. CASE Reserves
  <2>1. UNCHANGED <<an, robbed, grec, absent>>
    BY <1>2 DEF Reserves, Memory
  <2>2. PICK v \in ID :
           /\ ids[v] = 0 /\ ids' = [ids EXCEPT ![v] = creates + 1]
           /\ req'[creates + 1] = [net |-> arec.net, id |-> v, pc |-> "store"]
    BY <1>0, <1>2, ReservesEffect
  <2>3. /\ creates' = creates + 1
        /\ \A t \in UID \ {creates + 1} : req'[t] = req[t]
    BY <1>0, <1>2, ReservesEffect
  <2>4. ids'[v] = creates + 1 /\ \A w \in ID \ {v} : ids'[w] = ids[w]
    BY <1>0, <2>2 DEF ServerType
  <2>5. \A u \in Net : an'[u] # Nil => ids'[an'[u].id] = an'[u].uid \/ an'[u].uid \in robbed'
    BY <1>a, <2>1, <2>2, <2>4 DEF HeldInv
  <2>6. \A t \in UID : req'[t] # Nil /\ req'[t].pc = "store" =>
                          ids'[req'[t].id] = t \/ t \in robbed'
    BY <1>a, <2>1, <2>2, <2>3, <2>4 DEF HeldInv
  <2>7. \A t \in absent' : t <= creates'
    BY <1>a, <2>1, <2>3 DEF HeldInv
  <2>8. QED BY <2>1, <2>5, <2>6, <2>7 DEF HeldInv
<1>3. ASSUME NEW t \in UID, Stores(t) PROVE HeldInv'
  <2>1. /\ UNCHANGED <<ids, creates, robbed, grec, absent>>
        /\ req[t] # Nil /\ req[t].pc = "store"
    BY <1>3 DEF Stores, Memory
  <2>2. PICK n \in Net :
           /\ an'[n].uid = t /\ an'[n].id = req[t].id
           /\ \A w \in Net \ {n} : an'[w] = an[w]
           /\ req'[t] = Nil /\ \A s \in UID \ {t} : req'[s] = req[s]
    BY <1>0, <1>3, StoresEffect
  <2>3. QED BY <2>1, <2>2 DEF HeldInv
<1>4. ASSUME NEW t \in UID, Ends(t) PROVE HeldInv'
  <2>1. UNCHANGED <<an, creates, grec, absent>> /\ req[t] # Nil /\ req[t].id \in ID
    BY <1>0, <1>4, RequestFields DEF Ends, Memory
  <2>2. \A u \in Net : an[u] # Nil => an[u].uid # t
    BY <2>1 DEF UIDInv
  <2>3. \A s \in UID : req'[s] # Nil /\ req'[s].pc = "store" => s # t /\ req'[s] = req[s]
    BY <1>0, <1>4, EndsEffect
  <2>4. \A v \in ID, s \in UID \ {t} :
           (ids[v] = s => ids'[v] = s \/ s \in robbed') /\ (s \in robbed => s \in robbed')
    BY <1>0, <1>a, <1>4, <2>1 DEF Ends, Release, ServerType
  <2>5. \A u \in Net : an'[u] # Nil => ids'[an'[u].id] = an'[u].uid \/ an'[u].uid \in robbed'
    BY <1>a, <2>1, <2>2, <2>4 DEF HeldInv
  <2>6. \A s \in UID : req'[s] # Nil /\ req'[s].pc = "store" =>
                          ids'[req'[s].id] = s \/ s \in robbed'
    BY <1>a, <2>3, <2>4 DEF HeldInv
  <2>7. QED BY <2>1, <2>5, <2>6 DEF HeldInv
<1>5. ASSUME NEW t \in UID, NEW v \in ID, Loses(t, v) PROVE HeldInv'
  <2>1. UNCHANGED <<an, req, creates, robbed, grec, absent>> /\ ids[v] = 0
    BY <1>5 DEF Loses, Memory
  <2>2. \A w \in ID \ {v} : ids'[w] = ids[w]
    BY <1>0, <1>5 DEF Loses, ServerType
  <2>3. QED BY <1>a, <2>1, <2>2 DEF HeldInv
<1>6. CASE GDelete
  <2>1. UNCHANGED <<an, req, creates, absent>> /\ grec' = Idle
    BY <1>6 DEF GDelete
  <2>2. grec.id \in ID /\ grec.uid \in absent
    BY <1>0, <1>6, GrecFields DEF GDelete, HeldInv
  <2>3. \A v \in ID, s \in UID \ {grec.uid} : ids[v] = s => ids'[v] = s \/ s \in robbed'
    BY <1>0, <1>a, <1>6, <2>2 DEF GDelete, Release, ServerType
  <2>4. robbed \subseteq robbed'
    BY <1>6 DEF GDelete, Release
  <2>5. \A u \in Net : an'[u] # Nil => ids'[an'[u].id] = an'[u].uid \/ an'[u].uid \in robbed'
    BY <1>a, <2>1, <2>2, <2>3, <2>4 DEF HeldInv, AbsentInv
  <2>6. \A s \in UID : req'[s] # Nil /\ req'[s].pc = "store" =>
                          ids'[req'[s].id] = s \/ s \in robbed'
    BY <1>a, <2>1, <2>2, <2>3, <2>4 DEF HeldInv, AbsentInv
  <2>7. QED BY <2>1, <2>5, <2>6 DEF HeldInv, Idle
<1>7. ASSUME NEW v \in ID, GCheck(v) PROVE HeldInv'
  <2>1. UNCHANGED <<an, req, ids, creates>> /\ robbed \subseteq robbed' /\ absent \subseteq absent'
    BY <1>7 DEF GCheck, server
  <2>2. \/ UNCHANGED <<grec, absent>>
        \/ /\ absent' = absent \union {idSeen[v]}
           /\ grec' = [pc |-> "delete", id |-> v, uid |-> idSeen[v]]
    BY <1>7 DEF GCheck
  <2>3. grec'.pc = "delete" => grec'.uid \in absent'
    BY <2>2 DEF HeldInv
  <2>4. \A t \in absent' : t <= creates'
    BY <2>1, <2>2 DEF HeldInv, UIDInv
  <2>5. QED BY <2>1, <2>3, <2>4 DEF HeldInv
<1>8. CASE Rests
  BY <1>8 DEF Rests, HeldInv, Idle
<1>9. QED BY StepKinds, <1>1, <1>2, <1>3, <1>4, <1>5, <1>6, <1>7, <1>8

-----------------------------------------------------------------------------
(***************************************************************************)
(* Metalnet networks and what holds them                                   *)
(***************************************************************************)

(* p's finalizer holds the stored network of u, with UID t and ID v. *)
Holds(p, u, t, v) ==
    an[u] # Nil /\ p \in an[u].fins /\ an[u].uid = t /\ an[u].id = v

(* A write keeps what a partition holds if it keeps the finalizer. *)
LEMMA RewrittenHolds ==
  ASSUME ServerType, NEW u \in Net, NEW x, Rewritten(u, x)
  PROVE  \A p \in Partition, w \in Net, t \in UID, v \in ID :
            Holds(p, w, t, v) /\ (w = u => p \in x.fins) => Holds(p, w, t, v)'
<1>1. x # Nil /\ an[u] # Nil /\ x.uid = an[u].uid /\ x.id = an[u].id
  BY NilObjectAssumption DEF Rewritten
<1>2. SUFFICES ASSUME NEW p \in Partition, NEW w \in Net, NEW t \in UID, NEW v \in ID,
                      Holds(p, w, t, v), w = u => p \in x.fins
               PROVE  Holds(p, w, t, v)'
  OBVIOUS
<1>3. CASE w # u
  BY <1>2, <1>3, RewrittenEffect DEF Holds
<1>4. CASE w = u
  <2>1. an'[u] = x
    BY <1>2, <1>4, RewrittenEffect
  <2>2. QED BY <1>1, <1>2, <1>4, <2>1 DEF Holds
<1>5. QED BY <1>3, <1>4

(* Whatever is done to the networks of apinet, a partition keeps what it holds,
   unless another partition overwrites its finalizer or it gives it up, having
   seen the network being deleted and having no metalnet network for it. *)
LEMMA HoldsStep ==
  ASSUME Types, [Next]_vars,
         NEW p \in Partition, NEW u \in Net, NEW t \in UID, NEW v \in ID, Holds(p, u, t, v)
  PROVE  \/ Holds(p, u, t, v)'
         \/ <<p, u>> \in overwritten'
         \/ /\ Deleting(p, u) /\ mn[p][anSeen[p][u].uid] = Nil
            /\ UNCHANGED <<mn, anSeen>>
<1>0. ServerType /\ OnmetalType /\ MetalnetType
  BY DEF Types
<1>1. ASSUME NEW w \in Net, ADeleteGone(w) \/ ADelete(w) PROVE Holds(p, u, t, v)'
  <2>1. CASE UNCHANGED an
    BY <2>1 DEF Holds
  <2>2. CASE an[w] # Nil /\ DeleteAPINet(w)
    <3>1. PICK x : Rewritten(w, x) /\ x.fins = an[w].fins
      BY <1>0, <2>2, DeleteRewrites
    <3>2. QED BY <1>0, <3>1, RewrittenHolds DEF Holds
  <2>3. QED BY <1>1, <2>1, <2>2 DEF ADeleteGone, ADelete
<1>2. ASSUME NEW q \in Partition, NEW w \in Net, NEW fins \in SUBSET Partition,
             PatchFinalizers(q, w, fins), p = q /\ u = w => q \in fins
      PROVE  Holds(p, u, t, v)' \/ <<p, u>> \in overwritten'
  <2>1. PICK x : Rewritten(w, x) /\ x.fins = fins
    BY <1>0, <1>2, PatchRewrites
  <2>2. CASE w = u => p \in fins
    BY <1>0, <2>1, <2>2, RewrittenHolds
  <2>3. CASE w = u /\ p \notin fins
    BY <1>2, <2>3 DEF PatchFinalizers, Holds
  <2>4. QED BY <2>2, <2>3
<1>3. ASSUME NEW q \in Partition, NEW w \in Net, MEnsureFinalizer(q, w)
      PROVE  Holds(p, u, t, v)' \/ <<p, u>> \in overwritten'
  <2>1. anSeen[q][w].fins \subseteq Partition
    BY <1>0, <1>3 DEF MetalnetType, MEnsureFinalizer, APINetNetwork
  <2>2. QED BY <1>2, <1>3, <2>1 DEF MEnsureFinalizer
<1>4. ASSUME NEW q \in Partition, NEW w \in Net, MUnfinalize(q, w)
      PROVE  \/ Holds(p, u, t, v)'
             \/ <<p, u>> \in overwritten'
             \/ /\ Deleting(p, u) /\ mn[p][anSeen[p][u].uid] = Nil
                /\ UNCHANGED <<mn, anSeen>>
  <2>1. anSeen[q][w].fins \subseteq Partition
    BY <1>0, <1>4 DEF MetalnetType, MUnfinalize, Deleting, APINetNetwork
  <2>2. CASE p = q /\ u = w
    BY <1>4, <2>2 DEF MUnfinalize
  <2>3. CASE ~(p = q /\ u = w)
    BY <1>2, <1>4, <2>1, <2>3 DEF MUnfinalize
  <2>4. QED BY <2>2, <2>3
<1>5. ASSUME NEW s \in UID, Store(s) PROVE Holds(p, u, t, v)'
  <2>1. Stores(s)
    BY <1>5 DEF Store, Stores, Memory, gc, ghosts
  <2>2. QED BY <1>0, <2>1, StoresEffect DEF Holds
<1>6. CASE UNCHANGED an
  BY <1>6 DEF Holds
<1>7. ASSUME NEW w \in Net,
             \/ DeleteNetwork(w) \/ DeliverOnmetal(w) \/ AEnsureFinalizer(w) \/ AApply(w)
             \/ \E q \in Partition : DeliverAPINet(q, w) \/ MDeleteGone(q, w)
                                     \/ MDelete(q, w) \/ MApply(q, w)
      PROVE  UNCHANGED an
  BY <1>7 DEF DeleteNetwork, DeliverOnmetal, AEnsureFinalizer, AApply, DeliverAPINet,
              MDeleteGone, MDelete, MApply
<1>8. ASSUME \/ AUnfinalize \/ ApplyExisting \/ ApplyCreate \/ ApplyFails \/ ApplyGivenUp
             \/ AApplied \/ AFail \/ ARestart \/ GDelete \/ GFail \/ GRestart
             \/ \E q \in Partition : MRestart(q)
             \/ UNCHANGED vars
      PROVE  UNCHANGED an
  BY <1>8 DEF AUnfinalize, ApplyExisting, ApplyCreate, ApplyFails, ApplyGivenUp, ApplyError,
              AApplied, AFail, ARestart, GDelete, GFail, GRestart, MRestart, vars
<1>9. ASSUME \/ \E s \in UID : \/ StoreConflicts(s) \/ Refuse(s) \/ AfterDelete(s) \/ Undo(s) \/ Abandon(s)
                               \/ \E i \in ID : ReserveLost(s, i)
                               \/ \E q \in Partition : RemoveMetalnet(q, s)
             \/ \E i \in ID : DeliverNetworkID(i) \/ GCheck(i)
      PROVE  UNCHANGED an
  BY <1>9 DEF StoreConflicts, Refuse, AfterDelete, Undo, Abandon, ReserveLost, RemoveMetalnet,
              DeliverNetworkID, GCheck
<1>10. QED
  BY <1>1, <1>3, <1>4, <1>5, <1>6, <1>7, <1>8, <1>9
     DEF Next, Informers, APINetlet, APIServer, Metalnet, Collector, Faults,
         APINetInformer, Metalnetlet

(* What is overwritten stays so. *)
LEMMA OverwrittenGrows ==
  ASSUME Types, [Next]_vars
  PROVE  overwritten \subseteq overwritten'
<1>1. ASSUME NEW u \in Net,
             \/ DeleteNetwork(u) \/ DeliverOnmetal(u) \/ AEnsureFinalizer(u) \/ AApply(u)
             \/ ADeleteGone(u) \/ ADelete(u)
             \/ \E p \in Partition :
                   \/ DeliverAPINet(p, u) \/ MDeleteGone(p, u) \/ MDelete(p, u)
                   \/ MUnfinalize(p, u) \/ MEnsureFinalizer(p, u) \/ MApply(p, u)
      PROVE  overwritten \subseteq overwritten'
  BY <1>1 DEF DeleteNetwork, DeliverOnmetal, AEnsureFinalizer, AApply, ADeleteGone, ADelete,
              DeliverAPINet, MDeleteGone, MDelete, MUnfinalize, MEnsureFinalizer, MApply,
              PatchFinalizers, ghosts
<1>2. ASSUME \/ AUnfinalize \/ ApplyExisting \/ ApplyCreate \/ ApplyFails \/ ApplyGivenUp
             \/ AApplied \/ AFail \/ ARestart \/ GDelete \/ GFail \/ GRestart
             \/ \E q \in Partition : MRestart(q)
             \/ UNCHANGED vars
      PROVE  UNCHANGED overwritten
  BY <1>2 DEF AUnfinalize, ApplyExisting, ApplyCreate, ApplyFails, ApplyGivenUp, ApplyError,
              AApplied, AFail, ARestart, GDelete, GFail, GRestart, MRestart, vars, ghosts
<1>3. ASSUME \/ \E s \in UID : \/ Store(s) \/ StoreConflicts(s) \/ Refuse(s) \/ AfterDelete(s) \/ Undo(s)
                               \/ Abandon(s) \/ \E i \in ID : ReserveLost(s, i)
                               \/ \E q \in Partition : RemoveMetalnet(q, s)
             \/ \E i \in ID : DeliverNetworkID(i) \/ GCheck(i)
      PROVE  UNCHANGED overwritten
  BY <1>3 DEF Store, StoreConflicts, Refuse, AfterDelete, Undo, Abandon, ReserveLost, RemoveMetalnet,
              DeliverNetworkID, GCheck, ghosts
<1>4. QED
  BY <1>1, <1>2, <1>3
     DEF Next, Informers, APINetlet, APIServer, Metalnet, Collector, Faults,
         APINetInformer, Metalnetlet

(* A view changes only to what is stored, and then nothing is written. *)
LEMMA ViewChanges ==
  ASSUME Types, [Next]_vars, NEW p \in Partition, NEW u \in Net
  PROVE  \/ anSeen'[p][u] = anSeen[p][u]
         \/ anSeen'[p][u] = an[u] /\ UNCHANGED <<an, mn, overwritten>>
<1>0. MetalnetType
  BY DEF Types
<1>1. ASSUME NEW q \in Partition, NEW w \in Net, DeliverAPINet(q, w)
      PROVE  \/ anSeen'[p][u] = anSeen[p][u]
             \/ anSeen'[p][u] = an[u] /\ UNCHANGED <<an, mn, overwritten>>
  BY <1>0, <1>1 DEF DeliverAPINet, MetalnetType, ghosts
<1>2. ASSUME NEW q \in Partition, MRestart(q)
      PROVE  \/ anSeen'[p][u] = anSeen[p][u]
             \/ anSeen'[p][u] = an[u] /\ UNCHANGED <<an, mn, overwritten>>
  BY <1>0, <1>2 DEF MRestart, MetalnetType, ghosts
<1>3. ASSUME NEW w \in Net,
             \/ DeleteNetwork(w) \/ DeliverOnmetal(w) \/ AEnsureFinalizer(w) \/ AApply(w)
             \/ ADeleteGone(w) \/ ADelete(w)
             \/ \E q \in Partition :
                   \/ MDeleteGone(q, w) \/ MDelete(q, w)
                   \/ MUnfinalize(q, w) \/ MEnsureFinalizer(q, w) \/ MApply(q, w)
      PROVE  UNCHANGED anSeen
  BY <1>3 DEF DeleteNetwork, DeliverOnmetal, AEnsureFinalizer, AApply, ADeleteGone, ADelete,
              MDeleteGone, MDelete, MUnfinalize, MEnsureFinalizer, MApply
<1>4. ASSUME \/ AUnfinalize \/ ApplyExisting \/ ApplyCreate \/ ApplyFails \/ ApplyGivenUp
             \/ AApplied \/ AFail \/ ARestart \/ GDelete \/ GFail \/ GRestart
             \/ UNCHANGED vars
      PROVE  UNCHANGED anSeen
  BY <1>4 DEF AUnfinalize, ApplyExisting, ApplyCreate, ApplyFails, ApplyGivenUp, ApplyError,
              AApplied, AFail, ARestart, GDelete, GFail, GRestart, vars
<1>5. ASSUME \/ \E s \in UID : \/ Store(s) \/ StoreConflicts(s) \/ Refuse(s) \/ AfterDelete(s) \/ Undo(s)
                               \/ Abandon(s) \/ \E i \in ID : ReserveLost(s, i)
                               \/ \E q \in Partition : RemoveMetalnet(q, s)
             \/ \E i \in ID : DeliverNetworkID(i) \/ GCheck(i)
      PROVE  UNCHANGED anSeen
  BY <1>5 DEF Store, StoreConflicts, Refuse, AfterDelete, Undo, Abandon, ReserveLost, RemoveMetalnet,
              DeliverNetworkID, GCheck
<1>6. QED
  BY <1>1, <1>2, <1>3, <1>4, <1>5
     DEF Next, Informers, APINetlet, APIServer, Metalnet, Collector, Faults,
         APINetInformer, Metalnetlet

(* A metalnet network keeps its name and its VNI; a new one is made of what the
   partition sees, with its finalizer in place. *)
LEMMA MetalnetChanges ==
  ASSUME Types, [Next]_vars, NEW p \in Partition, NEW t \in UID, mn'[p][t] # Nil
  PROVE  \/ /\ mn[p][t] # Nil
            /\ mn'[p][t].net = mn[p][t].net /\ mn'[p][t].id = mn[p][t].id
         \/ \E u \in Net :
               /\ anSeen[p][u] # Nil /\ ~anSeen[p][u].del /\ p \in anSeen[p][u].fins
               /\ anSeen[p][u].uid = t
               /\ mn'[p][t].net = u /\ mn'[p][t].id = anSeen[p][u].id
               /\ UNCHANGED <<an, anSeen, overwritten>>
<1> DEFINE Kept == /\ mn[p][t] # Nil
                   /\ mn'[p][t].net = mn[p][t].net /\ mn'[p][t].id = mn[p][t].id
           Made == \E u \in Net :
               /\ anSeen[p][u] # Nil /\ ~anSeen[p][u].del /\ p \in anSeen[p][u].fins
               /\ anSeen[p][u].uid = t
               /\ mn'[p][t].net = u /\ mn'[p][t].id = anSeen[p][u].id
               /\ UNCHANGED <<an, anSeen, overwritten>>
<1>0. MetalnetType
  BY DEF Types
<1>1. ASSUME NEW q \in Partition, NEW w \in Net, MDeleteGone(q, w) PROVE Kept
  <2>1. mn'[p][t] = mn[p][t] \/ (mn[p][t] # Nil /\ mn'[p][t] = [mn[p][t] EXCEPT !.del = TRUE])
    BY <1>0, <1>1 DEF MDeleteGone, MetalnetType
  <2>2. mn[p][t] # Nil => mn[p][t] \in MetalnetNetwork
    BY <1>0 DEF MetalnetType
  <2>3. QED BY <2>1, <2>2 DEF MetalnetNetwork
<1>2. ASSUME NEW q \in Partition, NEW w \in Net, MDelete(q, w) PROVE Kept
  <2>1. mn'[p][t] = mn[p][t] \/ (mn[p][t] # Nil /\ mn'[p][t] = [mn[p][t] EXCEPT !.del = TRUE])
    <3>1. CASE UNCHANGED mn
      BY <3>1
    <3>2. CASE ~UNCHANGED mn
      <4>1. anSeen[q][w] # Nil /\ anSeen[q][w] \in APINetNetwork \union {Nil}
        BY <1>0, <1>2 DEF MDelete, Deleting, MetalnetType
      <4>2. PICK s \in UID : s = anSeen[q][w].uid
        BY <4>1 DEF APINetNetwork
      <4>3. mn[q][s] # Nil /\ mn' = [mn EXCEPT ![q][s].del = TRUE]
        BY <1>2, <3>2, <4>2 DEF MDelete
      <4>4. QED BY <1>0, <4>3 DEF MetalnetType
    <3>3. QED BY <3>1, <3>2
  <2>2. mn[p][t] # Nil => mn[p][t] \in MetalnetNetwork
    BY <1>0 DEF MetalnetType
  <2>3. QED BY <2>1, <2>2 DEF MetalnetNetwork
<1>3. ASSUME NEW q \in Partition, NEW w \in Net, MApply(q, w) PROVE Kept \/ Made
  <2>1. CASE mn'[p][t] = mn[p][t]
    BY <2>1
  <2>2. CASE mn'[p][t] # mn[p][t]
    <3>1. /\ q = p /\ anSeen[p][w].uid = t
          /\ mn'[p][t] = [net |-> w, id |-> anSeen[p][w].id, del |-> FALSE]
      BY <1>0, <1>3, <2>2 DEF MApply, MetalnetType
    <3>2. QED BY <1>3, <3>1 DEF MApply, ghosts
  <2>3. QED BY <2>1, <2>2
<1>4. ASSUME NEW q \in Partition, NEW s \in UID, RemoveMetalnet(q, s) PROVE Kept
  BY <1>0, <1>4 DEF RemoveMetalnet, MetalnetType
<1>5. ASSUME NEW w \in Net,
             \/ DeleteNetwork(w) \/ DeliverOnmetal(w) \/ AEnsureFinalizer(w) \/ AApply(w)
             \/ ADeleteGone(w) \/ ADelete(w)
             \/ \E q \in Partition :
                   DeliverAPINet(q, w) \/ MUnfinalize(q, w) \/ MEnsureFinalizer(q, w)
      PROVE  UNCHANGED mn
  BY <1>5 DEF DeleteNetwork, DeliverOnmetal, AEnsureFinalizer, AApply, ADeleteGone, ADelete,
              DeliverAPINet, MUnfinalize, MEnsureFinalizer, metalnetlet
<1>6. ASSUME \/ AUnfinalize \/ ApplyExisting \/ ApplyCreate \/ ApplyFails \/ ApplyGivenUp
             \/ AApplied \/ AFail \/ ARestart \/ GDelete \/ GFail \/ GRestart
             \/ \E q \in Partition : MRestart(q)
             \/ UNCHANGED vars
      PROVE  UNCHANGED mn
  BY <1>6 DEF AUnfinalize, ApplyExisting, ApplyCreate, ApplyFails, ApplyGivenUp, ApplyError,
              AApplied, AFail, ARestart, GDelete, GFail, GRestart, MRestart, vars, metalnetlet
<1>7. ASSUME \/ \E s \in UID : \/ Store(s) \/ StoreConflicts(s) \/ Refuse(s) \/ AfterDelete(s) \/ Undo(s)
                               \/ Abandon(s) \/ \E i \in ID : ReserveLost(s, i)
             \/ \E i \in ID : DeliverNetworkID(i) \/ GCheck(i)
      PROVE  UNCHANGED mn
  BY <1>7 DEF Store, StoreConflicts, Refuse, AfterDelete, Undo, Abandon, ReserveLost,
              DeliverNetworkID, GCheck, metalnetlet
<1>8. ASSUME UNCHANGED mn PROVE Kept
  BY <1>8
<1> HIDE DEF Kept, Made
<1>9. Kept \/ Made
  BY <1>1, <1>2, <1>3, <1>4, <1>5, <1>6, <1>7, <1>8
     DEF Next, Informers, APINetlet, APIServer, Metalnet, Collector, Faults,
         APINetInformer, Metalnetlet
<1>10. QED BY <1>9 DEF Kept, Made

LEMMA ViewStep ==
  ASSUME Types, ViewInv, [Next]_vars
  PROVE  ViewInv'
<1>1. SUFFICES ASSUME NEW p \in Partition, NEW u \in Net,
                      anSeen'[p][u] # Nil, ~anSeen'[p][u].del, p \in anSeen'[p][u].fins,
                      NEW t \in UID, t = anSeen'[p][u].uid,
                      NEW v \in ID, v = anSeen'[p][u].id
               PROVE  <<p, u>> \in overwritten' \/ Holds(p, u, t, v)'
  <2>1. \A p \in Partition, u \in Net :
           anSeen'[p][u] # Nil => anSeen'[p][u].uid \in UID /\ anSeen'[p][u].id \in ID
    BY MetalnetTypeStep DEF MetalnetType, APINetNetwork
  <2>2. SUFFICES ASSUME NEW p \in Partition, NEW u \in Net,
                        anSeen'[p][u] # Nil, ~anSeen'[p][u].del, p \in anSeen'[p][u].fins
                 PROVE  \/ <<p, u>> \in overwritten'
                        \/ /\ an'[u] # Nil /\ p \in an'[u].fins
                           /\ an'[u].uid = anSeen'[p][u].uid /\ an'[u].id = anSeen'[p][u].id
    BY DEF ViewInv
  <2>3. QED BY <1>1, <2>1, <2>2 DEF Holds
<1>2. CASE anSeen'[p][u] = anSeen[p][u]
  <2>1. <<p, u>> \in overwritten \/ Holds(p, u, t, v)
    BY <1>1, <1>2 DEF ViewInv, Holds
  <2>2. ~Deleting(p, u)
    BY <1>1, <1>2 DEF Deleting
  <2>3. QED BY <2>1, <2>2, HoldsStep, OverwrittenGrows
<1>3. CASE anSeen'[p][u] = an[u] /\ UNCHANGED <<an, mn, overwritten>>
  BY <1>1, <1>3 DEF Holds
<1>4. QED BY <1>2, <1>3, ViewChanges

LEMMA MetalnetStep ==
  ASSUME Types, ViewInv, MetalnetInv, [Next]_vars
  PROVE  MetalnetInv'
<1>1. SUFFICES ASSUME NEW p \in Partition, NEW t \in UID, mn'[p][t] # Nil,
                      NEW u \in Net, u = mn'[p][t].net, NEW v \in ID, v = mn'[p][t].id
               PROVE  \/ <<p, u>> \in overwritten'
                      \/ /\ Holds(p, u, t, v)'
                         /\ anSeen'[p][u] # Nil /\ anSeen'[p][u].uid = t
  <2>1. \A p \in Partition, t \in UID :
           mn'[p][t] # Nil => mn'[p][t].net \in Net /\ mn'[p][t].id \in ID
    BY MetalnetTypeStep DEF MetalnetType, MetalnetNetwork
  <2>2. QED BY <2>1 DEF MetalnetInv, Holds
<1>2. CASE mn[p][t] # Nil /\ u = mn[p][t].net /\ v = mn[p][t].id
  <2>1. CASE <<p, u>> \in overwritten
    BY <2>1, OverwrittenGrows
  <2>2. CASE Holds(p, u, t, v) /\ anSeen[p][u] # Nil /\ anSeen[p][u].uid = t
    <3>1. Holds(p, u, t, v)' \/ <<p, u>> \in overwritten'
      BY <1>2, <2>2, HoldsStep
    <3>2. anSeen'[p][u] # Nil /\ anSeen'[p][u].uid = t
      BY <2>2, ViewChanges DEF Holds
    <3>3. QED BY <3>1, <3>2
  <2>3. QED BY <1>2, <2>1, <2>2 DEF MetalnetInv, Holds
<1>3. CASE \E w \in Net :
              /\ anSeen[p][w] # Nil /\ ~anSeen[p][w].del /\ p \in anSeen[p][w].fins
              /\ anSeen[p][w].uid = t
              /\ mn'[p][t].net = w /\ mn'[p][t].id = anSeen[p][w].id
              /\ UNCHANGED <<an, anSeen, overwritten>>
  BY <1>1, <1>3 DEF ViewInv, Holds
<1>4. QED BY <1>1, <1>2, <1>3, MetalnetChanges

-----------------------------------------------------------------------------
(***************************************************************************)
(* Provider IDs                                                            *)
(***************************************************************************)

(* A write of an onmetal-api network makes nothing live. *)
LEMMA PutOnmetalEffect ==
  ASSUME OnmetalType, NEW u \in Net, NEW x \in OnmetalNetwork, PutOnmetal(u, x)
  PROVE  /\ \A w \in Net \ {u} : om'[w] = om[w]
         /\ om'[u].st = "live" => x.st = "live"
         /\ om'[u].provider = x.provider
  BY DEF PutOnmetal, OnmetalType, OnmetalNetwork

LEMMA AppliedEffect ==
  ASSUME OnmetalType, NEW u \in Net, NEW view, NEW t, NEW rest, Applied(u, view, t, rest)
  PROVE  /\ \A w \in Net \ {u} : om'[w] = om[w]
         /\ om'[u].st = om[u].st
         /\ om'[u].provider = om[u].provider \/ om'[u].provider = t
<1>1. om[u] \in OnmetalNetwork
  BY DEF OnmetalType
<1>2. \/ om' = om
      \/ om' = [om EXCEPT ![u].provider = t]
      \/ om' = [om EXCEPT ![u].status = "Available"]
  BY DEF Applied
<1>3. \A w \in Net \ {u} : om'[w] = om[w]
  BY <1>2 DEF OnmetalType
<1>4. \/ om'[u] = om[u]
      \/ om'[u] = [om[u] EXCEPT !.provider = t]
      \/ om'[u] = [om[u] EXCEPT !.status = "Available"]
  BY <1>2 DEF OnmetalType
<1>5. om'[u].st = om[u].st /\ (om'[u].provider = om[u].provider \/ om'[u].provider = t)
  BY <1>1, <1>4 DEF OnmetalNetwork
<1>6. QED BY <1>3, <1>5

(* A network never becomes live again, and gets the provider ID of the apinet
   network that exists for it. *)
LEMMA OnmetalChanges ==
  ASSUME Types, LiveInv, [Next]_vars, NEW u \in Net, om'[u].st = "live"
  PROVE  /\ om[u].st = "live"
         /\ \/ om'[u].provider = om[u].provider
            \/ /\ an[u] # Nil /\ an[u].uid = om'[u].provider
               /\ UNCHANGED an
<1> DEFINE Kept == om[u].st = "live" /\ om'[u].provider = om[u].provider
           Given == /\ om[u].st = "live" /\ an[u] # Nil /\ an[u].uid = om'[u].provider
                    /\ UNCHANGED an
<1>0. OnmetalType /\ \A w \in Net : om[w] \in OnmetalNetwork
  BY DEF Types, OnmetalType
<1>1. ASSUME NEW w \in Net, DeleteNetwork(w) PROVE Kept
  <2>1. /\ [om[w] EXCEPT !.st = "deleting"] \in OnmetalNetwork
        /\ [om[w] EXCEPT !.st = "deleting"].st # "live"
    BY <1>0 DEF OnmetalNetwork
  <2>2. PutOnmetal(w, [om[w] EXCEPT !.st = "deleting"])
    BY <1>1 DEF DeleteNetwork
  <2>3. QED BY <1>0, <2>1, <2>2, PutOnmetalEffect
<1>2. CASE AUnfinalize
  <2>1. arec.net \in Net
    BY <1>0, <1>2, ArecFields DEF AUnfinalize
  <2>2. CASE UNCHANGED om
    BY <2>2
  <2>3. CASE ~UNCHANGED om
    <3>1. PICK x : x = [om[arec.net] EXCEPT !.fin = FALSE]
      OBVIOUS
    <3>2. /\ x \in OnmetalNetwork /\ x.provider = om[arec.net].provider
          /\ x.st = om[arec.net].st
      BY <1>0, <2>1, <3>1 DEF OnmetalNetwork
    <3>3. PutOnmetal(arec.net, x)
      BY <1>2, <2>3, <3>1 DEF AUnfinalize
    <3>4. QED BY <1>0, <2>1, <3>2, <3>3, PutOnmetalEffect
  <2>4. QED BY <2>2, <2>3
<1>3. ASSUME NEW w \in Net, AEnsureFinalizer(w) PROVE Kept
  <2>1. PICK x : x = [om[w] EXCEPT !.fin = TRUE]
    OBVIOUS
  <2>2. x \in OnmetalNetwork /\ x.provider = om[w].provider /\ x.st = om[w].st
    BY <1>0, <2>1 DEF OnmetalNetwork
  <2>3. PutOnmetal(w, x)
    BY <1>3, <2>1 DEF AEnsureFinalizer
  <2>4. QED BY <1>0, <2>2, <2>3, PutOnmetalEffect
<1>4. ASSUME NEW w \in Net, AApply(w) PROVE Kept \/ Given
  <2>1. CASE an[w] = Nil
    BY <1>4, <2>1 DEF AApply
  <2>2. CASE an[w] # Nil
    <3>1. PICK t : t = an[w].uid
      OBVIOUS
    <3>2. PICK view, rest : Applied(w, view, t, rest)
      BY <1>4, <2>2, <3>1 DEF AApply
    <3>3. UNCHANGED an
      BY <1>4 DEF AApply
    <3>4. QED BY <1>0, <2>2, <3>1, <3>2, <3>3, AppliedEffect
  <2>3. QED BY <2>1, <2>2
<1>5. CASE AApplied
  <2>0. PICK t : t = arec.uid
    OBVIOUS
  <2>1. PICK w \in Net : w = arec.net
    BY <1>0, <1>5, ArecFields DEF AApplied
  <2>2. PICK view, rest : Applied(w, view, t, rest)
    BY <1>5, <2>0, <2>1 DEF AApplied
  <2>3. UNCHANGED an /\ (om[w].st = "live" => an[w] # Nil /\ an[w].uid = t)
    BY <1>5, <2>0, <2>1 DEF AApplied, LiveInv
  <2>4. QED BY <1>0, <2>1, <2>2, <2>3, AppliedEffect
<1>6. CASE ApplyFails \/ ApplyGivenUp
  <2>1. arec.net \in Net /\ ApplyError
    BY <1>0, <1>6, ArecFields DEF ApplyFails, ApplyGivenUp
  <2>2. om' = om \/ om' = [om EXCEPT ![arec.net].status = "Pending"]
    BY <2>1 DEF ApplyError
  <2>3. om'[u] = om[u] \/ om'[u] = [om[u] EXCEPT !.status = "Pending"]
    BY <1>0, <2>1, <2>2 DEF OnmetalType
  <2>4. om'[u].st = om[u].st /\ om'[u].provider = om[u].provider
    BY <1>0, <2>3 DEF OnmetalNetwork
  <2>5. QED BY <2>4
<1>7. ASSUME NEW w \in Net,
             \/ DeliverOnmetal(w) \/ ADeleteGone(w) \/ ADelete(w)
             \/ \E q \in Partition :
                   \/ DeliverAPINet(q, w) \/ MDeleteGone(q, w) \/ MDelete(q, w)
                   \/ MUnfinalize(q, w) \/ MEnsureFinalizer(q, w) \/ MApply(q, w)
      PROVE  UNCHANGED om
  BY <1>7 DEF DeliverOnmetal, ADeleteGone, ADelete, DeliverAPINet, MDeleteGone, MDelete,
              MUnfinalize, MEnsureFinalizer, MApply, onmetal
<1>8. ASSUME \/ ApplyExisting \/ ApplyCreate \/ AFail \/ ARestart
             \/ GDelete \/ GFail \/ GRestart \/ \E q \in Partition : MRestart(q)
             \/ UNCHANGED vars
      PROVE  UNCHANGED om
  BY <1>8 DEF ApplyExisting, ApplyCreate, AFail, ARestart, GDelete, GFail, GRestart, MRestart,
              vars, onmetal
<1>9. ASSUME \/ \E s \in UID : \/ Store(s) \/ StoreConflicts(s) \/ Refuse(s) \/ AfterDelete(s) \/ Undo(s)
                               \/ Abandon(s) \/ \E i \in ID : ReserveLost(s, i)
                               \/ \E q \in Partition : RemoveMetalnet(q, s)
             \/ \E i \in ID : DeliverNetworkID(i) \/ GCheck(i)
      PROVE  UNCHANGED om
  BY <1>9 DEF Store, StoreConflicts, Refuse, AfterDelete, Undo, Abandon, ReserveLost, RemoveMetalnet,
              DeliverNetworkID, GCheck, onmetal
<1>10. ASSUME UNCHANGED om PROVE Kept
  BY <1>10
<1>11. ASSUME AUnfinalize \/ AApplied \/ ApplyFails \/ ApplyGivenUp PROVE Kept \/ Given
  BY <1>2, <1>5, <1>6, <1>11
<1> HIDE DEF Kept, Given
<1>12. Kept \/ Given
  BY <1>1, <1>3, <1>4, <1>7, <1>8, <1>9, <1>10, <1>11
     DEF Next, Informers, APINetlet, APIServer, Metalnet, Collector, Faults,
         APINetInformer, Metalnetlet
<1>13. QED BY <1>12 DEF Kept, Given

(* The apinet network of a live network stays. *)
LEMMA LiveKept ==
  ASSUME Types, LiveInv, [Next]_vars, NEW u \in Net, om[u].st = "live", an[u] # Nil
  PROVE  an'[u] # Nil /\ an'[u].uid = an[u].uid /\ ~an'[u].del
<1> DEFINE Kept == an'[u] # Nil /\ an'[u].uid = an[u].uid /\ ~an'[u].del
<1>0. ServerType /\ MetalnetType /\ an[u] \in APINetNetwork /\ ~an[u].del
  BY DEF Types, ServerType, LiveInv
<1>1. ASSUME NEW w \in Net, ADeleteGone(w) \/ ADelete(w) PROVE Kept
  <2>1. w # u
    BY <1>1 DEF ADeleteGone, ADelete, LiveInv
  <2>2. CASE UNCHANGED an
    BY <1>0, <2>2
  <2>3. CASE an[w] # Nil /\ DeleteAPINet(w)
    <3>1. PICK x : Rewritten(w, x)
      BY <1>0, <2>3, DeleteRewrites
    <3>2. an'[u] = an[u]
      BY <1>0, <2>1, <3>1, RewrittenEffect
    <3>3. QED BY <1>0, <3>2
  <2>4. QED BY <1>1, <2>2, <2>3 DEF ADeleteGone, ADelete
<1>2. ASSUME NEW p \in Partition, NEW w \in Net, MUnfinalize(p, w) \/ MEnsureFinalizer(p, w)
      PROVE  Kept
  <2>1. PICK fins \in SUBSET Partition : PatchFinalizers(p, w, fins)
    BY <1>0, <1>2, MetalnetletPatches
  <2>2. PICK x : Rewritten(w, x) /\ x.del = an[w].del
    BY <1>0, <2>1, PatchRewrites
  <2>3. x # Nil /\ x.uid = an[w].uid
    BY <2>2, NilObjectAssumption DEF Rewritten
  <2>4. QED BY <1>0, <2>2, <2>3, RewrittenEffect
<1>3. ASSUME NEW t \in UID, Store(t) PROVE Kept
  <2>1. Stores(t)
    BY <1>3 DEF Store, Stores, Memory, gc, ghosts
  <2>2. QED BY <1>0, <2>1, StoresEffect
<1>4. ASSUME UNCHANGED an PROVE Kept
  BY <1>0, <1>4
<1>5. ASSUME NEW w \in Net,
             \/ DeleteNetwork(w) \/ DeliverOnmetal(w) \/ AEnsureFinalizer(w) \/ AApply(w)
             \/ \E q \in Partition : DeliverAPINet(q, w) \/ MDeleteGone(q, w)
                                     \/ MDelete(q, w) \/ MApply(q, w)
      PROVE  UNCHANGED an
  BY <1>5 DEF DeleteNetwork, DeliverOnmetal, AEnsureFinalizer, AApply, DeliverAPINet,
              MDeleteGone, MDelete, MApply
<1>6. ASSUME \/ AUnfinalize \/ ApplyExisting \/ ApplyCreate \/ ApplyFails \/ ApplyGivenUp
             \/ AApplied \/ AFail \/ ARestart \/ GDelete \/ GFail \/ GRestart
             \/ \E q \in Partition : MRestart(q)
             \/ UNCHANGED vars
      PROVE  UNCHANGED an
  BY <1>6 DEF AUnfinalize, ApplyExisting, ApplyCreate, ApplyFails, ApplyGivenUp, ApplyError,
              AApplied, AFail, ARestart, GDelete, GFail, GRestart, MRestart, vars
<1>7. ASSUME \/ \E s \in UID : \/ StoreConflicts(s) \/ Refuse(s) \/ AfterDelete(s) \/ Undo(s) \/ Abandon(s)
                               \/ \E i \in ID : ReserveLost(s, i)
                               \/ \E q \in Partition : RemoveMetalnet(q, s)
             \/ \E i \in ID : DeliverNetworkID(i) \/ GCheck(i)
      PROVE  UNCHANGED an
  BY <1>7 DEF StoreConflicts, Refuse, AfterDelete, Undo, Abandon, ReserveLost, RemoveMetalnet,
              DeliverNetworkID, GCheck
<1> HIDE DEF Kept
<1>8. Kept
  BY <1>1, <1>2, <1>3, <1>4, <1>5, <1>6, <1>7
     DEF Next, Informers, APINetlet, APIServer, Metalnet, Collector, Faults,
         APINetInformer, Metalnetlet
<1>9. QED BY <1>8 DEF Kept

(* A network is stored as live. *)
LEMMA StoredLive ==
  ASSUME Types, [Next]_vars, NEW u \in Net, an[u] = Nil, an'[u] # Nil
  PROVE  ~an'[u].del
<1>0. ServerType
  BY DEF Types
<1>1. ASSUME NEW w \in Net, Writes(w) PROVE FALSE
  BY <1>0, <1>1, WritesEffect
<1>2. ASSUME NEW t \in UID, Stores(t) PROVE ~an'[u].del
  BY <1>0, <1>2, StoresEffect
<1>3. ASSUME UNCHANGED an PROVE FALSE
  BY <1>3
<1>4. ASSUME \/ Reserves \/ GDelete \/ Rests
             \/ \E v \in ID : GCheck(v)
             \/ \E t \in UID : Ends(t) \/ \E v \in ID : Loses(t, v)
      PROVE  UNCHANGED an
  BY <1>4 DEF Reserves, GDelete, Rests, GCheck, Ends, Loses
<1>5. QED BY <1>1, <1>2, <1>3, <1>4, StepKinds

(* The view of the apinetlet changes to what is stored. *)
LEMMA SeenChanges ==
  ASSUME Types, [Next]_vars, NEW u \in Net
  PROVE  omSeen'[u] = omSeen[u] \/ (omSeen'[u] = om[u] /\ UNCHANGED om)
<1>0. OnmetalType
  BY DEF Types
<1>1. ASSUME NEW w \in Net, DeliverOnmetal(w)
      PROVE  omSeen'[u] = omSeen[u] \/ (omSeen'[u] = om[u] /\ UNCHANGED om)
  BY <1>0, <1>1 DEF DeliverOnmetal, OnmetalType
<1>2. CASE ARestart
  BY <1>2 DEF ARestart
<1>3. ASSUME NEW w \in Net,
             \/ DeleteNetwork(w) \/ AEnsureFinalizer(w) \/ AApply(w)
             \/ ADeleteGone(w) \/ ADelete(w)
             \/ \E q \in Partition :
                   \/ DeliverAPINet(q, w) \/ MDeleteGone(q, w) \/ MDelete(q, w)
                   \/ MUnfinalize(q, w) \/ MEnsureFinalizer(q, w) \/ MApply(q, w)
      PROVE  UNCHANGED omSeen
  BY <1>3 DEF DeleteNetwork, AEnsureFinalizer, AApply, ADeleteGone, ADelete, DeliverAPINet,
              MDeleteGone, MDelete, MUnfinalize, MEnsureFinalizer, MApply, onmetal
<1>4. ASSUME \/ AUnfinalize \/ ApplyExisting \/ ApplyCreate \/ ApplyFails \/ ApplyGivenUp
             \/ AApplied \/ AFail \/ GDelete \/ GFail \/ GRestart
             \/ \E q \in Partition : MRestart(q)
             \/ UNCHANGED vars
      PROVE  UNCHANGED omSeen
  BY <1>4 DEF AUnfinalize, ApplyExisting, ApplyCreate, ApplyFails, ApplyGivenUp, ApplyError,
              AApplied, AFail, GDelete, GFail, GRestart, MRestart, vars, onmetal
<1>5. ASSUME \/ \E s \in UID : \/ Store(s) \/ StoreConflicts(s) \/ Refuse(s) \/ AfterDelete(s) \/ Undo(s)
                               \/ Abandon(s) \/ \E i \in ID : ReserveLost(s, i)
                               \/ \E q \in Partition : RemoveMetalnet(q, s)
             \/ \E i \in ID : DeliverNetworkID(i) \/ GCheck(i)
      PROVE  UNCHANGED omSeen
  BY <1>5 DEF Store, StoreConflicts, Refuse, AfterDelete, Undo, Abandon, ReserveLost, RemoveMetalnet,
              DeliverNetworkID, GCheck, onmetal
<1>6. QED
  BY <1>1, <1>2, <1>3, <1>4, <1>5
     DEF Next, Informers, APINetlet, APIServer, Metalnet, Collector, Faults,
         APINetInformer, Metalnetlet

(* What becomes of the apinetlet's reconcile. *)
LEMMA ArecChanges ==
  ASSUME Types, [Next]_vars
  PROVE  \/ arec' = arec /\ \A t \in UID : Waits(t) => ~Stores(t)
         \/ arec'.pc \in {"idle", "apply"}
         \/ \E u \in Net : /\ arec' = [pc |-> "unfinalize", net |-> u]
                           /\ omSeen[u].st = "deleting" /\ UNCHANGED om
         \/ ApplyExisting
         \/ ApplyCreate
         \/ \E t \in UID : /\ Store(t) /\ Waits(t)
                           /\ arec' = [arec EXCEPT !.pc = "applied"]
<1> DEFINE Same == arec' = arec /\ \A t \in UID : Waits(t) => ~Stores(t)
           Quiet == UNCHANGED <<arec, an>>
           Starts == arec'.pc \in {"idle", "apply"}
           Leaves == \E u \in Net : /\ arec' = [pc |-> "unfinalize", net |-> u]
                                    /\ omSeen[u].st = "deleting" /\ UNCHANGED om
           Stored == \E t \in UID : /\ Store(t) /\ Waits(t)
                                    /\ arec' = [arec EXCEPT !.pc = "applied"]
<1>0. ServerType /\ OnmetalType
  BY DEF Types
<1>1. ASSUME NEW u \in Net, ADeleteGone(u) PROVE Same
  BY <1>1 DEF ADeleteGone, Take, Waits, Idle
<1>2. ASSUME NEW u \in Net, ADelete(u) PROVE Same \/ Leaves
  BY <1>2 DEF ADelete, Take, Waits, Idle, apinetlet, onmetal
<1>3. ASSUME NEW u \in Net, AEnsureFinalizer(u) PROVE Same
  BY <1>3 DEF AEnsureFinalizer, Take, Waits, Idle, apinetlet
<1>4. ASSUME NEW u \in Net, AApply(u) PROVE Starts
  BY <1>4 DEF AApply, Applied, Idle
<1>5. ASSUME AUnfinalize \/ ApplyFails \/ ApplyGivenUp \/ AApplied \/ AFail \/ ARestart
      PROVE  Starts
  <2>1. arec' = Idle
    BY <1>5 DEF AUnfinalize, ApplyFails, ApplyGivenUp, ApplyError, AApplied, Applied, AFail,
                ARestart, Requeue
  <2>2. QED BY <2>1 DEF Idle
<1>6. ASSUME NEW t \in UID, Store(t) PROVE Same \/ Stored
  <2>1. CASE Waits(t)
    BY <1>6, <2>1 DEF Store
  <2>2. CASE ~Waits(t)
    <3>1. arec' = arec
      BY <1>6, <2>2 DEF Store
    <3>2. \A s \in UID : Stores(s) => s = t
      <4>1. Stores(t)
        BY <1>6 DEF Store, Stores, Memory, gc, ghosts
      <4>2. SUFFICES ASSUME NEW s \in UID, Stores(s), s # t PROVE FALSE
        OBVIOUS
      <4>3. req'[s] = req[s] /\ req[s] # Nil
        BY <1>0, <4>1, <4>2, StoresEffect DEF Stores
      <4>4. req'[s] = Nil
        BY <1>0, <4>2, StoresEffect
      <4>5. QED BY <4>3, <4>4
    <3>3. QED BY <2>2, <3>1, <3>2
  <2>3. QED BY <2>1, <2>2
<1>7. ASSUME NEW t \in UID, StoreConflicts(t) PROVE Same \/ Starts
  <2>1. CASE Waits(t)
    <3>1. arec' = [arec EXCEPT !.pc = "apply"] /\ arec \in Applying
      BY <1>0, <1>7, <2>1, ArecFields DEF StoreConflicts, Waits
    <3>2. QED BY <3>1 DEF Applying
  <2>2. CASE ~Waits(t)
    <3>1. arec' = arec /\ UNCHANGED an
      BY <1>7, <2>2 DEF StoreConflicts
    <3>2. \A s \in UID : ~Stores(s)
      BY <1>0, <3>1, StoresEffect
    <3>3. QED BY <3>1, <3>2
  <2>3. QED BY <2>1, <2>2
<1>8. ASSUME Quiet PROVE Same
  <2>1. \A s \in UID : ~Stores(s)
    BY <1>0, <1>8, StoresEffect
  <2>2. QED BY <1>8, <2>1
<1>9. ASSUME NEW p \in Partition, NEW u \in Net, MUnfinalize(p, u) \/ MEnsureFinalizer(p, u)
      PROVE  Same
  <2>1. arec' = arec /\ an[u] # Nil
    BY <1>9 DEF MUnfinalize, MEnsureFinalizer, PatchFinalizers
  <2>2. MetalnetType
    BY DEF Types
  <2>3. PICK x : Rewritten(u, x)
    BY <1>0, <1>9, <2>2, MetalnetletPatches, PatchRewrites
  <2>4. \A s \in UID : ~Stores(s)
    <3>1. SUFFICES ASSUME NEW s \in UID, Stores(s) PROVE FALSE
      OBVIOUS
    <3>2. \A w \in Net : an[w] = Nil => an'[w] = Nil
      BY <1>0, <2>3, RewrittenEffect DEF Rewritten
    <3>3. QED BY <1>0, <3>1, <3>2, StoresEffect
  <2>5. QED BY <2>1, <2>4
<1>10. ASSUME NEW w \in Net,
             \/ DeleteNetwork(w) \/ DeliverOnmetal(w)
             \/ \E q \in Partition : \/ DeliverAPINet(q, w) \/ MDeleteGone(q, w)
                                     \/ MDelete(q, w) \/ MApply(q, w)
      PROVE  Quiet
  BY <1>10 DEF DeleteNetwork, DeliverOnmetal, DeliverAPINet, MDeleteGone, MDelete, MApply,
               apinetlet
<1>11. ASSUME \/ GDelete \/ GFail \/ GRestart \/ \E q \in Partition : MRestart(q)
              \/ UNCHANGED vars
      PROVE  Quiet
  BY <1>11 DEF GDelete, GFail, GRestart, MRestart, vars, apinetlet
<1>12. ASSUME \/ \E s \in UID : \/ Undo(s) \/ Refuse(s) \/ AfterDelete(s)
                                \/ Abandon(s) \/ \E i \in ID : ReserveLost(s, i)
                                \/ \E q \in Partition : RemoveMetalnet(q, s)
              \/ \E i \in ID : DeliverNetworkID(i) \/ GCheck(i)
       PROVE  Quiet
  BY <1>12 DEF Undo, Refuse, AfterDelete, Abandon, ReserveLost, RemoveMetalnet,
               DeliverNetworkID, GCheck, apinetlet
<1> HIDE DEF Same, Quiet, Starts, Leaves, Stored
<1> DEFINE Kinds == Same \/ Starts \/ Leaves \/ Stored \/ ApplyExisting \/ ApplyCreate
<1>13. Kinds
  <2>1. ASSUME APINetlet PROVE Kinds
    BY <1>1, <1>2, <1>3, <1>4, <1>5, <2>1 DEF APINetlet
  <2>2. ASSUME APIServer \/ Metalnet PROVE Kinds
    BY <1>6, <1>7, <1>8, <1>12, <2>2 DEF APIServer, Metalnet
  <2>3. ASSUME NEW p \in Partition, APINetInformer(p) \/ Metalnetlet(p) PROVE Kinds
    BY <1>8, <1>9, <1>10, <2>3 DEF APINetInformer, Metalnetlet
  <2>4. ASSUME Faults PROVE Kinds
    BY <1>5, <1>8, <1>11, <1>12, <2>4 DEF Faults
  <2>5. ASSUME Collector \/ Informers \/ UNCHANGED vars \/ \E u \in Net : DeleteNetwork(u)
        PROVE  Kinds
    BY <1>8, <1>10, <1>11, <1>12, <2>5 DEF Collector, Informers
  <2> HIDE DEF Kinds
  <2>6. QED BY <2>1, <2>2, <2>3, <2>4, <2>5 DEF Next
<1>14. QED BY <1>13 DEF Same, Starts, Leaves, Stored

(* The creation the apinetlet waits for: its network does not exist yet. *)
Awaited(t, u) ==
    /\ t \in 1..creates
    /\ req[t] # Nil => req[t].net = u
    /\ \A w \in Net : an[w] # Nil => an[w].uid # t

LEMMA AwaitedStep ==
  ASSUME Types, UIDInv, [Next]_vars, NEW t, NEW u \in Net, Awaited(t, u), ~Stores(t)
  PROVE  Awaited(t, u)'
<1>0. ServerType /\ ServerType' /\ creates \in Nat
  BY ServerTypeStep, ServerElements DEF Types
<1>a. t \in UID /\ t \in Nat
  BY <1>0, NetworkBounds DEF Awaited, ServerType, UID
<1>1. ASSUME NEW w \in Net, Writes(w) PROVE Awaited(t, u)'
  <2>1. creates' = creates
    BY <1>1 DEF Writes
  <2>2. QED BY <1>0, <1>a, <1>1, <2>1, WritesEffect DEF Awaited
<1>2. CASE Reserves
  <2>1. UNCHANGED an /\ creates' = creates + 1 /\ \A s \in UID \ {creates + 1} : req'[s] = req[s]
    BY <1>0, <1>2, ReservesEffect DEF Reserves
  <2>2. QED BY <1>0, <1>a, <2>1 DEF Awaited
<1>3. ASSUME NEW s \in UID, Stores(s) PROVE Awaited(t, u)'
  <2>1. creates' = creates /\ s # t
    BY <1>3 DEF Stores
  <2>2. QED BY <1>0, <1>a, <1>3, <2>1, StoresEffect DEF Awaited
<1>4. ASSUME NEW s \in UID, Ends(s) PROVE Awaited(t, u)'
  <2>1. UNCHANGED <<an, creates>> /\ req[s] # Nil
    BY <1>4 DEF Ends
  <2>2. QED BY <1>0, <1>a, <1>4, <2>1, EndsEffect DEF Awaited
<1>5. ASSUME UNCHANGED <<an, req, creates>> PROVE Awaited(t, u)'
  BY <1>5 DEF Awaited
<1>6. ASSUME \/ GDelete \/ Rests \/ \E v \in ID : GCheck(v)
             \/ \E s \in UID, v \in ID : Loses(s, v)
      PROVE  UNCHANGED <<an, req, creates>>
  BY <1>6 DEF GDelete, Rests, GCheck, Loses, server
<1>7. QED BY <1>1, <1>2, <1>3, <1>4, <1>5, <1>6, StepKinds

LEMMA LiveStep ==
  ASSUME Types, UIDInv, LiveInv, [Next]_vars
  PROVE  LiveInv'
<1>0. ServerType /\ OnmetalType /\ ServerType' /\ OnmetalType'
  BY ServerTypeStep, OnmetalTypeStep DEF Types
<1>a. \A u \in Net : om'[u].st = "live" => om[u].st = "live"
  BY OnmetalChanges
<1>1. \A u \in Net : omSeen'[u].st # "live" => om'[u].st # "live"
  BY <1>a, SeenChanges DEF LiveInv
<1>2. \A u \in Net : an'[u] # Nil /\ an'[u].del => om'[u].st # "live"
  BY <1>a, LiveKept, StoredLive
<1>3. arec'.pc = "unfinalize" => om'[arec'.net].st # "live"
  <2>1. SUFFICES ASSUME arec'.pc = "unfinalize" PROVE om'[arec'.net].st # "live"
    OBVIOUS
  <2>2. CASE arec' = arec
    BY <1>0, <1>a, <2>1, <2>2, ArecFields DEF LiveInv
  <2>3. CASE \E u \in Net : /\ arec' = [pc |-> "unfinalize", net |-> u]
                            /\ omSeen[u].st = "deleting" /\ UNCHANGED om
    BY <2>3 DEF LiveInv
  <2>4. ASSUME ApplyExisting \/ ApplyCreate PROVE FALSE
    <3>1. arec \in Applying
      BY <1>0, <2>4, ArecFields DEF ApplyExisting, ApplyCreate
    <3>2. QED BY <2>1, <2>4, <3>1 DEF ApplyExisting, ApplyCreate, Applying
  <2>5. ASSUME NEW t \in UID, Waits(t), arec' = [arec EXCEPT !.pc = "applied"] PROVE FALSE
    <3>1. arec \in Applying
      BY <1>0, <2>5, ArecFields DEF Waits
    <3>2. QED BY <2>1, <2>5, <3>1 DEF Applying
  <2>6. QED BY <2>1, <2>2, <2>3, <2>4, <2>5, ArecChanges
<1>4. arec'.pc = "applied" /\ om'[arec'.net].st = "live" =>
         an'[arec'.net] # Nil /\ an'[arec'.net].uid = arec'.uid
  <2>1. SUFFICES ASSUME arec'.pc = "applied", NEW u \in Net, u = arec'.net, om'[u].st = "live"
                 PROVE  an'[u] # Nil /\ an'[u].uid = arec'.uid
    <3>1. arec'.pc = "applied" => arec'.net \in Net
      BY <1>0, ArecShape DEF OnmetalType
    <3>2. QED BY <3>1
  <2>2. CASE arec' = arec
    BY <1>a, <2>1, <2>2, LiveKept DEF LiveInv
  <2>3. CASE ApplyExisting
    <3>1. arec \in Applying /\ UNCHANGED an
      BY <1>0, <2>3, ArecFields DEF ApplyExisting
    <3>2. arec'.net = arec.net /\ arec'.uid = an[arec.net].uid /\ an[arec.net] # Nil
      BY <2>3, <3>1 DEF ApplyExisting, Applying
    <3>3. QED BY <2>1, <3>1, <3>2
  <2>4. ASSUME ApplyCreate PROVE FALSE
    <3>1. arec \in Applying
      BY <1>0, <2>4, ArecFields DEF ApplyCreate
    <3>2. QED BY <2>1, <2>4, <3>1 DEF ApplyCreate, Applying
  <2>5. ASSUME NEW t \in UID, Store(t), Waits(t), arec' = [arec EXCEPT !.pc = "applied"]
        PROVE  an'[u] # Nil /\ an'[u].uid = arec'.uid
    <3>1. arec \in Applying
      BY <1>0, <2>5, ArecFields DEF Waits
    <3>2. arec'.net = arec.net /\ arec'.uid = t
      BY <2>5, <3>1 DEF Applying, Waits
    <3>3. Stores(t) /\ req[t] # Nil
      BY <2>5 DEF Store, Stores, Memory, gc, ghosts
    <3>4. req[t].net = u
      BY <2>1, <2>5, <3>2, <3>3 DEF LiveInv, Waits
    <3>5. QED BY <1>0, <3>2, <3>3, <3>4, StoresEffect
  <2>6. QED BY <2>1, <2>2, <2>3, <2>4, <2>5, ArecChanges
<1>5. ASSUME NEW t, NEW u \in Net, arec'.pc = "create", t = arec'.uid, u = arec'.net
      PROVE  Awaited(t, u)'
  <2>1. CASE arec' = arec /\ \A s \in UID : Waits(s) => ~Stores(s)
    <3>1. Awaited(t, u) /\ Waits(t)
      BY <1>5, <2>1 DEF LiveInv, Awaited, Waits
    <3>2. t \in UID
      BY <1>0, <3>1, NetworkBounds DEF Awaited, ServerType, UID
    <3>3. QED BY <2>1, <3>1, <3>2, AwaitedStep
  <2>2. CASE ApplyCreate
    <3>1. arec \in Applying /\ arec.net \in Net
      BY <1>0, <2>2, ArecFields DEF ApplyCreate
    <3>2. arec'.uid = creates + 1 /\ arec'.net = arec.net
      BY <2>2, <3>1 DEF ApplyCreate, Applying
    <3>3. Reserves
      BY <2>2, <3>1, NetworkBounds DEF ApplyCreate, Reserves, Memory, gc, ghosts
    <3>4. /\ creates' = creates + 1 /\ UNCHANGED an
          /\ \E v \in ID : req'[creates + 1] = [net |-> arec.net, id |-> v, pc |-> "store"]
      BY <1>0, <3>3, ReservesEffect DEF Reserves
    <3>5. creates \in Nat /\ \A w \in Net : an[w] # Nil => an[w].uid \in Nat
      BY <1>0, ServerElements
    <3>6. QED BY <1>5, <3>2, <3>4, <3>5 DEF Awaited, UIDInv
  <2>3. ASSUME ApplyExisting PROVE FALSE
    <3>1. arec \in Applying
      BY <1>0, <2>3, ArecFields DEF ApplyExisting
    <3>2. QED BY <1>5, <2>3, <3>1 DEF ApplyExisting, Applying
  <2>4. ASSUME NEW s \in UID, Waits(s), arec' = [arec EXCEPT !.pc = "applied"] PROVE FALSE
    <3>1. arec \in Applying
      BY <1>0, <2>4, ArecFields DEF Waits
    <3>2. QED BY <1>5, <2>4, <3>1 DEF Applying
  <2>5. QED BY <1>5, <2>1, <2>2, <2>3, <2>4, ArecChanges
<1>6. arec'.pc = "create" => arec'.net \in Net
  BY <1>0, ArecShape DEF OnmetalType
<1>7. arec'.pc = "create" =>
         /\ arec'.uid \in 1..creates'
         /\ req'[arec'.uid] # Nil => req'[arec'.uid].net = arec'.net
         /\ \A w \in Net : an'[w] # Nil => an'[w].uid # arec'.uid
  BY <1>5, <1>6 DEF Awaited
<1>8. QED BY <1>1, <1>2, <1>3, <1>4, <1>7 DEF LiveInv

LEMMA ProviderStep ==
  ASSUME Types, UIDInv, LiveInv, ProviderCurrent, [Next]_vars
  PROVE  ProviderCurrent'
<1>1. SUFFICES ASSUME NEW u \in Net, om'[u].st = "live", om'[u].provider # 0
               PROVE  an'[u] # Nil /\ an'[u].uid = om'[u].provider /\ ~an'[u].del
  BY DEF ProviderCurrent
<1>2. om[u].st = "live" /\ an[u] # Nil /\ an[u].uid = om'[u].provider
  BY <1>1, OnmetalChanges DEF ProviderCurrent
<1>3. QED BY <1>2, LiveKept

-----------------------------------------------------------------------------
(***************************************************************************)
(* Theorems                                                                *)
(***************************************************************************)

LEMMA NetworkInit == Init => NetworkInv
<1>1. SUFFICES ASSUME Init PROVE NetworkInv
  OBVIOUS
<1>2. Types
  BY <1>1, TypesInit
<1>a. /\ \A u \in Net : an[u] = Nil
      /\ creates = 0 /\ \A v \in ID : ids[v] = 0 /\ idSeen[v] = 0
      /\ \A t \in UID : req[t] = Nil
      /\ absent = {} /\ grec.pc = "idle"
  BY <1>1 DEF Init, Idle
<1>3. UIDInv /\ AbsentInv /\ HeldInv
  BY <1>a DEF UIDInv, AbsentInv, HeldInv
<1>4. ViewInv /\ MetalnetInv
  BY <1>1 DEF Init, ViewInv, MetalnetInv
<1>5. LiveInv /\ ProviderCurrent
  BY <1>1 DEF Init, LiveInv, ProviderCurrent, Idle
<1>6. QED BY <1>2, <1>3, <1>4, <1>5 DEF NetworkInv

LEMMA NetworkStep == NetworkInv /\ [Next]_vars => NetworkInv'
  BY TypesStep, UIDStep, AbsentStep, HeldStep, ViewStep, MetalnetStep, LiveStep, ProviderStep
     DEF NetworkInv

(* A VNI in use is reserved: the finalizer keeps the apinet network, and the
   apinet network keeps its ID. *)
LEMMA HeldWhileUsed == NetworkInv => IDHeldWhileUsed
<1>1. SUFFICES ASSUME NetworkInv, NEW p \in Partition, NEW t \in UID, mn[p][t] # Nil,
                      NEW u \in Net, u = mn[p][t].net, <<p, u>> \notin overwritten
               PROVE  ids[mn[p][t].id] = t \/ t \in robbed
  <2>1. NetworkInv => \A p \in Partition, t \in UID : mn[p][t] # Nil => mn[p][t].net \in Net
    BY DEF NetworkInv, Types, MetalnetType, MetalnetNetwork
  <2>2. QED BY <2>1 DEF IDHeldWhileUsed
<1>2. an[u] # Nil /\ an[u].uid = t /\ an[u].id = mn[p][t].id
  BY <1>1 DEF NetworkInv, MetalnetInv
<1>3. QED BY <1>1, <1>2 DEF NetworkInv, HeldInv

(* The inductive invariant: reservations, finalizers, views and the requests
   under way of apinetlet, API server, metalnetlets and collector agree in every
   reachable state. *)
THEOREM NetworkInvariant == Spec => []NetworkInv
  BY NetworkInit, NetworkStep, PTL DEF Spec

(* Every variable has its type, for any number of networks, partitions, IDs,
   creations and faults. *)
THEOREM NetworkTypeCorrect == Spec => []NetworkTypeOK
<1>1. NetworkInv => NetworkTypeOK
  BY TypesImply DEF NetworkInv
<1>2. QED BY <1>1, NetworkInvariant, PTL

(* As long as a metalnet network exists in a partition, its VNI is reserved for
   the apinet network it was made for, unless the NetworkID was deleted under its
   claimer or another partition overwrote the finalizer. *)
THEOREM VNIsAreHeld == Spec => []IDHeldWhileUsed
  BY HeldWhileUsed, NetworkInvariant, PTL

(* The provider ID of a live network names the apinet network that exists. *)
THEOREM ProvidersAreCurrent == Spec => []ProviderCurrent
<1>1. NetworkInv => ProviderCurrent
  BY DEF NetworkInv
<1>2. QED BY <1>1, NetworkInvariant, PTL
=============================================================================
