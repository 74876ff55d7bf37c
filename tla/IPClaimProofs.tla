-------------------------- MODULE IPClaimProofs --------------------------
(***************************************************************************)
(* Proofs about IPClaim.  A request is followed through three questions:   *)
(* which addresses its object relies on (Keeps), who holds those (HeldInv, *)
(* UsedInv), and whether the listers would notice (CacheInv).              *)
(***************************************************************************)
EXTENDS IPClaim, TLAPS

-----------------------------------------------------------------------------
(***************************************************************************)
(* The inductive invariant                                                 *)
(***************************************************************************)

ReqType ==
    [pc : {"new", "idle", "gone", "alloc", "patch", "write", "release", "delete", "unclaim"},
     next : {"new", "idle", "gone", "write"},
     want : Seq(Addr \union {Ask}), todo : SUBSET Nat,
     got : SUBSET Addr, rel : SUBSET Addr,
     addr : Addr \union {Nil}, saw : IP \union {Nil}, data : Claimer]

Allocates(r) == r.pc \in {"alloc", "patch"}
Releases(r) == r.pc \in {"release", "delete", "unclaim"}

Types ==
    /\ ips \in [Addr -> IP \union {Nil}]
    /\ cache \in [Server -> [Addr -> IP \union {Nil}]]
    /\ news \in [Server -> SUBSET Addr]
    /\ server \in [Owner -> Server]
    /\ objs \in [Owner -> (SUBSET Addr) \union {Nil}]
    /\ req \in [Owner -> ReqType]
    /\ churn \in 0 .. MaxChurn /\ faults \in 0 .. MaxFaults
    /\ lost \subseteq Owner \X Addr /\ leaky \subseteq Owner /\ poisoned \subseteq Server \X Addr

(* Request r of an object with the addresses o: where it may go next, what it
   is about to release, and what it has looked up. *)
Shape(r, o) ==
    /\ r.pc \in {"new", "idle", "gone", "write"} => r.next = r.pc
    /\ r.next = "idle" => o # Nil
    /\ r.next \in {"new", "gone"} => o = Nil
    /\ Allocates(r) => /\ r.next \in {"idle", "gone"}
                       /\ r.todo \subseteq DOMAIN r.want
                       /\ r.rel = IF o = Nil THEN {} ELSE o \ Range(r.want)
    /\ r.pc = "patch" => /\ r.addr \in Addr /\ r.addr \in Range(r.want)
                         /\ r.saw \in Free /\ r.data \in Owner
    /\ r.pc \in {"delete", "unclaim"} => r.addr \in r.rel /\ r.saw \in IP
    /\ r.pc = "unclaim" => r.saw.owner = Nil
    /\ Releases(r) /\ r.next = "write" => r.rel \intersect Range(r.want) = {}

(* The addresses request r or its object relies on: those of the object that
   it does not give up, those that were allocated and are still to be used or
   given back, and those that are still to be released. *)
Keeps(r, o) ==
    {a \in Addr : \/ o # Nil /\ a \in o /\ (r.next = "write" => a \in Range(r.want))
                  \/ a \in r.got /\ (Allocates(r) \/ r.next = "write")
                  \/ a \in r.rel /\ Releases(r)}

(* What is to be released is not relied on otherwise, unless it is lost. *)
Spares(r, o) ==
    {a \in r.rel : \/ Allocates(r) /\ a \in r.got
                   \/ Releases(r) /\ o # Nil /\ a \in o
                         /\ (r.next = "write" => a \in Range(r.want))
                   \/ Releases(r) /\ r.next = "write" /\ a \in r.got}

ShapeInv == \A c \in Owner : Shape(req[c], objs[c])

HeldBy(c) ==
    /\ \A a \in Keeps(req[c], objs[c]) : <<c, a>> \in lost \/ c \in Holders(a)
    /\ \A a \in Spares(req[c], objs[c]) : <<c, a>> \in lost

HeldInv == \A c \in Owner : HeldBy(c)

(* A claim is relied on by its object, unless a request for that object broke
   off; and the IP that a request has looked up to release it, and that still
   has its claim, is the one it saw. *)
ClaimOf(i, c) == i # Nil /\ i.claim = c

UsedBy(c) ==
    \A a \in Addr : ClaimOf(ips[a], c) =>
       \/ c \in leaky
       \/ /\ a \in Keeps(req[c], objs[c])
          /\ req[c].pc \in {"delete", "unclaim"} /\ req[c].addr = a
                => ips[a].owner = req[c].saw.owner

UsedInv == \A c \in Owner : UsedBy(c)

(* A lister that has nothing to be told differs from the store in claims at
   most, and a free IP that it shows as claimed is being claimed. *)
PatchOf(s, a) ==
    {c \in Owner : server[c] = s /\ At(c, "patch") /\ req[c].addr = a
                      /\ SameIP(a, req[c].saw.owner)}

CacheInv ==
    \A s \in Server, a \in Addr : a \notin news[s] =>
       /\ ips[a] = Nil => cache[s][a] = Nil
       /\ ips[a] # Nil => cache[s][a] # Nil /\ cache[s][a].owner = ips[a].owner
       /\ ips[a] \in Free => \/ <<s, a>> \in poisoned
                             \/ cache[s][a] \in Free
                             \/ PatchOf(s, a) # {}

ClaimInv == Types /\ ShapeInv /\ HeldInv /\ UsedInv /\ CacheInv
-----------------------------------------------------------------------------
(***************************************************************************)
(* The forms of a request                                                  *)
(***************************************************************************)

(* A request that is over. *)
LEMMA RestShape ==
    ASSUME NEW p \in {"new", "idle", "gone"}, NEW o \in (SUBSET Addr) \union {Nil},
           NEW r, r = Request(p), p = "idle" => o # Nil, p # "idle" => o = Nil
    PROVE  /\ r \in ReqType /\ r.pc = p /\ r.next = p
           /\ Shape(r, o)
           /\ Keeps(r, o) = IF o = Nil THEN {} ELSE o
           /\ Spares(r, o) = {}
<1>1. r \in ReqType
  BY DEF Request, ReqType, Claimer
<1>2. r.pc = p /\ r.next = p /\ r.got = {} /\ r.rel = {}
  BY DEF Request
<1>3. Shape(r, o)
  BY <1>2 DEF Shape, Allocates, Releases
<1>4. Keeps(r, o) = IF o = Nil THEN {} ELSE o
  BY <1>2 DEF Keeps
<1>5. Spares(r, o) = {}
  BY <1>2 DEF Spares
<1>. QED BY <1>1, <1>2, <1>3, <1>4, <1>5

(* A request that is to release R, which may be nothing. *)
LEMMA ReleasingFields ==
    ASSUME NEW r \in ReqType, NEW R \in SUBSET Addr, NEW t, t = Releasing(r, R)
    PROVE  /\ t \in ReqType
           /\ t.rel = R /\ t.next = r.next
           /\ R # {} => t.pc = "release" /\ t.want = r.want /\ t.got = r.got
           /\ R = {} => t.pc = r.next
           /\ R = {} /\ r.next = "write" => t.want = r.want /\ t.got = r.got
           /\ R = {} /\ r.next # "write" => t.got = {}
<1>1. CASE R # {}
  BY <1>1 DEF Releasing, ReqType
<1>2. CASE R = {} /\ r.next = "write"
  BY <1>2 DEF Releasing, ReqType
<1>3. CASE R = {} /\ r.next # "write"
  BY <1>3 DEF Releasing, ReqType, Request, Claimer
<1>. QED BY <1>1, <1>2, <1>3

LEMMA ReleasingShape ==
    ASSUME NEW r \in ReqType, NEW R \in SUBSET Addr, NEW o \in (SUBSET Addr) \union {Nil},
           NEW t, t = Releasing(r, R),
           r.next = "idle" => o # Nil, r.next \in {"new", "gone"} => o = Nil,
           r.next = "write" => R \intersect Range(r.want) = {}
    PROVE  /\ t \in ReqType /\ t.pc \in {"release", "write", "new", "idle", "gone"}
           /\ Shape(t, o)
           /\ \A a \in Addr : a \in Keeps(t, o) <=>
                 \/ o # Nil /\ a \in o /\ (r.next = "write" => a \in Range(r.want))
                 \/ a \in r.got /\ r.next = "write"
                 \/ a \in R
           /\ \A a \in Addr : a \in Spares(t, o) <=>
                 /\ a \in R
                 /\ \/ o # Nil /\ a \in o /\ (r.next = "write" => a \in Range(r.want))
                    \/ a \in r.got /\ r.next = "write"
<1>1. /\ t \in ReqType
      /\ t.rel = R /\ t.next = r.next
      /\ R # {} => t.pc = "release" /\ t.want = r.want /\ t.got = r.got
      /\ R = {} => t.pc = r.next
      /\ R = {} /\ r.next = "write" => t.want = r.want /\ t.got = r.got
      /\ R = {} /\ r.next # "write" => t.got = {}
  BY ReleasingFields
<1>2. r.next \in {"new", "idle", "gone", "write"}
  BY DEF ReqType
<1>3. Shape(t, o)
  BY <1>1, <1>2 DEF Shape, Allocates, Releases
<1>4. \A a \in Addr : a \in Keeps(t, o) <=>
         \/ o # Nil /\ a \in o /\ (r.next = "write" => a \in Range(r.want))
         \/ a \in r.got /\ r.next = "write"
         \/ a \in R
  BY <1>1, <1>2 DEF Keeps, Allocates, Releases
<1>5. \A a \in Addr : a \in Spares(t, o) <=>
         /\ a \in R
         /\ \/ o # Nil /\ a \in o /\ (r.next = "write" => a \in Range(r.want))
            \/ a \in r.got /\ r.next = "write"
  BY <1>1, <1>2 DEF Spares, Allocates, Releases
<1>. QED BY <1>1, <1>2, <1>3, <1>4, <1>5

(* A request that begins to allocate. *)
LEMMA CreateShape ==
    ASSUME NEW w \in Wants, NEW t,
           t = [Request("alloc") EXCEPT !.want = w, !.todo = DOMAIN w, !.next = "gone"]
    PROVE  t \in ReqType /\ t.pc = "alloc" /\ Shape(t, Nil) /\ Keeps(t, Nil) = {} /\ Spares(t, Nil) = {}
<1>1. w \in Seq(Addr \union {Ask}) /\ DOMAIN w \subseteq Nat
  BY WantsAssumption
<1>. PICK D : D = DOMAIN w
  OBVIOUS
<1>2. t = [pc |-> "alloc", next |-> "gone", want |-> w, todo |-> D, got |-> {},
           rel |-> {}, addr |-> Nil, saw |-> Nil, data |-> Nil]
  BY DEF Request
<1>3. t \in ReqType
  BY <1>1, <1>2 DEF ReqType, Claimer
<1>4. /\ t.pc = "alloc" /\ t.next = "gone" /\ t.want = w /\ t.todo = D
      /\ t.got = {} /\ t.rel = {}
  BY DEF Request
<1>5. Shape(t, Nil)
  BY <1>4 DEF Shape, Allocates, Releases
<1>6. Keeps(t, Nil) = {} /\ Spares(t, Nil) = {}
  BY <1>4 DEF Keeps, Spares
<1>. QED BY <1>3, <1>4, <1>5, <1>6

LEMMA UpdateShape ==
    ASSUME NEW w \in Seq(Addr \union {Ask}), NEW c \in Owner, NEW o \in SUBSET Addr,
           o = objs[c], o # Nil, NEW t, t = UpdateRequest(c, w)
    PROVE  t \in ReqType /\ t.pc = "alloc" /\ Shape(t, o) /\ Keeps(t, o) = o /\ Spares(t, o) = {}
<1>1. DOMAIN w \subseteq Nat
  OBVIOUS
<1>2. PICK T : T = {k \in DOMAIN w : w[k] \notin objs[c] \/ \E j \in 1 .. k - 1 : w[j] = w[k]}
  OBVIOUS
<1>3. t = [pc |-> "alloc", next |-> "idle", want |-> w, todo |-> T, got |-> {},
           rel |-> o \ Range(w), addr |-> Nil, saw |-> Nil, data |-> Nil]
  BY <1>2 DEF Request, UpdateRequest
<1>4. T \subseteq DOMAIN w
  BY <1>2
<1>. HIDE <1>2
<1>5. t \in ReqType
  BY <1>1, <1>3, <1>4 DEF ReqType, Claimer
<1>6. Shape(t, o)
  BY <1>3, <1>4 DEF Shape, Allocates, Releases
<1>. QED BY <1>3, <1>5, <1>6 DEF Keeps, Spares, Releases

(* The requests that a step makes of request r. *)
WithAddress(r, a) ==
    [r EXCEPT !.pc = "alloc", !.got = @ \union {a}, !.todo = {k \in @ : \E j \in @ : j < k},
              !.addr = Nil, !.saw = Nil, !.data = Nil]

ToPatch(r, a, d, v) == [r EXCEPT !.pc = "patch", !.addr = a, !.data = d, !.saw = v]

ToRelease(r, q, a, v) == [r EXCEPT !.pc = q, !.addr = a, !.saw = v]

(* One more address is allocated. *)
LEMMA AllocatedShape ==
    ASSUME NEW r \in ReqType, NEW o \in (SUBSET Addr) \union {Nil}, NEW a \in Addr,
           Shape(r, o), Allocates(r), NEW t,
           t = WithAddress(r, a)
    PROVE  /\ t \in ReqType /\ t.pc = "alloc" /\ t.next = r.next
           /\ Shape(t, o)
           /\ \A x \in Addr : x \in Keeps(t, o) <=> x \in Keeps(r, o) \/ x = a
           /\ \A x \in Addr : x \in Spares(t, o) <=> x \in Spares(r, o) \/ (x = a /\ a \in r.rel)
<1>. PICK T : T = {k \in r.todo : \E j \in r.todo : j < k}
  OBVIOUS
<1>1. t = [r EXCEPT !.pc = "alloc", !.got = @ \union {a}, !.todo = T,
                    !.addr = Nil, !.saw = Nil, !.data = Nil]
  BY DEF WithAddress
<1>2. T \subseteq r.todo
  OBVIOUS
<1>3. /\ t.pc = "alloc" /\ t.next = r.next /\ t.want = r.want /\ t.todo = T
      /\ t.got = r.got \union {a} /\ t.rel = r.rel
  BY <1>1 DEF ReqType
<1>4. t \in ReqType
  <2>1. T \in SUBSET Nat /\ r.got \union {a} \in SUBSET Addr
    BY <1>2 DEF ReqType
  <2>. QED BY <1>1, <2>1 DEF ReqType, Claimer
<1>5. Shape(t, o)
  BY <1>2, <1>3 DEF Shape, Allocates, Releases
<1>6. \A x \in Addr : x \in Keeps(t, o) <=> x \in Keeps(r, o) \/ x = a
  BY <1>3 DEF Keeps, Allocates, Releases, Shape
<1>7. \A x \in Addr : x \in Spares(t, o) <=> x \in Spares(r, o) \/ (x = a /\ a \in r.rel)
  BY <1>3 DEF Spares, Allocates, Releases, Shape
<1>. QED BY <1>3, <1>4, <1>5, <1>6, <1>7

(* The request looks at an IP: to claim it, or to release it. *)
LEMMA PatchShape ==
    ASSUME NEW r \in ReqType, NEW o \in (SUBSET Addr) \union {Nil}, NEW a \in Addr,
           NEW d \in Owner, NEW v \in Free,
           Shape(r, o), r.pc = "alloc", a \in Range(r.want), NEW t,
           t = ToPatch(r, a, d, v)
    PROVE  /\ t \in ReqType /\ t.pc = "patch" /\ t.addr = a /\ t.saw = v
           /\ Shape(t, o) /\ Keeps(t, o) = Keeps(r, o) /\ Spares(t, o) = Spares(r, o)
<1>1. /\ t.pc = "patch" /\ t.next = r.next /\ t.want = r.want /\ t.todo = r.todo
      /\ t.got = r.got /\ t.rel = r.rel /\ t.addr = a /\ t.saw = v /\ t.data = d
  BY DEF ReqType, ToPatch
<1>2. t \in ReqType
  BY DEF ReqType, ToPatch, Claimer, Free
<1>3. Shape(t, o)
  BY <1>1 DEF Shape, Allocates, Releases
<1>4. Keeps(t, o) = Keeps(r, o)
  BY <1>1 DEF Keeps, Allocates, Releases
<1>5. Spares(t, o) = Spares(r, o)
  BY <1>1 DEF Spares, Allocates, Releases
<1>. QED BY <1>1, <1>2, <1>3, <1>4, <1>5

LEMMA LookShape ==
    ASSUME NEW r \in ReqType, NEW o \in (SUBSET Addr) \union {Nil}, NEW a \in r.rel,
           NEW q \in {"delete", "unclaim"}, NEW v \in IP, q = "unclaim" => v.owner = Nil,
           Shape(r, o), r.pc = "release", NEW t,
           t = ToRelease(r, q, a, v)
    PROVE  /\ t \in ReqType /\ t.pc = q /\ t.addr = a /\ t.saw = v
           /\ Shape(t, o) /\ Keeps(t, o) = Keeps(r, o) /\ Spares(t, o) = Spares(r, o)
<1>1. /\ t.pc = q /\ t.next = r.next /\ t.want = r.want /\ t.todo = r.todo
      /\ t.got = r.got /\ t.rel = r.rel /\ t.addr = a /\ t.saw = v
  BY DEF ReqType, ToRelease
<1>2. t \in ReqType
  BY DEF ReqType, ToRelease
<1>3. Shape(t, o)
  BY <1>1 DEF Shape, Allocates, Releases
<1>4. Keeps(t, o) = Keeps(r, o)
  BY <1>1 DEF Keeps, Allocates, Releases
<1>5. Spares(t, o) = Spares(r, o)
  BY <1>1 DEF Spares, Allocates, Releases
<1>. QED BY <1>1, <1>2, <1>3, <1>4, <1>5

-----------------------------------------------------------------------------
(***************************************************************************)
(* What a step does to the others                                          *)
(***************************************************************************)

(* Nobody but a request that releases a ceases to hold a without its being
   counted as lost. *)
HoldersKept(c) ==
    \A x \in Owner, a \in Addr : x \in Holders(a) =>
       \/ x \in Holders(a)' \/ <<x, a>> \in lost'
       \/ x = c /\ req[c].pc \in {"delete", "unclaim"} /\ req[c].addr = a

(* Claims are new only where a request makes them. *)
ClaimsKept(c) ==
    \A x \in Owner, a \in Addr : ClaimOf(ips'[a], x) =>
       \/ ClaimOf(ips[a], x) /\ ips'[a].owner = ips[a].owner
       \/ x \in leaky'
       \/ x = c /\ req[c].pc = "patch" /\ req[c].addr = a

Grows == lost \subseteq lost' /\ leaky \subseteq leaky'

(* The request of c goes on as t, its object has the addresses p. *)
Becomes(c, t, p) ==
    /\ req' = [req EXCEPT ![c] = t] /\ objs' = [objs EXCEPT ![c] = p]
    /\ t \in ReqType /\ p \in (SUBSET Addr) \union {Nil}

(* What c relies on afterwards it relied on or has, and it drops no claim. *)
Follows(c, t, p) ==
    /\ Shape(t, p)
    /\ \A a \in Keeps(t, p) :
          a \in Keeps(req[c], objs[c]) \/ <<c, a>> \in lost' \/ c \in Holders(a)'
    /\ \A a \in Spares(t, p) : a \in Spares(req[c], objs[c]) \/ <<c, a>> \in lost'
    /\ req[c].pc \in {"delete", "unclaim"} /\ req[c].addr \in Keeps(t, p)
          => <<c, req[c].addr>> \in lost'
    /\ \A a \in Keeps(req[c], objs[c]) :
          a \in Keeps(t, p) \/ c \in leaky' \/ ~ClaimOf(ips'[a], c)
    /\ req[c].pc = "patch" /\ ClaimOf(ips'[req[c].addr], c)
          => req[c].addr \in Keeps(t, p) \/ c \in leaky'
    /\ t.pc \in {"delete", "unclaim"} /\ ClaimOf(ips'[t.addr], c)
          => c \in leaky' \/ ips'[t.addr].owner = t.saw.owner

OwnStep(c) ==
    /\ Grows /\ HoldersKept(c) /\ ClaimsKept(c)
    /\ \E t, p : Becomes(c, t, p) /\ Follows(c, t, p)

LEMMA OwnStepKeeps ==
    ASSUME Types, ShapeInv, HeldInv, UsedInv, NEW c \in Owner, OwnStep(c)
    PROVE  /\ req' \in [Owner -> ReqType] /\ objs' \in [Owner -> (SUBSET Addr) \union {Nil}]
           /\ ShapeInv' /\ HeldInv' /\ UsedInv'
<1>1. PICK t, p : Becomes(c, t, p) /\ Follows(c, t, p)
  BY DEF OwnStep
<1>2. /\ req'[c] = t /\ objs'[c] = p
      /\ \A d \in Owner \ {c} : req'[d] = req[d] /\ objs'[d] = objs[d]
      /\ req' \in [Owner -> ReqType] /\ objs' \in [Owner -> (SUBSET Addr) \union {Nil}]
  BY <1>1 DEF Becomes, Types
<1>3. Grows /\ HoldersKept(c) /\ ClaimsKept(c)
  BY DEF OwnStep
<1>4. Keeps(req[c], objs[c]) \subseteq Addr /\ Keeps(t, p) \subseteq Addr
  BY DEF Keeps
<1>5. ASSUME NEW d \in Owner \ {c}
      PROVE  Shape(req'[d], objs'[d]) /\ HeldBy(d)' /\ UsedBy(d)'
  <2>1. req'[d] = req[d] /\ objs'[d] = objs[d]
    BY <1>2
  <2>2. Shape(req'[d], objs'[d])
    BY <2>1 DEF ShapeInv
  <2>3. Keeps(req[d], objs[d]) \subseteq Addr
    BY DEF Keeps
  <2>4. Spares(req[d], objs[d]) \subseteq Addr
    BY DEF Spares, Types, ReqType
  <2>5. HeldBy(d)'
    BY <1>3, <2>1, <2>3, <2>4 DEF HeldInv, HeldBy, HoldersKept, Grows
  <2>6. UsedBy(d)'
    BY <1>3, <2>1 DEF UsedInv, UsedBy, ClaimsKept, Grows
  <2>. QED BY <2>2, <2>5, <2>6
<1>6. Shape(req'[c], objs'[c])
  BY <1>1, <1>2 DEF Follows
<1>7. HeldBy(c)'
  BY <1>1, <1>2, <1>3, <1>4 DEF HeldInv, HeldBy, Follows, Grows, HoldersKept
<1>8. UsedBy(c)'
  <2>1. SUFFICES ASSUME NEW a \in Addr, ClaimOf(ips'[a], c), c \notin leaky'
                 PROVE  /\ a \in Keeps(t, p)
                        /\ t.pc \in {"delete", "unclaim"} /\ t.addr = a
                              => ips'[a].owner = t.saw.owner
    BY <1>2 DEF UsedBy
  <2>2. t.pc \in {"delete", "unclaim"} /\ t.addr = a => ips'[a].owner = t.saw.owner
    BY <1>1, <2>1 DEF Follows
  <2>3. ClaimOf(ips[a], c) \/ (req[c].pc = "patch" /\ req[c].addr = a)
    BY <1>3, <2>1 DEF ClaimsKept
  <2>4. ASSUME ClaimOf(ips[a], c) PROVE a \in Keeps(t, p)
    <3>1. a \in Keeps(req[c], objs[c])
      BY <1>3, <2>1, <2>4 DEF UsedInv, UsedBy, Grows
    <3>. QED BY <1>1, <2>1, <3>1 DEF Follows
  <2>5. ASSUME req[c].pc = "patch", req[c].addr = a PROVE a \in Keeps(t, p)
    BY <1>1, <2>1, <2>5 DEF Follows
  <2>. QED BY <2>2, <2>3, <2>4, <2>5
<1>9. ShapeInv'
  BY <1>5, <1>6 DEF ShapeInv
<1>10. HeldInv' /\ UsedInv'
  BY <1>5, <1>7, <1>8 DEF HeldInv, UsedInv
<1>. QED BY <1>2, <1>9, <1>10

(* What the servers know of is what has not changed. *)
Told == \A s \in Server, a \in Addr : a \notin news'[s] => a \notin news[s] /\ ips'[a] = ips[a]

WorldTypes ==
    /\ ips \in [Addr -> IP \union {Nil}] /\ news \in [Server -> SUBSET Addr]

LEMMA PutEffect ==
    ASSUME Types, NEW a \in Addr, NEW v \in IP \union {Nil}, PutIP(a, v)
    PROVE  /\ ips'[a] = v /\ \A b \in Addr \ {a} : ips'[b] = ips[b]
           /\ WorldTypes' /\ Told
<1>1. /\ ips'[a] = v /\ \A b \in Addr \ {a} : ips'[b] = ips[b]
      /\ ips' \in [Addr -> IP \union {Nil}]
  BY DEF PutIP, Types
<1>2. CASE v = ips[a]
  BY <1>1, <1>2 DEF PutIP, Types, WorldTypes, Told
<1>3. CASE v # ips[a]
  <2>1. news' = [s \in Server |-> news[s] \union {a}]
    BY <1>3 DEF PutIP
  <2>2. \A s \in Server : news'[s] = news[s] \union {a}
    BY <2>1
  <2>3. news' \in [Server -> SUBSET Addr]
    BY <2>1 DEF Types
  <2>. QED BY <1>1, <2>2, <2>3 DEF WorldTypes, Told
<1>. QED BY <1>2, <1>3

LEMMA StillKept ==
    ASSUME Types, ips' = ips, news' = news, Grows, NEW c \in Owner
    PROVE  HoldersKept(c) /\ ClaimsKept(c) /\ WorldTypes' /\ Told
<1>1. \A a \in Addr : Holders(a)' = Holders(a)
  BY DEF Holders
<1>. QED BY <1>1 DEF HoldersKept, ClaimsKept, WorldTypes, Told, Types

(* An IP is deleted.  Its holders lose it, but for the one who deletes it. *)
LEMMA GoneKept ==
    ASSUME Types, NEW a \in Addr, PutIP(a, Nil), Grows, NEW c \in Owner,
           \A x \in Holders(a) :
              <<x, a>> \in lost' \/ (x = c /\ req[c].pc = "delete" /\ req[c].addr = a)
    PROVE  HoldersKept(c) /\ ClaimsKept(c) /\ WorldTypes' /\ Told /\ ips'[a] = Nil
<1>1. /\ ips'[a] = Nil /\ \A b \in Addr \ {a} : ips'[b] = ips[b]
      /\ WorldTypes' /\ Told
  BY PutEffect
<1>2. \A b \in Addr \ {a} : Holders(b)' = Holders(b)
  BY <1>1 DEF Holders
<1>3. HoldersKept(c)
  BY <1>2 DEF HoldersKept
<1>4. ClaimsKept(c)
  BY <1>1 DEF ClaimsKept, ClaimOf
<1>. QED BY <1>1, <1>3, <1>4

(* An ephemeral IP is created. *)
LEMMA CreatedKept ==
    ASSUME Types, NEW a \in Addr, ips[a] = Nil, NEW c \in Owner, PutIP(a, Ephemeral(c)), Grows
    PROVE  /\ HoldersKept(c) /\ ClaimsKept(c) /\ WorldTypes' /\ Told
           /\ c \in Holders(a)' /\ ~ClaimOf(ips'[a], c) /\ ips'[a] # Nil
<1>. PICK v : v = Ephemeral(c)
  OBVIOUS
<1>1. v \in IP /\ v.claim = Nil /\ v.owner = c
  BY DEF Ephemeral, IP, Claimer
<1>2. v # Nil /\ c # Nil
  BY <1>1, NilObjectAssumption, ClaimAssumption
<1>3. /\ ips'[a] = v /\ \A b \in Addr \ {a} : ips'[b] = ips[b]
      /\ WorldTypes' /\ Told
  BY <1>1, PutEffect
<1>4. \A b \in Addr \ {a} : Holders(b)' = Holders(b)
  BY <1>3 DEF Holders
<1>5. Holders(a) = {} /\ c \in Holders(a)'
  BY <1>1, <1>2, <1>3 DEF Holders
<1>6. HoldersKept(c)
  BY <1>4, <1>5 DEF HoldersKept
<1>7. ClaimsKept(c) /\ ~ClaimOf(ips'[a], c)
  BY <1>1, <1>2, <1>3, ClaimAssumption DEF ClaimsKept, ClaimOf
<1>. QED BY <1>1, <1>2, <1>3, <1>5, <1>6, <1>7

(* A claim is made or cleared in an IP that exists. *)
LEMMA PatchEffect ==
    ASSUME Types, NEW a \in Addr, ips[a] # Nil, NEW d \in Claimer,
           PutIP(a, [ips[a] EXCEPT !.claim = d])
    PROVE  /\ ips[a] \in IP /\ ips'[a] \in IP /\ ips'[a] # Nil
           /\ ips'[a].claim = d /\ ips'[a].owner = ips[a].owner
           /\ \A b \in Addr \ {a} : ips'[b] = ips[b] /\ Holders(b)' = Holders(b)
           /\ Holders(a) = {ips[a].claim, ips[a].owner} \ {Nil}
           /\ Holders(a)' = {d, ips[a].owner} \ {Nil}
           /\ WorldTypes' /\ Told
<1>1. ips[a] \in IP
  BY DEF Types
<1>. PICK v : v = [ips[a] EXCEPT !.claim = d]
  OBVIOUS
<1>2. v \in IP /\ v.claim = d /\ v.owner = ips[a].owner
  BY <1>1 DEF IP, Claimer
<1>3. v # Nil
  BY <1>2, NilObjectAssumption
<1>4. /\ ips'[a] = v /\ \A b \in Addr \ {a} : ips'[b] = ips[b]
      /\ WorldTypes' /\ Told
  BY <1>2, PutEffect
<1>5. \A b \in Addr \ {a} : Holders(b)' = Holders(b)
  BY <1>4 DEF Holders
<1>6. /\ Holders(a) = {ips[a].claim, ips[a].owner} \ {Nil}
      /\ Holders(a)' = {d, ips[a].owner} \ {Nil}
  BY <1>2, <1>3, <1>4 DEF Holders
<1>. QED BY <1>1, <1>2, <1>3, <1>4, <1>5, <1>6

LEMMA ClaimedKept ==
    ASSUME Types, NEW c \in Owner, NEW a \in Addr, NEW d \in Owner, ips[a] # Nil,
           req[c].pc = "patch", req[c].addr = a, req[c].saw.claim = Nil,
           Claims(c, a, d), leaky \subseteq leaky', d = c \/ d \in leaky'
    PROVE  /\ HoldersKept(c) /\ ClaimsKept(c) /\ WorldTypes' /\ Told /\ Grows
           /\ c \in Holders(a)' \/ <<c, a>> \in lost'
           /\ ips'[a] \notin Free
<1>0. d \in Claimer /\ d # Nil /\ c # Nil
  BY ClaimAssumption DEF Claimer
<1>1. PutIP(a, [ips[a] EXCEPT !.claim = d])
  BY DEF Claims
<1>2. /\ ips[a] \in IP /\ ips'[a] \in IP /\ ips'[a] # Nil
      /\ ips'[a].claim = d /\ ips'[a].owner = ips[a].owner
      /\ \A b \in Addr \ {a} : ips'[b] = ips[b] /\ Holders(b)' = Holders(b)
      /\ Holders(a) = {ips[a].claim, ips[a].owner} \ {Nil}
      /\ Holders(a)' = {d, ips[a].owner} \ {Nil}
      /\ WorldTypes' /\ Told
  BY <1>0, <1>1, PatchEffect
<1>3. lost' = lost \union ({x \in Holders(a) : x = ips[a].claim /\ x # d /\ x # req[c].saw.claim}
                               \union ({c} \ {d})) \X {a}
  BY DEF Claims
<1>4. Grows
  BY <1>3 DEF Grows
<1>5. ASSUME NEW x \in Holders(a), x = ips[a].claim, x # d PROVE <<x, a>> \in lost'
  BY <1>2, <1>3, <1>5
<1>6. HoldersKept(c)
  BY <1>0, <1>2, <1>5 DEF HoldersKept
<1>7. c # d => <<c, a>> \in lost'
  BY <1>3
<1>8. c \in Holders(a)' \/ <<c, a>> \in lost'
  BY <1>0, <1>2, <1>7
<1>9. ClaimsKept(c)
  BY <1>2 DEF ClaimsKept, ClaimOf
<1>. QED BY <1>0, <1>2, <1>4, <1>6, <1>8, <1>9 DEF Free

LEMMA UnclaimedKept ==
    ASSUME Types, NEW c \in Owner, NEW a \in Addr, SameIP(a, Nil),
           req[c].pc = "unclaim", req[c].addr = a,
           <<c, a>> \in lost \/ c \in Holders(a),
           PutIP(a, [ips[a] EXCEPT !.claim = Nil]), Grows,
           <<c, a>> \in lost => Holders(a) \X {a} \subseteq lost'
    PROVE  /\ HoldersKept(c) /\ ClaimsKept(c) /\ WorldTypes' /\ Told
           /\ ~ClaimOf(ips'[a], c)
<1>0. ips[a] # Nil /\ ips[a].owner = Nil /\ Nil \in Claimer /\ c # Nil
  BY ClaimAssumption DEF SameIP, Claimer
<1>2. /\ ips[a] \in IP /\ ips'[a] \in IP /\ ips'[a] # Nil
      /\ ips'[a].claim = Nil /\ ips'[a].owner = ips[a].owner
      /\ \A b \in Addr \ {a} : ips'[b] = ips[b] /\ Holders(b)' = Holders(b)
      /\ Holders(a) = {ips[a].claim, ips[a].owner} \ {Nil}
      /\ Holders(a)' = {Nil, ips[a].owner} \ {Nil}
      /\ WorldTypes' /\ Told
  BY <1>0, PatchEffect
<1>3. ASSUME NEW x \in Holders(a), <<x, a>> \notin lost' PROVE x = c
  BY <1>0, <1>2, <1>3
<1>6. HoldersKept(c)
  BY <1>2, <1>3 DEF HoldersKept
<1>9. ClaimsKept(c)
  BY <1>2, ClaimAssumption DEF ClaimsKept, ClaimOf
<1>. QED BY <1>0, <1>2, <1>6, <1>9 DEF ClaimOf

-----------------------------------------------------------------------------
(***************************************************************************)
(* The steps of a request                                                  *)
(***************************************************************************)

OtherTypes ==
    /\ WorldTypes
    /\ cache \in [Server -> [Addr -> IP \union {Nil}]]
    /\ server \in [Owner -> Server]
    /\ churn \in 0 .. MaxChurn /\ faults \in 0 .. MaxFaults
    /\ lost \subseteq Owner \X Addr /\ leaky \subseteq Owner /\ poisoned \subseteq Server \X Addr

(* The listers stay as they are, and a patch that is over has claimed the IP,
   or was of another one, or is remembered. *)
Sound(c) ==
    /\ server' = server /\ cache' = cache /\ Told /\ poisoned \subseteq poisoned'
    /\ req[c].pc = "patch" => \/ ips'[req[c].addr] \notin Free
                              \/ ~SameIP(req[c].addr, req[c].saw.owner)
                              \/ <<server[c], req[c].addr>> \in poisoned'

ReqInv == Types /\ ShapeInv /\ HeldInv /\ UsedInv

(* The facts on the request and the object that a step of c starts from. *)
LEMMA Known ==
    ASSUME ReqInv, NEW c \in Owner
    PROVE  /\ req[c] \in ReqType /\ objs[c] \in (SUBSET Addr) \union {Nil}
           /\ Shape(req[c], objs[c]) /\ HeldBy(c) /\ UsedBy(c)
           /\ Keeps(req[c], objs[c]) \subseteq Addr /\ Spares(req[c], objs[c]) \subseteq Addr
           /\ \A a \in Addr : Holders(a) \subseteq Owner
           /\ \A S \in SUBSET Addr : S # Nil
<1>1. req[c] \in ReqType /\ objs[c] \in (SUBSET Addr) \union {Nil}
  BY DEF ReqInv, Types
<1>2. Shape(req[c], objs[c]) /\ HeldBy(c) /\ UsedBy(c)
  BY DEF ReqInv, ShapeInv, HeldInv, UsedInv
<1>3. Keeps(req[c], objs[c]) \subseteq Addr /\ Spares(req[c], objs[c]) \subseteq Addr
  BY <1>1 DEF Keeps, Spares, ReqType
<1>4. \A a \in Addr : Holders(a) \subseteq Owner
  BY DEF ReqInv, Types, Holders, IP, Claimer
<1>. QED BY <1>1, <1>2, <1>3, <1>4, NilObjectAssumption

LEMMA Counted ==
    ASSUME Types
    PROVE  /\ Churn => churn' \in 0 .. MaxChurn
           /\ Fault => faults' \in 0 .. MaxFaults
BY ClaimBounds DEF Types, Churn, Fault

(* Nothing but the request changes. *)
LEMMA StillStep ==
    ASSUME Types, NEW c \in Owner, req[c].pc # "patch",
           UNCHANGED <<world, server>>, poisoned' = poisoned, Grows,
           churn' \in 0 .. MaxChurn, faults' \in 0 .. MaxFaults,
           lost' \subseteq Owner \X Addr, leaky' \subseteq Owner
    PROVE  Sound(c) /\ OtherTypes' /\ HoldersKept(c) /\ ClaimsKept(c)
<1>1. ips' = ips /\ news' = news /\ cache' = cache /\ server' = server
  BY DEF world
<1>2. HoldersKept(c) /\ ClaimsKept(c) /\ WorldTypes' /\ Told
  BY <1>1, StillKept
<1>. QED BY <1>1, <1>2 DEF Sound, OtherTypes, Types

(* The object stays and the request goes on as t. *)
LEMMA Stays ==
    ASSUME Types, NEW c \in Owner, NEW t \in ReqType, Set(c, t), objs' = objs
    PROVE  Becomes(c, t, objs[c])
BY DEF Types, Becomes, Set

LEMMA AllocateCreateStep ==
    ASSUME ReqInv, NEW c \in Owner, NEW w \in Wants, AllocateCreate(c, w)
    PROVE  OwnStep(c) /\ Sound(c) /\ OtherTypes'
<1>1. /\ req[c].pc = "new" /\ objs' = objs /\ lost' = lost /\ leaky' = leaky
      /\ poisoned' = poisoned /\ churn' = churn /\ faults' = faults
      /\ UNCHANGED <<world, server>>
  BY DEF AllocateCreate, At, ghosts
<1>2. Types
  BY DEF ReqInv
<1>3. Grows
  BY <1>1 DEF Grows
<1>4. Sound(c) /\ OtherTypes' /\ HoldersKept(c) /\ ClaimsKept(c)
  <2>. QED BY <1>1, <1>2, <1>3, StillStep DEF Types
<1>. PICK t : t = [Request("alloc") EXCEPT !.want = w, !.todo = DOMAIN w, !.next = "gone"]
  OBVIOUS
<1>5. t \in ReqType /\ t.pc = "alloc" /\ Shape(t, Nil) /\ Keeps(t, Nil) = {} /\ Spares(t, Nil) = {}
  BY CreateShape
<1>6. objs[c] = Nil /\ Keeps(req[c], objs[c]) = {}
  BY <1>1, <1>2, Known DEF Shape, Keeps, Allocates, Releases
<1>7. Becomes(c, t, objs[c])
  BY <1>1, <1>2, <1>5, Stays DEF AllocateCreate
<1>8. Follows(c, t, objs[c])
  BY <1>1, <1>5, <1>6 DEF Follows
<1>. QED BY <1>3, <1>4, <1>7, <1>8 DEF OwnStep

LEMMA AllocateUpdateStep ==
    ASSUME ReqInv, NEW c \in Owner, NEW w \in Wants, AllocateUpdate(c, w)
    PROVE  OwnStep(c) /\ Sound(c) /\ OtherTypes'
<1>1. /\ req[c].pc = "idle" /\ objs' = objs /\ lost' = lost /\ leaky' = leaky
      /\ poisoned' = poisoned /\ Churn /\ faults' = faults
      /\ UNCHANGED <<world, server>>
  BY DEF AllocateUpdate, At, ghosts
<1>2. Types
  BY DEF ReqInv
<1>3. Grows
  BY <1>1 DEF Grows
<1>4. Sound(c) /\ OtherTypes' /\ HoldersKept(c) /\ ClaimsKept(c)
  <2>1. churn' \in 0 .. MaxChurn
    BY <1>1, <1>2, Counted
  <2>. QED BY <1>1, <1>2, <1>3, <2>1, StillStep DEF Types
<1>. PICK t : t = UpdateRequest(c, w)
  OBVIOUS
<1>5. objs[c] # Nil /\ objs[c] \in SUBSET Addr
  BY <1>1, Known DEF Shape
<1>6. t \in ReqType /\ t.pc = "alloc" /\ Shape(t, objs[c]) /\ Keeps(t, objs[c]) = objs[c]
      /\ Spares(t, objs[c]) = {}
  <2>1. w \in Seq(Addr \union {Ask})
    BY WantsAssumption
  <2>2. \A o \in SUBSET Addr : o = objs[c] /\ o # Nil =>
           t \in ReqType /\ t.pc = "alloc" /\ Shape(t, o) /\ Keeps(t, o) = o /\ Spares(t, o) = {}
    BY <2>1, UpdateShape
  <2>. QED BY <1>5, <2>2
<1>7. Keeps(req[c], objs[c]) = objs[c]
  BY <1>1, <1>5, Known DEF Shape, Keeps, Allocates, Releases
<1>8. Becomes(c, t, objs[c])
  BY <1>1, <1>2, <1>6, Stays DEF AllocateUpdate
<1>9. Follows(c, t, objs[c])
  BY <1>1, <1>6, <1>7 DEF Follows
<1>. QED BY <1>3, <1>4, <1>8, <1>9 DEF OwnStep

LEMMA DeleteObjectStep ==
    ASSUME ReqInv, NEW c \in Owner, DeleteObject(c)
    PROVE  OwnStep(c) /\ Sound(c) /\ OtherTypes'
<1>1. /\ req[c].pc = "idle" /\ objs' = [objs EXCEPT ![c] = Nil] /\ lost' = lost /\ leaky' = leaky
      /\ poisoned' = poisoned /\ Churn /\ faults' = faults
      /\ UNCHANGED <<world, server>>
  BY DEF DeleteObject, At, ghosts
<1>2. Types
  BY DEF ReqInv
<1>3. Grows
  BY <1>1 DEF Grows
<1>4. Sound(c) /\ OtherTypes' /\ HoldersKept(c) /\ ClaimsKept(c)
  <2>1. churn' \in 0 .. MaxChurn
    BY <1>1, <1>2, Counted
  <2>. QED BY <1>1, <1>2, <1>3, <2>1, StillStep DEF Types
<1>. PICK r : r = Request("gone")
  OBVIOUS
<1>5. r \in ReqType /\ r.next = "gone" /\ r.got = {}
  BY DEF Request, ReqType, Claimer
<1>. PICK t : t = Releasing(r, objs[c])
  OBVIOUS
<1>6. objs[c] # Nil /\ objs[c] \in SUBSET Addr
  BY <1>1, Known DEF Shape
<1>7. /\ t \in ReqType /\ t.pc \in {"release", "write", "new", "idle", "gone"}
      /\ Shape(t, Nil)
      /\ \A a \in Addr : a \in Keeps(t, Nil) <=> a \in objs[c]
      /\ \A a \in Addr : a \notin Spares(t, Nil)
  BY <1>5, <1>6, ReleasingShape
<1>8. Keeps(req[c], objs[c]) = objs[c]
  BY <1>1, <1>6, Known DEF Shape, Keeps, Allocates, Releases
<1>9. Becomes(c, t, Nil)
  BY <1>1, <1>7 DEF DeleteObject, Becomes, Set
<1>10. Keeps(t, Nil) \subseteq Addr /\ Spares(t, Nil) \subseteq Addr
  BY <1>7 DEF Keeps, Spares, ReqType
<1>11. Follows(c, t, Nil)
  BY <1>1, <1>6, <1>7, <1>8, <1>10 DEF Follows
<1>. QED BY <1>3, <1>4, <1>9, <1>11 DEF OwnStep

(* A request that ends while it allocates.  The claims it has made stay. *)
LEMMA RefuseFollows ==
    ASSUME ReqInv, NEW c \in Owner, Allocates(req[c]), Set(c, Request(req[c].next)),
           objs' = objs, Grows, req[c].got # {} => c \in leaky',
           req[c].pc = "patch" => ips' = ips \/ c \in leaky'
    PROVE  \E t, p : Becomes(c, t, p) /\ Follows(c, t, p)
<1>1. Types
  BY DEF ReqInv
<1>2. /\ req[c].next \in {"idle", "gone"}
      /\ req[c].next = "idle" => objs[c] # Nil
      /\ req[c].next = "gone" => objs[c] = Nil
  BY Known DEF Shape
<1>3. PICK t : t = Request(req[c].next)
  OBVIOUS
<1>4. /\ t \in ReqType /\ t.pc = req[c].next /\ Shape(t, objs[c])
      /\ Keeps(t, objs[c]) = IF objs[c] = Nil THEN {} ELSE objs[c]
      /\ Spares(t, objs[c]) = {}
  <2>1. PICK p \in {"new", "idle", "gone"} : p = req[c].next
    BY <1>2
  <2>2. objs[c] \in (SUBSET Addr) \union {Nil}
    BY Known
  <2>3. t = Request(p) /\ (p = "idle" => objs[c] # Nil) /\ (p # "idle" => objs[c] = Nil)
    BY <1>2, <1>3, <2>1
  <2>4. \A o \in (SUBSET Addr) \union {Nil} :
           (p = "idle" => o # Nil) /\ (p # "idle" => o = Nil) =>
              /\ t \in ReqType /\ t.pc = p /\ Shape(t, o)
              /\ Keeps(t, o) = IF o = Nil THEN {} ELSE o
              /\ Spares(t, o) = {}
    BY <2>3, RestShape
  <2>. QED BY <2>1, <2>2, <2>3, <2>4
<1>5. \A a \in Keeps(req[c], objs[c]) : a \in Keeps(t, objs[c]) \/ a \in req[c].got
  BY <1>4 DEF Keeps, Allocates, Releases
<1>6. \A a \in Keeps(t, objs[c]) : a \in Keeps(req[c], objs[c])
  BY <1>2, <1>4, Known DEF Keeps
<1>7. req[c].pc = "patch" /\ ClaimOf(ips'[req[c].addr], c)
         => req[c].addr \in Keeps(t, objs[c]) \/ c \in leaky'
  <2>1. SUFFICES ASSUME req[c].pc = "patch", ClaimOf(ips[req[c].addr], c), c \notin leaky'
                 PROVE  req[c].addr \in Keeps(t, objs[c])
    OBVIOUS
  <2>2. req[c].addr \in Addr
    BY <2>1, Known DEF Shape
  <2>3. req[c].addr \in Keeps(req[c], objs[c])
    BY <2>1, <2>2, Known DEF UsedBy, Grows
  <2>. QED BY <1>5, <2>1, <2>3
<1>8. Becomes(c, t, objs[c])
  BY <1>1, <1>3, <1>4, Stays
<1>9. Follows(c, t, objs[c])
  BY <1>2, <1>4, <1>5, <1>6, <1>7 DEF Follows, Allocates
<1>. QED BY <1>8, <1>9

LEMMA NotClaimableStep ==
    ASSUME ReqInv, NEW c \in Owner, NEW a \in Addr, NotClaimable(c, a)
    PROVE  OwnStep(c) /\ Sound(c) /\ OtherTypes'
<1>1. /\ req[c].pc = "alloc" /\ objs' = objs /\ lost' = lost /\ Refuse(c)
      /\ poisoned' = poisoned /\ churn' = churn /\ faults' = faults
      /\ UNCHANGED <<world, server>>
  BY DEF NotClaimable, Wanted, At
<1>2. Types
  BY DEF ReqInv
<1>3. Grows /\ leaky' \subseteq Owner /\ (req[c].got # {} => c \in leaky')
  BY <1>1, <1>2 DEF Grows, Refuse, Types
<1>4. Sound(c) /\ OtherTypes' /\ HoldersKept(c) /\ ClaimsKept(c)
  BY <1>1, <1>2, <1>3, StillStep DEF Types
<1>5. \E t, p : Becomes(c, t, p) /\ Follows(c, t, p)
  BY <1>1, <1>3, RefuseFollows DEF Allocates, Refuse
<1>. QED BY <1>3, <1>4, <1>5 DEF OwnStep

LEMMA NoEphemeralIPStep ==
    ASSUME ReqInv, NEW c \in Owner, NoEphemeralIP(c)
    PROVE  OwnStep(c) /\ Sound(c) /\ OtherTypes'
<1>1. /\ req[c].pc = "alloc" /\ objs' = objs /\ lost' = lost /\ Refuse(c)
      /\ poisoned' = poisoned /\ churn' = churn /\ cache' = cache /\ server' = server
  BY DEF NoEphemeralIP, Wanted, At
<1>2. Types
  BY DEF ReqInv
<1>3. Grows /\ leaky' \subseteq Owner /\ (req[c].got # {} => c \in leaky')
  BY <1>1, <1>2 DEF Grows, Refuse, Types
<1>4. HoldersKept(c) /\ ClaimsKept(c) /\ WorldTypes' /\ Told
  <2>1. CASE UNCHANGED <<ips, news>>
    BY <1>2, <1>3, <2>1, StillKept
  <2>2. CASE \E a \in Addr : ips[a] = Nil /\ PutIP(a, Ephemeral(c))
    BY <1>2, <1>3, <2>2, CreatedKept
  <2>. QED BY <2>1, <2>2 DEF NoEphemeralIP
<1>5. faults' \in 0 .. MaxFaults
  BY <1>2, Counted DEF NoEphemeralIP, Types
<1>6. \E t, p : Becomes(c, t, p) /\ Follows(c, t, p)
  BY <1>1, <1>3, RefuseFollows DEF Allocates, Refuse
<1>7. Sound(c)
  BY <1>1, <1>4 DEF Sound
<1>8. OtherTypes'
  BY <1>1, <1>2, <1>3, <1>4, <1>5 DEF OtherTypes, Types
<1>. QED BY <1>3, <1>4, <1>6, <1>7, <1>8 DEF OwnStep

(* claimIP marks the IP in the lister of the server, and nothing else. *)
Marks(c, a) ==
    /\ server' = server /\ ips' = ips /\ news' = news /\ poisoned' = poisoned
    /\ \A s \in Server, b \in Addr : s # server[c] \/ b # a => cache'[s][b] = cache[s][b]
    /\ cache[server[c]][a] \in IP /\ cache'[server[c]][a] \in IP
    /\ cache'[server[c]][a].owner = cache[server[c]][a].owner
    /\ req[c].pc = "alloc" /\ req'[c].pc = "patch" /\ req'[c].addr = a
    /\ req'[c].saw.owner = cache[server[c]][a].owner

LEMMA claimIPStep ==
    ASSUME ReqInv, NEW c \in Owner, NEW a \in Addr, claimIP(c, a)
    PROVE  OwnStep(c) /\ Marks(c, a) /\ OtherTypes'
<1>1. /\ req[c].pc = "alloc" /\ objs' = objs /\ lost' = lost /\ leaky' = leaky
      /\ poisoned' = poisoned /\ churn' = churn /\ faults' = faults
      /\ ips' = ips /\ news' = news /\ server' = server
  BY DEF claimIP, Wanted, At, ghosts
<1>2. Types
  BY DEF ReqInv
<1>3. Grows
  BY <1>1 DEF Grows
<1>. PICK s \in Server : s = server[c]
  BY <1>2 DEF Types
<1>. PICK u : u = cache[s][a]
  OBVIOUS
<1>4. u \in IP /\ Cached(c, a) = u
  BY <1>2 DEF claimIP, LooksFree, Free, Cached, Types
<1>5. PICK v : v = [u EXCEPT !.claim = Nil]
  OBVIOUS
<1>6. v \in Free /\ v.owner = u.owner
  BY <1>4, <1>5 DEF IP, Claimer, Free
<1>7. PICK d \in Owner :
         Set(c, ToPatch(req[c], a, d, v))
  BY <1>4, <1>5 DEF claimIP, Racing, ToPatch
<1>8. a \in Range(req[c].want)
  <2>1. PICK k \in req[c].todo : req[c].want[k] = a
    BY DEF claimIP, Wanted
  <2>2. k \in DOMAIN req[c].want
    BY <1>1, Known DEF Shape, Allocates
  <2>. QED BY <2>1, <2>2 DEF Range
<1>9. PICK t : t = ToPatch(req[c], a, d, v)
  OBVIOUS
<1>10. /\ t \in ReqType /\ t.pc = "patch" /\ t.addr = a /\ t.saw = v
       /\ Shape(t, objs[c]) /\ Keeps(t, objs[c]) = Keeps(req[c], objs[c])
       /\ Spares(t, objs[c]) = Spares(req[c], objs[c])
  <2>1. \A r \in ReqType, o \in (SUBSET Addr) \union {Nil} :
           Shape(r, o) /\ r.pc = "alloc" /\ a \in Range(r.want)
              /\ t = ToPatch(r, a, d, v) =>
           /\ t \in ReqType /\ t.pc = "patch" /\ t.addr = a /\ t.saw = v
           /\ Shape(t, o) /\ Keeps(t, o) = Keeps(r, o) /\ Spares(t, o) = Spares(r, o)
    BY <1>6, PatchShape
  <2>. QED BY <1>1, <1>8, <1>9, <2>1, Known
<1>11. Becomes(c, t, objs[c])
  BY <1>1, <1>2, <1>7, <1>9, <1>10, Stays
<1>12. Follows(c, t, objs[c])
  BY <1>1, <1>10 DEF Follows
<1>13. HoldersKept(c) /\ ClaimsKept(c) /\ WorldTypes' /\ Told
  BY <1>1, <1>2, <1>3, StillKept
<1>14. cache' = [cache EXCEPT ![s][a] = [u EXCEPT !.claim = c]]
  BY DEF claimIP
<1>15. PICK v2 : v2 = [u EXCEPT !.claim = c]
  OBVIOUS
<1>16. v2 \in IP /\ v2.owner = u.owner
  BY <1>4, <1>15 DEF IP, Claimer
<1>17. cache' = [cache EXCEPT ![s][a] = v2]
  BY <1>14, <1>15
<1>18. /\ cache' \in [Server -> [Addr -> IP \union {Nil}]]
       /\ cache'[s][a] = v2
       /\ \A x \in Server, b \in Addr : x # s \/ b # a => cache'[x][b] = cache[x][b]
  BY <1>2, <1>16, <1>17 DEF Types
<1>19. OtherTypes'
  BY <1>1, <1>2, <1>13, <1>18 DEF OtherTypes, Types
<1>20. req'[c] = t
  BY <1>2, <1>7, <1>9 DEF Set, Types
<1>21. Marks(c, a)
  BY <1>1, <1>4, <1>6, <1>10, <1>16, <1>18, <1>20 DEF Marks
<1>. QED BY <1>3, <1>11, <1>12, <1>13, <1>19, <1>21 DEF OwnStep

(* An address was allocated that c has, or has lost already. *)
LEMMA AllocatedFollows ==
    ASSUME ReqInv, NEW c \in Owner, NEW a \in Addr, Allocates(req[c]), Allocated(c, a),
           objs' = objs, c \in Holders(a)' \/ <<c, a>> \in lost',
           a \in req[c].rel => <<c, a>> \in lost', req[c].pc = "patch" => req[c].addr = a
    PROVE  \E t, p : Becomes(c, t, p) /\ Follows(c, t, p)
<1>1. Types
  BY DEF ReqInv
<1>2. PICK t : t = WithAddress(req[c], a)
  OBVIOUS
<1>3. /\ t \in ReqType /\ t.pc = "alloc" /\ Shape(t, objs[c])
      /\ \A x \in Addr : x \in Keeps(t, objs[c]) <=> x \in Keeps(req[c], objs[c]) \/ x = a
      /\ \A x \in Addr : x \in Spares(t, objs[c]) <=>
                            x \in Spares(req[c], objs[c]) \/ (x = a /\ a \in req[c].rel)
  <2>1. \A r \in ReqType, o \in (SUBSET Addr) \union {Nil} :
           Shape(r, o) /\ Allocates(r)
           /\ t = WithAddress(r, a) =>
           /\ t \in ReqType /\ t.pc = "alloc" /\ Shape(t, o)
           /\ \A x \in Addr : x \in Keeps(t, o) <=> x \in Keeps(r, o) \/ x = a
           /\ \A x \in Addr : x \in Spares(t, o) <=> x \in Spares(r, o) \/ (x = a /\ a \in r.rel)
    BY AllocatedShape
  <2>. QED BY <1>2, <2>1, Known
<1>4. Keeps(t, objs[c]) \subseteq Addr /\ Spares(t, objs[c]) \subseteq Addr
  BY <1>3 DEF Keeps, Spares, ReqType
<1>5. Becomes(c, t, objs[c])
  BY <1>1, <1>2, <1>3, Stays DEF Allocated, WithAddress
<1>6. Keeps(req[c], objs[c]) \subseteq Addr
  BY Known
<1>7. Follows(c, t, objs[c])
  BY <1>3, <1>4, <1>6 DEF Follows, Allocates
<1>. QED BY <1>5, <1>7

LEMMA createEphemeralIPStep ==
    ASSUME ReqInv, NEW c \in Owner, NEW a \in Addr, createEphemeralIP(c, a)
    PROVE  OwnStep(c) /\ Sound(c) /\ OtherTypes'
<1>1. /\ req[c].pc = "alloc" /\ objs' = objs /\ lost' = lost /\ leaky' = leaky
      /\ poisoned' = poisoned /\ churn' = churn /\ faults' = faults
      /\ cache' = cache /\ server' = server /\ ips[a] = Nil /\ Allocated(c, a)
  BY DEF createEphemeralIP, Wanted, At, ghosts
<1>2. Types
  BY DEF ReqInv
<1>3. Grows
  BY <1>1 DEF Grows
<1>4. /\ HoldersKept(c) /\ ClaimsKept(c) /\ WorldTypes' /\ Told
      /\ c \in Holders(a)'
  BY <1>1, <1>2, <1>3, CreatedKept DEF createEphemeralIP
<1>5. ASSUME a \in req[c].rel PROVE <<c, a>> \in lost
  <2>1. a \in Keeps(req[c], objs[c])
    BY <1>1, <1>5, Known DEF Shape, Keeps, Allocates
  <2>2. c \notin Holders(a)
    BY <1>1 DEF Holders
  <2>. QED BY <2>1, <2>2, Known DEF HeldBy
<1>6. \E t, p : Becomes(c, t, p) /\ Follows(c, t, p)
  BY <1>1, <1>4, <1>5, AllocatedFollows DEF Allocates
<1>7. Sound(c)
  BY <1>1, <1>4 DEF Sound
<1>8. OtherTypes'
  BY <1>1, <1>2, <1>4 DEF OtherTypes, Types
<1>. QED BY <1>3, <1>4, <1>6, <1>7, <1>8 DEF OwnStep

(* What a request that is about to patch has in its hands. *)
LEMMA PatchKnown ==
    ASSUME ReqInv, NEW c \in Owner, req[c].pc = "patch"
    PROVE  /\ req[c].addr \in Addr /\ req[c].addr \notin req[c].rel
           /\ req[c].data \in Owner /\ req[c].saw.claim = Nil /\ Allocates(req[c])
<1>1. Allocates(req[c])
  BY DEF Allocates
<1>2. /\ req[c].addr \in Addr /\ req[c].addr \in Range(req[c].want)
      /\ req[c].saw \in Free /\ req[c].data \in Owner
      /\ req[c].rel = IF objs[c] = Nil THEN {} ELSE objs[c] \ Range(req[c].want)
  BY <1>1, Known DEF Shape
<1>. QED BY <1>1, <1>2 DEF Free

LEMMA PatchClaimStep ==
    ASSUME ReqInv, NEW c \in Owner, PatchClaim(c)
    PROVE  OwnStep(c) /\ Sound(c) /\ OtherTypes'
<1>1. /\ req[c].pc = "patch" /\ objs' = objs
      /\ poisoned' = poisoned /\ churn' = churn /\ faults' = faults
      /\ cache' = cache /\ server' = server
  BY DEF PatchClaim, At
<1>2. Types
  BY DEF ReqInv
<1>3. /\ req[c].addr \notin req[c].rel
      /\ req[c].data \in Owner /\ req[c].saw.claim = Nil /\ Allocates(req[c])
  BY <1>1, PatchKnown
<1>4. PICK a \in Addr : a = req[c].addr
  BY <1>1, PatchKnown
<1>5. PICK d \in Owner : d = req[c].data
  BY <1>3
<1>6. CASE /\ SameIP(a, req[c].saw.owner)
           /\ Claims(c, a, d)
           /\ Allocated(c, a)
           /\ leaky' = IF d = c THEN leaky ELSE leaky \union {d}
  <2>1. leaky \subseteq leaky' /\ leaky' \subseteq Owner /\ (d = c \/ d \in leaky')
    BY <1>2, <1>6 DEF Types
  <2>2. /\ HoldersKept(c) /\ ClaimsKept(c) /\ WorldTypes' /\ Told /\ Grows
        /\ c \in Holders(a)' \/ <<c, a>> \in lost'
        /\ ips'[a] \notin Free
    BY <1>1, <1>2, <1>3, <1>4, <1>6, <2>1, ClaimedKept DEF SameIP
  <2>3. lost' \subseteq Owner \X Addr
    <3>1. Holders(a) \subseteq Owner
      BY Known
    <3>. QED BY <1>2, <1>6, <3>1 DEF Types, Claims
  <2>4. \E t, p : Becomes(c, t, p) /\ Follows(c, t, p)
    BY <1>1, <1>3, <1>4, <1>6, <2>2, AllocatedFollows
  <2>5. Sound(c)
    BY <1>1, <1>4, <2>2 DEF Sound
  <2>6. OtherTypes'
    BY <1>1, <1>2, <2>1, <2>2, <2>3 DEF OtherTypes, Types
  <2>. QED BY <2>2, <2>4, <2>5, <2>6 DEF OwnStep
<1>7. CASE ~SameIP(a, req[c].saw.owner) /\ Refuse(c) /\ UNCHANGED <<ips, news, lost>>
  <2>1. Grows /\ leaky' \subseteq Owner /\ (req[c].got # {} => c \in leaky')
    BY <1>2, <1>7 DEF Grows, Refuse, Types
  <2>2. HoldersKept(c) /\ ClaimsKept(c) /\ WorldTypes' /\ Told
    BY <1>2, <1>7, <2>1, StillKept
  <2>3. \E t, p : Becomes(c, t, p) /\ Follows(c, t, p)
    BY <1>1, <1>3, <1>7, <2>1, RefuseFollows DEF Refuse
  <2>4. Sound(c)
    BY <1>1, <1>4, <1>7, <2>2 DEF Sound
  <2>5. OtherTypes'
    BY <1>1, <1>2, <1>7, <2>1, <2>2 DEF OtherTypes, Types
  <2>. QED BY <2>1, <2>2, <2>3, <2>4, <2>5 DEF OwnStep
<1>. QED BY <1>4, <1>5, <1>6, <1>7 DEF PatchClaim

LEMMA PatchFailsStep ==
    ASSUME ReqInv, NEW c \in Owner, PatchFails(c)
    PROVE  OwnStep(c) /\ Sound(c) /\ OtherTypes'
<1>1. /\ req[c].pc = "patch" /\ objs' = objs /\ Set(c, Request(req[c].next))
      /\ churn' = churn /\ Fault /\ cache' = cache /\ server' = server
  BY DEF PatchFails, At
<1>2. Types
  BY DEF ReqInv
<1>3. faults' \in 0 .. MaxFaults
  BY <1>1, <1>2, Counted
<1>4. /\ req[c].data \in Owner /\ req[c].saw.claim = Nil /\ Allocates(req[c])
  BY <1>1, PatchKnown
<1>5. PICK a \in Addr : a = req[c].addr
  BY <1>1, PatchKnown
<1>6. PICK d \in Owner : d = req[c].data
  BY <1>4
<1>7. CASE /\ UNCHANGED <<ips, news, lost>>
           /\ poisoned' = poisoned \union {<<server[c], a>>}
           /\ leaky' = IF req[c].got = {} THEN leaky ELSE leaky \union {c}
  <2>1. Grows /\ leaky' \subseteq Owner /\ (req[c].got # {} => c \in leaky')
    BY <1>2, <1>7 DEF Grows, Types
  <2>2. HoldersKept(c) /\ ClaimsKept(c) /\ WorldTypes' /\ Told
    BY <1>2, <1>7, <2>1, StillKept
  <2>3. \E t, p : Becomes(c, t, p) /\ Follows(c, t, p)
    BY <1>1, <1>4, <1>7, <2>1, RefuseFollows
  <2>4. Sound(c)
    BY <1>1, <1>5, <1>7, <2>2 DEF Sound
  <2>5. OtherTypes'
    BY <1>1, <1>2, <1>3, <1>7, <2>1, <2>2 DEF OtherTypes, Types
  <2>. QED BY <2>1, <2>2, <2>3, <2>4, <2>5 DEF OwnStep
<1>8. CASE /\ SameIP(a, req[c].saw.owner)
           /\ Claims(c, a, d)
           /\ leaky' = leaky \union {c, d}
           /\ UNCHANGED poisoned
  <2>1. leaky \subseteq leaky' /\ leaky' \subseteq Owner /\ c \in leaky' /\ d \in leaky'
    BY <1>2, <1>8 DEF Types
  <2>2. /\ HoldersKept(c) /\ ClaimsKept(c) /\ WorldTypes' /\ Told /\ Grows
        /\ ips'[a] \notin Free
    BY <1>1, <1>2, <1>4, <1>5, <1>8, <2>1, ClaimedKept DEF SameIP
  <2>3. lost' \subseteq Owner \X Addr
    <3>1. Holders(a) \subseteq Owner
      BY Known
    <3>. QED BY <1>2, <1>8, <3>1 DEF Types, Claims
  <2>4. \E t, p : Becomes(c, t, p) /\ Follows(c, t, p)
    BY <1>1, <1>4, <2>1, <2>2, RefuseFollows
  <2>5. Sound(c)
    BY <1>1, <1>5, <1>8, <2>2 DEF Sound
  <2>6. OtherTypes'
    BY <1>1, <1>2, <1>3, <1>8, <2>1, <2>2, <2>3 DEF OtherTypes, Types
  <2>. QED BY <2>2, <2>4, <2>5, <2>6 DEF OwnStep
<1>. QED BY <1>5, <1>6, <1>7, <1>8 DEF PatchFails

(* A request that has releases to do, in terms of what it relied on. *)
LEMMA ReleasingFollows ==
    ASSUME ReqInv, NEW c \in Owner, NEW r \in ReqType, NEW R \in SUBSET Addr,
           NEW p \in (SUBSET Addr) \union {Nil}, NEW t, t = Releasing(r, R),
           req' = [req EXCEPT ![c] = t], objs' = [objs EXCEPT ![c] = p],
           r.next = "idle" => p # Nil, r.next \in {"new", "gone"} => p = Nil,
           r.next = "write" => R \intersect Range(r.want) = {},
           \A a \in Addr :
              \/ p # Nil /\ a \in p /\ (r.next = "write" => a \in Range(r.want))
              \/ a \in r.got /\ r.next = "write"
              \/ a \in R
              => a \in Keeps(req[c], objs[c]) \/ <<c, a>> \in lost',
           \A a \in R :
              \/ p # Nil /\ a \in p /\ (r.next = "write" => a \in Range(r.want))
              \/ a \in r.got /\ r.next = "write"
              => a \in Spares(req[c], objs[c]) \/ <<c, a>> \in lost',
           \A a \in Keeps(req[c], objs[c]) :
              \/ c \in leaky'
              \/ p # Nil /\ a \in p /\ (r.next = "write" => a \in Range(r.want))
              \/ a \in r.got /\ r.next = "write"
              \/ a \in R,
           req[c].pc \notin {"patch", "delete", "unclaim"}
    PROVE  Becomes(c, t, p) /\ Follows(c, t, p)
<1>1. /\ t \in ReqType /\ t.pc \in {"release", "write", "new", "idle", "gone"}
      /\ Shape(t, p)
      /\ \A a \in Addr : a \in Keeps(t, p) <=>
            \/ p # Nil /\ a \in p /\ (r.next = "write" => a \in Range(r.want))
            \/ a \in r.got /\ r.next = "write"
            \/ a \in R
      /\ \A a \in Addr : a \in Spares(t, p) <=>
            /\ a \in R
            /\ \/ p # Nil /\ a \in p /\ (r.next = "write" => a \in Range(r.want))
               \/ a \in r.got /\ r.next = "write"
  BY ReleasingShape
<1>2. Keeps(t, p) \subseteq Addr /\ Spares(t, p) \subseteq Addr
  BY <1>1 DEF Keeps, Spares, ReqType
<1>3. Keeps(req[c], objs[c]) \subseteq Addr
  BY Known
<1>4. Becomes(c, t, p)
  BY <1>1 DEF Becomes
<1>5. Follows(c, t, p)
  BY <1>1, <1>2, <1>3 DEF Follows
<1>. QED BY <1>4, <1>5

LEMMA BegunStep ==
    ASSUME ReqInv, NEW c \in Owner, NEW ok \in BOOLEAN, Begun(c, ok)
    PROVE  OwnStep(c) /\ Sound(c) /\ OtherTypes'
<1>1. /\ req[c].pc = "alloc" /\ objs' = objs
      /\ poisoned' = poisoned /\ churn' = churn /\ faults' = faults
      /\ UNCHANGED <<world, server>>
  BY DEF Begun, Done, At
<1>2. Types
  BY DEF ReqInv
<1>3. PICK r \in ReqType : r = req[c]
  BY Known
<1>4. PICK o \in (SUBSET Addr) \union {Nil} : o = objs[c]
  BY Known
<1>5. /\ r.got \subseteq Addr /\ r.rel \subseteq Addr
      /\ r.pc = "alloc" /\ r.next \in {"idle", "gone"}
      /\ r.next = "idle" => o # Nil
      /\ r.next = "gone" => o = Nil
      /\ r.rel = IF o = Nil THEN {} ELSE o \ Range(r.want)
  BY <1>1, <1>3, <1>4, Known DEF Shape, Allocates, ReqType
<1>6. /\ \A a \in Addr : a \in Keeps(r, o) <=> (o # Nil /\ a \in o) \/ a \in r.got
      /\ \A a \in r.rel : a \in r.got => a \in Spares(r, o)
      /\ Keeps(r, o) \subseteq Addr
  BY <1>5 DEF Keeps, Spares, Allocates, Releases
<1>7. objs' = [objs EXCEPT ![c] = o]
  BY <1>1, <1>2, <1>4 DEF Types
<1>8. CASE /\ ok
           /\ Set(c, Releasing([req[c] EXCEPT !.next = "write"], req[c].rel))
           /\ UNCHANGED <<lost, leaky>>
  <2>1. Grows /\ lost' \subseteq Owner \X Addr /\ leaky' \subseteq Owner
    BY <1>2, <1>8 DEF Grows, Types
  <2>2. PICK u : u = [r EXCEPT !.next = "write"]
    OBVIOUS
  <2>3. u \in ReqType /\ u.next = "write" /\ u.want = r.want /\ u.got = r.got
    BY <2>2 DEF ReqType
  <2>4. PICK t : t = Releasing(u, r.rel)
    OBVIOUS
  <2>5. req' = [req EXCEPT ![c] = t]
    BY <1>3, <1>8, <2>2, <2>4 DEF Set
  <2>6. Becomes(c, t, o) /\ Follows(c, t, o)
    <3>1. r.rel \in SUBSET Addr /\ r.rel \intersect Range(u.want) = {}
      BY <1>5, <2>3
    <3>2. \A a \in Addr : \/ o # Nil /\ a \in o /\ a \in Range(u.want)
                          \/ a \in u.got \/ a \in r.rel
                          => a \in Keeps(r, o)
      BY <1>5, <1>6, <2>3
    <3>3. \A a \in r.rel : \/ o # Nil /\ a \in o /\ a \in Range(u.want)
                           \/ a \in u.got
                           => a \in Spares(r, o)
      BY <1>6, <2>3, <3>1
    <3>4. \A a \in Keeps(r, o) : \/ o # Nil /\ a \in o /\ a \in Range(u.want)
                                \/ a \in u.got \/ a \in r.rel
      BY <1>5, <1>6, <2>3
    <3>. QED BY <1>1, <1>3, <1>4, <1>7, <2>3, <2>4, <2>5, <3>1, <3>2, <3>3, <3>4, ReleasingFollows
  <2>7. Sound(c) /\ OtherTypes' /\ HoldersKept(c) /\ ClaimsKept(c)
    BY <1>1, <1>2, <2>1, StillStep DEF Types
  <2>. QED BY <2>1, <2>6, <2>7 DEF OwnStep
<1>9. CASE /\ ~ok /\ ~Updating(c)
           /\ Set(c, Releasing(req[c], req[c].got))
           /\ UNCHANGED <<lost, leaky>>
  <2>1. Grows /\ lost' \subseteq Owner \X Addr /\ leaky' \subseteq Owner
    BY <1>2, <1>9 DEF Grows, Types
  <2>2. o = Nil
    BY <1>4, <1>9 DEF Updating
  <2>4. PICK t : t = Releasing(r, r.got)
    OBVIOUS
  <2>5. req' = [req EXCEPT ![c] = t]
    BY <1>3, <1>9, <2>4 DEF Set
  <2>6. Becomes(c, t, o) /\ Follows(c, t, o)
    BY <1>1, <1>3, <1>4, <1>5, <1>6, <1>7, <2>2, <2>4, <2>5, ReleasingFollows
  <2>7. Sound(c) /\ OtherTypes' /\ HoldersKept(c) /\ ClaimsKept(c)
    BY <1>1, <1>2, <2>1, StillStep DEF Types
  <2>. QED BY <2>1, <2>6, <2>7 DEF OwnStep
<1>10. CASE /\ ~ok /\ Updating(c)
            /\ Set(c, Releasing(req[c], req[c].rel))
            /\ lost' = lost \union {c} \X req[c].rel
            /\ leaky' = IF req[c].got = {} THEN leaky ELSE leaky \union {c}
  <2>1. /\ Grows /\ lost' \subseteq Owner \X Addr /\ leaky' \subseteq Owner
        /\ \A a \in r.rel : <<c, a>> \in lost'
        /\ r.got # {} => c \in leaky'
    BY <1>2, <1>3, <1>5, <1>10 DEF Grows, Types
  <2>2. o # Nil /\ r.next = "idle"
    BY <1>4, <1>5, <1>10 DEF Updating
  <2>4. PICK t : t = Releasing(r, r.rel)
    OBVIOUS
  <2>5. req' = [req EXCEPT ![c] = t]
    BY <1>3, <1>10, <2>4 DEF Set
  <2>6. Becomes(c, t, o) /\ Follows(c, t, o)
    BY <1>1, <1>3, <1>4, <1>5, <1>6, <1>7, <2>1, <2>2, <2>4, <2>5, ReleasingFollows
  <2>7. Sound(c) /\ OtherTypes' /\ HoldersKept(c) /\ ClaimsKept(c)
    BY <1>1, <1>2, <2>1, StillStep DEF Types
  <2>. QED BY <2>1, <2>6, <2>7 DEF OwnStep
<1>. QED BY <1>8, <1>9, <1>10 DEF Begun

(* What a request that is about to write relies on. *)
LEMMA WriteKnown ==
    ASSUME ReqInv, NEW c \in Owner, req[c].pc = "write"
    PROVE  /\ NewIPs(c) \in SUBSET Addr /\ NewIPs(c) # Nil
           /\ \A a \in Addr : a \in Keeps(req[c], objs[c]) <=> a \in NewIPs(c)
           /\ \A a \in NewIPs(c) : a \in req[c].got \/ (objs[c] # Nil /\ a \in objs[c])
           /\ objs[c] # Nil =>
                 /\ objs[c] \in SUBSET Addr
                 /\ \A a \in objs[c] : a \in Range(req[c].want) => a \in NewIPs(c)
           /\ objs[c] = Nil => NewIPs(c) = req[c].got
           /\ req[c].got \in SUBSET Addr
<1>1. PICK o \in (SUBSET Addr) \union {Nil} : o = objs[c]
  BY Known
<1>2. req[c].next = "write" /\ req[c].got \in SUBSET Addr
  BY Known DEF Shape, ReqType
<1>3. \A a \in Addr : a \in Keeps(req[c], objs[c]) <=>
         (o # Nil /\ a \in o /\ a \in Range(req[c].want)) \/ a \in req[c].got
  BY <1>1, <1>2 DEF Keeps, Releases, Allocates
<1>4. /\ NewIPs(c) \in SUBSET Addr
      /\ \A a \in Addr : a \in NewIPs(c) <=>
            (o # Nil /\ a \in o /\ a \in Range(req[c].want)) \/ a \in req[c].got
      /\ objs[c] = Nil => NewIPs(c) = req[c].got
  BY <1>1, <1>2 DEF NewIPs, Updating
<1>5. NewIPs(c) # Nil
  BY <1>4, NilObjectAssumption
<1>. QED BY <1>1, <1>2, <1>3, <1>4, <1>5

(* An object is written, or an update has ended without a write. *)
LEMMA RestFollows ==
    ASSUME ReqInv, NEW c \in Owner, req[c].pc = "write", NEW p \in SUBSET Addr, p # Nil,
           Set(c, Request("idle")), objs' = [objs EXCEPT ![c] = p],
           \A a \in p : a \in NewIPs(c) \/ <<c, a>> \in lost',
           \A a \in NewIPs(c) : a \in p \/ c \in leaky'
    PROVE  \E t, q : Becomes(c, t, q) /\ Follows(c, t, q)
<1>1. PICK t : t = Request("idle")
  OBVIOUS
<1>2. /\ t \in ReqType /\ t.pc = "idle" /\ Shape(t, p) /\ Keeps(t, p) = p /\ Spares(t, p) = {}
  BY <1>1, RestShape
<1>3. Becomes(c, t, p)
  BY <1>1, <1>2 DEF Becomes, Set
<1>4. Keeps(req[c], objs[c]) \subseteq Addr
      /\ \A a \in Addr : a \in Keeps(req[c], objs[c]) <=> a \in NewIPs(c)
  BY Known, WriteKnown
<1>5. Follows(c, t, p)
  BY <1>2, <1>4 DEF Follows
<1>. QED BY <1>3, <1>5

LEMMA WriteStep ==
    ASSUME ReqInv, NEW c \in Owner, Write(c)
    PROVE  OwnStep(c) /\ Sound(c) /\ OtherTypes'
<1>1. /\ req[c].pc = "write" /\ objs' = [objs EXCEPT ![c] = NewIPs(c)]
      /\ Set(c, Request("idle"))
      /\ lost' = lost /\ leaky' = leaky
      /\ poisoned' = poisoned /\ churn' = churn /\ faults' = faults
      /\ UNCHANGED <<world, server>>
  BY DEF Write, At, ghosts
<1>2. Types
  BY DEF ReqInv
<1>3. Grows /\ lost' \subseteq Owner \X Addr /\ leaky' \subseteq Owner
  BY <1>1, <1>2 DEF Grows, Types
<1>4. Sound(c) /\ OtherTypes' /\ HoldersKept(c) /\ ClaimsKept(c)
  BY <1>1, <1>2, <1>3, StillStep DEF Types
<1>5. \E t, p : Becomes(c, t, p) /\ Follows(c, t, p)
  <2>1. PICK p : p = NewIPs(c)
    OBVIOUS
  <2>2. p \in SUBSET Addr /\ p # Nil
    BY <1>1, <2>1, WriteKnown
  <2>. QED BY <1>1, <2>1, <2>2, RestFollows
<1>. QED BY <1>3, <1>4, <1>5 DEF OwnStep

LEMMA WriteFailsStep ==
    ASSUME ReqInv, NEW c \in Owner, WriteFails(c)
    PROVE  OwnStep(c) /\ Sound(c) /\ OtherTypes'
<1>1. /\ req[c].pc = "write" /\ Fault
      /\ poisoned' = poisoned /\ churn' = churn
      /\ UNCHANGED <<world, server>>
  BY DEF WriteFails, At
<1>2. Types
  BY DEF ReqInv
<1>3. PICK p : p = NewIPs(c)
  OBVIOUS
<1>4. PICK o \in (SUBSET Addr) \union {Nil} : o = objs[c]
  BY Known
<1>5. /\ p \in SUBSET Addr /\ p # Nil
      /\ \A a \in p : a \in req[c].got \/ (o # Nil /\ a \in o)
      /\ o # Nil => \A a \in o : a \in Range(req[c].want) => a \in p
      /\ o = Nil => p = req[c].got
      /\ req[c].got \in SUBSET Addr
      /\ \A a \in Addr : a \in Keeps(req[c], o) <=> a \in p
  BY <1>1, <1>3, <1>4, WriteKnown
<1>6. faults' \in 0 .. MaxFaults
  BY <1>1, <1>2, Counted
<1>7. Grows /\ lost' \subseteq Owner \X Addr /\ leaky' \subseteq Owner
  BY <1>2, <1>4, <1>5 DEF WriteFails, Grows, Types, Updating
<1>8. \E t, q : Becomes(c, t, q) /\ Follows(c, t, q)
  <2> DEFINE end(written) == IF written \/ Updating(c) THEN "idle" ELSE "gone"
             Committed(written) ==
                /\ Set(c, Request(end(written)))
                /\ lost' = IF written \/ ~Updating(c) THEN lost
                           ELSE lost \union {c} \X (objs[c] \ Range(req[c].want))
                /\ leaky' = IF written \/ req[c].got = {} THEN leaky ELSE leaky \union {c}
             Reverted(written) ==
                /\ ~Updating(c)
                /\ Set(c, Releasing(Request(end(written)), req[c].got))
                /\ lost' = IF written THEN lost \union {c} \X req[c].got ELSE lost
                /\ UNCHANGED leaky
  <2>1. PICK written \in BOOLEAN :
           /\ objs' = IF written THEN [objs EXCEPT ![c] = p] ELSE objs
           /\ Committed(written) \/ Reverted(written)
    BY <1>3 DEF WriteFails
  <2>2. CASE Committed(written) /\ written
    BY <1>1, <1>3, <1>5, <2>1, <2>2, RestFollows
  <2>3. CASE Committed(written) /\ Updating(c) /\ ~written
    <3>1. o # Nil /\ o \in SUBSET Addr
      BY <1>4, <2>3 DEF Updating
    <3>2. objs' = [objs EXCEPT ![c] = o]
      BY <1>2, <1>4, <2>1, <2>3 DEF Types
    <3>3. Set(c, Request("idle"))
      BY <2>1, <2>3
    <3>4. \A a \in o : a \in NewIPs(c) \/ <<c, a>> \in lost'
      BY <1>3, <1>4, <1>5, <2>1, <2>3, <3>1
    <3>5. \A a \in NewIPs(c) : a \in o \/ c \in leaky'
      BY <1>3, <1>5, <2>1, <2>3
    <3>. QED BY <1>1, <3>1, <3>2, <3>3, <3>4, <3>5, RestFollows
  <2>4. CASE Committed(written) /\ ~Updating(c) /\ ~written
    <3>1. o = Nil /\ objs' = [objs EXCEPT ![c] = o]
      BY <1>2, <1>4, <2>1, <2>4 DEF Types, Updating
    <3>2. PICK r : r = Request("gone")
      OBVIOUS
    <3>3. r \in ReqType /\ r.next = "gone" /\ r.got = {} /\ Releasing(r, {}) = r
      BY <3>2 DEF Request, ReqType, Claimer, Releasing
    <3>4. req' = [req EXCEPT ![c] = r]
      BY <2>4, <3>2 DEF Set
    <3>5. \A a \in Keeps(req[c], objs[c]) : c \in leaky'
      BY <1>4, <1>5, <2>4, <3>1, Known
    <3>6. {} \in SUBSET Addr
      OBVIOUS
    <3>7. Becomes(c, r, o) /\ Follows(c, r, o)
      BY <1>1, <3>1, <3>3, <3>4, <3>5, <3>6, ReleasingFollows
    <3>. QED BY <3>7
  <2>5. ASSUME Reverted(written), NEW n \in {"idle", "gone"}, n = end(written)
        PROVE  \E t, q : Becomes(c, t, q) /\ Follows(c, t, q)
    <3>1. o = Nil /\ p = req[c].got
      BY <1>4, <1>5, <2>5 DEF Updating
    <3>2. PICK q : q = IF written THEN p ELSE Nil
      OBVIOUS
    <3>3. q \in (SUBSET Addr) \union {Nil} /\ objs' = [objs EXCEPT ![c] = q]
      BY <1>2, <1>4, <1>5, <2>1, <3>1, <3>2 DEF Types
    <3>4. PICK r : r = Request(n)
      OBVIOUS
    <3>5. r \in ReqType /\ r.next = n /\ r.got = {}
      BY <2>5, <3>4 DEF Request, ReqType, Claimer
    <3>6. PICK t : t = Releasing(r, p)
      OBVIOUS
    <3>7. req' = [req EXCEPT ![c] = t]
      BY <2>1, <2>5, <3>1, <3>4, <3>6 DEF Set
    <3>8. \A a \in p : a \in Keeps(req[c], objs[c]) /\ (written => <<c, a>> \in lost')
      BY <1>4, <1>5, <2>1, <2>5, <3>1
    <3>9. \A a \in Keeps(req[c], objs[c]) : a \in p
      BY <1>4, <1>5, Known
    <3>10. q # Nil => written /\ q = p
      BY <3>2
    <3>11. (n = "idle" => q # Nil) /\ (n = "gone" => q = Nil)
      BY <1>5, <2>5, <3>2
    <3>12. Becomes(c, t, q) /\ Follows(c, t, q)
      BY <1>1, <1>5, <2>5, <3>3, <3>5, <3>6, <3>7, <3>8, <3>9, <3>10, <3>11, ReleasingFollows
    <3>. QED BY <3>12
  <2>. QED BY <2>1, <2>2, <2>3, <2>4, <2>5
<1>9. Sound(c) /\ OtherTypes' /\ HoldersKept(c) /\ ClaimsKept(c)
  BY <1>1, <1>2, <1>6, <1>7, StillStep DEF Types
<1>. QED BY <1>7, <1>8, <1>9 DEF OwnStep

LEMMA RerunStep ==
    ASSUME ReqInv, NEW c \in Owner, Rerun(c)
    PROVE  OwnStep(c) /\ Sound(c) /\ OtherTypes'
<1>1. /\ req[c].pc = "write" /\ Fault /\ objs[c] # Nil /\ objs' = objs
      /\ Set(c, UpdateRequest(c, req[c].want))
      /\ lost' = lost \union {c} \X (objs[c] \ Range(req[c].want))
      /\ leaky' = IF req[c].got = {} THEN leaky ELSE leaky \union {c}
      /\ poisoned' = poisoned /\ churn' = churn
      /\ UNCHANGED <<world, server>>
  BY DEF Rerun, At, Updating
<1>2. Types
  BY DEF ReqInv
<1>3. PICK o \in SUBSET Addr : o = objs[c]
  BY <1>1, Known
<1>4. PICK w \in Seq(Addr \union {Ask}) : w = req[c].want
  BY Known DEF ReqType
<1>5. Grows /\ lost' \subseteq Owner \X Addr /\ leaky' \subseteq Owner
  BY <1>1, <1>2, <1>3 DEF Grows, Types
<1>6. faults' \in 0 .. MaxFaults
  BY <1>1, <1>2, Counted
<1>7. Sound(c) /\ OtherTypes' /\ HoldersKept(c) /\ ClaimsKept(c)
  BY <1>1, <1>2, <1>5, <1>6, StillStep DEF Types
<1>8. PICK t : t = UpdateRequest(c, w)
  OBVIOUS
<1>9. t \in ReqType /\ t.pc = "alloc" /\ Shape(t, o) /\ Keeps(t, o) = o /\ Spares(t, o) = {}
  BY <1>1, <1>3, <1>8, UpdateShape
<1>10. Becomes(c, t, objs[c])
  BY <1>1, <1>2, <1>4, <1>8, <1>9, Stays
<1>11. /\ \A a \in Addr : a \in Keeps(req[c], objs[c]) <=> a \in NewIPs(c)
       /\ \A a \in NewIPs(c) : a \in req[c].got \/ a \in o
       /\ \A a \in o : a \in Range(req[c].want) => a \in NewIPs(c)
       /\ Keeps(req[c], objs[c]) \subseteq Addr
  BY <1>1, <1>3, Known, WriteKnown
<1>12. \A a \in o : a \in Keeps(req[c], objs[c]) \/ <<c, a>> \in lost'
  BY <1>1, <1>3, <1>11
<1>13. \A a \in Keeps(req[c], objs[c]) : a \in o \/ c \in leaky'
  BY <1>1, <1>11
<1>14. Follows(c, t, objs[c])
  BY <1>1, <1>3, <1>9, <1>12, <1>13 DEF Follows
<1>. QED BY <1>5, <1>7, <1>10, <1>14 DEF OwnStep

(* The release of a is over: it was done, or it was not needed, or it has
   failed. *)
LEMMA ReleasedFollows ==
    ASSUME ReqInv, NEW c \in Owner, NEW a \in Addr, Releases(req[c]), a \in req[c].rel,
           req[c].pc # "release" => req[c].addr = a,
           Released(c, a), objs' = objs, Grows, ~ClaimOf(ips'[a], c) \/ c \in leaky'
    PROVE  \E t, p : Becomes(c, t, p) /\ Follows(c, t, p)
<1>1. Types
  BY DEF ReqInv
<1>2. PICK r \in ReqType : r = req[c]
  BY Known
<1>3. PICK o \in (SUBSET Addr) \union {Nil} : o = objs[c]
  BY Known
<1>4. /\ r.rel \in SUBSET Addr /\ Shape(r, o) /\ Releases(r) /\ a \in r.rel
      /\ r.pc \in {"release", "delete", "unclaim"}
  BY <1>2, <1>3, Known DEF ReqType, Releases
<1>5. PICK R \in SUBSET Addr : R = r.rel \ {a}
  BY <1>4
<1>6. PICK t : t = Releasing(r, R)
  OBVIOUS
<1>7. /\ t \in ReqType /\ t.pc \in {"release", "write", "new", "idle", "gone"}
      /\ Shape(t, o)
      /\ \A x \in Addr : x \in Keeps(t, o) <=>
            \/ o # Nil /\ x \in o /\ (r.next = "write" => x \in Range(r.want))
            \/ x \in r.got /\ r.next = "write"
            \/ x \in R
      /\ \A x \in Addr : x \in Spares(t, o) <=>
            /\ x \in R
            /\ \/ o # Nil /\ x \in o /\ (r.next = "write" => x \in Range(r.want))
               \/ x \in r.got /\ r.next = "write"
  <2>1. /\ r.next = "idle" => o # Nil
        /\ r.next \in {"new", "gone"} => o = Nil
        /\ r.next = "write" => R \intersect Range(r.want) = {}
    BY <1>4, <1>5 DEF Shape
  <2>. QED BY <1>6, <2>1, ReleasingShape
<1>8. /\ \A x \in Addr : x \in Keeps(r, o) <=>
            \/ o # Nil /\ x \in o /\ (r.next = "write" => x \in Range(r.want))
            \/ x \in r.got /\ r.next = "write"
            \/ x \in r.rel
      /\ \A x \in Addr : x \in Spares(r, o) <=>
            /\ x \in r.rel
            /\ \/ o # Nil /\ x \in o /\ (r.next = "write" => x \in Range(r.want))
               \/ x \in r.got /\ r.next = "write"
  BY <1>4 DEF Keeps, Spares, Allocates, Releases
<1>9. Becomes(c, t, o)
  BY <1>1, <1>2, <1>3, <1>5, <1>6, <1>7, Stays DEF Released
<1>10. /\ Keeps(t, o) \subseteq Addr /\ Spares(t, o) \subseteq Addr
       /\ Keeps(r, o) \subseteq Addr /\ Spares(r, o) \subseteq Addr
  BY <1>4, <1>7 DEF Keeps, Spares, ReqType
<1>11. a \in Keeps(t, o) => <<c, a>> \in lost'
  <2>1. a \in Keeps(t, o) => a \in Spares(r, o)
    BY <1>4, <1>5, <1>7, <1>8
  <2>. QED BY <1>2, <1>3, <2>1, Known DEF HeldBy, Grows
<1>12. \A x \in Keeps(t, o) : x \in Keeps(r, o)
  BY <1>5, <1>7, <1>8, <1>10
<1>13. \A x \in Spares(t, o) : x \in Spares(r, o)
  BY <1>5, <1>7, <1>8, <1>10
<1>14. \A x \in Keeps(r, o) : x \in Keeps(t, o) \/ x = a
  BY <1>5, <1>7, <1>8, <1>10
<1>15. Follows(c, t, o)
  BY <1>2, <1>3, <1>4, <1>7, <1>11, <1>12, <1>13, <1>14 DEF Follows
<1>. QED BY <1>9, <1>15

LEMMA releaseStep ==
    ASSUME ReqInv, NEW c \in Owner, NEW a \in Addr, release(c, a)
    PROVE  OwnStep(c) /\ Sound(c) /\ OtherTypes'
<1>1. /\ req[c].pc = "release" /\ a \in req[c].rel /\ objs' = objs
      /\ lost' = lost /\ leaky' = leaky
      /\ poisoned' = poisoned /\ churn' = churn /\ faults' = faults
      /\ UNCHANGED <<world, server>>
  BY DEF release, At, ghosts
<1>2. Types /\ ips' = ips
  BY <1>1 DEF ReqInv, world
<1>3. Grows /\ lost' \subseteq Owner \X Addr /\ leaky' \subseteq Owner
  BY <1>1, <1>2 DEF Grows, Types
<1>4. Sound(c) /\ OtherTypes' /\ HoldersKept(c) /\ ClaimsKept(c)
  BY <1>1, <1>2, <1>3, StillStep DEF Types
<1>5. \E t, p : Becomes(c, t, p) /\ Follows(c, t, p)
  <2>1. CASE /\ ips[a] = Nil \/ (ips[a].owner = Nil /\ ips[a].claim = Nil)
             /\ Released(c, a)
    <3>1. ~ClaimOf(ips'[a], c)
      BY <1>2, <2>1, ClaimAssumption DEF ClaimOf
    <3>. QED BY <1>1, <1>3, <2>1, <3>1, ReleasedFollows DEF Releases
  <2>2. CASE /\ ips[a] # Nil
             /\ Set(c, [req[c] EXCEPT !.pc = IF ips[a].owner # Nil THEN "delete" ELSE "unclaim",
                                      !.addr = a, !.saw = ips[a]])
    <3>1. PICK v \in IP : v = ips[a]
      BY <1>2, <2>2 DEF Types
    <3>2. PICK q \in {"delete", "unclaim"} : q = IF ips[a].owner # Nil THEN "delete" ELSE "unclaim"
      OBVIOUS
    <3>3. PICK t : t = ToRelease(req[c], q, a, v)
      OBVIOUS
    <3>4. Set(c, t)
      BY <2>2, <3>1, <3>2, <3>3 DEF ToRelease
    <3>5. q = "unclaim" => v.owner = Nil
      BY <3>1, <3>2
    <3>6. /\ t \in ReqType /\ t.pc = q /\ t.addr = a /\ t.saw = v
          /\ Shape(t, objs[c]) /\ Keeps(t, objs[c]) = Keeps(req[c], objs[c])
          /\ Spares(t, objs[c]) = Spares(req[c], objs[c])
      <4>1. \A r \in ReqType, o \in (SUBSET Addr) \union {Nil} :
               Shape(r, o) /\ r.pc = "release" /\ a \in r.rel /\ t = ToRelease(r, q, a, v) =>
               /\ t \in ReqType /\ t.pc = q /\ t.addr = a /\ t.saw = v
               /\ Shape(t, o) /\ Keeps(t, o) = Keeps(r, o) /\ Spares(t, o) = Spares(r, o)
        BY <3>5, LookShape
      <4>. QED BY <1>1, <3>3, <4>1, Known
    <3>7. Becomes(c, t, objs[c])
      BY <1>1, <1>2, <3>4, <3>6, Stays
    <3>8. Follows(c, t, objs[c])
      BY <1>1, <1>2, <3>1, <3>6 DEF Follows
    <3>. QED BY <3>7, <3>8
  <2>. QED BY <2>1, <2>2 DEF release
<1>. QED BY <1>3, <1>4, <1>5 DEF OwnStep

(* What a request that has looked an IP up to release it knows. *)
LEMMA LookKnown ==
    ASSUME ReqInv, NEW c \in Owner, req[c].pc \in {"delete", "unclaim"}
    PROVE  /\ req[c].addr \in Addr /\ req[c].addr \in req[c].rel /\ Releases(req[c])
           /\ <<c, req[c].addr>> \in lost \/ c \in Holders(req[c].addr)
           /\ ClaimOf(ips[req[c].addr], c) =>
                 c \in leaky \/ SameIP(req[c].addr, req[c].saw.owner)
           /\ req[c].pc = "unclaim" => req[c].saw.owner = Nil
<1>1. /\ req[c].addr \in req[c].rel /\ Releases(req[c])
      /\ req[c].pc = "unclaim" => req[c].saw.owner = Nil
  BY Known DEF Shape, Releases
<1>2. req[c].addr \in Addr /\ req[c].addr \in Keeps(req[c], objs[c])
  BY <1>1, Known DEF ReqType, Keeps
<1>3. <<c, req[c].addr>> \in lost \/ c \in Holders(req[c].addr)
  BY <1>2, Known DEF HeldBy
<1>4. ClaimOf(ips[req[c].addr], c) => c \in leaky \/ SameIP(req[c].addr, req[c].saw.owner)
  BY <1>2, Known DEF UsedBy, ClaimOf, SameIP
<1>. QED BY <1>1, <1>2, <1>3, <1>4

LEMMA DeleteEphemeralStep ==
    ASSUME ReqInv, NEW c \in Owner, DeleteEphemeral(c)
    PROVE  OwnStep(c) /\ Sound(c) /\ OtherTypes'
<1>1. /\ req[c].pc = "delete" /\ objs' = objs /\ leaky' = leaky
      /\ poisoned' = poisoned /\ churn' = churn /\ faults' = faults
      /\ cache' = cache /\ server' = server
  BY DEF DeleteEphemeral, At
<1>2. Types
  BY DEF ReqInv
<1>3. PICK a \in Addr : a = req[c].addr
  BY <1>1, LookKnown
<1>4. /\ a \in req[c].rel /\ Releases(req[c])
      /\ ClaimOf(ips[a], c) => c \in leaky \/ SameIP(a, req[c].saw.owner)
  BY <1>1, <1>3, LookKnown
<1>5. /\ Grows /\ lost' \subseteq Owner \X Addr /\ leaky' \subseteq Owner
      /\ HoldersKept(c) /\ ClaimsKept(c) /\ WorldTypes' /\ Told
      /\ ~ClaimOf(ips'[a], c) \/ c \in leaky'
  <2>1. CASE /\ SameIP(a, req[c].saw.owner) /\ PutIP(a, Nil)
             /\ lost' = lost \union (Holders(a) \ {c}) \X {a}
    <3>1. Holders(a) \subseteq Owner
      BY Known
    <3>2. Grows /\ lost' \subseteq Owner \X Addr /\ leaky' \subseteq Owner
      BY <1>1, <1>2, <2>1, <3>1 DEF Grows, Types
    <3>3. \A x \in Holders(a) : <<x, a>> \in lost' \/ (x = c /\ req[c].pc = "delete" /\ req[c].addr = a)
      BY <1>1, <1>3, <2>1
    <3>4. HoldersKept(c) /\ ClaimsKept(c) /\ WorldTypes' /\ Told /\ ips'[a] = Nil
      BY <1>2, <2>1, <3>2, <3>3, GoneKept
    <3>. QED BY <3>2, <3>4 DEF ClaimOf
  <2>2. CASE ~SameIP(a, req[c].saw.owner) /\ UNCHANGED <<ips, news, lost>>
    <3>1. Grows /\ lost' \subseteq Owner \X Addr /\ leaky' \subseteq Owner
      BY <1>1, <1>2, <2>2 DEF Grows, Types
    <3>2. HoldersKept(c) /\ ClaimsKept(c) /\ WorldTypes' /\ Told
      BY <1>2, <2>2, <3>1, StillKept
    <3>. QED BY <1>1, <1>4, <2>2, <3>1, <3>2
  <2>. QED BY <1>3, <2>1, <2>2 DEF DeleteEphemeral
<1>6. \E t, p : Becomes(c, t, p) /\ Follows(c, t, p)
  BY <1>1, <1>3, <1>4, <1>5, ReleasedFollows DEF DeleteEphemeral
<1>7. Sound(c)
  BY <1>1, <1>5 DEF Sound
<1>8. OtherTypes'
  BY <1>1, <1>2, <1>5 DEF OtherTypes, Types
<1>. QED BY <1>5, <1>6, <1>7, <1>8 DEF OwnStep

LEMMA releaseIPStep ==
    ASSUME ReqInv, NEW c \in Owner, releaseIP(c)
    PROVE  OwnStep(c) /\ Sound(c) /\ OtherTypes'
<1>1. /\ req[c].pc = "unclaim" /\ objs' = objs /\ leaky' = leaky
      /\ poisoned' = poisoned /\ churn' = churn /\ faults' = faults
      /\ cache' = cache /\ server' = server
  BY DEF releaseIP, At
<1>2. Types
  BY DEF ReqInv
<1>3. PICK a \in Addr : a = req[c].addr
  BY <1>1, LookKnown
<1>4. /\ a \in req[c].rel /\ Releases(req[c])
      /\ ClaimOf(ips[a], c) => c \in leaky \/ SameIP(a, Nil)
      /\ <<c, a>> \in lost \/ c \in Holders(a)
  BY <1>1, <1>3, LookKnown
<1>5. /\ Grows /\ lost' \subseteq Owner \X Addr /\ leaky' \subseteq Owner
      /\ HoldersKept(c) /\ ClaimsKept(c) /\ WorldTypes' /\ Told
      /\ ~ClaimOf(ips'[a], c) \/ c \in leaky'
  <2>1. CASE /\ SameIP(a, Nil) /\ PutIP(a, [ips[a] EXCEPT !.claim = Nil])
             /\ lost' = IF <<c, a>> \in lost THEN lost \union Holders(a) \X {a} ELSE lost
    <3>1. Holders(a) \subseteq Owner
      BY Known
    <3>2. Grows /\ lost' \subseteq Owner \X Addr /\ leaky' \subseteq Owner
      BY <1>1, <1>2, <2>1, <3>1 DEF Grows, Types
    <3>3. <<c, a>> \in lost => Holders(a) \X {a} \subseteq lost'
      BY <2>1
    <3>4. HoldersKept(c) /\ ClaimsKept(c) /\ WorldTypes' /\ Told /\ ~ClaimOf(ips'[a], c)
      BY <1>1, <1>2, <1>3, <1>4, <2>1, <3>2, <3>3, UnclaimedKept
    <3>. QED BY <3>2, <3>4
  <2>2. CASE ~SameIP(a, Nil) /\ UNCHANGED <<ips, news, lost>>
    <3>1. Grows /\ lost' \subseteq Owner \X Addr /\ leaky' \subseteq Owner
      BY <1>1, <1>2, <2>2 DEF Grows, Types
    <3>2. HoldersKept(c) /\ ClaimsKept(c) /\ WorldTypes' /\ Told
      BY <1>2, <2>2, <3>1, StillKept
    <3>. QED BY <1>1, <1>4, <2>2, <3>1, <3>2
  <2>. QED BY <1>3, <2>1, <2>2 DEF releaseIP
<1>6. \E t, p : Becomes(c, t, p) /\ Follows(c, t, p)
  BY <1>1, <1>3, <1>4, <1>5, ReleasedFollows DEF releaseIP
<1>7. Sound(c)
  BY <1>1, <1>5 DEF Sound
<1>8. OtherTypes'
  BY <1>1, <1>2, <1>5 DEF OtherTypes, Types
<1>. QED BY <1>5, <1>6, <1>7, <1>8 DEF OwnStep

LEMMA ReleaseFailsStep ==
    ASSUME ReqInv, NEW c \in Owner, ReleaseFails(c)
    PROVE  OwnStep(c) /\ Sound(c) /\ OtherTypes'
<1>1. /\ req[c].pc \in {"delete", "unclaim"} /\ Fault /\ objs' = objs
      /\ Released(c, req[c].addr)
      /\ lost' = lost /\ leaky' = leaky \union {c}
      /\ poisoned' = poisoned /\ churn' = churn
      /\ UNCHANGED <<world, server>>
  BY DEF ReleaseFails
<1>2. Types
  BY DEF ReqInv
<1>3. Grows /\ lost' \subseteq Owner \X Addr /\ leaky' \subseteq Owner /\ c \in leaky'
  BY <1>1, <1>2 DEF Grows, Types
<1>4. faults' \in 0 .. MaxFaults
  BY <1>1, <1>2, Counted
<1>5. Sound(c) /\ OtherTypes' /\ HoldersKept(c) /\ ClaimsKept(c)
  BY <1>1, <1>2, <1>3, <1>4, StillStep DEF Types
<1>6. PICK a \in Addr : a = req[c].addr
  BY <1>1, LookKnown
<1>7. a \in req[c].rel /\ Releases(req[c])
  BY <1>1, <1>6, LookKnown
<1>8. \E t, p : Becomes(c, t, p) /\ Follows(c, t, p)
  BY <1>1, <1>3, <1>6, <1>7, ReleasedFollows
<1>. QED BY <1>3, <1>5, <1>8 DEF OwnStep

-----------------------------------------------------------------------------
(***************************************************************************)
(* The steps of others: users, garbage collector, informers, restarts      *)
(***************************************************************************)

LEMMA WorldKeeps ==
    ASSUME ReqInv, req' = req, objs' = objs, Grows,
           \A x \in Owner, a \in Addr : x \in Holders(a) => x \in Holders(a)' \/ <<x, a>> \in lost',
           \A x \in Owner, a \in Addr :
              ClaimOf(ips'[a], x) => ClaimOf(ips[a], x) /\ ips'[a].owner = ips[a].owner
    PROVE  ShapeInv' /\ HeldInv' /\ UsedInv'
<1>1. ShapeInv'
  BY DEF ReqInv, ShapeInv
<1>2. ASSUME NEW c \in Owner PROVE HeldBy(c)' /\ UsedBy(c)'
  <2>1. Keeps(req[c], objs[c]) \subseteq Addr /\ Spares(req[c], objs[c]) \subseteq Addr
        /\ HeldBy(c) /\ UsedBy(c)
    BY Known
  <2>2. HeldBy(c)'
    BY <2>1 DEF HeldBy, Grows
  <2>3. UsedBy(c)'
    BY <2>1 DEF UsedBy, Grows
  <2>. QED BY <2>2, <2>3
<1>. QED BY <1>1, <1>2 DEF HeldInv, UsedInv

LEMMA GoneStep ==
    ASSUME ReqInv, NEW a \in Addr, PutIP(a, Nil), lost' = lost \union Holders(a) \X {a},
           UNCHANGED <<cache, server, objs, req, leaky, poisoned>>,
           churn' \in 0 .. MaxChurn, faults' \in 0 .. MaxFaults
    PROVE  Types' /\ ShapeInv' /\ HeldInv' /\ UsedInv' /\ Told
<1>1. Types
  BY DEF ReqInv
<1>2. Grows
  BY DEF Grows
<1>3. /\ ips'[a] = Nil /\ \A b \in Addr \ {a} : ips'[b] = ips[b]
      /\ WorldTypes' /\ Told
  BY <1>1, PutEffect
<1>4. \A b \in Addr \ {a} : Holders(b)' = Holders(b)
  BY <1>3 DEF Holders
<1>5. \A x \in Owner, b \in Addr : x \in Holders(b) => x \in Holders(b)' \/ <<x, b>> \in lost'
  BY <1>4
<1>6. \A x \in Owner, b \in Addr :
         ClaimOf(ips'[b], x) => ClaimOf(ips[b], x) /\ ips'[b].owner = ips[b].owner
  BY <1>3 DEF ClaimOf
<1>7. ShapeInv' /\ HeldInv' /\ UsedInv'
  BY <1>2, <1>5, <1>6, WorldKeeps
<1>8. lost' \subseteq Owner \X Addr
  <2>1. Holders(a) \subseteq Owner
    BY <1>1 DEF Types, Holders, IP, Claimer
  <2>. QED BY <1>1, <2>1 DEF Types
<1>9. Types'
  BY <1>1, <1>3, <1>8 DEF Types, WorldTypes
<1>. QED BY <1>3, <1>7, <1>9

LEMMA DeliverStep ==
    ASSUME ReqInv, NEW s \in Server, NEW a \in Addr, Deliver(s, a)
    PROVE  Types' /\ ShapeInv' /\ HeldInv' /\ UsedInv'
<1>1. Types /\ ips' = ips /\ req' = req /\ objs' = objs /\ lost' = lost /\ leaky' = leaky
  BY DEF ReqInv, Deliver
<1>2. \A b \in Addr : Holders(b)' = Holders(b)
  BY <1>1 DEF Holders
<1>3. Grows
  BY <1>1 DEF Grows
<1>4. ShapeInv' /\ HeldInv' /\ UsedInv'
  BY <1>1, <1>2, <1>3, WorldKeeps
<1>5. /\ news' \in [Server -> SUBSET Addr]
      /\ cache' \in [Server -> [Addr -> IP \union {Nil}]]
      /\ poisoned' \subseteq Server \X Addr
  BY <1>1 DEF Deliver, Types
<1>6. Types'
  BY <1>1, <1>5 DEF Types, Deliver
<1>. QED BY <1>4, <1>6

(* The requests that a server takes with it. *)
Broken(s) == {c \in Owner : server[c] = s /\ req[c].pc \notin {"new", "idle", "gone"}}

LEMMA CrashStep ==
    ASSUME ReqInv, NEW s \in Server, Crash(s)
    PROVE  Types' /\ ShapeInv' /\ HeldInv' /\ UsedInv'
<1>1. /\ Types /\ ips' = ips /\ objs' = objs /\ server' = server /\ churn' = churn
      /\ Fault /\ leaky' = leaky \union Broken(s)
      /\ req' = [c \in Owner |->
                   IF c \in Broken(s) THEN Request(IF Updating(c) THEN "idle" ELSE "gone")
                   ELSE req[c]]
      /\ lost' = lost \union UNION {{c} \X (objs[c] \ Range(req[c].want)) :
                                       c \in {d \in Broken(s) : Updating(d)}}
      /\ cache' = [cache EXCEPT ![s] = ips]
      /\ news' = [news EXCEPT ![s] = {}]
      /\ poisoned' = {x \in poisoned : x[1] # s}
  BY DEF ReqInv, Crash, Broken
<1>2. Grows
  BY <1>1 DEF Grows
<1>3. \A b \in Addr : Holders(b)' = Holders(b)
  BY <1>1 DEF Holders
<1>4. ASSUME NEW c \in Owner, c \notin Broken(s)
      PROVE  req'[c] \in ReqType /\ Shape(req'[c], objs'[c]) /\ HeldBy(c)' /\ UsedBy(c)'
  <2>1. req'[c] = req[c] /\ objs'[c] = objs[c]
    BY <1>1, <1>4
  <2>2. /\ Keeps(req[c], objs[c]) \subseteq Addr /\ Spares(req[c], objs[c]) \subseteq Addr
        /\ HeldBy(c) /\ UsedBy(c) /\ Shape(req[c], objs[c]) /\ req[c] \in ReqType
    BY Known
  <2>3. HeldBy(c)'
    BY <1>2, <1>3, <2>1, <2>2 DEF HeldBy, Grows
  <2>4. UsedBy(c)'
    BY <1>1, <1>2, <2>1, <2>2 DEF UsedBy, Grows
  <2>. QED BY <2>1, <2>2, <2>3, <2>4
<1>5. ASSUME NEW c \in Broken(s)
      PROVE  req'[c] \in ReqType /\ Shape(req'[c], objs'[c]) /\ HeldBy(c)' /\ UsedBy(c)'
  <2>0. c \in Owner
    BY DEF Broken
  <2>1. PICK o \in (SUBSET Addr) \union {Nil} : o = objs[c]
    BY <2>0, Known
  <2>2. PICK p \in {"new", "idle", "gone"} : p = IF o # Nil THEN "idle" ELSE "gone"
    OBVIOUS
  <2>3. PICK t : t = Request(p)
    OBVIOUS
  <2>4. req'[c] = t /\ objs'[c] = o
    BY <1>1, <1>5, <2>0, <2>1, <2>2, <2>3 DEF Updating
  <2>5. (p = "idle" => o # Nil) /\ (p # "idle" => o = Nil)
    BY <2>2
  <2>6. /\ t \in ReqType /\ Shape(t, o) /\ Keeps(t, o) = IF o = Nil THEN {} ELSE o
        /\ Spares(t, o) = {}
    BY <2>3, <2>5, RestShape
  <2>7. ASSUME o # Nil, NEW a \in o PROVE <<c, a>> \in lost' \/ c \in Holders(a)
    <3>0. a \in Addr
      BY <2>1, <2>7
    <3>1. CASE a \in Range(req[c].want)
      <4>1. a \in Keeps(req[c], objs[c])
        BY <2>1, <2>7, <3>0, <3>1 DEF Keeps
      <4>. QED BY <1>2, <2>0, <4>1, Known DEF HeldBy, Grows
    <3>2. CASE a \notin Range(req[c].want)
      <4>1. Updating(c) /\ a \in objs[c] \ Range(req[c].want)
        BY <2>1, <2>7, <3>2 DEF Updating
      <4>. QED BY <1>1, <1>5, <4>1
    <3>. QED BY <3>1, <3>2
  <2>8. HeldBy(c)'
    <3>1. \A a \in Keeps(t, o) : <<c, a>> \in lost' \/ c \in Holders(a)'
      BY <1>3, <2>1, <2>6, <2>7
    <3>. QED BY <2>4, <2>6, <3>1 DEF HeldBy
  <2>9. UsedBy(c)'
    BY <1>1, <1>5 DEF UsedBy
  <2>. QED BY <2>4, <2>6, <2>8, <2>9
<1>6. ShapeInv' /\ HeldInv' /\ UsedInv' /\ req' \in [Owner -> ReqType]
  BY <1>1, <1>4, <1>5 DEF ShapeInv, HeldInv, UsedInv
<1>7. /\ news' \in [Server -> SUBSET Addr]
      /\ cache' \in [Server -> [Addr -> IP \union {Nil}]]
      /\ poisoned' \subseteq Server \X Addr
      /\ leaky' \subseteq Owner
  BY <1>1 DEF Types, Broken
<1>8. lost' \subseteq Owner \X Addr
  <2>1. ASSUME NEW c \in Broken(s), Updating(c)
        PROVE  {c} \X (objs[c] \ Range(req[c].want)) \subseteq Owner \X Addr
    BY <1>1, <2>1 DEF Types, Broken, Updating
  <2>. QED BY <1>1, <2>1 DEF Types
<1>9. faults' \in 0 .. MaxFaults
  BY <1>1, Counted
<1>10. Types'
  BY <1>1, <1>6, <1>7, <1>8, <1>9 DEF Types
<1>. QED BY <1>6, <1>10

-----------------------------------------------------------------------------
(***************************************************************************)
(* The listers                                                             *)
(***************************************************************************)

(* CacheInv for one server and one address. *)
Agrees(s, a) ==
    a \notin news[s] =>
       /\ ips[a] = Nil => cache[s][a] = Nil
       /\ ips[a] # Nil => cache[s][a] # Nil /\ cache[s][a].owner = ips[a].owner
       /\ ips[a] \in Free => \/ <<s, a>> \in poisoned
                             \/ cache[s][a] \in Free
                             \/ PatchOf(s, a) # {}

(* A step that leaves the lister and the IP alone, and the patches too, or
   remembers them. *)
LEMMA AgreesKept ==
    ASSUME CacheInv, NEW s \in Server, NEW a \in Addr,
           a \notin news'[s] =>
              /\ a \notin news[s] /\ ips'[a] = ips[a] /\ cache'[s][a] = cache[s][a]
              /\ <<s, a>> \in poisoned => <<s, a>> \in poisoned',
           \A d \in PatchOf(s, a) : \/ req'[d] = req[d] /\ server'[d] = server[d]
                                    \/ ips'[a] \notin Free \/ <<s, a>> \in poisoned'
    PROVE  Agrees(s, a)'
<1>1. SUFFICES ASSUME a \notin news'[s] PROVE Agrees(s, a)'
  BY DEF Agrees
<1>2. /\ a \notin news[s] /\ ips'[a] = ips[a] /\ cache'[s][a] = cache[s][a]
      /\ <<s, a>> \in poisoned => <<s, a>> \in poisoned'
  BY <1>1
<1>3. Agrees(s, a)
  BY DEF CacheInv, Agrees
<1>4. ASSUME ips'[a] \in Free, <<s, a>> \notin poisoned', cache[s][a] \notin Free
      PROVE  PatchOf(s, a)' # {}
  <2>1. PICK d : d \in PatchOf(s, a)
    BY <1>2, <1>3, <1>4 DEF Agrees
  <2>2. req'[d] = req[d] /\ server'[d] = server[d]
    BY <1>4, <2>1
  <2>3. d \in PatchOf(s, a)'
    BY <1>2, <2>1, <2>2 DEF PatchOf, At, SameIP
  <2>. QED BY <2>3
<1>. QED BY <1>2, <1>3, <1>4 DEF Agrees

LEMMA SoundAgrees ==
    ASSUME Types, CacheInv, NEW c \in Owner, OwnStep(c), Sound(c)
    PROVE  CacheInv'
<1>1. \A d \in Owner \ {c} : req'[d] = req[d]
  BY DEF OwnStep, Becomes, Types
<1>2. ASSUME NEW s \in Server, NEW a \in Addr PROVE Agrees(s, a)'
  <2>1. a \notin news'[s] =>
           /\ a \notin news[s] /\ ips'[a] = ips[a] /\ cache'[s][a] = cache[s][a]
           /\ <<s, a>> \in poisoned => <<s, a>> \in poisoned'
    BY DEF Sound, Told
  <2>2. ASSUME NEW d \in PatchOf(s, a)
        PROVE  \/ req'[d] = req[d] /\ server'[d] = server[d]
               \/ ips'[a] \notin Free \/ <<s, a>> \in poisoned'
    <3>1. /\ d \in Owner /\ server[d] = s /\ req[d].pc = "patch" /\ req[d].addr = a
          /\ SameIP(a, req[d].saw.owner)
      BY DEF PatchOf, At
    <3>2. CASE d = c
      BY <3>1, <3>2 DEF Sound
    <3>3. CASE d # c
      BY <1>1, <3>1, <3>3 DEF Sound
    <3>. QED BY <3>2, <3>3
  <2>. QED BY <2>1, <2>2, AgreesKept
<1>. QED BY <1>2 DEF CacheInv, Agrees

LEMMA MarksAgrees ==
    ASSUME Types, CacheInv, NEW c \in Owner, NEW a \in Addr, OwnStep(c), Marks(c, a)
    PROVE  CacheInv'
<1>1. \A d \in Owner \ {c} : req'[d] = req[d]
  BY DEF OwnStep, Becomes, Types
<1>2. ASSUME NEW s \in Server, NEW b \in Addr, s # server[c] \/ b # a PROVE Agrees(s, b)'
  <2>1. b \notin news'[s] =>
           /\ b \notin news[s] /\ ips'[b] = ips[b] /\ cache'[s][b] = cache[s][b]
           /\ <<s, b>> \in poisoned => <<s, b>> \in poisoned'
    BY <1>2 DEF Marks
  <2>2. ASSUME NEW d \in PatchOf(s, b) PROVE req'[d] = req[d] /\ server'[d] = server[d]
    BY <1>1 DEF PatchOf, At, Marks
  <2>. QED BY <2>1, <2>2, AgreesKept
<1>3. Agrees(server[c], a)
  BY DEF CacheInv, Agrees, Types
<1>4. PICK s \in Server : s = server[c] /\ Agrees(s, a)
  BY <1>3 DEF Types
<1>5. Agrees(s, a)'
  <2>1. SUFFICES ASSUME a \notin news'[s] PROVE Agrees(s, a)'
    BY DEF Agrees
  <2>2. ips'[a] = ips[a] /\ a \notin news[s] /\ cache[s][a] \in IP /\ cache'[s][a] \in IP
        /\ cache'[s][a].owner = cache[s][a].owner
    BY <1>4, <2>1 DEF Marks
  <2>3. cache[s][a] # Nil /\ cache'[s][a] # Nil
    BY <2>2, NilObjectAssumption
  <2>4. ips[a] # Nil /\ cache[s][a].owner = ips[a].owner
    BY <1>4, <2>2, <2>3 DEF Agrees
  <2>5. c \in PatchOf(s, a)'
    BY <1>4, <2>2, <2>4 DEF PatchOf, At, SameIP, Marks
  <2>. QED BY <2>2, <2>3, <2>4, <2>5 DEF Agrees
<1>6. ASSUME NEW x \in Server, NEW b \in Addr PROVE Agrees(x, b)'
  <2>1. CASE x # server[c] \/ b # a
    BY <1>2, <2>1
  <2>2. CASE x = server[c] /\ b = a
    BY <1>4, <1>5, <2>2
  <2>. QED BY <2>1, <2>2
<1>. QED BY <1>6 DEF CacheInv, Agrees

LEMMA GoneAgrees ==
    ASSUME CacheInv, Told, UNCHANGED <<cache, server, req, poisoned>>
    PROVE  CacheInv'
<1>1. ASSUME NEW s \in Server, NEW a \in Addr PROVE Agrees(s, a)'
  <2>1. a \notin news'[s] =>
           /\ a \notin news[s] /\ ips'[a] = ips[a] /\ cache'[s][a] = cache[s][a]
           /\ <<s, a>> \in poisoned => <<s, a>> \in poisoned'
    BY DEF Told
  <2>. QED BY <2>1, AgreesKept
<1>. QED BY <1>1 DEF CacheInv, Agrees

LEMMA DeliverAgrees ==
    ASSUME Types, CacheInv, NEW x \in Server, NEW b \in Addr, Deliver(x, b)
    PROVE  CacheInv'
<1>1. /\ ips' = ips /\ req' = req /\ server' = server /\ poisoned' = poisoned \ {<<x, b>>}
      /\ news'[x] = news[x] \ {b} /\ \A s \in Server \ {x} : news'[s] = news[s]
      /\ cache'[x][b] = ips[b]
      /\ \A s \in Server, a \in Addr : s # x \/ a # b => cache'[s][a] = cache[s][a]
  BY DEF Deliver, Types
<1>2. ASSUME NEW s \in Server, NEW a \in Addr, s # x \/ a # b PROVE Agrees(s, a)'
  <2>1. a \notin news'[s] =>
           /\ a \notin news[s] /\ ips'[a] = ips[a] /\ cache'[s][a] = cache[s][a]
           /\ <<s, a>> \in poisoned => <<s, a>> \in poisoned'
    BY <1>1, <1>2
  <2>. QED BY <1>1, <2>1, AgreesKept
<1>3. Agrees(x, b)'
  BY <1>1 DEF Agrees
<1>4. ASSUME NEW s \in Server, NEW a \in Addr PROVE Agrees(s, a)'
  BY <1>2, <1>3
<1>. QED BY <1>4 DEF CacheInv, Agrees

LEMMA CrashAgrees ==
    ASSUME Types, CacheInv, NEW x \in Server, Crash(x)
    PROVE  CacheInv'
<1>1. /\ ips' = ips /\ server' = server /\ poisoned' = {y \in poisoned : y[1] # x}
      /\ \A a \in Addr : cache'[x][a] = ips[a]
      /\ \A s \in Server \ {x} : news'[s] = news[s] /\ cache'[s] = cache[s]
      /\ \A d \in Owner : server[d] # x => req'[d] = req[d]
  BY DEF Crash, Types
<1>2. ASSUME NEW s \in Server \ {x}, NEW a \in Addr PROVE Agrees(s, a)'
  <2>1. a \notin news'[s] =>
           /\ a \notin news[s] /\ ips'[a] = ips[a] /\ cache'[s][a] = cache[s][a]
           /\ <<s, a>> \in poisoned => <<s, a>> \in poisoned'
    BY <1>1, <1>2
  <2>2. ASSUME NEW d \in PatchOf(s, a) PROVE req'[d] = req[d] /\ server'[d] = server[d]
    BY <1>1 DEF PatchOf
  <2>. QED BY <2>1, <2>2, AgreesKept
<1>3. ASSUME NEW a \in Addr PROVE Agrees(x, a)'
  BY <1>1 DEF Agrees
<1>4. ASSUME NEW s \in Server, NEW a \in Addr PROVE Agrees(s, a)'
  BY <1>2, <1>3
<1>. QED BY <1>4 DEF CacheInv, Agrees

-----------------------------------------------------------------------------
(***************************************************************************)
(* The theorems                                                            *)
(***************************************************************************)

LEMMA ClaimInit == Init => ClaimInv
<1>. SUFFICES ASSUME Init PROVE ClaimInv
  OBVIOUS
<1>1. \A c \in Owner : req[c] = Request("new") /\ objs[c] = Nil
  BY DEF Init
<1>2. \A c \in Owner : /\ req[c] \in ReqType /\ Shape(req[c], objs[c])
                       /\ Keeps(req[c], objs[c]) = {} /\ Spares(req[c], objs[c]) = {}
  BY <1>1, RestShape
<1>3. PICK v : v = [claim |-> Nil, owner |-> Nil]
  OBVIOUS
<1>4. v \in Free /\ v \in IP /\ v # Nil /\ v.claim = Nil
  BY <1>3, NilObjectAssumption DEF Free, IP, Claimer
<1>5. ips = [a \in Addr |-> IF a \in InitialIPs THEN v ELSE Nil]
  BY <1>3 DEF Init
<1>6. /\ ips \in [Addr -> IP \union {Nil}]
      /\ \A a \in Addr : ips[a] = Nil \/ ips[a] = v
  BY <1>4, <1>5
<1>7. Types
  <2>1. req \in [Owner -> ReqType]
    BY <1>2 DEF Init
  <2>2. churn \in 0 .. MaxChurn /\ faults \in 0 .. MaxFaults
    BY ClaimBounds DEF Init
  <2>. QED BY <1>6, <2>1, <2>2 DEF Init, Types
<1>8. ShapeInv
  BY <1>2 DEF ShapeInv
<1>9. HeldInv
  BY <1>2 DEF HeldInv, HeldBy
<1>10. UsedInv
  BY <1>4, <1>6, ClaimAssumption DEF UsedInv, UsedBy, ClaimOf
<1>11. CacheInv
  BY DEF CacheInv, Init
<1>. QED BY <1>7, <1>8, <1>9, <1>10, <1>11 DEF ClaimInv

(* Every step is a step of one request, or of the world around. *)
LEMMA RequestStep ==
    ASSUME ReqInv, NEW c \in Owner, User(c) \/ Serve(c) \/ Fails(c)
    PROVE  OwnStep(c) /\ OtherTypes' /\ (Sound(c) \/ \E a \in Addr : Marks(c, a))
<1>1. CASE User(c)
  BY <1>1, AllocateCreateStep, AllocateUpdateStep, DeleteObjectStep DEF User
<1>2. CASE Allocate(c)
  <2>1. CASE \E a \in Addr : claimIP(c, a)
    BY <2>1, claimIPStep
  <2>2. CASE \E a \in Addr : NotClaimable(c, a)
    BY <2>2, NotClaimableStep
  <2>3. CASE \E a \in Addr : createEphemeralIP(c, a)
    BY <2>3, createEphemeralIPStep
  <2>4. CASE PatchClaim(c)
    BY <2>4, PatchClaimStep
  <2>5. CASE NoEphemeralIP(c)
    BY <2>5, NoEphemeralIPStep
  <2>. QED BY <1>2, <2>1, <2>2, <2>3, <2>4, <2>5 DEF Allocate
<1>3. CASE \E ok \in BOOLEAN : Begun(c, ok)
  BY <1>3, BegunStep
<1>4. CASE Write(c)
  BY <1>4, WriteStep
<1>5. CASE \E a \in Addr : release(c, a)
  BY <1>5, releaseStep
<1>6. CASE DeleteEphemeral(c)
  BY <1>6, DeleteEphemeralStep
<1>7. CASE releaseIP(c)
  BY <1>7, releaseIPStep
<1>8. CASE PatchFails(c)
  BY <1>8, PatchFailsStep
<1>9. CASE WriteFails(c)
  BY <1>9, WriteFailsStep
<1>10. CASE Rerun(c)
  BY <1>10, RerunStep
<1>11. CASE ReleaseFails(c)
  BY <1>11, ReleaseFailsStep
<1>. QED
  BY <1>1, <1>2, <1>3, <1>4, <1>5, <1>6, <1>7, <1>8, <1>9, <1>10, <1>11 DEF Serve, Fails

LEMMA ClaimNext == ClaimInv /\ [Next]_vars => ClaimInv'
<1>. SUFFICES ASSUME ClaimInv, [Next]_vars PROVE ClaimInv'
  OBVIOUS
<1>1. ReqInv /\ Types /\ ShapeInv /\ HeldInv /\ UsedInv /\ CacheInv
  BY DEF ClaimInv, ReqInv
<1>2. ASSUME NEW c \in Owner, User(c) \/ Serve(c) \/ Fails(c) PROVE ClaimInv'
  <2>1. OwnStep(c) /\ OtherTypes' /\ (Sound(c) \/ \E a \in Addr : Marks(c, a))
    BY <1>1, <1>2, RequestStep
  <2>2. /\ req' \in [Owner -> ReqType] /\ objs' \in [Owner -> (SUBSET Addr) \union {Nil}]
        /\ ShapeInv' /\ HeldInv' /\ UsedInv'
    BY <1>1, <2>1, OwnStepKeeps
  <2>3. Types'
    BY <2>1, <2>2 DEF Types, OtherTypes, WorldTypes
  <2>4. CacheInv'
    BY <1>1, <2>1, SoundAgrees, MarksAgrees
  <2>. QED BY <2>2, <2>3, <2>4 DEF ClaimInv
<1>3. ASSUME NEW s \in Server, Crash(s) PROVE ClaimInv'
  BY <1>1, <1>3, CrashStep, CrashAgrees DEF ClaimInv
<1>4. ASSUME NEW s \in Server, NEW a \in Addr, Deliver(s, a) PROVE ClaimInv'
  BY <1>1, <1>4, DeliverStep, DeliverAgrees DEF ClaimInv
<1>5. ASSUME NEW a \in Addr, DeleteIP(a) \/ CollectIP(a) PROVE ClaimInv'
  <2>1. /\ PutIP(a, Nil) /\ lost' = lost \union Holders(a) \X {a}
        /\ UNCHANGED <<cache, server, objs, req, leaky, poisoned>>
        /\ churn' \in 0 .. MaxChurn /\ faults' \in 0 .. MaxFaults
    BY <1>1, <1>5, Counted DEF DeleteIP, CollectIP, Types
  <2>2. Types' /\ ShapeInv' /\ HeldInv' /\ UsedInv' /\ Told
    BY <1>1, <2>1, GoneStep
  <2>3. CacheInv'
    BY <1>1, <2>1, <2>2, GoneAgrees
  <2>. QED BY <2>2, <2>3 DEF ClaimInv
<1>6. CASE UNCHANGED vars
  <2>1. /\ req' = req /\ objs' = objs /\ ips' = ips /\ lost' = lost /\ leaky' = leaky
        /\ cache' = cache /\ news' = news /\ server' = server /\ poisoned' = poisoned
        /\ churn' = churn /\ faults' = faults
    BY <1>6 DEF vars
  <2>2. Grows /\ Told
    BY <2>1 DEF Grows, Told
  <2>3. \A b \in Addr : Holders(b)' = Holders(b)
    BY <2>1 DEF Holders
  <2>4. ShapeInv' /\ HeldInv' /\ UsedInv'
    BY <1>1, <2>1, <2>2, <2>3, WorldKeeps
  <2>5. Types'
    BY <1>1, <2>1 DEF Types
  <2>6. CacheInv'
    BY <1>1, <2>1, <2>2, GoneAgrees
  <2>. QED BY <2>4, <2>5, <2>6 DEF ClaimInv
<1>. QED BY <1>2, <1>3, <1>4, <1>5, <1>6 DEF Next

(* The inductive invariant: requests have their form, what an object relies
   on it holds or has lost, what is claimed is relied on or leaked, and the
   listers differ from the store only by claims that are under way. *)
THEOREM ClaimInvariant == Spec => []ClaimInv
BY ClaimInit, ClaimNext, PTL DEF Spec

(* The state of the IPs, the objects and the requests is well formed. *)
THEOREM ClaimTypeCorrect == Spec => []ClaimTypeOK
<1>1. ClaimInv => ClaimTypeOK
  <2>. SUFFICES ASSUME ClaimInv PROVE ClaimTypeOK
    OBVIOUS
  <2>1. Types /\ ReqInv
    BY DEF ClaimInv, ReqInv
  <2>2. ASSUME NEW c \in Owner
        PROVE  /\ req[c].pc \in {"new", "idle", "gone", "alloc", "patch", "write", "release",
                                 "delete", "unclaim"}
               /\ req[c].next \in {"new", "idle", "gone", "write"}
               /\ req[c].got \union req[c].rel \subseteq Addr
               /\ req[c].pc \in {"patch", "delete", "unclaim"} => req[c].addr \in Addr
               /\ req[c].pc = "idle" => objs[c] # Nil
               /\ req[c].pc \in {"new", "gone"} => objs[c] = Nil
    <3>1. req[c] \in ReqType /\ Shape(req[c], objs[c])
      BY <2>1, Known
    <3>2. req[c].rel \subseteq Addr
      BY <3>1 DEF ReqType
    <3>. QED BY <3>1, <3>2 DEF ReqType, Shape
  <2>. QED BY <2>1, <2>2 DEF ClaimTypeOK, Types
<1>. QED BY <1>1, ClaimInvariant, PTL

(* An object that is stored holds each of its IPs, by a claim or as the owner
   of an ephemeral IP, but for the named ways of losing one: for any number
   of objects, servers, addresses, lists of requests and faults. *)
THEOREM ObjectsHaveTheirIPs == Spec => []ClaimBacked
<1>1. ClaimInv => ClaimBacked
  <2>. SUFFICES ASSUME ClaimInv, NEW c \in Owner, objs[c] # Nil, NEW a \in objs[c],
                       ~GivesUp(c, a)
                PROVE  <<c, a>> \in lost \/ c \in Holders(a)
    BY DEF ClaimBacked
  <2>1. HeldBy(c) /\ a \in Addr
    BY DEF ClaimInv, HeldInv, Types
  <2>2. a \in Keeps(req[c], objs[c])
    BY <2>1 DEF Keeps, GivesUp
  <2>. QED BY <2>1, <2>2 DEF HeldBy
<1>. QED BY <1>1, ClaimInvariant, PTL

(* When all is quiet a claim belongs to an object that uses the IP, or to one
   whose request broke off after a claim. *)
THEOREM ClaimsAreUsed == Spec => []ClaimsUsed
<1>1. ClaimInv => ClaimsUsed
  <2>. SUFFICES ASSUME ClaimInv, Quiet, NEW a \in Addr, ips[a] # Nil, ips[a].claim # Nil,
                       NEW c, c = ips[a].claim, c \notin leaky
                PROVE  objs[c] # Nil /\ a \in objs[c]
    BY DEF ClaimsUsed
  <2>1. c \in Owner
    BY DEF ClaimInv, Types, IP, Claimer
  <2>2. a \in Keeps(req[c], objs[c])
    BY <2>1 DEF ClaimInv, UsedInv, UsedBy, ClaimOf
  <2>3. req[c].pc \in {"new", "idle", "gone"} /\ Shape(req[c], objs[c])
    BY <2>1 DEF Quiet, ClaimInv, ShapeInv
  <2>. QED BY <2>2, <2>3 DEF Keeps, Shape, Allocates, Releases
<1>. QED BY <1>1, ClaimInvariant, PTL

(* When all is quiet an IP that is free looks free to every server, unless
   the patch of its last claim has failed there. *)
THEOREM FreeIPsLookFree == Spec => []FreeLooksFree
<1>1. ClaimInv => FreeLooksFree
  <2>. SUFFICES ASSUME ClaimInv, Quiet, NEW s \in Server, NEW a \in Addr, ips[a] \in Free
                PROVE  <<s, a>> \in poisoned \/ cache[s][a] \in Free
    BY DEF FreeLooksFree
  <2>1. a \notin news[s] /\ PatchOf(s, a) = {}
    BY DEF Quiet, PatchOf, At
  <2>. QED BY <2>1 DEF ClaimInv, CacheInv
<1>. QED BY <1>1, ClaimInvariant, PTL

(* A release takes nobody else's IP away: whoever is about to release an IP
   holds it, or had lost it. *)
THEOREM ReleasesAreOwn == Spec => ReleasesOwn
<1>1. ASSUME ClaimInv
      PROVE  [\A c \in Owner, a \in Addr :
                 req[c].pc \in {"delete", "unclaim"} /\ req[c].addr = a /\ req'[c] # req[c]
                    /\ ips'[a] # ips[a]
                 => c \in Holders(a) \/ <<c, a>> \in lost]_vars
  <2>1. ASSUME NEW c \in Owner, NEW a \in Addr, req[c].pc \in {"delete", "unclaim"},
               req[c].addr = a
        PROVE  c \in Holders(a) \/ <<c, a>> \in lost
    <3>1. ReqInv
      BY <1>1 DEF ClaimInv, ReqInv
    <3>. QED BY <2>1, <3>1, LookKnown
  <2>. QED BY <2>1
<1>. QED BY <1>1, ClaimInvariant, PTL DEF ReleasesOwn
=============================================================================
