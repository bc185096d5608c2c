----------------------------- MODULE TieringProofs -----------------------------
(***************************************************************************)
(* TieringManager: who owns the reservation of a block, what its pins      *)
(* count, where its data is, and which job a report belongs to, proved for *)
(* any keys, tiers, requests, slots and times to live.                     *)
(*                                                                         *)
(* The invariant is stated of the parts of a state, not of the variables:  *)
(* of a table p, queued promotions Q, jobs J, deadlines S, transfers G and *)
(* so on.  A handler polls, reserves, pins and submits in one step, and    *)
(* the lemmas follow it from one intermediate state to the next.  X stands *)
(* for the blocks that late stores took: who fills them is not known.      *)
(***************************************************************************)
EXTENDS TieringManager, ProofBasics, FiniteSetTheorems, TLAPS

-----------------------------------------------------------------------------
(***************************************************************************)
(* The shapes of the data.                                                 *)
(***************************************************************************)
Block == [ref : Nat \cup {-1}, slot : Slot]
IsTable(p) == DOMAIN p \in SUBSET Key /\ p \in [DOMAIN p -> Block]

IsSlots(f) == DOMAIN f \in SUBSET Key /\ f \in [DOMAIN f -> Slot]

IsPromise(q) ==
    /\ q = [tier |-> q.tier, req |-> q.req, key |-> q.key, slot |-> q.slot]
    /\ q.tier \in Tier /\ q.req \in Request /\ q.key \in Key /\ q.slot \in Slot

IsJob(j) ==
    /\ j = [promo |-> j.promo, tier |-> j.tier, slots |-> j.slots, req |-> j.req,
            age |-> j.age]
    /\ j.promo \in BOOLEAN /\ j.tier \in Tier /\ IsSlots(j.slots)
    /\ j.req \in Request \cup {NoRequest} /\ j.age \in Nat

IsTransfer(g) ==
    /\ g = [kind |-> g.kind, slots |-> g.slots, req |-> g.req, batch |-> g.batch]
    /\ g.kind \in {"load", "store"} /\ IsSlots(g.slots) /\ DOMAIN g.slots # {}
    /\ g.req \in Request
    /\ g.kind = "store" => g.batch \in Id

IsDeadline(d) ==
    /\ d = [req |-> d.req, batch |-> d.batch, age |-> d.age]
    /\ d.age \in Nat

IsWork(t) ==
    /\ t = [slots |-> t.slots, promo |-> t.promo, done |-> t.done, ok |-> t.ok]
    /\ IsSlots(t.slots) /\ t.ok \subseteq DOMAIN t.slots

IsRequest(x) ==
    /\ x = [stores |-> x.stores, finished |-> x.finished]
    /\ x.stores \in Nat /\ x.finished \in BOOLEAN

IsFun(f) == f = [x \in DOMAIN f |-> f[x]]

IsMgr(s) ==
    s = [primary |-> s.primary, jobs |-> s.jobs, queued |-> s.queued,
         failures |-> s.failures, retracted |-> s.retracted, drained |-> s.drained,
         stores |-> s.stores, reqs |-> s.reqs, polled |-> s.polled]

\* The parts that own, pin and time blocks are what they should be.
Shapes(p, Q, J, S, G) ==
    /\ IsTable(p)
    /\ \A q \in Q : IsPromise(q)
    /\ IsFun(J) /\ DOMAIN J \in SUBSET Id /\ \A i \in DOMAIN J : IsJob(J[i])
    /\ IsFun(S) /\ DOMAIN S \in SUBSET Key /\ \A k \in DOMAIN S : IsDeadline(S[k])
    /\ IsFiniteSet(G) /\ \A g \in G : IsTransfer(g)

-----------------------------------------------------------------------------
(***************************************************************************)
(* Owners and readers of a block.                                          *)
(***************************************************************************)
QueuedFor(Q, k) == {q \in Q : q.key = k}
Fetching(J, k) == {i \in DOMAIN J : J[i].promo /\ k \in DOMAIN J[i].slots}
Copying(J, k) == {i \in DOMAIN J : ~J[i].promo /\ k \in DOMAIN J[i].slots}
Stands(S, g, k) == StoreTTL > 0 => k \in DOMAIN S /\ S[k].batch = g.batch
Saving(S, G, k) ==
    {g \in G : g.kind = "store" /\ k \in DOMAIN g.slots /\ Stands(S, g, k)}
Reading(G, k) == {g \in G : g.kind = "load" /\ k \in DOMAIN g.slots}

\* Of three sets, all are empty; one is a singleton and the others are empty.
NoneOf(A, B, C) == A = {} /\ B = {} /\ C = {}
OneOf(A, B, C) ==
    \/ (\E x : A = {x}) /\ B = {} /\ C = {}
    \/ A = {} /\ (\E x : B = {x}) /\ C = {}
    \/ A = {} /\ B = {} /\ (\E x : C = {x})

\* A block that is being filled has one owner and no reader; a readable one
\* has no owner, and its pins are its readers; others have neither.  Owners
\* are not known of the blocks in X.
Filling(X, Q, J, S, G, k) ==
    /\ k \notin X => OneOf(QueuedFor(Q, k), Fetching(J, k), Saving(S, G, k))
    /\ Copying(J, k) = {} /\ Reading(G, k) = {}
Free(X, Q, J, S, G, k) ==
    k \notin X => NoneOf(QueuedFor(Q, k), Fetching(J, k), Saving(S, G, k))
Readable(X, p, Q, J, S, G, k) ==
    /\ Free(X, Q, J, S, G, k)
    /\ p[k].ref = Cardinality(Copying(J, k)) + Cardinality(Reading(G, k))
Absent(X, Q, J, S, G, k) ==
    Free(X, Q, J, S, G, k) /\ Copying(J, k) = {} /\ Reading(G, k) = {}

Owned(X, p, Q, J, S, G) ==
    \A k \in Key :
        /\ k \in Pending(p) => Filling(X, Q, J, S, G, k)
        /\ k \in Ready(p) => Readable(X, p, Q, J, S, G, k)
        /\ k \notin DOMAIN p => Absent(X, Q, J, S, G, k)

\* Data is where its transfers were told.
At(p, k, slot) == k \in DOMAIN p /\ p[k].slot = slot
JobPlaced(X, p, J, i, k) == (J[i].promo => k \notin X) => At(p, k, J[i].slots[k])
TransferPlaced(X, p, S, g, k) ==
    (g.kind = "store" => k \notin X /\ Stands(S, g, k)) => At(p, k, g.slots[k])
Placed(X, p, Q, J, S, G) ==
    /\ \A k, l \in DOMAIN p : p[k].slot = p[l].slot => k = l
    /\ \A q \in Q : q.key \notin X => At(p, q.key, q.slot)
    /\ \A i \in DOMAIN J : \A k \in DOMAIN J[i].slots : JobPlaced(X, p, J, i, k)
    /\ \A g \in G : \A k \in DOMAIN g.slots : TransferPlaced(X, p, S, g, k)

\* A deadline belongs to one store in flight.
Timed(S, G) ==
    /\ StoreTTL = 0 => DOMAIN S = {}
    /\ \A k \in DOMAIN S : \E g \in G :
          g.kind = "store" /\ k \in DOMAIN g.slots /\ S[k].batch = g.batch
    /\ \A g, h \in G :
          (g.kind = "store" /\ h.kind = "store" /\ g.batch = h.batch) => g = h

Blocks(X, p, Q, J, S, G) ==
    /\ Shapes(p, Q, J, S, G) /\ Owned(X, p, Q, J, S, G)
    /\ Placed(X, p, Q, J, S, G) /\ Timed(S, G)

-----------------------------------------------------------------------------
(***************************************************************************)
(* Ids and requests.                                                       *)
(***************************************************************************)
Known(J, w, R, D, G) == DOMAIN J \cup DOMAIN w \cup R \cup D \cup {g.batch : g \in G}

Ids(J, w, R, D, G) ==
    /\ IsFun(w) /\ DOMAIN w \in SUBSET Id /\ \A i \in DOMAIN w : IsWork(w[i])
    /\ R \in SUBSET Id /\ D \in SUBSET Id
    /\ DOMAIN w \subseteq DOMAIN J \cup R \cup D
    /\ DOMAIN J \cap (R \cup D) = {}
    /\ \A g \in G : g.kind = "store" => g.batch \notin DOMAIN J
    /\ \A i \in DOMAIN w \cap DOMAIN J :
          w[i].slots = J[i].slots /\ w[i].promo = J[i].promo

BatchesOf(Q) == {<<q.tier, q.req>> : q \in Q}
Room(Q, J, w, R, D, G, n) ==
    Cardinality(Id \ Known(J, w, R, D, G)) >= n + Cardinality(BatchesOf(Q))

StoresFor(G, r) == {g \in G : g.kind = "store" /\ g.req = r}
Counted(Y, G, C) ==
    /\ IsFun(Y) /\ DOMAIN Y \in SUBSET Request /\ \A r \in DOMAIN Y : IsRequest(Y[r])
    /\ \A r \in Request :
          Cardinality(StoresFor(G, r)) = IF r \in DOMAIN Y THEN Y[r].stores ELSE 0
    /\ C \in SUBSET Request /\ C \cap DOMAIN Y = {}

\* All but the requests.
Core(X, s, w, G) ==
    /\ IsMgr(s)
    /\ IsFun(s.failures) /\ s.polled \in BOOLEAN
    /\ Blocks(X, s.primary, s.queued, s.jobs, s.stores, G)
    /\ Ids(s.jobs, w, s.retracted, s.drained, G)
    /\ Room(s.queued, s.jobs, w, s.retracted, s.drained, G, 0)

Inv(X, s, w, G, C) == Core(X, s, w, G) /\ Counted(s.reqs, G, C)

\* The manager asserts only for a late store, and without a time to live no
\* store is late.
Excused(X, s, G, c) ==
    /\ c \in BOOLEAN
    /\ StoreTTL = 0 => X = {} /\ ~c
    /\ c => \E g \in G : g.kind = "store" /\ \E k \in DOMAIN g.slots :
               k \notin DOMAIN s.primary /\ (k \in X \/ ~Stands(s.stores, g, k))

Books == Inv(taken, m, work, gpu, closed)
IInv == Books /\ Excused(taken, m, gpu, crashed)

-----------------------------------------------------------------------------
(***************************************************************************)
(* What the operations on a table do to it.                                *)
(***************************************************************************)
\* A table is readable where its blocks are not pending.
LEMMA TableParts ==
  ASSUME NEW p, IsTable(p)
  PROVE  /\ \A k : k \in DOMAIN p <=> (k \in Ready(p) \/ k \in Pending(p))
         /\ \A k : ~(k \in Ready(p) /\ k \in Pending(p))
         /\ \A k \in DOMAIN p : k \in Key /\ p[k] \in Block
         /\ \A k \in Ready(p) : p[k].ref \in Nat
         /\ \A k \in Pending(p) : p[k].ref = -1
         /\ \A k \in DOMAIN p : k \in Ready(p) <=> p[k].ref # -1
BY DEF IsTable, Block, Ready, Pending

\* Tables that agree on what is pending have the same parts.
LEMMA SameParts ==
  ASSUME NEW p, NEW t, IsTable(p), IsTable(t), DOMAIN t = DOMAIN p,
         \A k \in DOMAIN p : (t[k].ref # -1) <=> (p[k].ref # -1)
  PROVE  Ready(t) = Ready(p) /\ Pending(t) = Pending(p)
<1>1. /\ \A k : k \in DOMAIN p <=> (k \in Ready(t) \/ k \in Pending(t))
      /\ \A k : ~(k \in Ready(t) /\ k \in Pending(t))
      /\ \A k \in DOMAIN p : k \in Ready(t) <=> t[k].ref # -1
  BY TableParts
<1>2. /\ \A k : k \in DOMAIN p <=> (k \in Ready(p) \/ k \in Pending(p))
      /\ \A k : ~(k \in Ready(p) /\ k \in Pending(p))
      /\ \A k \in DOMAIN p : k \in Ready(p) <=> p[k].ref # -1
  BY TableParts
<1>3. \A k \in DOMAIN p : k \in Ready(t) <=> k \in Ready(p)
  BY <1>1, <1>2
<1> QED BY <1>1, <1>2, <1>3

\* prepare_load adds to the pins and leaves the data where it is.
LEMMA PinEffect ==
  ASSUME NEW p, IsTable(p), NEW K \in SUBSET Ready(p), NEW n \in Nat
  PROVE  LET t == Pin(p, K, n)
         IN  /\ IsTable(t) /\ DOMAIN t = DOMAIN p
             /\ Ready(t) = Ready(p) /\ Pending(t) = Pending(p)
             /\ \A k \in DOMAIN p :
                  /\ t[k].slot = p[k].slot
                  /\ t[k].ref = IF k \in K THEN p[k].ref + n ELSE p[k].ref
<1> DEFINE t == Pin(p, K, n)
<1>1. \A k \in DOMAIN p : p[k] \in Block /\ (k \in K => p[k].ref \in Nat)
  BY TableParts
<1>2. DOMAIN t = DOMAIN p /\ \A k \in DOMAIN p :
         t[k] = IF k \in K THEN [p[k] EXCEPT !.ref = @ + n] ELSE p[k]
  BY DEF Pin
<1>3. t = [k \in DOMAIN t |-> t[k]]
  BY DEF Pin
<1> HIDE DEF t
<1>4. \A k \in DOMAIN p :
         /\ t[k] \in Block /\ t[k].slot = p[k].slot
         /\ t[k].ref = IF k \in K THEN p[k].ref + n ELSE p[k].ref
  BY <1>1, <1>2 DEF Block
<1>5. IsTable(t)
  BY <1>2, <1>3, <1>4 DEF IsTable
<1>6. Ready(t) = Ready(p) /\ Pending(t) = Pending(p)
  <2>1. \A k \in DOMAIN p : (t[k].ref # -1) <=> (p[k].ref # -1)
    BY <1>1, <1>4 DEF Block
  <2> QED BY <1>2, <1>5, <2>1, SameParts
<1> QED BY <1>2, <1>4, <1>5, <1>6 DEF t

\* complete_load takes from the pins what it was given.
LEMMA UnpinEffect ==
  ASSUME NEW p, IsTable(p), NEW n \in [Key -> Nat],
         \A k \in Ready(p) : n[k] <= p[k].ref, \A k \in Pending(p) : n[k] = 0
  PROVE  LET t == Unpin(p, n)
         IN  /\ IsTable(t) /\ DOMAIN t = DOMAIN p
             /\ Ready(t) = Ready(p) /\ Pending(t) = Pending(p)
             /\ \A k \in DOMAIN p : t[k].slot = p[k].slot /\ t[k].ref = p[k].ref - n[k]
<1> DEFINE t == Unpin(p, n)
<1>1. \A k \in DOMAIN p :
         /\ p[k] \in Block /\ k \in Key /\ n[k] \in Nat
         /\ p[k].ref # -1 => p[k].ref \in Nat /\ n[k] <= p[k].ref
         /\ p[k].ref = -1 => n[k] = 0
  BY TableParts
<1>2. DOMAIN t = DOMAIN p /\ \A k \in DOMAIN p : t[k] = [p[k] EXCEPT !.ref = @ - n[k]]
  BY DEF Unpin
<1>3. t = [k \in DOMAIN t |-> t[k]]
  BY DEF Unpin
<1> HIDE DEF t
<1>4. \A k \in DOMAIN p :
         /\ t[k] \in Block /\ t[k].slot = p[k].slot
         /\ t[k].ref = p[k].ref - n[k]
  BY <1>1, <1>2 DEF Block
<1>5. IsTable(t)
  BY <1>2, <1>3, <1>4 DEF IsTable
<1>6. Ready(t) = Ready(p) /\ Pending(t) = Pending(p)
  <2>1. \A k \in DOMAIN p : (t[k].ref # -1) <=> (p[k].ref # -1)
    BY <1>1, <1>4 DEF Block
  <2> QED BY <1>2, <1>5, <2>1, SameParts
<1> QED BY <1>2, <1>4, <1>5, <1>6 DEF t

\* complete_store with success makes pending blocks readable and idle.
LEMMA FillEffect ==
  ASSUME NEW p, IsTable(p), NEW K
  PROVE  LET t == Fill(p, K)
         IN  /\ IsTable(t) /\ DOMAIN t = DOMAIN p
             /\ Ready(t) = Ready(p) \cup (K \cap Pending(p))
             /\ Pending(t) = Pending(p) \ K
             /\ \A k \in DOMAIN p :
                  /\ t[k].slot = p[k].slot
                  /\ t[k].ref = IF k \in K \cap Pending(p) THEN 0 ELSE p[k].ref
<1> DEFINE t == Fill(p, K)
<1>1. \A k \in DOMAIN p : p[k] \in Block
  BY TableParts
<1>2. DOMAIN t = DOMAIN p /\ \A k \in DOMAIN p :
         t[k] = IF k \in K \cap Pending(p) THEN [p[k] EXCEPT !.ref = 0] ELSE p[k]
  BY DEF Fill
<1>3. t = [k \in DOMAIN t |-> t[k]]
  BY DEF Fill
<1> HIDE DEF t
<1>4. \A k \in DOMAIN p :
         /\ t[k] \in Block /\ t[k].slot = p[k].slot
         /\ t[k].ref = IF k \in K \cap Pending(p) THEN 0 ELSE p[k].ref
  BY <1>1, <1>2 DEF Block
<1>5. IsTable(t)
  BY <1>2, <1>3, <1>4 DEF IsTable
<1>6. Ready(t) = Ready(p) \cup (K \cap Pending(p)) /\ Pending(t) = Pending(p) \ K
  <2>1. /\ Ready(t) \cup Pending(t) = DOMAIN p /\ Ready(t) \cap Pending(t) = {}
        /\ \A k \in DOMAIN p : k \in Ready(t) <=> t[k].ref # -1
    BY <1>2, <1>5, TableParts
  <2>2. /\ Ready(p) \cup Pending(p) = DOMAIN p /\ Ready(p) \cap Pending(p) = {}
        /\ \A k \in DOMAIN p : k \in Ready(p) <=> p[k].ref # -1
    BY TableParts
  <2>3. \A k \in DOMAIN p : k \in Ready(t) <=> (k \in Ready(p) \/ k \in K \cap Pending(p))
    BY <1>4, <2>1, <2>2
  <2> QED BY <2>1, <2>2, <2>3
<1> QED BY <1>2, <1>4, <1>5, <1>6 DEF t

\* complete_store without success takes pending blocks out of the table.
LEMMA DropEffect ==
  ASSUME NEW p, IsTable(p), NEW K
  PROVE  LET t == Drop(p, K)
         IN  /\ IsTable(t) /\ DOMAIN t = DOMAIN p \ (K \cap Pending(p))
             /\ Ready(t) = Ready(p) /\ Pending(t) = Pending(p) \ K
             /\ \A k \in DOMAIN t : t[k] = p[k]
<1> DEFINE t == Drop(p, K)
<1>1. /\ DOMAIN t = DOMAIN p \ (K \cap Pending(p))
      /\ t = [k \in DOMAIN t |-> t[k]] /\ \A k \in DOMAIN t : t[k] = p[k]
  BY DEF Drop, Without, Restrict
<1> HIDE DEF t
<1>2. IsTable(t)
  <2>1. \A k \in DOMAIN t : t[k] \in Block
    BY <1>1, TableParts
  <2> QED BY <1>1, <2>1 DEF IsTable
<1>3. Ready(t) = Ready(p) /\ Pending(t) = Pending(p) \ K
  BY <1>1 DEF Ready, Pending
<1> QED BY <1>1, <1>2, <1>3 DEF t

-----------------------------------------------------------------------------
(***************************************************************************)
(* Finite sets of ids, readers and owners.                                 *)
(***************************************************************************)
\* A table loses some of its entries, or takes over those of another one.
LEMMA WithoutEffect ==
  ASSUME NEW f, NEW D
  PROVE  LET h == Without(f, D)
         IN  IsFun(h) /\ DOMAIN h = DOMAIN f \ D /\ \A x \in DOMAIN h : h[x] = f[x]
BY DEF Without, Restrict, IsFun

\* The same for a table that takes over the entries of another one.
LEMMA UpdatedEffect ==
  ASSUME NEW f, NEW g
  PROVE  LET h == Updated(f, g)
         IN  /\ IsFun(h) /\ DOMAIN h = DOMAIN f \cup DOMAIN g
             /\ \A x \in DOMAIN h : h[x] = IF x \in DOMAIN g THEN g[x] ELSE f[x]
BY DEF Updated, IsFun

\* The ids and the slots are finitely many.
LEMMA IdsAreFinite == IsFiniteSet(Id) /\ IsFiniteSet(Slot) /\ NumIds \in Nat /\ NumSlots \in Nat
<1>1. NumIds \in Nat /\ NumSlots \in Nat
  BY TieringAssumption
<1> QED BY <1>1, FS_Interval DEF Id, Slot

\* Readers can be counted.
LEMMA ReadersAreFinite ==
  ASSUME NEW J, DOMAIN J \in SUBSET Id, NEW G, IsFiniteSet(G), NEW k
  PROVE  /\ IsFiniteSet(Copying(J, k)) /\ Cardinality(Copying(J, k)) \in Nat
         /\ IsFiniteSet(Reading(G, k)) /\ Cardinality(Reading(G, k)) \in Nat
<1>1. Copying(J, k) \in SUBSET Id
  BY DEF Copying
<1>2. Reading(G, k) \in SUBSET G
  BY DEF Reading
<1> QED BY <1>1, <1>2, IdsAreFinite, FS_Subset, FS_CardinalityType

-----------------------------------------------------------------------------
(***************************************************************************)
(* The reports of the secondary tiers.                                     *)
(***************************************************************************)
\* Blocks that stay where they are keep their transfers in place.
LEMMA PlacedStays ==
  ASSUME NEW X, NEW p, NEW t, NEW Q, NEW J, NEW H, NEW S, NEW G, Placed(X, p, Q, J, S, G),
         DOMAIN t = DOMAIN p, \A k \in DOMAIN p : t[k].slot = p[k].slot,
         DOMAIN H \subseteq DOMAIN J,
         \A i \in DOMAIN H : H[i].slots = J[i].slots /\ H[i].promo = J[i].promo
  PROVE  Placed(X, t, Q, H, S, G)
<1>1. \A k, c : At(p, k, c) => At(t, k, c)
  BY DEF At
<1>2. \A i \in DOMAIN H : \A k \in DOMAIN H[i].slots : JobPlaced(X, t, H, i, k)
  BY <1>1 DEF Placed, JobPlaced
<1>3. \A g \in G : \A k \in DOMAIN g.slots : TransferPlaced(X, t, S, g, k)
  BY <1>1 DEF Placed, TransferPlaced
<1> QED BY <1>1, <1>2, <1>3 DEF Placed

\* Blocks that nobody has to do with can go.
LEMMA PlacedShrinks ==
  ASSUME NEW X, NEW p, NEW t, NEW Q, NEW J, NEW H, NEW S, NEW Z, NEW G, NEW F,
         Placed(X, p, Q, J, S, G),
         DOMAIN t \subseteq DOMAIN p, \A k \in DOMAIN t : t[k].slot = p[k].slot,
         DOMAIN H \subseteq DOMAIN J, \A i \in DOMAIN H : H[i] = J[i],
         F \subseteq G,
         \A g \in F : \A k : g.kind = "store" /\ Stands(Z, g, k) => Stands(S, g, k),
         \A g \in F : g.kind \in {"load", "store"},
         \A k \in DOMAIN p : k \notin DOMAIN t => Absent(X, Q, H, Z, F, k)
  PROVE  Placed(X, t, Q, H, Z, F)
<1>1. ASSUME NEW k, NEW c, At(p, k, c),
             \/ \E x : x \in Copying(H, k) \/ x \in Reading(F, k)
             \/ k \notin X /\ \E x : \/ x \in QueuedFor(Q, k) \/ x \in Fetching(H, k)
                                    \/ x \in Saving(Z, F, k)
      PROVE  At(t, k, c)
  <2>1. k \in DOMAIN p /\ p[k].slot = c
    BY <1>1 DEF At
  <2>2. ~Absent(X, Q, H, Z, F, k)
    BY <1>1 DEF Absent, Free, NoneOf
  <2> QED BY <2>1, <2>2 DEF At
<1>2. ASSUME NEW i \in DOMAIN H, NEW k \in DOMAIN H[i].slots PROVE JobPlaced(X, t, H, i, k)
  <2>1. JobPlaced(X, p, H, i, k)
    BY DEF Placed, JobPlaced
  <2>2. IF H[i].promo THEN i \in Fetching(H, k) ELSE i \in Copying(H, k)
    BY DEF Fetching, Copying
  <2> QED BY <1>1, <2>1, <2>2 DEF JobPlaced
<1>3. ASSUME NEW g \in F, NEW k \in DOMAIN g.slots PROVE TransferPlaced(X, t, Z, g, k)
  <2>1. SUFFICES ASSUME g.kind = "store" => k \notin X /\ Stands(Z, g, k)
                 PROVE  At(t, k, g.slots[k])
    BY DEF TransferPlaced
  <2>2. At(p, k, g.slots[k])
    BY <2>1 DEF Placed, TransferPlaced
  <2>3. g \in Reading(F, k) \/ (k \notin X /\ g \in Saving(Z, F, k))
    BY <2>1 DEF Saving, Reading
  <2> QED BY <1>1, <2>2, <2>3
<1>4. ASSUME NEW q \in Q, q.key \notin X PROVE At(t, q.key, q.slot)
  <2>1. At(p, q.key, q.slot)
    BY <1>4 DEF Placed
  <2>2. q \in QueuedFor(Q, q.key)
    BY DEF QueuedFor
  <2> QED BY <1>1, <1>4, <2>1, <2>2
<1>5. \A k, l \in DOMAIN t : t[k].slot = t[l].slot => k = l
  BY DEF Placed
<1> QED BY <1>2, <1>3, <1>4, <1>5 DEF Placed

\* Those of the jobs C that have a block.
Ended(J, C, k) == {i \in C : k \in DOMAIN J[i].slots}

\* Copies that end give back their pins, all in one step
\* (_process_finished_jobs).
LEMMA CopiesEnd ==
  ASSUME NEW X, NEW p, NEW Q, NEW J, NEW S, NEW G, Blocks(X, p, Q, J, S, G),
         NEW C \in SUBSET DOMAIN J, \A i \in C : ~J[i].promo,
         NEW n, n = [k \in Key |-> Cardinality(Ended(J, C, k))]
  PROVE  Blocks(X, Unpin(p, n), Q, Without(J, C), S, G) /\ Ready(Unpin(p, n)) = Ready(p)
<1> DEFINE R(k) == Ended(J, C, k)
           t == Unpin(p, n)
           H == Without(J, C)
<1>1. Shapes(p, Q, J, S, G) /\ Owned(X, p, Q, J, S, G) /\ Placed(X, p, Q, J, S, G) /\ Timed(S, G)
  BY DEF Blocks
<1>2. IsFun(H) /\ DOMAIN H = DOMAIN J \ C /\ \A i \in DOMAIN H : H[i] = J[i]
  BY WithoutEffect
<1>3. /\ IsTable(p) /\ DOMAIN J \in SUBSET Id /\ IsFiniteSet(G)
      /\ \A i \in DOMAIN J : IsJob(J[i])
  BY <1>1 DEF Shapes
<1> HIDE DEF t, H
<1>4. ASSUME NEW k \in Key
      PROVE  /\ Fetching(H, k) = Fetching(J, k)
             /\ Copying(H, k) = Copying(J, k) \ R(k)
             /\ R(k) \subseteq Copying(J, k)
  BY <1>2 DEF Fetching, Copying, Ended
<1>5. ASSUME NEW k \in Key
      PROVE  /\ n[k] \in Nat /\ n[k] <= Cardinality(Copying(J, k))
             /\ Cardinality(Copying(H, k)) = Cardinality(Copying(J, k)) - n[k]
  <2>1. IsFiniteSet(Copying(J, k)) /\ Cardinality(Copying(J, k)) \in Nat
    BY <1>3, ReadersAreFinite
  <2>2. n[k] = Cardinality(R(k))
    OBVIOUS
  <2>3. R(k) \in SUBSET Copying(J, k)
    BY <1>4
  <2> HIDE DEF R
  <2>4. IsFiniteSet(R(k)) /\ Cardinality(R(k)) \in Nat /\ Cardinality(R(k)) <= Cardinality(Copying(J, k))
    BY <2>1, <2>3, FS_Subset, FS_CardinalityType
  <2>5. Cardinality(Copying(J, k) \ R(k)) = Cardinality(Copying(J, k)) - Cardinality(R(k))
    BY <2>1, <2>3, SubsetRemoval
  <2> QED BY <1>4, <2>2, <2>4, <2>5
<1>6. /\ \A k \in Ready(p) : n[k] <= p[k].ref
      /\ \A k \in Pending(p) : n[k] = 0
  <2>1. ASSUME NEW k \in Ready(p) PROVE n[k] <= p[k].ref
    <3>0. k \in Key
      BY <1>3, TableParts
    <3>1. p[k].ref = Cardinality(Copying(J, k)) + Cardinality(Reading(G, k))
      BY <1>1, <3>0 DEF Owned, Readable
    <3>2. Cardinality(Copying(J, k)) \in Nat /\ Cardinality(Reading(G, k)) \in Nat
      BY <1>3, ReadersAreFinite
    <3> QED BY <1>5, <3>0, <3>1, <3>2
  <2>2. ASSUME NEW k \in Pending(p) PROVE n[k] = 0
    <3>0. k \in Key
      BY <1>3, TableParts
    <3>1. Copying(J, k) = {}
      BY <1>1, <3>0 DEF Owned, Filling
    <3>2. Cardinality(Copying(J, k)) = 0
      BY <3>1, FS_EmptySet
    <3> QED BY <1>5, <3>0, <3>2
  <2> QED BY <2>1, <2>2
<1>7. /\ IsTable(t) /\ DOMAIN t = DOMAIN p
      /\ Ready(t) = Ready(p) /\ Pending(t) = Pending(p)
      /\ \A k \in DOMAIN p : t[k].slot = p[k].slot /\ t[k].ref = p[k].ref - n[k]
  <2>1. n \in [Key -> Nat]
    BY <1>5
  <2> QED BY <1>3, <1>6, <2>1, UnpinEffect DEF t
<1>8. Shapes(t, Q, H, S, G)
  BY <1>1, <1>2, <1>7 DEF Shapes
<1>9. Owned(X, t, Q, H, S, G)
  <2>1. SUFFICES ASSUME NEW k \in Key
                 PROVE  /\ k \in Pending(t) => Filling(X, Q, H, S, G, k)
                        /\ k \in Ready(t) => Readable(X, t, Q, H, S, G, k)
                        /\ k \notin DOMAIN t => Absent(X, Q, H, S, G, k)
    BY DEF Owned
  <2>2. /\ k \in Pending(p) => Filling(X, Q, J, S, G, k)
        /\ k \in Ready(p) => Readable(X, p, Q, J, S, G, k)
        /\ k \notin DOMAIN p => Absent(X, Q, J, S, G, k)
    BY <1>1 DEF Owned
  <2>3. /\ Fetching(H, k) = Fetching(J, k) /\ Copying(H, k) \subseteq Copying(J, k)
        /\ Cardinality(Copying(H, k)) = Cardinality(Copying(J, k)) - n[k]
    BY <1>4, <1>5
  <2>4. /\ Cardinality(Copying(J, k)) \in Nat /\ Cardinality(Reading(G, k)) \in Nat
        /\ n[k] \in Nat
    BY <1>3, <1>5, ReadersAreFinite
  <2>5. k \in Pending(t) => Filling(X, Q, H, S, G, k)
    BY <1>7, <2>2, <2>3 DEF Filling
  <2>6. k \in Ready(t) => Readable(X, t, Q, H, S, G, k)
    <3>1. k \in Ready(p) => k \in DOMAIN p
      BY <1>3, TableParts
    <3> SUFFICES ASSUME k \in Ready(t) PROVE Readable(X, t, Q, H, S, G, k)
      OBVIOUS
    <3>2. t[k].ref = p[k].ref - n[k] /\ Readable(X, p, Q, J, S, G, k)
      BY <1>7, <2>2, <3>1
    <3> QED BY <2>3, <2>4, <3>2 DEF Readable, Free
  <2>7. k \notin DOMAIN t => Absent(X, Q, H, S, G, k)
    BY <1>7, <2>2, <2>3 DEF Absent, Free
  <2> QED BY <2>5, <2>6, <2>7
<1>10. Placed(X, t, Q, H, S, G)
  BY <1>1, <1>2, <1>7, PlacedStays
<1> QED BY <1>1, <1>7, <1>8, <1>9, <1>10 DEF Blocks, t, H

\* The blocks that some jobs have.
KeysOf(J, P) == UNION {DOMAIN J[i].slots : i \in P}

Promotions(J, P) == P \subseteq DOMAIN J /\ \A i \in P : J[i].promo
Resolved(X, p, t, good, bad) ==
    /\ Ready(p) \subseteq Ready(t) /\ DOMAIN t \subseteq DOMAIN p
    /\ \A k \in good : k \notin X => k \in Ready(t)
    /\ \A k \in bad : k \notin X => k \notin DOMAIN t
Splits(A, B, C) == A \cup B = C /\ A \cap B = {}

\* A promotion that ends makes its blocks readable or drops them, if they are
\* pending: nobody reads them yet, and it is the only one that may, unless a
\* late store took them (_complete_promotion, _expire_stale_promotions).
LEMMA PromotionsEnd ==
  ASSUME NEW X, NEW p, NEW Q, NEW J, NEW S, NEW G, Blocks(X, p, Q, J, S, G),
         NEW P, Promotions(J, P),
         NEW good, NEW bad, Splits(good, bad, KeysOf(J, P))
  PROVE  /\ Blocks(X, Drop(Fill(p, good), bad), Q, Without(J, P), S, G)
         /\ \A k \in KeysOf(J, P) : k \notin X => k \in Pending(p)
         /\ Resolved(X, p, Drop(Fill(p, good), bad), good, bad)
<1> DEFINE f == Fill(p, good)
           t == Drop(f, bad)
           H == Without(J, P)
           B == KeysOf(J, P)
<1>0. P \subseteq DOMAIN J /\ \A i \in P : J[i].promo
  BY DEF Promotions
<1>1. Shapes(p, Q, J, S, G) /\ Owned(X, p, Q, J, S, G) /\ Placed(X, p, Q, J, S, G) /\ Timed(S, G)
  BY DEF Blocks
<1>2. IsFun(H) /\ DOMAIN H = DOMAIN J \ P /\ \A i \in DOMAIN H : H[i] = J[i]
  BY WithoutEffect
<1>3. /\ IsTable(p) /\ DOMAIN J \in SUBSET Id /\ IsFiniteSet(G)
      /\ \A i \in DOMAIN J : IsJob(J[i])
      /\ \A g \in G : g.kind \in {"load", "store"}
  BY <1>1 DEF Shapes, IsTransfer
<1>4. ASSUME NEW k \in B, k \notin X
      PROVE  /\ k \in Pending(p)
             /\ QueuedFor(Q, k) = {} /\ Saving(S, G, k) = {} /\ Fetching(H, k) = {}
  <2>1. PICK i \in P : k \in DOMAIN J[i].slots
    BY DEF KeysOf
  <2>2. i \in Fetching(J, k)
    BY <1>0, <2>1 DEF Fetching
  <2>3. k \in Key
    BY <1>0, <1>3, <2>1 DEF IsJob, IsSlots
  <2>4. ~Free(X, Q, J, S, G, k)
    BY <1>4, <2>2 DEF Free, NoneOf
  <2>5. k \in Pending(p)
    BY <1>1, <1>3, <2>3, <2>4, TableParts DEF Owned, Readable, Absent
  <2>6. Filling(X, Q, J, S, G, k)
    BY <1>1, <2>3, <2>5 DEF Owned
  <2>7. QueuedFor(Q, k) = {} /\ Saving(S, G, k) = {} /\ Fetching(J, k) = {i}
    BY <1>4, <2>2, <2>6 DEF Filling, OneOf
  <2>8. Fetching(H, k) = {}
    BY <1>2, <2>7 DEF Fetching
  <2> QED BY <2>5, <2>7, <2>8
<1>5. \A k : k \notin B => Fetching(H, k) = Fetching(J, k)
  <2>1. \A k : k \notin B => \A i \in P : k \notin DOMAIN J[i].slots
    BY DEF KeysOf
  <2> QED BY <1>2, <2>1 DEF Fetching
<1>6. \A k : Copying(H, k) = Copying(J, k)
  BY <1>0, <1>2 DEF Copying
<1> HIDE DEF B, H
<1>7. /\ IsTable(f) /\ DOMAIN f = DOMAIN p
      /\ Ready(f) = Ready(p) \cup (good \cap Pending(p)) /\ Pending(f) = Pending(p) \ good
      /\ \A k \in DOMAIN p :
           /\ f[k].slot = p[k].slot
           /\ f[k].ref = IF k \in good \cap Pending(p) THEN 0 ELSE p[k].ref
  BY <1>3, FillEffect
<1> HIDE DEF f
<1>8. /\ IsTable(t) /\ DOMAIN t = DOMAIN f \ (bad \cap Pending(f))
      /\ Ready(t) = Ready(f) /\ Pending(t) = Pending(f) \ bad
      /\ \A k \in DOMAIN t : t[k] = f[k]
  BY <1>7, DropEffect
<1> HIDE DEF t
<1>9. good \subseteq B /\ bad \subseteq B /\ B = good \cup bad /\ good \cap bad = {}
  BY DEF B, Splits
<1>a. \A k \in Pending(t) : k \in Pending(p) /\ k \notin B
  BY <1>7, <1>8, <1>9
<1>10. Shapes(t, Q, H, S, G)
  BY <1>1, <1>2, <1>8 DEF Shapes
<1>11. Owned(X, t, Q, H, S, G)
  <2>1. SUFFICES ASSUME NEW k \in Key
                 PROVE  /\ k \in Pending(t) => Filling(X, Q, H, S, G, k)
                        /\ k \in Ready(t) => Readable(X, t, Q, H, S, G, k)
                        /\ k \notin DOMAIN t => Absent(X, Q, H, S, G, k)
    BY DEF Owned
  <2>2. /\ k \in Pending(p) => Filling(X, Q, J, S, G, k)
        /\ k \in Ready(p) => Readable(X, p, Q, J, S, G, k)
        /\ k \notin DOMAIN p => Absent(X, Q, J, S, G, k)
    BY <1>1 DEF Owned
  <2>3. k \in Pending(t) => Filling(X, Q, H, S, G, k)
    BY <1>a, <1>5, <1>6, <2>2 DEF Filling
  <2>4. k \notin Pending(t) => Free(X, Q, H, S, G, k)
    <3>1. CASE k \in B
      BY <1>4, <3>1 DEF Free, NoneOf
    <3>2. CASE k \notin B /\ k \notin Pending(t)
      <4>1. k \notin Pending(p)
        BY <1>7, <1>8, <1>9, <3>2
      <4>2. Free(X, Q, J, S, G, k)
        BY <1>3, <2>2, <4>1, TableParts DEF Readable, Absent
      <4> QED BY <1>5, <3>2, <4>2 DEF Free
    <3> QED BY <3>1, <3>2
  <2>5. ASSUME k \in Ready(t) PROVE Readable(X, t, Q, H, S, G, k)
    <3>1. k \in DOMAIN t /\ k \notin Pending(t) /\ k \in DOMAIN p
      BY <1>7, <1>8, <2>5, TableParts
    <3>2. CASE k \in Pending(p)
      <4>1. k \in good \cap Pending(p)
        BY <1>3, <1>7, <1>8, <2>5, <3>2, TableParts
      <4>2. t[k].ref = 0
        BY <1>7, <1>8, <3>1, <4>1
      <4>3. Copying(H, k) = {} /\ Reading(G, k) = {}
        BY <1>6, <2>2, <3>2 DEF Filling
      <4>4. Cardinality(Copying(H, k)) = 0 /\ Cardinality(Reading(G, k)) = 0
        BY <4>3, FS_EmptySet
      <4> QED BY <2>4, <3>1, <4>2, <4>4 DEF Readable
    <3>3. CASE k \in Ready(p)
      <4>1. k \notin Pending(p)
        BY <1>3, <3>3, TableParts
      <4>2. t[k].ref = p[k].ref
        BY <1>7, <1>8, <3>1, <4>1
      <4> QED BY <1>6, <2>2, <2>4, <3>1, <3>3, <4>2 DEF Readable
    <3> QED BY <1>3, <3>1, <3>2, <3>3, TableParts
  <2>6. ASSUME k \notin DOMAIN t PROVE Absent(X, Q, H, S, G, k)
    <3>1. k \notin Pending(t)
      BY <1>8, <2>6, TableParts
    <3>2. Copying(J, k) = {} /\ Reading(G, k) = {}
      <4>1. CASE k \in DOMAIN p
        <5>1. k \in Pending(p)
          BY <1>7, <1>8, <2>6, <4>1
        <5> QED BY <2>2, <5>1 DEF Filling
      <4>2. CASE k \notin DOMAIN p
        BY <2>2, <4>2 DEF Absent
      <4> QED BY <4>1, <4>2
    <3> QED BY <1>6, <2>4, <3>1, <3>2 DEF Absent
  <2> QED BY <2>3, <2>5, <2>6
<1>12. Placed(X, t, Q, H, S, G)
  <2>1. \A k \in DOMAIN p : k \notin DOMAIN t => Absent(X, Q, H, S, G, k)
    <3>1. \A k \in DOMAIN p : k \in Key
      BY <1>3, TableParts
    <3> QED BY <1>11, <3>1 DEF Owned
  <2>2. DOMAIN t \subseteq DOMAIN p /\ \A k \in DOMAIN t : t[k].slot = p[k].slot
    BY <1>7, <1>8
  <2> QED BY <1>1, <1>2, <1>3, <2>1, <2>2, PlacedShrinks
<1>13. Resolved(X, p, t, good, bad)
  <2>1. \A k \in B : k \notin X => k \in Pending(p)
    BY <1>4
  <2>2. \A k \in good : k \notin X => k \in Ready(t)
    BY <1>7, <1>8, <1>9, <2>1
  <2>3. \A k \in bad : k \notin X => k \notin DOMAIN t
    BY <1>7, <1>8, <1>9, <2>1
  <2> QED BY <1>7, <1>8, <2>2, <2>3 DEF Resolved
<1> QED BY <1>1, <1>4, <1>10, <1>11, <1>12, <1>13 DEF Blocks, t, f, H, B

\* Stores expire: their blocks go if they are pending, and no transfer in
\* flight owns them any more (_expire_stale_store_pends).
LEMMA StoresExpire ==
  ASSUME NEW X, NEW p, NEW Q, NEW J, NEW S, NEW G, Blocks(X, p, Q, J, S, G),
         NEW old \in SUBSET DOMAIN S
  PROVE  /\ Blocks(X, Drop(p, old), Q, J, Without(S, old), G)
         /\ Ready(Drop(p, old)) = Ready(p)
<1> DEFINE t == Drop(p, old)
           Z == Without(S, old)
<1>1. Shapes(p, Q, J, S, G) /\ Owned(X, p, Q, J, S, G) /\ Placed(X, p, Q, J, S, G) /\ Timed(S, G)
  BY DEF Blocks
<1>2. IsFun(Z) /\ DOMAIN Z = DOMAIN S \ old /\ \A k \in DOMAIN Z : Z[k] = S[k]
  BY WithoutEffect
<1>3. /\ IsTable(p) /\ DOMAIN S \in SUBSET Key
      /\ \A g \in G : g.kind \in {"load", "store"}
      /\ StoreTTL \in Nat
  BY <1>1, TieringAssumption DEF Shapes, IsTransfer
<1> HIDE DEF Z
<1>4. ASSUME NEW k \in old
      PROVE  /\ k \in Key /\ Saving(Z, G, k) = {}
             /\ k \notin X => /\ k \in Pending(p)
                             /\ QueuedFor(Q, k) = {} /\ Fetching(J, k) = {}
  <2>1. PICK g \in G : g.kind = "store" /\ k \in DOMAIN g.slots /\ S[k].batch = g.batch
    BY <1>1 DEF Timed
  <2>2. g \in Saving(S, G, k) /\ k \in Key
    BY <1>3, <2>1 DEF Saving, Stands
  <2>3. StoreTTL > 0
    BY <1>1, <1>3 DEF Timed
  <2>4. Saving(Z, G, k) = {}
    BY <1>2, <2>3 DEF Saving, Stands
  <2>5. ASSUME k \notin X
        PROVE  k \in Pending(p) /\ QueuedFor(Q, k) = {} /\ Fetching(J, k) = {}
    <3>1. ~Free(X, Q, J, S, G, k)
      BY <2>2, <2>5 DEF Free, NoneOf
    <3>2. k \in Pending(p)
      BY <1>1, <1>3, <2>2, <3>1, TableParts DEF Owned, Readable, Absent
    <3>3. Filling(X, Q, J, S, G, k)
      BY <1>1, <2>2, <3>2 DEF Owned
    <3> QED BY <2>2, <2>5, <3>2, <3>3 DEF Filling, OneOf
  <2> QED BY <2>2, <2>4, <2>5
<1>5. \A g \in G : \A k : Stands(Z, g, k) => Stands(S, g, k)
  BY <1>2 DEF Stands
<1>7. \A k : k \notin old => Saving(Z, G, k) = Saving(S, G, k)
  BY <1>2 DEF Saving, Stands
<1>8. /\ IsTable(t) /\ DOMAIN t = DOMAIN p \ (old \cap Pending(p))
      /\ Ready(t) = Ready(p) /\ Pending(t) = Pending(p) \ old
      /\ \A k \in DOMAIN t : t[k] = p[k]
  BY <1>3, DropEffect
<1> HIDE DEF t
<1>9. Shapes(t, Q, J, Z, G)
  BY <1>1, <1>2, <1>8 DEF Shapes
<1>10. Owned(X, t, Q, J, Z, G)
  <2>1. SUFFICES ASSUME NEW k \in Key
                 PROVE  /\ k \in Pending(t) => Filling(X, Q, J, Z, G, k)
                        /\ k \in Ready(t) => Readable(X, t, Q, J, Z, G, k)
                        /\ k \notin DOMAIN t => Absent(X, Q, J, Z, G, k)
    BY DEF Owned
  <2>2. /\ k \in Pending(p) => Filling(X, Q, J, S, G, k)
        /\ k \in Ready(p) => Readable(X, p, Q, J, S, G, k)
        /\ k \notin DOMAIN p => Absent(X, Q, J, S, G, k)
    BY <1>1 DEF Owned
  <2>3. k \in Pending(t) => Filling(X, Q, J, Z, G, k)
    BY <1>7, <1>8, <2>2 DEF Filling
  <2>4. k \notin Pending(t) => Free(X, Q, J, Z, G, k)
    <3>1. CASE k \in old
      BY <1>4, <3>1 DEF Free, NoneOf
    <3>2. CASE k \notin old /\ k \notin Pending(t)
      <4>1. Free(X, Q, J, S, G, k)
        BY <1>3, <1>8, <2>2, <3>2, TableParts DEF Readable, Absent
      <4> QED BY <1>7, <3>2, <4>1 DEF Free
    <3> QED BY <3>1, <3>2
  <2>5. ASSUME k \in Ready(t) PROVE Readable(X, t, Q, J, Z, G, k)
    <3>1. k \in DOMAIN t /\ k \notin Pending(t) /\ k \in Ready(p) /\ t[k] = p[k]
      BY <1>8, <2>5, TableParts
    <3> QED BY <2>2, <2>4, <3>1 DEF Readable
  <2>6. ASSUME k \notin DOMAIN t PROVE Absent(X, Q, J, Z, G, k)
    <3>1. k \notin Pending(t)
      BY <1>8, <2>6, TableParts
    <3>2. k \in Pending(p) \/ k \notin DOMAIN p
      BY <1>8, <2>6
    <3>3. Copying(J, k) = {} /\ Reading(G, k) = {}
      BY <2>2, <3>2 DEF Filling, Absent
    <3> QED BY <2>4, <3>1, <3>3 DEF Absent
  <2> QED BY <2>3, <2>5, <2>6
<1>11. Placed(X, t, Q, J, Z, G)
  <2>1. \A k \in DOMAIN p : k \notin DOMAIN t => Absent(X, Q, J, Z, G, k)
    <3>1. \A k \in DOMAIN p : k \in Key
      BY <1>3, TableParts
    <3> QED BY <1>10, <3>1 DEF Owned
  <2>2. DOMAIN t \subseteq DOMAIN p /\ \A k \in DOMAIN t : t[k].slot = p[k].slot
    BY <1>8
  <2> QED BY <1>1, <1>3, <1>5, <2>1, <2>2, PlacedShrinks
<1>12. Timed(Z, G)
  BY <1>1, <1>2 DEF Timed
<1> QED BY <1>8, <1>9, <1>10, <1>11, <1>12 DEF Blocks, t, Z

-----------------------------------------------------------------------------
(***************************************************************************)
(* Ids and the room for them.                                              *)
(***************************************************************************)
\* Ids that are free stay free when fewer are known and fewer batches wait.
LEMMA RoomGrows ==
  ASSUME NEW A, NEW B, NEW U, NEW V, A \subseteq B, U \subseteq V, IsFiniteSet(V),
         NEW n \in Nat, Cardinality(Id \ B) >= n + Cardinality(V)
  PROVE  Cardinality(Id \ A) >= n + Cardinality(U)
<1>1. /\ IsFiniteSet(Id \ A) /\ Id \ B \in SUBSET (Id \ A)
      /\ U \in SUBSET V
  BY IdsAreFinite, FS_Subset
<1>2. Cardinality(Id \ B) <= Cardinality(Id \ A) /\ Cardinality(U) <= Cardinality(V)
  BY <1>1, FS_Subset
<1>3. /\ Cardinality(Id \ A) \in Nat /\ Cardinality(U) \in Nat /\ Cardinality(V) \in Nat
      /\ Cardinality(Id \ B) \in Nat
  BY <1>1, FS_Subset, FS_CardinalityType
<1> QED BY <1>2, <1>3

\* There are finitely many batches.
LEMMA BatchesAreFinite ==
  ASSUME NEW Q, \A q \in Q : IsPromise(q)
  PROVE  IsFiniteSet(BatchesOf(Q)) /\ Cardinality(BatchesOf(Q)) \in Nat
<1>1. BatchesOf(Q) \in SUBSET (Tier \X Request)
  BY DEF BatchesOf, IsPromise
<1>2. IsFiniteSet(Tier \X Request)
  BY TieringAssumption, FS_Product
<1> QED BY <1>1, <1>2, FS_Subset, FS_CardinalityType

\* Reports are taken off the record, those about jobs and those about
\* retracted ones (_process_finished_jobs).
LEMMA ReportsIds ==
  ASSUME NEW J, NEW w, NEW R, NEW D, NEW G, Ids(J, w, R, D, G),
         NEW X, NEW late, late = X \cap (R \cup D)
  PROVE  LET H == Without(J, X \cap DOMAIN J)
             v == Without(w, X)
         IN  /\ Ids(H, v, R \ late, D \ late, G)
             /\ Known(H, v, R \ late, D \ late, G) \subseteq Known(J, w, R, D, G)
<1> DEFINE K == X \cap DOMAIN J
           H == Without(J, K)
           v == Without(w, X)
<1>1. IsFun(H) /\ DOMAIN H = DOMAIN J \ K /\ \A i \in DOMAIN H : H[i] = J[i]
  BY WithoutEffect
<1>2. IsFun(v) /\ DOMAIN v = DOMAIN w \ X /\ \A i \in DOMAIN v : v[i] = w[i]
  BY WithoutEffect
<1> HIDE DEF H, v
<1>3. Ids(H, v, R \ late, D \ late, G)
  BY <1>1, <1>2 DEF Ids
<1>4. Known(H, v, R \ late, D \ late, G) \subseteq Known(J, w, R, D, G)
  BY <1>1, <1>2 DEF Known
<1> QED BY <1>3, <1>4 DEF H, v

\* Jobs, or batches of stores, are retracted (_expire_stale_promotions,
\* _expire_stale_store_pends).
LEMMA RetractedIds ==
  ASSUME NEW J, NEW w, NEW R, NEW D, NEW G, Ids(J, w, R, D, G),
         DOMAIN J \in SUBSET Id, NEW X \in SUBSET DOMAIN J, NEW Y \in SUBSET Id,
         \A i \in Y : \E g \in G : g.kind = "store" /\ i = g.batch
  PROVE  LET H == Without(J, X)
         IN  /\ Ids(H, w, R \cup X \cup Y, D, G)
             /\ Known(H, w, R \cup X \cup Y, D, G) \subseteq Known(J, w, R, D, G)
<1> DEFINE H == Without(J, X)
<1>1. IsFun(H) /\ DOMAIN H = DOMAIN J \ X /\ \A i \in DOMAIN H : H[i] = J[i]
  BY WithoutEffect
<1> HIDE DEF H
<1>2. Y \cap DOMAIN J = {}
  BY DEF Ids
<1>3. Ids(H, w, R \cup X \cup Y, D, G)
  <2>1. /\ IsFun(w) /\ DOMAIN w \in SUBSET Id /\ \A i \in DOMAIN w : IsWork(w[i])
        /\ R \in SUBSET Id /\ D \in SUBSET Id
        /\ DOMAIN w \subseteq DOMAIN J \cup R \cup D
        /\ DOMAIN J \cap (R \cup D) = {}
        /\ \A i \in DOMAIN w \cap DOMAIN J :
              w[i].slots = J[i].slots /\ w[i].promo = J[i].promo
    BY DEF Ids
  <2>2. \A g \in G : g.kind = "store" => g.batch \notin DOMAIN H
    BY <1>1 DEF Ids
  <2>3. R \cup X \cup Y \in SUBSET Id
    BY <2>1
  <2>4. /\ DOMAIN w \subseteq DOMAIN H \cup (R \cup X \cup Y) \cup D
        /\ DOMAIN H \cap ((R \cup X \cup Y) \cup D) = {}
    BY <1>1, <1>2, <2>1
  <2>5. \A i \in DOMAIN w \cap DOMAIN H :
              w[i].slots = H[i].slots /\ w[i].promo = H[i].promo
    BY <1>1, <2>1
  <2> QED BY <2>1, <2>2, <2>3, <2>4, <2>5 DEF Ids
<1>4. Known(H, w, R \cup X \cup Y, D, G) \subseteq Known(J, w, R, D, G)
  BY <1>1 DEF Known, Ids
<1> QED BY <1>3, <1>4 DEF H

-----------------------------------------------------------------------------
(***************************************************************************)
(* Polling.                                                                *)
(***************************************************************************)
\* What polling may do to the manager: it ends jobs, and a block that was
\* waited for is readable or its failure is remembered, if no late store took
\* it.
Settled(t, k) == k \in DOMAIN t.failures \/ k \in Ready(t.primary)
Settles(X, s, t) ==
    /\ t.reqs = s.reqs /\ t.queued = s.queued /\ t.polled = s.polled
    /\ Ready(s.primary) \subseteq Ready(t.primary)
    /\ DOMAIN t.jobs \subseteq DOMAIN s.jobs
    /\ \A i \in DOMAIN t.jobs : t.jobs[i] = s.jobs[i]
    /\ \A k \in DOMAIN s.failures : k \notin X => Settled(t, k)
    /\ FailTTL > 0 =>
          \A i \in DOMAIN s.jobs : (i \notin DOMAIN t.jobs /\ s.jobs[i].promo) =>
             \A k \in DOMAIN s.jobs[i].slots : k \notin X => Settled(t, k)

\* Two steps of polling are one.
LEMMA SettlesTransitive ==
  ASSUME NEW X, NEW s, NEW t, NEW u, Settles(X, s, t), Settles(X, t, u)
  PROVE  Settles(X, s, u)
<1>1. \A k : k \notin X => (Settled(t, k) => Settled(u, k))
  BY DEF Settles, Settled
<1>2. \A k \in DOMAIN s.failures : k \notin X => Settled(u, k)
  BY <1>1 DEF Settles
<1>3. ASSUME FailTTL > 0, NEW i \in DOMAIN s.jobs, i \notin DOMAIN u.jobs, s.jobs[i].promo,
             NEW k \in DOMAIN s.jobs[i].slots, k \notin X
      PROVE  Settled(u, k)
  <2>1. CASE i \in DOMAIN t.jobs
    BY <1>3, <2>1 DEF Settles
  <2>2. CASE i \notin DOMAIN t.jobs
    BY <1>1, <1>3, <2>2 DEF Settles
  <2> QED BY <2>1, <2>2
<1>4. /\ u.reqs = s.reqs /\ u.queued = s.queued /\ u.polled = s.polled
      /\ Ready(s.primary) \subseteq Ready(u.primary)
      /\ DOMAIN u.jobs \subseteq DOMAIN s.jobs
      /\ \A i \in DOMAIN u.jobs : u.jobs[i] = s.jobs[i]
  BY DEF Settles
<1> QED BY <1>2, <1>3, <1>4 DEF Settles

\* The failures that are remembered (_suppress_promotion_failures).
LEMMA SuppressEffect ==
  ASSUME NEW f, NEW K, IsFun(f)
  PROVE  LET h == Suppress(f, K)
         IN  /\ IsFun(h) /\ DOMAIN f \subseteq DOMAIN h
             /\ FailTTL > 0 => K \subseteq DOMAIN h
<1>1. CASE FailTTL = 0
  BY <1>1, TieringAssumption DEF Suppress
<1>2. CASE FailTTL # 0
  <2> DEFINE g == [k \in K |-> FailTTL]
  <2>1. DOMAIN g = K
    OBVIOUS
  <2> HIDE DEF g
  <2>2. IsFun(Updated(f, g)) /\ DOMAIN Updated(f, g) = DOMAIN f \cup K
    BY <2>1, UpdatedEffect
  <2>3. Suppress(f, K) = Updated(f, g)
    BY <1>2 DEF Suppress, g
  <2> QED BY <2>2, <2>3
<1> QED BY <1>1, <1>2

\* A block that is being filled is promoted by one job at most.
LEMMA OnePromotion ==
  ASSUME NEW X, NEW p, NEW Q, NEW J, NEW S, NEW G, Blocks(X, p, Q, J, S, G),
         NEW k, k \notin X, NEW i \in Fetching(J, k), NEW j \in Fetching(J, k)
  PROVE  i = j
<1>1. k \in Key
  BY DEF Blocks, Shapes, Fetching, IsJob, IsSlots
<1>2. ~Free(X, Q, J, S, G, k)
  BY DEF Free, NoneOf
<1>3. Filling(X, Q, J, S, G, k)
  BY <1>1, <1>2, TableParts DEF Blocks, Shapes, Owned, Readable, Absent
<1> QED BY <1>3 DEF Filling, OneOf

\* The loop of _process_finished_jobs, and the work it takes off the tiers.
LEMMA ConsumeKeeps ==
  ASSUME NEW X, NEW s, NEW G, NEW C, Inv(X, s, work, G, C),
         NEW at \in Orders(KnownReports(s))
  PROVE  /\ Inv(X, ConsumeReports(s, at), Without(work, Reported), G, C)
         /\ Settles(X, s, ConsumeReports(s, at))
<1> DEFINE p == s.primary
           J == s.jobs
           jobs == KnownReports(s)
           promos == {i \in jobs : J[i].promo}
           copies == jobs \ promos
           keys == UNION {DOMAIN J[i].slots : i \in promos}
           Of(k) == {i \in promos : k \in DOMAIN J[i].slots}
           good == {k \in keys : \E i \in Of(k) :
                       k \in work[i].ok /\ \A j \in Of(k) : at[i] <= at[j]}
           failed == {k \in keys : \E i \in Of(k) :
                       k \notin work[i].ok /\ \A j \in Of(k) : at[j] <= at[i]}
           bad == keys \ good
           n == [k \in Key |-> Cardinality({i \in copies : k \in DOMAIN J[i].slots})]
           late == LateReports(s)
           t == ConsumeReports(s, at)
           v == Without(work, Reported)
<1>1. /\ IsMgr(s) /\ IsFun(s.failures)
      /\ Blocks(X, p, s.queued, J, s.stores, G)
      /\ Ids(J, work, s.retracted, s.drained, G)
      /\ Room(s.queued, J, work, s.retracted, s.drained, G, 0)
      /\ Counted(s.reqs, G, C)
      /\ s.polled \in BOOLEAN
  BY DEF Inv, Core
<1>2. /\ t.primary = Drop(Fill(Unpin(p, n), good), bad)
      /\ t.jobs = Without(J, jobs)
      /\ t.failures = Suppress(Without(s.failures, keys \ failed), failed)
      /\ t.retracted = s.retracted \ late
      /\ t.drained = s.drained \ late
      /\ t.queued = s.queued /\ t.stores = s.stores /\ t.reqs = s.reqs
      /\ t.polled = s.polled
      /\ IsMgr(t)
  <2>1. t = [s EXCEPT
               !.primary = Drop(Fill(Unpin(@, n), good), bad),
               !.jobs = Without(@, jobs),
               !.failures = Suppress(Without(@, keys \ failed), failed),
               !.retracted = @ \ late,
               !.drained = @ \ late]
    BY DEF ConsumeReports
  <2> HIDE DEF n, good, failed, bad, keys, jobs, late, t, promos, copies
  <2> QED BY <1>1, <2>1 DEF IsMgr
<1>3. /\ late = Reported \cap (s.retracted \cup s.drained)
      /\ jobs = Reported \cap DOMAIN J
      /\ Reported \in SUBSET DOMAIN work
  BY <1>1 DEF LateReports, KnownReports, Reported, Ids
<1>4. /\ n = [k \in Key |-> Cardinality(Ended(J, copies, k))]
      /\ good \cup bad = keys /\ good \cap bad = {}
      /\ keys = KeysOf(J, promos)
  BY DEF KeysOf, Ended
<1>5. /\ copies \in SUBSET DOMAIN J /\ \A i \in copies : ~J[i].promo
      /\ promos \in SUBSET DOMAIN Without(J, copies)
      /\ \A i \in promos : Without(J, copies)[i] = J[i]
      /\ jobs = copies \cup promos
  BY <1>3 DEF Without, Restrict
<1>6. ASSUME NEW k \in keys, k \notin X
      PROVE  (k \in good /\ k \notin failed) \/ (k \notin good /\ k \in failed)
  <2>1. PICK i \in promos : k \in DOMAIN J[i].slots
    OBVIOUS
  <2>2. \A j \in Of(k) : j \in Fetching(J, k)
    BY <1>3 DEF Fetching
  <2>3. i \in Of(k) /\ \A j \in Of(k) : j = i
    BY <1>1, <1>6, <2>1, <2>2, OnePromotion
  <2>4. at[i] \in Int
    BY <2>1 DEF Orders, Injection
  <2>5. at[i] <= at[i]
    BY <2>4
  <2>6. k \in good <=> k \in work[i].ok
    BY <2>3, <2>5
  <2>7. k \in failed <=> k \notin work[i].ok
    BY <2>3, <2>5
  <2> QED BY <2>6, <2>7
<1> HIDE DEF good, failed, bad, n, jobs, promos, copies, late, t, v
<1> DEFINE H == Without(J, copies)
           p1 == Unpin(p, n)
<1>7. Blocks(X, p1, s.queued, H, s.stores, G) /\ Ready(p1) = Ready(p)
  BY <1>1, <1>4, <1>5, CopiesEnd
<1>8. /\ KeysOf(H, promos) = KeysOf(J, promos)
      /\ Without(H, promos) = Without(J, jobs)
      /\ Promotions(H, promos)
  <2>1. KeysOf(H, promos) = KeysOf(J, promos)
    BY <1>5 DEF KeysOf
  <2>2. Without(H, promos) = Without(J, jobs)
    BY <1>5 DEF Without, Restrict
  <2>3. Promotions(H, promos)
    BY <1>5 DEF promos, Promotions
  <2> QED BY <2>1, <2>2, <2>3
<1> HIDE DEF H, p1, keys
<1>10. /\ Blocks(X, t.primary, s.queued, t.jobs, s.stores, G)
       /\ Resolved(X, p1, t.primary, good, bad)
  <2>1. t.primary = Drop(Fill(p1, good), bad) /\ t.jobs = Without(H, promos)
    BY <1>2, <1>8 DEF p1
  <2>2. Splits(good, bad, KeysOf(H, promos))
    BY <1>4, <1>8 DEF Splits
  <2>3. Blocks(X, p1, s.queued, H, s.stores, G)
    BY <1>7
  <2>4. Blocks(X, Drop(Fill(p1, good), bad), s.queued, Without(H, promos), s.stores, G)
    BY <1>8, <2>2, <2>3, PromotionsEnd
  <2>5. Resolved(X, p1, Drop(Fill(p1, good), bad), good, bad)
    BY <1>8, <2>2, <2>3, PromotionsEnd
  <2> QED BY <2>1, <2>4, <2>5
<1>11. /\ Ids(t.jobs, v, t.retracted, t.drained, G)
       /\ Known(t.jobs, v, t.retracted, t.drained, G)
            \subseteq Known(J, work, s.retracted, s.drained, G)
  <2>1. /\ t.jobs = Without(J, Reported \cap DOMAIN J)
        /\ t.retracted = s.retracted \ late /\ t.drained = s.drained \ late
        /\ late = Reported \cap (s.retracted \cup s.drained)
    BY <1>2, <1>3
  <2>2. Ids(J, work, s.retracted, s.drained, G)
    BY <1>1
  <2> DEFINE H2 == Without(J, Reported \cap DOMAIN J)
  <2>3. /\ Ids(H2, v, s.retracted \ late, s.drained \ late, G)
        /\ Known(H2, v, s.retracted \ late, s.drained \ late, G)
             \subseteq Known(J, work, s.retracted, s.drained, G)
    BY <2>1, <2>2, ReportsIds DEF v
  <2> QED BY <2>1, <2>3
<1>12. Room(s.queued, t.jobs, v, t.retracted, t.drained, G, 0)
  <2>1. IsFiniteSet(BatchesOf(s.queued))
    BY <1>1, BatchesAreFinite DEF Blocks, Shapes
  <2> QED BY <1>1, <1>11, <2>1, RoomGrows DEF Room
<1>13. /\ IsFun(t.failures)
       /\ \A k \in DOMAIN s.failures : k \in keys \ failed \/ k \in DOMAIN t.failures
       /\ FailTTL > 0 => failed \subseteq DOMAIN t.failures
  <2> DEFINE f == Without(s.failures, keys \ failed)
  <2>1. IsFun(f) /\ DOMAIN f = DOMAIN s.failures \ (keys \ failed)
    BY WithoutEffect
  <2>2. t.failures = Suppress(f, failed)
    BY <1>2
  <2> HIDE DEF f
  <2> QED BY <2>1, <2>2, SuppressEffect
<1>14. Inv(X, t, v, G, C)
  BY <1>1, <1>2, <1>10, <1>11, <1>12, <1>13 DEF Inv, Core
<1>15. Settles(X, s, t)
  <2>1. Ready(p) \subseteq Ready(t.primary)
    BY <1>7, <1>10 DEF Resolved
  <2>2. DOMAIN t.jobs = DOMAIN J \ jobs /\ \A i \in DOMAIN t.jobs : t.jobs[i] = J[i]
    <3>1. /\ DOMAIN Without(J, jobs) = DOMAIN J \ jobs
          /\ \A i \in DOMAIN Without(J, jobs) : Without(J, jobs)[i] = J[i]
      BY WithoutEffect
    <3> QED BY <1>2, <3>1
  <2>3. \A k \in good : k \notin X => Settled(t, k)
    BY <1>10 DEF Resolved, Settled
  <2>4. \A k \in DOMAIN s.failures : k \notin X => Settled(t, k)
    BY <1>6, <1>13, <2>3 DEF Settled
  <2>5. ASSUME FailTTL > 0, NEW i \in DOMAIN J, i \notin DOMAIN t.jobs, J[i].promo,
               NEW k \in DOMAIN J[i].slots, k \notin X
        PROVE  Settled(t, k)
    <3>1. i \in promos
      BY <2>2, <2>5 DEF promos
    <3>2. k \in keys
      BY <3>1 DEF keys
    <3>3. k \in good \/ k \in failed
      BY <1>6, <2>5, <3>2
    <3> QED BY <1>13, <2>3, <2>5, <3>3 DEF Settled
  <2> QED BY <1>2, <2>1, <2>2, <2>4, <2>5 DEF Settles
<1> QED BY <1>14, <1>15 DEF t, v

\* The scan for promotions that take too long (_expire_stale_promotions).
LEMMA ExpirePromotionsKeeps ==
  ASSUME NEW X, NEW s, NEW w, NEW G, NEW C, Inv(X, s, w, G, C)
  PROVE  /\ Inv(X, ExpirePromotions(s), w, G, C)
         /\ Settles(X, s, ExpirePromotions(s))
<1> DEFINE p == s.primary
           J == s.jobs
           old == StalePromotions(s)
           keys == UNION {DOMAIN s.jobs[i].slots : i \in old}
           t == ExpirePromotions(s)
<1>1. /\ IsMgr(s) /\ IsFun(s.failures)
      /\ Blocks(X, p, s.queued, J, s.stores, G)
      /\ Ids(J, w, s.retracted, s.drained, G)
      /\ Room(s.queued, J, w, s.retracted, s.drained, G, 0)
      /\ Counted(s.reqs, G, C)
      /\ s.polled \in BOOLEAN
  BY DEF Inv, Core
<1>2. /\ t.primary = Drop(p, keys)
      /\ t.jobs = Without(J, old)
      /\ t.failures = Suppress(s.failures, keys)
      /\ t.retracted = s.retracted \cup old
      /\ t.drained = s.drained
      /\ t.queued = s.queued /\ t.stores = s.stores /\ t.reqs = s.reqs
      /\ t.polled = s.polled
      /\ IsMgr(t)
  <2>1. t = [s EXCEPT
               !.primary = Drop(@, keys),
               !.jobs = Without(@, old),
               !.failures = Suppress(@, keys),
               !.retracted = @ \cup old]
    BY DEF ExpirePromotions
  <2> HIDE DEF keys, old, t
  <2> QED BY <1>1, <2>1 DEF IsMgr
<1>3. Promotions(J, old) /\ keys = KeysOf(J, old)
  BY DEF StalePromotions, Promotions, KeysOf
<1>4. \A i \in old : \A k \in DOMAIN J[i].slots : k \in keys
  OBVIOUS
<1>5. IsTable(p) /\ DOMAIN J \in SUBSET Id /\ IsFun(J)
  BY <1>1 DEF Blocks, Shapes
<1> HIDE DEF old, keys, t, p, J
<1>6. Fill(p, {}) = p
  BY <1>5 DEF Fill, IsTable
<1>7. Splits({}, keys, KeysOf(J, old))
  BY <1>3 DEF Splits
<1>8. Blocks(X, t.primary, s.queued, t.jobs, s.stores, G)
  <2>1. Blocks(X, p, s.queued, J, s.stores, G)
    BY <1>1
  <2>2. Blocks(X, Drop(Fill(p, {}), keys), s.queued, Without(J, old), s.stores, G)
    BY <1>3, <1>7, <2>1, PromotionsEnd
  <2> QED BY <1>2, <1>6, <2>2
<1>9. Ready(t.primary) = Ready(p)
  <2>1. /\ IsTable(Drop(p, keys)) /\ Ready(Drop(p, keys)) = Ready(p)
    BY <1>5, DropEffect
  <2> QED BY <1>2, <2>1
<1>10. /\ Ids(t.jobs, w, t.retracted, t.drained, G)
       /\ Known(t.jobs, w, t.retracted, t.drained, G)
            \subseteq Known(J, w, s.retracted, s.drained, G)
  <2>1. Ids(J, w, s.retracted, s.drained, G) /\ old \in SUBSET DOMAIN J
    BY <1>1, <1>3 DEF Promotions
  <2>2. /\ Ids(Without(J, old), w, s.retracted \cup old \cup {}, s.drained, G)
        /\ Known(Without(J, old), w, s.retracted \cup old \cup {}, s.drained, G)
            \subseteq Known(J, w, s.retracted, s.drained, G)
    BY <1>5, <2>1, RetractedIds
  <2>3. s.retracted \cup old \cup {} = t.retracted
    BY <1>2
  <2> QED BY <1>2, <2>2, <2>3
<1>11. Room(s.queued, t.jobs, w, t.retracted, t.drained, G, 0)
  <2>1. IsFiniteSet(BatchesOf(s.queued))
    BY <1>1, BatchesAreFinite DEF Blocks, Shapes
  <2> QED BY <1>1, <1>10, <2>1, RoomGrows DEF Room
<1>12. /\ IsFun(t.failures) /\ DOMAIN s.failures \subseteq DOMAIN t.failures
       /\ FailTTL > 0 => keys \subseteq DOMAIN t.failures
  BY <1>1, <1>2, SuppressEffect
<1>13. Inv(X, t, w, G, C)
  BY <1>1, <1>2, <1>8, <1>10, <1>11, <1>12 DEF Inv, Core
<1>14. Settles(X, s, t)
  <2>1. DOMAIN t.jobs = DOMAIN J \ old /\ \A i \in DOMAIN t.jobs : t.jobs[i] = J[i]
    <3>1. /\ DOMAIN Without(J, old) = DOMAIN J \ old
          /\ \A i \in DOMAIN Without(J, old) : Without(J, old)[i] = J[i]
      BY WithoutEffect
    <3> QED BY <1>2, <3>1
  <2>2. \A k \in DOMAIN s.failures : k \notin X => Settled(t, k)
    BY <1>12 DEF Settled
  <2>3. ASSUME FailTTL > 0, NEW i \in DOMAIN J, i \notin DOMAIN t.jobs, J[i].promo,
               NEW k \in DOMAIN J[i].slots
        PROVE  Settled(t, k)
    BY <1>4, <1>12, <2>1, <2>3 DEF Settled
  <2> QED BY <1>2, <1>9, <2>1, <2>2, <2>3 DEF Settles, p, J
<1> QED BY <1>13, <1>14 DEF t

\* The scan for stores that take too long (_expire_stale_store_pends).
LEMMA ExpireStoresKeeps ==
  ASSUME NEW X, NEW s, NEW w, NEW G, NEW C, Inv(X, s, w, G, C)
  PROVE  /\ Inv(X, ExpireStores(s), w, G, C)
         /\ Settles(X, s, ExpireStores(s))
<1> DEFINE p == s.primary
           S == s.stores
           old == StaleStores(s)
           ids == {s.stores[k].batch : k \in old}
           t == ExpireStores(s)
<1>1. /\ IsMgr(s) /\ IsFun(s.failures)
      /\ Blocks(X, p, s.queued, s.jobs, S, G)
      /\ Ids(s.jobs, w, s.retracted, s.drained, G)
      /\ Room(s.queued, s.jobs, w, s.retracted, s.drained, G, 0)
      /\ Counted(s.reqs, G, C)
      /\ s.polled \in BOOLEAN
  BY DEF Inv, Core
<1>2. /\ t.primary = Drop(p, old)
      /\ t.stores = Without(S, old)
      /\ t.retracted = s.retracted \cup ids
      /\ t.jobs = s.jobs /\ t.drained = s.drained /\ t.failures = s.failures
      /\ t.queued = s.queued /\ t.reqs = s.reqs /\ t.polled = s.polled
      /\ IsMgr(t)
  <2>1. t = [s EXCEPT
               !.primary = Drop(@, old),
               !.stores = Without(@, old),
               !.retracted = @ \cup ids]
    BY DEF ExpireStores
  <2> HIDE DEF ids, old, t
  <2> QED BY <1>1, <2>1 DEF IsMgr
<1>3. Shapes(p, s.queued, s.jobs, S, G) /\ Timed(S, G)
  BY <1>1 DEF Blocks
<1>4. old \in SUBSET DOMAIN S
  BY DEF StaleStores
<1>5. /\ ids \in SUBSET Id
      /\ \A i \in ids : \E g \in G : g.kind = "store" /\ i = g.batch
  <2>1. ASSUME NEW i \in ids
        PROVE  i \in Id /\ \E g \in G : g.kind = "store" /\ i = g.batch
    <3>1. PICK k \in old : i = S[k].batch
      OBVIOUS
    <3>2. PICK g \in G : g.kind = "store" /\ S[k].batch = g.batch
      BY <1>3, <1>4, <3>1 DEF Timed
    <3>3. g.batch \in Id
      BY <1>3, <3>2 DEF Shapes, IsTransfer
    <3> QED BY <3>1, <3>2, <3>3
  <2> QED BY <2>1
<1> HIDE DEF old, ids, t, p, S
<1>6. /\ Blocks(X, t.primary, s.queued, s.jobs, t.stores, G)
      /\ Ready(t.primary) = Ready(p)
  <2>1. Blocks(X, p, s.queued, s.jobs, S, G)
    BY <1>1
  <2>2. /\ Blocks(X, Drop(p, old), s.queued, s.jobs, Without(S, old), G)
    BY <1>4, <2>1, StoresExpire
  <2>3. Ready(Drop(p, old)) = Ready(p)
    <3>1. IsTable(p)
      BY <1>3 DEF Shapes
    <3> QED BY <3>1, DropEffect
  <2> QED BY <1>2, <2>2, <2>3
<1>7. /\ Ids(t.jobs, w, t.retracted, t.drained, G)
      /\ Known(t.jobs, w, t.retracted, t.drained, G)
           \subseteq Known(s.jobs, w, s.retracted, s.drained, G)
  <2>1. /\ Ids(s.jobs, w, s.retracted, s.drained, G) /\ {} \in SUBSET DOMAIN s.jobs
        /\ DOMAIN s.jobs \in SUBSET Id /\ IsFun(s.jobs)
    BY <1>1, <1>3 DEF Shapes
  <2>2. /\ Ids(Without(s.jobs, {}), w, s.retracted \cup {} \cup ids, s.drained, G)
        /\ Known(Without(s.jobs, {}), w, s.retracted \cup {} \cup ids, s.drained, G)
            \subseteq Known(s.jobs, w, s.retracted, s.drained, G)
    BY <1>5, <2>1, RetractedIds
  <2>3. s.retracted \cup {} \cup ids = t.retracted
    BY <1>2
  <2>4. Without(s.jobs, {}) = s.jobs
    BY <2>1 DEF Without, Restrict, IsFun
  <2> QED BY <1>2, <2>2, <2>3, <2>4
<1>8. Room(s.queued, t.jobs, w, t.retracted, t.drained, G, 0)
  <2>1. IsFiniteSet(BatchesOf(s.queued))
    BY <1>3, BatchesAreFinite DEF Shapes
  <2> QED BY <1>1, <1>7, <2>1, RoomGrows DEF Room
<1>9. Inv(X, t, w, G, C)
  BY <1>1, <1>2, <1>6, <1>7, <1>8 DEF Inv, Core
<1>10. Settles(X, s, t)
  BY <1>2, <1>6 DEF Settles, Settled, p
<1> QED BY <1>9, <1>10 DEF t

\* An operation finds the manager polled in this step, or polls it first
\* (_maybe_process_finished_jobs).
LEMMA ProcessKeeps ==
  ASSUME NEW X, NEW s, NEW G, NEW C, Inv(X, s, work, G, C), NEW t \in Process(s)
  PROVE  Inv(X, t, Without(work, Reported), G, C) /\ Settles(X, s, t)
<1>1. PICK at \in Orders(KnownReports(s)) :
         t = ExpireStores(ExpirePromotions(ConsumeReports(s, at)))
  BY DEF Process
<1> DEFINE s1 == ConsumeReports(s, at)
           s2 == ExpirePromotions(s1)
           w == Without(work, Reported)
<1> HIDE DEF s1, s2, w
<1>2. Inv(X, s1, w, G, C) /\ Settles(X, s, s1)
  BY ConsumeKeeps DEF s1, w
<1>3. Inv(X, s2, w, G, C) /\ Settles(X, s1, s2)
  BY <1>2, ExpirePromotionsKeeps DEF s2
<1>4. Inv(X, t, w, G, C) /\ Settles(X, s2, t)
  BY <1>1, <1>3, ExpireStoresKeeps DEF s1, s2
<1>5. Settles(X, s, t)
  BY <1>2, <1>3, <1>4, SettlesTransitive
<1> QED BY <1>4, <1>5 DEF w

\* What polling within a step may do, the flag aside.
SettlesStep(X, s, t) ==
    /\ t.reqs = s.reqs /\ t.queued = s.queued
    /\ DOMAIN t.jobs \subseteq DOMAIN s.jobs
    /\ \A i \in DOMAIN t.jobs : t.jobs[i] = s.jobs[i]
    /\ \A k \in DOMAIN s.failures : k \notin X => Settled(t, k)
    /\ FailTTL > 0 =>
          \A i \in DOMAIN s.jobs : (i \notin DOMAIN t.jobs /\ s.jobs[i].promo) =>
             \A k \in DOMAIN s.jobs[i].slots : k \notin X => Settled(t, k)

\* The flag alone changes nothing of this.
LEMMA PolledKeeps ==
  ASSUME Books, NEW t \in Polled
  PROVE  Inv(taken, t, WorkPolled, gpu, closed) /\ SettlesStep(taken, m, t)
<1>1. CASE m.polled
  <2>1. t = m /\ WorkPolled = work
    BY <1>1 DEF Polled, WorkPolled
  <2> QED BY <2>1 DEF Books, SettlesStep, Settled
<1>2. CASE ~m.polled
  <2> DEFINE s == [m EXCEPT !.polled = TRUE]
  <2>1. t \in Process(s) /\ WorkPolled = Without(work, Reported)
    BY <1>2 DEF Polled, WorkPolled
  <2>2. /\ s.primary = m.primary /\ s.jobs = m.jobs /\ s.queued = m.queued
        /\ s.failures = m.failures /\ s.retracted = m.retracted /\ s.drained = m.drained
        /\ s.stores = m.stores /\ s.reqs = m.reqs /\ s.polled = TRUE /\ IsMgr(s)
    <3>1. IsMgr(m)
      BY DEF Books, Inv, Core
    <3>2. s = [m EXCEPT !.polled = TRUE]
      OBVIOUS
    <3> HIDE DEF s
    <3> QED BY <3>1, <3>2 DEF IsMgr
  <2> HIDE DEF s
  <2>3. Inv(taken, s, work, gpu, closed)
    BY <2>2 DEF Books, Inv, Core
  <2>4. Inv(taken, t, Without(work, Reported), gpu, closed) /\ Settles(taken, s, t)
    BY <2>1, <2>3, ProcessKeeps
  <2>5. SettlesStep(taken, m, t)
    BY <2>2, <2>4 DEF Settles, SettlesStep
  <2> QED BY <2>1, <2>4, <2>5
<1> QED BY <1>1, <1>2

-----------------------------------------------------------------------------
(***************************************************************************)
(* Reservations.                                                           *)
(***************************************************************************)
\* t is p with the new keys of K pending, and perhaps idle blocks evicted.
Reserving(p, t, K) ==
    /\ IsTable(t) /\ \A k, l \in DOMAIN t : t[k].slot = t[l].slot => k = l
    /\ \A k \in K : k \notin DOMAIN p => k \in DOMAIN t /\ t[k].ref = -1
    /\ \A k \in DOMAIN t : k \in DOMAIN p \/ k \in K
    /\ \A k \in DOMAIN t : k \in DOMAIN p => t[k] = p[k]
    /\ \A k \in DOMAIN p : k \notin DOMAIN t => p[k].ref = 0 /\ k \notin K

\* prepare_store gives the new keys slots that are free, or of evicted blocks.
LEMMA ReservationEffect ==
  ASSUME NEW p, IsTable(p), \A k, l \in DOMAIN p : p[k].slot = p[l].slot => k = l,
         NEW K \in SUBSET Key, NEW t \in Reservations(p, K)
  PROVE  Reserving(p, t, K)
<1> DEFINE new == K \ DOMAIN p
           free == {i \in Slot : i < num_blocks} \ Range(SlotsOf(p, DOMAIN p))
           deficit == Max({0, Cardinality(new) - Cardinality(free)})
           Res(E, at) ==
              [k \in (DOMAIN p \ E) \cup new |->
                  IF k \in new THEN [ref |-> -1, slot |-> at[k]] ELSE p[k]]
<1>1. PICK E \in kSubset(deficit, Evictable(p, K)) :
         t \in {Res(E, at) : at \in Injection(new, free \cup Range(SlotsOf(p, E)))}
  <2>1. t \in UNION {{Res(E, at) : at \in Injection(new, free \cup Range(SlotsOf(p, E)))}
                     : E \in kSubset(deficit, Evictable(p, K))}
    BY DEF Reservations
  <2> HIDE DEF new, free, deficit, Res
  <2> QED BY <2>1
<1>2. PICK at \in Injection(new, free \cup Range(SlotsOf(p, E))) : t = Res(E, at)
  <2> HIDE DEF new, free, deficit, Res
  <2> QED BY <1>1
<1>3. \A k \in E : k \in DOMAIN p /\ k \notin K /\ p[k].ref = 0
  <2> HIDE DEF deficit
  <2> QED BY DEF kSubset, Evictable, Ready
<1>4. /\ \A k \in DOMAIN p : p[k].slot \in Slot /\ p[k].slot \notin free
      /\ \A x \in free : x \in Slot
      /\ \A x \in Range(SlotsOf(p, E)) : \E e \in E : x = p[e].slot
  <2>1. \A k \in DOMAIN p : p[k].slot \in Slot
    BY TableParts DEF Block
  <2>2. \A k \in DOMAIN p : p[k].slot \in Range(SlotsOf(p, DOMAIN p))
    BY DEF Range, SlotsOf
  <2>3. \A x \in Range(SlotsOf(p, E)) : \E e \in E : x = p[e].slot
    BY DEF Range, SlotsOf
  <2> QED BY <2>1, <2>2, <2>3
<1>5. /\ \A k \in new : at[k] \in free \/ \E e \in E : at[k] = p[e].slot
      /\ \A k, l \in new : at[k] = at[l] => k = l
  <2> HIDE DEF new, free, deficit, Res
  <2>1. at \in [new -> free \cup Range(SlotsOf(p, E))]
    BY DEF Injection
  <2>2. \A k, l \in new : at[k] = at[l] => k = l
    BY <2>1 DEF Injection, IsInjective
  <2>3. \A k \in new : at[k] \in free \/ at[k] \in Range(SlotsOf(p, E))
    BY <2>1
  <2> QED BY <1>4, <2>2, <2>3
<1>6. /\ \A k : k \in DOMAIN t <=> ((k \in DOMAIN p /\ k \notin E) \/ k \in new)
      /\ t = [k \in DOMAIN t |-> t[k]]
      /\ \A k \in new : t[k].ref = -1 /\ t[k].slot = at[k]
                        /\ t[k] = [ref |-> -1, slot |-> at[k]]
      /\ \A k \in DOMAIN p : (k \notin E /\ k \notin new) => t[k] = p[k]
  <2> HIDE DEF new, free, deficit
  <2> QED BY <1>2
<1>61. \A k : k \in new <=> k \in K /\ k \notin DOMAIN p
  OBVIOUS
<1> HIDE DEF new, free, deficit, Res
<1>7. \A k \in new : at[k] \in Slot
  BY <1>3, <1>4, <1>5
<1>8. IsTable(t)
  <2>1. ASSUME NEW k \in DOMAIN t PROVE k \in Key /\ t[k] \in Block
    <3>1. CASE k \in new
      <4>1. k \in K /\ at[k] \in Slot
        BY <1>61, <1>7, <3>1
      <4>2. t[k] = [ref |-> -1, slot |-> at[k]]
        BY <1>6, <3>1
      <4>3. t[k] \in Block
        BY <4>1, <4>2 DEF Block
      <4>4. k \in Key
        BY <4>1
      <4> QED BY <4>3, <4>4
    <3>2. CASE k \notin new
      BY <1>6, <3>2, TableParts
    <3> QED BY <3>1, <3>2
  <2>2. DOMAIN t \in SUBSET Key
    BY <2>1
  <2> QED BY <1>6, <2>1, <2>2 DEF IsTable
<1>9. ASSUME NEW k \in DOMAIN t, NEW l \in DOMAIN t, t[k].slot = t[l].slot PROVE k = l
  <2>1. ASSUME NEW x \in new, NEW y \in DOMAIN p, y \notin E PROVE t[x].slot # t[y].slot
    <3>1. t[x].slot = at[x] /\ t[y] = p[y]
      BY <1>6, <1>61, <2>1
    <3>2. at[x] # p[y].slot
      BY <1>3, <1>4, <1>5, <2>1
    <3> QED BY <3>1, <3>2
  <2>2. CASE k \in new /\ l \in new
    <3>1. t[k].slot = at[k] /\ t[l].slot = at[l]
      BY <1>6, <2>2
    <3> QED BY <1>5, <1>9, <2>2, <3>1
  <2>3. CASE k \notin new /\ l \notin new
    BY <1>6, <1>9, <2>3
  <2>4. CASE k \in new /\ l \notin new
    BY <1>6, <1>9, <2>1, <2>4
  <2>5. CASE k \notin new /\ l \in new
    BY <1>6, <1>9, <2>1, <2>5
  <2> QED BY <2>2, <2>3, <2>4, <2>5
<1>10. \A k \in DOMAIN p : k \notin DOMAIN t => p[k].ref = 0 /\ k \notin K
  BY <1>3, <1>6
<1>11. \A k \in DOMAIN t : k \in DOMAIN p => t[k] = p[k]
  BY <1>6, <1>61
<1>12. /\ \A k \in K : k \notin DOMAIN p => k \in DOMAIN t /\ t[k].ref = -1
       /\ \A k \in DOMAIN t : k \in DOMAIN p \/ k \in K
  BY <1>6, <1>61
<1> QED BY <1>8, <1>9, <1>10, <1>11, <1>12 DEF Reserving

\* A key that gets a block had nobody to do with it, and nor has one whose
\* block is evicted.
LEMMA ReservedWasAbsent ==
  ASSUME NEW X, NEW p, NEW Q, NEW J, NEW S, NEW G, Blocks(X, p, Q, J, S, G),
         NEW K \in SUBSET Key, NEW t, Reserving(p, t, K)
  PROVE  /\ \A k \in K : k \notin DOMAIN p => Absent(X, Q, J, S, G, k)
         /\ \A k \in Key : k \notin DOMAIN t => Absent(X, Q, J, S, G, k)
         /\ \A k \in Key : (k \in DOMAIN p \/ k \notin K) =>
               /\ k \in Pending(t) => Filling(X, Q, J, S, G, k)
               /\ k \in Ready(t) => Readable(X, t, Q, J, S, G, k)
         /\ \A k \in K : k \notin DOMAIN p => k \in Pending(t)
<1>1. Shapes(p, Q, J, S, G) /\ Owned(X, p, Q, J, S, G)
  BY DEF Blocks
<1>2. IsTable(p) /\ IsTable(t) /\ DOMAIN J \in SUBSET Id /\ IsFiniteSet(G)
  BY <1>1 DEF Shapes, Reserving
<1>3. \A k \in K : k \notin DOMAIN p => Absent(X, Q, J, S, G, k)
  BY <1>1 DEF Owned
<1>4. ASSUME NEW k \in Key, k \notin DOMAIN t PROVE Absent(X, Q, J, S, G, k)
  <2>1. CASE k \notin DOMAIN p
    BY <1>1, <2>1 DEF Owned
  <2>2. CASE k \in DOMAIN p
    <3>1. p[k].ref = 0
      BY <1>4, <2>2 DEF Reserving
    <3>2. k \in Ready(p)
      BY <1>2, <2>2, <3>1, TableParts
    <3>3. Readable(X, p, Q, J, S, G, k)
      BY <1>1, <3>2 DEF Owned
    <3>4. /\ IsFiniteSet(Copying(J, k)) /\ Cardinality(Copying(J, k)) \in Nat
          /\ IsFiniteSet(Reading(G, k)) /\ Cardinality(Reading(G, k)) \in Nat
      BY <1>2, ReadersAreFinite
    <3>5. Cardinality(Copying(J, k)) = 0 /\ Cardinality(Reading(G, k)) = 0
      BY <3>1, <3>3, <3>4 DEF Readable
    <3>6. Copying(J, k) = {} /\ Reading(G, k) = {}
      BY <3>4, <3>5, FS_EmptySet
    <3> QED BY <3>3, <3>6 DEF Readable, Absent
  <2> QED BY <2>1, <2>2
<1>5. ASSUME NEW k \in Key, k \in DOMAIN p \/ k \notin K
      PROVE  /\ k \in Pending(t) => Filling(X, Q, J, S, G, k)
             /\ k \in Ready(t) => Readable(X, t, Q, J, S, G, k)
  <2>1. SUFFICES ASSUME k \in DOMAIN t
                 PROVE  /\ k \in Pending(t) => Filling(X, Q, J, S, G, k)
                        /\ k \in Ready(t) => Readable(X, t, Q, J, S, G, k)
    BY <1>2, TableParts
  <2>2. k \in DOMAIN p /\ t[k] = p[k]
    BY <1>5, <2>1 DEF Reserving
  <2>3. (k \in Ready(t) <=> k \in Ready(p)) /\ (k \in Pending(t) <=> k \in Pending(p))
    <3>1. (k \in Ready(t) <=> t[k].ref # -1) /\ (k \in Ready(t) \/ k \in Pending(t))
          /\ ~(k \in Ready(t) /\ k \in Pending(t))
      BY <1>2, <2>1, TableParts
    <3>2. (k \in Ready(p) <=> p[k].ref # -1) /\ (k \in Ready(p) \/ k \in Pending(p))
          /\ ~(k \in Ready(p) /\ k \in Pending(p))
      BY <1>2, <2>2, TableParts
    <3> QED BY <2>2, <3>1, <3>2
  <2> QED BY <1>1, <2>2, <2>3 DEF Owned, Readable
<1>6. \A k \in K : k \notin DOMAIN p => k \in Pending(t)
  <2>1. SUFFICES ASSUME NEW k \in K, k \notin DOMAIN p PROVE k \in Pending(t)
    OBVIOUS
  <2>2. k \in DOMAIN t /\ t[k].ref = -1
    BY <2>1 DEF Reserving
  <2> QED BY <1>2, <2>2, TableParts
<1> QED BY <1>3, <1>4, <1>5, <1>6

\* The transfers keep their place: what they move is not evicted.
LEMMA ReservedPlaced ==
  ASSUME NEW X, NEW p, NEW Q, NEW J, NEW S, NEW G, Blocks(X, p, Q, J, S, G),
         NEW K \in SUBSET Key, NEW t, Reserving(p, t, K)
  PROVE  Placed(X, t, Q, J, S, G)
<1>1. Shapes(p, Q, J, S, G) /\ Placed(X, p, Q, J, S, G)
  BY DEF Blocks
<1>2. \A k \in Key : k \notin DOMAIN t => Absent(X, Q, J, S, G, k)
  BY ReservedWasAbsent
<1>3. \A k \in DOMAIN t : k \in DOMAIN p => t[k].slot = p[k].slot
  BY DEF Reserving
<1>4. ASSUME NEW k \in Key, NEW c, At(p, k, c),
             \/ \E x : x \in Copying(J, k) \/ x \in Reading(G, k)
             \/ k \notin X /\ \E x : \/ x \in QueuedFor(Q, k) \/ x \in Fetching(J, k)
                                    \/ x \in Saving(S, G, k)
      PROVE  At(t, k, c)
  <2>1. k \in DOMAIN p /\ p[k].slot = c
    BY <1>4 DEF At
  <2>2. ~Absent(X, Q, J, S, G, k)
    BY <1>4 DEF Absent, Free, NoneOf
  <2> QED BY <1>2, <1>3, <2>1, <2>2 DEF At
<1>5. ASSUME NEW i \in DOMAIN J, NEW k \in DOMAIN J[i].slots PROVE JobPlaced(X, t, J, i, k)
  <2>1. JobPlaced(X, p, J, i, k) /\ k \in Key
    BY <1>1 DEF Placed, Shapes, IsJob, IsSlots
  <2>2. IF J[i].promo THEN i \in Fetching(J, k) ELSE i \in Copying(J, k)
    BY DEF Fetching, Copying
  <2> QED BY <1>4, <2>1, <2>2 DEF JobPlaced
<1>6. ASSUME NEW g \in G, NEW k \in DOMAIN g.slots PROVE TransferPlaced(X, t, S, g, k)
  <2>1. TransferPlaced(X, p, S, g, k) /\ k \in Key /\ g.kind \in {"load", "store"}
    BY <1>1 DEF Placed, Shapes, IsTransfer, IsSlots
  <2>2. SUFFICES ASSUME g.kind = "store" => k \notin X /\ Stands(S, g, k)
                 PROVE  At(t, k, g.slots[k])
    BY DEF TransferPlaced
  <2>3. At(p, k, g.slots[k])
    BY <2>1, <2>2 DEF TransferPlaced
  <2>4. g \in Reading(G, k) \/ (k \notin X /\ g \in Saving(S, G, k))
    BY <2>1, <2>2 DEF Saving, Reading
  <2> QED BY <1>4, <2>1, <2>3, <2>4
<1>7. ASSUME NEW q \in Q, q.key \notin X PROVE At(t, q.key, q.slot)
  <2>1. At(p, q.key, q.slot) /\ q.key \in Key
    BY <1>1, <1>7 DEF Placed, Shapes, IsPromise
  <2>2. q \in QueuedFor(Q, q.key)
    BY DEF QueuedFor
  <2> QED BY <1>4, <1>7, <2>1, <2>2
<1>8. \A k, l \in DOMAIN t : t[k].slot = t[l].slot => k = l
  BY DEF Reserving
<1> QED BY <1>5, <1>6, <1>7, <1>8 DEF Placed

\* A promotion that is queued owns the slot it reserved (_initiate_promotion).
LEMMA NewPromise ==
  ASSUME NEW X, NEW p, NEW Q, NEW J, NEW S, NEW G, Blocks(X, p, Q, J, S, G),
         NEW t, NEW q, IsPromise(q), q.key \notin DOMAIN p,
         Reserving(p, t, {q.key}), q.slot = t[q.key].slot
  PROVE  Blocks(X, t, Q \cup {q}, J, S, G)
<1> DEFINE k == q.key
           P == Q \cup {q}
<1>1. Shapes(p, Q, J, S, G) /\ Timed(S, G)
  BY DEF Blocks
<1>2. k \in Key /\ {k} \in SUBSET Key
  BY DEF IsPromise
<1>3. /\ Absent(X, Q, J, S, G, k) /\ k \in Pending(t)
      /\ \A x \in Key : x \notin DOMAIN t => Absent(X, Q, J, S, G, x)
      /\ \A x \in Key : x # k =>
               /\ x \in Pending(t) => Filling(X, Q, J, S, G, x)
               /\ x \in Ready(t) => Readable(X, t, Q, J, S, G, x)
  BY <1>2, ReservedWasAbsent
<1>4. Placed(X, t, Q, J, S, G)
  BY <1>2, ReservedPlaced
<1>5. /\ QueuedFor(P, k) = QueuedFor(Q, k) \cup {q}
      /\ \A x : x # k => QueuedFor(P, x) = QueuedFor(Q, x)
  BY DEF QueuedFor
<1> HIDE DEF P
<1>6. IsTable(t) /\ k \in DOMAIN t
  BY DEF Reserving
<1>7. Shapes(t, P, J, S, G)
  BY <1>1, <1>6 DEF Shapes, P
<1>8. Placed(X, t, P, J, S, G)
  BY <1>4, <1>6 DEF Placed, P, At
<1>9. Owned(X, t, P, J, S, G)
  <2>1. SUFFICES ASSUME NEW x \in Key
                 PROVE  /\ x \in Pending(t) => Filling(X, P, J, S, G, x)
                        /\ x \in Ready(t) => Readable(X, t, P, J, S, G, x)
                        /\ x \notin DOMAIN t => Absent(X, P, J, S, G, x)
    BY DEF Owned
  <2>2. CASE x = k
    <3>1. k \notin X => QueuedFor(P, k) = {q}
      BY <1>3, <1>5 DEF Absent, Free, NoneOf
    <3>2. Filling(X, P, J, S, G, k)
      BY <1>3, <3>1 DEF Absent, Free, NoneOf, Filling, OneOf
    <3>3. k \notin Ready(t)
      BY <1>3, <1>6, TableParts
    <3> QED BY <1>6, <2>2, <3>2, <3>3
  <2>3. CASE x # k
    BY <1>3, <1>5, <2>3 DEF Filling, Readable, Absent, Free
  <2> QED BY <2>2, <2>3
<1> QED BY <1>1, <1>7, <1>8, <1>9 DEF Blocks, P

\* The deadlines of a store, if there are any.
Dated(S, D) == IF StoreTTL > 0 THEN Updated(S, D) ELSE S

\* A store that begins owns the slots it reserved, and its deadlines change
\* nothing for the others (prepare_store).
LEMMA NewStore ==
  ASSUME NEW X, NEW p, NEW Q, NEW J, NEW S, NEW G, Blocks(X, p, Q, J, S, G),
         NEW K \in SUBSET Key, NEW t, Reserving(p, t, K),
         NEW r \in Request, NEW b \in Id, \A h \in G : h.batch # b,
         NEW new, new = K \ DOMAIN p, new # {},
         NEW g, g = Transfer("store", t, new, r, b)
  PROVE  Blocks(X, t, Q, J, Dated(S, Deadlines(r, new, b)), G \cup {g})
<1> DEFINE d == Deadlines(r, new, b)
           Z == Dated(S, d)
           F == G \cup {g}
<1>1. Shapes(p, Q, J, S, G) /\ Owned(X, p, Q, J, S, G) /\ Timed(S, G)
  BY DEF Blocks
<1>2. /\ \A k \in new : Absent(X, Q, J, S, G, k) /\ k \in Pending(t)
      /\ \A k \in Key : k \notin DOMAIN t => Absent(X, Q, J, S, G, k)
      /\ \A k \in Key : k \notin new =>
               /\ k \in Pending(t) => Filling(X, Q, J, S, G, k)
               /\ k \in Ready(t) => Readable(X, t, Q, J, S, G, k)
  <2>1. /\ \A k \in K : k \notin DOMAIN p => Absent(X, Q, J, S, G, k)
        /\ \A k \in Key : k \notin DOMAIN t => Absent(X, Q, J, S, G, k)
        /\ \A k \in Key : (k \in DOMAIN p \/ k \notin K) =>
               /\ k \in Pending(t) => Filling(X, Q, J, S, G, k)
               /\ k \in Ready(t) => Readable(X, t, Q, J, S, G, k)
        /\ \A k \in K : k \notin DOMAIN p => k \in Pending(t)
    BY ReservedWasAbsent
  <2>2. \A k : k \in new <=> (k \in K /\ k \notin DOMAIN p)
    OBVIOUS
  <2> QED BY <2>1, <2>2
<1>3. Placed(X, t, Q, J, S, G)
  BY ReservedPlaced
<1>4. /\ IsTable(t) /\ \A k \in new : k \in DOMAIN t /\ k \in Key
      /\ IsTable(p) /\ DOMAIN S \in SUBSET Key /\ StoreTTL \in Nat
  BY <1>1, TieringAssumption DEF Reserving, Shapes
<1>5. /\ g = [kind |-> "store", slots |-> [k \in new |-> t[k].slot], req |-> r, batch |-> b]
      /\ g.kind = "store" /\ g.batch = b /\ g.req = r /\ DOMAIN g.slots = new
      /\ \A k \in new : g.slots[k] = t[k].slot
  BY DEF Transfer, SlotsOf
<1>6. IsTransfer(g)
  <2>1. \A k \in new : t[k].slot \in Slot
    BY <1>4, TableParts DEF Block
  <2>2. IsSlots(g.slots)
    <3>1. g.slots = [k \in new |-> t[k].slot] /\ new \in SUBSET Key
      BY <1>4, <1>5
    <3> QED BY <2>1, <3>1 DEF IsSlots
  <2>3. g = [kind |-> g.kind, slots |-> g.slots, req |-> g.req, batch |-> g.batch]
    BY <1>5
  <2> QED BY <1>5, <2>2, <2>3 DEF IsTransfer
<1>7. /\ DOMAIN d = new /\ IsFun(d)
      /\ \A k \in new : /\ d[k] = [req |-> r, batch |-> b, age |-> 0]
                        /\ d[k].batch = b /\ d[k].age = 0
  BY DEF Deadlines, IsFun
<1>8. \A k \in DOMAIN S : k \notin X => k \notin new
  <2>1. SUFFICES ASSUME NEW k \in DOMAIN S, k \notin X PROVE ~Absent(X, Q, J, S, G, k)
    BY <1>2
  <2>2. PICK h \in G : h.kind = "store" /\ k \in DOMAIN h.slots /\ S[k].batch = h.batch
    BY <1>1 DEF Timed
  <2>3. h \in Saving(S, G, k)
    BY <2>2 DEF Saving, Stands
  <2> QED BY <2>1, <2>3 DEF Absent, Free, NoneOf
<1> HIDE DEF d
<1>9. StoreTTL > 0 =>
         /\ IsFun(Z)
         /\ \A k : k \in DOMAIN Z <=> (k \in DOMAIN S \/ k \in new)
         /\ \A k \in new : /\ Z[k] = [req |-> r, batch |-> b, age |-> 0]
                           /\ Z[k].batch = b /\ Z[k].age = 0
         /\ \A k \in DOMAIN S : k \notin new => Z[k] = S[k]
  <2>1. /\ IsFun(Updated(S, d)) /\ DOMAIN Updated(S, d) = DOMAIN S \cup new
        /\ \A x \in DOMAIN Updated(S, d) :
              Updated(S, d)[x] = IF x \in new THEN d[x] ELSE S[x]
    <3>1. DOMAIN d = new
      BY <1>7
    <3>2. /\ IsFun(Updated(S, d)) /\ DOMAIN Updated(S, d) = DOMAIN S \cup DOMAIN d
          /\ \A x \in DOMAIN Updated(S, d) :
                Updated(S, d)[x] = IF x \in DOMAIN d THEN d[x] ELSE S[x]
      BY ONLY UpdatedEffect
    <3> QED BY ONLY <3>1, <3>2
  <2> QED BY <1>7, <1>8, <2>1 DEF Dated
<1>10. StoreTTL = 0 => Z = S
  BY DEF Dated
<1> HIDE DEF Z, F
<1>11. \A h \in G : \A k : k \notin new => (Stands(Z, h, k) <=> Stands(S, h, k))
  BY <1>4, <1>9, <1>10 DEF Stands
<1>12. \A k \in new : Stands(Z, g, k)
  BY <1>5, <1>9 DEF Stands
<1>13. /\ \A h : h \in F <=> (h \in G \/ h = g)
       /\ g \notin G
  BY <1>5 DEF F
<1>14. ASSUME NEW k \in Key
       PROVE  /\ k \in new /\ k \notin X => Saving(Z, F, k) = {g}
              /\ k \notin new => Saving(Z, F, k) = Saving(S, G, k)
              /\ Reading(F, k) = Reading(G, k)
  <2>1. k \notin new => Saving(Z, F, k) = Saving(S, G, k)
    BY <1>5, <1>11, <1>13 DEF Saving
  <2>2. Reading(F, k) = Reading(G, k)
    BY <1>5, <1>13 DEF Reading
  <2>3. ASSUME k \in new, k \notin X PROVE Saving(Z, F, k) = {g}
    <3>1. g \in Saving(Z, F, k)
      BY <1>5, <1>12, <1>13, <2>3 DEF Saving
    <3>2. ASSUME NEW h \in G PROVE h \notin Saving(Z, F, k)
      <4>1. CASE StoreTTL > 0
        BY <1>9, <2>3, <4>1 DEF Saving, Stands
      <4>2. CASE StoreTTL = 0
        <5>1. Saving(S, G, k) = {}
          BY <1>2, <2>3 DEF Absent, Free, NoneOf
        <5> QED BY <1>10, <4>2, <5>1 DEF Saving
      <4> QED BY <1>4, <4>1, <4>2
    <3>3. \A h \in Saving(Z, F, k) : h = g
      BY <1>13, <3>2 DEF Saving
    <3> QED BY <3>1, <3>3
  <2> QED BY <2>1, <2>2, <2>3
<1>15. Shapes(t, Q, J, Z, F)
  <2>1. IsFiniteSet(F)
    BY <1>1, FS_AddElement DEF Shapes, F
  <2>2. IsFun(Z) /\ DOMAIN Z \in SUBSET Key /\ \A k \in DOMAIN Z : IsDeadline(Z[k])
    <3>1. CASE StoreTTL = 0
      BY <1>1, <1>10, <3>1 DEF Shapes
    <3>2. CASE StoreTTL > 0
      <4>1. \A k \in new : IsDeadline(Z[k])
        BY <1>9, <3>2 DEF IsDeadline
      <4>2. \A k \in DOMAIN S : k \notin new => IsDeadline(Z[k])
        BY <1>1, <1>9, <3>2 DEF Shapes
      <4> QED BY <1>4, <1>9, <3>2, <4>1, <4>2
    <3> QED BY <1>4, <3>1, <3>2
  <2> QED BY <1>1, <1>4, <1>6, <1>13, <2>1, <2>2 DEF Shapes
<1>16. Owned(X, t, Q, J, Z, F)
  <2>1. SUFFICES ASSUME NEW k \in Key
                 PROVE  /\ k \in Pending(t) => Filling(X, Q, J, Z, F, k)
                        /\ k \in Ready(t) => Readable(X, t, Q, J, Z, F, k)
                        /\ k \notin DOMAIN t => Absent(X, Q, J, Z, F, k)
    BY DEF Owned
  <2>2. CASE k \in new
    <3>1. Absent(X, Q, J, S, G, k) /\ k \in DOMAIN t /\ k \notin Ready(t)
      BY <1>2, <1>4, <2>2, TableParts
    <3>2. (k \notin X => Saving(Z, F, k) = {g}) /\ Reading(F, k) = {}
      BY <1>14, <2>2, <3>1 DEF Absent
    <3>3. Filling(X, Q, J, Z, F, k)
      BY <3>1, <3>2 DEF Absent, Free, NoneOf, Filling, OneOf
    <3> QED BY <3>1, <3>3
  <2>3. CASE k \notin new
    <3>1. Saving(Z, F, k) = Saving(S, G, k) /\ Reading(F, k) = Reading(G, k)
      BY <1>14, <2>3
    <3> QED BY <1>2, <2>3, <3>1 DEF Filling, Readable, Absent, Free
  <2> QED BY <2>2, <2>3
<1>17. Placed(X, t, Q, J, Z, F)
  <2>1. \A k \in new : TransferPlaced(X, t, Z, g, k)
    BY <1>4, <1>5 DEF At, TransferPlaced
  <2>2. ASSUME NEW h \in G, NEW k \in DOMAIN h.slots PROVE TransferPlaced(X, t, Z, h, k)
    <3>1. TransferPlaced(X, t, S, h, k) /\ k \in Key /\ h.kind \in {"load", "store"}
      BY <1>1, <1>3 DEF Placed, Shapes, IsTransfer, IsSlots
    <3>2. CASE k \in new /\ h.kind = "store" /\ k \notin X
      <4>1. h \notin Saving(Z, F, k)
        BY <1>13, <1>14, <3>1, <3>2
      <4> QED BY <1>13, <3>2, <4>1 DEF Saving, TransferPlaced
    <3>3. CASE k \in new /\ h.kind = "load"
      BY <3>1, <3>3 DEF TransferPlaced
    <3> QED BY <1>11, <3>1, <3>2, <3>3 DEF TransferPlaced
  <2> QED BY <1>3, <1>5, <1>13, <2>1, <2>2 DEF Placed
<1>18. Timed(Z, F)
  <2>1. StoreTTL = 0 => DOMAIN Z = {}
    BY <1>1, <1>10 DEF Timed
  <2>2. ASSUME NEW k \in DOMAIN Z
        PROVE  \E h \in F : h.kind = "store" /\ k \in DOMAIN h.slots /\ Z[k].batch = h.batch
    <3>0. StoreTTL > 0
      BY <1>4, <2>1, <2>2
    <3>1. CASE k \in new
      BY <1>5, <1>9, <1>13, <3>0, <3>1
    <3>2. CASE k \notin new
      <4>1. k \in DOMAIN S /\ Z[k] = S[k]
        BY <1>9, <3>0, <3>2
      <4>2. PICK h \in G : h.kind = "store" /\ k \in DOMAIN h.slots /\ S[k].batch = h.batch
        BY <1>1, <4>1 DEF Timed
      <4> QED BY <1>13, <4>1, <4>2
    <3> QED BY <3>1, <3>2
  <2>3. ASSUME NEW h \in F, NEW x \in F, h.kind = "store", x.kind = "store", h.batch = x.batch
        PROVE  h = x
    BY <1>1, <1>5, <1>13, <2>3 DEF Timed
  <2> QED BY <2>1, <2>2, <2>3 DEF Timed
<1> QED BY <1>15, <1>16, <1>17, <1>18 DEF Blocks, Z, F, d

-----------------------------------------------------------------------------
(***************************************************************************)
(* Loads.                                                                  *)
(***************************************************************************)
\* A load counts among the pins of its blocks (prepare_load).
LEMMA NewLoad ==
  ASSUME NEW X, NEW p, NEW Q, NEW J, NEW S, NEW G, Blocks(X, p, Q, J, S, G),
         NEW K \in SUBSET Ready(p), K # {}, NEW r \in Request,
         NEW g, g = Transfer("load", p, K, r, NoId), g \notin G
  PROVE  Blocks(X, Pin(p, K, 1), Q, J, S, G \cup {g})
<1> DEFINE t == Pin(p, K, 1)
           F == G \cup {g}
<1>1. Shapes(p, Q, J, S, G) /\ Owned(X, p, Q, J, S, G) /\ Placed(X, p, Q, J, S, G) /\ Timed(S, G)
  BY DEF Blocks
<1>2. IsTable(p) /\ DOMAIN J \in SUBSET Id /\ IsFiniteSet(G)
  BY <1>1 DEF Shapes
<1>3. \A k \in K : k \in DOMAIN p /\ k \in Key /\ p[k].slot \in Slot
  <2>1. \A k \in K : k \in DOMAIN p
    BY <1>2, TableParts
  <2> QED BY <1>2, <2>1, TableParts DEF Block
<1>4. /\ g = [kind |-> "load", slots |-> [k \in K |-> p[k].slot], req |-> r, batch |-> NoId]
      /\ g.kind = "load" /\ g.req = r /\ DOMAIN g.slots = K
      /\ \A k \in K : g.slots[k] = p[k].slot
  BY DEF Transfer, SlotsOf
<1>5. IsTransfer(g)
  <2>1. IsSlots(g.slots)
    <3>1. g.slots = [k \in K |-> p[k].slot] /\ K \in SUBSET Key
      BY <1>3, <1>4
    <3> QED BY <1>3, <3>1 DEF IsSlots
  <2>2. g = [kind |-> g.kind, slots |-> g.slots, req |-> g.req, batch |-> g.batch]
    BY <1>4
  <2> QED BY <1>4, <2>1, <2>2 DEF IsTransfer
<1>6. /\ IsTable(t) /\ DOMAIN t = DOMAIN p
      /\ Ready(t) = Ready(p) /\ Pending(t) = Pending(p)
      /\ \A k \in DOMAIN p :
           /\ t[k].slot = p[k].slot
           /\ t[k].ref = IF k \in K THEN p[k].ref + 1 ELSE p[k].ref
  BY <1>2, PinEffect
<1>7. \A h : h \in F <=> (h \in G \/ h = g)
  OBVIOUS
<1> HIDE DEF t, F
<1>8. ASSUME NEW k
      PROVE  /\ Saving(S, F, k) = Saving(S, G, k)
             /\ k \in K => Reading(F, k) = Reading(G, k) \cup {g}
             /\ k \notin K => Reading(F, k) = Reading(G, k)
             /\ g \notin Reading(G, k)
  BY <1>4, <1>7 DEF Saving, Reading
<1>9. Shapes(t, Q, J, S, F)
  <2>1. IsFiniteSet(F)
    BY <1>2, FS_AddElement DEF F
  <2> QED BY <1>1, <1>5, <1>6, <1>7, <2>1 DEF Shapes
<1>10. Owned(X, t, Q, J, S, F)
  <2>1. SUFFICES ASSUME NEW k \in Key
                 PROVE  /\ k \in Pending(t) => Filling(X, Q, J, S, F, k)
                        /\ k \in Ready(t) => Readable(X, t, Q, J, S, F, k)
                        /\ k \notin DOMAIN t => Absent(X, Q, J, S, F, k)
    BY DEF Owned
  <2>2. /\ k \in Pending(p) => Filling(X, Q, J, S, G, k)
        /\ k \in Ready(p) => Readable(X, p, Q, J, S, G, k)
        /\ k \notin DOMAIN p => Absent(X, Q, J, S, G, k)
    BY <1>1 DEF Owned
  <2>3. Saving(S, F, k) = Saving(S, G, k)
    BY <1>8
  <2>4. CASE k \in K
    <3>1. Readable(X, p, Q, J, S, G, k) /\ k \in DOMAIN p /\ k \notin Pending(p)
      BY <1>2, <2>2, <2>4, TableParts
    <3>2. /\ IsFiniteSet(Reading(G, k)) /\ Cardinality(Reading(G, k)) \in Nat
          /\ Cardinality(Copying(J, k)) \in Nat
      BY <1>2, ReadersAreFinite
    <3>3. Cardinality(Reading(F, k)) = Cardinality(Reading(G, k)) + 1
      BY <1>8, <2>4, <3>2, FS_AddElement
    <3>4. t[k].ref = p[k].ref + 1
      BY <1>6, <2>4, <3>1
    <3>5. Readable(X, t, Q, J, S, F, k)
      BY <2>3, <3>1, <3>2, <3>3, <3>4 DEF Readable, Free
    <3> QED BY <1>6, <3>1, <3>5
  <2>5. CASE k \notin K
    <3>1. Reading(F, k) = Reading(G, k)
      BY <1>8, <2>5
    <3>2. k \in Ready(p) => k \in DOMAIN p
      BY <1>2, TableParts
    <3> QED BY <1>6, <2>2, <2>3, <2>5, <3>1, <3>2 DEF Filling, Readable, Absent, Free
  <2> QED BY <2>4, <2>5
<1>11. Placed(X, t, Q, J, S, F)
  <2>1. Placed(X, t, Q, J, S, G)
    BY <1>1, <1>6, PlacedStays
  <2>2. \A k \in K : TransferPlaced(X, t, S, g, k)
    BY <1>3, <1>4, <1>6 DEF At, TransferPlaced
  <2> QED BY <1>4, <1>7, <2>1, <2>2 DEF Placed
<1>12. Timed(S, F)
  BY <1>1, <1>4, <1>7 DEF Timed
<1> QED BY <1>9, <1>10, <1>11, <1>12 DEF Blocks, t, F

\* A load that ends gives back its pins (complete_load).
LEMMA LoadEnds ==
  ASSUME NEW X, NEW p, NEW Q, NEW J, NEW S, NEW G, Blocks(X, p, Q, J, S, G),
         NEW g \in G, g.kind = "load",
         NEW n, n = [k \in Key |-> IF k \in DOMAIN g.slots THEN 1 ELSE 0]
  PROVE  Blocks(X, Unpin(p, n), Q, J, S, G \ {g})
<1> DEFINE t == Unpin(p, n)
           F == G \ {g}
           K == DOMAIN g.slots
<1>1. Shapes(p, Q, J, S, G) /\ Owned(X, p, Q, J, S, G) /\ Placed(X, p, Q, J, S, G) /\ Timed(S, G)
  BY DEF Blocks
<1>2. IsTable(p) /\ DOMAIN J \in SUBSET Id /\ IsFiniteSet(G)
  BY <1>1 DEF Shapes
<1>3. n \in [Key -> Nat] /\ \A k \in Key : n[k] = IF k \in K THEN 1 ELSE 0
  OBVIOUS
<1>4. ASSUME NEW k
      PROVE  /\ Saving(S, F, k) = Saving(S, G, k)
             /\ Reading(F, k) = Reading(G, k) \ {g}
             /\ k \in K <=> g \in Reading(G, k)
  BY DEF Saving, Reading
<1> HIDE DEF t, F, K
<1>5. ASSUME NEW k \in Key
      PROVE  /\ n[k] \in Nat /\ n[k] <= Cardinality(Reading(G, k))
             /\ Cardinality(Reading(F, k)) = Cardinality(Reading(G, k)) - n[k]
  <2>1. IsFiniteSet(Reading(G, k)) /\ Cardinality(Reading(G, k)) \in Nat
    BY <1>2, ReadersAreFinite
  <2>2. CASE k \in K
    <3>1. g \in Reading(G, k) /\ n[k] = 1
      BY <1>3, <1>4, <2>2
    <3>2. Cardinality(Reading(G, k) \ {g}) = Cardinality(Reading(G, k)) - 1
      BY <2>1, <3>1, FS_RemoveElement
    <3>3. Cardinality(Reading(G, k)) # 0
      BY <2>1, <3>1, FS_EmptySet
    <3>4. Reading(F, k) = Reading(G, k) \ {g}
      BY <1>4
    <3>5. Cardinality(Reading(F, k)) = Cardinality(Reading(G, k)) - 1
      BY <3>2, <3>4
    <3> QED BY <2>1, <3>1, <3>3, <3>5
  <2>3. CASE k \notin K
    <3>1. Reading(F, k) = Reading(G, k) /\ n[k] = 0
      BY <1>3, <1>4, <2>3
    <3> QED BY <2>1, <3>1
  <2> QED BY <2>2, <2>3
<1>6. /\ \A k \in Ready(p) : n[k] <= p[k].ref
      /\ \A k \in Pending(p) : n[k] = 0
  <2>1. ASSUME NEW k \in Ready(p) PROVE n[k] <= p[k].ref
    <3>0. k \in Key
      BY <1>2, TableParts
    <3>1. p[k].ref = Cardinality(Copying(J, k)) + Cardinality(Reading(G, k))
      BY <1>1, <3>0 DEF Owned, Readable
    <3>2. Cardinality(Copying(J, k)) \in Nat /\ Cardinality(Reading(G, k)) \in Nat
      BY <1>2, ReadersAreFinite
    <3> QED BY <1>5, <3>0, <3>1, <3>2
  <2>2. ASSUME NEW k \in Pending(p) PROVE n[k] = 0
    <3>0. k \in Key
      BY <1>2, TableParts
    <3>1. Reading(G, k) = {}
      BY <1>1, <3>0 DEF Owned, Filling
    <3> QED BY <1>3, <1>4, <3>0, <3>1
  <2> QED BY <2>1, <2>2
<1>7. /\ IsTable(t) /\ DOMAIN t = DOMAIN p
      /\ Ready(t) = Ready(p) /\ Pending(t) = Pending(p)
      /\ \A k \in DOMAIN p : t[k].slot = p[k].slot /\ t[k].ref = p[k].ref - n[k]
  BY <1>2, <1>3, <1>6, UnpinEffect DEF t
<1>8. \A h : h \in F => h \in G
  BY DEF F
<1>9. Shapes(t, Q, J, S, F)
  <2>1. IsFiniteSet(F)
    BY <1>2, FS_RemoveElement DEF F
  <2> QED BY <1>1, <1>7, <1>8, <2>1 DEF Shapes
<1>10. Owned(X, t, Q, J, S, F)
  <2>1. SUFFICES ASSUME NEW k \in Key
                 PROVE  /\ k \in Pending(t) => Filling(X, Q, J, S, F, k)
                        /\ k \in Ready(t) => Readable(X, t, Q, J, S, F, k)
                        /\ k \notin DOMAIN t => Absent(X, Q, J, S, F, k)
    BY DEF Owned
  <2>2. /\ k \in Pending(p) => Filling(X, Q, J, S, G, k)
        /\ k \in Ready(p) => Readable(X, p, Q, J, S, G, k)
        /\ k \notin DOMAIN p => Absent(X, Q, J, S, G, k)
    BY <1>1 DEF Owned
  <2>3. /\ Saving(S, F, k) = Saving(S, G, k)
        /\ Reading(G, k) = {} => Reading(F, k) = {}
    BY <1>4
  <2>4. k \in Ready(t) => Readable(X, t, Q, J, S, F, k)
    <3> SUFFICES ASSUME k \in Ready(t) PROVE Readable(X, t, Q, J, S, F, k)
      OBVIOUS
    <3>1. k \in DOMAIN p /\ Readable(X, p, Q, J, S, G, k)
      BY <1>2, <1>7, <2>2, TableParts
    <3>2. /\ Cardinality(Reading(G, k)) \in Nat /\ Cardinality(Copying(J, k)) \in Nat
          /\ n[k] \in Nat /\ Cardinality(Reading(F, k)) = Cardinality(Reading(G, k)) - n[k]
      BY <1>2, <1>5, ReadersAreFinite
    <3>3. t[k].ref = p[k].ref - n[k]
      BY <1>7, <3>1
    <3> QED BY <2>3, <3>1, <3>2, <3>3 DEF Readable, Free
  <2> QED BY <1>7, <2>2, <2>3, <2>4 DEF Filling, Absent, Free
<1>11. Placed(X, t, Q, J, S, F)
  <2>1. Placed(X, t, Q, J, S, G)
    BY <1>1, <1>7, PlacedStays
  <2> QED BY <1>8, <2>1 DEF Placed
<1>12. Timed(S, F)
  <2>1. \A k \in DOMAIN S : \E h \in F :
          h.kind = "store" /\ k \in DOMAIN h.slots /\ S[k].batch = h.batch
    BY <1>1 DEF Timed, F
  <2> QED BY <1>1, <1>8, <2>1 DEF Timed
<1> QED BY <1>9, <1>10, <1>11, <1>12 DEF Blocks, t, F

-----------------------------------------------------------------------------
(***************************************************************************)
(* New jobs.                                                               *)
(***************************************************************************)
\* A table of jobs that has ids nobody remembers.
Fresh(N, J, w, R, D, G) ==
    IsFun(N) /\ DOMAIN N \in SUBSET Id /\ DOMAIN N \cap Known(J, w, R, D, G) = {}

\* There are as many ids as are asked for, and none of them is known
\* (_next_job_id).
LEMMA NextIds ==
  ASSUME NEW s, NEW w, NEW G, NEW S, IsFiniteSet(S),
         Cardinality(Id \ KnownIds(s, w, G)) >= Cardinality(S)
  PROVE  LET f == NextJobIds(s, w, G, S)
         IN  /\ f \in Injection(S, Id \ KnownIds(s, w, G))
             /\ DOMAIN f = S
             /\ \A i : i \in Range(f) <=> \E x \in S : i = f[x]
             /\ \A x, y \in S : f[x] = f[y] => x = y
             /\ Range(f) \in SUBSET Id /\ Range(f) \cap KnownIds(s, w, G) = {}
             /\ Cardinality(Range(f)) = Cardinality(S)
<1> DEFINE T == Id \ KnownIds(s, w, G)
           f == NextJobIds(s, w, G, S)
<1>1. IsFiniteSet(T) /\ Cardinality(S) <= Cardinality(T)
  <2>1. IsFiniteSet(T)
    BY IdsAreFinite, FS_Subset
  <2>2. Cardinality(S) \in Nat /\ Cardinality(T) \in Nat
    BY <2>1, FS_CardinalityType
  <2> QED BY <2>1, <2>2
<1>2. f = CHOOSE g \in Injection(S, T) : TRUE
  BY DEF NextJobIds
<1>3. \A x \in T : x \in Id /\ x \notin KnownIds(s, w, G)
  OBVIOUS
<1> HIDE DEF f, T
<1>4. f \in Injection(S, T)
  <2>1. \E g \in Injection(S, T) : TRUE
    BY <1>1, InjectionExists
  <2> QED BY <1>2, <2>1
<1>5. DOMAIN f = S /\ \A x, y \in S : f[x] = f[y] => x = y
  BY <1>4 DEF Injection, IsInjective
<1>6. \A i : i \in Range(f) <=> \E x \in S : i = f[x]
  BY <1>5 DEF Range
<1>7. Cardinality(Range(f)) = Cardinality(S) /\ Range(f) \in SUBSET T
  BY <1>4, InjectionImage
<1>8. Range(f) \in SUBSET Id /\ Range(f) \cap KnownIds(s, w, G) = {}
  BY <1>3, <1>7
<1> QED BY <1>4, <1>5, <1>6, <1>7, <1>8 DEF f, T

\* New jobs are known, and so is the work they give the tiers.
LEMMA NewIds ==
  ASSUME NEW J, NEW w, NEW R, NEW D, NEW G, Ids(J, w, R, D, G), DOMAIN J \in SUBSET Id,
         NEW N, Fresh(N, J, w, R, D, G), \A i \in DOMAIN N : IsJob(N[i])
  PROVE  /\ Ids(Updated(J, N), Updated(w, Started(N)), R, D, G)
         /\ Known(Updated(J, N), Updated(w, Started(N)), R, D, G)
              = Known(J, w, R, D, G) \cup DOMAIN N
<1> DEFINE K == Updated(J, N)
           n == Started(N)
           v == Updated(w, n)
<1>1. /\ IsFun(K) /\ DOMAIN K = DOMAIN J \cup DOMAIN N
      /\ \A i \in DOMAIN K : K[i] = IF i \in DOMAIN N THEN N[i] ELSE J[i]
  BY UpdatedEffect
<1>2. /\ DOMAIN n = DOMAIN N
      /\ \A i \in DOMAIN N : n[i] = [slots |-> N[i].slots, promo |-> N[i].promo,
                                     done |-> FALSE, ok |-> {}]
  BY DEF Started
<1>3. /\ IsFun(v) /\ DOMAIN v = DOMAIN w \cup DOMAIN n
      /\ \A i \in DOMAIN v : v[i] = IF i \in DOMAIN n THEN n[i] ELSE w[i]
  BY UpdatedEffect
<1> HIDE DEF K, n, v
<1>4. /\ DOMAIN w \in SUBSET Id /\ R \in SUBSET Id /\ D \in SUBSET Id
      /\ \A i \in DOMAIN w : IsWork(w[i])
      /\ DOMAIN w \subseteq DOMAIN J \cup R \cup D
      /\ DOMAIN J \cap (R \cup D) = {}
      /\ \A g \in G : g.kind = "store" => g.batch \notin DOMAIN J
      /\ \A i \in DOMAIN w \cap DOMAIN J :
          w[i].slots = J[i].slots /\ w[i].promo = J[i].promo
  BY DEF Ids
<1>5. \A i \in DOMAIN N : /\ i \in Id /\ i \notin DOMAIN J /\ i \notin DOMAIN w
                          /\ i \notin R /\ i \notin D /\ \A g \in G : g.batch # i
  BY DEF Fresh, Known
<1>6. \A i \in DOMAIN N : IsWork(n[i])
  BY <1>2 DEF IsJob, IsWork
<1>7. ASSUME NEW i \in DOMAIN v PROVE IsWork(v[i])
  BY <1>2, <1>3, <1>4, <1>6
<1>8. ASSUME NEW i \in DOMAIN v \cap DOMAIN K
      PROVE  v[i].slots = K[i].slots /\ v[i].promo = K[i].promo
  <2>1. CASE i \in DOMAIN N
    BY <1>1, <1>2, <1>3, <2>1
  <2>2. CASE i \notin DOMAIN N
    <3>1. i \in DOMAIN w \cap DOMAIN J /\ v[i] = w[i] /\ K[i] = J[i]
      BY <1>1, <1>2, <1>3, <2>2
    <3> QED BY <1>4, <3>1
  <2> QED BY <2>1, <2>2
<1>9. /\ DOMAIN v \in SUBSET Id /\ DOMAIN v \subseteq DOMAIN K \cup R \cup D
      /\ DOMAIN K \cap (R \cup D) = {}
      /\ \A g \in G : g.kind = "store" => g.batch \notin DOMAIN K
  BY <1>1, <1>2, <1>3, <1>4, <1>5
<1>10. Ids(K, v, R, D, G)
  BY <1>3, <1>4, <1>7, <1>8, <1>9 DEF Ids
<1>11. Known(K, v, R, D, G) = Known(J, w, R, D, G) \cup DOMAIN N
  BY <1>1, <1>2, <1>3 DEF Known
<1> QED BY <1>10, <1>11 DEF K, n, v

\* They take as many ids as they are.
LEMMA RoomTaken ==
  ASSUME NEW A, NEW X \in SUBSET Id, X \cap A = {}, NEW n \in Nat, NEW c \in Nat,
         Cardinality(Id \ A) >= n + c, Cardinality(X) = c
  PROVE  Cardinality(Id \ (A \cup X)) >= n
<1>1. IsFiniteSet(Id \ A) /\ X \subseteq Id \ A
  BY IdsAreFinite, FS_Subset
<1>2. Cardinality((Id \ A) \ X) = Cardinality(Id \ A) - Cardinality(X)
  BY <1>1, SubsetRemoval
<1>3. (Id \ A) \ X = Id \ (A \cup X)
  OBVIOUS
<1>4. Cardinality(Id \ A) \in Nat
  BY <1>1, FS_CardinalityType
<1>5. Cardinality(Id \ (A \cup X)) = Cardinality(Id \ A) - c
  <2>1. Cardinality((Id \ A) \ X) = Cardinality(Id \ A) - c
    BY <1>2
  <2> HIDE DEF Id
  <2> QED BY <2>1, <1>3, Zenon
<1> QED BY <1>4, <1>5

\* Copies of blocks that are readable, one for each tier of T
\* (create_store_job).
Copies(N, p, K, r) ==
    \A i \in DOMAIN N : /\ IsJob(N[i]) /\ ~N[i].promo
                        /\ N[i].slots = SlotsOf(p, K) /\ N[i].req = r

LEMMA StoreJobsEffect ==
  ASSUME NEW s, NEW w, NEW G, IsTable(s.primary), \A q \in s.queued : IsPromise(q),
         NEW K \in SUBSET DOMAIN s.primary, NEW r \in Request \cup {NoRequest},
         NEW T \in SUBSET Tier, HasIds(s, w, G, Cardinality(T))
  PROVE  LET N == StoreJobs(s, w, G, K, r, T)
         IN  /\ Fresh(N, s.jobs, w, s.retracted, s.drained, G)
             /\ Copies(N, s.primary, K, r)
             /\ Cardinality(DOMAIN N) = Cardinality(T)
<1> DEFINE id == NextJobIds(s, w, G, T)
           N == StoreJobs(s, w, G, K, r, T)
<1>1. IsFiniteSet(T) /\ Cardinality(T) \in Nat
  BY TieringAssumption, FS_Subset, FS_CardinalityType
<1>2. Cardinality(Id \ KnownIds(s, w, G)) >= Cardinality(T)
  <2>1. Batches(s) = BatchesOf(s.queued)
    BY DEF Batches, BatchesOf
  <2>2. Cardinality(Batches(s)) \in Nat
    BY <2>1, BatchesAreFinite
  <2>3. IsFiniteSet(Id \ KnownIds(s, w, G))
    BY IdsAreFinite, FS_Subset
  <2>4. Cardinality(Id \ KnownIds(s, w, G)) \in Nat
    BY <2>3, FS_CardinalityType
  <2> QED BY <1>1, <2>2, <2>4 DEF HasIds
<1>3. /\ DOMAIN id = T /\ \A i : i \in Range(id) <=> \E x \in T : i = id[x]
      /\ Range(id) \in SUBSET Id /\ Range(id) \cap KnownIds(s, w, G) = {}
      /\ Cardinality(Range(id)) = Cardinality(T)
  BY <1>1, <1>2, NextIds
<1>4. /\ IsFun(N) /\ DOMAIN N = Range(id)
      /\ \A i \in Range(id) :
            N[i] = Job(FALSE, CHOOSE t \in T : id[t] = i, SlotsOf(s.primary, K), r)
  BY DEF StoreJobs, IsFun
<1> HIDE DEF N, id
<1>5. KnownIds(s, w, G) = Known(s.jobs, w, s.retracted, s.drained, G)
  BY DEF KnownIds, Known
<1>6. Fresh(N, s.jobs, w, s.retracted, s.drained, G)
  BY <1>3, <1>4, <1>5 DEF Fresh
<1>7. IsSlots(SlotsOf(s.primary, K))
  <2>1. \A k \in K : k \in Key /\ s.primary[k].slot \in Slot
    BY TableParts DEF Block
  <2>2. K \in SUBSET Key
    BY <2>1
  <2> QED BY <2>1, <2>2 DEF SlotsOf, IsSlots
<1>8. ASSUME NEW i \in DOMAIN N
      PROVE  /\ IsJob(N[i]) /\ ~N[i].promo
             /\ N[i].slots = SlotsOf(s.primary, K) /\ N[i].req = r
  <2> DEFINE t == CHOOSE x \in T : id[x] = i
  <2>1. \E x \in T : id[x] = i
    BY <1>3, <1>4
  <2>2. t \in Tier
    BY <2>1
  <2>3. N[i] = Job(FALSE, t, SlotsOf(s.primary, K), r)
    BY <1>4
  <2> HIDE DEF t
  <2>4. N[i] = [promo |-> FALSE, tier |-> t, slots |-> SlotsOf(s.primary, K), req |-> r,
                age |-> 0]
    BY <2>3 DEF Job
  <2> QED BY <1>7, <2>2, <2>4 DEF IsJob
<1> QED BY <1>3, <1>4, <1>6, <1>8 DEF N, Copies

\* They count among the pins of the blocks they read.
LEMMA NewCopies ==
  ASSUME NEW X, NEW p, NEW Q, NEW J, NEW S, NEW G, Blocks(X, p, Q, J, S, G),
         NEW K \in SUBSET Ready(p), NEW r, NEW N, Copies(N, p, K, r),
         DOMAIN N \in SUBSET Id, DOMAIN N \cap DOMAIN J = {}
  PROVE  Blocks(X, Pin(p, K, Cardinality(DOMAIN N)), Q, Updated(J, N), S, G)
<1> DEFINE n == Cardinality(DOMAIN N)
           t == Pin(p, K, n)
           H == Updated(J, N)
<1>1. Shapes(p, Q, J, S, G) /\ Owned(X, p, Q, J, S, G) /\ Placed(X, p, Q, J, S, G) /\ Timed(S, G)
  BY DEF Blocks
<1>2. IsTable(p) /\ DOMAIN J \in SUBSET Id /\ IsFiniteSet(G)
  BY <1>1 DEF Shapes
<1>3. IsFiniteSet(DOMAIN N) /\ n \in Nat
  BY IdsAreFinite, FS_Subset, FS_CardinalityType
<1>4. /\ IsFun(H) /\ DOMAIN H = DOMAIN J \cup DOMAIN N
      /\ \A i \in DOMAIN H : H[i] = IF i \in DOMAIN N THEN N[i] ELSE J[i]
  BY UpdatedEffect
<1> HIDE DEF H, n
<1>5. /\ IsTable(t) /\ DOMAIN t = DOMAIN p
      /\ Ready(t) = Ready(p) /\ Pending(t) = Pending(p)
      /\ \A k \in DOMAIN p :
           /\ t[k].slot = p[k].slot
           /\ t[k].ref = IF k \in K THEN p[k].ref + n ELSE p[k].ref
  BY <1>2, <1>3, PinEffect
<1> HIDE DEF t
<1>6. /\ \A i \in DOMAIN J : i \notin DOMAIN N /\ i \in DOMAIN H /\ H[i] = J[i]
      /\ \A i \in DOMAIN N : /\ i \notin DOMAIN J /\ i \in DOMAIN H /\ H[i] = N[i]
                             /\ IsJob(H[i]) /\ ~H[i].promo
                             /\ H[i].slots = SlotsOf(p, K)
      /\ \A i \in DOMAIN H : i \in DOMAIN J \/ i \in DOMAIN N
  BY <1>4 DEF Copies
<1>7. DOMAIN SlotsOf(p, K) = K /\ \A k \in K : SlotsOf(p, K)[k] = p[k].slot
  BY DEF SlotsOf
<1>8. ASSUME NEW k
      PROVE  /\ Fetching(H, k) = Fetching(J, k)
             /\ k \in K => Copying(H, k) = Copying(J, k) \cup DOMAIN N
             /\ k \notin K => Copying(H, k) = Copying(J, k)
             /\ Copying(J, k) \cap DOMAIN N = {}
  BY <1>6, <1>7 DEF Fetching, Copying
<1>9. Shapes(t, Q, H, S, G)
  <2>1. \A i \in DOMAIN H : IsJob(H[i])
    BY <1>1, <1>6 DEF Shapes
  <2>2. DOMAIN H \in SUBSET Id
    BY <1>2, <1>4
  <2> QED BY <1>1, <1>4, <1>5, <2>1, <2>2 DEF Shapes
<1>10. Owned(X, t, Q, H, S, G)
  <2>1. SUFFICES ASSUME NEW k \in Key
                 PROVE  /\ k \in Pending(t) => Filling(X, Q, H, S, G, k)
                        /\ k \in Ready(t) => Readable(X, t, Q, H, S, G, k)
                        /\ k \notin DOMAIN t => Absent(X, Q, H, S, G, k)
    BY DEF Owned
  <2>2. /\ k \in Pending(p) => Filling(X, Q, J, S, G, k)
        /\ k \in Ready(p) => Readable(X, p, Q, J, S, G, k)
        /\ k \notin DOMAIN p => Absent(X, Q, J, S, G, k)
    BY <1>1 DEF Owned
  <2>3. Fetching(H, k) = Fetching(J, k)
    BY <1>8
  <2>4. CASE k \in K
    <3>1. Readable(X, p, Q, J, S, G, k) /\ k \in DOMAIN p /\ k \notin Pending(p)
      BY <1>2, <2>2, <2>4, TableParts
    <3>2. /\ IsFiniteSet(Copying(J, k)) /\ Cardinality(Reading(G, k)) \in Nat
          /\ Cardinality(Copying(J, k)) \in Nat
      BY <1>2, ReadersAreFinite
    <3>3. Cardinality(Copying(J, k) \cup DOMAIN N) = Cardinality(Copying(J, k)) + n
      BY <1>3, <1>8, <3>2, DisjointUnion DEF n
    <3>4. Copying(H, k) = Copying(J, k) \cup DOMAIN N
      BY <1>8, <2>4
    <3>5. Cardinality(Copying(H, k)) = Cardinality(Copying(J, k)) + n
      BY <3>3, <3>4
    <3>6. t[k].ref = p[k].ref + n
      BY <1>5, <2>4, <3>1
    <3>7. Readable(X, t, Q, H, S, G, k)
      BY <1>3, <2>3, <3>1, <3>2, <3>5, <3>6 DEF Readable, Free
    <3> QED BY <1>5, <3>1, <3>7
  <2>5. CASE k \notin K
    <3>1. Copying(H, k) = Copying(J, k)
      BY <1>8, <2>5
    <3>2. k \in Ready(p) => k \in DOMAIN p
      BY <1>2, TableParts
    <3> QED BY <1>5, <2>2, <2>3, <2>5, <3>1, <3>2 DEF Filling, Readable, Absent, Free
  <2> QED BY <2>4, <2>5
<1>11. Placed(X, t, Q, H, S, G)
  <2>1. Placed(X, t, Q, J, S, G)
    BY <1>1, <1>5, PlacedStays
  <2>2. \A i \in DOMAIN N : \A k \in DOMAIN H[i].slots : JobPlaced(X, t, H, i, k)
    <3>1. \A k \in K : k \in DOMAIN p
      BY <1>2, TableParts
    <3> QED BY <1>5, <1>6, <1>7, <3>1 DEF At, JobPlaced
  <2>3. \A i \in DOMAIN J : \A k \in DOMAIN H[i].slots : JobPlaced(X, t, H, i, k)
    BY <1>6, <2>1 DEF Placed, JobPlaced
  <2> QED BY <1>6, <2>1, <2>2, <2>3 DEF Placed
<1> QED BY <1>1, <1>9, <1>10, <1>11 DEF Blocks, t, H, n

\* A cascade keeps the invariant, and leaves the rest of the manager alone.
LEMMA CascadeKeeps ==
  ASSUME NEW X, NEW s, NEW w, NEW G, Core(X, s, w, G), NEW n \in Nat,
         NEW T \in SUBSET Tier, HasIds(s, w, G, n + Cardinality(T)),
         NEW K \in SUBSET Ready(s.primary), NEW r \in Request \cup {NoRequest},
         NEW N, N = StoreJobs(s, w, G, K, r, T),
         NEW t, t = Cascade(s, N, K, T)
  PROVE  /\ Core(X, t, Updated(w, Started(N)), G)
         /\ HasIds(t, Updated(w, Started(N)), G, n)
         /\ Copies(N, s.primary, K, r) /\ t.jobs = Updated(s.jobs, N)
         /\ t.queued = s.queued /\ t.failures = s.failures /\ t.reqs = s.reqs
         /\ t.retracted = s.retracted /\ t.drained = s.drained /\ t.stores = s.stores
         /\ t.polled = s.polled /\ Ready(t.primary) = Ready(s.primary)
<1> DEFINE v == Updated(w, Started(N))
           c == Cardinality(T)
           A == Known(s.jobs, w, s.retracted, s.drained, G)
           b == Cardinality(BatchesOf(s.queued))
<1>1. /\ IsMgr(s) /\ IsFun(s.failures) /\ s.polled \in BOOLEAN
      /\ Blocks(X, s.primary, s.queued, s.jobs, s.stores, G)
      /\ Ids(s.jobs, w, s.retracted, s.drained, G)
  BY DEF Core
<1>2. /\ IsTable(s.primary) /\ \A q \in s.queued : IsPromise(q)
      /\ DOMAIN s.jobs \in SUBSET Id
  BY <1>1 DEF Blocks, Shapes
<1>3. c \in Nat /\ b \in Nat
  <2>1. IsFiniteSet(T)
    BY TieringAssumption, FS_Subset
  <2> QED BY <1>2, <2>1, BatchesAreFinite, FS_CardinalityType
<1>4. Cardinality(Id \ A) >= (n + c) + b
  BY DEF HasIds, KnownIds, Known, Batches, BatchesOf
<1>5. HasIds(s, w, G, c)
  <2>1. KnownIds(s, w, G) = A /\ Batches(s) = BatchesOf(s.queued)
    BY DEF KnownIds, Known, Batches, BatchesOf
  <2>2. IsFiniteSet(Id \ A)
    BY IdsAreFinite, FS_Subset
  <2>3. Cardinality(Id \ A) \in Nat
    BY <2>2, FS_CardinalityType
  <2> HIDE DEF A, b, c
  <2>4. Cardinality(Id \ A) >= c + b
    BY <1>3, <1>4, <2>3
  <2> QED BY <2>1, <2>4 DEF HasIds, c, b
<1> HIDE DEF v, A, b
<1>6. K \in SUBSET DOMAIN s.primary
  BY <1>2, TableParts
<1>7. /\ Fresh(N, s.jobs, w, s.retracted, s.drained, G)
      /\ Copies(N, s.primary, K, r) /\ Cardinality(DOMAIN N) = c
  BY <1>2, <1>5, <1>6, StoreJobsEffect
<1> HIDE DEF c
<1>8. /\ t.primary = Pin(s.primary, K, c) /\ t.jobs = Updated(s.jobs, N)
      /\ t.queued = s.queued /\ t.failures = s.failures /\ t.reqs = s.reqs
      /\ t.retracted = s.retracted /\ t.drained = s.drained /\ t.stores = s.stores
      /\ t.polled = s.polled /\ IsMgr(t)
  <2>1. t = [[s EXCEPT !.primary = Pin(@, K, c)] EXCEPT !.jobs = Updated(@, N)]
    BY DEF Cascade, Register, c
  <2> QED BY <1>1, <2>1 DEF IsMgr
<1>9. /\ DOMAIN N \in SUBSET Id /\ DOMAIN N \cap DOMAIN s.jobs = {} /\ DOMAIN N \cap A = {}
  BY <1>7 DEF Fresh, Known, A
<1>10. Blocks(X, t.primary, t.queued, t.jobs, t.stores, G)
  BY <1>1, <1>7, <1>8, <1>9, NewCopies
<1>11. /\ Ids(t.jobs, v, t.retracted, t.drained, G)
       /\ Known(t.jobs, v, t.retracted, t.drained, G) = A \cup DOMAIN N
  BY <1>1, <1>2, <1>7, <1>8, NewIds DEF A, v, Copies
<1>12. Cardinality(Id \ (A \cup DOMAIN N)) >= n + b
  <2>1. n + b \in Nat /\ Cardinality(Id \ A) >= (n + b) + c
    <3>1. IsFiniteSet(Id \ A)
      BY IdsAreFinite, FS_Subset
    <3>2. Cardinality(Id \ A) \in Nat
      BY <3>1, FS_CardinalityType
    <3> QED BY <1>3, <1>4, <3>2
  <2>2. Cardinality(DOMAIN N) = c
    BY <1>7
  <2> QED BY <1>3, <1>9, <2>1, <2>2, RoomTaken
<1>13. HasIds(t, v, G, n)
  <2>1. KnownIds(t, v, G) = A \cup DOMAIN N
    BY <1>11 DEF KnownIds, Known
  <2>2. Batches(t) = BatchesOf(s.queued)
    BY <1>8 DEF Batches, BatchesOf
  <2> QED BY <1>12, <2>1, <2>2 DEF HasIds, b
<1>14. Room(t.queued, t.jobs, v, t.retracted, t.drained, G, 0)
  <2>1. IsFiniteSet(Id \ (A \cup DOMAIN N))
    BY IdsAreFinite, FS_Subset
  <2>2. Cardinality(Id \ (A \cup DOMAIN N)) \in Nat
    BY <2>1, FS_CardinalityType
  <2>3. Cardinality(Id \ (A \cup DOMAIN N)) >= 0 + b
    BY <1>3, <1>12, <2>2
  <2> QED BY <1>8, <1>11, <2>3 DEF Room, b
<1>15. Ready(t.primary) = Ready(s.primary)
  BY <1>2, <1>3, <1>8, PinEffect
<1> QED BY <1>1, <1>7, <1>8, <1>10, <1>11, <1>13, <1>14, <1>15 DEF Core, v

-----------------------------------------------------------------------------
(***************************************************************************)
(* Stores that end.                                                        *)
(***************************************************************************)
\* The blocks of a store become readable and have no deadline any more; Y are
\* those of which another transfer's reservation ends (complete_store).
LEMMA StoreEnds ==
  ASSUME NEW X, NEW p, NEW Q, NEW J, NEW S, NEW G, Blocks(X, p, Q, J, S, G),
         NEW g \in G, g.kind = "store", NEW Y, X \subseteq Y,
         \A k \in DOMAIN g.slots : k \in Pending(p) /\ ~Stands(S, g, k) => k \in Y
  PROVE  /\ Blocks(Y, Fill(p, DOMAIN g.slots), Q, J, Without(S, DOMAIN g.slots), G \ {g})
         /\ DOMAIN g.slots \cap DOMAIN p \in SUBSET Ready(Fill(p, DOMAIN g.slots))
<1> DEFINE K == DOMAIN g.slots
           t == Fill(p, K)
           Z == Without(S, K)
           F == G \ {g}
<1>1. Shapes(p, Q, J, S, G) /\ Owned(X, p, Q, J, S, G) /\ Placed(X, p, Q, J, S, G) /\ Timed(S, G)
  BY DEF Blocks
<1>2. /\ IsTable(p) /\ DOMAIN S \in SUBSET Key /\ IsFiniteSet(G)
      /\ \A k \in K : k \in Key
  BY <1>1 DEF Shapes, IsTransfer, IsSlots
<1>3. IsFun(Z) /\ DOMAIN Z = DOMAIN S \ K /\ \A k \in DOMAIN Z : Z[k] = S[k]
  BY WithoutEffect
<1>4. /\ \A h : h \in F <=> (h \in G /\ h # g)
      /\ IsFiniteSet(F)
  BY <1>2, FS_RemoveElement
<1> HIDE DEF Z, F
<1>5. \A h \in G : \A k : /\ Stands(Z, h, k) => Stands(S, h, k)
                          /\ k \notin K => (Stands(Z, h, k) <=> Stands(S, h, k))
  BY <1>3 DEF Stands
<1>6. ASSUME NEW k
      PROVE  /\ Saving(Z, F, k) \subseteq Saving(S, G, k) \ {g}
             /\ k \notin K => Saving(Z, F, k) = Saving(S, G, k)
             /\ Reading(F, k) = Reading(G, k)
  BY <1>4, <1>5 DEF Saving, Reading
<1>7. ASSUME NEW k \in K, k \notin Y
      PROVE  Free(Y, Q, J, Z, F, k)
  <2>1. CASE k \in Pending(p)
    <3>1. g \in Saving(S, G, k) /\ k \notin X
      BY <1>7, <2>1 DEF Saving
    <3>2. Filling(X, Q, J, S, G, k)
      BY <1>1, <1>2, <2>1 DEF Owned
    <3>3. QueuedFor(Q, k) = {} /\ Fetching(J, k) = {} /\ Saving(S, G, k) = {g}
      BY <3>1, <3>2 DEF Filling, OneOf
    <3> QED BY <1>6, <3>3 DEF Free, NoneOf
  <2>2. CASE k \notin Pending(p)
    <3>1. Free(X, Q, J, S, G, k)
      BY <1>1, <1>2, <2>2, TableParts DEF Owned, Readable, Absent
    <3> QED BY <1>6, <1>7, <3>1 DEF Free, NoneOf
  <2> QED BY <2>1, <2>2
<1>9. /\ IsTable(t) /\ DOMAIN t = DOMAIN p
      /\ Ready(t) = Ready(p) \cup (K \cap Pending(p)) /\ Pending(t) = Pending(p) \ K
      /\ \A k \in DOMAIN p :
           /\ t[k].slot = p[k].slot
           /\ t[k].ref = IF k \in K \cap Pending(p) THEN 0 ELSE p[k].ref
  BY <1>2, FillEffect
<1> HIDE DEF t
<1>10. K \cap DOMAIN p \in SUBSET Ready(t)
  BY <1>2, <1>9, TableParts
<1>11. Shapes(t, Q, J, Z, F)
  <2>1. \A k \in DOMAIN Z : IsDeadline(Z[k])
    BY <1>1, <1>3 DEF Shapes
  <2>2. DOMAIN Z \in SUBSET Key
    BY <1>2, <1>3
  <2> QED BY <1>1, <1>3, <1>4, <1>9, <2>1, <2>2 DEF Shapes
<1>12. Owned(Y, t, Q, J, Z, F)
  <2>1. SUFFICES ASSUME NEW k \in Key
                 PROVE  /\ k \in Pending(t) => Filling(Y, Q, J, Z, F, k)
                        /\ k \in Ready(t) => Readable(Y, t, Q, J, Z, F, k)
                        /\ k \notin DOMAIN t => Absent(Y, Q, J, Z, F, k)
    BY DEF Owned
  <2>2. /\ k \in Pending(p) => Filling(X, Q, J, S, G, k)
        /\ k \in Ready(p) => Readable(X, p, Q, J, S, G, k)
        /\ k \notin DOMAIN p => Absent(X, Q, J, S, G, k)
    BY <1>1 DEF Owned
  <2>3. Reading(F, k) = Reading(G, k)
    BY <1>6
  <2>4. k \in Pending(t) => Filling(Y, Q, J, Z, F, k)
    BY <1>6, <1>9, <2>2 DEF Filling
  <2>5. k \notin Pending(t) => Free(Y, Q, J, Z, F, k)
    <3>1. CASE k \in K
      BY <1>7, <3>1 DEF Free
    <3>2. CASE k \notin K /\ k \notin Pending(t)
      <4>1. Free(X, Q, J, S, G, k)
        BY <1>2, <1>9, <2>2, <3>2, TableParts DEF Readable, Absent
      <4> QED BY <1>6, <3>2, <4>1 DEF Free
    <3> QED BY <3>1, <3>2
  <2>6. ASSUME k \in Ready(t) PROVE Readable(Y, t, Q, J, Z, F, k)
    <3>1. k \in DOMAIN p /\ k \notin Pending(t)
      BY <1>9, <2>6, TableParts
    <3>2. CASE k \in Pending(p)
      <4>1. Copying(J, k) = {} /\ Reading(F, k) = {}
        BY <2>2, <2>3, <3>2 DEF Filling
      <4>2. Cardinality(Copying(J, k)) = 0 /\ Cardinality(Reading(F, k)) = 0
        BY <4>1, FS_EmptySet
      <4>3. k \in K \cap Pending(p)
        BY <1>9, <3>1, <3>2
      <4>4. t[k].ref = 0
        BY <1>9, <3>1, <4>3
      <4> QED BY <2>5, <3>1, <4>2, <4>4 DEF Readable
    <3>3. CASE k \notin Pending(p)
      <4>1. t[k].ref = p[k].ref /\ k \in Ready(p)
        BY <1>2, <1>9, <3>1, <3>3, TableParts
      <4> QED BY <2>2, <2>3, <2>5, <3>1, <4>1 DEF Readable
    <3> QED BY <3>2, <3>3
  <2>7. k \notin DOMAIN t => Absent(Y, Q, J, Z, F, k)
    BY <1>9, <2>2, <2>3, <2>5, TableParts DEF Absent
  <2> QED BY <2>4, <2>6, <2>7
<1>13. Placed(Y, t, Q, J, Z, F)
  <2>1. Placed(X, t, Q, J, S, G)
    BY <1>1, <1>9, PlacedStays
  <2>2. \A i \in DOMAIN J : \A k \in DOMAIN J[i].slots : JobPlaced(Y, t, J, i, k)
    BY <2>1 DEF Placed, JobPlaced
  <2>3. \A h \in F : \A k \in DOMAIN h.slots : TransferPlaced(Y, t, Z, h, k)
    BY <1>4, <1>5, <2>1 DEF Placed, TransferPlaced
  <2> QED BY <2>1, <2>2, <2>3 DEF Placed
<1>14. Timed(Z, F)
  <2>1. StoreTTL = 0 => DOMAIN Z = {}
    BY <1>1, <1>3 DEF Timed
  <2>2. ASSUME NEW k \in DOMAIN Z
        PROVE  \E h \in F : h.kind = "store" /\ k \in DOMAIN h.slots /\ Z[k].batch = h.batch
    <3>1. k \in DOMAIN S /\ k \notin K /\ Z[k] = S[k]
      BY <1>3
    <3>2. PICK h \in G : h.kind = "store" /\ k \in DOMAIN h.slots /\ S[k].batch = h.batch
      BY <1>1, <3>1 DEF Timed
    <3> QED BY <1>4, <3>1, <3>2
  <2>3. \A h, x \in F :
          (h.kind = "store" /\ x.kind = "store" /\ h.batch = x.batch) => h = x
    BY <1>1, <1>4 DEF Timed
  <2> QED BY <2>1, <2>2, <2>3 DEF Timed
<1> QED BY <1>10, <1>11, <1>12, <1>13, <1>14 DEF Blocks, t, Z, F

-----------------------------------------------------------------------------
(***************************************************************************)
(* The promotions that the end of a schedule submits.                      *)
(***************************************************************************)
\* N are jobs for the promotions of Q; who tells for each which job it is in.
Submits(X, N, Q, p, who) ==
    /\ \A i \in DOMAIN N : IsJob(N[i]) /\ N[i].promo
    /\ \A q \in Q : who[q] \in DOMAIN N
    /\ \A i \in DOMAIN N : \A k :
          k \in DOMAIN N[i].slots <=> \E q \in Q : q.key = k /\ who[q] = i
    /\ \A i \in DOMAIN N : \A k \in DOMAIN N[i].slots : JobPlaced(X, p, N, i, k)

\* The job takes over the slots from the promotions it is made of.
LEMMA NewPromotions ==
  ASSUME NEW X, NEW p, NEW Q, NEW J, NEW S, NEW G, Blocks(X, p, Q, J, S, G),
         NEW N, NEW who, Submits(X, N, Q, p, who),
         DOMAIN N \in SUBSET Id, DOMAIN N \cap DOMAIN J = {}
  PROVE  Blocks(X, p, {}, Updated(J, N), S, G)
<1> DEFINE H == Updated(J, N)
<1>1. Shapes(p, Q, J, S, G) /\ Owned(X, p, Q, J, S, G) /\ Placed(X, p, Q, J, S, G) /\ Timed(S, G)
  BY DEF Blocks
<1>2. /\ IsFun(H) /\ DOMAIN H = DOMAIN J \cup DOMAIN N
      /\ \A i \in DOMAIN H : H[i] = IF i \in DOMAIN N THEN N[i] ELSE J[i]
  BY UpdatedEffect
<1> HIDE DEF H
<1>3. /\ \A i \in DOMAIN J : i \notin DOMAIN N /\ i \in DOMAIN H /\ H[i] = J[i]
      /\ \A i \in DOMAIN N : /\ i \notin DOMAIN J /\ i \in DOMAIN H /\ H[i] = N[i]
                             /\ IsJob(H[i]) /\ H[i].promo
      /\ \A i \in DOMAIN H : i \in DOMAIN J \/ i \in DOMAIN N
  BY <1>2 DEF Submits
<1>4. \A i \in DOMAIN N : \A k :
         k \in DOMAIN H[i].slots <=> \E q \in QueuedFor(Q, k) : who[q] = i
  BY <1>3 DEF Submits, QueuedFor
<1>5. \A k : \A q \in QueuedFor(Q, k) : who[q] \in DOMAIN N
  BY DEF Submits, QueuedFor
<1>6. ASSUME NEW k
      PROVE  /\ Copying(H, k) = Copying(J, k)
             /\ \A i : i \in Fetching(H, k) <=>
                         (i \in Fetching(J, k) \/ \E q \in QueuedFor(Q, k) : i = who[q])
  BY <1>3, <1>4, <1>5 DEF Fetching, Copying
<1>7. ASSUME NEW k, QueuedFor(Q, k) = {} PROVE Fetching(H, k) = Fetching(J, k)
  BY <1>6, <1>7
<1>8. Shapes(p, {}, H, S, G)
  <2>1. \A i \in DOMAIN H : IsJob(H[i])
    BY <1>1, <1>3 DEF Shapes
  <2>2. DOMAIN H \in SUBSET Id
    BY <1>1, <1>2 DEF Shapes
  <2> QED BY <1>1, <1>2, <2>1, <2>2 DEF Shapes
<1>9. Owned(X, p, {}, H, S, G)
  <2>1. SUFFICES ASSUME NEW k \in Key
                 PROVE  /\ k \in Pending(p) => Filling(X, {}, H, S, G, k)
                        /\ k \in Ready(p) => Readable(X, p, {}, H, S, G, k)
                        /\ k \notin DOMAIN p => Absent(X, {}, H, S, G, k)
    BY DEF Owned
  <2>2. /\ k \in Pending(p) => Filling(X, Q, J, S, G, k)
        /\ k \in Ready(p) => Readable(X, p, Q, J, S, G, k)
        /\ k \notin DOMAIN p => Absent(X, Q, J, S, G, k)
    BY <1>1 DEF Owned
  <2>3. QueuedFor({}, k) = {} /\ Copying(H, k) = Copying(J, k)
    BY <1>6 DEF QueuedFor
  <2>4. CASE QueuedFor(Q, k) = {}
    <3>1. Fetching(H, k) = Fetching(J, k)
      BY <1>7, <2>4
    <3> QED BY <2>2, <2>3, <2>4, <3>1
            DEF Filling, Readable, Absent, Free, OneOf, NoneOf
  <2>5. CASE k \in X
    BY <2>2, <2>3, <2>5 DEF Filling, Readable, Absent, Free
  <2>6. CASE QueuedFor(Q, k) # {} /\ k \notin X
    <3>1. k \in Pending(p)
      BY <2>2, <2>6, <1>1, TableParts DEF Readable, Absent, Free, NoneOf, Shapes
    <3>2. Filling(X, Q, J, S, G, k)
      BY <2>2, <3>1
    <3>3. PICK q : QueuedFor(Q, k) = {q}
      BY <2>6, <3>2 DEF Filling, OneOf
    <3>4. Fetching(J, k) = {} /\ Saving(S, G, k) = {}
      BY <2>6, <3>2 DEF Filling, OneOf
    <3>5. Fetching(H, k) = {who[q]}
      BY <1>6, <3>3, <3>4
    <3>6. Filling(X, {}, H, S, G, k)
      BY <2>3, <3>2, <3>4, <3>5 DEF Filling, OneOf
    <3>7. k \in DOMAIN p /\ k \notin Ready(p)
      BY <1>1, <3>1, TableParts DEF Shapes
    <3> QED BY <3>6, <3>7
  <2> QED BY <2>4, <2>5, <2>6
<1>10. Placed(X, p, {}, H, S, G)
  <2>1. \A i \in DOMAIN H : \A k \in DOMAIN H[i].slots : JobPlaced(X, p, H, i, k)
    BY <1>1, <1>3 DEF Placed, Submits, JobPlaced
  <2> QED BY <1>1, <2>1 DEF Placed
<1> QED BY <1>1, <1>8, <1>9, <1>10 DEF Blocks, H

\* The promotions of a batch.
Members(Q, b) == {q \in Q : <<q.tier, q.req>> = b}

\* There is one job for each tier and request, with the slots that were
\* promised (_flush_pending_promotions).
LEMMA PromotionJobsEffect ==
  ASSUME NEW s, NEW w, Core(taken, s, w, gpu)
  PROVE  LET N == PromotionJobs(s, w)
         IN  /\ Fresh(N, s.jobs, w, s.retracted, s.drained, gpu)
             /\ \E who : Submits(taken, N, s.queued, s.primary, who)
<1> DEFINE id == NextJobIds(s, w, gpu, Batches(s))
           N == PromotionJobs(s, w)
           Q == s.queued
           p == s.primary
           B(i) == CHOOSE x \in Batches(s) : id[x] = i
           who == [q \in Q |-> id[<<q.tier, q.req>>]]
<1>1. /\ IsTable(p) /\ \A q \in Q : IsPromise(q)
      /\ \A q \in Q : q.key \notin taken => At(p, q.key, q.slot)
      /\ Room(s.queued, s.jobs, w, s.retracted, s.drained, gpu, 0)
  BY DEF Core, Blocks, Shapes, Placed
<1>2. /\ IsFiniteSet(Batches(s))
      /\ Cardinality(Id \ KnownIds(s, w, gpu)) >= Cardinality(Batches(s))
  <2>1. Batches(s) = BatchesOf(Q)
    BY DEF Batches, BatchesOf
  <2>2. IsFiniteSet(BatchesOf(Q)) /\ Cardinality(BatchesOf(Q)) \in Nat
    BY <1>1, BatchesAreFinite
  <2>3. KnownIds(s, w, gpu) = Known(s.jobs, w, s.retracted, s.drained, gpu)
    BY DEF KnownIds, Known
  <2>4. Cardinality(Id \ Known(s.jobs, w, s.retracted, s.drained, gpu))
          >= 0 + Cardinality(BatchesOf(Q))
    BY <1>1 DEF Room
  <2> QED BY <2>1, <2>2, <2>3, <2>4
<1>3. /\ DOMAIN id = Batches(s) /\ \A i : i \in Range(id) <=> \E x \in Batches(s) : i = id[x]
      /\ \A x, y \in Batches(s) : id[x] = id[y] => x = y
      /\ Range(id) \in SUBSET Id /\ Range(id) \cap KnownIds(s, w, gpu) = {}
  BY <1>2, NextIds
<1>4. /\ IsFun(N) /\ DOMAIN N = Range(id)
      /\ \A i \in Range(id) :
            N[i] = Job(TRUE, B(i)[1],
                       [k \in {q.key : q \in Members(Q, B(i))} |->
                          (CHOOSE q \in Members(Q, B(i)) : q.key = k).slot], B(i)[2])
  BY DEF PromotionJobs, Members, IsFun
<1>5. \A q \in Q : <<q.tier, q.req>> \in Batches(s) /\ who[q] = id[<<q.tier, q.req>>]
  BY DEF Batches
<1>6. \A b \in Batches(s) : \E q \in Q : b = <<q.tier, q.req>>
  BY DEF Batches
<1> HIDE DEF N, id, who, Q, p
<1>7. ASSUME NEW i \in DOMAIN N PROVE B(i) \in Batches(s) /\ id[B(i)] = i
  <2>1. \E x \in Batches(s) : id[x] = i
    BY <1>3, <1>4
  <2> QED BY <2>1
<1> HIDE DEF B
<1>8. Fresh(N, s.jobs, w, s.retracted, s.drained, gpu)
  <2>1. KnownIds(s, w, gpu) = Known(s.jobs, w, s.retracted, s.drained, gpu)
    BY DEF KnownIds, Known
  <2> QED BY <1>3, <1>4, <2>1 DEF Fresh
<1>9. ASSUME NEW i \in DOMAIN N
      PROVE  /\ IsJob(N[i]) /\ N[i].promo
             /\ \A k \in DOMAIN N[i].slots : JobPlaced(taken, p, N, i, k)
             /\ \A k : k \in DOMAIN N[i].slots <=> \E q \in Q : q.key = k /\ who[q] = i
  <2> DEFINE b == B(i)
             qs == Members(Q, b)
             f == [k \in {q.key : q \in qs} |-> (CHOOSE q \in qs : q.key = k).slot]
  <2>1. \A q : q \in qs <=> q \in Q /\ who[q] = i
    <3>1. b \in Batches(s) /\ id[b] = i
      BY <1>7
    <3> HIDE DEF b, f
    <3>2. \A q : q \in qs <=> q \in Q /\ <<q.tier, q.req>> = b
      BY DEF Members
    <3>3. ASSUME NEW q \in Q PROVE who[q] = i <=> <<q.tier, q.req>> = b
      <4> DEFINE x == <<q.tier, q.req>>
      <4>1. x \in Batches(s) /\ who[q] = id[x]
        BY <1>5
      <4> HIDE DEF x
      <4>2. id[x] = id[b] <=> x = b
        BY <1>3, <3>1, <4>1
      <4>3. who[q] = i <=> x = b
        BY <3>1, <4>1, <4>2
      <4> QED BY <4>3 DEF x
    <3> QED BY <3>2, <3>3
  <2>2. b[1] \in Tier /\ b[2] \in Request
    <3>1. PICK q \in Q : b = <<q.tier, q.req>>
      BY <1>6, <1>7
    <3> QED BY <1>1, <3>1 DEF IsPromise
  <2>3. N[i] = Job(TRUE, b[1], f, b[2])
    BY <1>4
  <2> HIDE DEF qs, b
  <2>4. \A k : k \in DOMAIN f <=> \E q \in qs : q.key = k
    OBVIOUS
  <2>5. ASSUME NEW k \in DOMAIN f
        PROVE  (k \notin taken => At(p, k, f[k])) /\ k \in Key /\ f[k] \in Slot
    <3> DEFINE q == CHOOSE x \in qs : x.key = k
    <3>1. q \in qs /\ q.key = k
      BY <2>4
    <3>2. f[k] = q.slot
      OBVIOUS
    <3> HIDE DEF q, f
    <3> QED BY <1>1, <2>1, <3>1, <3>2 DEF IsPromise
  <2>6. IsFun(f)
    BY DEF IsFun
  <2> HIDE DEF f
  <2>7. IsSlots(f)
    <3>1. DOMAIN f \in SUBSET Key
      BY <2>5
    <3> QED BY <2>5, <2>6, <3>1 DEF IsSlots, IsFun
  <2>9. N[i] = [promo |-> TRUE, tier |-> b[1], slots |-> f, req |-> b[2], age |-> 0]
    BY <2>3 DEF Job
  <2>10. IsJob(N[i]) /\ N[i].promo /\ N[i].slots = f
    BY <2>2, <2>7, <2>9 DEF IsJob
  <2>11. \A k \in DOMAIN N[i].slots : JobPlaced(taken, p, N, i, k)
    BY <2>5, <2>10 DEF JobPlaced
  <2> QED BY <2>1, <2>4, <2>10, <2>11
<1>10. Submits(taken, N, Q, p, who)
  <2>1. \A q \in Q : who[q] \in DOMAIN N
    BY <1>3, <1>4, <1>5
  <2> QED BY <1>9, <2>1 DEF Submits
<1> QED BY <1>8, <1>10 DEF N, Q, p

\* The end of a schedule keeps the invariant; only the jobs it submits are
\* new, and nothing waits any more (on_schedule_end).
LEMMA EndOfScheduleKeeps ==
  ASSUME NEW s, NEW w, Core(taken, s, w, gpu),
         NEW N, N = PromotionJobs(s, w), NEW t, t = Flushed(s, w)
  PROVE  /\ Core(taken, t, Updated(w, Started(N)), gpu)
         /\ t.jobs = Updated(s.jobs, N) /\ \A i \in DOMAIN N : N[i].promo
         /\ t.queued = {} /\ t.reqs = s.reqs /\ t.failures = s.failures
<1> DEFINE v == Updated(w, Started(N))
           G == gpu
<1>1. /\ IsMgr(s) /\ IsFun(s.failures) /\ s.polled \in BOOLEAN
      /\ Blocks(taken, s.primary, s.queued, s.jobs, s.stores, G)
      /\ Ids(s.jobs, w, s.retracted, s.drained, G)
  BY DEF Core
<1>2. DOMAIN s.jobs \in SUBSET Id
  BY <1>1 DEF Blocks, Shapes
<1>3. /\ Fresh(N, s.jobs, w, s.retracted, s.drained, G)
      /\ \E who : Submits(taken, N, s.queued, s.primary, who)
  BY PromotionJobsEffect
<1>4. PICK who : Submits(taken, N, s.queued, s.primary, who)
  BY <1>3
<1>5. DOMAIN N \in SUBSET Id /\ DOMAIN N \cap DOMAIN s.jobs = {}
  BY <1>3 DEF Fresh, Known
<1>6. /\ t.primary = s.primary /\ t.jobs = Updated(s.jobs, N) /\ t.queued = {}
      /\ t.polled = FALSE /\ t.drained = s.drained \cup s.retracted /\ t.retracted = {}
      /\ t.stores = s.stores /\ t.reqs = s.reqs /\ t.failures = s.failures
      /\ IsMgr(t)
  <2>1. t = [[s EXCEPT !.jobs = Updated(@, N)] EXCEPT
               !.queued = {}, !.polled = FALSE,
               !.drained = s.drained \cup s.retracted, !.retracted = {}]
    BY DEF Flushed, Register, Drain
  <2> QED BY <1>1, <2>1 DEF IsMgr
<1> HIDE DEF v, G
<1>7. Blocks(taken, t.primary, t.queued, t.jobs, t.stores, G)
  BY <1>1, <1>4, <1>5, <1>6, NewPromotions
<1>8. \A i \in DOMAIN N : IsJob(N[i]) /\ N[i].promo
  BY <1>4 DEF Submits
<1>9. Ids(t.jobs, v, s.retracted, s.drained, G)
  BY <1>1, <1>2, <1>3, <1>6, <1>8, NewIds DEF v
<1>10. Ids(t.jobs, v, t.retracted, t.drained, G)
  BY <1>6, <1>9 DEF Ids
<1>11. Room(t.queued, t.jobs, v, t.retracted, t.drained, G, 0)
  <2>1. BatchesOf(t.queued) = {}
    BY <1>6 DEF BatchesOf
  <2>2. IsFiniteSet(Id \ Known(t.jobs, v, t.retracted, t.drained, G))
    BY IdsAreFinite, FS_Subset
  <2>3. Cardinality(BatchesOf(t.queued)) = 0
    BY <2>1, FS_EmptySet
  <2> QED BY <2>2, <2>3, FS_CardinalityType DEF Room
<1> QED BY <1>1, <1>6, <1>7, <1>8, <1>10, <1>11 DEF Core, v, G

-----------------------------------------------------------------------------
(***************************************************************************)
(* Requests and their stores.                                              *)
(***************************************************************************)
\* Stores can be counted.
LEMMA StoresAreFinite ==
  ASSUME NEW G, IsFiniteSet(G), NEW r
  PROVE  IsFiniteSet(StoresFor(G, r)) /\ Cardinality(StoresFor(G, r)) \in Nat
<1>1. StoresFor(G, r) \in SUBSET G
  BY DEF StoresFor
<1> QED BY <1>1, FS_Subset, FS_CardinalityType

\* A request that begins has no store (on_new_request).
LEMMA RequestBegins ==
  ASSUME NEW Y, NEW G, NEW C, Counted(Y, G, C), NEW r \in Request, r \notin DOMAIN Y, r \notin C,
         NEW X, X = Updated(Y, [x \in {r} |-> [stores |-> 0, finished |-> FALSE]])
  PROVE  Counted(X, G, C)
<1> DEFINE d == [x \in {r} |-> [stores |-> 0, finished |-> FALSE]]
<1>1. /\ IsFun(X) /\ DOMAIN X = DOMAIN Y \cup DOMAIN d
      /\ \A x \in DOMAIN X : X[x] = IF x \in DOMAIN d THEN d[x] ELSE Y[x]
  BY UpdatedEffect
<1>2. DOMAIN d = {r} /\ d[r] = [stores |-> 0, finished |-> FALSE]
  OBVIOUS
<1> HIDE DEF d
<1>3. IsRequest(X[r]) /\ X[r].stores = 0
  <2>1. X[r] = [stores |-> 0, finished |-> FALSE]
    BY <1>1, <1>2
  <2>2. X[r].stores = 0 /\ X[r].finished = FALSE
    BY <2>1
  <2>3. X[r].finished \in BOOLEAN /\ X[r] = [stores |-> X[r].stores, finished |-> X[r].finished]
    BY <2>1, <2>2, Zenon
  <2> QED BY <2>2, <2>3 DEF IsRequest
<1>4. \A x \in DOMAIN X : x # r => x \in DOMAIN Y /\ X[x] = Y[x]
  BY <1>1, <1>2
<1> QED BY <1>1, <1>2, <1>3, <1>4 DEF Counted

\* What is known of a request changes, not its stores (on_request_finished).
LEMMA RequestEnds ==
  ASSUME NEW Y, NEW G, NEW C, Counted(Y, G, C), NEW r \in DOMAIN Y,
         NEW X, X = [Y EXCEPT ![r].finished = TRUE]
  PROVE  Counted(X, G, C) /\ DOMAIN X = DOMAIN Y
<1>1. /\ IsFun(X) /\ DOMAIN X = DOMAIN Y
      /\ \A x \in DOMAIN X : X[x] = IF x = r THEN [Y[x] EXCEPT !.finished = TRUE] ELSE Y[x]
  BY DEF IsFun
<1>2. \A x \in DOMAIN Y : IsRequest(Y[x])
  BY DEF Counted
<1>3. ASSUME NEW x \in DOMAIN X PROVE IsRequest(X[x]) /\ X[x].stores = Y[x].stores
  <2>1. CASE x = r
    <3>1. X[x] = [Y[x] EXCEPT !.finished = TRUE] /\ IsRequest(Y[x])
      BY <1>1, <1>2, <2>1
    <3>2. X[x] = [stores |-> Y[x].stores, finished |-> TRUE]
      BY <3>1 DEF IsRequest
    <3>3. X[x].stores = Y[x].stores /\ X[x].finished = TRUE
      BY <3>2
    <3>4. X[x].finished \in BOOLEAN /\ X[x] = [stores |-> X[x].stores, finished |-> X[x].finished]
      BY <3>2, <3>3, Zenon
    <3> QED BY <3>1, <3>3, <3>4 DEF IsRequest
  <2>2. CASE x # r
    BY <1>1, <1>2, <2>2
  <2> QED BY <2>1, <2>2
<1> QED BY <1>1, <1>3 DEF Counted

\* A store that begins counts for its request (prepare_store).
LEMMA StoreBegins ==
  ASSUME NEW Y, NEW G, NEW C, Counted(Y, G, C), IsFiniteSet(G), NEW r \in DOMAIN Y,
         NEW g, g.kind = "store", g.req = r, g \notin G,
         NEW X, X = [Y EXCEPT ![r].stores = @ + 1]
  PROVE  Counted(X, G \cup {g}, C)
<1>1. /\ IsFun(X) /\ DOMAIN X = DOMAIN Y
      /\ \A x \in DOMAIN X : X[x] = IF x = r THEN [Y[x] EXCEPT !.stores = @ + 1] ELSE Y[x]
  BY DEF IsFun
<1>2. \A x \in DOMAIN Y : IsRequest(Y[x])
  BY DEF Counted
<1>3. \A x \in DOMAIN X :
         /\ IsRequest(X[x])
         /\ X[x].stores = IF x = r THEN Y[x].stores + 1 ELSE Y[x].stores
  BY <1>1, <1>2 DEF IsRequest
<1>4. ASSUME NEW x \in Request
      PROVE  Cardinality(StoresFor(G \cup {g}, x))
               = IF x = r THEN Cardinality(StoresFor(G, x)) + 1 ELSE Cardinality(StoresFor(G, x))
  <2>1. CASE x = r
    <3>1. StoresFor(G \cup {g}, x) = StoresFor(G, x) \cup {g} /\ g \notin StoresFor(G, x)
      BY <2>1 DEF StoresFor
    <3>2. Cardinality(StoresFor(G, x) \cup {g}) = Cardinality(StoresFor(G, x)) + 1
      BY <3>1, StoresAreFinite, FS_AddElement
    <3> QED BY <2>1, <3>1, <3>2
  <2>2. CASE x # r
    <3>1. StoresFor(G \cup {g}, x) = StoresFor(G, x)
      BY <2>2 DEF StoresFor
    <3> QED BY <2>2, <3>1
  <2> QED BY <2>1, <2>2
<1>5. r \in Request
  BY DEF Counted
<1>6. \A x \in Request :
         Cardinality(StoresFor(G \cup {g}, x)) = IF x \in DOMAIN X THEN X[x].stores ELSE 0
  BY <1>1, <1>3, <1>4 DEF Counted
<1> QED BY <1>1, <1>3, <1>6 DEF Counted

\* A store that ends finds its request, and a store to take off it
\* (complete_store).
LEMMA StoreEndsFor ==
  ASSUME NEW Y, NEW G, NEW C, Counted(Y, G, C), IsFiniteSet(G),
         NEW g \in G, g.kind = "store", g.req \in Request,
         NEW X, X = [Y EXCEPT ![g.req].stores = @ - 1]
  PROVE  Counted(X, G \ {g}, C) /\ g.req \in DOMAIN Y /\ DOMAIN X = DOMAIN Y
<1> DEFINE r == g.req
<1>1. g \in StoresFor(G, r) /\ IsFiniteSet(StoresFor(G, r)) /\ Cardinality(StoresFor(G, r)) \in Nat
  BY StoresAreFinite DEF StoresFor
<1>2. Cardinality(StoresFor(G, r)) >= 1
  <2>1. Cardinality(StoresFor(G, r)) # 0
    BY <1>1, FS_EmptySet
  <2> QED BY <1>1, <2>1
<1>3. r \in DOMAIN Y /\ Y[r].stores >= 1
  BY <1>2 DEF Counted
<1>4. /\ IsFun(X) /\ DOMAIN X = DOMAIN Y
      /\ \A x \in DOMAIN X : X[x] = IF x = r THEN [Y[x] EXCEPT !.stores = @ - 1] ELSE Y[x]
  BY DEF IsFun
<1>5. \A x \in DOMAIN Y : IsRequest(Y[x])
  BY DEF Counted
<1>6. \A x \in DOMAIN X :
         /\ IsRequest(X[x])
         /\ X[x].stores = IF x = r THEN Y[x].stores - 1 ELSE Y[x].stores
  BY <1>3, <1>4, <1>5 DEF IsRequest
<1>7. ASSUME NEW x \in Request
      PROVE  Cardinality(StoresFor(G \ {g}, x))
               = IF x = r THEN Cardinality(StoresFor(G, x)) - 1 ELSE Cardinality(StoresFor(G, x))
  <2>1. CASE x = r
    <3>1. StoresFor(G \ {g}, r) = StoresFor(G, r) \ {g}
      BY DEF StoresFor
    <3>2. Cardinality(StoresFor(G, r) \ {g}) = Cardinality(StoresFor(G, r)) - 1
      BY <1>1, FS_RemoveElement
    <3>3. Cardinality(StoresFor(G \ {g}, r)) = Cardinality(StoresFor(G, r)) - 1
      BY <3>1, <3>2
    <3> QED BY <2>1, <3>3
  <2>2. CASE x # r
    <3>1. StoresFor(G \ {g}, x) = StoresFor(G, x)
      BY <2>2 DEF StoresFor
    <3> QED BY <2>2, <3>1
  <2> QED BY <2>1, <2>2
<1>8. \A x \in Request :
         Cardinality(StoresFor(G \ {g}, x)) = IF x \in DOMAIN X THEN X[x].stores ELSE 0
  BY <1>3, <1>4, <1>6, <1>7 DEF Counted
<1> QED BY <1>3, <1>4, <1>6, <1>8 DEF Counted

\* A request is finalized when it has no store left (_maybe_finalize_request).
LEMMA RequestFinalized ==
  ASSUME NEW Y, NEW G, NEW C, Counted(Y, G, C), NEW r \in DOMAIN Y, Y[r].stores = 0
  PROVE  Counted(Without(Y, {r}), G, C \cup {r})
<1> DEFINE X == Without(Y, {r})
<1>1. IsFun(X) /\ DOMAIN X = DOMAIN Y \ {r} /\ \A x \in DOMAIN X : X[x] = Y[x]
  BY WithoutEffect
<1> HIDE DEF X
<1>2. ASSUME NEW x \in Request
      PROVE  Cardinality(StoresFor(G, x)) = IF x \in DOMAIN X THEN X[x].stores ELSE 0
  <2>1. CASE x = r
    BY <1>1, <2>1 DEF Counted
  <2>2. CASE x # r
    BY <1>1, <2>2 DEF Counted
  <2> QED BY <2>1, <2>2
<1>3. \A x \in DOMAIN X : IsRequest(X[x])
  BY <1>1 DEF Counted
<1>4. DOMAIN X \in SUBSET Request /\ (C \cup {r}) \in SUBSET Request /\ (C \cup {r}) \cap DOMAIN X = {}
  BY <1>1 DEF Counted
<1> QED BY <1>1, <1>2, <1>3, <1>4 DEF Counted, X

\* Loads do not count.
LEMMA LoadsDoNotCount ==
  ASSUME NEW Y, NEW G, NEW C, Counted(Y, G, C), NEW F,
         \A g : g.kind = "store" => (g \in F <=> g \in G)
  PROVE  Counted(Y, F, C)
<1>1. \A r : StoresFor(F, r) = StoresFor(G, r)
  BY DEF StoresFor
<1> QED BY <1>1 DEF Counted

\* The core of the state depends on everything but the requests.
LEMMA SameCore ==
  ASSUME NEW X, NEW s, NEW t, NEW w, NEW G, Core(X, s, w, G), IsMgr(t),
         t.primary = s.primary, t.jobs = s.jobs, t.queued = s.queued,
         t.failures = s.failures, t.retracted = s.retracted, t.drained = s.drained,
         t.stores = s.stores, t.polled = s.polled
  PROVE  Core(X, t, w, G)
BY DEF Core

\* A request that may be finalized is, and the tiers are told.
LEMMA FinalizeKeeps ==
  ASSUME NEW X, NEW s, NEW w, NEW G, NEW C, Inv(X, s, w, G, C), NEW r,
         NEW E, E = IF Done(s, r) THEN C \cup {r} ELSE C
  PROVE  /\ Inv(X, FinalizeIfDone(s, r), w, G, E)
         /\ C \subseteq E /\ FinalizeIfDone(s, r).jobs = s.jobs
         /\ FinalizeIfDone(s, r).queued = s.queued
<1> DEFINE t == FinalizeIfDone(s, r)
<1>1. CASE Done(s, r)
  <2>1. t = [s EXCEPT !.reqs = Without(@, {r})]
    BY <1>1 DEF FinalizeIfDone, Finalize
  <2>2. r \in DOMAIN s.reqs /\ s.reqs[r].stores = 0
    BY <1>1 DEF Done
  <2> HIDE DEF t
  <2>3. IsMgr(s) /\ Core(X, s, w, G) /\ Counted(s.reqs, G, C)
    BY DEF Inv, Core
  <2>4. /\ IsMgr(t) /\ t.reqs = Without(s.reqs, {r})
        /\ t.primary = s.primary /\ t.jobs = s.jobs /\ t.queued = s.queued
        /\ t.failures = s.failures /\ t.retracted = s.retracted /\ t.drained = s.drained
        /\ t.stores = s.stores /\ t.polled = s.polled
    BY <2>1, <2>3 DEF IsMgr
  <2>5. Core(X, t, w, G)
    BY <2>3, <2>4, SameCore
  <2>6. Counted(t.reqs, G, C \cup {r})
    BY <2>2, <2>3, <2>4, RequestFinalized
  <2> QED BY <1>1, <2>4, <2>5, <2>6 DEF Inv, t
<1>2. CASE ~Done(s, r)
  BY <1>2 DEF FinalizeIfDone
<1> QED BY <1>1, <1>2

-----------------------------------------------------------------------------
(***************************************************************************)
(* The operations of the connector.                                        *)
(***************************************************************************)
\* What every step but a lookup that promotes does to the closed requests, to
\* the jobs and to the queue.
Steady ==
    /\ closed \subseteq closed'
    /\ \A i \in DOMAIN m'.jobs : i \notin DOMAIN m.jobs =>
          m'.jobs[i].promo \/ m'.jobs[i].req \notin closed
    /\ \A q \in m'.queued : q \in m.queued

\* The parts of the invariant.
LEMMA InvParts ==
  ASSUME NEW X, NEW s, NEW w, NEW G, NEW C, Inv(X, s, w, G, C)
  PROVE  /\ Core(X, s, w, G) /\ Counted(s.reqs, G, C) /\ IsMgr(s)
         /\ Blocks(X, s.primary, s.queued, s.jobs, s.stores, G)
         /\ Ids(s.jobs, w, s.retracted, s.drained, G)
         /\ IsTable(s.primary) /\ IsFiniteSet(G) /\ \A g \in G : IsTransfer(g)
         /\ \A q \in s.queued : IsPromise(q)
         /\ DOMAIN s.reqs \in SUBSET Request /\ C \in SUBSET Request
         /\ C \cap DOMAIN s.reqs = {} /\ DOMAIN s.jobs \in SUBSET Id
BY DEF Inv, Core, Blocks, Shapes, Counted

LEMMA NewRequestStep ==
  ASSUME Books, taken' = taken, NEW r \in Request, OnNewRequest(r)
  PROVE  Books' /\ Steady
<1> DEFINE d == [x \in {r} |-> [stores |-> 0, finished |-> FALSE]]
<1>1. Core(taken, m, work, gpu) /\ Counted(m.reqs, gpu, closed) /\ IsMgr(m)
  BY InvParts DEF Books
<1>2. /\ m' = [m EXCEPT !.reqs = Updated(@, d)] /\ r \notin DOMAIN m.reqs /\ r \notin closed
      /\ work' = work /\ gpu' = gpu /\ closed' = closed
  BY DEF OnNewRequest
<1>3. Counted(Updated(m.reqs, d), gpu, closed)
  BY <1>1, <1>2, RequestBegins
<1> HIDE DEF d
<1>4. /\ IsMgr(m') /\ m'.reqs = Updated(m.reqs, d)
      /\ m'.primary = m.primary /\ m'.jobs = m.jobs /\ m'.queued = m.queued
      /\ m'.failures = m.failures /\ m'.retracted = m.retracted /\ m'.drained = m.drained
      /\ m'.stores = m.stores /\ m'.polled = m.polled
  BY <1>1, <1>2 DEF IsMgr
<1>5. Core(taken, m', work, gpu)
  BY <1>1, <1>4, SameCore
<1> QED BY <1>2, <1>3, <1>4, <1>5 DEF Books, Inv, Steady

LEMMA FinishedStep ==
  ASSUME Books, taken' = taken, NEW r \in Request, OnRequestFinished(r)
  PROVE  Books' /\ Steady
<1> DEFINE s == [m EXCEPT !.reqs[r].finished = TRUE]
           Y == [m.reqs EXCEPT ![r].finished = TRUE]
<1>1. Core(taken, m, work, gpu) /\ Counted(m.reqs, gpu, closed) /\ IsMgr(m)
  BY InvParts DEF Books
<1>2. /\ m' = FinalizeIfDone(s, r) /\ r \in DOMAIN m.reqs
      /\ closed' = IF Done(s, r) THEN closed \cup {r} ELSE closed
      /\ work' = work /\ gpu' = gpu
  BY DEF OnRequestFinished
<1>3. Counted(Y, gpu, closed)
  BY <1>1, <1>2, RequestEnds
<1>4. s = [m EXCEPT !.reqs = Y]
  OBVIOUS
<1> HIDE DEF Y, s
<1>5. /\ IsMgr(s) /\ s.reqs = Y
      /\ s.primary = m.primary /\ s.jobs = m.jobs /\ s.queued = m.queued
      /\ s.failures = m.failures /\ s.retracted = m.retracted /\ s.drained = m.drained
      /\ s.stores = m.stores /\ s.polled = m.polled
  BY <1>1, <1>4 DEF IsMgr
<1>6. Core(taken, s, work, gpu)
  BY <1>1, <1>5, SameCore
<1>7. Inv(taken, s, work, gpu, closed)
  BY <1>3, <1>5, <1>6 DEF Inv
<1>8. /\ Inv(taken, m', work, gpu, closed') /\ closed \subseteq closed'
      /\ m'.jobs = m.jobs /\ m'.queued = m.queued
  <2>1. /\ Inv(taken, FinalizeIfDone(s, r), work, gpu, closed') /\ closed \subseteq closed'
        /\ FinalizeIfDone(s, r).jobs = s.jobs /\ FinalizeIfDone(s, r).queued = s.queued
    <3>1. closed' = IF Done(s, r) THEN closed \cup {r} ELSE closed
      BY <1>2
    <3> QED BY ONLY <1>7, <3>1, FinalizeKeeps
  <2> QED BY <1>2, <1>5, <2>1
<1> QED BY <1>2, <1>8 DEF Books, Steady

LEMMA LookupAnswersStep ==
  ASSUME Books, taken' = taken, LookupAnswers
  PROVE  Books' /\ Steady
<1>1. m' \in Polled /\ work' = WorkPolled /\ gpu' = gpu /\ closed' = closed
  BY DEF LookupAnswers
<1>2. Inv(taken, m', WorkPolled, gpu, closed) /\ SettlesStep(taken, m, m')
  BY <1>1, PolledKeeps
<1> QED BY <1>1, <1>2 DEF Books, Steady, SettlesStep

\* One more batch needs one more id.
LEMMA OneMoreBatch ==
  ASSUME NEW Q, NEW q, \A x \in Q \cup {q} : IsPromise(x)
  PROVE  /\ <<q.tier, q.req>> \in BatchesOf(Q) => BatchesOf(Q \cup {q}) = BatchesOf(Q)
         /\ Cardinality(BatchesOf(Q \cup {q})) <= Cardinality(BatchesOf(Q)) + 1
<1> DEFINE b == <<q.tier, q.req>>
<1>1. BatchesOf(Q \cup {q}) = BatchesOf(Q) \cup {b}
  BY DEF BatchesOf
<1>2. IsFiniteSet(BatchesOf(Q)) /\ Cardinality(BatchesOf(Q)) \in Nat
  BY BatchesAreFinite
<1> HIDE DEF b
<1>3. Cardinality(BatchesOf(Q) \cup {b}) <= Cardinality(BatchesOf(Q)) + 1
  <2>1. CASE b \in BatchesOf(Q)
    <3>1. BatchesOf(Q) \cup {b} = BatchesOf(Q)
      BY <2>1
    <3>2. Cardinality(BatchesOf(Q) \cup {b}) = Cardinality(BatchesOf(Q))
      BY <3>1
    <3> QED BY <1>2, <3>2
  <2>2. CASE b \notin BatchesOf(Q)
    <3>1. Cardinality(BatchesOf(Q) \cup {b}) = Cardinality(BatchesOf(Q)) + 1
      BY <1>2, <2>2, FS_AddElement
    <3> QED BY <1>2, <3>1
  <2> QED BY <2>1, <2>2
<1>4. Cardinality(BatchesOf(Q \cup {q})) <= Cardinality(BatchesOf(Q)) + 1
  BY <1>1, <1>3
<1>5. b \in BatchesOf(Q) => BatchesOf(Q \cup {q}) = BatchesOf(Q)
  BY <1>1
<1> QED BY <1>4, <1>5 DEF b

\* A lookup that promotes; a key whose promotion failed, or fails in this very
\* poll, is not the one.
LEMMA LookupPromotesStep ==
  ASSUME Books, taken' = taken, NEW r \in Request, NEW t \in Tier, NEW k \in Key, LookupPromotes(r, t, k)
  PROVE  /\ Books' /\ closed' = closed
         /\ \A i \in DOMAIN m'.jobs : i \in DOMAIN m.jobs
         /\ \A q \in m'.queued : (q \notin m.queued /\ q.key \notin taken) =>
              /\ q.key \notin DOMAIN m.failures
              /\ FailTTL > 0 => \A i \in DOMAIN m.jobs :
                   (i \notin DOMAIN m'.jobs /\ m.jobs[i].promo)
                      => q.key \notin DOMAIN m.jobs[i].slots
<1>1. PICK s \in Polled :
          /\ r \in DOMAIN s.reqs /\ CanPromote(s, k)
          /\ <<t, r>> \in Batches(s) \/ HasIds(s, WorkPolled, gpu, 1)
          /\ \E p \in Reservations(s.primary, {k}) :
                m' = [s EXCEPT
                        !.primary = p,
                        !.queued = @ \cup {[tier |-> t, req |-> r, key |-> k,
                                            slot |-> p[k].slot]}]
  BY DEF LookupPromotes
<1>2. PICK p \in Reservations(s.primary, {k}) :
         m' = [s EXCEPT !.primary = p,
                        !.queued = @ \cup {[tier |-> t, req |-> r, key |-> k,
                                            slot |-> p[k].slot]}]
  BY <1>1
<1> DEFINE q == [tier |-> t, req |-> r, key |-> k, slot |-> p[k].slot]
           w == WorkPolled
<1>3. work' = w /\ gpu' = gpu /\ closed' = closed
  BY DEF LookupPromotes
<1>4. Inv(taken, s, w, gpu, closed) /\ SettlesStep(taken, m, s)
  BY PolledKeeps
<1>5. q.tier = t /\ q.req = r /\ q.key = k /\ q.slot = p[k].slot
      /\ q = [tier |-> q.tier, req |-> q.req, key |-> q.key, slot |-> q.slot]
  OBVIOUS
<1>6. m' = [s EXCEPT !.primary = p, !.queued = @ \cup {q}]
  BY <1>2
<1> HIDE DEF q, w
<1>7. /\ Core(taken, s, w, gpu) /\ Counted(s.reqs, gpu, closed) /\ IsMgr(s)
      /\ Blocks(taken, s.primary, s.queued, s.jobs, s.stores, gpu)
      /\ Ids(s.jobs, w, s.retracted, s.drained, gpu)
      /\ IsTable(s.primary) /\ \A x \in s.queued : IsPromise(x)
  BY <1>4, InvParts
<1>8. \A x, y \in DOMAIN s.primary : s.primary[x].slot = s.primary[y].slot => x = y
  BY <1>7 DEF Blocks, Placed
<1>9. Reserving(s.primary, p, {k})
  <2>1. {k} \in SUBSET Key
    OBVIOUS
  <2> QED BY <1>7, <1>8, <2>1, ReservationEffect
<1>10. k \notin DOMAIN s.primary /\ k \notin DOMAIN s.failures
  BY <1>1 DEF CanPromote
<1>11. IsPromise(q)
  <2>1. IsTable(p) /\ k \in DOMAIN p
    BY <1>9, <1>10 DEF Reserving
  <2>2. p[k].slot \in Slot
    BY <2>1, TableParts DEF Block
  <2> QED BY <1>5, <2>2 DEF IsPromise
<1>12. /\ m'.primary = p /\ m'.queued = s.queued \cup {q} /\ m'.jobs = s.jobs
       /\ m'.failures = s.failures /\ m'.retracted = s.retracted /\ m'.drained = s.drained
       /\ m'.stores = s.stores /\ m'.reqs = s.reqs /\ m'.polled = s.polled /\ IsMgr(m')
  BY <1>6, <1>7 DEF IsMgr
<1>13. Blocks(taken, p, s.queued \cup {q}, s.jobs, s.stores, gpu)
  BY <1>5, <1>7, <1>9, <1>10, <1>11, NewPromise
<1>14. Room(s.queued \cup {q}, s.jobs, w, s.retracted, s.drained, gpu, 0)
  <2> DEFINE P == s.queued \cup {q}
             A == Known(s.jobs, w, s.retracted, s.drained, gpu)
  <2>1. \A x \in P : IsPromise(x)
    BY <1>7, <1>11
  <2>2. /\ <<t, r>> \in BatchesOf(s.queued) => BatchesOf(P) = BatchesOf(s.queued)
        /\ Cardinality(BatchesOf(P)) <= Cardinality(BatchesOf(s.queued)) + 1
    BY <1>5, <2>1, OneMoreBatch
  <2>3. /\ Cardinality(BatchesOf(P)) \in Nat /\ Cardinality(BatchesOf(s.queued)) \in Nat
        /\ Cardinality(Id \ A) \in Nat
    <3>1. IsFiniteSet(Id \ A)
      BY IdsAreFinite, FS_Subset
    <3> QED BY <1>7, <2>1, <3>1, BatchesAreFinite, FS_CardinalityType
  <2>4. CASE <<t, r>> \in Batches(s)
    <3>1. BatchesOf(P) = BatchesOf(s.queued)
      BY <2>2, <2>4 DEF Batches, BatchesOf
    <3>2. Room(s.queued, s.jobs, w, s.retracted, s.drained, gpu, 0)
      BY <1>7 DEF Core
    <3> QED BY <3>1, <3>2 DEF Room
  <2>5. CASE HasIds(s, w, gpu, 1)
    <3>1. Cardinality(Id \ A) >= 1 + Cardinality(BatchesOf(s.queued))
      BY <2>5 DEF HasIds, KnownIds, Known, Batches, BatchesOf
    <3> HIDE DEF A, P
    <3>2. Cardinality(Id \ A) >= 0 + Cardinality(BatchesOf(P))
      BY <2>2, <2>3, <3>1
    <3> QED BY <3>2 DEF Room, A, P
  <2> QED BY <1>1, <2>4, <2>5 DEF w
<1>15. Books'
  BY <1>3, <1>7, <1>12, <1>13, <1>14 DEF Books, Inv, Core
<1>16. ASSUME NEW x \in m'.queued, x \notin m.queued PROVE x.key = k
  <2>1. s.queued = m.queued
    BY <1>4 DEF SettlesStep
  <2> QED BY <1>5, <1>12, <1>16, <2>1
<1>17. ~Settled(s, k)
  BY <1>7, <1>10, TableParts DEF Settled
<1>18. \A i \in DOMAIN m'.jobs : i \in DOMAIN m.jobs
  BY <1>4, <1>12 DEF SettlesStep
<1>19. ASSUME k \notin taken
       PROVE
       /\ k \notin DOMAIN m.failures
       /\ FailTTL > 0 => \A i \in DOMAIN m.jobs :
                   (i \notin DOMAIN m'.jobs /\ m.jobs[i].promo)
                      => k \notin DOMAIN m.jobs[i].slots
  BY <1>4, <1>12, <1>17, <1>19 DEF SettlesStep
<1> QED BY <1>3, <1>15, <1>16, <1>18, <1>19

\* The keys of an operation are some, and finitely many.
LEMMA BatchEffect ==
  ASSUME NEW K \in Batch
  PROVE  K \in SUBSET Key /\ K # {}
<1>1. PICK n \in 1 .. MaxBatch : K \in kSubset(n, Key \ Idle)
  BY DEF Batch
<1>2. K \in SUBSET (Key \ Idle) /\ Cardinality(K) = n
  BY <1>1 DEF kSubset
<1>3. n # 0
  OBVIOUS
<1> QED BY <1>2, <1>3, FS_EmptySet

LEMMA PrepareLoadStep ==
  ASSUME Books, taken' = taken, NEW r \in Request, NEW K \in Batch, PrepareLoad(r, K)
  PROVE  Books' /\ Steady
<1> DEFINE g == Transfer("load", m.primary, K, r, NoId)
<1>1. /\ Core(taken, m, work, gpu) /\ Counted(m.reqs, gpu, closed) /\ IsMgr(m)
      /\ Blocks(taken, m.primary, m.queued, m.jobs, m.stores, gpu)
      /\ Ids(m.jobs, work, m.retracted, m.drained, gpu)
  BY InvParts DEF Books
<1>2. /\ K \in SUBSET Ready(m.primary) /\ g \notin gpu
      /\ m' = [m EXCEPT !.primary = Pin(@, K, 1)]
      /\ gpu' = gpu \cup {g} /\ work' = work /\ closed' = closed
  BY DEF PrepareLoad
<1>3. K # {}
  BY BatchEffect
<1>4. g.kind = "load" /\ g.batch = NoId
  BY DEF Transfer
<1>5. Blocks(taken, Pin(m.primary, K, 1), m.queued, m.jobs, m.stores, gpu \cup {g})
  BY <1>1, <1>2, <1>3, NewLoad
<1> HIDE DEF g
<1>6. /\ m'.primary = Pin(m.primary, K, 1) /\ m'.jobs = m.jobs /\ m'.queued = m.queued
      /\ m'.failures = m.failures /\ m'.retracted = m.retracted /\ m'.drained = m.drained
      /\ m'.stores = m.stores /\ m'.reqs = m.reqs /\ m'.polled = m.polled /\ IsMgr(m')
  BY <1>1, <1>2 DEF IsMgr
<1>7. Ids(m.jobs, work, m.retracted, m.drained, gpu')
  BY <1>1, <1>2, <1>4 DEF Ids
<1>8. Room(m.queued, m.jobs, work, m.retracted, m.drained, gpu', 0)
  <2> DEFINE A == Known(m.jobs, work, m.retracted, m.drained, gpu)
             B == Known(m.jobs, work, m.retracted, m.drained, gpu')
  <2>1. B = A \cup {NoId}
    BY <1>2, <1>4 DEF Known
  <2>2. NoId \notin Id
    BY IdsAreFinite DEF NoId, Id
  <2> HIDE DEF A, B
  <2>3. Id \ B = Id \ A
    BY <2>1, <2>2
  <2>4. Cardinality(Id \ A) >= 0 + Cardinality(BatchesOf(m.queued))
    BY <1>1 DEF Core, Room, A
  <2> QED BY <2>3, <2>4 DEF Room, B
<1>9. Counted(m.reqs, gpu', closed)
  <2>1. \A h : h.kind = "store" => (h \in gpu' <=> h \in gpu)
    BY <1>2, <1>4
  <2> QED BY <1>1, <2>1, LoadsDoNotCount
<1>10. Books'
  BY <1>1, <1>2, <1>5, <1>6, <1>7, <1>8, <1>9 DEF Books, Inv, Core
<1> QED BY <1>2, <1>6, <1>10 DEF Steady

\* Fewer transfers need fewer ids.
LEMMA FewerTransfers ==
  ASSUME NEW J, NEW w, NEW R, NEW D, NEW G, NEW F, \A g \in F : g \in G, Ids(J, w, R, D, G),
         NEW Q, \A q \in Q : IsPromise(q), Room(Q, J, w, R, D, G, 0)
  PROVE  Ids(J, w, R, D, F) /\ Room(Q, J, w, R, D, F, 0)
<1>1. Ids(J, w, R, D, F)
  BY DEF Ids
<1>2. Known(J, w, R, D, F) \subseteq Known(J, w, R, D, G)
  BY DEF Known
<1>3. IsFiniteSet(BatchesOf(Q))
  BY BatchesAreFinite
<1> QED BY <1>1, <1>2, <1>3, RoomGrows DEF Room

LEMMA CompleteLoadStep ==
  ASSUME Books, taken' = taken, NEW g \in gpu, CompleteLoad(g)
  PROVE  Books' /\ Steady
<1> DEFINE n == [k \in Key |-> IF k \in DOMAIN g.slots THEN 1 ELSE 0]
           F == gpu \ {g}
<1>1. /\ Core(taken, m, work, gpu) /\ Counted(m.reqs, gpu, closed) /\ IsMgr(m)
      /\ Blocks(taken, m.primary, m.queued, m.jobs, m.stores, gpu)
      /\ Ids(m.jobs, work, m.retracted, m.drained, gpu)
      /\ \A q \in m.queued : IsPromise(q)
  BY InvParts DEF Books
<1>2. /\ g.kind = "load" /\ m' = [m EXCEPT !.primary = Unpin(@, n)]
      /\ gpu' = F /\ work' = work /\ closed' = closed
  BY DEF CompleteLoad
<1>3. Blocks(taken, Unpin(m.primary, n), m.queued, m.jobs, m.stores, F)
  BY <1>1, <1>2, LoadEnds
<1>4. \A h : h \in F <=> (h \in gpu /\ h # g)
  OBVIOUS
<1> HIDE DEF n, F
<1>5. /\ m'.primary = Unpin(m.primary, n) /\ m'.jobs = m.jobs /\ m'.queued = m.queued
      /\ m'.failures = m.failures /\ m'.retracted = m.retracted /\ m'.drained = m.drained
      /\ m'.stores = m.stores /\ m'.reqs = m.reqs /\ m'.polled = m.polled /\ IsMgr(m')
  BY <1>1, <1>2 DEF IsMgr
<1>6. /\ Ids(m.jobs, work, m.retracted, m.drained, F)
      /\ Room(m.queued, m.jobs, work, m.retracted, m.drained, F, 0)
  <2>1. Room(m.queued, m.jobs, work, m.retracted, m.drained, gpu, 0)
    BY <1>1 DEF Core
  <2> QED BY <1>1, <1>4, <2>1, FewerTransfers
<1>7. Counted(m.reqs, F, closed)
  <2>1. \A h : h.kind = "store" => (h \in F <=> h \in gpu)
    BY <1>2, <1>4
  <2> QED BY <1>1, <2>1, LoadsDoNotCount
<1>8. Books'
  BY <1>1, <1>2, <1>3, <1>5, <1>6, <1>7 DEF Books, Inv, Core
<1> QED BY <1>2, <1>5, <1>8 DEF Steady

\* What a table has in addition comes from the other one.
LEMMA TakesOver ==
  ASSUME NEW J, NEW N, NEW H, H = Updated(J, N)
  PROVE  \A i \in DOMAIN H : i \notin DOMAIN J => i \in DOMAIN N /\ H[i] = N[i]
BY DEF Updated

\* What a cascade does within a step: its jobs are of the request r.
LEMMA CascadeStep ==
  ASSUME NEW X, NEW s, NEW w, NEW G, NEW C, Inv(X, s, w, G, C), NEW n \in Nat,
         NEW T \in SUBSET Tier, HasIds(s, w, G, n + Cardinality(T)),
         NEW K \in SUBSET Ready(s.primary), NEW r \in Request \cup {NoRequest},
         NEW N, N = StoreJobs(s, w, G, K, r, T),
         NEW t, t = Cascade(s, N, K, T)
  PROVE  /\ Inv(X, t, Updated(w, Started(N)), G, C)
         /\ HasIds(t, Updated(w, Started(N)), G, n)
         /\ \A i \in DOMAIN t.jobs : i \notin DOMAIN s.jobs => t.jobs[i].req = r
         /\ t.queued = s.queued /\ t.reqs = s.reqs
<1>1. Core(X, s, w, G) /\ Counted(s.reqs, G, C)
  BY DEF Inv
<1>2. /\ Core(X, t, Updated(w, Started(N)), G)
      /\ HasIds(t, Updated(w, Started(N)), G, n)
      /\ Copies(N, s.primary, K, r) /\ t.jobs = Updated(s.jobs, N)
      /\ t.queued = s.queued /\ t.reqs = s.reqs
  BY <1>1, CascadeKeeps
<1>3. \A i \in DOMAIN t.jobs : i \notin DOMAIN s.jobs => t.jobs[i].req = r
  <2>1. t.jobs = Updated(s.jobs, N)
    BY <1>2
  <2>2. \A i \in DOMAIN t.jobs : i \notin DOMAIN s.jobs => i \in DOMAIN N /\ t.jobs[i] = N[i]
    BY <2>1, TakesOver
  <2>3. \A i \in DOMAIN N : N[i].req = r
    BY <1>2 DEF Copies
  <2> QED BY <2>2, <2>3
<1> QED BY <1>1, <1>2, <1>3 DEF Inv

\* The reservation of a store, and the transfer it begins, before the cascade.
LEMMA ReserveKeeps ==
  ASSUME NEW X, NEW s, NEW w, NEW G, NEW C, Inv(X, s, w, G, C), NEW n \in Nat,
         HasIds(s, w, G, 1 + n), NEW r \in DOMAIN s.reqs, NEW K \in SUBSET Key,
         NEW p \in Reservations(s.primary, K),
         NEW new, new = K \ DOMAIN s.primary, new # {},
         NEW b, b = NextJobIds(s, w, G, {r})[r],
         NEW g, g = Transfer("store", p, new, r, b),
         NEW t, t = Reserve(s, p, r, new, b)
  PROVE  Inv(X, t, w, G \cup {g}, C) /\ HasIds(t, w, G \cup {g}, n)
<1> DEFINE A == Known(s.jobs, w, s.retracted, s.drained, G)
           c == Cardinality(BatchesOf(s.queued))
           F == G \cup {g}
           Y == [s.reqs EXCEPT ![r].stores = @ + 1]
           Z == Dated(s.stores, Deadlines(r, new, b))
<1>1. /\ Core(X, s, w, G) /\ Counted(s.reqs, G, C) /\ IsMgr(s)
      /\ Blocks(X, s.primary, s.queued, s.jobs, s.stores, G)
      /\ Ids(s.jobs, w, s.retracted, s.drained, G)
      /\ IsTable(s.primary) /\ IsFiniteSet(G) /\ \A q \in s.queued : IsPromise(q)
      /\ DOMAIN s.reqs \in SUBSET Request
      /\ IsFun(s.failures) /\ s.polled \in BOOLEAN
  BY InvParts DEF Inv, Core
<1>2. /\ Cardinality(Id \ A) >= (1 + n) + c /\ KnownIds(s, w, G) = A
      /\ Cardinality(Id \ A) \in Nat /\ c \in Nat
  <2>1. /\ Cardinality(Id \ A) >= (1 + n) + c /\ KnownIds(s, w, G) = A
    BY DEF HasIds, KnownIds, Known, Batches, BatchesOf
  <2>2. IsFiniteSet(Id \ A)
    BY IdsAreFinite, FS_Subset
  <2>3. Cardinality(Id \ A) \in Nat /\ c \in Nat
    BY <1>1, <2>2, BatchesAreFinite, FS_CardinalityType
  <2> QED BY <2>1, <2>3
<1> HIDE DEF A, c
<1>3. b \in Id /\ b \notin A
  <2>1. IsFiniteSet({r}) /\ Cardinality({r}) = 1
    BY FS_Singleton
  <2>2. Cardinality(Id \ KnownIds(s, w, G)) >= Cardinality({r})
    BY <1>2, <2>1
  <2>3. NextJobIds(s, w, G, {r}) \in Injection({r}, Id \ KnownIds(s, w, G))
    BY <2>1, <2>2, NextIds
  <2>4. NextJobIds(s, w, G, {r})[r] \in Id \ KnownIds(s, w, G)
    BY <2>3 DEF Injection
  <2> QED BY <1>2, <2>4
<1>4. /\ \A h \in G : h.batch # b
      /\ b \notin DOMAIN s.jobs
  BY <1>3 DEF Known, A
<1>5. g.kind = "store" /\ g.batch = b /\ g.req = r
  BY DEF Transfer
<1>6. Reserving(s.primary, p, K)
  <2>1. \A x, y \in DOMAIN s.primary : s.primary[x].slot = s.primary[y].slot => x = y
    BY <1>1 DEF Blocks, Placed
  <2> QED BY <1>1, <2>1, ReservationEffect
<1>7. Blocks(X, p, s.queued, s.jobs, Z, F)
  <2>1. r \in Request
    BY <1>1
  <2> QED BY <1>1, <1>3, <1>4, <1>6, <2>1, NewStore
<1> HIDE DEF Z, F, Y
<1>8. /\ t.primary = p /\ t.jobs = s.jobs /\ t.queued = s.queued
      /\ t.failures = s.failures /\ t.retracted = s.retracted /\ t.drained = s.drained
      /\ t.stores = Z /\ t.reqs = Y /\ t.polled = s.polled /\ IsMgr(t)
  <2>1. t = [s EXCEPT !.primary = p, !.reqs = Y, !.stores = Z]
    BY DEF Reserve, Y, Z, Dated
  <2> QED BY <1>1, <2>1 DEF IsMgr
<1>9. Counted(Y, F, C) /\ DOMAIN Y = DOMAIN s.reqs
  <2>1. g \notin G
    BY <1>4, <1>5
  <2> QED BY <1>1, <1>5, <2>1, StoreBegins DEF Y, F
<1>10. Ids(s.jobs, w, s.retracted, s.drained, F)
  BY <1>1, <1>4, <1>5 DEF Ids, F
<1>11. Known(s.jobs, w, s.retracted, s.drained, F) = A \cup {b}
  BY <1>5 DEF Known, A, F
<1>12. Cardinality(Id \ (A \cup {b})) >= n + c
  <2>1. {b} \in SUBSET Id /\ {b} \cap A = {} /\ Cardinality({b}) = 1
    BY <1>3, FS_Singleton
  <2>2. n + c \in Nat /\ Cardinality(Id \ A) >= (n + c) + 1
    BY <1>2
  <2> QED BY <2>1, <2>2, RoomTaken
<1>13. HasIds(t, w, F, n)
  <2>1. KnownIds(t, w, F) = A \cup {b}
    BY <1>8, <1>11 DEF KnownIds, Known
  <2>2. Batches(t) = BatchesOf(s.queued)
    BY <1>8 DEF Batches, BatchesOf
  <2> QED BY <1>12, <2>1, <2>2 DEF HasIds, c
<1>14. Room(s.queued, s.jobs, w, s.retracted, s.drained, F, 0)
  <2>1. IsFiniteSet(Id \ (A \cup {b}))
    BY IdsAreFinite, FS_Subset
  <2>2. Cardinality(Id \ (A \cup {b})) \in Nat
    BY <2>1, FS_CardinalityType
  <2>3. Cardinality(Id \ (A \cup {b})) >= 0 + c
    BY <1>2, <1>12, <2>2
  <2> QED BY <1>11, <2>3 DEF Room, c
<1>15. Inv(X, t, w, F, C)
  BY <1>1, <1>7, <1>8, <1>9, <1>10, <1>14 DEF Inv, Core
<1> QED BY <1>13, <1>15 DEF F

\* What reserving leaves alone; the blocks that were ready stay so.
LEMMA ReserveFrame ==
  ASSUME NEW X, NEW s, NEW w, NEW G, NEW C, Inv(X, s, w, G, C), NEW r \in DOMAIN s.reqs,
         NEW K \in SUBSET Key, NEW p \in Reservations(s.primary, K),
         NEW new, new # {}, NEW b, NEW t, t = Reserve(s, p, r, new, b)
  PROVE  /\ t.jobs = s.jobs /\ t.queued = s.queued /\ DOMAIN t.reqs = DOMAIN s.reqs
         /\ t.primary = p
         /\ \A k \in K : k \in Ready(s.primary) => k \in Ready(p)
<1> DEFINE Y == [s.reqs EXCEPT ![r].stores = @ + 1]
           Z == Dated(s.stores, Deadlines(r, new, b))
<1>1. IsMgr(s) /\ IsTable(s.primary) /\ Blocks(X, s.primary, s.queued, s.jobs, s.stores, G)
  BY InvParts
<1>2. t = [s EXCEPT !.primary = p, !.reqs = Y, !.stores = Z]
  BY DEF Reserve, Dated
<1>3. DOMAIN Y = DOMAIN s.reqs
  OBVIOUS
<1> HIDE DEF Y, Z
<1>4. t.jobs = s.jobs /\ t.queued = s.queued /\ t.primary = p /\ t.reqs = Y
  BY <1>1, <1>2 DEF IsMgr
<1>5. Reserving(s.primary, p, K)
  <2>1. \A x, y \in DOMAIN s.primary : s.primary[x].slot = s.primary[y].slot => x = y
    BY <1>1 DEF Blocks, Placed
  <2> QED BY <1>1, <2>1, ReservationEffect
<1>6. ASSUME NEW k \in K, k \in Ready(s.primary) PROVE k \in Ready(p)
  <2>1. k \in DOMAIN s.primary /\ s.primary[k].ref # -1
    BY <1>1, <1>6, TableParts
  <2>2. k \in DOMAIN p /\ p[k] = s.primary[k]
    BY <1>5, <2>1 DEF Reserving
  <2>3. IsTable(p)
    BY <1>5 DEF Reserving
  <2> QED BY <2>1, <2>2, <2>3, TableParts
<1> QED BY <1>3, <1>4, <1>6

LEMMA PrepareStoreStep ==
  ASSUME Books, taken' = taken, NEW r \in Request, NEW K \in Batch, PrepareStore(r, K)
  PROVE  Books' /\ Steady
<1>1. PICK s \in Polled, w \in {WorkPolled} :
        LET new == K \ DOMAIN s.primary
            old == K \cap Ready(s.primary)
            T == IF old = {} THEN {} ELSE RequestLevel
            batch == NextJobIds(s, w, gpu, {r})[r]
        IN  /\ r \in DOMAIN s.reqs /\ ~s.reqs[r].finished
            /\ HasIds(s, w, gpu, 1 + Cardinality(T))
            /\ \E p \in Reservations(s.primary, K) :
               \E s1 \in {Reserve(s, p, r, new, batch)} :
                  /\ gpu' = IF new = {} THEN gpu
                            ELSE gpu \cup {Transfer("store", p, new, r, batch)}
                  /\ \E jobs \in {StoreJobs(s1, w, gpu', old, r, T)} :
                        /\ m' = Cascade(s1, jobs, old, T)
                        /\ work' = Updated(w, Started(jobs))
  BY Zenon DEF PrepareStore
<1> DEFINE new == K \ DOMAIN s.primary
           old == K \cap Ready(s.primary)
           T == IF old = {} THEN {} ELSE RequestLevel
           batch == NextJobIds(s, w, gpu, {r})[r]
<1>2. PICK p \in Reservations(s.primary, K) :
         LET s1 == Reserve(s, p, r, new, batch)
             jobs == StoreJobs(s1, w, gpu', old, r, T)
         IN  /\ gpu' = IF new = {} THEN gpu
                       ELSE gpu \cup {Transfer("store", p, new, r, batch)}
             /\ m' = Cascade(s1, jobs, old, T)
             /\ work' = Updated(w, Started(jobs))
  BY <1>1
<1> DEFINE s1 == Reserve(s, p, r, new, batch)
           jobs == StoreJobs(s1, w, gpu', old, r, T)
           g == Transfer("store", p, new, r, batch)
<1>3. /\ gpu' = IF new = {} THEN gpu ELSE gpu \cup {g}
      /\ m' = Cascade(s1, jobs, old, T) /\ work' = Updated(w, Started(jobs))
      /\ r \in DOMAIN s.reqs /\ HasIds(s, w, gpu, 1 + Cardinality(T))
      /\ closed' = closed
  BY <1>1, <1>2 DEF PrepareStore
<1>4. T \in SUBSET Tier
  BY TieringAssumption
<1>5. Cardinality(T) \in Nat
  <2>1. IsFiniteSet(T)
    BY <1>4, TieringAssumption, FS_Subset
  <2> HIDE DEF T
  <2> QED BY <2>1, FS_CardinalityType
<1>6. K \in SUBSET Key
  BY BatchEffect
<1>7. \A k \in old : k \in K /\ k \in Ready(s.primary)
  OBVIOUS
<1>8. new = {} => s1 = s
  BY DEF Reserve
<1>0. new = K \ DOMAIN s.primary
  OBVIOUS
<1> HIDE DEF T, old, new, g, jobs, s1, batch
<1>9. Inv(taken, s, w, gpu, closed) /\ SettlesStep(taken, m, s)
  BY <1>1, PolledKeeps
<1>10. \E n \in Nat :
          /\ Inv(taken, s1, w, gpu', closed) /\ HasIds(s1, w, gpu', n + Cardinality(T))
          /\ old \in SUBSET Ready(s1.primary)
          /\ s1.jobs = s.jobs /\ s1.queued = s.queued /\ DOMAIN s1.reqs = DOMAIN s.reqs
  <2>1. CASE new = {}
    <3>1. s1 = s /\ gpu' = gpu
      BY <1>3, <1>8, <2>1
    <3>2. /\ Inv(taken, s1, w, gpu', closed) /\ HasIds(s1, w, gpu', 1 + Cardinality(T))
          /\ s1.jobs = s.jobs /\ s1.queued = s.queued /\ DOMAIN s1.reqs = DOMAIN s.reqs
      BY <1>3, <1>9, <3>1
    <3>3. old \in SUBSET Ready(s1.primary)
      BY <1>7, <3>1
    <3> QED BY <3>2, <3>3
  <2>2. CASE new # {}
    <3>1. gpu' = gpu \cup {g}
      BY <1>3, <2>2
    <3> DEFINE c == Cardinality(T)
    <3>2. HasIds(s, w, gpu, 1 + c) /\ c \in Nat
      BY <1>3, <1>5
    <3> HIDE DEF c
    <3>3. /\ Inv(taken, s1, w, gpu \cup {g}, closed) /\ HasIds(s1, w, gpu \cup {g}, c)
          /\ s1.jobs = s.jobs /\ s1.queued = s.queued /\ DOMAIN s1.reqs = DOMAIN s.reqs
          /\ s1.primary = p
          /\ \A k \in K : k \in Ready(s.primary) => k \in Ready(p)
      <4>1. new = K \ DOMAIN s.primary /\ new # {}
        BY <1>0, <2>2
      <4>2. /\ batch = NextJobIds(s, w, gpu, {r})[r]
            /\ g = Transfer("store", p, new, r, batch)
            /\ s1 = Reserve(s, p, r, new, batch)
        BY DEF batch, g, s1
      <4>3. r \in DOMAIN s.reqs /\ Inv(taken, s, w, gpu, closed)
        BY <1>3, <1>9
      <4>4. /\ Inv(taken, s1, w, gpu \cup {g}, closed)
            /\ HasIds(s1, w, gpu \cup {g}, c)
        BY <1>6, <3>2, <4>1, <4>2, <4>3, ReserveKeeps
      <4>5. /\ s1.jobs = s.jobs /\ s1.queued = s.queued
            /\ DOMAIN s1.reqs = DOMAIN s.reqs /\ s1.primary = p
        BY <1>6, <4>1, <4>2, <4>3, ReserveFrame
      <4>6. \A k \in K : k \in Ready(s.primary) => k \in Ready(p)
        BY <1>6, <4>1, <4>2, <4>3, ReserveFrame
      <4> QED BY <4>4, <4>5, <4>6
    <3>4. HasIds(s1, w, gpu', 0 + Cardinality(T))
      <4>1. 0 + c = c
        BY <3>2
      <4> QED BY <3>1, <3>3, <4>1 DEF c
    <3>5. old \in SUBSET Ready(s1.primary)
      BY <1>7, <3>3
    <3> QED BY <3>1, <3>3, <3>4, <3>5
  <2> QED BY <2>1, <2>2
<1>11. PICK n \in Nat :
          /\ Inv(taken, s1, w, gpu', closed) /\ HasIds(s1, w, gpu', n + Cardinality(T))
          /\ old \in SUBSET Ready(s1.primary)
          /\ s1.jobs = s.jobs /\ s1.queued = s.queued /\ DOMAIN s1.reqs = DOMAIN s.reqs
  BY <1>10
<1>12. /\ Inv(taken, m', work', gpu', closed)
       /\ \A i \in DOMAIN m'.jobs : i \notin DOMAIN s1.jobs => m'.jobs[i].req = r
       /\ m'.queued = s1.queued
  <2>1. jobs = StoreJobs(s1, w, gpu', old, r, T)
    BY DEF jobs
  <2>2. r \in Request \cup {NoRequest}
    OBVIOUS
  <2>3. /\ Inv(taken, Cascade(s1, jobs, old, T), Updated(w, Started(jobs)), gpu', closed)
        /\ LET t == Cascade(s1, jobs, old, T)
           IN  /\ \A i \in DOMAIN t.jobs : i \notin DOMAIN s1.jobs => t.jobs[i].req = r
               /\ t.queued = s1.queued
    BY <1>4, <1>11, <2>1, <2>2, CascadeStep
  <2> QED BY <1>3, <2>3
<1>13. r \notin closed
  BY <1>3, <1>9, InvParts
<1>14. Steady
  <2>1. \A i \in DOMAIN s.jobs : i \in DOMAIN m.jobs
    BY <1>9 DEF SettlesStep
  <2>2. \A i \in DOMAIN m'.jobs : i \notin DOMAIN m.jobs =>
          m'.jobs[i].promo \/ m'.jobs[i].req \notin closed
    BY <1>11, <1>12, <1>13, <2>1
  <2>3. m'.queued = m.queued
    BY <1>9, <1>11, <1>12 DEF SettlesStep
  <2> QED BY <1>3, <2>2, <2>3 DEF Steady
<1> QED BY <1>3, <1>12, <1>14 DEF Books

LEMMA CompleteStoreStep ==
  ASSUME Books, NEW g \in gpu, CompleteStore(g)
  PROVE  Books' /\ Steady
<1> DEFINE K == DOMAIN g.slots
           L == K \cap DOMAIN m.primary
           new == {k \in K \cap Pending(m.primary) : ~Holds(m, g, k)}
           F == gpu \ {g}
           s == [m EXCEPT !.primary = Fill(@, K), !.stores = Without(@, K)]
           jobs == StoreJobs(s, work, F, K, g.req, Tier)
           c == Cascade(s, jobs, K, Tier)
           v == Updated(work, Started(jobs))
           Y == [m.reqs EXCEPT ![g.req].stores = @ - 1]
           s1 == [c EXCEPT !.reqs[g.req].stores = @ - 1]
<1>1. /\ Core(taken, m, work, gpu) /\ Counted(m.reqs, gpu, closed) /\ IsMgr(m)
      /\ Blocks(taken, m.primary, m.queued, m.jobs, m.stores, gpu)
      /\ Ids(m.jobs, work, m.retracted, m.drained, gpu) /\ IsFiniteSet(gpu)
      /\ \A q \in m.queued : IsPromise(q)
      /\ IsFun(m.failures) /\ m.polled \in BOOLEAN
      /\ Room(m.queued, m.jobs, work, m.retracted, m.drained, gpu, 0)
      /\ g.req \in Request /\ closed \cap DOMAIN m.reqs = {}
  BY InvParts DEF Books, Core, IsTransfer
<1>2. /\ g.kind = "store" /\ HasIds(s, work, F, Cardinality(Tier))
      /\ m' = FinalizeIfDone(s1, g.req)
      /\ work' = v /\ gpu' = F
      /\ closed' = IF Done(s1, g.req) THEN closed \cup {g.req} ELSE closed
  BY DEF CompleteStore
<1>3. /\ taken' = taken \cup new
      /\ Tier # {} => K = L
  BY DEF CompleteStore
<1>4. /\ Blocks(taken', Fill(m.primary, K), m.queued, m.jobs, Without(m.stores, K), F)
      /\ L \in SUBSET Ready(Fill(m.primary, K))
  <2>1. taken \subseteq taken'
    BY <1>3
  <2>2. \A k \in K : k \in Pending(m.primary) /\ ~Stands(m.stores, g, k) => k \in taken'
    BY <1>3 DEF Holds, Stands
  <2> HIDE DEF new
  <2> QED BY <1>1, <1>2, <2>1, <2>2, StoreEnds
<1>5. \A h \in F : h \in gpu
  OBVIOUS
<1>6. s1 = [c EXCEPT !.reqs = [c.reqs EXCEPT ![g.req].stores = @ - 1]]
  OBVIOUS
<1>7. /\ s = [m EXCEPT !.primary = Fill(m.primary, K), !.stores = Without(m.stores, K)]
      /\ jobs = StoreJobs(s, work, F, K, g.req, Tier) /\ c = Cascade(s, jobs, K, Tier)
      /\ v = Updated(work, Started(jobs))
  OBVIOUS
<1> HIDE DEF s, jobs, c, v, s1, F, K, L, new, Y
<1>8. /\ s.primary = Fill(m.primary, K) /\ s.stores = Without(m.stores, K)
      /\ s.jobs = m.jobs /\ s.queued = m.queued /\ s.failures = m.failures
      /\ s.retracted = m.retracted /\ s.drained = m.drained
      /\ s.reqs = m.reqs /\ s.polled = m.polled /\ IsMgr(s)
  BY <1>1, <1>7 DEF IsMgr
<1>9. Core(taken', s, work, F)
  <2>1. /\ Ids(m.jobs, work, m.retracted, m.drained, F)
        /\ Room(m.queued, m.jobs, work, m.retracted, m.drained, F, 0)
    BY <1>1, <1>5, FewerTransfers
  <2> QED BY <1>1, <1>4, <1>8, <2>1 DEF Core
<1>10. /\ Core(taken', c, v, F) /\ Copies(jobs, s.primary, L, g.req) /\ c.jobs = Updated(s.jobs, jobs)
       /\ c.queued = s.queued /\ c.reqs = s.reqs
  <2>1. HasIds(s, work, F, 0 + Cardinality(Tier))
    <3>1. Cardinality(Tier) \in Nat
      BY TieringAssumption, FS_CardinalityType
    <3>2. 0 + Cardinality(Tier) = Cardinality(Tier)
      BY <3>1
    <3> QED BY <1>2, <3>2
  <2>2. L \in SUBSET Ready(s.primary)
    BY <1>4, <1>8
  <2>3. g.req \in Request \cup {NoRequest} /\ Tier \in SUBSET Tier
    BY <1>1
  <2>4. 0 \in Nat
    OBVIOUS
  <2>5. jobs = StoreJobs(s, work, F, L, g.req, Tier)
    <3>1. CASE Tier # {}
      BY <1>3, <1>7, <3>1
    <3>2. CASE Tier = {}
      <4>1. IsFiniteSet(Tier) /\ Cardinality(Id \ KnownIds(s, work, F)) >= Cardinality(Tier)
        <5>1. IsFiniteSet(Tier) /\ Cardinality(Tier) = 0
          BY <3>2, FS_EmptySet
        <5>2. IsFiniteSet(Id \ KnownIds(s, work, F))
          BY IdsAreFinite, FS_Subset
        <5> QED BY <5>1, <5>2, FS_CardinalityType
      <4>2. NextJobIds(s, work, F, Tier) \in Injection(Tier, Id \ KnownIds(s, work, F))
        BY <4>1, NextIds
      <4>3. DOMAIN NextJobIds(s, work, F, Tier) = {}
        BY <3>2, <4>2 DEF Injection
      <4>4. Range(NextJobIds(s, work, F, Tier)) = {}
        BY <4>3 DEF Range
      <4>5. /\ StoreJobs(s, work, F, L, g.req, Tier) = [i \in {} |-> {}]
            /\ jobs = [i \in {} |-> {}]
        BY <1>7, <4>4 DEF StoreJobs
      <4> QED BY <4>5
    <3> QED BY <3>1, <3>2
  <2>7. c = Cascade(s, jobs, L, Tier)
    <3>1. \A k \in DOMAIN s.primary : k \in K <=> k \in L
      BY <1>8 DEF L, Fill
    <3>2. Pin(s.primary, K, Cardinality(Tier)) = Pin(s.primary, L, Cardinality(Tier))
      BY <3>1 DEF Pin
    <3> QED BY <1>7, <3>2 DEF Cascade
  <2>6. /\ Core(taken', c, Updated(work, Started(jobs)), F) /\ Copies(jobs, s.primary, L, g.req)
        /\ c.jobs = Updated(s.jobs, jobs) /\ c.queued = s.queued /\ c.reqs = s.reqs
    BY <1>9, <2>1, <2>2, <2>3, <2>4, <2>5, <2>7, CascadeKeeps
  <2> QED BY <1>7, <2>6
<1>11. Counted(Y, F, closed) /\ g.req \in DOMAIN m.reqs
  BY <1>1, <1>2, StoreEndsFor DEF F, Y
<1>12. /\ IsMgr(s1) /\ s1.reqs = Y
       /\ s1.primary = c.primary /\ s1.jobs = c.jobs /\ s1.queued = c.queued
       /\ s1.failures = c.failures /\ s1.retracted = c.retracted /\ s1.drained = c.drained
       /\ s1.stores = c.stores /\ s1.polled = c.polled
  <2>1. IsMgr(c)
    BY <1>10 DEF Core
  <2>2. [c.reqs EXCEPT ![g.req].stores = @ - 1] = Y
    BY <1>8, <1>10 DEF Y
  <2>3. s1 = [c EXCEPT !.reqs = Y]
    BY <1>6, <2>2
  <2> QED BY <2>1, <2>3 DEF IsMgr
<1>13. Core(taken', s1, v, F)
  BY <1>10, <1>12, SameCore
<1>14. Inv(taken', s1, v, F, closed)
  BY <1>11, <1>12, <1>13 DEF Inv
<1>15. /\ Inv(taken', FinalizeIfDone(s1, g.req), v, F, closed') /\ closed \subseteq closed'
       /\ FinalizeIfDone(s1, g.req).jobs = s1.jobs
       /\ FinalizeIfDone(s1, g.req).queued = s1.queued
  BY <1>2, <1>14, FinalizeKeeps
<1>16. m'.jobs = Updated(m.jobs, jobs) /\ m'.queued = m.queued
  BY <1>2, <1>8, <1>10, <1>12, <1>15
<1>17. \A i \in DOMAIN m'.jobs : i \notin DOMAIN m.jobs => m'.jobs[i].req \notin closed
  <2>1. \A i \in DOMAIN m'.jobs : i \notin DOMAIN m.jobs => i \in DOMAIN jobs /\ m'.jobs[i] = jobs[i]
    BY <1>16, TakesOver
  <2>2. \A i \in DOMAIN jobs : jobs[i].req = g.req
    BY <1>10 DEF Copies
  <2> QED BY <1>1, <1>11, <2>1, <2>2
<1> QED BY <1>2, <1>15, <1>16, <1>17 DEF Books, Steady

\* The end of a schedule, after a poll and perhaps a cascade that serves a
\* reader on another node.
LEMMA EndOfScheduleStep ==
  ASSUME taken' = taken,
         NEW s, NEW w, Inv(taken, s, w, gpu, closed), EndOfSchedule(s, w),
         \A i \in DOMAIN s.jobs : i \notin DOMAIN m.jobs => s.jobs[i].req \notin closed
  PROVE  Books' /\ Steady
<1> DEFINE N == PromotionJobs(s, w)
           t == Flushed(s, w)
<1>1. /\ m' = t /\ work' = Updated(w, Started(N)) /\ gpu' = gpu /\ closed' = closed
  BY DEF EndOfSchedule
<1>2. N = PromotionJobs(s, w) /\ t = Flushed(s, w)
  OBVIOUS
<1> HIDE DEF N, t
<1>3. Core(taken, s, w, gpu) /\ Counted(s.reqs, gpu, closed)
  BY DEF Inv
<1>4. /\ Core(taken, t, Updated(w, Started(N)), gpu)
      /\ t.jobs = Updated(s.jobs, N) /\ \A i \in DOMAIN N : N[i].promo
      /\ t.queued = {} /\ t.reqs = s.reqs
  BY <1>2, <1>3, EndOfScheduleKeeps
<1>5. Inv(taken, t, Updated(w, Started(N)), gpu, closed)
  BY <1>3, <1>4 DEF Inv
<1>6. \A i \in DOMAIN t.jobs : i \notin DOMAIN m.jobs =>
         t.jobs[i].promo \/ t.jobs[i].req \notin closed
  <2>1. \A i \in DOMAIN t.jobs :
           /\ i \in DOMAIN N \/ i \in DOMAIN s.jobs
           /\ t.jobs[i] = IF i \in DOMAIN N THEN N[i] ELSE s.jobs[i]
    BY <1>4 DEF Updated
  <2> QED BY <1>4, <2>1
<1> QED BY <1>1, <1>4, <1>5, <1>6 DEF Books, Steady

LEMMA OnScheduleEndStep ==
  ASSUME Books, taken' = taken, OnScheduleEnd
  PROVE  Books' /\ Steady
<1>1. PICK s \in Polled, w \in {WorkPolled} : EndOfSchedule(s, w)
  BY DEF OnScheduleEnd
<1>2. Inv(taken, s, w, gpu, closed) /\ SettlesStep(taken, m, s)
  BY <1>1, PolledKeeps
<1>3. \A i \in DOMAIN s.jobs : i \in DOMAIN m.jobs
  BY <1>2 DEF SettlesStep
<1> QED BY <1>1, <1>2, <1>3, EndOfScheduleStep

LEMMA OnScheduleEndServingStep ==
  ASSUME Books, taken' = taken, NEW t \in Remote, NEW K \in Batch, OnScheduleEndServing(t, K)
  PROVE  Books' /\ Steady
<1>1. PICK s \in Polled, w \in {WorkPolled} :
         /\ K \subseteq Ready(s.primary)
         /\ HasIds(s, w, gpu, 1)
         /\ \E jobs \in {StoreJobs(s, w, gpu, K, NoRequest, {t})} :
               EndOfSchedule(Cascade(s, jobs, K, {t}), Updated(w, Started(jobs)))
  BY DEF OnScheduleEndServing
<1> DEFINE N == StoreJobs(s, w, gpu, K, NoRequest, {t})
           c == Cascade(s, N, K, {t})
           T == {t}
<1>2. EndOfSchedule(c, Updated(w, Started(N)))
  BY <1>1
<1>3. N = StoreJobs(s, w, gpu, K, NoRequest, T) /\ c = Cascade(s, N, K, T)
  OBVIOUS
<1>4. T \in SUBSET Tier /\ 1 = 0 + Cardinality(T) /\ 0 \in Nat
  <2>1. Cardinality({t}) = 1
    BY FS_Singleton
  <2> QED BY <2>1, TieringAssumption
<1> HIDE DEF N, c, T
<1>5. Inv(taken, s, w, gpu, closed) /\ SettlesStep(taken, m, s)
  BY <1>1, PolledKeeps
<1>6. HasIds(s, w, gpu, 0 + Cardinality(T)) /\ K \in SUBSET Ready(s.primary)
  BY <1>1, <1>4
<1>7. NoRequest \in Request \cup {NoRequest}
  OBVIOUS
<1>8. /\ Inv(taken, c, Updated(w, Started(N)), gpu, closed)
      /\ \A i \in DOMAIN c.jobs : i \notin DOMAIN s.jobs => c.jobs[i].req = NoRequest
  BY <1>3, <1>4, <1>5, <1>6, <1>7, CascadeStep
<1>9. NoRequest \notin closed
  BY <1>5, InvParts, TieringAssumption
<1>10. \A i \in DOMAIN c.jobs : i \notin DOMAIN m.jobs => c.jobs[i].req \notin closed
  <2>1. \A i \in DOMAIN s.jobs : i \in DOMAIN m.jobs
    BY <1>5 DEF SettlesStep
  <2> QED BY <1>8, <1>9, <2>1
<1> QED BY <1>2, <1>8, <1>10, EndOfScheduleStep

\* An id that nobody uses is forgotten (drain_flush_job_ids).
LEMMA ForgetDrainedStep ==
  ASSUME Books, taken' = taken, NEW i \in Id, ForgetDrained(i)
  PROVE  Books' /\ Steady
<1> DEFINE D == m.drained \ {i}
<1>1. /\ Core(taken, m, work, gpu) /\ Counted(m.reqs, gpu, closed) /\ IsMgr(m)
      /\ Ids(m.jobs, work, m.retracted, m.drained, gpu)
      /\ \A q \in m.queued : IsPromise(q)
      /\ Room(m.queued, m.jobs, work, m.retracted, m.drained, gpu, 0)
  BY InvParts DEF Books, Core
<1>2. /\ i \notin DOMAIN work /\ m' = [m EXCEPT !.drained = D]
      /\ work' = work /\ gpu' = gpu /\ closed' = closed
  BY DEF ForgetDrained
<1>3. Ids(m.jobs, work, m.retracted, D, gpu)
  BY <1>1, <1>2 DEF Ids
<1>4. Room(m.queued, m.jobs, work, m.retracted, D, gpu, 0)
  <2>1. Known(m.jobs, work, m.retracted, D, gpu)
           \subseteq Known(m.jobs, work, m.retracted, m.drained, gpu)
    BY DEF Known
  <2>2. IsFiniteSet(BatchesOf(m.queued))
    BY <1>1, BatchesAreFinite
  <2> HIDE DEF D
  <2> QED BY <1>1, <2>1, <2>2, RoomGrows DEF Room
<1> HIDE DEF D
<1>5. /\ m'.primary = m.primary /\ m'.jobs = m.jobs /\ m'.queued = m.queued
      /\ m'.failures = m.failures /\ m'.retracted = m.retracted /\ m'.drained = D
      /\ m'.stores = m.stores /\ m'.reqs = m.reqs /\ m'.polled = m.polled /\ IsMgr(m')
  BY <1>1, <1>2 DEF IsMgr
<1>6. Core(taken, m', work, gpu)
  BY <1>1, <1>3, <1>4, <1>5 DEF Core
<1> QED BY <1>1, <1>2, <1>5, <1>6 DEF Books, Inv, Steady

\* A tier ends a transfer.
LEMMA ReportStep ==
  ASSUME Books, taken' = taken, NEW i \in DOMAIN work, NEW ok \in SUBSET DOMAIN work[i].slots, Report(i, ok)
  PROVE  Books' /\ Steady
<1> DEFINE v == [work EXCEPT ![i].done = TRUE, ![i].ok = ok]
<1>1. /\ Core(taken, m, work, gpu) /\ Counted(m.reqs, gpu, closed)
      /\ Ids(m.jobs, work, m.retracted, m.drained, gpu)
      /\ Room(m.queued, m.jobs, work, m.retracted, m.drained, gpu, 0)
  BY InvParts DEF Books, Core
<1>2. work' = v /\ m' = m /\ gpu' = gpu /\ closed' = closed
  BY DEF Report
<1>3. IsFun(work) /\ \A j \in DOMAIN work : IsWork(work[j])
  BY <1>1 DEF Ids
<1>4. DOMAIN v = DOMAIN work /\ IsFun(v)
  BY <1>3 DEF IsFun
<1>5. ASSUME NEW j \in DOMAIN work
      PROVE  IsWork(v[j]) /\ v[j].slots = work[j].slots /\ v[j].promo = work[j].promo
  <2>1. work[j] = [slots |-> work[j].slots, promo |-> work[j].promo,
                   done |-> work[j].done, ok |-> work[j].ok]
    BY <1>3 DEF IsWork
  <2>2. CASE j # i
    <3>1. v[j] = work[j]
      BY <1>3, <2>2
    <3> QED BY <1>3, <3>1
  <2>3. CASE j = i
    <3>1. v[j] = [slots |-> work[j].slots, promo |-> work[j].promo, done |-> TRUE, ok |-> ok]
      BY <2>1, <2>3
    <3> HIDE DEF v
    <3>2. /\ v[j].slots = work[j].slots /\ v[j].promo = work[j].promo
          /\ v[j].done = TRUE /\ v[j].ok = ok
      BY <3>1
    <3> QED BY <1>3, <2>3, <3>1, <3>2 DEF IsWork
  <2> QED BY <2>2, <2>3
<1> HIDE DEF v
<1>6. Ids(m.jobs, v, m.retracted, m.drained, gpu)
  BY <1>1, <1>4, <1>5 DEF Ids
<1>7. Room(m.queued, m.jobs, v, m.retracted, m.drained, gpu, 0)
  BY <1>1, <1>4 DEF Room, Known
<1> QED BY <1>1, <1>2, <1>6, <1>7 DEF Books, Inv, Core, Steady

\* A tier loses a transfer.
LEMMA LoseStep ==
  ASSUME Books, taken' = taken, NEW i \in DOMAIN work, Lose(i)
  PROVE  Books' /\ Steady
<1> DEFINE v == Without(work, {i})
<1>1. /\ Core(taken, m, work, gpu) /\ Counted(m.reqs, gpu, closed)
      /\ Ids(m.jobs, work, m.retracted, m.drained, gpu)
      /\ \A q \in m.queued : IsPromise(q)
      /\ Room(m.queued, m.jobs, work, m.retracted, m.drained, gpu, 0)
  BY InvParts DEF Books, Core
<1>2. work' = v /\ m' = m /\ gpu' = gpu /\ closed' = closed
  BY DEF Lose
<1>3. IsFun(v) /\ DOMAIN v = DOMAIN work \ {i} /\ \A j \in DOMAIN v : v[j] = work[j]
  BY WithoutEffect
<1> HIDE DEF v
<1>4. Ids(m.jobs, v, m.retracted, m.drained, gpu)
  BY <1>1, <1>3 DEF Ids
<1>5. Room(m.queued, m.jobs, v, m.retracted, m.drained, gpu, 0)
  <2>1. Known(m.jobs, v, m.retracted, m.drained, gpu)
           \subseteq Known(m.jobs, work, m.retracted, m.drained, gpu)
    BY <1>3 DEF Known
  <2>2. IsFiniteSet(BatchesOf(m.queued))
    BY <1>1, BatchesAreFinite
  <2> QED BY <1>1, <2>1, <2>2, RoomGrows DEF Room
<1> QED BY <1>1, <1>2, <1>4, <1>5 DEF Books, Inv, Core, Steady

\* Time alone changes no owner, reader or place.
LEMMA AgedBlocks ==
  ASSUME NEW X, NEW p, NEW Q, NEW J, NEW S, NEW G, Blocks(X, p, Q, J, S, G),
         NEW H, IsFun(H), DOMAIN H = DOMAIN J,
         \A i \in DOMAIN J : IsJob(H[i]) /\ H[i].promo = J[i].promo /\ H[i].slots = J[i].slots,
         NEW Z, IsFun(Z), DOMAIN Z = DOMAIN S,
         \A k \in DOMAIN S : IsDeadline(Z[k]) /\ Z[k].batch = S[k].batch
  PROVE  Blocks(X, p, Q, H, Z, G)
<1>1. Shapes(p, Q, J, S, G) /\ Owned(X, p, Q, J, S, G) /\ Placed(X, p, Q, J, S, G) /\ Timed(S, G)
  BY DEF Blocks
<1>2. Shapes(p, Q, H, Z, G)
  BY <1>1 DEF Shapes
<1>3. \A g, k : Stands(Z, g, k) <=> Stands(S, g, k)
  BY DEF Stands
<1>4. \A k : /\ Fetching(H, k) = Fetching(J, k) /\ Copying(H, k) = Copying(J, k)
             /\ Saving(Z, G, k) = Saving(S, G, k)
  BY <1>3 DEF Fetching, Copying, Saving
<1>5. Owned(X, p, Q, H, Z, G)
  BY <1>1, <1>4 DEF Owned, Filling, Readable, Absent, Free
<1>6. Placed(X, p, Q, H, Z, G)
  BY <1>1, <1>3 DEF Placed, JobPlaced, TransferPlaced
<1>7. Timed(Z, G)
  BY <1>1, <1>3 DEF Timed
<1> QED BY <1>2, <1>5, <1>6, <1>7 DEF Blocks

\* An entry that grows older is otherwise the same.
LEMMA OlderJob ==
  ASSUME NEW j, IsJob(j), NEW ttl \in Nat
  PROVE  LET h == Older(j, ttl)
         IN  /\ IsJob(h) /\ h.promo = j.promo /\ h.slots = j.slots
             /\ h.tier = j.tier /\ h.req = j.req
<1>1. j = [promo |-> j.promo, tier |-> j.tier, slots |-> j.slots, req |-> j.req,
           age |-> j.age]
  BY DEF IsJob
<1>2. CASE j.age >= ttl
  BY <1>2 DEF Older
<1>3. CASE ~(j.age >= ttl)
  <2> DEFINE h == Older(j, ttl)
  <2>1. h = [j EXCEPT !.age = @ + 1]
    BY <1>3 DEF Older
  <2> HIDE DEF h
  <2>2. h = [promo |-> j.promo, tier |-> j.tier, slots |-> j.slots, req |-> j.req,
             age |-> j.age + 1]
    BY <1>1, <2>1
  <2>3. /\ h.promo = j.promo /\ h.slots = j.slots /\ h.tier = j.tier /\ h.req = j.req
        /\ h.age = j.age + 1
    BY <2>2
  <2>4. IsJob(h)
    <3>1. h = [promo |-> h.promo, tier |-> h.tier, slots |-> h.slots, req |-> h.req,
               age |-> h.age]
      BY <2>2, <2>3, Zenon
    <3>2. h.promo \in BOOLEAN
      BY <2>3, Zenon DEF IsJob
    <3>3. /\ h.tier \in Tier /\ IsSlots(h.slots)
          /\ h.req \in Request \cup {NoRequest} /\ h.age \in Nat
      BY <2>3 DEF IsJob
    <3> QED BY <3>1, <3>2, <3>3, Zenon DEF IsJob
  <2> QED BY <2>3, <2>4 DEF h
<1> QED BY <1>2, <1>3

LEMMA OlderDeadline ==
  ASSUME NEW d, IsDeadline(d), NEW ttl \in Nat
  PROVE  LET h == Older(d, ttl)
         IN  IsDeadline(h) /\ h.batch = d.batch
<1>1. d = [req |-> d.req, batch |-> d.batch, age |-> d.age] /\ d.age \in Nat
  BY DEF IsDeadline
<1>2. CASE d.age >= ttl
  BY <1>2 DEF Older
<1>3. CASE ~(d.age >= ttl)
  <2> DEFINE h == Older(d, ttl)
  <2>1. h = [d EXCEPT !.age = @ + 1]
    BY <1>3 DEF Older
  <2> HIDE DEF h
  <2>2. h = [req |-> d.req, batch |-> d.batch, age |-> d.age + 1]
    BY <1>1, <2>1
  <2>3. h.req = d.req /\ h.batch = d.batch /\ h.age = d.age + 1
    BY <2>2
  <2>4. IsDeadline(h)
    BY <1>1, <2>2, <2>3 DEF IsDeadline
  <2> QED BY <1>3, <2>3, <2>4 DEF h
<1> QED BY <1>2, <1>3

\* Time passes.
LEMMA TickStep ==
  ASSUME Books, taken' = taken, Tick
  PROVE  Books' /\ Steady
<1> DEFINE J == m.jobs
           S == m.stores
           H == [i \in DOMAIN J |-> IF J[i].promo THEN Older(J[i], PromotionTTL) ELSE J[i]]
           Z == [k \in DOMAIN S |-> Older(S[k], StoreTTL)]
           f == [k \in {x \in DOMAIN m.failures : m.failures[x] > 1} |-> m.failures[k] - 1]
<1>1. /\ Core(taken, m, work, gpu) /\ Counted(m.reqs, gpu, closed) /\ IsMgr(m)
      /\ Blocks(taken, m.primary, m.queued, J, S, gpu)
      /\ Ids(J, work, m.retracted, m.drained, gpu)
      /\ m.polled \in BOOLEAN
      /\ Room(m.queued, J, work, m.retracted, m.drained, gpu, 0)
  BY InvParts DEF Books, Core
<1>2. m' = [m EXCEPT !.jobs = H, !.stores = Z, !.failures = f]
  BY DEF Tick
<1>3. work' = work /\ gpu' = gpu /\ closed' = closed
  BY DEF Tick
<1>4. IsFun(H) /\ IsFun(Z) /\ IsFun(f) /\ DOMAIN H = DOMAIN J /\ DOMAIN Z = DOMAIN S
  BY DEF IsFun
<1>5. /\ \A i \in DOMAIN J : IsJob(J[i])
      /\ \A k \in DOMAIN S : IsDeadline(S[k])
  BY <1>1 DEF Blocks, Shapes
<1>6. PromotionTTL \in Nat /\ StoreTTL \in Nat
  BY TieringAssumption
<1>7. ASSUME NEW i \in DOMAIN J
      PROVE  IsJob(H[i]) /\ H[i].promo = J[i].promo /\ H[i].slots = J[i].slots
  <2>1. IsJob(J[i])
    BY <1>5
  <2>2. CASE J[i].promo
    <3>1. H[i] = Older(J[i], PromotionTTL)
      BY <2>2
    <3> HIDE DEF H, J
    <3> QED BY <1>6, <2>1, <3>1, OlderJob
  <2>3. CASE ~J[i].promo
    BY <2>1, <2>3
  <2> QED BY <2>2, <2>3
<1>8. ASSUME NEW k \in DOMAIN S
      PROVE  IsDeadline(Z[k]) /\ Z[k].batch = S[k].batch
  <2>1. IsDeadline(S[k]) /\ Z[k] = Older(S[k], StoreTTL)
    BY <1>5
  <2> HIDE DEF Z, S
  <2> QED BY <1>6, <2>1, OlderDeadline
<1> HIDE DEF H, Z, f
<1>9. /\ m'.primary = m.primary /\ m'.jobs = H /\ m'.queued = m.queued
      /\ m'.failures = f /\ m'.retracted = m.retracted /\ m'.drained = m.drained
      /\ m'.stores = Z /\ m'.reqs = m.reqs /\ m'.polled = m.polled /\ IsMgr(m')
  BY <1>1, <1>2 DEF IsMgr
<1> HIDE DEF J, S
<1>10. Blocks(taken, m.primary, m.queued, H, Z, gpu)
  BY <1>1, <1>4, <1>7, <1>8, AgedBlocks
<1>11. Ids(H, work, m.retracted, m.drained, gpu)
  BY <1>1, <1>4, <1>7 DEF Ids
<1>12. Room(m.queued, H, work, m.retracted, m.drained, gpu, 0)
  BY <1>1, <1>4 DEF Room, Known
<1>13. Core(taken, m', work, gpu)
  BY <1>1, <1>4, <1>9, <1>10, <1>11, <1>12 DEF Core
<1>14. Steady
  BY <1>3, <1>4, <1>9 DEF Steady, J
<1> QED BY <1>1, <1>3, <1>9, <1>13, <1>14 DEF Books, Inv

\* When every job has been reported, polling leaves none (drain_jobs).
LEMMA NoJobsLeft ==
  ASSUME NEW C, Inv(taken, m, work, gpu, C), DOMAIN m.jobs \subseteq Reported, NEW t \in Process(m)
  PROVE  DOMAIN t.jobs = {}
<1>1. PICK at \in Orders(KnownReports(m)) :
         t = ExpireStores(ExpirePromotions(ConsumeReports(m, at)))
  BY DEF Process
<1> DEFINE s1 == ConsumeReports(m, at)
           s2 == ExpirePromotions(s1)
           w == Without(work, Reported)
           K == KnownReports(m)
<1>2. IsMgr(m) /\ DOMAIN m.jobs \cap (m.retracted \cup m.drained) = {}
  BY InvParts DEF Ids
<1>3. s1.jobs = Without(m.jobs, K)
  <2>1. \E p, f, R, D :
           s1 = [m EXCEPT !.primary = p, !.jobs = Without(@, K), !.failures = f,
                          !.retracted = R, !.drained = D]
    BY DEF ConsumeReports
  <2>2. PICK p, f, R, D :
           s1 = [m EXCEPT !.primary = p, !.jobs = Without(@, K), !.failures = f,
                          !.retracted = R, !.drained = D]
    BY <2>1
  <2> HIDE DEF s1, K
  <2> QED BY <1>2, <2>2 DEF IsMgr
<1>4. \A i \in DOMAIN m.jobs : i \in K
  BY <1>2 DEF KnownReports, LateReports
<1> HIDE DEF s1, s2, w, K
<1>5. DOMAIN s1.jobs = {}
  <2>1. DOMAIN s1.jobs = DOMAIN m.jobs \ K
    BY <1>3 DEF Without, Restrict
  <2> QED BY <1>4, <2>1
<1>6. Inv(taken, s1, w, gpu, C)
  BY ConsumeKeeps DEF s1, w
<1>7. Inv(taken, s2, w, gpu, C) /\ Settles(taken, s1, s2)
  BY <1>6, ExpirePromotionsKeeps DEF s2
<1>8. Settles(taken, s2, t)
  BY <1>1, <1>7, ExpireStoresKeeps DEF s1, s2
<1> QED BY <1>5, <1>7, <1>8 DEF Settles

\* Everything is empty but what is remembered of ids and failures.
LEMMA EmptyState ==
  ASSUME NEW X, NEW s, NEW w, NEW G, Core(X, s, w, G), DOMAIN s.jobs = {},
         NEW t, IsMgr(t), t.primary = Empty, t.jobs = s.jobs, t.queued = {},
         t.failures = s.failures, t.retracted = s.retracted, t.drained = s.drained,
         t.stores = Empty, t.polled \in BOOLEAN, NEW Y
  PROVE  Core(Y, t, Empty, {})
<1>1. /\ IsFun(s.failures) /\ IsFun(s.jobs) /\ Ids(s.jobs, w, s.retracted, s.drained, G)
  BY DEF Core, Blocks, Shapes
<1>2. DOMAIN Empty = {} /\ IsFun(Empty)
  BY DEF Empty, IsFun
<1>3. IsTable(Empty) /\ Ready(Empty) = {} /\ Pending(Empty) = {}
  BY <1>2 DEF IsTable, IsFun, Ready, Pending
<1>4. IsFiniteSet({})
  BY FS_EmptySet
<1>5. Shapes(Empty, {}, s.jobs, Empty, {})
  BY <1>1, <1>2, <1>3, <1>4 DEF Shapes
<1>6. Owned(Y, Empty, {}, s.jobs, Empty, {})
  <2>1. \A k : /\ QueuedFor({}, k) = {} /\ Fetching(s.jobs, k) = {}
               /\ Saving(Empty, {}, k) = {} /\ Copying(s.jobs, k) = {} /\ Reading({}, k) = {}
    BY DEF QueuedFor, Fetching, Saving, Copying, Reading
  <2> QED BY <1>2, <1>3, <2>1 DEF Owned, Absent, Free, NoneOf
<1>7. Placed(Y, Empty, {}, s.jobs, Empty, {}) /\ Timed(Empty, {})
  BY <1>1, <1>2 DEF Placed, Timed
<1>8. Blocks(Y, Empty, {}, s.jobs, Empty, {})
  BY <1>5, <1>6, <1>7 DEF Blocks
<1>9. Ids(s.jobs, Empty, s.retracted, s.drained, {})
  BY <1>1, <1>2 DEF Ids
<1>10. Room({}, s.jobs, Empty, s.retracted, s.drained, {}, 0)
  <2> DEFINE A == Known(s.jobs, Empty, s.retracted, s.drained, {})
  <2>1. BatchesOf({}) = {}
    BY DEF BatchesOf
  <2>2. IsFiniteSet(Id \ A)
    BY IdsAreFinite, FS_Subset
  <2>3. Cardinality(BatchesOf({})) = 0
    BY <2>1, FS_EmptySet
  <2> QED BY <2>2, <2>3, FS_CardinalityType DEF Room
<1> QED BY <1>1, <1>8, <1>9, <1>10 DEF Core

\* The cache is reset: finished requests are told to the tiers, the others
\* begin anew.
LEMMA ResetStep ==
  ASSUME Books, Reset
  PROVE  Books' /\ Steady
<1>1. /\ DOMAIN m.jobs \subseteq Reported /\ Reported = DOMAIN work
      /\ work' = Empty /\ gpu' = {}
  BY DEF Reset
<1>2. PICK s \in Process(m) :
         LET ended == {r \in DOMAIN s.reqs : s.reqs[r].finished}
         IN  /\ m' = [s EXCEPT
                        !.primary = Empty, !.queued = {}, !.stores = Empty,
                        !.polled = FALSE,
                        !.reqs = [r \in DOMAIN @ \ ended |->
                                     [stores |-> 0, finished |-> FALSE]]]
             /\ closed' = closed \cup ended
  BY DEF Reset
<1> DEFINE ended == {r \in DOMAIN s.reqs : s.reqs[r].finished}
           Y == [r \in DOMAIN s.reqs \ ended |-> [stores |-> 0, finished |-> FALSE]]
           C == closed \cup ended
           w == Without(work, Reported)
<1>3. /\ m' = [s EXCEPT !.primary = Empty, !.queued = {}, !.stores = Empty,
                        !.polled = FALSE, !.reqs = Y]
      /\ closed' = C
  BY <1>2
<1>4. /\ DOMAIN Y = DOMAIN s.reqs \ ended /\ IsFun(Y)
      /\ \A r \in DOMAIN Y : Y[r] = [stores |-> 0, finished |-> FALSE]
      /\ \A r \in ended : r \in DOMAIN s.reqs
  BY DEF IsFun
<1> HIDE DEF Y, w, ended
<1>5. Inv(taken, s, w, gpu, closed)
  BY ProcessKeeps DEF w, Books
<1>6. /\ Core(taken, s, w, gpu) /\ IsMgr(s)
      /\ DOMAIN s.reqs \in SUBSET Request /\ closed \in SUBSET Request
      /\ closed \cap DOMAIN s.reqs = {}
  BY <1>5, InvParts
<1>7. DOMAIN s.jobs = {}
  BY <1>1, NoJobsLeft DEF Books
<1>8. /\ m'.primary = Empty /\ m'.jobs = s.jobs /\ m'.queued = {}
      /\ m'.failures = s.failures /\ m'.retracted = s.retracted /\ m'.drained = s.drained
      /\ m'.stores = Empty /\ m'.reqs = Y /\ m'.polled = FALSE /\ IsMgr(m')
  BY <1>3, <1>6 DEF IsMgr
<1>9. Core(taken', m', Empty, {})
  <2>1. m'.polled \in BOOLEAN
    BY <1>8
  <2> QED BY <1>6, <1>7, <1>8, <2>1, EmptyState
<1>10. Counted(Y, {}, C)
  <2>1. ASSUME NEW r \in DOMAIN Y PROVE IsRequest(Y[r]) /\ Y[r].stores = 0
    <3>1. Y[r] = [stores |-> 0, finished |-> FALSE]
      BY <1>4
    <3>2. Y[r].stores = 0 /\ Y[r].finished = FALSE
      BY <3>1
    <3>3. Y[r].finished \in BOOLEAN /\ Y[r] = [stores |-> Y[r].stores, finished |-> Y[r].finished]
      BY <3>1, <3>2, Zenon
    <3> QED BY <3>2, <3>3 DEF IsRequest
  <2>2. \A r : Cardinality(StoresFor({}, r)) = 0
    <3>1. \A r : StoresFor({}, r) = {}
      BY DEF StoresFor
    <3> QED BY <3>1, FS_EmptySet
  <2>3. C \in SUBSET Request /\ C \cap DOMAIN Y = {} /\ DOMAIN Y \in SUBSET Request
    BY <1>4, <1>6
  <2> QED BY <1>4, <2>1, <2>2, <2>3 DEF Counted
<1>11. Books'
  BY <1>1, <1>3, <1>8, <1>9, <1>10 DEF Books, Inv
<1>12. Steady
  BY <1>3, <1>7, <1>8 DEF Steady
<1> QED BY <1>11, <1>12

-----------------------------------------------------------------------------
(***************************************************************************)
(* The invariant of the manager.                                           *)
(***************************************************************************)
\* At first some blocks are idle in the primary tier and nothing is under way.
LEMMA InitIInv ==
  ASSUME Init
  PROVE  IInv
<1>1. PICK at \in Injection(Idle, {i \in Slot : i < num_blocks}) :
         m = [MgrInit EXCEPT !.primary = [k \in Idle |-> [ref |-> 0, slot |-> at[k]]]]
  BY DEF Init
<1> DEFINE p == [k \in Idle |-> [ref |-> 0, slot |-> at[k]]]
<1>2. /\ m.primary = p /\ m.jobs = Empty /\ m.queued = {} /\ m.failures = Empty
      /\ m.retracted = {} /\ m.drained = {} /\ m.stores = Empty /\ m.reqs = Empty
      /\ m.polled = FALSE /\ IsMgr(m)
  BY <1>1 DEF MgrInit, IsMgr
<1>3. work = Empty /\ gpu = {} /\ closed = {}
  BY DEF Init
<1>4. DOMAIN Empty = {} /\ IsFun(Empty)
  BY DEF Empty, IsFun
<1>5. at \in [Idle -> Slot] /\ \A k, l \in Idle : at[k] = at[l] => k = l
  BY <1>1 DEF Injection, IsInjective
<1>6. /\ DOMAIN p = Idle /\ \A k \in Idle : p[k].ref = 0 /\ p[k].slot = at[k]
      /\ p \in [Idle -> Block]
  BY <1>5 DEF Block
<1> HIDE DEF p
<1>7. IsTable(p)
  BY <1>6, TieringAssumption DEF IsTable
<1>8. Pending(p) = {}
  <2>1. \A k : k \notin Pending(p)
    BY <1>6, <1>7, TableParts
  <2> QED BY <2>1
<1>9. IsFiniteSet({}) /\ Cardinality({}) = 0
  BY FS_EmptySet
<1>10. \A k : /\ QueuedFor({}, k) = {} /\ Fetching(Empty, k) = {} /\ Copying(Empty, k) = {}
              /\ Saving(Empty, {}, k) = {} /\ Reading({}, k) = {}
  BY <1>4 DEF QueuedFor, Fetching, Copying, Saving, Reading
<1>11. Shapes(p, {}, Empty, Empty, {})
  BY <1>4, <1>7, <1>9 DEF Shapes
<1>12. Owned(taken, p, {}, Empty, Empty, {})
  <2>1. \A k \in Ready(p) : p[k].ref = 0
    BY <1>6 DEF Ready
  <2>2. \A k : Free(taken, {}, Empty, Empty, {}, k) /\ Absent(taken, {}, Empty, Empty, {}, k)
    BY <1>10 DEF Absent, Free, NoneOf
  <2>3. \A k : Cardinality(Copying(Empty, k)) + Cardinality(Reading({}, k)) = 0
    BY <1>9, <1>10
  <2>4. \A k \in Ready(p) : Readable(taken, p, {}, Empty, Empty, {}, k)
    BY <2>1, <2>2, <2>3 DEF Readable
  <2> QED BY <1>8, <2>2, <2>4 DEF Owned
<1>13. Placed(taken, p, {}, Empty, Empty, {}) /\ Timed(Empty, {})
  BY <1>4, <1>5, <1>6 DEF Placed, Timed
<1>14. Ids(Empty, Empty, {}, {}, {})
  BY <1>4 DEF Ids
<1>15. Room({}, Empty, Empty, {}, {}, {}, 0)
  <2>1. BatchesOf({}) = {}
    BY DEF BatchesOf
  <2>2. IsFiniteSet(Id \ Known(Empty, Empty, {}, {}, {}))
    BY IdsAreFinite, FS_Subset
  <2>3. Cardinality(BatchesOf({})) = 0
    BY <1>9, <2>1
  <2> QED BY <2>2, <2>3, FS_CardinalityType DEF Room
<1>16. Counted(Empty, {}, {})
  <2>1. \A r : StoresFor({}, r) = {}
    BY DEF StoresFor
  <2> QED BY <1>4, <1>9, <2>1 DEF Counted
<1>17. m.polled \in BOOLEAN
  BY <1>2
<1>18. Books
  BY <1>2, <1>3, <1>4, <1>11, <1>12, <1>13, <1>14, <1>15, <1>16, <1>17
     DEF Books, Inv, Core, Blocks
<1>19. Excused(taken, m, gpu, crashed)
  BY DEF Init, Excused
<1> QED BY <1>18, <1>19 DEF IInv

\* While nothing crashes, only a late store takes a block, and without a time
\* to live there is none.
LEMMA NothingCrashes ==
  ASSUME IInv, crashed' = FALSE,
         \A k \in taken' : k \in taken \/ \E g \in gpu : ~Holds(m, g, k)
  PROVE  Excused(taken', m', gpu', crashed')
<1>1. StoreTTL = 0 => taken = {}
  BY DEF IInv, Excused
<1>2. StoreTTL = 0 => \A g, k : Holds(m, g, k)
  BY DEF Holds
<1>3. StoreTTL = 0 => taken' = {}
  BY <1>1, <1>2
<1> QED BY <1>3 DEF Excused

\* A block that a store is to cascade is only missing if it was taken, or if
\* its reservation expired.
LEMMA CompleteStoreAssertsStep ==
  ASSUME IInv, NEW g \in gpu, CompleteStoreAsserts(g)
  PROVE  IInv' /\ Steady
<1>1. /\ g.kind = "store" /\ ~(DOMAIN g.slots \subseteq DOMAIN m.primary) /\ crashed' = TRUE
      /\ m' = m /\ work' = work /\ gpu' = gpu /\ closed' = closed /\ taken' = taken
  BY DEF CompleteStoreAsserts
<1>2. PICK k \in DOMAIN g.slots : k \notin DOMAIN m.primary
  BY <1>1
<1>3. TransferPlaced(taken, m.primary, m.stores, g, k)
  BY InvParts DEF IInv, Books, Blocks, Placed
<1>4. k \in taken \/ ~Stands(m.stores, g, k)
  BY <1>2, <1>3 DEF TransferPlaced, At
<1>5. StoreTTL = 0 => taken = {}
  BY DEF IInv, Excused
<1>6. StoreTTL # 0
  BY <1>4, <1>5 DEF Stands
<1>7. Excused(taken', m', gpu', crashed')
  BY <1>1, <1>2, <1>4, <1>6 DEF Excused
<1>8. Books'
  BY <1>1 DEF IInv, Books
<1> QED BY <1>1, <1>7, <1>8 DEF IInv, Steady

\* What a lookup that promotes may do, as opposed to the other steps: put a
\* key in the queue, one that did not fail.
Promotes ==
    /\ closed' = closed /\ \A i \in DOMAIN m'.jobs : i \in DOMAIN m.jobs
    /\ \A q \in m'.queued : (q \notin m.queued /\ q.key \notin taken) =>
          /\ q.key \notin DOMAIN m.failures
          /\ FailTTL > 0 => \A i \in DOMAIN m.jobs :
               (i \notin DOMAIN m'.jobs /\ m.jobs[i].promo)
                  => q.key \notin DOMAIN m.jobs[i].slots

\* Every step keeps the invariant.
LEMMA NextStep ==
  ASSUME IInv, [Next]_vars
  PROVE  IInv' /\ (Steady \/ Promotes)
<1> USE DEF IInv
<1> DEFINE Same == crashed' = crashed /\ taken' = taken
<1>1. ASSUME ~crashed, Books', Same PROVE IInv'
  <2>1. crashed' = FALSE
    BY <1>1 DEF Excused
  <2> QED BY <1>1, <2>1, NothingCrashes
<1>2. ASSUME ~crashed, NEW r \in Request, OnNewRequest(r)
      PROVE  IInv' /\ (Steady \/ Promotes)
  <2>1. Same
    BY <1>2 DEF OnNewRequest, fate
  <2>2. Books' /\ Steady
    BY <1>2, <2>1, NewRequestStep
  <2> QED BY <1>1, <1>2, <2>1, <2>2
<1>3. ASSUME ~crashed, NEW r \in Request, OnRequestFinished(r)
      PROVE  IInv' /\ (Steady \/ Promotes)
  <2>1. Same
    BY <1>3 DEF OnRequestFinished, fate
  <2>2. Books' /\ Steady
    BY <1>3, <2>1, FinishedStep
  <2> QED BY <1>1, <1>3, <2>1, <2>2
<1>4. ASSUME ~crashed, NEW r \in Request, NEW t \in Tier, NEW k \in Key \ Idle, LookupPromotes(r, t, k)
      PROVE  IInv' /\ (Steady \/ Promotes)
  <2>1. Same
    BY <1>4 DEF LookupPromotes, fate
  <2>2. Books' /\ Promotes
    BY <1>4, <2>1, LookupPromotesStep DEF Promotes
  <2> QED BY <1>1, <1>4, <2>1, <2>2
<1>5. ASSUME ~crashed, NEW r \in Request, NEW K \in Batch, PrepareLoad(r, K)
      PROVE  IInv' /\ (Steady \/ Promotes)
  <2>1. Same
    BY <1>5 DEF PrepareLoad, fate
  <2>2. Books' /\ Steady
    BY <1>5, <2>1, PrepareLoadStep
  <2> QED BY <1>1, <1>5, <2>1, <2>2
<1>6. ASSUME ~crashed, NEW r \in Request, NEW K \in Batch, PrepareStore(r, K)
      PROVE  IInv' /\ (Steady \/ Promotes)
  <2>1. Same
    BY <1>6 DEF PrepareStore, fate
  <2>2. Books' /\ Steady
    BY <1>6, <2>1, PrepareStoreStep
  <2> QED BY <1>1, <1>6, <2>1, <2>2
<1>7. ASSUME ~crashed, NEW g \in gpu, CompleteLoad(g)
      PROVE  IInv' /\ (Steady \/ Promotes)
  <2>1. Same
    BY <1>7 DEF CompleteLoad, fate
  <2>2. Books' /\ Steady
    BY <1>7, <2>1, CompleteLoadStep
  <2> QED BY <1>1, <1>7, <2>1, <2>2
<1>8. ASSUME ~crashed, NEW g \in gpu, CompleteStore(g)
      PROVE  IInv' /\ (Steady \/ Promotes)
  <2>1. crashed' = FALSE /\ \A k \in taken' : k \in taken \/ ~Holds(m, g, k)
    BY <1>8 DEF CompleteStore, Excused
  <2>2. Books' /\ Steady
    BY <1>8, CompleteStoreStep
  <2> QED BY <2>1, <2>2, NothingCrashes
<1>9. ASSUME ~crashed, NEW g \in gpu, CompleteStoreAsserts(g)
      PROVE  IInv' /\ (Steady \/ Promotes)
  BY <1>9, CompleteStoreAssertsStep
<1>10. ASSUME ~crashed, LookupAnswers
       PROVE  IInv' /\ (Steady \/ Promotes)
  <2>1. Same
    BY <1>10 DEF LookupAnswers, fate
  <2>2. Books' /\ Steady
    BY <1>10, <2>1, LookupAnswersStep
  <2> QED BY <1>1, <1>10, <2>1, <2>2
<1>11. ASSUME ~crashed, OnScheduleEnd
       PROVE  IInv' /\ (Steady \/ Promotes)
  <2>1. Same
    BY <1>11 DEF OnScheduleEnd, EndOfSchedule, fate
  <2>2. Books' /\ Steady
    BY <1>11, <2>1, OnScheduleEndStep
  <2> QED BY <1>1, <1>11, <2>1, <2>2
<1>12. ASSUME ~crashed, NEW t \in Remote, NEW K \in Batch, OnScheduleEndServing(t, K)
       PROVE  IInv' /\ (Steady \/ Promotes)
  <2>1. Same
    BY <1>12 DEF OnScheduleEndServing, EndOfSchedule, fate
  <2>2. Books' /\ Steady
    BY <1>12, <2>1, OnScheduleEndServingStep
  <2> QED BY <1>1, <1>12, <2>1, <2>2
<1>13. ASSUME ~crashed, NEW i \in Id, ForgetDrained(i)
       PROVE  IInv' /\ (Steady \/ Promotes)
  <2>1. Same
    BY <1>13 DEF ForgetDrained, fate
  <2>2. Books' /\ Steady
    BY <1>13, <2>1, ForgetDrainedStep
  <2> QED BY <1>1, <1>13, <2>1, <2>2
<1>14. ASSUME ~crashed, NEW i \in DOMAIN work, Lose(i)
       PROVE  IInv' /\ (Steady \/ Promotes)
  <2>1. Same
    BY <1>14 DEF Lose, fate
  <2>2. Books' /\ Steady
    BY <1>14, <2>1, LoseStep
  <2> QED BY <1>1, <1>14, <2>1, <2>2
<1>15. ASSUME ~crashed, NEW i \in DOMAIN work, NEW ok \in SUBSET DOMAIN work[i].slots, Report(i, ok)
       PROVE  IInv' /\ (Steady \/ Promotes)
  <2>1. Same
    BY <1>15 DEF Report, fate
  <2>2. Books' /\ Steady
    BY <1>15, <2>1, ReportStep
  <2> QED BY <1>1, <1>15, <2>1, <2>2
<1>16. ASSUME ~crashed, Reset
       PROVE  IInv' /\ (Steady \/ Promotes)
  <2>1. crashed' = FALSE /\ taken' = {}
    BY <1>16 DEF Reset, Excused
  <2>2. Books' /\ Steady
    BY <1>16, ResetStep
  <2> QED BY <2>1, <2>2, NothingCrashes
<1>17. ASSUME ~crashed, Tick
       PROVE  IInv' /\ (Steady \/ Promotes)
  <2>1. Same
    BY <1>17 DEF Tick, fate
  <2>2. Books' /\ Steady
    BY <1>17, <2>1, TickStep
  <2> QED BY <1>1, <1>17, <2>1, <2>2
<1>18. CASE UNCHANGED vars
  BY <1>18 DEF vars, Books, Steady
<1> QED BY <1>2, <1>3, <1>4, <1>5, <1>6, <1>7, <1>8, <1>9, <1>10, <1>11, <1>12, <1>13, <1>14, <1>15, <1>16, <1>17, <1>18
        DEF Next, Step, Down

\* Everything the proofs below rest on: who owns a reservation, what the pins
\* count, where the data is, which deadline belongs to which store, which ids
\* are free, and how many stores a request waits for.
THEOREM TieringInvariant == Spec => []IInv
<1>1. IInv /\ [Next]_vars => IInv'
  BY NextStep
<1>2. Init => IInv
  BY InitIInv
<1> QED BY <1>1, <1>2, PTL DEF Spec

-----------------------------------------------------------------------------
(***************************************************************************)
(* The properties.                                                         *)
(***************************************************************************)
\* The primary tier keeps the size it was made with.
LEMMA SizeIsFixed == Spec => [](num_blocks \in 1 .. NumSlots)
<1>1. Init => num_blocks \in 1 .. NumSlots
  BY DEF Init
<1>2. [Next]_vars => UNCHANGED num_blocks
  BY DEF Next, Step, Down, vars, fate, OnNewRequest, OnRequestFinished, LookupPromotes,
         PrepareLoad, PrepareStore, CompleteLoad, CompleteStore, CompleteStoreAsserts,
         LookupAnswers, OnScheduleEnd, OnScheduleEndServing, EndOfSchedule,
         ForgetDrained, Lose, Report, Reset, Tick
<1>3. num_blocks \in 1 .. NumSlots /\ [Next]_vars => (num_blocks \in 1 .. NumSlots)'
  BY <1>2
<1> QED BY <1>1, <1>3, PTL DEF Spec

\* StateOK: sizes, keys, slots, ids, tiers and requests are what they should be.
THEOREM TieringStateOK == Spec => []StateOK
<1>1. ASSUME IInv, num_blocks \in 1 .. NumSlots PROVE StateOK
  <2>1. /\ Blocks(taken, m.primary, m.queued, m.jobs, m.stores, gpu)
        /\ Ids(m.jobs, work, m.retracted, m.drained, gpu)
        /\ Counted(m.reqs, gpu, closed)
    BY <1>1, InvParts DEF IInv, Books
  <2>2. Shapes(m.primary, m.queued, m.jobs, m.stores, gpu)
    BY <2>1 DEF Blocks
  <2>3. /\ \A k \in DOMAIN m.primary : k \in Key /\ m.primary[k] \in Block
        /\ DOMAIN m.jobs \in SUBSET Id /\ \A i \in DOMAIN m.jobs : IsJob(m.jobs[i])
        /\ \A g \in gpu : IsTransfer(g)
    BY <2>2, TableParts DEF Shapes
  <2>4. \A k \in DOMAIN m.primary :
           k \in Key /\ m.primary[k].ref \in Nat \cup {-1} /\ m.primary[k].slot \in Slot
    BY <2>3 DEF Block
  <2>5. DOMAIN m.jobs \cup DOMAIN work \cup m.retracted \cup m.drained \subseteq Id
    BY <2>1, <2>3 DEF Ids
  <2>6. \A i \in DOMAIN m.jobs :
           m.jobs[i].tier \in Tier /\ m.jobs[i].req \in Request \cup {NoRequest}
    BY <2>3 DEF IsJob
  <2>7. \A r \in DOMAIN m.reqs : r \in Request /\ m.reqs[r].stores \in Nat
    BY <2>1 DEF Counted, IsRequest
  <2>8. \A g \in gpu : DOMAIN g.slots # {} /\ g.req \in Request
    BY <2>3 DEF IsTransfer
  <2> QED BY <1>1, <2>4, <2>5, <2>6, <2>7, <2>8 DEF StateOK
<1> QED BY <1>1, TieringInvariant, SizeIsFixed, PTL

\* ReservationsOwned: the pins of a block are the reads in flight, and a block
\* that is being filled has exactly one owner that will fill or drop it and the
\* others have none, unless a late store took the block: through promotions,
\* cascades, expiries, evictions and a reset.
THEOREM ReservationsHaveOneOwner == Spec => []ReservationsOwned
<1>1. ASSUME IInv PROVE ReservationsOwned
  <2>1. /\ Owned(taken, m.primary, m.queued, m.jobs, m.stores, gpu) /\ IsTable(m.primary)
    BY <1>1, InvParts DEF IInv, Books, Blocks
  <2>2. ASSUME NEW k \in Key
        PROVE  LET owners == Cardinality(Queued(k)) + Cardinality(Promoting(k))
                               + Cardinality(Storing(k))
                   readers == Cardinality(Cascading(k)) + Cardinality(Loading(k))
               IN  /\ readers = IF k \in Ready(m.primary) THEN m.primary[k].ref ELSE 0
                   /\ k \notin taken => owners = IF k \in Pending(m.primary) THEN 1 ELSE 0
    <3> DEFINE A == QueuedFor(m.queued, k)
               B == Fetching(m.jobs, k)
               C == Saving(m.stores, gpu, k)
               D == Copying(m.jobs, k)
               E == Reading(gpu, k)
    <3>1. /\ Queued(k) = A /\ Promoting(k) = B /\ Cascading(k) = D
          /\ Storing(k) = C /\ Loading(k) = E
      BY DEF Queued, QueuedFor, Promoting, Fetching, Cascading, Copying,
             Storing, Holds, Stands, Saving, Loading, Reading
    <3>2. /\ k \in Pending(m.primary) => (k \notin taken => OneOf(A, B, C)) /\ D = {} /\ E = {}
          /\ k \in Ready(m.primary) =>
                /\ k \notin taken => NoneOf(A, B, C)
                /\ m.primary[k].ref = Cardinality(D) + Cardinality(E)
          /\ k \notin DOMAIN m.primary =>
                (k \notin taken => NoneOf(A, B, C)) /\ D = {} /\ E = {}
      BY <2>1 DEF Owned, Filling, Readable, Absent, Free
    <3> HIDE DEF A, B, C, D, E
    <3>3. Cardinality({}) = 0 /\ \A x : Cardinality({x}) = 1
      BY FS_EmptySet, FS_Singleton
    <3>4. OneOf(A, B, C) => Cardinality(A) + Cardinality(B) + Cardinality(C) = 1
      <4>1. ASSUME NEW x, A = {x}, B = {}, C = {}
            PROVE  Cardinality(A) + Cardinality(B) + Cardinality(C) = 1
        <5>1. Cardinality({x}) = 1
          BY <3>3
        <5>2. Cardinality(A) = 1 /\ Cardinality(B) = 0 /\ Cardinality(C) = 0
          BY <3>3, <4>1, <5>1
        <5> QED BY <5>2
      <4>2. ASSUME NEW x, A = {}, B = {x}, C = {}
            PROVE  Cardinality(A) + Cardinality(B) + Cardinality(C) = 1
        BY <3>3, <4>2
      <4>3. ASSUME NEW x, A = {}, B = {}, C = {x}
            PROVE  Cardinality(A) + Cardinality(B) + Cardinality(C) = 1
        BY <3>3, <4>3
      <4> QED BY <4>1, <4>2, <4>3 DEF OneOf
    <3>5. NoneOf(A, B, C) => Cardinality(A) + Cardinality(B) + Cardinality(C) = 0
      BY <3>3 DEF NoneOf
    <3>6. D = {} /\ E = {} => Cardinality(D) + Cardinality(E) = 0
      BY <3>3
    <3>7. /\ k \in DOMAIN m.primary <=> (k \in Ready(m.primary) \/ k \in Pending(m.primary))
          /\ ~(k \in Ready(m.primary) /\ k \in Pending(m.primary))
      BY <2>1, TableParts DEF Pending
    <3> QED BY <3>1, <3>2, <3>4, <3>5, <3>6, <3>7
  <2> QED BY <2>2, Zenon DEF ReservationsOwned
<1> QED BY <1>1, TieringInvariant, PTL

\* TransfersKeepTheirSlots: no two blocks share a slot, and what a transfer
\* moves is still where it was when the transfer began; a write may only have
\* lost it to a late store that took its block.
THEOREM SlotsStayPut == Spec => []TransfersKeepTheirSlots
<1>1. ASSUME IInv PROVE TransfersKeepTheirSlots
  <2>1. Placed(taken, m.primary, m.queued, m.jobs, m.stores, gpu)
    BY <1>1, InvParts DEF IInv, Books, Blocks
  <2>2. IsInjective(SlotsOf(m.primary, DOMAIN m.primary))
    BY <2>1 DEF Placed, IsInjective, SlotsOf
  <2>3. ASSUME NEW k \in Key
        PROVE  /\ \A i \in Cascading(k) : At(m.primary, k, m.jobs[i].slots[k])
               /\ \A g \in Loading(k) : At(m.primary, k, g.slots[k])
               /\ k \notin taken =>
                     /\ \A q \in Queued(k) : At(m.primary, k, [x \in {k} |-> q.slot][k])
                     /\ \A i \in Promoting(k) : At(m.primary, k, m.jobs[i].slots[k])
                     /\ \A g \in Storing(k) : At(m.primary, k, g.slots[k])
    BY <2>1 DEF Placed, JobPlaced, TransferPlaced, Cascading, Loading, Queued,
                Promoting, Storing, Holds, Stands
  <2> QED BY <2>2, <2>3, Zenon DEF TransfersKeepTheirSlots, At
<1> QED BY <1>1, TieringInvariant, PTL

\* AssertionsHold: every report finds its job or its retraction, and every
\* store that ends its request.
THEOREM TieringAssertionsHold == Spec => []AssertionsHold
<1>1. ASSUME IInv PROVE AssertionsHold
  <2>1. /\ Ids(m.jobs, work, m.retracted, m.drained, gpu) /\ Counted(m.reqs, gpu, closed)
        /\ Excused(taken, m, gpu, crashed)
    BY <1>1, InvParts DEF IInv, Books
  <2>2. /\ \A i \in DOMAIN work : i \in DOMAIN m.jobs \cup m.retracted \cup m.drained
        /\ DOMAIN m.jobs \cap (m.retracted \cup m.drained) = {}
    BY <2>1 DEF Ids
  <2>3. \A r \in Request :
           Cardinality({g \in gpu : g.kind = "store" /\ g.req = r})
              = IF r \in DOMAIN m.reqs THEN m.reqs[r].stores ELSE 0
    BY <2>1 DEF Counted, StoresFor
  <2>4. crashed => \E g \in gpu : \E k \in DOMAIN g.slots \ DOMAIN m.primary :
                      g.kind = "store" /\ (k \in taken \/ ~Holds(m, g, k))
    BY <2>1 DEF Excused, Stands, Holds
  <2> QED BY <2>2, <2>3, <2>4 DEF AssertionsHold
<1> QED BY <1>1, TieringInvariant, PTL

\* StoresFindTheirBlocks, ReadBlocksAreFilled: where the deadline of stores is
\* switched off no store is late, so every block to cascade is there, and no
\* block is read that is still to be filled.
THEOREM NoStoreIsLate ==
  ASSUME StoreTTL = 0
  PROVE  Spec => [](StoresFindTheirBlocks /\ ReadBlocksAreFilled)
<1>1. ASSUME IInv PROVE StoresFindTheirBlocks /\ ReadBlocksAreFilled
  <2>1. taken = {} /\ ~crashed
    BY <1>1 DEF IInv, Excused
  <2>2. /\ Owned(taken, m.primary, m.queued, m.jobs, m.stores, gpu) /\ IsTable(m.primary)
    BY <1>1, InvParts DEF IInv, Books, Blocks
  <2>3. ASSUME NEW k \in Key, Queued(k) # {} \/ Promoting(k) # {}
        PROVE  Cascading(k) = {} /\ Loading(k) = {}
    <3>1. QueuedFor(m.queued, k) # {} \/ Fetching(m.jobs, k) # {}
      BY <2>3 DEF Queued, QueuedFor, Promoting, Fetching
    <3>2. ~Free(taken, m.queued, m.jobs, m.stores, gpu, k)
      BY <2>1, <3>1 DEF Free, NoneOf
    <3>3. k \in Pending(m.primary)
      BY <2>2, <3>2, TableParts DEF Owned, Readable, Absent
    <3>4. Copying(m.jobs, k) = {} /\ Reading(gpu, k) = {}
      BY <2>2, <3>3 DEF Owned, Filling
    <3> QED BY <3>4 DEF Cascading, Copying, Loading, Reading
  <2> QED BY <2>1, <2>3 DEF StoresFindTheirBlocks, ReadBlocksAreFilled
<1> QED BY <1>1, TieringInvariant, PTL

\* NothingAfterFinalization: a request is closed once, for good, and no job of
\* it is given to a tier afterwards.
THEOREM ClosedStaysClosed == Spec => NothingAfterFinalization
<1> DEFINE A == /\ closed \subseteq closed'
                /\ closed \cap DOMAIN m'.reqs = {}
                /\ \A i \in DOMAIN m'.jobs \ DOMAIN m.jobs :
                      m'.jobs[i].promo \/ m'.jobs[i].req \notin closed
<1>1. ASSUME IInv, [Next]_vars PROVE A
  <2>1. IInv' /\ (Steady \/ Promotes)
    BY <1>1, NextStep
  <2>2. closed' \cap DOMAIN m'.reqs = {}
    BY <2>1 DEF IInv, Books, Inv, Counted
  <2>3. /\ closed \subseteq closed'
        /\ \A i \in DOMAIN m'.jobs \ DOMAIN m.jobs :
              m'.jobs[i].promo \/ m'.jobs[i].req \notin closed
    BY <2>1 DEF Steady, Promotes
  <2> QED BY <2>2, <2>3
<1>2. IInv /\ [Next]_vars => [A]_vars
  BY <1>1
<1> QED BY <1>2, TieringInvariant, PTL DEF Spec, NothingAfterFinalization

\* FailedPromotionsWait: where a failure is remembered at all, the key is not
\* promoted again before its window ends.
THEOREM FailuresAreRemembered ==
  ASSUME FailTTL > 0
  PROVE  Spec => FailedPromotionsWait
<1> DEFINE A == \A q \in {q \in m'.queued \ m.queued : q.key \notin taken} :
                   /\ q.key \notin DOMAIN m.failures
                   /\ ~\E i \in DOMAIN m.jobs \ DOMAIN m'.jobs :
                         m.jobs[i].promo /\ q.key \in DOMAIN m.jobs[i].slots
<1>1. ASSUME IInv, [Next]_vars PROVE A
  <2>1. Steady \/ Promotes
    BY <1>1, NextStep
  <2> QED BY <2>1 DEF Steady, Promotes
<1>2. IInv /\ [Next]_vars => [A]_vars
  BY <1>1
<1> QED BY <1>2, TieringInvariant, PTL DEF Spec, FailedPromotionsWait
=============================================================================
