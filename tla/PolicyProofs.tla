----------------------------- MODULE PolicyProofs -----------------------------
(***************************************************************************)
(* Proofs about CpuPolicies: LRU and ARC keep their lists exact, and both  *)
(* implement the contract of CpuTier, for every set of keys, number of     *)
(* slots, cap, set of transfers and length of a touch.                     *)
(***************************************************************************)
EXTENDS CpuPolicies, CpuTierProofs

-----------------------------------------------------------------------------
(***************************************************************************)
(* Lists of keys that hold no key twice.                                   *)
(***************************************************************************)
List(s) == s \in Seq(Key) /\ IsInjective(s)

\* The positions of a list, and its keys.
LEMMA ListElim ==
  ASSUME NEW s, List(s)
  PROVE  /\ s \in Seq(Key) /\ Len(s) \in Nat /\ DOMAIN s = 1 .. Len(s)
         /\ \A i \in 1 .. Len(s) : s[i] \in Key /\ s[i] \in Range(s)
         /\ \A i, j \in 1 .. Len(s) : s[i] = s[j] => i = j
         /\ Range(s) \subseteq Key
         /\ \A k \in Range(s) : \E i \in 1 .. Len(s) : s[i] = k
<1>1. s \in Seq(Key) /\ IsInjective(s)
  BY DEF List
<1>2. Len(s) \in Nat /\ DOMAIN s = 1 .. Len(s) /\ \A i \in 1 .. Len(s) : s[i] \in Key
  BY <1>1, LenProperties, ElementOfSeq
<1>3. \A i, j \in 1 .. Len(s) : s[i] = s[j] => i = j
  BY <1>1, <1>2 DEF IsInjective
<1>4. Range(s) = {s[i] : i \in 1 .. Len(s)}
  BY <1>2 DEF Range
<1> QED BY <1>1, <1>2, <1>3, <1>4

\* A sequence of distinct keys is a list.
LEMMA ListIntro ==
  ASSUME NEW s \in Seq(Key), \A i, j \in 1 .. Len(s) : s[i] = s[j] => i = j
  PROVE  List(s)
<1>1. DOMAIN s = 1 .. Len(s)
  BY LenProperties
<1> QED BY <1>1 DEF List, IsInjective

\* The empty dict.
LEMMA ListEmpty == List(<<>>) /\ Range(<<>>) = {} /\ Len(<<>>) = 0
<1>1. <<>> \in Seq(Key) /\ DOMAIN <<>> = {} /\ Len(<<>>) = 0
  OBVIOUS
<1> QED BY <1>1 DEF List, IsInjective, Range

\* Keys popped from a dict.
LEMMA ListWithout ==
  ASSUME NEW s, List(s), NEW K
  PROVE  /\ List(Without(s, K)) /\ Range(Without(s, K)) = Range(s) \ K
         /\ Len(Without(s, K)) <= Len(s)
         /\ \A x, y : Precedes(s, x, y) /\ x \notin K /\ y \notin K =>
                         Precedes(Without(s, K), x, y)
<1>1. s \in Seq(Key) /\ IsInjective(s)
  BY DEF List
<1> HIDE DEF Precedes
<1> QED BY <1>1, WithoutKeeps DEF List

\* A key put at the end of a dict that does not hold it.
LEMMA ListAppend ==
  ASSUME NEW s, List(s), NEW k \in Key, k \notin Range(s)
  PROVE  /\ List(Append(s, k)) /\ Range(Append(s, k)) = Range(s) \cup {k}
         /\ Len(Append(s, k)) = Len(s) + 1
         /\ \A x, y : Precedes(s, x, y) => Precedes(Append(s, k), x, y)
         /\ \A x \in Range(s) : Precedes(Append(s, k), x, k)
<1> DEFINE l == Len(s)
           t == Append(s, k)
<1>1. /\ s \in Seq(Key) /\ l \in Nat /\ DOMAIN s = 1 .. l
      /\ \A i \in 1 .. l : s[i] # k
      /\ \A i, j \in 1 .. l : s[i] = s[j] => i = j
      /\ \A x \in Range(s) : \E i \in 1 .. l : s[i] = x
  BY ListElim
<1>2. /\ t \in Seq(Key) /\ Len(t) = l + 1 /\ t[l + 1] = k
      /\ \A i \in 1 .. l : t[i] = s[i]
  BY <1>1, AppendProperties
<1>3. DOMAIN t = 1 .. l + 1
  BY <1>2, LenProperties
<1> HIDE DEF t, l
<1>4. 1 .. l + 1 = (1 .. l) \cup {l + 1}
  BY <1>1
<1>5. List(t)
  <2>1. SUFFICES ASSUME NEW i \in 1 .. l + 1, NEW j \in 1 .. l + 1, t[i] = t[j]
                 PROVE  i = j
    BY <1>2, ListIntro
  <2>2. CASE i \in 1 .. l /\ j \in 1 .. l
    BY <1>1, <1>2, <2>1, <2>2
  <2>3. CASE i = l + 1 /\ j \in 1 .. l
    BY <1>1, <1>2, <2>1, <2>3
  <2>4. CASE i \in 1 .. l /\ j = l + 1
    BY <1>1, <1>2, <2>1, <2>4
  <2> QED BY <1>4, <2>2, <2>3, <2>4
<1>6. Range(t) = Range(s) \cup {k}
  <2>1. Range(t) = {t[i] : i \in (1 .. l) \cup {l + 1}}
    BY <1>3, <1>4 DEF Range
  <2>2. Range(s) = {s[i] : i \in 1 .. l}
    BY <1>1 DEF Range
  <2> QED BY <1>2, <2>1, <2>2
<1>7. \A x, y : Precedes(s, x, y) => Precedes(t, x, y)
  <2>1. SUFFICES ASSUME NEW x, NEW y, Precedes(s, x, y) PROVE Precedes(t, x, y)
    OBVIOUS
  <2>2. PICK p, q \in 1 .. l : s[p] = x /\ s[q] = y /\ p < q
    BY <2>1 DEF Precedes, l
  <2>3. p \in 1 .. l + 1 /\ q \in 1 .. l + 1 /\ t[p] = x /\ t[q] = y
    BY <1>2, <1>4, <2>2
  <2> QED BY <1>2, <2>2, <2>3 DEF Precedes
<1>8. \A x \in Range(s) : Precedes(t, x, k)
  <2>1. SUFFICES ASSUME NEW x \in Range(s) PROVE Precedes(t, x, k)
    OBVIOUS
  <2>2. PICK p \in 1 .. l : s[p] = x
    BY <1>1
  <2>3. p \in 1 .. l + 1 /\ l + 1 \in 1 .. l + 1 /\ t[p] = x /\ t[l + 1] = k /\ p < l + 1
    BY <1>1, <1>2, <1>4, <2>2
  <2> QED BY <1>2, <2>3 DEF Precedes
<1> HIDE DEF Precedes
<1> QED BY <1>2, <1>5, <1>6, <1>7, <1>8 DEF t, l

\* Keys put, in some order, at the end of a dict that holds none of them.
LEMMA ListConcat ==
  ASSUME NEW s, List(s), NEW t, List(t), Range(s) \cap Range(t) = {}
  PROVE  List(s \o t) /\ Range(s \o t) = Range(s) \cup Range(t)
<1> DEFINE l == Len(s)
           m == Len(t)
           u == s \o t
<1>1. /\ s \in Seq(Key) /\ l \in Nat /\ DOMAIN s = 1 .. l
      /\ \A i \in 1 .. l : s[i] \in Range(s)
      /\ \A i, j \in 1 .. l : s[i] = s[j] => i = j
      /\ \A k \in Range(s) : \E i \in 1 .. l : s[i] = k
  BY ListElim
<1>2. /\ t \in Seq(Key) /\ m \in Nat /\ DOMAIN t = 1 .. m
      /\ \A i \in 1 .. m : t[i] \in Range(t)
      /\ \A i, j \in 1 .. m : t[i] = t[j] => i = j
      /\ \A k \in Range(t) : \E i \in 1 .. m : t[i] = k
  BY ListElim
<1>3. /\ u \in Seq(Key) /\ Len(u) = l + m
      /\ \A i \in 1 .. l + m : u[i] = IF i <= l THEN s[i] ELSE t[i - l]
  BY <1>1, <1>2, ConcatProperties
<1>4. DOMAIN u = 1 .. l + m
  BY <1>3, LenProperties
<1> HIDE DEF u, l, m
<1>5. \A i \in 1 .. l + m : \/ i \in 1 .. l /\ u[i] = s[i]
                            \/ i - l \in 1 .. m /\ u[i] = t[i - l]
  BY <1>1, <1>2, <1>3
<1>6. List(u)
  <2>1. SUFFICES ASSUME NEW i \in 1 .. l + m, NEW j \in 1 .. l + m, u[i] = u[j]
                 PROVE  i = j
    BY <1>3, ListIntro
  <2>2. CASE i \in 1 .. l /\ u[i] = s[i]
    <3>1. j \in 1 .. l /\ u[j] = s[j]
      <4>1. u[i] \in Range(s)
        BY <1>1, <2>2
      <4>2. ~(j - l \in 1 .. m /\ u[j] = t[j - l])
        BY <1>2, <2>1, <4>1
      <4> QED BY <1>5, <4>2
    <3> QED BY <1>1, <2>1, <2>2, <3>1
  <2>3. CASE i - l \in 1 .. m /\ u[i] = t[i - l]
    <3>1. j - l \in 1 .. m /\ u[j] = t[j - l]
      <4>1. u[i] \in Range(t)
        BY <1>2, <2>3
      <4>2. ~(j \in 1 .. l /\ u[j] = s[j])
        BY <1>1, <2>1, <4>1
      <4> QED BY <1>5, <4>2
    <3>2. i - l = j - l
      BY <1>2, <2>1, <2>3, <3>1
    <3> QED BY <1>1, <1>2, <3>2
  <2> QED BY <1>5, <2>2, <2>3
<1>7. Range(u) = Range(s) \cup Range(t)
  <2>1. Range(u) \subseteq Range(s) \cup Range(t)
    <3>1. SUFFICES ASSUME NEW i \in 1 .. l + m PROVE u[i] \in Range(s) \cup Range(t)
      BY <1>4 DEF Range
    <3> QED BY <1>1, <1>2, <1>5
  <2>2. ASSUME NEW k \in Range(s) PROVE k \in Range(u)
    <3>1. PICK i \in 1 .. l : s[i] = k
      BY <1>1
    <3>2. i \in 1 .. l + m /\ i <= l
      BY <1>1, <1>2
    <3>3. u[i] = k
      BY <1>3, <3>1, <3>2
    <3> QED BY <1>4, <3>2, <3>3 DEF Range
  <2>3. ASSUME NEW k \in Range(t) PROVE k \in Range(u)
    <3>1. PICK i \in 1 .. m : t[i] = k
      BY <1>2
    <3>2. l + i \in 1 .. l + m /\ ~(l + i <= l) /\ (l + i) - l = i
      BY <1>1, <1>2
    <3>3. u[l + i] = k
      BY <1>3, <3>1, <3>2
    <3> QED BY <1>4, <3>2, <3>3 DEF Range
  <2> QED BY <2>1, <2>2, <2>3
<1> QED BY <1>6, <1>7 DEF u

\* A part of a list.
LEMMA ListPart ==
  ASSUME NEW s, List(s), NEW m \in Nat \ {0}, NEW n \in 0 .. Len(s), m <= n + 1
  PROVE  LET t == SubSeq(s, m, n)
         IN  /\ List(t) /\ Range(t) \subseteq Range(s)
             /\ Len(t) = n - m + 1
<1> DEFINE l == Len(s)
           t == SubSeq(s, m, n)
<1>1. /\ s \in Seq(Key) /\ l \in Nat
      /\ \A i \in 1 .. l : s[i] \in Key /\ s[i] \in Range(s)
      /\ \A i, j \in 1 .. l : s[i] = s[j] => i = j
  BY ListElim
<1>2. m \in Int /\ n \in Int /\ \A i \in m .. n : i \in 1 .. l /\ s[i] \in Key
  BY <1>1
<1>3. /\ t \in Seq(Key) /\ Len(t) = IF m <= n THEN n - m + 1 ELSE 0
      /\ \A i \in 1 .. n - m + 1 : t[i] = s[m + i - 1]
  BY <1>1, <1>2, SubSeqProperties
<1> HIDE DEF l, t
<1>4. Len(t) = n - m + 1
  BY <1>1, <1>2, <1>3
<1>5. \A i \in 1 .. Len(t) : m + i - 1 \in 1 .. l /\ t[i] = s[m + i - 1]
  <2>1. \A i \in 1 .. n - m + 1 : m + i - 1 \in m .. n
    BY <1>2
  <2> QED BY <1>2, <1>3, <1>4, <2>1
<1>6. List(t)
  <2>1. SUFFICES ASSUME NEW i \in 1 .. Len(t), NEW j \in 1 .. Len(t), t[i] = t[j]
                 PROVE  i = j
    BY <1>3, ListIntro
  <2>2. m + i - 1 = m + j - 1
    BY <1>1, <1>5, <2>1
  <2> QED BY <1>2, <1>4, <2>2
<1>7. Range(t) \subseteq Range(s)
  <2>1. DOMAIN t = 1 .. Len(t)
    BY <1>3, LenProperties
  <2>2. \A i \in 1 .. Len(t) : t[i] \in Range(s)
    <3>1. SUFFICES ASSUME NEW i \in 1 .. Len(t) PROVE t[i] \in Range(s)
      OBVIOUS
    <3> QED BY <1>1, <1>5
  <2>3. Range(t) = {t[i] : i \in 1 .. Len(t)}
    BY <2>1 DEF Range
  <2> QED BY <2>2, <2>3
<1> QED BY <1>4, <1>6, <1>7 DEF t

\* A list is as long as it has keys.
LEMMA ListLength ==
  ASSUME NEW s, List(s)
  PROVE  IsFiniteSet(Range(s)) /\ Cardinality(Range(s)) = Len(s)
<1> DEFINE D == 1 .. Len(s)
<1>1. /\ Len(s) \in Nat /\ DOMAIN s = D /\ s \in Seq(Key)
      /\ \A i \in D : s[i] \in Key
      /\ \A i, j \in D : s[i] = s[j] => i = j
  BY ListElim
<1>2. IsFiniteSet(D) /\ Cardinality(D) = Len(s)
  <2>1. \A n \in Nat : IsFiniteSet(1 .. n) /\ Cardinality(1 .. n) = n
    BY FS_Interval
  <2> QED BY <1>1, <2>1
<1>3. s = [i \in D |-> s[i]]
  BY <1>1, SeqDef
<1> HIDE DEF D
<1>4. s \in Injection(D, Key)
  BY <1>1, <1>3 DEF Injection, IsInjective
<1> QED BY <1>2, <1>4, InjectionImage

\* Any order of a set of keys is a list of them.
LEMMA ListOfSet ==
  ASSUME NEW T \in SUBSET Key, NEW s \in SetToSeqs(T)
  PROVE  List(s) /\ Range(s) = T
<1> DEFINE n == Cardinality(T)
<1>1. IsFiniteSet(T) /\ n \in Nat
  BY KeyAssumption, FS_Subset, FS_CardinalityType
<1>2. s \in [1 .. n -> T] /\ \A i, j \in 1 .. n : i # j => s[i] # s[j]
  BY DEF SetToSeqs
<1> HIDE DEF n
<1>3. s \in [1 .. n -> Key]
  BY <1>2
<1>4. s \in Seq(Key) /\ Len(s) = n
  BY <1>1, <1>3, SeqDef, LenProperties
<1>5. List(s)
  BY <1>2, <1>4, ListIntro
<1>6. Range(s) \in SUBSET T
  BY <1>2 DEF Range
<1>7. Cardinality(Range(s)) = Cardinality(T)
  BY <1>4, <1>5, ListLength DEF n
<1> QED BY <1>1, <1>5, <1>6, <1>7, FS_Subset

\* move_to_end changes the order alone.
LEMMA MoveKeeps ==
  ASSUME NEW s, List(s), NEW k \in Range(s)
  PROVE  /\ List(MoveToEnd(s, k)) /\ Range(MoveToEnd(s, k)) = Range(s)
         /\ Len(MoveToEnd(s, k)) = Len(s)
         /\ \A x, y : Precedes(s, x, y) /\ x # k /\ y # k =>
                         Precedes(MoveToEnd(s, k), x, y)
         /\ \A x \in Range(s) \ {k} : Precedes(MoveToEnd(s, k), x, k)
<1> DEFINE w == Without(s, {k})
<1> HIDE DEF Precedes
<1>1. /\ List(w) /\ Range(w) = Range(s) \ {k}
      /\ \A x, y : Precedes(s, x, y) /\ x # k /\ y # k => Precedes(w, x, y)
  BY ListWithout
<1>2. k \in Key /\ k \notin Range(w)
  BY <1>1, ListElim
<1>3. MoveToEnd(s, k) = Append(w, k)
  BY DEF MoveToEnd
<1> HIDE DEF w
<1>4. /\ List(Append(w, k)) /\ Range(Append(w, k)) = Range(w) \cup {k}
      /\ \A x, y : Precedes(w, x, y) => Precedes(Append(w, k), x, y)
      /\ \A x \in Range(w) : Precedes(Append(w, k), x, k)
  BY <1>1, <1>2, ListAppend
<1>5. Range(Append(w, k)) = Range(s)
  BY <1>1, <1>4
<1>6. Len(Append(w, k)) = Len(s)
  <2>1. Cardinality(Range(Append(w, k))) = Len(Append(w, k))
    BY <1>4, ListLength
  <2>2. Cardinality(Range(s)) = Len(s)
    BY ListLength
  <2> QED BY <1>5, <2>1, <2>2
<1> QED BY <1>1, <1>3, <1>4, <1>5, <1>6

\* The keys of a touch are a list.
LEMMA TouchedKeys ==
  ASSUME NEW ks \in TouchInputs
  PROVE  List(ks)
<1>1. PICK T \in SUBSET Key : ks \in SetToSeqs(T)
  BY DEF TouchInputs, SetToAllKPermutations
<1> QED BY <1>1, ListOfSet

-----------------------------------------------------------------------------
(***************************************************************************)
(* What the operations of the manager do to the cached, the idle and the   *)
(* pending blocks, which the lists of a policy follow.                     *)
(***************************************************************************)
\* prepare_load.
LEMMA SubmitLoadEffect ==
  ASSUME IInv, NEW j \in JobId, NEW K \in SUBSET Key, SubmitLoad(j, K)
  PROVE  /\ Cached' = Cached /\ Evictable' = Evictable \ K
         /\ WritePending' = WritePending
<1>1. /\ \A k \in Cached : blocks[k].ref_cnt \in Int /\ blocks[k] \in BlockStatus
      /\ \A k \in K : k \in Cached /\ blocks[k].ref_cnt >= 0
      /\ blocks' = [k \in Cached |->
             IF k \in K THEN [blocks[k] EXCEPT !.ref_cnt = @ + 1] ELSE blocks[k]]
  BY DEF IInv, TypeOK, BlockStatus, SubmitLoad, PrepareLoad, LoadAsserts, Ready
<1>2. /\ Cached' = Cached
      /\ \A k \in Cached : blocks'[k].ref_cnt =
            IF k \in K THEN blocks[k].ref_cnt + 1 ELSE blocks[k].ref_cnt
  BY <1>1 DEF Cached, BlockStatus
<1>3. Evictable' = {k \in Cached : blocks'[k].ref_cnt = 0}
  BY <1>2 DEF Evictable
<1>4. WritePending' = {k \in Cached : blocks'[k].ref_cnt = -1}
  BY <1>2 DEF WritePending
<1>5. \A k \in Cached : /\ blocks'[k].ref_cnt = 0 <=> blocks[k].ref_cnt = 0 /\ k \notin K
                        /\ blocks'[k].ref_cnt = -1 <=> blocks[k].ref_cnt = -1
  BY <1>1, <1>2
<1> QED BY <1>2, <1>3, <1>4, <1>5 DEF Evictable, WritePending

\* complete_load.
LEMMA FinishLoadEffect ==
  ASSUME IInv, NEW j \in JobId, FinishLoad(j)
  PROVE  LET freed == {k \in jobs[j].keys : blocks[k].ref_cnt = 1} IN
         /\ Cached' = Cached /\ Evictable' = Evictable \cup freed
         /\ WritePending' = WritePending
         /\ freed \in SUBSET Key /\ Evictable \cap freed = {}
<1> DEFINE K == jobs[j].keys
           freed == {k \in K : blocks[k].ref_cnt = 1}
<1>1. /\ \A k \in Cached : blocks[k].ref_cnt \in Int /\ blocks[k] \in BlockStatus
      /\ \A k \in K : k \in Cached /\ blocks[k].ref_cnt > 0
      /\ blocks' = [k \in Cached |->
             IF k \in K THEN [blocks[k] EXCEPT !.ref_cnt = @ - 1] ELSE blocks[k]]
      /\ Cached \subseteq Key
  BY DEF IInv, TypeOK, BlockStatus, FinishLoad, CompleteLoad, CompleteLoadAsserts
<1> HIDE DEF K
<1>2. /\ Cached' = Cached
      /\ \A k \in Cached : blocks'[k].ref_cnt =
            IF k \in K THEN blocks[k].ref_cnt - 1 ELSE blocks[k].ref_cnt
  BY <1>1 DEF Cached, BlockStatus
<1>3. Evictable' = {k \in Cached : blocks'[k].ref_cnt = 0}
  BY <1>2 DEF Evictable
<1>4. WritePending' = {k \in Cached : blocks'[k].ref_cnt = -1}
  BY <1>2 DEF WritePending
<1>5. \A k \in Cached : /\ blocks'[k].ref_cnt = 0 <=> blocks[k].ref_cnt = 0 \/ k \in freed
                        /\ blocks'[k].ref_cnt = -1 <=> blocks[k].ref_cnt = -1
  BY <1>1, <1>2
<1>6. freed \subseteq Cached /\ \A k \in freed : blocks[k].ref_cnt = 1
  BY <1>1
<1> HIDE DEF freed
<1>7. Evictable' = Evictable \cup freed /\ WritePending' = WritePending
  BY <1>3, <1>4, <1>5, <1>6 DEF Evictable, WritePending
<1>8. Evictable \cap freed = {}
  BY <1>6 DEF Evictable
<1> QED BY <1>1, <1>2, <1>6, <1>7, <1>8 DEF freed, K

\* prepare_store.
LEMMA SubmitStoreEffect ==
  ASSUME NEW j, NEW K \in SUBSET Key, NEW es, NEW slot, SubmitStore(j, K, es, slot)
  PROVE  /\ Cached' = (Cached \ Range(es)) \cup New(K)
         /\ Evictable' = Evictable \ Range(es)
         /\ WritePending' = (WritePending \ Range(es)) \cup New(K)
<1>1. blocks' = [k \in (Cached \ Range(es)) \cup New(K) |->
           IF k \in New(K) THEN [ref_cnt |-> -1, block_id |-> slot[k]]
                           ELSE blocks[k]]
  BY DEF SubmitStore, PrepareStore
<1>2. New(K) \cap Cached = {}
  BY DEF New
<1>3. /\ Cached' = (Cached \ Range(es)) \cup New(K)
      /\ \A k \in New(K) : blocks'[k].ref_cnt = -1
      /\ \A k \in Cached \ Range(es) : blocks'[k] = blocks[k]
  BY <1>1, <1>2 DEF Cached
<1>4. Evictable' = {k \in (Cached \ Range(es)) \cup New(K) : blocks'[k].ref_cnt = 0}
  BY <1>3 DEF Evictable
<1>5. WritePending' = {k \in (Cached \ Range(es)) \cup New(K) : blocks'[k].ref_cnt = -1}
  BY <1>3 DEF WritePending
<1>6. Evictable' = Evictable \ Range(es)
  BY <1>3, <1>4 DEF Evictable
<1>7. WritePending' = (WritePending \ Range(es)) \cup New(K)
  BY <1>3, <1>5 DEF WritePending
<1> QED BY <1>3, <1>6, <1>7

\* complete_store, successful.
LEMMA FinishStoreEffect ==
  ASSUME IInv, NEW j \in JobId, FinishStore(j)
  PROVE  LET stored == jobs[j].keys \cap WritePending IN
         /\ Cached' = Cached /\ Evictable' = Evictable \cup stored
         /\ WritePending' = WritePending \ stored
         /\ stored \in SUBSET Key /\ Evictable \cap stored = {}
<1> DEFINE K == jobs[j].keys
<1>1. /\ K \cap {k \in Cached : ~Ready(k)} = K /\ K \in SUBSET Key
      /\ StoreSucceeds(K)
  BY StoredArePending DEF FinishStore
<1>2. \A k \in Cached : /\ blocks[k].ref_cnt \in Int /\ blocks[k].ref_cnt >= -1
                        /\ blocks[k] \in BlockStatus
  BY DEF IInv, TypeOK, BlockStatus
<1> HIDE DEF K
<1>3. blocks' = [k \in Cached |->
           IF k \in K THEN [blocks[k] EXCEPT !.ref_cnt = 0] ELSE blocks[k]]
  BY <1>1 DEF StoreSucceeds
<1>4. \A k \in K : k \in Cached /\ blocks[k].ref_cnt = -1
  BY <1>1, <1>2 DEF Ready
<1>5. /\ Cached' = Cached
      /\ \A k \in Cached : blocks'[k].ref_cnt =
            IF k \in K THEN 0 ELSE blocks[k].ref_cnt
  BY <1>2, <1>3 DEF Cached, BlockStatus
<1>6. K \cap WritePending = K
  BY <1>4 DEF WritePending
<1>7. Evictable' = {k \in Cached : blocks'[k].ref_cnt = 0}
  BY <1>5 DEF Evictable
<1>8. WritePending' = {k \in Cached : blocks'[k].ref_cnt = -1}
  BY <1>5 DEF WritePending
<1>9. Evictable' = Evictable \cup K /\ WritePending' = WritePending \ K
  BY <1>4, <1>5, <1>7, <1>8 DEF Evictable, WritePending
<1>10. Evictable \cap K = {}
  BY <1>4 DEF Evictable
<1> QED BY <1>1, <1>5, <1>6, <1>9, <1>10 DEF K

\* complete_store, failed.
LEMMA FailStoreEffect ==
  ASSUME IInv, NEW j \in JobId, FailStore(j)
  PROVE  /\ Cached' = Cached \ jobs[j].keys /\ Evictable' = Evictable
         /\ WritePending' = WritePending \ jobs[j].keys
         /\ Evictable \cap jobs[j].keys = {}
<1> DEFINE K == jobs[j].keys
<1>1. /\ K \cap {k \in Cached : ~Ready(k)} = K
      /\ StoreFails(K)
  BY StoredArePending DEF FailStore
<1> HIDE DEF K
<1>2. blocks' = [k \in Cached \ K |-> blocks[k]]
  BY <1>1 DEF StoreFails
<1>3. \A k \in K : blocks[k].ref_cnt # 0
  BY <1>1 DEF Ready
<1>4. Cached' = Cached \ K /\ \A k \in Cached \ K : blocks'[k] = blocks[k]
  BY <1>2 DEF Cached
<1>5. Evictable' = {k \in Cached \ K : blocks'[k].ref_cnt = 0}
  BY <1>4 DEF Evictable
<1>6. WritePending' = {k \in Cached \ K : blocks'[k].ref_cnt = -1}
  BY <1>4 DEF WritePending
<1>7. Evictable' = Evictable /\ WritePending' = WritePending \ K
  BY <1>3, <1>4, <1>5, <1>6 DEF Evictable, WritePending
<1>8. Evictable \cap K = {}
  BY <1>3 DEF Evictable
<1> QED BY <1>4, <1>7, <1>8 DEF K

\* reset_cache.
LEMMA ResetEffect ==
  ASSUME Reset
  PROVE  Cached' = {} /\ Evictable' = {} /\ WritePending' = {}
<1>1. Cached' = {}
  BY DEF Reset, ResetCache, NoBlocks, Cached
<1> QED BY <1>1 DEF Evictable, WritePending

\* The other steps leave the table alone.
LEMMA NoEffect ==
  ASSUME blocks' = blocks
  PROVE  Cached' = Cached /\ Evictable' = Evictable /\ WritePending' = WritePending
  BY DEF Cached, Evictable, WritePending

\* A list of idle unprotected keys is an eviction the contract allows.
LEMMA VictimsAllowed ==
  ASSUME NEW es, List(es), NEW K, Range(es) \subseteq Evictable \ K
  PROVE  es \in Evictions(Len(es), K)
<1> DEFINE D == 1 .. Len(es)
<1>1. DOMAIN es = D /\ es \in Seq(Key) /\ \A i \in D : es[i] \in Range(es)
  BY ListElim
<1>2. es = [i \in D |-> es[i]]
  BY <1>1, SeqDef
<1>3. es \in [D -> Evictable \ K]
  <2> HIDE DEF D
  <2> QED BY <1>1, <1>2
<1> QED BY <1>3 DEF Evictions, List

\* The number of slots short is a number.
LEMMA DeficitType ==
  ASSUME IInv, NEW K \in SUBSET Key
  PROVE  Deficit(K) \in Int
<1>1. TypeOK
  BY DEF IInv
<1>2. Cardinality(New(K)) \in Nat /\ Cardinality(freeList) \in Nat
  BY <1>1, FreeIsFinite
<1>3. numAllocated \in Int
  BY <1>1 DEF TypeOK
<1> QED BY <1>2, <1>3, NumBlocksAssumption DEF Deficit, NumFreeBlocks

\* An eviction of n > 0 blocks, or none when none is needed.
LEMMA VictimsForStore ==
  ASSUME NEW K, NEW es, Deficit(K) \in Int,
         Deficit(K) > 0 => es \in Evictions(Deficit(K), K),
         ~(Deficit(K) > 0) => es = <<>>
  PROVE  es \in EvictionsFor(K)
<1>1. CASE Deficit(K) > 0
  BY <1>1 DEF EvictionsFor
<1>2. CASE ~(Deficit(K) > 0)
  <2>1. <<>> \in [1 .. 0 -> Evictable \ K]
    OBVIOUS
  <2> QED BY <1>2, <2>1, ListEmpty DEF EvictionsFor, Evictions, List
<1> QED BY <1>1, <1>2

-----------------------------------------------------------------------------
(***************************************************************************)
(* LRU (policies/lru.py).                                                  *)
(***************************************************************************)
\* The lists r that a touch of keys ks goes through, from list s on.
Touches(r, s, ks) ==
    /\ r \in [0 .. Len(ks) -> Seq(Key)]
    /\ r[0] = s
    /\ \A n \in 1 .. Len(ks) : r[n] = LruMove(r[n - 1], ks[Len(ks) - n + 1])
    /\ LruTouched(s, ks) = r[Len(ks)]

\* A touch moves its keys one by one.
LEMMA TouchIterates ==
  ASSUME NEW s \in Seq(Key), NEW ks \in Seq(Key)
  PROVE  \E r : Touches(r, s, ks)
<1> DEFINE L == Len(ks)
           step(n, x) == LruMove(x, ks[L - n + 1])
           g == [p \in (1 .. L) \X Seq(Key) |-> step(p[1], p[2])]
           Is(f) == f = [n \in 0 .. L |-> IF n = 0 THEN s ELSE step(n, f[n - 1])]
<1>1. L \in Nat /\ \A n \in 1 .. L : ks[n] \in Key
  BY LenProperties, ElementOfSeq
<1>1a. \A n \in 1 .. L : ks[L - n + 1] \in Key
  <2> HIDE DEF L
  <2>1. \A n \in 1 .. L : L - n + 1 \in 1 .. L
    BY <1>1
  <2> QED BY <1>1, <2>1
<1>s. \A n \in 1 .. L, x \in Seq(Key) : step(n, x) \in Seq(Key)
  <2>1. SUFFICES ASSUME NEW k \in Key, NEW x \in Seq(Key) PROVE LruMove(x, k) \in Seq(Key)
    <3> HIDE DEF L
    <3> QED BY <1>1a
  <2>2. Without(x, {k}) \in Seq(Key)
    BY WithoutKeeps
  <2>3. Append(Without(x, {k}), k) \in Seq(Key)
    BY <2>2, AppendProperties
  <2> QED BY <2>3 DEF LruMove, MoveToEnd
<1>2. g \in [(1 .. L) \X Seq(Key) -> Seq(Key)]
  <2> HIDE DEF step, L
  <2> QED BY <1>s
<1>3. PICK f \in [0 .. L -> Seq(Key)] : Iterates(f, s, g, L)
  <2> HIDE DEF g, L
  <2> QED BY <1>1, <1>2, IterationExists
<1>4. \A n \in 1 .. L : f[n] = step(n, f[n - 1])
  <2>1. SUFFICES ASSUME NEW n \in 1 .. L PROVE f[n] = step(n, f[n - 1])
    OBVIOUS
  <2>2. <<n, f[n - 1]>> \in (1 .. L) \X Seq(Key)
    <3>1. n - 1 \in 0 .. L
      BY <1>1
    <3> HIDE DEF L
    <3> QED BY <3>1
  <2>3. f[n] = g[<<n, f[n - 1]>>]
    BY <1>3 DEF Iterates
  <2> HIDE DEF step, L
  <2> QED BY <2>2, <2>3 DEF g
<1>5. Is(f)
  <2>1. f[0] = s
    BY <1>3 DEF Iterates
  <2>2. \A n \in 0 .. L : n # 0 => n \in 1 .. L
    BY <1>1
  <2> HIDE DEF step, L, g
  <2> QED BY <1>4, <2>1, <2>2
<1> DEFINE r == CHOOSE f_1 : Is(f_1)
<1>6. Is(r)
  <2> HIDE DEF Is
  <2> QED BY <1>5
<1>7. LruTouched(s, ks) = r[L]
  BY DEF LruTouched
<1> HIDE DEF r
<1>8. /\ r[0] = s /\ \A n \in 1 .. L : r[n] = step(n, r[n - 1])
      /\ DOMAIN r = 0 .. L /\ r = [n \in 0 .. L |-> r[n]]
  <2>1. 0 \in 0 .. L /\ \A n \in 1 .. L : n \in 0 .. L /\ n # 0
    BY <1>1
  <2> HIDE DEF step, L
  <2> QED BY <1>6, <2>1
<1>9. \A n \in 0 .. L : r[n] \in Seq(Key)
  <2> DEFINE P == {n \in 0 .. L : r[n] \in Seq(Key)}
  <2>1. 0 \in P
    <3>1. 0 \in 0 .. L
      BY <1>1
    <3> QED BY <1>8, <3>1
  <2>2. ASSUME NEW n \in 1 .. L, n - 1 \in P PROVE n \in P
    <3> HIDE DEF step, L
    <3>1. step(n, r[n - 1]) \in Seq(Key)
      BY <1>s, <2>2
    <3>2. n \in 0 .. L
      BY <1>1
    <3>3. r[n] = step(n, r[n - 1])
      BY <1>8
    <3> QED BY <3>1, <3>2, <3>3
  <2> HIDE DEF P
  <2>3. 0 .. L \subseteq P
    BY <1>1, <2>1, <2>2, UpTo
  <2> QED BY <2>3 DEF P
<1>10. r \in [0 .. L -> Seq(Key)]
  <2> HIDE DEF L
  <2> QED BY <1>8, <1>9
<1>11. Touches(r, s, ks)
  BY <1>7, <1>8, <1>10 DEF Touches
<1> QED BY <1>11

\* A touch keeps the list; of two of its keys in the list, the one that comes
\* later in the touch comes first in the list.
LEMMA TouchOrders ==
  ASSUME NEW s, List(s), NEW ks, List(ks)
  PROVE  /\ List(LruTouched(s, ks)) /\ Range(LruTouched(s, ks)) = Range(s)
         /\ \A m, n \in 1 .. Len(ks) :
               m < n /\ ks[m] \in Range(s) /\ ks[n] \in Range(s) =>
                  Precedes(LruTouched(s, ks), ks[n], ks[m])
<1>1. s \in Seq(Key) /\ ks \in Seq(Key)
  BY DEF List
<1>2. PICK r : Touches(r, s, ks)
  BY <1>1, TouchIterates
<1> DEFINE L == Len(ks)
<1>3. /\ L \in Nat
      /\ \A i, j \in 1 .. L : ks[i] = ks[j] => i = j
      /\ \A i \in 1 .. L : ks[i] \in Key
  BY ListElim
<1>4. /\ r[0] = s /\ LruTouched(s, ks) = r[L]
      /\ \A n \in 1 .. L : r[n] = LruMove(r[n - 1], ks[L - n + 1])
  BY <1>2 DEF Touches
<1> HIDE DEF L
<1> DEFINE Ordered(x, i) ==
             \A m, n \in 1 .. L :
                m < n /\ L - m + 1 <= i /\ ks[m] \in Range(s) /\ ks[n] \in Range(s) =>
                   Precedes(x, ks[n], ks[m])
           P == {i \in 0 .. L : List(r[i]) /\ Range(r[i]) = Range(s) /\ Ordered(r[i], i)}
<1>5. 0 \in P
  <2>1. Ordered(s, 0)
    <3>1. \A m \in 1 .. L : ~(L - m + 1 <= 0)
      BY <1>3
    <3> HIDE DEF Precedes
    <3> QED BY <3>1
  <2>2. 0 \in 0 .. L
    BY <1>3
  <2> HIDE DEF Ordered
  <2> QED BY <1>4, <2>1, <2>2
<1>6. ASSUME NEW i \in 1 .. L, i - 1 \in P PROVE i \in P
  <2> DEFINE x == r[i - 1]
             a == L - i + 1
             k == ks[a]
  <2>1. a \in 1 .. L /\ i \in 0 .. L /\ k \in Key
    <3>1. a \in 1 .. L /\ i \in 0 .. L
      BY <1>3
    <3> QED BY <1>3, <3>1
  <2>2. List(x) /\ Range(x) = Range(s) /\ Ordered(x, i - 1)
    <3> HIDE DEF Ordered
    <3> QED BY <1>6
  <2>3. r[i] = IF k \in Range(x) THEN MoveToEnd(x, k) ELSE x
    BY <1>4 DEF LruMove
  <2>4. \A m \in 1 .. L : L - m + 1 <= i => m = a \/ L - m + 1 <= i - 1
    BY <1>3
  <2>5. \A m \in 1 .. L : L - m + 1 <= i => a <= m
    BY <1>3
  <2> HIDE DEF Precedes, x, a
  <2>6. CASE k \notin Range(x)
    <3>1. r[i] = x
      BY <2>3, <2>6
    <3>2. Ordered(x, i)
      <4>1. SUFFICES ASSUME NEW m \in 1 .. L, NEW n \in 1 .. L, m < n,
                            L - m + 1 <= i, ks[m] \in Range(s), ks[n] \in Range(s)
                     PROVE  Precedes(x, ks[n], ks[m])
        OBVIOUS
      <4>2. m # a
        BY <2>2, <2>6, <4>1
      <4>3. L - m + 1 <= i - 1
        BY <2>4, <4>1, <4>2
      <4> QED BY <2>2, <4>1, <4>3
    <3> HIDE DEF Ordered
    <3> QED BY <2>1, <2>2, <3>1, <3>2
  <2>7. CASE k \in Range(x)
    <3> DEFINE y == MoveToEnd(x, k)
    <3>1. r[i] = y
      BY <2>3, <2>7
    <3>2. /\ List(y) /\ Range(y) = Range(x)
          /\ \A u, v : Precedes(x, u, v) /\ u # k /\ v # k => Precedes(y, u, v)
          /\ \A u \in Range(x) \ {k} : Precedes(y, u, k)
      BY <2>2, <2>7, MoveKeeps
    <3> HIDE DEF y
    <3>3. Ordered(y, i)
      <4>1. SUFFICES ASSUME NEW m \in 1 .. L, NEW n \in 1 .. L, m < n,
                            L - m + 1 <= i, ks[m] \in Range(s), ks[n] \in Range(s)
                     PROVE  Precedes(y, ks[n], ks[m])
        OBVIOUS
      <4>2. a <= m
        BY <2>5, <4>1
      <4>3. n # a /\ ks[n] # k
        <5>1. n # a
          BY <1>3, <2>1, <4>1, <4>2
        <5> QED BY <1>3, <2>1, <5>1
      <4>4. CASE m = a
        <5>1. ks[n] \in Range(x) \ {k} /\ ks[m] = k
          BY <2>2, <4>1, <4>3, <4>4
        <5> QED BY <3>2, <5>1
      <4>5. CASE m # a
        <5>1. L - m + 1 <= i - 1 /\ ks[m] # k
          BY <1>3, <2>1, <2>4, <4>1, <4>5
        <5>2. Precedes(x, ks[n], ks[m])
          BY <2>2, <4>1, <5>1
        <5> QED BY <3>2, <4>3, <5>1, <5>2
      <4> QED BY <4>4, <4>5
    <3> HIDE DEF Ordered
    <3> QED BY <2>1, <2>2, <3>1, <3>2, <3>3
  <2> QED BY <2>6, <2>7
<1> HIDE DEF P, Precedes
<1>7. 0 .. L \subseteq P
  BY <1>3, <1>5, <1>6, UpTo
<1>8. L \in 0 .. L /\ \A m \in 1 .. L : L - m + 1 <= L
  BY <1>3
<1>9. List(r[L]) /\ Range(r[L]) = Range(s) /\ Ordered(r[L], L)
  <2> HIDE DEF Ordered
  <2> QED BY <1>7, <1>8 DEF P
<1>10. \A m, n \in 1 .. L :
          m < n /\ ks[m] \in Range(s) /\ ks[n] \in Range(s) =>
             Precedes(r[L], ks[n], ks[m])
  BY <1>8, <1>9
<1> QED BY <1>4, <1>9, <1>10 DEF L

\* The list of LRU and the table agree.
LruExact == List(evictableBlocks) /\ Range(evictableBlocks) = Evictable

\* LRU evicts idle unprotected blocks, as many as it is asked for.
LEMMA LruEvictPicks ==
  ASSUME LruExact, NEW n \in Int, n > 0, NEW K, LruEvict(n, K) # <<>>
  PROVE  LruEvict(n, K) \in Evictions(n, K)
<1> DEFINE c == Without(evictableBlocks, K)
           es == SubSeq(c, 1, n)
<1>1. List(c) /\ Range(c) = Evictable \ K
  BY ListWithout DEF LruExact
<1>2. LruEvict(n, K) = IF Len(c) < n THEN <<>> ELSE es
  BY DEF LruEvict
<1>3. Len(c) \in Nat
  BY <1>1, ListElim
<1> HIDE DEF c
<1>4. n \in 0 .. Len(c) /\ 1 \in Nat \ {0} /\ 1 <= n + 1 /\ n - 1 + 1 = n
  BY <1>2, <1>3
<1>5. List(es) /\ Range(es) \subseteq Range(c) /\ Len(es) = n
  <2>1. List(es) /\ Range(es) \subseteq Range(c) /\ Len(es) = n - 1 + 1
    BY <1>1, <1>4, ListPart
  <2> QED BY <1>4, <2>1
<1>6. LruEvict(n, K) = es
  BY <1>2
<1> HIDE DEF es
<1>7. es \in Evictions(Len(es), K)
  BY <1>1, <1>5, VictimsAllowed
<1> QED BY <1>5, <1>6, <1>7

\* Every step with LRU is a step that CpuTier allows.
LEMMA LruNextIsNext ==
  ASSUME IInv, LruExact, LruNext
  PROVE  [Next]_vars
<1>1. ASSUME NEW j \in JobId, NEW K \in SUBSET Key, LruSubmitLoad(j, K)
      PROVE  Next
  BY <1>1 DEF LruSubmitLoad, Next
<1>2. ASSUME NEW j \in JobId, LruFinishLoad(j)
      PROVE  Next
  BY <1>2 DEF LruFinishLoad, Next
<1>3. ASSUME NEW j \in JobId, NEW K \in SUBSET Key, LruSubmitStore(j, K)
      PROVE  Next
  <2> DEFINE n == Deficit(K)
             es == IF n > 0 THEN LruEvict(n, K) ELSE <<>>
  <2>1. /\ n > 0 => es # <<>>
        /\ \E slot \in Allocations(K, es) : SubmitStore(j, K, es, slot)
    BY <1>3 DEF LruSubmitStore
  <2>2. n \in Int
    BY DeficitType
  <2>3. n > 0 => es \in Evictions(n, K)
    <3> SUFFICES ASSUME n > 0 PROVE es \in Evictions(n, K)
      OBVIOUS
    <3>1. es = LruEvict(n, K) /\ LruEvict(n, K) # <<>>
      BY <2>1
    <3> HIDE DEF n, es
    <3> QED BY <2>2, <3>1, LruEvictPicks
  <2>4. ~(n > 0) => es = <<>>
    OBVIOUS
  <2> HIDE DEF es
  <2>5. es \in EvictionsFor(K)
    BY <2>2, <2>3, <2>4, VictimsForStore
  <2> QED BY <2>1, <2>5 DEF Next
<1>4. ASSUME NEW j \in JobId, LruFinishStore(j)
      PROVE  Next
  BY <1>4 DEF LruFinishStore, Next
<1>5. ASSUME NEW j \in JobId, LruFailStore(j)
      PROVE  Next
  BY <1>5 DEF LruFailStore, Next
<1>6. ASSUME NEW ks \in TouchInputs, LruTouch(ks)
      PROVE  UNCHANGED vars
  BY <1>6 DEF LruTouch
<1>7. CASE LruReset
  BY <1>7 DEF LruReset, Next
<1>8. CASE LruReadEvents
  BY <1>8 DEF LruReadEvents, Next
<1> QED BY <1>1, <1>2, <1>3, <1>4, <1>5, <1>6, <1>7, <1>8 DEF LruNext

\* Every step keeps the list of LRU exact.
LEMMA LruNextKeeps ==
  ASSUME IInv, LruExact, LruNext
  PROVE  LruExact'
<1> DEFINE e == evictableBlocks
<1>0. List(e) /\ Range(e) = Evictable
  BY DEF LruExact
<1>a. ASSUME NEW K, e' = Without(e, K), Evictable' = Evictable \ K
      PROVE  LruExact'
  <2> HIDE DEF e
  <2>1. List(Without(e, K)) /\ Range(Without(e, K)) = Evictable'
    BY <1>0, <1>a, ListWithout
  <2> QED BY <1>a, <2>1 DEF LruExact, List, e
<1>b. ASSUME NEW T \in SUBSET Key, NEW s \in SetToSeqs(T), e' = e \o s,
             Evictable' = Evictable \cup T, Evictable \cap T = {}
      PROVE  LruExact'
  <2>1. List(s) /\ Range(s) = T
    BY ListOfSet
  <2> HIDE DEF e
  <2>2. List(e \o s) /\ Range(e \o s) = Range(e) \cup Range(s)
    BY <1>0, <1>b, <2>1, ListConcat
  <2> QED BY <1>0, <1>b, <2>1, <2>2 DEF LruExact, List, e
<1>1. ASSUME NEW j \in JobId, NEW K \in SUBSET Key, LruSubmitLoad(j, K)
      PROVE  LruExact'
  <2>1. SubmitLoad(j, K) /\ e' = Without(e, K)
    BY <1>1 DEF LruSubmitLoad
  <2>2. Evictable' = Evictable \ K
    BY <2>1, SubmitLoadEffect
  <2> QED BY <1>a, <2>1, <2>2
<1>2. ASSUME NEW j \in JobId, LruFinishLoad(j)
      PROVE  LruExact'
  <2> DEFINE T == {k \in jobs[j].keys : blocks[k].ref_cnt = 1}
  <2>1. FinishLoad(j) /\ \E s \in SetToSeqs(T) : e' = e \o s
    BY <1>2 DEF LruFinishLoad
  <2>2. T \in SUBSET Key /\ Evictable' = Evictable \cup T /\ Evictable \cap T = {}
    BY <2>1, FinishLoadEffect
  <2> HIDE DEF T, e
  <2> QED BY <1>b, <2>1, <2>2
<1>3. ASSUME NEW j \in JobId, NEW K \in SUBSET Key, LruSubmitStore(j, K)
      PROVE  LruExact'
  <2> DEFINE es == IF Deficit(K) > 0 THEN LruEvict(Deficit(K), K) ELSE <<>>
  <2>1. /\ e' = Without(e, Range(es))
        /\ \E slot \in Allocations(K, es) : SubmitStore(j, K, es, slot)
    BY <1>3 DEF LruSubmitStore
  <2> HIDE DEF es
  <2>2. Evictable' = Evictable \ Range(es)
    BY <2>1, SubmitStoreEffect
  <2> QED BY <1>a, <2>1, <2>2
<1>4. ASSUME NEW j \in JobId, LruFinishStore(j)
      PROVE  LruExact'
  <2> DEFINE T == jobs[j].keys \cap WritePending
  <2>1. FinishStore(j) /\ \E s \in SetToSeqs(T) : e' = e \o s
    BY <1>4 DEF LruFinishStore
  <2>2. T \in SUBSET Key /\ Evictable' = Evictable \cup T /\ Evictable \cap T = {}
    BY <2>1, FinishStoreEffect
  <2> HIDE DEF T, e
  <2> QED BY <1>b, <2>1, <2>2
<1>5. ASSUME NEW j \in JobId, LruFailStore(j)
      PROVE  LruExact'
  <2>1. FailStore(j) /\ e' = Without(e, jobs[j].keys)
    BY <1>5 DEF LruFailStore
  <2>2. Evictable' = Evictable /\ Evictable \cap jobs[j].keys = {}
    BY <2>1, FailStoreEffect
  <2>3. Evictable' = Evictable \ jobs[j].keys
    BY <2>2
  <2> QED BY <1>a, <2>1, <2>3
<1>6. ASSUME NEW ks \in TouchInputs, LruTouch(ks)
      PROVE  LruExact'
  <2>1. e' = LruTouched(e, ks) /\ blocks' = blocks
    BY <1>6 DEF LruTouch, vars, mgrVars
  <2>2. List(LruTouched(e, ks)) /\ Range(LruTouched(e, ks)) = Range(e)
    BY <1>0, TouchedKeys, TouchOrders
  <2>3. Evictable' = Evictable
    BY <2>1, NoEffect
  <2> QED BY <1>0, <2>1, <2>2, <2>3 DEF LruExact, List
<1>7. CASE LruReset
  <2>1. e' = <<>> /\ Evictable' = {}
    BY <1>7, ResetEffect DEF LruReset
  <2> QED BY <2>1, ListEmpty DEF LruExact, List
<1>8. CASE LruReadEvents
  <2>1. e' = e /\ blocks' = blocks
    BY <1>8 DEF LruReadEvents, ReadEvents, TakeEvents
  <2>2. Evictable' = Evictable
    BY <2>1, NoEffect
  <2> QED BY <1>0, <2>1, <2>2 DEF LruExact, List
<1> QED BY <1>1, <1>2, <1>3, <1>4, <1>5, <1>6, <1>7, <1>8 DEF LruNext

\* Right after a touch a prefix is evicted from its far end, whatever step
\* the touch was.
LEMMA LruKeepsPrefixes ==
  ASSUME LruExact
  PROVE  PrefixesKept
<1> DEFINE e == evictableBlocks
<1>1. SUFFICES ASSUME NEW ks \in TouchInputs, LruTouch(ks),
                      NEW m \in DOMAIN ks, NEW n \in DOMAIN ks, m < n,
                      {ks[m], ks[n]} \subseteq Evictable
               PROVE  \E p, q \in DOMAIN e' : e'[p] = ks[n] /\ e'[q] = ks[m] /\ p < q
  BY DEF PrefixesKept
<1>2. List(ks)
  BY TouchedKeys
<1>3. e' = LruTouched(e, ks)
  BY <1>1 DEF LruTouch
<1>4. List(e) /\ Range(e) = Evictable
  BY DEF LruExact
<1>5. m \in 1 .. Len(ks) /\ n \in 1 .. Len(ks) /\ ks[m] \in Range(e) /\ ks[n] \in Range(e)
  BY <1>1, <1>2, <1>4, ListElim
<1>6. List(LruTouched(e, ks)) /\ Precedes(LruTouched(e, ks), ks[n], ks[m])
  BY <1>1, <1>2, <1>4, <1>5, TouchOrders
<1>7. List(e') /\ Precedes(e', ks[n], ks[m])
  BY <1>3, <1>6 DEF List, Precedes
<1>8. DOMAIN e' = 1 .. Len(e')
  <2>1. e' \in Seq(Key)
    BY <1>7 DEF List
  <2> QED BY <2>1, LenProperties
<1> QED BY <1>7, <1>8 DEF Precedes

-----------------------------------------------------------------------------
(***************************************************************************)
(* ARC (policies/arc.py).                                                  *)
(***************************************************************************)
\* T1, T2, B1 and B2 hold every key at most once, T1 and T2 the cached keys C,
\* T2 none of the pending keys P, and the ghosts none of the cached keys.
Parts(a1, a2, g1, g2, C, P) ==
    /\ List(a1) /\ List(a2) /\ List(g1) /\ List(g2)
    /\ Range(a1) \cap Range(a2) = {} /\ Range(g1) \cap Range(g2) = {}
    /\ Range(a1) \cup Range(a2) = C
    /\ Range(g1) \cap C = {} /\ Range(g2) \cap C = {}
    /\ Range(a2) \cap P = {}

\* The ghosts and the target stay within the cache.
Bounded(g1, g2, t) ==
    /\ Len(g1) <= NumBlocks /\ Len(g2) <= NumBlocks
    /\ t \in 0 .. NumBlocks * Scale

ArcExact ==
    Parts(t1, t2, b1, b2, Cached, WritePending) /\ Bounded(b1, b2, target)

\* This is what the properties of ArcTier ask for.
LEMMA ArcExactImplies ==
  ArcExact => ListsPartition /\ PendingStaysInT1 /\ GhostsBounded
<1> SUFFICES ASSUME ArcExact PROVE ListsPartition /\ PendingStaysInT1 /\ GhostsBounded
  OBVIOUS
<1>1. /\ IsInjective(t1) /\ IsInjective(t2) /\ IsInjective(b1) /\ IsInjective(b2)
      /\ Range(t1) \cap Range(t2) = {} /\ Range(b1) \cap Range(b2) = {}
      /\ Range(t1) \cup Range(t2) = Cached
      /\ Range(b1) \cap Cached = {} /\ Range(b2) \cap Cached = {}
      /\ Range(t2) \cap WritePending = {}
  BY DEF ArcExact, Parts, List
<1> DEFINE lists == <<t1, t2, b1, b2>>
<1>2. 1 .. 4 = {1, 2, 3, 4}
  OBVIOUS
<1>3. lists[1] = t1 /\ lists[2] = t2 /\ lists[3] = b1 /\ lists[4] = b2
  OBVIOUS
<1> HIDE DEF lists
<1>4. \A m \in 1 .. 4 : IsInjective(lists[m])
  BY <1>1, <1>2, <1>3
<1>5. \A m, n \in 1 .. 4 : m # n => Range(lists[m]) \cap Range(lists[n]) = {}
  BY <1>1, <1>2, <1>3
<1>6. ListsPartition
  BY <1>1, <1>4, <1>5 DEF ListsPartition, lists
<1>7. PendingStaysInT1
  BY <1>1 DEF PendingStaysInT1
<1>8. GhostsBounded
  BY DEF ArcExact, Bounded, GhostsBounded
<1> QED BY <1>6, <1>7, <1>8

\* The target moves up to the size of the cache, in units of 1 / Scale.
LEMMA CapIsNat == NumBlocks * Scale \in Nat
  BY NumBlocksAssumption, ScaleAssumption

\* A ghost hit moves the target by at least nothing.
LEMMA DeltaIsNat ==
  ASSUME NEW own, NEW other, Len(own) \in Nat, Len(other) \in Nat, Len(own) > 0
  PROVE  Delta(own, other) \in Nat
<1> DEFINE a == Scale * Len(other)
           b == Len(own)
<1>1. Scale \in Nat /\ a \in Nat /\ b \in Nat /\ b > 0
  BY ScaleAssumption
<1>2. a \div b \in Nat
  <2> HIDE DEF a, b
  <2> QED BY <1>1
<1>3. Delta(own, other) = IF Len(other) > Len(own) THEN a \div b ELSE Scale
  BY DEF Delta
<1> HIDE DEF a
<1> QED BY <1>1, <1>2, <1>3

\* A ghost list cut to the capacity of the cache.
LEMMA TrimBounds ==
  ASSUME NEW g, List(g)
  PROVE  List(Trim(g)) /\ Range(Trim(g)) \subseteq Range(g) /\ Len(Trim(g)) <= NumBlocks
<1> DEFINE excess == Len(g) - NumBlocks
<1>1. Len(g) \in Nat /\ NumBlocks \in Nat
  BY ListElim, NumBlocksAssumption
<1>2. Trim(g) = IF excess > 0 THEN SubSeq(g, excess + 1, Len(g)) ELSE g
  BY DEF Trim
<1>3. CASE excess > 0
  <2> DEFINE m == excess + 1
             t == SubSeq(g, m, Len(g))
  <2>1. m \in Nat \ {0} /\ Len(g) \in 0 .. Len(g) /\ m <= Len(g) + 1
        /\ Len(g) - m + 1 = NumBlocks
    BY <1>1, <1>3
  <2> HIDE DEF m
  <2>2. List(t) /\ Range(t) \subseteq Range(g) /\ Len(t) = Len(g) - m + 1
    BY <2>1, ListPart
  <2>3. Trim(g) = t
    BY <1>2, <1>3 DEF m
  <2> QED BY <1>1, <2>1, <2>2, <2>3
<1>4. CASE ~(excess > 0)
  BY <1>1, <1>2, <1>4
<1> QED BY <1>3, <1>4

-----------------------------------------------------------------------------
(***************************************************************************)
(* The touch of ARC.                                                       *)
(***************************************************************************)
\* The states of the lists that satisfy the invariant.
ListStates ==
    {s \in [t1 : Seq(Key), t2 : Seq(Key), b1 : Seq(Key), b2 : Seq(Key), target : Int] :
        Parts(s.t1, s.t2, s.b1, s.b2, Cached, WritePending)
        /\ Bounded(s.b1, s.b2, s.target)}

\* The touch of one key keeps the invariant: a cached key stays cached, and a
\* ghost a ghost.
LEMMA ArcMoveKeeps ==
  ASSUME NEW s \in ListStates, NEW k \in Key
  PROVE  ArcMove(s, k) \in ListStates
<1> DEFINE a1 == s.t1
           a2 == s.t2
           g1 == s.b1
           g2 == s.b2
           x == ArcMove(s, k)
<1>1. /\ s \in [t1 : Seq(Key), t2 : Seq(Key), b1 : Seq(Key), b2 : Seq(Key), target : Int]
      /\ Parts(a1, a2, g1, g2, Cached, WritePending) /\ Bounded(g1, g2, s.target)
  BY DEF ListStates
<1>2. /\ List(a1) /\ List(a2) /\ List(g1) /\ List(g2)
      /\ Range(a1) \cap Range(a2) = {} /\ Range(g1) \cap Range(g2) = {}
      /\ Range(a1) \cup Range(a2) = Cached
      /\ Range(g1) \cap Cached = {} /\ Range(g2) \cap Cached = {}
      /\ Range(a2) \cap WritePending = {}
  BY <1>1 DEF Parts
<1>3. /\ Len(g1) <= NumBlocks /\ Len(g2) <= NumBlocks
      /\ s.target \in 0 .. NumBlocks * Scale /\ NumBlocks * Scale \in Nat
  BY <1>1, CapIsNat DEF Bounded
<1>4. ASSUME NEW c1, NEW c2, NEW h1, NEW h2, NEW t,
             x = [s EXCEPT !.t1 = c1, !.t2 = c2, !.b1 = h1, !.b2 = h2, !.target = t],
             Parts(c1, c2, h1, h2, Cached, WritePending), Bounded(h1, h2, t)
      PROVE  x \in ListStates
  <2>1. /\ c1 \in Seq(Key) /\ c2 \in Seq(Key) /\ h1 \in Seq(Key) /\ h2 \in Seq(Key)
        /\ t \in Int
    BY <1>3, <1>4 DEF Parts, List, Bounded
  <2>2. /\ x \in [t1 : Seq(Key), t2 : Seq(Key), b1 : Seq(Key), b2 : Seq(Key), target : Int]
        /\ x.t1 = c1 /\ x.t2 = c2 /\ x.b1 = h1 /\ x.b2 = h2 /\ x.target = t
    BY <1>1, <1>4, <2>1
  <2> QED BY <1>4, <2>2 DEF ListStates
<1>5. s = [s EXCEPT !.t1 = a1, !.t2 = a2, !.b1 = g1, !.b2 = g2, !.target = s.target]
  BY <1>1
<1>6. CASE k \in Range(a1)
  <2>1. x = Promote(s, k)
    <3>1. k \notin Range(a2) /\ k \notin Range(g1) /\ k \notin Range(g2)
      BY <1>2, <1>6
    <3> QED BY <1>6, <3>1 DEF ArcMove
  <2>2. CASE Ready(k)
    <3> DEFINE c1 == Without(a1, {k})
               c2 == Append(a2, k)
    <3>1. x = [s EXCEPT !.t1 = c1, !.t2 = c2]
      BY <2>1, <2>2 DEF Promote
    <3>2. x = [s EXCEPT !.t1 = c1, !.t2 = c2, !.b1 = g1, !.b2 = g2, !.target = s.target]
      BY <1>1, <3>1
    <3>3. List(c1) /\ Range(c1) = Range(a1) \ {k}
      BY <1>2, ListWithout
    <3>4. List(c2) /\ Range(c2) = Range(a2) \cup {k}
      BY <1>2, <1>6, ListAppend
    <3>5. k \notin WritePending
      BY <2>2 DEF WritePending, Ready
    <3> HIDE DEF c1, c2
    <3>6. Parts(c1, c2, g1, g2, Cached, WritePending)
      BY <1>2, <1>6, <3>3, <3>4, <3>5 DEF Parts
    <3> QED BY <1>1, <1>4, <3>2, <3>6
  <2>3. CASE ~Ready(k)
    <3> DEFINE c1 == MoveToEnd(a1, k)
    <3>1. x = [s EXCEPT !.t1 = c1]
      BY <2>1, <2>3 DEF Promote
    <3>2. x = [s EXCEPT !.t1 = c1, !.t2 = a2, !.b1 = g1, !.b2 = g2, !.target = s.target]
      BY <1>1, <3>1
    <3>3. List(c1) /\ Range(c1) = Range(a1)
      BY <1>2, <1>6, MoveKeeps
    <3> HIDE DEF c1
    <3>4. Parts(c1, a2, g1, g2, Cached, WritePending)
      BY <1>2, <3>3 DEF Parts
    <3> QED BY <1>1, <1>4, <3>2, <3>4
  <2> QED BY <2>2, <2>3
<1>7. CASE k \notin Range(a1) /\ k \in Range(a2)
  <2> DEFINE c2 == MoveToEnd(a2, k)
  <2>1. x = [s EXCEPT !.t2 = c2]
    <3>1. k \notin Range(g1) /\ k \notin Range(g2)
      BY <1>2, <1>7
    <3> QED BY <1>7, <3>1 DEF ArcMove
  <2>2. x = [s EXCEPT !.t1 = a1, !.t2 = c2, !.b1 = g1, !.b2 = g2, !.target = s.target]
    BY <1>1, <2>1
  <2>3. List(c2) /\ Range(c2) = Range(a2)
    BY <1>2, <1>7, MoveKeeps
  <2> HIDE DEF c2
  <2>4. Parts(a1, c2, g1, g2, Cached, WritePending)
    BY <1>2, <2>3 DEF Parts
  <2> QED BY <1>1, <1>4, <2>2, <2>4
<1>8. CASE k \notin Range(a1) /\ k \notin Range(a2) /\ k \in Range(g1)
  <2> DEFINE h1 == MoveToEnd(g1, k)
             up == s.target + Delta(g1, g2)
             t == IF up > NumBlocks * Scale THEN NumBlocks * Scale ELSE up
  <2>1. x = [s EXCEPT !.b1 = h1, !.target = t]
    BY <1>8 DEF ArcMove
  <2>2. x = [s EXCEPT !.t1 = a1, !.t2 = a2, !.b1 = h1, !.b2 = g2, !.target = t]
    BY <1>1, <2>1
  <2>3. List(h1) /\ Range(h1) = Range(g1) /\ Len(h1) = Len(g1)
    BY <1>2, <1>8, MoveKeeps
  <2>4. Len(g1) \in Nat /\ Len(g2) \in Nat /\ Len(g1) > 0
    <3>1. Len(g1) \in Nat /\ Len(g2) \in Nat /\ \E i \in 1 .. Len(g1) : g1[i] = k
      BY <1>2, <1>8, ListElim
    <3> QED BY <3>1
  <2>5. Delta(g1, g2) \in Nat
    BY <2>4, DeltaIsNat
  <2>6. t \in 0 .. NumBlocks * Scale
    <3> DEFINE cap == NumBlocks * Scale
               d == Delta(g1, g2)
    <3>1. s.target \in 0 .. cap /\ cap \in Nat /\ d \in Nat
      BY <1>3, <2>5
    <3>2. t = IF s.target + d > cap THEN cap ELSE s.target + d
      OBVIOUS
    <3> HIDE DEF cap, d, t
    <3>3. t \in 0 .. cap
      BY <3>1, <3>2
    <3> QED BY <3>3 DEF cap
  <2> HIDE DEF h1, t
  <2>7. Parts(a1, a2, h1, g2, Cached, WritePending)
    BY <1>2, <2>3 DEF Parts
  <2>8. Bounded(h1, g2, t)
    BY <1>3, <2>3, <2>6 DEF Bounded
  <2> QED BY <1>4, <2>2, <2>7, <2>8
<1>9. CASE k \notin Range(a1) /\ k \notin Range(a2) /\ k \notin Range(g1) /\ k \in Range(g2)
  <2> DEFINE h2 == MoveToEnd(g2, k)
             down == s.target - Delta(g2, g1)
             t == IF down < 0 THEN 0 ELSE down
  <2>1. x = [s EXCEPT !.b2 = h2, !.target = t]
    BY <1>9 DEF ArcMove
  <2>2. x = [s EXCEPT !.t1 = a1, !.t2 = a2, !.b1 = g1, !.b2 = h2, !.target = t]
    BY <1>1, <2>1
  <2>3. List(h2) /\ Range(h2) = Range(g2) /\ Len(h2) = Len(g2)
    BY <1>2, <1>9, MoveKeeps
  <2>4. Len(g1) \in Nat /\ Len(g2) \in Nat /\ Len(g2) > 0
    <3>1. Len(g1) \in Nat /\ Len(g2) \in Nat /\ \E i \in 1 .. Len(g2) : g2[i] = k
      BY <1>2, <1>9, ListElim
    <3> QED BY <3>1
  <2>5. Delta(g2, g1) \in Nat
    BY <2>4, DeltaIsNat
  <2>6. t \in 0 .. NumBlocks * Scale
    <3> DEFINE cap == NumBlocks * Scale
               d == Delta(g2, g1)
    <3>1. s.target \in 0 .. cap /\ cap \in Nat /\ d \in Nat
      BY <1>3, <2>5
    <3>2. t = IF s.target - d < 0 THEN 0 ELSE s.target - d
      OBVIOUS
    <3> HIDE DEF cap, d, t
    <3>3. t \in 0 .. cap
      BY <3>1, <3>2
    <3> QED BY <3>3 DEF cap
  <2> HIDE DEF h2, t
  <2>7. Parts(a1, a2, g1, h2, Cached, WritePending)
    BY <1>2, <2>3 DEF Parts
  <2>8. Bounded(g1, h2, t)
    BY <1>3, <2>3, <2>6 DEF Bounded
  <2> QED BY <1>4, <2>2, <2>7, <2>8
<1>10. CASE k \notin Range(a1) /\ k \notin Range(a2) /\ k \notin Range(g1) /\ k \notin Range(g2)
  <2>1. x = s
    BY <1>10 DEF ArcMove
  <2> QED BY <2>1
<1> QED BY <1>6, <1>7, <1>8, <1>9, <1>10

\* So does the touch of any sequence of keys.
LEMMA ArcTouchKeeps ==
  ASSUME NEW s \in ListStates, NEW ks \in Seq(Key)
  PROVE  ArcTouched(s, ks) \in ListStates
<1> DEFINE L == Len(ks)
           step(n, x) == ArcMove(x, ks[L - n + 1])
           g == [p \in (1 .. L) \X ListStates |-> step(p[1], p[2])]
           Is(f) == f = [n \in 0 .. L |-> IF n = 0 THEN s ELSE step(n, f[n - 1])]
<1>1. L \in Nat /\ \A n \in 1 .. L : ks[n] \in Key
  BY LenProperties, ElementOfSeq
<1>2. \A n \in 1 .. L : ks[L - n + 1] \in Key
  <2> HIDE DEF L
  <2>1. \A n \in 1 .. L : L - n + 1 \in 1 .. L
    BY <1>1
  <2> QED BY <1>1, <2>1
<1>3. \A n \in 1 .. L, x \in ListStates : step(n, x) \in ListStates
  <2> HIDE DEF L
  <2> QED BY <1>2, ArcMoveKeeps
<1>4. g \in [(1 .. L) \X ListStates -> ListStates]
  <2> HIDE DEF step, L
  <2> QED BY <1>3
<1>5. PICK f \in [0 .. L -> ListStates] : Iterates(f, s, g, L)
  <2> HIDE DEF g, L
  <2> QED BY <1>1, <1>4, IterationExists
<1>6. \A n \in 1 .. L : f[n] = step(n, f[n - 1])
  <2>1. SUFFICES ASSUME NEW n \in 1 .. L PROVE f[n] = step(n, f[n - 1])
    OBVIOUS
  <2>2. <<n, f[n - 1]>> \in (1 .. L) \X ListStates
    <3>1. n - 1 \in 0 .. L
      BY <1>1
    <3> HIDE DEF L
    <3> QED BY <3>1
  <2>3. f[n] = g[<<n, f[n - 1]>>]
    BY <1>5 DEF Iterates
  <2> HIDE DEF step, L
  <2> QED BY <2>2, <2>3 DEF g
<1>7. Is(f)
  <2>1. f[0] = s
    BY <1>5 DEF Iterates
  <2>2. \A n \in 0 .. L : n # 0 => n \in 1 .. L
    BY <1>1
  <2> HIDE DEF step, L, g
  <2> QED BY <1>6, <2>1, <2>2
<1> DEFINE r == CHOOSE f_1 : Is(f_1)
<1>8. Is(r)
  <2> HIDE DEF Is
  <2> QED BY <1>7
<1>9. ArcTouched(s, ks) = r[L]
  BY DEF ArcTouched
<1> HIDE DEF r
<1>10. r[0] = s /\ \A n \in 1 .. L : r[n] = step(n, r[n - 1])
  <2>1. 0 \in 0 .. L /\ \A n \in 1 .. L : n \in 0 .. L /\ n # 0
    BY <1>1
  <2> HIDE DEF step, L
  <2> QED BY <1>8, <2>1
<1> DEFINE P == {n \in 0 .. L : r[n] \in ListStates}
<1>11. 0 \in P
  <2>1. 0 \in 0 .. L
    BY <1>1
  <2> QED BY <1>10, <2>1
<1>12. ASSUME NEW n \in 1 .. L, n - 1 \in P PROVE n \in P
  <2> HIDE DEF step, L
  <2>1. step(n, r[n - 1]) \in ListStates
    BY <1>3, <1>12
  <2>2. n \in 0 .. L
    BY <1>1
  <2>3. r[n] = step(n, r[n - 1])
    BY <1>10
  <2> QED BY <2>1, <2>2, <2>3
<1> HIDE DEF P
<1>13. 0 .. L \subseteq P
  BY <1>1, <1>11, <1>12, UpTo
<1>14. L \in P
  BY <1>1, <1>13
<1> QED BY <1>9, <1>14 DEF P

-----------------------------------------------------------------------------
(***************************************************************************)
(* The eviction of ARC.                                                    *)
(***************************************************************************)
\* The first n candidates.
Firsts(c, n) == {c[i] : i \in 1 .. n}

\* The states of the simulation: the victims are the first candidates of
\* either list, each once.
Simulations(c1, c2) ==
    {s \in [n1 : Nat, n2 : Nat, keys : Seq(Key), short : BOOLEAN] :
        /\ s.n1 <= Len(c1) /\ s.n2 <= Len(c2)
        /\ List(s.keys)
        /\ Range(s.keys) = Firsts(c1, s.n1) \cup Firsts(c2, s.n2)}

\* One candidate more is a candidate, and none of those before it.
LEMMA NextFirst ==
  ASSUME NEW c, List(c), NEW n \in Nat, n < Len(c)
  PROVE  /\ n + 1 \in Nat /\ n + 1 <= Len(c)
         /\ c[n + 1] \in Key /\ c[n + 1] \in Range(c) /\ c[n + 1] \notin Firsts(c, n)
         /\ Firsts(c, n + 1) = Firsts(c, n) \cup {c[n + 1]}
<1>1. /\ Len(c) \in Nat
      /\ \A i \in 1 .. Len(c) : c[i] \in Key /\ c[i] \in Range(c)
      /\ \A i, j \in 1 .. Len(c) : c[i] = c[j] => i = j
  BY ListElim
<1>2. n + 1 \in 1 .. Len(c) /\ n + 1 <= Len(c) /\ n + 1 \in Nat
  BY <1>1
<1>3. \A i \in 1 .. n : i \in 1 .. Len(c) /\ i # n + 1
  BY <1>1
<1>4. c[n + 1] \notin Firsts(c, n)
  BY <1>1, <1>2, <1>3 DEF Firsts
<1>5. 1 .. n + 1 = (1 .. n) \cup {n + 1}
  OBVIOUS
<1>6. Firsts(c, n + 1) = Firsts(c, n) \cup {c[n + 1]}
  BY <1>5 DEF Firsts
<1> QED BY <1>1, <1>2, <1>4, <1>6

\* The first candidates are candidates.
LEMMA FirstsAre ==
  ASSUME NEW c, List(c), NEW n \in Nat, n <= Len(c)
  PROVE  Firsts(c, n) \subseteq Range(c)
<1>1. Len(c) \in Nat /\ \A i \in 1 .. Len(c) : c[i] \in Range(c)
  BY ListElim
<1>2. \A i \in 1 .. n : i \in 1 .. Len(c)
  BY <1>1
<1> QED BY <1>1, <1>2 DEF Firsts

\* One step of the simulation.
LEMMA PickKeeps ==
  ASSUME NEW c1, List(c1), NEW c2, List(c2), Range(c1) \cap Range(c2) = {},
         NEW s \in Simulations(c1, c2)
  PROVE  Pick(s, c1, c2) \in Simulations(c1, c2)
<1> DEFINE x == Pick(s, c1, c2)
           R == [n1 : Nat, n2 : Nat, keys : Seq(Key), short : BOOLEAN]
<1>1. /\ s \in R
      /\ s.n1 \in Nat /\ s.n2 \in Nat
      /\ s.n1 <= Len(c1) /\ s.n2 <= Len(c2)
      /\ List(s.keys) /\ s.keys \in Seq(Key)
      /\ Range(s.keys) = Firsts(c1, s.n1) \cup Firsts(c2, s.n2)
  BY DEF Simulations
<1>2. Firsts(c1, s.n1) \subseteq Range(c1) /\ Firsts(c2, s.n2) \subseteq Range(c2)
  BY <1>1, FirstsAre
<1>3. Len(c1) \in Nat /\ Len(c2) \in Nat
  BY ListElim
<1>4. CASE x = s
  BY <1>4
<1>5. CASE x = [s EXCEPT !.short = TRUE]
  <2>1. x \in R /\ x.n1 = s.n1 /\ x.n2 = s.n2 /\ x.keys = s.keys
    BY <1>1, <1>5
  <2> QED BY <1>1, <2>1 DEF Simulations
<1>6. CASE s.n1 < Len(c1)
           /\ x = [s EXCEPT !.n1 = @ + 1, !.keys = Append(@, c1[s.n1 + 1])]
  <2> DEFINE k == c1[s.n1 + 1]
             ks == Append(s.keys, k)
  <2>1. /\ s.n1 + 1 \in Nat /\ s.n1 + 1 <= Len(c1)
        /\ k \in Key /\ k \in Range(c1) /\ k \notin Firsts(c1, s.n1)
        /\ Firsts(c1, s.n1 + 1) = Firsts(c1, s.n1) \cup {k}
    BY <1>1, <1>6, NextFirst
  <2> HIDE DEF k
  <2>2. k \notin Range(s.keys)
    BY <1>1, <1>2, <2>1
  <2>3. List(ks) /\ Range(ks) = Range(s.keys) \cup {k}
    BY <1>1, <2>1, <2>2, ListAppend
  <2>4. ks \in Seq(Key)
    BY <2>3 DEF List
  <2>5. x = [s EXCEPT !.n1 = s.n1 + 1, !.keys = ks]
    BY <1>6 DEF k
  <2> HIDE DEF ks, x
  <2>6. x \in R /\ x.n1 = s.n1 + 1 /\ x.n2 = s.n2 /\ x.keys = ks
    BY <1>1, <2>1, <2>4, <2>5
  <2>7. Range(ks) = Firsts(c1, s.n1 + 1) \cup Firsts(c2, s.n2)
    BY <1>1, <2>1, <2>3
  <2>8. x \in Simulations(c1, c2)
    BY <1>1, <2>1, <2>3, <2>6, <2>7 DEF Simulations
  <2> QED BY <2>8 DEF x
<1>7. CASE s.n2 < Len(c2)
           /\ x = [s EXCEPT !.n2 = @ + 1, !.keys = Append(@, c2[s.n2 + 1])]
  <2> DEFINE k == c2[s.n2 + 1]
             ks == Append(s.keys, k)
  <2>1. /\ s.n2 + 1 \in Nat /\ s.n2 + 1 <= Len(c2)
        /\ k \in Key /\ k \in Range(c2) /\ k \notin Firsts(c2, s.n2)
        /\ Firsts(c2, s.n2 + 1) = Firsts(c2, s.n2) \cup {k}
    BY <1>1, <1>7, NextFirst
  <2> HIDE DEF k
  <2>2. k \notin Range(s.keys)
    BY <1>1, <1>2, <2>1
  <2>3. List(ks) /\ Range(ks) = Range(s.keys) \cup {k}
    BY <1>1, <2>1, <2>2, ListAppend
  <2>4. ks \in Seq(Key)
    BY <2>3 DEF List
  <2>5. x = [s EXCEPT !.n2 = s.n2 + 1, !.keys = ks]
    BY <1>7 DEF k
  <2> HIDE DEF ks, x
  <2>6. x \in R /\ x.n2 = s.n2 + 1 /\ x.n1 = s.n1 /\ x.keys = ks
    BY <1>1, <2>1, <2>4, <2>5
  <2>7. Range(ks) = Firsts(c1, s.n1) \cup Firsts(c2, s.n2 + 1)
    BY <1>1, <2>1, <2>3
  <2>8. x \in Simulations(c1, c2)
    BY <1>1, <2>1, <2>3, <2>6, <2>7 DEF Simulations
  <2> QED BY <2>8 DEF x
<1>8. \/ x = s
      \/ x = [s EXCEPT !.short = TRUE]
      \/ /\ s.n1 < Len(c1)
         /\ x = [s EXCEPT !.n1 = @ + 1, !.keys = Append(@, c1[s.n1 + 1])]
      \/ /\ s.n2 < Len(c2)
         /\ x = [s EXCEPT !.n2 = @ + 1, !.keys = Append(@, c2[s.n2 + 1])]
  BY DEF Pick
<1> QED BY <1>4, <1>5, <1>6, <1>7, <1>8

\* The victims are distinct idle blocks, none of them protected.
LEMMA ArcEvictPicks ==
  ASSUME ArcExact, NEW n \in Nat, NEW K
  PROVE  /\ List(ArcVictims(n, K))
         /\ Range(ArcVictims(n, K)) \subseteq Evictable \ K
<1> DEFINE c1 == Idle(t1, K)
           c2 == Idle(t2, K)
           X == Simulations(c1, c2)
           x0 == [n1 |-> 0, n2 |-> 0, keys |-> <<>>, short |-> FALSE]
           step(i, x) == Pick(x, c1, c2)
           g == [p \in (1 .. n) \X X |-> step(p[1], p[2])]
           Is(f) == f = [i \in 0 .. n |-> IF i = 0 THEN x0 ELSE step(i, f[i - 1])]
<1>1. /\ List(c1) /\ Range(c1) = Range(t1) \ ((Key \ Evictable) \cup K)
      /\ List(c2) /\ Range(c2) = Range(t2) \ ((Key \ Evictable) \cup K)
  BY ListWithout DEF ArcExact, Parts, Idle
<1>2. /\ Range(c1) \subseteq Evictable \ K /\ Range(c2) \subseteq Evictable \ K
      /\ Range(c1) \cap Range(c2) = {}
  <2>1. Range(t1) \subseteq Key /\ Range(t2) \subseteq Key /\ Range(t1) \cap Range(t2) = {}
    BY ListElim DEF ArcExact, Parts
  <2> QED BY <1>1, <2>1
<1> HIDE DEF c1, c2
<1>3. x0 \in X
  <2>1. Firsts(c1, 0) = {} /\ Firsts(c2, 0) = {}
    BY DEF Firsts
  <2>2. Len(c1) \in Nat /\ Len(c2) \in Nat
    BY <1>1, ListElim
  <2>3. <<>> \in Seq(Key)
    BY ListEmpty DEF List
  <2>4. x0 \in [n1 : Nat, n2 : Nat, keys : Seq(Key), short : BOOLEAN]
        /\ x0.n1 = 0 /\ x0.n2 = 0 /\ x0.keys = <<>>
    BY <2>3
  <2> QED BY <2>1, <2>2, <2>4, ListEmpty DEF Simulations
<1>4. \A i \in 1 .. n, x \in X : step(i, x) \in X
  BY <1>1, <1>2, PickKeeps
<1>5. g \in [(1 .. n) \X X -> X]
  <2> HIDE DEF step, X
  <2> QED BY <1>4
<1>6. PICK f \in [0 .. n -> X] : Iterates(f, x0, g, n)
  <2> HIDE DEF g, X, x0
  <2> QED BY <1>3, <1>5, IterationExists
<1>7. \A i \in 1 .. n : f[i] = step(i, f[i - 1])
  <2>1. SUFFICES ASSUME NEW i \in 1 .. n PROVE f[i] = step(i, f[i - 1])
    OBVIOUS
  <2> HIDE DEF step, X, x0
  <2>2. <<i, f[i - 1]>> \in (1 .. n) \X X
    <3>1. i - 1 \in 0 .. n
      OBVIOUS
    <3> QED BY <3>1
  <2>3. f[i] = g[<<i, f[i - 1]>>]
    BY <1>6 DEF Iterates
  <2> QED BY <2>2, <2>3 DEF g
<1>8. Is(f)
  <2> HIDE DEF step, X, x0, g
  <2>1. f[0] = x0
    BY <1>6 DEF Iterates
  <2>2. \A i \in 0 .. n : i # 0 => i \in 1 .. n
    OBVIOUS
  <2> QED BY <1>7, <2>1, <2>2
<1> DEFINE r == CHOOSE f_1 : Is(f_1)
<1>9. Is(r)
  <2> HIDE DEF Is
  <2> QED BY <1>8
<1>10. ArcVictims(n, K) = r[n].keys
  BY DEF ArcVictims, c1, c2
<1> HIDE DEF r, X, x0
<1>11. r[0] = x0 /\ \A i \in 1 .. n : r[i] = step(i, r[i - 1])
  <2>1. 0 \in 0 .. n /\ \A i \in 1 .. n : i \in 0 .. n /\ i # 0
    OBVIOUS
  <2> HIDE DEF step
  <2> QED BY <1>9, <2>1
<1> DEFINE P == {i \in 0 .. n : r[i] \in X}
<1>12. 0 \in P
  BY <1>3, <1>11
<1>13. ASSUME NEW i \in 1 .. n, i - 1 \in P PROVE i \in P
  <2> HIDE DEF step
  <2>1. step(i, r[i - 1]) \in X
    BY <1>4, <1>13
  <2>2. r[i] = step(i, r[i - 1]) /\ i \in 0 .. n
    BY <1>11
  <2> QED BY <2>1, <2>2
<1> HIDE DEF P
<1>14. 0 .. n \subseteq P
  BY <1>12, <1>13, UpTo
<1>15. r[n] \in X
  BY <1>14 DEF P
<1>16. /\ r[n].n1 \in Nat /\ r[n].n2 \in Nat
       /\ r[n].n1 <= Len(c1) /\ r[n].n2 <= Len(c2)
       /\ List(r[n].keys)
       /\ Range(r[n].keys) = Firsts(c1, r[n].n1) \cup Firsts(c2, r[n].n2)
  BY <1>15 DEF X, Simulations
<1>17. Firsts(c1, r[n].n1) \subseteq Range(c1) /\ Firsts(c2, r[n].n2) \subseteq Range(c2)
  BY <1>1, <1>16, FirstsAre
<1> QED BY <1>2, <1>10, <1>16, <1>17

\* The victims that come from one list, added to its ghosts, and the new keys
\* taken out of them.
Ghosts(own, list, es, K) ==
    Without(IF Deficit(K) > 0 THEN Trim(own \o Without(es, Key \ Range(list))) ELSE own,
            New(K))

\* The ghosts of one list after an eviction: still within the capacity, and
\* no others than it had and the victims from that list.
LEMMA GhostsAfterEviction ==
  ASSUME NEW own, List(own), Len(own) <= NumBlocks, NEW list, NEW es, List(es),
         Range(own) \cap Range(list) = {}, NEW K
  PROVE  LET g == Ghosts(own, list, es, K) IN
         /\ List(g) /\ Len(g) <= NumBlocks
         /\ Range(g) \subseteq (Range(own) \cup (Range(es) \cap Range(list))) \ New(K)
<1> DEFINE from == Without(es, Key \ Range(list))
           grown == own \o from
           kept == IF Deficit(K) > 0 THEN Trim(grown) ELSE own
           g == Without(kept, New(K))
<1>1. /\ List(from) /\ Range(from) = Range(es) \ (Key \ Range(list))
      /\ Range(es) \subseteq Key
  BY ListWithout, ListElim
<1>2. Range(from) = Range(es) \cap Range(list)
  BY <1>1
<1> HIDE DEF from
<1>3. List(grown) /\ Range(grown) = Range(own) \cup Range(from)
  BY <1>1, <1>2, ListConcat
<1> HIDE DEF grown
<1>4. List(Trim(grown)) /\ Range(Trim(grown)) \subseteq Range(grown)
      /\ Len(Trim(grown)) <= NumBlocks
  BY <1>3, TrimBounds
<1>5. /\ List(kept) /\ Len(kept) <= NumBlocks
      /\ Range(kept) \subseteq Range(own) \cup (Range(es) \cap Range(list))
  BY <1>2, <1>3, <1>4
<1>6. g = Ghosts(own, list, es, K)
  BY DEF Ghosts, grown, from
<1> HIDE DEF kept
<1>7. List(g) /\ Range(g) = Range(kept) \ New(K) /\ Len(g) <= Len(kept)
  BY <1>5, ListWithout
<1> HIDE DEF g
<1>8. Len(g) <= NumBlocks
  <2>1. Len(g) \in Nat /\ Len(kept) \in Nat
    BY <1>5, <1>7, ListElim
  <2> QED BY <1>5, <1>7, <2>1, NumBlocksAssumption
<1> QED BY <1>5, <1>6, <1>7, <1>8

\* The victims of a store, none when none is needed.
ArcStoreVictims(K) == IF Deficit(K) > 0 THEN ArcVictims(Deficit(K), K) ELSE <<>>

\* A store with ARC, in the words of the lemmas.
LEMMA ArcStoreElim ==
  ASSUME NEW j, NEW K, ArcSubmitStore(j, K)
  PROVE  LET es == ArcStoreVictims(K) IN
         /\ Deficit(K) > 0 => Len(es) = Deficit(K)
         /\ \E slot \in Allocations(K, es) : SubmitStore(j, K, es, slot)
         /\ \E s \in SetToSeqs(New(K)) : t1' = Without(t1, Range(es)) \o s
         /\ t2' = Without(t2, Range(es))
         /\ b1' = Ghosts(b1, t1, es, K) /\ b2' = Ghosts(b2, t2, es, K)
         /\ target' = target
  BY DEF ArcSubmitStore, ArcStoreVictims, Ghosts

\* They are distinct idle blocks, none of them of the store.
LEMMA ArcStorePicks ==
  ASSUME IInv, ArcExact, NEW K \in SUBSET Key
  PROVE  /\ List(ArcStoreVictims(K))
         /\ Range(ArcStoreVictims(K)) \subseteq Evictable \ K
<1>1. Deficit(K) \in Int
  BY DeficitType
<1>2. CASE Deficit(K) > 0
  <2>1. Deficit(K) \in Nat
    BY <1>1, <1>2
  <2> QED BY <1>2, <2>1, ArcEvictPicks DEF ArcStoreVictims
<1>3. CASE ~(Deficit(K) > 0)
  BY <1>3, ListEmpty DEF ArcStoreVictims
<1> QED BY <1>2, <1>3

\* Every step with ARC is a step that CpuTier allows.
LEMMA ArcNextIsNext ==
  ASSUME IInv, ArcExact, ArcNext
  PROVE  [Next]_vars
<1>1. ASSUME NEW j \in JobId, NEW K \in SUBSET Key, ArcSubmitLoad(j, K)
      PROVE  Next
  BY <1>1 DEF ArcSubmitLoad, Next
<1>2. ASSUME NEW j \in JobId, ArcFinishLoad(j)
      PROVE  Next
  BY <1>2 DEF ArcFinishLoad, Next
<1>3. ASSUME NEW j \in JobId, NEW K \in SUBSET Key, ArcSubmitStore(j, K)
      PROVE  Next
  <2> DEFINE n == Deficit(K)
             es == ArcStoreVictims(K)
  <2>1. /\ n > 0 => Len(es) = n
        /\ \E slot \in Allocations(K, es) : SubmitStore(j, K, es, slot)
    BY <1>3, ArcStoreElim
  <2>2. List(es) /\ Range(es) \subseteq Evictable \ K
    BY ArcStorePicks
  <2>3. n \in Int
    BY DeficitType
  <2>4. ~(n > 0) => es = <<>>
    BY DEF ArcStoreVictims
  <2> HIDE DEF es
  <2>5. es \in Evictions(Len(es), K)
    BY <2>2, VictimsAllowed
  <2>6. n > 0 => es \in Evictions(n, K)
    BY <2>1, <2>5
  <2>7. es \in EvictionsFor(K)
    BY <2>3, <2>4, <2>6, VictimsForStore
  <2> QED BY <2>1, <2>7 DEF Next
<1>4. ASSUME NEW j \in JobId, ArcFinishStore(j)
      PROVE  Next
  BY <1>4 DEF ArcFinishStore, Next
<1>5. ASSUME NEW j \in JobId, ArcFailStore(j)
      PROVE  Next
  BY <1>5 DEF ArcFailStore, Next
<1>6. ASSUME NEW ks \in TouchInputs, ArcTouch(ks)
      PROVE  UNCHANGED vars
  BY <1>6 DEF ArcTouch
<1>7. CASE ArcReset
  BY <1>7 DEF ArcReset, Next
<1>8. CASE ArcReadEvents
  BY <1>8 DEF ArcReadEvents, Next
<1> QED BY <1>1, <1>2, <1>3, <1>4, <1>5, <1>6, <1>7, <1>8 DEF ArcNext

\* A store keeps the lists of ARC exact: its victims leave T1 and T2 for B1
\* and B2, its keys enter T1 and leave the ghosts.
LEMMA ArcStoreKeeps ==
  ASSUME IInv, ArcExact, NEW j \in JobId, NEW K \in SUBSET Key, ArcSubmitStore(j, K)
  PROVE  ArcExact'
<1> DEFINE es == ArcStoreVictims(K)
           E == Range(es)
           N == New(K)
<1>1. /\ \E slot : SubmitStore(j, K, es, slot)
      /\ \E s \in SetToSeqs(N) : t1' = Without(t1, E) \o s
      /\ t2' = Without(t2, E)
      /\ b1' = Ghosts(b1, t1, es, K) /\ b2' = Ghosts(b2, t2, es, K)
      /\ target' = target
  BY ArcStoreElim
<1>2. List(es) /\ E \subseteq Evictable \ K
  BY ArcStorePicks
<1> HIDE DEF es
<1>3. /\ Cached' = (Cached \ E) \cup N
      /\ WritePending' = (WritePending \ E) \cup N
  BY <1>1, SubmitStoreEffect
<1> HIDE DEF E
<1>4. /\ List(t1) /\ List(t2) /\ List(b1) /\ List(b2)
      /\ Range(t1) \cap Range(t2) = {} /\ Range(b1) \cap Range(b2) = {}
      /\ Range(t1) \cup Range(t2) = Cached
      /\ Range(b1) \cap Cached = {} /\ Range(b2) \cap Cached = {}
      /\ Range(t2) \cap WritePending = {}
      /\ Len(b1) <= NumBlocks /\ Len(b2) <= NumBlocks
      /\ target \in 0 .. NumBlocks * Scale
  BY DEF ArcExact, Parts, Bounded
<1>5. N \in SUBSET Key /\ N \cap Cached = {}
  BY DEF New
<1> HIDE DEF N
<1>6. PICK s \in SetToSeqs(N) : t1' = Without(t1, E) \o s
  BY <1>1
<1>7. List(s) /\ Range(s) = N
  BY <1>5, ListOfSet
<1>8. /\ List(Without(t1, E)) /\ Range(Without(t1, E)) = Range(t1) \ E
      /\ List(Without(t2, E)) /\ Range(Without(t2, E)) = Range(t2) \ E
  BY <1>4, ListWithout
<1>9. List(t1') /\ Range(t1') = (Range(t1) \ E) \cup N
  <2> DEFINE w == Without(t1, E)
  <2>1. List(w) /\ Range(w) = Range(t1) \ E /\ t1' = w \o s
    BY <1>6, <1>8
  <2> HIDE DEF w
  <2>2. Range(w) \cap Range(s) = {}
    BY <1>4, <1>5, <1>7, <2>1
  <2>3. List(w \o s) /\ Range(w \o s) = Range(w) \cup Range(s)
    BY <1>7, <2>1, <2>2, ListConcat
  <2> QED BY <1>7, <2>1, <2>3
<1>10. List(t2') /\ Range(t2') = Range(t2) \ E
  BY <1>1, <1>8
<1>11. /\ List(b1') /\ Len(b1') <= NumBlocks
       /\ Range(b1') \subseteq (Range(b1) \cup (E \cap Range(t1))) \ N
  <2>1. Range(b1) \cap Range(t1) = {}
    BY <1>4
  <2> QED BY <1>1, <1>2, <1>4, <2>1, GhostsAfterEviction DEF E, N
<1>12. /\ List(b2') /\ Len(b2') <= NumBlocks
       /\ Range(b2') \subseteq (Range(b2) \cup (E \cap Range(t2))) \ N
  <2>1. Range(b2) \cap Range(t2) = {}
    BY <1>4
  <2> QED BY <1>1, <1>2, <1>4, <2>1, GhostsAfterEviction DEF E, N
<1>13. /\ Range(t1') \cap Range(t2') = {}
       /\ Range(t1') \cup Range(t2') = (Cached \ E) \cup N
  <2>1. Range(t1') \cap Range(t2') = {}
    BY <1>4, <1>5, <1>9, <1>10
  <2>2. Range(t1') \cup Range(t2') = ((Range(t1) \cup Range(t2)) \ E) \cup N
    BY <1>9, <1>10
  <2> QED BY <1>4, <2>1, <2>2
<1>14. Range(b1') \cap Range(b2') = {}
  BY <1>4, <1>11, <1>12
<1>15. /\ Range(b1') \cap ((Cached \ E) \cup N) = {}
       /\ Range(b2') \cap ((Cached \ E) \cup N) = {}
  BY <1>4, <1>11, <1>12
<1>16. Range(t2') \cap ((WritePending \ E) \cup N) = {}
  BY <1>4, <1>5, <1>10
<1>17. Parts(t1', t2', b1', b2', Cached', WritePending')
  BY <1>3, <1>9, <1>10, <1>11, <1>12, <1>13, <1>14, <1>15, <1>16 DEF Parts
<1>18. Bounded(b1', b2', target')
  BY <1>1, <1>4, <1>11, <1>12 DEF Bounded
<1>19. ArcExact' = (Parts(t1', t2', b1', b2', Cached', WritePending')
                     /\ Bounded(b1', b2', target'))
  BY DEF ArcExact, Parts, Bounded, List
<1> QED BY <1>17, <1>18, <1>19

\* Lists left alone stay exact as long as no key is cached, dropped or newly
\* pending.
LEMMA ArcSame ==
  ASSUME ArcExact, UNCHANGED <<t1, t2, b1, b2, target>>,
         Cached' = Cached, WritePending' \subseteq WritePending
  PROVE  ArcExact'
<1>1. Parts(t1, t2, b1, b2, Cached, WritePending) /\ Bounded(b1, b2, target)
  BY DEF ArcExact
<1>2. Parts(t1, t2, b1, b2, Cached', WritePending')
  <2> HIDE DEF Cached, WritePending
  <2> QED BY <1>1 DEF Parts
<1>3. t1' = t1 /\ t2' = t2 /\ b1' = b1 /\ b2' = b2 /\ target' = target
  OBVIOUS
<1>4. Parts(t1', t2', b1', b2', Cached', WritePending') /\ Bounded(b1', b2', target')
  BY <1>1, <1>2, <1>3
<1>5. ArcExact' = (Parts(t1', t2', b1', b2', Cached', WritePending')
                     /\ Bounded(b1', b2', target'))
  BY DEF ArcExact, Parts, Bounded, List
<1> QED BY <1>4, <1>5

\* A failed store takes its keys out of T1 and T2 and leaves no ghost.
LEMMA ArcFailKeeps ==
  ASSUME IInv, ArcExact, NEW j \in JobId, ArcFailStore(j)
  PROVE  ArcExact'
<1> DEFINE K == jobs[j].keys
<1>1. /\ FailStore(j)
      /\ t1' = Without(t1, K) /\ t2' = Without(t2, K)
      /\ b1' = b1 /\ b2' = b2 /\ target' = target
  BY DEF ArcFailStore
<1>2. Cached' = Cached \ K /\ WritePending' = WritePending \ K
  BY <1>1, FailStoreEffect
<1> HIDE DEF K
<1>3. Parts(t1, t2, b1, b2, Cached, WritePending) /\ Bounded(b1, b2, target)
  BY DEF ArcExact
<1>4. /\ List(t1') /\ Range(t1') = Range(t1) \ K
      /\ List(t2') /\ Range(t2') = Range(t2) \ K
  BY <1>1, <1>3, ListWithout DEF Parts
<1>5. Parts(t1', t2', b1, b2, Cached \ K, WritePending \ K)
  BY <1>3, <1>4 DEF Parts
<1>6. Parts(t1', t2', b1', b2', Cached', WritePending') /\ Bounded(b1', b2', target')
  BY <1>1, <1>2, <1>3, <1>5
<1>7. ArcExact' = (Parts(t1', t2', b1', b2', Cached', WritePending')
                     /\ Bounded(b1', b2', target'))
  BY DEF ArcExact, Parts, Bounded, List
<1> QED BY <1>6, <1>7

\* A touch promotes and adapts, and leaves the manager alone.
LEMMA ArcTouchStepKeeps ==
  ASSUME ArcExact, NEW ks \in TouchInputs, ArcTouch(ks)
  PROVE  ArcExact'
<1> DEFINE s == ArcTouched(ListState, ks)
<1>1. Parts(t1, t2, b1, b2, Cached, WritePending) /\ Bounded(b1, b2, target)
  BY DEF ArcExact
<1>2. ListState \in ListStates
  <2>1. /\ t1 \in Seq(Key) /\ t2 \in Seq(Key) /\ b1 \in Seq(Key) /\ b2 \in Seq(Key)
    BY <1>1 DEF Parts, List
  <2>2. target \in Int
    BY <1>1, CapIsNat DEF Bounded
  <2> QED BY <1>1, <2>1, <2>2 DEF ListStates, ListState
<1>3. ks \in Seq(Key)
  BY TouchedKeys DEF List
<1>4. s \in ListStates
  BY <1>2, <1>3, ArcTouchKeeps
<1>5. /\ t1' = s.t1 /\ t2' = s.t2 /\ b1' = s.b1 /\ b2' = s.b2 /\ target' = s.target
      /\ blocks' = blocks
  BY DEF ArcTouch, vars, mgrVars
<1> HIDE DEF s
<1>6. /\ Parts(s.t1, s.t2, s.b1, s.b2, Cached, WritePending)
      /\ Bounded(s.b1, s.b2, s.target)
  BY <1>4 DEF ListStates
<1>7. Cached' = Cached /\ WritePending' = WritePending
  BY <1>5, NoEffect
<1>8. Parts(t1', t2', b1', b2', Cached', WritePending') /\ Bounded(b1', b2', target')
  BY <1>5, <1>6, <1>7
<1>9. ArcExact' = (Parts(t1', t2', b1', b2', Cached', WritePending')
                     /\ Bounded(b1', b2', target'))
  BY DEF ArcExact, Parts, Bounded, List
<1> QED BY <1>8, <1>9

\* The empty lists of a policy just constructed, or reset.
LEMMA ArcEmpty ==
  Parts(<<>>, <<>>, <<>>, <<>>, {}, {}) /\ Bounded(<<>>, <<>>, 0)
<1>1. NumBlocks \in Nat
  BY NumBlocksAssumption
<1>2. 0 \in 0 .. NumBlocks * Scale
  BY CapIsNat
<1> QED BY <1>1, <1>2, ListEmpty DEF Parts, Bounded

\* Every step keeps the lists of ARC exact.
LEMMA ArcNextKeeps ==
  ASSUME IInv, ArcExact, ArcNext
  PROVE  ArcExact'
<1>1. ASSUME NEW j \in JobId, NEW K \in SUBSET Key, ArcSubmitLoad(j, K)
      PROVE  ArcExact'
  BY <1>1, SubmitLoadEffect, ArcSame DEF ArcSubmitLoad
<1>2. ASSUME NEW j \in JobId, ArcFinishLoad(j)
      PROVE  ArcExact'
  BY <1>2, FinishLoadEffect, ArcSame DEF ArcFinishLoad
<1>3. ASSUME NEW j \in JobId, NEW K \in SUBSET Key, ArcSubmitStore(j, K)
      PROVE  ArcExact'
  BY <1>3, ArcStoreKeeps
<1>4. ASSUME NEW j \in JobId, ArcFinishStore(j)
      PROVE  ArcExact'
  <2>1. FinishStore(j) /\ UNCHANGED <<t1, t2, b1, b2, target>>
    BY <1>4 DEF ArcFinishStore
  <2>2. Cached' = Cached /\ WritePending' \subseteq WritePending
    BY <2>1, FinishStoreEffect
  <2> QED BY <2>1, <2>2, ArcSame
<1>5. ASSUME NEW j \in JobId, ArcFailStore(j)
      PROVE  ArcExact'
  BY <1>5, ArcFailKeeps
<1>6. ASSUME NEW ks \in TouchInputs, ArcTouch(ks)
      PROVE  ArcExact'
  BY <1>6, ArcTouchStepKeeps
<1>7. CASE ArcReset
  <2>1. /\ t1' = <<>> /\ t2' = <<>> /\ b1' = <<>> /\ b2' = <<>> /\ target' = 0
        /\ Cached' = {} /\ WritePending' = {}
    BY <1>7, ResetEffect DEF ArcReset
  <2>2. Parts(t1', t2', b1', b2', Cached', WritePending') /\ Bounded(b1', b2', target')
    BY <2>1, ArcEmpty
  <2>3. ArcExact' = (Parts(t1', t2', b1', b2', Cached', WritePending')
                       /\ Bounded(b1', b2', target'))
    BY DEF ArcExact, Parts, Bounded, List
  <2> QED BY <2>2, <2>3
<1>8. CASE ArcReadEvents
  <2>1. blocks' = blocks /\ UNCHANGED <<t1, t2, b1, b2, target>>
    BY <1>8 DEF ArcReadEvents, ReadEvents, TakeEvents
  <2>2. Cached' = Cached /\ WritePending' = WritePending
    BY <2>1, NoEffect
  <2> QED BY <2>1, <2>2, ArcSame
<1> QED BY <1>1, <1>2, <1>3, <1>4, <1>5, <1>6, <1>7, <1>8 DEF ArcNext

-----------------------------------------------------------------------------
(***************************************************************************)
(* The theorems.                                                           *)
(***************************************************************************)
\* The inductive invariant: the bookkeeping of the manager, and the lists of
\* the policy in use.
PolicyInv ==
    /\ IInv
    /\ policy = "lru" => LruExact
    /\ policy = "arc" => ArcExact

\* A manager just constructed, with either policy.
LEMMA InitPolicyInv == PolicyInit => PolicyInv
<1> SUFFICES ASSUME PolicyInit PROVE PolicyInv
  OBVIOUS
<1>1. Init /\ evictableBlocks = <<>>
      /\ t1 = <<>> /\ t2 = <<>> /\ b1 = <<>> /\ b2 = <<>> /\ target = 0
  BY DEF PolicyInit, LruInit, ArcInit
<1>2. Cached = {}
  BY <1>1 DEF Init, MgrInit, Cached, NoBlocks
<1>3. Evictable = {} /\ WritePending = {}
  BY <1>2 DEF Evictable, WritePending
<1>4. LruExact
  BY <1>1, <1>3, ListEmpty DEF LruExact
<1>5. ArcExact
  BY <1>1, <1>2, <1>3, ArcEmpty DEF ArcExact
<1> QED BY <1>1, <1>4, <1>5, InitIInv DEF PolicyInv

\* A step with the policy in use is a step that CpuTier allows.
LEMMA PolicyStepIsNext == PolicyInv /\ [LruStep \/ ArcStep]_all => [Next]_vars
<1> SUFFICES ASSUME PolicyInv, [LruStep \/ ArcStep]_all PROVE [Next]_vars
  OBVIOUS
<1>1. CASE LruStep
  <2>1. IInv /\ LruExact /\ LruNext
    BY <1>1 DEF LruStep, PolicyInv
  <2> QED BY <2>1, LruNextIsNext
<1>2. CASE ArcStep
  <2>1. IInv /\ ArcExact /\ ArcNext
    BY <1>2 DEF ArcStep, PolicyInv
  <2> QED BY <2>1, ArcNextIsNext
<1>3. CASE UNCHANGED all
  BY <1>3 DEF all
<1> QED BY <1>1, <1>2, <1>3

\* Every step keeps the invariant of the policy in use.
LEMMA NextPolicyInv == PolicyInv /\ [LruStep \/ ArcStep]_all => PolicyInv'
<1> SUFFICES ASSUME PolicyInv, [LruStep \/ ArcStep]_all PROVE PolicyInv'
  OBVIOUS
<1>1. IInv'
  BY PolicyStepIsNext, NextIInv DEF PolicyInv
<1>2. CASE LruStep
  <2>1. IInv /\ LruExact /\ LruNext /\ policy' = "lru"
    BY <1>2 DEF LruStep, PolicyInv
  <2>2. LruExact'
    BY <2>1, LruNextKeeps
  <2> QED BY <1>1, <2>1, <2>2 DEF PolicyInv
<1>3. CASE ArcStep
  <2>1. IInv /\ ArcExact /\ ArcNext /\ policy' = "arc"
    BY <1>3 DEF ArcStep, PolicyInv
  <2>2. ArcExact'
    BY <2>1, ArcNextKeeps
  <2> QED BY <1>1, <2>1, <2>2 DEF PolicyInv
<1>4. CASE UNCHANGED all
  <2>1. policy' = policy /\ evictableBlocks' = evictableBlocks
        /\ UNCHANGED <<t1, t2, b1, b2, target>> /\ blocks' = blocks
    BY <1>4 DEF all, arcLists, vars, mgrVars
  <2>2. Cached' = Cached /\ Evictable' = Evictable /\ WritePending' = WritePending
    BY <2>1, NoEffect
  <2>3. policy = "lru" => LruExact'
    BY <2>1, <2>2 DEF PolicyInv, LruExact, List
  <2>4. policy = "arc" => ArcExact'
    BY <2>1, <2>2, ArcSame DEF PolicyInv
  <2> QED BY <1>1, <2>1, <2>3, <2>4 DEF PolicyInv
<1> QED BY <1>2, <1>3, <1>4

\* The bookkeeping of the manager and the lists of its policy are inductive.
THEOREM PolicyBookkeeping == PolicySpec => []PolicyInv
  BY InitPolicyInv, NextPolicyInv, PTL DEF PolicySpec

\* LRU.mark_evictable, mark_non_evictable and evict: the ordered dict of idle
\* blocks holds each block of ref count 0 once and no other, whatever the
\* interleaving of loads, stores, evictions, touches and resets.
THEOREM LruListCorrect == PolicySpec => []LruListExact
<1>1. PolicyInv => LruListExact
  BY DEF PolicyInv, LruExact, List, LruListExact, EvictableListExact
<1> QED BY <1>1, PolicyBookkeeping, PTL

\* ARC.insert, remove, touch and evict: every cached key is in T1 or in T2 and
\* no key in two lists, no ghost is cached, and a block being stored is in T1.
THEOREM ArcListsCorrect == PolicySpec => []ArcListsExact
<1>1. PolicyInv => ArcListsExact
  BY ArcExactImplies DEF PolicyInv, ArcListsExact
<1> QED BY <1>1, PolicyBookkeeping, PTL

\* ARC.touch and evict: the ghost lists stay within the capacity, and the
\* target of T1 between 0 and the capacity.
THEOREM AdaptationCorrect == PolicySpec => []AdaptationBounded
<1>1. PolicyInv => AdaptationBounded
  BY ArcExactImplies DEF PolicyInv, AdaptationBounded
<1> QED BY <1>1, PolicyBookkeeping, PTL

\* LRU.touch visits its keys in reverse: after it, of two idle keys of the
\* touched prefix, the later one is evicted first.
THEOREM PrefixesTouchedCorrectly == PolicySpec => TouchKeepsPrefixes
<1>1. PolicyInv => (policy = "lru" => PrefixesKept)
  BY LruKeepsPrefixes DEF PolicyInv
<1> QED BY <1>1, PolicyBookkeeping, PTL DEF TouchKeepsPrefixes

\* The manager with either policy implements CpuTier, which says only that the
\* victims of an eviction are idle, distinct, not of the store and enough.
THEOREM PoliciesRefineTier == PolicySpec => PoliciesAreTiers
<1>1. PolicyInit => Init
  BY DEF PolicyInit, LruInit
<1> QED
  BY <1>1, PolicyStepIsNext, PolicyBookkeeping, PTL DEF PolicySpec, PoliciesAreTiers, Spec

\* What is proved of the contract holds of the manager with either policy: its
\* books balance, and no transfer is disturbed in its slots.
THEOREM PoliciesKeepTheBooks == PolicySpec => [](BooksExact /\ SlotsUndisturbed)
<1>1. PolicySpec => Spec
  BY PoliciesRefineTier DEF PoliciesAreTiers
<1> QED BY <1>1, BooksCorrect, SlotsSafe, PTL
=============================================================================
