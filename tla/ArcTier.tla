------------------------------- MODULE ArcTier --------------------------------
(***************************************************************************)
(* CpuTier with ARCCachePolicy (v1/kv_offload/cpu/policies/arc.py): blocks *)
(* used once in T1, blocks used again in T2, the ghosts of evicted blocks  *)
(* in B1 and B2, and a target size for T1 that ghost hits move.            *)
(*                                                                         *)
(* target_t1_size is a fraction: it is kept in units of 1/Scale, exact as  *)
(* long as every ghost-list length divides Scale.                          *)
(***************************************************************************)
EXTENDS CachePolicy

CONSTANT Scale          \* units of target_t1_size in one block

ASSUME ScaleAssumption ==
    /\ Scale \in Nat \ {0}
    /\ \A n \in 1 .. NumBlocks : Scale % n = 0

VARIABLES
    t1, t2,             \* T1 and T2: cached keys, least recent first
    b1, b2,             \* B1 and B2: ghosts, oldest first
    target              \* target_t1_size * Scale

arcVars == <<vars, t1, t2, b1, b2, target>>

\* Mutant: the ghost lists are never trimmed.
TrimNever(ghosts) == ghosts

\* A ghost list bounded by the capacity of the cache, oldest ghosts dropped.
Trim(ghosts) ==
    LET excess == Len(ghosts) - NumBlocks
    IN  IF excess > 0 THEN SubSeq(ghosts, excess + 1, Len(ghosts)) ELSE ghosts

(***************************************************************************)
(* evict: a simulation that takes n victims, each from T1 while T1 is at   *)
(* least its target and has candidates, otherwise from T2.  The result is  *)
(* a list of keys; it falls short of n where the code returns None.        *)
(***************************************************************************)
\* Mutant: blocks whose store is pending may go.
IdleOrPending(seq, protected) ==
    Without(seq, (Key \ (Evictable \cup WritePending)) \cup protected)

Idle(seq, protected) == Without(seq, (Key \ Evictable) \cup protected)

\* One victim more; s counts those taken from the candidates c1 and c2.
Pick(s, c1, c2) ==
    IF s.short THEN s
    ELSE IF Len(t1) - s.n1 >= target \div Scale /\ s.n1 < Len(c1)
    THEN [s EXCEPT !.n1 = @ + 1, !.keys = Append(@, c1[s.n1 + 1])]
    ELSE IF s.n2 < Len(c2)
    THEN [s EXCEPT !.n2 = @ + 1, !.keys = Append(@, c2[s.n2 + 1])]
    ELSE [s EXCEPT !.short = TRUE]

ArcVictims(n, protected) ==
    LET r[i \in 0 .. n] ==
            IF i = 0 THEN [n1 |-> 0, n2 |-> 0, keys |-> <<>>, short |-> FALSE]
            ELSE Pick(r[i - 1], Idle(t1, protected), Idle(t2, protected))
    IN  r[n].keys

(***************************************************************************)
(* touch of one key, on the state [t1, t2, b1, b2, target].                *)
(***************************************************************************)
ListState == [t1 |-> t1, t2 |-> t2, b1 |-> b1, b2 |-> b2, target |-> target]

\* max(1, len(other) / len(own)), in units of 1/Scale.
Delta(own, other) ==
    IF Len(other) > Len(own) THEN (Scale * Len(other)) \div Len(own) ELSE Scale

\* Mutant: a block is promoted while its first store is in flight.
PromotePending(s, k) ==
    [s EXCEPT !.t1 = Without(@, {k}), !.t2 = Append(@, k)]

\* A key of T1 moves to T2, unless it was just prepared to be stored.
Promote(s, k) ==
    IF Ready(k)
    THEN [s EXCEPT !.t1 = Without(@, {k}), !.t2 = Append(@, k)]
    ELSE [s EXCEPT !.t1 = MoveToEnd(@, k)]

ArcMove(s, k) ==
    CASE k \in Range(s.t1) ->
            Promote(s, k)
      [] k \in Range(s.t2) ->
            [s EXCEPT !.t2 = MoveToEnd(@, k)]
      [] k \in Range(s.b1) ->
            LET up == s.target + Delta(s.b1, s.b2) IN
            [s EXCEPT !.b1 = MoveToEnd(@, k),
                      !.target = IF up > NumBlocks * Scale
                                 THEN NumBlocks * Scale ELSE up]
      [] k \in Range(s.b2) /\ k \notin Range(s.b1) ->
            LET down == s.target - Delta(s.b2, s.b1) IN
            [s EXCEPT !.b2 = MoveToEnd(@, k),
                      !.target = IF down < 0 THEN 0 ELSE down]
      [] OTHER -> s

\* touch, in reverse like the LRU policy.
ArcTouched(s, ks) ==
    LET r[n \in 0 .. Len(ks)] ==
            IF n = 0 THEN s ELSE ArcMove(r[n - 1], ks[Len(ks) - n + 1])
    IN  r[Len(ks)]

-----------------------------------------------------------------------------
ArcInit ==
    /\ Init
    /\ t1 = <<>> /\ t2 = <<>> /\ b1 = <<>> /\ b2 = <<>>
    /\ target = 0

ArcSubmitLoad(j, K) == SubmitLoad(j, K) /\ UNCHANGED <<t1, t2, b1, b2, target>>

ArcFinishLoad(j) == FinishLoad(j) /\ UNCHANGED <<t1, t2, b1, b2, target>>

\* The victims become ghosts, then the new keys enter T1 and leave the ghosts.
ArcSubmitStore(j, K) ==
    LET n == Deficit(K)
        es == IF n > 0 THEN ArcVictims(n, K) ELSE <<>>
        from(list) == Without(es, Key \ Range(list))
        ghosts(own, list) ==
            Without(IF n > 0 THEN Trim(own \o from(list)) ELSE own, New(K))
    IN
    /\ Admissible(K)
    /\ n > 0 => Len(es) = n
    /\ \E slot \in Allocations(K, es) : SubmitStore(j, K, es, slot)
    /\ \E s \in SetToSeqs(New(K)) : t1' = Without(t1, Range(es)) \o s
    /\ t2' = Without(t2, Range(es))
    /\ b1' = ghosts(b1, t1)
    /\ b2' = ghosts(b2, t2)
    /\ UNCHANGED target

ArcFinishStore(j) == FinishStore(j) /\ UNCHANGED <<t1, t2, b1, b2, target>>

ArcFailStore(j) ==
    /\ FailStore(j)
    /\ t1' = Without(t1, jobs[j].keys)
    /\ t2' = Without(t2, jobs[j].keys)
    /\ UNCHANGED <<b1, b2, target>>

ArcTouch(ks) ==
    LET s == ArcTouched(ListState, ks) IN
    /\ t1' = s.t1 /\ t2' = s.t2 /\ b1' = s.b1 /\ b2' = s.b2
    /\ target' = s.target
    /\ UNCHANGED vars

ArcReset ==
    /\ Reset
    /\ t1' = <<>> /\ t2' = <<>> /\ b1' = <<>> /\ b2' = <<>>
    /\ target' = 0

ArcReadEvents == ReadEvents /\ UNCHANGED <<t1, t2, b1, b2, target>>

ArcNext ==
    \/ \E j \in JobId, K \in SUBSET Key : ArcSubmitLoad(j, K)
    \/ \E j \in JobId : ArcFinishLoad(j)
    \/ \E j \in JobId, K \in SUBSET Key : ArcSubmitStore(j, K)
    \/ \E j \in JobId : ArcFinishStore(j)
    \/ \E j \in JobId : ArcFailStore(j)
    \/ \E ks \in TouchInputs : ArcTouch(ks)
    \/ ArcReset
    \/ ArcReadEvents

ArcSpec == ArcInit /\ [][ArcNext]_arcVars

-----------------------------------------------------------------------------
(***************************************************************************)
(* Properties.                                                             *)
(***************************************************************************)

\* T1 and T2 partition the cached keys, no key is in two lists, and a ghost
\* is never a cached key: get() and touch() see every block in one place.
ListsPartition ==
    LET lists == <<t1, t2, b1, b2>> IN
    /\ Range(t1) \cup Range(t2) = Cached
    /\ \A m \in 1 .. 4 : IsInjective(lists[m])
    /\ \A m, n \in 1 .. 4 : m # n => Range(lists[m]) \cap Range(lists[n]) = {}

\* The ghosts stay within the capacity and the target within the cache, in
\* any mix of evictions, re-insertions and ghost hits.
GhostsBounded ==
    /\ Len(b1) <= NumBlocks /\ Len(b2) <= NumBlocks
    /\ target \in 0 .. NumBlocks * Scale

\* A block whose store has not completed is never counted as used twice.
PendingStaysInT1 == Range(t2) \cap WritePending = {}
=============================================================================
