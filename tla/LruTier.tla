------------------------------- MODULE LruTier --------------------------------
(***************************************************************************)
(* CpuTier with LRUCachePolicy (v1/kv_offload/cpu/policies/lru.py).        *)
(*                                                                         *)
(* The policy keeps its own ordered list of idle blocks beside the table   *)
(* of blocks, and evicts from its front.  Every step is a step of CpuTier  *)
(* with the victims chosen, or a touch, which CpuTier does not see.        *)
(***************************************************************************)
EXTENDS CachePolicy

VARIABLE evictableBlocks    \* evictable_blocks: idle keys, next victim first

lruVars == <<vars, evictableBlocks>>

\* evict: the first n idle keys that are not protected, or <<>> when it
\* returns None; n is positive.
LruEvict(n, protected) ==
    LET candidates == Without(evictableBlocks, protected)
    IN  IF Len(candidates) < n THEN <<>> ELSE SubSeq(candidates, 1, n)

LruMove(seq, k) == IF k \in Range(seq) THEN MoveToEnd(seq, k) ELSE seq

\* Mutant: the keys are touched in their own order.
TouchedForward(seq, ks) ==
    LET r[n \in 0 .. Len(ks)] ==
            IF n = 0 THEN seq ELSE LruMove(r[n - 1], ks[n])
    IN  r[Len(ks)]

\* touch, in reverse: the first key ends up the most recent.
LruTouched(seq, ks) ==
    LET r[n \in 0 .. Len(ks)] ==
            IF n = 0 THEN seq ELSE LruMove(r[n - 1], ks[Len(ks) - n + 1])
    IN  r[Len(ks)]

-----------------------------------------------------------------------------
LruInit == Init /\ evictableBlocks = <<>>

\* Mutant: mark_non_evictable is not called.
LruSubmitLoadLeavesListed(j, K) ==
    /\ SubmitLoad(j, K)
    /\ UNCHANGED evictableBlocks

LruSubmitLoad(j, K) ==
    /\ SubmitLoad(j, K)
    /\ evictableBlocks' = Without(evictableBlocks, K)

\* The keys of a job are a set: complete_load visits them in any order.
LruFinishLoad(j) ==
    /\ FinishLoad(j)
    /\ \E s \in SetToSeqs({k \in jobs[j].keys : blocks[k].ref_cnt = 1}) :
          evictableBlocks' = evictableBlocks \o s

LruSubmitStore(j, K) ==
    LET es == IF Deficit(K) > 0 THEN LruEvict(Deficit(K), K) ELSE <<>> IN
    /\ Admissible(K)
    /\ Deficit(K) > 0 => es # <<>>
    /\ \E slot \in Allocations(K, es) : SubmitStore(j, K, es, slot)
    /\ evictableBlocks' = Without(evictableBlocks, Range(es))

LruFinishStore(j) ==
    /\ FinishStore(j)
    /\ \E s \in SetToSeqs(jobs[j].keys \cap WritePending) :
          evictableBlocks' = evictableBlocks \o s

LruFailStore(j) ==
    /\ FailStore(j)
    /\ evictableBlocks' = Without(evictableBlocks, jobs[j].keys)

LruTouch(ks) ==
    /\ evictableBlocks' = LruTouched(evictableBlocks, ks)
    /\ UNCHANGED vars

LruReset == Reset /\ evictableBlocks' = <<>>

LruReadEvents == ReadEvents /\ UNCHANGED evictableBlocks

LruNext ==
    \/ \E j \in JobId, K \in SUBSET Key : LruSubmitLoad(j, K)
    \/ \E j \in JobId : LruFinishLoad(j)
    \/ \E j \in JobId, K \in SUBSET Key : LruSubmitStore(j, K)
    \/ \E j \in JobId : LruFinishStore(j)
    \/ \E j \in JobId : LruFailStore(j)
    \/ \E ks \in TouchInputs : LruTouch(ks)
    \/ LruReset
    \/ LruReadEvents

LruSpec == LruInit /\ [][LruNext]_lruVars

-----------------------------------------------------------------------------
(***************************************************************************)
(* Properties.                                                             *)
(***************************************************************************)

\* The policy's list of idle blocks and the manager's ref counts agree at all
\* times: mark_non_evictable finds its key, evict meets only idle blocks, and
\* no idle block is out of eviction's reach.
EvictableListExact ==
    /\ Range(evictableBlocks) = Evictable
    /\ IsInjective(evictableBlocks)

\* A touched prefix is evicted from its far end: right after a touch, a key
\* is evicted before those that precede it in the touched sequence.
PrefixesKept ==
    \A ks \in TouchInputs : LruTouch(ks) =>
        \A m, n \in DOMAIN ks :
           (m < n /\ {ks[m], ks[n]} \subseteq Evictable) =>
              \E p, q \in DOMAIN evictableBlocks' :
                  /\ evictableBlocks'[p] = ks[n]
                  /\ evictableBlocks'[q] = ks[m]
                  /\ p < q
=============================================================================
