----------------------------- MODULE CpuPolicies ------------------------------
(***************************************************************************)
(* The CPU tier with either of its policies (policies/lru.py, arc.py): the *)
(* configuration names one, and the lists of the other stay empty.         *)
(***************************************************************************)
EXTENDS LruTier, ArcTier

VARIABLE policy         \* "lru" or "arc"

arcLists == <<t1, t2, b1, b2, target>>
all == <<vars, policy, evictableBlocks, arcLists>>

PolicyInit == policy \in {"lru", "arc"} /\ LruInit /\ ArcInit

LruStep == policy = "lru" /\ LruNext /\ UNCHANGED <<policy, arcLists>>
ArcStep == policy = "arc" /\ ArcNext /\ UNCHANGED <<policy, evictableBlocks>>

PolicySpec == PolicyInit /\ [][LruStep \/ ArcStep]_all

-----------------------------------------------------------------------------
(***************************************************************************)
(* Properties.                                                             *)
(***************************************************************************)

\* The LRU list of idle blocks and the manager's ref counts agree at all times:
\* mark_non_evictable finds its key, evict meets only idle blocks, and no idle
\* block is out of eviction's reach.
LruListExact == policy = "lru" => EvictableListExact

\* LRU.touch: a touched prefix is evicted from its far end.
TouchKeepsPrefixes == [][policy = "lru" => PrefixesKept]_all

\* ARC's T1 and T2 partition the cached keys, a pending block is never counted
\* as used twice, and no key is in two of the four lists.
ArcListsExact == policy = "arc" => ListsPartition /\ PendingStaysInT1

\* ARC's ghosts stay within the capacity and its target within the cache, in
\* any mix of evictions, re-insertions and ghost hits.
AdaptationBounded == policy = "arc" => GhostsBounded

\* With either policy the manager is a CPU tier: every step of it, victims
\* chosen, is one that CpuTier allows.
PoliciesAreTiers == Spec
=============================================================================
