------------------------------ MODULE CpuManager ------------------------------
(***************************************************************************)
(* CPUOffloadingManager (v1/kv_offload/cpu/manager.py): the bookkeeping of *)
(* the CPU tier, over the contract of CachePolicy (cpu/policies/base.py).  *)
(*                                                                         *)
(* A policy owns the table of cached blocks and decides what to evict; the *)
(* manager owns the slots of the CPU buffer, two counters, the registry of *)
(* eviction tombstones and the queue of cache events.  Here the policy is  *)
(* its contract: an eviction of n blocks returns any n idle, unprotected   *)
(* blocks, or refuses and changes nothing.  LruTier and ArcTier supply the *)
(* two built-in policies.                                                  *)
(*                                                                         *)
(* A definition marked "Mutant" stands before the one it breaks and is     *)
(* used by no specification: it is what the properties must tell apart.    *)
(*                                                                         *)
(* The module defines the manager's operations; CpuTier drives them.       *)
(* Keys passed in are the ones that passed the reuse threshold, which      *)
(* prepare_store applies before anything else.                             *)
(***************************************************************************)
EXTENDS Integers, FiniteSets, SequencesExt

CONSTANTS
    Key,                \* OffloadKey: a block hash with a KV-cache group
    HashOf,             \* get_offload_block_hash, as a function on Key
    NumBlocks,          \* _num_blocks: slots of the CPU buffer
    EvictionCallCap,    \* _eviction_call_cap, 0 when disabled
    TombstoneCapacity,  \* _eviction_tombstone_capacity, 0 when disabled
    MaxEvents           \* bound: events queued before the next take_events

ASSUME KeyAssumption  == IsFiniteSet(Key)
ASSUME NumBlocksAssumption == NumBlocks \in Nat
ASSUME CapAssumption == EvictionCallCap \in Nat
ASSUME HashAssumption ==
    /\ HashOf = [k \in Key |-> HashOf[k]]
    /\ TombstoneCapacity \in Nat
    /\ MaxEvents \in Nat

VARIABLES
    blocks,             \* the policy's table: key -> ref_cnt and block_id
    freeList,           \* _free_list: slots given back
    numAllocated,       \* _num_allocated_blocks: slots ever handed out
    numEvictable,       \* _num_evictable_cache_blocks
    numWritePending,    \* _num_write_pending_blocks
    tombstones,         \* _eviction_tombstones: hashes, oldest first
    events              \* events: queued OffloadingEvents

mgrVars == <<blocks, freeList, numAllocated, numEvictable, numWritePending,
             tombstones, events>>

Slot == 0 .. NumBlocks - 1

\* BlockStatus: ref_cnt is -1 until the store that fills the slot completes,
\* then the number of transfers that read it.
BlockStatus == [ref_cnt : Int, block_id : Slot]

NoBlocks == [k \in {} |-> [ref_cnt |-> -1, block_id |-> 0]]

Cached == DOMAIN blocks
Ready(k) == blocks[k].ref_cnt >= 0
ReadyKeys == {k \in Cached : Ready(k)}
Evictable == {k \in Cached : blocks[k].ref_cnt = 0}
WritePending == {k \in Cached : blocks[k].ref_cnt = -1}

(***************************************************************************)
(* Slots.                                                                  *)
(***************************************************************************)
\* Mutant: free is whatever is not readable, as if no store were in flight.
NumFreeBlocksForgetsPending == NumBlocks - Cardinality(ReadyKeys)

NumFreeBlocks == Cardinality(freeList) + NumBlocks - numAllocated

\* _allocate_blocks: fresh slots first, in order, then slots of the free list.
\* Which free slots are reused, and which key gets which slot, is left open.
NumFresh(n) ==
    IF n <= NumBlocks - numAllocated THEN n ELSE NumBlocks - numAllocated
Fresh(n) == numAllocated .. numAllocated + NumFresh(n) - 1

IsAllocation(slot, K, pool) ==
    /\ slot \in Injection(K, Fresh(Cardinality(K)) \cup pool)
    /\ Fresh(Cardinality(K)) \subseteq Range(slot)

(***************************************************************************)
(* Eviction.                                                               *)
(***************************************************************************)
New(K) == K \ Cached
Deficit(K) == Cardinality(New(K)) - NumFreeBlocks

\* The refusals of prepare_store that do not ask the policy: the per-call cap
\* is short of the deficit, or too few blocks are idle.
Admissible(K) ==
    Deficit(K) > 0 =>
        /\ EvictionCallCap = 0 \/ Deficit(K) <= EvictionCallCap
        /\ Deficit(K) <= numEvictable

\* Mutant: blocks that loads are reading may be evicted.
EvictionsOfPinned(n, protected) ==
    {es \in [1 .. n -> ReadyKeys \ protected] : IsInjective(es)}

\* CachePolicy.evict: the sequences of evicted keys the contract allows.
Evictions(n, protected) ==
    {es \in [1 .. n -> Evictable \ protected] : IsInjective(es)}

EvictionsFor(K) == Evictions(IF Deficit(K) > 0 THEN Deficit(K) ELSE 0, K)

SlotsOf(K) == {blocks[k].block_id : k \in K}

(***************************************************************************)
(* Tombstones and events.                                                  *)
(***************************************************************************)
\* An ordered dict, as the sequence of its keys, with the keys K popped.
Without(seq, K) ==
    LET r[n \in 0 .. Len(seq)] ==
            IF n = 0 THEN <<>>
            ELSE IF seq[n] \in K THEN r[n - 1] ELSE Append(r[n - 1], seq[n])
    IN  r[Len(seq)]

AddTombstone(registry, h) ==
    IF h \in Range(registry)
    THEN registry
    ELSE LET grown == Append(registry, h)
         IN  IF Len(grown) > TombstoneCapacity THEN Tail(grown) ELSE grown

RecordTombstones(registry, es) ==
    LET r[n \in 0 .. Len(es)] ==
            IF n = 0 THEN registry ELSE AddTombstone(r[n - 1], HashOf[es[n]])
    IN  r[Len(es)]

\* Mutant: without the tombstone hygiene of complete_store.
ClearTombstonesNever(registry, K) == registry

ClearTombstones(registry, K) == Without(registry, {HashOf[k] : k \in K})

Emit(K, isRemoval) ==
    events' = IF K = {} THEN events
              ELSE Append(events, [keys |-> K, removed |-> isRemoval])

-----------------------------------------------------------------------------
(***************************************************************************)
(* Operations of the OffloadingManager interface.                          *)
(***************************************************************************)
MgrInit ==
    /\ blocks = NoBlocks
    /\ freeList = {}
    /\ numAllocated = 0
    /\ numEvictable = 0
    /\ numWritePending = 0
    /\ tombstones = <<>>
    /\ events = <<>>

\* prepare_load asserts that every key is cached and ready.
LoadAsserts(K) == \A k \in K : k \in Cached /\ Ready(k)

\* Mutant: a block already being read is counted out once more.
PrepareLoadCountsTwice(K) ==
    /\ LoadAsserts(K)
    /\ blocks' = [k \in Cached |->
           IF k \in K THEN [blocks[k] EXCEPT !.ref_cnt = @ + 1] ELSE blocks[k]]
    /\ numEvictable' = numEvictable - Cardinality(K)
    /\ UNCHANGED <<freeList, numAllocated, numWritePending, tombstones, events>>

PrepareLoad(K) ==
    /\ LoadAsserts(K)
    /\ blocks' = [k \in Cached |->
           IF k \in K THEN [blocks[k] EXCEPT !.ref_cnt = @ + 1] ELSE blocks[k]]
    /\ numEvictable' = numEvictable - Cardinality(K \cap Evictable)
    /\ UNCHANGED <<freeList, numAllocated, numWritePending, tombstones, events>>

CompleteLoadAsserts(K) == \A k \in K : k \in Cached /\ blocks[k].ref_cnt > 0

CompleteLoad(K) ==
    /\ CompleteLoadAsserts(K)
    /\ blocks' = [k \in Cached |->
           IF k \in K THEN [blocks[k] EXCEPT !.ref_cnt = @ - 1] ELSE blocks[k]]
    /\ numEvictable' =
           numEvictable + Cardinality({k \in K : blocks[k].ref_cnt = 1})
    /\ UNCHANGED <<freeList, numAllocated, numWritePending, tombstones, events>>

\* prepare_store for keys K of which some are new: es is what the policy
\* evicts, slot the slots the new keys get.  An inadmissible call, a refusal
\* of the policy and a call without new keys leave the manager unchanged.
PrepareStore(K, es, slot) ==
    LET pool == freeList \cup SlotsOf(Range(es)) IN
    /\ New(K) # {}
    /\ Admissible(K)
    /\ IsAllocation(slot, New(K), pool)
    /\ blocks' = [k \in (Cached \ Range(es)) \cup New(K) |->
           IF k \in New(K) THEN [ref_cnt |-> -1, block_id |-> slot[k]]
                           ELSE blocks[k]]
    /\ freeList' = pool \ Range(slot)
    /\ numAllocated' = numAllocated + NumFresh(Cardinality(New(K)))
    /\ numEvictable' = numEvictable - Cardinality(Range(es))
    /\ numWritePending' = numWritePending + Cardinality(New(K))
    /\ tombstones' = RecordTombstones(tombstones, es)
    /\ Emit(Range(es), TRUE)

\* complete_store(success=True): the blocks become readable and idle.
StoreSucceeds(K) ==
    LET stored == K \cap {k \in Cached : ~Ready(k)} IN
    /\ blocks' = [k \in Cached |->
           IF k \in stored THEN [blocks[k] EXCEPT !.ref_cnt = 0] ELSE blocks[k]]
    /\ numWritePending' = numWritePending - Cardinality(stored)
    /\ numEvictable' = numEvictable + Cardinality(stored)
    /\ tombstones' = ClearTombstones(tombstones, stored)
    /\ Emit(stored, FALSE)
    /\ UNCHANGED <<freeList, numAllocated>>

\* complete_store(success=False): the blocks are dropped and the slots freed.
StoreFails(K) ==
    LET dropped == K \cap {k \in Cached : ~Ready(k)} IN
    /\ blocks' = [k \in Cached \ dropped |-> blocks[k]]
    /\ freeList' = freeList \cup SlotsOf(dropped)
    /\ numWritePending' = numWritePending - Cardinality(dropped)
    /\ UNCHANGED <<numAllocated, numEvictable, tombstones, events>>

\* Mutant: the reset does not advertise the keys it removes.
ResetCacheSilently ==
    /\ blocks' = NoBlocks
    /\ freeList' = {}
    /\ numAllocated' = 0
    /\ numEvictable' = 0
    /\ numWritePending' = 0
    /\ UNCHANGED <<tombstones, events>>

\* reset_cache: everything goes, whatever its ref_cnt; tombstones stay.
ResetCache ==
    /\ blocks' = NoBlocks
    /\ freeList' = {}
    /\ numAllocated' = 0
    /\ numEvictable' = 0
    /\ numWritePending' = 0
    /\ Emit(Cached, TRUE)
    /\ UNCHANGED tombstones

TakeEvents ==
    /\ events # <<>>
    /\ events' = <<>>
    /\ UNCHANGED <<blocks, freeList, numAllocated, numEvictable,
                   numWritePending, tombstones>>
=============================================================================
