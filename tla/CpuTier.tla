------------------------------- MODULE CpuTier --------------------------------
(***************************************************************************)
(* The CPU tier in use: CpuManager driven by clients that keep the         *)
(* protocol of OffloadingManager (v1/kv_offload/base.py): every prepared   *)
(* transfer is completed once, with the keys it was prepared for, and a    *)
(* reset forgets the transfers prepared before it.                         *)
(*                                                                         *)
(* A job carries what the worker was told: the slots of the LoadStoreSpec. *)
(***************************************************************************)
EXTENDS CpuManager

CONSTANT JobId          \* bound: transfers in flight at once

ASSUME JobAssumption == IsFiniteSet(JobId)

VARIABLES
    jobs,               \* JobId -> the transfer it stands for
    advertised,         \* keys the consumer of the events believes cached
    evicted             \* history: keys evicted and not stored again since

vars == <<mgrVars, jobs, advertised, evicted>>

NoJob == [kind |-> "none", keys |-> {}, slot |-> [k \in {} |-> 0]]

Job(kind, K, slot) == [kind |-> kind, keys |-> K, slot |-> slot]

JobType == UNION {[kind : {"none", "load", "store"}, keys : {K}, slot : [K -> Slot]]
                    : K \in SUBSET Key}

Loads  == {j \in JobId : jobs[j].kind = "load"}
Stores == {j \in JobId : jobs[j].kind = "store"}
InFlight == {j \in JobId : jobs[j].kind # "none"}

\* The transfers of a job table that read a key, and those that write it.
Readers(table, k) == {j \in JobId : table[j].kind = "load" /\ k \in table[j].keys}
Writers(table, k) == {j \in JobId : table[j].kind = "store" /\ k \in table[j].keys}

RoomForEvents == Len(events) < MaxEvents

-----------------------------------------------------------------------------
Init ==
    /\ MgrInit
    /\ jobs = [j \in JobId |-> NoJob]
    /\ advertised = {}
    /\ evicted = {}

\* A load of keys that lookup() reported as HIT.
SubmitLoad(j, K) ==
    /\ jobs[j].kind = "none"
    /\ K # {}
    /\ PrepareLoad(K)
    /\ jobs' = [jobs EXCEPT ![j] =
                  Job("load", K, [k \in K |-> blocks[k].block_id])]
    /\ UNCHANGED <<advertised, evicted>>

\* Mutant: the job is retired by its kind alone and keeps its keys.
FinishLoadKeepsKeys(j) ==
    /\ jobs[j].kind = "load"
    /\ CompleteLoad(jobs[j].keys)
    /\ jobs' = [jobs EXCEPT ![j].kind = "none"]
    /\ UNCHANGED <<advertised, evicted>>

FinishLoad(j) ==
    /\ jobs[j].kind = "load"
    /\ CompleteLoad(jobs[j].keys)
    /\ jobs' = [jobs EXCEPT ![j] = NoJob]
    /\ UNCHANGED <<advertised, evicted>>

\* A store; keys that are cached already only get protected from eviction.
SubmitStore(j, K, es, slot) ==
    /\ jobs[j].kind = "none"
    /\ RoomForEvents
    /\ PrepareStore(K, es, slot)
    /\ jobs' = [jobs EXCEPT ![j] = Job("store", New(K), slot)]
    /\ evicted' = evicted \cup Range(es)
    /\ UNCHANGED advertised

FinishStore(j) ==
    /\ jobs[j].kind = "store"
    /\ RoomForEvents
    /\ StoreSucceeds(jobs[j].keys)
    /\ jobs' = [jobs EXCEPT ![j] = NoJob]
    /\ evicted' = evicted \ jobs[j].keys
    /\ UNCHANGED advertised

FailStore(j) ==
    /\ jobs[j].kind = "store"
    /\ StoreFails(jobs[j].keys)
    /\ jobs' = [jobs EXCEPT ![j] = NoJob]
    /\ UNCHANGED <<advertised, evicted>>

\* reset_cache: the scheduler's stale-job threshold keeps the completions of
\* the transfers in flight from the manager.
Reset ==
    /\ RoomForEvents
    /\ ResetCache
    /\ jobs' = [j \in JobId |-> NoJob]
    /\ UNCHANGED <<advertised, evicted>>

\* What a consumer of the events believes after applying them in order: of a
\* key, what the last event that names it says.
Naming(es, k) == {i \in DOMAIN es : k \in es[i].keys}
Replay(known, es) ==
    {k \in known \cup UNION {es[i].keys : i \in DOMAIN es} :
        Naming(es, k) # {} => ~es[Max(Naming(es, k))].removed}

ReadEvents ==
    /\ TakeEvents
    /\ advertised' = Replay(advertised, events)
    /\ UNCHANGED <<jobs, evicted>>

Allocations(K, es) ==
    {slot \in [New(K) -> 0 .. NumBlocks - 1] :
        IsAllocation(slot, New(K), freeList \cup SlotsOf(Range(es)))}

Next ==
    \/ \E j \in JobId, K \in SUBSET Key : SubmitLoad(j, K)
    \/ \E j \in JobId : FinishLoad(j)
    \/ \E j \in JobId, K \in SUBSET Key :
          \E es \in EvictionsFor(K) : \E slot \in Allocations(K, es) :
             SubmitStore(j, K, es, slot)
    \/ \E j \in JobId : FinishStore(j)
    \/ \E j \in JobId : FailStore(j)
    \/ Reset
    \/ ReadEvents

Spec == Init /\ [][Next]_vars

-----------------------------------------------------------------------------
(***************************************************************************)
(* Properties.                                                             *)
(***************************************************************************)

\* The types of the manager's table, slots and counters and of the jobs.
TypeOK ==
    /\ Cached \subseteq Key
    /\ blocks \in [Cached -> BlockStatus]
    /\ \A k \in Cached : blocks[k].ref_cnt >= -1
    /\ freeList \subseteq Slot
    /\ numAllocated \in 0 .. NumBlocks
    /\ numEvictable \in Int
    /\ numWritePending \in Int
    /\ jobs \in [JobId -> JobType]
    /\ \A j \in JobId : jobs[j].kind = "none" => jobs[j].keys = {}
    /\ evicted \subseteq Key

\* Slots are neither leaked nor shared: every slot ever handed out by
\* _allocate_blocks is in the free list or belongs to exactly one block.
SlotsConserved ==
    /\ \A k, l \in Cached : blocks[k].block_id = blocks[l].block_id => k = l
    /\ freeList \cap SlotsOf(Cached) = {}
    /\ freeList \cup SlotsOf(Cached) = 0 .. numAllocated - 1

\* The two incremental counters, which gate every eviction and feed the usage
\* gauges, equal what they count.
CountersExact ==
    /\ numEvictable = Cardinality(Evictable)
    /\ numWritePending = Cardinality(WritePending)

\* ref_cnt is the number of loads in flight on the block, and -1 exactly while
\* one store fills it: no pin is lost or leaked by overlapping transfers.
RefCountsMatchJobs ==
    \A k \in Cached :
        IF Writers(jobs, k) = {}
        THEN blocks[k].ref_cnt = Cardinality(Readers(jobs, k))
        ELSE /\ blocks[k].ref_cnt = -1
             /\ Readers(jobs, k) = {}
             /\ \A i, j \in Writers(jobs, k) : i = j

\* The manager's books are exact after any interleaving of overlapping
\* transfers, evictions, failures and resets.
BooksExact == SlotsConserved /\ CountersExact /\ RefCountsMatchJobs

\* The slots a transfer was given still belong to its keys when it ends:
\* no eviction, failed store or allocation takes them away under the worker.
TransfersKeepTheirSlots ==
    \A j \in InFlight : \A k \in jobs[j].keys :
        k \in Cached /\ blocks[k].block_id = jobs[j].slot[k]

\* No slot is written by one transfer while another reads or writes it.
NoTransferConflict ==
    \A i \in Stores : \A j \in InFlight \ {i} :
        Range(jobs[i].slot) \cap Range(jobs[j].slot) = {}

\* Nothing happens under a transfer in flight to the slots it works on.
SlotsUndisturbed == TransfersKeepTheirSlots /\ NoTransferConflict

\* The asserts of _allocate_blocks, prepare_load and complete_load hold: the
\* free list covers what an admitted store reuses, whatever the policy evicts,
\* and a load in flight finds its blocks pinned.
AssertionsHold ==
    /\ \A K \in SUBSET Key :
          Admissible(K) =>
              \A es \in EvictionsFor(K) :
                 LET n == Cardinality(New(K))
                     pool == freeList \cup SlotsOf(Range(es))
                 IN  Cardinality(pool) >= n - NumFresh(n)
    /\ \A j \in Loads : CompleteLoadAsserts(jobs[j].keys)
    /\ numEvictable >= 0

\* A consumer that applies the events in order knows exactly the readable
\* blocks, across evictions, failed stores and resets.
EventsTellTheTruth == Replay(advertised, events) = ReadyKeys

\* A tombstoned hash belongs to a key that was evicted and not stored again:
\* an evicted-then-recomputed miss is never attributed to a live block.
TombstonesSound ==
    \A h \in Range(tombstones) : \E k \in evicted : HashOf[k] = h

\* The registry holds each hash once and never outgrows its capacity.
TombstonesBounded ==
    /\ Len(tombstones) <= TombstoneCapacity
    /\ IsInjective(tombstones)

\* The registry neither accuses a live block nor overflows, whatever is
\* evicted, stored again and evicted again.
TombstonesExact == TombstonesSound /\ TombstonesBounded
=============================================================================
