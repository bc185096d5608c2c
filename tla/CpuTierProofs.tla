---------------------------- MODULE CpuTierProofs -----------------------------
(***************************************************************************)
(* Proofs about CpuTier, for every set of keys, number of slots, cap and   *)
(* set of transfers.                                                       *)
(***************************************************************************)
EXTENDS CpuTier, ProofBasics, FiniteSetTheorems, SequenceTheorems, TLAPS

\* A transfer set up by SubmitLoad or SubmitStore is a job with those fields.
LEMMA JobIntro ==
  ASSUME NEW K \in SUBSET Key, NEW f \in [K -> Slot],
         NEW kind \in {"none", "load", "store"}
  PROVE  /\ Job(kind, K, f) \in JobType
         /\ Job(kind, K, f).kind = kind
         /\ Job(kind, K, f).keys = K
         /\ Job(kind, K, f).slot = f
<1>1. Job(kind, K, f) \in
        [kind : {"none", "load", "store"}, keys : {K}, slot : [K -> Slot]]
  BY DEF Job
<1> QED
  BY <1>1 DEF Job, JobType

\* The fields of any job: its kind, its keys and the slots its worker was given.
LEMMA JobElim ==
  ASSUME NEW x \in JobType
  PROVE  /\ x.kind \in {"none", "load", "store"}
         /\ x.keys \in SUBSET Key
         /\ x.slot \in [x.keys -> Slot]
<1>1. PICK K \in SUBSET Key :
        x \in [kind : {"none", "load", "store"}, keys : {K}, slot : [K -> Slot]]
  BY DEF JobType
<1> QED
  BY <1>1

\* The entry of a finished or discarded transfer is a job without keys.
LEMMA NoJobType ==
  NoJob \in JobType /\ NoJob.kind = "none" /\ NoJob.keys = {}
<1>1. NoJob \in
        [kind : {"none", "load", "store"}, keys : {{}}, slot : [{} -> Slot]]
  BY DEF NoJob
<1> QED
  BY <1>1 DEF NoJob, JobType

\* A manager just constructed, with no transfer in flight, is well typed.
LEMMA InitTypeOK == Init => TypeOK
  BY NumBlocksAssumption, NoJobType
  DEF Init, MgrInit, TypeOK, NoBlocks, Cached


\* The step of the job table that every action takes.
LEMMA JobsTypeOK ==
  ASSUME TypeOK, NEW j \in JobId, NEW x \in JobType,
         jobs' = [jobs EXCEPT ![j] = x],
         x.kind = "none" => x.keys = {}
  PROVE  /\ jobs' \in [JobId -> JobType]
         /\ \A i \in JobId : jobs'[i].kind = "none" => jobs'[i].keys = {}
  BY DEF TypeOK

\* What an eviction the contract allows consists of.
LEMMA EvictionKeys ==
  ASSUME NEW K, NEW es \in EvictionsFor(K)
  PROVE  /\ Range(es) \subseteq Evictable
         /\ Range(es) \cap K = {}
  BY DEF EvictionsFor, Evictions, Range

\* _allocate_blocks never hands out a fresh slot beyond the CPU buffer.
LEMMA FreshSlots ==
  ASSUME NEW n \in Nat, numAllocated \in 0 .. NumBlocks
  PROVE  /\ NumFresh(n) \in Nat
         /\ numAllocated + NumFresh(n) \in 0 .. NumBlocks
         /\ Fresh(n) \subseteq Slot
  BY NumBlocksAssumption DEF NumFresh, Fresh, Slot

\* Every operation of the manager and its clients keeps the types.
LEMMA NextTypeOK == TypeOK /\ [Next]_vars => TypeOK'
<1> SUFFICES ASSUME TypeOK, [Next]_vars PROVE TypeOK'
  OBVIOUS
<1> USE NumBlocksAssumption, KeyAssumption
<1>1. ASSUME NEW j \in JobId, NEW K \in SUBSET Key, SubmitLoad(j, K)
      PROVE  TypeOK'
  <2>1. /\ K \subseteq Cached
        /\ [k \in K |-> blocks[k].block_id] \in [K -> Slot]
    BY <1>1 DEF SubmitLoad, PrepareLoad, LoadAsserts, TypeOK, BlockStatus
  <2>2. /\ jobs' \in [JobId -> JobType]
        /\ \A i \in JobId : jobs'[i].kind = "none" => jobs'[i].keys = {}
    <3> DEFINE x == Job("load", K, [k \in K |-> blocks[k].block_id])
    <3>1. x \in JobType /\ x.kind = "load"
      BY <2>1, JobIntro
    <3>2. jobs' = [jobs EXCEPT ![j] = x]
      BY <1>1 DEF SubmitLoad
    <3> HIDE DEF x
    <3> QED BY <3>1, <3>2, JobsTypeOK
  <2>3. /\ Cached' = Cached
        /\ blocks' \in [Cached -> BlockStatus]
        /\ \A k \in Cached : blocks'[k].ref_cnt >= -1
    BY <1>1 DEF TypeOK, SubmitLoad, PrepareLoad, Cached, BlockStatus
  <2>4. Cardinality(K \cap Evictable) \in Int
    BY FS_CardinalityType, FS_Subset
  <2> QED
    BY <1>1, <2>2, <2>3, <2>4 DEF TypeOK, SubmitLoad, PrepareLoad
<1>2. ASSUME NEW j \in JobId, FinishLoad(j)
      PROVE  TypeOK'
  <2>1. /\ jobs' \in [JobId -> JobType]
        /\ \A i \in JobId : jobs'[i].kind = "none" => jobs'[i].keys = {}
    BY <1>2, NoJobType, JobsTypeOK DEF FinishLoad
  <2>2. jobs[j].keys \subseteq Key
    BY JobElim DEF TypeOK
  <2>3. /\ Cached' = Cached
        /\ blocks' \in [Cached -> BlockStatus]
        /\ \A k \in Cached : blocks'[k].ref_cnt >= -1
    BY <1>2 DEF TypeOK, FinishLoad, CompleteLoad, CompleteLoadAsserts, Cached,
       BlockStatus
  <2>4. Cardinality({k \in jobs[j].keys : blocks[k].ref_cnt = 1}) \in Int
    BY <2>2, FS_CardinalityType, FS_Subset
  <2> QED
    BY <1>2, <2>1, <2>3, <2>4 DEF TypeOK, FinishLoad, CompleteLoad
<1>3. ASSUME NEW j \in JobId, NEW K \in SUBSET Key, NEW es \in EvictionsFor(K),
             NEW slot \in Allocations(K, es), SubmitStore(j, K, es, slot)
      PROVE  TypeOK'
  <2>1. /\ New(K) \in SUBSET Key
        /\ slot \in [New(K) -> Slot]
    BY DEF New, Allocations, Slot
  <2>2. /\ jobs' \in [JobId -> JobType]
        /\ \A i \in JobId : jobs'[i].kind = "none" => jobs'[i].keys = {}
    BY <1>3, <2>1, JobIntro, JobsTypeOK DEF SubmitStore
  <2>3. Range(es) \subseteq Cached
    BY EvictionKeys DEF Evictable
  <2>4. /\ blocks' = [k \in (Cached \ Range(es)) \cup New(K) |->
                        IF k \in New(K) THEN [ref_cnt |-> -1, block_id |-> slot[k]]
                                        ELSE blocks[k]]
        /\ freeList' = (freeList \cup SlotsOf(Range(es))) \ Range(slot)
        /\ numAllocated' = numAllocated + NumFresh(Cardinality(New(K)))
        /\ numEvictable' = numEvictable - Cardinality(Range(es))
        /\ numWritePending' = numWritePending + Cardinality(New(K))
        /\ evicted' = evicted \cup Range(es)
        /\ advertised' = advertised
    BY <1>3 DEF SubmitStore, PrepareStore
  <2>5. /\ Cached' \subseteq Key
        /\ blocks' \in [Cached' -> BlockStatus]
        /\ \A k \in Cached' : blocks'[k].ref_cnt >= -1
    BY <2>1, <2>3, <2>4 DEF TypeOK, Cached, BlockStatus
  <2>6. freeList' \subseteq Slot
    BY <2>3, <2>4 DEF TypeOK, SlotsOf, BlockStatus
  <2>7. /\ Cardinality(New(K)) \in Nat
        /\ Cardinality(Range(es)) \in Nat
    BY <2>1, <2>3, FS_CardinalityType, FS_Subset DEF TypeOK
  <2>8. numAllocated' \in 0 .. NumBlocks
    BY <2>4, <2>7, FreshSlots DEF TypeOK
  <2> QED
    BY <2>2, <2>3, <2>4, <2>5, <2>6, <2>7, <2>8 DEF TypeOK
<1>4. ASSUME NEW j \in JobId, FinishStore(j)
      PROVE  TypeOK'
  <2>1. /\ jobs' \in [JobId -> JobType]
        /\ \A i \in JobId : jobs'[i].kind = "none" => jobs'[i].keys = {}
    BY <1>4, NoJobType, JobsTypeOK DEF FinishStore
  <2>2. /\ Cached' = Cached
        /\ blocks' \in [Cached -> BlockStatus]
        /\ \A k \in Cached : blocks'[k].ref_cnt >= -1
    BY <1>4 DEF TypeOK, FinishStore, StoreSucceeds, Cached, BlockStatus
  <2>3. Cardinality(jobs[j].keys \cap {k \in Cached : ~Ready(k)}) \in Int
    BY FS_CardinalityType, FS_Subset DEF TypeOK
  <2> QED
    BY <1>4, <2>1, <2>2, <2>3 DEF TypeOK, FinishStore, StoreSucceeds
<1>5. ASSUME NEW j \in JobId, FailStore(j)
      PROVE  TypeOK'
  <2>1. /\ jobs' \in [JobId -> JobType]
        /\ \A i \in JobId : jobs'[i].kind = "none" => jobs'[i].keys = {}
    BY <1>5, NoJobType, JobsTypeOK DEF FailStore
  <2>2. /\ Cached' \subseteq Cached
        /\ blocks' \in [Cached' -> BlockStatus]
        /\ \A k \in Cached' : blocks'[k].ref_cnt >= -1
    BY <1>5 DEF TypeOK, FailStore, StoreFails, Cached
  <2>3. freeList' \subseteq Slot
    BY <1>5 DEF TypeOK, FailStore, StoreFails, SlotsOf, BlockStatus
  <2>4. Cardinality(jobs[j].keys \cap {k \in Cached : ~Ready(k)}) \in Int
    BY FS_CardinalityType, FS_Subset DEF TypeOK
  <2> QED
    BY <1>5, <2>1, <2>2, <2>3, <2>4 DEF TypeOK, FailStore, StoreFails
<1>6. CASE Reset
  <2>1. jobs' \in [JobId -> JobType] /\ \A i \in JobId : jobs'[i].keys = {}
    BY <1>6, NoJobType DEF Reset
  <2> QED
    BY <1>6, <2>1 DEF TypeOK, Reset, ResetCache, NoBlocks, Cached
<1>7. CASE ReadEvents
  BY <1>7 DEF TypeOK, ReadEvents, TakeEvents, Cached
<1>8. CASE UNCHANGED vars
  BY <1>8 DEF vars, mgrVars, TypeOK, Cached
<1> QED
  BY <1>1, <1>2, <1>3, <1>4, <1>5, <1>6, <1>7, <1>8 DEF Next
-----------------------------------------------------------------------------
(***************************************************************************)
(* The inductive invariant.  Slots stay put because pinned blocks are not  *)
(* idle (RefCountsMatchJobs), the pins are right because a transfer's keys *)
(* stay cached (TransfersKeepTheirSlots), and the free list is disjoint    *)
(* from the slots in use (SlotsConserved): none is inductive alone.        *)
(***************************************************************************)
IInv ==
    /\ TypeOK
    /\ SlotsConserved
    /\ RefCountsMatchJobs
    /\ TransfersKeepTheirSlots

\* What the invariant says of a key of a transfer in flight.
LEMMA PinnedKeys ==
  ASSUME IInv, NEW j \in InFlight, NEW k \in jobs[j].keys
  PROVE  /\ k \in Cached
         /\ blocks[k].ref_cnt # 0
         /\ j \in Loads => blocks[k].ref_cnt > 0 /\ Writers(jobs, k) = {}
         /\ j \in Stores => /\ blocks[k].ref_cnt = -1
                            /\ Readers(jobs, k) = {} /\ Writers(jobs, k) = {j}
<1>1. k \in Cached
  BY DEF IInv, TransfersKeepTheirSlots
<1>2. CASE j \in Stores
  <2>1. j \in Writers(jobs, k) /\ j \notin Loads
    BY <1>2 DEF Writers, Stores, Loads
  <2>2. blocks[k].ref_cnt = -1 /\ Readers(jobs, k) = {} /\ Writers(jobs, k) = {j}
    BY <1>1, <2>1 DEF IInv, RefCountsMatchJobs
  <2> QED
    BY <1>1, <2>1, <2>2
<1>3. CASE j \in Loads
  <2>1. j \in Readers(jobs, k) /\ j \notin Stores
    BY <1>3 DEF Readers, Stores, Loads
  <2>2. Writers(jobs, k) = {} /\ blocks[k].ref_cnt = Cardinality(Readers(jobs, k))
    BY <1>1, <2>1 DEF IInv, RefCountsMatchJobs
  <2>3. Cardinality(Readers(jobs, k)) > 0
    <3>1. Readers(jobs, k) \subseteq JobId
      BY DEF Readers, Loads
    <3> QED
      BY <2>1, <3>1, JobAssumption, FS_Subset, FS_CardinalityType, FS_EmptySet
  <2> QED
    BY <1>1, <2>1, <2>2, <2>3
<1> QED
  BY <1>2, <1>3, JobElim DEF InFlight, Loads, Stores, IInv, TypeOK

\* An operation that only moves ref counts disturbs no slot: prepare_load,
\* complete_load and a successful complete_store.
LEMMA SlotsUntouched ==
  ASSUME SlotsConserved, Cached' = Cached,
         \A k \in Cached : blocks'[k].block_id = blocks[k].block_id,
         UNCHANGED <<freeList, numAllocated>>
  PROVE  SlotsConserved'
<1>1. SlotsOf(Cached)' = SlotsOf(Cached)
  BY DEF SlotsOf
<1> QED
  BY <1>1 DEF SlotsConserved

\* Every operation keeps the slots conserved: what an eviction or a failed
\* store frees goes to the free list, what prepare_store allocates leaves it.
LEMMA NextSlotsConserved == IInv /\ [Next]_vars => SlotsConserved'
<1> SUFFICES ASSUME IInv, [Next]_vars PROVE SlotsConserved'
  OBVIOUS
<1> USE NumBlocksAssumption DEF IInv
<1>1. ASSUME NEW j \in JobId, NEW K \in SUBSET Key, SubmitLoad(j, K)
      PROVE  SlotsConserved'
  BY <1>1, SlotsUntouched DEF SubmitLoad, PrepareLoad, Cached, TypeOK, BlockStatus
<1>2. ASSUME NEW j \in JobId, FinishLoad(j)
      PROVE  SlotsConserved'
  BY <1>2, SlotsUntouched DEF FinishLoad, CompleteLoad, Cached, TypeOK, BlockStatus
<1>3. ASSUME NEW j \in JobId, NEW K \in SUBSET Key, NEW es \in EvictionsFor(K),
             NEW slot \in Allocations(K, es), SubmitStore(j, K, es, slot)
      PROVE  SlotsConserved'
  <2> DEFINE pool == freeList \cup SlotsOf(Range(es))
             kept == Cached \ Range(es)
             n == Cardinality(New(K))
  <2>1. /\ blocks' = [k \in kept \cup New(K) |->
                        IF k \in New(K) THEN [ref_cnt |-> -1, block_id |-> slot[k]]
                                        ELSE blocks[k]]
        /\ freeList' = pool \ Range(slot)
        /\ numAllocated' = numAllocated + NumFresh(n)
    BY <1>3 DEF SubmitStore, PrepareStore
  <2>2. Range(es) \subseteq Cached
    BY EvictionKeys DEF Evictable
  <2>3. /\ slot \in [New(K) -> Fresh(n) \cup pool]
        /\ \A k, l \in New(K) : slot[k] = slot[l] => k = l
        /\ Fresh(n) \subseteq Range(slot)
    BY DEF Allocations, IsAllocation, Injection, IsInjective
  <2>4. n \in Nat
    BY FS_CardinalityType, FS_Subset, KeyAssumption DEF New
  <2>5. /\ NumFresh(n) \in Nat
        /\ (0 .. numAllocated - 1) \cup Fresh(n) = 0 .. numAllocated' - 1
        /\ (0 .. numAllocated - 1) \cap Fresh(n) = {}
    BY <2>1, <2>4, FreshSlots DEF TypeOK, Fresh
  <2>6. /\ SlotsOf(kept) \cap pool = {}
        /\ SlotsOf(kept) \cup pool = 0 .. numAllocated - 1
    BY <2>2 DEF SlotsConserved, SlotsOf
  <2>7. /\ Cached' = kept \cup New(K)
        /\ \A k \in kept : k \notin New(K) /\ blocks'[k] = blocks[k]
        /\ \A k \in New(K) : blocks'[k].block_id = slot[k]
    BY <2>1 DEF Cached, New
  <2>8. Range(slot) = {slot[k] : k \in New(K)}
    BY <2>3 DEF Range
  <2>9. SlotsOf(Cached)' = SlotsOf(kept) \cup Range(slot)
    BY <2>7, <2>8 DEF SlotsOf
  <2>10. \A k, l \in Cached' : blocks'[k].block_id = blocks'[l].block_id => k = l
    <3>1. \A k \in kept, l \in New(K) : blocks[k].block_id # slot[l]
      BY <2>3, <2>5, <2>6 DEF SlotsOf
    <3> QED
      BY <2>3, <2>7, <3>1 DEF SlotsConserved
  <2> QED
    <3>1. Range(slot) \subseteq Fresh(n) \cup pool
      BY <2>3, <2>8
    <3>2. SlotsOf(kept) \cap freeList' = {}
      BY <2>1, <2>6
    <3>3. freeList' \cup (SlotsOf(kept) \cup Range(slot)) = 0 .. numAllocated' - 1
      BY <2>1, <2>3, <2>5, <2>6, <3>1
    <3> QED
      BY <2>1, <2>9, <2>10, <3>2, <3>3 DEF SlotsConserved
<1>4. ASSUME NEW j \in JobId, FinishStore(j)
      PROVE  SlotsConserved'
  BY <1>4, SlotsUntouched DEF FinishStore, StoreSucceeds, Cached, TypeOK, BlockStatus
<1>5. ASSUME NEW j \in JobId, FailStore(j)
      PROVE  SlotsConserved'
  BY <1>5 DEF FailStore, StoreFails, SlotsConserved, SlotsOf, Cached
<1>6. CASE Reset
  BY <1>6 DEF Reset, ResetCache, NoBlocks, SlotsConserved, SlotsOf, Cached
<1>7. CASE ReadEvents
  BY <1>7, SlotsUntouched DEF ReadEvents, TakeEvents, Cached
<1>8. CASE UNCHANGED vars
  BY <1>8, SlotsUntouched DEF vars, mgrVars, Cached
<1> QED
  BY <1>1, <1>2, <1>3, <1>4, <1>5, <1>6, <1>7, <1>8 DEF Next

\* No operation takes a slot from a transfer in flight: evictions spare pinned
\* and pending blocks, and only a reset, which drops the jobs, drops them.
LEMMA NextTransfersKeepTheirSlots ==
  IInv /\ [Next]_vars => TransfersKeepTheirSlots'
<1> SUFFICES ASSUME IInv, [Next]_vars PROVE TransfersKeepTheirSlots'
  OBVIOUS
<1> USE DEF IInv
<1>1. ASSUME NEW j \in JobId, NEW K \in SUBSET Key, SubmitLoad(j, K)
      PROVE  TransfersKeepTheirSlots'
  <2>1. /\ Cached' = Cached /\ K \subseteq Cached
        /\ \A k \in Cached : blocks'[k].block_id = blocks[k].block_id
    BY <1>1 DEF SubmitLoad, PrepareLoad, LoadAsserts, Cached, TypeOK, BlockStatus
  <2>2. /\ jobs'[j].keys = K
        /\ \A k \in K : jobs'[j].slot[k] = blocks[k].block_id
        /\ \A i \in JobId \ {j} : jobs'[i] = jobs[i]
    BY <1>1 DEF SubmitLoad, Job, TypeOK
  <2> QED
    BY <2>1, <2>2 DEF TransfersKeepTheirSlots, InFlight
<1>2. ASSUME NEW j \in JobId, FinishLoad(j)
      PROVE  TransfersKeepTheirSlots'
  <2>1. /\ Cached' = Cached
        /\ \A k \in Cached : blocks'[k].block_id = blocks[k].block_id
    BY <1>2 DEF FinishLoad, CompleteLoad, Cached, TypeOK, BlockStatus
  <2>2. jobs'[j].keys = {} /\ \A i \in JobId \ {j} : jobs'[i] = jobs[i]
    BY <1>2, NoJobType DEF FinishLoad, TypeOK
  <2> QED
    BY <2>1, <2>2 DEF TransfersKeepTheirSlots, InFlight
<1>3. ASSUME NEW j \in JobId, NEW K \in SUBSET Key, NEW es \in EvictionsFor(K),
             NEW slot \in Allocations(K, es), SubmitStore(j, K, es, slot)
      PROVE  TransfersKeepTheirSlots'
  <2>1. blocks' = [k \in (Cached \ Range(es)) \cup New(K) |->
                        IF k \in New(K) THEN [ref_cnt |-> -1, block_id |-> slot[k]]
                                        ELSE blocks[k]]
    BY <1>3 DEF SubmitStore, PrepareStore
  <2>2. /\ jobs'[j].keys = New(K) /\ jobs'[j].slot = slot
        /\ \A i \in JobId \ {j} : jobs'[i] = jobs[i]
    BY <1>3 DEF SubmitStore, Job, TypeOK
  <2>3. \A i \in InFlight : \A k \in jobs[i].keys : k \in Cached \ Range(es)
    BY PinnedKeys, EvictionKeys DEF Evictable
  <2> QED
    BY <2>1, <2>2, <2>3 DEF TransfersKeepTheirSlots, InFlight, Cached, New
<1>4. ASSUME NEW j \in JobId, FinishStore(j)
      PROVE  TransfersKeepTheirSlots'
  <2>1. /\ Cached' = Cached
        /\ \A k \in Cached : blocks'[k].block_id = blocks[k].block_id
    BY <1>4 DEF FinishStore, StoreSucceeds, Cached, TypeOK, BlockStatus
  <2>2. jobs'[j].keys = {} /\ \A i \in JobId \ {j} : jobs'[i] = jobs[i]
    BY <1>4, NoJobType DEF FinishStore, TypeOK
  <2> QED
    BY <2>1, <2>2 DEF TransfersKeepTheirSlots, InFlight
<1>5. ASSUME NEW j \in JobId, FailStore(j)
      PROVE  TransfersKeepTheirSlots'
  <2>1. blocks' = [k \in Cached \ (jobs[j].keys \cap {k \in Cached : ~Ready(k)})
                     |-> blocks[k]]
    BY <1>5 DEF FailStore, StoreFails
  <2>2. jobs'[j].keys = {} /\ \A i \in JobId \ {j} : jobs'[i] = jobs[i]
    BY <1>5, NoJobType DEF FailStore, TypeOK
  <2>3. \A i \in InFlight \ {j} : \A k \in jobs[i].keys :
           k \in Cached /\ k \notin jobs[j].keys
    <3>1. j \in Stores
      BY <1>5 DEF FailStore, Stores
    <3>2. ASSUME NEW i \in InFlight \ {j}, NEW k \in jobs[i].keys,
                 k \in jobs[j].keys
          PROVE  FALSE
      <4>1. Readers(jobs, k) = {} /\ Writers(jobs, k) = {j}
        BY <3>1, <3>2, PinnedKeys DEF InFlight, Stores
      <4> QED
        BY <3>2, <4>1, JobElim DEF Readers, Writers, Loads, Stores, InFlight, TypeOK
    <3> QED
      BY <3>2, PinnedKeys
  <2> QED
    BY <2>1, <2>2, <2>3 DEF TransfersKeepTheirSlots, InFlight, Cached
<1>6. CASE Reset
  BY <1>6, NoJobType DEF Reset, TransfersKeepTheirSlots, InFlight
<1>7. CASE ReadEvents
  BY <1>7 DEF ReadEvents, TakeEvents, Cached, TransfersKeepTheirSlots, InFlight
<1>8. CASE UNCHANGED vars
  BY <1>8 DEF vars, mgrVars, Cached, TransfersKeepTheirSlots, InFlight
<1> QED
  BY <1>1, <1>2, <1>3, <1>4, <1>5, <1>6, <1>7, <1>8 DEF Next

\* How the readers and writers of a key change when job j becomes x.
LEMMA ReadersWriters ==
  ASSUME TypeOK, NEW j \in JobId, NEW x \in JobType, NEW k,
         jobs' = [jobs EXCEPT ![j] = x]
  PROVE  /\ Readers(jobs', k) = (Readers(jobs, k) \ {j}) \cup
                          (IF x.kind = "load" /\ k \in x.keys THEN {j} ELSE {})
         /\ Writers(jobs', k) = (Writers(jobs, k) \ {j}) \cup
                          (IF x.kind = "store" /\ k \in x.keys THEN {j} ELSE {})
  BY DEF TypeOK, Readers, Writers, Loads, Stores

\* When a transfer completes, it is no longer among the readers or writers.
LEMMA JobEnds ==
  ASSUME TypeOK, NEW j \in JobId, jobs' = [jobs EXCEPT ![j] = NoJob], NEW k
  PROVE  Readers(jobs', k) = Readers(jobs, k) \ {j} /\ Writers(jobs', k) = Writers(jobs, k) \ {j}
<1>1. /\ Readers(jobs', k) = (Readers(jobs, k) \ {j}) \cup
                          (IF NoJob.kind = "load" /\ k \in NoJob.keys THEN {j} ELSE {})
      /\ Writers(jobs', k) = (Writers(jobs, k) \ {j}) \cup
                          (IF NoJob.kind = "store" /\ k \in NoJob.keys THEN {j} ELSE {})
  BY NoJobType, ReadersWriters, Zenon
<1> QED
  BY <1>1, NoJobType

\* Whether a transfer is among the readers and writers of a key.
LEMMA ReaderOrWriter ==
  ASSUME NEW j \in JobId, NEW k
  PROVE  /\ j \in Readers(jobs, k) <=> jobs[j].kind = "load" /\ k \in jobs[j].keys
         /\ j \in Writers(jobs, k) <=> jobs[j].kind = "store" /\ k \in jobs[j].keys
  BY DEF Readers, Writers, Loads, Stores

\* The loads in flight on a block can be counted.
LEMMA FiniteReaders ==
  ASSUME NEW k
  PROVE  IsFiniteSet(Readers(jobs, k)) /\ Cardinality(Readers(jobs, k)) \in Nat
<1>1. Readers(jobs, k) \in SUBSET JobId
  BY DEF Readers, Loads
<1> QED
  BY <1>1, JobAssumption, FS_Subset, FS_CardinalityType

\* Every operation keeps ref_cnt the number of loads in flight on the block,
\* and -1 exactly under its one store.
LEMMA NextRefCountsMatchJobs == IInv /\ [Next]_vars => RefCountsMatchJobs'
<1> SUFFICES ASSUME IInv, [Next]_vars PROVE RefCountsMatchJobs'
  OBVIOUS
<1> USE DEF IInv
<1>1. ASSUME NEW j \in JobId, NEW K \in SUBSET Key, SubmitLoad(j, K)
      PROVE  RefCountsMatchJobs'
  <2> DEFINE x == Job("load", K, [k \in K |-> blocks[k].block_id])
  <2>1. /\ K \subseteq Cached
        /\ \A k \in K : blocks[k].ref_cnt >= 0
        /\ Cached' = Cached
        /\ \A k \in Cached : blocks'[k].ref_cnt =
              IF k \in K THEN blocks[k].ref_cnt + 1 ELSE blocks[k].ref_cnt
    BY <1>1 DEF SubmitLoad, PrepareLoad, LoadAsserts, Ready, Cached, TypeOK, BlockStatus
  <2>2. /\ x \in JobType /\ x.kind = "load" /\ x.keys = K
        /\ jobs' = [jobs EXCEPT ![j] = x]
    <3>1. [k \in K |-> blocks[k].block_id] \in [K -> Slot]
      BY <2>1 DEF TypeOK, BlockStatus
    <3> QED
      BY <1>1, <3>1, JobIntro DEF SubmitLoad
  <2> HIDE DEF x
  <2>3. \A k : j \notin Readers(jobs, k) /\ j \notin Writers(jobs, k)
    BY <1>1, ReaderOrWriter DEF SubmitLoad
  <2>4. ASSUME NEW k \in Cached
        PROVE  /\ Writers(jobs', k) = Writers(jobs, k)
               /\ Readers(jobs', k) = IF k \in K THEN Readers(jobs, k) \cup {j} ELSE Readers(jobs, k)
               /\ j \notin Readers(jobs, k)
    <3>1. /\ Readers(jobs', k) = (Readers(jobs, k) \ {j}) \cup
                (IF x.kind = "load" /\ k \in x.keys THEN {j} ELSE {})
          /\ Writers(jobs', k) = (Writers(jobs, k) \ {j}) \cup
                (IF x.kind = "store" /\ k \in x.keys THEN {j} ELSE {})
      BY <2>2, ReadersWriters, Zenon
    <3>2. x.kind = "load" /\ x.keys = K
      BY <2>2
    <3>3. j \notin Readers(jobs, k) /\ j \notin Writers(jobs, k)
      BY <2>3
    <3> QED BY ONLY <3>1, <3>2, <3>3
  <2>5. ASSUME NEW k \in K
        PROVE  Cardinality(Readers(jobs', k)) = Cardinality(Readers(jobs, k)) + 1
    BY <2>1, <2>4, FiniteReaders, FS_AddElement
  <2>6. \A k \in K : Writers(jobs, k) = {}
    BY <2>1 DEF RefCountsMatchJobs
  <2> QED
    BY <2>1, <2>4, <2>5, <2>6 DEF RefCountsMatchJobs
<1>2. ASSUME NEW j \in JobId, FinishLoad(j)
      PROVE  RefCountsMatchJobs'
  <2> DEFINE K == jobs[j].keys
  <2>1. /\ K \subseteq Cached
        /\ Cached' = Cached
        /\ \A k \in Cached : blocks'[k].ref_cnt =
              IF k \in K THEN blocks[k].ref_cnt - 1 ELSE blocks[k].ref_cnt
    BY <1>2 DEF FinishLoad, CompleteLoad, CompleteLoadAsserts, Cached, TypeOK,
       BlockStatus
  <2>2. j \in Loads /\ j \in InFlight /\ j \notin Stores
    BY <1>2 DEF FinishLoad, Loads, Stores, InFlight
  <2>3. ASSUME NEW k \in Cached
        PROVE  /\ Writers(jobs', k) = Writers(jobs, k)
               /\ Readers(jobs', k) = Readers(jobs, k) \ {j}
               /\ j \in Readers(jobs, k) <=> k \in K
    <3>1. /\ Writers(jobs', k) = Writers(jobs, k) \ {j}
          /\ Readers(jobs', k) = Readers(jobs, k) \ {j}
      BY <1>2, JobEnds, Zenon DEF FinishLoad
    <3>2. /\ j \in Readers(jobs, k) <=> k \in K
          /\ j \notin Writers(jobs, k)
      BY <2>2 DEF Readers, Writers, Loads, Stores
    <3> QED
      BY <3>1, <3>2
  <2>4. ASSUME NEW k \in K
        PROVE  /\ Cardinality(Readers(jobs', k)) = Cardinality(Readers(jobs, k)) - 1
               /\ Writers(jobs, k) = {}
    BY <2>1, <2>2, <2>3, FiniteReaders, FS_RemoveElement, PinnedKeys
  <2>5. ASSUME NEW k \in Cached, k \notin K
        PROVE  Readers(jobs', k) = Readers(jobs, k)
    BY <2>3, <2>5
  <2> QED
    BY <2>1, <2>3, <2>4, <2>5 DEF RefCountsMatchJobs
<1>3. ASSUME NEW j \in JobId, NEW K \in SUBSET Key, NEW es \in EvictionsFor(K),
             NEW slot \in Allocations(K, es), SubmitStore(j, K, es, slot)
      PROVE  RefCountsMatchJobs'
  <2>1. blocks' = [k \in (Cached \ Range(es)) \cup New(K) |->
                        IF k \in New(K) THEN [ref_cnt |-> -1, block_id |-> slot[k]]
                                        ELSE blocks[k]]
    BY <1>3 DEF SubmitStore, PrepareStore
  <2>2. ASSUME NEW k
        PROVE  /\ Readers(jobs', k) = Readers(jobs, k)
               /\ Writers(jobs', k) = IF k \in New(K) THEN Writers(jobs, k) \cup {j}
                                                ELSE Writers(jobs, k)
    <3>1. /\ New(K) \in SUBSET Key
          /\ slot \in [New(K) -> Slot]
      BY DEF New, Allocations, Slot
    <3> DEFINE x == Job("store", New(K), slot)
    <3>2. /\ x \in JobType /\ x.kind = "store" /\ x.keys = New(K)
          /\ jobs' = [jobs EXCEPT ![j] = x]
      BY <1>3, <3>1, JobIntro DEF SubmitStore
    <3> HIDE DEF x
    <3>3. /\ Readers(jobs', k) = (Readers(jobs, k) \ {j}) \cup
                (IF x.kind = "load" /\ k \in x.keys THEN {j} ELSE {})
          /\ Writers(jobs', k) = (Writers(jobs, k) \ {j}) \cup
                (IF x.kind = "store" /\ k \in x.keys THEN {j} ELSE {})
      BY <3>2, ReadersWriters, Zenon
    <3>4. j \notin Readers(jobs, k) /\ j \notin Writers(jobs, k)
      BY <1>3, ReaderOrWriter DEF SubmitStore
    <3> QED
      BY <3>2, <3>3, <3>4
  <2>3. \A k \in New(K) : Readers(jobs, k) = {} /\ Writers(jobs, k) = {}
    BY PinnedKeys DEF Readers, Writers, Loads, Stores, InFlight, New
  <2>4. \A k \in Cached \ Range(es) : k \notin New(K) /\ k \in Cached
    BY DEF New
  <2> QED
    BY <2>1, <2>2, <2>3, <2>4 DEF RefCountsMatchJobs, Cached
<1>4. ASSUME NEW j \in JobId, FinishStore(j)
      PROVE  RefCountsMatchJobs'
  <2> DEFINE K == jobs[j].keys
  <2>1. j \in Stores /\ j \in InFlight /\ j \notin Loads
    BY <1>4 DEF FinishStore, Loads, Stores, InFlight
  <2>2. \A k \in K : /\ k \in Cached /\ ~Ready(k)
                     /\ Readers(jobs, k) = {} /\ Writers(jobs, k) = {j}
    BY <2>1, PinnedKeys DEF Ready
  <2>3. /\ Cached' = Cached
        /\ \A k \in Cached : blocks'[k].ref_cnt =
                               IF k \in K THEN 0 ELSE blocks[k].ref_cnt
    BY <1>4, <2>2 DEF FinishStore, StoreSucceeds, Cached, TypeOK, BlockStatus
  <2>4. ASSUME NEW k
        PROVE  Readers(jobs', k) = Readers(jobs, k) /\ Writers(jobs', k) = Writers(jobs, k) \ {j}
    <3>1. j \notin Readers(jobs, k)
      BY <1>4, ReaderOrWriter DEF FinishStore
    <3>2. /\ Writers(jobs', k) = Writers(jobs, k) \ {j}
          /\ Readers(jobs', k) = Readers(jobs, k) \ {j}
      BY <1>4, JobEnds, Zenon DEF FinishStore
    <3> QED
      BY <3>1, <3>2
  <2>5. \A k \in Cached \ K : j \notin Writers(jobs, k)
    BY DEF Writers
  <2>6. ASSUME NEW k \in K
        PROVE  /\ Readers(jobs', k) = {} /\ Writers(jobs', k) = {}
               /\ Cardinality(Readers(jobs', k)) = 0
    BY <2>2, <2>4, FS_EmptySet
  <2>7. ASSUME NEW k \in Cached, k \notin K
        PROVE  Readers(jobs', k) = Readers(jobs, k) /\ Writers(jobs', k) = Writers(jobs, k)
    BY <2>4, <2>5, <2>7
  <2> QED
    BY <2>2, <2>3, <2>6, <2>7 DEF RefCountsMatchJobs
<1>5. ASSUME NEW j \in JobId, FailStore(j)
      PROVE  RefCountsMatchJobs'
  <2> DEFINE K == jobs[j].keys
  <2>1. j \in Stores /\ j \in InFlight /\ j \notin Loads
    BY <1>5 DEF FailStore, Loads, Stores, InFlight
  <2>2. \A k \in K : k \in Cached /\ ~Ready(k)
    BY <2>1, PinnedKeys DEF Ready
  <2>3. Cached' = Cached \ K /\ \A k \in Cached \ K : blocks'[k] = blocks[k]
    BY <1>5, <2>2 DEF FailStore, StoreFails, Cached
  <2>4. ASSUME NEW k
        PROVE  Readers(jobs', k) = Readers(jobs, k) /\ Writers(jobs', k) = Writers(jobs, k) \ {j}
    <3>1. j \notin Readers(jobs, k)
      BY <1>5, ReaderOrWriter DEF FailStore
    <3>2. /\ Writers(jobs', k) = Writers(jobs, k) \ {j}
          /\ Readers(jobs', k) = Readers(jobs, k) \ {j}
      BY <1>5, JobEnds, Zenon DEF FailStore
    <3> QED
      BY <3>1, <3>2
  <2>5. \A k \in Cached \ K : j \notin Writers(jobs, k)
    BY DEF Writers
  <2> QED
    BY <2>3, <2>4, <2>5 DEF RefCountsMatchJobs
<1>6. CASE Reset
  BY <1>6 DEF Reset, ResetCache, RefCountsMatchJobs, Cached, NoBlocks
<1>7. CASE ReadEvents
  BY <1>7 DEF ReadEvents, TakeEvents, Cached, RefCountsMatchJobs, Readers,
     Writers, Loads, Stores
<1>8. CASE UNCHANGED vars
  BY <1>8 DEF vars, mgrVars, Cached, RefCountsMatchJobs, Readers, Writers,
     Loads, Stores
<1> QED
  BY <1>1, <1>2, <1>3, <1>4, <1>5, <1>6, <1>7, <1>8 DEF Next

-----------------------------------------------------------------------------
(***************************************************************************)
(* The counters.                                                           *)
(***************************************************************************)
\* The sets of blocks that the manager's counters stand for are finite.
LEMMA CachedIsFinite ==
  ASSUME TypeOK
  PROVE  /\ IsFiniteSet(Cached) /\ IsFiniteSet(Evictable)
         /\ IsFiniteSet(WritePending)
  BY KeyAssumption, FS_Subset DEF TypeOK, Evictable, WritePending

\* Every operation moves the two counters of the manager by exactly the blocks
\* that become, or cease to be, idle or pending.
LEMMA NextCountersExact ==
  IInv /\ CountersExact /\ [Next]_vars => CountersExact'
<1> SUFFICES ASSUME IInv, CountersExact, [Next]_vars PROVE CountersExact'
  OBVIOUS
<1> USE CachedIsFinite DEF IInv
<1>1. ASSUME NEW j \in JobId, NEW K \in SUBSET Key, SubmitLoad(j, K)
      PROVE  CountersExact'
  <2>1. /\ blocks' = [k \in Cached |-> IF k \in K
                        THEN [blocks[k] EXCEPT !.ref_cnt = @ + 1] ELSE blocks[k]]
        /\ \A k \in K : k \in Cached /\ blocks[k].ref_cnt >= 0
        /\ numEvictable' = numEvictable - Cardinality(K \cap Evictable)
        /\ numWritePending' = numWritePending
    BY <1>1 DEF SubmitLoad, PrepareLoad, LoadAsserts, Ready
  <2>2. Evictable' = Evictable \ K /\ WritePending' = WritePending
    BY <2>1 DEF TypeOK, Cached, Evictable, WritePending, BlockStatus
  <2>3. /\ Cardinality(Evictable \ K) =
             Cardinality(Evictable) - Cardinality(Evictable \cap K)
        /\ Evictable \cap K = K \cap Evictable
    BY FS_Difference
  <2> QED
    BY <2>1, <2>2, <2>3 DEF CountersExact
<1>2. ASSUME NEW j \in JobId, FinishLoad(j)
      PROVE  CountersExact'
  <2> DEFINE freed == {k \in jobs[j].keys : blocks[k].ref_cnt = 1}
  <2>1. /\ blocks' = [k \in Cached |-> IF k \in jobs[j].keys
                        THEN [blocks[k] EXCEPT !.ref_cnt = @ - 1] ELSE blocks[k]]
        /\ \A k \in jobs[j].keys : k \in Cached /\ blocks[k].ref_cnt > 0
        /\ numEvictable' = numEvictable + Cardinality(freed)
        /\ numWritePending' = numWritePending
    BY <1>2 DEF FinishLoad, CompleteLoad, CompleteLoadAsserts
  <2>2. Evictable' = Evictable \cup freed /\ WritePending' = WritePending
    BY <2>1 DEF TypeOK, Cached, Evictable, WritePending, BlockStatus
  <2>3. freed \subseteq Cached /\ freed \cap Evictable = {}
    BY <2>1 DEF Evictable
  <2>4. Cardinality(Evictable \cup freed) = Cardinality(Evictable) + Cardinality(freed)
    BY <2>3, DisjointUnion, FS_Subset
  <2> QED
    BY <2>1, <2>2, <2>4 DEF CountersExact
<1>3. ASSUME NEW j \in JobId, NEW K \in SUBSET Key, NEW es \in EvictionsFor(K),
             NEW slot \in Allocations(K, es), SubmitStore(j, K, es, slot)
      PROVE  CountersExact'
  <2>1. /\ blocks' = [k \in (Cached \ Range(es)) \cup New(K) |->
                        IF k \in New(K) THEN [ref_cnt |-> -1, block_id |-> slot[k]]
                                        ELSE blocks[k]]
        /\ numEvictable' = numEvictable - Cardinality(Range(es))
        /\ numWritePending' = numWritePending + Cardinality(New(K))
    BY <1>3 DEF SubmitStore, PrepareStore
  <2>2. Range(es) \subseteq Evictable
    BY EvictionKeys
  <2>3. /\ Evictable' = Evictable \ Range(es)
        /\ WritePending' = WritePending \cup New(K)
    BY <2>1, <2>2 DEF Cached, Evictable, WritePending, New
  <2>4. Cardinality(Evictable \ Range(es)) =
          Cardinality(Evictable) - Cardinality(Range(es))
    BY <2>2, SubsetRemoval
  <2>5. IsFiniteSet(New(K)) /\ New(K) \cap WritePending = {}
    BY KeyAssumption, FS_Subset DEF New, WritePending
  <2>6. Cardinality(WritePending \cup New(K)) =
          Cardinality(WritePending) + Cardinality(New(K))
    BY <2>5, DisjointUnion
  <2> QED
    BY <2>1, <2>3, <2>4, <2>6 DEF CountersExact
<1>4. ASSUME NEW j \in JobId, FinishStore(j)
      PROVE  CountersExact'
  <2> DEFINE stored == jobs[j].keys \cap {k \in Cached : ~Ready(k)}
  <2>1. /\ blocks' = [k \in Cached |-> IF k \in stored
                        THEN [blocks[k] EXCEPT !.ref_cnt = 0] ELSE blocks[k]]
        /\ numEvictable' = numEvictable + Cardinality(stored)
        /\ numWritePending' = numWritePending - Cardinality(stored)
    BY <1>4 DEF FinishStore, StoreSucceeds
  <2>2. stored \subseteq WritePending /\ stored \cap Evictable = {}
    BY DEF TypeOK, BlockStatus, Ready, WritePending, Evictable
  <2>3. /\ Evictable' = Evictable \cup stored
        /\ WritePending' = WritePending \ stored
    BY <2>1, <2>2 DEF TypeOK, Cached, Evictable, WritePending, BlockStatus
  <2>4. Cardinality(Evictable \cup stored) = Cardinality(Evictable) + Cardinality(stored)
    BY <2>2, DisjointUnion, FS_Subset
  <2>5. Cardinality(WritePending \ stored) =
          Cardinality(WritePending) - Cardinality(stored)
    BY <2>2, SubsetRemoval
  <2> QED
    BY <2>1, <2>3, <2>4, <2>5 DEF CountersExact
<1>5. ASSUME NEW j \in JobId, FailStore(j)
      PROVE  CountersExact'
  <2> DEFINE dropped == jobs[j].keys \cap {k \in Cached : ~Ready(k)}
  <2>1. /\ blocks' = [k \in Cached \ dropped |-> blocks[k]]
        /\ numEvictable' = numEvictable
        /\ numWritePending' = numWritePending - Cardinality(dropped)
    BY <1>5 DEF FailStore, StoreFails
  <2>2. dropped \subseteq WritePending /\ dropped \cap Evictable = {}
    BY DEF TypeOK, BlockStatus, Ready, WritePending, Evictable
  <2>3. Evictable' = Evictable /\ WritePending' = WritePending \ dropped
    BY <2>1, <2>2 DEF Cached, Evictable, WritePending
  <2>4. Cardinality(WritePending \ dropped) =
          Cardinality(WritePending) - Cardinality(dropped)
    BY <2>2, SubsetRemoval
  <2> QED
    BY <2>1, <2>3, <2>4 DEF CountersExact
<1>6. CASE Reset
  BY <1>6, FS_EmptySet DEF Reset, ResetCache, CountersExact, Evictable,
     WritePending, Cached, NoBlocks
<1>7. CASE ReadEvents
  BY <1>7 DEF ReadEvents, TakeEvents, CountersExact, Evictable, WritePending, Cached
<1>8. CASE UNCHANGED vars
  BY <1>8 DEF vars, mgrVars, CountersExact, Evictable, WritePending, Cached
<1> QED
  BY <1>1, <1>2, <1>3, <1>4, <1>5, <1>6, <1>7, <1>8 DEF Next

-----------------------------------------------------------------------------
(***************************************************************************)
(* The theorems.                                                           *)
(***************************************************************************)
\* A manager just constructed satisfies the inductive invariant.
LEMMA InitIInv == Init => IInv /\ CountersExact
<1> SUFFICES ASSUME Init PROVE IInv /\ CountersExact
  OBVIOUS
<1>1. TypeOK
  BY InitTypeOK
<1>2. Cached = {} /\ freeList = {} /\ numAllocated = 0
  BY DEF Init, MgrInit, Cached, NoBlocks
<1>3. SlotsConserved /\ RefCountsMatchJobs
  BY <1>2 DEF SlotsConserved, SlotsOf, RefCountsMatchJobs
<1>4. TransfersKeepTheirSlots
  BY NoJobType DEF Init, TransfersKeepTheirSlots, InFlight
<1>5. CountersExact
  BY <1>2, FS_EmptySet DEF Init, MgrInit, CountersExact, Evictable, WritePending
<1> QED
  BY <1>1, <1>3, <1>4, <1>5 DEF IInv

\* Every operation of the manager and its clients keeps the invariant.
LEMMA NextIInv == IInv /\ [Next]_vars => IInv'
  BY NextTypeOK, NextSlotsConserved, NextTransfersKeepTheirSlots,
     NextRefCountsMatchJobs DEF IInv

\* The bookkeeping of the manager and of its clients is inductive.
THEOREM Bookkeeping == Spec => [](IInv /\ CountersExact)
<1>1. IInv /\ CountersExact /\ [Next]_vars => (IInv /\ CountersExact)'
  BY NextIInv, NextCountersExact
<1> QED
  BY InitIInv, <1>1, PTL DEF Spec

\* The table of blocks, the slots, the counters and the jobs keep their types.
THEOREM TypeCorrect == Spec => []TypeOK
<1>1. IInv => TypeOK
  BY DEF IInv
<1> QED
  BY Bookkeeping, <1>1, PTL

\* No slot of the CPU buffer is leaked or given to two blocks.
THEOREM SlotSafety == Spec => []SlotsConserved
<1>1. IInv => SlotsConserved
  BY DEF IInv
<1> QED
  BY Bookkeeping, <1>1, PTL

\* The counters that gate eviction count exactly the idle and pending blocks.
THEOREM CountersCorrect == Spec => []CountersExact
  BY Bookkeeping, PTL

\* ref_cnt counts the loads in flight; a pending block has exactly one store.
THEOREM RefCountsCorrect == Spec => []RefCountsMatchJobs
<1>1. IInv => RefCountsMatchJobs
  BY DEF IInv
<1> QED
  BY Bookkeeping, <1>1, PTL

\* Nothing takes a slot from a transfer in flight.
THEOREM SlotsKept == Spec => []TransfersKeepTheirSlots
<1>1. IInv => TransfersKeepTheirSlots
  BY DEF IInv
<1> QED
  BY Bookkeeping, <1>1, PTL

\* No transfer touches a slot that a store in flight is writing.
THEOREM TransferIsolation == Spec => []NoTransferConflict
<1>1. IInv => NoTransferConflict
  <2> SUFFICES ASSUME IInv, NEW i \in Stores, NEW j \in InFlight \ {i},
                      NEW s \in Range(jobs[i].slot), s \in Range(jobs[j].slot)
               PROVE  FALSE
    BY DEF NoTransferConflict
  <2>1. i \in InFlight /\ i \in JobId /\ j \in JobId
    BY DEF Stores, InFlight
  <2>2. DOMAIN jobs[i].slot = jobs[i].keys /\ DOMAIN jobs[j].slot = jobs[j].keys
    BY <2>1, JobElim DEF IInv, TypeOK
  <2>3. PICK k \in jobs[i].keys : jobs[i].slot[k] = s
    BY <2>2 DEF Range
  <2>4. PICK l \in jobs[j].keys : jobs[j].slot[l] = s
    BY <2>2 DEF Range
  <2>5. /\ k \in Cached /\ blocks[k].block_id = s
        /\ l \in Cached /\ blocks[l].block_id = s
    BY <2>1, <2>3, <2>4 DEF IInv, TransfersKeepTheirSlots
  <2>6. k = l
    BY <2>5 DEF IInv, SlotsConserved
  <2>7. Readers(jobs, k) = {} /\ Writers(jobs, k) = {i}
    BY <2>1, PinnedKeys
  <2>8. j \in Readers(jobs, k) \/ j \in Writers(jobs, k)
    BY <2>4, <2>6, JobElim DEF InFlight, Readers, Writers, IInv, TypeOK
  <2> QED
    BY <2>7, <2>8
<1> QED
  BY Bookkeeping, <1>1, PTL

\* The manager's books are exact after any sequence of operations.
THEOREM BooksCorrect == Spec => []BooksExact
<1>1. SlotsConserved /\ CountersExact /\ RefCountsMatchJobs => BooksExact
  BY DEF BooksExact
<1> QED
  BY SlotSafety, CountersCorrect, RefCountsCorrect, <1>1, PTL

\* Nothing happens to the slots of a transfer in flight.
THEOREM SlotsSafe == Spec => []SlotsUndisturbed
<1>1. TransfersKeepTheirSlots /\ NoTransferConflict => SlotsUndisturbed
  BY DEF SlotsUndisturbed
<1> QED
  BY SlotsKept, TransferIsolation, <1>1, PTL

-----------------------------------------------------------------------------
(***************************************************************************)
(* The asserts of the manager.                                             *)
(***************************************************************************)
\* An eviction of n blocks gives n slots back (CachePolicy.evict).
LEMMA EvictedSlots ==
  ASSUME TypeOK, SlotsConserved, NEW n \in Nat, NEW P, NEW es \in Evictions(n, P)
  PROVE  LET S == SlotsOf(Range(es))
         IN  IsFiniteSet(S) /\ Cardinality(S) = n /\ S \cap freeList = {}
<1> DEFINE f == [i \in 1 .. n |-> blocks[es[i]].block_id]
           S == SlotsOf(Range(es))
<1>1. /\ es \in [1 .. n -> Evictable \ P]
      /\ \A a, b \in 1 .. n : es[a] = es[b] => a = b
  BY DEF Evictions, IsInjective
<1>2. \A i \in 1 .. n : es[i] \in Cached
  BY <1>1 DEF Evictable
<1>3. S = {f[i] : i \in 1 .. n}
  BY <1>1 DEF SlotsOf, Range
<1>4. \A a, b \in 1 .. n : f[a] = f[b] => a = b
  BY <1>1, <1>2 DEF SlotsConserved
<1>5. f \in Bijection(1 .. n, S)
  <2>1. f \in [1 .. n -> S]
    BY <1>3
  <2>2. \A t \in S : \E i \in 1 .. n : f[i] = t
    BY <1>3
  <2> HIDE DEF f, S
  <2> QED BY <1>4, <2>1, <2>2 DEF Bijection, Injection, Surjection, IsInjective
<1>6. IsFiniteSet(1 .. n) /\ Cardinality(1 .. n) = n
  BY FS_Interval
<1>7. IsFiniteSet(S) /\ Cardinality(S) = n
  <2>1. ExistsBijection(1 .. n, S)
    BY <1>5 DEF ExistsBijection
  <2> HIDE DEF S, f
  <2> QED BY <1>6, <2>1, FS_Bijection
<1>8. S \cap freeList = {}
  <2>1. \A i \in 1 .. n : blocks[es[i]].block_id \in SlotsOf(Cached)
    BY <1>2 DEF SlotsOf
  <2>2. freeList \cap SlotsOf(Cached) = {}
    BY DEF SlotsConserved
  <2>3. S = {blocks[es[i]].block_id : i \in 1 .. n}
    BY <1>3
  <2> QED BY <2>1, <2>2, <2>3
<1> QED BY <1>7, <1>8

\* The slots of the buffer are finitely many.
LEMMA FreeIsFinite ==
  ASSUME TypeOK
  PROVE  /\ IsFiniteSet(freeList) /\ Cardinality(freeList) \in Nat
         /\ \A K \in SUBSET Key : IsFiniteSet(New(K)) /\ Cardinality(New(K)) \in Nat
<1>1. IsFiniteSet(Slot) /\ freeList \in SUBSET Slot
  <2>1. NumBlocks - 1 \in Int /\ 0 \in Int
    BY NumBlocksAssumption
  <2> QED BY <2>1, FS_Interval DEF Slot, TypeOK
<1>2. \A K \in SUBSET Key : New(K) \in SUBSET Key
  BY DEF New
<1> QED BY <1>1, <1>2, KeyAssumption, FS_Subset, FS_CardinalityType

\* _allocate_blocks never runs out, prepare_load and complete_load find their
\* blocks, and no counter goes below zero.
THEOREM AssertsHold == Spec => []AssertionsHold
<1>1. IInv /\ CountersExact => AssertionsHold
  <2>1. SUFFICES ASSUME IInv, CountersExact PROVE AssertionsHold
    OBVIOUS
  <2>2. ASSUME NEW K \in SUBSET Key, NEW es \in EvictionsFor(K)
        PROVE  Cardinality(freeList \cup SlotsOf(Range(es)))
                  >= Cardinality(New(K)) - NumFresh(Cardinality(New(K)))
    <3> DEFINE n == Cardinality(New(K))
               F == Cardinality(freeList)
               m == IF Deficit(K) > 0 THEN Deficit(K) ELSE 0
               S == SlotsOf(Range(es))
    <3>1. /\ n \in Nat /\ F \in Nat /\ IsFiniteSet(freeList)
          /\ numAllocated \in 0 .. NumBlocks /\ NumBlocks \in Nat
      BY <2>1, FreeIsFinite, NumBlocksAssumption DEF IInv, TypeOK
    <3>2. Deficit(K) = n - (F + NumBlocks - numAllocated)
      BY DEF Deficit, NumFreeBlocks
    <3>3. m \in Nat
      BY <3>1, <3>2
    <3>4. es \in Evictions(m, K)
      BY DEF EvictionsFor
    <3> HIDE DEF n, F, m
    <3>5. IsFiniteSet(S) /\ Cardinality(S) = m /\ S \cap freeList = {}
      BY <2>1, <3>3, <3>4, EvictedSlots DEF IInv
    <3> HIDE DEF S
    <3>6. Cardinality(freeList \cup S) = F + m
      <4>1. Cardinality(freeList \cup S) = F + m - Cardinality(freeList \cap S)
        BY <3>1, <3>5, FS_Union DEF F
      <4>2. Cardinality(freeList \cap S) = 0
        BY <3>5, FS_EmptySet
      <4> QED BY <3>1, <3>3, <4>1, <4>2
    <3>7. NumFresh(n) = IF n <= NumBlocks - numAllocated THEN n
                                                         ELSE NumBlocks - numAllocated
      BY DEF NumFresh
    <3>8. F + m >= n - NumFresh(n)
      BY <3>1, <3>2, <3>3, <3>7 DEF m
    <3> QED BY <3>6, <3>8 DEF n, S
  <2>3. ASSUME NEW j \in Loads PROVE CompleteLoadAsserts(jobs[j].keys)
    <3>1. j \in InFlight
      BY DEF Loads, InFlight
    <3> QED BY <2>1, <3>1, PinnedKeys DEF CompleteLoadAsserts
  <2>4. numEvictable >= 0
    <3>1. Evictable \in SUBSET Key
      BY <2>1 DEF IInv, TypeOK, Evictable
    <3>2. Cardinality(Evictable) \in Nat
      BY <3>1, KeyAssumption, FS_Subset, FS_CardinalityType
    <3> QED BY <2>1, <3>2 DEF CountersExact
  <2> QED BY <2>2, <2>3, <2>4 DEF AssertionsHold
<1> QED BY <1>1, Bookkeeping, PTL

-----------------------------------------------------------------------------
(***************************************************************************)
(* What the consumer of the events believes.                               *)
(***************************************************************************)
EventRec == [keys : SUBSET Key, removed : BOOLEAN]
Journal == events \in Seq(EventRec) /\ advertised \subseteq Key

\* Nothing is applied when there are no events.
LEMMA ReplayNothing ==
  ASSUME NEW known
  PROVE  Replay(known, <<>>) = known
<1>1. DOMAIN (<<>>) = {}
  OBVIOUS
<1> QED BY <1>1 DEF Replay, Naming

\* The last event is applied to what the others left.
LEMMA ReplayOneMore ==
  ASSUME NEW known, NEW es \in Seq(EventRec), NEW e \in EventRec
  PROVE  Replay(known, Append(es, e)) =
            IF e.removed THEN Replay(known, es) \ e.keys
                         ELSE Replay(known, es) \cup e.keys
<1> DEFINE L == Len(es)
           fs == Append(es, e)
<1>1. /\ L \in Nat /\ DOMAIN es = 1 .. L /\ DOMAIN fs = 1 .. L + 1
      /\ \A i \in 1 .. L : fs[i] = es[i]
      /\ fs[L + 1] = e
  <2>1. /\ fs \in Seq(EventRec) /\ Len(fs) = L + 1
        /\ \A i \in 1 .. L : fs[i] = es[i]
        /\ fs[L + 1] = e
    BY AppendProperties
  <2>2. L \in Nat /\ DOMAIN es = 1 .. L /\ DOMAIN fs = 1 .. Len(fs)
    BY <2>1, LenProperties
  <2> QED BY <2>1, <2>2
<1> HIDE DEF L, fs
<1>2. e.removed \in BOOLEAN
  BY DEF EventRec
<1>3. ASSUME NEW k, k \notin e.keys
      PROVE  k \in Replay(known, fs) <=> k \in Replay(known, es)
  <2>1. Naming(fs, k) = Naming(es, k)
    BY <1>1, <1>3 DEF Naming
  <2>2. \A i \in Naming(es, k) : fs[i] = es[i]
    BY <1>1 DEF Naming
  <2>3. k \in UNION {fs[i].keys : i \in DOMAIN fs}
            <=> k \in UNION {es[i].keys : i \in DOMAIN es}
    BY <1>1, <1>3
  <2>4. Naming(es, k) # {} => Max(Naming(es, k)) \in Naming(es, k)
    <3>1. SUFFICES ASSUME Naming(es, k) # {} PROVE Max(Naming(es, k)) \in Naming(es, k)
      OBVIOUS
    <3>2. Naming(es, k) \in SUBSET (1 .. L)
      BY <1>1 DEF Naming
    <3> QED BY <1>1, <3>1, <3>2, MaxInSet
  <2> QED BY <2>1, <2>2, <2>3, <2>4 DEF Replay
<1>4. ASSUME NEW k, k \in e.keys
      PROVE  k \in Replay(known, fs) <=> ~e.removed
  <2>1. L + 1 \in Naming(fs, k) /\ \A i \in Naming(fs, k) : i \in Int /\ i <= L + 1
    BY <1>1, <1>4 DEF Naming
  <2>2. Max(Naming(fs, k)) = L + 1
    BY <1>1, <2>1 DEF Max
  <2>3. k \in UNION {fs[i].keys : i \in DOMAIN fs}
    BY <1>1, <1>4
  <2> QED BY <1>1, <2>1, <2>2, <2>3 DEF Replay
<1> QED BY <1>2, <1>3, <1>4 DEF fs

\* An event that is emitted changes what the consumer will believe; an empty
\* one is not emitted, and would change nothing.
LEMMA EmitAdvances ==
  ASSUME Journal, NEW K \in SUBSET Key, NEW removed \in BOOLEAN,
         Emit(K, removed), advertised' = advertised
  PROVE  /\ Journal'
         /\ Replay(advertised', events') =
               IF removed THEN Replay(advertised, events) \ K
                          ELSE Replay(advertised, events) \cup K
<1>1. CASE K = {}
  <2>1. events' = events
    BY <1>1 DEF Emit
  <2> QED BY <1>1, <2>1 DEF Journal
<1>2. CASE K # {}
  <2> DEFINE e == [keys |-> K, removed |-> removed]
  <2>1. events' = Append(events, e)
    BY <1>2 DEF Emit
  <2>2. e \in EventRec /\ e.keys = K /\ e.removed = removed
    BY DEF EventRec
  <2> HIDE DEF e
  <2>3. Append(events, e) \in Seq(EventRec)
    BY <2>2 DEF Journal
  <2>4. Replay(advertised, Append(events, e)) =
            IF e.removed THEN Replay(advertised, events) \ e.keys
                         ELSE Replay(advertised, events) \cup e.keys
    BY <2>2, ReplayOneMore DEF Journal
  <2> QED BY <2>1, <2>2, <2>3, <2>4 DEF Journal
<1> QED BY <1>1, <1>2

\* Only keys of the tier are ever believed.
LEMMA ReplayedAreKeys ==
  ASSUME Journal
  PROVE  Replay(advertised, events) \subseteq Key
<1>1. \A i \in DOMAIN events : events[i].keys \subseteq Key
  <2>1. \A i \in DOMAIN events : events[i] \in EventRec
    BY LenProperties, ElementOfSeq DEF Journal
  <2> QED BY <2>1 DEF EventRec
<1> QED BY <1>1 DEF Replay, Journal

\* A store that ends, either way, finds all its keys pending
\* (complete_store).
LEMMA StoredArePending ==
  ASSUME IInv, NEW j \in JobId, jobs[j].kind = "store"
  PROVE  /\ jobs[j].keys \cap {k \in Cached : ~Ready(k)} = jobs[j].keys
         /\ jobs[j].keys \in SUBSET Key
<1>1. j \in InFlight /\ j \in Stores
  BY DEF InFlight, Stores
<1>2. \A k \in jobs[j].keys : k \in Cached /\ ~Ready(k)
  BY <1>1, PinnedKeys DEF Ready
<1>3. Cached \subseteq Key
  BY DEF IInv, TypeOK
<1> QED BY <1>2, <1>3

\* Every operation that changes what is readable says so (evictions in
\* prepare_store, complete_store, reset_cache), and no other says anything.
LEMMA NextEventsTellTheTruth ==
  IInv /\ Journal /\ EventsTellTheTruth /\ [Next]_vars
     => (Journal /\ EventsTellTheTruth)'
<1> SUFFICES ASSUME IInv, Journal, EventsTellTheTruth, [Next]_vars
             PROVE  (Journal /\ EventsTellTheTruth)'
  OBVIOUS
<1> DEFINE B == Replay(advertised, events)
<1>0. /\ B = ReadyKeys /\ Cached \subseteq Key
      /\ \A k \in Cached : blocks[k] \in BlockStatus
  BY DEF EventsTellTheTruth, IInv, TypeOK
<1>1. ASSUME NEW j \in JobId, NEW K \in SUBSET Key, SubmitLoad(j, K)
      PROVE  (Journal /\ EventsTellTheTruth)'
  <2>1. events' = events /\ advertised' = advertised
    BY <1>1 DEF SubmitLoad, PrepareLoad
  <2>2. ReadyKeys' = ReadyKeys
    BY <1>0, <1>1 DEF SubmitLoad, PrepareLoad, LoadAsserts, ReadyKeys, Ready, Cached,
                      BlockStatus
  <2> QED BY <1>0, <2>1, <2>2 DEF EventsTellTheTruth, Journal
<1>2. ASSUME NEW j \in JobId, FinishLoad(j)
      PROVE  (Journal /\ EventsTellTheTruth)'
  <2>1. events' = events /\ advertised' = advertised
    BY <1>2 DEF FinishLoad, CompleteLoad
  <2>2. ReadyKeys' = ReadyKeys
    BY <1>0, <1>2 DEF FinishLoad, CompleteLoad, CompleteLoadAsserts, ReadyKeys, Ready,
                      Cached, BlockStatus
  <2> QED BY <1>0, <2>1, <2>2 DEF EventsTellTheTruth, Journal
<1>3. ASSUME NEW j \in JobId, NEW K \in SUBSET Key, NEW es \in EvictionsFor(K),
             NEW slot \in Allocations(K, es), SubmitStore(j, K, es, slot)
      PROVE  (Journal /\ EventsTellTheTruth)'
  <2>1. /\ Emit(Range(es), TRUE) /\ advertised' = advertised
        /\ blocks' = [k \in (Cached \ Range(es)) \cup New(K) |->
                        IF k \in New(K) THEN [ref_cnt |-> -1, block_id |-> slot[k]]
                                        ELSE blocks[k]]
    BY <1>3 DEF SubmitStore, PrepareStore
  <2>2. Range(es) \in SUBSET Key
    BY <1>0, EvictionKeys DEF Evictable
  <2>3. Journal' /\ Replay(advertised', events') = B \ Range(es)
    BY <2>1, <2>2, EmitAdvances
  <2>4. ReadyKeys' = ReadyKeys \ Range(es)
    BY <1>0, <2>1 DEF ReadyKeys, Ready, Cached, New
  <2> QED BY <1>0, <2>3, <2>4 DEF EventsTellTheTruth
<1>4. ASSUME NEW j \in JobId, FinishStore(j)
      PROVE  (Journal /\ EventsTellTheTruth)'
  <2> DEFINE K == jobs[j].keys
  <2>1. /\ K \cap {k \in Cached : ~Ready(k)} = K /\ K \in SUBSET Key
        /\ StoreSucceeds(K) /\ advertised' = advertised
    BY <1>4, StoredArePending DEF FinishStore
  <2>2. /\ Emit(K, FALSE)
        /\ blocks' = [k \in Cached |->
               IF k \in K THEN [blocks[k] EXCEPT !.ref_cnt = 0] ELSE blocks[k]]
    <3> HIDE DEF K
    <3> QED BY <2>1 DEF StoreSucceeds
  <2>3. Journal' /\ Replay(advertised', events') = B \cup K
    BY <2>1, <2>2, EmitAdvances
  <2>4. ReadyKeys' = ReadyKeys \cup K
    <3> HIDE DEF K
    <3>1. K \subseteq Cached
      BY <2>1
    <3> QED BY <1>0, <2>2, <3>1 DEF ReadyKeys, Ready, Cached, BlockStatus
  <2> QED BY <1>0, <2>3, <2>4 DEF EventsTellTheTruth
<1>5. ASSUME NEW j \in JobId, FailStore(j)
      PROVE  (Journal /\ EventsTellTheTruth)'
  <2>1. events' = events /\ advertised' = advertised
    BY <1>5 DEF FailStore, StoreFails
  <2>2. ReadyKeys' = ReadyKeys
    BY <1>5 DEF FailStore, StoreFails, ReadyKeys, Ready, Cached
  <2> QED BY <1>0, <2>1, <2>2 DEF EventsTellTheTruth, Journal
<1>6. CASE Reset
  <2>1. Emit(Cached, TRUE) /\ advertised' = advertised /\ blocks' = NoBlocks
    BY <1>6 DEF Reset, ResetCache
  <2>2. Journal' /\ Replay(advertised', events') = B \ Cached
    BY <1>0, <2>1, EmitAdvances
  <2>3. ReadyKeys' = {} /\ ReadyKeys \ Cached = {}
    BY <2>1 DEF ReadyKeys, Cached, NoBlocks
  <2> QED BY <1>0, <2>2, <2>3 DEF EventsTellTheTruth
<1>7. CASE ReadEvents
  <2>1. events' = <<>> /\ advertised' = B /\ blocks' = blocks
    BY <1>7 DEF ReadEvents, TakeEvents
  <2>2. Replay(advertised', events') = B
    BY <2>1, ReplayNothing
  <2>3. Journal'
    <3>1. <<>> \in Seq(EventRec)
      OBVIOUS
    <3> QED BY <2>1, <3>1, ReplayedAreKeys DEF Journal
  <2>4. ReadyKeys' = ReadyKeys
    BY <2>1 DEF ReadyKeys, Ready, Cached
  <2> QED BY <1>0, <2>2, <2>3, <2>4 DEF EventsTellTheTruth
<1>8. CASE UNCHANGED vars
  <2>1. events' = events /\ advertised' = advertised /\ blocks' = blocks
    BY <1>8 DEF vars, mgrVars
  <2>2. ReadyKeys' = ReadyKeys
    BY <2>1 DEF ReadyKeys, Ready, Cached
  <2> QED BY <1>0, <2>1, <2>2 DEF EventsTellTheTruth, Journal
<1> QED
  BY <1>1, <1>2, <1>3, <1>4, <1>5, <1>6, <1>7, <1>8 DEF Next

\* A consumer that applies the events in order knows the readable blocks
\* (take_events), however many are queued.
THEOREM EventsCorrect == Spec => []EventsTellTheTruth
<1>1. Init => Journal /\ EventsTellTheTruth
  <2>1. <<>> \in Seq(EventRec)
    OBVIOUS
  <2>2. Init => ReadyKeys = {}
    BY DEF Init, MgrInit, NoBlocks, ReadyKeys, Cached
  <2> QED BY <2>1, <2>2, ReplayNothing DEF Init, MgrInit, Journal, EventsTellTheTruth
<1> QED BY <1>1, NextEventsTellTheTruth, Bookkeeping, PTL DEF Spec

-----------------------------------------------------------------------------
(***************************************************************************)
(* An ordered dict with some of its keys popped.                           *)
(***************************************************************************)
\* The passes r of Without over a sequence of members of S, one per element.
Passes(r, S, s, K) ==
    /\ r \in [0 .. Len(s) -> Seq(S)]
    /\ r[0] = <<>>
    /\ \A n \in 1 .. Len(s) :
         r[n] = IF s[n] \in K THEN r[n - 1] ELSE Append(r[n - 1], s[n])
    /\ Without(s, K) = r[Len(s)]

\* Without goes through the sequence element by element.
LEMMA WithoutIterates ==
  ASSUME NEW S, NEW s \in Seq(S), NEW K
  PROVE  \E r : Passes(r, S, s, K)
<1> DEFINE L == Len(s)
           step(n, x) == IF s[n] \in K THEN x ELSE Append(x, s[n])
           g == [p \in (1 .. L) \X Seq(S) |-> step(p[1], p[2])]
           Is(f) == f = [n \in 0 .. L |-> IF n = 0 THEN <<>> ELSE step(n, f[n - 1])]
<1>1. /\ L \in Nat /\ \A n \in 1 .. L : s[n] \in S
      /\ <<>> \in Seq(S)
  BY LenProperties, ElementOfSeq, EmptySeq
<1>s. \A n \in 1 .. L, x \in Seq(S) : step(n, x) \in Seq(S)
  <2> HIDE DEF L
  <2> QED BY <1>1, AppendProperties
<1>2. g \in [(1 .. L) \X Seq(S) -> Seq(S)]
  <2> HIDE DEF step, L
  <2> QED BY <1>s
<1>3. PICK f \in [0 .. L -> Seq(S)] : Iterates(f, <<>>, g, L)
  <2> HIDE DEF g, L
  <2> QED BY <1>1, <1>2, IterationExists
<1>4. \A n \in 1 .. L : f[n] = step(n, f[n - 1])
  <2>1. SUFFICES ASSUME NEW n \in 1 .. L PROVE f[n] = step(n, f[n - 1])
    OBVIOUS
  <2>2. <<n, f[n - 1]>> \in (1 .. L) \X Seq(S)
    <3>1. n - 1 \in 0 .. L
      BY <1>1
    <3> HIDE DEF L
    <3> QED BY <3>1
  <2>3. f[n] = g[<<n, f[n - 1]>>]
    BY <1>3 DEF Iterates
  <2> HIDE DEF step, L
  <2> QED BY <2>2, <2>3 DEF g
<1>5. Is(f)
  <2>1. f[0] = <<>>
    BY <1>3 DEF Iterates
  <2>2. \A n \in 0 .. L : n # 0 => n \in 1 .. L
    BY <1>1
  <2> HIDE DEF step, L, g
  <2> QED BY <1>4, <2>1, <2>2
<1> DEFINE r == CHOOSE f_1 : Is(f_1)
<1>6. Is(r)
  <2> HIDE DEF Is
  <2> QED BY <1>5
<1>7. Without(s, K) = r[L]
  BY DEF Without
<1> HIDE DEF r
<1>8. /\ r[0] = <<>> /\ \A n \in 1 .. L : r[n] = step(n, r[n - 1])
      /\ DOMAIN r = 0 .. L /\ r = [n \in 0 .. L |-> r[n]]
  <2>1. 0 \in 0 .. L /\ \A n \in 1 .. L : n \in 0 .. L /\ n # 0
    BY <1>1
  <2> HIDE DEF step, L
  <2> QED BY <1>6, <2>1
<1>9. \A n \in 0 .. L : r[n] \in Seq(S)
  <2> DEFINE P == {n \in 0 .. L : r[n] \in Seq(S)}
  <2>1. 0 \in P
    <3>1. 0 \in 0 .. L
      BY <1>1
    <3> QED BY <1>1, <1>8, <3>1
  <2>2. ASSUME NEW n \in 1 .. L, n - 1 \in P PROVE n \in P
    <3> HIDE DEF step, L
    <3>1. step(n, r[n - 1]) \in Seq(S)
      BY <1>s, <2>2
    <3>2. n \in 0 .. L
      BY <1>1
    <3>3. r[n] = step(n, r[n - 1])
      BY <1>8
    <3> QED BY <3>1, <3>2, <3>3
  <2> HIDE DEF P
  <2>3. 0 .. L \subseteq P
    BY <1>1, <2>1, <2>2, UpTo
  <2> QED BY <2>3 DEF P
<1> QED
  <2> HIDE DEF L
  <2>1. r \in [0 .. L -> Seq(S)]
    BY <1>8, <1>9
  <2>2. Passes(r, S, s, K)
    BY <1>7, <1>8, <2>1 DEF L, Passes
  <2> QED BY <2>2

\* w is what is left of s at increasing positions f.
Selects(w, s, f) ==
    /\ f \in [1 .. Len(w) -> 1 .. Len(s)]
    /\ \A i \in 1 .. Len(w) : w[i] = s[f[i]]
    /\ \A i, j \in 1 .. Len(w) : i < j => f[i] < f[j]

\* Without keeps the others, all of them and in their order.
LEMMA WithoutSelects ==
  ASSUME NEW S, NEW s \in Seq(S), NEW K
  PROVE  /\ Without(s, K) \in Seq(S)
         /\ Range(Without(s, K)) = Range(s) \ K
         /\ \E f : Selects(Without(s, K), s, f)
<1>1. PICK r : Passes(r, S, s, K)
  BY WithoutIterates
<1> DEFINE L == Len(s)
           Upto(n) == {s[i] : i \in 1 .. n} \ K
<1>2. L \in Nat /\ DOMAIN s = 1 .. L /\ \A n \in 1 .. L : s[n] \in S
  BY LenProperties, ElementOfSeq
<1>2a. /\ r \in [0 .. L -> Seq(S)] /\ r[0] = <<>> /\ Without(s, K) = r[L]
      /\ \A n \in 1 .. L :
           r[n] = IF s[n] \in K THEN r[n - 1] ELSE Append(r[n - 1], s[n])
  BY <1>1 DEF Passes
<1> DEFINE Sel(w, f, n) ==
             /\ f \in [1 .. Len(w) -> 1 .. n]
             /\ \A i \in 1 .. Len(w) : w[i] = s[f[i]]
             /\ \A i, j \in 1 .. Len(w) : i < j => f[i] < f[j]
           P == {n \in 0 .. L : Range(r[n]) = Upto(n) /\ \E f : Sel(r[n], f, n)}
<1> HIDE DEF L
<1>3. 0 \in P
  <2>1. /\ 1 .. 0 = {} /\ DOMAIN <<>> = {} /\ Len(<<>>) = 0 /\ 0 \in 0 .. L
        /\ <<>> \in [{} -> {}]
    BY <1>2
  <2>2. Range(<<>>) = Upto(0)
    BY <2>1 DEF Range
  <2>3. Sel(<<>>, <<>>, 0)
    BY <2>1
  <2> HIDE DEF Sel, Upto
  <2> QED BY <1>2a, <2>1, <2>2, <2>3
<1>4. ASSUME NEW n \in 1 .. L, n - 1 \in P PROVE n \in P
  <2> DEFINE x == r[n - 1]
             l == Len(x)
  <2>1. x \in Seq(S) /\ n \in 0 .. L /\ n \in Int
    <3>1. n - 1 \in 0 .. L /\ n \in 0 .. L
      BY <1>2
    <3> QED BY <1>2a, <3>1
  <2>2. PICK f : Sel(x, f, n - 1)
    BY <1>4
  <2>3. Range(x) = Upto(n - 1) /\ l \in Nat /\ DOMAIN x = 1 .. l
    <3>1. l \in Nat /\ DOMAIN x = 1 .. l
      BY <2>1, LenProperties
    <3> QED BY <1>4, <3>1
  <2>4. 1 .. n = (1 .. n - 1) \cup {n}
    BY <2>1
  <2>5. {s[i] : i \in 1 .. n} = {s[i] : i \in 1 .. n - 1} \cup {s[n]}
    BY <2>4
  <2>6. CASE s[n] \in K
    <3>1. r[n] = x
      BY <1>2a, <2>6
    <3>2. Upto(n) = Upto(n - 1)
      BY <2>5, <2>6
    <3>3. Sel(x, f, n)
      BY <2>2, <2>4
    <3> HIDE DEF x, Upto, Sel
    <3> QED BY <2>1, <2>3, <3>1, <3>2, <3>3
  <2>7. CASE s[n] \notin K
    <3> DEFINE y == Append(x, s[n])
               h == [i \in 1 .. l + 1 |-> IF i = l + 1 THEN n ELSE f[i]]
    <3>1. r[n] = y
      BY <1>2a, <2>7
    <3>2. /\ Len(y) = l + 1 /\ y[l + 1] = s[n] /\ \A i \in 1 .. l : y[i] = x[i]
          /\ y \in Seq(S)
      BY <1>2, <2>1, AppendProperties
    <3>3. DOMAIN y = 1 .. l + 1
      BY <3>2, LenProperties
    <3> HIDE DEF x, l, y
    <3>4. 1 .. l + 1 = (1 .. l) \cup {l + 1} /\ l + 1 \notin 1 .. l
      BY <2>3
    <3>5. Range(y) = Range(x) \cup {s[n]}
      <4>1. Range(y) = {y[i] : i \in (1 .. l) \cup {l + 1}}
        BY <3>3, <3>4 DEF Range
      <4>2. Range(x) = {x[i] : i \in 1 .. l}
        BY <2>3 DEF Range
      <4> QED BY <3>2, <4>1, <4>2
    <3>6. Range(y) = Upto(n)
      BY <2>3, <2>5, <2>7, <3>5
    <3>7. f \in [1 .. l -> 1 .. n - 1]
      BY <2>2 DEF l
    <3>8. h \in [1 .. l + 1 -> 1 .. n]
      BY <2>4, <3>4, <3>7
    <3>9. \A i \in 1 .. l + 1 : y[i] = s[h[i]]
      <4>1. \A i \in 1 .. l : x[i] = s[f[i]]
        BY <2>2 DEF l
      <4> QED BY <3>2, <3>4, <4>1
    <3>10. \A i, j \in 1 .. l + 1 : i < j => h[i] < h[j]
      <4>1. SUFFICES ASSUME NEW i \in 1 .. l + 1, NEW j \in 1 .. l + 1, i < j
                     PROVE  h[i] < h[j]
        OBVIOUS
      <4>2. i \in 1 .. l /\ h[i] = f[i] /\ f[i] < n
        <5>1. i \in 1 .. l
          BY <2>3, <4>1
        <5> QED BY <2>1, <3>4, <3>7, <5>1
      <4>3. CASE j = l + 1
        BY <4>2, <4>3
      <4>4. CASE j # l + 1
        <5>1. j \in 1 .. l
          BY <3>4, <4>4
        <5>2. f[i] < f[j]
          BY <2>2, <4>1, <4>2, <5>1 DEF l
        <5> QED BY <4>2, <4>4, <5>2
      <4> QED BY <4>3, <4>4
    <3> HIDE DEF h
    <3>11. Sel(y, h, n)
      BY <3>2, <3>8, <3>9, <3>10
    <3> HIDE DEF Sel, Upto
    <3> QED BY <2>1, <3>1, <3>6, <3>11
  <2> QED BY <2>6, <2>7
<1> HIDE DEF P
<1>5. 0 .. L \subseteq P
  BY <1>2, <1>3, <1>4, UpTo
<1>6. L \in 0 .. L /\ L \in P
  BY <1>2, <1>5
<1>7. Upto(L) = Range(s) \ K
  BY <1>2 DEF Range
<1>8. PICK f : Sel(r[L], f, L)
  BY <1>6 DEF P
<1>9. Selects(Without(s, K), s, f)
  BY <1>2a, <1>8 DEF Selects, L
<1> HIDE DEF Upto, Sel
<1>10. Range(r[L]) = Upto(L)
  BY <1>6 DEF P
<1> QED BY <1>2a, <1>6, <1>7, <1>9, <1>10

\* x stands before y in s.
Precedes(s, x, y) ==
    \E p, q \in 1 .. Len(s) : s[p] = x /\ s[q] = y /\ p < q

\* What the proofs use of it: no element twice, none too many, none overtakes.
LEMMA WithoutKeeps ==
  ASSUME NEW S, NEW s \in Seq(S), NEW K
  PROVE  /\ Without(s, K) \in Seq(S)
         /\ Range(Without(s, K)) = Range(s) \ K
         /\ Len(Without(s, K)) <= Len(s)
         /\ IsInjective(s) =>
              /\ IsInjective(Without(s, K))
              /\ \A x, y : Precedes(s, x, y) /\ x \notin K /\ y \notin K =>
                              Precedes(Without(s, K), x, y)
<1> DEFINE w == Without(s, K)
           l == Len(w)
<1>1. w \in Seq(S) /\ Range(w) = Range(s) \ K
  BY WithoutSelects
<1>2. PICK f : Selects(w, s, f)
  BY WithoutSelects
<1> HIDE DEF w
<1>3. /\ l \in Nat /\ DOMAIN w = 1 .. l
      /\ Len(s) \in Nat /\ DOMAIN s = 1 .. Len(s)
  BY <1>1, LenProperties
<1>4. /\ f \in [1 .. l -> 1 .. Len(s)]
      /\ \A i \in 1 .. l : w[i] = s[f[i]]
      /\ \A i, j \in 1 .. l : i < j => f[i] < f[j]
  BY <1>2 DEF Selects
<1> HIDE DEF l
<1>5. \A i, j \in 1 .. l : f[i] = f[j] => i = j
  <2>1. SUFFICES ASSUME NEW i \in 1 .. l, NEW j \in 1 .. l, f[i] = f[j] PROVE i = j
    OBVIOUS
  <2>2. f[i] \in Int /\ f[j] \in Int
    BY <1>3, <1>4
  <2>3. ~(i < j) /\ ~(j < i)
    BY <1>4, <2>1, <2>2
  <2> QED BY <1>3, <2>3
<1>6. l <= Len(s)
  <2>1. /\ IsFiniteSet(1 .. l) /\ Cardinality(1 .. l) = l
        /\ IsFiniteSet(1 .. Len(s)) /\ Cardinality(1 .. Len(s)) = Len(s)
    <3>1. \A n \in Nat : IsFiniteSet(1 .. n) /\ Cardinality(1 .. n) = n
      BY FS_Interval
    <3> QED BY <1>3, <3>1
  <2>2. f \in Injection(1 .. l, 1 .. Len(s))
    BY <1>4, <1>5 DEF Injection, IsInjective
  <2>3. Range(f) \in SUBSET (1 .. Len(s)) /\ Cardinality(Range(f)) = l
    BY <2>1, <2>2, InjectionImage
  <2> QED BY <2>1, <2>3, FS_Subset
<1>7. ASSUME IsInjective(s) PROVE IsInjective(w)
  <2>1. \A i, j \in 1 .. Len(s) : s[i] = s[j] => i = j
    BY <1>3, <1>7 DEF IsInjective
  <2>2. SUFFICES ASSUME NEW i \in 1 .. l, NEW j \in 1 .. l, w[i] = w[j] PROVE i = j
    BY <1>3 DEF IsInjective
  <2>3. f[i] \in 1 .. Len(s) /\ f[j] \in 1 .. Len(s) /\ s[f[i]] = s[f[j]]
    BY <1>4, <2>2
  <2>4. f[i] = f[j]
    BY <2>1, <2>3
  <2> QED BY <1>5, <2>4
<1>8. ASSUME IsInjective(s), NEW x, NEW y, Precedes(s, x, y), x \notin K, y \notin K
      PROVE  Precedes(w, x, y)
  <2>1. \A i, j \in 1 .. Len(s) : s[i] = s[j] => i = j
    BY <1>3, <1>8 DEF IsInjective
  <2>2. PICK p, q \in 1 .. Len(s) : s[p] = x /\ s[q] = y /\ p < q
    BY <1>8 DEF Precedes
  <2>3. x \in Range(w) /\ y \in Range(w)
    BY <1>1, <1>3, <1>8, <2>2 DEF Range
  <2>4. PICK i, j \in 1 .. l : w[i] = x /\ w[j] = y
    BY <1>3, <2>3 DEF Range
  <2>5. f[i] \in 1 .. Len(s) /\ f[j] \in 1 .. Len(s) /\ s[f[i]] = x /\ s[f[j]] = y
    BY <1>4, <2>4
  <2>6. f[i] = p /\ f[j] = q
    BY <2>1, <2>2, <2>5
  <2>7. ~(j < i) /\ i # j
    <3>1. j < i => q < p
      BY <1>4, <2>6
    <3> QED BY <2>2, <2>6, <3>1
  <2>8. i < j
    BY <1>3, <2>7
  <2> QED BY <2>4, <2>8 DEF Precedes, l
<1> QED
  <2> HIDE DEF Precedes
  <2>1. l = Len(w)
    BY DEF l
  <2> QED BY <1>1, <1>6, <1>7, <1>8, <2>1 DEF w

-----------------------------------------------------------------------------
(***************************************************************************)
(* The registry of tombstones.                                             *)
(***************************************************************************)
Hash == {HashOf[k] : k \in Key}

\* A registry, and one that holds each hash once and fits.
Registry == Seq(Hash)
Fits(r) == r \in Registry /\ Len(r) <= TombstoneCapacity /\ IsInjective(r)

\* Adding a hash keeps the registry within bounds: the oldest makes room.
LEMMA AddKeepsFit ==
  ASSUME NEW r \in Registry, NEW h \in Hash
  PROVE  /\ AddTombstone(r, h) \in Registry
         /\ Range(AddTombstone(r, h)) \subseteq Range(r) \cup {h}
         /\ Fits(r) => Fits(AddTombstone(r, h))
<1> DEFINE L == Len(r)
           g == Append(r, h)
<1>1. /\ L \in Nat /\ DOMAIN r = 1 .. L /\ TombstoneCapacity \in Nat
      /\ \A i \in 1 .. L : r[i] \in Hash
  BY LenProperties, ElementOfSeq, HashAssumption DEF Registry
<1>2. /\ g \in Registry /\ Len(g) = L + 1 /\ DOMAIN g = 1 .. L + 1
      /\ \A i \in 1 .. L : g[i] = r[i]
      /\ g[L + 1] = h
  <2>1. /\ g \in Registry /\ Len(g) = L + 1
        /\ \A i \in 1 .. L : g[i] = r[i]
        /\ g[L + 1] = h
    BY AppendProperties DEF Registry
  <2> QED BY <2>1, LenProperties DEF Registry
<1>3. CASE h \in Range(r)
  BY <1>3 DEF AddTombstone
<1>4. CASE h \notin Range(r)
  <2> HIDE DEF L, g
  <2>1. \A i \in 1 .. L : r[i] # h
    BY <1>1, <1>4 DEF Range
  <2>2. Range(g) \subseteq Range(r) \cup {h}
    BY <1>1, <1>2 DEF Range
  <2>3. IsInjective(r) => \A i, k \in 1 .. L + 1 : g[i] = g[k] => i = k
    <3>1. SUFFICES ASSUME IsInjective(r), NEW i \in 1 .. L + 1, NEW k \in 1 .. L + 1,
                          g[i] = g[k]
                   PROVE  i = k
      OBVIOUS
    <3>2. \A m \in 1 .. L + 1 : m \in 1 .. L \/ m = L + 1
      BY <1>1
    <3> QED BY <1>1, <1>2, <2>1, <3>1, <3>2 DEF IsInjective
  <2>4. CASE ~(L + 1 > TombstoneCapacity)
    <3>1. AddTombstone(r, h) = g
      BY <1>2, <1>4, <2>4 DEF AddTombstone, g
    <3> QED BY <1>1, <1>2, <2>2, <2>3, <2>4, <3>1 DEF Fits, IsInjective
  <2>5. CASE L + 1 > TombstoneCapacity
    <3> DEFINE t == Tail(g)
    <3>1. AddTombstone(r, h) = t
      BY <1>2, <1>4, <2>5 DEF AddTombstone, g
    <3>2. /\ t \in Registry /\ Len(t) = L /\ DOMAIN t = 1 .. L
          /\ \A i \in 1 .. L : t[i] = g[i + 1]
      <4>1. g # <<>>
        BY <1>1, <1>2, EmptySeq DEF Registry
      <4>2. /\ t \in Seq(Hash) /\ Len(t) = Len(g) - 1
            /\ \A i \in 1 .. Len(t) : t[i] = g[i + 1]
        BY <1>2, <4>1, HeadTailProperties DEF Registry
      <4>3. Len(t) = L
        BY <1>1, <1>2, <4>2
      <4> QED BY <4>2, <4>3, LenProperties DEF Registry
    <3> HIDE DEF t
    <3>3. Range(t) \subseteq Range(g)
      <4>1. \A i \in 1 .. L : i + 1 \in 1 .. L + 1
        BY <1>1
      <4> QED BY <1>2, <3>2, <4>1 DEF Range
    <3>4. IsInjective(r) => IsInjective(t)
      <4>1. SUFFICES ASSUME IsInjective(r), NEW i \in 1 .. L, NEW k \in 1 .. L, t[i] = t[k]
                     PROVE  i = k
        BY <3>2 DEF IsInjective
      <4>2. i + 1 \in 1 .. L + 1 /\ k + 1 \in 1 .. L + 1 /\ g[i + 1] = g[k + 1]
        BY <1>1, <3>2, <4>1
      <4>3. i + 1 = k + 1
        BY <2>3, <4>1, <4>2
      <4> QED BY <1>1, <4>3
    <3>5. Fits(r) => Len(t) <= TombstoneCapacity
      BY <3>2 DEF Fits, L
    <3> QED BY <2>2, <3>1, <3>2, <3>3, <3>4, <3>5 DEF Fits
  <2> QED BY <2>4, <2>5
<1> QED BY <1>3, <1>4

\* RecordTombstones adds the hashes one by one.
LEMMA RecordingIterates ==
  ASSUME NEW r0 \in Registry, NEW es \in Seq(Key)
  PROVE  \E r \in [0 .. Len(es) -> Registry] :
            /\ r[0] = r0
            /\ \A n \in 1 .. Len(es) : r[n] = AddTombstone(r[n - 1], HashOf[es[n]])
            /\ RecordTombstones(r0, es) = r[Len(es)]
<1> DEFINE L == Len(es)
           step(n, x) == AddTombstone(x, HashOf[es[n]])
           g == [p \in (1 .. L) \X Registry |-> step(p[1], p[2])]
           Is(f) == f = [n \in 0 .. L |-> IF n = 0 THEN r0 ELSE step(n, f[n - 1])]
<1>1. /\ L \in Nat /\ \A n \in 1 .. L : es[n] \in Key /\ HashOf[es[n]] \in Hash
  BY LenProperties, ElementOfSeq DEF Hash
<1>2. g \in [(1 .. L) \X Registry -> Registry]
  <2>1. \A p \in (1 .. L) \X Registry : step(p[1], p[2]) \in Registry
    BY <1>1, AddKeepsFit
  <2> HIDE DEF step, L
  <2> QED BY <2>1
<1>3. PICK f \in [0 .. L -> Registry] : Iterates(f, r0, g, L)
  <2> HIDE DEF g, L
  <2> QED BY <1>1, <1>2, IterationExists
<1>4. \A n \in 1 .. L : f[n] = step(n, f[n - 1])
  <2>1. SUFFICES ASSUME NEW n \in 1 .. L PROVE f[n] = step(n, f[n - 1])
    OBVIOUS
  <2>2. <<n, f[n - 1]>> \in (1 .. L) \X Registry
    <3>1. n - 1 \in 0 .. L
      BY <1>1
    <3> HIDE DEF L
    <3> QED BY <3>1
  <2>3. f[n] = g[<<n, f[n - 1]>>]
    BY <1>3 DEF Iterates
  <2> HIDE DEF step, L
  <2> QED BY <2>2, <2>3 DEF g
<1>5. Is(f)
  <2>1. f[0] = r0
    BY <1>3 DEF Iterates
  <2>2. \A n \in 0 .. L : n # 0 => n \in 1 .. L
    BY <1>1
  <2> HIDE DEF step, L, g
  <2> QED BY <1>4, <2>1, <2>2
<1> DEFINE r == CHOOSE f_1 : Is(f_1)
<1>6. Is(r)
  <2> HIDE DEF Is
  <2> QED BY <1>5
<1>7. RecordTombstones(r0, es) = r[L]
  BY DEF RecordTombstones
<1> HIDE DEF r
<1>8. /\ r[0] = r0 /\ \A n \in 1 .. L : r[n] = step(n, r[n - 1])
      /\ DOMAIN r = 0 .. L /\ r = [n \in 0 .. L |-> r[n]]
  <2>1. 0 \in 0 .. L /\ \A n \in 1 .. L : n \in 0 .. L /\ n # 0
    BY <1>1
  <2> HIDE DEF step, L
  <2> QED BY <1>6, <2>1
<1>9. \A n \in 0 .. L : r[n] \in Registry
  <2> DEFINE P == {n \in 0 .. L : r[n] \in Registry}
  <2>1. 0 \in P
    BY <1>1, <1>8
  <2>2. ASSUME NEW n \in 1 .. L, n - 1 \in P PROVE n \in P
    <3>1. step(n, r[n - 1]) \in Registry
      BY <1>1, <2>2, AddKeepsFit
    <3> HIDE DEF step, L
    <3>2. n \in 0 .. L
      BY <1>1
    <3>3. r[n] = step(n, r[n - 1])
      BY <1>8
    <3> QED BY <3>1, <3>2, <3>3
  <2> HIDE DEF P
  <2>3. 0 .. L \subseteq P
    BY <1>1, <2>1, <2>2, UpTo
  <2> QED BY <2>3 DEF P
<1> QED
  <2> HIDE DEF L
  <2>1. r \in [0 .. L -> Registry]
    BY <1>8, <1>9
  <2> QED BY <1>7, <1>8, <2>1 DEF L

\* What an eviction leaves behind: no other hash than those of the evicted
\* keys enters, and the registry still fits.
LEMMA RecordingKeepsFit ==
  ASSUME NEW r0 \in Registry, NEW es \in Seq(Key)
  PROVE  /\ Range(RecordTombstones(r0, es)) \subseteq
              Range(r0) \cup {HashOf[k] : k \in Range(es)}
         /\ Fits(r0) => Fits(RecordTombstones(r0, es))
<1> DEFINE L == Len(es)
           new == {HashOf[k] : k \in Range(es)}
<1>1. /\ L \in Nat
      /\ \A n \in 1 .. L : HashOf[es[n]] \in Hash /\ HashOf[es[n]] \in new
  <2>1. L \in Nat /\ DOMAIN es = 1 .. L /\ \A n \in 1 .. L : es[n] \in Key
    BY LenProperties, ElementOfSeq
  <2> QED BY <2>1 DEF Hash, Range
<1>2. PICK r \in [0 .. L -> Registry] :
         /\ r[0] = r0
         /\ \A n \in 1 .. L : r[n] = AddTombstone(r[n - 1], HashOf[es[n]])
         /\ RecordTombstones(r0, es) = r[L]
  BY RecordingIterates
<1> DEFINE P == {n \in 0 .. L : /\ Range(r[n]) \subseteq Range(r0) \cup new
                                /\ Fits(r0) => Fits(r[n])}
<1> HIDE DEF L, new
<1>3. 0 \in P
  BY <1>1, <1>2
<1>4. ASSUME NEW n \in 1 .. L, n - 1 \in P PROVE n \in P
  <2>1. /\ r[n - 1] \in Registry /\ HashOf[es[n]] \in Hash /\ HashOf[es[n]] \in new
        /\ r[n] = AddTombstone(r[n - 1], HashOf[es[n]])
        /\ n \in 0 .. L
    <3>1. n - 1 \in 0 .. L /\ n \in 0 .. L
      BY <1>1
    <3> QED BY <1>1, <1>2, <3>1
  <2>2. /\ Range(r[n]) \subseteq Range(r[n - 1]) \cup {HashOf[es[n]]}
        /\ Fits(r[n - 1]) => Fits(r[n])
    BY <2>1, AddKeepsFit
  <2> QED BY <1>4, <2>1, <2>2
<1> HIDE DEF P
<1>5. 0 .. L \subseteq P
  BY <1>1, <1>3, <1>4, UpTo
<1>6. L \in P
  BY <1>1, <1>5
<1> QED BY <1>2, <1>6 DEF P, new

\* The hashes of the keys stored again leave, the others stay within bounds.
LEMMA ClearingKeepsFit ==
  ASSUME NEW r0 \in Registry, NEW K \in SUBSET Key, Fits(r0)
  PROVE  /\ Fits(ClearTombstones(r0, K))
         /\ Range(ClearTombstones(r0, K)) \subseteq
              Range(r0) \ {HashOf[k] : k \in K}
<1> DEFINE gone == {HashOf[k] : k \in K}
           w == Without(r0, gone)
<1>1. ClearTombstones(r0, K) = w
  BY DEF ClearTombstones
<1>2. r0 \in Seq(Hash) /\ IsInjective(r0) /\ Len(r0) <= TombstoneCapacity
  BY DEF Fits, Registry
<1> HIDE DEF gone
<1>3. /\ w \in Seq(Hash) /\ Range(w) = Range(r0) \ gone /\ Len(w) <= Len(r0)
      /\ IsInjective(w)
  BY <1>2, WithoutKeeps
<1> HIDE DEF w
<1>4. Len(w) <= TombstoneCapacity
  <2>1. Len(w) \in Nat /\ Len(r0) \in Nat /\ TombstoneCapacity \in Nat
    BY <1>2, <1>3, LenProperties, HashAssumption
  <2> QED BY <1>2, <1>3, <2>1
<1> QED BY <1>1, <1>3, <1>4 DEF Fits, Registry, gone

\* What the policy evicts is a sequence of keys.
LEMMA EvictedKeysSequence ==
  ASSUME IInv, NEW K \in SUBSET Key, NEW es \in EvictionsFor(K)
  PROVE  es \in Seq(Key)
<1> DEFINE n == IF Deficit(K) > 0 THEN Deficit(K) ELSE 0
<1>1. es \in [1 .. n -> Evictable \ K]
  BY DEF EvictionsFor, Evictions
<1>2. Evictable \subseteq Key
  BY DEF IInv, TypeOK, Evictable
<1>3. n \in Nat
  <2>1. Deficit(K) \in Int
    BY FreeIsFinite, NumBlocksAssumption DEF IInv, TypeOK, Deficit, NumFreeBlocks
  <2> QED BY <2>1
<1> HIDE DEF n
<1>4. es \in [1 .. n -> Key]
  BY <1>1, <1>2
<1> QED BY <1>3, <1>4, SeqDef

\* An eviction records keys that are now evicted, and a store that succeeds
\* takes the hashes of its keys out (prepare_store, complete_store).
LEMMA NextTombstonesExact ==
  IInv /\ Fits(tombstones) /\ TombstonesSound /\ [Next]_vars
     => (Fits(tombstones) /\ TombstonesSound)'
<1> SUFFICES ASSUME IInv, Fits(tombstones), TombstonesSound, [Next]_vars
             PROVE  (Fits(tombstones) /\ TombstonesSound)'
  OBVIOUS
<1>0. tombstones \in Registry
  BY DEF Fits
<1>1. ASSUME UNCHANGED <<tombstones, evicted>>
      PROVE  (Fits(tombstones) /\ TombstonesSound)'
  BY <1>1 DEF TombstonesSound, Fits
<1>2. ASSUME NEW j \in JobId, NEW K \in SUBSET Key, NEW es \in EvictionsFor(K),
             NEW slot \in Allocations(K, es), SubmitStore(j, K, es, slot)
      PROVE  (Fits(tombstones) /\ TombstonesSound)'
  <2>1. tombstones' = RecordTombstones(tombstones, es) /\ evicted' = evicted \cup Range(es)
    BY <1>2 DEF SubmitStore, PrepareStore
  <2>2. es \in Seq(Key)
    BY EvictedKeysSequence
  <2>3. /\ Fits(tombstones')
        /\ Range(tombstones') \subseteq Range(tombstones) \cup {HashOf[k] : k \in Range(es)}
    BY <1>0, <2>1, <2>2, RecordingKeepsFit
  <2> QED BY <2>1, <2>3 DEF TombstonesSound, Fits
<1>3. ASSUME NEW j \in JobId, FinishStore(j)
      PROVE  (Fits(tombstones) /\ TombstonesSound)'
  <2> DEFINE K == jobs[j].keys
  <2>1. /\ K \cap {k \in Cached : ~Ready(k)} = K /\ K \in SUBSET Key
        /\ StoreSucceeds(K) /\ evicted' = evicted \ K
    BY <1>3, StoredArePending DEF FinishStore
  <2> HIDE DEF K
  <2>2. tombstones' = ClearTombstones(tombstones, K)
    BY <2>1 DEF StoreSucceeds
  <2>3. /\ Fits(tombstones')
        /\ Range(tombstones') \subseteq Range(tombstones) \ {HashOf[k] : k \in K}
    BY <1>0, <2>1, <2>2, ClearingKeepsFit
  <2> QED BY <2>1, <2>3 DEF TombstonesSound, Fits
<1> QED
  BY <1>1, <1>2, <1>3
  DEF Next, vars, mgrVars, SubmitLoad, PrepareLoad, FinishLoad, CompleteLoad,
      FailStore, StoreFails, Reset, ResetCache, ReadEvents, TakeEvents

\* The registry of tombstones never accuses a block stored again, holds each
\* hash once and stays within its capacity (_record_eviction_tombstones).
THEOREM TombstonesCorrect == Spec => []TombstonesExact
<1>1. Init => Fits(tombstones) /\ TombstonesSound
  <2>1. <<>> \in Registry /\ Len(<<>>) = 0 /\ IsInjective(<<>>) /\ Range(<<>>) = {}
    BY EmptySeq DEF Registry, IsInjective, Range
  <2> QED BY <2>1, HashAssumption DEF Init, MgrInit, Fits, TombstonesSound
<1>2. Fits(tombstones) /\ TombstonesSound => TombstonesExact
  BY DEF Fits, TombstonesExact, TombstonesBounded
<1> QED BY <1>1, <1>2, NextTombstonesExact, Bookkeeping, PTL DEF Spec
=============================================================================
