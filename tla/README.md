# Verification of the KV-cache offloading stack

The repository is a set of patched vLLM files (`src/patched-files/`) with the scripts,
tests and notes to run them. What is its own is the offloading of KV cache from GPU blocks
to a tier in CPU memory and on to secondary tiers: who owns a block, when it may be
overwritten, what may be loaded for whom, and how the engine gets out of a request that
cannot be admitted. That is what this directory models, checks with TLC and, in part, proves
with TLAPS.

Paths below are relative to `src/patched-files/` unless they start with `src/`.

## 1. The system

| component | source | state | operations |
|---|---|---|---|
| CPU tier manager | `v1/kv_offload/cpu/manager.py` | table of blocks (slot, `ref_cnt`), free list, two counters, eviction tombstones, pending events | `lookup`, `prepare_load`, `complete_load`, `prepare_store`, `complete_store`, `touch`, `reset_cache`, `take_events` |
| eviction policies | `v1/kv_offload/cpu/policies/{base,lru,arc}.py` | order of idle blocks; ARC: T1, T2, two ghost lists, a target | `insert`, `remove`, `touch`, `evict`, `mark_evictable`, `mark_non_evictable`, `clear` |
| tiering manager | `v1/kv_offload/tiering/manager.py` | promotions and cascades in flight, their deadlines, pending stores, retracted ids, requests to finalize | the manager's interface over a primary and secondary tiers, `on_schedule_end`, `drain_flush_job_ids`, two expiry scans |
| connector, scheduler side | `distributed/kv_transfer/kv_connector/v1/offloading/scheduler.py` | per request: block ids, next chunk to store, jobs; jobs in flight, fences (block -> jobs), jobs to flush, threshold of stale jobs | `get_num_new_matched_tokens`, `update_state_after_alloc`, `build_connector_meta`, `update_connector_output`, `request_finished`, `reset_cache`, `has_pending_push_work` |
| stale-hit guard | same file, 334-414 and 1334-1672 | per request: streak, pin, fallbacks, wall, refusal window, claim | inside `get_num_new_matched_tokens`; read by the core scheduler through `is_stale_hit_escape` |
| GPU worker | `v1/kv_offload/cpu/gpu_worker.py` | per direction a queue of transfers; pools of streams, events and descriptor buffers | `transfer_async`, `wait`, `get_finished`, `shutdown`; batches of descriptors and their recovery |
| shared region | `v1/kv_offload/cpu/shared_offload_region.py` | a file mapped by all ranks, under one of two names | create, join, wait, fall back, discard, clean up |
| core scheduler | `v1/core/sched/scheduler.py` | requests and their status, running and waiting queues, ids preempted and finished since the last step | `schedule`, `update_from_output`, `finish_requests`, `reset_prefix_cache` |
| KV-cache coordinator | `v1/core/kv_cache_coordinator.py` | the cached blocks of each group | longest hit common to several groups, caching, allocation |
| CUDA graphs | `v1/cudagraph_dispatcher.py`, `v1/worker/gpu/cudagraph_utils.py` | tables of captured graphs | capture lists, dispatch |
| model, quantization, warm-up | `model_executor/`, `models/` | tensors | numeric code |
| scripts, tests, notes | `src/*.sh`, `src/tools/`, `src/docs/`, `src/patches/` | logs, probes | launch, watch, restart |

**How they interact.** One engine step: the core scheduler asks the connector for each
waiting request what the tier could load (`get_num_new_matched_tokens`), allocates GPU
blocks and reports them (`update_state_after_alloc`, which pins tier blocks and creates a
load job). At the end of the schedule `build_connector_meta` turns newly computed chunks
into store jobs (which evict and reserve tier blocks), and hands loads, stores and the ids
of jobs to flush to the workers. The workers submit stores one step late, wait for the jobs to
flush before the model runs, and report what is done; `update_connector_output` then counts
the reports and completes jobs in the manager. With secondary tiers the manager is the tiering
manager: a lookup may start a promotion into the CPU tier, a completed store cascades to every
tier, and the first call of a step polls the tiers and runs the expiry scans. Requests may be
preempted in a step, end in it, be aborted between steps; caches may be reset between steps.
Calls of the scheduler side are made by one thread. What runs concurrently is the copying on
the GPU's streams and the transfers of the secondary tiers, which nothing but flushes and
reports orders against everything else, and, once, the ranks that open the shared region.

**What is hard.** A GPU block is handed to another request while a copy still reads it
(fences and flushes); a tier block is evicted while it is read or written (pins); a
completion arrives after a reset, after its deadline, or for a request that ended; a promotion is
retracted and then reported; block ids kept after their blocks went out of the window; pooled
streams, events and buffers reused under a transfer; ranks that end up on two files; timers
of the stale-hit guard that race each other; the engine going to sleep with transfers nobody will
collect; a hit on which several groups must agree. The list, with lines and the properties
that guard them, is `hazards` in `PROJECT.json`.

**What makes each part correct.**

* manager: no slot leaked or shared, counters exact, pins match loads, no transfer loses its
  slots, consumers of events know the content, tombstones tell the truth;
* policies: they evict exactly what the contract of `CachePolicy.evict` allows;
* tiering manager: a reservation has one owner and ends, whatever a tier loses or reports
  late, and a store that is reported too late wrongs no block but its own; nothing reaches a tier after it was told that the request is over;
* guard: a wedged request is admitted in the end; a refused hit stays refused until progress;
* connector and engine: what is stored under a key is KV of that key, every request computes
  on its own KV, no copy is disturbed, every report finds its job, everything is let go in the end;
* GPU worker: each direction is a queue; a flush that returns means the bytes have moved; the
  region is unmapped when nothing uses it;
* shared region: the ranks that come up map one file, unless huge pages come back when some rank has
  given them up, and no file stays behind;
* lookups, prefix-cache hits, descriptors, graphs: the result of a reference definition.

## 2. Modules

| module | models | lines of code it stands for |
|---|---|---|
| `CpuManager` | `CPUOffloadingManager` and the contract of `CachePolicy`, one operator per method | `manager.py`, `policies/base.py` |
| `CpuTier` | the manager with clients that keep the protocol of `OffloadingManager`: overlapping loads and stores, failed stores, resets, a consumer of events; eviction is *any* the contract allows | `v1/kv_offload/base.py` 238-370 |
| `CachePolicy` | what the policies share: a list of keys without repetition, keys to touch | `policies/base.py` |
| `LruTier`, `ArcTier` | the two policies under the clients of `CpuTier` | `policies/lru.py`, `policies/arc.py` |
| `CpuPolicies` | the tier with the policy its configuration names | `manager.py` 132-138 |
| `TieringManager` | the tiering manager, its primary with an abstract eviction, one or more external secondary tiers and the GPU's transfers | `tiering/manager.py` |
| `StaleHitLadder` | the guard for one waiting request and the admission gate it relaxes | connector 1334-1672, core 992-1066 |
| `OffloadConnector` | the connector's state and handlers, over `CpuManager` | connector 319-2510 |
| `OffloadEngine` | core scheduler, connector, manager and workers, step by step, with the content of memory | core scheduler, `gpu_worker.py` 1348-1422 |
| `TransferQueue` | abstract: what a worker promises of each direction | |
| `GpuWorker` | the worker thread, its pools and the device; implements `TransferQueue` | `gpu_worker.py` |
| `SharedRegion` | the ranks in `__init__`, between system calls, and the cleanup | `shared_offload_region.py` |
| `HybridLookup` | the lookup over several groups, partial tails, which chunks are worth storing | connector 111-305, 590-608, 875-1320 |
| `PrefixCacheHit` | the longest common hit, what is cached, the order of touch and allocation | `kv_cache_coordinator.py` |
| `CopyDescriptors` | the bytes a transfer names, views of the region, chunked pinning | `gpu_worker.py`, `shared_offload_region.py` |
| `CudaGraphs` | captured graphs and dispatch, both generations | `cudagraph_dispatcher.py`, `cudagraph_utils.py` |
| `CpuTierProofs`, `PolicyProofs`, `SharedRegionProofs`, `StaleHitLadderProofs`, `GpuWorkerProofs`, `TieringProofs`, `EngineProofs` | theorems about the module each is named for; `PolicyProofs` is about `CpuPolicies`, `EngineProofs` about `OffloadConnector` and `OffloadEngine` | |
| `ProofBasics` | lemmas on numbers, counting, injections and iteration that these share | |
| `MC*` | values of constants; `MCAlgorithms` also enumerates inputs and judges the pure algorithms | |

`CpuManager` is extended by `CpuTier` (abstract clients), by the policies through it, and by
`OffloadConnector` (the real client); `OffloadEngine` extends `OffloadConnector`. Three
refinements are checked: LRU and ARC implement `CpuTier` (`PoliciesAreTiers`), `GpuWorker`
implements `TransferQueue` (`TransferQueues`, with the queues' jobs for `pending` and the last
of them that ran for `ran`). The order of copies that `OffloadEngine` assumes of a worker is that of
`TransferQueue`.

An operator with a comment `Mutant:` is not part of the model: it is the neighbouring
definition with a plausible bug in it. `PROJECT.json` pairs each property of a run with one;
putting it in place of the definition makes the property fail.

### Correspondence

* **CpuManager.** `blocks` is the policy's table (`block_id`, `ref_cnt`; -1 is write-pending),
  `freeList`, `numAllocated` and the counters are the fields of those names. `Evictable` and
  `WritePending` are what the counters count. `EvictionsFor(K)` is what the contract allows
  `evict` to return for `prepare_store(K)`. The cap per call and the tombstones are as in the
  code. Left out: the counts of the reuse threshold and the statistics. Events are always on.
* **CpuTier.** A job is a load or a store with the slots its worker was given. `Reset` drops
  the jobs, as the connector does; late reports are skipped there (`_stale_job_threshold`) and
  checked in `OffloadEngine`.
* **LruTier.** `evictableBlocks` is the `OrderedDict` of idle blocks; **ArcTier** keeps T1, T2, B1, B2
  as sequences and the target as a multiple of `1/Scale`, since the code adds fractions. A touch is a sequence of
  distinct keys and a function iterated over it, from the last key to the first. `CpuPolicies` runs one of them, the lists of the other stay empty.
* **TieringManager.** `m` is the manager as a record with the fields of the code; its operations are
  functions of it, so that a handler that polls, completes, evicts and submits is one action. `work`
  is what the secondary tiers do with the jobs they were given: report all or part of a promotion,
  late or never. `num_blocks`, the size of the primary tier, is chosen in `Init`, up to `NumSlots`, and stays. `gpu` holds the transfers between GPU and primary as the connector tracks them. Lookups of
  the tiers may answer anything. Timers are relative and count in ticks, a tick being the share of the time to live
  of which `TTL` just exceed it: what is that old is overdue. A GPU transfer that stores carries the batch id its reservation got
  (`_store_pending_owner`), which tells whether the reservation still stands (`Holds`). Ids that nobody remembers are used again.
  A store may be reported after its reservation expired, and the manager does not tell: `CompleteStore` then makes a block that was reserved
  again readable and cascades it, and `CompleteStoreAsserts` stands for the failed assertion when a block to cascade is gone, after which nothing
  runs (`crashed`, `Down`). `taken`, a history variable, names the blocks made readable under another transfer's reservation since the last reset. Of these blocks
  the owners are not known, and the properties except them by name; their readers, their slots and every other block are as they should be. A block that is
  taken may be promoted twice at once, so the order in which the tiers' reports are consumed matters then (`Orders`).
* **StaleHitLadder.** `s` holds the `stale_hit_*` and `escape_*` fields of a request. Timers
  are relative: ages grow to the bound they are compared with, deadlines count down. `schedule()`
  asks and allocates in one pass, so the environment changes only between passes (`asked`), and
  time passes once the request was asked about and did not fit. `scheduler_reserve_full_isl`, the gate that the
  escape relaxes, is on.
* **OffloadConnector.** One handler of the connector is one operator. A key is one chunk, a
  chunk one GPU block, and there is one group. `transfer_jobs` of a request and
  `_chunks_being_loaded` are derived from `_jobs`, with which the code changes them. The guard
  is abstracted as "may answer 0 for any hit". A store may be refused whenever the tier would have
  to evict (too few idle blocks, the cap and ARC each say no at times).
* **OffloadEngine.** Its phases are those of a step (see the head of the module). A request is
  `waiting`, `remote` (WAITING_FOR_REMOTE_KVS), `loaded` (promoted in this schedule),
  `running`, `finished` or `aborted`. Memory has content, `[key, filled]`: the chunk whose KV a
  block holds and how many of its tokens. The model writes `Nothing` when it read wrong KV, so
  that corruption spreads. `CopyBlocks` is one worker's copy of one transfer; copies of one
  direction go in order (the `wait_event` of `gpu_worker.py`), those of two directions
  in any. The memory of one worker (`Lead`) is modelled, others only report.
* **GpuWorker.** `queue` is `_transfers` and `eventOf` `_transfer_events` of each direction, `pool` its three
  pools. `events` says which transfer recorded an event last, `buffers` which wrote descriptors to a buffer
  last, so a resource taken while in use shows. `device` is the work enqueued: a transfer runs when the
  compute stream and the transfer its stream waits for are done. `_SwapDiag` is modelled by what its batches,
  their recovery and its per-entry path copy; a transfer whose copies the driver refuses raises and ends the worker.
* **SharedRegion.** An action is a rank's next system call in `__init__` or `_open_hugetlb_region`; files are
  numbered as they are created, names are entries of `dir`, and a rank keeps its file open whatever becomes of the name.
  A timeout may come at any moment of a wait. `backed` is whether the huge-page mount would pass validation now.
* **HybridLookup, PrefixCacheHit, CopyDescriptors, CudaGraphs.** Pure operators named for the functions they
  translate. What a lookup may answer per key, the blocks the managers of single groups hold and the free list of
  the pool are arguments. The reference definitions beside them say what is right: the longest prefix that every
  group can load, every byte of the transfer copied once and to its place, a graph large enough for the batch.

Blocks of the GPU pool, its prefix cache, the worker-side connector and the model runner, the secondary tiers
and the managers of single KV-cache groups are not in the repository; they are modelled from how its code uses them.

### Simplifications

*Engine.* Steps are synchronous (no output is in flight while the next step is scheduled). Preemption is
first-come-first-served: its victim was not scheduled in the step. The order of requests within a
schedule is arbitrary, which includes the queues' order. Requests are all registered at the
start. Local hits are blocks filled in earlier steps; with a window there are none. Copies are placed
in the phases `forward` and `update`: a copy reads and writes only memory and its own
transfer, and everything that looks at either is in these two phases, so every other place
is equivalent to one of them. With one token to a chunk a full hit of one token leaves a promoted
request with nothing computed; its status `loaded` keeps it on the path that the code
selects by `num_computed_tokens > 0`. Jobs are numbered from 0. Two steps end the engine by an assertion of the
code and are left out by their guards, `ResetConnectorAsserts` and `ConnectorMetaAsserts` (section 6).
Left out: several groups through the engine, `max_offload_tokens`, `offload_prompt_only`, the cap on mirror offers,
request-level policy, `touch` (an order that the abstract eviction forgets), deferred frees of asynchronous
scheduling, invalid blocks, speculative tokens, encoders, LoRA.

*Tiering.* The primary's counters and lists are those of `CpuTier` and not repeated. Ids drained for flushing are forgotten only when
their transfer no longer runs (the code waits ten minutes).

*Shared region.* Cleanup of a rank comes once every rank is past `__init__`, as the engine starts and stops its
workers together. `backed` flips at any time, since `HugePages_Free` is read anew by each creator (511-515).

*Prefix-cache hits* are of whole blocks, without context parallelism.

## 3. Runs

| run | bounds | shows |
|---|---|---|
| `cpu_tier` | 4 keys (two with one hash), 3 slots, 3 transfers, cap 2, 2 tombstones, 1 event | the manager's books, slots, assertions, events and tombstones under any policy |
| `policies` | either policy: 5 keys, 2 slots, 2 transfers, touches of up to 2 keys; 24 thousand states | both lists are exact, evictions meet the contract and succeed when they can, ARC's target stays in bounds, a touch keeps prefixes, both implement `CpuTier` |
| `ladder` | 2 hits, 2 boundaries, every timer armed | 36 thousand states; escapes hold, end on progress, and lead to admission |
| `engine` | 2 requests with a common first chunk, 2 GPU blocks, 2 slots, up to 4 tokens, 1 preemption, 1 reset of either cache | 2.9 million states; no KV under a wrong key, no request on foreign KV, no copy disturbed, reports and fences consistent |
| `engine_window` | window of 1 chunk, 2 workers, up to 3 tokens, no mirroring, 1 preemption, 1 reset of the connector, fair | 354 thousand states; the same for blocks freed while their request runs, and everything ends |
| `tiering` | 2 keys, a primary tier of 1 or 2 slots, 1 secondary tier, 1 request, 2 ids, every TTL one tick, two GPU transfers of 1 block, fair | 565 thousand states, stores that come late included: one owner per reservation, transfers keep their slots, assertions, nothing after finalisation, failed promotions wait, reservations resolve |
| `gpu_worker` | 3 transfers of 1 to 3 descriptors in batches of 2, with hidden, split and refused ones | 276 thousand states; pools, `TransferQueue`, flushes, reports, shutdown |
| `shared_region` | 3 ranks, free huge pages that come and go, fair | 58 thousand states; one file for each path, one path until pages come back after a rank gave them up, nothing left behind, every rank ends |
| `algorithms` | models of 2 and 3 groups, requests of up to 6 tokens, every answer of the tier; every small transfer, layout, graph table and batch | 418 thousand inputs against the reference definitions |
| `engine_second_turn` | a prompt and its second turn, 2 tokens to a chunk, window of 1 chunk, mirroring | violates `RestoresAreSound`: section 6 |
| `tiering_expiry` | those of `tiering` | violates `ExpiryIsHarmless`: section 6 |
| `region_recovery` | 3 ranks | violates `RanksShareOneFile`: section 6 |

**Why the bounds are enough.** The tier always has fewer slots than keys, so every store
evicts once it is full; three transfers are the fewest with which two loads of one block overlap a
store that evicts another. One pending event suffices because the consumer's knowledge is compared at
every state, the pending event applied. ARC needs a key more than blocks and
ghosts hold together for trimming to matter; that its target may be a fraction only changes which of the
allowed victims go, and `Scale` keeps fractions exact (`ScaleAssumption`). The timers of the ladder last one to
three ticks: a pin can end inside the repeat window, and the wall can be reached with the refusal window open or
closed. Two requests are the fewest that take blocks from each other; two GPU blocks, fewer than the two need, force
preemptions, and with two slots a third chunk evicts. Chunks that share a key let one request load what
the other stores. One thing needs a third request, a load and a store that meet after a reset; it is stated by `CpuTransfersUndisturbed` and settled by a theorem. In `tiering` two keys that
compete for one slot make reservations evict or be refused, and in a tier of two slots one promotion job holds both blocks and may fail in part. One tick
is enough for a transfer to expire before, at or after its report; two ids are enough for a promotion and a cascade, or a
retracted id and a new one; with two GPU transfers a load overlaps a store, or a store that expired one that took its place. GPU transfers of several blocks, of which
one expires or is taken in the company of another, more keys and larger tiers are beyond a run of this length; for them the theorems of `TieringProofs` hold. In `gpu_worker` three transfers are the fewest with which a pooled resource is taken again while
another is in use, and a batch boundary falls inside a transfer. Three ranks are a creator that gives up, one that waits
for it and one that creates again; for any number of them there is a theorem. `MaxTokens`, `MaxPreemptions`, `MaxResets`, `MaxEvents`,
`NumIds`, `MaxGpuJobs` and `MaxBatch` bound what is otherwise unbounded; symmetry is used for transfers and
interchangeable keys in `cpu_tier` and `policies`, which have no liveness properties. In `algorithms` the prefix cache is judged with one and with two
full-attention specs, and partial tails with prompts shorter than the request.

**Fairness.**

* `StaleHitLadder`: transfers finish, the scheduler asks again, admits what fits, and time
  passes; all weakly fair, as `schedule()` is called in a loop while a request waits.
* `OffloadEngine`: `WF(Step)`, since the engine core steps as long as `has_requests` holds (which
  `BuildConnectorMeta` has as a guard), and `SF(Copy)`: a copy runs on the GPU whatever the phase, so
  it ends; strong fairness makes up for it being placed in two phases only. Scheduling a
  request, aborts, preemptions and resets are not fair: a request may wait for ever and
  `EverythingEnds` speaks of requests that ended and of blocks of the tier.
* `ReservationsResolve` (no block stays pending) and `EverythingEnds` are of the form "again and again" and written `[]<>`, which here says the
  same as a leads-to and is cheaper to check.
* `TieringManager`: `WF(Tick)`, and steps of the engine end while something is queued or overdue
  (`WF(Overdue /\ OnScheduleEnd)`: `has_pending_work` and the connector's jobs keep it stepping), as long as the engine is up. Secondary tiers are not
  fair at all: they may never answer.
* `GpuWorker`: the device runs its compute work and some runnable transfer, a wait returns once it can, a shutdown that began
  goes on, and the worker is polled (`SF(GetFinished)`, called once a step, between waits that may go on coming).
* `SharedRegion`: `WF(Step(r))` for each rank: a process is not kept from running, and a wait has a timeout.

Deadlock is checked except where the system stops: a worker that was shut down (`gpu_worker`), ranks that all ended
(`shared_region`, `region_recovery`), an input that was judged (`algorithms`). In the engine `Quiescent` stutters exactly when nothing is left to do.

## 4. Proofs

**`CpuTierProofs`** proves for every set of keys, number of slots, cap and set of transfers what
`cpu_tier` checks on one instance: `TypeCorrect`, `BooksCorrect`, `SlotsSafe`, and on the way `Bookkeeping`,
`SlotSafety` and `TransferIsolation`. The argument:

* No property but `TypeOK` is inductive alone. A failed store gives its slots back
  and must know that they are still its own (`TransfersKeepTheirSlots`); that they are needs
  `ref_cnt` to be right, or an eviction could have taken them (`RefCountsMatchJobs`); and a slot that
  comes from the free list is nobody's only if slots are conserved. The inductive invariant is
  therefore `IInv == TypeOK /\ SlotsConserved /\ RefCountsMatchJobs /\ TransfersKeepTheirSlots`.
* `CountersExact` is preserved relative to `IInv`: each operation moves the counters by the
  cardinality of what it moves, and the lemmas `SubsetRemoval` and `DisjointUnion` add these up.
* `Bookkeeping` is `Spec => [](IInv /\ CountersExact)`; the others follow. `TransferIsolation`
  follows from `IInv` without a step of its own: two transfers that share a slot would own one block.

* `AssertsHold`: an admitted store finds enough slots, since an eviction of `n` blocks yields `n` slots that are not free
  (`SlotsConserved`), and every completion finds its blocks pinned or pending (`RefCountsMatchJobs`).
* `EventsCorrect`: `Replay` is a closed form of applying the pending events one after the other, and each operation appends the one event that
  says what it did to the readable blocks.
* `TombstonesCorrect` is about two loops: recording (each hash moves to the end, the oldest makes room) and clearing. Both are recursive
  functions; the proof unrolls them with `IterationExists` and goes along them with `UpTo` (see `ProofBasics`).

Assumptions: the keys and transfers are finite sets, the number of slots, the cap and the capacity are
naturals, each key has a hash (`KeyAssumption`, `NumBlocksAssumption`, `CapAssumption`,
`HashAssumption`, `JobAssumption`).

**`PolicyProofs`** proves what `policies` checks, for any keys, slots, transfers and length of a touch: `LruListCorrect`, `ArcListsCorrect`,
`AdaptationCorrect`, `PrefixesTouchedCorrectly` and the refinement `PoliciesRefineTier`, by which every theorem about `CpuTier` holds of the manager with its real
policies (`PoliciesKeepTheBooks` draws the conclusion for books and slots). The invariant is `PolicyInv`:

* For LRU, `LruExact`: the list is a list without repetition of exactly the idle blocks. The effect lemmas (`SubmitLoadEffect` and so on) say what each
  operation of the manager does to the cached, the idle and the pending blocks; they need `IInv` of `CpuTierProofs`, since a load that ends marks a block evictable when its
  count falls to zero, which is right only if the counts are. The invariant rules out that the policy's list and the manager's counts, which are updated
  in different methods, drift apart.
* For ARC, `ArcExact` is `Parts` (T1 and T2 split the cached keys, no list repeats a key, ghosts are not cached, T2 holds nothing pending) and
  `Bounded` (ghosts within the capacity, target within the cache). They need each other: a block moved to T2 by a touch is ready, so that a failed
  store leaves nothing behind in T2, and an evicted key can join the ghosts only because it was not one.
* A touch and ARC's simulation of an eviction are loops, recursive functions over a segment. `TouchOrders` goes along the touch with the claim that, once the earlier of
  two keys was visited, the later one is before it in the list, which gives `PrefixesKept`; `ArcTouchKeeps` with `Parts` and `Bounded`; `ArcEvictPicks` with the claim that the victims so far are the first candidates of
  T1 and the first of T2. Hence the victims are distinct, idle and not of the store, which is what the contract asks (`LruEvictPicks`, `ArcEvictPicks`).

Assumptions: those of `CpuTier` and `ScaleAssumption`, of which the proofs use only that `Scale` is positive.

**`SharedRegionProofs`** proves for any number of ranks, and with free huge pages that come and go at any time, that ranks which come up on one path share one
sized file and that they are on one path unless pages came back after some rank gave them up (`OneFile`), and that no file stays (`NoFileStays`). Nothing is
assumed of huge pages; the only assumption is that the ranks are finitely many. The inductive invariant has three layers:

* `Structure`: which ranks have a file open and of what size (`OpenFiles`); a name has one owner until its file is sized or
  given up (`Owners`); no file has two names, and who has it open came by its name (`Names`); a sized file keeps its name while some rank
  is still opening (`FullFilesAreNamed`); and every name has a rank that is to unlink it, or that failed to (`NamesAreOwned`). `NoFileStays` follows
  from it alone.
* `OneFilePerPath` (`OnePathKept`): the sized files that ranks have open under one name are one. A name is created anew only when it leads to no file, and then no
  sized file of it is in use while ranks are opening. This is what holds whatever becomes of the pages.
* `FallBackIsFinal /\ OneFullFile`, until `recovered`: a rank falls back only when pages lack, so nobody can size the huge-page file before they come back, and
  there is one sized file. The run `region_recovery` shows that the condition is needed (section 6).

**`StaleHitLadderProofs`** proves the safety properties of the ladder for any limits and timers: `LadderConsistent`, `ClaimStaysDown` and, with
a refusal window, `EscapeEnds`. The invariant is `Types /\ Agree(s)`. Beyond what `LadderIsConsistent` says it needs that with a refusal window
every escape holds a claim: this takes a call past the wall, which would otherwise end the escape. The lemma `EntryIsClean` carries most of it:
a call that reaches the lookup has left escape mode, holds no claim and no pin. There is one lemma for each branch of the call.

**`GpuWorkerProofs`** proves for any transfers, any number of batches and any progress of the device `TransfersStayIntact`, `RegionOutlives`, `FlushIsComplete` and
`QueuesRefined`. What makes the invariant `IInv` more than these properties:

* `StreamsOwned`, `EventsOwned`, `BuffersOwned`: what a queued transfer holds is in no pool and in no other transfer, and everything pooled or held has
  been numbered already, so that a fresh one is nobody's. A resource may also be neither, when the call that took it raised: it is lost. A buffer is given back when its transfer is collected, and only a transfer that has run is collected:
  that no buffer is refilled too early therefore needs
* `InOrder`: a transfer waits on the device for the one queued before it. What has run is a prefix of the queue, which is what lets
  `get_finished` stop at the first transfer that has not, and `wait` trust the end event.
* `EventsKnown`, `WorkAccounted`: `wait` finds an event for every queued job, and what the device still works on is queued, apart from the transfer that raised and
  those that a failed shutdown gave up; hence nothing uses the region when it is unmapped.
* `AllCopied` rests on `AllAreCopied`: batches that are accepted, batches copied again entry by entry and the per-entry path together make
  every copy of a transfer that does not raise. It needs that batches are disjoint and cover the descriptors (`SpansCover`), for any length and cap.

`QueuesRefined` shows the refinement step by step: `TransferAsync` appends to its queue, a run on the device moves the boundary of what has run,
`GetFinished` takes off a prefix of it, a shutdown empties the queue, and everything else changes nothing of `TransferQueue`. Assumptions:
`WorkerAssumption` (finitely many transfers, each a non-empty list of descriptors; a positive cap per batch).

**`TieringProofs`** proves the safety properties of the tiering manager, for any keys, slots, tiers, requests, ids, times to live and numbers of transfers:
`TieringStateOK`, `ReservationsHaveOneOwner`, `SlotsStayPut`, `TieringAssertionsHold`, `ClosedStaysClosed` and, where failures are remembered at all,
`FailuresAreRemembered`. Stores may be reported at any time after their reservation expired. `NoStoreIsLate` adds that with `VLLM_KV_OFFLOAD_STORE_PENDING_TTL_SECS` at 0 nothing
is excepted: no assertion fails, and no block is read that a promotion is still to fill. The default is 30 s, and there `tiering_expiry` shows that claims to the contrary fail. With `VLLM_KV_OFFLOAD_PROMOTION_FAIL_TTL_SECS` at 0 a lookup may promote again what it found failed, so the last one has that hypothesis.

* A handler polls, reserves, pins, cascades and submits in one step. The invariant is therefore stated of the parts of a state
  (`Inv(X, s, w, G, C)`: of the blocks late stores took, a manager, the tiers' work, the GPU's transfers and the closed requests), and each lemma takes it from one intermediate state of
  a handler to the next: `ConsumeKeeps`, `ExpirePromotionsKeeps`, `ExpireStoresKeeps` make up polling; `ReserveKeeps`, `CascadeKeeps`, `FinalizeKeeps` and
  `EndOfScheduleKeeps` are used by several handlers.
* `Owned`: a pending block has one owner (a queued promotion, a promotion in flight, a GPU store whose reservation stands) and no reader; a
  readable one has no owner and as many pins as readers; an absent one has neither. Of blocks that a late store took, only what is said of readers remains: it is unconditional, since
  a late store makes a block readable before it pins it. `ReservationsOwned` says less and is not
  inductive: that an evicted block had no reader, or that a reservation that expires had no second owner, are cases of `Owned`.
* `Timed` is what expiry needs: every deadline belongs to a store in flight, and the blocks of one batch have their deadlines
  together, with one age, or not at all. So a store expires as a whole, and what is reserved anew is nobody else's although a late transfer still names it. This is why the batch
  id is in the state; the request alone would not tell two stores of one key apart.
* `Ids`: every transfer of a tier has its job or is remembered as retracted, and never both; `Room`: queued promotions can be
  given ids at the end of the schedule (a consequence of the bound `NumIds`, which the guards keep); `Counted`: a request waits for as many stores as it has in flight.
* `Settles` is what polling may do: it ends jobs, and a block whose promotion ended is readable or its failure is remembered. `FailuresAreRemembered`
  follows, since a lookup promotes only what is neither.
* `Excused`: the manager has crashed only over a store with a block that is gone, and whose reservation expired or was taken; with no time to live for
  stores nothing is taken and nothing crashes. `CompleteStoreAssertsStep` reads the former off `Owned` and `Placed`: a store whose reservation stands finds its block.

Assumptions: `TieringAssumption` (finite sets of keys, requests and tiers; naturals; `NoRequest` is no request).

**`EngineProofs`** proves `JobsConsistent` (`ConnectorConsistent`) for any requests, lengths, chunk sizes, GPU blocks, slots and workers, with full attention or
a window of any width, with and without mirroring and local hits, through preemptions, aborts and the three kinds of reset. A report arrives steps after
its job was made, when the request may have ended and the tables may have been reset; why it then finds everything is `EngineInv` (`EngineBookkeeping`):

* `Counted`: the reports a job waits for (`pending_count`) are those that workers have yet to make (`left`), those made and not collected
  (`done`) and the one that `update_connector_output` is about to count (`outs`); and a transfer of which reports are to come has its job unless a
  reset made it stale. `JobsConsistent` only says that no report is one too many, which a step would not preserve.
* `Pins`: a block of the tier has as many pins as jobs in flight load it, or is write-pending under the one job that stores it, and every job's keys are
  cached. So an eviction for a new store cannot take a block that a job names, a load can pin what its lookup found, and a completion finds what it asserts.
* `Fences` is `FencesExact`; that it stays true when a request ends and when it is forgotten needs `Tracked`: a request with a job is tracked, since
  `request_finished` looks only at requests that are.
* `Amounts`: no request computes more tokens than it has, which bounds a hit (`HitsWithinTokens`, over both lookups) and what a store may offer
  (`StorableBounds`), so that a job's keys are keys of its request.

There is one lemma for each action (`AdmitLoadKeeps`, `BuildStoreKeeps`, `UpdateConnectorOutputKeeps`, ...), with the report split into stale, partial and last, and a new
job into what it does to the counts, the pins and the fences.

On top of it `SlotsIsolated` proves `CpuTransfersUndisturbed`, the half of `TransfersUndisturbed` about CPU memory: loads and stores run on streams of their own, and
no store writes a slot that a load is reading. Within one life of the tier this is bookkeeping: `SlotBooks` (each block has a slot of its own, handed out and not
free), `JobSlots` (a transfer uses the slots of its job's keys) and `Pins` keep two jobs apart (`NewApart`). A reset hands all slots out again while transfers go
on, without jobs; `SlotInv` adds what then keeps old and new apart:

* `OldApart`: what was in flight at the reset did not meet, and copies only end.
* `Awaited`: all of it is in the flush of the next metadata, hence over when the model runs in the next step.
* `HeldBack`: until then no new load runs, since loads start after the wait, and no new store but one that is flushed itself.

The last clause leaves one case open, which the property names and section 6 tells. Assumptions: those of `CpuManager`, and `ConnectorAssumption` and `EngineAssumption` (a request
has a list of keys and a prompt shorter than the limit, a chunk at least one token; there are finitely many workers).

`ProofBasics` takes the place of the library's induction theorems, which the provers cannot instantiate: induction on numbers is done with a least counterexample (`LeastNat`,
`UpTo`), and a recursive function over a segment is shown to exist and unrolled with `IterationExists`.

TLC evaluates the assumptions of the modules in their runs.

Only model-checked: of the engine, what memory holds (`TierHoldsItsKeys`, `RequestsReadTheirOwn`) and the GPU half of `TransfersUndisturbed`, which depend on
everything between a computed token and a copied block (the first two cannot be theorems for every value of the constants: for chunks of more than one token, and for a window with
mirroring, the code breaks them, as `engine_second_turn` shows); the pure algorithms; and liveness (`WedgeIsAdmitted`,
`EverythingEnds`, `ReservationsResolve`, `TransfersAreReported`, `OpeningEnds`), which with fairness and `ENABLED` is beyond the prover. Induction over data is too where
it cannot be put as an iteration over a segment; `HybridLookup` and `PrefixCacheHit` use RECURSIVE operators for their convergence loops and stay with TLC for that reason.

## 5. Plan

Done of the plan: the manager and its policies, ladder, connector and engine, tiering manager, GPU worker, shared region, the pure algorithms. Next:

1. *Theorems.* The contents of memory in the engine (`GpuTransfersUndisturbed`, `TierHoldsItsKeys`) where the two cases of `engine_second_turn` do not
   apply, on top of `EngineBookkeeping` and `SlotsIsolated`.
2. *Core scheduler.* Budgets and reservations of prefills in flight; deferred frees of asynchronous steps, and with them the engine without the
   assumption of synchronous steps.
3. *Tiering in the engine.* `OffloadConnector` over the tiering manager: flush ids of both, promotions during a lookup of several groups.
4. *Connector.* Several groups through the engine, the caps on offloaded tokens and on mirror offers, request-level policy.
5. *Reuse threshold* of the manager.

### Not modelled

* Metrics, histograms and the parsing of settings: no behaviour depends on them.
* Model, quantization, warm-up, `moe_runner.py`: numeric kernels, weight layouts and tensor plumbing, outside of what a model checker reaches. They are about
  a quarter of the lines.
* Capture and replay of graphs, copy kernels and driver calls, pre-faulting of pages: they drive the CUDA runtime and the operating system.
* Launch scripts, host tuning, monitoring, load tests and patches: their state is the processes of the host; read as documentation.

## 6. Where code and its own words part

With a run that shows it. Where one run stands for several claims, its property is the weakest of them, a disjunction: what violates it violates
each, in one trace.

* `engine_second_turn` (`RestoresAreSound`: the tier holds under each key KV of that key, or what a request reads under its own keys is complete):
    * With mirroring, on by default, and a windowed group, `_build_store_jobs` offers
      chunks below `next_stored_chunk_idx`, where `_update_req_states` does not zero the ids of
      blocks handed out again (1829-1834): another chunk's KV is stored under the key.
    * A finished request counts its last sampled token as computed (1976); if it
      completes a chunk, the chunk is stored with one position that was never written, and the next turn
      of the conversation loads it. It needs synchronous steps (or, with asynchronous ones, a stop by
      length) and a group that is not EAGLE, whose trailing chunk is excluded.
* `tiering_expiry` (`ExpiryIsHarmless`: one of `FlushBeforeReuse`, `StoresFindTheirBlocks`, `ReadBlocksAreFilled` holds throughout). In one life of the manager
  each of these happens:
    * A retracted reservation is free at once, while the id of the wedged transfer is flushed with the next metadata; a lookup
      or store of the same step is given the slot that the transfer may still write (comment at tiering 252-256).
    * A GPU store is reported after its reservation expired, and its block is gone: the cascade's `prepare_read` fails its assertion (tiering 947 and 973;
      manager 246) in the engine's step. `StoresFindTheirBlocks` is that assertion.
    * The same, but the key was reserved again by a promotion: `complete_store` (930) makes the block readable and cascades it (946-948) before its new owner
      filled it, though the cascade is to come "after blocks are confirmed to be in the primary tier" (914-916). `ReadBlocksAreFilled` says that no block is read while a
      promotion is still to fill it.
* `region_recovery` (`RanksShareOneFile`): the first rank fails validation and falls back; huge pages come back; a later rank wins the exclusive creation of the huge-page file anew, and
  the ranks map two files, though a fallback is "safe" where no live region exists and is not to "split ranks across two backing files" (`shared_offload_region.py` 391-427).

Read off the definitions while modelling, without a run of their own. *Tiering, tier and prefix cache:*

* The job ids that the tiering manager wants flushed (connector 2238-2240) come from a counter of its own and are merged with the connector's: a flush
  may wait for an unrelated transfer, and not for the wedged one.
* With several groups in one lookup, the promotion for one chunk may evict a block that the same lookup reported as HIT.
* ARC's `evict` returns None although enough idle blocks exist (152); `base.py` 76-78 reserves None for when evictions cannot be satisfied.
* A store whose deficit exceeds the cap per call is refused on every retry (manager 306).
* With two unlike full-attention specs and a windowed one, the hit may shrink after full attention was looked up; only the first entry is cut to it
  (coordinator 832-842), and the other hands over blocks beyond the hit. The inputs of `algorithms` have the case, and `HitsAreRight` excepts exactly that (`KeepsMore`).

*Connector and engine:*

* While a load from before a `reset_cache` still runs, a store of the next step may be given the slot it reads: an aborted request's chunk is stored, and its GPU block
  is handed out in the same step, so that the store is flushed (2193-2197) together with the load. A flushed store is submitted at once and both are
  then waited for; if the worker's connector, which is not in the repository, submits before it waits, as modelled, the two streams meet, though
  `gpu_worker.py` 1363-1364 says that memory read by a load is never written by a concurrent stream. It takes three requests, one more than the runs have.
* A second `reset_cache` between the same two steps fails the assertion that no step is under way (2473-2476).
* After `reset_prefix_cache(reset_running_requests=True)` a preempted request may be admitted for a load in the step that still reports it as
  preempted; the assertion at 2217 fails.
* The pending chunk of one windowed group defers a request that has no hit anyway; a mamba group whose chunk is larger than the others' may end a hit inside it.

*Ladder:*

* With a refusal window every escape holds a claim, and at the wall the claim re-anchors the clock: the
  wall does not bound an escape on a frozen boundary (comment at connector 749-751).
  `EscapeEndsOnProgress` states what holds instead.
* While a claim is held nothing is looked up, so a different claim does not flow through (410-411).
* A lookup that returns None reaches the branch that resets the ladder (1567-1574 says it never does).
* The branch "ESC-CLAIM blockout" (1531-1566) is unreachable, since a claim is held only in escape
  mode (proved: `LadderConsistent`).

*Worker, region, graphs:*

* A transfer that raised is in no queue, and shutdown does not wait for what it enqueued, though `gpu_worker.py` 1470 says that the region is released after both directions
  stopped; `RegionOutlivesTransfers` excepts it.
* Opening the huge-page file in a directory that does not exist raises
  instead of falling back; a creator whose `mmap` raises leaves its file.
* The graph manager runs a mixed batch without a graph when its bucket has only graphs of the swept uniform batches; the dispatcher's tables assume capture
  sizes that are multiples of the uniform query length.
