--------------------------- MODULE OffloadConnector ---------------------------
(***************************************************************************)
(* The scheduler side of the offloading connector                          *)
(* (kv_connector/v1/offloading/scheduler.py) as operations over its own    *)
(* state and the CPU tier's manager.  OffloadEngine drives them.           *)
(*                                                                         *)
(* A key is one chunk, a chunk one GPU block, and there is one KV-cache    *)
(* group, with full attention or a window.  transfer_jobs of a request and *)
(* _chunks_being_loaded are derived from _jobs: the code changes the three *)
(* together.                                                               *)
(***************************************************************************)
EXTENDS CpuManager

CONSTANTS
    Req,                \* requests
    KeysOf,             \* the keys of a request's chunks, for all its tokens
    NoKey,              \* the hash of a block that has none
    TokensPerChunk,     \* tokens_per_chunk
    Window,             \* sliding_window_size_in_chunks, 0 for full attention
    MirrorLocal,        \* VLLM_KV_OFFLOAD_MIRROR_LOCAL
    NumGpuBlocks,       \* blocks of the GPU pool, numbered from 1; 0 is null
    Worker              \* workers that each report every transfer

ASSUME ConnectorAssumption ==
    /\ KeysOf \in [Req -> Seq(Key)]
    /\ NoKey \notin Key
    /\ TokensPerChunk \in Nat \ {0}
    /\ Window \in Nat
    /\ MirrorLocal \in BOOLEAN
    /\ NumGpuBlocks \in Nat
    /\ IsFiniteSet(Worker)

GpuBlock == 1 .. NumGpuBlocks

VARIABLES
    \* Request, as the core scheduler keeps it
    status,             \* status
    computed,           \* num_computed_tokens
    tokens,             \* num_tokens
    \* SchedulerOutput of the step
    batch,              \* num_scheduled_tokens
    newIds,             \* block ids the step adds to a request
    finishedIds,        \* finished_req_ids
    preemptedIds,       \* preempted_req_ids
    \* OffloadingConnectorScheduler
    tracked,            \* keys of _req_status
    signaled,           \* finished_signaled
    blockIds,           \* block_ids
    stored,             \* next_stored_chunk_idx
    jobs,               \* _jobs
    pendingOf,          \* _block_id_to_pending_jobs
    toFlush,            \* _current_batch_jobs_to_flush
    batchAlloc,         \* _current_batch_allocated_block_ids
    jobCounter,         \* _job_counter
    staleBelow,         \* _stale_job_threshold
    \* OffloadingConnectorMetadata: the transfers handed to the worker
    transfers

reqVars == <<status, computed, tokens>>
outVars == <<batch, newIds, finishedIds, preemptedIds>>
trackVars == <<tracked, signaled>>
jobVars == <<jobs, jobCounter, transfers>>
fenceVars == <<pendingOf, toFlush, batchAlloc>>
connVars == <<trackVars, blockIds, stored, jobVars, fenceVars, staleBelow>>

Smaller(a, b) == IF a <= b THEN a ELSE b
Larger(a, b) == IF a >= b THEN a ELSE b
NonNull(ids) == Range(ids) \ {0}

Finished(r) == status[r] \in {"finished", "aborted"}
TransferJobs(r) == {j \in DOMAIN jobs : jobs[j].req = r}
ChunksBeingLoaded ==
    UNION {jobs[j].keys : j \in {i \in DOMAIN jobs : ~jobs[i].is_store}}

\* update_offload_keys: the chunks whose hashes are known.
NumKeys(r) == tokens[r] \div TokensPerChunk
ChunksFor(n) == (n + TokensPerChunk - 1) \div TokensPerChunk

-----------------------------------------------------------------------------
(***************************************************************************)
(* Lookup.                                                                 *)
(***************************************************************************)
Lookup(k) == IF k \notin Cached THEN "MISS"
             ELSE IF Ready(k) THEN "HIT" ELSE "HIT_PENDING"

Found(ks, i) == Lookup(ks[i]) # "MISS"
Deferred == -1                       \* None: ask again later

\* _maximal_prefix_lookup: the hits before the first miss.
PrefixLookup(ks) ==
    LET run == {i \in DOMAIN ks : \A h \in 1 .. i : Found(ks, h)}
    IN  IF \E i \in run : Lookup(ks[i]) = "HIT_PENDING"
        THEN Deferred ELSE Cardinality(run)

\* _sliding_window_lookup: the end of the last run of Window hits, or the run
\* at the very start; a pending hit anywhere in the keys scanned defers.
SuffixLookup(ks) ==
    LET ends == {e \in Window .. Len(ks) :
                    \A i \in e - Window + 1 .. e : Found(ks, i)}
        last == IF ends = {} THEN 0 ELSE CHOOSE e \in ends : \A d \in ends : d <= e
        scanned == (IF ends = {} THEN 1 ELSE last - Window + 1) .. Len(ks)
    IN  IF \E i \in scanned : Lookup(ks[i]) = "HIT_PENDING" THEN Deferred
        ELSE IF ends # {} THEN last
        ELSE Cardinality({i \in DOMAIN ks : \A h \in 1 .. i : Found(ks, h)})

\* The last chunk's token is computed anyway when a window is used.
MaxHit(r) ==
    Smaller(IF Window = 0 THEN tokens[r] ELSE tokens[r] - 1,
            NumKeys(r) * TokensPerChunk)

\* The chunks a hit would load.
Loadable(r, local, hit) ==
    LET from == local \div TokensPerChunk
        ks == SubSeq(KeysOf[r], from + 1, ChunksFor(local + hit))
    IN  IF Window = 0 THEN Range(ks)
        ELSE {ks[i] : i \in Larger(1, Len(ks) - Window + 1) .. Len(ks)}

\* _lookup_complete_chunks: the tokens that can be loaded beyond the local
\* ones, or Deferred.
CompleteHit(r, local) ==
    LET from == local \div TokensPerChunk
        ks == SubSeq(KeysOf[r], from + 1, ChunksFor(MaxHit(r)))
        hits == IF Window = 0 THEN PrefixLookup(ks) ELSE SuffixLookup(ks)
        hit == Smaller(MaxHit(r), (from + hits) * TokensPerChunk) - local
    IN  IF MaxHit(r) - local < TokensPerChunk \/ hits = 0 THEN 0
        ELSE IF hits = Deferred THEN Deferred
        ELSE IF hit < TokensPerChunk THEN 0
        ELSE IF Loadable(r, local, hit) \cap ChunksBeingLoaded # {} THEN Deferred
        ELSE hit

\* get_num_new_matched_tokens: what it may answer.  The stale-hit ladder
\* (StaleHitLadder) may answer 0 for any hit.
Answers(r, local) ==
    IF TransferJobs(r) # {} THEN {Deferred}
    ELSE LET hit == CompleteHit(r, local) IN IF hit > 0 THEN {0, hit} ELSE {hit}

-----------------------------------------------------------------------------
(***************************************************************************)
(* Jobs.                                                                   *)
(***************************************************************************)
\* A dict with an entry of its own for x.
With(dict, x, entry) ==
    [i \in DOMAIN dict \cup {x} |-> IF i = x THEN entry ELSE dict[i]]

\* _generate_job_id, TransferJobStatus and the TransferJob for the worker:
\* pairs are <<GPU block, CPU slot>>.
NewJob(r, isStore, K, pairs, fenced, deferred) ==
    /\ jobs' = With(jobs, jobCounter,
          [req |-> r, pending |-> Cardinality(Worker), keys |-> K,
           is_store |-> isStore, fenced |-> fenced, deferred |-> deferred])
    /\ transfers' = With(transfers, jobCounter,
          [req |-> r, is_store |-> isStore, pairs |-> pairs, at |-> "built",
           left |-> Worker, done |-> {}])
    /\ jobCounter' = jobCounter + 1

\* _block_id_to_pending_jobs with job j watching the blocks B, and without.
Watched(j, B) == [b \in GpuBlock |-> pendingOf[b] \cup IF b \in B THEN {j} ELSE {}]

Unwatched(j, B) == [b \in GpuBlock |-> pendingOf[b] \ IF b \in B THEN {j} ELSE {}]

-----------------------------------------------------------------------------
(***************************************************************************)
(* Handlers.                                                               *)
(***************************************************************************)
\* Mutant: the first block that is not hashed is taken for a computed one.
PendingBlocksShort(blks, isHashed) ==
    {i \in DOMAIN blks : \E f \in 1 .. i - 1 : blks[f] # 0 /\ ~isHashed[blks[f]]}

PendingBlocks(blks, isHashed) ==
    {i \in DOMAIN blks : \E f \in 1 .. i : blks[f] # 0 /\ ~isHashed[blks[f]]}

\* update_state_after_alloc for a hit: load the chunks of the blocks, given
\* as a sequence, that are not hashed yet; the request's chunks count as
\* stored up to there.
UpdateStateAfterAlloc(r, blks, isHashed) ==
    LET pending == PendingBlocks(blks, isHashed)
        K == {KeysOf[r][i] : i \in pending}
    IN  /\ PrepareLoad(K)
        /\ NewJob(r, FALSE, K,
                  {<<blks[i], blocks[KeysOf[r][i]].block_id>> : i \in pending},
                  {}, {})
        /\ stored' = [stored EXCEPT ![r] = Len(blks)]
        /\ blockIds' = [blockIds EXCEPT ![r] = <<>>]
        /\ batchAlloc' = batchAlloc \cup NonNull(blks)
        /\ UNCHANGED <<trackVars, pendingOf, toFlush, staleBelow>>

Allocated == batchAlloc \cup UNION {NonNull(newIds[r]) : r \in Req}

\* _update_req_states: ids of windowed chunks whose blocks were freed and
\* handed out again in this step are zeroed, from the next chunk to store on.
StillValid(r) ==
    [i \in DOMAIN (blockIds[r] \o newIds[r]) |->
        IF /\ Window > 0
           /\ i \in stored[r] + 1 .. Len(blockIds[r])
           /\ blockIds[r][i] \in Allocated
        THEN 0 ELSE (blockIds[r] \o newIds[r])[i]]

\* Mutant: the stores of preempted requests are not flushed.
PreemptedJobsNone == {}

PreemptedJobs == UNION {TransferJobs(r) : r \in preemptedIds \cap tracked}

\* What it asserts of them.
ConnectorMetaAsserts ==
    \A r \in preemptedIds \cap tracked :
        \A j \in TransferJobs(r) : jobs[j].is_store

\* build_connector_meta up to the stores: the step's blocks are taken over;
\* stores of preempted requests and of blocks handed out again are flushed.
StartConnectorMeta ==
    /\ blockIds' = [r \in Req |-> IF r \in tracked THEN StillValid(r) ELSE blockIds[r]]
    /\ batchAlloc' = Allocated
    /\ toFlush' = toFlush \cup PreemptedJobs
          \cup UNION {pendingOf[b] : b \in Allocated}
    /\ UNCHANGED <<mgrVars, trackVars, stored, jobVars, pendingOf, staleBelow>>

\* One round of _build_store_jobs.
TokensAfterBatch(r) ==
    IF status[r] = "aborted" THEN computed[r]
    ELSE IF Finished(r) THEN tokens[r] ELSE computed[r] + batch[r]

StorableChunks(r) ==
    Smaller(Smaller(TokensAfterBatch(r), tokens[r]) \div TokensPerChunk,
            Len(blockIds[r]))

FirstOffered(r) == IF MirrorLocal THEN 1 ELSE stored[r] + 1

\* Chunks below the stored index are offered again unless the tier has them.
Offered(r) ==
    {i \in FirstOffered(r) .. StorableChunks(r) :
        blockIds[r][i] # 0 /\ (i <= stored[r] => Lookup(KeysOf[r][i]) = "MISS")}

AdvanceStored(r) ==
    stored' = [stored EXCEPT ![r] = Larger(@, StorableChunks(r))]

NothingToStore(r) ==
    /\ New({KeysOf[r][i] : i \in Offered(r)}) = {}
    /\ AdvanceStored(r)
    /\ UNCHANGED <<mgrVars, trackVars, blockIds, jobVars, fenceVars, staleBelow>>

\* prepare_store returned None: try again next time.
StoreRefused(r) ==
    LET K == {KeysOf[r][i] : i \in Offered(r)}
    IN  /\ New(K) # {}
        /\ Deficit(K) > 0
        /\ UNCHANGED <<mgrVars, connVars>>

\* Blocks of a window may be freed before the request finishes.
WatchedAtOnce(source) == IF Window > 0 THEN source ELSE {}

StoreAccepted(r) ==
    LET K == {KeysOf[r][i] : i \in Offered(r)}
        chunks == {i \in FirstOffered(r) .. StorableChunks(r) : KeysOf[r][i] \in New(K)}
        source == {blockIds[r][i] : i \in chunks} \ {0}
        fenced == WatchedAtOnce(source)
        deferred == source \ fenced
        watched == fenced \cup IF Finished(r) THEN deferred ELSE {}
        reused == Finished(r) /\ deferred \cap batchAlloc # {}
    IN  \E es \in EvictionsFor(K) :
        \E slot \in Injection(New(K), Fresh(Cardinality(New(K)))
                                        \cup freeList \cup SlotsOf(Range(es))) :
            /\ PrepareStore(K, es, slot)
            /\ NewJob(r, TRUE, New(K),
                      {<<blockIds[r][i], slot[KeysOf[r][i]]>> :
                          i \in {c \in chunks : blockIds[r][c] # 0}},
                      fenced, deferred)
            /\ AdvanceStored(r)
            /\ pendingOf' = Watched(jobCounter, watched)
            /\ toFlush' = toFlush \cup IF reused THEN {jobCounter} ELSE {}
            /\ UNCHANGED <<trackVars, blockIds, batchAlloc, staleBelow>>

BuildStoreJob(r) == NothingToStore(r) \/ StoreRefused(r) \/ StoreAccepted(r)

\* build_connector_meta after the stores: finished requests without transfers
\* are forgotten, the batch state is handed over.
FinishConnectorMeta ==
    LET ended == finishedIds \cap tracked
    IN  /\ signaled' = signaled \cup ended
        /\ tracked' = tracked \ {r \in ended : TransferJobs(r) = {}}
        /\ toFlush' = {}
        /\ batchAlloc' = {}
        /\ UNCHANGED <<mgrVars, blockIds, stored, jobVars, pendingOf, staleBelow>>

\* Mutant: the blocks are not watched.
RequestsFinishedUnwatched(R) == UNCHANGED pendingOf

\* request_finished of the requests R: their blocks are about to be freed;
\* watch the full-attention ones that stores still read.
RequestsFinished(R) ==
    pendingOf' = [b \in GpuBlock |-> pendingOf[b] \cup
        UNION {{j \in TransferJobs(r) : b \in jobs[j].deferred} : r \in R \cap tracked}]

\* Mutant: reports from before a reset count.
JobStaleNever(j) == FALSE

JobStale(j) == j < staleBelow

\* Mutant: the first report completes the job.
AllReportedAtFirst(j, count) == TRUE

AllReported(j, count) == jobs[j].pending = count

JobsAfter(j, count) ==
    IF AllReported(j, count) THEN Restrict(jobs, DOMAIN jobs \ {j})
    ELSE [jobs EXCEPT ![j].pending = @ - count]

WatchedBy(j) ==
    jobs[j].fenced \cup IF Finished(jobs[j].req) THEN jobs[j].deferred ELSE {}

LastOf(r, j) == r \in signaled /\ TransferJobs(r) = {j}

\* update_connector_output for one completed job; count workers reported it.
CompleteJob(j, count) ==
    LET r == jobs[j].req
        over == AllReported(j, count)
    IN  IF JobStale(j) THEN UNCHANGED <<mgrVars, connVars>>
        ELSE /\ IF ~over THEN UNCHANGED mgrVars
                ELSE IF jobs[j].is_store THEN StoreSucceeds(jobs[j].keys)
                ELSE CompleteLoad(jobs[j].keys)
             /\ jobs' = JobsAfter(j, count)
             /\ pendingOf' = IF over THEN Unwatched(j, WatchedBy(j)) ELSE pendingOf
             /\ tracked' = IF over /\ LastOf(r, j) THEN tracked \ {r} ELSE tracked
             /\ UNCHANGED <<signaled, blockIds, stored, jobCounter, transfers,
                            toFlush, batchAlloc, staleBelow>>

\* reset_cache.
ResetConnectorAsserts ==
    /\ \A j \in DOMAIN transfers : transfers[j].at = "built" => transfers[j].is_store
    /\ toFlush = {}
    /\ batchAlloc = {}

JobsToOutlive == DOMAIN jobs

ResetConnector ==
    /\ ResetConnectorAsserts
    /\ ResetCache
    /\ toFlush' = JobsToOutlive
    /\ tracked' = {r \in tracked : ~Finished(r)}
    /\ stored' = [r \in Req |-> IF r \in tracked' THEN 0 ELSE stored[r]]
    /\ staleBelow' = jobCounter
    /\ jobs' = <<>>
    /\ pendingOf' = [b \in GpuBlock |-> {}]
    /\ UNCHANGED <<signaled, blockIds, jobCounter, transfers, batchAlloc>>

\* Mutant: transfers do not keep the engine stepping.
HasPendingPushWorkNever == FALSE

\* has_pending_push_work, for a manager without work of its own.
HasPendingPushWork == DOMAIN jobs # {}

ConnectorInit ==
    /\ tracked = Req
    /\ signaled = {}
    /\ blockIds = [r \in Req |-> <<>>]
    /\ stored = [r \in Req |-> 0]
    /\ jobs = <<>>
    /\ transfers = <<>>
    /\ jobCounter = 0
    /\ staleBelow = 0
    /\ pendingOf = [b \in GpuBlock |-> {}]
    /\ toFlush = {}
    /\ batchAlloc = {}
=============================================================================
