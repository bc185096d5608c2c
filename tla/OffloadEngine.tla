---------------------------- MODULE OffloadEngine -----------------------------
(***************************************************************************)
(* The offloading connector at work: the core scheduler above it           *)
(* (v1/core/sched/scheduler.py), the CPU tier's manager below, and the     *)
(* worker that copies blocks between GPU and CPU while the model runs.     *)
(*                                                                         *)
(* One engine step runs through the phases                                 *)
(*   "schedule"  the core scheduler picks requests; loads are prepared     *)
(*   "stores"    build_connector_meta prepares stores, request by request  *)
(*   "submit"    the worker submits deferred stores                        *)
(*   "forward"   it waits for the jobs to flush, starts loads, computes    *)
(*   "update"    the core scheduler reads the sampled tokens               *)
(*   "outputs"   update_connector_output, job by job                       *)
(* Requests are aborted and caches reset between two steps.                *)
(*                                                                         *)
(* Memory has content: a GPU block and a CPU slot hold [key, filled], the  *)
(* chunk whose KV is in it and how many of its tokens are.                 *)
(***************************************************************************)
EXTENDS OffloadConnector

CONSTANTS
    PromptTokens,       \* num_prompt_tokens of each request
    MaxTokens,          \* bound: num_tokens at which a request stops
    LocalHits,          \* is the GPU prefix cache consulted?
    Lead,               \* the worker whose memory is modelled
    MaxPreemptions,     \* bound: preemptions for want of blocks
    MaxResets,          \* bound: cache resets
    ResetKinds          \* what cache resets are made: see Reset

ASSUME EngineAssumption ==
    /\ Lead \in Worker
    /\ MaxTokens \in Nat
    /\ PromptTokens \in [Req -> 1 .. MaxTokens - 1]
    /\ Window > 0 => ~LocalHits
    /\ ResetKinds \subseteq {"connector", "local", "raises"}

VARIABLES
    phase,
    table,              \* the request's blocks; 0 once out of the window
    cachedKey,          \* block_hash of each GPU block
    seen,               \* requests the step has dealt with
    received,           \* finished_recving_kv_req_ids
    preemptions, resets,
    todo,               \* requests _build_store_jobs has yet to visit
    waitFor,            \* jobs_to_flush of the step's metadata
    outs,               \* completed_jobs the workers reported
    gpu, ram            \* content of GPU blocks and CPU slots

coreVars == <<table, cachedKey, seen, received, preemptions, resets>>
memVars == <<gpu, ram>>
vars == <<mgrVars, reqVars, outVars, connVars, phase, coreVars, todo, waitFor,
          outs, memVars>>

Nothing == [key |-> NoKey, filled |-> 0]

-----------------------------------------------------------------------------
(***************************************************************************)
(* Blocks of the GPU pool.                                                 *)
(***************************************************************************)
FreeBlocks == GpuBlock \ UNION {Range(table[r]) : r \in Req}

\* Chunks that are out of the window once c tokens are computed.
Skipped(c) ==
    IF Window = 0 THEN 0
    ELSE Larger(0, c - Window * TokensPerChunk) \div TokensPerChunk

Slide(ids, c) == [i \in DOMAIN ids |-> IF i <= Skipped(c) THEN 0 ELSE ids[i]]

\* The local prefix-cache hit, as blocks.
IsLocal(r, i) == \E b \in GpuBlock : cachedKey[b] = KeysOf[r][i]
LocalBlocks(r) ==
    LET hit == {n \in 1 .. (tokens[r] - 1) \div TokensPerChunk :
                   LocalHits /\ \A i \in 1 .. n : IsLocal(r, i)}
    IN  [i \in 1 .. Cardinality(hit) |->
            CHOOSE b \in GpuBlock : cachedKey[b] = KeysOf[r][i]]

\* allocate_slots: the block lists that extend ids, of which c tokens are
\* computed, to n chunks; what slid out of the window is freed first and no
\* block is allocated for chunks outside of it.
Extensions(ids, c, n) ==
    LET kept == Slide(ids, c)
        fresh == {i \in Len(ids) + 1 .. n : i > Skipped(c)}
        free == FreeBlocks \cup (NonNull(ids) \ NonNull(kept))
    IN  {[i \in 1 .. n |-> IF i \in fresh THEN new[i]
                           ELSE IF i <= Len(ids) THEN kept[i] ELSE 0]
            : new \in Injection(fresh, free \ Range(kept))}

\* A block handed out again loses its hash.
HashesAfter(old, ids) ==
    [b \in GpuBlock |-> IF b \in NonNull(ids) \ Range(old) THEN NoKey
                        ELSE cachedKey[b]]

-----------------------------------------------------------------------------
(***************************************************************************)
(* Scheduling.                                                             *)
(***************************************************************************)
Scheduling(r) == phase = "schedule" /\ r \notin seen

\* Waiting requests have their turn unless the step preempted one.
Turn(r) == Scheduling(r) /\ \A v \in seen : status[v] # "waiting"
Waiting(r) == Turn(r) /\ status[r] = "waiting"

\* Request r runs n more tokens after c computed ones, on the blocks ids of
\* which the step's output reports those from position from on.
Run(r, c, n, ids, from) ==
    /\ status' = [status EXCEPT ![r] = "running"]
    /\ computed' = [computed EXCEPT ![r] = c]
    /\ table' = [table EXCEPT ![r] = ids]
    /\ batch' = [batch EXCEPT ![r] = n]
    /\ newIds' = [newIds EXCEPT ![r] = SubSeq(ids, from, Len(ids))]
    /\ seen' = seen \cup {r}
    /\ UNCHANGED <<tokens, finishedIds, preemptedIds, phase, preemptions,
                   resets, todo, waitFor, outs, memVars>>

ScheduleRunning(r, n) ==
    /\ Scheduling(r)
    /\ status[r] = "running"
    /\ n \in 1 .. tokens[r] - computed[r]
    /\ \E ids \in Extensions(table[r], computed[r],
                             Larger(Len(table[r]), ChunksFor(computed[r] + n))) :
          /\ Run(r, computed[r], n, ids, Len(table[r]) + 1)
          /\ cachedKey' = HashesAfter(table[r], ids)
    /\ UNCHANGED <<mgrVars, connVars, received>>

\* Asked again later, or refused by the allocator: only the block ids go.
QueryOnly(r) ==
    /\ Waiting(r)
    /\ blockIds[r] # <<>>
    /\ blockIds' = [blockIds EXCEPT ![r] = <<>>]
    /\ UNCHANGED <<mgrVars, reqVars, outVars, trackVars, stored, jobVars,
                   fenceVars, staleBelow, phase, coreVars, todo, waitFor, outs,
                   memVars>>

\* A waiting request that loads nothing.
AdmitRun(r, n) ==
    LET local == LocalBlocks(r)
        c == Len(local) * TokensPerChunk
    IN  /\ Waiting(r)
        /\ 0 \in Answers(r, c)
        /\ n \in 1 .. tokens[r] - c
        /\ \E ids \in Extensions(local, c, ChunksFor(c + n)) :
              /\ Run(r, c, n, ids, 1)
              /\ cachedKey' = HashesAfter(local, ids)
        /\ blockIds' = [blockIds EXCEPT ![r] = <<>>]
        /\ UNCHANGED <<mgrVars, trackVars, stored, jobVars, fenceVars,
                       staleBelow, received>>

\* A waiting request whose hit is loaded first.
AdmitLoad(r) ==
    LET local == LocalBlocks(r)
        c == Len(local) * TokensPerChunk
    IN  /\ Waiting(r)
        /\ \E hit \in Answers(r, c) \ {0, Deferred} :
           \E ids \in Extensions(local, c + hit, ChunksFor(c + hit)) :
              /\ UpdateStateAfterAlloc(r, ids,
                    [b \in GpuBlock |-> b \in Range(local)])
              /\ table' = [table EXCEPT ![r] = ids]
              /\ cachedKey' = HashesAfter(local, ids)
              /\ computed' = [computed EXCEPT ![r] = c + hit]
        /\ status' = [status EXCEPT ![r] = "remote"]
        /\ seen' = seen \cup {r}
        /\ UNCHANGED <<tokens, outVars, phase, received, preemptions, resets,
                       todo, waitFor, outs, memVars>>

\* _update_waiting_for_remote_kv: the load arrived, its blocks are hashed, and
\* the last token of a full hit is to be computed again.
Promote(r) ==
    LET hashed == {i \in 1 .. computed[r] \div TokensPerChunk : table[r][i] # 0}
        index(b) == CHOOSE i \in hashed : table[r][i] = b
    IN  /\ Turn(r)
        /\ status[r] = "remote"
        /\ r \in received
        /\ status' = [status EXCEPT ![r] = "loaded"]
        /\ computed' = [computed EXCEPT ![r] = Smaller(@, tokens[r] - 1)]
        /\ cachedKey' = [b \in GpuBlock |->
              IF \E i \in hashed : table[r][i] = b THEN KeysOf[r][index(b)]
              ELSE cachedKey[b]]
        /\ received' = received \ {r}
        /\ UNCHANGED <<mgrVars, connVars, tokens, outVars, phase, table, seen,
                       preemptions, resets, todo, waitFor, outs, memVars>>

\* A promoted request goes on with what was loaded.
AdmitLoaded(r, n) ==
    /\ Turn(r)
    /\ status[r] = "loaded"
    /\ n \in 1 .. tokens[r] - computed[r]
    /\ \E ids \in Extensions(table[r], computed[r],
                             Larger(Len(table[r]), ChunksFor(computed[r] + n))) :
          /\ Run(r, computed[r], n, ids, 1)
          /\ cachedKey' = HashesAfter(table[r], ids)
    /\ UNCHANGED <<mgrVars, connVars, received>>

\* _preempt_request: running request v gives up its blocks because r needs one.
Preempt(v) ==
    /\ Scheduling(v)
    /\ preemptions < MaxPreemptions
    /\ status[v] = "running"
    /\ \E r \in Req : /\ Scheduling(r)
                      /\ status[r] = "running"
                      /\ Extensions(table[r], computed[r],
                            ChunksFor(computed[r] + 1)) = {}
    /\ preemptions' = preemptions + 1
    /\ status' = [status EXCEPT ![v] = "waiting"]
    /\ computed' = [computed EXCEPT ![v] = 0]
    /\ table' = [table EXCEPT ![v] = <<>>]
    /\ preemptedIds' = preemptedIds \cup {v}
    /\ seen' = seen \cup {v}
    /\ UNCHANGED <<mgrVars, connVars, tokens, batch, newIds, finishedIds, phase,
                   cachedKey, received, resets, todo, waitFor, outs, memVars>>

-----------------------------------------------------------------------------
(***************************************************************************)
(* The rest of a step.                                                     *)
(***************************************************************************)
\* The engine steps while has_requests says so: something is unfinished, ended
\* requests are yet to be told of or hold blocks, or transfers are pending.
HasRequests ==
    \/ \E r \in Req : ~Finished(r) \/ table[r] # <<>>
    \/ finishedIds # {}
    \/ HasPendingPushWork

BuildConnectorMeta ==
    /\ phase = "schedule"
    /\ HasRequests
    /\ ConnectorMetaAsserts
    /\ StartConnectorMeta
    /\ todo' = {r \in tracked : batch[r] > 0 \/ r \in finishedIds}
    /\ phase' = "stores"
    /\ UNCHANGED <<reqVars, outVars, coreVars, waitFor, outs, memVars>>

\* Scheduled requests come before finished ones.
BuildStore(r) ==
    /\ phase = "stores"
    /\ r \in todo
    /\ (\E s \in todo : batch[s] > 0) => batch[r] > 0
    /\ BuildStoreJob(r)
    /\ todo' = todo \ {r}
    /\ UNCHANGED <<reqVars, outVars, phase, coreVars, waitFor, outs, memVars>>

\* The metadata goes to the worker and _update_after_schedule counts the
\* scheduled tokens as computed.
HandOver ==
    /\ phase = "stores"
    /\ todo = {}
    /\ FinishConnectorMeta
    /\ waitFor' = toFlush
    /\ computed' = [r \in Req |-> computed[r] + batch[r]]
    /\ finishedIds' = {}
    /\ preemptedIds' = {}
    /\ newIds' = [r \in Req |-> <<>>]
    /\ phase' = "submit"
    /\ UNCHANGED <<status, tokens, batch, coreVars, todo, outs, memVars>>

\* The worker submits the stores deferred by the last step, and at once those
\* of this step that are to be flushed; the others are deferred.
SubmitStores ==
    /\ phase = "submit"
    /\ transfers' = [j \in DOMAIN transfers |->
          IF ~transfers[j].is_store THEN transfers[j]
          ELSE IF transfers[j].at = "queued" \/ j \in waitFor
               THEN [transfers[j] EXCEPT !.at = "running"]
          ELSE IF transfers[j].at = "built"
               THEN [transfers[j] EXCEPT !.at = "queued"] ELSE transfers[j]]
    /\ phase' = "forward"
    /\ UNCHANGED <<mgrVars, reqVars, outVars, trackVars, blockIds, stored, jobs,
                   jobCounter, fenceVars, staleBelow, coreVars, todo, waitFor,
                   outs, memVars>>

\* Transfers of one direction run one after the other, in the order they were
\* submitted.  That is the order of their ids: a store submitted before an
\* older one is waited for in the same step.
IsNext(j, w) ==
    \A i \in DOMAIN transfers :
        /\ i < j
        /\ transfers[i].is_store = transfers[j].is_store
        /\ transfers[i].at = "running"
        => w \notin transfers[i].left

\* Worker w copies the blocks of transfer j.  A copy touches nothing the other
\* phases read, so it is placed where it can matter.
CopyBlocks(j, w) ==
    /\ phase \in {"forward", "update"}
    /\ transfers[j].at = "running"
    /\ w \in transfers[j].left
    /\ IsNext(j, w)
    /\ transfers' = [transfers EXCEPT ![j].left = @ \ {w}, ![j].done = @ \cup {w}]
    /\ LET pairs == IF w = Lead THEN transfers[j].pairs ELSE {}
           source(s) == (CHOOSE p \in pairs : p[2] = s)[1]
           origin(b) == (CHOOSE p \in pairs : p[1] = b)[2]
       IN  IF transfers[j].is_store
           THEN /\ ram' = [s \in Slot |-> IF \E p \in pairs : p[2] = s
                                         THEN gpu[source(s)] ELSE ram[s]]
                /\ UNCHANGED gpu
           ELSE /\ gpu' = [b \in GpuBlock |-> IF \E p \in pairs : p[1] = b
                                             THEN ram[origin(b)] ELSE gpu[b]]
                /\ UNCHANGED ram
    /\ UNCHANGED <<mgrVars, reqVars, outVars, trackVars, blockIds, stored, jobs,
                   jobCounter, fenceVars, staleBelow, phase, coreVars, todo,
                   waitFor, outs>>

\* The chunks a scheduled request writes, and those it only reads.
Start(r) == computed[r] - batch[r]
WrittenChunks(r) ==
    IF batch[r] = 0 THEN {}
    ELSE Start(r) \div TokensPerChunk + 1 .. ChunksFor(computed[r])
ReadChunks(r) == {i \in 1 .. ChunksFor(Start(r)) : table[r][i] # 0}

\* Chunk i of request r once c tokens are computed.
ChunkOf(r, i, c) ==
    [key |-> KeysOf[r][i],
     filled |-> Smaller(TokensPerChunk, c - (i - 1) * TokensPerChunk)]

HasItsKey(r, i) == gpu[table[r][i]].key = KeysOf[r][i]
HasItsTokens(r, i) == gpu[table[r][i]].filled >= ChunkOf(r, i, Start(r)).filled
ReadsItsOwn(r) == \A i \in ReadChunks(r) : HasItsKey(r, i) /\ HasItsTokens(r, i)

Flushed == \A j \in waitFor \cap DOMAIN transfers : transfers[j].left = {}

ForwardWrites == UNION {{table[r][i] : i \in WrittenChunks(r)} : r \in Req}
LoadsToStart == {j \in DOMAIN transfers :
                    transfers[j].at = "built" /\ ~transfers[j].is_store}

\* The worker waits for the flushed jobs, starts the loads and runs the model:
\* KV computed from wrong KV is wrong.  Whole chunks get their hash.
Forward ==
    LET owner(b) == CHOOSE r \in Req : \E i \in WrittenChunks(r) : table[r][i] = b
        index(b) == CHOOSE i \in WrittenChunks(owner(b)) : table[owner(b)][i] = b
        chunk(b) == ChunkOf(owner(b), index(b), computed[owner(b)])
    IN  /\ phase = "forward"
        /\ Flushed
        /\ gpu' = [b \in GpuBlock |->
              IF b \notin ForwardWrites THEN gpu[b]
              ELSE IF ReadsItsOwn(owner(b)) THEN chunk(b) ELSE Nothing]
        /\ cachedKey' = [b \in GpuBlock |->
              IF b \in ForwardWrites /\ chunk(b).filled = TokensPerChunk
              THEN chunk(b).key ELSE cachedKey[b]]
        /\ transfers' = [j \in DOMAIN transfers |->
              IF j \in LoadsToStart THEN [transfers[j] EXCEPT !.at = "running"]
              ELSE transfers[j]]
        /\ waitFor' = {}
        /\ phase' = "update"
        /\ UNCHANGED <<mgrVars, reqVars, outVars, trackVars, blockIds, stored,
                       jobs, jobCounter, fenceVars, staleBelow, table, seen,
                       received, preemptions, resets, todo, outs, ram>>

\* update_from_output: requests whose known tokens are all computed sample
\* one; those of F stop.  The workers' reports are taken along.
UpdateFromOutput(F) ==
    LET sampled == {r \in Req : batch[r] > 0 /\ computed[r] = tokens[r]}
    IN  /\ phase = "update"
        /\ F \subseteq sampled
        /\ {r \in sampled : tokens[r] + 1 >= MaxTokens} \subseteq F
        /\ tokens' = [r \in Req |-> IF r \in sampled THEN tokens[r] + 1 ELSE tokens[r]]
        /\ status' = [r \in Req |-> IF r \in F THEN "finished" ELSE status[r]]
        /\ RequestsFinished(F)
        /\ table' = [r \in Req |-> IF r \in F THEN <<>> ELSE table[r]]
        /\ finishedIds' = F
        /\ batch' = [r \in Req |-> 0]
        /\ seen' = {}
        /\ outs' = [j \in {i \in DOMAIN transfers : transfers[i].done # {}} |->
                       Cardinality(transfers[j].done)]
        /\ transfers' = [j \in DOMAIN transfers |-> [transfers[j] EXCEPT !.done = {}]]
        /\ phase' = "outputs"
        /\ UNCHANGED <<mgrVars, computed, newIds, preemptedIds, trackVars,
                       blockIds, stored, jobs, jobCounter, toFlush, batchAlloc,
                       staleBelow, cachedKey, received, preemptions, resets,
                       todo, waitFor, memVars>>

UpdateConnectorOutput(j) ==
    /\ phase = "outputs"
    /\ j \in DOMAIN outs
    /\ CompleteJob(j, outs[j])
    /\ outs' = Restrict(outs, DOMAIN outs \ {j})
    /\ UNCHANGED <<reqVars, outVars, phase, coreVars, todo, waitFor, memVars>>

\* finished_recving: a request whose load every worker reported goes on, or
\* has its blocks freed if it ended meanwhile.  The events are taken.
Reported == {j \in DOMAIN transfers : transfers[j].left = {}}
FinishStep ==
    LET arrived == {transfers[j].req : j \in {i \in Reported : ~transfers[i].is_store}}
    IN  /\ phase = "outputs"
        /\ outs = <<>>
        /\ received' = received \cup {r \in arrived : status[r] = "remote"}
        /\ table' = [r \in Req |->
              IF r \in arrived /\ Finished(r) THEN <<>> ELSE table[r]]
        /\ transfers' = Restrict(transfers, DOMAIN transfers \ Reported)
        /\ events' = <<>>
        /\ phase' = "schedule"
        /\ UNCHANGED <<blocks, freeList, numAllocated, numEvictable,
                       numWritePending, tombstones, reqVars, outVars, trackVars,
                       blockIds, stored, jobs, jobCounter, fenceVars, staleBelow,
                       cachedKey, seen, preemptions, resets, todo, waitFor, outs,
                       memVars>>

-----------------------------------------------------------------------------
(***************************************************************************)
(* Between steps.                                                          *)
(***************************************************************************)
BetweenSteps == phase = "schedule" /\ seen = {}

\* finish_requests: blocks a load is still writing are kept until it arrived.
Abort(r) ==
    /\ BetweenSteps
    /\ ~Finished(r)
    /\ status' = [status EXCEPT ![r] = "aborted"]
    /\ RequestsFinished({r})
    /\ table' = [table EXCEPT ![r] =
          IF status[r] = "remote" /\ r \notin received THEN @ ELSE <<>>]
    /\ received' = received \ {r}
    /\ finishedIds' = finishedIds \cup {r}
    /\ UNCHANGED <<mgrVars, computed, tokens, batch, newIds, preemptedIds,
                   trackVars, blockIds, stored, jobVars, toFlush, batchAlloc,
                   staleBelow, phase, cachedKey, seen, preemptions, resets,
                   todo, waitFor, outs, memVars>>

\* reset_prefix_cache of the requests running, all of them or none: they are
\* preempted first.
Unseat(running) ==
    /\ BetweenSteps
    /\ resets < MaxResets
    /\ resets' = resets + 1
    /\ status' = [r \in Req |-> IF r \in running THEN "waiting" ELSE status[r]]
    /\ computed' = [r \in Req |-> IF r \in running THEN 0 ELSE computed[r]]
    /\ table' = [r \in Req |-> IF r \in running THEN <<>> ELSE table[r]]
    /\ preemptedIds' = preemptedIds \cup running
    /\ UNCHANGED <<tokens, batch, newIds, finishedIds, phase, seen, received,
                   preemptions, todo, waitFor, outs, memVars>>

Running == {r \in Req : status[r] = "running"}
InUse(running) == \E r \in Req \ running : table[r] # <<>>

\* The local cache is only emptied when no block is in use.
Emptied(running) ==
    cachedKey' = IF InUse(running) THEN cachedKey ELSE [b \in GpuBlock |-> NoKey]

\* ... the connector after it;
Reset(running) ==
    /\ "connector" \in ResetKinds
    /\ Unseat(running)
    /\ running # {} => ~InUse(running)
    /\ Emptied(running)
    /\ ResetConnector

\* ... not asked to reset the connector, or its assertions fail;
ResetLocal(running) ==
    /\ "local" \in ResetKinds
    /\ Unseat(running)
    /\ running # {} => ~InUse(running)
    /\ Emptied(running)
    /\ UNCHANGED <<mgrVars, connVars>>

\* ... requests were preempted, yet others hold blocks: it raises.
ResetRaises ==
    /\ "raises" \in ResetKinds
    /\ Unseat(Running)
    /\ InUse(Running)
    /\ UNCHANGED <<mgrVars, connVars, cachedKey>>

\* Nothing is left to do, or an assertion of build_connector_meta ended it.
Quiescent ==
    /\ phase = "schedule"
    /\ (BetweenSteps /\ ~HasRequests) \/ ~ConnectorMetaAsserts
    /\ UNCHANGED vars

Init ==
    /\ MgrInit
    /\ ConnectorInit
    /\ status = [r \in Req |-> "waiting"]
    /\ computed = [r \in Req |-> 0]
    /\ tokens = PromptTokens
    /\ batch = [r \in Req |-> 0]
    /\ newIds = [r \in Req |-> <<>>]
    /\ finishedIds = {} /\ preemptedIds = {}
    /\ phase = "schedule"
    /\ table = [r \in Req |-> <<>>]
    /\ cachedKey = [b \in GpuBlock |-> NoKey]
    /\ seen = {} /\ received = {}
    /\ preemptions = 0 /\ resets = 0
    /\ todo = {} /\ waitFor = {}
    /\ outs = <<>>
    /\ gpu = [b \in GpuBlock |-> Nothing]
    /\ ram = [s \in Slot |-> Nothing]

Step ==
    \/ BuildConnectorMeta
    \/ \E r \in Req : BuildStore(r)
    \/ HandOver
    \/ SubmitStores
    \/ Forward
    \/ \E F \in SUBSET Req : UpdateFromOutput(F)
    \/ \E j \in DOMAIN outs : UpdateConnectorOutput(j)
    \/ FinishStep

Copy == \E j \in DOMAIN transfers, w \in Worker : CopyBlocks(j, w)

Next ==
    \/ \E r \in Req, n \in 1 .. MaxTokens :
          ScheduleRunning(r, n) \/ AdmitRun(r, n) \/ AdmitLoaded(r, n)
    \/ \E r \in Req : QueryOnly(r) \/ AdmitLoad(r) \/ Promote(r) \/ Preempt(r)
                      \/ Abort(r)
    \/ Step
    \/ Copy
    \/ \E running \in {{}, Running} : Reset(running) \/ ResetLocal(running)
    \/ ResetRaises
    \/ Quiescent

Spec == Init /\ [][Next]_vars

\* The engine keeps stepping while has_requests, and copies end: they go on
\* all the time, and are only placed in some of the phases.
FairSpec == Spec /\ WF_vars(Step) /\ SF_vars(Copy)

-----------------------------------------------------------------------------
(***************************************************************************)
(* Properties.                                                             *)
(***************************************************************************)
JobIds == 0 .. jobCounter - 1

\* The types of the requests, the connector's tables and the transfers.
TypeOK ==
    /\ status \in [Req -> {"waiting", "remote", "loaded", "running",
                           "finished", "aborted"}]
    /\ computed \in [Req -> 0 .. MaxTokens]
    /\ tokens \in [Req -> 1 .. MaxTokens]
    /\ \A r \in Req : Range(table[r]) \cup Range(blockIds[r]) \subseteq GpuBlock \cup {0}
    /\ signaled \subseteq Req /\ tracked \subseteq Req
    /\ DOMAIN jobs \subseteq DOMAIN transfers \cup DOMAIN outs
    /\ DOMAIN transfers \cup toFlush \cup waitFor \subseteq JobIds
    /\ pendingOf \in [GpuBlock -> SUBSET JobIds]
    /\ outs \in [DOMAIN outs -> 1 .. Cardinality(Worker)]

\* What the tier advertises as stored under a key is KV of that key.
TierHoldsItsKeys ==
    \A k \in ReadyKeys : ram[blocks[k].block_id].key = k

\* A request computes on its own KV: whatever it was given by the local cache
\* or by a load, its computed tokens are in its blocks when the model runs.
RequestsReadTheirOwn ==
    phase = "forward" /\ Flushed => \A r \in Req : batch[r] > 0 => ReadsItsOwn(r)

\* The claims that mirroring under a window and the last token of a turn break,
\* as weakly as can be: either the tier holds its keys, or what a request reads
\* under its own keys is complete.  A state that violates this violates both.
RestoresAreSound ==
    \/ TierHoldsItsKeys
    \/ phase = "forward" /\ Flushed =>
          \A r \in Req : batch[r] > 0 =>
              \A i \in ReadChunks(r) : HasItsKey(r, i) => HasItsTokens(r, i)

Uncopied == {j \in DOMAIN transfers : transfers[j].left # {}}
BlocksOf(j) == {p[1] : p \in transfers[j].pairs}
SlotsUsed(j) == {p[2] : p \in transfers[j].pairs}

\* When the model runs, it writes no block that a transfer still reads or
\* writes, except for the very chunks a deferred store waits for and chunks
\* computed again into the block that holds them; and no load is started into
\* a block another transfer uses.
GpuTransfersUndisturbed ==
    phase = "forward" /\ Flushed =>
        /\ \A j \in Uncopied : \A r \in Req : \A i \in WrittenChunks(r) :
              table[r][i] \in BlocksOf(j) =>
                  \/ transfers[j].at = "queued" /\ transfers[j].req = r
                  \/ gpu[table[r][i]] = ChunkOf(r, i, computed[r])
        /\ \A j \in LoadsToStart : \A i \in Uncopied \ {j} :
              BlocksOf(j) \cap BlocksOf(i) = {}

\* No CPU slot is read by a load while a store may be writing it, stores from
\* before a reset included.  The other way round one case is left to the
\* worker: a store made and flushed in the first step after a reset, while a
\* load from before it still runs; both are waited for in that step.
CpuTransfersUndisturbed ==
    \A i, j \in {t \in Uncopied : transfers[t].at = "running"} :
        /\ transfers[i].is_store /\ ~transfers[j].is_store
        /\ SlotsUsed(i) \cap SlotsUsed(j) # {}
        => JobStale(j) /\ ~JobStale(i) /\ {i, j} \subseteq waitFor

\* No transfer in flight is disturbed at either end of the copy.
TransfersUndisturbed == GpuTransfersUndisturbed /\ CpuTransfersUndisturbed

\* Every report of the workers that is not stale finds its job, its request,
\* the pins or pending blocks in the manager, and its fences.
ReportsFindTheirJobs ==
    \A j \in DOMAIN outs : ~JobStale(j) =>
        /\ j \in DOMAIN jobs
        /\ jobs[j].req \in tracked
        /\ outs[j] <= jobs[j].pending
        /\ ~jobs[j].is_store => CompleteLoadAsserts(jobs[j].keys)
        /\ jobs[j].is_store => jobs[j].keys \subseteq WritePending
        /\ \A b \in jobs[j].fenced : j \in pendingOf[b]
        /\ Finished(jobs[j].req) => \A b \in jobs[j].deferred : j \in pendingOf[b]

\* The fences watch exactly the blocks that stores in flight may lose.
FencesExact ==
    \A b \in GpuBlock :
        pendingOf[b] = {j \in DOMAIN jobs :
            b \in jobs[j].fenced \/ (b \in jobs[j].deferred /\ Finished(jobs[j].req))}

\* The connector's tables agree with the manager, the fences and the reports
\* of the workers, whatever ends, is preempted or reset in between.
JobsConsistent == TypeOK /\ ReportsFindTheirJobs /\ FencesExact

\* All of it, for an engine that moves its window and has two workers.
EngineIsSafe == TierHoldsItsKeys /\ TransfersUndisturbed /\ JobsConsistent

\* An ended request gives back its blocks and is forgotten by the connector:
\* the engine keeps stepping for it.  (Ended requests stay ended, so that this
\* is Finished(r) leading to the rest.)
EndedRequestsAreForgotten ==
    \A r \in Req : []<>(Finished(r) => r \notin tracked /\ table[r] = <<>>)

\* No block of the tier stays pinned or pending for ever, so that it can be
\* evicted again: every transfer reaches complete_load or complete_store.
TierBlocksAreLetGo ==
    \A k \in Key : []<>(k \notin Cached \ Evictable)

\* Nothing the engine starts for a request stays behind it.
EverythingEnds == EndedRequestsAreForgotten /\ TierBlocksAreLetGo
=============================================================================
